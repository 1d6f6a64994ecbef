--------------------------- MODULE MCDelibLedger ----------------------------
(***************************************************************************)
(* A small instance of DelibLedger: two jobs through three processes, of   *)
(* two rounds unless the processes overlap; or three jobs of one round     *)
(* through two processes, with a continue call that awaits the subject of  *)
(* the job it has read.                                                    *)
(***************************************************************************)
EXTENDS DelibLedger

CONSTANTS j1, j2, j3

OneRound == \A p \in Procs, j \in Jobs : Len(proc'[p].jobs[j].turns) <= 1

TwoJobs == disk'.led[j3] = disk.led[j3] /\ disk'.args[j3] = disk.args[j3]

TwoProcs == proc'[3].up = "off"

\* The job of somebody else, who continues the owner's, stays in the line; it
\* comes to it where either processes overlap or calls wait.
OthersWait ==
    \A k \in Jobs \ Started, p \in Procs : LET r == proc'[p].jobs[k] IN
        r.st # "none" /\ r.from = NoJob =>
           /\ r.st = "queued"
           /\ \/ proc[p].up = "off"
              \/ proc[p].jobs[k].st # "none"
              \/ overlaps # asks

MCNext ==
    /\ Next
    /\ OthersWait
    /\ overlaps \/ asks => OneRound
    /\ asks => TwoProcs
    /\ ~asks => TwoJobs
MCSpec == Init /\ [][MCNext]_vars
=============================================================================
