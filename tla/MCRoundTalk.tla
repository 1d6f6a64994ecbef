----------------------------- MODULE MCRoundTalk -----------------------------
(* A small instance of RoundTalk: three seats of whom two share a term. *)
EXTENDS RoundTalk

CONSTANTS s1, s2, s3

MCOrder == <<s1, s2, s3>>
MCWords == [s \in {s1, s2, s3} |-> IF s = s3 THEN {"x"} ELSE {"x", "y"}]
=============================================================================
