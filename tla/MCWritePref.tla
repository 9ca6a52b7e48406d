---------------------------- MODULE MCWritePref ----------------------------
(* Readers and writers of one key, for TLC. *)
EXTENDS WritePref, TLC

CONSTANTS k1, s1, r1, r2, w1, w2

Ask(max) == [key |-> k1, from |-> {s1}, max |-> max, limit |-> 0, rw |-> "none",
             finite |-> FALSE, wait |-> TRUE, force |-> FALSE]

\* A reader asks for ten slots, a writer for one.
RWReq == [p \in Uuids |-> Ask(IF p \in Writers THEN 1 ELSE 10)]
NoMany == <<>>

OnceOrTwice == r1 :> 2 @@ r2 :> 1 @@ w1 :> 2 @@ w2 :> 1
=============================================================================
