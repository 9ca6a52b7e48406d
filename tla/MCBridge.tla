------------------------------- MODULE MCBridge -------------------------------
(* HTTP callers for TLC: one asks for a mutex, one for it and another.     *)
EXTENDS Bridge, TLC

CONSTANTS k1, k2, v, s1, a, m1

HttpReq == [u \in {a} |-> [key |-> k1, from |-> {v}, max |-> 0, limit |-> 0,
                           rw |-> "none", finite |-> TRUE, wait |-> TRUE, force |-> FALSE]]
HttpMany == m1 :> [keys |-> <<k1, k2>>, from |-> v, finite |-> TRUE, wait |-> TRUE]
ClockAtZero == {0}
=============================================================================
