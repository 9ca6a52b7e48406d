------------------------------- MODULE MCLegacy -------------------------------
(* Calls for TLC: three on a semaphore with two slots, of two clients.     *)
EXTENDS Legacy, TLC

CONSTANTS k1, s1, s2, a, b, c

Plain(from) == [key |-> k1, from |-> from, max |-> 2, limit |-> 0, rw |-> "none",
                finite |-> TRUE, wait |-> TRUE, force |-> FALSE]
LegacyReq == a :> Plain({s1}) @@ b :> Plain({s2})
          @@ c :> [Plain({s2}) EXCEPT !.finite = FALSE, !.force = TRUE]
ARetries == a :> 2 @@ b :> 1 @@ c :> 1
NoMany == <<>>
=============================================================================
