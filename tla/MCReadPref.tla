----------------------------- MODULE MCReadPref -----------------------------
(* Two readers and a writer, for TLC. *)
EXTENDS ReadPref, TLC

CONSTANTS rk, wk, s1, r1, r2, w1, e1, e2, h1, h2

Ask(key, max, rw) ==
  [key |-> key, from |-> {s1}, max |-> max, limit |-> 0, rw |-> rw,
   finite |-> TRUE, wait |-> TRUE, force |-> FALSE]

\* rw-client.ts asks for the write key by force, but no lock frame of client.ts
\* carries the option.
ReadPrefReq == [u \in {r1, r2} |-> Ask(rk, 10, "begin-read")]
            @@ [u \in {e1, e2} |-> Ask(rk, 1, "end-read")]
            @@ [u \in {h1, h2} |-> Ask(wk, 0, "none")]
            @@ w1 :> Ask(wk, 1, "begin-write")
Ends  == r1 :> e1 @@ r2 :> e2
Holds == r1 :> h1 @@ r2 :> h2
NoMany == <<>>
=============================================================================
