---------------------------- MODULE PooledObject ----------------------------
(***************************************************************************)
(* What a pool of per-stream objects promises, seen from one object: it    *)
(* serves one stream at a time, and it is free for the next stream only    *)
(* when nothing executes on behalf of the previous one.                    *)
(***************************************************************************)
EXTENDS Naturals

VARIABLES
  slot,   \* "free", "used" by a stream, or "dropped" while still referred to
  users   \* executions in progress that refer to the object

vars == <<slot, users>>

Init == slot = "free" /\ users = 0

Take == slot = "free" /\ slot' = "used" /\ UNCHANGED users
Fork == slot = "used" /\ users' = users + 1 /\ UNCHANGED slot
Join == users > 0 /\ users' = users - 1 /\ UNCHANGED slot
Release == slot = "used" /\ users = 0 /\ slot' = "free" /\ UNCHANGED users
Drop == slot = "used" /\ slot' = "dropped" /\ UNCHANGED users
Collect == slot = "dropped" /\ users = 0 /\ slot' = "free" /\ UNCHANGED users

Next == Take \/ Fork \/ Join \/ Release \/ Drop \/ Collect

Spec == Init /\ [][Next]_vars
=============================================================================
