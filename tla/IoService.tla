------------------------------ MODULE IoService ------------------------------
(***************************************************************************)
(* What the callers of the disk queue count on, and what VmMap takes for   *)
(* granted: a request that is submitted is either withdrawn before its     *)
(* transfer, or transferred once and then reported to its owner once.      *)
(***************************************************************************)
CONSTANT Request

VARIABLE state   \* request -> where it is

Submit(r) == state[r] = "idle" /\ state' = [state EXCEPT ![r] = "queued"]
Withdraw(r) == state[r] = "queued" /\ state' = [state EXCEPT ![r] = "idle"]
Transfer(r) == state[r] = "queued" /\ state' = [state EXCEPT ![r] = "moved"]
Report(r) == state[r] = "moved" /\ state' = [state EXCEPT ![r] = "idle"]

Init == state = [r \in Request |-> "idle"]
Next == \E r \in Request : Submit(r) \/ Withdraw(r) \/ Transfer(r) \/ Report(r)
Spec == Init /\ [][Next]_state
=============================================================================
