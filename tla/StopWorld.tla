----------------------------- MODULE StopWorld -----------------------------
(***************************************************************************)
(* What the snapshot interlock promises to the snapshot thread, with no    *)
(* counters, locks or condition variables: once the world is asked to stop *)
(* no thread of the virtual machine begins an instruction, the world is    *)
(* stopped only when none is inside one, and it stays so until it is       *)
(* released.                                                               *)
(***************************************************************************)
CONSTANT Thread

VARIABLES
  world,   \* "running", "stopping" or "stopped"
  busy     \* the threads inside a bytecode instruction

stopVars == <<world, busy>>

Init == world = "running" /\ busy = {}

Begin(t) == /\ world = "running"
            /\ busy' = busy \cup {t}
            /\ UNCHANGED world

End(t) == /\ busy' = busy \ {t}
          /\ UNCHANGED world

Ask == /\ world = "running" /\ world' = "stopping"
       /\ UNCHANGED busy

Stop == /\ world = "stopping" /\ world' = "stopped"
        /\ busy = {}
        /\ UNCHANGED busy

Release == /\ world = "stopped" /\ world' = "running"
           /\ UNCHANGED busy

Next == Ask \/ Stop \/ Release \/ \E t \in Thread : Begin(t) \/ End(t)

Spec == Init /\ [][Next]_stopVars
=============================================================================
