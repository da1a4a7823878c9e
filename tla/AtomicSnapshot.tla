--------------------------- MODULE AtomicSnapshot ---------------------------
(***************************************************************************)
(* What the persistent memory promises to the virtual machine, with no     *)
(* pages, faults or disk: the program sees plain memory; a snapshot is the *)
(* memory at one instant; it replaces the previous one in a single step,   *)
(* and what a restart would find on disk changes in no other way.          *)
(***************************************************************************)
CONSTANTS Page, Val

VARIABLES
  mem,      \* the memory the program reads and writes
  shot,     \* the snapshot being made, or the durable one when none is
  making,   \* a snapshot has been taken and is not yet durable
  durable   \* the memory a restart would begin with

absVars == <<mem, shot, making, durable>>

AbsTypeOK == /\ mem \in [Page -> Val] /\ shot \in [Page -> Val]
             /\ durable \in [Page -> Val] /\ making \in BOOLEAN

Init == /\ mem \in [Page -> Val]
        /\ shot = mem /\ durable = mem
        /\ making = FALSE

Store == /\ \E p \in Page, v \in Val : mem' = [mem EXCEPT ![p] = v]
         /\ UNCHANGED <<shot, making, durable>>

Take == /\ ~making /\ making' = TRUE
        /\ shot' = mem
        /\ UNCHANGED <<mem, durable>>

Commit == /\ making /\ making' = FALSE
          /\ durable' = shot
          /\ UNCHANGED <<mem, shot>>

Next == Store \/ Take \/ Commit

Spec == Init /\ [][Next]_absVars
=============================================================================
