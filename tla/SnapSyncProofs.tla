--------------------------- MODULE SnapSyncProofs ---------------------------
(***************************************************************************)
(* Proofs about the snapshot interlock, for any finite set of threads.     *)
(*                                                                         *)
(* The count of stopped threads is exact whatever threads do.  When at     *)
(* most one thread is created, none ends and no shutdown is made (OneNew), *)
(* the interlock implements StopWorld: it stops every thread.              *)
(***************************************************************************)
EXTENDS SnapSync, FiniteSetTheorems, TLAPS

(* The time limits of the provers. *)
USE SMTT(30), ZenonT(30)


Asked == {"count", "enter", "enter_wait", "recount", "snap", "reenable"}

(* The request stays up from Ask to Reenable. *)
RequestUp == spc \in Asked => snap_request >= 1

CInv == TypeOK /\ StoppedExact /\ RequestUp

-----------------------------------------------------------------------------
(* Moving one thread changes the set of stopped threads by that thread only. *)

LEMMA InFinite ==
  ASSUME NEW places
  PROVE  /\ IsFiniteSet(In(places))
         /\ Cardinality(In(places)) \in Nat
<1>1. In(places) \subseteq Thread
  BY DEF In
<1>. QED
  BY <1>1, ThreadAssumption, FS_Subset, FS_CardinalityType

LEMMA StaysPut ==
  ASSUME TypeOK, NEW t \in Thread, NEW to \in Pc,
         pc' = [pc EXCEPT ![t] = to], pc[t] \in Stopped <=> to \in Stopped
  PROVE  In(Stopped)' = In(Stopped)
BY DEF TypeOK, In

LEMMA ComesIn ==
  ASSUME TypeOK, NEW t \in Thread, NEW to \in Stopped,
         pc' = [pc EXCEPT ![t] = to], pc[t] \notin Stopped
  PROVE  Cardinality(In(Stopped)') = Cardinality(In(Stopped)) + 1
<1>1. In(Stopped)' = In(Stopped) \cup {t} /\ t \notin In(Stopped)
  BY DEF TypeOK, In
<1>. QED
  BY <1>1, InFinite, FS_AddElement, ZenonT(30)

LEMMA GoesOut ==
  ASSUME TypeOK, NEW t \in Thread, NEW to \in Pc \ Stopped,
         pc' = [pc EXCEPT ![t] = to], pc[t] \in Stopped
  PROVE  /\ Cardinality(In(Stopped)') = Cardinality(In(Stopped)) - 1
         /\ Cardinality(In(Stopped)') \in Nat
<1>1. In(Stopped)' = In(Stopped) \ {t} /\ t \in In(Stopped)
  BY DEF TypeOK, In
<1>2. Cardinality(In(Stopped) \ {t}) = Cardinality(In(Stopped)) - 1
  BY <1>1, InFinite, FS_RemoveElement, ZenonT(30)
<1>3. IsFiniteSet(In(Stopped) \ {t})
  BY InFinite, FS_Subset
<1>. QED
  BY <1>1, <1>2, <1>3, FS_CardinalityType

-----------------------------------------------------------------------------
(* CInv is inductive.  Steps are grouped by what they do to the count.       *)

LEMMA CInvInit == Init => CInv
<1>. SUFFICES ASSUME Init PROVE CInv
  OBVIOUS
<1>1. TypeOK
  <2>1. Cardinality(Started) \in Nat
    BY ThreadAssumption, FS_Subset, FS_CardinalityType
  <2>2. pc \in [Thread -> Pc]
    BY DEF Init, Pc
  <2>3. spc \in SnapperPc /\ stop_request \in BOOLEAN /\ final \in BOOLEAN
    BY ZenonT(30) DEF Init, SnapperPc
  <2>. QED
    BY <2>1, <2>2, <2>3 DEF Init, TypeOK
<1>2. In(Stopped) = {}
  BY DEF Init, In, Stopped
<1>3. StoppedExact
  BY <1>2, FS_EmptySet DEF Init, StoppedExact
<1>. QED
  BY <1>1, <1>3 DEF CInv, Init, RequestUp, Asked

(* Steps of a thread that leave it as stopped or running as it was. *)
KeepsCount(t) ==
  \/ ArgLoad(t) \/ ArgStore(t) \/ CountLoad(t) \/ CountStore(t)
  \/ CheckRequest(t) \/ InstructionDone(t) \/ ReturnFromExec(t)
  \/ TestStopRequest(t) \/ BlockingCall(t) \/ BlockTestStop(t) \/ WorkerReturns(t)
  \/ SpawnCall(t) \/ SpawnLoad(t) \/ Spawned(t) \/ BlockSleep(t)
  \/ ReturnLoad(t) \/ ReturnStore(t) \/ DeathHandler(t)

LEMMA KeepsCountStep ==
  ASSUME CInv, NEW t \in Thread, KeepsCount(t)
  PROVE  CInv'
<1>. USE DEF CInv
<1>1. PICK to \in Pc : /\ pc' = [pc EXCEPT ![t] = to]
                       /\ pc[t] \in Stopped <=> to \in Stopped
  BY DEF KeepsCount, ArgLoad, ArgStore, CountLoad, CountStore, CheckRequest,
         InstructionDone, ReturnFromExec, TestStopRequest, BlockingCall, BlockTestStop,
         WorkerReturns, SpawnCall, SpawnLoad, Spawned, BlockSleep, ReturnLoad,
         ReturnStore, DeathHandler, Goto, Stopped, Executing, Pc
<1>2. /\ threads_stopped' = threads_stopped /\ UNCHANGED <<requests, snapper, fin>>
      /\ reg' \in [Thread -> Int] /\ n_vm_threads' \in Int /\ args_used' \in Int
  BY DEF KeepsCount, ArgLoad, ArgStore, CountLoad, CountStore, CheckRequest,
         InstructionDone, ReturnFromExec, TestStopRequest, BlockingCall, BlockTestStop,
         WorkerReturns, SpawnCall, SpawnLoad, Spawned, BlockSleep, ReturnLoad,
         ReturnStore, DeathHandler, Load, Stored, counts, requests, snapper, TypeOK
<1>3. In(Stopped)' = In(Stopped)
  BY <1>1, StaysPut, ZenonT(30)
<1>4. StoppedExact'
  BY <1>2, <1>3 DEF StoppedExact
<1>5. TypeOK'
  BY <1>1, <1>2, ZenonT(30) DEF TypeOK, requests, snapper
<1>6. RequestUp'
  BY <1>2 DEF RequestUp, requests, snapper
<1>. QED
  BY <1>4, <1>5, <1>6

LEMMA EntersStep ==
  ASSUME CInv, NEW t \in Thread, Sleep(t) \/ BlockEnter(t)
  PROVE  CInv'
<1>. USE DEF CInv
<1>1. PICK to \in Stopped : pc' = [pc EXCEPT ![t] = to] /\ pc[t] \notin Stopped
  BY DEF Sleep, BlockEnter, Goto, Stopped
<1>2. /\ threads_stopped' = threads_stopped + 1
      /\ UNCHANGED <<reg, requests, counts, threads_4_wait, final, fin>>
      /\ spc' = IF spc = "enter_wait" THEN "enter" ELSE spc
  BY DEF Sleep, BlockEnter, BroadcastEnter
<1>3. StoppedExact'
  BY <1>1, <1>2, ComesIn, ZenonT(30) DEF StoppedExact
<1>4. TypeOK'
  BY <1>1, <1>2 DEF TypeOK, requests, counts, Pc, SnapperPc
<1>5. RequestUp'
  BY <1>2 DEF RequestUp, requests, Asked
<1>. QED
  BY <1>3, <1>4, <1>5

LEMMA LeavesStep ==
  ASSUME CInv, NEW t \in Thread, Wake(t) \/ BlockLeave(t) \/ BlockWake(t)
  PROVE  CInv'
<1>. USE DEF CInv
<1>1. pc' = [pc EXCEPT ![t] = "instr"] /\ pc[t] \in Stopped
  BY DEF Wake, BlockLeave, BlockWake, Goto, Stopped
<1>2. /\ threads_stopped' = threads_stopped - 1
      /\ UNCHANGED <<reg, requests, counts, threads_4_wait, final, fin>>
      /\ spc' = IF spc = "leave_wait" THEN "leave" ELSE spc
  BY DEF Wake, BlockLeave, BlockWake, BroadcastLeave
<1>3. /\ "instr" \in Pc \ Stopped
  BY DEF Pc, Executing, Stopped
<1>4. StoppedExact' /\ threads_stopped' \in Nat
  BY <1>1, <1>2, <1>3, GoesOut, ZenonT(30) DEF StoppedExact
<1>5. TypeOK'
  BY <1>1, <1>2, <1>3, <1>4 DEF TypeOK, requests, counts, SnapperPc
<1>6. RequestUp'
  BY <1>2 DEF RequestUp, requests, Asked
<1>. QED
  BY <1>4, <1>5, <1>6

LEMMA SpawnStep ==
  ASSUME CInv, NEW t \in Thread, SpawnStore(t)
  PROVE  CInv'
<1>. USE DEF CInv
<1>1. PICK u \in Thread : /\ pc[u] = "none"
                          /\ pc' = [pc EXCEPT ![t] = "spawn_wait", ![u] = "arg"]
  BY ZenonT(30) DEF SpawnStore
<1>2. In(Stopped)' = In(Stopped)
  BY <1>1 DEF SpawnStore, In, Stopped, TypeOK
<1>3. StoppedExact'
  BY <1>2 DEF StoppedExact, SpawnStore
<1>4. TypeOK'
  BY <1>1 DEF TypeOK, SpawnStore, Stored, requests, snapper, Pc, Executing
<1>5. RequestUp'
  BY DEF RequestUp, SpawnStore, requests, snapper
<1>. QED
  BY <1>3, <1>4, <1>5

(* The broadcast to the threads moves sleepers, none of them out of Stopped. *)
LEMMA AwakenKeepsCount ==
  ASSUME TypeOK, pc' = pc \/ pc' = Awaken
  PROVE  In(Stopped)' = In(Stopped) /\ pc' \in [Thread -> Pc]
BY DEF In, Awaken, Stopped, TypeOK, Pc

LEMMA OtherSteps ==
  ASSUME CInv, SnapperStep \/ ShutdownStop \/ ShutdownRequest
  PROVE  CInv'
<1>. USE DEF CInv
<1>1. pc' = pc \/ pc' = Awaken
  BY DEF SnapperStep, SnapshotLoop, Ask, CountThreads, WaitEnter, Recount, Mark, Reenable,
         TestOthers, WaitLeave, ShutdownStop, ShutdownRequest
<1>2. UNCHANGED <<reg, threads_stopped, counts>>
  BY DEF SnapperStep, SnapshotLoop, Ask, CountThreads, WaitEnter, Recount, Mark, Reenable,
         TestOthers, WaitLeave, ShutdownStop, ShutdownRequest
<1>3. StoppedExact'
  BY <1>1, <1>2, AwakenKeepsCount DEF StoppedExact
<1>4. RequestUp' /\ snap_request' \in Nat
  BY DEF SnapperStep, SnapshotLoop, Ask, CountThreads, WaitEnter, Recount, Mark, Reenable,
         TestOthers, WaitLeave, ShutdownStop, ShutdownRequest, AfterLeave, SnapshotOver,
         RequestUp, Asked, requests, snapper, TypeOK
<1>5. /\ stop_request' \in BOOLEAN /\ spc' \in SnapperPc /\ threads_4_wait' \in Int
      /\ final' \in BOOLEAN /\ fin' \in {"up", "request", "poll", "off"}
  BY ZenonT(30) DEF SnapperStep, SnapshotLoop, Ask, CountThreads, WaitEnter, Recount, Mark, Reenable,
         TestOthers, WaitLeave, ShutdownStop, ShutdownRequest, AfterLeave, SnapshotOver,
         requests, snapper, TypeOK, SnapperPc
<1>6. TypeOK'
  BY <1>1, <1>2, <1>4, <1>5, AwakenKeepsCount DEF TypeOK, counts
<1>. QED
  BY <1>3, <1>4, <1>6

LEMMA CInvStep == CInv /\ [Next]_vars => CInv'
<1>. SUFFICES ASSUME CInv, [Next]_vars PROVE CInv'
  OBVIOUS
<1>1. CASE SnapperStep \/ ShutdownStop \/ ShutdownRequest
  BY <1>1, OtherSteps
<1>2. ASSUME NEW t \in Thread, ThreadStep(t) PROVE CInv'
  <2>1. CASE KeepsCount(t)
    BY <2>1, KeepsCountStep
  <2>2. CASE Sleep(t) \/ BlockEnter(t)
    BY <2>2, EntersStep
  <2>3. CASE Wake(t) \/ BlockLeave(t) \/ BlockWake(t)
    BY <2>3, LeavesStep
  <2>4. CASE SpawnStore(t)
    BY <2>4, SpawnStep
  <2>. QED
    BY <1>2, <2>1, <2>2, <2>3, <2>4 DEF ThreadStep, LockStep, KeepsCount
<1>3. CASE UNCHANGED vars
  BY <1>3 DEF CInv, vars, TypeOK, StoppedExact, In, RequestUp
<1>. QED
  BY <1>1, <1>2, <1>3 DEF Next

(* The types of the interlock's variables; in particular no counter that is  *)
(* compared with 0 under the mutex goes below it.                            *)
THEOREM InterlockTypes == Spec => []TypeOK
<1>1. CInv => TypeOK
  BY DEF CInv
<1>. QED
  BY <1>1, CInvInit, CInvStep, PTL DEF Spec

(* threads_stopped is exact with any number of threads that start, return,   *)
(* block and are shut down in any order.                                     *)
THEOREM StoppedCountExact == Spec => []StoppedExact
<1>1. CInv => StoppedExact
  BY DEF CInv
<1>. QED
  BY <1>1, CInvInit, CInvStep, PTL DEF Spec

-----------------------------------------------------------------------------
(* At most one thread is created after the start of the system, no thread    *)
(* returns and no shutdown is made.                                          *)
OneNew == /\ \A t, u \in Thread \ Started : t = u
          /\ Returning = {} /\ ~MayShutdown

(* A thread before it has counted itself in n_vm_threads. *)
Early == {"none", "arg", "arg_st", "cnt", "cnt_st"}
LivePc == Pc \ {"ret", "ret_st", "zombie", "dead"}
Leaving == {"leave", "leave_wait"}
Counted == Thread \ In(Early)

(* The request is up exactly from Ask to Reenable, and n_vm_threads is the   *)
(* number of threads that have counted themselves.  Past its wait the        *)
(* snapper has seen as many threads stopped as it waited for; none of them   *)
(* can go on before the broadcast, and none is still on its way out when the *)
(* next request comes, because the snapper waits for that too.               *)
SInv ==
  /\ CInv
  /\ \A t \in Thread : pc[t] \in LivePc
  /\ \A t \in Started : pc[t] \notin Early
  /\ n_vm_threads = Cardinality(Counted)
  /\ \A t \in Thread : pc[t] = "cnt_st" => reg[t] = n_vm_threads
  /\ stop_request = FALSE /\ fin = "up"
  /\ snap_request = IF spc \in Asked THEN 1 ELSE 0
  /\ spc = "recount" => threads_stopped >= threads_4_wait
  /\ spc \in {"snap", "reenable"} => In(Executing) = {}
  /\ \A t \in Thread : pc[t] \in {"woken", "blk_woken"} => spc \in Leaving

LEMMA SInvInit == ASSUME OneNew PROVE Init => SInv
<1>. SUFFICES ASSUME Init PROVE SInv
  OBVIOUS
<1>1. CInv
  BY CInvInit
<1>2. \A t \in Thread : pc[t] = IF t \in Started THEN "loop" ELSE "none"
  BY DEF Init
<1>3. Counted = Started
  BY <1>2, ThreadAssumption DEF Counted, In, Early
<1>4. \A t \in Thread : pc[t] \in LivePc
  BY <1>2 DEF LivePc, Pc
<1>5. \A t \in Started : pc[t] \notin Early
  BY <1>2, ThreadAssumption DEF Early
<1>. QED
  BY <1>1, <1>2, <1>3, <1>4, <1>5 DEF SInv, Init, Asked

(* Without returns and shutdowns a thread makes only these steps. *)
Runs(t) ==
  \/ CheckRequest(t) \/ InstructionDone(t) \/ TestStopRequest(t)
  \/ BlockingCall(t) \/ BlockTestStop(t) \/ WorkerReturns(t) \/ BlockSleep(t)
  \/ SpawnCall(t) \/ SpawnLoad(t) \/ Spawned(t)

Begins(t) == ArgLoad(t) \/ ArgStore(t) \/ CountLoad(t)

LEMMA OneNewSteps ==
  ASSUME OneNew, SInv, NEW t \in Thread, ThreadStep(t)
  PROVE  \/ Runs(t) \/ Begins(t) \/ CountStore(t) \/ SpawnStore(t)
         \/ Sleep(t) \/ BlockEnter(t) \/ Wake(t) \/ BlockLeave(t) \/ BlockWake(t)
<1>1. pc[t] \in LivePc
  BY DEF SInv
<1>2. ~ReturnFromExec(t)
  BY DEF OneNew, ReturnFromExec
<1>3. ~ReturnLoad(t) /\ ~ReturnStore(t) /\ ~DeathHandler(t)
  BY <1>1 DEF LivePc, ReturnLoad, ReturnStore, DeathHandler, Goto
<1>. QED
  BY <1>2, <1>3, ZenonT(30) DEF ThreadStep, LockStep, Runs, Begins

(* When as many threads are stopped as are counted, those are the ones, and  *)
(* none is inside an instruction.                                            *)
LEMMA AllStopped ==
  ASSUME CInv, threads_stopped >= Cardinality(Counted)
  PROVE  In(Executing) = {}
<1>1. In(Stopped) \subseteq Counted
  BY DEF In, Counted, Early, Stopped
<1>2. IsFiniteSet(Counted)
  BY ThreadAssumption, FS_Subset DEF Counted
<1>3. Cardinality(In(Stopped)) <= Cardinality(Counted)
  BY <1>1, <1>2, FS_Subset
<1>4. Cardinality(In(Stopped)) = Cardinality(Counted)
  BY <1>2, <1>3, InFinite, FS_CardinalityType DEF CInv, StoppedExact
<1>5. In(Stopped) = Counted
  BY <1>1, <1>2, <1>4, FS_Subset
<1>. QED
  BY <1>5 DEF In, Counted, Early, Stopped, Executing

(* Nobody is stopped when the count is 0. *)
LEMMA NoneStopped ==
  ASSUME CInv, threads_stopped = 0
  PROVE  \A t \in Thread : pc[t] \notin Stopped
<1>1. In(Stopped) = {}
  BY InFinite, FS_EmptySet, ZenonT(30) DEF CInv, StoppedExact
<1>. QED
  BY <1>1 DEF In

-----------------------------------------------------------------------------
(* SInv is inductive. *)

(* A thread moves, and stays as counted or uncounted as it was. *)
LEMMA MoveKeeps ==
  ASSUME SInv, CInv', NEW t \in Thread, NEW to \in LivePc,
         pc' = [pc EXCEPT ![t] = to],
         pc[t] \in Early <=> to \in Early,
         UNCHANGED <<requests, n_vm_threads, threads_4_wait, final, fin>>,
         \A u \in Thread \ {t} : reg'[u] = reg[u],
         to = "cnt_st" => reg'[t] = n_vm_threads,
         to \notin {"woken", "blk_woken"},
         \/ spc' = spc
         \/ spc = "enter_wait" /\ spc' = "enter"
         \/ spc = "leave_wait" /\ spc' = "leave",
         spc = "recount" => threads_stopped' >= threads_stopped,
         to \in Executing => spc \notin Asked \/ pc[t] \in Executing
  PROVE  SInv'
<1>0. pc \in [Thread -> Pc] /\ threads_stopped \in Int /\ threads_stopped' \in Int
      /\ threads_4_wait \in Int
  BY DEF SInv, CInv, TypeOK
<1>1. \A u \in Thread : pc'[u] = IF u = t THEN to ELSE pc[u]
  BY <1>0
<1>2. In(Early)' = In(Early)
  BY <1>1 DEF In
<1>3. /\ \A u \in Thread : pc'[u] \in LivePc
      /\ \A u \in Started : pc'[u] \notin Early
  BY <1>1, ThreadAssumption DEF SInv
<1>4. n_vm_threads' = Cardinality(Counted)'
  BY <1>2 DEF SInv, Counted
<1>5. \A u \in Thread : pc'[u] = "cnt_st" => reg'[u] = n_vm_threads'
  BY <1>1 DEF SInv
<1>6. snap_request' = IF spc' \in Asked THEN 1 ELSE 0
  BY DEF SInv, Asked, requests
<1>7. spc' = "recount" => threads_stopped' >= threads_4_wait'
  BY <1>0 DEF SInv
<1>8. spc' \in {"snap", "reenable"} => In(Executing)' = {}
  BY <1>1 DEF SInv, In, Asked
<1>9. \A u \in Thread : pc'[u] \in {"woken", "blk_woken"} => spc' \in Leaving
  BY <1>1 DEF SInv, Leaving
<1>. QED
  BY <1>3, <1>4, <1>5, <1>6, <1>7, <1>8, <1>9 DEF SInv, requests

LEMMA SInvThread ==
  ASSUME OneNew, SInv, CInv', NEW t \in Thread, ThreadStep(t)
  PROVE  SInv'
<1>0. /\ pc \in [Thread -> Pc] /\ reg \in [Thread -> Int] /\ n_vm_threads \in Int
      /\ threads_stopped \in Int
  BY DEF SInv, CInv, TypeOK
<1>1. CASE Runs(t)
  <2>1. PICK to \in LivePc \ Early :
          /\ pc' = [pc EXCEPT ![t] = to] /\ pc[t] \notin Early
          /\ to \notin {"woken", "blk_woken"}
          /\ to \in Executing => snap_request = 0 \/ pc[t] \in Executing
    <3>1. stop_request = FALSE
      BY DEF SInv
    <3>. QED
      BY <1>1, <3>1 DEF Runs, CheckRequest, InstructionDone, TestStopRequest, BlockingCall,
         BlockTestStop, WorkerReturns, BlockSleep, SpawnCall, SpawnLoad, Spawned, Goto,
         LivePc, Pc, Executing, Stopped, Early
  <2>2. UNCHANGED <<requests, threads_stopped, n_vm_threads, snapper, fin>>
    BY <1>1 DEF Runs, CheckRequest, InstructionDone, TestStopRequest, BlockingCall,
       BlockTestStop, WorkerReturns, BlockSleep, SpawnCall, SpawnLoad, Spawned, counts
  <2>3. \A u \in Thread \ {t} : reg'[u] = reg[u]
    BY <1>0, <1>1 DEF Runs, CheckRequest, InstructionDone, TestStopRequest, BlockingCall,
       BlockTestStop, WorkerReturns, BlockSleep, SpawnCall, SpawnLoad, Spawned, Load
  <2>4. to # "cnt_st" /\ to \in LivePc
    BY DEF Early
  <2>5. to \in Executing => spc \notin Asked \/ pc[t] \in Executing
    BY <2>1 DEF SInv
  <2>6. /\ UNCHANGED <<requests, n_vm_threads, threads_4_wait, final, fin>> /\ spc' = spc
        /\ spc = "recount" => threads_stopped' >= threads_stopped
    BY <1>0, <2>2 DEF snapper
  <2>. QED
    BY <2>1, <2>3, <2>4, <2>5, <2>6, MoveKeeps, ZenonT(30)
<1>2. CASE Begins(t)
  <2>1. PICK to \in Early :
          /\ pc' = [pc EXCEPT ![t] = to] /\ pc[t] \in Early
          /\ to = "cnt_st" => reg' = [reg EXCEPT ![t] = n_vm_threads]
    BY <1>2 DEF Begins, ArgLoad, ArgStore, CountLoad, Goto, Early, Load
  <2>2. UNCHANGED <<requests, threads_stopped, n_vm_threads, snapper, fin>>
    BY <1>2 DEF Begins, ArgLoad, ArgStore, CountLoad, counts
  <2>3. \A u \in Thread \ {t} : reg'[u] = reg[u]
    BY <1>0, <1>2 DEF Begins, ArgLoad, ArgStore, CountLoad, Load, Stored
  <2>4. to \in LivePc /\ to \notin Executing /\ to \notin {"woken", "blk_woken"}
    BY DEF Early, LivePc, Pc, Executing
  <2>5. to = "cnt_st" => reg'[t] = n_vm_threads
    BY <1>0, <2>1
  <2>6. /\ UNCHANGED <<requests, n_vm_threads, threads_4_wait, final, fin>> /\ spc' = spc
        /\ spc = "recount" => threads_stopped' >= threads_stopped
    BY <1>0, <2>2 DEF snapper
  <2>. QED
    BY <2>1, <2>3, <2>4, <2>5, <2>6, MoveKeeps, ZenonT(30)
<1>3. CASE Sleep(t) \/ BlockEnter(t)
  <2>1. PICK to \in {"wait", "blocked"} : pc' = [pc EXCEPT ![t] = to] /\ pc[t] \notin Early
    BY <1>3 DEF Sleep, BlockEnter, Goto, Early
  <2>2. /\ UNCHANGED <<reg, requests, counts, threads_4_wait, final, fin>>
        /\ spc' = IF spc = "enter_wait" THEN "enter" ELSE spc
        /\ threads_stopped' = threads_stopped + 1
    BY <1>3 DEF Sleep, BlockEnter, BroadcastEnter
  <2>3. /\ to \in LivePc /\ to \notin Executing /\ to \notin Early
        /\ to \notin {"woken", "blk_woken"}
    BY DEF Early, LivePc, Pc, Executing, Stopped
  <2>4. to # "cnt_st"
    OBVIOUS
  <2>5. /\ UNCHANGED <<requests, n_vm_threads, threads_4_wait, final, fin>>
        /\ \A u \in Thread \ {t} : reg'[u] = reg[u]
        /\ spc = "recount" => threads_stopped' >= threads_stopped
    BY <1>0, <2>2 DEF counts
  <2>. QED
    BY <2>1, <2>2, <2>3, <2>4, <2>5, MoveKeeps, ZenonT(30)
<1>4. CASE Wake(t) \/ BlockLeave(t) \/ BlockWake(t)
  <2>1. pc' = [pc EXCEPT ![t] = "instr"] /\ pc[t] \notin Early
    BY <1>4 DEF Wake, BlockLeave, BlockWake, Goto, Early
  <2>2. /\ UNCHANGED <<reg, requests, counts, threads_4_wait, final, fin>>
        /\ spc' = IF spc = "leave_wait" THEN "leave" ELSE spc
    BY <1>4 DEF Wake, BlockLeave, BlockWake, BroadcastLeave
  <2>3. spc \notin Asked
    BY <1>4 DEF Wake, BlockLeave, BlockWake, Goto, Leaving, Asked, SInv
  <2>4. "instr" \in LivePc /\ "instr" \notin Early
    BY DEF Early, LivePc, Pc, Executing
  <2>. QED
    BY <1>0, <2>1, <2>2, <2>3, <2>4, MoveKeeps, ZenonT(30) DEF counts, Asked
<1>5. CASE CountStore(t)
  <2>1. /\ pc[t] = "cnt_st" /\ pc' = [pc EXCEPT ![t] = "loop"]
        /\ n_vm_threads' = n_vm_threads + 1
        /\ UNCHANGED <<requests, threads_stopped, snapper, fin>>
    BY <1>5 DEF CountStore, Goto, SInv
  <2>2. \A u \in Thread : pc'[u] = IF u = t THEN "loop" ELSE pc[u]
    BY <1>0, <2>1
  <2>3. Counted' = Counted \cup {t} /\ t \notin Counted
    BY <2>1, <2>2 DEF Counted, In, Early
  <2>4. IsFiniteSet(Counted)
    BY ThreadAssumption, FS_Subset DEF Counted
  <2>5. n_vm_threads' = Cardinality(Counted')
    BY <2>1, <2>3, <2>4, FS_AddElement, ZenonT(30) DEF SInv
  <2>6. \A u \in Thread : pc'[u] # "cnt_st"
    <3>1. t \notin Started
      BY <2>1 DEF SInv, Early
    <3>2. \A u \in Thread : pc[u] = "cnt_st" => u \notin Started
      BY DEF SInv, Early
    <3>. QED
      BY <2>2, <3>1, <3>2 DEF OneNew
  <2>7. /\ \A u \in Thread : pc'[u] \in LivePc
        /\ \A u \in Started : pc'[u] \notin Early
    BY <2>2, ThreadAssumption DEF SInv, LivePc, Pc, Early
  <2>8. In(Executing)' = In(Executing)
    BY <2>1, <2>2 DEF In, Executing
  <2>9. \A u \in Thread : pc'[u] \in {"woken", "blk_woken"} => spc' \in Leaving
    BY <2>1, <2>2 DEF SInv, snapper
  <2>. QED
    BY <2>1, <2>5, <2>6, <2>7, <2>8, <2>9 DEF SInv, requests, snapper
<1>6. CASE SpawnStore(t)
  <2>1. PICK u \in Thread : /\ pc[u] = "none"
                            /\ pc' = [pc EXCEPT ![t] = "spawn_wait", ![u] = "arg"]
    BY <1>6, ZenonT(30) DEF SpawnStore
  <2>2. /\ pc[t] = "spawn_st" /\ reg' = [reg EXCEPT ![t] = 0]
        /\ UNCHANGED <<requests, threads_stopped, n_vm_threads, snapper, fin>>
    BY <1>6 DEF SpawnStore, Stored
  <2>3. \A x \in Thread : pc'[x] = IF x = u THEN "arg" ELSE IF x = t THEN "spawn_wait" ELSE pc[x]
    BY <1>0, <2>1
  <2>4. In(Early)' = In(Early)
    <3>1. \A x \in Thread : pc'[x] \in Early <=> pc[x] \in Early
      <4>. TAKE x \in Thread
      <4>1. CASE x = u
        BY <2>1, <2>3, <4>1, ZenonT(30) DEF Early
      <4>2. CASE x # u /\ x = t
        BY <2>2, <2>3, <4>2 DEF Early
      <4>3. CASE x # u /\ x # t
        BY <2>3, <4>3
      <4>. QED
        BY <4>1, <4>2, <4>3
    <3>. QED
      BY <3>1 DEF In
  <2>5. /\ \A x \in Thread : pc'[x] \in LivePc
        /\ \A x \in Started : pc'[x] \notin Early
    <3>1. u \notin Started
      BY <2>1 DEF SInv, Early
    <3>2. "spawn_wait" \in LivePc /\ "arg" \in LivePc /\ "spawn_wait" \notin Early
      BY DEF LivePc, Pc, Executing, Early
    <3>. QED
      BY <2>3, <3>1, <3>2, ThreadAssumption DEF SInv
  <2>6. n_vm_threads' = Cardinality(Counted)'
    BY <2>2, <2>4 DEF SInv, Counted
  <2>7. \A x \in Thread : pc'[x] = "cnt_st" => reg'[x] = n_vm_threads'
    BY <1>0, <2>2, <2>3 DEF SInv
  <2>8. spc \notin {"snap", "reenable"}
    BY <2>2 DEF SInv, In, Executing
  <2>9. \A x \in Thread : pc'[x] \in {"woken", "blk_woken"} => spc' \in Leaving
    BY <2>2, <2>3 DEF SInv, snapper
  <2>. QED
    BY <2>2, <2>5, <2>6, <2>7, <2>8, <2>9 DEF SInv, requests, snapper
<1>. QED
  BY <1>1, <1>2, <1>3, <1>4, <1>5, <1>6, OneNewSteps, ZenonT(30)

LEMMA SInvSnapper ==
  ASSUME SInv, CInv', SnapperStep
  PROVE  SInv'
<1>0. /\ pc \in [Thread -> Pc] /\ threads_stopped \in Nat /\ n_vm_threads \in Int
      /\ threads_4_wait \in Int
  BY DEF SInv, CInv, TypeOK
<1>1. CASE pc' = pc /\ ~ TestOthers /\ ~ WaitLeave
  <2>1. UNCHANGED <<reg, stop_request, threads_stopped, counts, fin>>
    BY <1>1 DEF SnapperStep, SnapshotLoop, Ask, CountThreads, WaitEnter, Recount, Mark,
                Reenable, requests
  <2>2. In(Early)' = In(Early) /\ In(Executing)' = In(Executing)
    BY <1>1 DEF In
  <2>3. n_vm_threads' = Cardinality(Counted)'
    BY <2>1, <2>2 DEF SInv, Counted, counts
  <2>4. snap_request' = IF spc' \in Asked THEN 1 ELSE 0
    BY <1>1 DEF SnapperStep, SnapshotLoop, Ask, CountThreads, WaitEnter, Recount, Mark,
                Reenable, requests, SInv, Asked
  <2>5. spc' = "recount" => threads_stopped' >= threads_4_wait'
    BY <1>0, <1>1 DEF SnapperStep, SnapshotLoop, Ask, CountThreads, WaitEnter, Recount, Mark,
                Reenable
  <2>6. spc' \in {"snap", "reenable"} => In(Executing) = {}
    <3>1. CASE Recount /\ spc' = "snap"
      <4>1. threads_stopped >= Cardinality(Counted)
        BY <1>0, <3>1 DEF Recount, SInv
      <4>. QED
        BY <4>1, AllStopped DEF SInv
    <3>2. CASE Mark
      BY <3>2 DEF Mark, SInv
    <3>. QED
      BY <1>1, <3>1, <3>2 DEF SnapperStep, SnapshotLoop, Ask, CountThreads, WaitEnter,
                Recount, Reenable
  <2>7. \A t \in Thread : pc'[t] \in {"woken", "blk_woken"} => spc' \in Leaving
    BY <1>1 DEF SnapperStep, SnapshotLoop, Ask, CountThreads, WaitEnter, Recount, Mark,
                Reenable, SInv, Leaving
  <2>. QED
    BY <1>1, <2>1, <2>2, <2>3, <2>4, <2>5, <2>6, <2>7 DEF SInv, counts
<1>2. CASE TestOthers \/ WaitLeave
  <2>1. /\ UNCHANGED <<reg, requests, threads_stopped, counts, fin>>
        /\ spc \notin Asked /\ spc' = AfterLeave /\ (pc' = pc \/ pc' = Awaken)
    BY <1>2 DEF TestOthers, WaitLeave, SInv, Asked
  <2>2. \A t \in Thread : \/ pc'[t] = pc[t]
                          \/ pc'[t] \in {"woken", "blk_woken"} /\ pc[t] \in Stopped
    <3>1. \A t \in Thread :
             \/ Awaken[t] = pc[t]
             \/ Awaken[t] \in {"woken", "blk_woken"} /\ pc[t] \in Stopped
      BY DEF Awaken, Stopped
    <3>. QED
      BY <2>1, <3>1
  <2>3. spc' \in {"top", "ended", "leave_wait"}
    BY <2>1 DEF AfterLeave, SnapshotOver
  <2>4. threads_stopped # 0 => spc' = "leave_wait"
    BY <1>0, <2>1 DEF AfterLeave
  <2>5. threads_stopped = 0 => \A t \in Thread : pc[t] \notin Stopped
    BY NoneStopped DEF SInv
  <2>6. \A t \in Thread : pc'[t] \in {"woken", "blk_woken"} => spc' \in Leaving
    BY <2>2, <2>4, <2>5 DEF Stopped, Leaving
  <2>7. In(Early)' = In(Early)
    BY <2>2 DEF In, Early, Stopped
  <2>8. n_vm_threads' = Cardinality(Counted)'
    BY <2>1, <2>7 DEF SInv, Counted, counts
  <2>9. /\ \A t \in Thread : pc'[t] \in LivePc
        /\ \A t \in Started : pc'[t] \notin Early
    BY <2>2, ThreadAssumption DEF SInv, LivePc, Pc, Stopped, Early
  <2>10. \A t \in Thread : pc'[t] = "cnt_st" => reg'[t] = n_vm_threads'
    BY <2>1, <2>2 DEF SInv, counts
  <2>. QED
    BY <2>1, <2>3, <2>6, <2>8, <2>9, <2>10 DEF SInv, requests, Asked
<1>. QED
  BY <1>1, <1>2 DEF SnapperStep, SnapshotLoop, Ask, CountThreads, WaitEnter, Recount, Mark,
                Reenable

LEMMA SInvStep == ASSUME OneNew PROVE SInv /\ [Next]_vars => SInv'
<1>. SUFFICES ASSUME SInv, [Next]_vars PROVE SInv'
  OBVIOUS
<1>0. CInv'
  BY CInvStep DEF SInv
<1>1. ~ShutdownStop /\ ~ShutdownRequest
  BY DEF OneNew, SInv, ShutdownStop, ShutdownRequest
<1>2. CASE UNCHANGED vars
  BY <1>0, <1>2 DEF SInv, vars, Counted, In
<1>. QED
  BY <1>0, <1>1, <1>2, SInvThread, SInvSnapper DEF Next

(* "Make sure all virtual machine threads are asleep": no thread is inside   *)
(* an instruction while the pages are marked, though a new thread may start, *)
(* unseen by the snapper's last count, at any moment.                        *)
THEOREM ThreadsAsleep == ASSUME OneNew PROVE Spec => []AllAsleep
<1>1. SInv => AllAsleep
  BY DEF SInv, AllAsleep
<1>. QED
  BY <1>1, SInvInit, SInvStep, PTL DEF Spec

-----------------------------------------------------------------------------
(* Every step of the interlock is a step of StopWorld or changes             *)
(* nothing there.                                                            *)

LEMMA ExecMove ==
  ASSUME SInv, NEW t \in Thread, NEW to \in Pc, pc' = [pc EXCEPT ![t] = to]
  PROVE  In(Executing)' = IF to \in Executing THEN In(Executing) \cup {t}
                                               ELSE In(Executing) \ {t}
BY DEF SInv, CInv, TypeOK, In

LEMMA RefineThread ==
  ASSUME OneNew, SInv, NEW t \in Thread, ThreadStep(t)
  PROVE  StopTheWorld!Next \/ UNCHANGED <<World, In(Executing)>>
<1>0. pc \in [Thread -> Pc] /\ stop_request = FALSE
  BY DEF SInv, CInv, TypeOK
<1>1. World' = World
  <2>1. \/ spc' = spc
        \/ spc = "enter_wait" /\ spc' = "enter"
        \/ spc = "leave_wait" /\ spc' = "leave"
    BY OneNewSteps DEF Runs, Begins, CheckRequest, InstructionDone, TestStopRequest,
       BlockingCall, BlockTestStop, WorkerReturns, Sleep, Wake, BlockEnter, BlockLeave,
       BlockSleep, BlockWake, BroadcastEnter, BroadcastLeave, snapper, ArgLoad, ArgStore,
       CountLoad, CountStore, SpawnCall, SpawnLoad, SpawnStore, Spawned
  <2>2. snap_request' = snap_request
    BY OneNewSteps DEF Runs, Begins, CheckRequest, InstructionDone, TestStopRequest,
       BlockingCall, BlockTestStop, WorkerReturns, Sleep, Wake, BlockEnter, BlockLeave,
       BlockSleep, BlockWake, requests, ArgLoad, ArgStore,
       CountLoad, CountStore, SpawnCall, SpawnLoad, SpawnStore, Spawned
  <2>. QED
    BY <2>1, <2>2 DEF World
<1>2. CASE SpawnStore(t)
  <2>1. PICK u \in Thread : /\ pc[u] = "none"
                            /\ pc' = [pc EXCEPT ![t] = "spawn_wait", ![u] = "arg"]
    BY <1>2, ZenonT(30) DEF SpawnStore
  <2>2. pc[t] = "spawn_st"
    BY <1>2 DEF SpawnStore
  <2>3. \A x \in Thread : pc'[x] = IF x = u THEN "arg" ELSE IF x = t THEN "spawn_wait" ELSE pc[x]
    BY <1>0, <2>1
  <2>4. \A x \in Thread : pc'[x] \in Executing <=> pc[x] \in Executing
    <3>. TAKE x \in Thread
    <3>1. CASE x = u
      <4>1. pc'[x] = "arg" /\ pc[x] = "none"
        BY <2>1, <2>3, <3>1, ZenonT(30)
      <4>. QED
        BY <4>1 DEF Executing
    <3>2. CASE x # u /\ x = t
      BY <2>2, <2>3, <3>2 DEF Executing
    <3>3. CASE x # u /\ x # t
      BY <2>3, <3>3
    <3>. QED
      BY <3>1, <3>2, <3>3
  <2>5. In(Executing)' = In(Executing)
    BY <2>4 DEF In
  <2>. QED
    BY <1>1, <2>5
<1>3. CASE ~SpawnStore(t)
  <2>1. PICK to \in Pc :
          /\ pc' = [pc EXCEPT ![t] = to]
          /\ \/ to \notin Executing
             \/ pc[t] \in Executing
             \/ snap_request = 0
             \/ pc[t] \in {"woken", "blk_woken"}
    BY <1>0, <1>3, OneNewSteps DEF Runs, Begins, CheckRequest, InstructionDone, TestStopRequest,
       BlockingCall, BlockTestStop, WorkerReturns, Sleep, Wake, BlockEnter, BlockLeave,
       BlockSleep, BlockWake, ArgLoad, ArgStore, CountLoad, CountStore, SpawnCall,
       SpawnLoad, Spawned, Goto, Pc, Stopped, Executing
  <2>2. CASE to \notin Executing
    <3>1. StopTheWorld!End(t)
      BY <1>1, <2>1, <2>2, ExecMove, ZenonT(30) DEF StopTheWorld!End
    <3>. QED
      BY <3>1 DEF StopTheWorld!Next
  <2>3. CASE to \in Executing /\ pc[t] \in Executing
    <3>1. In(Executing)' = In(Executing)
      BY <2>1, <2>3, ExecMove DEF In
    <3>. QED
      BY <1>1, <3>1
  <2>4. CASE to \in Executing /\ pc[t] \notin Executing
    <3>1. spc \notin Asked
      BY <2>1, <2>4 DEF SInv, Asked, Leaving
    <3>2. World = "running"
      BY <3>1 DEF World, SInv, Asked
    <3>3. StopTheWorld!Begin(t)
      BY <1>1, <2>1, <2>4, <3>2, ExecMove, ZenonT(30) DEF StopTheWorld!Begin
    <3>. QED
      BY <3>3 DEF StopTheWorld!Next
  <2>. QED
    BY <2>2, <2>3, <2>4
<1>. QED
  BY <1>2, <1>3

LEMMA RefineSnapper ==
  ASSUME SInv, SInv', SnapperStep
  PROVE  StopTheWorld!Next \/ UNCHANGED <<World, In(Executing)>>
<1>1. In(Executing)' = In(Executing)
  BY DEF SnapperStep, SnapshotLoop, Ask, CountThreads, WaitEnter, Recount, Mark, Reenable,
         TestOthers, WaitLeave, In, Awaken, Executing
<1>2. CASE Ask
  BY <1>1, <1>2 DEF Ask, World, SInv, Asked, StopTheWorld!Next, StopTheWorld!Ask
<1>3. CASE Recount
  <2>1. World = "stopping"
    BY <1>3 DEF Recount, World, SInv, Asked, requests
  <2>2. CASE spc' = "snap"
    <3>1. In(Executing) = {}
      BY <1>1, <2>2 DEF SInv
    <3>. QED
      BY <1>1, <2>1, <2>2, <3>1 DEF World, StopTheWorld!Next, StopTheWorld!Stop
  <2>3. CASE spc' # "snap"
    <3>1. World' = World
      BY <1>3, <2>1, <2>3 DEF Recount, World, requests
    <3>. QED
      BY <1>1, <3>1
  <2>. QED
    BY <2>2, <2>3
<1>4. CASE Reenable
  BY <1>1, <1>4 DEF Reenable, World, SInv, Asked, StopTheWorld!Next, StopTheWorld!Release
<1>5. CASE SnapshotLoop \/ CountThreads \/ WaitEnter \/ Mark \/ TestOthers \/ WaitLeave
  <2>1. World' = World
    BY <1>5 DEF SnapshotLoop, CountThreads, WaitEnter, Mark, TestOthers, WaitLeave,
                AfterLeave, SnapshotOver, World, requests
  <2>. QED
    BY <1>1, <2>1
<1>. QED
  BY <1>2, <1>3, <1>4, <1>5 DEF SnapperStep

(* The interlock implements StopWorld: no instruction begins once a stop is  *)
(* asked for and the pages are marked when none is running, for any number   *)
(* of threads and of blocking calls, with one thread that starts meanwhile.  *)
THEOREM InterlockStopsWorld == ASSUME OneNew PROVE Spec => ImplementsStop
<1>1. Init => StopTheWorld!Init
  BY DEF Init, StopTheWorld!Init, World, In, Executing
<1>2. SInv /\ SInv' /\ [Next]_vars => [StopTheWorld!Next]_<<World, In(Executing)>>
  <2>. SUFFICES ASSUME SInv, SInv', [Next]_vars
                PROVE  StopTheWorld!Next \/ UNCHANGED <<World, In(Executing)>>
    OBVIOUS
  <2>1. ~ShutdownStop /\ ~ShutdownRequest
    BY DEF OneNew, SInv, ShutdownStop, ShutdownRequest
  <2>2. CASE UNCHANGED vars
    BY <2>2 DEF vars, World, In
  <2>. QED
    BY <2>1, <2>2, RefineThread, RefineSnapper DEF Next
<1>. QED
  BY <1>1, <1>2, SInvInit, SInvStep, PTL DEF Spec, ImplementsStop, StopTheWorld!Spec,
     StopTheWorld!stopVars
=============================================================================
