------------------------------ MODULE SnapSync ------------------------------
(***************************************************************************)
(* The interlock between the snapshot thread and the threads of the        *)
(* virtual machine: oldtree/kernel/phantom/snap_sync.c, with the life of a *)
(* virtual machine thread (vm_threads.c), the check between two bytecode   *)
(* instructions (phantom/vm/exec.c) and the shutdown of all threads.       *)
(*                                                                         *)
(* What a thread does between hal_mutex_lock and hal_mutex_unlock (or      *)
(* hal_cond_wait) of interlock_mutex is one step; only the snapshot thread *)
(* takes two, at "test", because it reads a variable the shutdown sets     *)
(* without the lock.  The ++ and -- of the unlocked volatile counters      *)
(* n_vm_threads and args_used are a load and a store.                      *)
(***************************************************************************)
EXTENDS Integers, FiniteSets

CONSTANTS
  Thread,       \* virtual machine threads that ever exist
  Started,      \* those activate_all_threads has started
  Returning,    \* those whose program may return from its last call frame
  MayShutdown   \* phantom_shutdown may be called

ASSUME ThreadAssumption == /\ IsFiniteSet(Thread)
                           /\ Started \subseteq Thread /\ Returning \subseteq Thread
                           /\ MayShutdown \in BOOLEAN

VARIABLES
  pc,              \* where every thread is
  reg,             \* what it has loaded of a counter it is changing
  snap_request,    \* phantom_virtual_machine_snap_request
  stop_request,    \* phantom_virtual_machine_stop_request
  threads_stopped, \* phantom_virtual_machine_threads_stopped
  n_vm_threads,
  args_used,
  spc,             \* where the snapshot thread is
  threads_4_wait,  \* its local variable
  final,           \* it is making the snapshot of the shutdown
  fin              \* where phantom_shutdown is

vars == <<pc, reg, snap_request, stop_request, threads_stopped, n_vm_threads,
          args_used, spc, threads_4_wait, final, fin>>

requests == <<snap_request, stop_request>>
counts == <<n_vm_threads, args_used>>
snapper == <<spc, threads_4_wait, final>>

-----------------------------------------------------------------------------
(* The places of a thread.                                                  *)
(*   none, dead          not created yet; its kernel thread is gone         *)
(*   arg, cnt            thread_run_func before args_used-- and before      *)
(*                       n_vm_threads++                                     *)
(*   loop, instr         pvm_exec at the test of snap_request; inside an    *)
(*                       instruction                                        *)
(*   spawn, spawn_wait   start_new_vm_thread before args_used++; at its     *)
(*                       wait for the argument to be read                   *)
(*   save, lock          phantom_thread_wait_4_snap at the test of          *)
(*                       stop_request; at hal_mutex_lock                    *)
(*   wait, woken         inside hal_cond_wait( phantom_vm_wait_4_snap );    *)
(*                       woken and about to lock the mutex again            *)
(*   blk, blk_lock, blocked, blk_back, blk_wait, blk_woken                  *)
(*                       the same in vm_syscall_block, with the worker run- *)
(*                       ning at "blocked" and the second lock at "blk_back"*)
(*   ret                 pvm_exec has returned, before n_vm_threads--       *)
(*   zombie              on the kill queue, its death handler still to run  *)
(* A name with _st is the place between a load and its store.               *)
Executing == {"instr", "spawn", "spawn_st", "spawn_wait", "blk", "blk_lock"}
Waiting == {"wait", "blk_wait"}
Stopped == {"wait", "woken", "blocked", "blk_back", "blk_wait", "blk_woken"}
Pc == Executing \cup Stopped \cup
      {"none", "arg", "arg_st", "cnt", "cnt_st", "loop", "save", "lock",
       "ret", "ret_st", "zombie", "dead"}

(* The places of the snapshot thread: "top" is its main loop's test of the   *)
(* shutdown, "idle" its sleep between two snapshots; "count" and "recount"   *)
(* read the number of threads, "enter" and "leave" test threads_stopped      *)
(* under the mutex, and enter_wait and leave_wait are the two hal_cond_wait; *)
(* "snap" marks the pages with interrupts off; at "test" the thread holds    *)
(* the mutex and has decremented the request.                                *)
SnapperPc == {"top", "idle", "count", "enter", "enter_wait", "recount", "snap",
              "reenable", "test", "leave", "leave_wait", "ended"}

TypeOK ==
  /\ pc \in [Thread -> Pc]
  /\ reg \in [Thread -> Int]
  /\ snap_request \in Nat
  /\ stop_request \in BOOLEAN
  /\ threads_stopped \in Nat
  /\ n_vm_threads \in Int
  /\ args_used \in Int
  /\ spc \in SnapperPc
  /\ threads_4_wait \in Int
  /\ final \in BOOLEAN
  /\ fin \in {"up", "request", "poll", "off"}

(* Snapshots are enabled (vm_enable_regular_snaps) after activate_all_threads; *)
(* the threads it started have counted themselves and begun to run.            *)
Init ==
  /\ pc = [t \in Thread |-> IF t \in Started THEN "loop" ELSE "none"]
  /\ reg = [t \in Thread |-> 0]
  /\ snap_request = 0 /\ stop_request = FALSE
  /\ threads_stopped = 0
  /\ n_vm_threads = Cardinality(Started) /\ args_used = 0
  /\ spc = "top" /\ threads_4_wait = 0 /\ final = FALSE
  /\ fin = "up"

Goto(t, from, to) == pc[t] = from /\ pc' = [pc EXCEPT ![t] = to]
Load(t, count) == reg' = [reg EXCEPT ![t] = count]
Stored(t) == reg' = [reg EXCEPT ![t] = 0]

(* Nobody else keeps interlock_mutex from one step to the next. *)
MutexFree == spc # "test"

(* hal_cond_broadcast of the two conditions the snapshot thread waits on. *)
BroadcastEnter == spc' = IF spc = "enter_wait" THEN "enter" ELSE spc
BroadcastLeave == spc' = IF spc = "leave_wait" THEN "leave" ELSE spc

-----------------------------------------------------------------------------
(* A thread begins: thread_run_func up to pvm_exec. *)

ArgLoad(t) == /\ Goto(t, "arg", "arg_st") /\ Load(t, args_used)
              /\ UNCHANGED <<requests, threads_stopped, counts, snapper, fin>>

ArgStore(t) == /\ Goto(t, "arg_st", "cnt") /\ Stored(t)
               /\ args_used' = reg[t] - 1
               /\ UNCHANGED <<requests, threads_stopped, n_vm_threads, snapper, fin>>

CountLoad(t) == /\ Goto(t, "cnt", "cnt_st") /\ Load(t, n_vm_threads)
                /\ UNCHANGED <<requests, threads_stopped, counts, snapper, fin>>

CountStore(t) == /\ Goto(t, "cnt_st", "loop") /\ Stored(t)
                 /\ n_vm_threads' = reg[t] + 1
                 /\ UNCHANGED <<requests, threads_stopped, args_used, snapper, fin>>

-----------------------------------------------------------------------------
(* It runs: the loop of pvm_exec.  After phantom_thread_wait_4_snap it goes  *)
(* on with an instruction; the request is tested again before the next one.  *)

CheckRequest(t) ==
  /\ Goto(t, "loop", IF snap_request # 0 THEN "save" ELSE "instr")
  /\ UNCHANGED <<reg, requests, threads_stopped, counts, snapper, fin>>

InstructionDone(t) ==
  /\ Goto(t, "instr", "loop")
  /\ UNCHANGED <<reg, requests, threads_stopped, counts, snapper, fin>>

(* opcode_ret in the last call frame. *)
ReturnFromExec(t) ==
  /\ t \in Returning
  /\ Goto(t, "instr", "ret")
  /\ UNCHANGED <<reg, requests, threads_stopped, counts, snapper, fin>>

-----------------------------------------------------------------------------
(* phantom_thread_wait_4_snap *)

TestStopRequest(t) ==
  /\ Goto(t, "save", IF stop_request THEN "zombie" ELSE "lock")
  /\ UNCHANGED <<reg, requests, threads_stopped, counts, snapper, fin>>

Sleep(t) ==
  /\ MutexFree
  /\ Goto(t, "lock", "wait")
  /\ threads_stopped' = threads_stopped + 1
  /\ BroadcastEnter
  /\ UNCHANGED <<reg, requests, counts, threads_4_wait, final, fin>>

Wake(t) ==
  /\ MutexFree
  /\ Goto(t, "woken", "instr")
  /\ threads_stopped' = threads_stopped - 1
  /\ BroadcastLeave
  /\ UNCHANGED <<reg, requests, counts, threads_4_wait, final, fin>>

-----------------------------------------------------------------------------
(* vm_syscall_block: a system call that may block for long counts as a      *)
(* stopped thread while its worker runs.                                    *)

BlockingCall(t) ==
  /\ Goto(t, "instr", "blk")
  /\ UNCHANGED <<reg, requests, threads_stopped, counts, snapper, fin>>

BlockTestStop(t) ==
  /\ Goto(t, "blk", IF stop_request THEN "zombie" ELSE "blk_lock")
  /\ UNCHANGED <<reg, requests, threads_stopped, counts, snapper, fin>>

BlockEnter(t) ==
  /\ MutexFree
  /\ Goto(t, "blk_lock", "blocked")
  /\ threads_stopped' = threads_stopped + 1
  /\ BroadcastEnter
  /\ UNCHANGED <<reg, requests, counts, threads_4_wait, final, fin>>

WorkerReturns(t) ==
  /\ Goto(t, "blocked", "blk_back")
  /\ UNCHANGED <<reg, requests, threads_stopped, counts, snapper, fin>>

(* Back from the worker, and not during a snapshot: end of the call. *)
BlockLeave_untested(t) ==                 \* mutant: snap_request is not looked at
  /\ MutexFree
  /\ Goto(t, "blk_back", "instr")
  /\ threads_stopped' = threads_stopped - 1
  /\ BroadcastLeave
  /\ UNCHANGED <<reg, requests, counts, threads_4_wait, final, fin>>

BlockLeave_uncounted(t) ==                \* mutant: threads_stopped keeps the thread
  /\ MutexFree /\ snap_request = 0
  /\ Goto(t, "blk_back", "instr")
  /\ BroadcastLeave
  /\ UNCHANGED <<reg, requests, threads_stopped, counts, threads_4_wait, final, fin>>

BlockLeave(t) ==
  /\ MutexFree /\ snap_request = 0
  /\ Goto(t, "blk_back", "instr")
  /\ threads_stopped' = threads_stopped - 1
  /\ BroadcastLeave
  /\ UNCHANGED <<reg, requests, counts, threads_4_wait, final, fin>>

(* Back while a snapshot has been asked for: it waits, once, for its end. *)
BlockSleep(t) ==
  /\ MutexFree /\ snap_request # 0
  /\ Goto(t, "blk_back", "blk_wait")
  /\ UNCHANGED <<reg, requests, threads_stopped, counts, snapper, fin>>

BlockWake(t) ==
  /\ MutexFree
  /\ Goto(t, "blk_woken", "instr")
  /\ threads_stopped' = threads_stopped - 1
  /\ BroadcastLeave
  /\ UNCHANGED <<reg, requests, counts, threads_4_wait, final, fin>>

-----------------------------------------------------------------------------
(* start_new_vm_thread, called by an instruction.  The new thread's argument *)
(* is on the creator's stack, which waits until nobody needs one.            *)

In(places) == {t \in Thread : pc[t] \in places}

SpawnCall(t) ==
  /\ Goto(t, "instr", "spawn")
  /\ Cardinality(In({"none"})) > Cardinality(In({"spawn", "spawn_st"}))  \* bound
  /\ UNCHANGED <<reg, requests, threads_stopped, counts, snapper, fin>>

SpawnLoad(t) ==
  /\ Goto(t, "spawn", "spawn_st") /\ Load(t, args_used)
  /\ UNCHANGED <<requests, threads_stopped, counts, snapper, fin>>

SpawnStore(t) ==
  /\ pc[t] = "spawn_st" /\ Stored(t)
  /\ args_used' = reg[t] + 1
  /\ \E u \in Thread : /\ pc[u] = "none"
                       /\ pc' = [pc EXCEPT ![t] = "spawn_wait", ![u] = "arg"]
  /\ UNCHANGED <<requests, threads_stopped, n_vm_threads, snapper, fin>>

Spawned(t) ==
  /\ args_used <= 0
  /\ Goto(t, "spawn_wait", "instr")
  /\ UNCHANGED <<reg, requests, threads_stopped, counts, snapper, fin>>

-----------------------------------------------------------------------------
(* A thread ends.  After thread_run_func the starter kills the thread, and   *)
(* the kernel's killer thread runs the death handler, which counts again.    *)

ReturnLoad(t) ==
  /\ Goto(t, "ret", "ret_st") /\ Load(t, n_vm_threads)
  /\ UNCHANGED <<requests, threads_stopped, counts, snapper, fin>>

ReturnStore(t) ==
  /\ Goto(t, "ret_st", "zombie") /\ Stored(t)
  /\ n_vm_threads' = reg[t] - 1
  /\ UNCHANGED <<requests, threads_stopped, args_used, snapper, fin>>

(* t_do_some_kills runs thread_death_handler with preemption disabled. *)
DeathHandler(t) ==
  /\ Goto(t, "zombie", "dead")
  /\ n_vm_threads' = n_vm_threads - 1
  /\ UNCHANGED <<reg, requests, threads_stopped, args_used, snapper, fin>>

-----------------------------------------------------------------------------
(* vm_map_snapshot_thread: after the shutdown it makes one more snapshot.    *)

SnapshotLoop ==
  /\ spc = "top" /\ spc' = "idle"
  /\ final' = (fin = "off")
  /\ UNCHANGED <<pc, reg, requests, threads_stopped, counts, threads_4_wait, fin>>

-----------------------------------------------------------------------------
(* phantom_snapper_wait_4_threads, called by do_snapshot. *)

Ask ==
  /\ spc = "idle" /\ spc' = "count"
  /\ snap_request' = snap_request + 1
  /\ UNCHANGED <<pc, reg, stop_request, threads_stopped, counts, threads_4_wait, final, fin>>

CountThreads ==
  /\ spc = "count" /\ spc' = "enter"
  /\ threads_4_wait' = n_vm_threads
  /\ UNCHANGED <<pc, reg, requests, threads_stopped, counts, final, fin>>

WaitEnter_oneLess ==                         \* mutant: off by one
  /\ spc = "enter"
  /\ spc' = IF threads_stopped + 1 < threads_4_wait THEN "enter_wait" ELSE "recount"
  /\ UNCHANGED <<pc, reg, requests, threads_stopped, counts, threads_4_wait, final, fin>>

WaitEnter ==
  /\ spc = "enter"
  /\ spc' = IF threads_stopped < threads_4_wait THEN "enter_wait" ELSE "recount"
  /\ UNCHANGED <<pc, reg, requests, threads_stopped, counts, threads_4_wait, final, fin>>

Recount_sameAgain ==                      \* mutant: waits again for the same number
  /\ spc = "recount"
  /\ spc' = IF n_vm_threads >= threads_4_wait THEN "enter" ELSE "snap"
  /\ threads_4_wait' = n_vm_threads
  /\ UNCHANGED <<pc, reg, requests, threads_stopped, counts, final, fin>>

Recount ==
  /\ spc = "recount"
  /\ spc' = IF n_vm_threads > threads_4_wait THEN "enter" ELSE "snap"
  /\ threads_4_wait' = IF n_vm_threads > threads_4_wait THEN n_vm_threads
                                                        ELSE threads_4_wait
  /\ UNCHANGED <<pc, reg, requests, threads_stopped, counts, final, fin>>

(* mark_for_snap over all pages. *)
Mark ==
  /\ spc = "snap" /\ spc' = "reenable"
  /\ UNCHANGED <<pc, reg, requests, threads_stopped, counts, threads_4_wait, final, fin>>

-----------------------------------------------------------------------------
(* phantom_snapper_reenable_threads.  When it returns, the rest of           *)
(* do_snapshot does not involve the threads any more.                        *)

SnapshotOver == IF final THEN "ended" ELSE "top"

Reenable ==
  /\ spc = "reenable" /\ spc' = "test"
  /\ snap_request' = snap_request - 1
  /\ UNCHANGED <<pc, reg, stop_request, threads_stopped, counts, threads_4_wait, final, fin>>

(* hal_cond_broadcast( &phantom_vm_wait_4_snap ) *)
Awaken == [t \in Thread |-> CASE pc[t] = "wait" -> "woken"
                              [] pc[t] = "blk_wait" -> "blk_woken"
                              [] OTHER -> pc[t]]

AfterLeave == IF threads_stopped > 0 THEN "leave_wait" ELSE SnapshotOver

TestOthers_signal ==                      \* mutant: wakes one sleeper, not all
  /\ spc = "test"
  /\ spc' = IF snap_request > 0 THEN SnapshotOver ELSE AfterLeave
  /\ \/ /\ snap_request = 0
        /\ \E t \in Thread : pc[t] \in Waiting /\ pc' = [pc EXCEPT ![t] = Awaken[t]]
     \/ /\ snap_request > 0 \/ \A t \in Thread : pc[t] \notin Waiting
        /\ pc' = pc
  /\ UNCHANGED <<reg, requests, threads_stopped, counts, threads_4_wait, final, fin>>

TestOthers ==
  /\ spc = "test"
  /\ spc' = IF snap_request > 0 THEN SnapshotOver ELSE AfterLeave
  /\ pc' = IF snap_request > 0 THEN pc ELSE Awaken
  /\ UNCHANGED <<reg, requests, threads_stopped, counts, threads_4_wait, final, fin>>

WaitLeave ==
  /\ spc = "leave" /\ spc' = AfterLeave
  /\ UNCHANGED <<pc, reg, requests, threads_stopped, counts, threads_4_wait, final, fin>>

-----------------------------------------------------------------------------
(* phantom_shutdown: phantom_finish_all_threads, then vm_map_finish ("off"). *)

ShutdownStop ==
  /\ MayShutdown
  /\ fin = "up" /\ fin' = "request"
  /\ stop_request' = TRUE
  /\ UNCHANGED <<pc, reg, snap_request, threads_stopped, counts, snapper>>

(* The request is set again after every millisecond of the wait. *)
ShutdownRequest ==
  /\ fin \in {"request", "poll"}
  /\ snap_request' = 1
  /\ fin' = IF n_vm_threads > 0 THEN "poll" ELSE "off"
  /\ UNCHANGED <<pc, reg, stop_request, threads_stopped, counts, snapper>>

-----------------------------------------------------------------------------
LockStep(t) == Sleep(t) \/ Wake(t) \/ BlockEnter(t) \/ BlockLeave(t) \/ BlockSleep(t)
               \/ BlockWake(t)

ThreadStep(t) ==
  \/ ArgLoad(t) \/ ArgStore(t) \/ CountLoad(t) \/ CountStore(t)
  \/ CheckRequest(t) \/ InstructionDone(t) \/ ReturnFromExec(t)
  \/ TestStopRequest(t) \/ BlockingCall(t) \/ BlockTestStop(t) \/ WorkerReturns(t)
  \/ SpawnCall(t) \/ SpawnLoad(t) \/ SpawnStore(t) \/ Spawned(t)
  \/ ReturnLoad(t) \/ ReturnStore(t) \/ DeathHandler(t)
  \/ LockStep(t)

SnapperStep == SnapshotLoop \/ Ask \/ CountThreads \/ WaitEnter \/ Recount \/ Mark
               \/ Reenable \/ TestOthers \/ WaitLeave

Next == SnapperStep \/ ShutdownStop \/ ShutdownRequest \/ \E t \in Thread : ThreadStep(t)

Spec == Init /\ [][Next]_vars

(* Every thread is scheduled, a mutex is handed to each waiter in turn, the  *)
(* snapshot thread comes back every 100 seconds, the shutdown every milli-   *)
(* second, instructions end and blocking calls return.  Nothing makes a      *)
(* shutdown happen.                                                          *)
FairSpec == /\ Spec
            /\ WF_vars(SnapperStep) /\ WF_vars(ShutdownRequest)
            /\ \A t \in Thread : WF_vars(ThreadStep(t)) /\ SF_vars(LockStep(t))

-----------------------------------------------------------------------------
(* Properties. *)

(* threads_stopped, which both waits of the snapshot thread rely on, counts  *)
(* exactly the threads that sleep for the snapshot or are in a blocking      *)
(* call, whatever starts, ends or shuts down meanwhile.                      *)
StoppedExact == threads_stopped = Cardinality(In(Stopped))

(* "Make sure all virtual machine threads are asleep waiting for the snapper *)
(* to do a snap": while the pages are marked and until the request is taken  *)
(* back, no thread is inside an instruction.                                 *)
AllAsleep == spc \in {"snap", "reenable"} => In(Executing) = {}

(* The interlock implements what VmMap takes from it: no instruction begins  *)
(* once a stop is asked for, and the pages are marked when none is running.  *)
World == IF spc \in {"snap", "reenable"} THEN "stopped"
         ELSE IF snap_request > 0 THEN "stopping" ELSE "running"

StopTheWorld == INSTANCE StopWorld WITH world <- World, busy <- In(Executing)

ImplementsStop == StopTheWorld!Spec

(* A snapshot that is asked for is taken: phantom_snapper_wait_4_threads     *)
(* returns, though threads block, sleep and wake all the time.               *)
SnapshotTaken == (spc = "count") ~> (spc = "snap")

(* "May wake up now": the threads asleep when the pages are marked, which    *)
(* are those the snapshot thread has waited for, are all woken, though       *)
(* another thread starts meanwhile.  The one that starts need not be: it may *)
(* see the request and lock the mutex only after the broadcast.              *)
StoppedThreadsWake ==
  \A t \in Thread : (pc[t] \in Waiting /\ spc \in {"snap", "reenable"}) ~> (pc[t] \notin Waiting)
=============================================================================
