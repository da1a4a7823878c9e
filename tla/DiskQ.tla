------------------------------- MODULE DiskQ -------------------------------
(***************************************************************************)
(* The queue of disk requests (disk_q.c), the pager's calls of it          *)
(* (pager.c, disk.c), the IDE driver that serves it (ide_io.c) and the     *)
(* deferred calls that driver runs in (dpc.c).                             *)
(*                                                                         *)
(* A caller enqueues a request, may raise its priority and may take it     *)
(* back.  A page's request is reported by its callback, a disk_page_io is  *)
(* polled, and a synchronous transfer puts its caller to sleep.  A step is *)
(* what a thread does under the queue's lock, or between two such places.  *)
(***************************************************************************)
EXTENDS Integers, Sequences, FiniteSets

CONSTANTS
  Request,     \* pager_io_request structures
  Sync,        \* those of startSync, on the stack of a caller that sleeps
  Failing,     \* bound: those whose transfer may fail
  Client,      \* threads that use the disk
  Dpc,         \* threads that may run deferred calls
  NoRq,        \* q->current when the disk is idle
  MinIdle, MaxIdle,   \* MIN_DPC_IDLE_THREADS, MAX_DPC_IDLE_THREADS
  MaxRequests  \* bound: how many requests are enqueued

ASSUME DiskQAssumption ==
  /\ Sync \subseteq Request /\ Failing \subseteq Request
  /\ NoRq \notin Request /\ Client \cap Dpc = {} /\ IsFiniteSet(Dpc)
  /\ MinIdle \in Nat /\ MaxIdle \in Nat /\ MaxRequests \in Nat

VARIABLES
  requests,  \* q->requests
  current,   \* q->current
  rq,        \* per request: flag_pagein or flag_pageout, flag_chained,
             \* flag_urgent, flag_ioerror, and the owner's own busy flag
  go,        \* ide_dpc.go
  pc, arg,   \* per thread: where it is and the request it holds, if any
  idle,      \* idle_dpc_threads
  enqueued   \* history: how many requests were enqueued

vars == <<requests, current, rq, go, pc, arg, idle, enqueued>>

Thread == Client \cup Dpc
Rq == [io : BOOLEAN, chained : BOOLEAN, urgent : BOOLEAN, ioerror : BOOLEAN,
       busy : BOOLEAN]
Unused == [io |-> FALSE, chained |-> FALSE, urgent |-> FALSE,
           ioerror |-> FALSE, busy |-> FALSE]

ClientPc == {"idle", "flagged", "start", "trigger", "asleep"}
DpcPc == {"off", "find", "none", "wait", "cond", "woken", "run", "io", "moved",
          "start", "trigger", "done", "unblock"}

At(t, l) == pc[t] = l
Goto(t, l) == pc' = [pc EXCEPT ![t] = l]

-----------------------------------------------------------------------------
(* The queue.                                                              *)

Entered(r) ==
  IF rq[r].urgent THEN <<r>> \o requests ELSE Append(requests, r)

Position(r) == CHOOSE i \in DOMAIN requests : requests[i] = r

Removed(r) ==
  [i \in 1 .. Len(requests) - 1 |->
     IF i < Position(r) THEN requests[i] ELSE requests[i + 1]]

(* hal_cond_signal: one of the threads that wait, if any, will run.        *)
Signalled(f) ==
  IF \E d \in Dpc : f[d] = "cond"
    THEN {[f EXCEPT ![d] = "woken"] : d \in {e \in Dpc : f[e] = "cond"}}
    ELSE {f}

-----------------------------------------------------------------------------
(* The callers.                                                            *)

MayEnqueue(r) == ~rq[r].busy /\ ~rq[r].ioerror /\ enqueued < MaxRequests

(* pager_enqueue_for_pagein, _for_pageout and their fast forms, up to the  *)
(* lock of the queue.  Nothing ever clears flag_urgent.                    *)
PagerEnqueue(c, r, fast) ==
  /\ At(c, "idle") /\ r \notin Sync
  /\ MayEnqueue(r)
  /\ rq' = [rq EXCEPT ![r].io = TRUE, ![r].busy = TRUE,
                      ![r].urgent = rq[r].urgent \/ fast]
  /\ Goto(c, "flagged")
  /\ arg' = [arg EXCEPT ![c] = r]
  /\ enqueued' = enqueued + 1
  /\ UNCHANGED <<requests, current, go, idle>>

QueueAsyncIo(c) ==
  /\ At(c, "flagged")
  /\ requests' = Entered(arg[c])
  /\ rq' = [rq EXCEPT ![arg[c]].chained = TRUE]
  /\ arg' = [arg EXCEPT ![c] = NoRq]
  /\ Goto(c, "start")
  /\ UNCHANGED <<current, go, idle, enqueued>>

(* startSync closes the interrupts: the request, a new one for each call,  *)
(* is entered and, if the disk is idle, started before the caller sleeps.  *)
StartSync(c, r) ==
  /\ At(c, "idle") /\ r \in Sync
  /\ ~rq[r].busy /\ enqueued < MaxRequests
  /\ LET q == Entered(r)
         asleep == [pc EXCEPT ![c] = "asleep"]
         flagged == [rq EXCEPT ![r].io = TRUE, ![r].busy = TRUE, ![r].ioerror = FALSE]
     IN IF current = NoRq
          THEN /\ current' = Head(q) /\ requests' = Tail(q)
               /\ rq' = [flagged EXCEPT ![r].chained = r # Head(q),
                                        ![Head(q)].chained = FALSE]
               /\ go' = TRUE
               /\ pc' \in Signalled(asleep)
          ELSE /\ requests' = q
               /\ rq' = [flagged EXCEPT ![r].chained = TRUE]
               /\ pc' = asleep
               /\ UNCHANGED <<current, go>>
  /\ arg' = [arg EXCEPT ![c] = r]
  /\ enqueued' = enqueued + 1
  /\ UNCHANGED idle

Dequeue_started(c, r) ==  \* mutant: does not look at current and chained
  /\ At(c, "idle") /\ r \notin Sync /\ rq[r].io
  /\ requests' = SelectSeq(requests, LAMBDA q : q # r)
  /\ rq' = [rq EXCEPT ![r].chained = FALSE, ![r].io = FALSE, ![r].busy = FALSE]
  /\ UNCHANGED <<current, go, pc, arg, idle, enqueued>>

Dequeue_flagged(c, r) ==  \* mutant: leaves flag_pagein and flag_pageout set
  /\ At(c, "idle") /\ r \notin Sync
  /\ r # current /\ rq[r].chained
  /\ requests' = Removed(r)
  /\ rq' = [rq EXCEPT ![r].chained = FALSE, ![r].busy = FALSE]
  /\ UNCHANGED <<current, go, pc, arg, idle, enqueued>>

(* queueDequeue when it succeeds; the caller then clears the busy flag.    *)
(* A current request (EBUSY) or one not chained (ESRCH) is left alone.     *)
Dequeue(c, r) ==
  /\ At(c, "idle") /\ r \notin Sync
  /\ r # current /\ rq[r].chained
  /\ requests' = Removed(r)
  /\ rq' = [rq EXCEPT ![r].chained = FALSE, ![r].io = FALSE, ![r].busy = FALSE]
  /\ UNCHANGED <<current, go, pc, arg, idle, enqueued>>

RaisePrio(c, r) ==
  /\ At(c, "idle")
  /\ r # current /\ rq[r].chained
  /\ requests' = <<r>> \o Removed(r)
  /\ UNCHANGED <<current, rq, go, pc, arg, idle, enqueued>>

-----------------------------------------------------------------------------
(* start_io, by the thread that enqueued and by the one that completed.    *)

After(t) == IF t \in Dpc THEN "done" ELSE "idle"

StartIo_always(t) ==  \* mutant: does not look at current
  /\ At(t, "start")
  /\ IF requests = << >>
       THEN /\ Goto(t, After(t))
            /\ UNCHANGED <<requests, current, rq>>
       ELSE /\ current' = Head(requests) /\ requests' = Tail(requests)
            /\ rq' = [rq EXCEPT ![Head(requests)].chained = FALSE]
            /\ Goto(t, "trigger")
  /\ UNCHANGED <<go, arg, idle, enqueued>>

StartIo_chained(t) ==  \* mutant: flag_chained stays set
  /\ At(t, "start")
  /\ IF current # NoRq \/ requests = << >>
       THEN /\ Goto(t, After(t))
            /\ UNCHANGED <<requests, current>>
       ELSE /\ current' = Head(requests) /\ requests' = Tail(requests)
            /\ Goto(t, "trigger")
  /\ UNCHANGED <<rq, go, arg, idle, enqueued>>

StartIo(t) ==
  /\ At(t, "start")
  /\ IF current # NoRq \/ requests = << >>
       THEN /\ Goto(t, After(t))
            /\ UNCHANGED <<requests, current, rq>>
       ELSE /\ current' = Head(requests) /\ requests' = Tail(requests)
            /\ rq' = [rq EXCEPT ![Head(requests)].chained = FALSE]
            /\ Goto(t, "trigger")
  /\ UNCHANGED <<go, arg, idle, enqueued>>

(* The driver's startIo: dpc_request_trigger.                              *)
Trigger(t) ==
  /\ At(t, "trigger")
  /\ go' = TRUE
  /\ pc' \in Signalled([pc EXCEPT ![t] = After(t)])
  /\ UNCHANGED <<requests, current, rq, arg, idle, enqueued>>

-----------------------------------------------------------------------------
(* The deferred call: dpc_thread, dpc_func and the end of a request.       *)

DpcFind(d) ==
  /\ At(d, "find")
  /\ go' = FALSE
  /\ Goto(d, IF go THEN "run" ELSE "none")
  /\ UNCHANGED <<requests, current, rq, arg, idle, enqueued>>

(* Too many idle threads: this one ends.                                   *)
DpcNone(d) ==
  /\ At(d, "none")
  /\ IF idle + 1 > MaxIdle
       THEN Goto(d, "off") /\ UNCHANGED idle
       ELSE Goto(d, "wait") /\ idle' = idle + 1
  /\ UNCHANGED <<requests, current, rq, go, arg, enqueued>>

DpcWait(d) ==
  /\ At(d, "wait")
  /\ Goto(d, "cond")
  /\ UNCHANGED <<requests, current, rq, go, arg, idle, enqueued>>

DpcWoken(d) ==
  /\ At(d, "woken")
  /\ idle' = idle - 1
  /\ Goto(d, "find")
  /\ UNCHANGED <<requests, current, rq, go, arg, enqueued>>

DpcFunc(d) ==
  /\ At(d, "run")
  /\ arg' = [arg EXCEPT ![d] = current]
  /\ Goto(d, "io")
  /\ UNCHANGED <<requests, current, rq, go, idle, enqueued>>

(* ide_read or ide_write.                                                  *)
Transfer(d) ==
  /\ At(d, "io")
  /\ Goto(d, "moved")
  /\ UNCHANGED <<requests, current, rq, go, arg, idle, enqueued>>

Interrupt(d, failed) ==
  /\ At(d, "moved")
  /\ failed => current \in Failing
  /\ rq' = [rq EXCEPT ![current].ioerror = rq[current].ioerror \/ failed]
  /\ arg' = [arg EXCEPT ![d] = current]
  /\ current' = NoRq
  /\ Goto(d, "start")
  /\ UNCHANGED <<requests, go, idle, enqueued>>

(* pager_io_request_done: the flags, then the callback or, for a request   *)
(* with a sleeping caller, its wake-up.                                    *)
RequestDone(d) ==
  /\ At(d, "done")
  /\ rq' = [rq EXCEPT ![arg[d]].io = FALSE, ![arg[d]].busy = arg[d] \in Sync]
  /\ Goto(d, IF arg[d] \in Sync THEN "unblock" ELSE "find")
  /\ arg' = [arg EXCEPT ![d] = IF arg[d] \in Sync THEN arg[d] ELSE NoRq]
  /\ UNCHANGED <<requests, current, go, idle, enqueued>>

Sleeper(t, r) == t \in Client /\ At(t, "asleep") /\ arg[t] = r

Unblock(d) ==
  /\ At(d, "unblock")
  /\ rq' = [rq EXCEPT ![arg[d]].busy = FALSE]
  /\ pc' = [t \in Thread |-> IF t = d THEN "find"
                             ELSE IF Sleeper(t, arg[d]) THEN "idle" ELSE pc[t]]
  /\ arg' = [t \in Thread |->
               IF t = d \/ Sleeper(t, arg[d]) THEN NoRq ELSE arg[t]]
  /\ UNCHANGED <<requests, current, go, idle, enqueued>>

(* dpc_timed: one more thread if too few are idle.                         *)
Grown ==
  IF idle < MinIdle /\ \E d \in Dpc : pc[d] = "off"
    THEN {[pc EXCEPT ![d] = "find"] : d \in {e \in Dpc : pc[e] = "off"}}
    ELSE {pc}

DpcTimed_silent ==  \* mutant: the timer no longer signals
  /\ pc' \in Grown
  /\ UNCHANGED <<requests, current, rq, go, arg, idle, enqueued>>

(* Once a second.                                                          *)
DpcTimed ==
  /\ pc' \in UNION {Signalled(f) : f \in Grown}
  /\ UNCHANGED <<requests, current, rq, go, arg, idle, enqueued>>

-----------------------------------------------------------------------------
Init ==
  /\ requests = << >> /\ current = NoRq /\ go = FALSE /\ idle = 0
  /\ rq = [r \in Request |-> Unused]
  /\ pc \in [Thread -> {"idle", "off", "find"}]
  /\ \A c \in Client : pc[c] = "idle"
  /\ \A d \in Dpc : pc[d] # "idle"
  /\ Cardinality({d \in Dpc : pc[d] = "find"}) = 1
  /\ arg = [t \in Thread |-> NoRq]
  /\ enqueued = 0

Call(c, r) ==
  \/ \E fast \in BOOLEAN : PagerEnqueue(c, r, fast)
  \/ StartSync(c, r) \/ Dequeue(c, r) \/ RaisePrio(c, r)

ClientStep(c) == QueueAsyncIo(c) \/ StartIo(c) \/ Trigger(c)

DpcStep(d) ==
  \/ DpcFind(d) \/ DpcNone(d) \/ DpcWait(d) \/ DpcWoken(d) \/ DpcFunc(d)
  \/ Transfer(d) \/ (\E failed \in BOOLEAN : Interrupt(d, failed))
  \/ StartIo(d) \/ Trigger(d) \/ RequestDone(d) \/ Unblock(d)

Next ==
  \/ \E c \in Client, r \in Request : Call(c, r)
  \/ \E c \in Client : ClientStep(c)
  \/ \E d \in Dpc : DpcStep(d)
  \/ DpcTimed

Spec == Init /\ [][Next]_vars

(* The scheduler runs every thread that can run, the disk ends every       *)
(* transfer and the timer keeps firing.                                    *)
FairSpec ==
  /\ Spec
  /\ \A c \in Client : WF_vars(ClientStep(c))
  /\ \A d \in Dpc : WF_vars(DpcStep(d))
  /\ WF_vars(DpcTimed)

-----------------------------------------------------------------------------
(* The queue, the requests and the threads of the disk code keep their     *)
(* types; the count of idle deferred call threads never goes below zero.   *)
TypeOK ==
  /\ requests \in Seq(Request) /\ current \in Request \cup {NoRq}
  /\ rq \in [Request -> Rq] /\ go \in BOOLEAN
  /\ pc \in [Thread -> ClientPc \cup DpcPc]
  /\ \A c \in Client : pc[c] \in ClientPc
  /\ \A d \in Dpc : pc[d] \in DpcPc
  /\ arg \in [Thread -> Request \cup {NoRq}]
  /\ idle \in Nat /\ enqueued \in Nat

Queued(r) == \E i \in DOMAIN requests : requests[i] = r
Serving == {d \in Dpc : pc[d] \in {"run", "io", "moved"}}
Reporting == {d \in Dpc : pc[d] \in {"start", "trigger", "done"}}

(* A request is in one place: on the queue, once, exactly while            *)
(* flag_chained is set; current; or with the thread that reports its end.  *)
(* In each of them flag_pagein or flag_pageout is set.  interrupt clears   *)
(* q->current without the queue's lock and start_io makes another request  *)
(* current before the last one is reported (disk_q.c:122-139).             *)
InOnePlace ==
  /\ \A i, j \in DOMAIN requests : requests[i] = requests[j] => i = j
  /\ \A r \in Request :
       /\ Queued(r) <=> rq[r].chained
       /\ rq[r].chained => r # current
       /\ rq[r].chained \/ r = current => rq[r].io
       /\ \A d \in Reporting :
            arg[d] = r => rq[r].io /\ ~rq[r].chained /\ r # current

(* The asserts of dpc_func and of interrupt: a deferred call finds a       *)
(* request to serve, it is still the current one when the transfer ends,   *)
(* and no two threads serve the disk at once, though several run deferred  *)
(* calls and any of them or of the callers may start a request.            *)
DriverFindsRequest ==
  /\ \A d \in Serving : current # NoRq
  /\ \A d \in Dpc : pc[d] \in {"io", "moved"} => arg[d] = current
  /\ \A d, e \in Serving : d = e

(* A page whose flag_pager_io_busy is 0 has a request that is free to      *)
(* enqueue: the panics of pager_enqueue_for_pagein and _for_pageout        *)
(* (pager.c:199-200, 221-222) never fire, also after one was taken back.   *)
EnqueueFindsIdle == \A r \in Request : ~rq[r].busy => ~rq[r].io

(* Every request ends: it is served, whatever is raised or put before it,  *)
(* or taken back, and a caller that sleeps for it is woken.  The signal of *)
(* dpc_request_trigger is lost when the deferred call thread has looked at *)
(* go and does not wait yet (dpc.c:90-130); the timer makes up for it.     *)
Served == \A r \in Request : rq[r].busy ~> ~rq[r].busy

(* A request is moved from its transfer until it is reported.              *)
Moved(r) ==
  \E d \in Dpc : \/ pc[d] = "moved" /\ r = current
                 \/ d \in Reporting /\ arg[d] = r

IoState ==
  [r \in Request |-> IF Moved(r) THEN "moved" ELSE IF rq[r].io THEN "queued" ELSE "idle"]

Abstract == INSTANCE IoService WITH state <- IoState

(* The queue implements the service VmMap and the pager rely on: a request *)
(* is transferred at most once for each time it is enqueued, is reported   *)
(* exactly once after that, and is never transferred after queueDequeue    *)
(* said that it was taken back (disk_q.c:173-209).                         *)
ImplementsIo == Abstract!Spec
=============================================================================
