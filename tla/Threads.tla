------------------------------ MODULE Threads ------------------------------
(***************************************************************************)
(* The kernel's blocking primitives: a mutex (mutex.c), a condition        *)
(* variable with and without a timeout (cond.c), a semaphore with and      *)
(* without a timeout (sem.c), sleeping (t_sleep.c) and the death of        *)
(* threads (t_kill.c), over thread_block and thread_unblock (t_schedule.c) *)
(* and the timed calls (TimedCall).                                        *)
(*                                                                         *)
(* There is one processor, and every operation runs with interrupts        *)
(* disabled until it returns or blocks: an action is an operation up to    *)
(* that point.  Which runnable thread runs next is left open.              *)
(***************************************************************************)
EXTENDS TimedCall, FiniteSets

CONSTANTS
  Thread,       \* the threads that use the primitives
  Killer,       \* the thread of t_do_some_kills
  Prio,         \* their priorities
  Msecs,        \* the timeouts of hal_cond_timedwait and hal_sleep_msec
  Usecs,        \* the timeouts of hal_sem_acquire_etc
  MaxUnits,     \* a bound on the units of the semaphore
  NoThread

ASSUME ThreadAssumption ==
  /\ IsFiniteSet(Thread)
  /\ Killer \notin Thread
  /\ NoThread \notin Thread \cup {Killer}
  /\ Periodic \cap Thread = {}
  /\ Msecs \subseteq Nat /\ Usecs \subseteq Nat /\ MaxUnits \in Nat

(* A priority is at most THREAD_PRIO_HIGHEST | THREAD_PRIO_MOD_REALTIME,   *)
(* and no thread of idle priority, 0, waits: t_dequeue_highest_prio would  *)
(* not find it.                                                            *)
ASSUME PrioAssumption == Prio \in [Thread \cup {Killer} -> 1 .. 31]

VARIABLES
  sleep,          \* sleep_flags: "none", or what the thread sleeps for
  pc,             \* what a thread does once it runs
  wq,             \* waiting_threads of each object
  owner,          \* owner of the mutexes
  value,          \* value of the semaphore
  timedout,       \* the threads with THREAD_FLAG_TIMEDOUT
  limit,          \* the timeout of a semaphore wait
  broadcasting,   \* hal_cond_broadcast is running
  threads4kill,   \* the threads to kill
  kill_request,   \* t_thread_kill_request
  victim          \* the thread t_do_some_kills is about to free

waits   == <<wq, owner, value, timedout, limit, broadcasting>>
killing == <<threads4kill, kill_request, victim>>
vars    == <<sleep, pc, waits, killing, timer>>

Mutex == {"mutex", "kill_mutex"}
Cond  == {"cond", "kill_request"}
Object == Mutex \cup Cond \cup {"sem"}
Forever == -1

TypeOK ==
  /\ sleep \in [Thread \cup {Killer} ->
                  {"none", "mutex", "cond", "sem", "sleep", "zombie"}]
  /\ pc \in [Thread \cup {Killer} ->
               {"run", "locked", "relock", "acquire", "dying", "dead", "free",
                "k_lock", "k_wait", "k_relock", "k_loop", "k_kill"}]
  /\ wq \in [Object -> Seq(Thread \cup {Killer})]
  /\ owner \in [Mutex -> Thread \cup {Killer, NoThread}]
  /\ value \in 0 .. MaxUnits
  /\ timedout \subseteq Thread
  /\ limit \in [Thread -> Nat \cup {Forever}]
  /\ broadcasting \in BOOLEAN
  /\ threads4kill \in Seq(Thread)
  /\ kill_request \in Nat
  /\ victim \in Thread \cup {NoThread}

Init ==
  /\ sleep = [t \in Thread \cup {Killer} |-> "none"]
  /\ pc = [t \in Thread \cup {Killer} |-> IF t = Killer THEN "k_lock" ELSE "run"]
  /\ wq = [o \in Object |-> << >>]
  /\ owner = [m \in Mutex |-> NoThread]
  /\ value = 0
  /\ timedout = {}
  /\ limit = [t \in Thread |-> Forever]
  /\ broadcasting = FALSE
  /\ threads4kill = << >>
  /\ kill_request = 0
  /\ victim = NoThread
  /\ TimerInit(Thread \cup Periodic)

-----------------------------------------------------------------------------
(* Interrupts are enabled: neither the timer interrupt nor the loop of     *)
(* hal_cond_broadcast is running.                                          *)
Idle == ~ ticking /\ ~ broadcasting

(* Thread t runs, and is about to do step.                                 *)
Runs(t, step) == Idle /\ sleep[t] = "none" /\ pc[t] = step

Goto(t, step) == pc' = [pc EXCEPT ![t] = step]

Members(q) == {q[i] : i \in 1 .. Len(q)}
Distinct(q) == \A i, j \in 1 .. Len(q) : q[i] = q[j] => i = j

(* queue_remove.                                                           *)
Without(q, t) ==
  LET i == CHOOSE i \in 1 .. Len(q) : q[i] = t
  IN  IF t \in Members(q)
      THEN SubSeq(q, 1, i - 1) \o SubSeq(q, i + 1, Len(q)) ELSE q

(* t_dequeue_highest_prio: the first thread of the highest priority.       *)
First(q) ==
  CHOOSE t \in Members(q) :
    \E i \in 1 .. Len(q) :
      /\ q[i] = t
      /\ \A j \in 1 .. Len(q) :
           \/ Prio[q[j]] < Prio[t]
           \/ Prio[q[j]] = Prio[t] /\ i <= j

(* thread_block and thread_unblock.                                        *)
Blocked(s, t, flag) == [s EXCEPT ![t] = flag]
Unblocked(s, T) == [t \in DOMAIN s |-> IF t \in T THEN "none" ELSE s[t]]

(* The thread that an unlock of mutex m wakes, if any.                     *)
Woken(m) == IF wq[m] = << >> THEN {} ELSE {First(wq[m])}

Handed_free(m) ==           \* mutant: the mutex is free until the thread it woke runs
  NoThread

(* The owner of mutex m after hal_mutex_unlock.                            *)
Handed(m) == IF wq[m] = << >> THEN NoThread ELSE First(wq[m])

(* The waiting threads of mutex m after hal_mutex_unlock.                  *)
Left(m) == IF wq[m] = << >> THEN << >> ELSE Without(wq[m], First(wq[m]))

(* The timed calls after thread t asks for f in d milliseconds.            *)
SetTimer(t, f, d) ==
  /\ tcEventQ' = Requested(tcEventQ, t, f, d)
  /\ left' = [left EXCEPT ![t] = d]
  /\ UNCHANGED ticking

UndoTimer(t) ==
  /\ tcEventQ' = Undone(tcEventQ, t)
  /\ left' = [left EXCEPT ![t] = 0]
  /\ UNCHANGED ticking

-----------------------------------------------------------------------------
(* hal_mutex_lock: thread t gets mutex m or waits for it, and then goes on *)
(* at next.                                                                *)
Lock(t, m, next) ==
  /\ Goto(t, next)
  /\ IF owner[m] = NoThread
     THEN /\ owner' = [owner EXCEPT ![m] = t]
          /\ UNCHANGED <<wq, sleep>>
     ELSE /\ wq' = [wq EXCEPT ![m] = Append(@, t)]
          /\ sleep' = Blocked(sleep, t, "mutex")
          /\ UNCHANGED owner

(* hal_mutex_unlock.                                                       *)
Unlock(m) ==
  /\ owner' = [owner EXCEPT ![m] = Handed(m)]
  /\ wq' = [wq EXCEPT ![m] = Left(m)]
  /\ sleep' = Unblocked(sleep, Woken(m))

hal_mutex_lock(t) ==
  /\ Runs(t, "run")
  /\ Lock(t, "mutex", "locked")
  /\ UNCHANGED <<value, timedout, limit, killing, timer, broadcasting>>

hal_mutex_unlock(t) ==
  /\ Runs(t, "locked")
  /\ Unlock("mutex")
  /\ Goto(t, "run")
  /\ UNCHANGED <<value, timedout, limit, killing, timer, broadcasting>>

(* The part of hal_cond_wait and hal_cond_timedwait before thread_block:   *)
(* the thread joins the waiters of c, unlocks m and sleeps.                *)
CondWait(t, c, m, next) ==
  /\ owner' = [owner EXCEPT ![m] = Handed(m)]
  /\ wq' = [wq EXCEPT ![m] = Left(m), ![c] = Append(@, t)]
  /\ sleep' = Blocked(Unblocked(sleep, Woken(m)), t, "cond")
  /\ Goto(t, next)

hal_cond_wait(t) ==
  /\ Runs(t, "locked")
  /\ CondWait(t, "cond", "mutex", "relock")
  /\ UNCHANGED <<value, timedout, limit, killing, timer, broadcasting>>

hal_cond_timedwait(t, d) ==
  /\ Runs(t, "locked")
  /\ CondWait(t, "cond", "mutex", "relock")
  /\ timedout' = timedout \ {t}
  /\ SetTimer(t, "cond", d)
  /\ UNCHANGED <<value, limit, killing, broadcasting>>

(* A woken waiter reads and clears its timeout flag and locks the mutex.   *)
Relock(t) ==
  /\ Runs(t, "relock")
  /\ timedout' = timedout \ {t}
  /\ Lock(t, "mutex", "locked")
  /\ UNCHANGED <<value, limit, killing, timer, broadcasting>>

WakeCond_noUndo ==          \* mutant: the timer of the waiter is not undone
  /\ wq["cond"] # << >>
  /\ LET t == First(wq["cond"])
     IN  /\ wq' = [wq EXCEPT !["cond"] = Without(@, t)]
         /\ sleep' = Unblocked(sleep, {t})
  /\ UNCHANGED timer

(* The waiter that hal_cond_signal wakes.                                  *)
WakeCond ==
  /\ wq["cond"] # << >>
  /\ LET t == First(wq["cond"])
     IN  /\ wq' = [wq EXCEPT !["cond"] = Without(@, t)]
         /\ UndoTimer(t)
         /\ sleep' = Unblocked(sleep, {t})

(* hal_cond_signal and hal_cond_broadcast may come from any thread, or     *)
(* from an interrupt.                                                      *)
hal_cond_signal ==
  /\ Idle
  /\ WakeCond
  /\ UNCHANGED <<pc, owner, value, timedout, limit, killing, broadcasting>>

(* A turn of the loop of hal_cond_broadcast: nothing runs before its last. *)
hal_cond_broadcast ==
  /\ ~ ticking
  /\ wq["cond"] # << >>
  /\ wq' = [wq EXCEPT !["cond"] = Tail(@)]
  /\ UndoTimer(Head(wq["cond"]))
  /\ sleep' = Unblocked(sleep, {Head(wq["cond"])})
  /\ broadcasting' = (Len(wq["cond"]) > 1)
  /\ UNCHANGED <<pc, owner, value, timedout, limit, killing>>

-----------------------------------------------------------------------------
(* The milliseconds of a timeout in microseconds, rounded up: at least 1.  *)
Msec(uSec) == IF uSec = 0 THEN 1 ELSE (uSec - 1) \div 1000 + 1

(* One turn of the loop of hal_sem_acquire and hal_sem_acquire_etc, at a   *)
(* value of v: take a unit, or join the waiters, with a timer of d         *)
(* milliseconds unless d is Forever.                                       *)
Acquire(t, v, d) ==
  \/ /\ v > 0
     /\ value' = v - 1
     /\ limit' = [limit EXCEPT ![t] = Forever]
     /\ Goto(t, "run")
     /\ UNCHANGED <<wq, sleep, timedout, timer>>
  \/ /\ v = 0
     /\ value' = v
     /\ wq' = [wq EXCEPT !["sem"] = Append(@, t)]
     /\ limit' = [limit EXCEPT ![t] = d]
     /\ IF d = Forever
        THEN UNCHANGED <<timedout, timer>>
        ELSE timedout' = timedout \ {t} /\ SetTimer(t, "sem", d)
     /\ sleep' = Blocked(sleep, t, "sem")
     /\ Goto(t, "acquire")

hal_sem_acquire(t) ==
  /\ Runs(t, "run")
  /\ Acquire(t, value, Forever)
  /\ UNCHANGED <<owner, killing, broadcasting>>

(* zero is SEM_FLAG_ZERO: the units there are do not count.  uSec is       *)
(* Forever without SEM_FLAG_TIMEOUT.  val is 1, as all callers but the     *)
(* ACPI library's pass it.                                                 *)
hal_sem_acquire_etc(t, uSec, zero) ==
  /\ Runs(t, "run")
  /\ Acquire(t, IF zero THEN 0 ELSE value, IF uSec = Forever THEN Forever ELSE Msec(uSec))
  /\ UNCHANGED <<owner, killing, broadcasting>>

(* A thread is woken in the loop: it gives up if its time is out, and else *)
(* tries again, with its whole timeout.                                    *)
AcquireAgain(t) ==
  /\ Runs(t, "acquire")
  /\ IF t \in timedout
     THEN /\ timedout' = timedout \ {t}
          /\ limit' = [limit EXCEPT ![t] = Forever]
          /\ Goto(t, "run")
          /\ UNCHANGED <<sleep, wq, value, timer>>
     ELSE Acquire(t, value, limit[t])
  /\ UNCHANGED <<owner, killing, broadcasting>>

hal_sem_zero(t) ==
  /\ Runs(t, "run")
  /\ value' = 0
  /\ UNCHANGED <<sleep, pc, wq, owner, timedout, limit, killing, timer, broadcasting>>

Wakes_ifZero == value = 0 /\ wq["sem"] # << >>   \* mutant: a waiter is woken only for the first unit

(* hal_sem_release wakes a waiter.                                         *)
Wakes == wq["sem"] # << >>

(* hal_sem_release may come from any thread, or from an interrupt.         *)
hal_sem_release ==
  /\ Idle
  /\ value < MaxUnits
  /\ value' = value + 1
  /\ IF Wakes
     THEN LET t == First(wq["sem"])
          IN  /\ wq' = [wq EXCEPT !["sem"] = Without(@, t)]
              /\ UndoTimer(t)
              /\ sleep' = Unblocked(sleep, {t})
     ELSE UNCHANGED <<wq, timer, sleep>>
  /\ UNCHANGED <<pc, owner, timedout, limit, killing, broadcasting>>

-----------------------------------------------------------------------------
(* hal_sleep_msec, with or without the mutex.                              *)
hal_sleep_msec(t, d) ==
  /\ Runs(t, "run") \/ Runs(t, "locked")
  /\ SetTimer(t, "sleep", d)
  /\ sleep' = Blocked(sleep, t, "sleep")
  /\ UNCHANGED <<pc, waits, killing>>

(* The timer interrupt makes the call at the head of the queue.            *)
Fires(t, f) ==
  /\ HeadDue
  /\ tcEventQ[1].call = t
  /\ tcEventQ[1].f = f
  /\ tcEventQ' = Detached(tcEventQ)
  /\ left' = [left EXCEPT ![t] = 0]
  /\ UNCHANGED ticking

wake_sleeping_thread(t) ==
  /\ Fires(t, "sleep")
  /\ sleep' = Unblocked(sleep, {t})
  /\ UNCHANGED <<pc, waits, killing>>

(* waitcond is set from the wait to the signal that ends it.  (It also     *)
(* stays set after a timeout, until the next wait, where nothing reads it.) *)
WaitCond(t) == t \in Members(wq["cond"])

wake_cond_thread_queued(t) ==       \* mutant: the thread stays among the waiters
  /\ Fires(t, "cond")
  /\ timedout' = timedout \cup {t}
  /\ sleep' = Unblocked(sleep, {t})
  /\ UNCHANGED <<wq, pc, owner, value, limit, killing, broadcasting>>

wake_cond_thread_inverted(t) ==     \* mutant: the test of waitcond is inverted
  /\ Fires(t, "cond")
  /\ IF ~ WaitCond(t)
     THEN /\ wq' = [wq EXCEPT !["cond"] = Without(@, t)]
          /\ timedout' = timedout \cup {t}
          /\ sleep' = Unblocked(sleep, {t})
     ELSE UNCHANGED <<wq, timedout, sleep>>
  /\ UNCHANGED <<pc, owner, value, limit, killing, broadcasting>>

wake_cond_thread(t) ==
  /\ Fires(t, "cond")
  /\ IF WaitCond(t)
     THEN /\ wq' = [wq EXCEPT !["cond"] = Without(@, t)]
          /\ timedout' = timedout \cup {t}
          /\ sleep' = Unblocked(sleep, {t})
     ELSE UNCHANGED <<wq, timedout, sleep>>
  /\ UNCHANGED <<pc, owner, value, limit, killing, broadcasting>>

wake_sem_thread(t) ==
  /\ Fires(t, "sem")
  /\ wq' = [wq EXCEPT !["sem"] = Without(@, t)]
  /\ timedout' = timedout \cup {t}
  /\ sleep' = Unblocked(sleep, {t})
  /\ UNCHANGED <<pc, owner, value, limit, killing, broadcasting>>

-----------------------------------------------------------------------------
(* The end of t_kill_thread of the current thread, which owns kill_mutex:  *)
(* it joins the threads to kill, signals the killer, unlocks and sleeps    *)
(* for ever, all with preemption disabled.                                 *)
Die(t) ==
  /\ threads4kill' = Append(threads4kill, t)
  /\ kill_request' = kill_request + 1
  /\ owner' = [owner EXCEPT !["kill_mutex"] = Handed("kill_mutex")]
  /\ wq' = [wq EXCEPT !["kill_mutex"] = Left("kill_mutex"), !["kill_request"] = Left("kill_request")]
  /\ sleep' = Blocked(Unblocked(sleep, Woken("kill_mutex") \cup Woken("kill_request")),
                      t, "zombie")
  /\ Goto(t, "dead")
  /\ UNCHANGED <<value, timedout, limit, victim, timer, broadcasting>>

(* hal_exit_kernel_thread, by a thread that has unlocked its mutex:        *)
(* t_kill_thread does not look, that is up to its callers.                 *)
Exit(t) ==
  /\ Runs(t, "run")
  /\ owner["kill_mutex"] = NoThread
  /\ Die(t)

ExitWaits_queued(t) ==      \* mutant: it joins the threads to kill before it has the mutex
  /\ Runs(t, "run")
  /\ owner["kill_mutex"] # NoThread
  /\ Lock(t, "kill_mutex", "dying")
  /\ threads4kill' = Append(threads4kill, t)
  /\ kill_request' = kill_request + 1
  /\ UNCHANGED <<value, timedout, limit, victim, timer, broadcasting>>

ExitWaits(t) ==
  /\ Runs(t, "run")
  /\ owner["kill_mutex"] # NoThread
  /\ Lock(t, "kill_mutex", "dying")
  /\ UNCHANGED <<value, timedout, limit, killing, timer, broadcasting>>

ExitGoesOn(t) ==
  /\ Runs(t, "dying")
  /\ Die(t)

(* t_do_some_kills, up to each point where the killer may be preempted.    *)
KillerLocks ==
  /\ \/ Runs(Killer, "k_lock") /\ Lock(Killer, "kill_mutex", "k_wait")
     \/ Runs(Killer, "k_relock") /\ Lock(Killer, "kill_mutex", "k_loop")
  /\ UNCHANGED <<value, timedout, limit, killing, timer, broadcasting>>

KillerWaits ==
  /\ Runs(Killer, "k_wait")
  /\ CondWait(Killer, "kill_request", "kill_mutex", "k_relock")
  /\ UNCHANGED <<value, timedout, limit, killing, timer, broadcasting>>

KillerTakes ==
  /\ Runs(Killer, "k_loop")
  /\ kill_request > 0
  /\ victim' = Head(threads4kill)
  /\ threads4kill' = Tail(threads4kill)
  /\ kill_request' = kill_request - 1
  /\ Unlock("kill_mutex")
  /\ Goto(Killer, "k_kill")
  /\ UNCHANGED <<value, timedout, limit, timer, broadcasting>>

KillerDone ==
  /\ Runs(Killer, "k_loop")
  /\ kill_request = 0
  /\ Unlock("kill_mutex")
  /\ Goto(Killer, "k_lock")
  /\ UNCHANGED <<value, timedout, limit, killing, timer, broadcasting>>

(* t_do_kill_thread.  hal_mutex_unlock_if_owner looks at the mutex of the  *)
(* current thread, the killer, which owns none here.                       *)
KillerKills ==
  /\ Runs(Killer, "k_kill")
  /\ UndoTimer(victim)
  /\ pc' = [pc EXCEPT ![victim] = "free", ![Killer] = "k_relock"]
  /\ victim' = NoThread
  /\ UNCHANGED <<sleep, waits, threads4kill, kill_request>>

(* A new thread takes a free slot, with everything reset.                  *)
phantom_create_thread(t) ==
  /\ Idle
  /\ pc[t] = "free"
  /\ Goto(t, "run")
  /\ sleep' = [sleep EXCEPT ![t] = "none"]
  /\ timedout' = timedout \ {t}
  /\ UNCHANGED <<wq, owner, value, limit, killing, timer, broadcasting>>

-----------------------------------------------------------------------------
Step(t) ==
  \/ hal_mutex_lock(t) \/ hal_mutex_unlock(t)
  \/ hal_cond_wait(t) \/ Relock(t)
  \/ \E d \in Msecs : hal_cond_timedwait(t, d) \/ hal_sleep_msec(t, d)
  \/ hal_sem_acquire(t) \/ AcquireAgain(t) \/ hal_sem_zero(t)
  \/ \E u \in Usecs \cup {Forever}, zero \in BOOLEAN : hal_sem_acquire_etc(t, u, zero)
  \/ Exit(t) \/ ExitWaits(t) \/ ExitGoesOn(t)
  \/ phantom_create_thread(t)

Kill == KillerLocks \/ KillerWaits \/ KillerTakes \/ KillerDone \/ KillerKills

(* phantom_process_timed_calls.                                            *)
Tick ==
  \/ /\ (~ broadcasting /\ TickBegin) \/ FirePeriodic \/ TickEnd
     /\ UNCHANGED <<sleep, pc, waits, killing>>
  \/ \E t \in Thread :
       wake_sleeping_thread(t) \/ wake_cond_thread(t) \/ wake_sem_thread(t)

SetPeriodic ==
  /\ ~ broadcasting
  /\ \E p \in Periodic : RequestPeriodic(p) \/ UndoPeriodic(p)
  /\ UNCHANGED <<sleep, pc, waits, killing>>

Next ==
  \/ \E t \in Thread : Step(t)
  \/ hal_cond_signal \/ hal_cond_broadcast \/ hal_sem_release
  \/ Kill
  \/ Tick
  \/ SetPeriodic

(* The timer interrupt keeps coming, and stays pending while interrupts    *)
(* are disabled; the loop of hal_cond_broadcast goes on.                   *)
Spec ==
  /\ Init /\ [][Next]_vars
  /\ SF_vars(Tick)
  /\ WF_vars(broadcasting /\ hal_cond_broadcast)

-----------------------------------------------------------------------------
Flag(o) == IF o \in Mutex THEN "mutex" ELSE IF o \in Cond THEN "cond" ELSE o

(* A thread is on a queue of waiting threads exactly while it sleeps for   *)
(* that kind of object, and once: thread_unblock's asserts on the sleep    *)
(* flag, t_queue_check's, and the removals of the timeout callbacks depend *)
(* on it.                                                                  *)
QueuedAsleep ==
  /\ \A o \in Object :
       /\ Distinct(wq[o])
       /\ \A t \in Members(wq[o]) : sleep[t] = Flag(o)
       /\ \A p \in Object \ {o} : Members(wq[o]) \cap Members(wq[p]) = {}
  /\ \A t \in Thread \cup {Killer} :
       sleep[t] \in {"mutex", "cond", "sem"} => \E o \in Object : t \in Members(wq[o])

(* A thread's sleep_event is queued only while it is in the sleep that the *)
(* event is to end: no wake-up leaves its timer behind to end a later      *)
(* sleep, to find waitsem cleared or to look for a thread that is gone.    *)
TimerMatchesSleep ==
  \A i \in 1 .. Len(tcEventQ) :
    tcEventQ[i].call \in Thread => sleep[tcEventQ[i].call] = tcEventQ[i].f

(* A mutex passes to the thread that its unlock wakes: a thread back from  *)
(* hal_mutex_lock, or woken in it, is the owner, and a free mutex has no   *)
(* waiters.                                                                *)
MutexHandedOver ==
  /\ \A t \in Thread :
       /\ pc[t] = "locked" /\ sleep[t] # "mutex" => owner["mutex"] = t
       /\ pc[t] = "dying" /\ sleep[t] # "mutex" => owner["kill_mutex"] = t
  /\ pc[Killer] \in {"k_wait", "k_loop"} /\ sleep[Killer] = "none"
       => owner["kill_mutex"] = Killer
  /\ \A m \in Mutex : owner[m] = NoThread => wq[m] = << >>

(* The threads woken for a unit of the semaphore that have not run yet.    *)
Notified == {t \in Thread : pc[t] = "acquire" /\ sleep[t] = "none" /\ t \notin timedout}

(* No unit of the semaphore is lost to the threads that wait for one: with *)
(* units left, a thread sleeps in hal_sem_acquire only if as many threads  *)
(* have been woken as there are units.                                     *)
NoLostUnit == value > 0 /\ wq["sem"] # << >> => value <= Cardinality(Notified)

(* The asserts of t_do_some_kills and t_do_kill_thread: there are as many  *)
(* threads to kill as kill_request says, and each sleeps as a zombie, once *)
(* on the list, and has handed kill_mutex on.                              *)
KillsZombies ==
  /\ kill_request = Len(threads4kill)
  /\ Distinct(threads4kill)
  /\ pc[Killer] = "k_kill" => victim \in Thread \ Members(threads4kill)
  /\ \A t \in Thread :
       t = victim \/ t \in Members(threads4kill)
         => /\ sleep[t] = "zombie" /\ pc[t] = "dead"
            /\ owner["kill_mutex"] # t

(* A timeout ends the sleep it was set for, unless something else did.     *)
TimeoutWakes ==
  \A t \in Thread : t \in Queued(tcEventQ) ~> sleep[t] = "none"
=============================================================================
