----------------------------- MODULE TimedCall -----------------------------
(***************************************************************************)
(* The timed call queue of the kernel (timedcall.c): calls to be made a    *)
(* number of milliseconds later.  tcEventQ is a delta queue: an entry      *)
(* holds the time between its predecessor's call and its own (msecMore),   *)
(* so that the timer interrupt, once a millisecond, counts down the head   *)
(* only.  The interrupt handler runs with interrupts disabled on the only  *)
(* processor; it is a sequence of steps between TickBegin and TickEnd that *)
(* nothing else interrupts.                                                *)
(***************************************************************************)
EXTENDS Integers, Sequences

CONSTANTS
  Periodic,     \* the calls requested with TIMEDCALL_FLAG_PERIODIC
  Period        \* their msecLater

ASSUME PeriodAssumption == Period \in Nat \ {0}

VARIABLES
  tcEventQ,     \* the queue: records of the call, its function f and msecMore
  ticking,      \* phantom_process_timed_calls is running
  left          \* history: the milliseconds until each call is due

timer == <<tcEventQ, ticking, left>>

Entry(call, f, more) == [call |-> call, f |-> f, more |-> more]

(* The milliseconds until the i-th entry of q is called: msecSum.          *)
Due(q, i) ==
  LET sum[k \in 0 .. i] == IF k = 0 THEN 0 ELSE sum[k - 1] + q[k].more
  IN  sum[i]

Queued(q) == {q[i].call : i \in 1 .. Len(q)}

(* Where a call d milliseconds later goes: before the first entry that is  *)
(* due after it, or at the end.                                            *)
Place(q, d) ==
  LET later == {i \in 1 .. Len(q) : Due(q, i - 1) <= d /\ d < Due(q, i)}
  IN  IF later = {} THEN Len(q) + 1
      ELSE CHOOSE i \in later : \A j \in later : i <= j

(* The queue after phantom_request_timed_call.                             *)
Requested(q, call, f, d) ==
  LET i    == Place(q, d)
      more == d - Due(q, i - 1)
  IN  [j \in 1 .. Len(q) + 1 |->
         IF j < i THEN q[j]
         ELSE IF j = i THEN Entry(call, f, more)
         ELSE IF j = i + 1 THEN [q[i] EXCEPT !.more = @ - more]
         ELSE q[j - 1]]

Undone_dropsTime(q, call) ==            \* mutant: the next entry is not given the rest
  SelectSeq(q, LAMBDA e : e.call # call)

(* The queue after phantom_undo_timed_call: the time that was left passes  *)
(* to the next entry.  A call that is not queued leaves it alone.          *)
Undone(q, call) ==
  IF call \notin Queued(q) THEN q
  ELSE LET i == CHOOSE i \in 1 .. Len(q) : q[i].call = call
       IN  [j \in 1 .. Len(q) - 1 |->
              IF j < i THEN q[j]
              ELSE IF j = i THEN [q[i + 1] EXCEPT !.more = @ + q[i].more]
              ELSE q[j + 1]]

(* The queue without its head, whose extra time passes to the next entry.  *)
Detached(q) ==
  IF Len(q) = 1 \/ q[1].more >= 0 THEN Tail(q)
  ELSE [Tail(q) EXCEPT ![1].more = @ + q[1].more]

-----------------------------------------------------------------------------
TimerInit(calls) ==
  /\ tcEventQ = << >>
  /\ ticking = FALSE
  /\ left = [e \in calls |-> 0]

(* A periodic call is requested, and may be undone again: the timer that   *)
(* drives the scheduler is the one the boot code keeps.                    *)
RequestPeriodic(p) ==
  /\ ~ ticking
  /\ p \notin Queued(tcEventQ)
  /\ tcEventQ' = Requested(tcEventQ, p, "timer", Period)
  /\ left' = [left EXCEPT ![p] = Period]
  /\ UNCHANGED ticking

UndoPeriodic(p) ==
  /\ ~ ticking
  /\ tcEventQ' = Undone(tcEventQ, p)
  /\ UNCHANGED <<ticking, left>>

(* The timer interrupt: the head is a millisecond closer.                  *)
TickBegin ==
  /\ ~ ticking
  /\ tcEventQ # << >>
  /\ tcEventQ' = [tcEventQ EXCEPT ![1].more = @ - 1]
  /\ left' = [e \in DOMAIN left |->
                IF e \in Queued(tcEventQ) THEN left[e] - 1 ELSE left[e]]
  /\ ticking' = TRUE

HeadDue == ticking /\ tcEventQ # << >> /\ tcEventQ[1].more <= 0

(* The head of a tick is detached and called; a periodic call goes back.   *)
FirePeriodic ==
  /\ HeadDue
  /\ tcEventQ[1].call \in Periodic
  /\ LET e == tcEventQ[1]
     IN  /\ tcEventQ' = Requested(Detached(tcEventQ), e.call, e.f, Period)
         /\ left' = [left EXCEPT ![e.call] = Period]
  /\ UNCHANGED ticking

TickEnd ==
  /\ ticking
  /\ ~ HeadDue
  /\ ticking' = FALSE
  /\ UNCHANGED <<tcEventQ, left>>

-----------------------------------------------------------------------------
(* Every call is made when it was asked for: the times of the queue add up *)
(* to what is left of every call, no call is overdue once the interrupt    *)
(* handler has returned, and no call is queued twice.  "Func guaranteed to *)
(* be called, and it will be called no earlier than asked."                *)
CalledWhenDue ==
  /\ \A i \in 1 .. Len(tcEventQ) : Due(tcEventQ, i) = left[tcEventQ[i].call]
  /\ ~ ticking => \A e \in Queued(tcEventQ) : left[e] >= 0
  /\ \A i, j \in 1 .. Len(tcEventQ) :
        tcEventQ[i].call = tcEventQ[j].call => i = j
=============================================================================
