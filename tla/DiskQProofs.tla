---------------------------- MODULE DiskQProofs ----------------------------
(***************************************************************************)
(* The safety of the disk queue for any number of requests, callers and    *)
(* deferred call threads.                                                  *)
(***************************************************************************)
EXTENDS DiskQ, FiniteSetTheorems, TLAPS

(* The time limits of the provers. *)
USE ZenonT(10), SMTT(30)


(* What start_io hands on: a request made current is with one thread that  *)
(* has still to trigger the driver, or in ide_dpc.go, or with the one      *)
(* deferred call that serves it.                                           *)
Holds(t) == pc[t] = "trigger" \/ (t \in Dpc /\ pc[t] \in {"run", "io", "moved"})

Token ==
  /\ go => current # NoRq /\ \A t \in Thread : ~Holds(t)
  /\ \A t \in Thread : Holds(t) => current # NoRq
  /\ \A t, u \in Thread : Holds(t) /\ Holds(u) => t = u
  /\ \A d \in Dpc : pc[d] \in {"io", "moved"} => arg[d] = current

Distinct(q) == \A i, j \in DOMAIN q : q[i] = q[j] => i = j
Has(q, r) == \E i \in DOMAIN q : q[i] = r

QueueOK == Distinct(requests) /\ \A r \in Request : Has(requests, r) <=> rq[r].chained

Flags ==
  \A r \in Request :
    /\ rq[r].chained => r # current /\ rq[r].io
    /\ r = current => rq[r].io
    /\ rq[r].io => rq[r].busy

(* The threads that have a request in hand: to enqueue it, or to report it.*)
InHand(t) == \/ t \in Client /\ pc[t] = "flagged"
             \/ t \in Dpc /\ pc[t] \in {"start", "trigger", "done"}

(* A request in hand is neither chained nor current, and is in one hand.   *)
Places ==
  \A t \in Thread : InHand(t) =>
    /\ arg[t] \in Request
    /\ rq[arg[t]].io /\ ~rq[arg[t]].chained /\ arg[t] # current
    /\ \A u \in Thread : InHand(u) /\ arg[u] = arg[t] => u = t

(* A request whose sleeping caller is about to be woken has ended, and is  *)
(* not enqueued again before that.                                         *)
Wakes ==
  \A d \in Dpc : pc[d] = "unblock" =>
    /\ arg[d] \in Request /\ ~rq[arg[d]].io /\ rq[arg[d]].busy
    /\ \A e \in Dpc : pc[e] = "unblock" /\ arg[e] = arg[d] => e = d

Idle == {d \in Dpc : pc[d] \in {"wait", "cond", "woken"}}
IdleExact == idle = Cardinality(Idle)

Inv == TypeOK /\ Token /\ QueueOK /\ Flags /\ Places /\ Wakes /\ IdleExact
-----------------------------------------------------------------------------
(* What the operations on the queue return.                                *)

(* A request put at either end of the queue is on it, with the others.     *)
LEMMA EnteredQueue ==
  ASSUME requests \in Seq(Request), Distinct(requests),
         NEW r \in Request, ~Has(requests, r)
  PROVE  /\ Entered(r) \in Seq(Request) /\ Entered(r) # << >>
         /\ Distinct(Entered(r))
         /\ \A s \in Request : Has(Entered(r), s) <=> Has(requests, s) \/ s = r
<1>1. CASE rq[r].urgent
  <2>1. Entered(r) = <<r>> \o requests
    BY <1>1 DEF Entered
  <2>2. /\ Len(Entered(r)) = Len(requests) + 1 /\ Entered(r) \in Seq(Request)
        /\ Entered(r)[1] = r
        /\ \A i \in 1 .. Len(requests) : Entered(r)[i + 1] = requests[i]
    BY <2>1
  <2>3. \A i \in DOMAIN Entered(r) :
          i = 1 \/ (i - 1 \in DOMAIN requests /\ Entered(r)[i] = requests[i - 1])
    BY <2>2
  <2>4. Distinct(Entered(r))
    BY <2>2, <2>3, SMTT(30) DEF Distinct, Has
  <2>5. ASSUME NEW s \in Request
        PROVE  Has(Entered(r), s) <=> Has(requests, s) \/ s = r
    <3>1. Has(requests, s) => Has(Entered(r), s)
      <4>1. SUFFICES ASSUME NEW i \in DOMAIN requests, requests[i] = s
                     PROVE  Has(Entered(r), s)
        BY DEF Has
      <4>2. i + 1 \in DOMAIN Entered(r) /\ Entered(r)[i + 1] = s
        BY <4>1, <2>2, SMTT(30)
      <4> QED
        BY <4>2 DEF Has
    <3>2. 1 \in DOMAIN Entered(r)
      BY <2>2
    <3> QED
      BY <3>1, <3>2, <2>2, <2>3 DEF Has
  <2> QED
    BY <2>2, <2>4, <2>5, SMTT(30)
<1>2. CASE ~rq[r].urgent
  <2>1. Entered(r) = Append(requests, r)
    BY <1>2 DEF Entered
  <2>2. /\ Len(Entered(r)) = Len(requests) + 1 /\ Entered(r) \in Seq(Request)
        /\ Entered(r)[Len(requests) + 1] = r
        /\ \A i \in 1 .. Len(requests) : Entered(r)[i] = requests[i]
    BY <2>1
  <2>3. \A i \in DOMAIN Entered(r) :
          i = Len(requests) + 1 \/ (i \in DOMAIN requests /\ Entered(r)[i] = requests[i])
    BY <2>2
  <2>4. Distinct(Entered(r))
    BY <2>2, <2>3 DEF Distinct, Has
  <2>5. DOMAIN requests \subseteq DOMAIN Entered(r) /\ Len(requests) + 1 \in DOMAIN Entered(r)
    BY <2>2
  <2> QED
    BY <2>2, <2>3, <2>4, <2>5 DEF Has
<1> QED
  BY <1>1, <1>2

(* start_io takes the first request off the queue and leaves the others.   *)
LEMMA TakenQueue ==
  ASSUME NEW q \in Seq(Request), q # << >>, Distinct(q)
  PROVE  /\ Head(q) \in Request /\ Has(q, Head(q))
         /\ Tail(q) \in Seq(Request) /\ Distinct(Tail(q))
         /\ \A s \in Request : Has(Tail(q), s) <=> Has(q, s) /\ s # Head(q)
<1>1. /\ Len(Tail(q)) = Len(q) - 1 /\ Tail(q) \in Seq(Request)
      /\ Head(q) = q[1] /\ 1 \in DOMAIN q /\ q[1] \in Request
      /\ \A i \in 1 .. Len(q) - 1 : Tail(q)[i] = q[i + 1] /\ i + 1 \in DOMAIN q
  OBVIOUS
<1>2. Distinct(Tail(q))
  BY <1>1, SMTT(30) DEF Distinct
<1>3. ASSUME NEW s \in Request
      PROVE  Has(Tail(q), s) <=> Has(q, s) /\ s # Head(q)
  <2>1. ASSUME NEW i \in DOMAIN Tail(q), Tail(q)[i] = s
        PROVE  Has(q, s) /\ s # Head(q)
    BY <1>1, <2>1, SMTT(30) DEF Has, Distinct
  <2>2. ASSUME NEW i \in DOMAIN q, q[i] = s, s # Head(q)
        PROVE  Has(Tail(q), s)
    <3>1. i - 1 \in DOMAIN Tail(q) /\ Tail(q)[i - 1] = s
      BY <1>1, <2>2, SMTT(30)
    <3> QED
      BY <3>1 DEF Has
  <2> QED
    BY <2>1, <2>2 DEF Has
<1> QED
  BY <1>1, <1>2, <1>3 DEF Has

(* queueDequeue removes the request it was given and no other.             *)
LEMMA RemovedQueue ==
  ASSUME requests \in Seq(Request), Distinct(requests),
         NEW r \in Request, Has(requests, r)
  PROVE  /\ Removed(r) \in Seq(Request) /\ Distinct(Removed(r))
         /\ \A s \in Request : Has(Removed(r), s) <=> Has(requests, s) /\ s # r
<1> DEFINE p == Position(r)
<1>1. p \in DOMAIN requests /\ requests[p] = r
  BY DEF Has, Position
<1>2. p \in 1 .. Len(requests) /\ Len(requests) \in Nat
  BY <1>1
<1> HIDE DEF p
<1>3. /\ Removed(r) \in Seq(Request) /\ Len(Removed(r)) = Len(requests) - 1
      /\ \A i \in 1 .. Len(requests) - 1 :
           Removed(r)[i] = IF i < p THEN requests[i] ELSE requests[i + 1]
  <2>1. Removed(r) = [i \in 1 .. Len(requests) - 1 |->
                        IF i < p THEN requests[i] ELSE requests[i + 1]]
    BY DEF Removed, p
  <2>2. \A i \in 1 .. Len(requests) - 1 :
          (IF i < p THEN requests[i] ELSE requests[i + 1]) \in Request
    BY <1>2
  <2> QED
    BY <1>2, <2>1, <2>2
<1>4. DOMAIN Removed(r) = 1 .. Len(requests) - 1
  BY <1>3, <1>2
<1>5. Distinct(Removed(r))
  <2>1. SUFFICES ASSUME NEW i \in 1 .. Len(requests) - 1, NEW j \in 1 .. Len(requests) - 1,
                        Removed(r)[i] = Removed(r)[j]
                 PROVE  i = j
    BY <1>4 DEF Distinct
  <2>2. PICK k \in DOMAIN requests :
          Removed(r)[i] = requests[k] /\ k = IF i < p THEN i ELSE i + 1
    BY <1>2, <1>3
  <2>3. PICK m \in DOMAIN requests :
          Removed(r)[j] = requests[m] /\ m = IF j < p THEN j ELSE j + 1
    BY <1>2, <1>3
  <2>4. k = m
    BY <2>1, <2>2, <2>3 DEF Distinct
  <2> QED
    BY <1>2, <2>2, <2>3, <2>4
<1>6. ASSUME NEW s \in Request
      PROVE  Has(Removed(r), s) <=> Has(requests, s) /\ s # r
  <2>1. ASSUME NEW i \in DOMAIN Removed(r), Removed(r)[i] = s
        PROVE  Has(requests, s) /\ s # r
    <3>1. CASE i < p
      BY <3>1, <2>1, <1>1, <1>2, <1>3, <1>4, SMTT(30) DEF Has, Distinct
    <3>2. CASE ~(i < p)
      <4>1. i + 1 \in DOMAIN requests /\ requests[i + 1] = s /\ i + 1 # p
        BY <3>2, <2>1, <1>2, <1>3, <1>4
      <4> QED
        BY <4>1, <1>1 DEF Has, Distinct
    <3> QED
      BY <3>1, <3>2
  <2>2. ASSUME NEW i \in DOMAIN requests, requests[i] = s, s # r
        PROVE  Has(Removed(r), s)
    <3>1. CASE i < p
      <4>1. i \in DOMAIN Removed(r) /\ Removed(r)[i] = s
        BY <3>1, <2>2, <1>2, <1>3, <1>4
      <4> QED
        BY <4>1 DEF Has
    <3>2. CASE ~(i < p)
      <4>1. i - 1 \in DOMAIN Removed(r) /\ Removed(r)[i - 1] = s
        BY <3>2, <2>2, <1>1, <1>2, <1>3, <1>4, SMTT(30)
      <4> QED
        BY <4>1 DEF Has
    <3> QED
      BY <3>1, <3>2, <1>2
  <2> QED
    BY <2>1, <2>2 DEF Has
<1> QED
  BY <1>3, <1>5, <1>6

(* queueRaisePrio changes the order only.                                  *)
LEMMA RaisedQueue ==
  ASSUME requests \in Seq(Request), Distinct(requests),
         NEW r \in Request, Has(requests, r)
  PROVE  /\ <<r>> \o Removed(r) \in Seq(Request) /\ Distinct(<<r>> \o Removed(r))
         /\ \A s \in Request : Has(<<r>> \o Removed(r), s) <=> Has(requests, s)
<1> DEFINE q == <<r>> \o Removed(r)
<1>1. /\ Removed(r) \in Seq(Request) /\ Distinct(Removed(r))
      /\ \A s \in Request : Has(Removed(r), s) <=> Has(requests, s) /\ s # r
  BY RemovedQueue
<1>2. /\ q \in Seq(Request) /\ Len(q) = Len(Removed(r)) + 1 /\ q[1] = r
      /\ \A i \in 1 .. Len(Removed(r)) : q[i + 1] = Removed(r)[i]
  BY <1>1
<1> HIDE DEF q
<1>3. \A i \in DOMAIN q :
        i = 1 \/ (i - 1 \in DOMAIN Removed(r) /\ q[i] = Removed(r)[i - 1])
  BY <1>1, <1>2, SMTT(30)
<1>4. ~Has(Removed(r), r)
  BY <1>1
<1>5. Distinct(q)
  BY <1>1, <1>2, <1>3, <1>4, SMTT(30) DEF Distinct, Has
<1>6. ASSUME NEW s \in Request
      PROVE  Has(q, s) <=> Has(requests, s)
  <2>1. Has(q, s) => Has(Removed(r), s) \/ s = r
    BY <1>2, <1>3 DEF Has
  <2>2. ASSUME NEW i \in DOMAIN Removed(r), Removed(r)[i] = s
        PROVE  Has(q, s)
    <3>1. i + 1 \in DOMAIN q /\ q[i + 1] = s
      BY <2>2, <1>1, <1>2, SMTT(30)
    <3> QED
      BY <3>1 DEF Has
  <2>3. Has(q, r)
    <3>1. 1 \in DOMAIN q
      BY <1>1, <1>2, SMTT(30)
    <3> QED
      BY <3>1, <1>2 DEF Has
  <2> QED
    BY <1>1, <2>1, <2>2, <2>3 DEF Has
<1> QED
  BY <1>2, <1>5, <1>6 DEF q

(* A signal turns at most one waiting thread into a woken one.             *)
LEMMA SignalledPc ==
  ASSUME NEW f \in [Thread -> ClientPc \cup DpcPc], NEW g \in Signalled(f)
  PROVE  /\ g \in [Thread -> ClientPc \cup DpcPc]
         /\ \A t \in Thread : \/ g[t] = f[t]
                              \/ t \in Dpc /\ f[t] = "cond" /\ g[t] = "woken"
<1>1. CASE \E d \in Dpc : f[d] = "cond"
  <2>1. PICK d \in Dpc : f[d] = "cond" /\ g = [f EXCEPT ![d] = "woken"]
    BY <1>1 DEF Signalled
  <2> QED
    BY <2>1 DEF Thread, DpcPc
<1>2. CASE ~\E d \in Dpc : f[d] = "cond"
  BY <1>2 DEF Signalled
<1> QED
  BY <1>1, <1>2

-----------------------------------------------------------------------------
(* The invariant.                                                          *)

(* The invariant holds before any request is made.                         *)
LEMMA InitInv == Init => Inv
<1> SUFFICES ASSUME Init PROVE Inv
  OBVIOUS
<1> USE DEF Init
<1>1. TypeOK
  <2>1. Unused \in Rq
    BY DEF Unused, Rq
  <2>2. pc \in [Thread -> ClientPc \cup DpcPc]
    BY DEF ClientPc, DpcPc
  <2>3. /\ \A c \in Client : pc[c] \in ClientPc
        /\ \A d \in Dpc : pc[d] \in DpcPc
    BY DEF ClientPc, DpcPc, Thread
  <2>4. requests \in Seq(Request) /\ rq \in [Request -> Rq]
    BY <2>1, SMTT(30)
  <2>5. arg \in [Thread -> Request \cup {NoRq}] /\ current \in Request \cup {NoRq}
    OBVIOUS
  <2> QED
    BY <2>2, <2>3, <2>4, <2>5 DEF TypeOK
<1>2. Token
  BY DEF Token, Holds, Thread
<1>3. QueueOK
  BY SMTT(30) DEF QueueOK, Distinct, Has, Unused
<1>4. Flags
  BY DiskQAssumption DEF Flags, Unused
<1>5. Places
  BY DiskQAssumption DEF Places, InHand, Thread
<1>6. Wakes
  BY DEF Wakes, Thread
<1>7. IdleExact
  <2>1. Idle = {}
    BY DEF Idle, Thread
  <2> QED
    BY <2>1, FS_EmptySet DEF IdleExact
<1> QED
  BY <1>1, <1>2, <1>3, <1>4, <1>5, <1>6, <1>7 DEF Inv

(* Idle threads stay idle in every step but the three that say otherwise.  *)
LEMMA IdleSame ==
  ASSUME IdleExact, idle' = idle,
         \A d \in Dpc : pc[d] \in {"wait", "cond", "woken"}
                         <=> pc'[d] \in {"wait", "cond", "woken"}
  PROVE  IdleExact'
<1>1. Idle' = Idle
  BY DEF Idle
<1> QED
  BY <1>1 DEF IdleExact

(* Setting flags of a request leaves it a request.                         *)
LEMMA EnqueuedRq ==
  ASSUME NEW f \in [Request -> Rq], NEW r \in Request, NEW b \in BOOLEAN
  PROVE  [f EXCEPT ![r].io = TRUE, ![r].busy = TRUE, ![r].urgent = b]
           \in [Request -> Rq]
  BY ZenonT(30) DEF Rq

(* pager_enqueue_for_pagein and _for_pageout: only a request that is not   *)
(* busy is taken in hand.                                                  *)
LEMMA EnqueueInv ==
  ASSUME Inv, NEW c \in Client, NEW r \in Request, NEW fast \in BOOLEAN,
         PagerEnqueue(c, r, fast)
  PROVE  Inv'
<1> USE DEF PagerEnqueue, At, Goto
<1>0. /\ rq \in [Request -> Rq] /\ pc \in [Thread -> ClientPc \cup DpcPc]
      /\ arg \in [Thread -> Request \cup {NoRq}] /\ c \in Thread /\ c \notin Dpc
      /\ ~rq[r].io /\ ~rq[r].chained /\ r # current
  BY DiskQAssumption DEF Inv, TypeOK, Thread, Flags, MayEnqueue
<1>1. TypeOK'
  <2>0. (rq[r].urgent \/ fast) \in BOOLEAN
    OBVIOUS
  <2>1. rq' \in [Request -> Rq]
    <3> DEFINE b == rq[r].urgent \/ fast
    <3>1. b \in BOOLEAN
      BY <2>0
    <3>2. rq' = [rq EXCEPT ![r].io = TRUE, ![r].busy = TRUE, ![r].urgent = b]
      OBVIOUS
    <3> HIDE DEF b, PagerEnqueue
    <3> QED
      BY <1>0, <3>1, <3>2, EnqueuedRq
  <2>2. pc' \in [Thread -> ClientPc \cup DpcPc] /\ \A d \in Dpc : pc'[d] \in DpcPc
    BY <1>0, SMTT(30) DEF Inv, TypeOK, ClientPc
  <2>3. \A e \in Client : pc'[e] \in ClientPc
    BY <1>0 DEF Inv, TypeOK, ClientPc, Thread
  <2> QED
    BY <1>0, <2>1, <2>2, <2>3, SMTT(30) DEF Inv, TypeOK
<1>2. Token'
  BY <1>0, SMTT(30) DEF Inv, Token, Holds
<1>3. QueueOK'
  BY <1>0, SMTT(30) DEF Inv, QueueOK, Rq
<1>4. Flags'
  BY <1>0, ZenonT(30) DEF Inv, Flags, Rq
<1>5. Places'
  BY <1>0, SMTT(30) DEF Inv, Places, InHand, Rq
<1>6. Wakes'
  BY <1>0 DEF Inv, Wakes, Rq, MayEnqueue, Thread
<1>7. IdleExact'
  BY <1>0, IdleSame, SMTT(30) DEF Inv
<1> QED
  BY <1>1, <1>2, <1>3, <1>4, <1>5, <1>6, <1>7 DEF Inv

(* queueAsyncIo: the request in hand goes to the queue.                    *)
LEMMA ChainInv ==
  ASSUME Inv, NEW c \in Client, QueueAsyncIo(c)
  PROVE  Inv'
<1> USE DEF QueueAsyncIo, At, Goto
<1>0. /\ rq \in [Request -> Rq] /\ pc \in [Thread -> ClientPc \cup DpcPc]
      /\ arg \in [Thread -> Request \cup {NoRq}] /\ c \in Thread /\ c \notin Dpc
      /\ arg[c] \in Request /\ InHand(c)
      /\ rq[arg[c]].io /\ ~rq[arg[c]].chained /\ arg[c] # current
  BY DiskQAssumption DEF Inv, TypeOK, Thread, Places, InHand
<1>1. /\ requests' \in Seq(Request) /\ Distinct(requests')
      /\ \A s \in Request : Has(requests', s) <=> Has(requests, s) \/ s = arg[c]
  BY <1>0, EnteredQueue DEF Inv, TypeOK, QueueOK
<1>2. TypeOK'
  <2>1. rq' \in [Request -> Rq]
    BY <1>0, ZenonT(30) DEF Rq
  <2>2. pc' \in [Thread -> ClientPc \cup DpcPc] /\ \A d \in Dpc : pc'[d] \in DpcPc
    BY <1>0, SMTT(30) DEF Inv, TypeOK, ClientPc
  <2>3. \A e \in Client : pc'[e] \in ClientPc
    BY <1>0 DEF Inv, TypeOK, ClientPc, Thread
  <2> QED
    BY <1>0, <1>1, <2>1, <2>2, <2>3 DEF Inv, TypeOK
<1>3. Token'
  BY <1>0, SMTT(30) DEF Inv, Token, Holds
<1>4. QueueOK'
  BY <1>0, <1>1 DEF Inv, QueueOK, Rq
<1>5. Flags'
  BY <1>0, ZenonT(30) DEF Inv, Flags, Rq
<1>6. Places'
  BY <1>0 DEF Inv, Places, InHand, Rq
<1>7. Wakes'
  BY <1>0 DEF Inv, Wakes, Rq, Thread
<1>8. IdleExact'
  BY <1>0, IdleSame, SMTT(30) DEF Inv
<1> QED
  BY <1>2, <1>3, <1>4, <1>5, <1>6, <1>7, <1>8 DEF Inv

(* startSync: the request goes to the queue, and the head of the queue     *)
(* becomes current if the disk is idle.                                    *)
LEMMA SyncInv ==
  ASSUME Inv, NEW c \in Client, NEW r \in Request, StartSync(c, r)
  PROVE  Inv'
<1> DEFINE q == Entered(r)
           asleep == [pc EXCEPT ![c] = "asleep"]
<1>0. /\ rq \in [Request -> Rq] /\ pc \in [Thread -> ClientPc \cup DpcPc]
      /\ arg \in [Thread -> Request \cup {NoRq}] /\ c \in Thread /\ c \notin Dpc
      /\ pc[c] = "idle" /\ arg' = [arg EXCEPT ![c] = r]
      /\ ~rq[r].io /\ ~rq[r].busy /\ ~rq[r].chained /\ r # current
  BY DiskQAssumption DEF Inv, TypeOK, Thread, Flags, StartSync, At
<1>1. /\ q \in Seq(Request) /\ q # << >> /\ Distinct(q)
      /\ \A s \in Request : Has(q, s) <=> Has(requests, s) \/ s = r
  BY <1>0, EnteredQueue DEF Inv, TypeOK, QueueOK
<1>2. /\ Head(q) \in Request /\ Has(q, Head(q))
      /\ Tail(q) \in Seq(Request) /\ Distinct(Tail(q))
      /\ \A s \in Request : Has(Tail(q), s) <=> Has(q, s) /\ s # Head(q)
  BY <1>1, TakenQueue
<1>3. /\ asleep \in [Thread -> ClientPc \cup DpcPc]
      /\ \A t \in Thread : asleep[t] = IF t = c THEN "asleep" ELSE pc[t]
  BY <1>0 DEF ClientPc
<1>4. /\ pc' \in [Thread -> ClientPc \cup DpcPc]
      /\ \A t \in Thread : \/ t = c /\ pc'[t] = "asleep"
                           \/ t # c /\ pc'[t] = pc[t]
                           \/ t \in Dpc /\ pc[t] = "cond" /\ pc'[t] = "woken"
  <2>1. pc' = asleep \/ pc' \in Signalled(asleep)
    BY DEF StartSync
  <2> HIDE DEF asleep
  <2>2. ASSUME pc' \in Signalled(asleep)
        PROVE  /\ pc' \in [Thread -> ClientPc \cup DpcPc]
               /\ \A t \in Thread :
                    \/ pc'[t] = asleep[t]
                    \/ t \in Dpc /\ asleep[t] = "cond" /\ pc'[t] = "woken"
    BY <1>3, <2>2, SignalledPc
  <2> QED
    BY <1>0, <1>3, <2>1, <2>2
<1>5. TypeOK' /\ IdleExact'
  <2>1. requests' \in Seq(Request) /\ current' \in Request \cup {NoRq} /\ go' \in BOOLEAN
    BY <1>1, <1>2 DEF StartSync, Inv, TypeOK
  <2>2. rq' \in [Request -> Rq]
    <3>1. CASE current = NoRq
      <4>1. (r # Head(q)) \in BOOLEAN
        OBVIOUS
      <4>2. rq' = [[rq EXCEPT ![r].io = TRUE, ![r].busy = TRUE, ![r].ioerror = FALSE]
                     EXCEPT ![r].chained = r # Head(q), ![Head(q)].chained = FALSE]
        BY <3>1 DEF StartSync
      <4> DEFINE b == r # Head(q)
                 h == Head(q)
      <4>3. b \in BOOLEAN /\ h \in Request
        BY <1>2
      <4>4. rq' = [[rq EXCEPT ![r].io = TRUE, ![r].busy = TRUE, ![r].ioerror = FALSE]
                     EXCEPT ![r].chained = b, ![h].chained = FALSE]
        BY <4>2
      <4> HIDE DEF b, h
      <4> QED
        BY <1>0, <4>3, <4>4, SMTT(30) DEF Rq
    <3>2. CASE current # NoRq
      <4>1. rq' = [[rq EXCEPT ![r].io = TRUE, ![r].busy = TRUE, ![r].ioerror = FALSE]
                     EXCEPT ![r].chained = TRUE]
        BY <3>2 DEF StartSync
      <4> QED
        BY <1>0, <4>1, SMTT(30) DEF Rq
    <3> QED
      BY <3>1, <3>2
  <2>3. \A e \in Client : pc'[e] \in ClientPc
    BY <1>0, <1>4, DiskQAssumption DEF Inv, TypeOK, ClientPc, Thread
  <2>4. \A d \in Dpc : pc'[d] \in DpcPc
    BY <1>0, <1>4 DEF Inv, TypeOK, DpcPc, Thread
  <2>5. arg' \in [Thread -> Request \cup {NoRq}] /\ idle' \in Nat /\ enqueued' \in Nat
    BY <1>0, SMTT(30) DEF StartSync, Inv, TypeOK
  <2>6. IdleExact'
    BY <1>0, <1>4, IdleSame DEF Inv, StartSync, Thread
  <2> QED
    BY <1>4, <2>1, <2>2, <2>3, <2>4, <2>5, <2>6 DEF TypeOK
<1>6. \A t \in Thread : /\ InHand(t)' <=> InHand(t)
                        /\ Holds(t)' <=> Holds(t)
                        /\ InHand(t) => t # c
  BY <1>0, <1>4 DEF InHand, Holds
<1>7. CASE current = NoRq
  <2> DEFINE h == Head(q)
  <2>0. /\ current' = h /\ requests' = Tail(q) /\ go'
        /\ h \in Request /\ (Has(requests, h) \/ h = r)
        /\ rq' = [[rq EXCEPT ![r].io = TRUE, ![r].busy = TRUE, ![r].ioerror = FALSE]
                     EXCEPT ![r].chained = r # h, ![h].chained = FALSE]
    BY <1>1, <1>2, <1>7 DEF StartSync
  <2>1. /\ \A s \in Request : Has(requests', s) <=> (Has(requests, s) \/ s = r) /\ s # h
        /\ Distinct(requests')
    BY <1>1, <1>2, <2>0
  <2> HIDE DEF h, q, asleep
  <2>2. \A s \in Request :
          /\ rq'[s].io <=> rq[s].io \/ s = r
          /\ rq'[s].busy <=> rq[s].busy \/ s = r
          /\ rq'[s].chained <=> (rq[s].chained \/ s = r) /\ s # h
    BY <1>0, <2>0, SMTT(30) DEF Rq
  <2>3. rq[h].chained \/ h = r
    BY <2>0 DEF Inv, QueueOK
  <2>4. Token'
    BY <1>0, <1>4, <1>6, <1>7, <2>0, DiskQAssumption DEF Inv, Token, Thread, Holds
  <2>5. QueueOK'
    BY <2>1, <2>2 DEF Inv, QueueOK
  <2>6. Flags'
    BY <2>0, <2>2, <2>3 DEF Inv, Flags
  <2>7. Places'
    BY <1>0, <1>6, <2>0, <2>2, <2>3, ZenonT(30) DEF Inv, Places
  <2>8. Wakes'
    BY <1>0, <1>4, <2>2, SMTT(30) DEF Inv, Wakes, Thread
  <2> QED
    BY <1>5, <2>4, <2>5, <2>6, <2>7, <2>8 DEF Inv
<1>8. CASE current # NoRq
  <2>0. /\ current' = current /\ requests' = q /\ go' = go
        /\ rq' = [[rq EXCEPT ![r].io = TRUE, ![r].busy = TRUE, ![r].ioerror = FALSE]
                     EXCEPT ![r].chained = TRUE]
    BY <1>8 DEF StartSync
  <2> HIDE DEF q, asleep
  <2>2. \A s \in Request :
          /\ rq'[s].io <=> rq[s].io \/ s = r
          /\ rq'[s].busy <=> rq[s].busy \/ s = r
          /\ rq'[s].chained <=> rq[s].chained \/ s = r
    BY <1>0, <2>0 DEF Rq
  <2>4. Token'
    BY <1>0, <1>4, <1>6, <2>0 DEF Inv, Token, Thread
  <2>5. QueueOK'
    BY <1>1, <2>0, <2>2 DEF Inv, QueueOK
  <2>6. Flags'
    BY <1>0, <2>0, <2>2 DEF Inv, Flags
  <2>7. Places'
    BY <1>0, <1>6, <2>0, <2>2 DEF Inv, Places
  <2>8. Wakes'
    BY <1>0, <1>4, <2>2, SMTT(30) DEF Inv, Wakes, Thread
  <2> QED
    BY <1>5, <2>4, <2>5, <2>6, <2>7, <2>8 DEF Inv
<1> QED
  BY <1>7, <1>8

(* The types of the variables, as the other steps use them.                *)
LEMMA InvTypes ==
  ASSUME Inv
  PROVE  /\ rq \in [Request -> Rq] /\ pc \in [Thread -> ClientPc \cup DpcPc]
         /\ arg \in [Thread -> Request \cup {NoRq}] /\ requests \in Seq(Request)
         /\ current \in Request \cup {NoRq} /\ go \in BOOLEAN
         /\ idle \in Nat /\ enqueued \in Nat
         /\ Client \subseteq Thread /\ Dpc \subseteq Thread /\ Client \cap Dpc = {}
         /\ \A c \in Client : pc[c] \in ClientPc
         /\ \A d \in Dpc : pc[d] \in DpcPc
  BY DiskQAssumption DEF Inv, TypeOK, Thread

(* queueDequeue: a chained request leaves the queue with its flags         *)
(* cleared.                                                                *)
LEMMA DequeueInv ==
  ASSUME Inv, NEW c \in Client, NEW r \in Request, Dequeue(c, r)
  PROVE  Inv'
<1> USE DEF Dequeue
<1>0. /\ rq \in [Request -> Rq] /\ requests \in Seq(Request)
      /\ rq[r].chained /\ rq[r].io /\ r # current
  BY InvTypes DEF Inv, Flags
<1>1. /\ requests' \in Seq(Request) /\ Distinct(requests')
      /\ \A s \in Request : Has(requests', s) <=> Has(requests, s) /\ s # r
  BY <1>0, RemovedQueue DEF Inv, QueueOK
<1>2. \A s \in Request :
        /\ rq'[s].io <=> rq[s].io /\ s # r
        /\ rq'[s].busy <=> rq[s].busy /\ s # r
        /\ rq'[s].chained <=> rq[s].chained /\ s # r
  BY <1>0 DEF Rq
<1>3. TypeOK'
  <2>1. rq' \in [Request -> Rq]
    BY <1>0, SMTT(30) DEF Rq
  <2> QED
    BY <1>1, <2>1 DEF Inv, TypeOK
<1>4. \A t \in Thread : InHand(t)' <=> InHand(t)
  BY DEF InHand
<1>5. Token' /\ IdleExact'
  BY DEF Inv, Token, Holds, IdleExact, Idle
<1>6. QueueOK'
  BY <1>1, <1>2 DEF Inv, QueueOK
<1>7. Flags'
  BY <1>0, <1>2 DEF Inv, Flags
<1>8. Places'
  BY <1>0, <1>2, <1>4 DEF Inv, Places
<1>9. Wakes'
  BY <1>0, <1>2 DEF Inv, Wakes
<1> QED
  BY <1>3, <1>5, <1>6, <1>7, <1>8, <1>9 DEF Inv

(* queueRaisePrio: the queue is the same set of requests.                  *)
LEMMA RaiseInv ==
  ASSUME Inv, NEW c \in Client, NEW r \in Request, RaisePrio(c, r)
  PROVE  Inv'
<1> USE DEF RaisePrio
<1>1. /\ requests' \in Seq(Request) /\ Distinct(requests')
      /\ \A s \in Request : Has(requests', s) <=> Has(requests, s)
  BY InvTypes, RaisedQueue DEF Inv, QueueOK
<1>2. TypeOK'
  BY <1>1 DEF Inv, TypeOK
<1>3. QueueOK'
  BY <1>1 DEF Inv, QueueOK
<1>4. Token' /\ IdleExact' /\ Flags'
  BY DEF Inv, Token, Holds, IdleExact, Idle, Flags
<1>5. Places' /\ Wakes'
  BY DEF Inv, Places, InHand, Wakes
<1> QED
  BY <1>2, <1>3, <1>4, <1>5 DEF Inv

(* start_io: a request becomes current only when none is, and the caller   *)
(* alone has to trigger the driver.                                        *)
LEMMA StartInv ==
  ASSUME Inv, NEW t \in Thread, StartIo(t)
  PROVE  Inv'
<1>0. /\ pc[t] = "start" /\ arg' = arg /\ go' = go /\ idle' = idle /\ enqueued' = enqueued
      /\ \/ pc' = [pc EXCEPT ![t] = After(t)]
         \/ pc' = [pc EXCEPT ![t] = "trigger"]
      /\ t \in Client \cup Dpc
  BY DEF StartIo, At, Goto, Thread
<1>1. After(t) = (IF t \in Dpc THEN "done" ELSE "idle")
  BY DEF After
<1>2. IdleExact'
  BY <1>0, <1>1, InvTypes, IdleSame DEF Inv
<1>3. /\ pc' \in [Thread -> ClientPc \cup DpcPc]
      /\ \A c \in Client : pc'[c] \in ClientPc
      /\ \A d \in Dpc : pc'[d] \in DpcPc
  BY <1>0, <1>1, InvTypes DEF ClientPc, DpcPc
<1>4. \A u \in Thread : InHand(u)' <=> InHand(u)
  BY <1>0, <1>1, InvTypes DEF InHand
<1>5. \A d \in Dpc : pc[d] = "unblock" <=> pc'[d] = "unblock"
  BY <1>0, <1>1, InvTypes
<1>6. CASE current # NoRq \/ requests = << >>
  <2>1. /\ requests' = requests /\ current' = current /\ rq' = rq
        /\ pc' = [pc EXCEPT ![t] = After(t)]
    BY <1>6 DEF StartIo, Goto
  <2>2. TypeOK'
    BY <1>0, <1>3, <2>1 DEF Inv, TypeOK
  <2>3. Token'
    BY <1>0, <1>1, <2>1, InvTypes, ZenonT(30) DEF Inv, Token, Holds
  <2>4. QueueOK' /\ Flags'
    BY <2>1 DEF Inv, QueueOK, Flags
  <2>5. Places'
    BY <1>0, <1>4, <2>1 DEF Inv, Places
  <2>6. Wakes'
    BY <1>0, <1>5, <2>1 DEF Inv, Wakes
  <2> QED
    BY <1>2, <2>2, <2>3, <2>4, <2>5, <2>6 DEF Inv
<1>7. CASE current = NoRq /\ requests # << >>
  <2> DEFINE h == Head(requests)
  <2>1. /\ requests' = Tail(requests) /\ current' = h
        /\ rq' = [rq EXCEPT ![h].chained = FALSE]
        /\ pc' = [pc EXCEPT ![t] = "trigger"]
    BY <1>7 DEF StartIo, Goto
  <2>2. /\ h \in Request /\ Has(requests, h)
        /\ requests' \in Seq(Request) /\ Distinct(requests')
        /\ \A s \in Request : Has(requests', s) <=> Has(requests, s) /\ s # h
    BY <1>7, <2>1, InvTypes, TakenQueue DEF Inv, QueueOK
  <2> HIDE DEF h
  <2>3. rq[h].chained /\ rq[h].io /\ h # NoRq
    BY <2>2, DiskQAssumption DEF Inv, QueueOK, Flags
  <2>4. \A s \in Request :
          /\ rq'[s].io = rq[s].io /\ rq'[s].busy = rq[s].busy
          /\ rq'[s].chained <=> rq[s].chained /\ s # h
    BY <2>1, <2>2, InvTypes DEF Rq
  <2>5. TypeOK'
    <3>1. rq' \in [Request -> Rq]
      BY <2>1, <2>2, InvTypes DEF Rq
    <3> QED
      BY <1>0, <1>3, <2>1, <2>2, <3>1 DEF Inv, TypeOK
  <2>6. Token'
    BY <1>0, <1>7, <2>1, <2>3, InvTypes DEF Inv, Token, Holds
  <2>7. QueueOK'
    BY <2>2, <2>4 DEF Inv, QueueOK
  <2>8. Flags'
    BY <2>1, <2>3, <2>4 DEF Inv, Flags
  <2>9. Places'
    BY <1>0, <1>4, <2>1, <2>2, <2>3, <2>4, ZenonT(30) DEF Inv, Places
  <2>10. Wakes'
    BY <1>0, <1>5, <2>1, <2>4, SMTT(30) DEF Inv, Wakes
  <2> QED
    BY <1>2, <2>5, <2>6, <2>7, <2>8, <2>9, <2>10 DEF Inv
<1> QED
  BY <1>6, <1>7

(* dpc_request_trigger: what the caller had to hand on is now in go.       *)
LEMMA TriggerInv ==
  ASSUME Inv, NEW t \in Thread, Trigger(t)
  PROVE  Inv'
<1> DEFINE f == [pc EXCEPT ![t] = After(t)]
<1>0. /\ pc[t] = "trigger" /\ arg' = arg /\ go' /\ go' = TRUE /\ idle' = idle
      /\ requests' = requests /\ current' = current /\ rq' = rq
      /\ enqueued' = enqueued /\ pc' \in Signalled(f)
      /\ After(t) = (IF t \in Dpc THEN "done" ELSE "idle") /\ t \in Client \cup Dpc
  BY DEF Trigger, At, After, Thread
<1>1. /\ f \in [Thread -> ClientPc \cup DpcPc]
      /\ \A u \in Thread : f[u] = IF u = t THEN After(t) ELSE pc[u]
  BY <1>0, InvTypes DEF ClientPc, DpcPc
<1> HIDE DEF f
<1>2. /\ pc' \in [Thread -> ClientPc \cup DpcPc]
      /\ \A u \in Thread : \/ pc'[u] = f[u]
                           \/ u \in Dpc /\ f[u] = "cond" /\ pc'[u] = "woken"
  BY <1>0, <1>1, SignalledPc
<1>3. \A u \in Thread : \/ u = t /\ pc'[u] = After(t)
                        \/ u # t /\ pc'[u] = pc[u]
                        \/ u \in Dpc /\ u # t /\ pc[u] = "cond" /\ pc'[u] = "woken"
  BY <1>0, <1>1, <1>2
<1>4. TypeOK'
  <2>1. \A c \in Client : pc'[c] \in ClientPc
    BY <1>0, <1>3, InvTypes DEF ClientPc
  <2>2. \A d \in Dpc : pc'[d] \in DpcPc
    BY <1>0, <1>3, InvTypes DEF DpcPc
  <2> QED
    BY <1>0, <1>2, <2>1, <2>2 DEF Inv, TypeOK
<1>5. IdleExact'
  BY <1>0, <1>3, InvTypes, IdleSame DEF Inv
<1>6. Token'
  <2>1. \A u \in Thread : ~Holds(u)'
    BY <1>0, <1>3, InvTypes DEF Inv, Token, Holds
  <2> QED
    BY <1>0, <1>3, <2>1, InvTypes DEF Inv, Token, Holds
<1>7. QueueOK' /\ Flags'
  BY <1>0 DEF Inv, QueueOK, Flags
<1>8. Places'
  <2>1. \A u \in Thread : InHand(u)' <=> InHand(u)
    BY <1>0, <1>3, InvTypes DEF InHand
  <2> QED
    BY <1>0, <2>1 DEF Inv, Places
<1>9. Wakes'
  <2>1. \A d \in Dpc : pc[d] = "unblock" <=> pc'[d] = "unblock"
    BY <1>0, <1>3, InvTypes
  <2> QED
    BY <1>0, <2>1 DEF Inv, Wakes
<1> QED
  BY <1>4, <1>5, <1>6, <1>7, <1>8, <1>9 DEF Inv

(* The steps of a deferred call thread that leave queue, current and       *)
(* requests alone and neither take nor report a request.                   *)
LEMMA QuietInv ==
  ASSUME Inv, TypeOK', IdleExact',
         requests' = requests, current' = current, rq' = rq, arg' = arg, go' = go,
         \A t \in Thread : Holds(t)' <=> Holds(t),
         \A t \in Thread : InHand(t)' <=> InHand(t),
         \A d \in Dpc : /\ pc'[d] = "unblock" => pc[d] = "unblock"
                        /\ pc'[d] \in {"io", "moved"} => pc[d] \in {"io", "moved"}
  PROVE  Inv'
<1>1. Token'
  BY DEF Inv, Token
<1>2. QueueOK' /\ Flags'
  BY DEF Inv, QueueOK, Flags
<1>3. Places'
  BY DEF Inv, Places
<1>4. Wakes'
  BY DEF Inv, Wakes
<1> QED
  BY <1>1, <1>2, <1>3, <1>4 DEF Inv

(* dpc_request_find: what was in go is now with this thread.               *)
LEMMA FindInv ==
  ASSUME Inv, NEW d \in Dpc, DpcFind(d)
  PROVE  Inv'
<1>0. /\ pc[d] = "find" /\ go' = FALSE /\ ~go' /\ arg' = arg /\ idle' = idle
      /\ requests' = requests /\ current' = current /\ rq' = rq
      /\ enqueued' = enqueued
      /\ pc' = [pc EXCEPT ![d] = IF go THEN "run" ELSE "none"]
  BY DEF DpcFind, At, Goto
<1>1. TypeOK'
  <2>1. pc' \in [Thread -> ClientPc \cup DpcPc] /\ \A c \in Client : pc'[c] \in ClientPc
    BY <1>0, InvTypes DEF DpcPc
  <2>2. \A e \in Dpc : pc'[e] \in DpcPc
    BY <1>0, InvTypes DEF DpcPc
  <2> QED
    BY <1>0, <2>1, <2>2 DEF Inv, TypeOK
<1>2. IdleExact'
  BY <1>0, InvTypes, IdleSame DEF Inv
<1>3. Token'
  BY <1>0, InvTypes DEF Inv, Token, Holds
<1>4. QueueOK' /\ Flags'
  BY <1>0 DEF Inv, QueueOK, Flags
<1>5. Places'
  <2>1. \A u \in Thread : InHand(u)' <=> InHand(u)
    BY <1>0, InvTypes DEF InHand
  <2> QED
    BY <1>0, <2>1 DEF Inv, Places
<1>6. Wakes'
  <2>1. \A e \in Dpc : pc[e] = "unblock" <=> pc'[e] = "unblock"
    BY <1>0, InvTypes
  <2> QED
    BY <1>0, <2>1 DEF Inv, Wakes
<1> QED
  BY <1>1, <1>2, <1>3, <1>4, <1>5, <1>6 DEF Inv

(* A deferred call thread with nothing to do is counted as idle or ends.   *)
LEMMA NoneInv ==
  ASSUME Inv, NEW d \in Dpc, DpcNone(d)
  PROVE  Inv'
<1>0. /\ pc[d] = "none" /\ go' = go /\ arg' = arg /\ enqueued' = enqueued
      /\ requests' = requests /\ current' = current /\ rq' = rq
      /\ \/ pc' = [pc EXCEPT ![d] = "off"] /\ idle' = idle
         \/ pc' = [pc EXCEPT ![d] = "wait"] /\ idle' = idle + 1
  BY DEF DpcNone, At, Goto
<1>1. TypeOK'
  <2>1. pc' \in [Thread -> ClientPc \cup DpcPc] /\ \A c \in Client : pc'[c] \in ClientPc
    BY <1>0, InvTypes DEF DpcPc
  <2>2. \A e \in Dpc : pc'[e] \in DpcPc
    BY <1>0, InvTypes DEF DpcPc
  <2> QED
    BY <1>0, <2>1, <2>2, InvTypes, SMTT(30) DEF TypeOK
<1>2. IdleExact'
  <2>1. CASE pc' = [pc EXCEPT ![d] = "off"] /\ idle' = idle
    BY <1>0, <2>1, InvTypes, IdleSame DEF Inv
  <2>2. CASE pc' = [pc EXCEPT ![d] = "wait"] /\ idle' = idle + 1
    <3>1. Idle' = Idle \cup {d} /\ d \notin Idle
      BY <1>0, <2>2, InvTypes DEF Idle
    <3>2. IsFiniteSet(Idle)
      BY DiskQAssumption, FS_Subset DEF Idle
    <3> QED
      BY <2>2, <3>1, <3>2, FS_AddElement DEF Inv, IdleExact
  <2> QED
    BY <1>0, <2>1, <2>2
<1>3. \A t \in Thread : Holds(t)' <=> Holds(t)
  BY <1>0, InvTypes DEF Holds
<1>4. \A t \in Thread : InHand(t)' <=> InHand(t)
  BY <1>0, InvTypes DEF InHand
<1>5. \A e \in Dpc : /\ pc'[e] = "unblock" => pc[e] = "unblock"
                     /\ pc'[e] \in {"io", "moved"} => pc[e] \in {"io", "moved"}
  BY <1>0, InvTypes
<1> QED
  BY <1>0, <1>1, <1>2, <1>3, <1>4, <1>5, QuietInv

(* It waits, and when woken is no longer counted.                          *)
LEMMA WaitInv ==
  ASSUME Inv, NEW d \in Dpc, DpcWait(d) \/ DpcWoken(d)
  PROVE  Inv'
<1>0. /\ go' = go /\ arg' = arg /\ enqueued' = enqueued
      /\ requests' = requests /\ current' = current /\ rq' = rq
      /\ \/ pc[d] = "wait" /\ pc' = [pc EXCEPT ![d] = "cond"] /\ idle' = idle
         \/ pc[d] = "woken" /\ pc' = [pc EXCEPT ![d] = "find"] /\ idle' = idle - 1
  BY DEF DpcWait, DpcWoken, At, Goto
<1>2. IdleExact' /\ idle' \in Nat
  <2>1. CASE pc[d] = "wait" /\ pc' = [pc EXCEPT ![d] = "cond"] /\ idle' = idle
    BY <1>0, <2>1, InvTypes, IdleSame DEF Inv
  <2>2. CASE pc[d] = "woken" /\ pc' = [pc EXCEPT ![d] = "find"] /\ idle' = idle - 1
    <3>1. Idle' = Idle \ {d} /\ d \in Idle
      BY <1>0, <2>2, InvTypes DEF Idle
    <3>2. IsFiniteSet(Idle)
      BY DiskQAssumption, FS_Subset DEF Idle
    <3>3. Cardinality(Idle') = Cardinality(Idle) - 1 /\ Cardinality(Idle') \in Nat
      BY <3>1, <3>2, FS_RemoveElement, FS_CardinalityType
    <3> QED
      BY <2>2, <3>3 DEF Inv, IdleExact
  <2> QED
    BY <1>0, <2>1, <2>2
<1>1. TypeOK'
  <2>1. pc' \in [Thread -> ClientPc \cup DpcPc] /\ \A c \in Client : pc'[c] \in ClientPc
    BY <1>0, InvTypes DEF DpcPc
  <2>2. \A e \in Dpc : pc'[e] \in DpcPc
    BY <1>0, InvTypes DEF DpcPc
  <2> QED
    BY <1>0, <1>2, <2>1, <2>2, InvTypes DEF TypeOK
<1>3. \A t \in Thread : Holds(t)' <=> Holds(t)
  BY <1>0, InvTypes DEF Holds
<1>4. \A t \in Thread : InHand(t)' <=> InHand(t)
  BY <1>0, InvTypes DEF InHand
<1>5. \A e \in Dpc : /\ pc'[e] = "unblock" => pc[e] = "unblock"
                     /\ pc'[e] \in {"io", "moved"} => pc[e] \in {"io", "moved"}
  BY <1>0, InvTypes
<1> QED
  BY <1>0, <1>1, <1>2, <1>3, <1>4, <1>5, QuietInv

(* dpc_func up to the end of the transfer: the current request stays with  *)
(* this thread.                                                            *)
LEMMA ServeInv ==
  ASSUME Inv, NEW d \in Dpc, DpcFunc(d) \/ Transfer(d)
  PROVE  Inv'
<1>0. /\ go' = go /\ idle' = idle /\ enqueued' = enqueued
      /\ requests' = requests /\ current' = current /\ rq' = rq
      /\ \/ pc[d] = "run" /\ pc' = [pc EXCEPT ![d] = "io"]
            /\ arg' = [arg EXCEPT ![d] = current]
         \/ pc[d] = "io" /\ pc' = [pc EXCEPT ![d] = "moved"] /\ arg' = arg
  BY DEF DpcFunc, Transfer, At, Goto
<1>1. TypeOK'
  <2>1. pc' \in [Thread -> ClientPc \cup DpcPc] /\ \A c \in Client : pc'[c] \in ClientPc
    BY <1>0, InvTypes DEF DpcPc
  <2>2. \A e \in Dpc : pc'[e] \in DpcPc
    BY <1>0, InvTypes DEF DpcPc
  <2>3. arg' \in [Thread -> Request \cup {NoRq}]
    BY <1>0, InvTypes
  <2> QED
    BY <1>0, <2>1, <2>2, <2>3, InvTypes DEF TypeOK
<1>2. IdleExact'
  BY <1>0, InvTypes, IdleSame DEF Inv
<1>3. Token'
  BY <1>0, InvTypes, SMTT(30) DEF Inv, Token, Holds
<1>4. QueueOK' /\ Flags'
  BY <1>0 DEF Inv, QueueOK, Flags
<1>5. Places'
  <2>1. \A u \in Thread : /\ InHand(u)' <=> InHand(u)
                          /\ InHand(u) => arg'[u] = arg[u]
    BY <1>0, InvTypes DEF InHand
  <2> QED
    BY <1>0, <2>1 DEF Inv, Places
<1>6. Wakes'
  <2>1. \A e \in Dpc : /\ pc'[e] = "unblock" <=> pc[e] = "unblock"
                       /\ pc[e] = "unblock" => arg'[e] = arg[e]
    BY <1>0, InvTypes
  <2> QED
    BY <1>0, <2>1, SMTT(30) DEF Inv, Wakes
<1> QED
  BY <1>1, <1>2, <1>3, <1>4, <1>5, <1>6 DEF Inv

(* interrupt: the current request is in the hand of this thread.           *)
LEMMA InterruptInv ==
  ASSUME Inv, NEW d \in Dpc, NEW failed \in BOOLEAN, Interrupt(d, failed)
  PROVE  Inv'
<1>0. /\ go' = go /\ idle' = idle /\ enqueued' = enqueued /\ requests' = requests
      /\ pc[d] = "moved" /\ pc' = [pc EXCEPT ![d] = "start"]
      /\ arg' = [arg EXCEPT ![d] = current] /\ current' = NoRq
      /\ rq' = [rq EXCEPT ![current].ioerror = rq[current].ioerror \/ failed]
  BY DEF Interrupt, At, Goto
<1>1. current \in Request /\ rq[current].io /\ ~rq[current].chained /\ ~go
  BY <1>0, InvTypes DEF Inv, Token, Holds, Flags
<1>2. \A s \in Request :
        /\ rq'[s].io = rq[s].io /\ rq'[s].busy = rq[s].busy
        /\ rq'[s].chained = rq[s].chained
  BY <1>0, <1>1, InvTypes DEF Rq
<1>3. TypeOK'
  <2>1. pc' \in [Thread -> ClientPc \cup DpcPc] /\ \A c \in Client : pc'[c] \in ClientPc
    BY <1>0, InvTypes DEF DpcPc
  <2>2. \A e \in Dpc : pc'[e] \in DpcPc
    BY <1>0, InvTypes DEF DpcPc
  <2>3. rq' \in [Request -> Rq]
    <3> DEFINE b == rq[current].ioerror \/ failed
    <3>1. b \in BOOLEAN
      OBVIOUS
    <3>2. rq' = [rq EXCEPT ![current].ioerror = b] /\ rq \in [Request -> Rq]
      BY <1>0, InvTypes
    <3> HIDE DEF b
    <3> QED
      BY <1>1, <3>1, <3>2 DEF Rq
  <2> QED
    BY <1>0, <1>1, <2>1, <2>2, <2>3, InvTypes DEF TypeOK
<1>4. IdleExact'
  BY <1>0, InvTypes, IdleSame DEF Inv
<1>5. Token'
  <2>1. \A t \in Thread : ~Holds(t)'
    BY <1>0, InvTypes DEF Inv, Token, Holds
  <2>2. \A e \in Dpc : pc'[e] \notin {"io", "moved"}
    BY <1>0, InvTypes DEF Inv, Token, Holds
  <2> QED
    BY <1>0, <1>1, <2>1, <2>2 DEF Token
<1>6. QueueOK'
  BY <1>0, <1>2 DEF Inv, QueueOK
<1>7. Flags'
  BY <1>0, <1>2, DiskQAssumption DEF Inv, Flags
<1>8. Places'
  <2>1. \A u \in Thread : /\ InHand(u)' <=> InHand(u) \/ u = d
                          /\ u # d => arg'[u] = arg[u]
    BY <1>0, InvTypes DEF InHand
  <2>2. arg'[d] = current /\ ~InHand(d)
    BY <1>0, InvTypes DEF InHand
  <2> QED
    BY <1>0, <1>1, <1>2, <2>1, <2>2, DiskQAssumption, SMTT(30) DEF Inv, Places
<1>9. Wakes'
  <2>1. \A e \in Dpc : /\ pc'[e] = "unblock" <=> pc[e] = "unblock"
                       /\ pc[e] = "unblock" => arg'[e] = arg[e]
    BY <1>0, InvTypes
  <2> QED
    BY <1>0, <1>2, <2>1, SMTT(30) DEF Inv, Wakes
<1> QED
  BY <1>3, <1>4, <1>5, <1>6, <1>7, <1>8, <1>9 DEF Inv

(* pager_io_request_done: the request in hand is free, or has a sleeper to *)
(* be woken.                                                               *)
LEMMA DoneInv ==
  ASSUME Inv, NEW d \in Dpc, RequestDone(d)
  PROVE  Inv'
<1> DEFINE r == arg[d]
<1>0. /\ go' = go /\ idle' = idle /\ enqueued' = enqueued /\ requests' = requests
      /\ current' = current /\ pc[d] = "done"
      /\ arg' = [arg EXCEPT ![d] = IF r \in Sync THEN r ELSE NoRq]
      /\ pc' = [pc EXCEPT ![d] = IF r \in Sync THEN "unblock" ELSE "find"]
      /\ rq' = [rq EXCEPT ![r].io = FALSE, ![r].busy = r \in Sync]
  BY DEF RequestDone, At, Goto
<1>a. /\ arg' \in [Thread -> Request \cup {NoRq}]
      /\ \A t \in Thread : t # d => arg'[t] = arg[t]
      /\ r \in Sync => arg'[d] = r
  BY <1>0, InvTypes
<1>1. /\ r \in Request /\ rq[r].io /\ ~rq[r].chained /\ r # current /\ InHand(d)
  BY <1>0, InvTypes DEF Inv, Places, InHand
<1>2. \A s \in Request :
        /\ rq'[s].io <=> rq[s].io /\ s # r
        /\ rq'[s].busy <=> (IF s = r THEN r \in Sync ELSE rq[s].busy)
        /\ rq'[s].chained = rq[s].chained
  BY <1>0, <1>1, InvTypes DEF Rq
<1>3. TypeOK'
  <2>1. pc' \in [Thread -> ClientPc \cup DpcPc] /\ \A c \in Client : pc'[c] \in ClientPc
    BY <1>0, InvTypes DEF DpcPc
  <2>2. \A e \in Dpc : pc'[e] \in DpcPc
    BY <1>0, InvTypes DEF DpcPc
  <2>3. rq' \in [Request -> Rq]
    <3> DEFINE b == r \in Sync
    <3>1. b \in BOOLEAN
      OBVIOUS
    <3>2. rq' = [rq EXCEPT ![r].io = FALSE, ![r].busy = b] /\ rq \in [Request -> Rq]
      BY <1>0, InvTypes
    <3> HIDE DEF b, r
    <3> QED
      BY <1>1, <3>1, <3>2 DEF Rq
  <2> QED
    BY <1>0, <1>a, <2>1, <2>2, <2>3, InvTypes DEF TypeOK
<1>4. IdleExact'
  BY <1>0, InvTypes, IdleSame DEF Inv
<1>5. Token'
  BY <1>0, <1>a, InvTypes, ZenonT(30) DEF Inv, Token, Holds
<1>6. QueueOK'
  BY <1>0, <1>2 DEF Inv, QueueOK
<1>7. Flags'
  BY <1>0, <1>1, <1>2 DEF Inv, Flags
<1>8. Places'
  <2>1. \A u \in Thread : InHand(u)' <=> InHand(u) /\ u # d
    BY <1>0, InvTypes DEF InHand
  <2> QED
    BY <1>0, <1>a, <1>1, <1>2, <2>1, InvTypes, SMTT(30) DEF Inv, Places
<1>9. Wakes'
  <2>1. \A e \in Dpc : pc'[e] = "unblock"
                       <=> pc[e] = "unblock" \/ (e = d /\ r \in Sync)
    BY <1>0, InvTypes
  <2>2. \A e \in Dpc : pc[e] = "unblock" => arg[e] # r
    BY <1>1 DEF Inv, Wakes
  <2>3. SUFFICES ASSUME NEW e \in Dpc, pc'[e] = "unblock"
                 PROVE  /\ arg[e] \in Request /\ ~rq'[arg[e]].io /\ rq'[arg[e]].busy
                        /\ \A x \in Dpc : pc'[x] = "unblock" /\ arg[x] = arg[e] => x = e
    <3>1. ASSUME NEW x \in Dpc, pc'[x] = "unblock"
          PROVE  arg'[x] = arg[x]
      <4>1. CASE x = d
        <5>1. r \in Sync
          BY <1>0, <3>1, <4>1, InvTypes
        <5> QED
          BY <1>a, <4>1, <5>1
      <4>2. CASE x # d
        BY <1>a, <4>2 DEF Thread
      <4> QED
        BY <4>1, <4>2
    <3> QED
      BY <3>1 DEF Wakes
  <2>4. CASE e = d
    BY <2>1, <2>2, <2>3, <2>4, <1>1, <1>2
  <2>5. CASE e # d
    <3>1. pc[e] = "unblock" /\ arg[e] # r
      BY <2>1, <2>2, <2>3, <2>5
    <3>2. /\ arg[e] \in Request /\ ~rq[arg[e]].io /\ rq[arg[e]].busy
          /\ \A x \in Dpc : pc[x] = "unblock" /\ arg[x] = arg[e] => x = e
      BY <3>1 DEF Inv, Wakes
    <3> QED
      BY <2>1, <3>1, <3>2, <1>2
  <2> QED
    BY <2>4, <2>5
<1> QED
  BY <1>3, <1>4, <1>5, <1>6, <1>7, <1>8, <1>9 DEF Inv

(* The wake-up of the caller of startSync.                                 *)
LEMMA UnblockInv ==
  ASSUME Inv, NEW d \in Dpc, Unblock(d)
  PROVE  Inv'
<1> DEFINE r == arg[d]
<1>0. /\ go' = go /\ idle' = idle /\ enqueued' = enqueued /\ requests' = requests
      /\ current' = current /\ pc[d] = "unblock"
      /\ rq' = [rq EXCEPT ![r].busy = FALSE]
      /\ pc' = [t \in Thread |->
                  IF t = d THEN "find"
                  ELSE IF Sleeper(t, r) THEN "idle" ELSE pc[t]]
      /\ arg' = [t \in Thread |-> IF t = d \/ Sleeper(t, r) THEN NoRq ELSE arg[t]]
  BY DEF Unblock, At
<1>a. /\ arg' \in [Thread -> Request \cup {NoRq}]
      /\ \A e \in Dpc : e # d => arg'[e] = arg[e]
      /\ \A t \in Client : pc[t] # "asleep" => arg'[t] = arg[t]
  BY <1>0, InvTypes DEF Sleeper, At
<1>1. r \in Request /\ ~rq[r].io
  BY <1>0 DEF Inv, Wakes
<1>2. \A s \in Request :
        /\ rq'[s].io = rq[s].io /\ rq'[s].chained = rq[s].chained
        /\ rq'[s].busy <=> rq[s].busy /\ s # r
  BY <1>0, <1>1, InvTypes, ZenonT(30) DEF Rq
<1>3. \A t \in Thread : \/ t = d /\ pc'[t] = "find"
                        \/ t \in Client /\ pc[t] = "asleep" /\ pc'[t] = "idle"
                        \/ t # d /\ pc'[t] = pc[t]
  BY <1>0 DEF Sleeper, At
<1>4. TypeOK'
  <2>1. pc' \in [Thread -> ClientPc \cup DpcPc]
    BY <1>0, InvTypes DEF DpcPc, ClientPc
  <2>2. \A e \in Dpc : pc'[e] \in DpcPc
    BY <1>0, <1>3, InvTypes DEF DpcPc
  <2>3. \A c \in Client : pc'[c] \in ClientPc
    BY <1>0, <1>3, InvTypes DEF ClientPc
  <2>4. rq' \in [Request -> Rq]
    BY <1>0, <1>1, InvTypes DEF Rq
  <2> QED
    BY <1>0, <1>a, <2>1, <2>2, <2>3, <2>4, InvTypes DEF TypeOK
<1>5. IdleExact'
  BY <1>0, <1>3, InvTypes, IdleSame DEF Inv
<1>6. \A t \in Thread : /\ Holds(t)' <=> Holds(t)
                        /\ InHand(t)' <=> InHand(t)
  BY <1>0, <1>3, InvTypes DEF Holds, InHand
<1>7. \A e \in Dpc : /\ pc'[e] = "unblock" <=> pc[e] = "unblock" /\ e # d
                     /\ pc'[e] \in {"io", "moved"} <=> pc[e] \in {"io", "moved"}
  BY <1>0, <1>3, InvTypes
<1>8. Token'
  BY <1>0, <1>a, <1>6, <1>7 DEF Inv, Token
<1>9. QueueOK'
  BY <1>0, <1>2 DEF Inv, QueueOK
<1>10. Flags'
  BY <1>0, <1>1, <1>2 DEF Inv, Flags
<1>11. Places'
  <2>1. \A t \in Thread : InHand(t) => arg'[t] = arg[t]
    BY <1>0, <1>a, InvTypes DEF InHand
  <2> QED
    BY <1>0, <1>2, <1>6, <2>1, SMTT(30) DEF Inv, Places
<1>12. Wakes'
  BY <1>0, <1>a, <1>1, <1>2, <1>7, SMTT(30) DEF Inv, Wakes
<1> QED
  BY <1>4, <1>5, <1>8, <1>9, <1>10, <1>11, <1>12 DEF Inv

(* dpc_timed only starts and wakes deferred call threads.                  *)
LEMMA TimedInv ==
  ASSUME Inv, DpcTimed
  PROVE  Inv'
<1>0. /\ go' = go /\ idle' = idle /\ enqueued' = enqueued /\ requests' = requests
      /\ arg' = arg /\ current' = current /\ rq' = rq
      /\ pc' \in UNION {Signalled(f) : f \in Grown}
  BY DEF DpcTimed
<1>1. PICK f \in Grown : pc' \in Signalled(f)
  BY <1>0
<1>2. /\ f \in [Thread -> ClientPc \cup DpcPc]
      /\ \A t \in Thread : \/ f[t] = pc[t]
                           \/ t \in Dpc /\ pc[t] = "off" /\ f[t] = "find"
  BY InvTypes DEF Grown, DpcPc
<1>3. /\ pc' \in [Thread -> ClientPc \cup DpcPc]
      /\ \A t \in Thread : \/ pc'[t] = f[t]
                           \/ t \in Dpc /\ f[t] = "cond" /\ pc'[t] = "woken"
  BY <1>1, <1>2, SignalledPc
<1>4. \A t \in Thread : \/ pc'[t] = pc[t]
                        \/ t \in Dpc /\ pc[t] = "off" /\ pc'[t] = "find"
                        \/ t \in Dpc /\ pc[t] = "cond" /\ pc'[t] = "woken"
  BY <1>2, <1>3
<1>5. TypeOK'
  <2>1. \A e \in Dpc : pc'[e] \in DpcPc
    BY <1>4, InvTypes DEF DpcPc
  <2>2. \A c \in Client : pc'[c] \in ClientPc
    BY <1>4, InvTypes DEF ClientPc
  <2> QED
    BY <1>0, <1>3, <2>1, <2>2, InvTypes DEF TypeOK
<1>6. IdleExact'
  BY <1>0, <1>4, InvTypes, IdleSame DEF Inv
<1>7. \A t \in Thread : Holds(t)' <=> Holds(t)
  BY <1>4, InvTypes DEF Holds
<1>8. \A t \in Thread : InHand(t)' <=> InHand(t)
  BY <1>4, InvTypes DEF InHand
<1>9. \A e \in Dpc : /\ pc'[e] = "unblock" => pc[e] = "unblock"
                     /\ pc'[e] \in {"io", "moved"} => pc[e] \in {"io", "moved"}
  BY <1>4, InvTypes
<1> QED
  BY <1>0, <1>5, <1>6, <1>7, <1>8, <1>9, QuietInv

(* A step of other parts of the kernel.                                    *)
LEMMA StutterInv ==
  ASSUME Inv, UNCHANGED vars
  PROVE  Inv'
<1>1. TypeOK' /\ IdleExact' /\ QueueOK' /\ Flags'
  BY DEF vars, Inv, TypeOK, IdleExact, Idle, QueueOK, Flags
<1>2. Token' /\ Places' /\ Wakes'
  BY DEF vars, Inv, Token, Holds, Places, InHand, Wakes
<1> QED
  BY <1>1, <1>2 DEF Inv

(* Every step keeps the invariant.                                         *)
LEMMA NextInv == Inv /\ [Next]_vars => Inv'
<1> SUFFICES ASSUME Inv, [Next]_vars PROVE Inv'
  OBVIOUS
<1>1. ASSUME NEW c \in Client, NEW r \in Request, Call(c, r)
      PROVE  Inv'
  BY <1>1, EnqueueInv, SyncInv, DequeueInv, RaiseInv DEF Call
<1>2. ASSUME NEW c \in Client, ClientStep(c)
      PROVE  Inv'
  <2>1. c \in Thread
    BY DEF Thread
  <2> QED
    BY <1>2, <2>1, ChainInv, StartInv, TriggerInv DEF ClientStep
<1>3. ASSUME NEW d \in Dpc, DpcStep(d)
      PROVE  Inv'
  <2>1. d \in Thread
    BY DEF Thread
  <2> QED
    BY <1>3, <2>1, FindInv, NoneInv, WaitInv, ServeInv, InterruptInv, StartInv,
       TriggerInv, DoneInv, UnblockInv DEF DpcStep
<1> QED
  BY <1>1, <1>2, <1>3, TimedInv, StutterInv DEF Next

(* The invariant holds in every reachable state.                           *)
LEMMA Invariance == Spec => []Inv
  BY InitInv, NextInv, PTL DEF Spec

(* For any number of requests, callers and deferred call threads, the      *)
(* variables of the disk queue keep their types, the count of idle         *)
(* deferred call threads included.                                         *)
THEOREM QueueTypes == Spec => []TypeOK
<1>1. Inv => TypeOK
  BY DEF Inv
<1> QED
  BY <1>1, Invariance, PTL

(* A request is never in two places, though interrupt and start_io hand    *)
(* it on without the queue's lock (disk_q.c:46-139).                       *)
THEOREM RequestsInOnePlace == Spec => []InOnePlace
<1>1. Inv => InOnePlace
  <2> SUFFICES ASSUME Inv PROVE InOnePlace
    OBVIOUS
  <2>1. \A r \in Request : Queued(r) <=> Has(requests, r)
    BY DEF Queued, Has
  <2>2. \A d \in Reporting : d \in Thread /\ InHand(d)
    BY DEF Reporting, InHand, Thread
  <2> QED
    BY <2>1, <2>2 DEF Inv, QueueOK, Distinct, Flags, Places, InOnePlace
<1> QED
  BY <1>1, Invariance, PTL

(* The asserts of dpc_func and interrupt hold, and one thread at a time    *)
(* serves the disk, with any number of deferred call threads.              *)
THEOREM DriverSafe == Spec => []DriverFindsRequest
<1>1. Inv => DriverFindsRequest
  <2> SUFFICES ASSUME Inv PROVE DriverFindsRequest
    OBVIOUS
  <2>1. \A d \in Serving : d \in Thread /\ Holds(d)
    BY DEF Serving, Holds, Thread
  <2> QED
    BY <2>1 DEF Inv, Token, DriverFindsRequest
<1> QED
  BY <1>1, Invariance, PTL

(* The panics of pager_enqueue_for_pagein and _for_pageout never fire.     *)
THEOREM EnqueueSafe == Spec => []EnqueueFindsIdle
<1>1. Inv => EnqueueFindsIdle
  BY DEF Inv, Flags, EnqueueFindsIdle
<1> QED
  BY <1>1, Invariance, PTL

-----------------------------------------------------------------------------
(* The queue implements IoService.                                         *)

(* A request being moved has its flag set and is off the queue.            *)
LEMMA MovedBusy ==
  ASSUME Inv, NEW r \in Request, Moved(r)
  PROVE  rq[r].io /\ ~rq[r].chained
<1>1. PICK d \in Dpc :
        \/ pc[d] = "moved" /\ r = current
        \/ InHand(d) /\ arg[d] = r
  BY DEF Moved, Reporting, InHand
<1>2. d \in Thread
  BY DEF Thread
<1> QED
  BY <1>1, <1>2 DEF Inv, Flags, Places

(* A step that changes neither leaves the abstract state alone.            *)
LEMMA SameState ==
  ASSUME \A r \in Request : Moved(r)' <=> Moved(r),
         \A r \in Request : rq'[r].io <=> rq[r].io
  PROVE  IoState' = IoState
  BY DEF IoState

(* A step that changes one request changes the abstract state there.       *)
LEMMA OneChanged ==
  ASSUME NEW r \in Request,
         \A s \in Request \ {r} : Moved(s)' <=> Moved(s),
         \A s \in Request \ {r} : rq'[s].io <=> rq[s].io
  PROVE  IoState' = [IoState EXCEPT ![r] = IF Moved(r)' THEN "moved"
                                           ELSE IF rq'[r].io THEN "queued" ELSE "idle"]
  BY DEF IoState

(* A request whose flag_pagein or flag_pageout is set is submitted.        *)
LEMMA SubmitStep ==
  ASSUME Inv, NEW r \in Request, ~rq[r].io, rq'[r].io,
         \A s \in Request : Moved(s)' <=> Moved(s),
         \A s \in Request \ {r} : rq'[s].io <=> rq[s].io
  PROVE  Abstract!Next
<1>1. ~Moved(r) /\ ~Moved(r)'
  BY MovedBusy
<1>2. IoState' = [IoState EXCEPT ![r] = "queued"]
  BY <1>1, OneChanged
<1>3. IoState[r] = "idle"
  BY <1>1 DEF IoState
<1> QED
  BY <1>2, <1>3 DEF Abstract!Next, Abstract!Submit

(* Whether a request is moved depends on current and on the threads that   *)
(* have moved or report one.                                               *)
LEMMA MovedSame ==
  ASSUME current' = current,
         \A d \in Dpc : pc'[d] = "moved" <=> pc[d] = "moved",
         \A d \in Dpc : pc'[d] \in {"start", "trigger", "done"}
                         <=> pc[d] \in {"start", "trigger", "done"},
         \A d \in Dpc : pc[d] \in {"start", "trigger", "done"} => arg'[d] = arg[d]
  PROVE  \A r \in Request : Moved(r)' <=> Moved(r)
  BY DEF Moved, Reporting

(* The callers submit and withdraw requests.                               *)
LEMMA CallRefines ==
  ASSUME Inv, NEW c \in Client, NEW r \in Request, Call(c, r)
  PROVE  Abstract!Next \/ IoState' = IoState
<1>1. ASSUME NEW fast \in BOOLEAN, PagerEnqueue(c, r, fast)
      PROVE  Abstract!Next
  <2>1. /\ current' = current /\ pc' = [pc EXCEPT ![c] = "flagged"]
        /\ arg' = [arg EXCEPT ![c] = r] /\ ~rq[r].busy
        /\ rq' = [rq EXCEPT ![r].io = TRUE, ![r].busy = TRUE,
                            ![r].urgent = rq[r].urgent \/ fast]
    BY <1>1 DEF PagerEnqueue, Goto, MayEnqueue
  <2>2. \A s \in Request : Moved(s)' <=> Moved(s)
    BY <2>1, InvTypes, MovedSame
  <2>3. \A s \in Request : rq'[s].io <=> rq[s].io \/ s = r
    BY <2>1, InvTypes DEF Rq
  <2>4. ~rq[r].io
    BY <2>1 DEF Inv, Flags
  <2> QED
    BY <2>2, <2>3, <2>4, SubmitStep
<1>2. ASSUME StartSync(c, r)
      PROVE  Abstract!Next
  <2> DEFINE asleep == [pc EXCEPT ![c] = "asleep"]
             h == Head(Entered(r))
  <2>0. ~rq[r].io /\ ~rq[r].chained /\ arg' = [arg EXCEPT ![c] = r]
    BY <1>2 DEF StartSync, Inv, Flags
  <2>1. h \in Request
    BY <2>0, InvTypes, EnteredQueue, TakenQueue DEF Inv, QueueOK
  <2>2. pc' = asleep \/ pc' \in Signalled(asleep)
    BY <1>2 DEF StartSync
  <2>3. asleep \in [Thread -> ClientPc \cup DpcPc]
        /\ \A d \in Dpc : asleep[d] = pc[d]
    BY InvTypes DEF ClientPc
  <2>4. \A d \in Dpc : pc'[d] = pc[d] \/ (pc[d] = "cond" /\ pc'[d] = "woken")
    <3> HIDE DEF asleep
    <3>1. ASSUME pc' \in Signalled(asleep)
          PROVE  \A t \in Thread :
                   \/ pc'[t] = asleep[t]
                   \/ t \in Dpc /\ asleep[t] = "cond" /\ pc'[t] = "woken"
      BY <2>3, <3>1, SignalledPc
    <3> QED
      BY <2>2, <2>3, <3>1, InvTypes
  <2>5. \A s \in Request : rq'[s].io <=> rq[s].io \/ s = r
    <3>1. CASE current = NoRq
      <4>1. rq' = [[rq EXCEPT ![r].io = TRUE, ![r].busy = TRUE, ![r].ioerror = FALSE]
                     EXCEPT ![r].chained = r # h, ![h].chained = FALSE]
        BY <1>2, <3>1 DEF StartSync
      <4> HIDE DEF h
      <4> QED
        BY <2>1, <4>1, InvTypes, SMTT(30) DEF Rq
    <3>2. CASE current # NoRq
      <4>1. rq' = [[rq EXCEPT ![r].io = TRUE, ![r].busy = TRUE, ![r].ioerror = FALSE]
                     EXCEPT ![r].chained = TRUE]
        BY <1>2, <3>2 DEF StartSync
      <4> QED
        BY <4>1, InvTypes DEF Rq
    <3> QED
      BY <3>1, <3>2
  <2>6. \A s \in Request : Moved(s)' <=> Moved(s)
    <3>1. CASE current # NoRq
      <4>1. current' = current
        BY <1>2, <3>1 DEF StartSync
      <4> QED
        BY <2>0, <2>4, <4>1, InvTypes, MovedSame
    <3>2. CASE current = NoRq
      <4>1. \A d \in Dpc : pc[d] # "moved"
        BY <3>2, InvTypes DEF Inv, Token, Holds
      <4> QED
        BY <2>0, <2>4, <4>1, InvTypes DEF Moved, Reporting
    <3> QED
      BY <3>1, <3>2
  <2> QED
    BY <2>0, <2>5, <2>6, SubmitStep
<1>3. ASSUME Dequeue(c, r)
      PROVE  Abstract!Next
  <2>1. /\ current' = current /\ pc' = pc /\ arg' = arg /\ rq[r].chained
        /\ rq' = [rq EXCEPT ![r].chained = FALSE, ![r].io = FALSE, ![r].busy = FALSE]
    BY <1>3 DEF Dequeue
  <2>2. \A s \in Request : Moved(s)' <=> Moved(s)
    BY <2>1, MovedSame
  <2>3. \A s \in Request : rq'[s].io <=> rq[s].io /\ s # r
    BY <2>1, InvTypes DEF Rq
  <2>4. rq[r].io /\ ~Moved(r)
    BY <2>1, MovedBusy DEF Inv, Flags
  <2>5. IoState' = [IoState EXCEPT ![r] = "idle"]
    BY <2>2, <2>3, <2>4, OneChanged
  <2>6. IoState[r] = "queued"
    BY <2>4 DEF IoState
  <2> QED
    BY <2>5, <2>6 DEF Abstract!Next, Abstract!Withdraw
<1>4. ASSUME RaisePrio(c, r)
      PROVE  IoState' = IoState
  <2>1. current' = current /\ pc' = pc /\ arg' = arg /\ rq' = rq
    BY <1>4 DEF RaisePrio
  <2> QED
    BY <2>1, MovedSame, SameState
<1> QED
  BY <1>1, <1>2, <1>3, <1>4 DEF Call

(* For the service the request is queued since its flag was set.           *)
LEMMA ChainRefines ==
  ASSUME Inv, NEW c \in Client, QueueAsyncIo(c)
  PROVE  IoState' = IoState
<1>1. /\ current' = current /\ pc' = [pc EXCEPT ![c] = "start"]
      /\ \A e \in Dpc : arg'[e] = arg[e]
      /\ rq' = [rq EXCEPT ![arg[c]].chained = TRUE]
  BY InvTypes DEF QueueAsyncIo, Goto
<1>2. \A s \in Request : rq'[s].io = rq[s].io
  BY <1>1, InvTypes DEF Rq
<1>3. \A s \in Request : Moved(s)' <=> Moved(s)
  BY <1>1, InvTypes DEF Moved, Reporting
<1> QED
  BY <1>2, <1>3, SameState

(* A request becomes current only when no other is, so none is being moved.*)
LEMMA StartRefines ==
  ASSUME Inv, NEW t \in Thread, StartIo(t)
  PROVE  IoState' = IoState
<1>1. /\ pc[t] = "start" /\ arg' = arg
      /\ \A d \in Dpc : pc'[d] = pc[d]
                         \/ (d = t /\ pc'[d] \in {"trigger", "done"})
  BY InvTypes DEF StartIo, At, Goto, After
<1>2. \A s \in Request : rq'[s].io = rq[s].io
  <2>1. CASE rq' = rq
    BY <2>1
  <2>2. CASE rq' = [rq EXCEPT ![Head(requests)].chained = FALSE]
    <3> DEFINE h == Head(requests)
    <3>1. rq' = [rq EXCEPT ![h].chained = FALSE]
      BY <2>2
    <3> HIDE DEF h
    <3> QED
      BY <3>1, InvTypes DEF Rq
  <2> QED
    BY <2>1, <2>2 DEF StartIo
<1>3. \A s \in Request : Moved(s)' <=> Moved(s)
  <2>1. CASE current' = current
    BY <1>1, <2>1, MovedSame
  <2>2. CASE current' # current
    <3>1. current = NoRq
      BY <2>2 DEF StartIo
    <3>2. \A d \in Dpc : pc[d] # "moved" /\ pc'[d] # "moved"
      BY <1>1, <3>1, InvTypes DEF Inv, Token, Holds
    <3> QED
      BY <1>1, <3>2 DEF Moved, Reporting
  <2> QED
    BY <2>1, <2>2
<1> QED
  BY <1>2, <1>3, SameState

(* The service does not see which thread serves.                           *)
LEMMA TriggerRefines ==
  ASSUME Inv, NEW t \in Thread, Trigger(t)
  PROVE  IoState' = IoState
<1> DEFINE f == [pc EXCEPT ![t] = After(t)]
<1>0. /\ pc[t] = "trigger" /\ arg' = arg /\ current' = current /\ rq' = rq
      /\ pc' \in Signalled(f) /\ After(t) = (IF t \in Dpc THEN "done" ELSE "idle")
  BY DEF Trigger, At, After
<1>1. /\ f \in [Thread -> ClientPc \cup DpcPc]
      /\ \A d \in Dpc : f[d] = IF d = t THEN "done" ELSE pc[d]
  BY <1>0, InvTypes DEF ClientPc, DpcPc
<1> HIDE DEF f
<1>2. \A d \in Dpc : pc'[d] = f[d] \/ (f[d] = "cond" /\ pc'[d] = "woken")
  BY <1>0, <1>1, SignalledPc, InvTypes
<1>3. \A s \in Request : Moved(s)' <=> Moved(s)
  BY <1>0, <1>1, <1>2, MovedSame
<1> QED
  BY <1>0, <1>3, SameState

(* The steps of a deferred call thread that move and report nothing.       *)
LEMMA IdleStepsRefine ==
  ASSUME Inv, NEW d \in Dpc,
         DpcFind(d) \/ DpcNone(d) \/ DpcWait(d) \/ DpcWoken(d) \/ DpcFunc(d)
  PROVE  IoState' = IoState
<1>1. /\ current' = current /\ rq' = rq
      /\ arg' = arg \/ (pc[d] = "run" /\ arg' = [arg EXCEPT ![d] = current])
      /\ pc[d] \in {"find", "none", "wait", "woken", "run"}
      /\ \E l \in {"run", "none", "off", "wait", "cond", "find", "io"} :
           pc' = [pc EXCEPT ![d] = l]
  BY DEF DpcFind, DpcNone, DpcWait, DpcWoken, DpcFunc, At, Goto
<1>2. \A s \in Request : Moved(s)' <=> Moved(s)
  BY <1>1, InvTypes, MovedSame
<1> QED
  BY <1>1, <1>2, SameState

(* The end of the transfer of the current request.                         *)
LEMMA TransferRefines ==
  ASSUME Inv, NEW d \in Dpc, Transfer(d)
  PROVE  Abstract!Next
<1>1. /\ pc[d] = "io" /\ pc' = [pc EXCEPT ![d] = "moved"]
      /\ current' = current /\ arg' = arg /\ rq' = rq
  BY DEF Transfer, At, Goto
<1>2. current \in Request /\ rq[current].io /\ d \in Thread
  BY <1>1, InvTypes DEF Inv, Token, Holds, Flags
<1>3. ~Moved(current)
  <2>1. \A e \in Dpc : pc[e] # "moved"
    BY <1>1, <1>2, InvTypes DEF Inv, Token, Holds
  <2>2. \A e \in Reporting : arg[e] # current
    <3>1. \A e \in Reporting : e \in Thread /\ InHand(e)
      BY DEF Reporting, InHand, Thread
    <3> QED
      BY <3>1 DEF Inv, Places
  <2> QED
    BY <2>1, <2>2 DEF Moved
<1>7. IoState' = [IoState EXCEPT ![current] = "moved"]
  <2> DEFINE r == current
  <2>1. r \in Request /\ r = current /\ current' = r
    BY <1>1, <1>2
  <2>2. \A s \in Request : Moved(s)' <=> Moved(s) \/ s = r
    BY <1>1, InvTypes DEF Moved, Reporting
  <2> HIDE DEF r
  <2>3. IoState' = [IoState EXCEPT ![r] = "moved"]
    BY <1>1, <2>1, <2>2 DEF IoState
  <2> QED
    BY <2>1, <2>3
<1>8. IoState[current] = "queued"
  BY <1>2, <1>3 DEF IoState
<1> QED
  BY <1>2, <1>7, <1>8 DEF Abstract!Next, Abstract!Transfer

(* A request that is moved stays so while it passes from current to the    *)
(* hand of the reporting thread.                                           *)
LEMMA InterruptRefines ==
  ASSUME Inv, NEW d \in Dpc, NEW failed \in BOOLEAN, Interrupt(d, failed)
  PROVE  IoState' = IoState
<1>1. /\ pc[d] = "moved" /\ pc' = [pc EXCEPT ![d] = "start"]
      /\ arg' = [arg EXCEPT ![d] = current] /\ current' = NoRq
      /\ rq' = [rq EXCEPT ![current].ioerror = rq[current].ioerror \/ failed]
  BY DEF Interrupt, At, Goto
<1>2. \A e \in Dpc : pc[e] = "moved" => e = d
  BY <1>1, InvTypes DEF Inv, Token, Holds
<1>3. \A s \in Request : Moved(s)' <=> Moved(s)
  <2>1. \A e \in Dpc : e # d => pc'[e] = pc[e] /\ arg'[e] = arg[e]
    BY <1>1, InvTypes
  <2>2. pc'[d] = "start" /\ arg'[d] = current
    BY <1>1, InvTypes
  <2> QED
    BY <1>1, <1>2, <2>1, <2>2 DEF Moved, Reporting
<1>4. \A s \in Request : rq'[s].io = rq[s].io
  BY <1>1, InvTypes DEF Rq
<1> QED
  BY <1>3, <1>4, SameState

(* The one report of a request.                                            *)
LEMMA DoneRefines ==
  ASSUME Inv, NEW d \in Dpc, RequestDone(d)
  PROVE  Abstract!Next
<1> DEFINE r == arg[d]
<1>1. /\ current' = current /\ pc[d] = "done"
      /\ \A e \in Dpc : e # d => arg'[e] = arg[e]
      /\ pc' = [pc EXCEPT ![d] = IF r \in Sync THEN "unblock" ELSE "find"]
      /\ rq' = [rq EXCEPT ![r].io = FALSE, ![r].busy = r \in Sync]
  BY InvTypes DEF RequestDone, At, Goto
<1>2. /\ d \in Thread /\ InHand(d) /\ r \in Request /\ r # current
      /\ \A e \in Thread : InHand(e) /\ arg[e] = r => e = d
  BY <1>1, InvTypes DEF Inv, Places, InHand
<1>3. \A e \in Dpc : /\ e \in Reporting => InHand(e) /\ e \in Thread
                     /\ e \in Reporting' <=> e \in Reporting /\ e # d
                     /\ pc'[e] = "moved" <=> pc[e] = "moved"
  BY <1>1, InvTypes DEF Reporting, InHand
<1>4. Moved(r) /\ \A s \in Request : Moved(s)' <=> Moved(s) /\ s # r
  <2>1. d \in Reporting
    BY <1>1 DEF Reporting
  <2> QED
    BY <1>1, <1>2, <1>3, <2>1 DEF Moved
<1>5. \A s \in Request : rq'[s].io <=> rq[s].io /\ s # r
  BY <1>1, <1>2, InvTypes, SMTT(30) DEF Rq
<1> HIDE DEF r
<1>6. IoState' = [IoState EXCEPT ![r] = "idle"]
  BY <1>2, <1>4, <1>5 DEF IoState
<1>7. IoState[r] = "moved"
  BY <1>2, <1>4 DEF IoState
<1> QED
  BY <1>2, <1>6, <1>7 DEF Abstract!Next, Abstract!Report

(* The report came before the wake-up.                                     *)
LEMMA UnblockRefines ==
  ASSUME Inv, NEW d \in Dpc, Unblock(d)
  PROVE  IoState' = IoState
<1>1. /\ current' = current /\ pc[d] = "unblock"
      /\ \A e \in Dpc : e # d => arg'[e] = arg[e]
      /\ rq' = [rq EXCEPT ![arg[d]].busy = FALSE]
      /\ \A e \in Dpc : pc'[e] = IF e = d THEN "find" ELSE pc[e]
  BY InvTypes DEF Unblock, At, Sleeper
<1>2. \A s \in Request : rq'[s].io = rq[s].io
  BY <1>1, InvTypes DEF Rq
<1>3. \A s \in Request : Moved(s)' <=> Moved(s)
  BY <1>1 DEF Moved, Reporting
<1> QED
  BY <1>2, <1>3, SameState

(* The timer changes no request.                                           *)
LEMMA TimedRefines ==
  ASSUME Inv, DpcTimed
  PROVE  IoState' = IoState
<1>1. PICK f \in Grown : pc' \in Signalled(f)
  BY DEF DpcTimed
<1>2. /\ f \in [Thread -> ClientPc \cup DpcPc]
      /\ \A d \in Dpc : f[d] = pc[d] \/ (pc[d] = "off" /\ f[d] = "find")
  BY InvTypes DEF Grown, DpcPc
<1>3. \A d \in Dpc : pc'[d] = f[d] \/ (f[d] = "cond" /\ pc'[d] = "woken")
  BY <1>1, <1>2, SignalledPc, InvTypes, ZenonT(30)
<1>4. current' = current /\ arg' = arg /\ rq' = rq
  BY DEF DpcTimed
<1>5. \A s \in Request : Moved(s)' <=> Moved(s)
  BY <1>2, <1>3, <1>4, MovedSame
<1> QED
  BY <1>4, <1>5, SameState

(* The disk queue, its driver and the deferred calls implement IoService:  *)
(* a request is transferred at most once for each time it is enqueued,     *)
(* reported once after that, and never transferred once it was taken back. *)
THEOREM QueueImplementsIo == Spec => ImplementsIo
<1>1. Init => Abstract!Init
  <2> SUFFICES ASSUME Init PROVE Abstract!Init
    OBVIOUS
  <2>1. \A r \in Request : ~Moved(r) /\ ~rq[r].io
    BY DEF Init, Moved, Reporting, Unused, Thread
  <2> QED
    BY <2>1 DEF Abstract!Init, IoState
<1>2. Inv /\ [Next]_vars => [Abstract!Next]_IoState
  <2> SUFFICES ASSUME Inv, [Next]_vars
               PROVE  Abstract!Next \/ IoState' = IoState
    OBVIOUS
  <2>1. ASSUME NEW c \in Client, NEW r \in Request, Call(c, r)
        PROVE  Abstract!Next \/ IoState' = IoState
    BY <2>1, CallRefines
  <2>2. ASSUME NEW c \in Client, ClientStep(c)
        PROVE  IoState' = IoState
    BY <2>2, InvTypes, ChainRefines, StartRefines, TriggerRefines DEF ClientStep
  <2>3. ASSUME NEW d \in Dpc, DpcStep(d)
        PROVE  Abstract!Next \/ IoState' = IoState
    BY <2>3, InvTypes, IdleStepsRefine, TransferRefines, InterruptRefines,
       StartRefines, TriggerRefines, DoneRefines, UnblockRefines DEF DpcStep
  <2>4. ASSUME UNCHANGED vars
        PROVE  IoState' = IoState
    BY <2>4 DEF vars, IoState, Moved, Reporting
  <2> QED
    BY <2>1, <2>2, <2>3, <2>4, TimedRefines DEF Next
<1> QED
  BY <1>1, <1>2, Invariance, PTL DEF Spec, ImplementsIo, Abstract!Spec
=============================================================================
