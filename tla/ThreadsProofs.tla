---------------------------- MODULE ThreadsProofs ---------------------------
(***************************************************************************)
(* The operations of the semaphore, the signals and broadcasts, the timer  *)
(* interrupt, the death and the creation of threads keep the invariant of  *)
(* Threads, and so does every step: the properties follow, for any number  *)
(* of threads, any priorities and any timeouts.                            *)
(***************************************************************************)
EXTENDS ThreadsInv

(* The time limits of the provers. *)
USE ZenonT(10), SMTT(30)

-----------------------------------------------------------------------------
(* A thread is neither the killer nor nobody.                              *)
LEMMA ThreadFacts ==
  ASSUME NEW t \in Thread
  PROVE  t \in Everyone /\ t # Killer /\ t # NoThread
BY ThreadAssumption DEF Everyone

(* The killer is no thread that may die.                                   *)
LEMMA KillerFacts == Killer \in Everyone /\ Killer \notin Thread /\ Killer # NoThread
BY ThreadAssumption DEF Everyone

(* The two mutexes, and the places past their locks.                       *)
LEMMA MutexFacts ==
  /\ "mutex" \in Mutex /\ "kill_mutex" \in Mutex /\ Mutex = {"mutex", "kill_mutex"}
  /\ At("mutex") = {"locked"} /\ At("kill_mutex") = {"dying", "k_wait", "k_loop"}
BY DEF Mutex, At

(* A step of an awake thread t that takes no unit, kills nobody and wakes  *)
(* only waiters of a mutex.                                                *)
LEMMA Bystanders ==
  ASSUME IInv, NEW t \in Everyone, sleep[t] = "none",
         pc[t] \notin {"acquire", "dead", "k_kill"},
         pc'[t] \notin {"acquire", "dead", "k_kill"},
         \A u \in Everyone \ {t} :
           /\ sleep'[u] = sleep[u] \/ (sleep[u] = "mutex" /\ sleep'[u] = "none")
           /\ pc'[u] = pc[u],
         wq'["sem"] = wq["sem"], value' = value, UNCHANGED killing,
         timedout' = timedout \ {t} \/ (timedout' = timedout /\ pc[t] # "relock")
  PROVE  /\ Kills(pc', threads4kill', kill_request', victim')
         /\ Units'
         /\ tcEventQ' = tcEventQ => Timers(sleep', tcEventQ')
<1>1. Thread \subseteq Everyone /\ Killer \in Everyone
  BY DEF Everyone
<1>2. Kills(pc', threads4kill', kill_request', victim')
  <2>1. \A u \in Thread : pc[u] = "dead" => pc'[u] = "dead"
    BY <1>1
  <2>2. pc'[Killer] = "k_kill" <=> pc[Killer] = "k_kill"
    BY <1>1
  <2> QED BY <2>1, <2>2, KillsKept DEF IInv
<1>3. timedout' = timedout \ {t}
  BY DEF IInv, Units
<1>4. \A u \in Everyone : sleep[u] = "mutex" => pc[u] # "acquire"
  BY SleepSteps, ZenonT(30) DEF IInv
<1>5. Units'
  <2>1. timedout' \subseteq Thread
    BY <1>3 DEF IInv, Units
  <2>2. \A u \in timedout' : sleep'[u] = "none" /\ pc'[u] \in {"relock", "acquire"}
    BY <1>1, <1>3 DEF IInv, Units
  <2>3. \A u \in Thread :
          /\ pc'[u] = "acquire" <=> pc[u] = "acquire"
          /\ pc[u] = "acquire" => /\ sleep'[u] = "none" <=> sleep[u] = "none"
                                  /\ u \in timedout' <=> u \in timedout
    BY <1>1, <1>3, <1>4
  <2> QED BY <2>1, <2>2, <2>3, UnitsKept DEF IInv
<1>6. ASSUME tcEventQ' = tcEventQ PROVE Timers(sleep', tcEventQ')
  <2>1. \A u \in Thread : sleep'[u] = sleep[u] \/ sleep[u] \notin {"cond", "sem", "sleep"}
    BY <1>1
  <2> QED BY <1>6, <2>1, TimersKept DEF IInv
<1> QED BY <1>2, <1>5, <1>6

-----------------------------------------------------------------------------
(* The mutex, the waits and the sleep of a thread keep the invariant.      *)
LEMMA MutexSteps ==
  ASSUME IInv, NEW t \in Thread,
         hal_mutex_lock(t) \/ hal_mutex_unlock(t) \/ Relock(t) \/ ExitWaits(t)
  PROVE  IInv'
<1>1. t \in Everyone /\ t # Killer
  BY ThreadFacts
<1>2. "sem" \in Object /\ "sem" \notin Mutex
  BY DEF Object, Mutex
<1>3. CASE hal_mutex_lock(t) \/ Relock(t) \/ ExitWaits(t)
  <2>1. /\ sleep[t] = "none" /\ pc[t] \in {"run", "relock"}
        /\ value' = value /\ UNCHANGED killing /\ tcEventQ' = tcEventQ
        /\ timedout' = timedout \ {t} \/ (timedout' = timedout /\ pc[t] # "relock")
    BY <1>3 DEF hal_mutex_lock, Relock, ExitWaits, Runs, timer, killing
  <2>2. PICK m \in Mutex, next \in {"locked", "dying"} :
          next \in At(m) /\ Lock(t, m, next)
    BY <1>3, MutexFacts DEF hal_mutex_lock, Relock, ExitWaits
  <2>3. \A n \in Mutex : pc[t] \notin At(n)
    BY <2>1, MutexFacts
  <2>4. t = Killer <=> next \in KillerSteps
    BY <1>1 DEF KillerSteps
  <2>5. /\ Waiting(sleep', pc', wq') /\ Owners(owner', pc', wq')
        /\ pc'[t] = next
        /\ \A u \in Everyone \ {t} : sleep'[u] = sleep[u] /\ pc'[u] = pc[u]
        /\ \A o \in Object \ {m} : wq'[o] = wq[o]
    BY <1>1, <2>1, <2>2, <2>3, <2>4, LockInv DEF IInv
  <2>6. wq'["sem"] = wq["sem"]
    BY <1>2, <2>5
  <2>7. /\ Kills(pc', threads4kill', kill_request', victim')
        /\ Units'
        /\ tcEventQ' = tcEventQ => Timers(sleep', tcEventQ')
    BY <1>1, <2>1, <2>5, <2>6, Bystanders
  <2> QED BY <2>1, <2>5, <2>7 DEF IInv
<1>4. CASE hal_mutex_unlock(t)
  <2>1. /\ sleep[t] = "none" /\ pc[t] = "locked"
        /\ value' = value /\ UNCHANGED killing /\ tcEventQ' = tcEventQ /\ timedout' = timedout
        /\ owner' = [owner EXCEPT !["mutex"] = Handed("mutex")]
        /\ wq' = [wq EXCEPT !["mutex"] = Left("mutex")]
        /\ sleep' = Unblocked(sleep, Woken("mutex"))
        /\ pc' = [pc EXCEPT ![t] = "run"]
    BY <1>4 DEF hal_mutex_unlock, Runs, Unlock, Goto, timer, killing
  <2>2. /\ "run" \in ThreadSteps \cup KillerSteps /\ "run" \notin KillerSteps
        /\ \A n \in Mutex : "run" \notin At(n) /\ (n # "mutex" => pc[t] \notin At(n))
        /\ pc[t] \in At("mutex")
    BY <2>1, MutexFacts, SMTT(30) DEF ThreadSteps, KillerSteps
  <2>3. /\ Waiting(sleep', pc', wq') /\ Owners(owner', pc', wq')
        /\ \A u \in Everyone : sleep'[u] = sleep[u] \/ (sleep[u] = "mutex" /\ sleep'[u] = "none")
    BY <1>1, <2>1, <2>2, MutexFacts, UnlockInv DEF IInv
  <2>4. pc'[t] = "run" /\ \A u \in Everyone \ {t} : pc'[u] = pc[u]
    BY <1>1, <2>1 DEF IInv, Waiting
  <2>5. wq'["sem"] = wq["sem"]
    BY <1>2, <2>1 DEF IInv, Waiting
  <2>6. /\ Kills(pc', threads4kill', kill_request', victim')
        /\ Units'
        /\ tcEventQ' = tcEventQ => Timers(sleep', tcEventQ')
    BY <1>1, <2>1, <2>3, <2>4, <2>5, Bystanders
  <2> QED BY <2>1, <2>3, <2>6 DEF IInv
<1> QED BY <1>3, <1>4

(* hal_cond_wait and hal_cond_timedwait keep the invariant.                *)
LEMMA WaitSteps ==
  ASSUME IInv, NEW t \in Thread, NEW d, hal_cond_wait(t) \/ hal_cond_timedwait(t, d)
  PROVE  IInv'
<1>1. t \in Everyone /\ t # Killer
  BY ThreadFacts
<1>2. /\ sleep[t] = "none" /\ pc[t] = "locked"
      /\ CondWait(t, "cond", "mutex", "relock")
      /\ value' = value /\ UNCHANGED killing
      /\ timedout' \in {timedout, timedout \ {t}}
      /\ tcEventQ' = tcEventQ \/ SetTimer(t, "cond", d)
  BY DEF hal_cond_wait, hal_cond_timedwait, Runs, timer, killing
<1>3. "cond" \in Cond /\ "relock" \in At("cond") /\ "relock" \notin KillerSteps
  BY DEF Cond, At, KillerSteps
<1>4. pc[t] \in At("mutex")
  BY <1>2, MutexFacts
<1>5. /\ Waiting(sleep', pc', wq') /\ Owners(owner', pc', wq')
      /\ sleep'[t] = "cond" /\ pc'[t] = "relock"
      /\ \A u \in Everyone \ {t} :
           /\ sleep'[u] = sleep[u] \/ (sleep[u] = "mutex" /\ sleep'[u] = "none")
           /\ pc'[u] = pc[u]
      /\ wq'["sem"] = wq["sem"]
  BY <1>1, <1>2, <1>3, <1>4, MutexFacts, CondWaitInv DEF IInv
<1>6. /\ Kills(pc', threads4kill', kill_request', victim')
      /\ Units'
      /\ tcEventQ' = tcEventQ => Timers(sleep', tcEventQ')
  BY <1>1, <1>2, <1>5, Bystanders
<1>7. ASSUME SetTimer(t, "cond", d) PROVE Timers(sleep', tcEventQ')
  <2>1. \A u \in Thread \ {t} :
          sleep'[u] = sleep[u] \/ sleep[u] \notin {"cond", "sem", "sleep"}
    BY <1>5 DEF Everyone
  <2> QED BY <1>2, <1>5, <1>7, <2>1, TimerSet DEF IInv
<1> QED BY <1>2, <1>5, <1>6, <1>7 DEF IInv

(* hal_sleep_msec keeps the invariant.                                     *)
LEMMA SleepStep ==
  ASSUME IInv, NEW t \in Thread, NEW d, hal_sleep_msec(t, d)
  PROVE  IInv'
<1>1. t \in Everyone /\ t # Killer
  BY ThreadFacts
<1>2. /\ sleep[t] = "none" /\ pc[t] \in {"run", "locked"}
      /\ SetTimer(t, "sleep", d) /\ sleep' = [sleep EXCEPT ![t] = "sleep"]
      /\ UNCHANGED <<pc, wq, owner, value, timedout, killing>>
  BY DEF hal_sleep_msec, Runs, Blocked, waits
<1>3. sleep'[t] = "sleep" /\ \A u \in Everyone \ {t} : sleep'[u] = sleep[u]
  BY <1>1, <1>2 DEF IInv, Waiting
<1>4. Waiting(sleep', pc', wq')
  <2>1. [pc EXCEPT ![t] = pc[t]] = pc
    BY DEF IInv, Waiting
  <2>2. pc[t] \in ThreadSteps \cup KillerSteps /\ pc[t] \notin KillerSteps
        /\ pc[t] \notin {"dead", "free"}
    BY <1>2 DEF ThreadSteps, KillerSteps
  <2>3. Waiting([sleep EXCEPT ![t] = "sleep"], [pc EXCEPT ![t] = pc[t]], wq)
    BY <1>1, <1>2, <2>2, Moves DEF IInv
  <2> QED BY <1>2, <2>1, <2>3
<1>5. Owners(owner', pc', wq')
  BY <1>2 DEF IInv
<1>6. Kills(pc', threads4kill', kill_request', victim') /\ Units'
  BY <1>1, <1>2, <1>3, Bystanders
<1>7. Timers(sleep', tcEventQ')
  <2>1. \A u \in Thread \ {t} : sleep'[u] = sleep[u]
    BY <1>3 DEF Everyone
  <2> QED BY <1>2, <1>3, <2>1, TimerSet DEF IInv
<1> QED BY <1>4, <1>5, <1>6, <1>7 DEF IInv

-----------------------------------------------------------------------------
(* The semaphore.                                                          *)
LEMMA NotifiedFinite ==
  IsFiniteSet(Notified) /\ IsFiniteSet(Notified') /\ Cardinality(Notified) \in Nat
<1>1. Notified \subseteq Thread /\ Notified' \subseteq Thread
  BY DEF Notified
<1>2. IsFiniteSet(Notified) /\ IsFiniteSet(Notified')
  BY <1>1, ThreadAssumption, FS_Subset
<1> QED BY <1>2, FS_CardinalityType

(* The semaphore, and the places around it.                                *)
LEMMA SemFacts ==
  /\ "sem" \in Object \ Mutex /\ Flag("sem") = "sem" /\ At("sem") = {"acquire"}
  /\ "run" \in ThreadSteps /\ "acquire" \in ThreadSteps
  /\ "run" \notin KillerSteps /\ "acquire" \notin KillerSteps
  /\ \A m \in Mutex : "run" \notin At(m) /\ "acquire" \notin At(m) /\ m \in Object
BY DEF Object, Mutex, Cond, Flag, At, ThreadSteps, KillerSteps

(* An awake thread takes its step to x, with the queues as they are.       *)
LEMMA SemMoves ==
  ASSUME IInv, NEW t \in Thread, sleep[t] = "none", pc[t] \in {"run", "acquire"},
         NEW x \in {"run", "acquire"}, pc' = [pc EXCEPT ![t] = x]
  PROVE  /\ Waiting(sleep, pc', wq) /\ Owners(owner, pc', wq)
         /\ pc'[t] = x /\ \A u \in Everyone \ {t} : pc'[u] = pc[u]
<1>1. t \in Everyone /\ t # Killer
  BY ThreadFacts
<1>2. [sleep EXCEPT ![t] = "none"] = sleep
  BY DEF IInv, Waiting
<1>3. Waiting([sleep EXCEPT ![t] = "none"], pc', wq)
  BY <1>1, SemFacts, Moves DEF IInv
<1>4. Owners(owner, pc', wq)
  <2>1. \A m \in Mutex : pc[t] \notin At(m) /\ x \notin At(m)
    BY SemFacts
  <2>2. pc \in [Everyone -> ThreadSteps \cup KillerSteps]
    BY DEF IInv, Waiting
  <2> QED BY <1>1, <2>1, <2>2, OwnersMoved DEF IInv
<1>5. pc'[t] = x /\ \A u \in Everyone \ {t} : pc'[u] = pc[u]
  BY <1>1 DEF IInv, Waiting
<1> QED BY <1>2, <1>3, <1>4, <1>5

(* A step at the semaphore kills nobody.                                   *)
LEMMA SemKills ==
  ASSUME IInv, NEW t \in Thread, pc[t] \in {"run", "acquire"}, UNCHANGED killing,
         \A u \in Everyone \ {t} : pc'[u] = pc[u]
  PROVE  Kills(pc', threads4kill', kill_request', victim')
<1>1. \A u \in Thread : pc[u] = "dead" => pc'[u] = "dead"
  BY ThreadFacts
<1>2. pc'[Killer] = pc[Killer]
  BY ThreadFacts, KillerFacts
<1> QED BY <1>1, <1>2, KillsKept DEF IInv

(* A turn of the loop of hal_sem_acquire by a thread that is not timed out. *)
LEMMA AcquireInv ==
  ASSUME IInv, NEW t \in Thread, sleep[t] = "none", pc[t] \in {"run", "acquire"},
         t \notin timedout, NEW v \in {0, value}, NEW d, Acquire(t, v, d),
         UNCHANGED <<owner, killing>>
  PROVE  IInv'
<1>1. t \in Everyone /\ t # Killer
  BY ThreadFacts
<1>2. value \in Nat /\ timedout \subseteq Thread
  BY DEF IInv, Units
<1>3. CASE v > 0 /\ v = value
  <2>1. /\ value' = value - 1 /\ pc' = [pc EXCEPT ![t] = "run"]
        /\ UNCHANGED <<wq, sleep, timedout, tcEventQ>>
    BY <1>2, <1>3, SMTT(30) DEF Acquire, Goto, timer
  <2>2. /\ Waiting(sleep, pc', wq) /\ Owners(owner, pc', wq)
        /\ pc'[t] = "run" /\ \A u \in Everyone \ {t} : pc'[u] = pc[u]
    BY <2>1, SemMoves
  <2>3. Kills(pc', threads4kill', kill_request', victim')
    BY <2>2, SemKills
  <2>4. Notified' = Notified \ {t}
    BY <2>1, <2>2 DEF Notified, Everyone
  <2>5. NoLostUnit'
    <3>1. CASE value' > 0 /\ wq'["sem"] # << >>
      <4>1. value <= Cardinality(Notified)
        BY <1>2, <2>1, <3>1, SMTT(30) DEF IInv, Units, NoLostUnit
      <4>2. Cardinality(Notified') \in {Cardinality(Notified), Cardinality(Notified) - 1}
        BY <2>4, NotifiedFinite, FS_RemoveElement
      <4> HIDE DEF Notified
      <4>3. value' <= Cardinality(Notified')
        BY <1>2, <2>1, <4>1, <4>2, NotifiedFinite, SMTT(30)
      <4> QED BY <4>3 DEF NoLostUnit
    <3>2. CASE ~ (value' > 0 /\ wq'["sem"] # << >>)
      BY <3>2 DEF NoLostUnit
    <3> QED BY <3>1, <3>2
  <2>6. Units'
    <3>1. value' \in Nat
      BY <1>2, <1>3, <2>1, SMTT(30)
    <3>2. \A u \in timedout : sleep'[u] = "none" /\ pc'[u] \in {"relock", "acquire"}
      BY <1>2, <2>1, <2>2 DEF IInv, Units, Everyone
    <3> QED BY <1>2, <2>1, <2>5, <3>1, <3>2 DEF Units
  <2>7. Timers(sleep', tcEventQ')
    BY <2>1 DEF IInv
  <2> QED BY <2>1, <2>2, <2>3, <2>6, <2>7 DEF IInv
<1>4. CASE v = 0
  <2>1. /\ value' = 0 /\ pc' = [pc EXCEPT ![t] = "acquire"]
        /\ wq' = [wq EXCEPT !["sem"] = Append(@, t)]
        /\ sleep' = [sleep EXCEPT ![t] = "sem"]
        /\ \/ UNCHANGED <<timedout, tcEventQ>>
           \/ timedout' = timedout \ {t} /\ SetTimer(t, "sem", d)
    BY <1>4, SMTT(30) DEF Acquire, Goto, Blocked, timer
  <2>2. /\ Waiting(sleep, pc', wq) /\ Owners(owner, pc', wq)
        /\ pc'[t] = "acquire" /\ \A u \in Everyone \ {t} : pc'[u] = pc[u]
    BY <2>1, SemMoves
  <2>3. Waiting(sleep', pc', wq')
    <3>1. Waiting([sleep EXCEPT ![t] = Flag("sem")], pc',
                  [wq EXCEPT !["sem"] = Append(@, t)])
      BY <1>1, <2>2, SemFacts, Joins
    <3> QED BY <2>1, <3>1, SemFacts
  <2>4. Owners(owner', pc', wq')
    <3>1. \A m \in Mutex : wq'[m] = wq[m]
      BY <2>1, SemFacts DEF IInv, Waiting
    <3> QED BY <2>2, <3>1, OwnersKept
  <2>5. Kills(pc', threads4kill', kill_request', victim')
    BY <2>2, SemKills
  <2>6. sleep'[t] = "sem" /\ \A u \in Thread \ {t} : sleep'[u] = sleep[u]
    BY <1>1, <2>1 DEF IInv, Waiting, Everyone
  <2>7. Units'
    <3>1. NoLostUnit'
      BY <2>1, SMTT(30) DEF NoLostUnit
    <3>2. timedout' = timedout
      BY <2>1
    <3>3. \A u \in timedout : sleep'[u] = "none" /\ pc'[u] \in {"relock", "acquire"}
      BY <1>2, <2>2, <2>6 DEF IInv, Units, Everyone
    <3> QED BY <1>2, <2>1, <3>1, <3>2, <3>3 DEF Units
  <2>8. Timers(sleep', tcEventQ')
    <3>1. CASE tcEventQ' = tcEventQ
      BY <2>6, <3>1, TimersKept DEF IInv
    <3>2. CASE SetTimer(t, "sem", d)
      BY <2>6, <3>2, TimerSet DEF IInv
    <3> QED BY <2>1, <3>1, <3>2
  <2> QED BY <2>3, <2>4, <2>5, <2>7, <2>8 DEF IInv
<1> QED BY <1>2, <1>3, <1>4, SMTT(30)

(* The semaphore's acquire operations keep the invariant.                  *)
LEMMA AcquireSteps ==
  ASSUME IInv, NEW t \in Thread, NEW u \in Usecs \cup {Forever}, NEW zero \in BOOLEAN,
         \/ hal_sem_acquire(t)
         \/ hal_sem_acquire_etc(t, u, zero)
         \/ AcquireAgain(t)
  PROVE  IInv'
<1>1. ASSUME pc[t] = "run" PROVE t \notin timedout
  BY <1>1 DEF IInv, Units
<1>2. CASE hal_sem_acquire(t)
  BY <1>1, <1>2, AcquireInv DEF hal_sem_acquire, Runs
<1>3. CASE hal_sem_acquire_etc(t, u, zero)
  <2> DEFINE v == IF zero THEN 0 ELSE value
             d == IF u = Forever THEN Forever ELSE Msec(u)
  <2>1. v \in {0, value}
    OBVIOUS
  <2>2. /\ Acquire(t, v, d) /\ sleep[t] = "none" /\ pc[t] = "run"
        /\ UNCHANGED <<owner, killing>>
    BY <1>3 DEF hal_sem_acquire_etc, Runs
  <2> HIDE DEF v, d
  <2> QED BY <1>1, <2>1, <2>2, AcquireInv
<1>4. CASE AcquireAgain(t) /\ t \notin timedout
  BY <1>4, AcquireInv DEF AcquireAgain, Runs
<1>5. CASE AcquireAgain(t) /\ t \in timedout
  <2>1. /\ sleep[t] = "none" /\ pc[t] = "acquire"
        /\ timedout' = timedout \ {t} /\ pc' = [pc EXCEPT ![t] = "run"]
        /\ UNCHANGED <<sleep, wq, value, tcEventQ, owner, killing>>
    BY <1>5 DEF AcquireAgain, Runs, Goto, timer
  <2>2. /\ Waiting(sleep, pc', wq) /\ Owners(owner, pc', wq)
        /\ pc'[t] = "run" /\ \A x \in Everyone \ {t} : pc'[x] = pc[x]
    BY <2>1, SemMoves
  <2>3. Kills(pc', threads4kill', kill_request', victim')
    BY <2>1, <2>2, SemKills
  <2>4. Notified' = Notified
    BY <1>5, <2>1, <2>2 DEF Notified, Everyone
  <2>5. Units'
    <3>1. NoLostUnit'
      BY <2>1, <2>4 DEF IInv, Units, NoLostUnit
    <3>2. timedout' \subseteq Thread /\ value' \in Nat
      BY <2>1 DEF IInv, Units
    <3>3. \A x \in timedout' : sleep'[x] = "none" /\ pc'[x] \in {"relock", "acquire"}
      BY <2>1, <2>2 DEF IInv, Units, Everyone
    <3> QED BY <3>1, <3>2, <3>3 DEF Units
  <2> QED BY <2>1, <2>2, <2>3, <2>5 DEF IInv
<1> QED BY <1>2, <1>3, <1>4, <1>5

(* hal_sem_release and hal_sem_zero keep the invariant.                    *)
LEMMA ReleaseSteps ==
  ASSUME IInv, hal_sem_release \/ \E t \in Thread : hal_sem_zero(t)
  PROVE  IInv'
<1>1. CASE \E t \in Thread : hal_sem_zero(t)
  <2>1. value' = 0 /\ UNCHANGED <<sleep, pc, wq, owner, timedout, killing, tcEventQ>>
    BY <1>1 DEF hal_sem_zero, timer
  <2>2. NoLostUnit'
    BY <2>1, SMTT(30) DEF NoLostUnit
  <2>3. Units'
    BY <2>1, <2>2 DEF IInv, Units
  <2> QED BY <2>1, <2>3 DEF IInv, killing
<1>2. CASE hal_sem_release /\ wq["sem"] = << >>
  <2>1. /\ value' = value + 1
        /\ UNCHANGED <<wq, tcEventQ, sleep, pc, owner, timedout, killing>>
    BY <1>2 DEF hal_sem_release, Wakes, timer
  <2>2. NoLostUnit'
    BY <1>2, <2>1 DEF NoLostUnit
  <2>3. Units'
    BY <2>1, <2>2, SMTT(30) DEF IInv, Units
  <2> QED BY <2>1, <2>3 DEF IInv, killing
<1>3. CASE hal_sem_release /\ wq["sem"] # << >>
  <2> DEFINE t == First(wq["sem"])
             x == Without(wq["sem"], t)
  <2>1. /\ value' = value + 1
        /\ wq' = [wq EXCEPT !["sem"] = x]
        /\ tcEventQ' = Undone(tcEventQ, t)
        /\ sleep' = Unblocked(sleep, {t})
        /\ UNCHANGED <<pc, owner, timedout, killing>>
    BY <1>3 DEF hal_sem_release, Wakes, UndoTimer
  <2>2. t \in Members(wq["sem"])
    BY <1>3, SemFacts, OneQueue, FirstIsMember DEF IInv, Everyone
  <2>3. x \in Seq(Everyone) /\ Distinct(x) /\ Members(x) = Members(wq["sem"]) \ {t}
    BY SemFacts, OneQueue, MembersWithout, SMTT(30) DEF IInv, Waiting
  <2> HIDE DEF t, x
  <2>4. /\ Waiting(sleep', pc', wq') /\ Owners(owner', pc', wq')
        /\ t \in Everyone /\ sleep[t] = "sem" /\ pc[t] = "acquire"
        /\ sleep'[t] = "none" /\ \A u \in Everyone \ {t} : sleep'[u] = sleep[u]
    BY <2>1, <2>2, <2>3, SemFacts, WakeInv DEF IInv
  <2>5. t \in Thread
    BY <2>4, SemFacts, SMTT(30) DEF IInv, Waiting, Everyone
  <2>6. t \notin timedout
    BY <2>4 DEF IInv, Units
  <2>7. Kills(pc', threads4kill', kill_request', victim')
    BY <2>1 DEF IInv, killing
  <2>8. Timers(sleep', tcEventQ')
    BY <2>1, <2>4, TimerGone DEF IInv, Everyone
  <2>9. Notified' = Notified \cup {t} /\ t \notin Notified
    BY <2>1, <2>4, <2>5, <2>6 DEF Notified, Everyone
  <2>10. Cardinality(Notified') = Cardinality(Notified) + 1
    BY <2>9, NotifiedFinite, FS_AddElement
  <2>11. value \in Nat /\ timedout \subseteq Thread
    BY DEF IInv, Units
  <2>12. value <= Cardinality(Notified)
    <3>1. CASE value > 0
      BY <1>3, <3>1 DEF IInv, Units, NoLostUnit
    <3>2. CASE value = 0
      BY <3>2, NotifiedFinite, SMTT(30)
    <3> QED BY <2>11, <3>1, <3>2, SMTT(30)
  <2>13. NoLostUnit'
    BY <2>1, <2>10, <2>11, <2>12, NotifiedFinite, SMTT(30) DEF NoLostUnit
  <2>14. Units'
    <3>1. \A u \in timedout : sleep'[u] = "none" /\ pc'[u] \in {"relock", "acquire"}
      BY <2>1, <2>4, <2>6, <2>11 DEF IInv, Units, Everyone
    <3> QED BY <2>1, <2>11, <2>13, <3>1, SMTT(30) DEF Units
  <2> QED BY <2>4, <2>7, <2>8, <2>14 DEF IInv
<1> QED BY <1>1, <1>2, <1>3

-----------------------------------------------------------------------------
(* Signals, broadcasts and timeouts.                                       *)
LEMMA CondFacts ==
  /\ "cond" \in Object \ Mutex /\ Flag("cond") = "cond" /\ At("cond") = {"relock"}
  /\ "sem" \in Object \ {"cond"}
BY DEF Object, Mutex, Cond, Flag, At

(* A waiter of cond is woken, and its timed call goes.                     *)
LEMMA CondWakes ==
  ASSUME IInv, NEW t \in Members(wq["cond"]),
         NEW x \in Seq(Everyone), Distinct(x), Members(x) = Members(wq["cond"]) \ {t},
         wq' = [wq EXCEPT !["cond"] = x], sleep' = Unblocked(sleep, {t}),
         \/ tcEventQ' = Undone(tcEventQ, t)
         \/ /\ tcEventQ # << >> /\ tcEventQ[1].call = t
            /\ tcEventQ' = Detached(tcEventQ),
         timedout' \in {timedout, timedout \cup {t}},
         UNCHANGED <<pc, owner, value, killing>>
  PROVE  IInv'
<1>1. /\ Waiting(sleep', pc', wq') /\ Owners(owner', pc', wq')
      /\ t \in Everyone /\ sleep[t] = "cond" /\ pc[t] = "relock"
      /\ sleep'[t] = "none" /\ \A u \in Everyone \ {t} : sleep'[u] = sleep[u]
      /\ wq'["sem"] = wq["sem"]
  <2>1. "cond" \in Object \ Mutex
    BY CondFacts
  <2>2. /\ Waiting(sleep', pc', wq') /\ Owners(owner', pc', wq')
        /\ t \in Everyone /\ sleep[t] = Flag("cond") /\ pc[t] \in At("cond")
        /\ sleep'[t] = "none" /\ \A u \in Everyone \ {t} : sleep'[u] = sleep[u]
        /\ \A q \in Object \ {"cond"} : wq'[q] = wq[q]
    BY <2>1, WakeInv DEF IInv
  <2> QED BY <2>2, CondFacts
<1>2. t \in Thread
  BY <1>1 DEF IInv, Waiting, Everyone, KillerSteps
<1>3. Timers(sleep', tcEventQ')
  BY <1>1, TimerGone DEF IInv, Everyone
<1>4. Kills(pc', threads4kill', kill_request', victim')
  BY DEF IInv, killing
<1>5. Units'
  <2>1. timedout' \subseteq Thread
    BY <1>2 DEF IInv, Units
  <2>2. \A u \in timedout' : sleep'[u] = "none" /\ pc'[u] \in {"relock", "acquire"}
    BY <1>1, <1>2 DEF IInv, Units, Everyone
  <2>3. \A u \in Thread :
          /\ pc'[u] = "acquire" <=> pc[u] = "acquire"
          /\ pc[u] = "acquire" => /\ sleep'[u] = "none" <=> sleep[u] = "none"
                                  /\ u \in timedout' <=> u \in timedout
    <3>1. \A u \in Thread : pc[u] = "acquire" => u # t /\ u \in Everyone
      BY <1>1 DEF Everyone
    <3>2. \A u \in Thread : u # t => (u \in timedout' <=> u \in timedout)
      BY SMTT(30)
    <3> QED BY <1>1, <3>1, <3>2
  <2> QED BY <1>1, <2>1, <2>2, <2>3, UnitsKept DEF IInv
<1> QED BY <1>1, <1>3, <1>4, <1>5 DEF IInv

(* hal_cond_signal and hal_cond_broadcast keep the invariant.              *)
LEMMA SignalSteps ==
  ASSUME IInv, hal_cond_signal \/ hal_cond_broadcast
  PROVE  IInv'
<1>1. wq["cond"] \in Seq(Everyone) /\ Distinct(wq["cond"]) /\ wq["cond"] # << >>
  BY CondFacts DEF IInv, Waiting, hal_cond_signal, WakeCond, hal_cond_broadcast
<1>2. CASE hal_cond_signal
  <2> DEFINE t == First(wq["cond"])
             x == Without(wq["cond"], t)
  <2>1. /\ wq' = [wq EXCEPT !["cond"] = x] /\ sleep' = Unblocked(sleep, {t})
        /\ tcEventQ' = Undone(tcEventQ, t)
        /\ UNCHANGED <<pc, owner, value, timedout, killing>>
    BY <1>2 DEF hal_cond_signal, WakeCond, UndoTimer
  <2>2. t \in Members(wq["cond"])
    BY <1>1, FirstIsMember DEF Everyone
  <2>3. x \in Seq(Everyone) /\ Distinct(x) /\ Members(x) = Members(wq["cond"]) \ {t}
    BY <1>1, MembersWithout
  <2> HIDE DEF t, x
  <2> QED BY <2>1, <2>2, <2>3, CondWakes
<1>3. CASE hal_cond_broadcast
  <2> DEFINE t == Head(wq["cond"])
             x == Tail(wq["cond"])
  <2>1. /\ wq' = [wq EXCEPT !["cond"] = x] /\ sleep' = Unblocked(sleep, {t})
        /\ tcEventQ' = Undone(tcEventQ, t)
        /\ UNCHANGED <<pc, owner, value, timedout, killing>>
    BY <1>3 DEF hal_cond_broadcast, UndoTimer
  <2>2. /\ t \in Members(wq["cond"])
        /\ x \in Seq(Everyone) /\ Distinct(x) /\ Members(x) = Members(wq["cond"]) \ {t}
    BY <1>1, MembersTail
  <2> HIDE DEF t, x
  <2> QED BY <2>1, <2>2, CondWakes
<1> QED BY <1>2, <1>3

(* The call at the head of the queue is for the sleep its thread is in.    *)
LEMMA HeadCall ==
  ASSUME IInv, NEW t \in Thread, NEW f, Fires(t, f)
  PROVE  /\ sleep[t] = f
         /\ tcEventQ # << >> /\ tcEventQ[1].call = t /\ tcEventQ' = Detached(tcEventQ)
<1>1. tcEventQ # << >> /\ tcEventQ[1].call = t /\ tcEventQ[1].f = f
  BY DEF Fires, HeadDue
<1>2. 1 \in 1 .. Len(tcEventQ)
  BY <1>1, SMTT(30) DEF IInv, Timers, Entries
<1>3. <<t, f>> \in Calls(tcEventQ)
  BY <1>1, <1>2 DEF Calls
<1> QED BY <1>1, <1>3 DEF IInv, Timers, Fires

(* The three timeout functions keep the invariant.                         *)
LEMMA TimeoutSteps ==
  ASSUME IInv, NEW t \in Thread,
         wake_sleeping_thread(t) \/ wake_cond_thread(t) \/ wake_sem_thread(t)
  PROVE  IInv'
<1>1. t \in Everyone /\ t # Killer
  BY ThreadFacts
<1>2. CASE wake_sleeping_thread(t)
  <2>1. /\ sleep[t] = "sleep" /\ tcEventQ # << >> /\ tcEventQ[1].call = t
        /\ tcEventQ' = Detached(tcEventQ)
    BY <1>2, HeadCall DEF wake_sleeping_thread
  <2>2. sleep' = Unblocked(sleep, {t}) /\ UNCHANGED <<pc, wq, owner, value, timedout, killing>>
    BY <1>2 DEF wake_sleeping_thread, waits
  <2>3. sleep' = [sleep EXCEPT ![t] = "none"]
    BY <2>2 DEF Unblocked, IInv, Waiting
  <2>4. sleep'[t] = "none" /\ \A u \in Everyone \ {t} : sleep'[u] = sleep[u]
    BY <1>1, <2>3 DEF IInv, Waiting
  <2>5. pc[t] \in {"run", "locked"}
    BY <1>1, <2>1 DEF IInv, Waiting
  <2>6. Waiting(sleep', pc', wq')
    <3>1. [pc EXCEPT ![t] = pc[t]] = pc
      BY DEF IInv, Waiting
    <3>2. /\ pc[t] \in ThreadSteps \cup KillerSteps /\ pc[t] \notin KillerSteps
          /\ pc[t] \notin {"dead", "free"}
      BY <2>5 DEF ThreadSteps, KillerSteps
    <3>3. Waiting([sleep EXCEPT ![t] = "none"], [pc EXCEPT ![t] = pc[t]], wq)
      BY <1>1, <2>1, <3>2, Moves DEF IInv
    <3> QED BY <2>2, <2>3, <3>1, <3>3
  <2>7. Timers(sleep', tcEventQ')
    BY <2>1, <2>4, TimerGone DEF IInv, Everyone
  <2>8. Units'
    <3>1. \A u \in timedout' : sleep'[u] = "none" /\ pc'[u] \in {"relock", "acquire"}
      BY <2>2, <2>4 DEF IInv, Units, Everyone
    <3>2. \A u \in Thread :
            /\ pc'[u] = "acquire" <=> pc[u] = "acquire"
            /\ pc[u] = "acquire" => /\ sleep'[u] = "none" <=> sleep[u] = "none"
                                    /\ u \in timedout' <=> u \in timedout
      BY <2>2, <2>4, <2>5 DEF Everyone
    <3>3. timedout' \subseteq Thread
      BY <2>2 DEF IInv, Units
    <3> QED BY <2>2, <3>1, <3>2, <3>3, UnitsKept DEF IInv
  <2> QED BY <2>2, <2>6, <2>7, <2>8 DEF IInv, killing
<1>3. CASE wake_cond_thread(t)
  <2>1. /\ tcEventQ # << >> /\ tcEventQ[1].call = t /\ tcEventQ' = Detached(tcEventQ)
    BY <1>3, HeadCall DEF wake_cond_thread
  <2>2. CASE WaitCond(t)
    <3> DEFINE x == Without(wq["cond"], t)
    <3>1. /\ wq' = [wq EXCEPT !["cond"] = x] /\ sleep' = Unblocked(sleep, {t})
          /\ timedout' = timedout \cup {t} /\ UNCHANGED <<pc, owner, value, killing>>
      BY <1>3, <2>2 DEF wake_cond_thread
    <3>2. x \in Seq(Everyone) /\ Distinct(x) /\ Members(x) = Members(wq["cond"]) \ {t}
      BY CondFacts, MembersWithout, SMTT(30) DEF IInv, Waiting
    <3>3. t \in Members(wq["cond"])
      BY <2>2 DEF WaitCond
    <3> HIDE DEF x
    <3> QED BY <2>1, <3>1, <3>2, <3>3, CondWakes
  <2>3. CASE ~ WaitCond(t)
    <3>1. UNCHANGED <<wq, timedout, sleep, pc, owner, value, killing>>
      BY <1>3, <2>3 DEF wake_cond_thread
    <3>2. Timers(sleep', tcEventQ')
      BY <2>1, <3>1, TimerGone DEF IInv
    <3>3. Units'
      BY <3>1 DEF IInv, Units, NoLostUnit, Notified
    <3> QED BY <3>1, <3>2, <3>3 DEF IInv, killing
  <2> QED BY <2>2, <2>3
<1>4. CASE wake_sem_thread(t)
  <2> DEFINE x == Without(wq["sem"], t)
  <2>1. /\ sleep[t] = "sem" /\ tcEventQ # << >> /\ tcEventQ[1].call = t
        /\ tcEventQ' = Detached(tcEventQ)
    BY <1>4, HeadCall DEF wake_sem_thread
  <2>2. /\ wq' = [wq EXCEPT !["sem"] = x] /\ sleep' = Unblocked(sleep, {t})
        /\ timedout' = timedout \cup {t} /\ UNCHANGED <<pc, owner, value, killing>>
    BY <1>4 DEF wake_sem_thread
  <2>3. t \in Members(wq["sem"])
    <3>1. PICK o \in Object : t \in Members(wq[o])
      BY <1>1, <2>1 DEF IInv, Waiting
    <3>2. Flag(o) = "sem"
      BY <2>1, <3>1 DEF IInv, Waiting
    <3> QED BY <3>1, <3>2 DEF Flag, Object, Mutex, Cond
  <2>4. x \in Seq(Everyone) /\ Distinct(x) /\ Members(x) = Members(wq["sem"]) \ {t}
    BY SemFacts, MembersWithout, SMTT(30) DEF IInv, Waiting
  <2> HIDE DEF x
  <2>5. /\ Waiting(sleep', pc', wq') /\ Owners(owner', pc', wq')
        /\ pc[t] = "acquire"
        /\ sleep'[t] = "none" /\ \A u \in Everyone \ {t} : sleep'[u] = sleep[u]
    BY <2>2, <2>3, <2>4, SemFacts, WakeInv DEF IInv
  <2>6. Kills(pc', threads4kill', kill_request', victim')
    BY <2>2 DEF IInv, killing
  <2>7. Timers(sleep', tcEventQ')
    BY <2>1, <2>5, TimerGone DEF IInv, Everyone
  <2>8. Notified' = Notified
    BY <2>1, <2>2, <2>5 DEF Notified, Everyone
  <2>9. wq["sem"] # << >>
    BY <2>3, MembersEmpty
  <2>10. NoLostUnit'
    BY <2>2, <2>8, <2>9 DEF IInv, Units, NoLostUnit
  <2>11. Units'
    <3>1. timedout' \subseteq Thread /\ value' \in Nat
      BY <2>2 DEF IInv, Units
    <3>2. \A u \in timedout' : sleep'[u] = "none" /\ pc'[u] \in {"relock", "acquire"}
      BY <2>2, <2>5 DEF IInv, Units, Everyone
    <3> QED BY <2>10, <3>1, <3>2 DEF Units
  <2> QED BY <2>5, <2>6, <2>7, <2>11 DEF IInv
<1> QED BY <1>2, <1>3, <1>4

(* The timer interrupt, and the periodic calls.                            *)
LEMMA TimerSteps ==
  ASSUME IInv, UNCHANGED <<sleep, pc, waits, killing>>,
         \/ TickBegin \/ FirePeriodic \/ TickEnd
         \/ \E p \in Periodic : RequestPeriodic(p) \/ UndoPeriodic(p)
  PROVE  IInv'
<1>1. Entries(tcEventQ)
  BY DEF IInv, Timers
<1>2. \A p \in Periodic : p \notin Thread
  BY ThreadAssumption
<1>3. /\ Entries(tcEventQ')
      /\ \A c \in Calls(tcEventQ') : c \in Calls(tcEventQ) \/ c[1] \notin Thread
  <2>1. CASE TickBegin
    BY <1>1, <2>1, CountedDown DEF TickBegin
  <2>2. CASE TickEnd
    BY <1>1, <2>2 DEF TickEnd
  <2>3. CASE FirePeriodic
    <3> DEFINE e == tcEventQ[1]
               q == Detached(tcEventQ)
    <3>1. /\ tcEventQ # << >> /\ e.call \in Periodic
          /\ tcEventQ' = Requested(q, e.call, e.f, Period)
      BY <2>3 DEF FirePeriodic, HeadDue
    <3>2. Entries(q) /\ Calls(q) = {c \in Calls(tcEventQ) : c[1] # e.call}
      BY <1>1, <3>1, DetachedCalls
    <3> HIDE DEF q, e
    <3>3. e.call \notin Queued(q)
      <4> SUFFICES ASSUME NEW i \in 1 .. Len(q), q[i].call = e.call PROVE FALSE
        BY DEF Queued
      <4>1. <<q[i].call, q[i].f>> \in Calls(q)
        BY DEF Calls
      <4> QED BY <3>2, <4>1, SMTT(30)
    <3>4. Entries(tcEventQ') /\ Calls(tcEventQ') = Calls(q) \cup {<<e.call, e.f>>}
      BY <3>1, <3>2, <3>3, RequestedCalls, SMTT(30)
    <3> QED BY <1>2, <3>1, <3>2, <3>4, SMTT(30)
  <2>4. ASSUME NEW p \in Periodic, RequestPeriodic(p)
        PROVE  /\ Entries(tcEventQ')
               /\ Calls(tcEventQ') = Calls(tcEventQ) \cup {<<p, "timer">>}
    BY <1>1, <2>4, RequestedCalls, SMTT(30) DEF RequestPeriodic
  <2>5. ASSUME NEW p \in Periodic, UndoPeriodic(p)
        PROVE  /\ Entries(tcEventQ')
               /\ Calls(tcEventQ') = {c \in Calls(tcEventQ) : c[1] # p}
    BY <1>1, <2>5, UndoneCalls DEF UndoPeriodic
  <2> QED BY <1>2, <2>1, <2>2, <2>3, <2>4, <2>5, SMTT(30)
<1>4. Timers(sleep', tcEventQ')
  BY <1>3 DEF IInv, Timers
<1>5. Units'
  BY DEF IInv, Units, NoLostUnit, Notified, waits
<1> QED BY <1>4, <1>5 DEF IInv, waits, killing

-----------------------------------------------------------------------------
(* The death of threads.                                                   *)
LEMMA KillFacts ==
  /\ "kill_request" \in Object /\ "kill_request" \notin Mutex
  /\ "kill_mutex" \in Object /\ "kill_mutex" \in Mutex
  /\ "sem" \in Object /\ Mutex \subseteq Object
  /\ At("kill_request") = {"k_relock"}
  /\ {"run", "dead", "free"} \subseteq ThreadSteps /\ {"run", "dead", "free"} \cap KillerSteps = {}
  /\ {"k_lock", "k_kill", "k_relock", "k_wait", "k_loop"} = KillerSteps
  /\ \A m \in Mutex : {"run", "dead", "free", "k_lock", "k_kill", "k_relock"} \cap At(m) = {}
BY DEF Object, Mutex, Cond, At, ThreadSteps, KillerSteps

(* The end of t_kill_thread.                                               *)
LEMMA DieInv ==
  ASSUME IInv, NEW t \in Thread, sleep[t] = "none",
         pc[t] = "dying" \/ (pc[t] = "run" /\ owner["kill_mutex"] = NoThread), Die(t)
  PROVE  IInv'
<1> DEFINE km == "kill_mutex"
           kr == "kill_request"
           s1 == Unblocked(sleep, Woken(km))
           p1 == [pc EXCEPT ![t] = "run"]
           w1 == [wq EXCEPT ![km] = Left(km)]
           own1 == [owner EXCEPT ![km] = Handed(km)]
           s2 == Unblocked(s1, Woken(kr))
           w2 == [w1 EXCEPT ![kr] = Left(kr)]
<1>1. t \in Everyone /\ t # Killer /\ t # NoThread
  BY ThreadFacts
<1>2. /\ Waiting(s1, p1, w1) /\ Owners(own1, p1, w1) /\ s1[t] = "none"
      /\ \A u \in Everyone : s1[u] = sleep[u] \/ (sleep[u] = "mutex" /\ s1[u] = "none")
  <2>1. \A n \in Mutex : "run" \notin At(n) /\ (n # km => pc[t] \notin At(n))
    BY MutexFacts
  <2>2. pc[t] \in At(km) \/ owner[km] = NoThread
    BY MutexFacts
  <2>3. "run" \in ThreadSteps \cup KillerSteps /\ "run" \notin KillerSteps
    BY KillFacts
  <2> QED BY <1>1, <2>1, <2>2, <2>3, KillFacts, UnlockInv DEF IInv
<1>3. w1[kr] = wq[kr] /\ w1["sem"] = wq["sem"]
  BY KillFacts DEF IInv, Waiting
<1>4. p1[t] = "run" /\ \A u \in Everyone \ {t} : p1[u] = pc[u]
  BY <1>1 DEF IInv, Waiting
<1> HIDE DEF s1, p1, w1, own1
<1>5. /\ Waiting(s2, p1, w2)
      /\ \A u \in Thread : s2[u] = s1[u]
      /\ \A o \in Object \ {kr} : w2[o] = w1[o]
  <2>0. \A o \in Object \ {kr} : w2[o] = w1[o]
    BY <1>2 DEF Waiting
  <2>1. CASE wq[kr] = << >>
    <3>1. s2 = s1
      BY <1>2, <2>1 DEF Woken, Unblocked, Waiting
    <3>2. w2 = w1
      BY <1>2, <1>3, <2>1 DEF Left, Waiting
    <3> QED BY <1>2, <2>0, <3>1, <3>2
  <2>2. CASE wq[kr] # << >>
    <3> DEFINE h == First(wq[kr])
    <3>1. wq[kr] \in Seq(Everyone) /\ Distinct(wq[kr])
      BY KillFacts DEF IInv, Waiting
    <3>2. h \in Members(wq[kr])
      BY <2>2, <3>1, FirstIsMember DEF Everyone
    <3>3. Woken(kr) = {h} /\ Left(kr) = Without(wq[kr], h)
      BY <2>2 DEF Woken, Left
    <3> HIDE DEF h
    <3>4. /\ Left(kr) \in Seq(Everyone) /\ Distinct(Left(kr))
          /\ Members(Left(kr)) = Members(wq[kr]) \ {h}
      BY <3>1, <3>3, MembersWithout, SMTT(30)
    <3>5. h \notin Thread
      <4>1. pc[h] \in KillerSteps /\ h \in Everyone
        BY <3>2, KillFacts, OneQueue DEF IInv, Waiting
      <4> QED BY <4>1, KillerFacts DEF IInv, Waiting
    <3>6. s2 = Unblocked(s1, {h})
      BY <3>3
    <3>7. \A u \in Thread : s2[u] = s1[u]
      BY <1>2, <3>5, <3>6 DEF Unblocked, Waiting, Everyone
    <3> HIDE DEF s2
    <3>8. Waiting(s2, p1, w2)
      BY <1>2, <1>3, <3>2, <3>4, <3>6, KillFacts, Leaves
    <3> QED BY <2>0, <3>7, <3>8
  <2> QED BY <2>1, <2>2
<1>6. s2[t] = "none"
  BY <1>2, <1>5
<1>7. /\ sleep' = [s2 EXCEPT ![t] = "zombie"]
      /\ pc' = [p1 EXCEPT ![t] = "dead"]
      /\ wq' = w2 /\ owner' = own1
  <2>1. s2 = Unblocked(sleep, Woken(km) \cup Woken(kr))
    BY DEF Unblocked, s1, IInv, Waiting
  <2>2. sleep' = [Unblocked(sleep, Woken(km) \cup Woken(kr)) EXCEPT ![t] = "zombie"]
    BY DEF Die, Blocked
  <2>3. pc' = [pc EXCEPT ![t] = "dead"]
    BY DEF Die, Goto
  <2>4. wq' = w2
    BY DEF Die, w1
  <2> QED BY <2>1, <2>2, <2>3, <2>4 DEF Die, p1, own1
<1> HIDE DEF s2, w2
<1>8. Waiting(sleep', pc', wq')
  BY <1>1, <1>5, <1>6, <1>7, KillFacts, Moves
<1>9. Owners(owner', pc', wq')
  <2>1. Owners(own1, p1, w2)
    BY <1>2, <1>5, KillFacts, OwnersKept, SMTT(30)
  <2>2. p1 \in [Everyone -> ThreadSteps \cup KillerSteps]
    BY <1>2 DEF Waiting
  <2>3. \A m \in Mutex : p1[t] \notin At(m) /\ "dead" \notin At(m)
    BY <1>4, KillFacts
  <2> QED BY <1>1, <1>7, <2>1, <2>2, <2>3, OwnersMoved
<1>10. /\ pc'[t] = "dead" /\ \A u \in Everyone \ {t} : pc'[u] = pc[u]
       /\ \A u \in Thread \ {t} :
            sleep'[u] = sleep[u] \/ (sleep[u] = "mutex" /\ sleep'[u] = "none")
  <2>1. pc'[t] = "dead" /\ \A u \in Everyone \ {t} : pc'[u] = p1[u]
    BY <1>1, <1>2, <1>7 DEF Waiting
  <2>2. \A u \in Thread \ {t} : sleep'[u] = s2[u]
    BY <1>5, <1>7 DEF Waiting, Everyone
  <2> QED BY <1>2, <1>4, <1>5, <2>1, <2>2 DEF Everyone
<1>11. Timers(sleep', tcEventQ')
  <2>1. tcEventQ' = tcEventQ
    BY DEF Die, timer
  <2> QED BY <1>10, <2>1, TimersKept DEF IInv
<1>12. Kills(pc', threads4kill', kill_request', victim')
  <2>1. /\ threads4kill' = Append(threads4kill, t) /\ kill_request' = kill_request + 1
        /\ victim' = victim
    BY DEF Die
  <2>2. threads4kill \in Seq(Thread) /\ t \notin Members(threads4kill) /\ t # victim
    BY DEF IInv, Kills
  <2>3. /\ threads4kill' \in Seq(Thread) /\ Distinct(threads4kill')
        /\ Members(threads4kill') = Members(threads4kill) \cup {t}
    BY <2>1, <2>2, MembersAppend, SMTT(30) DEF IInv, Kills
  <2>4. kill_request' = Len(threads4kill')
    BY <2>1, <2>2, SMTT(30) DEF IInv, Kills
  <2>5. pc'[Killer] = pc[Killer] /\ \A u \in Thread \ {t} : pc'[u] = pc[u]
    BY <1>1, <1>10, KillerFacts DEF Everyone
  <2>6. IF pc'[Killer] = "k_kill" THEN victim' \in Thread \ Members(threads4kill')
                                  ELSE victim' = NoThread
    BY <2>1, <2>2, <2>3, <2>5 DEF IInv, Kills
  <2>7. \A u \in Thread : u = victim' \/ u \in Members(threads4kill') => pc'[u] = "dead"
    BY <1>10, <2>1, <2>3, <2>5 DEF IInv, Kills
  <2> QED BY <2>3, <2>4, <2>6, <2>7 DEF Kills
<1>13. Units'
  <2>1. value' = value /\ timedout' = timedout /\ wq'["sem"] = wq["sem"]
    BY <1>3, <1>5, <1>7, KillFacts DEF Die
  <2>2. t \notin timedout /\ timedout \subseteq Thread
    BY DEF IInv, Units
  <2>3. \A u \in timedout : sleep'[u] = "none" /\ pc'[u] \in {"relock", "acquire"}
    BY <1>10, <2>2 DEF IInv, Units, Everyone
  <2>4. \A u \in Thread : sleep[u] = "mutex" => pc[u] # "acquire"
    BY SleepSteps DEF IInv, Everyone
  <2>5. \A u \in Thread :
          /\ pc'[u] = "acquire" <=> pc[u] = "acquire"
          /\ pc[u] = "acquire" => (sleep'[u] = "none" <=> sleep[u] = "none")
    BY <1>10, <2>4 DEF Everyone
  <2> QED BY <2>1, <2>2, <2>3, <2>5, UnitsKept DEF IInv
<1> QED BY <1>8, <1>9, <1>11, <1>12, <1>13 DEF IInv

(* hal_exit_kernel_thread keeps the invariant.                             *)
LEMMA ExitSteps ==
  ASSUME IInv, NEW t \in Thread, Exit(t) \/ ExitGoesOn(t)
  PROVE  IInv'
BY DieInv DEF Exit, ExitGoesOn, Runs

(* The killer locks, waits, or finds nobody to kill.                       *)
LEMMA KillerRounds ==
  ASSUME IInv, KillerLocks \/ KillerWaits \/ KillerDone
  PROVE  IInv'
<1>1. sleep[Killer] = "none" /\ pc[Killer] \in {"k_lock", "k_relock", "k_wait", "k_loop"}
      /\ value' = value /\ UNCHANGED killing /\ tcEventQ' = tcEventQ /\ timedout' = timedout
  BY DEF KillerLocks, KillerWaits, KillerDone, Runs, timer, killing
<1>2. /\ Waiting(sleep', pc', wq') /\ Owners(owner', pc', wq')
      /\ pc'[Killer] \in {"k_wait", "k_loop", "k_relock", "k_lock"}
      /\ \A u \in Everyone \ {Killer} :
           /\ sleep'[u] = sleep[u] \/ (sleep[u] = "mutex" /\ sleep'[u] = "none")
           /\ pc'[u] = pc[u]
      /\ wq'["sem"] = wq["sem"]
  <2>1. CASE KillerLocks
    <3>1. PICK next \in {"k_wait", "k_loop"} : Lock(Killer, "kill_mutex", next)
      BY <2>1 DEF KillerLocks
    <3>2. \A n \in Mutex : pc[Killer] \notin At(n)
      BY <2>1, MutexFacts DEF KillerLocks, Runs
    <3>3. next \in At("kill_mutex") /\ next \in KillerSteps
      BY MutexFacts, KillFacts
    <3>4. /\ Waiting(sleep', pc', wq') /\ Owners(owner', pc', wq')
          /\ pc'[Killer] = next
          /\ \A u \in Everyone \ {Killer} : sleep'[u] = sleep[u] /\ pc'[u] = pc[u]
          /\ \A o \in Object \ {"kill_mutex"} : wq'[o] = wq[o]
      BY <1>1, <3>1, <3>2, <3>3, KillerFacts, KillFacts, LockInv DEF IInv
    <3> QED BY <3>4, KillFacts
  <2>2. CASE KillerWaits
    <3>1. /\ CondWait(Killer, "kill_request", "kill_mutex", "k_relock")
          /\ pc[Killer] \in At("kill_mutex")
      BY <2>2, MutexFacts DEF KillerWaits, Runs
    <3>2. "kill_request" \in Cond /\ "k_relock" \in At("kill_request") /\ "k_relock" \in KillerSteps
      BY KillFacts DEF Cond
    <3> QED BY <1>1, <3>1, <3>2, KillerFacts, KillFacts, CondWaitInv, ZenonT(30) DEF IInv
  <2>3. CASE KillerDone
    <3>1. /\ owner' = [owner EXCEPT !["kill_mutex"] = Handed("kill_mutex")]
          /\ wq' = [wq EXCEPT !["kill_mutex"] = Left("kill_mutex")]
          /\ sleep' = Unblocked(sleep, Woken("kill_mutex"))
          /\ pc' = [pc EXCEPT ![Killer] = "k_lock"]
          /\ pc[Killer] = "k_loop"
      BY <2>3 DEF KillerDone, Unlock, Goto, Runs
    <3>2. /\ \A n \in Mutex : "k_lock" \notin At(n) /\ (n # "kill_mutex" => pc[Killer] \notin At(n))
          /\ pc[Killer] \in At("kill_mutex")
      BY <3>1, MutexFacts, SMTT(30)
    <3>3. "k_lock" \in ThreadSteps \cup KillerSteps /\ "k_lock" \in KillerSteps
      BY KillFacts
    <3>4. /\ Waiting(sleep', pc', wq') /\ Owners(owner', pc', wq')
          /\ \A u \in Everyone : sleep'[u] = sleep[u] \/ (sleep[u] = "mutex" /\ sleep'[u] = "none")
      BY <1>1, <3>1, <3>2, <3>3, KillerFacts, KillFacts, UnlockInv DEF IInv
    <3>5. /\ pc'[Killer] = "k_lock" /\ \A u \in Everyone \ {Killer} : pc'[u] = pc[u]
          /\ wq'["sem"] = wq["sem"]
      BY <3>1, KillerFacts, KillFacts DEF IInv, Waiting
    <3> QED BY <3>4, <3>5
  <2> QED BY <2>1, <2>2, <2>3
<1>3. /\ Kills(pc', threads4kill', kill_request', victim')
      /\ Units'
      /\ tcEventQ' = tcEventQ => Timers(sleep', tcEventQ')
  BY <1>1, <1>2, KillerFacts, Bystanders
<1> QED BY <1>1, <1>2, <1>3 DEF IInv

(* The killer takes the first thread to kill, and unlocks.                 *)
LEMMA KillerTakesInv ==
  ASSUME IInv, KillerTakes
  PROVE  IInv'
<1>1. /\ sleep[Killer] = "none" /\ pc[Killer] = "k_loop" /\ kill_request > 0
      /\ victim' = Head(threads4kill) /\ threads4kill' = Tail(threads4kill)
      /\ kill_request' = kill_request - 1
      /\ owner' = [owner EXCEPT !["kill_mutex"] = Handed("kill_mutex")]
      /\ wq' = [wq EXCEPT !["kill_mutex"] = Left("kill_mutex")]
      /\ sleep' = Unblocked(sleep, Woken("kill_mutex"))
      /\ pc' = [pc EXCEPT ![Killer] = "k_kill"]
      /\ UNCHANGED <<value, timedout, tcEventQ>>
  BY DEF KillerTakes, Unlock, Goto, Runs, timer
<1>2. /\ \A n \in Mutex : "k_kill" \notin At(n) /\ (n # "kill_mutex" => pc[Killer] \notin At(n))
      /\ pc[Killer] \in At("kill_mutex")
  BY <1>1, MutexFacts, SMTT(30)
<1>3. "k_kill" \in ThreadSteps \cup KillerSteps /\ "k_kill" \in KillerSteps
  BY KillFacts
<1>4. /\ Waiting(sleep', pc', wq') /\ Owners(owner', pc', wq')
      /\ \A u \in Everyone : sleep'[u] = sleep[u] \/ (sleep[u] = "mutex" /\ sleep'[u] = "none")
  BY <1>1, <1>2, <1>3, KillerFacts, KillFacts, UnlockInv DEF IInv
<1>5. /\ pc'[Killer] = "k_kill" /\ \A u \in Thread : pc'[u] = pc[u]
      /\ wq'["sem"] = wq["sem"]
  BY <1>1, KillerFacts, KillFacts DEF IInv, Waiting, Everyone
<1>6. Kills(pc', threads4kill', kill_request', victim')
  <2>1. threads4kill \in Seq(Thread) /\ Distinct(threads4kill) /\ threads4kill # << >>
    BY <1>1, SMTT(30) DEF IInv, Kills
  <2>2. /\ victim' \in Members(threads4kill)
        /\ threads4kill' \in Seq(Thread) /\ Distinct(threads4kill')
        /\ Members(threads4kill') = Members(threads4kill) \ {victim'}
    BY <1>1, <2>1, MembersTail
  <2>3. kill_request' = Len(threads4kill')
    BY <1>1, <2>1, SMTT(30) DEF IInv, Kills
  <2>4. victim' \in Thread
    BY <2>1, <2>2, OwnMembers
  <2>5. \A u \in Thread : u = victim' \/ u \in Members(threads4kill') => pc'[u] = "dead"
    BY <1>5, <2>2 DEF IInv, Kills
  <2> QED BY <1>5, <2>2, <2>3, <2>4, <2>5 DEF Kills
<1>7. Timers(sleep', tcEventQ')
  <2>1. \A u \in Thread : sleep'[u] = sleep[u] \/ sleep[u] \notin {"cond", "sem", "sleep"}
    BY <1>4 DEF Everyone
  <2> QED BY <1>1, <2>1, TimersKept DEF IInv
<1>8. Units'
  <2>1. timedout \subseteq Thread
    BY DEF IInv, Units
  <2>2. \A u \in timedout : sleep'[u] = "none" /\ pc'[u] \in {"relock", "acquire"}
    BY <1>4, <1>5, <2>1 DEF IInv, Units, Everyone
  <2>3. \A u \in Thread : sleep[u] = "mutex" => pc[u] # "acquire"
    BY SleepSteps DEF IInv, Everyone
  <2>4. \A u \in Thread :
          /\ pc'[u] = "acquire" <=> pc[u] = "acquire"
          /\ pc[u] = "acquire" => (sleep'[u] = "none" <=> sleep[u] = "none")
    BY <1>4, <1>5, <2>3 DEF Everyone
  <2> QED BY <1>1, <1>5, <2>1, <2>2, <2>4, UnitsKept DEF IInv
<1> QED BY <1>4, <1>6, <1>7, <1>8 DEF IInv

(* The killer frees its victim.                                            *)
LEMMA KillerKillsInv ==
  ASSUME IInv, KillerKills
  PROVE  IInv'
<1> DEFINE p1 == [pc EXCEPT ![victim] = "free"]
<1>1. /\ sleep[Killer] = "none" /\ pc[Killer] = "k_kill"
      /\ tcEventQ' = Undone(tcEventQ, victim)
      /\ pc' = [pc EXCEPT ![victim] = "free", ![Killer] = "k_relock"]
      /\ victim' = NoThread
      /\ UNCHANGED <<sleep, wq, owner, value, timedout, threads4kill, kill_request>>
  BY DEF KillerKills, UndoTimer, Runs, waits
<1>2. /\ victim \in Thread /\ victim \notin Members(threads4kill) /\ pc[victim] = "dead"
      /\ victim \in Everyone /\ victim # Killer
  BY <1>1, ThreadFacts DEF IInv, Kills
<1>3. sleep[victim] = "zombie"
  BY <1>2 DEF IInv, Waiting
<1>4. p1[victim] = "free" /\ \A u \in Everyone \ {victim} : p1[u] = pc[u]
  BY <1>2 DEF IInv, Waiting
<1>5. Waiting(sleep, p1, wq)
  <2>1. Waiting([sleep EXCEPT ![victim] = "zombie"], p1, wq)
    BY <1>2, <1>3, KillFacts, Moves DEF IInv
  <2>2. [sleep EXCEPT ![victim] = "zombie"] = sleep
    BY <1>3 DEF IInv, Waiting
  <2> QED BY <2>1, <2>2
<1>6. pc' = [p1 EXCEPT ![Killer] = "k_relock"]
  BY <1>1
<1>7. Owners(owner, p1, wq)
  <2>1. \A m \in Mutex : pc[victim] \notin At(m) /\ "free" \notin At(m)
    BY <1>2, KillFacts
  <2>2. pc \in [Everyone -> ThreadSteps \cup KillerSteps]
    BY DEF IInv, Waiting
  <2> QED BY <1>2, <2>1, <2>2, OwnersMoved DEF IInv
<1> HIDE DEF p1
<1>8. Waiting(sleep', pc', wq')
  <2>0. "k_relock" \in KillerSteps
    BY KillFacts
  <2>1. Waiting([sleep EXCEPT ![Killer] = "none"], [p1 EXCEPT ![Killer] = "k_relock"], wq)
    BY <1>1, <1>5, <2>0, KillerFacts, Moves
  <2>2. [sleep EXCEPT ![Killer] = "none"] = sleep
    BY <1>1 DEF IInv, Waiting
  <2> QED BY <1>1, <1>6, <2>1, <2>2
<1>9. Owners(owner', pc', wq')
  <2>1. \A m \in Mutex : p1[Killer] \notin At(m) /\ "k_relock" \notin At(m)
    BY <1>1, <1>2, <1>4, KillFacts, KillerFacts
  <2>2. p1 \in [Everyone -> ThreadSteps \cup KillerSteps]
    BY <1>5 DEF Waiting
  <2>3. Owners(owner, [p1 EXCEPT ![Killer] = "k_relock"], wq)
    BY <1>7, <2>1, <2>2, KillerFacts, OwnersMoved
  <2> QED BY <1>1, <1>6, <2>3
<1>10. /\ pc'[Killer] = "k_relock" /\ pc'[victim] = "free"
       /\ \A u \in Thread \ {victim} : pc'[u] = pc[u]
  <2>1. pc'[Killer] = "k_relock" /\ \A u \in Everyone \ {Killer} : pc'[u] = p1[u]
    BY <1>5, <1>6, KillerFacts DEF Waiting
  <2> QED BY <1>2, <1>4, <2>1, KillerFacts DEF Everyone
<1>11. Kills(pc', threads4kill', kill_request', victim')
  <2>1. \A u \in Thread : u # NoThread
    BY ThreadFacts
  <2>2. \A u \in Thread : u = victim' \/ u \in Members(threads4kill') => pc'[u] = "dead"
    BY <1>1, <1>2, <1>10, <2>1 DEF IInv, Kills
  <2>3. /\ threads4kill' \in Seq(Thread) /\ Distinct(threads4kill')
        /\ kill_request' = Len(threads4kill')
    BY <1>1 DEF IInv, Kills
  <2> QED BY <1>1, <1>10, <2>2, <2>3 DEF Kills
<1>12. Timers(sleep', tcEventQ')
  BY <1>1, TimerGone DEF IInv
<1>13. Units'
  <2>1. timedout \subseteq Thread /\ victim \notin timedout
    BY <1>2 DEF IInv, Units
  <2>2. \A u \in timedout : sleep'[u] = "none" /\ pc'[u] \in {"relock", "acquire"}
    BY <1>1, <1>10, <2>1 DEF IInv, Units
  <2>3. \A u \in Thread : pc'[u] = "acquire" <=> pc[u] = "acquire"
    BY <1>2, <1>10
  <2> QED BY <1>1, <2>1, <2>2, <2>3, UnitsKept DEF IInv
<1> QED BY <1>8, <1>9, <1>11, <1>12, <1>13 DEF IInv

(* A new thread takes a free slot.                                         *)
LEMMA CreateInv ==
  ASSUME IInv, NEW t \in Thread, phantom_create_thread(t)
  PROVE  IInv'
<1>1. /\ pc[t] = "free" /\ pc' = [pc EXCEPT ![t] = "run"]
      /\ sleep' = [sleep EXCEPT ![t] = "none"] /\ timedout' = timedout \ {t}
      /\ UNCHANGED <<wq, owner, value, killing, tcEventQ>>
  BY DEF phantom_create_thread, Goto, timer
<1>2. t \in Everyone /\ t # Killer
  BY ThreadFacts
<1>3. sleep[t] = "zombie"
  BY <1>1, <1>2 DEF IInv, Waiting
<1>4. Waiting(sleep', pc', wq')
  BY <1>1, <1>2, <1>3, KillFacts, Moves DEF IInv
<1>5. Owners(owner', pc', wq')
  <2>1. \A m \in Mutex : pc[t] \notin At(m) /\ "run" \notin At(m)
    BY <1>1, KillFacts
  <2>2. pc \in [Everyone -> ThreadSteps \cup KillerSteps]
    BY DEF IInv, Waiting
  <2> QED BY <1>1, <1>2, <2>1, <2>2, OwnersMoved DEF IInv
<1>6. /\ pc'[t] = "run" /\ sleep'[t] = "none"
      /\ \A u \in Everyone \ {t} : pc'[u] = pc[u] /\ sleep'[u] = sleep[u]
  BY <1>1, <1>2 DEF IInv, Waiting
<1>7. Kills(pc', threads4kill', kill_request', victim')
  <2>1. \A u \in Thread : pc[u] = "dead" => pc'[u] = "dead"
    BY <1>1, <1>6 DEF Everyone
  <2>2. pc'[Killer] = pc[Killer]
    BY <1>2, <1>6, KillerFacts
  <2> QED BY <1>1, <2>1, <2>2, KillsKept DEF IInv
<1>8. Timers(sleep', tcEventQ')
  <2>1. \A u \in Thread : sleep'[u] = sleep[u] \/ sleep[u] \notin {"cond", "sem", "sleep"}
    BY <1>3, <1>6 DEF Everyone
  <2> QED BY <1>1, <2>1, TimersKept DEF IInv
<1>9. Units'
  <2>1. timedout' \subseteq Thread
    BY <1>1 DEF IInv, Units
  <2>2. \A u \in timedout' : sleep'[u] = "none" /\ pc'[u] \in {"relock", "acquire"}
    BY <1>1, <1>6 DEF IInv, Units, Everyone
  <2>3. \A u \in Thread :
          /\ pc'[u] = "acquire" <=> pc[u] = "acquire"
          /\ pc[u] = "acquire" => /\ sleep'[u] = "none" <=> sleep[u] = "none"
                                  /\ u \in timedout' <=> u \in timedout
    BY <1>1, <1>6 DEF Everyone
  <2> QED BY <1>1, <2>1, <2>2, <2>3, UnitsKept DEF IInv
<1> QED BY <1>4, <1>5, <1>7, <1>8, <1>9 DEF IInv

-----------------------------------------------------------------------------
(* The invariant holds when the kernel has started its threads.            *)
LEMMA InitIInv == Init => IInv
<1> SUFFICES ASSUME Init PROVE IInv
  OBVIOUS
<1> USE DEF Init
<1>1. \A o \in Object : wq[o] = << >> /\ Members(wq[o]) = {} /\ Distinct(wq[o])
  BY MembersEmpty
<1>2. Waiting(sleep, pc, wq)
  <2>1. wq \in [Object -> Seq(Everyone)]
    BY SMTT(30)
  <2>2. \A t \in Everyone :
          /\ sleep[t] = "none" /\ pc[t] \notin {"dead", "free"}
          /\ t = Killer <=> pc[t] \in KillerSteps
    BY DEF Everyone, KillerSteps
  <2>3. sleep \in [Everyone -> Flags] /\ pc \in [Everyone -> ThreadSteps \cup KillerSteps]
    BY DEF Everyone, Flags, ThreadSteps, KillerSteps
  <2> QED BY <1>1, <2>1, <2>2, <2>3 DEF Waiting
<1>3. Owners(owner, pc, wq)
  <2>1. \A m \in Mutex, t \in Everyone : pc[t] \notin At(m) /\ NoThread # t
    BY MutexFacts, ThreadAssumption, SMTT(30) DEF Everyone
  <2>2. \A m \in Mutex : wq[m] = << >> /\ owner[m] = NoThread
    BY DEF Object
  <2>3. owner \in [Mutex -> Everyone \cup {NoThread}]
    OBVIOUS
  <2> QED BY <2>1, <2>2, <2>3 DEF Owners
<1>4. Timers(sleep, tcEventQ)
  <2>1. tcEventQ = << >>
    BY DEF TimerInit
  <2>2. Entries(<< >>) /\ Calls(<< >>) = {}
    BY MembersEmpty, SMTT(30) DEF Entries, Calls
  <2> QED BY <2>1, <2>2 DEF Timers
<1>5. Kills(pc, threads4kill, kill_request, victim)
  BY MembersEmpty, ThreadAssumption, SMTT(30) DEF Kills
<1>6. Units
  BY SMTT(30) DEF Units, NoLostUnit
<1> QED BY <1>2, <1>3, <1>4, <1>5, <1>6 DEF IInv

(* Every operation, interrupt and turn of the killer keeps the invariant.  *)
LEMMA NextIInv == IInv /\ [Next]_vars => IInv'
<1> SUFFICES ASSUME IInv, [Next]_vars PROVE IInv'
  OBVIOUS
<1>1. ASSUME NEW t \in Thread, Step(t) PROVE IInv'
  <2>1. CASE hal_mutex_lock(t) \/ hal_mutex_unlock(t) \/ Relock(t) \/ ExitWaits(t)
    BY <2>1, MutexSteps
  <2>2. CASE hal_cond_wait(t) \/ \E d \in Msecs : hal_cond_timedwait(t, d)
    BY <2>2, WaitSteps
  <2>3. CASE \E d \in Msecs : hal_sleep_msec(t, d)
    BY <2>3, SleepStep
  <2>4. CASE \/ hal_sem_acquire(t) \/ AcquireAgain(t)
             \/ \E u \in Usecs \cup {Forever}, zero \in BOOLEAN :
                  hal_sem_acquire_etc(t, u, zero)
    BY <2>4, AcquireSteps
  <2>5. CASE hal_sem_zero(t)
    BY <2>5, ReleaseSteps
  <2>6. CASE Exit(t) \/ ExitGoesOn(t)
    BY <2>6, ExitSteps
  <2>7. CASE phantom_create_thread(t)
    BY <2>7, CreateInv
  <2> QED BY <1>1, <2>1, <2>2, <2>3, <2>4, <2>5, <2>6, <2>7 DEF Step
<1>2. CASE hal_cond_signal \/ hal_cond_broadcast
  BY <1>2, SignalSteps
<1>3. CASE hal_sem_release
  BY <1>3, ReleaseSteps
<1>4. CASE Kill
  BY <1>4, KillerRounds, KillerTakesInv, KillerKillsInv DEF Kill
<1>5. CASE Tick \/ SetPeriodic
  BY <1>5, TimerSteps, TimeoutSteps DEF Tick, SetPeriodic
<1>6. CASE UNCHANGED vars
  BY <1>6 DEF IInv, Units, NoLostUnit, Notified, vars, waits, killing, timer
<1> QED BY <1>1, <1>2, <1>3, <1>4, <1>5, <1>6 DEF Next

(* The invariant holds in every reachable state.                           *)
THEOREM Invariance == Spec => []IInv
BY InitIInv, NextIInv, PTL DEF Spec

(* The queues and the sleep flags agree: no asserts of thread_unblock or   *)
(* t_queue_check fail.                                                     *)
THEOREM Queues == Spec => []QueuedAsleep
<1>1. IInv => QueuedAsleep
  <2> SUFFICES ASSUME IInv PROVE QueuedAsleep
    OBVIOUS
  <2>1. \A o \in Object :
          /\ Distinct(wq[o])
          /\ \A t \in Members(wq[o]) : sleep[t] = Flag(o)
    BY DEF IInv, Waiting
  <2>2. \A o \in Object : \A p \in Object \ {o} : Members(wq[o]) \cap Members(wq[p]) = {}
    BY OneQueue DEF IInv
  <2>3. \A t \in Thread \cup {Killer} :
          sleep[t] \in {"mutex", "cond", "sem"} => \E o \in Object : t \in Members(wq[o])
    BY DEF IInv, Waiting, Everyone
  <2> QED BY <2>1, <2>2, <2>3 DEF QueuedAsleep
<1> QED BY <1>1, Invariance, PTL

(* No timed call outlives the sleep it was set for.                        *)
THEOREM SleepEvents == Spec => []TimerMatchesSleep
<1>1. IInv => TimerMatchesSleep
  <2> SUFFICES ASSUME IInv, NEW i \in 1 .. Len(tcEventQ), tcEventQ[i].call \in Thread
               PROVE  sleep[tcEventQ[i].call] = tcEventQ[i].f
    BY DEF TimerMatchesSleep
  <2>1. <<tcEventQ[i].call, tcEventQ[i].f>> \in Calls(tcEventQ)
    BY DEF Calls
  <2> QED BY <2>1 DEF IInv, Timers
<1> QED BY <1>1, Invariance, PTL

(* hal_mutex_unlock hands the mutex over, and hal_mutex_lock returns to    *)
(* the owner only.                                                         *)
THEOREM HandOver == Spec => []MutexHandedOver
<1>1. IInv => MutexHandedOver
  <2> SUFFICES ASSUME IInv PROVE MutexHandedOver
    OBVIOUS
  <2>1. ASSUME NEW m \in Mutex, NEW t \in Everyone, sleep[t] # "mutex", pc[t] \in At(m)
        PROVE  owner[m] = t
    <3>1. Flag(m) = "mutex" /\ m \in Object
      BY DEF Flag, Object
    <3>2. t \notin Members(wq[m])
      BY <2>1, <3>1 DEF IInv, Waiting
    <3> QED BY <2>1, <3>2 DEF IInv, Owners
  <2>2. \A m \in Mutex : owner[m] = NoThread => wq[m] = << >>
    BY DEF IInv, Owners
  <2>3. \A t \in Thread :
          /\ pc[t] = "locked" /\ sleep[t] # "mutex" => owner["mutex"] = t
          /\ pc[t] = "dying" /\ sleep[t] # "mutex" => owner["kill_mutex"] = t
    BY <2>1, MutexFacts, ThreadFacts
  <2>4. pc[Killer] \in {"k_wait", "k_loop"} /\ sleep[Killer] = "none"
          => owner["kill_mutex"] = Killer
    BY <2>1, MutexFacts, KillerFacts
  <2> QED BY <2>2, <2>3, <2>4 DEF MutexHandedOver
<1> QED BY <1>1, Invariance, PTL

(* hal_sem_release wakes a waiter for every unit.                          *)
THEOREM UnitsNotLost == Spec => []NoLostUnit
BY Invariance, PTL DEF IInv, Units

(* The killer finds only zombies, as many as it was asked to kill.         *)
THEOREM Zombies == Spec => []KillsZombies
<1>1. IInv => KillsZombies
  <2> SUFFICES ASSUME IInv PROVE KillsZombies
    OBVIOUS
  <2>1. /\ kill_request = Len(threads4kill) /\ Distinct(threads4kill)
        /\ pc[Killer] = "k_kill" => victim \in Thread \ Members(threads4kill)
    BY DEF IInv, Kills
  <2>2. ASSUME NEW t \in Thread, t = victim \/ t \in Members(threads4kill)
        PROVE  /\ sleep[t] = "zombie" /\ pc[t] = "dead"
               /\ owner["kill_mutex"] # t
    <3>1. pc[t] = "dead"
      BY <2>2 DEF IInv, Kills
    <3>2. sleep[t] = "zombie"
      BY <3>1, ThreadFacts DEF IInv, Waiting
    <3>3. owner["kill_mutex"] # t
      BY <3>1, ThreadFacts, KillFacts, MutexFacts DEF IInv, Owners
    <3> QED BY <3>1, <3>2, <3>3
  <2> QED BY <2>1, <2>2 DEF KillsZombies
<1> QED BY <1>1, Invariance, PTL
=============================================================================
