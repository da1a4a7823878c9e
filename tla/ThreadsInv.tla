----------------------------- MODULE ThreadsInv -----------------------------
(***************************************************************************)
(* What the operators of Threads and TimedCall do to their queues, whatever*)
(* the times are, and the inductive invariant of Threads: it ties every    *)
(* place of a thread, its sleep flag, its queue, the owners of the mutexes *)
(* and the timed calls together.  The last lemmas say what joining and     *)
(* leaving a queue, locking, unlocking and waiting do to it.               *)
(***************************************************************************)
EXTENDS Threads, FiniteSetTheorems, TLAPS

(* The time limits of the provers. *)
USE ZenonT(10), SMTT(30)

-----------------------------------------------------------------------------
(* The least element of a set of naturals.                                 *)
LEMMA LeastNatural ==
  ASSUME NEW T, T \subseteq Nat, T # {}
  PROVE  \E x \in T : \A y \in T : x <= y
<1>1. PICK x \in T : \A y \in T : <<y, x>> \notin OpToRel(<, Nat)
  BY WFMin, NatLessThanWellFounded
<1>2. \A y \in T : ~ (y < x)
  BY <1>1 DEF OpToRel
<1> QED
  BY <1>2, SMTT(30)

(* Place finds a place in the queue.                                       *)
LEMMA PlaceInQueue ==
  ASSUME NEW S, NEW q \in Seq(S), NEW d
  PROVE  Place(q, d) \in 1 .. Len(q) + 1
<1> DEFINE later == {i \in 1 .. Len(q) : Due(q, i - 1) <= d /\ d < Due(q, i)}
<1>1. CASE later = {}
  BY <1>1 DEF Place
<1>2. CASE later # {}
  <2>1. \E i \in later : \A j \in later : i <= j
    <3>1. later \subseteq Nat
      OBVIOUS
    <3> HIDE DEF later
    <3> QED
      BY <3>1, <1>2, LeastNatural
  <2>2. (CHOOSE i \in later : \A j \in later : i <= j) \in later
    <3> HIDE DEF later
    <3> QED
      BY <2>1
  <2>3. Place(q, d) = CHOOSE i \in later : \A j \in later : i <= j
    BY <1>2 DEF Place
  <2>4. later \subseteq 1 .. Len(q) + 1
    <3>1. Len(q) \in Nat
      OBVIOUS
    <3> QED BY <3>1
  <2> HIDE DEF later
  <2> QED
    BY <2>2, <2>3, <2>4
<1> QED
  BY <1>1, <1>2

-----------------------------------------------------------------------------
(* A sequence is one over its own members.                                 *)
LEMMA OwnMembers ==
  ASSUME NEW S, NEW q \in Seq(S)
  PROVE  q \in Seq(Members(q)) /\ Members(q) \subseteq S
BY DEF Members

(* The empty queue.                                                        *)
LEMMA MembersEmpty == Members(<< >>) = {} /\ Distinct(<< >>)
BY DEF Members, Distinct

(* A queue that is not empty has a member.                                 *)
LEMMA NonEmptyMembers ==
  ASSUME NEW S, NEW q \in Seq(S), q # << >>
  PROVE  Members(q) # {}
<1>1. 1 \in 1 .. Len(q)
  OBVIOUS
<1> QED
  BY <1>1 DEF Members

(* queue_enter adds a thread.                                              *)
LEMMA MembersAppend ==
  ASSUME NEW S, NEW q \in Seq(S), NEW t \in S
  PROVE  /\ Append(q, t) \in Seq(S)
         /\ Members(Append(q, t)) = Members(q) \cup {t}
         /\ Distinct(q) /\ t \notin Members(q) => Distinct(Append(q, t))
         /\ Append(q, t) # << >>
<1>1. /\ Append(q, t) \in Seq(S)
      /\ Len(Append(q, t)) = Len(q) + 1
      /\ \A i \in 1 .. Len(q) : Append(q, t)[i] = q[i]
      /\ Append(q, t)[Len(q) + 1] = t
  OBVIOUS
<1>2. Members(Append(q, t)) = Members(q) \cup {t}
  <2> HIDE DEF Members
  <2>1. ASSUME NEW x \in Members(Append(q, t)) PROVE x \in Members(q) \cup {t}
    BY <1>1, <2>1, SMTT(30) DEF Members
  <2>2. ASSUME NEW x \in Members(q) \cup {t} PROVE x \in Members(Append(q, t))
    <3>1. CASE x = t
      BY <1>1, <3>1, Len(q) + 1 \in 1 .. Len(Append(q, t)) DEF Members
    <3>2. CASE x \in Members(q)
      BY <1>1, <3>2, SMTT(30) DEF Members
    <3> QED BY <2>2, <3>1, <3>2
  <2> QED BY <2>1, <2>2
<1>3. ASSUME Distinct(q), t \notin Members(q) PROVE Distinct(Append(q, t))
  BY <1>1, <1>3, SMTT(30) DEF Distinct, Members
<1>4. Append(q, t) # << >>
  BY <1>1
<1> QED BY <1>1, <1>2, <1>3, <1>4

(* Two queues put together. *)
LEMMA Joined ==
  ASSUME NEW S, NEW a \in Seq(S), NEW b \in Seq(S)
  PROVE  a \o b \in Seq(S) /\ Len(a \o b) = Len(a) + Len(b)
OBVIOUS

(* The i-th element taken out of a sequence.                               *)
LEMMA RemovedAt ==
  ASSUME NEW S, NEW q \in Seq(S), Distinct(q), NEW i \in 1 .. Len(q)
  PROVE  LET r == SubSeq(q, 1, i - 1) \o SubSeq(q, i + 1, Len(q))
         IN  /\ r \in Seq(S)
             /\ Members(r) = Members(q) \ {q[i]}
             /\ Distinct(r)
<1> DEFINE a == SubSeq(q, 1, i - 1)
           b == SubSeq(q, i + 1, Len(q))
           r == a \o b
<1>1. /\ r \in Seq(S)
      /\ Len(r) = Len(q) - 1
      /\ \A j \in 1 .. Len(r) : r[j] = q[IF j < i THEN j ELSE j + 1]
  <2>1. /\ a \in Seq(S)
        /\ Len(a) = i - 1
        /\ \A j \in 1 .. i - 1 : a[j] = q[j]
    OBVIOUS
  <2>2. /\ b \in Seq(S)
        /\ Len(b) = Len(q) - i
        /\ \A j \in 1 .. Len(q) - i : b[j] = q[i + j]
    OBVIOUS
  <2> HIDE DEF a, b
  <2>3. r \in Seq(S) /\ Len(r) = Len(q) - 1
    <3>1. r \in Seq(S) /\ Len(r) = Len(a) + Len(b)
      BY <2>1, <2>2, Joined
    <3>2. Len(q) \in Nat
      OBVIOUS
    <3> HIDE DEF r
    <3> QED BY <2>1, <2>2, <3>1, <3>2, SMTT(30)
  <2>4. ASSUME NEW j \in 1 .. Len(r) PROVE r[j] = q[IF j < i THEN j ELSE j + 1]
    <3>1. CASE j < i
      BY <2>1, <2>2, <2>3, <3>1, SMTT(30)
    <3>2. CASE j >= i
      <4>1. j - (i - 1) \in 1 .. Len(q) - i /\ i + (j - (i - 1)) = j + 1
        BY <2>3, <3>2
      <4>2. r[j] = b[j - (i - 1)]
        BY <2>1, <2>2, <2>3, <3>2, SMTT(30)
      <4> QED BY <2>2, <3>2, <4>1, <4>2, SMTT(30)
    <3> QED BY <2>3, <3>1, <3>2
  <2> QED BY <2>3, <2>4
<1> HIDE DEF r
<1>2. Distinct(r)
  <2> DEFINE f(j) == IF j < i THEN j ELSE j + 1
  <2>1. ASSUME NEW j \in 1 .. Len(r), NEW k \in 1 .. Len(r), r[j] = r[k]
        PROVE  j = k
    <3>1. /\ f(j) \in 1 .. Len(q) /\ f(k) \in 1 .. Len(q)
          /\ f(j) = f(k) => j = k
      BY <1>1, SMTT(30)
    <3>2. q[f(j)] = q[f(k)]
      BY <1>1, <2>1
    <3> HIDE DEF f
    <3>3. f(j) = f(k)
      BY <3>1, <3>2 DEF Distinct
    <3> QED BY <3>1, <3>3
  <2> QED BY <2>1 DEF Distinct
<1>3. ASSUME NEW x \in Members(r) PROVE x \in Members(q) \ {q[i]}
  <2>1. PICK j \in 1 .. Len(r) : x = r[j]
    BY DEF Members
  <2> DEFINE k == IF j < i THEN j ELSE j + 1
  <2>2. k \in 1 .. Len(q) /\ k # i /\ x = q[k]
    BY <1>1, <2>1
  <2> QED
    BY <2>2 DEF Members, Distinct
<1>4. ASSUME NEW x \in Members(q) \ {q[i]} PROVE x \in Members(r)
  <2>1. PICK k \in 1 .. Len(q) : x = q[k]
    BY <1>4 DEF Members
  <2> DEFINE j == IF k < i THEN k ELSE k - 1
  <2>2. k # i
    BY <1>4, <2>1
  <2>3. j \in 1 .. Len(r) /\ (IF j < i THEN j ELSE j + 1) = k
    BY <1>1, <2>2
  <2>4. r[j] = q[k]
    BY <1>1, <2>3
  <2> QED
    BY <2>1, <2>3, <2>4 DEF Members
<1> QED
  BY <1>1, <1>2, <1>3, <1>4 DEF r

(* queue_remove takes a thread out of a queue without duplicates.          *)
LEMMA MembersWithout ==
  ASSUME NEW S, NEW q \in Seq(S), Distinct(q), NEW t
  PROVE  /\ Without(q, t) \in Seq(S)
         /\ Members(Without(q, t)) = Members(q) \ {t}
         /\ Distinct(Without(q, t))
<1>1. CASE t \in Members(q)
  <2> DEFINE i == CHOOSE i \in 1 .. Len(q) : q[i] = t
  <2>1. i \in 1 .. Len(q) /\ q[i] = t
    BY <1>1 DEF Members
  <2>2. Without(q, t) = SubSeq(q, 1, i - 1) \o SubSeq(q, i + 1, Len(q))
    BY <1>1 DEF Without
  <2> HIDE DEF i
  <2> QED
    BY <2>1, <2>2, RemovedAt, ZenonT(30)
<1>2. CASE t \notin Members(q)
  BY <1>2 DEF Without
<1> QED
  BY <1>1, <1>2

(* queue_remove_first takes the head out.                                  *)
LEMMA MembersTail ==
  ASSUME NEW S, NEW q \in Seq(S), Distinct(q), q # << >>
  PROVE  /\ Head(q) \in Members(q)
         /\ Tail(q) \in Seq(S)
         /\ Members(Tail(q)) = Members(q) \ {Head(q)}
         /\ Distinct(Tail(q))
         /\ Len(Tail(q)) = Len(q) - 1
<1>1. /\ Tail(q) \in Seq(S)
      /\ Len(Tail(q)) = Len(q) - 1
      /\ \A j \in 1 .. Len(Tail(q)) : Tail(q)[j] = q[j + 1]
      /\ Head(q) = q[1]
      /\ 1 \in 1 .. Len(q)
  OBVIOUS
<1>2. Distinct(Tail(q))
  BY <1>1, SMTT(30) DEF Distinct
<1>3. Head(q) \in Members(q)
  BY <1>1 DEF Members
<1>4. ASSUME NEW x \in Members(Tail(q)) PROVE x \in Members(q) \ {Head(q)}
  BY <1>1, <1>4, SMTT(30) DEF Members, Distinct
<1>5. ASSUME NEW x \in Members(q) \ {Head(q)} PROVE x \in Members(Tail(q))
  <2>1. PICK k \in 1 .. Len(q) : x = q[k]
    BY <1>5 DEF Members
  <2>2. k - 1 \in 1 .. Len(Tail(q)) /\ Tail(q)[k - 1] = x
    BY <1>1, <1>5, <2>1, SMTT(30)
  <2> QED
    BY <2>2 DEF Members
<1> QED
  BY <1>1, <1>2, <1>3, <1>4, <1>5

(* t_dequeue_highest_prio finds a thread in a queue that is not empty.     *)
LEMMA FirstIsMember ==
  ASSUME NEW q \in Seq(Thread \cup {Killer}), q # << >>
  PROVE  First(q) \in Members(q)
<1> DEFINE urge(i) == 31 - Prio[q[i]]
           U == {urge(i) : i \in 1 .. Len(q)}
<1>1. \A i \in 1 .. Len(q) : Prio[q[i]] \in 1 .. 31
  BY PrioAssumption, SMTT(30)
<1>2. U \subseteq Nat
  <2>1. ASSUME NEW i \in 1 .. Len(q) PROVE urge(i) \in Nat
    <3> DEFINE a == Prio[q[i]]
    <3>1. a \in 1 .. 31
      BY <1>1
    <3> HIDE DEF a
    <3>2. 31 - a \in Nat
      BY <3>1
    <3> QED BY <3>2 DEF a
  <2> QED BY <2>1
<1>3. U # {}
  <2>1. 1 \in 1 .. Len(q)
    OBVIOUS
  <2> QED BY <2>1
<1>4. PICK u \in U : \A v \in U : u <= v
  <2> HIDE DEF U
  <2> QED BY <1>2, <1>3, LeastNatural
<1> DEFINE I == {i \in 1 .. Len(q) : urge(i) = u}
<1>5. PICK i \in I : \A j \in I : i <= j
  <2>1. I \subseteq Nat /\ I # {}
    BY <1>4, SMTT(30)
  <2> HIDE DEF I
  <2> QED BY <2>1, LeastNatural
<1>6. \A j \in 1 .. Len(q) : \/ Prio[q[j]] < Prio[q[i]]
                             \/ Prio[q[j]] = Prio[q[i]] /\ i <= j
  <2> TAKE j \in 1 .. Len(q)
  <2>1. urge(j) \in U /\ urge(i) = u
    BY <1>5
  <2>2. urge(i) <= urge(j)
    BY <1>4, <2>1
  <2>3. urge(i) = urge(j) => i <= j
    BY <1>5, <2>1
  <2>4. Prio[q[i]] \in 1 .. 31 /\ Prio[q[j]] \in 1 .. 31
    BY <1>1, <1>5
  <2> DEFINE a == Prio[q[i]]
             b == Prio[q[j]]
  <2>5. a \in 1 .. 31 /\ b \in 1 .. 31 /\ 31 - a <= 31 - b /\ (31 - a = 31 - b => i <= j)
    BY <2>2, <2>3, <2>4
  <2>6. i \in Nat /\ j \in Nat
    BY <1>5, SMTT(30)
  <2> HIDE DEF a, b
  <2>7. b < a \/ (b = a /\ i <= j)
    BY <2>5, <2>6
  <2> QED BY <2>7 DEF a, b
<1>7. q[i] \in Members(q) /\ i \in 1 .. Len(q)
  BY <1>5 DEF Members
<1> QED
  BY <1>6, <1>7 DEF First

-----------------------------------------------------------------------------
(* The timed call queue as the proofs see it: a sequence of entries, of    *)
(* which they know the call and its function but not the time.             *)
Entries(q) ==
  /\ q \in Seq(Members(q))
  /\ \A i \in 1 .. Len(q) : q[i] = Entry(q[i].call, q[i].f, q[i].more)
  /\ \A i, j \in 1 .. Len(q) : q[i].call = q[j].call => i = j

Calls(q) == {<<q[i].call, q[i].f>> : i \in 1 .. Len(q)}

(* A function on 1 .. n is a sequence.                                     *)
LEMMA OwnSeq ==
  ASSUME NEW n \in Nat, NEW g, g = [j \in 1 .. n |-> g[j]]
  PROVE  g \in Seq(Members(g)) /\ Len(g) = n
<1> DEFINE S == {g[j] : j \in 1 .. n}
<1>1. g \in [1 .. n -> S]
  OBVIOUS
<1>2. g \in Seq(S)
  <2> HIDE DEF S
  <2> QED BY <1>1
<1>3. Len(g) = n
  <2> HIDE DEF S
  <2> QED BY <1>1, <1>2
<1> QED
  BY <1>2, <1>3, OwnMembers

(* The fields of an entry, and an update of its time.                      *)
LEMMA EntryFields ==
  ASSUME NEW c, NEW f, NEW m, NEW n
  PROVE  /\ Entry(c, f, m).call = c /\ Entry(c, f, m).f = f /\ Entry(c, f, m).more = m
         /\ [Entry(c, f, m) EXCEPT !.more = n] = Entry(c, f, n)
BY DEF Entry

(* g is a queue of n entries that are, but for their times, those of q at  *)
(* the places k[1], ..., k[n].                                             *)
Retimed(q, n, g, k) ==
  /\ Entries(q)
  /\ n \in Nat
  /\ g = [j \in 1 .. n |-> g[j]]
  /\ k \in [1 .. n -> 1 .. Len(q)]
  /\ \A j, l \in 1 .. n : k[j] = k[l] => j = l
  /\ \A j \in 1 .. n : \E m : g[j] = Entry(q[k[j]].call, q[k[j]].f, m)

(* Such a queue has the calls of q at these places.                        *)
LEMMA SameCalls ==
  ASSUME NEW q, NEW n, NEW g, NEW k, Retimed(q, n, g, k)
  PROVE  /\ Entries(g)
         /\ Len(g) = n
         /\ \A j \in 1 .. n : g[j].call = q[k[j]].call /\ g[j].f = q[k[j]].f
<1> USE DEF Retimed
<1>1. \A j \in 1 .. n : g[j].call = q[k[j]].call /\ g[j].f = q[k[j]].f
  BY EntryFields, SMTT(30)
<1>2. g \in Seq(Members(g)) /\ Len(g) = n
  BY OwnSeq
<1>3. \A j \in 1 .. n : g[j] = Entry(g[j].call, g[j].f, g[j].more)
  BY EntryFields, SMTT(30)
<1>4. \A i, j \in 1 .. n : g[i].call = g[j].call => i = j
  BY <1>1, SMTT(30) DEF Entries
<1> QED
  BY <1>1, <1>2, <1>3, <1>4 DEF Entries

(* phantom_request_timed_call adds the call.                               *)
LEMMA RequestedCalls ==
  ASSUME NEW q, Entries(q), NEW c, c \notin Queued(q), NEW f, NEW d
  PROVE  /\ Entries(Requested(q, c, f, d))
         /\ Calls(Requested(q, c, f, d)) = Calls(q) \cup {<<c, f>>}
<1> DEFINE i == Place(q, d)
           more == d - Due(q, i - 1)
           r == Requested(q, c, f, d)
           n == Len(q)
           k(j) == IF j < i THEN j ELSE j - 1
<1>1. i \in 1 .. n + 1
  BY PlaceInQueue DEF Entries
<1>2. n \in Nat
  BY SMTT(30) DEF Entries
<1>3. r = [j \in 1 .. n + 1 |->
             IF j < i THEN q[j]
             ELSE IF j = i THEN Entry(c, f, more)
             ELSE IF j = i + 1 THEN [q[i] EXCEPT !.more = @ - more]
             ELSE q[j - 1]]
  BY DEF Requested
<1> HIDE DEF r, more, i, n
<1>4. r \in Seq(Members(r)) /\ Len(r) = n + 1
  BY <1>2, <1>3, OwnSeq
<1>5. r[i] = Entry(c, f, more)
  BY <1>1, <1>2, <1>3
<1>6. ASSUME NEW j \in 1 .. n + 1, j # i
      PROVE  /\ k(j) \in 1 .. n
             /\ \E m : r[j] = Entry(q[k(j)].call, q[k(j)].f, m)
  <2>1. k(j) \in 1 .. n
    BY <1>1, <1>2, <1>6
  <2>2. q[k(j)] = Entry(q[k(j)].call, q[k(j)].f, q[k(j)].more)
    BY <2>1 DEF Entries, n
  <2>3. CASE j # i + 1
    <3>1. r[j] = q[k(j)]
      BY <1>1, <1>2, <1>3, <1>6, <2>3
    <3> QED BY <2>1, <2>2, <3>1
  <2>4. CASE j = i + 1
    <3>1. r[j] = [q[k(j)] EXCEPT !.more = q[k(j)].more - more] /\ k(j) = i
      BY <1>1, <1>2, <1>3, <1>6, <2>4
    <3>2. r[j] = Entry(q[k(j)].call, q[k(j)].f, q[k(j)].more - more)
      BY <2>2, <3>1, EntryFields, SMTT(30)
    <3> QED BY <2>1, <3>2
  <2> QED BY <2>3, <2>4
<1>7. ASSUME NEW j \in 1 .. n + 1, j # i
      PROVE  r[j].call = q[k(j)].call /\ r[j].f = q[k(j)].f
  <2>1. PICK m : r[j] = Entry(q[k(j)].call, q[k(j)].f, m)
    BY <1>6, <1>7
  <2> QED BY <2>1, EntryFields, SMTT(30)
<1>8. ASSUME NEW j \in 1 .. n + 1
      PROVE  r[j] = Entry(r[j].call, r[j].f, r[j].more)
  BY <1>5, <1>6, EntryFields, SMTT(30)
<1>9. r[i].call = c /\ r[i].f = f
  BY <1>5, EntryFields, SMTT(30)
<1>10. ASSUME NEW j \in 1 .. n + 1, j # i PROVE r[j].call # c
  <2>1. k(j) \in 1 .. n
    BY <1>6, <1>10
  <2>2. q[k(j)].call \in Queued(q)
    BY <2>1 DEF Queued, n
  <2> QED BY <1>7, <1>10, <2>2
<1>11. ASSUME NEW j \in 1 .. n + 1, NEW l \in 1 .. n + 1, r[j].call = r[l].call
       PROVE  j = l
  <2>1. CASE j = i \/ l = i
    BY <1>9, <1>10, <1>11, <2>1
  <2>2. CASE j # i /\ l # i
    <3>1. k(j) \in 1 .. n /\ k(l) \in 1 .. n /\ q[k(j)].call = q[k(l)].call
      BY <1>6, <1>7, <1>11, <2>2
    <3>2. k(j) = k(l)
      BY <3>1 DEF Entries, n
    <3> QED BY <1>1, <1>2, <2>2, <3>2
  <2> QED BY <2>1, <2>2
<1>12. Entries(r)
  BY <1>4, <1>8, <1>11 DEF Entries
<1>13. ASSUME NEW p \in Calls(r) PROVE p \in Calls(q) \cup {<<c, f>>}
  <2>1. PICK j \in 1 .. n + 1 : p = <<r[j].call, r[j].f>>
    BY <1>4, <1>13 DEF Calls
  <2>2. CASE j = i
    BY <1>9, <2>1, <2>2
  <2>3. CASE j # i
    BY <1>6, <1>7, <2>1, <2>3 DEF Calls, n
  <2> QED BY <2>2, <2>3
<1>14. ASSUME NEW p \in Calls(q) PROVE p \in Calls(r)
  <2>1. PICK l \in 1 .. n : p = <<q[l].call, q[l].f>>
    BY <1>14 DEF Calls, n
  <2> DEFINE j == IF l < i THEN l ELSE l + 1
  <2>2. j \in 1 .. n + 1 /\ j # i /\ k(j) = l
    BY <1>1, <1>2
  <2> QED BY <1>4, <1>7, <2>1, <2>2 DEF Calls
<1>15. <<c, f>> \in Calls(r)
  BY <1>1, <1>4, <1>9 DEF Calls
<1>16. Calls(r) = Calls(q) \cup {<<c, f>>}
  BY <1>13, <1>14, <1>15
<1> QED
  BY <1>12, <1>16 DEF r

(* An entry is taken out of the queue at i; the others keep their calls.   *)
Shortened(q, n, r, k, i) ==
  /\ Retimed(q, n, r, k)
  /\ i \in 1 .. Len(q)
  /\ Len(q) = n + 1
  /\ \A j \in 1 .. n : k[j] = IF j < i THEN j ELSE j + 1

(* Taking an entry out takes its call out.                                 *)
LEMMA TakenOut ==
  ASSUME NEW q, NEW n, NEW r, NEW k, NEW i, Shortened(q, n, r, k, i)
  PROVE  /\ Entries(r)
         /\ Calls(r) = {p \in Calls(q) : p[1] # q[i].call}
<1> USE DEF Shortened
<1>1. n \in Nat /\ Entries(q)
  BY DEF Retimed
<1>2. k \in [1 .. n -> 1 .. Len(q)]
  BY DEF Retimed
<1>3. \A j \in 1 .. n : k[j] = (IF j < i THEN j ELSE j + 1) /\ k[j] # i
  BY <1>1
<1>4. /\ Entries(r)
      /\ Len(r) = n
      /\ \A j \in 1 .. n : r[j].call = q[k[j]].call /\ r[j].f = q[k[j]].f
  BY SameCalls, SMTT(30)
<1>5. ASSUME NEW p \in Calls(r) PROVE p \in Calls(q) /\ p[1] # q[i].call
  <2>1. PICK j \in 1 .. n : p = <<q[k[j]].call, q[k[j]].f>>
    BY <1>4, <1>5 DEF Calls
  <2>2. k[j] \in 1 .. Len(q) /\ k[j] # i
    BY <1>2, <1>3
  <2> QED BY <1>1, <2>1, <2>2 DEF Calls, Entries
<1>6. ASSUME NEW p \in Calls(q), p[1] # q[i].call PROVE p \in Calls(r)
  <2>1. PICK l \in 1 .. Len(q) : p = <<q[l].call, q[l].f>>
    BY <1>6 DEF Calls
  <2> DEFINE j == IF l < i THEN l ELSE l - 1
  <2>2. l # i
    BY <1>6, <2>1
  <2>3. j \in 1 .. n /\ k[j] = l
    BY <1>1, <1>2, <1>3, <2>2
  <2> HIDE DEF j
  <2>4. r[j].call = q[l].call /\ r[j].f = q[l].f
    BY <1>4, <2>3
  <2>5. p = <<r[j].call, r[j].f>>
    BY <2>1, <2>4
  <2> QED BY <1>4, <2>3, <2>5 DEF Calls
<1> QED
  BY <1>4, <1>5, <1>6

(* phantom_undo_timed_call takes the call out.                             *)
LEMMA UndoneCalls ==
  ASSUME NEW q, Entries(q), NEW c
  PROVE  /\ Entries(Undone(q, c))
         /\ Calls(Undone(q, c)) = {p \in Calls(q) : p[1] # c}
<1>1. CASE c \notin Queued(q)
  BY <1>1, SMTT(30) DEF Undone, Calls, Queued
<1>2. CASE c \in Queued(q)
  <2> DEFINE i == CHOOSE i \in 1 .. Len(q) : q[i].call = c
             r == Undone(q, c)
             n == Len(q) - 1
             k == [j \in 1 .. n |-> IF j < i THEN j ELSE j + 1]
  <2>1. i \in 1 .. Len(q) /\ q[i].call = c
    BY <1>2 DEF Queued
  <2>2. r = [j \in 1 .. n |->
               IF j < i THEN q[j]
               ELSE IF j = i THEN [q[i + 1] EXCEPT !.more = @ + q[i].more]
               ELSE q[j + 1]]
    BY <1>2 DEF Undone
  <2> HIDE DEF i, r
  <2>3. n \in Nat /\ Len(q) = n + 1
    BY <2>1, SMTT(30) DEF Entries
  <2> HIDE DEF n
  <2>4. r = [j \in 1 .. n |-> r[j]]
    BY <2>2
  <2>5. ASSUME NEW j \in 1 .. n
        PROVE  \E m : r[j] = Entry(q[k[j]].call, q[k[j]].f, m)
    <3>1. k[j] \in 1 .. Len(q)
      BY <2>1, <2>3
    <3>2. q[k[j]] = Entry(q[k[j]].call, q[k[j]].f, q[k[j]].more)
      <4> HIDE DEF k
      <4> QED BY <3>1 DEF Entries
    <3>3. CASE j # i
      <4>1. r[j] = q[k[j]]
        BY <2>1, <2>2, <2>3, <3>3
      <4> QED BY <3>2, <4>1
    <3>4. CASE j = i
      <4>1. k[j] = i + 1
        BY <2>1, <2>3, <3>4
      <4> HIDE DEF k
      <4>2. r[j] = [q[i + 1] EXCEPT !.more = q[i + 1].more + q[i].more]
        BY <2>2, <3>4
      <4>3. r[j] = [q[k[j]] EXCEPT !.more = q[i + 1].more + q[i].more]
        BY <4>1, <4>2
      <4>4. r[j] = Entry(q[k[j]].call, q[k[j]].f, q[i + 1].more + q[i].more)
        BY <3>2, <4>3, EntryFields, SMTT(30)
      <4> QED BY <4>4
    <3> QED BY <3>3, <3>4
  <2>6. \A j \in 1 .. n : k[j] = IF j < i THEN j ELSE j + 1
    OBVIOUS
  <2>7. /\ k \in [1 .. n -> 1 .. Len(q)]
        /\ \A j, l \in 1 .. n : k[j] = k[l] => j = l
    BY <2>1, <2>3
  <2> HIDE DEF k
  <2>8. Retimed(q, n, r, k)
    BY <2>3, <2>4, <2>5, <2>7 DEF Retimed
  <2>9. Shortened(q, n, r, k, i)
    BY <2>1, <2>3, <2>6, <2>8 DEF Shortened
  <2>10. Entries(r) /\ Calls(r) = {p \in Calls(q) : p[1] # q[i].call}
    BY <2>9, TakenOut, SMTT(30)
  <2> QED BY <2>1, <2>10 DEF r
<1> QED BY <1>1, <1>2

(* The head of the queue is taken out.                                     *)
LEMMA DetachedCalls ==
  ASSUME NEW q, Entries(q), q # << >>
  PROVE  /\ Entries(Detached(q))
         /\ Calls(Detached(q)) = {p \in Calls(q) : p[1] # q[1].call}
<1> DEFINE r == Detached(q)
           n == Len(q) - 1
           k == [j \in 1 .. n |-> IF j < 1 THEN j ELSE j + 1]
<1>1. n \in Nat /\ Len(q) = n + 1 /\ 1 \in 1 .. Len(q)
  BY SMTT(30) DEF Entries
<1>2. Tail(q) = [j \in 1 .. n |-> q[j + 1]]
  <2> DEFINE S == Members(q)
  <2>1. q \in Seq(S)
    BY DEF Entries
  <2> HIDE DEF S
  <2>2. /\ Tail(q) \in Seq(S) /\ Len(Tail(q)) = n
        /\ \A j \in 1 .. Len(Tail(q)) : Tail(q)[j] = q[j + 1]
    BY <2>1
  <2> DEFINE x == Tail(q)
  <2> HIDE DEF x, n
  <2>3. x \in Seq(S) /\ Len(x) = n
    BY <2>2 DEF x
  <2>4. x = [j \in 1 .. n |-> x[j]]
    BY <2>3
  <2>5. \A j \in 1 .. n : x[j] = q[j + 1]
    BY <2>2 DEF x
  <2>6. x = [j \in 1 .. n |-> q[j + 1]]
    BY <2>4, <2>5
  <2> QED BY <2>6 DEF x
<1>3. \A j \in 1 .. n : k[j] = j + 1 /\ k[j] \in 1 .. Len(q)
  BY <1>1
<1>4. \A j \in 1 .. n : k[j] = IF j < 1 THEN j ELSE j + 1
  OBVIOUS
<1>5. /\ k \in [1 .. n -> 1 .. Len(q)]
      /\ \A j, l \in 1 .. n : k[j] = k[l] => j = l
  BY <1>1
<1> HIDE DEF k
<1>6. \A j \in 1 .. n : q[k[j]] = Entry(q[k[j]].call, q[k[j]].f, q[k[j]].more)
  BY <1>3 DEF Entries
<1>7. /\ r = [j \in 1 .. n |-> r[j]]
      /\ \A j \in 1 .. n : \E m : r[j] = Entry(q[k[j]].call, q[k[j]].f, m)
  <2>1. CASE Len(q) = 1 \/ q[1].more >= 0
    <3>1. r = [j \in 1 .. n |-> q[j + 1]]
      BY <1>2, <2>1 DEF Detached
    <3> HIDE DEF r, n
    <3> QED BY <1>3, <1>6, <3>1
  <2>2. CASE ~ (Len(q) = 1 \/ q[1].more >= 0)
    <3> DEFINE x == Tail(q)
               y == x[1].more + q[1].more
    <3>1. r = [x EXCEPT ![1].more = y]
      BY <2>2 DEF Detached
    <3>2. \A j \in 1 .. n : x[j] = q[k[j]]
      BY <1>2, <1>3
    <3>3. x = [j \in 1 .. n |-> x[j]]
      BY <1>2
    <3> HIDE DEF r, n, x, y
    <3>4. /\ r = [j \in 1 .. n |-> r[j]]
          /\ \A j \in 1 .. n : r[j] = IF j = 1 THEN [x[j] EXCEPT !.more = y] ELSE x[j]
      BY <3>1, <3>3
    <3>5. ASSUME NEW j \in 1 .. n
          PROVE  \E m : r[j] = Entry(q[k[j]].call, q[k[j]].f, m)
      <4>1. CASE j = 1
        <5>1. r[j] = [q[k[j]] EXCEPT !.more = y]
          BY <3>2, <3>4, <4>1
        <5>2. q[k[j]] = Entry(q[k[j]].call, q[k[j]].f, q[k[j]].more)
          BY <1>6
        <5>3. r[j] = Entry(q[k[j]].call, q[k[j]].f, y)
          BY <5>1, <5>2, EntryFields, SMTT(30)
        <5> QED BY <5>3
      <4>2. CASE j # 1
        <5>1. r[j] = q[k[j]]
          BY <3>2, <3>4, <4>2
        <5> QED BY <1>6, <5>1
      <4> QED BY <4>1, <4>2
    <3> QED BY <3>4, <3>5
  <2> QED BY <2>1, <2>2
<1> HIDE DEF r, n
<1>8. Retimed(q, n, r, k)
  BY <1>1, <1>7, <1>5 DEF Retimed
<1>9. Entries(r) /\ Calls(r) = {p \in Calls(q) : p[1] # q[1].call}
  <2>1. Shortened(q, n, r, k, 1)
    BY <1>1, <1>4, <1>8 DEF Shortened
  <2> QED BY <2>1, TakenOut, SMTT(30)
<1> QED BY <1>9 DEF r

(* Counting the head down leaves the calls as they are.                    *)
LEMMA CountedDown ==
  ASSUME NEW q, Entries(q), q # << >>
  PROVE  /\ Entries([q EXCEPT ![1].more = @ - 1])
         /\ Calls([q EXCEPT ![1].more = @ - 1]) = Calls(q)
<1> DEFINE n == Len(q)
           y == q[1].more - 1
           r == [q EXCEPT ![1].more = y]
           k == [j \in 1 .. n |-> j]
<1>1. n \in Nat /\ q = [j \in 1 .. n |-> q[j]]
  BY SMTT(30) DEF Entries
<1>2. /\ k \in [1 .. n -> 1 .. n]
      /\ \A j \in 1 .. n : k[j] = j
  OBVIOUS
<1> HIDE DEF k, y
<1>3. /\ r = [j \in 1 .. n |-> r[j]]
      /\ \A j \in 1 .. n : r[j] = IF j = 1 THEN [q[j] EXCEPT !.more = y] ELSE q[j]
  BY <1>1
<1> HIDE DEF r
<1>4. ASSUME NEW j \in 1 .. n
      PROVE  \E m : r[j] = Entry(q[k[j]].call, q[k[j]].f, m)
  <2>1. q[j] = Entry(q[j].call, q[j].f, q[j].more)
    BY DEF Entries
  <2>2. r[j] = Entry(q[j].call, q[j].f, IF j = 1 THEN y ELSE q[j].more)
    <3>1. CASE j = 1
      <4>1. r[j] = [q[j] EXCEPT !.more = y]
        BY <1>3, <3>1
      <4> QED BY <2>1, <3>1, <4>1, EntryFields, SMTT(30)
    <3>2. CASE j # 1
      BY <1>3, <2>1, <3>2
    <3> QED BY <3>1, <3>2
  <2> QED BY <1>2, <2>2
<1>5. \A j, l \in 1 .. n : k[j] = k[l] => j = l
  BY <1>2
<1>6. /\ Entries(r)
      /\ Len(r) = n
      /\ \A j \in 1 .. n : r[j].call = q[k[j]].call /\ r[j].f = q[k[j]].f
  <2>1. Retimed(q, n, r, k)
    BY <1>1, <1>2, <1>3, <1>4, <1>5 DEF Retimed
  <2> HIDE DEF n
  <2> QED BY <2>1, SameCalls, SMTT(30)
<1>7. Calls(r) = Calls(q)
  <2>1. \A j \in 1 .. n : <<r[j].call, r[j].f>> = <<q[j].call, q[j].f>>
    BY <1>2, <1>6
  <2> QED BY <1>6, <2>1, SMTT(30) DEF Calls
<1>8. r = [q EXCEPT ![1].more = @ - 1]
  BY DEF r, y
<1> QED BY <1>6, <1>7, <1>8

-----------------------------------------------------------------------------
(* The invariant.                                                          *)
Everyone == Thread \cup {Killer}
Flags == {"none", "mutex", "cond", "sem", "sleep", "zombie"}
ThreadSteps == {"run", "locked", "relock", "acquire", "dying", "dead", "free"}
KillerSteps == {"k_lock", "k_wait", "k_relock", "k_loop", "k_kill"}

(* What the threads that wait for an object do once they have it; a thread *)
(* that is about to do so and does not wait for it owns the mutex.         *)
At(o) ==
  IF o = "mutex" THEN {"locked"}
  ELSE IF o = "kill_mutex" THEN {"dying", "k_wait", "k_loop"}
  ELSE IF o = "cond" THEN {"relock"}
  ELSE IF o = "kill_request" THEN {"k_relock"}
  ELSE {"acquire"}

(* The queues w agree with the sleep flags s and the places p: no thread   *)
(* sleeps without being on a queue, on two queues, or on the wrong one.    *)
Waiting(s, p, w) ==
  /\ s \in [Everyone -> Flags]
  /\ p \in [Everyone -> ThreadSteps \cup KillerSteps]
  /\ w \in [Object -> Seq(Everyone)]
  /\ \A o \in Object :
       /\ Distinct(w[o])
       /\ \A t \in Members(w[o]) : s[t] = Flag(o) /\ p[t] \in At(o)
  /\ \A t \in Everyone :
       /\ s[t] \in {"mutex", "cond", "sem"} => \E o \in Object : t \in Members(w[o])
       /\ s[t] = "zombie" <=> p[t] \in {"dead", "free"}
       /\ s[t] = "sleep" => p[t] \in {"run", "locked"}
       /\ t = Killer <=> p[t] \in KillerSteps

(* A mutex is owned by the one thread that is past its lock and not among  *)
(* its waiters.                                                            *)
Owners(own, p, w) ==
  /\ own \in [Mutex -> Everyone \cup {NoThread}]
  /\ \A m \in Mutex :
       /\ \A t \in Everyone : own[m] = t <=> p[t] \in At(m) /\ t \notin Members(w[m])
       /\ own[m] = NoThread => w[m] = << >>

(* The timed call of a thread is for the sleep it is in.                   *)
Timers(s, q) ==
  /\ Entries(q)
  /\ \A c \in Calls(q) :
       c[1] \in Thread => s[c[1]] = c[2] /\ c[2] \in {"cond", "sem", "sleep"}

(* The threads to kill are dead, and the killer holds one of them.         *)
Kills(p, list, n, v) ==
  /\ list \in Seq(Thread)
  /\ Distinct(list)
  /\ n = Len(list)
  /\ IF p[Killer] = "k_kill" THEN v \in Thread \ Members(list) ELSE v = NoThread
  /\ \A t \in Thread : t = v \/ t \in Members(list) => p[t] = "dead"

(* A timed out thread has not run since, and no unit is lost.              *)
Units ==
  /\ value \in Nat
  /\ timedout \subseteq Thread
  /\ \A t \in timedout : sleep[t] = "none" /\ pc[t] \in {"relock", "acquire"}
  /\ NoLostUnit

IInv ==
  /\ Waiting(sleep, pc, wq)
  /\ Owners(owner, pc, wq)
  /\ Timers(sleep, tcEventQ)
  /\ Kills(pc, threads4kill, kill_request, victim)
  /\ Units

-----------------------------------------------------------------------------
(* The places of the waiters of two objects differ.                        *)
LEMMA ObjectFacts ==
  /\ Object = {"mutex", "kill_mutex", "cond", "kill_request", "sem"}
  /\ \A o, q \in Object : o # q => At(o) \cap At(q) = {}
  /\ \A o \in Object :
       /\ Flag(o) \in {"mutex", "cond", "sem"}
       /\ At(o) \subseteq (ThreadSteps \cup KillerSteps) \ {"dead", "free", "run"}
BY SMTT(30) DEF Object, Mutex, Cond, At, Flag, ThreadSteps, KillerSteps

(* A thread on a queue is one of the threads, and on no other queue.       *)
LEMMA OneQueue ==
  ASSUME NEW s, NEW p, NEW w, Waiting(s, p, w), NEW o \in Object
  PROVE  /\ w[o] \in Seq(Everyone)
         /\ Members(w[o]) \subseteq Everyone
         /\ \A q \in Object \ {o} : Members(w[o]) \cap Members(w[q]) = {}
         /\ \A t \in Members(w[o]) : s[t] \in {"mutex", "cond", "sem"}
<1>1. w[o] \in Seq(Everyone)
  BY DEF Waiting
<1>2. Members(w[o]) \subseteq Everyone
  BY <1>1, OwnMembers
<1>3. ASSUME NEW q \in Object \ {o}, NEW t \in Members(w[o]), t \in Members(w[q])
      PROVE  FALSE
  <2>1. p[t] \in At(o) /\ p[t] \in At(q)
    BY <1>3 DEF Waiting
  <2> QED BY <2>1, ObjectFacts
<1>4. \A t \in Members(w[o]) : s[t] \in {"mutex", "cond", "sem"}
  BY ObjectFacts, SMTT(30) DEF Waiting
<1> QED BY <1>1, <1>2, <1>3, <1>4

(* An awake thread joins the queue of an object and sleeps.                *)
LEMMA Joins ==
  ASSUME NEW s, NEW p, NEW w, Waiting(s, p, w), NEW o \in Object,
         NEW t \in Everyone, s[t] = "none", p[t] \in At(o)
  PROVE  /\ Waiting([s EXCEPT ![t] = Flag(o)], p, [w EXCEPT ![o] = Append(@, t)])
         /\ Members(Append(w[o], t)) = Members(w[o]) \cup {t}
<1> DEFINE s1 == [s EXCEPT ![t] = Flag(o)]
           x  == Append(w[o], t)
           w1 == [w EXCEPT ![o] = x]
<1>1. \A q \in Object : t \notin Members(w[q])
  BY OneQueue
<1>2. x \in Seq(Everyone) /\ Members(x) = Members(w[o]) \cup {t} /\ Distinct(x)
  BY <1>1, OneQueue, MembersAppend, SMTT(30) DEF Waiting
<1> HIDE DEF x
<1>3. w1 \in [Object -> Seq(Everyone)]
  BY <1>2 DEF Waiting
<1>4. w1[o] = x /\ \A q \in Object \ {o} : w1[q] = w[q]
  BY DEF Waiting
<1>5. s1 \in [Everyone -> Flags]
  BY ObjectFacts DEF Waiting, Flags
<1>6. s1[t] = Flag(o) /\ \A u \in Everyone \ {t} : s1[u] = s[u]
  BY DEF Waiting
<1> HIDE DEF w1, s1
<1>7. ASSUME NEW q \in Object
      PROVE  /\ Distinct(w1[q])
             /\ \A u \in Members(w1[q]) : s1[u] = Flag(q) /\ p[u] \in At(q)
  <2>1. Members(w[q]) \subseteq Everyone \ {t} /\ Members(w[o]) \subseteq Everyone \ {t}
    BY <1>1, OneQueue
  <2>2. \A u \in Members(w[q]) : s1[u] = Flag(q) /\ p[u] \in At(q)
    BY <1>6, <2>1 DEF Waiting
  <2>3. CASE q = o
    BY <1>2, <1>4, <1>6, <2>2, <2>3
  <2>4. CASE q # o
    BY <1>4, <2>2, <2>4 DEF Waiting
  <2> QED BY <2>3, <2>4
<1>8. ASSUME NEW u \in Everyone
      PROVE  /\ s1[u] \in {"mutex", "cond", "sem"} => \E q \in Object : u \in Members(w1[q])
             /\ s1[u] = "zombie" <=> p[u] \in {"dead", "free"}
             /\ s1[u] = "sleep" => p[u] \in {"run", "locked"}
             /\ u = Killer <=> p[u] \in KillerSteps
  <2>1. CASE u = t
    BY <1>2, <1>4, <1>6, <2>1, ObjectFacts DEF Waiting
  <2>2. CASE u # t
    BY <1>2, <1>4, <1>6, <2>2 DEF Waiting
  <2> QED BY <2>1, <2>2
<1>9. Waiting(s1, p, w1)
  BY <1>3, <1>5, <1>7, <1>8 DEF Waiting
<1> QED BY <1>2, <1>9 DEF s1, w1, x

(* A thread leaves the queue of an object and is woken.                    *)
LEMMA Leaves ==
  ASSUME NEW s, NEW p, NEW w, Waiting(s, p, w), NEW o \in Object,
         NEW t \in Members(w[o]),
         NEW x \in Seq(Everyone), Distinct(x), Members(x) = Members(w[o]) \ {t}
  PROVE  Waiting(Unblocked(s, {t}), p, [w EXCEPT ![o] = x])
<1> DEFINE s1 == Unblocked(s, {t})
           w1 == [w EXCEPT ![o] = x]
<1>1. t \in Everyone /\ \A q \in Object \ {o} : t \notin Members(w[q])
  BY OneQueue
<1>2. w1 \in [Object -> Seq(Everyone)]
  BY DEF Waiting
<1>3. w1[o] = x /\ \A q \in Object \ {o} : w1[q] = w[q]
  BY DEF Waiting
<1>4. s1 \in [Everyone -> Flags]
  BY DEF Waiting, Flags, Unblocked
<1>5. s1[t] = "none" /\ \A u \in Everyone \ {t} : s1[u] = s[u]
  BY <1>1 DEF Waiting, Unblocked
<1>6. p[t] \notin {"dead", "free"}
  BY ObjectFacts DEF Waiting
<1> HIDE DEF w1, s1
<1>7. ASSUME NEW q \in Object
      PROVE  /\ Distinct(w1[q])
             /\ \A u \in Members(w1[q]) : s1[u] = Flag(q) /\ p[u] \in At(q)
  <2>1. Members(w1[q]) \subseteq Members(w[q]) \ {t}
    BY <1>1, <1>3
  <2>2. Members(w[q]) \subseteq Everyone
    BY OneQueue
  <2>3. \A u \in Members(w1[q]) : s1[u] = Flag(q) /\ p[u] \in At(q)
    BY <1>5, <2>1, <2>2 DEF Waiting
  <2>4. Distinct(w1[q])
    BY <1>3 DEF Waiting
  <2> QED BY <2>3, <2>4
<1>8. ASSUME NEW u \in Everyone
      PROVE  /\ s1[u] \in {"mutex", "cond", "sem"} => \E q \in Object : u \in Members(w1[q])
             /\ s1[u] = "zombie" <=> p[u] \in {"dead", "free"}
             /\ s1[u] = "sleep" => p[u] \in {"run", "locked"}
             /\ u = Killer <=> p[u] \in KillerSteps
  <2>1. CASE u = t
    BY <1>5, <1>6, <2>1 DEF Waiting
  <2>2. CASE u # t
    <3>1. s1[u] = s[u]
      BY <1>5, <2>2
    <3>2. \A q \in Object : u \in Members(w[q]) => u \in Members(w1[q])
      BY <1>3, <2>2
    <3> QED BY <3>1, <3>2 DEF Waiting
  <2> QED BY <2>1, <2>2
<1>9. Waiting(s1, p, w1)
  BY <1>2, <1>4, <1>7, <1>8 DEF Waiting
<1> QED BY <1>9 DEF s1, w1

(* A thread on no queue goes on, sleeps, dies or is created.               *)
LEMMA Moves ==
  ASSUME NEW s, NEW p, NEW w, Waiting(s, p, w), NEW t \in Everyone,
         s[t] \in {"none", "sleep", "zombie"},
         NEW f \in {"none", "sleep", "zombie"}, NEW x \in ThreadSteps \cup KillerSteps,
         f = "zombie" <=> x \in {"dead", "free"},
         f = "sleep" => x \in {"run", "locked"},
         t = Killer <=> x \in KillerSteps
  PROVE  Waiting([s EXCEPT ![t] = f], [p EXCEPT ![t] = x], w)
<1> DEFINE s1 == [s EXCEPT ![t] = f]
           p1 == [p EXCEPT ![t] = x]
<1>1. s1 \in [Everyone -> Flags] /\ p1 \in [Everyone -> ThreadSteps \cup KillerSteps]
  BY DEF Waiting, Flags
<1>2. /\ s1[t] = f /\ p1[t] = x
      /\ \A u \in Everyone \ {t} : s1[u] = s[u] /\ p1[u] = p[u]
  BY DEF Waiting
<1> HIDE DEF s1, p1
<1>3. \A o \in Object : Members(w[o]) \subseteq Everyone \ {t}
  BY OneQueue
<1>4. \A o \in Object :
        /\ Distinct(w[o])
        /\ \A u \in Members(w[o]) : s1[u] = Flag(o) /\ p1[u] \in At(o)
  BY <1>2, <1>3 DEF Waiting
<1>5. \A u \in Everyone :
        /\ s1[u] \in {"mutex", "cond", "sem"} => \E o \in Object : u \in Members(w[o])
        /\ s1[u] = "zombie" <=> p1[u] \in {"dead", "free"}
        /\ s1[u] = "sleep" => p1[u] \in {"run", "locked"}
        /\ u = Killer <=> p1[u] \in KillerSteps
  BY <1>2 DEF Waiting
<1>6. Waiting(s1, p1, w)
  BY <1>1, <1>4, <1>5 DEF Waiting
<1> QED BY <1>6 DEF s1, p1

(* What a sleeping thread was about to do.                                 *)
LEMMA SleepSteps ==
  ASSUME NEW s, NEW p, NEW w, Waiting(s, p, w), NEW t \in Everyone
  PROVE  /\ s[t] = "mutex" => p[t] \in {"locked", "dying", "k_wait", "k_loop"}
         /\ s[t] = "cond" => p[t] \in {"relock", "k_relock"}
         /\ s[t] = "sem" => p[t] = "acquire"
<1>1. CASE s[t] \in {"mutex", "cond", "sem"}
  <2>1. PICK o \in Object : t \in Members(w[o])
    BY <1>1 DEF Waiting
  <2>2. s[t] = Flag(o) /\ p[t] \in At(o)
    BY <2>1 DEF Waiting
  <2> QED BY <2>2, ObjectFacts, ZenonT(30) DEF Flag, At, Mutex, Cond
<1>2. CASE s[t] \notin {"mutex", "cond", "sem"}
  BY <1>2
<1> QED BY <1>1, <1>2

(* The timed calls stay, and no thread that has one is woken.              *)
LEMMA TimersKept ==
  ASSUME Timers(sleep, tcEventQ), tcEventQ' = tcEventQ,
         \A u \in Thread : sleep'[u] = sleep[u] \/ sleep[u] \notin {"cond", "sem", "sleep"}
  PROVE  Timers(sleep', tcEventQ')
BY DEF Timers

(* An awake thread sets its timer and sleeps.                              *)
LEMMA TimerSet ==
  ASSUME Timers(sleep, tcEventQ), NEW t \in Thread, sleep[t] = "none",
         NEW f \in {"cond", "sem", "sleep"}, NEW d, SetTimer(t, f, d), sleep'[t] = f,
         \A u \in Thread \ {t} :
           sleep'[u] = sleep[u] \/ sleep[u] \notin {"cond", "sem", "sleep"}
  PROVE  Timers(sleep', tcEventQ')
<1>1. t \notin Queued(tcEventQ)
  <2> SUFFICES ASSUME t \in Queued(tcEventQ) PROVE FALSE
    OBVIOUS
  <2>1. PICK i \in 1 .. Len(tcEventQ) : tcEventQ[i].call = t
    BY DEF Queued
  <2>2. <<t, tcEventQ[i].f>> \in Calls(tcEventQ)
    BY <2>1 DEF Calls
  <2> QED BY <2>2 DEF Timers
<1>2. Entries(tcEventQ') /\ Calls(tcEventQ') = Calls(tcEventQ) \cup {<<t, f>>}
  BY <1>1, RequestedCalls, SMTT(30) DEF Timers, SetTimer
<1>3. \A c \in Calls(tcEventQ) : c[1] # t
  BY DEF Timers
<1> QED BY <1>2, <1>3, SMTT(30) DEF Timers

(* The timed call of a thread goes, undone or made.                        *)
LEMMA TimerGone ==
  ASSUME Timers(sleep, tcEventQ), NEW t,
         \/ tcEventQ' = Undone(tcEventQ, t)
         \/ /\ tcEventQ # << >> /\ tcEventQ[1].call = t
            /\ tcEventQ' = Detached(tcEventQ),
         \A u \in Thread \ {t} : sleep'[u] = sleep[u]
  PROVE  Timers(sleep', tcEventQ')
<1>1. Entries(tcEventQ') /\ Calls(tcEventQ') = {c \in Calls(tcEventQ) : c[1] # t}
  BY UndoneCalls, DetachedCalls, SMTT(30) DEF Timers
<1> QED BY <1>1 DEF Timers

(* No thread dies, and the killer takes none.                              *)
LEMMA KillsKept ==
  ASSUME Kills(pc, threads4kill, kill_request, victim), UNCHANGED killing,
         \A u \in Thread : pc[u] = "dead" => pc'[u] = "dead",
         pc'[Killer] = "k_kill" <=> pc[Killer] = "k_kill"
  PROVE  Kills(pc', threads4kill', kill_request', victim')
BY DEF Kills, killing

(* The semaphore, and the threads woken for it, stay.                      *)
LEMMA UnitsKept ==
  ASSUME Units, value' = value, wq'["sem"] = wq["sem"],
         timedout' \subseteq Thread,
         \A u \in timedout' : sleep'[u] = "none" /\ pc'[u] \in {"relock", "acquire"},
         \A u \in Thread :
           /\ pc'[u] = "acquire" <=> pc[u] = "acquire"
           /\ pc[u] = "acquire" => /\ sleep'[u] = "none" <=> sleep[u] = "none"
                                   /\ u \in timedout' <=> u \in timedout
  PROVE  Units'
<1>1. Notified' = Notified
  BY DEF Notified
<1>2. NoLostUnit'
  BY <1>1 DEF Units, NoLostUnit
<1> QED BY <1>2 DEF Units

(* hal_mutex_lock.                                                         *)
LEMMA LockInv ==
  ASSUME Waiting(sleep, pc, wq), Owners(owner, pc, wq), NEW t \in Everyone,
         NEW m \in Mutex, NEW next \in At(m), t = Killer <=> next \in KillerSteps,
         sleep[t] = "none", \A n \in Mutex : pc[t] \notin At(n), Lock(t, m, next)
  PROVE  /\ Waiting(sleep', pc', wq') /\ Owners(owner', pc', wq')
         /\ pc'[t] = next
         /\ \A u \in Everyone \ {t} : sleep'[u] = sleep[u] /\ pc'[u] = pc[u]
         /\ \A o \in Object \ {m} : wq'[o] = wq[o]
<1>1. m \in Object /\ Flag(m) = "mutex" /\ \A n \in Mutex : n # m => next \notin At(n)
  BY DEF Object, Flag, Mutex, At
<1>2. next \in (ThreadSteps \cup KillerSteps) \ {"dead", "free", "run"}
  BY <1>1, ObjectFacts
<1>3. pc' = [pc EXCEPT ![t] = next]
  BY DEF Lock, Goto
<1>4. /\ pc'[t] = next
      /\ \A u \in Everyone \ {t} : pc'[u] = pc[u]
  BY <1>3 DEF Waiting
<1>5. Waiting(sleep, pc', wq)
  <2>1. [sleep EXCEPT ![t] = "none"] = sleep
    BY DEF Waiting
  <2>2. Waiting([sleep EXCEPT ![t] = "none"], [pc EXCEPT ![t] = next], wq)
    BY <1>2, Moves
  <2> QED BY <1>3, <2>1, <2>2
<1>6. \A o \in Object : t \notin Members(wq[o])
  BY OneQueue
<1>7. CASE owner[m] = NoThread
  <2>1. owner' = [owner EXCEPT ![m] = t] /\ wq' = wq /\ sleep' = sleep
    BY <1>7 DEF Lock
  <2>2. Members(wq[m]) = {}
    BY <1>7, MembersEmpty DEF Owners
  <2>3. \A u \in Everyone : pc[u] \notin At(m)
    BY <1>7, <2>2, ThreadAssumption, ZenonT(30) DEF Owners, Everyone
  <2>4. Owners(owner', pc', wq)
    <3>1. owner' \in [Mutex -> Everyone \cup {NoThread}]
      BY <2>1 DEF Owners
    <3>2. ASSUME NEW n \in Mutex, NEW u \in Everyone
          PROVE  owner'[n] = u <=> pc'[u] \in At(n) /\ u \notin Members(wq[n])
      <4>1. CASE n = m
        BY <1>4, <2>1, <2>2, <2>3, <4>1, SMTT(30) DEF Owners
      <4>2. CASE n # m
        <5>1. owner'[n] = owner[n]
          BY <2>1, <4>2 DEF Owners
        <5>2. pc'[u] \in At(n) <=> pc[u] \in At(n)
          BY <1>1, <1>4, <4>2
        <5> QED BY <5>1, <5>2 DEF Owners
      <4> QED BY <4>1, <4>2
    <3>3. ASSUME NEW n \in Mutex, owner'[n] = NoThread PROVE wq[n] = << >>
      BY <2>1, <3>3, <1>7 DEF Owners
    <3> QED BY <3>1, <3>2, <3>3 DEF Owners
  <2> QED BY <1>4, <1>5, <2>1, <2>4
<1>8. CASE owner[m] # NoThread
  <2>1. /\ owner' = owner
        /\ wq' = [wq EXCEPT ![m] = Append(@, t)]
        /\ sleep' = [sleep EXCEPT ![t] = Flag(m)]
    BY <1>1, <1>8 DEF Lock, Blocked
  <2>2. Waiting(sleep', pc', wq') /\ Members(Append(wq[m], t)) = Members(wq[m]) \cup {t}
    <3>1. pc'[t] \in At(m)
      BY <1>4
    <3>2. /\ Waiting([sleep EXCEPT ![t] = Flag(m)], pc', [wq EXCEPT ![m] = Append(@, t)])
          /\ Members(Append(wq[m], t)) = Members(wq[m]) \cup {t}
      BY <1>1, <1>5, <3>1, Joins, SMTT(30)
    <3> QED BY <2>1, <3>2
  <2>3. /\ wq'[m] = Append(wq[m], t)
        /\ \A o \in Object \ {m} : wq'[o] = wq[o]
    BY <1>1, <2>1 DEF Waiting
  <2>4. \A u \in Everyone \ {t} : sleep'[u] = sleep[u]
    BY <2>1 DEF Waiting
  <2>5. Owners(owner', pc', wq')
    <3>1. ASSUME NEW n \in Mutex, NEW u \in Everyone
          PROVE  owner[n] = u <=> pc'[u] \in At(n) /\ u \notin Members(wq'[n])
      <4>0. n \in Object
        BY DEF Object
      <4>1. CASE n = m
        BY <1>4, <2>2, <2>3, <4>1, ZenonT(30) DEF Owners
      <4>2. CASE n # m
        <5>1. pc'[u] \in At(n) <=> pc[u] \in At(n)
          BY <1>1, <1>4, <4>2
        <5> QED BY <2>3, <4>0, <4>2, <5>1 DEF Owners
      <4> QED BY <4>1, <4>2
    <3>2. ASSUME NEW n \in Mutex, owner[n] = NoThread PROVE wq'[n] = << >>
      BY <1>8, <2>3, <3>2 DEF Owners, Object
    <3> QED BY <2>1, <3>1, <3>2 DEF Owners
  <2> QED BY <1>4, <2>2, <2>3, <2>4, <2>5
<1> QED BY <1>7, <1>8

(* hal_mutex_unlock by the owner t, or while nobody owns m: t goes on at   *)
(* next, and the first of the waiters owns m.                              *)
LEMMA UnlockInv ==
  ASSUME Waiting(sleep, pc, wq), Owners(owner, pc, wq), NEW t \in Everyone,
         NEW m \in Mutex, NEW next \in ThreadSteps \cup KillerSteps,
         t = Killer <=> next \in KillerSteps, next \notin {"dead", "free"},
         sleep[t] = "none", pc[t] \in At(m) \/ owner[m] = NoThread,
         \A n \in Mutex : next \notin At(n) /\ (n # m => pc[t] \notin At(n))
  PROVE  LET s == Unblocked(sleep, Woken(m))
             p == [pc EXCEPT ![t] = next]
             w == [wq EXCEPT ![m] = Left(m)]
         IN  /\ Waiting(s, p, w)
             /\ Owners([owner EXCEPT ![m] = Handed(m)], p, w)
             /\ s[t] = "none"
             /\ \A u \in Everyone : s[u] = sleep[u] \/ (sleep[u] = "mutex" /\ s[u] = "none")
<1> DEFINE s == Unblocked(sleep, Woken(m))
           p == [pc EXCEPT ![t] = next]
           w == [wq EXCEPT ![m] = Left(m)]
           h == First(wq[m])
           own == [owner EXCEPT ![m] = Handed(m)]
<1>1. m \in Object /\ Mutex \subseteq Object /\ Flag(m) = "mutex"
  BY DEF Object, Flag
<1>2. p[t] = next /\ \A u \in Everyone \ {t} : p[u] = pc[u]
  BY DEF Waiting
<1>3. Waiting(sleep, p, wq)
  <2>1. [sleep EXCEPT ![t] = "none"] = sleep
    BY DEF Waiting
  <2>2. Waiting([sleep EXCEPT ![t] = "none"], p, wq)
    BY Moves
  <2> QED BY <2>1, <2>2
<1>4. \A o \in Object : t \notin Members(wq[o])
  BY OneQueue
<1>5. /\ own \in [Mutex -> Everyone \cup {Handed(m), NoThread}]
      /\ own[m] = Handed(m)
      /\ \A n \in Mutex \ {m} : own[n] = owner[n]
  BY SMTT(30) DEF Owners
<1>6. \A n \in Mutex, u \in Everyone : n # m => (p[u] \in At(n) <=> pc[u] \in At(n))
  BY <1>2
<1>7. w[m] = Left(m) /\ \A o \in Object \ {m} : w[o] = wq[o]
  BY <1>1 DEF Waiting
<1>8. \A u \in Everyone \ {t} : pc[u] \in At(m) => u \in Members(wq[m])
  <2> SUFFICES ASSUME NEW u \in Everyone \ {t}, pc[u] \in At(m), u \notin Members(wq[m])
               PROVE  FALSE
    OBVIOUS
  <2>1. owner[m] = u
    BY DEF Owners
  <2>2. owner[m] # NoThread
    BY <2>1, ThreadAssumption DEF Everyone
  <2>3. owner[m] = t
    BY <1>1, <1>4, <2>2 DEF Owners
  <2> QED BY <2>1, <2>3
<1>9. CASE wq[m] = << >>
  <2>1. s = sleep
    BY <1>9 DEF Woken, Unblocked, Waiting
  <2>2. Handed(m) = NoThread /\ Left(m) = << >>
    BY <1>9 DEF Handed, Left
  <2>3. w = wq
    BY <1>1, <1>9, <2>2 DEF Waiting
  <2>4. \A u \in Everyone : p[u] \notin At(m)
    BY <1>2, <1>8, <1>9, MembersEmpty
  <2> HIDE DEF p, own, w, s
  <2>5. Owners(own, p, wq)
    <3>1. ASSUME NEW n \in Mutex
          PROVE  /\ \A u \in Everyone : own[n] = u <=> p[u] \in At(n) /\ u \notin Members(wq[n])
                 /\ own[n] = NoThread => wq[n] = << >>
      <4>1. CASE n = m
        BY <1>5, <1>9, <2>2, <2>4, <4>1, ThreadAssumption DEF Everyone
      <4>2. CASE n # m
        BY <1>5, <1>6, <4>2 DEF Owners
      <4> QED BY <4>1, <4>2
    <3> QED BY <1>5, <2>2, <3>1, SMTT(30) DEF Owners
  <2> QED BY <1>3, <2>1, <2>3, <2>5 DEF p, own, w, s
<1>10. CASE wq[m] # << >>
  <2>1. h \in Members(wq[m]) /\ h \in Everyone
    BY <1>1, <1>10, OneQueue, FirstIsMember, SMTT(30) DEF Everyone
  <2>2. Woken(m) = {h} /\ Handed(m) = h /\ Left(m) = Without(wq[m], h)
    BY <1>10 DEF Woken, Handed, Left
  <2>3. /\ Left(m) \in Seq(Everyone) /\ Distinct(Left(m))
        /\ Members(Left(m)) = Members(wq[m]) \ {h}
    BY <1>1, <2>2, OneQueue, MembersWithout, SMTT(30) DEF Waiting
  <2> HIDE DEF h
  <2>4. s = Unblocked(sleep, {h})
    BY <2>2
  <2>5. sleep[h] = "mutex" /\ pc[h] \in At(m)
    BY <1>1, <2>1 DEF Waiting
  <2>6. s[h] = "none" /\ \A u \in Everyone \ {h} : s[u] = sleep[u]
    BY <2>1, <2>4 DEF Unblocked, Waiting
  <2>7. h # t
    BY <1>1, <1>4, <2>1
  <2> HIDE DEF p, own, s
  <2>8. Waiting(s, p, w)
    BY <1>1, <1>3, <2>1, <2>3, <2>4, Leaves
  <2> HIDE DEF w
  <2>9. Owners(own, p, w)
    <3>1. ASSUME NEW n \in Mutex
          PROVE  /\ \A u \in Everyone : own[n] = u <=> p[u] \in At(n) /\ u \notin Members(w[n])
                 /\ own[n] = NoThread => w[n] = << >>
      <4>1. CASE n = m
        <5>1. own[n] = h /\ h # NoThread
          BY <1>5, <2>1, <2>2, <4>1, ThreadAssumption DEF Everyone
        <5>2. \A u \in Everyone : p[u] \in At(m) /\ u \notin Members(w[m]) <=> u = h
          BY <1>2, <1>7, <1>8, <2>3, <2>5, <2>7, <2>1
        <5> QED BY <4>1, <5>1, <5>2
      <4>2. CASE n # m
        BY <1>1, <1>5, <1>6, <1>7, <4>2 DEF Owners
      <4> QED BY <4>1, <4>2
    <3> QED BY <1>5, <2>1, <2>2, <3>1, SMTT(30) DEF Owners
  <2> QED BY <2>5, <2>6, <2>7, <2>8, <2>9 DEF p, own, w, s
<1> QED BY <1>9, <1>10

(* The mutexes do not depend on the other queues.                          *)
LEMMA OwnersKept ==
  ASSUME NEW own, NEW p, NEW w, Owners(own, p, w), NEW v,
         \A m \in Mutex : v[m] = w[m]
  PROVE  Owners(own, p, v)
BY DEF Owners

(* The wait of hal_cond_wait and hal_cond_timedwait.                       *)
LEMMA CondWaitInv ==
  ASSUME Waiting(sleep, pc, wq), Owners(owner, pc, wq), NEW t \in Everyone,
         NEW m \in Mutex, NEW c \in Cond, NEW next \in At(c),
         t = Killer <=> next \in KillerSteps, sleep[t] = "none", pc[t] \in At(m),
         CondWait(t, c, m, next)
  PROVE  /\ Waiting(sleep', pc', wq') /\ Owners(owner', pc', wq')
         /\ sleep'[t] = "cond" /\ pc'[t] = next
         /\ \A u \in Everyone \ {t} :
              /\ sleep'[u] = sleep[u] \/ (sleep[u] = "mutex" /\ sleep'[u] = "none")
              /\ pc'[u] = pc[u]
         /\ wq'["sem"] = wq["sem"]
<1> DEFINE s == Unblocked(sleep, Woken(m))
           w == [wq EXCEPT ![m] = Left(m)]
           own == [owner EXCEPT ![m] = Handed(m)]
<1>1. /\ c \in Object /\ c # m /\ Flag(c) = "cond" /\ c \notin Mutex
      /\ "sem" \in Object /\ c # "sem" /\ m # "sem"
      /\ \A n \in Mutex : n \in Object /\ next \notin At(n) /\ (n # m => pc[t] \notin At(n))
      /\ next \in (ThreadSteps \cup KillerSteps) \ {"dead", "free"}
  BY DEF Object, Flag, Mutex, Cond, At, ThreadSteps, KillerSteps
<1>2. pc' = [pc EXCEPT ![t] = next] /\ owner' = own
  BY DEF CondWait, Goto
<1>3. /\ Waiting(s, pc', w) /\ Owners(own, pc', w) /\ s[t] = "none"
      /\ \A u \in Everyone : s[u] = sleep[u] \/ (sleep[u] = "mutex" /\ s[u] = "none")
  BY <1>1, <1>2, UnlockInv
<1>4. sleep' = [s EXCEPT ![t] = Flag(c)]
  BY <1>1 DEF CondWait, Blocked
<1>5. wq' = [w EXCEPT ![c] = Append(w[c], t)]
  <2>1. wq' = [wq EXCEPT ![m] = Left(m), ![c] = Append(wq[c], t)]
    BY <1>1 DEF CondWait
  <2>2. w[c] = wq[c]
    BY <1>1 DEF Waiting
  <2> QED BY <2>1, <2>2
<1>6. pc'[t] = next /\ \A u \in Everyone \ {t} : pc'[u] = pc[u]
  BY <1>2 DEF Waiting
<1>7. \A o \in Object \ {c} : wq'[o] = w[o]
  BY <1>3, <1>5 DEF Waiting
<1>8. w["sem"] = wq["sem"]
  BY <1>1 DEF Waiting
<1>9. sleep'[t] = "cond" /\ \A u \in Everyone \ {t} : sleep'[u] = s[u]
  BY <1>1, <1>3, <1>4, ZenonT(30) DEF Waiting
<1> HIDE DEF s, w, own
<1>10. Waiting(sleep', pc', wq')
  <2>1. pc'[t] \in At(c)
    BY <1>6
  <2>2. Waiting([s EXCEPT ![t] = Flag(c)], pc', [w EXCEPT ![c] = Append(@, t)])
    BY <1>1, <1>3, <2>1, Joins
  <2> QED BY <1>4, <1>5, <2>2
<1>11. Owners(owner', pc', wq')
  <2>1. \A n \in Mutex : wq'[n] = w[n]
    BY <1>1, <1>7
  <2> QED BY <1>2, <1>3, <2>1, OwnersKept
<1> QED BY <1>1, <1>3, <1>6, <1>7, <1>8, <1>9, <1>10, <1>11

(* A waiter of a condition variable or of the semaphore is woken.          *)
LEMMA WakeInv ==
  ASSUME Waiting(sleep, pc, wq), Owners(owner, pc, wq), NEW o \in Object \ Mutex,
         NEW t \in Members(wq[o]),
         NEW x \in Seq(Everyone), Distinct(x), Members(x) = Members(wq[o]) \ {t},
         wq' = [wq EXCEPT ![o] = x], sleep' = Unblocked(sleep, {t}),
         UNCHANGED <<pc, owner>>
  PROVE  /\ Waiting(sleep', pc', wq') /\ Owners(owner', pc', wq')
         /\ t \in Everyone /\ sleep[t] = Flag(o) /\ pc[t] \in At(o)
         /\ sleep'[t] = "none" /\ \A u \in Everyone \ {t} : sleep'[u] = sleep[u]
         /\ wq'[o] = x /\ \A q \in Object \ {o} : wq'[q] = wq[q]
<1>1. Waiting(sleep', pc, wq')
  BY Leaves
<1>2. wq'[o] = x /\ \A q \in Object \ {o} : wq'[q] = wq[q]
  BY DEF Waiting
<1>3. Owners(owner, pc, wq')
  BY <1>2, OwnersKept DEF Object
<1>4. t \in Everyone /\ sleep[t] = Flag(o) /\ pc[t] \in At(o)
  BY OneQueue DEF Waiting
<1>5. sleep'[t] = "none" /\ \A u \in Everyone \ {t} : sleep'[u] = sleep[u]
  BY <1>4 DEF Waiting, Unblocked
<1> QED BY <1>1, <1>2, <1>3, <1>4, <1>5

(* A step between places that are not past the lock of a mutex.            *)
LEMMA OwnersMoved ==
  ASSUME NEW own, NEW p, NEW w, Owners(own, p, w),
         p \in [Everyone -> ThreadSteps \cup KillerSteps], NEW t \in Everyone, NEW x,
         \A m \in Mutex : p[t] \notin At(m) /\ x \notin At(m)
  PROVE  Owners(own, [p EXCEPT ![t] = x], w)
<1> DEFINE p1 == [p EXCEPT ![t] = x]
<1>1. p1[t] = x /\ \A u \in Everyone \ {t} : p1[u] = p[u]
  OBVIOUS
<1> HIDE DEF p1
<1>2. \A m \in Mutex, u \in Everyone : p1[u] \in At(m) <=> p[u] \in At(m)
  BY <1>1
<1>3. Owners(own, p1, w)
  BY <1>2 DEF Owners
<1> QED BY <1>3 DEF p1
=============================================================================
