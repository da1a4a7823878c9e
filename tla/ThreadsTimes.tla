---------------------------- MODULE ThreadsTimes ---------------------------
(***************************************************************************)
(* The times of the timed calls.  Due adds up the differences up to a      *)
(* place of the queue; the lemmas show that inserting, removing and        *)
(* counting down an entry leave every other call due when it was.  The     *)
(* theorem is that a call is made when it is due, whatever the threads     *)
(* request and undo in between.                                            *)
(***************************************************************************)
EXTENDS ThreadsProofs, NaturalsInduction

(* The time limits of the provers. *)
USE ZenonT(10), SMTT(30)

-----------------------------------------------------------------------------
(* Induction: a set of naturals up to n with 0 in it, and with k whenever  *)
(* k - 1 is in it, has n in it.                                            *)
LEMMA UpTo ==
  ASSUME NEW n \in Nat, NEW P, 0 \in P,
         \A k \in 1 .. n : k - 1 \in P => k \in P
  PROVE  \A k \in 0 .. n : k \in P
<1> DEFINE T == {k \in 0 .. n : k \notin P}
<1>1. SUFFICES ASSUME T # {} PROVE FALSE
  BY <1>1
<1>2. T \subseteq Nat
  OBVIOUS
<1>3. PICK x \in T : \A y \in T : x <= y
  <2> HIDE DEF T
  <2> QED BY <1>1, <1>2, LeastNatural
<1>4. x # 0 /\ x \in 1 .. n
  BY SMTT(30)
<1>5. x - 1 \in 0 .. n /\ ~ (x <= x - 1)
  BY <1>4, SMTT(30)
<1>6. x - 1 \in P
  BY <1>3, <1>5
<1> QED BY <1>4, <1>6

-----------------------------------------------------------------------------
(* The sums of the first 0, 1, ..., n times of q.                          *)
IsSum(q, n, f) == f = [k \in 0 .. n |-> IF k = 0 THEN 0 ELSE f[k - 1] + q[k].more]

(* The first n entries of q have times.                                    *)
HasTimes(q, n) == n \in Nat /\ \A k \in 1 .. n : q[k].more \in Int

LEMMA SumExists ==
  ASSUME NEW q, NEW n, HasTimes(q, n)
  PROVE  \E f : IsSum(q, n, f)
<1> DEFINE P == {k \in 0 .. n : \E f : IsSum(q, k, f)}
<1>1. 0 \in P
  <2> DEFINE f == [k \in 0 .. 0 |-> 0]
  <2>1. f = [k \in 0 .. 0 |-> IF k = 0 THEN 0 ELSE f[k - 1] + q[k].more]
    OBVIOUS
  <2>2. \E g : IsSum(q, 0, g)
    BY <2>1 DEF IsSum
  <2> QED BY <2>2 DEF HasTimes
<1>2. ASSUME NEW k \in 1 .. n, k - 1 \in P PROVE k \in P
  <2>1. PICK f : IsSum(q, k - 1, f)
    BY <1>2
  <2> DEFINE x == f[k - 1] + q[k].more
             g == [j \in 0 .. k |-> IF j = k THEN x ELSE f[j]]
  <2>2. k \in Nat /\ k > 0 /\ k \in 0 .. n
    BY DEF HasTimes
  <2>3. \A j \in 0 .. k - 1 : f[j] = IF j = 0 THEN 0 ELSE f[j - 1] + q[j].more
    BY <2>1, <2>2, SMTT(30) DEF IsSum
  <2>4. \A j \in 0 .. k : g[j] = IF j = 0 THEN 0 ELSE g[j - 1] + q[j].more
    BY <2>2, <2>3, SMTT(30)
  <2>5. g = [j \in 0 .. k |-> g[j]]
    OBVIOUS
  <2> HIDE DEF g
  <2>6. IsSum(q, k, g)
    BY <2>4, <2>5 DEF IsSum
  <2> QED BY <2>2, <2>6
<1> HIDE DEF P
<1>3. n \in P
  BY <1>1, <1>2, UpTo, SMTT(30) DEF HasTimes
<1> QED BY <1>3 DEF P

(* Two functions with the same differences agree.                          *)
LEMMA SumUnique ==
  ASSUME NEW q, NEW n, HasTimes(q, n), NEW f, NEW g,
         f[0] = g[0],
         \A k \in 1 .. n : f[k] = f[k - 1] + q[k].more /\ g[k] = g[k - 1] + q[k].more
  PROVE  \A k \in 0 .. n : f[k] = g[k]
<1> DEFINE P == {k \in Nat : f[k] = g[k]}
<1>1. 0 \in P
  OBVIOUS
<1>2. \A k \in 1 .. n : k - 1 \in P => k \in P
  BY SMTT(30) DEF HasTimes
<1> HIDE DEF P
<1>3. \A k \in 0 .. n : k \in P
  BY <1>1, <1>2, UpTo, SMTT(30) DEF HasTimes
<1> QED BY <1>3 DEF P

(* Due is the last of the sums.                                            *)
LEMMA DueIsSum ==
  ASSUME NEW q, NEW n, HasTimes(q, n)
  PROVE  \E f : IsSum(q, n, f) /\ Due(q, n) = f[n]
<1> DEFINE sum[k \in 0 .. n] == IF k = 0 THEN 0 ELSE sum[k - 1] + q[k].more
<1>1. IsSum(q, n, CHOOSE f : IsSum(q, n, f))
  BY SumExists
<1>2. sum = CHOOSE f : IsSum(q, n, f)
  BY DEF IsSum
<1>3. Due(q, n) = sum[n]
  BY DEF Due
<1> HIDE DEF sum
<1> QED BY <1>1, <1>2, <1>3
(* Due adds the time of an entry to what its predecessor is due.           *)
LEMMA DueFacts ==
  ASSUME NEW q, NEW n, HasTimes(q, n)
  PROVE  /\ Due(q, 0) = 0
         /\ \A k \in 1 .. n : Due(q, k) = Due(q, k - 1) + q[k].more
<1>1. HasTimes(q, 0) /\ n \in Nat /\ \A k \in 1 .. n : HasTimes(q, k) /\ HasTimes(q, k - 1)
  BY SMTT(30) DEF HasTimes
<1>2. Due(q, 0) = 0
  <2>1. PICK f : IsSum(q, 0, f) /\ Due(q, 0) = f[0]
    BY <1>1, DueIsSum
  <2> QED BY <2>1, SMTT(30) DEF IsSum
<1>3. ASSUME NEW k \in 1 .. n PROVE Due(q, k) = Due(q, k - 1) + q[k].more
  <2>1. PICK f : IsSum(q, k, f) /\ Due(q, k) = f[k]
    BY <1>1, DueIsSum
  <2>2. PICK g : IsSum(q, k - 1, g) /\ Due(q, k - 1) = g[k - 1]
    BY <1>1, DueIsSum
  <2>3. /\ f[0] = 0 /\ f[k] = f[k - 1] + q[k].more
        /\ \A j \in 1 .. k - 1 : f[j] = f[j - 1] + q[j].more
    BY <2>1, <1>1, SMTT(30) DEF IsSum
  <2>4. g[0] = 0 /\ \A j \in 1 .. k - 1 : g[j] = g[j - 1] + q[j].more
    BY <2>2, <1>1, SMTT(30) DEF IsSum
  <2>5. \A j \in 0 .. k - 1 : f[j] = g[j]
    BY SMTT(30), <1>1, <2>3, <2>4, SumUnique
  <2>6. k - 1 \in 0 .. k - 1
    BY <1>1
  <2> QED BY <2>1, <2>2, <2>3, <2>5, <2>6
<1> QED BY <1>2, <1>3

(* A function with the right differences is Due.                           *)
LEMMA DueIs ==
  ASSUME NEW q, NEW n, HasTimes(q, n), NEW g, g[0] = 0,
         \A k \in 1 .. n : g[k] = g[k - 1] + q[k].more
  PROVE  \A k \in 0 .. n : Due(q, k) = g[k]
<1> DEFINE f == [k \in 0 .. n |-> Due(q, k)]
<1>1. n \in Nat /\ \A k \in 1 .. n : k \in 0 .. n /\ k - 1 \in 0 .. n
  BY SMTT(30) DEF HasTimes
<1>2. f[0] = g[0] /\ \A k \in 1 .. n : f[k] = f[k - 1] + q[k].more
  BY SMTT(30), <1>1, DueFacts
<1> HIDE DEF f
<1>3. \A k \in 0 .. n : f[k] = g[k]
  BY SMTT(30), <1>2, SumUnique
<1> QED BY <1>3 DEF f

(* Due is a whole number of milliseconds.                                  *)
LEMMA DueInt ==
  ASSUME NEW q, NEW n, HasTimes(q, n)
  PROVE  \A k \in 0 .. n : Due(q, k) \in Int
<1> DEFINE P == {k \in Nat : Due(q, k) \in Int}
<1>1. 0 \in P
  BY DueFacts
<1>2. ASSUME NEW k \in 1 .. n, k - 1 \in P PROVE k \in P
  <2>1. Due(q, k) = Due(q, k - 1) + q[k].more /\ q[k].more \in Int
    BY DueFacts DEF HasTimes
  <2> QED BY <1>2, <2>1, SMTT(30) DEF HasTimes
<1> HIDE DEF P
<1>3. \A k \in 0 .. n : k \in P
  BY <1>1, <1>2, UpTo, SMTT(30) DEF HasTimes
<1> QED BY <1>3 DEF P
-----------------------------------------------------------------------------
(* A delta queue: the times of all entries but the first, which the timer  *)
(* interrupt counts down, are differences between calls in their order.    *)
DeltaQueue(q) ==
  /\ HasTimes(q, Len(q))
  /\ \A i \in 1 .. Len(q) : q[i] = Entry(q[i].call, q[i].f, q[i].more)
  /\ \A i \in 2 .. Len(q) : q[i].more >= 0

(* The calls of q and when they are due.                                   *)
Times(q) == {<<q[i].call, Due(q, i)>> : i \in 1 .. Len(q)}

(* The head is not overdue.                                                *)
Punctual(q) == q # << >> => q[1].more >= 0

(* A function on 1 .. n with another first value.                          *)
LEMMA FirstChanged ==
  ASSUME NEW n \in Nat, 1 \in 1 .. n, NEW x, x = [j \in 1 .. n |-> x[j]], NEW y
  PROVE  LET r == [x EXCEPT ![1] = y]
         IN  /\ r = [j \in 1 .. n |-> r[j]]
             /\ \A j \in 1 .. n : r[j] = IF j = 1 THEN y ELSE x[j]
<1> DEFINE r == [x EXCEPT ![1] = y]
<1>1. DOMAIN x = 1 .. n
  BY SMTT(30)
<1>2. r = [j \in 1 .. n |-> IF j = 1 THEN y ELSE x[j]]
  BY <1>1, SMTT(30)
<1> HIDE DEF r
<1>3. r = [j \in 1 .. n |-> r[j]] /\ \A j \in 1 .. n : r[j] = IF j = 1 THEN y ELSE x[j]
  BY <1>2
<1> QED BY <1>3 DEF r

(* Once the head of a delta queue is not overdue, no call is.              *)
LEMMA NoneOverdue ==
  ASSUME NEW q, DeltaQueue(q), Punctual(q), q # << >>
  PROVE  \A k \in 0 .. Len(q) : Due(q, k) >= 0
<1> DEFINE n == Len(q)
           P == {k \in Nat : Due(q, k) \in Int /\ Due(q, k) >= 0}
<1>1. HasTimes(q, n)
  BY DEF DeltaQueue
<1>2. 0 \in P
  BY <1>1, DueFacts, SMTT(30)
<1>3. ASSUME NEW k \in 1 .. n, k - 1 \in P PROVE k \in P
  <2>1. Due(q, k) = Due(q, k - 1) + q[k].more /\ q[k].more \in Int
    BY <1>1, DueFacts DEF HasTimes
  <2>2. q[k].more >= 0
    <3>1. CASE k = 1
      BY <3>1 DEF Punctual
    <3>2. CASE k # 1
      <4>1. k \in 2 .. n
        BY <1>1, <3>2, SMTT(30) DEF HasTimes
      <4> QED BY <4>1 DEF DeltaQueue
    <3> QED BY <3>1, <3>2
  <2> QED BY <1>1, <1>3, <2>1, <2>2, SMTT(30) DEF HasTimes
<1>4. \A k \in 1 .. n : k - 1 \in P => k \in P
  BY <1>3
<1>5. n \in Nat
  BY <1>1 DEF HasTimes
<1> HIDE DEF P, n
<1>6. \A k \in 0 .. n : k \in P
  BY <1>2, <1>4, <1>5, UpTo
<1> QED BY <1>6 DEF P, n

(* Place finds a place in the queue where the call is due between its      *)
(* neighbours.                                                             *)
LEMMA PlaceIsBetween ==
  ASSUME NEW q, DeltaQueue(q), NEW d \in Nat
  PROVE  /\ Place(q, d) \in 1 .. Len(q) + 1
         /\ Due(q, Place(q, d) - 1) <= d
         /\ Place(q, d) <= Len(q) => d < Due(q, Place(q, d))
<1> DEFINE n == Len(q)
           later == {i \in 1 .. n : Due(q, i - 1) <= d /\ d < Due(q, i)}
<1>1. HasTimes(q, n) /\ n \in Nat
  BY DEF DeltaQueue, HasTimes
<1>2. CASE later # {}
  <2>1. later \subseteq Nat
    BY <1>1
  <2>2. \E i \in later : \A j \in later : i <= j
    <3> HIDE DEF later
    <3> QED BY <1>2, <2>1, LeastNatural
  <2>3. Place(q, d) \in later
    <3>1. Place(q, d) = CHOOSE i \in later : \A j \in later : i <= j
      BY <1>2 DEF Place
    <3> HIDE DEF later
    <3> QED BY <2>2, <3>1
  <2> QED BY <1>1, <2>3, SMTT(30)
<1>3. CASE later = {}
  <2>1. Place(q, d) = n + 1
    BY <1>3 DEF Place
  <2> DEFINE P == {k \in Nat : Due(q, k) <= d}
  <2>2. 0 \in P
    BY <1>1, DueFacts, SMTT(30)
  <2>3. ASSUME NEW k \in 1 .. n, k - 1 \in P PROVE k \in P
    <3>1. k \notin later
      BY <1>3
    <3>2. Due(q, k) \in Int
      BY <1>1, DueInt
    <3> QED BY <1>1, <2>3, <3>1, <3>2, SMTT(30)
  <2> HIDE DEF P
  <2>4. \A k \in 0 .. n : k \in P
    <3>1. n \in Nat
      BY <1>1 DEF HasTimes
    <3> HIDE DEF n
    <3> QED BY <2>2, <2>3, <3>1, UpTo
  <2>5. n \in P
    BY <1>1, <2>4
  <2>6. Due(q, n) <= d
    BY <2>5 DEF P
  <2> QED BY <1>1, <2>1, <2>6
<1> QED BY <1>2, <1>3
(* phantom_request_timed_call makes the new call due in d milliseconds and *)
(* leaves the others due when they were.                                   *)
LEMMA RequestedTimes ==
  ASSUME NEW q, DeltaQueue(q), NEW c, NEW f, NEW d \in Nat
  PROVE  /\ DeltaQueue(Requested(q, c, f, d))
         /\ Times(Requested(q, c, f, d)) \subseteq Times(q) \cup {<<c, d>>}
         /\ Punctual(q) => Punctual(Requested(q, c, f, d))
<1> DEFINE i == Place(q, d)
           m == d - Due(q, i - 1)
           r == Requested(q, c, f, d)
           n == Len(q)
           g == [j \in 0 .. n + 1 |->
                   IF j < i THEN Due(q, j) ELSE IF j = i THEN d ELSE Due(q, j - 1)]
<1>1. HasTimes(q, n) /\ n \in Nat
  BY DEF DeltaQueue, HasTimes
<1>2. i \in 1 .. n + 1 /\ Due(q, i - 1) <= d /\ (i <= n => d < Due(q, i))
  BY PlaceIsBetween
<1>3. r = [j \in 1 .. n + 1 |->
             IF j < i THEN q[j]
             ELSE IF j = i THEN Entry(c, f, m)
             ELSE IF j = i + 1 THEN [q[i] EXCEPT !.more = @ - m]
             ELSE q[j - 1]]
  BY DEF Requested
<1>4. /\ Due(q, 0) = 0
      /\ \A k \in 0 .. n : Due(q, k) \in Int
      /\ \A k \in 1 .. n : Due(q, k) = Due(q, k - 1) + q[k].more
  BY <1>1, DueFacts, DueInt
<1>5. m \in Nat /\ m = d - Due(q, i - 1)
  BY <1>1, <1>2, <1>4, SMTT(30)
<1>6. /\ \A j \in 1 .. n : /\ q[j] = Entry(q[j].call, q[j].f, q[j].more)
                           /\ q[j].more \in Int
                           /\ j > 1 => q[j].more >= 0
  BY <1>1, SMTT(30) DEF DeltaQueue, HasTimes
<1> HIDE DEF r, m, i, n
<1>7. r = [j \in 1 .. n + 1 |-> r[j]] /\ Len(r) = n + 1
  BY <1>1, <1>3, OwnSeq, SMTT(30)
<1>8. ASSUME NEW j \in 1 .. n + 1, j < i
      PROVE  r[j] = q[j] /\ j \in 1 .. n
  BY <1>1, <1>2, <1>3, <1>8, SMTT(30)
<1>9. r[i] = Entry(c, f, m)
  BY <1>1, <1>2, <1>3, SMTT(30)
<1>10. ASSUME i <= n
       PROVE  /\ r[i + 1] = Entry(q[i].call, q[i].f, q[i].more - m)
              /\ q[i].more - m > 0 /\ q[i].more - m \in Int
  <2>1. r[i + 1] = [q[i] EXCEPT !.more = q[i].more - m]
    BY <1>1, <1>2, <1>3, <1>10, SMTT(30)
  <2>2. i \in 1 .. n
    BY <1>1, <1>2, <1>10, SMTT(30)
  <2>3. q[i] = Entry(q[i].call, q[i].f, q[i].more)
    BY <1>6, <2>2
  <2>4. r[i + 1] = Entry(q[i].call, q[i].f, q[i].more - m)
    BY <2>1, <2>3, EntryFields, SMTT(30)
  <2>5. Due(q, i) = Due(q, i - 1) + q[i].more /\ d < Due(q, i)
        /\ q[i].more \in Int /\ Due(q, i - 1) \in Int
    BY <1>1, <1>2, <1>4, <1>6, <2>2, SMTT(30)
  <2> QED BY <1>5, <2>4, <2>5, SMTT(30)
<1>11. ASSUME NEW j \in 1 .. n + 1, j > i + 1
       PROVE  r[j] = q[j - 1] /\ j - 1 \in 2 .. n
  BY <1>1, <1>2, <1>3, <1>11, SMTT(30)
<1>12. ASSUME NEW j \in 1 .. n + 1
       PROVE  /\ r[j] = Entry(r[j].call, r[j].f, r[j].more)
              /\ r[j].more \in Int
              /\ j > 1 => r[j].more >= 0
              /\ r[j].more = IF j < i THEN q[j].more ELSE IF j = i THEN m
                             ELSE IF j = i + 1 THEN q[i].more - m ELSE q[j - 1].more
              /\ r[j].call = IF j < i THEN q[j].call ELSE IF j = i THEN c ELSE q[j - 1].call
  <2>1. CASE j < i
    BY <1>6, <1>8, <2>1, SMTT(30)
  <2>2. CASE j = i
    BY <1>5, <1>9, <2>2, EntryFields, SMTT(30)
  <2>3. CASE j = i + 1
    BY <1>1, <1>2, <1>10, <2>3, EntryFields, SMTT(30)
  <2>4. CASE j > i + 1
    BY <1>1, <1>2, <1>6, <1>11, <2>4, SMTT(30)
  <2> QED BY <1>1, <1>2, <2>1, <2>2, <2>3, <2>4, SMTT(30)
<1>13. HasTimes(r, n + 1)
  BY <1>1, <1>12, SMTT(30) DEF HasTimes
<1>14. DeltaQueue(r)
  BY <1>1, <1>7, <1>12, <1>13, SMTT(30) DEF DeltaQueue
<1>15. g[0] = 0
  BY <1>1, <1>2, <1>4, SMTT(30)
<1>16. ASSUME NEW j \in 1 .. n + 1 PROVE g[j] = g[j - 1] + r[j].more
  <2>1. /\ j \in 0 .. n + 1 /\ j - 1 \in 0 .. n + 1
        /\ r[j].more = IF j < i THEN q[j].more ELSE IF j = i THEN m
                       ELSE IF j = i + 1 THEN q[i].more - m ELSE q[j - 1].more
    BY SMTT(30), <1>1, <1>12
  <2>2. CASE j < i
    BY <1>1, <1>2, <1>4, <2>1, <2>2, SMTT(30)
  <2>3. CASE j = i
    BY <1>1, <1>2, <1>4, <1>5, <2>1, <2>3, SMTT(30)
  <2>4. CASE j = i + 1
    BY <1>1, <1>2, <1>4, <1>5, <1>6, <2>1, <2>4, SMTT(30)
  <2>5. CASE j > i + 1
    BY <1>1, <1>2, <1>4, <2>1, <2>5, SMTT(30)
  <2> QED BY <1>1, <1>2, <2>2, <2>3, <2>4, <2>5, SMTT(30)
<1>17. \A j \in 1 .. n + 1 :
         Due(r, j) = IF j < i THEN Due(q, j) ELSE IF j = i THEN d ELSE Due(q, j - 1)
  <2>1. \A j \in 1 .. n + 1 : j \in 0 .. n + 1 /\
          g[j] = IF j < i THEN Due(q, j) ELSE IF j = i THEN d ELSE Due(q, j - 1)
    BY <1>1
  <2> HIDE DEF g
  <2>2. \A j \in 0 .. n + 1 : Due(r, j) = g[j]
    BY <1>13, <1>15, <1>16, DueIs, SMTT(30)
  <2> QED BY <2>1, <2>2
<1>18. Times(r) \subseteq Times(q) \cup {<<c, d>>}
  <2> SUFFICES ASSUME NEW j \in 1 .. n + 1
               PROVE  <<r[j].call, Due(r, j)>> \in Times(q) \cup {<<c, d>>}
    BY <1>7 DEF Times
  <2>1. CASE j < i
    BY <1>8, <1>12, <1>17, <2>1, SMTT(30) DEF Times, n
  <2>2. CASE j = i
    BY <1>12, <1>17, <2>2, SMTT(30)
  <2>3. CASE j > i
    <3>1. j - 1 \in 1 .. n
      BY <1>1, <1>2, <2>3, SMTT(30)
    <3>2. r[j].call = q[j - 1].call /\ Due(r, j) = Due(q, j - 1)
      BY <1>2, <1>12, <1>17, <2>3, SMTT(30)
    <3> QED BY <3>1, <3>2 DEF Times, n
  <2> QED BY <1>1, <1>2, <2>1, <2>2, <2>3, SMTT(30)
<1>19. ASSUME Punctual(q) PROVE r[1].more >= 0
  <2>1. CASE i = 1
    BY <1>1, <1>5, <1>12, <2>1, SMTT(30)
  <2>2. CASE i # 1
    <3>1. r[1] = q[1] /\ 1 \in 1 .. n
      BY <1>1, <1>2, <1>8, <2>2, SMTT(30)
    <3>2. q # << >>
      BY <3>1, SMTT(30) DEF n
    <3> QED BY <1>19, <3>1, <3>2 DEF Punctual
  <2> QED BY <2>1, <2>2
<1> QED BY <1>14, <1>18, <1>19 DEF Punctual, r
(* The queue r is q without the entry at i, whose time passes to the next  *)
(* one: the others are due when they were.                                 *)
Removed(q, i, r) ==
  /\ i \in 1 .. Len(q)
  /\ r = [j \in 1 .. Len(q) - 1 |-> r[j]]
  /\ \A j \in 1 .. Len(q) - 1 :
       r[j] = IF j < i THEN q[j]
              ELSE IF j = i THEN [q[i + 1] EXCEPT !.more = @ + q[i].more]
              ELSE q[j + 1]

LEMMA WithoutEntry ==
  ASSUME NEW q, DeltaQueue(q), NEW i, NEW r, Removed(q, i, r)
  PROVE  /\ DeltaQueue(r)
         /\ Len(r) = Len(q) - 1
         /\ \A j \in 1 .. Len(r) :
              LET k == IF j < i THEN j ELSE j + 1
              IN  k \in 1 .. Len(q) /\ r[j].call = q[k].call /\ Due(r, j) = Due(q, k)
         /\ Punctual(q) => Punctual(r)
<1> DEFINE n == Len(q) - 1
           g == [j \in 0 .. n |-> IF j = 0 THEN 0 ELSE IF j < i THEN Due(q, j) ELSE Due(q, j + 1)]
<1>1. HasTimes(q, n + 1) /\ n \in Nat /\ Len(q) = n + 1 /\ i \in 1 .. n + 1
  BY SMTT(30) DEF DeltaQueue, HasTimes, Removed
<1>2. /\ Due(q, 0) = 0
      /\ \A k \in 0 .. n + 1 : Due(q, k) \in Int
      /\ \A k \in 1 .. n + 1 : Due(q, k) = Due(q, k - 1) + q[k].more
  BY <1>1, DueFacts, DueInt, SMTT(30)
<1>3. \A j \in 1 .. n + 1 : /\ q[j] = Entry(q[j].call, q[j].f, q[j].more)
                            /\ q[j].more \in Int
                            /\ j > 1 => q[j].more >= 0
  BY <1>1, SMTT(30) DEF DeltaQueue, HasTimes
<1>4. r = [j \in 1 .. n |-> r[j]] /\ Len(r) = n
  BY <1>1, OwnSeq, SMTT(30) DEF Removed
<1>5. \A j \in 1 .. n : r[j] = IF j < i THEN q[j]
                               ELSE IF j = i THEN [q[i + 1] EXCEPT !.more = @ + q[i].more]
                               ELSE q[j + 1]
  BY DEF Removed
<1> HIDE DEF n
<1>6. ASSUME NEW j \in 1 .. n
      PROVE  /\ r[j] = Entry(r[j].call, r[j].f, r[j].more)
             /\ r[j].more \in Int
             /\ j > 1 => r[j].more >= 0
             /\ r[j].more = IF j < i THEN q[j].more
                            ELSE IF j = i THEN q[i + 1].more + q[i].more ELSE q[j + 1].more
             /\ r[j].call = IF j < i THEN q[j].call ELSE q[j + 1].call
  <2>1. CASE j < i
    <3>1. r[j] = q[j] /\ j \in 1 .. n + 1
      BY <1>1, <1>5, <2>1, SMTT(30)
    <3> QED BY <1>3, <2>1, <3>1, SMTT(30)
  <2>2. CASE j = i
    <3>1. r[j] = [q[i + 1] EXCEPT !.more = q[i + 1].more + q[i].more] /\ i + 1 \in 1 .. n + 1
      BY <1>1, <1>5, <2>2, SMTT(30)
    <3>2. q[i + 1] = Entry(q[i + 1].call, q[i + 1].f, q[i + 1].more)
      BY <1>3, <3>1
    <3>3. r[j] = Entry(q[i + 1].call, q[i + 1].f, q[i + 1].more + q[i].more)
      BY <3>1, <3>2, EntryFields, SMTT(30)
    <3>4. /\ q[i + 1].more \in Int /\ q[i + 1].more >= 0
          /\ q[i].more \in Int /\ (j > 1 => q[i].more >= 0)
      BY <1>1, <1>3, <2>2, <3>1, SMTT(30)
    <3> QED BY <2>2, <3>3, <3>4, EntryFields, SMTT(30)
  <2>3. CASE j > i
    <3>1. r[j] = q[j + 1] /\ j + 1 \in 1 .. n + 1 /\ j + 1 > 1
      BY <1>1, <1>5, <2>3, SMTT(30)
    <3> QED BY <1>1, <1>3, <2>3, <3>1, SMTT(30)
  <2> QED BY <1>1, <2>1, <2>2, <2>3, SMTT(30)
<1>7. HasTimes(r, n)
  BY <1>1, <1>6 DEF HasTimes
<1>8. DeltaQueue(r)
  BY <1>1, <1>4, <1>6, <1>7, SMTT(30) DEF DeltaQueue
<1>9. g[0] = 0
  BY <1>1
<1>10. ASSUME NEW j \in 1 .. n PROVE g[j] = g[j - 1] + r[j].more
  <2>1. /\ j \in 0 .. n /\ j - 1 \in 0 .. n
        /\ r[j].more = IF j < i THEN q[j].more
                       ELSE IF j = i THEN q[i + 1].more + q[i].more ELSE q[j + 1].more
    BY SMTT(30), <1>1, <1>6
  <2>2. CASE j < i
    <3>1. j \in 1 .. n + 1 /\ j - 1 < i
      BY <1>1, <2>2, SMTT(30)
    <3>2. Due(q, j) = Due(q, j - 1) + q[j].more
      BY <1>2, <3>1
    <3>3. g[j] = Due(q, j) /\ (j - 1 # 0 => g[j - 1] = Due(q, j - 1)) /\ (j - 1 = 0 => g[j - 1] = 0)
      BY <1>1, <2>1, <2>2, <3>1, SMTT(30)
    <3>4. Due(q, 0) = 0
      BY <1>2
    <3> QED BY <2>1, <2>2, <3>2, <3>3, <3>4
  <2>3. CASE j = i
    <3>1. /\ Due(q, i + 1) = Due(q, i) + q[i + 1].more
          /\ Due(q, i) = Due(q, i - 1) + q[i].more
          /\ Due(q, i - 1) \in Int /\ q[i].more \in Int /\ q[i + 1].more \in Int
      <4>1. /\ i \in 1 .. n + 1 /\ i + 1 \in 1 .. n + 1 /\ i - 1 \in 0 .. n + 1
            /\ (i + 1) - 1 = i
        BY <1>1, <2>3, SMTT(30)
      <4>2. /\ Due(q, i + 1) = Due(q, (i + 1) - 1) + q[i + 1].more
            /\ Due(q, i) = Due(q, i - 1) + q[i].more
            /\ Due(q, i - 1) \in Int /\ q[i].more \in Int /\ q[i + 1].more \in Int
        BY <1>2, <1>3, <4>1
      <4> QED BY <4>1, <4>2
    <3>2. g[j] = Due(q, i + 1) /\ g[j - 1] = Due(q, i - 1)
      BY <1>1, <1>2, <2>1, <2>3, SMTT(30)
    <3> QED BY <2>1, <2>3, <3>1, <3>2, SMTT(30)
  <2>4. CASE j > i
    BY <1>1, <1>2, <2>1, <2>4, SMTT(30)
  <2> QED BY <1>1, <2>2, <2>3, <2>4, SMTT(30)
<1>11. \A j \in 1 .. n : Due(r, j) = IF j < i THEN Due(q, j) ELSE Due(q, j + 1)
  <2>1. \A j \in 1 .. n : j \in 0 .. n /\ j # 0 /\
          g[j] = IF j = 0 THEN 0 ELSE IF j < i THEN Due(q, j) ELSE Due(q, j + 1)
    BY <1>1
  <2> HIDE DEF g
  <2>2. \A j \in 0 .. n : Due(r, j) = g[j]
    BY <1>7, <1>9, <1>10, DueIs, SMTT(30)
  <2> QED BY <2>1, <2>2
<1>12. ASSUME Punctual(q), r # << >> PROVE r[1].more >= 0
  <2>1. 1 \in 1 .. n
    <3>1. n # 0
      BY <1>4, <1>12, SMTT(30)
    <3> QED BY <1>1, <3>1
  <2>2. q[1].more >= 0
    <3>1. q # << >>
      BY <1>1, SMTT(30)
    <3> QED BY <1>12, <3>1 DEF Punctual
  <2>3. q[1].more \in Int /\ q[2].more \in Int /\ q[2].more >= 0
    BY <1>1, <1>3, <2>1, SMTT(30)
  <2>4. r[1].more = IF 1 < i THEN q[1].more
                    ELSE IF 1 = i THEN q[i + 1].more + q[i].more ELSE q[2].more
    BY SMTT(30), <1>6, <2>1
  <2> QED BY <1>1, <2>2, <2>3, <2>4, SMTT(30)
<1>13. \A j \in 1 .. n :
         LET k == IF j < i THEN j ELSE j + 1
         IN  k \in 1 .. n + 1 /\ r[j].call = q[k].call /\ Due(r, j) = Due(q, k)
  BY <1>1, <1>6, <1>11, SMTT(30)
<1> QED BY <1>1, <1>4, <1>8, <1>12, <1>13, SMTT(30) DEF Punctual
(* phantom_undo_timed_call leaves the other calls due when they were.      *)
LEMMA UndoneTimes ==
  ASSUME NEW q, DeltaQueue(q), NEW c
  PROVE  /\ DeltaQueue(Undone(q, c))
         /\ Times(Undone(q, c)) \subseteq Times(q)
         /\ Punctual(q) => Punctual(Undone(q, c))
<1>1. CASE c \notin Queued(q)
  BY <1>1 DEF Undone
<1>2. CASE c \in Queued(q)
  <2> DEFINE i == CHOOSE i \in 1 .. Len(q) : q[i].call = c
             r == Undone(q, c)
  <2>1. i \in 1 .. Len(q)
    BY <1>2 DEF Queued
  <2>2. r = [j \in 1 .. Len(q) - 1 |->
               IF j < i THEN q[j]
               ELSE IF j = i THEN [q[i + 1] EXCEPT !.more = @ + q[i].more]
               ELSE q[j + 1]]
    BY <1>2 DEF Undone
  <2> HIDE DEF i, r
  <2>3. Removed(q, i, r)
    BY <2>1, <2>2 DEF Removed
  <2>4. DeltaQueue(r) /\ (Punctual(q) => Punctual(r))
    BY <2>3, WithoutEntry
  <2>5. ASSUME NEW j \in 1 .. Len(r) PROVE <<r[j].call, Due(r, j)>> \in Times(q)
    <3> DEFINE k == IF j < i THEN j ELSE j + 1
    <3>1. k \in 1 .. Len(q) /\ r[j].call = q[k].call /\ Due(r, j) = Due(q, k)
      BY <2>3, WithoutEntry
    <3> HIDE DEF k
    <3> QED BY <3>1 DEF Times
  <2>6. Times(r) \subseteq Times(q)
    BY <2>5 DEF Times
  <2> QED BY <2>4, <2>6 DEF r
<1> QED BY <1>1, <1>2

(* Detaching a head that is due leaves the other calls due when they were. *)
LEMMA DetachedTimes ==
  ASSUME NEW S, NEW q \in Seq(S), DeltaQueue(q), q # << >>, q[1].more <= 0
  PROVE  /\ DeltaQueue(Detached(q))
         /\ Times(Detached(q)) \subseteq Times(q)
<1> DEFINE r == Detached(q)
           n == Len(q) - 1
           x == Tail(q)
<1>1. n \in Nat /\ Len(q) = n + 1 /\ 1 \in 1 .. Len(q)
  BY SMTT(30)
<1>2. x = [j \in 1 .. n |-> x[j]] /\ \A j \in 1 .. n : x[j] = q[j + 1]
  <2>1. x \in Seq(S) /\ Len(x) = n /\ \A j \in 1 .. Len(x) : x[j] = q[j + 1]
    BY SMTT(30)
  <2> HIDE DEF x, n
  <2> QED BY <2>1, SMTT(30)
<1>3. /\ r = [j \in 1 .. n |-> r[j]]
      /\ \A j \in 1 .. n :
           r[j] = IF j = 1 THEN [q[2] EXCEPT !.more = @ + q[1].more] ELSE q[j + 1]
  <2>1. CASE Len(q) = 1 \/ q[1].more >= 0
    <3>1. r = x
      BY <2>1 DEF Detached
    <3>2. ASSUME 1 \in 1 .. n PROVE [q[2] EXCEPT !.more = @ + q[1].more] = q[2]
      <4>1. /\ q[2] = Entry(q[2].call, q[2].f, q[2].more)
            /\ q[1].more \in Int /\ q[2].more \in Int
        BY <1>1, <3>2, SMTT(30) DEF DeltaQueue, HasTimes
      <4>2. q[1].more >= 0
        BY <1>1, <2>1, <3>2, SMTT(30)
      <4>3. q[2].more + q[1].more = q[2].more
        BY <4>1, <4>2, SMTT(30)
      <4> QED BY <4>1, <4>3, EntryFields, SMTT(30)
    <3> HIDE DEF r, x, n
    <3> QED BY <1>2, <3>1, <3>2, SMTT(30)
  <2>2. CASE ~ (Len(q) = 1 \/ q[1].more >= 0)
    <3> DEFINE y == [x[1] EXCEPT !.more = @ + q[1].more]
    <3>1. r = [x EXCEPT ![1] = y]
      BY <2>2 DEF Detached
    <3>2. 1 \in 1 .. n /\ x[1] = q[2]
      BY <1>1, <1>2, <2>2, SMTT(30)
    <3>3. y = [q[2] EXCEPT !.more = @ + q[1].more]
      BY <3>2
    <3> HIDE DEF r, x, n, y
    <3>4. r = [j \in 1 .. n |-> r[j]] /\ \A j \in 1 .. n : r[j] = IF j = 1 THEN y ELSE x[j]
      <4>1. x = [j \in 1 .. n |-> x[j]] /\ 1 \in 1 .. n
        BY <1>2, <3>2
      <4> QED BY <1>1, <3>1, <4>1, FirstChanged
    <3> QED BY <1>2, <3>3, <3>4
  <2> QED BY <2>1, <2>2
<1> HIDE DEF r
<1>4. Removed(q, 1, r)
  <2>1. ASSUME NEW j \in 1 .. n
        PROVE  r[j] = IF j < 1 THEN q[j]
                      ELSE IF j = 1 THEN [q[1 + 1] EXCEPT !.more = @ + q[1].more]
                      ELSE q[j + 1]
    BY <1>3, SMTT(30)
  <2> QED BY <1>1, <1>3, <2>1 DEF Removed
<1>5. ASSUME NEW j \in 1 .. Len(r) PROVE <<r[j].call, Due(r, j)>> \in Times(q)
  <2> DEFINE k == IF j < 1 THEN j ELSE j + 1
  <2>1. k \in 1 .. Len(q) /\ r[j].call = q[k].call /\ Due(r, j) = Due(q, k)
    BY SMTT(30), <1>4, WithoutEntry
  <2> HIDE DEF k
  <2> QED BY <2>1 DEF Times
<1>6. Times(r) \subseteq Times(q)
  BY <1>5 DEF Times
<1>7. DeltaQueue(r)
  BY <1>4, WithoutEntry
<1> QED BY <1>6, <1>7 DEF r

(* Counting down the head makes every call due a millisecond earlier.      *)
LEMMA CountedTimes ==
  ASSUME NEW S, NEW q \in Seq(S), DeltaQueue(q), q # << >>
  PROVE  LET r == [q EXCEPT ![1].more = @ - 1]
         IN  /\ DeltaQueue(r)
             /\ Len(r) = Len(q)
             /\ \A j \in 1 .. Len(q) : r[j].call = q[j].call /\ Due(r, j) = Due(q, j) - 1
<1> DEFINE r == [q EXCEPT ![1].more = @ - 1]
           n == Len(q)
           g == [j \in 0 .. n |-> IF j = 0 THEN 0 ELSE Due(q, j) - 1]
<1>1. n \in Nat /\ 1 \in 1 .. n /\ q = [j \in 1 .. n |-> q[j]] /\ HasTimes(q, n)
  BY SMTT(30) DEF DeltaQueue
<1>2. /\ Due(q, 0) = 0
      /\ \A k \in 0 .. n : Due(q, k) \in Int
      /\ \A k \in 1 .. n : Due(q, k) = Due(q, k - 1) + q[k].more
  BY <1>1, DueFacts, DueInt
<1>3. \A j \in 1 .. n : /\ q[j] = Entry(q[j].call, q[j].f, q[j].more)
                        /\ q[j].more \in Int
                        /\ j > 1 => q[j].more >= 0
  BY <1>1, SMTT(30) DEF DeltaQueue, HasTimes
<1>4. /\ r = [j \in 1 .. n |-> r[j]]
      /\ r[1] = [q[1] EXCEPT !.more = @ - 1]
      /\ \A j \in 1 .. n : j # 1 => r[j] = q[j]
  <2> DEFINE y == [q[1] EXCEPT !.more = @ - 1]
  <2>1. r = [q EXCEPT ![1] = y]
    OBVIOUS
  <2> HIDE DEF n, r, y
  <2>2. /\ r = [j \in 1 .. n |-> r[j]]
        /\ r[1] = y
        /\ \A j \in 1 .. n : j # 1 => r[j] = q[j]
    BY <1>1, <2>1, FirstChanged
  <2> QED BY <2>2 DEF y
<1> HIDE DEF r
<1>5. Len(r) = n
  BY <1>1, <1>4, OwnSeq
<1> HIDE DEF n
<1>6. r[1] = Entry(q[1].call, q[1].f, q[1].more - 1)
  BY <1>1, <1>3, <1>4, EntryFields, SMTT(30)
<1>7. ASSUME NEW j \in 1 .. n
      PROVE  /\ r[j] = Entry(r[j].call, r[j].f, r[j].more)
             /\ r[j].more \in Int
             /\ j > 1 => r[j].more >= 0
             /\ r[j].more = IF j = 1 THEN q[j].more - 1 ELSE q[j].more
             /\ r[j].call = q[j].call
  <2>1. CASE j = 1
    BY <1>3, <1>6, <2>1, EntryFields, SMTT(30)
  <2>2. CASE j # 1
    BY <1>3, <1>4, <2>2, SMTT(30)
  <2> QED BY <2>1, <2>2
<1>8. HasTimes(r, n)
  BY <1>1, <1>7 DEF HasTimes
<1>9. DeltaQueue(r)
  BY <1>1, <1>5, <1>7, <1>8, SMTT(30) DEF DeltaQueue
<1>10. g[0] = 0
  BY <1>1
<1>11. ASSUME NEW j \in 1 .. n PROVE g[j] = g[j - 1] + r[j].more
  <2>1. /\ j \in 0 .. n /\ j - 1 \in 0 .. n
        /\ Due(q, j) = Due(q, j - 1) + q[j].more
        /\ Due(q, j - 1) \in Int /\ q[j].more \in Int
        /\ r[j].more = IF j = 1 THEN q[j].more - 1 ELSE q[j].more
    BY <1>1, <1>2, <1>3, <1>7, SMTT(30)
  <2>2. CASE j = 1
    BY <1>2, <2>1, <2>2, SMTT(30)
  <2>3. CASE j # 1
    BY <2>1, <2>3, SMTT(30)
  <2> QED BY <2>2, <2>3
<1>12. ASSUME NEW j \in 1 .. n PROVE Due(r, j) = Due(q, j) - 1
  <2>1. j \in 0 .. n /\ g[j] = Due(q, j) - 1
    BY <1>1
  <2> HIDE DEF g
  <2>2. \A k \in 0 .. n : Due(r, k) = g[k]
    BY SMTT(30), <1>8, <1>10, <1>11, DueIs
  <2> QED BY <2>1, <2>2
<1> QED BY <1>5, <1>7, <1>9, <1>12 DEF r, n


-----------------------------------------------------------------------------
(* The times.  The timed calls are a delta queue that agrees with what is  *)
(* left of every call, and its head is overdue only while the timer        *)
(* interrupt makes the calls that are due.                                 *)
OnTime ==
  /\ DeltaQueue(tcEventQ)
  /\ ~ ticking => Punctual(tcEventQ)
  /\ \A p \in Times(tcEventQ) : p[1] \in Thread \cup Periodic /\ left[p[1]] = p[2]
  /\ left \in [Thread \cup Periodic -> Int]
  /\ limit \in [Thread -> Nat \cup {Forever}]

(* A call of the queue is one of Times.                                    *)
LEMMA TimesQueued ==
  ASSUME NEW q
  PROVE  /\ \A p \in Times(q) : p[1] \in Queued(q)
         /\ \A c \in Queued(q) : \E p \in Times(q) : p[1] = c
<1>1. ASSUME NEW p \in Times(q) PROVE p[1] \in Queued(q)
  <2>1. PICK i \in 1 .. Len(q) : p = <<q[i].call, Due(q, i)>>
    BY DEF Times
  <2> QED BY <2>1 DEF Queued
<1>2. ASSUME NEW c \in Queued(q) PROVE \E p \in Times(q) : p[1] = c
  <2>1. PICK i \in 1 .. Len(q) : c = q[i].call
    BY DEF Queued
  <2>2. <<q[i].call, Due(q, i)>> \in Times(q)
    BY DEF Times
  <2> QED BY <2>1, <2>2
<1> QED BY <1>1, <1>2

(* The calls of a queue that has lost the call c.                          *)
LEMMA NotQueued ==
  ASSUME NEW r, NEW S, NEW c, Calls(r) = {p \in S : p[1] # c}
  PROVE  c \notin Queued(r)
<1> SUFFICES ASSUME NEW i \in 1 .. Len(r), r[i].call = c PROVE FALSE
  BY DEF Queued
<1>1. <<r[i].call, r[i].f>> \in Calls(r)
  BY DEF Calls
<1> QED BY <1>1, SMTT(30)

(* A call that is not queued is requested.                                 *)
LEMMA Requests ==
  ASSUME OnTime, NEW q, DeltaQueue(q), Times(q) \subseteq Times(tcEventQ),
         ~ ticking => Punctual(q),
         NEW c \in Thread \cup Periodic, c \notin Queued(q), NEW f, NEW d \in Nat,
         tcEventQ' = Requested(q, c, f, d), left' = [left EXCEPT ![c] = d],
         ticking' = ticking, limit' \in [Thread -> Nat \cup {Forever}]
  PROVE  OnTime'
<1>1. /\ DeltaQueue(tcEventQ') /\ Times(tcEventQ') \subseteq Times(q) \cup {<<c, d>>}
      /\ Punctual(q) => Punctual(tcEventQ')
  BY RequestedTimes
<1>2. left \in [Thread \cup Periodic -> Int]
  BY DEF OnTime
<1>3. left' \in [Thread \cup Periodic -> Int] /\ left'[c] = d
      /\ \A e \in Thread \cup Periodic : e # c => left'[e] = left[e]
  BY <1>2, SMTT(30)
<1>4. ASSUME NEW p \in Times(tcEventQ')
      PROVE  p[1] \in Thread \cup Periodic /\ left'[p[1]] = p[2]
  <2>1. CASE p = <<c, d>>
    BY <1>3, <2>1
  <2>2. CASE p \in Times(q)
    <3>1. p[1] \in Thread \cup Periodic /\ left[p[1]] = p[2]
      BY <2>2 DEF OnTime
    <3>2. p[1] # c
      BY <2>2, TimesQueued
    <3> QED BY <1>3, <3>1, <3>2
  <2> QED BY <1>1, <2>1, <2>2
<1> QED BY <1>1, <1>3, <1>4 DEF OnTime

(* A call is undone, or made: nothing is left of it.                       *)
LEMMA Removes ==
  ASSUME OnTime, DeltaQueue(tcEventQ'), Times(tcEventQ') \subseteq Times(tcEventQ),
         ~ ticking => Punctual(tcEventQ'), ticking' = ticking, limit' = limit,
         NEW c, c \notin Queued(tcEventQ'), left' = left \/ left' = [left EXCEPT ![c] = 0]
  PROVE  OnTime'
<1>1. left \in [Thread \cup Periodic -> Int]
  BY DEF OnTime
<1>2. left' \in [Thread \cup Periodic -> Int]
      /\ \A e \in Thread \cup Periodic : e # c => left'[e] = left[e]
  BY <1>1, SMTT(30)
<1>3. ASSUME NEW p \in Times(tcEventQ')
      PROVE  p[1] \in Thread \cup Periodic /\ left'[p[1]] = p[2]
  <2>1. p[1] \in Thread \cup Periodic /\ left[p[1]] = p[2]
    BY DEF OnTime
  <2>2. p[1] # c
    BY SMTT(30), TimesQueued
  <2> QED BY <1>2, <2>1, <2>2
<1> QED BY <1>2, <1>3 DEF OnTime


(* A thread that is awake sets its timer.                                  *)
LEMMA SetsTimer ==
  ASSUME IInv, OnTime, NEW t \in Thread, sleep[t] = "none", NEW f, NEW d \in Nat,
         SetTimer(t, f, d), limit' \in [Thread -> Nat \cup {Forever}]
  PROVE  OnTime'
<1>1. t \notin Queued(tcEventQ)
  <2> SUFFICES ASSUME NEW i \in 1 .. Len(tcEventQ), tcEventQ[i].call = t PROVE FALSE
    BY DEF Queued
  <2>1. <<t, tcEventQ[i].f>> \in Calls(tcEventQ)
    BY DEF Calls
  <2> QED BY <2>1 DEF IInv, Timers
<1>2. DeltaQueue(tcEventQ) /\ (~ ticking => Punctual(tcEventQ))
  BY DEF OnTime
<1> QED BY <1>1, <1>2, Requests DEF SetTimer

(* A timed call is undone.                                                 *)
LEMMA UndoesTimer ==
  ASSUME IInv, OnTime, NEW t, tcEventQ' = Undone(tcEventQ, t), UNCHANGED <<ticking, limit>>,
         left' = left \/ left' = [left EXCEPT ![t] = 0]
  PROVE  OnTime'
<1>1. Calls(tcEventQ') = {p \in Calls(tcEventQ) : p[1] # t}
  BY UndoneCalls, SMTT(30) DEF IInv, Timers
<1>2. t \notin Queued(tcEventQ')
  BY <1>1, NotQueued
<1>3. /\ DeltaQueue(tcEventQ') /\ Times(tcEventQ') \subseteq Times(tcEventQ)
      /\ ~ ticking => Punctual(tcEventQ')
  BY UndoneTimes DEF OnTime
<1> QED BY <1>2, <1>3, Removes

(* The head that is due is detached.                                       *)
LEMMA DetachesHead ==
  ASSUME IInv, OnTime, HeadDue
  PROVE  LET q == Detached(tcEventQ)
         IN  /\ DeltaQueue(q) /\ Times(q) \subseteq Times(tcEventQ)
             /\ tcEventQ[1].call \notin Queued(q)
             /\ ticking /\ tcEventQ[1].call \in Queued(tcEventQ)
<1>1. tcEventQ # << >> /\ tcEventQ[1].more <= 0 /\ ticking
  BY DEF HeadDue
<1>2. tcEventQ \in Seq(Members(tcEventQ)) /\ Entries(tcEventQ)
  BY DEF IInv, Timers, Entries
<1>3. DeltaQueue(Detached(tcEventQ)) /\ Times(Detached(tcEventQ)) \subseteq Times(tcEventQ)
  BY <1>1, <1>2, DetachedTimes DEF OnTime
<1>4. tcEventQ[1].call \notin Queued(Detached(tcEventQ))
  BY <1>1, <1>2, DetachedCalls, NotQueued
<1>5. 1 \in 1 .. Len(tcEventQ)
  BY <1>1, <1>2, SMTT(30)
<1> QED BY <1>1, <1>3, <1>4, <1>5 DEF Queued

(* The timer interrupt calls a function of a thread.                       *)
LEMMA FiresTimer ==
  ASSUME IInv, OnTime, NEW t, NEW f, Fires(t, f), limit' = limit
  PROVE  OnTime'
BY DetachesHead, Removes DEF Fires

(* The steps of the timer interrupt, and the periodic calls.               *)
LEMMA TimerTimes ==
  ASSUME IInv, OnTime, limit' = limit,
         \/ TickBegin \/ FirePeriodic \/ TickEnd
         \/ \E p \in Periodic : RequestPeriodic(p) \/ UndoPeriodic(p)
  PROVE  OnTime'
<1>1. tcEventQ \in Seq(Members(tcEventQ)) /\ DeltaQueue(tcEventQ)
  BY DEF IInv, Timers, Entries, OnTime
<1>2. limit' \in [Thread -> Nat \cup {Forever}] /\ Period \in Nat
  BY PeriodAssumption DEF OnTime
<1>3. CASE TickBegin
  <2> DEFINE q == tcEventQ
             r == [q EXCEPT ![1].more = @ - 1]
  <2>1. q # << >> /\ tcEventQ' = r /\ ticking'
    BY <1>3 DEF TickBegin
  <2>2. /\ DeltaQueue(r) /\ Len(r) = Len(q)
        /\ \A j \in 1 .. Len(q) : r[j].call = q[j].call /\ Due(r, j) = Due(q, j) - 1
    BY <1>1, <2>1, CountedTimes
  <2>3. left' = [e \in Thread \cup Periodic |-> IF e \in Queued(q) THEN left[e] - 1 ELSE left[e]]
    BY <1>3 DEF TickBegin, OnTime
  <2>4. left' \in [Thread \cup Periodic -> Int]
    BY <2>3, SMTT(30) DEF OnTime
  <2> HIDE DEF r
  <2>5. ASSUME NEW p \in Times(r)
        PROVE  p[1] \in Thread \cup Periodic /\ left'[p[1]] = p[2]
    <3>1. PICK j \in 1 .. Len(q) : p = <<r[j].call, Due(r, j)>>
      BY <2>2 DEF Times
    <3>2. p[1] = q[j].call /\ p[2] = Due(q, j) - 1
      BY <2>2, <3>1
    <3>3. <<q[j].call, Due(q, j)>> \in Times(q) /\ q[j].call \in Queued(q)
      BY DEF Times, Queued
    <3>4. q[j].call \in Thread \cup Periodic /\ left[q[j].call] = Due(q, j)
      BY <3>3 DEF OnTime
    <3> QED BY <2>3, <3>2, <3>3, <3>4
  <2> QED BY <1>2, <2>1, <2>2, <2>4, <2>5 DEF OnTime
<1>4. CASE TickEnd
  <2>1. /\ ~ (ticking /\ tcEventQ # << >> /\ tcEventQ[1].more <= 0) /\ ticking
        /\ UNCHANGED <<tcEventQ, left>>
    BY <1>4 DEF TickEnd, HeadDue
  <2>2. Punctual(tcEventQ)
    <3> SUFFICES ASSUME tcEventQ # << >> PROVE tcEventQ[1].more >= 0
      BY DEF Punctual
    <3>1. tcEventQ[1].more \in Int
      BY <1>1, SMTT(30) DEF DeltaQueue, HasTimes
    <3> QED BY <2>1, <3>1, SMTT(30)
  <2> QED BY <2>1, <2>2 DEF OnTime
<1>5. CASE FirePeriodic
  <2> DEFINE e == tcEventQ[1]
  <2>1. /\ HeadDue /\ e.call \in Periodic /\ UNCHANGED ticking
        /\ tcEventQ' = Requested(Detached(tcEventQ), e.call, e.f, Period)
        /\ left' = [left EXCEPT ![e.call] = Period]
    BY <1>5 DEF FirePeriodic
  <2>2. /\ DeltaQueue(Detached(tcEventQ)) /\ Times(Detached(tcEventQ)) \subseteq Times(tcEventQ)
        /\ e.call \notin Queued(Detached(tcEventQ)) /\ ticking
    BY <2>1, DetachesHead
  <2> HIDE DEF e
  <2> QED BY <1>2, <2>1, <2>2, Requests
<1>6. ASSUME NEW p \in Periodic, RequestPeriodic(p) PROVE OnTime'
  BY <1>2, <1>6, Requests DEF RequestPeriodic, OnTime
<1>7. ASSUME NEW p \in Periodic, UndoPeriodic(p) PROVE OnTime'
  BY <1>7, UndoesTimer DEF UndoPeriodic
<1> QED BY <1>3, <1>4, <1>5, <1>6, <1>7


(* The timeout of a wait for the semaphore is at least a millisecond.      *)
LEMMA MsecNat == \A u \in Usecs : Msec(u) \in Nat
<1> SUFFICES ASSUME NEW u \in Nat PROVE Msec(u) \in Nat
  BY ThreadAssumption
<1>1. CASE u = 0
  BY <1>1 DEF Msec
<1>2. CASE u # 0
  <2>1. u - 1 \in Nat
    BY <1>2
  <2>2. (u - 1) \div 1000 \in Nat
    BY <2>1, SMTT(30)
  <2> QED BY <1>2, <2>2, SMTT(30) DEF Msec
<1> QED BY <1>1, <1>2

(* A turn of the loop of hal_sem_acquire_etc.                              *)
LEMMA AcquireTimes ==
  ASSUME IInv, OnTime, NEW t \in Thread, sleep[t] = "none", NEW v,
         NEW d \in Nat \cup {Forever}, Acquire(t, v, d)
  PROVE  OnTime'
<1>1. limit \in [Thread -> Nat \cup {Forever}]
  BY DEF OnTime
<1>2. limit' \in [Thread -> Nat \cup {Forever}]
  BY <1>1, SMTT(30) DEF Acquire
<1>3. CASE UNCHANGED timer
  BY <1>2, <1>3 DEF OnTime, timer
<1>4. CASE d # Forever /\ SetTimer(t, "sem", d)
  <2>1. d \in Nat
    BY <1>4
  <2> QED BY <1>2, <1>4, <2>1, SetsTimer
<1> QED BY <1>3, <1>4 DEF Acquire

(* Every step keeps the times.                                             *)
LEMMA NextOnTime == IInv /\ OnTime /\ [Next]_vars => OnTime'
<1> SUFFICES ASSUME IInv, OnTime, [Next]_vars PROVE OnTime'
  OBVIOUS
<1>1. CASE UNCHANGED <<timer, limit>>
  BY <1>1 DEF OnTime, timer
<1>2. limit \in [Thread -> Nat \cup {Forever}] /\ \A d \in Msecs : d \in Nat
  BY ThreadAssumption DEF OnTime
<1>3. ASSUME NEW t \in Thread, Step(t) PROVE OnTime'
  <2>1. CASE \/ hal_mutex_lock(t) \/ hal_mutex_unlock(t) \/ hal_cond_wait(t) \/ Relock(t)
             \/ ExitWaits(t) \/ hal_sem_zero(t) \/ phantom_create_thread(t)
    BY <1>1, <2>1 DEF hal_mutex_lock, hal_mutex_unlock, hal_cond_wait, Relock, ExitWaits,
                      hal_sem_zero, phantom_create_thread
  <2>2. CASE Exit(t) \/ ExitGoesOn(t)
    BY <1>1, <2>2 DEF Exit, ExitGoesOn, Die
  <2>3. ASSUME NEW d \in Msecs, hal_cond_timedwait(t, d) PROVE OnTime'
    BY <1>2, <2>3, SetsTimer DEF hal_cond_timedwait, Runs
  <2>4. ASSUME NEW d \in Msecs, hal_sleep_msec(t, d) PROVE OnTime'
    BY <1>2, <2>4, SetsTimer DEF hal_sleep_msec, Runs, waits
  <2>5. CASE hal_sem_acquire(t)
    BY <2>5, AcquireTimes DEF hal_sem_acquire, Runs
  <2>6. CASE AcquireAgain(t)
    <3>1. CASE t \in timedout
      <4>1. limit' = [limit EXCEPT ![t] = Forever] /\ UNCHANGED timer
        BY <2>6, <3>1 DEF AcquireAgain
      <4>2. limit' \in [Thread -> Nat \cup {Forever}]
        BY <1>2, <4>1, SMTT(30)
      <4> QED BY <4>1, <4>2 DEF OnTime, timer
    <3>2. CASE t \notin timedout
      <4>1. limit[t] \in Nat \cup {Forever}
        BY <1>2
      <4> QED BY <2>6, <3>2, <4>1, AcquireTimes DEF AcquireAgain, Runs
    <3> QED BY <3>1, <3>2
  <2>7. ASSUME NEW u \in Usecs \cup {Forever}, NEW zero \in BOOLEAN,
               hal_sem_acquire_etc(t, u, zero)
        PROVE  OnTime'
    <3> DEFINE d == IF u = Forever THEN Forever ELSE Msec(u)
               v == IF zero THEN 0 ELSE value
    <3>1. d \in Nat \cup {Forever}
      BY MsecNat
    <3>2. Acquire(t, v, d) /\ sleep[t] = "none"
      BY <2>7 DEF hal_sem_acquire_etc, Runs
    <3> HIDE DEF d, v
    <3> QED BY <3>1, <3>2, AcquireTimes
  <2> QED BY <1>3, <2>1, <2>2, <2>3, <2>4, <2>5, <2>6, <2>7 DEF Step
<1>4. CASE hal_cond_signal
  BY <1>4, UndoesTimer DEF hal_cond_signal, WakeCond, UndoTimer
<1>5. CASE hal_cond_broadcast
  BY <1>5, UndoesTimer DEF hal_cond_broadcast, UndoTimer
<1>6. CASE hal_sem_release
  <2>1. CASE Wakes
    BY <1>6, <2>1, UndoesTimer DEF hal_sem_release, UndoTimer
  <2>2. CASE ~ Wakes
    BY <1>1, <1>6, <2>2 DEF hal_sem_release
  <2> QED BY <2>1, <2>2
<1>7. CASE Kill
  <2>1. CASE KillerLocks \/ KillerWaits \/ KillerTakes \/ KillerDone
    BY <1>1, <2>1 DEF KillerLocks, KillerWaits, KillerTakes, KillerDone
  <2>2. CASE KillerKills
    BY <2>2, UndoesTimer DEF KillerKills, UndoTimer, waits
  <2> QED BY <1>7, <2>1, <2>2 DEF Kill
<1>8. CASE Tick
  <2>1. CASE (TickBegin \/ FirePeriodic \/ TickEnd) /\ UNCHANGED waits
    BY <2>1, TimerTimes DEF waits
  <2>2. ASSUME NEW t \in Thread,
               wake_sleeping_thread(t) \/ wake_cond_thread(t) \/ wake_sem_thread(t)
        PROVE  OnTime'
    BY <2>2, FiresTimer DEF wake_sleeping_thread, wake_cond_thread, wake_sem_thread, waits
  <2> QED BY <1>8, <2>1, <2>2 DEF Tick
<1>9. CASE SetPeriodic
  BY <1>9, TimerTimes DEF SetPeriodic, waits
<1>10. CASE UNCHANGED vars
  BY <1>1, <1>10 DEF vars, waits
<1> QED BY <1>3, <1>4, <1>5, <1>6, <1>7, <1>8, <1>9, <1>10 DEF Next

(* "Func guaranteed to be called, and it will be called no earlier than    *)
(* asked": the times of the queue always add up to what is left of every   *)
(* call, and the timer interrupt leaves no call overdue, whatever calls    *)
(* are requested, undone and made in between.                              *)
THEOREM OnTimeCalls == Spec => []CalledWhenDue
<1>1. Init => OnTime
  <2> SUFFICES ASSUME Init PROVE OnTime
    OBVIOUS
  <2>1. /\ tcEventQ = << >> /\ left = [e \in Thread \cup Periodic |-> 0]
        /\ limit = [t \in Thread |-> Forever]
    BY DEF Init, TimerInit
  <2>2. DeltaQueue(<< >>) /\ Times(<< >>) = {} /\ Punctual(<< >>)
    BY SMTT(30) DEF DeltaQueue, HasTimes, Times, Punctual
  <2>3. left \in [Thread \cup Periodic -> Int] /\ limit \in [Thread -> Nat \cup {Forever}]
    BY <2>1, SMTT(30)
  <2> QED BY <2>1, <2>2, <2>3 DEF OnTime
<1>2. IInv /\ OnTime => CalledWhenDue
  <2> SUFFICES ASSUME IInv, OnTime PROVE CalledWhenDue
    OBVIOUS
  <2> DEFINE q == tcEventQ
  <2>1. ASSUME NEW i \in 1 .. Len(q) PROVE Due(q, i) = left[q[i].call]
    <3>1. <<q[i].call, Due(q, i)>> \in Times(q)
      BY DEF Times
    <3> QED BY <3>1 DEF OnTime
  <2>2. ASSUME ~ ticking, NEW e \in Queued(q) PROVE left[e] >= 0
    <3>1. PICK i \in 1 .. Len(q) : e = q[i].call
      BY DEF Queued
    <3>2. DeltaQueue(q) /\ Punctual(q)
      BY <2>2 DEF OnTime
    <3>3. q # << >> /\ i \in 0 .. Len(q)
      BY <3>2, SMTT(30) DEF DeltaQueue, HasTimes
    <3>4. Due(q, i) >= 0
      BY <3>2, <3>3, NoneOverdue
    <3> QED BY <2>1, <3>1, <3>4
  <2>3. \A i, j \in 1 .. Len(q) : q[i].call = q[j].call => i = j
    BY DEF IInv, Timers, Entries
  <2> QED BY <2>1, <2>2, <2>3 DEF CalledWhenDue
<1>3. IInv /\ OnTime /\ [Next]_vars => OnTime'
  BY NextOnTime
<1> QED BY <1>1, <1>2, <1>3, Invariance, PTL DEF Spec
=============================================================================
