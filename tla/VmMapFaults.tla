---------------------------- MODULE VmMapFaults ----------------------------
(***************************************************************************)
(* The faults of several threads on one page.  What survives when threads  *)
(* share pages, take each other's requests off the disk queue and          *)
(* transfers fail: physical memory is never reclaimed from under a         *)
(* transfer, and finalize_snap finds the pages it is to write clean.  Both *)
(* hold for any number of pages, blocks, values and threads, any set of    *)
(* accesses and any number of failed transfers.                            *)
(***************************************************************************)
EXTENDS VmMapBlocks

(* The time limits of the provers. *)
USE ZenonT(10), SMTT(30)

-----------------------------------------------------------------------------
(* The inductive invariant. *)

(* The request reads or writes the page's own memory. *)
OnPage(q) == q.st # "idle" /\ q.cb # "cow"

(* The queue of page r goes with its memory and its request q, and only    *)
(* memory that no pagein is filling is dirty.                              *)
Sane(r, q) ==
  /\ r.reclaim_q # "broken" => /\ OnPage(q) => r.phys_mem
                               /\ r.reclaim_q # "none" <=> r.phys_mem /\ ~OnPage(q)
  /\ q.st # "idle" /\ q.cb = "pagein" => ~r.phys_dirty
  /\ r.phys_dirty => r.phys_mem

(* The second kick_pageout of the snapshot has been at page p. *)
Kicked(p) == snap.pc \in {"final", "fwait"} \/ (snap.pc = "kick2" /\ p < snap.at)

(* A page marked for the snapshot stays write protected until it has its   *)
(* snapshot copy, and from the second kick_pageout on it is either clean   *)
(* or being written out.                                                   *)
Guarded(p) ==
  Snapping(pg[p]) => /\ ~Writable(pg[p])
                     /\ pg[p].phys_dirty /\ Kicked(p) => Writing(p, "pageout")

(* A thread waiting for the pagein of its write fault waits for a page     *)
(* that is not marked: the flag it will set cannot be seen by the snapshot.*)
Unmarked(t) == th[t].pc = "pagein" /\ th[t].op = "write" => ~Snapping(pg[th[t].page])

FInv == /\ \A p \in Page : Sane(pg[p], io[p]) /\ Guarded(p)
        /\ \A t \in Thread : Unmarked(t)

-----------------------------------------------------------------------------
(* The helpers on page records. *)

(* The flags of two records of a page are the same. *)
SameFlags(r, s) == /\ r.phys_mem = s.phys_mem /\ r.phys_protect = s.phys_protect
                   /\ r.phys_dirty = s.phys_dirty /\ r.make_page = s.make_page

LEMMA QueueFlags ==
  ASSUME NEW r \in PageRec, NEW q \in {"clean", "dirty"}
  PROVE  /\ SameFlags(put_on_q(r, q), r) /\ SameFlags(remove_from_q(r, q), r)
         /\ put_on_q(r, q).reclaim_q = IF r.reclaim_q = "none" THEN q ELSE "broken"
         /\ remove_from_q(r, q).reclaim_q = IF r.reclaim_q = q THEN "none" ELSE "broken"
BY DEF PageRec, put_on_q, remove_from_q, SameFlags

LEMMA MoveFlags ==
  ASSUME NEW r \in PageRec
  PROVE  /\ SameFlags(move_to_dirty_q(r), r)
         /\ move_to_dirty_q(r).reclaim_q = IF r.reclaim_q = "clean" THEN "dirty" ELSE "broken"
<1>1. PICK s \in PageRec : s = remove_from_q(r, "clean")
  BY QueueOps
<1>2. SameFlags(s, r) /\ s.reclaim_q = IF r.reclaim_q = "clean" THEN "none" ELSE "broken"
  BY <1>1, QueueFlags
<1>3. /\ SameFlags(put_on_q(s, "dirty"), s)
      /\ put_on_q(s, "dirty").reclaim_q = IF s.reclaim_q = "none" THEN "dirty" ELSE "broken"
  BY QueueFlags
<1> QED BY <1>1, <1>2, <1>3 DEF move_to_dirty_q, SameFlags

LEMMA TakeFlags ==
  ASSUME NEW r \in PageRec
  PROVE  LET n == TakeDiskCopy(r) IN
         /\ n.phys_mem = r.phys_mem /\ n.phys_protect = r.phys_protect
         /\ n.phys_dirty = r.phys_dirty /\ n.reclaim_q = r.reclaim_q
         /\ Have(n.make_page)
BY BlockAssumption DEF PageRec, TakeDiskCopy, Have

-----------------------------------------------------------------------------
(* What a step under the lock of page p may do to p. *)

(* The page is sane again, and if it is still marked, it was before, is    *)
(* protected, and neither became dirty nor lost its pageout while dirty.   *)
LocalStep(p) ==
  /\ \A x \in Page \ {p} : pg'[x] = pg[x] /\ io'[x] = io[x]
  /\ UNCHANGED <<snap, is_in_snapshot_process>>
  /\ Sane(pg'[p], io'[p])
  /\ Snapping(pg[p])' =>
       /\ Snapping(pg[p]) /\ ~Writable(pg'[p])
       /\ pg'[p].phys_dirty => pg[p].phys_dirty /\ (Writing(p, "pageout") => Writing(p, "pageout")')

LEMMA LocalKeeps ==
  ASSUME FInv, NEW p \in Page, LocalStep(p), \A t \in Thread : Unmarked(t)'
  PROVE  FInv'
<1>1. ASSUME NEW x \in Page PROVE Sane(pg[x], io[x])'
  BY DEF FInv, LocalStep
<1>2. ASSUME NEW x \in Page PROVE Guarded(x)'
  <2>1. CASE x = p
    BY <2>1 DEF FInv, LocalStep, Guarded, Kicked
  <2>2. CASE x # p
    BY <2>2 DEF FInv, LocalStep, Guarded, Kicked, Snapping, Writing
  <2> QED BY <2>1, <2>2
<1> QED BY <1>1, <1>2 DEF FInv

(* Nor does such a step touch what the other threads wait for.             *)
LEMMA ThreadKeeps ==
  ASSUME IInv, FInv, NEW p \in Page, LocalStep(p), NEW t \in Thread,
         \A u \in Thread \ {t} : th'[u] = th[u], Unmarked(t)'
  PROVE  FInv'
<1>1. ASSUME NEW u \in Thread PROVE Unmarked(u)'
  <2>1. CASE u = t
    BY <2>1
  <2>2. CASE u # t
    <3>1. PICK x \in Page : x = th[u].page
      BY DEF IInv, TInv, TypeOK, ThreadRec
    <3>2. Snapping(pg[x])' => Snapping(pg[x])
      BY DEF LocalStep, Snapping
    <3> QED BY <2>2, <3>1, <3>2 DEF FInv, Unmarked
  <2> QED BY <2>1, <2>2
<1> QED BY <1>1, LocalKeeps

LEMMA OthersKeep ==
  ASSUME IInv, FInv, NEW p \in Page, LocalStep(p), UNCHANGED th
  PROVE  FInv'
<1>1. ASSUME NEW u \in Thread PROVE Unmarked(u)'
  <2>1. PICK x \in Page : x = th[u].page
    BY DEF IInv, TInv, TypeOK, ThreadRec
  <2>2. Snapping(pg[x])' => Snapping(pg[x])
    BY DEF LocalStep, Snapping
  <2> QED BY <2>1, <2>2 DEF FInv, Unmarked
<1> QED BY <1>1, LocalKeeps

(* The step writes m over the page's record and q over its request. *)
LEMMA LocalReplace ==
  ASSUME IInv, NEW p \in Page, NEW m \in PageRec, NEW q \in IoRec,
         pg' = [pg EXCEPT ![p] = m], io' = [io EXCEPT ![p] = q],
         UNCHANGED <<snap, is_in_snapshot_process>>, Sane(m, q),
         Snapping(m) =>
           /\ Snapping(pg[p]) /\ ~Writable(m)
           /\ m.phys_dirty => /\ pg[p].phys_dirty
                              /\ Writing(p, "pageout") => q.st # "idle" /\ q.cb = "pageout"
  PROVE  LocalStep(p)
<1>1. /\ pg'[p] = m /\ io'[p] = q
      /\ \A x \in Page \ {p} : pg'[x] = pg[x] /\ io'[x] = io[x]
  BY DEF IInv, TInv, TypeOK
<1>2. Snapping(pg[p])' <=> Snapping(m)
  BY <1>1 DEF Snapping
<1>3. Writing(p, "pageout")' <=> q.st # "idle" /\ q.cb = "pageout"
  BY <1>1 DEF Writing
<1> QED BY <1>1, <1>2, <1>3 DEF LocalStep

(* A step that leaves page and request alone. *)
LEMMA LocalSame ==
  ASSUME FInv, NEW p \in Page, UNCHANGED <<pg, io, snap, is_in_snapshot_process>>
  PROVE  LocalStep(p)
<1>1. Sane(pg'[p], io'[p])
  BY DEF FInv
<1>2. Snapping(pg[p])' => Snapping(pg[p]) /\ ~Writable(pg'[p])
  BY DEF FInv, Guarded, Snapping
<1> QED BY <1>1, <1>2 DEF LocalStep, Writing

-----------------------------------------------------------------------------
(* The disk, memory reclaim and pageouts. *)

(* The transfer and the callbacks. *)
LEMMA PagerLocal ==
  ASSUME IInv, FInv, NEW p \in Page, PagerStep(p)
  PROVE  FInv'
<1> USE DEF IInv, TInv, TypeOK
<1>1. PICK r \in PageRec, i \in IoRec : r = pg[p] /\ i = io[p]
  OBVIOUS
<1>2. Sane(r, i) /\ (Snapping(r) => ~Writable(r))
  BY <1>1 DEF FInv, Guarded
<1>3. UNCHANGED <<snap, is_in_snapshot_process, th>>
  BY DEF PagerStep, Transfer, TransferError, pageout_callback, snapper_COW_callback,
         pagein_callback
<1>4. IdleIo \in IoRec /\ IdleIo.st = "idle" /\ ~OnPage(IdleIo)
  BY DEF IdleIo, IoRec, Contents, OnPage
<1>5. CASE Transfer(p) \/ TransferError(p)
  <2> DEFINE q == [i EXCEPT !.st = "moved", !.copy = Junk]
  <2>1. q \in IoRec /\ q.cb = i.cb /\ q.st = "moved"
    BY DEF IoRec, Contents
  <2>2. i.st = "queued" /\ io' = [io EXCEPT ![p] = q] /\ pg' = [pg EXCEPT ![p] = r]
    BY <1>1, <1>5 DEF Transfer, TransferError, Moved
  <2> HIDE DEF q
  <2>3. Sane(r, q)
    BY <1>2, <2>1, <2>2 DEF Sane, OnPage
  <2>4. LocalStep(p)
    BY <1>1, <1>2, <1>3, <2>1, <2>2, <2>3, LocalReplace DEF Writing
  <2> QED BY <1>3, <2>4, OthersKeep
<1>6. CASE snapper_COW_callback(p)
  <2>1. /\ i.st = "moved" /\ i.cb = "cow"
        /\ io' = [io EXCEPT ![p] = IdleIo] /\ pg' = [pg EXCEPT ![p] = r]
    BY <1>1, <1>6 DEF snapper_COW_callback, CallbackDue
  <2>2. Sane(r, IdleIo)
    BY <1>2, <1>4, <2>1 DEF Sane, OnPage
  <2>3. LocalStep(p)
    BY <1>1, <1>2, <1>3, <1>4, <2>1, <2>2, LocalReplace DEF Writing
  <2> QED BY <1>3, <2>3, OthersKeep
<1>7. ASSUME NEW d \in PageRec, d.reclaim_q = r.reclaim_q, d.phys_mem = r.phys_mem,
             d.phys_protect = r.phys_protect, d.make_page = r.make_page, ~d.phys_dirty,
             OnPage(i), pg' = [pg EXCEPT ![p] = put_on_q(d, "clean")],
             io' = [io EXCEPT ![p] = IdleIo]
      PROVE  FInv'
  <2>1. PICK m \in PageRec : m = put_on_q(d, "clean")
    BY QueueOps
  <2>2. SameFlags(m, d) /\ m.reclaim_q = IF r.reclaim_q = "none" THEN "clean" ELSE "broken"
    BY <1>7, <2>1, QueueFlags
  <2>3. Sane(m, IdleIo)
    BY <1>2, <1>4, <1>7, <2>2 DEF Sane, SameFlags
  <2>4. Snapping(m) => Snapping(r) /\ ~Writable(m) /\ ~m.phys_dirty
    BY <1>2, <1>7, <2>2 DEF Snapping, Writable, SameFlags
  <2>5. LocalStep(p)
    BY <1>1, <1>3, <1>4, <1>7, <2>1, <2>3, <2>4, LocalReplace
  <2> QED BY <1>3, <2>5, OthersKeep
<1>8. CASE pageout_callback(p)
  <2> DEFINE d == [r EXCEPT !.phys_dirty = FALSE]
  <2>1. /\ d \in PageRec /\ d.reclaim_q = r.reclaim_q /\ d.phys_mem = r.phys_mem
        /\ d.phys_protect = r.phys_protect /\ d.make_page = r.make_page /\ ~d.phys_dirty
    BY DEF PageRec
  <2>2. OnPage(i) /\ pg' = [pg EXCEPT ![p] = put_on_q(d, "clean")]
        /\ io' = [io EXCEPT ![p] = IdleIo]
    BY <1>1, <1>8 DEF pageout_callback, CallbackDue, OnPage
  <2> HIDE DEF d
  <2> QED BY <1>7, <2>1, <2>2
<1>9. CASE pagein_callback(p)
  <2> DEFINE d == [r EXCEPT !.phys_dirty = FALSE, !.map = IF r.phys_protect THEN "ro" ELSE "rw"]
  <2>1. /\ d \in PageRec /\ d.reclaim_q = r.reclaim_q /\ d.phys_mem = r.phys_mem
        /\ d.phys_protect = r.phys_protect /\ d.make_page = r.make_page /\ ~d.phys_dirty
    BY DEF PageRec
  <2>2. OnPage(i) /\ pg' = [pg EXCEPT ![p] = put_on_q(d, "clean")]
        /\ io' = [io EXCEPT ![p] = IdleIo]
    BY <1>1, <1>9 DEF pagein_callback, CallbackDue, OnPage
  <2> HIDE DEF d
  <2> QED BY <1>7, <2>1, <2>2
<1> QED BY <1>5, <1>6, <1>8, <1>9 DEF PagerStep

(* physmem_try_to_reclaim_page takes the memory of a page on the clean     *)
(* queue, so no transfer is using it.                                      *)
LEMMA ReclaimLocal ==
  ASSUME IInv, FInv, NEW p \in Page, physmem_try_to_reclaim_page(p)
  PROVE  FInv'
<1> USE DEF IInv, TInv, TypeOK
<1>1. PICK r \in PageRec, i \in IoRec : r = pg[p] /\ i = io[p]
  OBVIOUS
<1>2. Sane(r, i)
  BY <1>1 DEF FInv
<1>3. PICK d \in PageRec : d = remove_from_q(r, "clean")
  BY QueueOps
<1>4. SameFlags(d, r) /\ d.reclaim_q = IF r.reclaim_q = "clean" THEN "none" ELSE "broken"
  BY <1>3, QueueFlags
<1> DEFINE m == [d EXCEPT !.phys_mem = FALSE, !.map = "none"]
<1>5. /\ m \in PageRec /\ ~m.phys_mem /\ m.phys_dirty = d.phys_dirty
      /\ m.reclaim_q = d.reclaim_q /\ m.make_page = d.make_page
  BY DEF PageRec
<1>6. ~r.phys_dirty /\ pg' = [pg EXCEPT ![p] = m] /\ io' = [io EXCEPT ![p] = i]
      /\ UNCHANGED <<snap, is_in_snapshot_process, th>>
  BY <1>1, <1>3 DEF physmem_try_to_reclaim_page
<1> HIDE DEF m
<1>7. Sane(m, i)
  BY <1>2, <1>4, <1>5, <1>6 DEF Sane, SameFlags
<1>8. Snapping(m) => Snapping(r) /\ ~Writable(m) /\ ~m.phys_dirty
  BY <1>4, <1>5, <1>6 DEF Snapping, Writable, SameFlags
<1>9. LocalStep(p)
  BY <1>1, <1>5, <1>6, <1>7, <1>8, LocalReplace
<1> QED BY <1>6, <1>9, OthersKeep

(* vm_page_req_pageout leaves a dirty page that is marked for the snapshot *)
(* with a pageout under way, its own or one it finds there.                *)
LEMMA PageoutLocal ==
  ASSUME IInv, FInv, NEW p \in Page, vm_page_req_pageout(p)
  PROVE  /\ \A x \in Page \ {p} : pg'[x] = pg[x] /\ io'[x] = io[x]
         /\ Sane(pg'[p], io'[p])
         /\ pg'[p].make_page = pg[p].make_page /\ pg'[p].phys_dirty = pg[p].phys_dirty
         /\ Writable(pg'[p]) => Writable(pg[p])
         /\ Writing(p, "pageout") => Writing(p, "pageout")'
         /\ Snapping(pg[p]) /\ pg[p].phys_dirty => Writing(p, "pageout")'
<1> USE DEF IInv, TInv, TypeOK
<1>1. PICK r \in PageRec, i \in IoRec : r = pg[p] /\ i = io[p]
  OBVIOUS
<1>2. Sane(r, i)
  BY <1>1 DEF FInv
<1>3. CASE ~CanPageout(p) /\ UNCHANGED <<pg, io, free>>
  <2>1. Snapping(r) /\ r.phys_dirty => Writing(p, "pageout")
    <3>1. SUFFICES ASSUME Snapping(r), r.phys_dirty PROVE Writing(p, "pageout")
      OBVIOUS
    <3>2. i.st # "idle"
      BY <1>1, <1>2, <1>3, <3>1 DEF CanPageout, Busy, Sane
    <3>3. i.cb # "cow" /\ i.cb # "none" /\ i.cb # "pagein"
      BY <1>1, <1>2, <3>1, <3>2, SnappingIsQuiet DEF Writing, IoHasTarget, Sane
    <3> QED BY <1>1, <3>2, <3>3 DEF Writing, IoRec
  <2> QED BY <1>1, <1>2, <1>3, <2>1 DEF Writing
<1>4. CASE CanPageout(p)
  <2>1. PICK b \in IF Have(pg[p].curr_page) THEN {pg[p].curr_page} ELSE Candidates(free) :
          /\ pg' = [pg EXCEPT ![p] = remove_from_q([pg[p] EXCEPT !.curr_page = b,
                                      !.phys_protect = TRUE, !.map = "ro"], "dirty")]
          /\ io' = [io EXCEPT ![p] = NewIo("pageout", b, Junk)]
    BY <1>4 DEF vm_page_req_pageout
  <2>2. b \in Block
    BY CandidatesAssumption, SMTT(30) DEF PageRec, Have
  <2> DEFINE n == [r EXCEPT !.curr_page = b, !.phys_protect = TRUE, !.map = "ro"]
             q == NewIo("pageout", b, Junk)
  <2>3. /\ n \in PageRec /\ n.phys_mem = r.phys_mem /\ n.phys_protect
        /\ n.phys_dirty = r.phys_dirty /\ n.make_page = r.make_page /\ n.reclaim_q = r.reclaim_q
    BY <2>2 DEF PageRec
  <2>4. q.st = "queued" /\ q.cb = "pageout"
    BY DEF NewIo
  <2>5. pg' = [pg EXCEPT ![p] = remove_from_q(n, "dirty")] /\ io' = [io EXCEPT ![p] = q]
    BY <1>1, <2>1
  <2> HIDE DEF n, q
  <2>6. PICK m \in PageRec : m = remove_from_q(n, "dirty")
    BY <2>3, QueueOps
  <2>7. SameFlags(m, n) /\ m.reclaim_q = IF r.reclaim_q = "dirty" THEN "none" ELSE "broken"
    BY <2>3, <2>6, QueueFlags
  <2>8. pg'[p] = m /\ io'[p] = q /\ \A x \in Page \ {p} : pg'[x] = pg[x] /\ io'[x] = io[x]
    BY <2>5, <2>6
  <2>9. Sane(m, q)
    BY <1>1, <1>4, <2>3, <2>4, <2>7 DEF Sane, OnPage, SameFlags, CanPageout
  <2>10. /\ m.make_page = r.make_page /\ m.phys_dirty = r.phys_dirty /\ ~Writable(m)
    BY <2>3, <2>7 DEF SameFlags, Writable
  <2> QED BY <1>1, <2>4, <2>8, <2>9, <2>10 DEF Writing
<1> QED BY <1>3, <1>4 DEF vm_page_req_pageout

(* The lazy pageout thread. *)
LEMMA LazyLocal ==
  ASSUME IInv, FInv, LazyStep
  PROVE  FInv'
<1>1. ASSUME NEW p \in Page, LazyPick(p) PROVE FInv'
  <2>1. LocalStep(p)
    BY <1>1, LocalSame DEF LazyPick
  <2> QED BY <1>1, <2>1, OthersKeep DEF LazyPick
<1>2. CASE LazyPageout
  <2>1. PICK p \in Page : p = lazy
    BY <1>2 DEF LazyPageout, IInv, TInv, TypeOK
  <2>2. vm_page_req_pageout(p) /\ UNCHANGED <<snap, is_in_snapshot_process, th>>
    BY <1>2, <2>1 DEF LazyPageout
  <2>3. LocalStep(p)
    BY <2>2, PageoutLocal DEF LocalStep, FInv, Guarded, Snapping
  <2> QED BY <2>2, <2>3, OthersKeep
<1> QED BY <1>1, <1>2 DEF LazyStep

-----------------------------------------------------------------------------
(* The threads. *)

(* Executing an instruction, trapping on it, or going to sleep. *)
LEMMA AccessLocal ==
  ASSUME IInv, FInv, NEW t \in Thread, UNCHANGED <<pg, io, snap, is_in_snapshot_process>>,
         \A u \in Thread \ {t} : th'[u] = th[u],
         th'[t].pc # "pagein" \/ th'[t] = th[t]
  PROVE  FInv'
<1>1. PICK p \in Page : p = th[t].page
  BY DEF IInv, TInv, TypeOK, ThreadRec
<1>2. LocalStep(p)
  BY LocalSame
<1>3. Unmarked(t)'
  BY DEF FInv, Unmarked, Snapping
<1> QED BY <1>2, <1>3, ThreadKeeps

(* Populate brings in a page r that has no memory and no request on it; a  *)
(* writer only does so when the page is not marked.                        *)
LEMMA PopulateLocal ==
  ASSUME IInv, FInv, NEW t \in Thread, NEW p \in Page, NEW r \in PageRec,
         NEW prot \in BOOLEAN, NEW q \in {"clean", "dirty"}, NEW i \in IoRec,
         p = th[t].page, Populate(t, p, r, prot, q),
         UNCHANGED <<snap, is_in_snapshot_process>>,
         Sane(r, i), ~OnPage(i), ~r.phys_mem,
         prot = (th[t].op = "read"), Snapping(r) => prot /\ Snapping(pg[p])
  PROVE  FInv'
<1> USE DEF IInv, TInv, TypeOK
<1> DEFINE b == Source(r)
           n == [r EXCEPT !.phys_mem = TRUE, !.phys_protect = prot, !.phys_dirty = FALSE]
           z == [n EXCEPT !.phys_dirty = ~prot, !.map = IF prot THEN "ro" ELSE "rw"]
<1>1. /\ n \in PageRec /\ n.phys_mem /\ n.phys_protect = prot /\ ~n.phys_dirty
      /\ n.make_page = r.make_page /\ n.reclaim_q = r.reclaim_q
      /\ z \in PageRec /\ z.phys_mem /\ z.phys_protect = prot /\ z.phys_dirty = ~prot
      /\ z.make_page = r.make_page /\ z.reclaim_q = r.reclaim_q
  BY DEF PageRec
<1>2. r.reclaim_q \in {"none", "broken"}
  BY DEF Sane
<1>3. ASSUME NEW m \in PageRec, NEW j \in IoRec, pg' = [pg EXCEPT ![p] = m],
             io' = [io EXCEPT ![p] = j], Sane(m, j), m.make_page = r.make_page,
             m.phys_protect = prot, prot => ~m.phys_dirty,
             NEW to \in {"access", "pagein"}, th' = [th EXCEPT ![t].pc = to]
      PROVE  FInv'
  <2>1. Snapping(m) => Snapping(pg[p]) /\ ~Writable(m) /\ ~m.phys_dirty
    BY <1>3 DEF Snapping, Writable
  <2>2. LocalStep(p)
    BY <1>3, <2>1, LocalReplace
  <2>3. /\ \A u \in Thread \ {t} : th'[u] = th[u]
        /\ th'[t].op = th[t].op /\ th'[t].page = p
    BY <1>3 DEF ThreadRec
  <2>4. Unmarked(t)'
    <3>1. SUFFICES ASSUME th[t].op = "write" PROVE ~Snapping(pg[p])'
      BY <2>3 DEF Unmarked
    <3>2. pg'[p] = m
      BY <1>3
    <3> QED BY <1>3, <3>1, <3>2 DEF Snapping
  <2> QED BY <2>2, <2>3, <2>4, ThreadKeeps
<1>4. CASE b = ZeroPage
  <2>1. /\ pg' = [pg EXCEPT ![p] = put_on_q(z, q)] /\ io' = [io EXCEPT ![p] = IdleIo]
        /\ th' = [th EXCEPT ![t].pc = "access"]
    BY <1>4 DEF Populate, Return, Goto
  <2> HIDE DEF z
  <2>2. PICK m \in PageRec : m = put_on_q(z, q)
    BY <1>1, QueueOps
  <2>3. SameFlags(m, z) /\ m.reclaim_q = IF r.reclaim_q = "none" THEN q ELSE "broken"
    BY SMTT(30), <1>1, <2>2, QueueFlags
  <2>4. IdleIo \in IoRec /\ IdleIo.st = "idle" /\ ~OnPage(IdleIo)
    BY DEF IdleIo, IoRec, Contents, OnPage
  <2>5. Sane(m, IdleIo)
    BY <1>1, <2>3, <2>4 DEF Sane, SameFlags
  <2>6. m.make_page = r.make_page /\ m.phys_protect = prot /\ (prot => ~m.phys_dirty)
    BY <1>1, <2>3 DEF SameFlags
  <2> QED BY <1>3, <2>1, <2>2, <2>4, <2>5, <2>6
<1>5. CASE b # ZeroPage
  <2> DEFINE j == NewIo("pagein", b, Junk)
  <2>1. /\ pg' = [pg EXCEPT ![p] = n] /\ io' = [io EXCEPT ![p] = j]
        /\ th' = [th EXCEPT ![t].pc = "pagein"]
    BY <1>5 DEF Populate, Goto
  <2>2. b \in Block
    BY <1>5, SourceType DEF BlockRef
  <2>3. j \in IoRec /\ j.st = "queued" /\ j.cb = "pagein"
    BY <2>2 DEF NewIo, IoRec, Contents
  <2> HIDE DEF j, n
  <2>4. Sane(n, j)
    BY <1>1, <1>2, <2>3 DEF Sane, OnPage
  <2> QED BY <1>1, <1>3, <2>1, <2>3, <2>4
<1> QED BY <1>4, <1>5

(* page_fault_write after its wait loop: r and q are the page and its      *)
(* request as the loop leaves them.                                        *)
LEMMA WriteFaultLocal ==
  ASSUME IInv, FInv, NEW t \in Thread, NEW p \in Page, NEW r \in PageRec, NEW q \in IoRec,
         p = th[t].page, th[t].op = "write", WriteFault(t, p, r, q),
         UNCHANGED <<snap, is_in_snapshot_process>>,
         Sane(r, q), ~OnPage(q), SameFlags(r, pg[p])
  PROVE  FInv'
<1> USE DEF IInv, TInv, TypeOK
<1>1. (Snapping(r) <=> Snapping(pg[p])) /\ (Snapping(r) => ~Writable(r))
  BY DEF FInv, Guarded, Snapping, Writable, SameFlags
<1>2. ASSUME NEW m \in PageRec, NEW j \in IoRec, pg' = [pg EXCEPT ![p] = m],
             io' = [io EXCEPT ![p] = j], Sane(m, j), ~Snapping(m), Return(t)
      PROVE  FInv'
  <2>1. LocalStep(p)
    BY <1>2, LocalReplace
  <2>2. (\A u \in Thread \ {t} : th'[u] = th[u]) /\ th'[t].pc = "access"
    BY <1>2 DEF Return, Goto, ThreadRec
  <2> QED BY <2>1, <2>2, ThreadKeeps DEF Unmarked
<1>3. CASE /\ Writable(r)
           /\ pg' = [pg EXCEPT ![p] = IF r.phys_dirty THEN r
                                      ELSE [move_to_dirty_q(r) EXCEPT !.phys_dirty = TRUE]]
           /\ io' = [io EXCEPT ![p] = q]
           /\ Return(t)
  <2>1. PICK d \in PageRec : d = move_to_dirty_q(r)
    BY MoveOp
  <2>2. SameFlags(d, r) /\ d.reclaim_q = IF r.reclaim_q = "clean" THEN "dirty" ELSE "broken"
    BY <2>1, MoveFlags
  <2> DEFINE m == IF r.phys_dirty THEN r ELSE [d EXCEPT !.phys_dirty = TRUE]
  <2>3. /\ m \in PageRec /\ m.make_page = r.make_page /\ m.phys_mem
        /\ m.reclaim_q = IF r.phys_dirty THEN r.reclaim_q ELSE d.reclaim_q
    BY <1>3, <2>2 DEF PageRec, SameFlags, Writable
  <2>4. pg' = [pg EXCEPT ![p] = m]
    BY <1>3, <2>1
  <2> HIDE DEF m
  <2>5. Sane(m, q)
    BY <2>2, <2>3 DEF Sane, OnPage
  <2>6. ~Snapping(m)
    BY <1>1, <1>3, <2>3 DEF Snapping
  <2> QED BY <1>2, <1>3, <2>3, <2>4, <2>5, <2>6
<1>4. CASE NeedsCopy(r) /\ CopyOnWrite(t, p, r)
  <2>1. PICK b \in IF Have(r.curr_page) THEN {r.curr_page} ELSE Candidates(free) :
          /\ pg' = [pg EXCEPT ![p] = [r EXCEPT !.make_page = b, !.curr_page = NoPage,
                                      !.phys_protect = FALSE, !.map = "rw"]]
          /\ io' = [io EXCEPT ![p] = NewIo("cow", b, ram[p])]
    BY <1>4 DEF CopyOnWrite
  <2>2. b \in Block
    BY CandidatesAssumption, SMTT(30) DEF PageRec, Have
  <2> DEFINE m == [r EXCEPT !.make_page = b, !.curr_page = NoPage,
                            !.phys_protect = FALSE, !.map = "rw"]
             j == NewIo("cow", b, ram[p])
  <2>3. /\ m \in PageRec /\ m.make_page = b /\ m.phys_mem = r.phys_mem
        /\ m.phys_dirty = r.phys_dirty /\ m.reclaim_q = r.reclaim_q
    BY <2>2 DEF PageRec, BlockRef
  <2>4. j \in IoRec /\ j.cb = "cow"
    BY <2>2 DEF NewIo, IoRec
  <2>5. pg' = [pg EXCEPT ![p] = m] /\ io' = [io EXCEPT ![p] = j] /\ Return(t)
    BY <1>4, <2>1 DEF CopyOnWrite
  <2> HIDE DEF m, j
  <2>6. Sane(m, j)
    BY <2>3, <2>4 DEF Sane, OnPage
  <2>7. ~Snapping(m)
    BY <2>2, <2>3, BlockAssumption DEF Snapping, Have
  <2> QED BY <1>2, <2>3, <2>4, <2>5, <2>6, <2>7
<1>5. CASE LET a == IF Snapping(r) THEN TakeDiskCopy(r) ELSE r
           IN \/ /\ a.phys_mem
                 /\ pg' = [pg EXCEPT ![p] = move_to_dirty_q([a EXCEPT !.phys_protect = FALSE,
                                             !.phys_dirty = TRUE, !.map = "rw"])]
                 /\ io' = [io EXCEPT ![p] = q]
                 /\ Return(t)
                 /\ UNCHANGED ram
              \/ ~a.phys_mem /\ Populate(t, p, a, FALSE, "dirty")
  <2>1. PICK a \in PageRec : a = IF Snapping(r) THEN TakeDiskCopy(r) ELSE r
    BY TakeOp
  <2>2. /\ a.phys_mem = r.phys_mem /\ a.phys_dirty = r.phys_dirty /\ a.reclaim_q = r.reclaim_q
        /\ ~Snapping(a)
    BY <2>1, TakeFlags DEF Snapping
  <2>3. Sane(a, q)
    BY <2>2 DEF Sane
  <2>4. CASE /\ a.phys_mem
             /\ pg' = [pg EXCEPT ![p] = move_to_dirty_q([a EXCEPT !.phys_protect = FALSE,
                                         !.phys_dirty = TRUE, !.map = "rw"])]
             /\ io' = [io EXCEPT ![p] = q]
             /\ Return(t)
    <3> DEFINE n == [a EXCEPT !.phys_protect = FALSE, !.phys_dirty = TRUE, !.map = "rw"]
    <3>1. /\ n \in PageRec /\ n.phys_mem = a.phys_mem /\ n.make_page = a.make_page
          /\ n.reclaim_q = a.reclaim_q
      BY ZenonT(30) DEF PageRec
    <3>2. pg' = [pg EXCEPT ![p] = move_to_dirty_q(n)]
      BY <2>4
    <3> HIDE DEF n
    <3>3. PICK m \in PageRec : m = move_to_dirty_q(n)
      BY <3>1, MoveOp
    <3>4. SameFlags(m, n) /\ m.reclaim_q = IF a.reclaim_q = "clean" THEN "dirty" ELSE "broken"
      BY <3>1, <3>3, MoveFlags, SMTT(30)
    <3>5. Sane(m, q)
      BY <2>3, <2>4, <3>1, <3>4 DEF Sane, OnPage, SameFlags
    <3>6. ~Snapping(m)
      BY <2>2, <3>1, <3>4 DEF Snapping, SameFlags
    <3> QED BY <1>2, <2>4, <3>2, <3>3, <3>5, <3>6
  <2>5. CASE ~a.phys_mem /\ Populate(t, p, a, FALSE, "dirty")
    BY <2>2, <2>3, <2>5, PopulateLocal
  <2> QED BY <1>5, <2>1, <2>4, <2>5
<1> QED BY <1>3, <1>4, <1>5 DEF WriteFault

(* page_fault_read and page_fault_write, and their ends after the pagein. *)
LEMMA ReadFaultLocal ==
  ASSUME IInv, FInv, NEW t \in Thread, page_fault_read(t)
  PROVE  FInv'
<1> USE DEF IInv, TInv, TypeOK
<1>1. PICK p \in Page : p = th[t].page
  BY DEF ThreadRec
<1>2. th[t].op = "read" /\ UNCHANGED <<snap, is_in_snapshot_process>>
  BY DEF page_fault_read, InFault
<1>3. CASE WaitDone(t)
  BY <1>2, <1>3, AccessLocal DEF WaitDone
<1>4. CASE Return(t) /\ UNCHANGED <<pg, io>>
  <2>1. (\A u \in Thread \ {t} : th'[u] = th[u]) /\ th'[t].pc = "access"
    BY <1>4 DEF Return, Goto, ThreadRec
  <2> QED BY <1>2, <1>4, <2>1, AccessLocal
<1>5. CASE ~Busy(p) /\ ~pg[p].phys_mem /\ Populate(t, p, pg[p], TRUE, "clean")
  <2>1. PICK r \in PageRec, i \in IoRec : r = pg[p] /\ i = io[p]
    OBVIOUS
  <2>2. Sane(r, i) /\ ~OnPage(i)
    BY <1>5, <2>1 DEF FInv, OnPage, Busy
  <2> QED BY <1>1, <1>2, <1>5, <2>1, <2>2, PopulateLocal
<1> QED BY <1>1, <1>3, <1>4, <1>5 DEF page_fault_read

LEMMA WriteWaitLocal ==
  ASSUME IInv, FInv, NEW t \in Thread, page_fault_write(t)
  PROVE  FInv'
<1> USE DEF IInv, TInv, TypeOK
<1>1. PICK p \in Page, r \in PageRec, i \in IoRec : p = th[t].page /\ r = pg[p] /\ i = io[p]
  BY DEF ThreadRec
<1>2. th[t].op = "write" /\ UNCHANGED <<snap, is_in_snapshot_process>>
  BY DEF page_fault_write, InFault
<1>3. Sane(r, i)
  BY <1>1 DEF FInv
<1>4. CASE WaitDone(t)
  BY <1>2, <1>4, AccessLocal DEF WaitDone
<1>5. CASE /\ UnderIo(p)
           /\ WriteFault(t, p, put_on_q(pg[p], IF pg[p].phys_dirty THEN "dirty" ELSE "clean"),
                         IdleIo)
  <2>1. PICK z \in {"clean", "dirty"} : z = IF pg[p].phys_dirty THEN "dirty" ELSE "clean"
    OBVIOUS
  <2>2. PICK m \in PageRec : m = put_on_q(r, z)
    BY QueueOps
  <2>3. SameFlags(m, r) /\ m.reclaim_q = IF r.reclaim_q = "none" THEN z ELSE "broken"
    BY <2>2, QueueFlags
  <2>4. IdleIo \in IoRec /\ IdleIo.st = "idle" /\ ~OnPage(IdleIo)
    BY DEF IdleIo, IoRec, Contents, OnPage
  <2>5. OnPage(i)
    BY <1>1, <1>5 DEF UnderIo, Busy, OnPage
  <2>6. Sane(m, IdleIo)
    BY <1>3, <2>3, <2>4, <2>5 DEF Sane, SameFlags
  <2> QED BY <1>1, <1>2, <1>5, <2>1, <2>2, <2>3, <2>4, <2>6, WriteFaultLocal
<1>6. CASE ~UnderIo(p) /\ WriteFault(t, p, pg[p], io[p])
  <2>1. ~OnPage(i) /\ SameFlags(r, pg[p])
    BY <1>1, <1>6 DEF UnderIo, Busy, OnPage, SameFlags
  <2> QED BY <1>1, <1>2, <1>3, <1>6, <2>1, WriteFaultLocal
<1> QED BY <1>1, <1>4, <1>5, <1>6 DEF page_fault_write

LEMMA PageinDoneLocal ==
  ASSUME IInv, FInv, NEW t \in Thread, NEW op \in Op, PageinDone(t, op)
  PROVE  FInv'
<1> USE DEF IInv, TInv, TypeOK
<1>1. PICK p \in Page, r \in PageRec, i \in IoRec : p = th[t].page /\ r = pg[p] /\ i = io[p]
  BY DEF ThreadRec
<1>2. th[t].pc = "pagein" /\ th[t].op = op /\ UNCHANGED <<snap, is_in_snapshot_process>>
  BY DEF PageinDone, InFault
<1>3. CASE WaitDone(t)
  BY <1>2, <1>3, AccessLocal DEF WaitDone
<1>4. ASSUME Return(t)
      PROVE  (\A u \in Thread \ {t} : th'[u] = th[u]) /\ th'[t].pc = "access"
  BY <1>4 DEF Return, Goto, ThreadRec
<1>5. CASE Return(t) /\ UNCHANGED <<pg, io>>
  BY <1>2, <1>4, <1>5, AccessLocal
<1>6. CASE /\ ~Busy(p) /\ op = "write" /\ pg[p].phys_mem /\ Return(t) /\ UNCHANGED io
           /\ pg' = [pg EXCEPT ![p] = move_to_dirty_q([@ EXCEPT !.phys_dirty = TRUE])]
  <2> DEFINE d == [r EXCEPT !.phys_dirty = TRUE]
  <2>1. /\ d \in PageRec /\ d.phys_mem = r.phys_mem /\ d.make_page = r.make_page
        /\ d.reclaim_q = r.reclaim_q
    BY DEF PageRec
  <2>2. pg' = [pg EXCEPT ![p] = move_to_dirty_q(d)] /\ io' = [io EXCEPT ![p] = i]
    BY <1>1, <1>6
  <2> HIDE DEF d
  <2>3. PICK m \in PageRec : m = move_to_dirty_q(d)
    BY <2>1, MoveOp
  <2>4. SameFlags(m, d) /\ m.reclaim_q = IF r.reclaim_q = "clean" THEN "dirty" ELSE "broken"
    BY <2>1, <2>3, MoveFlags, SMTT(30)
  <2>5. Sane(m, i)
    BY <1>1, <1>6, <2>1, <2>4 DEF Sane, OnPage, SameFlags, Busy
  <2>6. ~Snapping(m)
    BY <1>1, <1>2, <1>6, <2>1, <2>4 DEF FInv, Unmarked, Snapping, SameFlags
  <2>7. LocalStep(p)
    BY <1>2, <2>2, <2>3, <2>5, <2>6, LocalReplace
  <2> QED BY <1>4, <1>6, <2>7, ThreadKeeps DEF Unmarked
<1> QED BY <1>1, <1>3, <1>5, <1>6 DEF PageinDone

LEMMA ThreadLocal ==
  ASSUME IInv, FInv, NEW t \in Thread, ThreadStep(t)
  PROVE  FInv'
<1> USE DEF IInv, TInv, TypeOK
<1>1. CASE BeginAccess(t) \/ DoAccess(t) \/ Fault(t)
  <2>1. /\ UNCHANGED <<pg, io, snap, is_in_snapshot_process>>
        /\ \A u \in Thread \ {t} : th'[u] = th[u]
        /\ th'[t].pc # "pagein"
    BY <1>1, SMTT(30) DEF BeginAccess, DoAccess, Fault, Goto, Running, ThreadRec
  <2> QED BY <2>1, AccessLocal
<1>2. CASE PageinDone(t, "read") \/ PageinDone(t, "write")
  BY <1>2, PageinDoneLocal DEF Op
<1> QED BY <1>1, <1>2, ReadFaultLocal, WriteWaitLocal DEF ThreadStep

-----------------------------------------------------------------------------
(* The snapshot thread. *)

(* Outside of is_in_snapshot_process no page is marked. *)
LEMMA NothingMarked ==
  ASSUME ~is_in_snapshot_process', \A p \in Page : Sane(pg[p], io[p])'
  PROVE  FInv'
BY DEF FInv, Guarded, Unmarked, Snapping

(* The walks that come before and after it. *)
LEMMA QuietLocal ==
  ASSUME IInv, FInv,
         StartSnapshot \/ kick_pageout("kick1", "stop") \/ SaveToList \/ MoveToPrev
         \/ wait_commit_snap \/ UpdateSuperblock \/ phantom_free_snap
  PROVE  FInv'
<1> USE DEF IInv, TInv, TypeOK
<1>1. ~is_in_snapshot_process'
  BY DEF Phase, PhaseGlobal, StartSnapshot, kick_pageout, SaveToList, MoveToPrev,
         wait_commit_snap, UpdateSuperblock, phantom_free_snap, At
<1>2. PICK p \in Page : p = snap.at
  OBVIOUS
<1>3. CASE UNCHANGED <<pg, io>>
  BY <1>1, <1>3, NothingMarked DEF FInv
<1>4. CASE vm_page_req_pageout(p)
  <2>1. \A x \in Page : Sane(pg[x], io[x])'
    BY <1>4, PageoutLocal DEF FInv
  <2> QED BY <1>1, <2>1, NothingMarked
<1>5. CASE MoveToPrev
  <2>1. PICK r \in PageRec : r = pg[p]
    OBVIOUS
  <2> DEFINE m == [r EXCEPT !.prev_page = r.make_page, !.make_page = NoPage]
  <2>2. /\ m.phys_mem = r.phys_mem /\ m.phys_dirty = r.phys_dirty /\ m.reclaim_q = r.reclaim_q
    BY DEF PageRec
  <2>3. pg' = [pg EXCEPT ![p] = m] /\ io' = io
    BY <1>2, <1>5, <2>1 DEF MoveToPrev
  <2> HIDE DEF m
  <2>4. pg'[p] = m /\ \A x \in Page \ {p} : pg'[x] = pg[x]
    BY <2>3
  <2>5. \A x \in Page : Sane(pg[x], io[x])'
    BY <2>1, <2>2, <2>3, <2>4 DEF FInv, Sane
  <2> QED BY <1>1, <2>5, NothingMarked
<1> QED BY <1>2, <1>3, <1>4, <1>5
        DEF StartSnapshot, kick_pageout, SaveToList, wait_commit_snap, UpdateSuperblock,
            phantom_free_snap

(* mark_for_snap: the threads are stopped, so none waits for a pagein. *)
LEMMA MarkLocal ==
  ASSUME IInv, FInv, MarkAll
  PROVE  FInv'
<1> USE DEF IInv, TInv, TypeOK
<1>1. ASSUME NEW p \in Page
      PROVE  /\ pg'[p].phys_mem = pg[p].phys_mem /\ pg'[p].phys_dirty = pg[p].phys_dirty
             /\ pg'[p].reclaim_q = pg[p].reclaim_q /\ ~Writable(pg'[p])
  <2>1. PICK r \in PageRec : r = pg[p]
    OBVIOUS
  <2>2. pg'[p] = mark_for_snap(r)
    BY <2>1 DEF MarkAll
  <2>3. LET m == mark_for_snap(r) IN
        /\ m.phys_mem = r.phys_mem /\ m.phys_dirty = r.phys_dirty
        /\ m.reclaim_q = r.reclaim_q /\ ~Writable(m)
    BY DEF mark_for_snap, Writable, PageRec
  <2> QED BY <2>1, <2>2, <2>3
<1>2. ASSUME NEW p \in Page PROVE Sane(pg[p], io[p])' /\ Guarded(p)'
  <2>1. Sane(pg[p], io[p])'
    BY <1>1 DEF MarkAll, FInv, Sane
  <2>2. ~Kicked(p)'
    BY SMTT(30) DEF MarkAll, Kicked, Page
  <2> QED BY <1>1, <2>1, <2>2 DEF Guarded
<1>3. ASSUME NEW t \in Thread PROVE Unmarked(t)'
  BY DEF MarkAll, AllStopped, Unmarked
<1> QED BY <1>2, <1>3 DEF FInv

(* The second kick_pageout: the page it has been at is clean or under way. *)
LEMMA KickLocal ==
  ASSUME IInv, FInv, kick_pageout("kick2", "final")
  PROVE  FInv'
<1>1. PICK p \in Page : p = snap.at
  BY DEF IInv, TInv, TypeOK
<1>2. /\ vm_page_req_pageout(p) /\ snap.pc = "kick2"
      /\ UNCHANGED <<is_in_snapshot_process, th>> /\ Walk("kick2", "final")
  BY <1>1 DEF kick_pageout, At
<1>3. /\ \A x \in Page \ {p} : pg'[x] = pg[x] /\ io'[x] = io[x]
      /\ Sane(pg'[p], io'[p])
      /\ pg'[p].make_page = pg[p].make_page /\ pg'[p].phys_dirty = pg[p].phys_dirty
      /\ Writable(pg'[p]) => Writable(pg[p])
      /\ Snapping(pg[p]) /\ pg[p].phys_dirty => Writing(p, "pageout")'
  BY <1>2, PageoutLocal
<1>4. ASSUME NEW x \in Page PROVE Snapping(pg[x])' <=> Snapping(pg[x])
  BY <1>2, <1>3 DEF Snapping
<1>5. ASSUME NEW x \in Page, x # p, Kicked(x)' PROVE Kicked(x)
  <2>1. \/ snap.at = NumPages /\ snap'.pc = "final"
        \/ snap'.pc = "kick2" /\ snap'.at = snap.at + 1
    BY <1>2, WalkType DEF SnapPc, IInv
  <2> QED BY <1>1, <1>2, <1>5, <2>1, NumPagesAssumption, SMTT(30) DEF Kicked, Page
<1>6. ASSUME NEW x \in Page PROVE Sane(pg[x], io[x])' /\ Guarded(x)'
  <2>1. CASE x = p
    BY <1>3, <1>4, <2>1 DEF FInv, Guarded
  <2>2. CASE x # p
    BY <1>3, <1>4, <1>5, <2>2 DEF FInv, Guarded, Writing
  <2> QED BY <2>1, <2>2
<1>7. ASSUME NEW t \in Thread PROVE Unmarked(t)'
  <2>1. th[t].page \in Page
    BY DEF IInv, TInv, TypeOK, ThreadRec
  <2> QED BY <1>2, <1>4, <2>1 DEF FInv, Unmarked
<1> QED BY <1>6, <1>7 DEF FInv

(* finalize_snap only takes marks away. *)
LEMMA FinalizeLocal ==
  ASSUME IInv, FInv, finalize_snap
  PROVE  FInv'
<1> USE DEF IInv, TInv, TypeOK
<1>1. PICK p \in Page, r \in PageRec : p = snap.at /\ r = pg[p]
  OBVIOUS
<1>2. UNCHANGED <<io, th>> /\ snap.pc \in {"final", "fwait"} /\ is_in_snapshot_process
  BY DEF finalize_snap, At, Phase, PhaseGlobal
<1>3. ASSUME NEW x \in Page
      PROVE  /\ pg'[x].phys_mem = pg[x].phys_mem /\ pg'[x].phys_dirty = pg[x].phys_dirty
             /\ pg'[x].phys_protect = pg[x].phys_protect /\ pg'[x].reclaim_q = pg[x].reclaim_q
             /\ Snapping(pg[x])' => Snapping(pg[x])
  <2>1. CASE UNCHANGED pg
    BY <1>2, <2>1 DEF Snapping
  <2>2. CASE pg' = [pg EXCEPT ![p] = IF Have(@.make_page) THEN @ ELSE TakeDiskCopy(@)]
    <3>1. PICK m : m = IF Have(r.make_page) THEN r ELSE TakeDiskCopy(r)
      OBVIOUS
    <3>2. /\ m.phys_mem = r.phys_mem /\ m.phys_dirty = r.phys_dirty
          /\ m.phys_protect = r.phys_protect /\ m.reclaim_q = r.reclaim_q /\ Have(m.make_page)
      BY <3>1, TakeFlags
    <3>3. pg'[p] = m /\ \A y \in Page \ {p} : pg'[y] = pg[y]
      BY <1>1, <2>2, <3>1
    <3> QED BY <1>1, <1>2, <3>2, <3>3 DEF Snapping
  <2> QED BY <1>1, <2>1, <2>2 DEF finalize_snap
<1>4. ASSUME NEW x \in Page PROVE Sane(pg[x], io[x])' /\ Guarded(x)'
  BY <1>2, <1>3 DEF FInv, Sane, Guarded, Writable, Kicked, Writing
<1>5. ASSUME NEW t \in Thread PROVE Unmarked(t)'
  <2>1. th[t].page \in Page
    BY DEF ThreadRec
  <2> QED BY <1>2, <1>3, <2>1 DEF FInv, Unmarked
<1> QED BY <1>4, <1>5 DEF FInv

-----------------------------------------------------------------------------
(* The invariant and what it gives. *)

LEMMA FInvInit == Init => FInv
<1> SUFFICES ASSUME Init PROVE FInv
  OBVIOUS
<1>1. ASSUME NEW p \in Page PROVE Sane(pg[p], io[p])
  BY DEF Init, Loaded, IdleIo, Sane, OnPage
<1> QED BY <1>1 DEF Init, FInv, Guarded, Unmarked, Snapping

LEMMA FInvNext == IInv /\ FInv /\ [Next]_vars => FInv'
<1> SUFFICES ASSUME IInv, FInv, [Next]_vars PROVE FInv'
  OBVIOUS
<1>1. CASE SnapperStep \/ StartSnapshot
  BY <1>1, QuietLocal, MarkLocal, KickLocal, FinalizeLocal DEF SnapperStep
<1>2. CASE UNCHANGED vars
  BY <1>2 DEF vars, FInv, Guarded, Unmarked, Snapping, Kicked, Writing
<1> QED BY <1>1, <1>2, ThreadLocal, PagerLocal, ReclaimLocal, LazyLocal DEF Next

LEMMA FaultInvariance == Spec => []FInv
BY FInvInit, FInvNext, Invariance, PTL DEF Spec

(* The queue operations of vm_map.c and physmem_try_to_reclaim_page: up to *)
(* the first queue operation that fails, a page is on a reclaim queue      *)
(* exactly while it has memory that no transfer uses, whatever threads     *)
(* fault on it and whatever transfers fail.                                *)
THEOREM ReclaimSafe == Spec => []ReclaimSparesIo
<1>1. FInv => ReclaimSparesIo
  BY DEF FInv, Sane, OnPage, ReclaimSparesIo, UnderIo, Busy
<1> QED BY <1>1, FaultInvariance, PTL

(* finalize_snap's assert(!p->flag_phys_dirty) never fails, though threads *)
(* that share the page fault on it, the lazy pageout thread works and      *)
(* transfers fail while the snapshot is made.                              *)
THEOREM FinalizeClean == Spec => []FinalizeFindsClean
<1>1. IInv /\ FInv => FinalizeFindsClean
  <2> SUFFICES ASSUME IInv, FInv, At({"final", "fwait"}), ~Busy(snap.at),
                      ~Have(pg[snap.at].make_page)
               PROVE  ~pg[snap.at].phys_dirty
    BY DEF FinalizeFindsClean
  <2>1. PICK p \in Page : p = snap.at
    BY DEF IInv, TInv, TypeOK
  <2>2. Kicked(p) /\ Snapping(pg[p])
    BY <2>1 DEF At, Kicked, Snapping, IInv, Phase, PhaseGlobal
  <2> QED BY <2>1, <2>2 DEF FInv, Guarded, Writing, Busy
<1> QED BY <1>1, Invariance, FaultInvariance, PTL
=============================================================================
