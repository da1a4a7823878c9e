---------------------------- MODULE VmMapBlocks ----------------------------
(***************************************************************************)
(* Who owns a block.  Every step of VmMap keeps the invariant of           *)
(* VmMapIndInv: why a step taken under one page's lock does, why the steps *)
(* of the faulting threads, the pager, memory reclaim and the lazy pageout *)
(* thread are such steps, and the steps of the snapshot thread             *)
(* (do_snapshot).  The theorems follow: no block has two owners, what a    *)
(* committed snapshot keeps, and that the disk suffices.  They hold for    *)
(* any number of pages, blocks, values and threads, any set of accesses    *)
(* (threads may share pages) and any number of failed transfers.           *)
(***************************************************************************)
EXTENDS VmMapIndInv, FiniteSetTheorems, TLAPS

(* The time limits of the provers. *)
USE ZenonT(10), SMTT(30)

-----------------------------------------------------------------------------
(* The page record helpers keep the type of a page. *)

(* The reclaim queue functions change nothing but the queue field. *)
LEMMA QueueOps ==
  ASSUME NEW r \in PageRec, NEW q \in {"clean", "dirty"}
  PROVE  /\ put_on_q(r, q) \in PageRec
         /\ remove_from_q(r, q) \in PageRec
         /\ put_on_q(r, q).curr_page = r.curr_page
         /\ put_on_q(r, q).make_page = r.make_page
         /\ put_on_q(r, q).prev_page = r.prev_page
         /\ put_on_q(r, q).phys_mem = r.phys_mem
         /\ remove_from_q(r, q).curr_page = r.curr_page
         /\ remove_from_q(r, q).make_page = r.make_page
         /\ remove_from_q(r, q).prev_page = r.prev_page
         /\ remove_from_q(r, q).phys_mem = r.phys_mem
BY DEF PageRec, put_on_q, remove_from_q

(* move_to_dirty_q changes nothing but the queue field. *)
LEMMA MoveOp ==
  ASSUME NEW r \in PageRec
  PROVE  /\ move_to_dirty_q(r) \in PageRec
         /\ move_to_dirty_q(r).curr_page = r.curr_page
         /\ move_to_dirty_q(r).make_page = r.make_page
         /\ move_to_dirty_q(r).prev_page = r.prev_page
         /\ move_to_dirty_q(r).phys_mem = r.phys_mem
<1> DEFINE s == remove_from_q(r, "clean")
<1>1. /\ s \in PageRec
      /\ s.curr_page = r.curr_page /\ s.make_page = r.make_page
      /\ s.prev_page = r.prev_page /\ s.phys_mem = r.phys_mem
  BY QueueOps
<1>2. /\ put_on_q(s, "dirty") \in PageRec
      /\ put_on_q(s, "dirty").curr_page = s.curr_page
      /\ put_on_q(s, "dirty").make_page = s.make_page
      /\ put_on_q(s, "dirty").prev_page = s.prev_page
      /\ put_on_q(s, "dirty").phys_mem = s.phys_mem
  <2> HIDE DEF s
  <2> QED BY <1>1, QueueOps
<1> QED BY <1>1, <1>2 DEF move_to_dirty_q

(* The snapshot copy TakeDiskCopy gives a page was one of its own copies,  *)
(* or is the zero page.                                                    *)
LEMMA TakeOp ==
  ASSUME NEW r \in PageRec
  PROVE  LET n == TakeDiskCopy(r) IN
         /\ n \in PageRec
         /\ n.make_page \in {r.curr_page, r.prev_page, ZeroPage} \ {NoPage}
         /\ n.curr_page \in {r.curr_page, NoPage}
         /\ n.prev_page \in {r.prev_page, NoPage}
         /\ n.make_page = r.curr_page => n.curr_page = NoPage
         /\ r.curr_page \in {n.curr_page, n.make_page, NoPage}
         /\ r.prev_page \in {n.prev_page, n.make_page, NoPage}
         /\ n.phys_mem = r.phys_mem
BY BlockAssumption DEF PageRec, TakeDiskCopy, Have, BlockRef

(* A fault reads a page from one of its own copies or finds it empty. *)
LEMMA SourceType ==
  ASSUME NEW r \in PageRec
  PROVE  Source(r) \in BlockRef
BY BlockAssumption DEF PageRec, Source, Have, BlockRef

-----------------------------------------------------------------------------
(* What a step that holds the lock of page p may do to p. *)

(* No copy of the page changes hands and no write is requested. *)
Kept(p) ==
  /\ pg'[p].curr_page = pg[p].curr_page
  /\ pg'[p].make_page = pg[p].make_page
  /\ pg'[p].prev_page = pg[p].prev_page
  /\ free' = free
  /\ \A cb \in {"pageout", "cow"} :
       Writing(p, cb)' => Writing(p, cb) /\ io'[p].disk_page = io[p].disk_page

(* The page's current copy, a new one if it has none, is being written. *)
StartsPageout(p) ==
  /\ pg'[p].curr_page \in IF Have(pg[p].curr_page) THEN {pg[p].curr_page} ELSE free
  /\ pg'[p].make_page = pg[p].make_page
  /\ pg'[p].prev_page = pg[p].prev_page
  /\ free' = free \ {pg'[p].curr_page}
  /\ io'[p].cb = "pageout" /\ io'[p].disk_page = pg'[p].curr_page

(* The same for the snapshot copy, which takes over the current one. *)
StartsCopy(p) ==
  /\ Snapping(pg[p])
  /\ pg'[p].make_page \in IF Have(pg[p].curr_page) THEN {pg[p].curr_page} ELSE free
  /\ pg'[p].curr_page = NoPage
  /\ pg'[p].prev_page = pg[p].prev_page
  /\ free' = free \ {pg'[p].make_page}
  /\ io'[p].cb = "cow" /\ io'[p].disk_page = pg'[p].make_page

(* The page is unchanged since the snapshot and its disk copy goes there. *)
TakesDiskCopy(p) ==
  /\ Snapping(pg[p])
  /\ pg'[p].make_page \in {pg[p].curr_page, pg[p].prev_page, ZeroPage} \ {NoPage}
  /\ pg'[p].curr_page \in {pg[p].curr_page, NoPage}
  /\ pg'[p].make_page = pg[p].curr_page => pg'[p].curr_page = NoPage
  /\ pg'[p].prev_page \in {pg[p].prev_page, NoPage}
  /\ pg[p].curr_page \in {pg'[p].curr_page, pg'[p].make_page, NoPage}
  /\ pg[p].prev_page \in {pg'[p].prev_page, pg'[p].make_page, NoPage}
  /\ free' = free
  /\ \A cb \in {"pageout", "cow"} : ~Writing(p, cb)'

Lists == <<list, last_snap, prev_snap, toFree>>

Effect(p) ==
  /\ pg' \in [Page -> PageRec] /\ io' \in [Page -> IoRec] /\ free' \in SUBSET Block
  /\ \A q \in Page \ {p} : pg'[q] = pg[q] /\ io'[q] = io[q]
  /\ io'[p].st # "idle" => io'[p].disk_page \in Block /\ io'[p].cb # "none"
  /\ Kept(p) \/ StartsPageout(p) \/ StartsCopy(p) \/ TakesDiskCopy(p)

(* At most the page's snapshot copy is entered in the new pagelist. *)
ListStep(p) ==
  /\ UNCHANGED <<last_snap, prev_snap, toFree>>
  /\ \A q \in Page \ {p} : list'[q] = list[q]
  /\ \/ list'[p] = list[p]
     \/ /\ list[p] = ZeroPage
        /\ list'[p] = pg[p].make_page
        /\ pg'[p].make_page = pg[p].make_page
        /\ Kept(p) \/ StartsPageout(p)

(* Such a step leaves every block with one owner. *)
LEMMA EffectKeepsOwn ==
  ASSUME IInv, NEW p \in Page, Effect(p), ListStep(p)
  PROVE  Own' /\ IoHasTarget'
<1> USE DEF IInv, TInv, TypeOK
<1>1. IoHasTarget'
  BY DEF IoHasTarget, Effect
<1>2. Refs(p)' \subseteq Refs(p) \cup (free \ free') /\ free' \subseteq free
  BY BlockAssumption, SMTT(30)
  DEF Effect, Kept, StartsPageout, StartsCopy, TakesDiskCopy, Refs, ListStep, Have,
     PageRec, BlockRef
<1>3. \A q \in Page \ {p} : Refs(q)' = Refs(q)
  BY DEF Effect, Refs, ListStep
<1>4. Apart'
  <2> SUFFICES ASSUME NEW x \in Page, NEW y \in Page, x # y
               PROVE  Refs(x)' \cap Refs(y)' = {}
    BY DEF Apart
  <2>1. Refs(x) \cap Refs(y) = {} /\ Refs(x) \cap free = {} /\ Refs(y) \cap free = {}
    BY DEF Own, Apart, OwnPage
  <2> QED BY <1>2, <1>3, <2>1, SMTT(30)
<1>5. ASSUME NEW q \in Page, q # p PROVE OwnPage(q)'
  <2>1. OwnPage(q)
    BY DEF Own
  <2>2. Refs(q)' \cap free' = {}
    BY <1>2, <1>3, <1>5, <2>1 DEF OwnPage
  <2> QED BY <1>5, <2>1, <2>2 DEF OwnPage, Effect, ListStep, Writing
<1>6. OwnPage(p)'
  <2>1. OwnPage(p)
    BY DEF Own
  <2>2. Refs(p)' \cap free' = {}
    BY <1>2, <2>1 DEF OwnPage, Effect, Kept, StartsPageout, StartsCopy, TakesDiskCopy
  <2>3. CASE Kept(p)
    <3>1. CASE list'[p] = list[p]
      BY <2>1, <2>2, <2>3, <3>1 DEF OwnPage, Kept, ListStep, Have, Writing
    <3>2. CASE list[p] = ZeroPage /\ list'[p] = pg[p].make_page
      BY <2>1, <2>2, <2>3, <3>2, BlockAssumption
         DEF OwnPage, Kept, ListStep, Have, Writing, IoHasTarget
    <3> QED BY <3>1, <3>2 DEF ListStep
  <2>4. CASE StartsPageout(p)
    <3>1. CASE Have(pg[p].curr_page)
      BY <2>1, <2>2, <2>4, <3>1, BlockAssumption
      DEF OwnPage, StartsPageout, ListStep, Have, Writing
    <3>2. CASE ~Have(pg[p].curr_page)
      <4>1. pg'[p].curr_page \in free /\ pg'[p].curr_page \notin Refs(p)
        BY <2>1, <2>4, <3>2 DEF StartsPageout, OwnPage
      <4>2. pg'[p].curr_page \notin {pg[p].make_page, pg[p].prev_page, list[p],
                                   last_snap[p], prev_snap[p], toFree[p]}
        BY <4>1 DEF Refs
      <4> QED BY <2>1, <2>2, <2>4, <4>2, BlockAssumption
              DEF OwnPage, StartsPageout, ListStep, Have, Writing
    <3> QED BY <3>1, <3>2
  <2>5. CASE StartsCopy(p)
    <3> DEFINE b == pg'[p].make_page
    <3>1. b \in Block /\ b \notin {last_snap[p], prev_snap[p]}
      <4>1. CASE Have(pg[p].curr_page)
        BY <2>1, <2>5, <4>1 DEF OwnPage, StartsCopy, Have, PageRec
      <4>2. CASE ~Have(pg[p].curr_page)
        <5>1. b \in free /\ b \notin Refs(p)
          BY <2>1, <2>5, <4>2 DEF StartsCopy, OwnPage
        <5> QED BY <5>1 DEF Refs
      <4> QED BY <4>1, <4>2
    <3> QED BY <2>1, <2>2, <2>5, <3>1, BlockAssumption
            DEF OwnPage, StartsCopy, ListStep, Have, Writing
  <2>6. CASE TakesDiskCopy(p)
    <3>1. Have(pg'[p].curr_page) =>
            /\ pg'[p].curr_page = pg[p].curr_page /\ pg'[p].make_page # pg[p].curr_page
            /\ pg'[p].prev_page # pg[p].curr_page
      BY <2>1, <2>6 DEF TakesDiskCopy, Have, OwnPage
    <3> QED BY <2>1, <2>2, <2>6, <3>1, BlockAssumption
            DEF OwnPage, TakesDiskCopy, ListStep, Have
  <2> QED BY <2>3, <2>4, <2>5, <2>6 DEF Effect
<1> QED BY <1>1, <1>4, <1>5, <1>6 DEF Own

(* Away from the snapshot thread such a step leaves the phases as they are. *)
LEMMA EffectKeepsPhase ==
  ASSUME IInv, NEW p \in Page, Effect(p), UNCHANGED Lists,
         UNCHANGED <<snap, is_in_snapshot_process>>
  PROVE  Phase'
<1> USE DEF IInv, TInv, TypeOK
<1>1. PhaseGlobal'
  BY DEF Phase, PhaseGlobal, Lists
<1>2. ASSUME NEW q \in Page, q # p PROVE PhasePage(q)'
  BY <1>2 DEF Phase, PhasePage, Effect, Lists, Writing
<1>3. PhasePage(p)'
  <2>1. PhasePage(p) /\ PhaseGlobal
    BY DEF Phase
  <2>2. CASE Kept(p)
    BY <2>1, <2>2 DEF PhasePage, Kept, Lists, Writing
  <2>3. CASE StartsPageout(p)
    BY <2>1, <2>3 DEF PhasePage, StartsPageout, Lists, Writing
  <2>4. CASE StartsCopy(p) \/ TakesDiskCopy(p)
    <3>1. snap.pc \in {"kick2", "final", "fwait"} /\ ~Have(pg[p].make_page)
      BY <2>1, <2>4 DEF StartsCopy, TakesDiskCopy, Snapping, PhaseGlobal
    <3>2. Have(pg'[p].make_page)
      BY <2>4, BlockAssumption DEF StartsCopy, TakesDiskCopy, Have, PageRec
    <3> QED BY <2>1, <3>1, <3>2 DEF PhasePage, Lists, Writing, SnapPc
  <2> QED BY <2>2, <2>3, <2>4 DEF Effect
<1> QED BY <1>1, <1>2, <1>3 DEF Phase

-----------------------------------------------------------------------------
(* What each operation does to its page. *)

(* vm_page_req_pageout does nothing or starts a pageout. *)
LEMMA PageoutEffect ==
  ASSUME TInv, NEW p \in Page, vm_page_req_pageout(p)
  PROVE  Effect(p) /\ (Kept(p) \/ StartsPageout(p))
<1> USE DEF TInv, TypeOK
<1>1. CASE ~CanPageout(p) /\ UNCHANGED <<pg, io, free>>
  BY <1>1 DEF IoHasTarget, Effect, Kept, Writing
<1>2. CASE CanPageout(p)
  <2>1. PICK b \in IF Have(pg[p].curr_page) THEN {pg[p].curr_page} ELSE Candidates(free) :
          /\ pg' = [pg EXCEPT ![p] = remove_from_q([pg[p] EXCEPT !.curr_page = b,
                                      !.phys_protect = TRUE, !.map = "ro"], "dirty")]
          /\ io' = [io EXCEPT ![p] = NewIo("pageout", b, Junk)]
          /\ free' = free \ {b}
    BY <1>2 DEF vm_page_req_pageout
  <2>2. /\ b \in Block
        /\ b \in IF Have(pg[p].curr_page) THEN {pg[p].curr_page} ELSE free
    BY CandidatesAssumption, SMTT(30) DEF PageRec, Have
  <2>3. PICK r \in PageRec : r = pg[p]
    OBVIOUS
  <2> DEFINE n == [r EXCEPT !.curr_page = b, !.phys_protect = TRUE, !.map = "ro"]
             m == remove_from_q(n, "dirty")
  <2>4. /\ m \in PageRec /\ m.curr_page = b
        /\ m.make_page = r.make_page /\ m.prev_page = r.prev_page
    <3>1. /\ n \in PageRec /\ n.curr_page = b
          /\ n.make_page = r.make_page /\ n.prev_page = r.prev_page
      BY <2>2 DEF PageRec
    <3> HIDE DEF n
    <3> QED BY <3>1, QueueOps
  <2>5. /\ NewIo("pageout", b, Junk) \in IoRec /\ NewIo("pageout", b, Junk).disk_page = b
        /\ NewIo("pageout", b, Junk).cb = "pageout"
    BY <2>2 DEF NewIo, IoRec, Contents
  <2> HIDE DEF m
  <2>6. /\ pg' \in [Page -> PageRec] /\ io' \in [Page -> IoRec] /\ free' \in SUBSET Block
        /\ pg'[p] = m /\ io'[p] = NewIo("pageout", b, Junk)
        /\ \A q \in Page \ {p} : pg'[q] = pg[q] /\ io'[q] = io[q]
    BY <2>1, <2>3, <2>4, <2>5 DEF m
  <2>7. StartsPageout(p)
    BY <2>1, <2>2, <2>3, <2>4, <2>5, <2>6 DEF StartsPageout
  <2> QED BY <2>2, <2>5, <2>6, <2>7 DEF Effect
<1> QED BY <1>1, <1>2 DEF vm_page_req_pageout

(* Populate brings page r in under p: it keeps r's copies and starts no    *)
(* write.                                                                  *)
LEMMA PopulateEffect ==
  ASSUME TInv, NEW t \in Thread, NEW p \in Page, NEW r \in PageRec, NEW prot \in BOOLEAN,
         NEW q \in {"clean", "dirty"}, Populate(t, p, r, prot, q)
  PROVE  /\ pg' \in [Page -> PageRec] /\ io' \in [Page -> IoRec] /\ ram' \in [Page -> Contents]
         /\ th' \in [Thread -> ThreadRec]
         /\ pg'[p].curr_page = r.curr_page /\ pg'[p].make_page = r.make_page
         /\ pg'[p].prev_page = r.prev_page
         /\ \A x \in Page \ {p} : pg'[x] = pg[x] /\ io'[x] = io[x]
         /\ io'[p].st # "idle" => io'[p].cb = "pagein" /\ io'[p].disk_page \in Block
<1> USE DEF TInv, TypeOK
<1> DEFINE b == Source(r)
           n == [r EXCEPT !.phys_mem = TRUE, !.phys_protect = prot, !.phys_dirty = FALSE]
           z == [n EXCEPT !.phys_dirty = ~prot, !.map = IF prot THEN "ro" ELSE "rw"]
           m == put_on_q(z, q)
<1>1. /\ n \in PageRec /\ n.curr_page = r.curr_page
      /\ n.make_page = r.make_page /\ n.prev_page = r.prev_page
      /\ z \in PageRec /\ z.curr_page = r.curr_page
      /\ z.make_page = r.make_page /\ z.prev_page = r.prev_page
  BY DEF PageRec
<1>2. /\ m \in PageRec /\ m.curr_page = r.curr_page
      /\ m.make_page = r.make_page /\ m.prev_page = r.prev_page
  <2> HIDE DEF z
  <2> QED BY <1>1, QueueOps, SMTT(30)
<1>3. CASE b = ZeroPage
  <2>1. /\ pg' = [pg EXCEPT ![p] = m] /\ ram' = [ram EXCEPT ![p] = Zero]
        /\ io' = [io EXCEPT ![p] = IdleIo] /\ th' = [th EXCEPT ![t].pc = "access"]
    BY <1>3 DEF Populate, Return, Goto
  <2>2. IdleIo \in IoRec /\ IdleIo.st = "idle"
    BY DEF IdleIo, IoRec, Contents
  <2> HIDE DEF m
  <2> QED BY <1>2, <2>1, <2>2, ValueAssumption, SMTT(30) DEF ThreadRec, Contents
<1>4. CASE b # ZeroPage
  <2>1. /\ pg' = [pg EXCEPT ![p] = n] /\ ram' = ram
        /\ io' = [io EXCEPT ![p] = NewIo("pagein", b, Junk)]
        /\ th' = [th EXCEPT ![t].pc = "pagein"]
    BY <1>4 DEF Populate, Goto
  <2>2. b \in Block
    BY <1>4, SourceType DEF BlockRef
  <2>3. /\ NewIo("pagein", b, Junk) \in IoRec /\ NewIo("pagein", b, Junk).disk_page = b
        /\ NewIo("pagein", b, Junk).cb = "pagein"
    BY <2>2 DEF NewIo, IoRec, Contents
  <2> HIDE DEF n, b
  <2> QED BY <1>1, <2>1, <2>2, <2>3, SMTT(30) DEF ThreadRec
<1> QED BY <1>3, <1>4

(* The rest of TypeOK, of no interest to ownership. *)
RestOK ==
  /\ ram \in [Page -> Contents] /\ disk \in [Block -> Contents]
  /\ th \in [Thread -> ThreadRec] /\ asleep \in SUBSET (Thread \cup {Snapper})
  /\ lazy \in Page \cup {0} /\ ioerror \in SUBSET Page

(* A step by a thread, the pager, reclaim or the lazy pageout thread. *)
PageStep(p) ==
  /\ Effect(p)
  /\ UNCHANGED Lists /\ UNCHANGED <<snap, is_in_snapshot_process>>
  /\ RestOK'

(* A step under one page's lock keeps the invariant. *)
LEMMA PageStepKeeps ==
  ASSUME IInv, NEW p \in Page, PageStep(p)
  PROVE  IInv'
<1>1. Own' /\ IoHasTarget'
  BY EffectKeepsOwn DEF PageStep, Lists, ListStep
<1>2. Phase'
  BY EffectKeepsPhase DEF PageStep
<1>3. TypeOK'
  BY DEF PageStep, Effect, RestOK, Lists, IInv, TInv, TypeOK
<1> QED BY <1>1, <1>2, <1>3 DEF IInv, TInv

(* A step that leaves page and request alone. *)
LEMMA NoPageChange ==
  ASSUME IInv, NEW p \in Page, UNCHANGED <<pg, io, free>>
  PROVE  Effect(p)
BY DEF IInv, TInv, TypeOK, IoHasTarget, Effect, Kept, Writing

-----------------------------------------------------------------------------
(* page_fault_read touches the faulting page only and writes nothing. *)
LEMMA ReadFaultStep ==
  ASSUME IInv, NEW t \in Thread, page_fault_read(t)
  PROVE  \E p \in Page : PageStep(p)
<1> USE DEF IInv, TInv, TypeOK
<1>0. PICK p \in Page : p = th[t].page
  BY DEF ThreadRec
<1> SUFFICES PageStep(p)
  OBVIOUS
<1>1. CASE Busy(p) /\ WaitDone(t)
  <2>1. Effect(p)
    BY <1>1, NoPageChange DEF WaitDone
  <2> QED BY <1>1, <2>1 DEF page_fault_read, WaitDone, PageStep, Lists, RestOK
<1>2. CASE Return(t) /\ UNCHANGED <<pg, io, ram, free, asleep>>
  <2>1. Effect(p)
    BY <1>2, NoPageChange
  <2> QED BY <1>2, <2>1, ZenonT(30)
          DEF page_fault_read, Return, Goto, PageStep, Lists, RestOK, ThreadRec
<1>3. CASE ~Busy(p) /\ Populate(t, p, pg[p], TRUE, "clean") /\ UNCHANGED <<free, asleep>>
  <2>1. /\ pg' \in [Page -> PageRec] /\ io' \in [Page -> IoRec] /\ ram' \in [Page -> Contents]
        /\ th' \in [Thread -> ThreadRec]
        /\ pg'[p].curr_page = pg[p].curr_page /\ pg'[p].make_page = pg[p].make_page
        /\ pg'[p].prev_page = pg[p].prev_page
        /\ \A x \in Page \ {p} : pg'[x] = pg[x] /\ io'[x] = io[x]
        /\ io'[p].st # "idle" => io'[p].cb = "pagein" /\ io'[p].disk_page \in Block
    BY <1>3, PopulateEffect
  <2>2. Kept(p)
    BY <1>3, <2>1 DEF Kept, Writing
  <2>3. Effect(p)
    BY <1>3, <2>1, <2>2 DEF Effect
  <2> QED BY <1>3, <2>1, <2>3 DEF page_fault_read, PageStep, Lists, RestOK
<1> QED BY <1>0, <1>1, <1>2, <1>3 DEF page_fault_read

(* With no snapshot copy yet in the making and no IO on the page's memory, *)
(* no COW copy is on its way either.                                       *)
LEMMA SnappingIsQuiet ==
  ASSUME IInv, NEW p \in Page, Snapping(pg[p])
  PROVE  ~Writing(p, "cow")
<1>1. snap.pc \in {"kick2", "final", "fwait"} /\ list[p] = ZeroPage
  BY DEF IInv, Phase, PhaseGlobal, Snapping, NoList
<1>2. Writing(p, "cow") => io[p].disk_page \in Block /\ io[p].disk_page \in {pg[p].make_page, list[p]}
  BY DEF IInv, TInv, IoHasTarget, Own, OwnPage, Writing
<1> QED BY <1>1, <1>2, BlockAssumption DEF Snapping, Have

(* The copy-on-write step. *)
LEMMA CopyStep ==
  ASSUME IInv, NEW t \in Thread, NEW p \in Page, NEW r \in PageRec,
         r.curr_page = pg[p].curr_page, r.prev_page = pg[p].prev_page,
         Snapping(pg[p]), CopyOnWrite(t, p, r)
  PROVE  /\ Effect(p)
         /\ ram' = ram /\ th' \in [Thread -> ThreadRec]
         /\ asleep' \in SUBSET (Thread \cup {Snapper})
<1> USE DEF IInv, TInv, TypeOK
<1>1. PICK b \in IF Have(r.curr_page) THEN {r.curr_page} ELSE Candidates(free) :
        /\ pg' = [pg EXCEPT ![p] = [r EXCEPT !.make_page = b, !.curr_page = NoPage,
                                    !.phys_protect = FALSE, !.map = "rw"]]
        /\ io' = [io EXCEPT ![p] = NewIo("cow", b, ram[p])]
        /\ free' = free \ {b}
  BY DEF CopyOnWrite
<1>2. /\ b \in Block
      /\ b \in IF Have(pg[p].curr_page) THEN {pg[p].curr_page} ELSE free
  BY CandidatesAssumption DEF PageRec, Have
<1> DEFINE n == [r EXCEPT !.make_page = b, !.curr_page = NoPage,
                          !.phys_protect = FALSE, !.map = "rw"]
<1>3. n \in PageRec /\ n.make_page = b /\ n.curr_page = NoPage /\ n.prev_page = r.prev_page
  BY <1>2 DEF PageRec, BlockRef
<1>4. /\ NewIo("cow", b, ram[p]) \in IoRec /\ NewIo("cow", b, ram[p]).disk_page = b
      /\ NewIo("cow", b, ram[p]).cb = "cow"
  BY <1>2 DEF NewIo, IoRec
<1> HIDE DEF n
<1>5. /\ pg' \in [Page -> PageRec] /\ io' \in [Page -> IoRec] /\ free' \in SUBSET Block
      /\ pg'[p] = n /\ io'[p] = NewIo("cow", b, ram[p])
      /\ \A q \in Page \ {p} : pg'[q] = pg[q] /\ io'[q] = io[q]
  BY <1>1, <1>3, <1>4 DEF n
<1>6. StartsCopy(p)
  BY <1>1, <1>2, <1>3, <1>4, <1>5 DEF StartsCopy
<1>7. Effect(p)
  BY <1>2, <1>4, <1>5, <1>6 DEF Effect
<1> QED BY <1>7, SMTT(30) DEF CopyOnWrite, Return, Goto, Broadcast, ThreadRec

(* page_fault_write after its wait loop, the request being q = io[p] or     *)
(* dequeued.                                                               *)
LEMMA WriteFaultEffect ==
  ASSUME IInv, NEW t \in Thread, NEW p \in Page, NEW r \in PageRec, NEW q \in IoRec,
         SameCopies(r, pg[p]),
         q.st # "idle" => q = io[p] /\ q.cb # "pageout" /\ q.disk_page \in Block,
         WriteFault(t, p, r, q)
  PROVE  /\ Effect(p)
         /\ ram' \in [Page -> Contents] /\ th' \in [Thread -> ThreadRec]
         /\ asleep' \in SUBSET (Thread \cup {Snapper})
<1> USE DEF IInv, TInv, TypeOK
<1>1. Snapping(r) <=> Snapping(pg[p])
  BY DEF Snapping, SameCopies
<1>2. ASSUME NEW m \in PageRec, SameCopies(m, pg[p]),
             pg' = [pg EXCEPT ![p] = m], io' = [io EXCEPT ![p] = q], free' = free
      PROVE  Effect(p)
  <2>1. /\ pg' \in [Page -> PageRec] /\ io' \in [Page -> IoRec]
        /\ pg'[p] = m /\ io'[p] = q
        /\ \A x \in Page \ {p} : pg'[x] = pg[x] /\ io'[x] = io[x]
    BY <1>2
  <2>2. Kept(p)
    BY <1>2, <2>1 DEF Kept, SameCopies, Writing
  <2> QED BY <1>2, <2>1, <2>2 DEF Effect, IoHasTarget
<1>3. CASE /\ Writable(r)
           /\ pg' = [pg EXCEPT ![p] = IF r.phys_dirty THEN r
                                      ELSE [move_to_dirty_q(r) EXCEPT !.phys_dirty = TRUE]]
           /\ io' = [io EXCEPT ![p] = q]
           /\ Return(t)
           /\ UNCHANGED <<ram, free, asleep>>
  <2> DEFINE m == IF r.phys_dirty THEN r ELSE [move_to_dirty_q(r) EXCEPT !.phys_dirty = TRUE]
  <2>1. m \in PageRec /\ SameCopies(m, pg[p])
    <3>1. PICK d \in PageRec : d = move_to_dirty_q(r)
      BY MoveOp
    <3>2. SameCopies(d, pg[p])
      BY <3>1, MoveOp DEF SameCopies
    <3>3. [d EXCEPT !.phys_dirty = TRUE] \in PageRec
          /\ SameCopies([d EXCEPT !.phys_dirty = TRUE], d)
      BY DEF PageRec, SameCopies
    <3> QED BY <3>1, <3>2, <3>3 DEF SameCopies
  <2>2. Effect(p)
    <3>1. pg' = [pg EXCEPT ![p] = m]
      BY <1>3
    <3> HIDE DEF m
    <3> QED BY <1>2, <1>3, <2>1, <3>1
  <2> QED BY <1>3, <2>2, ZenonT(30) DEF Return, Goto, ThreadRec
<1>4. CASE NeedsCopy(r) /\ CopyOnWrite(t, p, r)
  <2>1. Snapping(pg[p]) /\ r.curr_page = pg[p].curr_page /\ r.prev_page = pg[p].prev_page
    BY <1>1, <1>4 DEF NeedsCopy, SameCopies
  <2> QED BY <1>4, <2>1, CopyStep
<1>5. CASE /\ LET a == IF Snapping(r) THEN TakeDiskCopy(r) ELSE r
              IN \/ /\ a.phys_mem
                    /\ pg' = [pg EXCEPT ![p] = move_to_dirty_q([a EXCEPT !.phys_protect = FALSE,
                                                !.phys_dirty = TRUE, !.map = "rw"])]
                    /\ io' = [io EXCEPT ![p] = q]
                    /\ Return(t)
                    /\ UNCHANGED ram
                 \/ ~a.phys_mem /\ Populate(t, p, a, FALSE, "dirty")
           /\ UNCHANGED <<free, asleep>>
  <2>1. PICK a \in PageRec : a = IF Snapping(r) THEN TakeDiskCopy(r) ELSE r
    BY TakeOp
  <2>2. Snapping(r) =>
          /\ a.make_page \in {pg[p].curr_page, pg[p].prev_page, ZeroPage} \ {NoPage}
          /\ a.curr_page \in {pg[p].curr_page, NoPage}
          /\ a.prev_page \in {pg[p].prev_page, NoPage}
          /\ a.make_page = pg[p].curr_page => a.curr_page = NoPage
          /\ pg[p].curr_page \in {a.curr_page, a.make_page, NoPage}
          /\ pg[p].prev_page \in {a.prev_page, a.make_page, NoPage}
    BY <2>1, TakeOp DEF SameCopies
  <2>3. ASSUME pg' \in [Page -> PageRec], io' \in [Page -> IoRec], SameCopies(pg'[p], a),
               \A x \in Page \ {p} : pg'[x] = pg[x] /\ io'[x] = io[x],
               io'[p].st # "idle" =>
                 io'[p].disk_page \in Block /\ (io'[p].cb = "pagein" \/ io'[p] = q)
        PROVE  Effect(p)
    <3>1. CASE Snapping(r)
      <4>1. ~Writing(p, "cow")
        BY <1>1, <3>1, SnappingIsQuiet
      <4>2. TakesDiskCopy(p)
        BY <1>1, <1>5, <2>2, <2>3, <3>1, <4>1 DEF TakesDiskCopy, SameCopies, Writing
      <4> QED BY <1>5, <2>3, <4>2 DEF Effect, IoHasTarget
    <3>2. CASE ~Snapping(r)
      <4>1. Kept(p)
        BY <1>5, <2>1, <2>3, <3>2 DEF Kept, SameCopies, Writing
      <4> QED BY <1>5, <2>3, <4>1 DEF Effect, IoHasTarget
    <3> QED BY <3>1, <3>2
  <2>4. CASE /\ pg' = [pg EXCEPT ![p] = move_to_dirty_q([a EXCEPT !.phys_protect = FALSE,
                                         !.phys_dirty = TRUE, !.map = "rw"])]
             /\ io' = [io EXCEPT ![p] = q]
             /\ Return(t)
             /\ UNCHANGED ram
    <3> DEFINE n == [a EXCEPT !.phys_protect = FALSE, !.phys_dirty = TRUE, !.map = "rw"]
               m == move_to_dirty_q(n)
    <3>1. n \in PageRec /\ SameCopies(n, a)
      BY ZenonT(30) DEF PageRec, SameCopies
    <3>2. m \in PageRec /\ SameCopies(m, a)
      <4> HIDE DEF n
      <4> QED BY <3>1, MoveOp DEF SameCopies
    <3>3. pg' = [pg EXCEPT ![p] = m]
      BY <2>4
    <3> HIDE DEF m
    <3>4. Effect(p)
      BY <2>3, <2>4, <3>2, <3>3
    <3> QED BY <1>5, <2>4, <3>4, ZenonT(30) DEF Return, Goto, ThreadRec
  <2>5. CASE Populate(t, p, a, FALSE, "dirty")
    <3>1. /\ pg' \in [Page -> PageRec] /\ io' \in [Page -> IoRec]
          /\ ram' \in [Page -> Contents] /\ th' \in [Thread -> ThreadRec]
          /\ SameCopies(pg'[p], a)
          /\ \A x \in Page \ {p} : pg'[x] = pg[x] /\ io'[x] = io[x]
          /\ io'[p].st # "idle" => io'[p].cb = "pagein" /\ io'[p].disk_page \in Block
      <4> HIDE DEF IInv, TInv, TypeOK
      <4>1. TInv
        BY DEF IInv
      <4>2. FALSE \in BOOLEAN /\ "dirty" \in {"clean", "dirty"}
        OBVIOUS
      <4> QED BY <2>5, <4>1, <4>2, PopulateEffect DEF SameCopies
    <3> QED BY <1>5, <2>3, <3>1
  <2> QED BY <1>5, <2>1, <2>4, <2>5
<1> QED BY <1>3, <1>4, <1>5 DEF WriteFault

(* page_fault_write touches the faulting page only, and in one of the four *)
(* allowed ways.                                                           *)
LEMMA WriteFaultStep ==
  ASSUME IInv, NEW t \in Thread, page_fault_write(t)
  PROVE  \E p \in Page : PageStep(p)
<1> USE DEF IInv, TInv, TypeOK
<1>0. PICK p \in Page : p = th[t].page
  BY DEF ThreadRec
<1> SUFFICES PageStep(p)
  OBVIOUS
<1>1. CASE UnderIo(p) /\ WaitDone(t)
  <2>1. Effect(p)
    BY <1>1, NoPageChange DEF WaitDone
  <2> QED BY <1>1, <2>1 DEF page_fault_write, WaitDone, PageStep, Lists, RestOK
<1>2. ASSUME NEW r \in PageRec, NEW q \in IoRec, SameCopies(r, pg[p]),
             q.st # "idle" => q = io[p] /\ q.cb # "pageout" /\ q.disk_page \in Block,
             WriteFault(t, p, r, q)
      PROVE  PageStep(p)
  <2>1. /\ Effect(p)
        /\ ram' \in [Page -> Contents] /\ th' \in [Thread -> ThreadRec]
        /\ asleep' \in SUBSET (Thread \cup {Snapper})
    BY <1>2, WriteFaultEffect
  <2> QED BY <2>1 DEF page_fault_write, PageStep, Lists, RestOK
<1>3. CASE WriteFault(t, p, put_on_q(pg[p], IF pg[p].phys_dirty THEN "dirty" ELSE "clean"),
                      IdleIo)
  <2>1. PICK z \in {"clean", "dirty"} : z = IF pg[p].phys_dirty THEN "dirty" ELSE "clean"
    OBVIOUS
  <2>2. put_on_q(pg[p], z) \in PageRec /\ SameCopies(put_on_q(pg[p], z), pg[p])
    BY QueueOps DEF SameCopies
  <2>3. IdleIo \in IoRec /\ IdleIo.st = "idle"
    BY DEF IdleIo, IoRec, Contents
  <2> QED BY <1>2, <1>3, <2>1, <2>2, <2>3
<1>4. CASE ~UnderIo(p) /\ WriteFault(t, p, pg[p], io[p])
  <2>1. SameCopies(pg[p], pg[p])
    BY DEF SameCopies
  <2>2. io[p].st # "idle" => io[p].cb # "pageout" /\ io[p].disk_page \in Block
    BY <1>4 DEF UnderIo, Busy, IoHasTarget
  <2> QED BY <1>2, <1>4, <2>1, <2>2
<1> QED BY <1>0, <1>1, <1>3, <1>4 DEF page_fault_write

(* A step that replaces page p's record by one with the same copies, and    *)
(* its request by one that writes nothing new, is Kept.                     *)
LEMMA ReplaceEffect ==
  ASSUME IInv, NEW p \in Page, NEW m \in PageRec, NEW q \in IoRec,
         SameCopies(m, pg[p]),
         q.st # "idle" => /\ io[p].st # "idle"
                          /\ q.cb = io[p].cb /\ q.disk_page = io[p].disk_page,
         pg' = [pg EXCEPT ![p] = m], io' = [io EXCEPT ![p] = q], free' = free
  PROVE  Effect(p)
<1> USE DEF IInv, TInv, TypeOK
<1>1. /\ pg' \in [Page -> PageRec] /\ io' \in [Page -> IoRec]
      /\ pg'[p] = m /\ io'[p] = q
      /\ \A x \in Page \ {p} : pg'[x] = pg[x] /\ io'[x] = io[x]
  OBVIOUS
<1>2. Kept(p)
  BY <1>1 DEF Kept, SameCopies, Writing
<1> QED BY <1>1, <1>2 DEF Effect, IoHasTarget

(* The ends of the faults after their pagein. *)
LEMMA PageinDoneStep ==
  ASSUME IInv, NEW t \in Thread, NEW op \in Op, PageinDone(t, op)
  PROVE  \E p \in Page : PageStep(p)
<1> USE DEF IInv, TInv, TypeOK
<1>0. PICK p \in Page : p = th[t].page
  BY DEF ThreadRec
<1> SUFFICES PageStep(p)
  OBVIOUS
<1>1. CASE WaitDone(t)
  <2>1. Effect(p)
    BY <1>1, NoPageChange DEF WaitDone
  <2> QED BY <1>1, <2>1 DEF PageinDone, WaitDone, PageStep, Lists, RestOK
<1>2. CASE /\ pg' = [pg EXCEPT ![p] = move_to_dirty_q([@ EXCEPT !.phys_dirty = TRUE])]
           /\ Return(t)
           /\ UNCHANGED <<io, ram, free, asleep>>
  <2>1. PICK r \in PageRec : r = pg[p]
    OBVIOUS
  <2> DEFINE d == [r EXCEPT !.phys_dirty = TRUE]
             m == move_to_dirty_q(d)
  <2>2. d \in PageRec /\ SameCopies(d, r)
    BY DEF PageRec, SameCopies
  <2>3. m \in PageRec /\ SameCopies(m, pg[p])
    <3> HIDE DEF d
    <3> QED BY <2>1, <2>2, MoveOp DEF SameCopies
  <2>4. pg' = [pg EXCEPT ![p] = m] /\ io' = [io EXCEPT ![p] = io[p]] /\ io[p] \in IoRec
    BY <1>2, <2>1
  <2> HIDE DEF m
  <2>5. Effect(p)
    BY <1>2, <2>3, <2>4, ReplaceEffect
  <2> QED BY <1>2, <2>5, SMTT(30)
          DEF PageinDone, Return, Goto, PageStep, Lists, RestOK, ThreadRec
<1>3. CASE Return(t) /\ UNCHANGED <<pg, io, ram, free, asleep>>
  <2>1. Effect(p)
    BY <1>3, NoPageChange
  <2> QED BY <1>3, <2>1, ZenonT(30)
          DEF PageinDone, Return, Goto, PageStep, Lists, RestOK, ThreadRec
<1> QED BY <1>0, <1>1, <1>2, <1>3 DEF PageinDone

(* Executing an instruction, or trapping on it, touches no page record. *)
LEMMA AccessStep ==
  ASSUME IInv, NEW t \in Thread, BeginAccess(t) \/ DoAccess(t) \/ Fault(t)
  PROVE  \E p \in Page : PageStep(p)
<1> USE DEF IInv, TInv, TypeOK
<1>0. PICK p \in Page : p = th[t].page
  BY DEF ThreadRec
<1>1. Effect(p)
  BY NoPageChange DEF BeginAccess, DoAccess, Fault
<1>2. CASE BeginAccess(t)
  <2>1. PICK a \in Access :
          th' = [th EXCEPT ![t] = [pc |-> "access", op |-> a[2], page |-> a[3]]]
    BY <1>2 DEF BeginAccess
  <2>2. a[2] \in Op /\ a[3] \in Page
    BY AccessAssumption
  <2>3. th' \in [Thread -> ThreadRec]
    BY <2>1, <2>2 DEF ThreadRec
  <2> QED BY <1>1, <1>2, <2>3 DEF BeginAccess, PageStep, Lists, RestOK
<1>3. CASE DoAccess(t)
  <2>1. Running \in ThreadRec
    BY NumPagesAssumption, SMTT(30) DEF Running, ThreadRec, Op, Page
  <2>2. ram' \in [Page -> Contents] /\ th' \in [Thread -> ThreadRec]
    BY <1>0, <1>3, <2>1, AccessAssumption DEF DoAccess, Contents
  <2> QED BY <1>1, <1>3, <2>2 DEF DoAccess, PageStep, Lists, RestOK
<1>4. CASE Fault(t)
  BY <1>1, <1>4, ZenonT(30) DEF Fault, Goto, PageStep, Lists, RestOK, ThreadRec
<1> QED BY <1>2, <1>3, <1>4

(* The disk's transfer and the three callbacks request no write. *)
LEMMA PagerStepEffect ==
  ASSUME IInv, NEW p \in Page, PagerStep(p)
  PROVE  PageStep(p)
<1> USE DEF IInv, TInv, TypeOK
<1>0. PICK r \in PageRec : r = pg[p]
  OBVIOUS
<1>1. CASE Transfer(p) \/ TransferError(p)
  <2>1. PICK i \in IoRec : i = io[p]
    OBVIOUS
  <2> DEFINE q == [i EXCEPT !.st = "moved", !.copy = Junk]
  <2>2. q \in IoRec /\ q.cb = i.cb /\ q.disk_page = i.disk_page
    BY DEF IoRec, Contents
  <2>3. io[p].st # "idle" /\ io' = [io EXCEPT ![p] = q]
    BY <1>1, <2>1 DEF Transfer, TransferError, Moved
  <2> HIDE DEF q
  <2>4. pg' = [pg EXCEPT ![p] = r] /\ SameCopies(r, pg[p]) /\ free' = free
    BY <1>0, <1>1 DEF Transfer, TransferError, SameCopies
  <2>5. Effect(p)
    BY <2>1, <2>2, <2>3, <2>4, ReplaceEffect
  <2>6. ram' \in [Page -> Contents] /\ disk' \in [Block -> Contents]
    <3>1. io[p].copy \in Contents /\ io[p].disk_page \in Block
      BY <2>3 DEF IoRec, IoHasTarget
    <3> QED BY <1>1, <3>1 DEF Transfer, TransferError
  <2>7. ioerror' \in SUBSET Page
    BY <1>1 DEF Transfer, TransferError
  <2> QED BY <1>1, <2>5, <2>6, <2>7 DEF Transfer, TransferError, PageStep, Lists, RestOK
<1>2. ASSUME NEW m \in PageRec, SameCopies(m, r),
             pg' = [pg EXCEPT ![p] = m], io' = [io EXCEPT ![p] = IdleIo], Broadcast(p),
             UNCHANGED <<ram, disk, free, th, snap, is_in_snapshot_process,
                         list, last_snap, prev_snap, toFree, lazy, ioerror>>
      PROVE  PageStep(p)
  <2>1. IdleIo \in IoRec /\ IdleIo.st = "idle"
    BY DEF IdleIo, IoRec, Contents
  <2>2. Effect(p)
    BY <1>0, <1>2, <2>1, ReplaceEffect
  <2> QED BY <1>2, <2>2 DEF Broadcast, PageStep, Lists, RestOK
<1>3. CASE pageout_callback(p)
  <2> DEFINE d == [r EXCEPT !.phys_dirty = FALSE]
             m == put_on_q(d, "clean")
  <2>1. d \in PageRec /\ SameCopies(d, r)
    BY DEF PageRec, SameCopies
  <2>2. m \in PageRec /\ SameCopies(m, r)
    <3> HIDE DEF d
    <3> QED BY <2>1, QueueOps DEF SameCopies
  <2>3. pg' = [pg EXCEPT ![p] = m]
    BY <1>0, <1>3 DEF pageout_callback
  <2> HIDE DEF m
  <2> QED BY <1>2, <1>3, <2>2, <2>3 DEF pageout_callback
<1>4. CASE snapper_COW_callback(p)
  <2>1. pg' = [pg EXCEPT ![p] = r] /\ SameCopies(r, r)
    BY <1>0, <1>4 DEF snapper_COW_callback, SameCopies
  <2> QED BY <1>2, <1>4, <2>1 DEF snapper_COW_callback
<1>5. CASE pagein_callback(p)
  <2> DEFINE d == [r EXCEPT !.phys_dirty = FALSE, !.map = IF r.phys_protect THEN "ro" ELSE "rw"]
             m == put_on_q(d, "clean")
  <2>1. d \in PageRec /\ SameCopies(d, r)
    BY DEF PageRec, SameCopies
  <2>2. m \in PageRec /\ SameCopies(m, r)
    <3> HIDE DEF d
    <3> QED BY <2>1, QueueOps DEF SameCopies
  <2>3. pg' = [pg EXCEPT ![p] = m]
    BY <1>0, <1>5 DEF pagein_callback
  <2> HIDE DEF m
  <2> QED BY <1>2, <1>5, <2>2, <2>3 DEF pagein_callback
<1> QED BY <1>1, <1>3, <1>4, <1>5 DEF PagerStep

(* Reclaiming a page's memory leaves its disk copies alone. *)
LEMMA ReclaimStep ==
  ASSUME IInv, NEW p \in Page, physmem_try_to_reclaim_page(p)
  PROVE  PageStep(p)
<1> USE DEF IInv, TInv, TypeOK
<1>0. PICK r \in PageRec : r = pg[p]
  OBVIOUS
<1> DEFINE d == remove_from_q(r, "clean")
           m == [d EXCEPT !.phys_mem = FALSE, !.map = "none"]
<1>1. d \in PageRec /\ SameCopies(d, r)
  BY QueueOps DEF SameCopies
<1>2. m \in PageRec /\ SameCopies(m, pg[p])
  <2> HIDE DEF d
  <2> QED BY <1>0, <1>1 DEF PageRec, SameCopies
<1>3. pg' = [pg EXCEPT ![p] = m] /\ io' = [io EXCEPT ![p] = io[p]] /\ io[p] \in IoRec
  BY <1>0 DEF physmem_try_to_reclaim_page
<1> HIDE DEF m
<1>4. Effect(p)
  BY <1>2, <1>3, ReplaceEffect DEF physmem_try_to_reclaim_page
<1> QED BY <1>4 DEF physmem_try_to_reclaim_page, PageStep, Lists, RestOK, Contents

(* The lazy pageout thread only requests pageouts. *)
LEMMA LazyStepEffect ==
  ASSUME IInv, LazyStep
  PROVE  \E p \in Page : PageStep(p)
<1> USE DEF IInv, TInv, TypeOK
<1>1. ASSUME NEW p \in Page, LazyPick(p) PROVE PageStep(p)
  <2>1. Effect(p)
    BY <1>1, NoPageChange DEF LazyPick
  <2> QED BY <1>1, <2>1 DEF LazyPick, PageStep, Lists, RestOK
<1>2. ASSUME LazyPageout PROVE \E p \in Page : PageStep(p)
  <2>1. PICK p \in Page : p = lazy
    BY <1>2 DEF LazyPageout
  <2>2. Effect(p)
    BY <1>2, <2>1, PageoutEffect DEF LazyPageout
  <2> QED BY <1>2, <2>2 DEF LazyPageout, PageStep, Lists, RestOK
<1> QED BY <1>1, <1>2 DEF LazyStep

-----------------------------------------------------------------------------
(* The snapshot thread. *)

(* The walk moves to the next page, or to the next step of do_snapshot. *)
LEMMA WalkType ==
  ASSUME TInv, NEW pc \in SnapPc, NEW next \in SnapPc, Walk(pc, next)
  PROVE  /\ snap' \in [pc : SnapPc, at : Page]
         /\ \/ snap.at = NumPages /\ snap'.pc = next /\ snap'.at = 1
            \/ snap.at # NumPages /\ snap'.pc = pc /\ snap'.at = snap.at + 1
BY NumPagesAssumption, SMTT(30) DEF TInv, TypeOK, Walk, Last, Page

(* do_snapshot starts from a state in which no page has a snapshot copy. *)
LEMMA StartStep ==
  ASSUME IInv, StartSnapshot
  PROVE  IInv'
<1> USE DEF IInv, TInv, TypeOK, StartSnapshot, At
<1>1. TypeOK' /\ IoHasTarget'
  BY NumPagesAssumption, SMTT(30) DEF SnapPc, Page, IoHasTarget
<1>2. Own'
  BY ZenonT(30) DEF Own, Apart, OwnPage, Refs, Writing, Have
<1>3. Phase'
  BY DEF Phase, PhaseGlobal, PhasePage, Writing, Have
<1> QED BY <1>1, <1>2, <1>3

(* kick_pageout requests pageouts and lets no copy change hands. *)
LEMMA KickStep ==
  ASSUME IInv, NEW pc, NEW next, <<pc, next>> \in {<<"kick1", "stop">>, <<"kick2", "final">>},
         kick_pageout(pc, next)
  PROVE  IInv'
<1> USE DEF IInv, TInv, TypeOK
<1>0. PICK p \in Page : p = snap.at
  OBVIOUS
<1>1. Effect(p) /\ (Kept(p) \/ StartsPageout(p))
  BY <1>0, PageoutEffect DEF kick_pageout
<1>2. ListStep(p)
  BY DEF ListStep, kick_pageout
<1>3. Own' /\ IoHasTarget'
  BY <1>1, <1>2, EffectKeepsOwn
<1>4. /\ snap' \in [pc : SnapPc, at : Page]
      /\ snap.pc = pc /\ (snap'.pc = pc \/ (snap'.pc = next /\ snap'.at = 1))
  BY WalkType DEF kick_pageout, SnapPc, At
<1>5. TypeOK'
  BY <1>1, <1>4 DEF Effect, kick_pageout
<1>6. PhaseGlobal'
  BY <1>4 DEF Phase, PhaseGlobal, kick_pageout
<1>7. ASSUME NEW q \in Page PROVE PhasePage(q)'
  <2>1. PhasePage(q) /\ pg'[q].make_page = pg[q].make_page /\ (Writing(q, "cow")' => Writing(q, "cow"))
    BY <1>1 DEF Phase, Effect, Kept, StartsPageout, Writing
  <2> QED BY <1>4, <2>1, SMTT(30) DEF PhasePage, Page
<1> QED BY <1>3, <1>5, <1>6, <1>7 DEF Phase

(* mark_for_snap write-protects pages and changes nothing else of them. *)
LEMMA MarkStep ==
  ASSUME IInv, MarkAll
  PROVE  IInv'
<1> USE DEF IInv, TInv, TypeOK
<1>1. \A p \in Page : mark_for_snap(pg[p]) \in PageRec /\ SameCopies(mark_for_snap(pg[p]), pg[p])
  <2> TAKE p \in Page
  <2>1. PICK r \in PageRec : r = pg[p]
    OBVIOUS
  <2> QED BY <2>1 DEF mark_for_snap, PageRec, SameCopies
<1>2. pg' \in [Page -> PageRec] /\ \A p \in Page : SameCopies(pg'[p], pg[p])
  BY <1>1 DEF MarkAll
<1>3. TypeOK' /\ IoHasTarget'
  BY <1>2, NumPagesAssumption, SMTT(30) DEF MarkAll, SnapPc, Page, IoHasTarget
<1>4. \A p \in Page : Refs(p)' = Refs(p)
  BY <1>2 DEF MarkAll, Refs, SameCopies
<1>5. Own'
  BY <1>2, <1>4, SMTT(30) DEF MarkAll, Own, Apart, OwnPage, Writing, Have, SameCopies
<1>6. Phase'
  BY <1>2 DEF MarkAll, At, Phase, PhaseGlobal, PhasePage, Writing, Have, SameCopies
<1> QED BY <1>3, <1>5, <1>6

(* finalize_snap gives a page without a snapshot copy its disk copy, and   *)
(* every page has a snapshot copy when its walk ends.                      *)
LEMMA FinalizeStep ==
  ASSUME IInv, finalize_snap
  PROVE  IInv'
<1> USE DEF IInv, TInv, TypeOK
<1>0. PICK p \in Page : p = snap.at
  OBVIOUS
<1>1. CASE SnapperWait("fwait") /\ UNCHANGED <<pg, is_in_snapshot_process>>
  <2>1. TypeOK' /\ IoHasTarget' /\ snap'.pc = "fwait" /\ snap'.at = snap.at
    BY <1>1 DEF finalize_snap, SnapperWait, SnapPc, IoHasTarget
  <2>2. Own'
    BY <1>1, ZenonT(30) DEF finalize_snap, Own, Apart, OwnPage, Refs, Writing, Have
  <2>3. Phase'
    BY <1>1, <2>1 DEF finalize_snap, At, Phase, PhaseGlobal, PhasePage, Writing, Have
  <2> QED BY <2>1, <2>2, <2>3
<1>2. CASE /\ (snap.pc = "final" /\ Have(pg[p].make_page)) \/ ~Busy(p)
           /\ pg' = [pg EXCEPT ![p] = IF Have(@.make_page) THEN @ ELSE TakeDiskCopy(@)]
           /\ Walk("final", "save")
           /\ is_in_snapshot_process' = ~Last
           /\ UNCHANGED asleep
  <2>1. PICK r \in PageRec : r = pg[p]
    OBVIOUS
  <2>2. PICK m \in PageRec : m = IF Have(r.make_page) THEN r ELSE TakeDiskCopy(r)
    BY TakeOp
  <2>3. /\ pg' \in [Page -> PageRec] /\ pg'[p] = m
        /\ \A q \in Page \ {p} : pg'[q] = pg[q]
    BY <1>2, <2>1, <2>2
  <2>4. is_in_snapshot_process
    BY DEF finalize_snap, At, Phase, PhaseGlobal
  <2>5. Effect(p) /\ Have(pg'[p].make_page)
    <3>1. CASE Have(r.make_page)
      <4>1. Kept(p)
        BY <2>1, <2>2, <2>3, <3>1 DEF finalize_snap, Kept, Writing
      <4> QED BY <2>1, <2>2, <2>3, <3>1, <4>1 DEF finalize_snap, Effect, IoHasTarget
    <3>2. CASE ~Have(r.make_page)
      <4>1. ~Busy(p)
        BY <1>2, <2>1, <3>2
      <4>2. TakesDiskCopy(p)
        BY <2>1, <2>2, <2>3, <2>4, <3>2, <4>1, TakeOp, SMTT(30)
           DEF finalize_snap, TakesDiskCopy, Snapping, Busy, Writing
      <4> QED BY <2>3, <4>1, <4>2, BlockAssumption
              DEF finalize_snap, Effect, Busy, TakesDiskCopy, Have
    <3> QED BY <3>1, <3>2
  <2>6. ListStep(p)
    BY DEF finalize_snap, ListStep
  <2>7. Own' /\ IoHasTarget'
    BY <2>5, <2>6, EffectKeepsOwn
  <2>8. /\ snap' \in [pc : SnapPc, at : Page] /\ snap.pc \in {"final", "fwait"}
        /\ \/ snap.at = NumPages /\ snap'.pc = "save" /\ snap'.at = 1
           \/ snap.at # NumPages /\ snap'.pc = "final" /\ snap'.at = snap.at + 1
    BY <1>2, WalkType DEF finalize_snap, At, SnapPc
  <2>9. TypeOK'
    BY <1>2, <2>3, <2>8 DEF finalize_snap
  <2>10. PhaseGlobal'
    BY <1>2, <2>8 DEF finalize_snap, Phase, PhaseGlobal, Last
  <2>11. ASSUME NEW q \in Page PROVE PhasePage(q)'
    <3>1. PhasePage(q) /\ Writing(q, "cow")' = Writing(q, "cow") /\ list' = NoList
      BY <2>8 DEF Phase, PhaseGlobal, finalize_snap, Writing
    <3>2. q <= snap.at => Have(pg'[q].make_page)
      BY <1>0, <2>3, <2>5, <2>8, <3>1, SMTT(30) DEF PhasePage, Page
    <3>3. snap.at = NumPages => q <= snap.at
      BY NumPagesAssumption, SMTT(30) DEF Page
    <3> QED BY <2>8, <3>1, <3>2, <3>3, NumPagesAssumption, SMTT(30)
            DEF PhasePage, Page, NoList
  <2> QED BY <2>7, <2>9, <2>10, <2>11 DEF Phase
<1> QED BY <1>0, <1>1, <1>2 DEF finalize_snap

(* save_snap enters the page's snapshot copy in the new pagelist. *)
LEMMA SaveStep ==
  ASSUME IInv, SaveToList
  PROVE  IInv'
<1> USE DEF IInv, TInv, TypeOK
<1>0. PICK p \in Page : p = snap.at
  OBVIOUS
<1>1. snap.pc = "save" /\ Have(pg[p].make_page) /\ list' = [list EXCEPT ![p] = pg[p].make_page]
  BY <1>0 DEF SaveToList, At
<1>2. Effect(p) /\ (Kept(p) \/ StartsPageout(p))
  <2>1. CASE UNCHANGED <<pg, io, free>>
    BY <2>1, NoPageChange DEF Kept, Writing
  <2> QED BY <1>0, <2>1, PageoutEffect DEF SaveToList
<1>3. pg'[p].make_page = pg[p].make_page /\ list[p] = ZeroPage
  BY <1>0, <1>1, <1>2 DEF Kept, StartsPageout, Phase, PhasePage, Page
<1>4. ListStep(p)
  BY <1>1, <1>2, <1>3 DEF SaveToList, ListStep
<1>5. Own' /\ IoHasTarget'
  BY <1>2, <1>4, EffectKeepsOwn
<1>6. snap' \in [pc : SnapPc, at : Page] /\ snap'.pc = "move" /\ snap'.at = p
  BY <1>0 DEF SaveToList, SnapPc
<1>7. pg[p].make_page \in BlockRef
  BY <1>1 DEF PageRec, Have
<1>8. TypeOK'
  BY <1>1, <1>2, <1>6, <1>7 DEF SaveToList, Effect
<1>9. PhaseGlobal'
  BY <1>1, <1>6 DEF SaveToList, Phase, PhaseGlobal
<1>10. ASSUME NEW q \in Page PROVE PhasePage(q)'
  <2>1. /\ PhasePage(q) /\ (Writing(q, "cow")' => Writing(q, "cow"))
        /\ pg'[q].make_page = pg[q].make_page /\ pg'[q].prev_page = pg[q].prev_page
    BY <1>2 DEF Phase, Effect, Kept, StartsPageout, Writing
  <2> QED BY <1>0, <1>1, <1>6, <2>1, SMTT(30) DEF PhasePage, Page
<1> QED BY <1>5, <1>8, <1>9, <1>10 DEF Phase

(* The second half of save_snap turns the snapshot copy into the previous   *)
(* one, by which time the new pagelist owns it.                             *)
LEMMA MoveStep ==
  ASSUME IInv, MoveToPrev
  PROVE  IInv'
<1> USE DEF IInv, TInv, TypeOK
<1>0. PICK p \in Page : p = snap.at
  OBVIOUS
<1>1. /\ snap.pc = "move" /\ list[p] = pg[p].make_page /\ Have(pg[p].make_page)
      /\ OwnPage(p)
  BY <1>0, SMTT(30) DEF MoveToPrev, At, Phase, PhasePage, Page, Own
<1>2. PICK r \in PageRec : r = pg[p]
  OBVIOUS
<1> DEFINE m == [r EXCEPT !.prev_page = r.make_page, !.make_page = NoPage]
<1>3. /\ m \in PageRec /\ m.prev_page = list[p] /\ m.make_page = NoPage
      /\ m.curr_page = r.curr_page
  BY <1>1, <1>2 DEF PageRec
<1>4. pg' = [pg EXCEPT ![p] = m]
  BY <1>0, <1>2 DEF MoveToPrev
<1> HIDE DEF m
<1>5. /\ pg' \in [Page -> PageRec] /\ pg'[p] = m /\ \A q \in Page \ {p} : pg'[q] = pg[q]
      /\ io' = io /\ free' = free /\ UNCHANGED Lists
  BY <1>3, <1>4, SMTT(30) DEF MoveToPrev, Lists
<1>6. \A q \in Page : Refs(q)' \subseteq Refs(q)
  BY <1>2, <1>3, <1>5, BlockAssumption DEF Refs, Lists
<1>7. Own'
  <2>1. Apart'
    BY <1>6 DEF Own, Apart
  <2>2. ASSUME NEW q \in Page, q # p PROVE OwnPage(q)'
    <3>1. OwnPage(q) /\ pg'[q] = pg[q]
      BY <1>5, <2>2 DEF Own
    <3> QED BY <1>5, <1>6, <3>1 DEF OwnPage, Writing, Have, Lists
  <2>3. OwnPage(p)'
    BY <1>1, <1>2, <1>3, <1>5, <1>6 DEF OwnPage, Writing, Have, Lists
  <2> QED BY <2>1, <2>2, <2>3 DEF Own
<1>8. /\ snap' \in [pc : SnapPc, at : Page]
      /\ \/ snap.at = NumPages /\ snap'.pc = "commit" /\ snap'.at = 1
         \/ snap.at # NumPages /\ snap'.pc = "save" /\ snap'.at = snap.at + 1
  BY WalkType DEF MoveToPrev, SnapPc
<1>9. TypeOK' /\ IoHasTarget'
  BY <1>5, <1>8 DEF MoveToPrev, Lists, IoHasTarget
<1>10. PhaseGlobal'
  BY <1>1, <1>5, <1>8 DEF MoveToPrev, Phase, PhaseGlobal, Lists
<1>11. ASSUME NEW q \in Page PROVE PhasePage(q)'
  <2>1. PhasePage(q) /\ Writing(q, "cow")' = Writing(q, "cow") /\ list' = list
    BY <1>5 DEF Phase, Writing, Lists
  <2>2. q <= snap.at => ~Have(pg'[q].make_page) /\ pg'[q].prev_page = list[q]
    BY <1>0, <1>1, <1>3, <1>5, <2>1, SMTT(30) DEF PhasePage, Page, Have
  <2>3. q > snap.at => Have(pg'[q].make_page) /\ list[q] = ZeroPage
    BY <1>0, <1>1, <1>5, <2>1, SMTT(30) DEF PhasePage, Page
  <2>4. snap.at = NumPages => q <= snap.at
    BY NumPagesAssumption, SMTT(30) DEF Page
  <2> QED BY <1>1, <1>8, <2>1, <2>2, <2>3, <2>4, NumPagesAssumption, SMTT(30)
          DEF PhasePage, Page
<1> QED BY <1>7, <1>9, <1>10, <1>11 DEF Phase

(* wait_commit_snap passes a page only when no COW copy of it is on its way: *)
(* it may return early because a request is under way that writes the page's *)
(* current copy, but that one is never a COW request.                        *)
LEMMA CommitStep ==
  ASSUME IInv, wait_commit_snap
  PROVE  IInv'
<1> USE DEF IInv, TInv, TypeOK
<1>0. PICK p \in Page : p = snap.at
  OBVIOUS
<1>1. Own' /\ IoHasTarget'
  BY ZenonT(30) DEF wait_commit_snap, Own, Apart, OwnPage, Refs, Writing, Have, IoHasTarget
<1>2. CASE SnapperWait("cwait")
  <2>1. TypeOK' /\ snap'.pc = "cwait" /\ snap'.at = snap.at
    BY <1>2 DEF wait_commit_snap, SnapperWait, SnapPc
  <2>2. Phase'
    BY <2>1 DEF wait_commit_snap, At, Phase, PhaseGlobal, PhasePage, Writing, Have
  <2> QED BY <1>1, <2>1, <2>2
<1>3. CASE (~Busy(p) \/ LaterIo(p)) /\ Walk("commit", "super") /\ UNCHANGED asleep
  <2>1. ~Writing(p, "cow")
    BY <1>3 DEF Busy, LaterIo, Writing, Own, OwnPage
  <2>2. /\ snap' \in [pc : SnapPc, at : Page] /\ snap.pc \in {"commit", "cwait"}
        /\ \/ snap.at = NumPages /\ snap'.pc = "super" /\ snap'.at = 1
           \/ snap.at # NumPages /\ snap'.pc = "commit" /\ snap'.at = snap.at + 1
    BY <1>3, WalkType DEF wait_commit_snap, At, SnapPc
  <2>3. TypeOK'
    BY <1>3, <2>2 DEF wait_commit_snap
  <2>4. PhaseGlobal'
    BY <2>2 DEF wait_commit_snap, Phase, PhaseGlobal
  <2>5. ASSUME NEW q \in Page PROVE PhasePage(q)'
    <3>1. PhasePage(q) /\ Writing(q, "cow")' = Writing(q, "cow") /\ pg' = pg /\ list' = list
      BY DEF wait_commit_snap, Phase, Writing
    <3>2. Writing(q, "cow") => q > snap.at
      BY <1>0, <2>1, <2>2, <3>1, SMTT(30) DEF PhasePage, Page
    <3>3. q <= NumPages
      BY NumPagesAssumption, SMTT(30) DEF Page
    <3> QED BY <2>2, <3>1, <3>2, <3>3, NumPagesAssumption, SMTT(30) DEF PhasePage, Page
  <2> QED BY <1>1, <2>3, <2>4, <2>5 DEF Phase
<1> QED BY <1>0, <1>2, <1>3 DEF wait_commit_snap

(* The superblock update renames the snapshots: every block of the new one *)
(* is settled.                                                             *)
LEMMA SuperStep ==
  ASSUME IInv, UpdateSuperblock
  PROVE  IInv'
<1> USE DEF IInv, TInv, TypeOK
<1>1. /\ snap.pc = "super" /\ toFree = NoList /\ NoList \in [Page -> BlockRef]
      /\ snap' = [pc |-> "free", at |-> 1]
      /\ toFree' = prev_snap /\ prev_snap' = last_snap /\ last_snap' = list /\ list' = NoList
      /\ UNCHANGED <<pg, io, free>>
  BY DEF UpdateSuperblock, At, Phase, PhaseGlobal, NoList, BlockRef
<1>2. TypeOK' /\ IoHasTarget'
  BY <1>1, NumPagesAssumption, SMTT(30) DEF UpdateSuperblock, SnapPc, Page, IoHasTarget
<1>3. \A p \in Page : Refs(p)' \subseteq Refs(p)
  BY <1>1, BlockAssumption DEF Refs, NoList
<1>4. \A p \in Page : ~Writing(p, "cow") /\ pg[p].prev_page = list[p]
  BY <1>1 DEF Phase, PhasePage
<1>5. Own'
  <2>1. Apart'
    BY <1>3 DEF Own, Apart
  <2>2. ASSUME NEW p \in Page PROVE OwnPage(p)'
    <3>1. OwnPage(p)
      BY DEF Own
    <3>2. pg[p].curr_page # ZeroPage
      BY BlockAssumption DEF PageRec
    <3> QED BY <1>1, <1>3, <1>4, <3>1, <3>2 DEF OwnPage, NoList, Writing, Have
  <2> QED BY <2>1, <2>2 DEF Own
<1>6. Phase'
  BY <1>1, <1>4, SMTT(30) DEF UpdateSuperblock, Phase, PhaseGlobal, PhasePage, Writing, Have
<1> QED BY <1>2, <1>5, <1>6

(* phantom_free_snap frees no block any page still has as current or        *)
(* previous copy: the oldest snapshot shares blocks only with the two       *)
(* younger ones, and those are left out.                                    *)
LEMMA FreeStep ==
  ASSUME IInv, phantom_free_snap
  PROVE  IInv'
<1> USE DEF IInv, TInv, TypeOK
<1> DEFINE dead == BlocksOf(toFree) \ (BlocksOf(prev_snap) \cup BlocksOf(last_snap))
<1>1. /\ snap.pc = "free" /\ list = NoList /\ NoList \in [Page -> BlockRef]
      /\ snap' = [pc |-> "idle", at |-> 1]
      /\ free' = free \cup dead /\ toFree' = NoList
      /\ UNCHANGED <<pg, io, list, last_snap, prev_snap>>
  BY DEF phantom_free_snap, At, Phase, PhaseGlobal, NoList, BlockRef
<1>2. dead \subseteq Block /\ \A b \in dead : \E q \in Page : b = toFree[q]
  BY DEF BlocksOf
<1>3. TypeOK' /\ IoHasTarget'
  BY <1>1, <1>2, NumPagesAssumption, SMTT(30)
  DEF phantom_free_snap, SnapPc, Page, IoHasTarget, Contents
<1>4. \A p \in Page : Refs(p)' \subseteq Refs(p)
  BY <1>1, BlockAssumption DEF Refs, NoList
<1>5. ASSUME NEW p \in Page, NEW b \in Refs(p)', b \in dead PROVE FALSE
  <2>1. PICK q \in Page : b = toFree[q]
    BY <1>2, <1>5
  <2>2. b \in Block /\ b \in Refs(p) /\ b \in Refs(q)
    BY <1>4, <1>2, <1>5, <2>1 DEF Refs
  <2>3. p = q
    BY <2>2 DEF Own, Apart
  <2>4. b \notin {last_snap[p], prev_snap[p]}
    BY <1>2, <1>5 DEF BlocksOf
  <2>5. pg[p].make_page = NoPage /\ OwnPage(p)
    BY <1>1 DEF Phase, PhasePage, Have, Own
  <2>6. list[p] = ZeroPage /\ toFree'[p] = ZeroPage
    BY <1>1 DEF NoList
  <2>7. b \in {pg[p].curr_page, pg[p].prev_page}
    BY <1>1, <1>5, <2>2, <2>4, <2>5, <2>6, BlockAssumption DEF Refs
  <2> QED BY <2>1, <2>2, <2>3, <2>4, <2>5, <2>6, <2>7, BlockAssumption DEF OwnPage, Have
<1> HIDE DEF dead
<1>6. Own'
  <2>1. Apart'
    BY <1>4 DEF Own, Apart
  <2>2. ASSUME NEW p \in Page PROVE OwnPage(p)'
    <3>1. OwnPage(p)
      BY DEF Own
    <3>2. Refs(p)' \cap free' = {}
      BY <1>1, <1>4, <1>5, <3>1 DEF OwnPage
    <3>3. pg[p].curr_page # ZeroPage
      BY BlockAssumption DEF PageRec
    <3> QED BY <1>1, <3>1, <3>2, <3>3 DEF OwnPage, NoList, Writing, Have
  <2> QED BY <2>1, <2>2 DEF Own
<1>7. PhaseGlobal'
  BY <1>1, SMTT(30) DEF phantom_free_snap, Phase, PhaseGlobal
<1>8. ASSUME NEW p \in Page PROVE PhasePage(p)'
  <2>1. PhasePage(p) /\ Writing(p, "cow")' = Writing(p, "cow")
    BY <1>1 DEF Phase, Writing
  <2> QED BY <1>1, <2>1 DEF PhasePage, Have
<1> QED BY <1>3, <1>6, <1>7, <1>8 DEF Phase

-----------------------------------------------------------------------------
(* The invariant and what it gives. *)

(* vm_map_init starts in a state in which every page owns its own blocks. *)
LEMMA InitInv == Init => IInv
<1> SUFFICES ASSUME Init PROVE IInv
  OBVIOUS
<1> USE DEF Init
<1>0. last_snap \in [Page -> BlockRef] /\ NoList \in [Page -> BlockRef]
  BY BootSnapsAssumption DEF NoList, BlockRef
<1>1. ASSUME NEW p \in Page
      PROVE  /\ pg[p] = Loaded(last_snap[p]) /\ Loaded(last_snap[p]) \in PageRec
             /\ pg[p].curr_page = NoPage /\ pg[p].make_page = NoPage
             /\ pg[p].prev_page \in {last_snap[p], NoPage}
             /\ io[p] = IdleIo /\ IdleIo \in IoRec /\ io[p].st = "idle"
  BY <1>0 DEF Loaded, PageRec, BlockRef, IdleIo, IoRec, Contents
<1>2. TypeOK
  <2>1. pg \in [Page -> PageRec] /\ io \in [Page -> IoRec] /\ ram \in [Page -> Contents]
    BY <1>1 DEF Contents
  <2>2. th \in [Thread -> ThreadRec] /\ snap \in [pc : SnapPc, at : Page]
    BY NumPagesAssumption, SMTT(30) DEF Running, ThreadRec, Op, SnapPc, Page
  <2>3. lazy \in Page \cup {0} /\ ioerror \in SUBSET Page
    OBVIOUS
  <2> QED BY <1>0, <2>1, <2>2, <2>3 DEF TypeOK
<1>3. IoHasTarget
  BY <1>1 DEF IoHasTarget
<1>4. \A p \in Page : Refs(p) = {last_snap[p]} \cap Block
  BY <1>1, BlockAssumption, SMTT(30) DEF Refs, NoList
<1>5. Own
  <2>1. Apart
    BY <1>0, <1>4, BootSnapsAssumption, SMTT(30) DEF Apart
  <2>2. ASSUME NEW p \in Page PROVE OwnPage(p)
    <3>1. Refs(p) \cap free = {}
      BY <1>4 DEF BlocksOf
    <3> QED BY <1>1, <3>1, BlockAssumption DEF OwnPage, Have, Writing
  <2> QED BY <2>1, <2>2 DEF Own
<1>6. Phase
  BY <1>1 DEF Phase, PhaseGlobal, PhasePage, Have, Writing
<1> QED BY <1>2, <1>3, <1>5, <1>6 DEF IInv, TInv

(* Every step of the memory manager keeps the invariant. *)
LEMMA NextInv == IInv /\ [Next]_vars => IInv'
<1> SUFFICES ASSUME IInv, [Next]_vars PROVE IInv'
  OBVIOUS
<1>1. ASSUME NEW t \in Thread, ThreadStep(t) PROVE IInv'
  <2>1. \E p \in Page : PageStep(p)
    <3>1. "read" \in Op /\ "write" \in Op
      BY DEF Op
    <3> QED BY <1>1, <3>1, AccessStep, ReadFaultStep, WriteFaultStep, PageinDoneStep
            DEF ThreadStep
  <2> QED BY <2>1, PageStepKeeps
<1>2. ASSUME NEW p \in Page, PagerStep(p) \/ physmem_try_to_reclaim_page(p) PROVE IInv'
  BY <1>2, PagerStepEffect, ReclaimStep, PageStepKeeps
<1>3. CASE LazyStep
  BY <1>3, LazyStepEffect, PageStepKeeps
<1>4. CASE StartSnapshot
  BY <1>4, StartStep
<1>5. CASE SnapperStep
  <2>1. CASE kick_pageout("kick1", "stop") \/ kick_pageout("kick2", "final")
    BY <2>1, KickStep, SMTT(30)
  <2> QED BY <1>5, <2>1, MarkStep, FinalizeStep, SaveStep, MoveStep, CommitStep, SuperStep,
             FreeStep DEF SnapperStep
<1>6. CASE UNCHANGED vars
  <2>1. UNCHANGED <<pg, io, ram, disk, free, th, asleep, snap, is_in_snapshot_process,
                    list, last_snap, prev_snap, toFree, lazy, ioerror>>
    BY <1>6 DEF vars
  <2> QED BY <2>1, ZenonT(30)
          DEF IInv, TInv, TypeOK, IoHasTarget, Own, Apart, OwnPage, Refs, Writing, Have,
                      Phase, PhaseGlobal, PhasePage
<1> QED BY <1>1, <1>2, <1>3, <1>4, <1>5, <1>6 DEF Next

(* The inductive invariant holds throughout. *)
LEMMA Invariance == Spec => []IInv
BY InitInv, NextInv, PTL DEF Spec

-----------------------------------------------------------------------------
(* The blocks. *)

(* The page records, requests, pagelists and threads of vm_map.c keep      *)
(* their types.                                                            *)
THEOREM TypeCorrect == Spec => []TypeOK
<1>1. IInv => TypeOK
  BY DEF IInv, TInv
<1> QED BY <1>1, Invariance, PTL

(* No block of the disk ever has two owners: the block a pageout or a COW  *)
(* copy is given, the copies of the page and the pagelists of the          *)
(* snapshots never overlap with the free list or with another page.        *)
THEOREM BlockOwnership == Spec => []BlocksOwnedOnce
<1>1. IInv => BlocksOwnedOnce
  BY DEF IInv, Own, Apart, OwnPage, BlocksOwnedOnce
<1> QED BY <1>1, Invariance, PTL

(* mark_for_snap never finds a make_page of an earlier snapshot (its       *)
(* panic), and save_snap always finds one (its assert).                    *)
THEOREM MakePages == Spec => []MakePageExact
<1>1. IInv => MakePageExact
  BY DEF IInv, Phase, PhasePage, MakePageExact
<1> QED BY <1>1, Invariance, PTL

(* The invariant keeps requests under way off the settled blocks. *)
LEMMA InvSettled == IInv => SettledNotTargeted
<1> SUFFICES ASSUME IInv, NEW p \in Page, NEW q \in Page,
                    io[p].st = "queued", io[p].cb # "pagein"
             PROVE  io[p].disk_page \notin SettledBlocks(q)
  BY DEF SettledNotTargeted
<1> DEFINE b == io[p].disk_page
<1>1. b \in Block /\ (Writing(p, "pageout") \/ Writing(p, "cow"))
  BY DEF IInv, TInv, TypeOK, IoRec, IoHasTarget, Writing
<1>2. OwnPage(p) /\ PhasePage(p)
  BY DEF IInv, Own, Phase
<1>3. b \in {pg[p].curr_page, pg[p].make_page, list[p]}
  BY <1>1, <1>2 DEF OwnPage
<1>4. CASE q # p
  <2>1. b \in Refs(p)
    BY <1>1, <1>3 DEF Refs
  <2>2. b \notin Refs(q)
    BY <1>4, <2>1 DEF IInv, Own, Apart
  <2> QED BY <1>1, <2>2 DEF Refs, SettledBlocks
<1>5. CASE q = p
  <2>1. CASE Writing(p, "pageout")
    <3>1. b = pg[p].curr_page /\ Have(pg[p].curr_page)
      BY <1>1, <1>2, <2>1, BlockAssumption DEF OwnPage, Have
    <3> QED BY <1>2, <1>5, <3>1 DEF OwnPage, SettledBlocks
  <2>2. CASE Writing(p, "cow")
    <3>1. ~(snap.pc = "super" \/ (snap.pc \in {"commit", "cwait"} /\ p < snap.at))
      BY <1>2, <2>2, SMTT(30) DEF PhasePage, IInv, TInv, TypeOK, Page
    <3> QED BY <1>2, <1>5, <2>2, <3>1 DEF OwnPage, SettledBlocks
  <2> QED BY <1>1, <2>1, <2>2
<1> QED BY <1>4, <1>5

(* No request on the disk queue aims at a block of a snapshot that is      *)
(* committed, or that wait_commit_snap has declared written.               *)
THEOREM SettledSafe == Spec => []SettledNotTargeted
BY InvSettled, Invariance, PTL

(* The blocks of the two snapshots the superblock leads to never change,   *)
(* whatever faults, pageouts, COW copies and frees are under way.          *)
THEOREM CommittedSafe == Spec => CommittedImmutable
<1> DEFINE Committed == BlocksOf(last_snap) \cup BlocksOf(prev_snap)
           Safe == \A b \in Committed : disk'[b] = disk[b]
<1>1. IInv /\ [Next]_vars => [Safe]_vars
  <2> SUFFICES ASSUME IInv, Next PROVE Safe
    OBVIOUS
  <2>1. ASSUME NEW p \in Page, Transfer(p) PROVE Safe
    <3> TAKE b \in Committed
    <3>1. PICK q \in Page : b \in {last_snap[q], prev_snap[q]} /\ b \in Block
      BY DEF BlocksOf
    <3>2. io[p].cb # "pagein" => b # io[p].disk_page
      BY <2>1, <3>1, InvSettled DEF Transfer, SettledNotTargeted, SettledBlocks
    <3> QED BY <2>1, <3>1, <3>2 DEF Transfer, IInv, TInv, TypeOK
  <2>2. CASE phantom_free_snap
    <3>1. Committed \subseteq Block
      BY DEF BlocksOf
    <3> QED BY <2>2, <3>1 DEF phantom_free_snap
  <2>3. CASE UNCHANGED disk
    BY <2>3
  <2>4. ASSUME NEW t \in Thread, ThreadStep(t) PROVE UNCHANGED disk
    BY <2>4 DEF ThreadStep, BeginAccess, DoAccess, Fault, page_fault_read, page_fault_write,
                PageinDone
  <2>5. ASSUME NEW p \in Page, PagerStep(p) \/ physmem_try_to_reclaim_page(p)
        PROVE  Transfer(p) \/ UNCHANGED disk
    BY <2>5 DEF PagerStep, TransferError, pageout_callback, snapper_COW_callback,
                pagein_callback, physmem_try_to_reclaim_page
  <2>6. LazyStep \/ StartSnapshot => UNCHANGED disk
    BY DEF LazyStep, LazyPick, LazyPageout, StartSnapshot
  <2>7. SnapperStep => phantom_free_snap \/ UNCHANGED disk
    BY DEF SnapperStep, kick_pageout, MarkAll, finalize_snap, SaveToList, MoveToPrev,
           wait_commit_snap, UpdateSuperblock
  <2> QED BY <2>1, <2>2, <2>3, <2>4, <2>5, <2>6, <2>7 DEF Next
<1> QED BY <1>1, Invariance, PTL DEF CommittedImmutable, Spec

-----------------------------------------------------------------------------
(* No block is lost. *)

(* Every block is free or accounted for by a page. *)
NoLoss == \A b \in Block : b \in free \/ \E p \in Page : b \in Refs(p)

(* Nothing the page accounted for is dropped. *)
KeepsRefs(p) == \A b \in Refs(p) : b \in Refs(p)' \/ b \in free'

LEMMA EffectLossless ==
  ASSUME IInv, NEW p \in Page, Effect(p), ListStep(p), NoLoss
  PROVE  NoLoss'
<1>1. ASSUME NEW b \in Block, b \in free PROVE b \in free' \/ b \in Refs(p)'
  BY <1>1 DEF Effect, Kept, StartsPageout, StartsCopy, TakesDiskCopy, Refs
<1>2. ASSUME NEW q \in Page \ {p}, NEW b \in Refs(q) PROVE b \in Refs(q)'
  BY <1>2 DEF Effect, ListStep, Refs
<1>3. ASSUME NEW b \in Refs(p) PROVE b \in Refs(p)'
  <2>1. b \in {list[p], last_snap[p], prev_snap[p], toFree[p]} => b \in Refs(p)'
    BY BlockAssumption DEF ListStep, Refs
  <2>2. b \in {pg[p].curr_page, pg[p].make_page, pg[p].prev_page} =>
          b \in {pg'[p].curr_page, pg'[p].make_page, pg'[p].prev_page}
    <3>1. b # NoPage
      BY BlockAssumption DEF Refs
    <3> QED BY <3>1
            DEF Effect, Kept, StartsPageout, StartsCopy, TakesDiskCopy, Snapping, Have
  <2> QED BY <2>1, <2>2 DEF Refs
<1> QED BY <1>1, <1>2, <1>3 DEF NoLoss

(* Steps under one page's lock. *)
LEMMA PageStepLossless ==
  ASSUME IInv, NoLoss, NEW p \in Page, PageStep(p)
  PROVE  NoLoss'
BY EffectLossless DEF PageStep, Lists, ListStep

(* A step that drops no block of any page and takes none off the free list. *)
LEMMA RefsLossless ==
  ASSUME NoLoss, free \subseteq free', \A p \in Page : KeepsRefs(p)
  PROVE  NoLoss'
BY DEF NoLoss, KeepsRefs

LEMMA SnapperLossless ==
  ASSUME IInv, NoLoss, SnapperStep \/ StartSnapshot
  PROVE  NoLoss'
<1>a. /\ snap \in [pc : SnapPc, at : Page] /\ pg \in [Page -> PageRec] /\ TInv
      /\ list \in [Page -> BlockRef]
  BY DEF IInv, TInv, TypeOK
<1>b. PICK p \in Page : p = snap.at
  BY <1>a
<1>1. CASE kick_pageout("kick1", "stop") \/ kick_pageout("kick2", "final")
  <2>1. vm_page_req_pageout(p) /\ ListStep(p)
    BY <1>1, <1>b DEF kick_pageout, ListStep
  <2> QED BY <1>a, <2>1, PageoutEffect, EffectLossless
<1>2. CASE StartSnapshot \/ wait_commit_snap
  <2>1. UNCHANGED <<pg, io, free>> /\ ListStep(p)
    BY <1>2 DEF StartSnapshot, wait_commit_snap, ListStep
  <2> QED BY <2>1, NoPageChange, EffectLossless
<1>3. CASE MarkAll
  <2>1. ASSUME NEW x \in Page PROVE SameCopies(pg'[x], pg[x])
    <3>1. PICK r \in PageRec : r = pg[x]
      BY <1>a
    <3>2. pg'[x] = mark_for_snap(r)
      BY <1>3, <3>1 DEF MarkAll
    <3> QED BY <3>1, <3>2 DEF mark_for_snap, PageRec, SameCopies
  <2>2. free' = free /\ UNCHANGED Lists
    BY <1>3 DEF MarkAll, Lists
  <2>3. \A x \in Page : KeepsRefs(x)
    BY <2>1, <2>2 DEF KeepsRefs, Refs, SameCopies, Lists
  <2> QED BY <2>2, <2>3, RefsLossless
<1>4. CASE finalize_snap
  <2>1. free' = free /\ UNCHANGED Lists
    BY <1>4 DEF finalize_snap, Lists
  <2>2. PICK r \in PageRec : r = pg[p]
    BY <1>a
  <2>3. pg'[p] = r \/ (~Have(r.make_page) /\ pg'[p] = TakeDiskCopy(r))
    BY <1>4, <1>a, <1>b, <2>2 DEF finalize_snap
  <2>4. \A x \in Page \ {p} : pg'[x] = pg[x]
    BY <1>4, <1>a, <1>b DEF finalize_snap
  <2>5. /\ r.curr_page \in {pg'[p].curr_page, pg'[p].make_page, NoPage}
        /\ r.prev_page \in {pg'[p].prev_page, pg'[p].make_page, NoPage}
        /\ r.make_page \in {pg'[p].make_page, NoPage}
    BY <2>2, <2>3, TakeOp DEF Have
  <2>6. \A x \in Page : KeepsRefs(x)
    BY <2>1, <2>2, <2>4, <2>5, BlockAssumption, SMTT(30) DEF KeepsRefs, Refs, Lists
  <2> QED BY <2>1, <2>6, RefsLossless
<1>5. CASE SaveToList
  <2>1. Effect(p) /\ (Kept(p) \/ StartsPageout(p))
    <3>1. CASE vm_page_req_pageout(p)
      BY <1>a, <3>1, PageoutEffect
    <3>2. CASE UNCHANGED <<pg, io, free>>
      BY <3>2, NoPageChange DEF Kept, Writing
    <3> QED BY <1>5, <1>b, <3>1, <3>2 DEF SaveToList
  <2>2. pg'[p].make_page = pg[p].make_page
    BY <2>1 DEF Kept, StartsPageout
  <2>3. list[p] = ZeroPage
    BY <1>5, <1>b DEF SaveToList, At, IInv, Phase, PhasePage, Page
  <2>4. ListStep(p)
    BY <1>5, <1>a, <1>b, <2>1, <2>2, <2>3 DEF SaveToList, ListStep
  <2> QED BY <2>1, <2>4, EffectLossless
<1>6. CASE MoveToPrev
  <2>1. free' = free /\ UNCHANGED Lists
    BY <1>6 DEF MoveToPrev, Lists
  <2>2. /\ pg'[p].curr_page = pg[p].curr_page /\ pg'[p].prev_page = pg[p].make_page
        /\ \A x \in Page \ {p} : pg'[x] = pg[x]
    BY <1>6, <1>a, <1>b, SMTT(30) DEF MoveToPrev, PageRec
  <2>3. pg[p].prev_page \in Block => pg[p].prev_page \in {last_snap[p], list[p]}
    BY DEF IInv, Own, OwnPage
  <2>4. \A x \in Page : KeepsRefs(x)
    BY <2>1, <2>2, <2>3, ZenonT(30) DEF KeepsRefs, Refs, Lists
  <2> QED BY <2>1, <2>4, RefsLossless
<1>7. CASE UpdateSuperblock
  <2>1. /\ UNCHANGED <<pg, free>> /\ toFree' = prev_snap /\ prev_snap' = last_snap
        /\ last_snap' = list
    BY <1>7 DEF UpdateSuperblock
  <2>2. \A x \in Page : toFree[x] = ZeroPage
    BY <1>7 DEF UpdateSuperblock, At, IInv, Phase, PhaseGlobal, NoList
  <2>3. \A x \in Page : KeepsRefs(x)
    BY <2>1, <2>2, BlockAssumption DEF KeepsRefs, Refs
  <2> QED BY <2>1, <2>3, RefsLossless
<1>8. CASE phantom_free_snap
  <2>1. /\ UNCHANGED <<pg, list, prev_snap, last_snap>>
        /\ free' = free \cup (BlocksOf(toFree) \ (BlocksOf(prev_snap) \cup BlocksOf(last_snap)))
    BY <1>8 DEF phantom_free_snap
  <2>2. ASSUME NEW b \in Block, b \notin free'
        PROVE  (\E x \in Page : b \in Refs(x)) => \E x \in Page : b \in Refs(x)'
    <3>1. SUFFICES ASSUME NEW x \in Page, b \in Refs(x) PROVE \E y \in Page : b \in Refs(y)'
      OBVIOUS
    <3>2. CASE b = toFree[x]
      <4>1. b \in BlocksOf(prev_snap) \cup BlocksOf(last_snap)
        BY <2>1, <2>2, <3>2 DEF BlocksOf
      <4>2. PICK y \in Page : b \in {prev_snap[y], last_snap[y]}
        BY <4>1 DEF BlocksOf
      <4> QED BY <2>1, <4>2 DEF Refs
    <3>3. CASE b # toFree[x]
      BY <2>1, <3>1, <3>3 DEF Refs
    <3> QED BY <3>2, <3>3
  <2> QED BY <2>1, <2>2 DEF NoLoss
<1> QED BY <1>1, <1>2, <1>3, <1>4, <1>5, <1>6, <1>7, <1>8 DEF SnapperStep

(* Every block is accounted for at all times. *)
LEMMA Lossless == Spec => []NoLoss
<1>1. Init => NoLoss
  <2> SUFFICES ASSUME Init, NEW b \in Block, b \notin free PROVE \E p \in Page : b \in Refs(p)
    BY DEF NoLoss
  <2>1. PICK p \in Page : b = last_snap[p]
    BY DEF Init, BlocksOf
  <2> QED BY <2>1 DEF Refs
<1>2. IInv /\ NoLoss /\ [Next]_vars => NoLoss'
  <2> SUFFICES ASSUME IInv, NoLoss, [Next]_vars PROVE NoLoss'
    OBVIOUS
  <2>1. ASSUME NEW t \in Thread, ThreadStep(t) PROVE NoLoss'
    <3>1. \E p \in Page : PageStep(p)
      BY <2>1, AccessStep, ReadFaultStep, WriteFaultStep, PageinDoneStep DEF ThreadStep, Op
    <3> QED BY <3>1, PageStepLossless
  <2>2. ASSUME NEW p \in Page, PagerStep(p) \/ physmem_try_to_reclaim_page(p) PROVE NoLoss'
    BY <2>2, PagerStepEffect, ReclaimStep, PageStepLossless
  <2>3. CASE LazyStep
    BY <2>3, LazyStepEffect, PageStepLossless
  <2>4. CASE SnapperStep \/ StartSnapshot
    BY <2>4, SnapperLossless
  <2>5. CASE UNCHANGED vars
    BY <2>5 DEF vars, NoLoss, Refs
  <2> QED BY <2>1, <2>2, <2>3, <2>4, <2>5 DEF Next
<1> QED BY <1>1, <1>2, Invariance, PTL DEF Spec

(* Besides its current copy and its blocks in the two committed snapshots  *)
(* a page has one more block: in the snapshot being freed, in the pagelist *)
(* being written, or as snapshot copy.                                     *)
Fourth(p) == IF toFree[p] \in Block THEN toFree[p]
             ELSE IF list[p] \in Block THEN list[p] ELSE pg[p].make_page

LEMMA FourRefs ==
  ASSUME IInv, NEW p \in Page
  PROVE  Refs(p) \subseteq {pg[p].curr_page, last_snap[p], prev_snap[p], Fourth(p)}
<1>1. PhasePage(p) /\ PhaseGlobal /\ OwnPage(p) /\ snap.pc \in SnapPc /\ snap.at \in Page
  BY DEF IInv, Phase, Own, TInv, TypeOK
<1>2. /\ snap.pc # "free" => toFree[p] = ZeroPage
      /\ snap.pc \notin {"save", "move", "commit", "cwait", "super"} => list[p] = ZeroPage
  BY <1>1 DEF PhaseGlobal, NoList
<1>3. toFree[p] \in Block => ~Have(pg[p].make_page) /\ list[p] \notin Block
  BY <1>1, <1>2, BlockAssumption DEF PhasePage
<1>4. list[p] \in Block /\ Have(pg[p].make_page) => list[p] = pg[p].make_page
  BY <1>1, <1>2, BlockAssumption, SMTT(30) DEF PhasePage, SnapPc, Page
<1>5. pg[p].prev_page \in Block => pg[p].prev_page \in {last_snap[p], list[p]}
  BY <1>1 DEF OwnPage
<1> QED BY <1>3, <1>4, <1>5, BlockAssumption DEF Refs, Fourth, Have

(* The number of a block of page p, out of four. *)
Slot(p, b) == IF b = pg[p].curr_page THEN 1 ELSE IF b = last_snap[p] THEN 2
              ELSE IF b = prev_snap[p] THEN 3 ELSE 4

(* When the free list is empty and some page has no current copy, there    *)
(* are fewer than four blocks per page.                                    *)
LEMMA FullDisk ==
  ASSUME IInv, NoLoss, free = {}, NEW o \in Page, ~Have(pg[o].curr_page)
  PROVE  Cardinality(Block) \in Nat /\ Cardinality(Block) < 4 * NumPages
<1> DEFINE owner(b) == CHOOSE p \in Page : b \in Refs(p)
           n(b) == 4 * (owner(b) - 1) + Slot(owner(b), b)
           z == 4 * (o - 1) + 1
           T == (1 .. 4 * NumPages) \ {z}
           f == [b \in Block |-> n(b)]
<1>1. ASSUME NEW b \in Block PROVE owner(b) \in Page /\ b \in Refs(owner(b))
  BY DEF NoLoss
<1>2. ASSUME NEW p \in Page, NEW b \in Block PROVE Slot(p, b) \in 1..4
  BY SMTT(30) DEF Slot
<1>3. ASSUME NEW p \in Page, NEW b \in Refs(p), NEW c \in Refs(p), Slot(p, b) = Slot(p, c)
      PROVE  b = c
  BY <1>3, FourRefs, SMTT(30) DEF Slot
<1> HIDE DEF owner
<1>4. ASSUME NEW b \in Block PROVE n(b) \in T
  <2>1. PICK p \in Page, s \in 1..4 : p = owner(b) /\ s = Slot(owner(b), b)
    BY <1>1, <1>2
  <2>2. p = o => s # 1
    BY <2>1, BlockAssumption, SMTT(30) DEF Slot, Have
  <2> QED BY <2>1, <2>2, NumPagesAssumption, SMTT(30) DEF Page
<1>5. ASSUME NEW b \in Block, NEW c \in Block, n(b) = n(c) PROVE b = c
  <2>1. PICK p \in Page, s \in 1..4 : p = owner(b) /\ s = Slot(owner(b), b)
    BY <1>1, <1>2
  <2>2. PICK q \in Page, r \in 1..4 : q = owner(c) /\ r = Slot(owner(c), c)
    BY <1>1, <1>2
  <2>3. 4 * (p - 1) + s = 4 * (q - 1) + r
    BY <1>5, <2>1, <2>2
  <2>4. p = q /\ s = r
    BY <2>3, SMTT(30) DEF Page
  <2> QED BY <1>1, <1>3, <2>1, <2>2, <2>4
<1> HIDE DEF n
<1>6. f \in Injection(Block, T)
  <2>1. f \in [Block -> T]
    BY <1>4
  <2>2. IsInjective(f)
    BY <1>5 DEF IsInjective
  <2> QED BY <2>1, <2>2 DEF Injection
<1> HIDE DEF f
<1>7. IsFiniteSet(T) /\ Cardinality(T) = 4 * NumPages - 1
  <2>1. 4 * NumPages \in Int /\ 1 \in Int /\ ~(1 > 4 * NumPages)
    BY NumPagesAssumption, SMTT(30)
  <2>2. IsFiniteSet(1 .. 4 * NumPages) /\ Cardinality(1 .. 4 * NumPages) = 4 * NumPages
    BY <2>1, FS_Interval, SMTT(30)
  <2>3. z \in 1 .. 4 * NumPages
    BY NumPagesAssumption, SMTT(30) DEF Page
  <2> DEFINE U == 1 .. 4 * NumPages
  <2> HIDE DEF U, z
  <2>4. IsFiniteSet(U) /\ z \in U /\ Cardinality(U) = 4 * NumPages
    BY <2>2, <2>3 DEF U
  <2>5. IsFiniteSet(U \ {z}) /\ Cardinality(U \ {z}) = 4 * NumPages - 1
    BY <2>4, FS_RemoveElement
  <2> QED BY <2>5 DEF U
<1> HIDE DEF T
<1>8. IsFiniteSet(Block) /\ Cardinality(Block) <= Cardinality(T)
  BY <1>6, <1>7, FS_Injection
<1>9. Cardinality(Block) \in Nat
  BY <1>8, FS_CardinalityType
<1> QED BY <1>7, <1>8, <1>9, NumPagesAssumption, SMTT(30)

(* Four disk blocks per page are enough: pager_alloc_page never fails for  *)
(* a pageout or a COW copy, so neither vm_page_req_pageout nor             *)
(* page_fault_snap_aid panics.                                             *)
THEOREM DiskSuffices == Spec => []DiskNeverFull
<1>1. IInv /\ NoLoss => DiskNeverFull
  <2> SUFFICES ASSUME IInv, NoLoss, Cardinality(Block) >= 4 * NumPages, NEW p \in Page,
                      ~Have(pg[p].curr_page), free = {}
               PROVE  FALSE
    BY DEF DiskNeverFull
  <2>1. Cardinality(Block) \in Nat /\ Cardinality(Block) < 4 * NumPages
    BY FullDisk
  <2>2. 4 * NumPages \in Int
    BY NumPagesAssumption, SMTT(30)
  <2> QED BY <2>1, <2>2, SMTT(30)
<1> QED BY <1>1, Invariance, Lossless, PTL
=============================================================================
