--------------------------- MODULE VmMapContents ---------------------------
(***************************************************************************)
(* What the pages hold: the invariant that ties memory, disk and snapshot  *)
(* together, and why the steps of the threads, the pager and do_snapshot   *)
(* keep it and change what a program and a restart see only as             *)
(* AtomicSnapshot allows: vm_map.c implements it.  This holds for any      *)
(* number of pages, blocks and threads, when no transfer fails and no page *)
(* a thread writes is used by another thread (PrivateWriters); the page    *)
(* fault code needs both.                                                  *)
(***************************************************************************)
EXTENDS VmMapBlocks

(* The time limits of the provers. *)
USE ZenonT(10), SMTT(30)

-----------------------------------------------------------------------------
(* The inductive invariant. *)

(* A page some thread writes is used by no other thread. *)
PrivateWriters == \A a, b \in Access : a[2] = "write" /\ a[3] = b[3] => a[1] = b[1]

Under(q, cb) == q.st # "idle" /\ q.cb = cb

DiskVal(b) == IF b = ZeroPage THEN Zero ELSE disk[b]

(* The flags of page r, its mapping and its queue agree with each other    *)
(* and with its request q; d is the content of its disk copy, v of its     *)
(* memory, which are the same once a pagein has ended and until the first  *)
(* write, and again once a pageout has.                                    *)
Flags(r, q) ==
  /\ r.phys_dirty \/ q.st # "idle" => r.phys_mem
  /\ r.map = IF ~r.phys_mem \/ Under(q, "pagein") THEN "none"
             ELSE IF r.phys_protect THEN "ro" ELSE "rw"
  /\ r.reclaim_q = IF ~r.phys_mem \/ Under(q, "pagein") \/ Under(q, "pageout") THEN "none"
                   ELSE IF r.phys_dirty THEN "dirty" ELSE "clean"
  /\ Under(q, "pagein") => ~r.phys_dirty /\ q.disk_page = Source(r)
  /\ Under(q, "pageout") => r.phys_dirty /\ r.phys_protect
  /\ Under(q, "cow") => r.phys_dirty /\ ~r.phys_protect

InCore(r, q) == r.phys_mem /\ ~(q.st = "queued" /\ q.cb = "pagein")
Saved(r, q) == ~r.phys_dirty \/ (q.st = "moved" /\ q.cb = "pageout")

Sound(r, q, v, d) == Flags(r, q) /\ (InCore(r, q) /\ Saved(r, q) => v = d)

(* Some thread waits for the pagein of page p it has started. *)
Loader(p, op) == \E t \in Thread : th[t] = [pc |-> "pagein", op |-> op, page |-> p]

Kicked(p) == snap.pc \in {"final", "fwait"} \/ (snap.pc = "kick2" /\ p < snap.at)

(* A clean page is writable only between its pagein for a write and the    *)
(* end of that fault; a page with no snapshot copy yet is write protected, *)
(* and only such a page may be dirty, protected and not being written;     *)
(* once kick_pageout is past it, what is dirty of it is being written.     *)
Guarded(p) ==
  /\ Under(io[p], "pagein") => Loader(p, IF pg[p].phys_protect THEN "read" ELSE "write")
  /\ Writable(pg[p]) /\ ~pg[p].phys_dirty => Loader(p, "write")
  /\ Loader(p, "write") => ~pg[p].phys_dirty /\ (pg[p].phys_mem => ~pg[p].phys_protect)
  /\ Snapping(pg[p]) => ~Writable(pg[p])
  /\ pg[p].phys_dirty /\ pg[p].phys_protect /\ ~Under(io[p], "pageout") => Snapping(pg[p])
  /\ Snapping(pg[p]) /\ pg[p].phys_dirty /\ Kicked(p) => Under(io[p], "pageout")

SoundPage(p) == Sound(pg[p], io[p], ram[p], DiskVal(Source(pg[p])))

ThreadAccess == \A t \in Thread : th[t].pc # "run" => <<t, th[t].op, th[t].page>> \in Access

CInv == /\ ioerror = {} /\ ThreadAccess
        /\ \A p \in Page : SoundPage(p) /\ Guarded(p)

-----------------------------------------------------------------------------
(* The values the refinement mapping gives a page. *)

CopyVal(q, b) == IF b = ZeroPage THEN Zero
                 ELSE IF q.st = "queued" /\ q.cb = "cow" /\ q.disk_page = b THEN q.copy
                 ELSE disk[b]

(* A fault reads a page from a block or finds it empty. *)
LEMMA SourceRef ==
  ASSUME NEW r \in PageRec
  PROVE  Source(r) \in BlockRef
BY BlockAssumption DEF PageRec, Source, Have, BlockRef

(* A page's disk copy is one of its blocks. *)
LEMMA SourceOwned ==
  ASSUME NEW p \in Page, pg[p] \in PageRec
  PROVE  Source(pg[p]) \in Refs(p) \cup {ZeroPage}
BY BlockAssumption DEF PageRec, Source, Have, BlockRef, Refs

(* The memory the program sees: the physical page, or the disk copy. *)
MemForm == \A p \in Page : SoundPage(p) =>
  MemVal(p) = IF InCore(pg[p], io[p]) THEN ram[p] ELSE DiskVal(Source(pg[p]))

LEMMA MemIs == MemForm
BY
DEF MemForm, SoundPage, Sound, Flags, MemVal, Resident, Loading, InCore, BlockVal, DiskVal

(* Only a COW request writes a snapshot copy. *)
LEMMA CopyIs ==
  ASSUME IInv, NEW p \in Page, NEW b \in {pg[p].make_page, pg[p].prev_page}
  PROVE  BlockVal(p, b) = CopyVal(io[p], b)
<1>1. Writing(p, "pageout") => /\ io[p].disk_page = pg[p].curr_page
                               /\ io[p].disk_page \in Block
  BY DEF IInv, Own, OwnPage, TInv, IoHasTarget, Writing
<1>2. Have(pg[p].curr_page) => b # pg[p].curr_page
  BY DEF IInv, Own, OwnPage
<1>3. Writing(p, "pageout") => io[p].disk_page # b
  BY <1>1, <1>2, BlockAssumption DEF Have
<1> QED BY <1>3 DEF BlockVal, CopyVal, Writing

(* The snapshot of a page: its snapshot copy, the memory as long as it has *)
(* none, or what was its snapshot copy once the pagelist holds it.         *)
ShotForm == IInv => \A p \in Page :
  ShotVal(p) = IF ~Making THEN DurableVal(p)
               ELSE IF Have(pg[p].make_page) THEN CopyVal(io[p], pg[p].make_page)
               ELSE IF is_in_snapshot_process THEN MemVal(p)
               ELSE CopyVal(io[p], pg[p].prev_page)

LEMMA ShotIs == ShotForm
<1> SUFFICES ASSUME IInv, NEW p \in Page
             PROVE  ShotVal(p) = IF ~Making THEN DurableVal(p)
                      ELSE IF Have(pg[p].make_page) THEN CopyVal(io[p], pg[p].make_page)
                      ELSE IF is_in_snapshot_process THEN MemVal(p)
                      ELSE CopyVal(io[p], pg[p].prev_page)
  BY DEF ShotForm
<1>1. /\ BlockVal(p, pg[p].make_page) = CopyVal(io[p], pg[p].make_page)
      /\ BlockVal(p, pg[p].prev_page) = CopyVal(io[p], pg[p].prev_page)
  BY CopyIs
<1> QED BY <1>1 DEF ShotVal

-----------------------------------------------------------------------------
(* What a step leaves alone. *)

(* The page, its request, its memory and its blocks. *)
Still(p) == /\ pg'[p] = pg[p] /\ io'[p] = io[p] /\ ram'[p] = ram[p]
            /\ \A b \in Refs(p) : disk'[b] = disk[b]

(* What the snapshot's progress means to page p; its own snapshot copy is   *)
(* made before is_in_snapshot_process goes down.                           *)
SnapFrame(p) ==
  /\ Making' = Making /\ last_snap' = last_snap
  /\ is_in_snapshot_process' => is_in_snapshot_process
  /\ is_in_snapshot_process /\ ~is_in_snapshot_process' => Have(pg'[p].make_page)
  /\ Kicked(p)' => Kicked(p)

LoadersKept(p) == \A op \in Op : Loader(p, op)' <=> Loader(p, op)

SameView(p) == /\ MemVal(p)' = MemVal(p) /\ ShotVal(p)' = ShotVal(p)
               /\ DurableVal(p)' = DurableVal(p)

(* A page the step does not touch keeps what is known of it. *)
LEMMA StillPage ==
  ASSUME IInv, IInv', NEW p \in Page, SoundPage(p), Guarded(p),
         Still(p), SnapFrame(p), LoadersKept(p)
  PROVE  SoundPage(p)' /\ Guarded(p)' /\ SameView(p)
<1> USE DEF Still
<1>1. pg[p] \in PageRec /\ last_snap[p] \in BlockRef
  BY DEF IInv, TInv, TypeOK
<1>2. DiskVal(Source(pg[p]))' = DiskVal(Source(pg[p]))
  BY <1>1, SourceOwned, BlockAssumption, SMTT(30) DEF DiskVal, Refs
<1>3. SoundPage(p)'
  BY <1>2 DEF SoundPage
<1>4. Guarded(p)'
  BY DEF Guarded, SnapFrame, LoadersKept, Snapping, Op
<1>5. MemVal(p)' = MemVal(p)
  <2>1. MemForm /\ MemForm'
    BY MemIs, PTL
  <2> QED BY <1>2, <1>3, <2>1 DEF MemForm
<1>6. DurableVal(p)' = DurableVal(p)
  BY <1>1 DEF DurableVal, SnapFrame, Refs, BlockRef
<1>7. /\ Have(pg[p].make_page) =>
           CopyVal(io[p], pg[p].make_page)' = CopyVal(io[p], pg[p].make_page)
      /\ Have(pg[p].prev_page) =>
           CopyVal(io[p], pg[p].prev_page)' = CopyVal(io[p], pg[p].prev_page)
  BY <1>1, BlockAssumption DEF CopyVal, PageRec, BlockRef, Refs, Have
<1>8. Making /\ ~Have(pg[p].make_page) /\ ~is_in_snapshot_process => Have(pg[p].prev_page)
  BY BlockAssumption, SMTT(30)
  DEF Making, IInv, Phase, PhaseGlobal, PhasePage, TInv, TypeOK, SnapPc, Have, BlockRef, Page
<1>9. ShotVal(p)' = ShotVal(p)
  <2>1. ShotForm /\ ShotForm'
    BY ShotIs, PTL
  <2> QED BY <1>5, <1>6, <1>7, <1>8, <2>1 DEF SnapFrame, ShotForm
<1> QED BY <1>3, <1>4, <1>5, <1>6, <1>9 DEF SameView

(* The snapshot and the previous copy of the page are what they were. *)
CopiesKept(p) ==
  /\ pg'[p].make_page = pg[p].make_page /\ pg'[p].prev_page = pg[p].prev_page
  /\ Have(pg[p].make_page) =>
       CopyVal(io[p], pg[p].make_page)' = CopyVal(io[p], pg[p].make_page)
  /\ Have(pg[p].prev_page) =>
       CopyVal(io[p], pg[p].prev_page)' = CopyVal(io[p], pg[p].prev_page)

(* The page gets its snapshot copy, which holds what the memory holds. *)
NowCopied(p) == /\ Snapping(pg[p]) /\ Have(pg'[p].make_page)
                /\ CopyVal(io[p], pg[p].make_page)' = MemVal(p)

(* The snapshot keeps its contents while the page's copies move about. *)
LEMMA ShotKept ==
  ASSUME IInv, IInv', NEW p \in Page,
         Making' = Making, last_snap' = last_snap,
         is_in_snapshot_process' => is_in_snapshot_process,
         is_in_snapshot_process /\ ~is_in_snapshot_process' => Have(pg'[p].make_page),
         last_snap[p] \in Block => disk'[last_snap[p]] = disk[last_snap[p]],
         Snapping(pg[p]) => MemVal(p)' = MemVal(p), CopiesKept(p) \/ NowCopied(p)
  PROVE  ShotVal(p)' = ShotVal(p) /\ DurableVal(p)' = DurableVal(p)
<1>1. DurableVal(p)' = DurableVal(p)
  BY DEF DurableVal, IInv, TInv, TypeOK, BlockRef
<1>2. Making /\ ~Have(pg[p].make_page) /\ ~is_in_snapshot_process => Have(pg[p].prev_page)
  BY BlockAssumption, SMTT(30)
  DEF Making, IInv, Phase, PhaseGlobal, PhasePage, TInv, TypeOK, SnapPc, Have, BlockRef, Page
<1>3. ShotForm /\ ShotForm'
  BY ShotIs, PTL
<1>4. ShotVal(p)' = ShotVal(p)
  <2>1. CASE CopiesKept(p)
    BY <1>1, <1>2, <1>3, <2>1 DEF ShotForm, CopiesKept, Snapping
  <2>2. CASE NowCopied(p)
    <3>1. Making
      BY <2>2 DEF NowCopied, Snapping, Making, IInv, Phase, PhaseGlobal
    <3> QED BY <1>3, <2>2, <3>1 DEF ShotForm, NowCopied, Snapping
  <2> QED BY <2>1, <2>2
<1> QED BY <1>1, <1>4

LEMMA ViewKept ==
  ASSUME IInv, IInv', NEW p \in Page,
         Making' = Making, last_snap' = last_snap,
         is_in_snapshot_process' => is_in_snapshot_process,
         is_in_snapshot_process /\ ~is_in_snapshot_process' => Have(pg'[p].make_page),
         last_snap[p] \in Block => disk'[last_snap[p]] = disk[last_snap[p]],
         MemVal(p)' = MemVal(p), CopiesKept(p) \/ NowCopied(p)
  PROVE  SameView(p)
BY ShotKept DEF SameView

-----------------------------------------------------------------------------
(* vm_page_req_pageout: a dirty page is being written when it returns. *)
LEMMA PageoutKeeps ==
  ASSUME IInv, IInv', NEW p \in Page, SoundPage(p), Guarded(p), vm_page_req_pageout(p),
         UNCHANGED <<ram, disk, th, is_in_snapshot_process, last_snap>>, Making' = Making
  PROVE  SoundPage(p)' /\ Guarded(p)' /\ SameView(p)
<1> USE DEF IInv, TInv, TypeOK
<1>0. \A op \in Op : Loader(p, op)' <=> Loader(p, op)
  BY DEF Loader
<1>1. CASE ~CanPageout(p) /\ UNCHANGED <<pg, io, free>>
  <2>1. SoundPage(p)'
    BY <1>1 DEF SoundPage, DiskVal
  <2>2. Snapping(pg[p]) /\ pg[p].phys_dirty => Under(io[p], "pageout")
    BY <1>1
    DEF CanPageout, Busy, SoundPage, Sound, Flags, Guarded, Under, Writable, IoHasTarget, IoRec
  <2>3. Guarded(p)'
    BY <1>0, <1>1, <2>2 DEF Guarded, Snapping, Op
  <2>4. MemVal(p)' = MemVal(p) /\ CopiesKept(p)
    BY <1>1 DEF MemVal, Resident, Loading, BlockVal, CopiesKept, CopyVal
  <2> QED BY <2>1, <2>3, <2>4, ViewKept
<1>2. CASE CanPageout(p)
  <2>1. PICK b \in IF Have(pg[p].curr_page) THEN {pg[p].curr_page} ELSE Candidates(free) :
          /\ pg' = [pg EXCEPT ![p] = remove_from_q([pg[p] EXCEPT !.curr_page = b,
                                      !.phys_protect = TRUE, !.map = "ro"], "dirty")]
          /\ io' = [io EXCEPT ![p] = NewIo("pageout", b, Junk)]
    BY <1>2 DEF vm_page_req_pageout
  <2>2. PICK r \in PageRec, q \in IoRec : r = pg[p] /\ q = io[p]
    OBVIOUS
  <2>3. PICK n : n = pg'[p]
    OBVIOUS
  <2>4. /\ n.phys_mem = r.phys_mem /\ n.phys_dirty = r.phys_dirty /\ n.phys_protect
        /\ n.map = "ro" /\ n.reclaim_q = IF r.reclaim_q = "dirty" THEN "none" ELSE "broken"
        /\ n.make_page = r.make_page /\ n.prev_page = r.prev_page
    BY <2>1, <2>2, <2>3 DEF PageRec, remove_from_q
  <2>5. io'[p].st = "queued" /\ io'[p].cb = "pageout"
    BY <2>1 DEF NewIo
  <2>6. r.phys_mem /\ r.phys_dirty /\ q.st = "idle"
    BY <1>2, <2>2 DEF CanPageout, Busy
  <2>7. SoundPage(p)'
    BY <2>2, <2>3, <2>4, <2>5, <2>6 DEF SoundPage, Sound, Flags, Under, InCore, Saved
  <2>8. Guarded(p)'
    BY <1>0, <2>2, <2>3, <2>4, <2>5, <2>6 DEF Guarded, Snapping, Writable, Under, Op
  <2>9. MemVal(p)' = MemVal(p) /\ CopiesKept(p)
    BY <2>2, <2>3, <2>4, <2>5, <2>6 DEF MemVal, Resident, Loading, CopiesKept, CopyVal
  <2> QED BY <2>7, <2>8, <2>9, ViewKept
<1> QED BY <1>1, <1>2 DEF vm_page_req_pageout

-----------------------------------------------------------------------------
(* The callbacks and the disk. *)

(* Where a fault reads the page from depends on its copies only. *)
LEMMA SameSource ==
  ASSUME NEW r, NEW s, SameCopies(r, s)
  PROVE  Source(r) = Source(s)
BY DEF SameCopies, Source

(* What the steps of the pager and of the threads leave alone. *)
Frame == UNCHANGED <<snap, is_in_snapshot_process, list, last_snap, prev_snap, toFree, ioerror>>

LEMMA FrameSnap ==
  ASSUME Frame, NEW p \in Page
  PROVE  SnapFrame(p)
BY DEF Frame, SnapFrame, Making, Kicked

(* pageout_callback: the page is clean once more. *)
LEMMA PageoutDoneKeeps ==
  ASSUME IInv, IInv', NEW p \in Page, SoundPage(p), Guarded(p), pageout_callback(p)
  PROVE  SoundPage(p)' /\ Guarded(p)' /\ SameView(p)
<1>a. pg \in [Page -> PageRec] /\ io \in [Page -> IoRec]
  BY DEF IInv, TInv, TypeOK
<1>0. (\A op \in Op : Loader(p, op)' <=> Loader(p, op)) /\ Frame /\ UNCHANGED <<ram, disk>>
  BY DEF Loader, pageout_callback, Frame
<1>1. PICK r \in PageRec, q \in IoRec : r = pg[p] /\ q = io[p]
  BY <1>a
<1>2. PICK n : n = pg'[p]
  OBVIOUS
<1>3. /\ n.phys_mem = r.phys_mem /\ ~n.phys_dirty /\ n.phys_protect = r.phys_protect
      /\ n.map = r.map /\ n.reclaim_q = IF r.reclaim_q = "none" THEN "clean" ELSE "broken"
      /\ SameCopies(n, r)
  BY <1>a, <1>1, <1>2 DEF pageout_callback, PageRec, put_on_q, SameCopies
<1>4. io'[p].st = "idle" /\ q.st = "moved" /\ q.cb = "pageout"
  BY <1>a, <1>1 DEF pageout_callback, IdleIo, CallbackDue
<1>5. DiskVal(Source(n)) = DiskVal(Source(r)) /\ DiskVal(Source(n))' = DiskVal(Source(n))
  BY <1>0, <1>3, SameSource DEF DiskVal
<1>6. SoundPage(p)'
  BY <1>0, <1>1, <1>2, <1>3, <1>4, <1>5 DEF SoundPage, Sound, Flags, Under, InCore, Saved
<1>7. Guarded(p)'
  BY <1>0, <1>1, <1>2, <1>3, <1>4
  DEF Guarded, Snapping, Writable, Under, Op, SoundPage, Sound, Flags, Frame
<1>8. MemVal(p)' = MemVal(p) /\ CopiesKept(p)
  BY <1>0, <1>1, <1>2, <1>3, <1>4
  DEF MemVal, Resident, Loading, CopiesKept, CopyVal, SameCopies, SoundPage, Sound, Flags
<1> QED BY <1>0, <1>6, <1>7, <1>8, ViewKept DEF Frame, Making

(* snapper_COW_callback: the copy has been written. *)
LEMMA CopyDoneKeeps ==
  ASSUME IInv, IInv', NEW p \in Page, SoundPage(p), Guarded(p), snapper_COW_callback(p)
  PROVE  SoundPage(p)' /\ Guarded(p)' /\ SameView(p)
<1>a. pg \in [Page -> PageRec] /\ io \in [Page -> IoRec]
  BY DEF IInv, TInv, TypeOK
<1>0. /\ \A op \in Op : Loader(p, op)' <=> Loader(p, op)
      /\ Frame /\ UNCHANGED <<pg, ram, disk>>
  BY DEF Loader, snapper_COW_callback, Frame
<1>1. io'[p].st = "idle" /\ io[p].st = "moved" /\ io[p].cb = "cow"
  BY <1>a DEF snapper_COW_callback, IdleIo, CallbackDue
<1>2. SoundPage(p)'
  BY <1>0, <1>1 DEF SoundPage, Sound, Flags, Under, InCore, Saved, DiskVal
<1>3. Guarded(p)'
  BY <1>0, <1>1 DEF Guarded, Snapping, Writable, Under, Op, SoundPage, Sound, Flags, Frame
<1>4. MemVal(p)' = MemVal(p) /\ CopiesKept(p)
  BY <1>0, <1>1 DEF MemVal, Resident, Loading, CopiesKept, CopyVal, SoundPage, Sound, Flags
<1> QED BY <1>0, <1>2, <1>3, <1>4, ViewKept DEF Frame, Making

(* pagein_callback: the page is mapped, for writing if a write waits for it. *)
LEMMA PageinKeeps ==
  ASSUME IInv, IInv', NEW p \in Page, SoundPage(p), Guarded(p), pagein_callback(p)
  PROVE  SoundPage(p)' /\ Guarded(p)' /\ SameView(p)
<1>a. pg \in [Page -> PageRec] /\ io \in [Page -> IoRec]
  BY DEF IInv, TInv, TypeOK
<1>0. (\A op \in Op : Loader(p, op)' <=> Loader(p, op)) /\ Frame /\ UNCHANGED <<ram, disk>>
  BY DEF Loader, pagein_callback, Frame
<1>1. PICK r \in PageRec, q \in IoRec : r = pg[p] /\ q = io[p]
  BY <1>a
<1>2. PICK n : n = pg'[p]
  OBVIOUS
<1>3. /\ n.phys_mem = r.phys_mem /\ ~n.phys_dirty /\ n.phys_protect = r.phys_protect
      /\ n.map = IF r.phys_protect THEN "ro" ELSE "rw"
      /\ n.reclaim_q = IF r.reclaim_q = "none" THEN "clean" ELSE "broken"
      /\ SameCopies(n, r)
  BY <1>a, <1>1, <1>2 DEF pagein_callback, PageRec, put_on_q, SameCopies
<1>4. io'[p].st = "idle" /\ q.st = "moved" /\ q.cb = "pagein"
  BY <1>a, <1>1 DEF pagein_callback, IdleIo, CallbackDue
<1>5. DiskVal(Source(n)) = DiskVal(Source(r)) /\ DiskVal(Source(n))' = DiskVal(Source(n))
  BY <1>0, <1>3, SameSource DEF DiskVal
<1>6. SoundPage(p)'
  BY <1>0, <1>1, <1>2, <1>3, <1>4, <1>5 DEF SoundPage, Sound, Flags, Under, InCore, Saved
<1>7. Guarded(p)'
  BY <1>0, <1>1, <1>2, <1>3, <1>4
  DEF Guarded, Snapping, Writable, Under, Op, SoundPage, Sound, Flags, Frame, SameCopies
<1>8. MemVal(p)' = MemVal(p) /\ CopiesKept(p)
  BY <1>0, <1>1, <1>2, <1>3, <1>4
  DEF MemVal, Resident, Loading, CopiesKept, CopyVal, SameCopies, SoundPage, Sound, Flags
<1> QED BY <1>0, <1>6, <1>7, <1>8, ViewKept DEF Frame, Making

(* A page under pageout is read from the block being written; a COW copy   *)
(* goes to no block the page is read from or a snapshot relies on.         *)
LEMMA Targets ==
  ASSUME IInv, NEW p \in Page
  PROVE  /\ Under(io[p], "pageout") =>
              /\ io[p].disk_page \in Block /\ io[p].disk_page = Source(pg[p])
              /\ io[p].disk_page \notin {pg[p].make_page, pg[p].prev_page, last_snap[p]}
         /\ Under(io[p], "cow") => io[p].disk_page \in Block /\ io[p].disk_page # last_snap[p]
         /\ Under(io[p], "pageout") \/ Under(io[p], "cow") => io[p].disk_page \in Refs(p)
<1>1. io[p].st # "idle" => io[p].disk_page \in Block
  BY DEF IInv, TInv, IoHasTarget
<1>2. OwnPage(p)
  BY DEF IInv, Own
<1>3. Under(io[p], "pageout") => Writing(p, "pageout") /\ Have(pg[p].curr_page)
  BY <1>1, <1>2, BlockAssumption DEF Under, Writing, OwnPage, Have
<1>4. Under(io[p], "cow") => Writing(p, "cow")
  BY DEF Under, Writing
<1> QED BY <1>1, <1>2, <1>3, <1>4 DEF OwnPage, Writing, Source, Refs

(* The disk serves the page's request. *)
LEMMA TransferKeeps ==
  ASSUME IInv, IInv', NEW p \in Page, SoundPage(p), Guarded(p), Transfer(p)
  PROVE  SoundPage(p)' /\ Guarded(p)' /\ SameView(p)
<1>a. /\ io \in [Page -> IoRec] /\ ram \in [Page -> Contents] /\ disk \in [Block -> Contents]
      /\ pg[p] \in PageRec
  BY DEF IInv, TInv, TypeOK
<1>0. (\A op \in Op : Loader(p, op)' <=> Loader(p, op)) /\ Frame /\ UNCHANGED pg
  BY DEF Loader, Transfer, Frame
<1>1. PICK q \in IoRec, z \in {io'[p]} : q = io[p] /\ z = io'[p]
  BY <1>a
<1>2. z.st = "moved" /\ q.st = "queued" /\ z.cb = q.cb /\ z.disk_page = q.disk_page
  BY <1>a, <1>1 DEF Transfer, Moved, IoRec
<1>3. Guarded(p)'
  BY <1>0, <1>1, <1>2 DEF Guarded, Snapping, Under, Op, Frame, Kicked
<1>4. MemForm /\ MemForm'
  BY MemIs, PTL
<1>5. /\ SoundPage(p)' /\ MemVal(p)' = MemVal(p) /\ CopiesKept(p)
      /\ last_snap[p] \in Block => disk'[last_snap[p]] = disk[last_snap[p]]
  <2>1. CASE q.cb = "pagein"
    <3>1. ram'[p] = disk[q.disk_page] /\ UNCHANGED disk
      BY <1>a, <1>1, <2>1 DEF Transfer
    <3>2. q.disk_page = Source(pg[p]) /\ Source(pg[p]) # ZeroPage
      BY <1>1, <1>2, <2>1, BlockAssumption
      DEF SoundPage, Sound, Flags, Under, IInv, TInv, IoHasTarget
    <3>3. DiskVal(Source(pg[p]))' = ram'[p] /\ DiskVal(Source(pg[p])) = ram'[p]
      BY <1>0, <3>1, <3>2 DEF DiskVal
    <3>4. SoundPage(p)'
      BY <1>0, <1>1, <1>2, <2>1, <3>3 DEF SoundPage, Sound, Flags, Under
    <3>5. MemVal(p)' = MemVal(p)
      BY <1>0, <1>1, <1>2, <1>4, <2>1, <3>3, <3>4, ZenonT(30)
      DEF MemForm, InCore, SoundPage, Sound, Flags
    <3> QED BY <1>0, <1>1, <1>2, <2>1, <3>1, <3>4, <3>5 DEF CopiesKept, CopyVal
  <2>2. CASE q.cb = "pageout"
    <3>1. disk' = [disk EXCEPT ![q.disk_page] = ram[p]] /\ UNCHANGED ram
      BY <1>1, <2>2 DEF Transfer
    <3>2. /\ q.disk_page \in Block /\ q.disk_page = Source(pg[p])
          /\ q.disk_page \notin {pg[p].make_page, pg[p].prev_page, last_snap[p]}
      BY <1>1, <1>2, <2>2, Targets DEF Under
    <3>3. DiskVal(Source(pg[p]))' = ram[p]
      BY <1>0, <1>a, <3>1, <3>2, BlockAssumption DEF DiskVal
    <3>4. SoundPage(p)'
      BY <1>0, <1>1, <1>2, <2>2, <3>1, <3>3 DEF SoundPage, Sound, Flags, Under
    <3>5. MemVal(p)' = MemVal(p)
      BY <1>0, <1>1, <1>2, <1>4, <2>2, <3>1, <3>4, ZenonT(30)
      DEF MemForm, InCore, SoundPage, Sound, Flags
    <3> QED BY <1>0, <1>1, <1>2, <1>a, <2>2, <3>1, <3>2, <3>4, <3>5
            DEF CopiesKept, CopyVal, PageRec, BlockRef, Have
  <2>3. CASE q.cb = "cow"
    <3>1. disk' = [disk EXCEPT ![q.disk_page] = q.copy] /\ UNCHANGED ram
      BY <1>1, <2>3 DEF Transfer
    <3>2. q.disk_page \in Block /\ q.disk_page # last_snap[p]
      BY <1>1, <1>2, <2>3, Targets DEF Under
    <3>3. SoundPage(p)'
      BY <1>0, <1>1, <1>2, <2>3, <3>1 DEF SoundPage, Sound, Flags, Under, Saved
    <3>4. MemVal(p)' = MemVal(p)
      BY <1>0, <1>1, <1>2, <1>4, <2>3, <3>1, <3>3
      DEF MemForm, InCore, SoundPage, Sound, Flags
    <3>5. CopiesKept(p)
      BY <1>0, <1>1, <1>2, <1>a, <2>3, <3>1, <3>2, BlockAssumption
      DEF CopiesKept, CopyVal, PageRec, BlockRef, Have
    <3> QED BY <1>a, <3>1, <3>2, <3>3, <3>4, <3>5
  <2> QED BY <1>1, <1>2, <2>1, <2>2, <2>3 DEF IoRec, IInv, TInv, IoHasTarget
<1> QED BY <1>0, <1>3, <1>5, ViewKept DEF Frame, Making

(* A write for one page reaches no block of another. *)
LEMMA TransferElsewhere ==
  ASSUME IInv, NEW p \in Page, Transfer(p), NEW x \in Page \ {p}
  PROVE  Still(x)
<1>1. disk \in [Block -> Contents] /\ io \in [Page -> IoRec] /\ ram \in [Page -> Contents]
  BY DEF IInv, TInv, TypeOK
<1>2. UNCHANGED pg /\ io'[x] = io[x] /\ ram'[x] = ram[x]
  BY <1>1 DEF Transfer, Moved
<1>3. ASSUME NEW b \in Refs(x) PROVE disk'[b] = disk[b]
  <2>1. b \in Block /\ b \notin Refs(p)
    BY DEF Refs, IInv, Own, Apart
  <2>2. io[p].cb # "pagein" => io[p].disk_page \in Refs(p)
    BY Targets DEF Transfer, Under, IInv, TInv, TypeOK, IoRec, IoHasTarget
  <2> QED BY <1>1, <2>1, <2>2 DEF Transfer
<1> QED BY <1>2, <1>3 DEF Still

(* physmem_try_to_reclaim_page drops clean pages only. *)
LEMMA ReclaimKeeps ==
  ASSUME IInv, IInv', NEW p \in Page, SoundPage(p), Guarded(p), physmem_try_to_reclaim_page(p)
  PROVE  SoundPage(p)' /\ Guarded(p)' /\ SameView(p)
<1>a. pg \in [Page -> PageRec] /\ io \in [Page -> IoRec] /\ ram \in [Page -> Contents]
  BY DEF IInv, TInv, TypeOK
<1>0. (\A op \in Op : Loader(p, op)' <=> Loader(p, op)) /\ Frame /\ UNCHANGED <<io, disk>>
  BY DEF Loader, physmem_try_to_reclaim_page, Frame
<1>1. PICK r \in PageRec, q \in IoRec : r = pg[p] /\ q = io[p]
  BY <1>a
<1>2. PICK n : n = pg'[p]
  OBVIOUS
<1>3. /\ ~n.phys_mem /\ n.phys_dirty = r.phys_dirty /\ n.map = "none"
      /\ n.reclaim_q = IF r.reclaim_q = "clean" THEN "none" ELSE "broken"
      /\ SameCopies(n, r)
  BY <1>a, <1>1, <1>2 DEF physmem_try_to_reclaim_page, PageRec, remove_from_q, SameCopies
<1>4. r.phys_mem /\ ~r.phys_dirty /\ r.reclaim_q = "clean" /\ q.st = "idle"
  BY <1>1
  DEF physmem_try_to_reclaim_page, SoundPage, Sound, Flags, Under, IInv, TInv, TypeOK, IoHasTarget, IoRec
<1>5. DiskVal(Source(n)) = DiskVal(Source(r)) /\ DiskVal(Source(n))' = DiskVal(Source(n))
  BY <1>0, <1>3, SameSource DEF DiskVal
<1>6. SoundPage(p)'
  BY <1>0, <1>1, <1>2, <1>3, <1>4 DEF SoundPage, Sound, Flags, Under, InCore
<1>7. Guarded(p)'
  BY <1>0, <1>1, <1>2, <1>3, <1>4 DEF Guarded, Snapping, Writable, Under, Op
<1>8. MemVal(p)' = MemVal(p)
  <2>1. MemForm /\ MemForm'
    BY MemIs, PTL
  <2> QED BY <1>0, <1>1, <1>2, <1>3, <1>4, <1>5, <1>6, <2>1, SMTT(30)
          DEF MemForm, InCore, SoundPage, Sound, Saved
<1>9. CopiesKept(p)
  BY <1>0, <1>1, <1>2, <1>3 DEF CopiesKept, CopyVal, SameCopies
<1> QED BY <1>0, <1>6, <1>7, <1>8, <1>9, ViewKept DEF Frame, Making

-----------------------------------------------------------------------------
(* The threads. *)

(* A thread in a memory access has the page it writes to itself. *)
LEMMA Private ==
  ASSUME PrivateWriters, ThreadAccess, NEW t \in Thread, NEW u \in Thread,
         th[t].pc # "run", th[u].pc # "run", th[t].page = th[u].page,
         th[t].op = "write" \/ th[u].op = "write"
  PROVE  t = u
<1> DEFINE a == <<t, th[t].op, th[t].page>>
           b == <<u, th[u].op, th[u].page>>
<1>1. a \in Access /\ b \in Access
  BY DEF ThreadAccess
<1>2. /\ a[1] = t /\ a[2] = th[t].op /\ a[3] = th[t].page
      /\ b[1] = u /\ b[2] = th[u].op /\ b[3] = th[u].page
  OBVIOUS
<1> HIDE DEF a, b
<1> QED BY <1>1, <1>2 DEF PrivateWriters

(* So no pagein for a write is under way where it faults, and none at all  *)
(* where it faults on a write.                                             *)
LEMMA NoLoader ==
  ASSUME PrivateWriters, ThreadAccess, NEW t \in Thread, th[t].pc \in {"access", "fault"}
  PROVE  /\ ~Loader(th[t].page, "write")
         /\ th[t].op = "write" => ~Loader(th[t].page, "read")
<1>1. ASSUME NEW op \in Op, Loader(th[t].page, op), op = "write" \/ th[t].op = "write"
      PROVE  FALSE
  <2>1. PICK u \in Thread : th[u] = [pc |-> "pagein", op |-> op, page |-> th[t].page]
    BY <1>1 DEF Loader
  <2>2. th[u].pc = "pagein" /\ th[u].op = op /\ th[u].page = th[t].page
    BY <2>1, SMTT(30)
  <2> QED BY <1>1, <2>2, Private
<1> QED BY <1>1 DEF Op

(* Thread t moves on; only its own pagein matters to the pages. *)
LEMMA LoaderMoves ==
  ASSUME NEW t \in Thread, NEW x, th' = [th EXCEPT ![t] = x], th \in [Thread -> ThreadRec],
         NEW p \in Page, NEW op \in Op
  PROVE  /\ Loader(p, op)' => Loader(p, op) \/ x = [pc |-> "pagein", op |-> op, page |-> p]
         /\ Loader(p, op) => Loader(p, op)' \/ th[t] = [pc |-> "pagein", op |-> op, page |-> p]
         /\ x = [pc |-> "pagein", op |-> op, page |-> p] => Loader(p, op)'
BY DEF Loader

LEMMA LoadersUnmoved ==
  ASSUME NEW t \in Thread, NEW x, th' = [th EXCEPT ![t] = x], th \in [Thread -> ThreadRec],
         th[t].pc # "pagein", x.pc # "pagein", NEW p \in Page
  PROVE  LoadersKept(p)
<1>1. SUFFICES ASSUME NEW op \in Op PROVE Loader(p, op)' <=> Loader(p, op)
  BY DEF LoadersKept
<1>2. /\ x # [pc |-> "pagein", op |-> op, page |-> p]
      /\ th[t] # [pc |-> "pagein", op |-> op, page |-> p]
  BY SMTT(30)
<1>3. /\ Loader(p, op)' => Loader(p, op) \/ x = [pc |-> "pagein", op |-> op, page |-> p]
      /\ Loader(p, op) => Loader(p, op)' \/ th[t] = [pc |-> "pagein", op |-> op, page |-> p]
  BY DEF Loader
<1> QED BY <1>2, <1>3

(* A thread keeps to its access while it is in one. *)
LEMMA GotoThread ==
  ASSUME NEW t \in Thread, NEW pc \in {"access", "fault", "pagein"}, Goto(t, pc),
         th \in [Thread -> ThreadRec]
  PROVE  /\ th' = [th EXCEPT ![t] = [pc |-> pc, op |-> th[t].op, page |-> th[t].page]]
         /\ th[t].pc # "run" /\ ThreadAccess => ThreadAccess'
<1>1. th' = [th EXCEPT ![t] = [pc |-> pc, op |-> th[t].op, page |-> th[t].page]]
  <2> DEFINE r == th[t]
  <2>1. [r EXCEPT !.pc = pc] = [pc |-> pc, op |-> r.op, page |-> r.page]
    BY SMTT(30) DEF ThreadRec
  <2> QED BY <2>1 DEF Goto
<1>2. ASSUME th[t].pc # "run", ThreadAccess, NEW u \in Thread, th'[u].pc # "run"
      PROVE  <<u, th'[u].op, th'[u].page>> \in Access
  BY <1>1, <1>2 DEF ThreadAccess
<1> QED BY <1>1, <1>2 DEF ThreadAccess

(* No pagein of another page begins or ends with a step of thread t. *)
LEMMA LoadersElsewhere ==
  ASSUME NEW t \in Thread, NEW pc \in {"access", "fault", "pagein"}, Goto(t, pc),
         th \in [Thread -> ThreadRec], NEW p \in Page, p # th[t].page
  PROVE  LoadersKept(p)
<1> DEFINE x == [pc |-> pc, op |-> th[t].op, page |-> th[t].page]
<1>1. th' = [th EXCEPT ![t] = x]
  BY GotoThread
<1>2. ASSUME NEW op \in Op
      PROVE  /\ x # [pc |-> "pagein", op |-> op, page |-> p]
             /\ th[t] # [pc |-> "pagein", op |-> op, page |-> p]
  BY SMTT(30)
<1> HIDE DEF x
<1> QED BY <1>1, <1>2, LoaderMoves DEF LoadersKept

(* A step of a thread on the other pages. *)
LEMMA ThreadElsewhere ==
  ASSUME IInv, NEW t \in Thread, Frame, UNCHANGED disk,
         UNCHANGED th \/ \E pc \in {"access", "fault", "pagein"} : Goto(t, pc),
         NEW p \in Page, p # th[t].page,
         pg'[p] = pg[p], io'[p] = io[p], ram'[p] = ram[p]
  PROVE  Still(p) /\ SnapFrame(p) /\ LoadersKept(p)
<1>1. th \in [Thread -> ThreadRec]
  BY DEF IInv, TInv, TypeOK
<1>2. LoadersKept(p)
  BY <1>1, LoadersElsewhere DEF LoadersKept, Loader
<1> QED BY <1>2, FrameSnap DEF Still

(* The invariant and the view of the memory, from what holds of page p. *)
LEMMA OnePage ==
  ASSUME IInv, IInv', CInv, NEW p \in Page, Frame, ThreadAccess',
         SoundPage(p)', Guarded(p)',
         \A x \in Page \ {p} : Still(x) /\ SnapFrame(x) /\ LoadersKept(x)
  PROVE  CInv' /\ \A x \in Page \ {p} : SameView(x)
<1>1. ASSUME NEW x \in Page \ {p} PROVE SoundPage(x)' /\ Guarded(x)' /\ SameView(x)
  <2>1. SoundPage(x) /\ Guarded(x)
    BY DEF CInv
  <2> QED BY <2>1, StillPage
<1>2. ioerror' = {}
  BY DEF CInv, Frame
<1> QED BY <1>1, <1>2 DEF CInv

(* Executing an instruction that loads, or trapping. *)
LEMMA QuietStep ==
  ASSUME IInv, IInv', CInv, Frame, UNCHANGED <<pg, io, ram, disk>>, ThreadAccess',
         \A p \in Page : LoadersKept(p)
  PROVE  CInv' /\ \A p \in Page : SameView(p)
<1>1. ASSUME NEW p \in Page PROVE SoundPage(p)' /\ Guarded(p)' /\ SameView(p)
  <2>1. SoundPage(p) /\ Guarded(p)
    BY DEF CInv
  <2>2. Still(p) /\ SnapFrame(p) /\ LoadersKept(p)
    BY FrameSnap DEF Still
  <2> QED BY <2>1, <2>2, StillPage
<1>2. ioerror' = {}
  BY DEF CInv, Frame
<1> QED BY <1>1, <1>2 DEF CInv

(* BeginAccess, Fault and the loads. *)
LEMMA BeginKeeps ==
  ASSUME IInv, IInv', CInv, NEW t \in Thread,
         BeginAccess(t) \/ Fault(t) \/ (DoAccess(t) /\ th[t].op = "read")
  PROVE  CInv' /\ \A p \in Page : SameView(p)
<1>0. th \in [Thread -> ThreadRec] /\ ThreadAccess /\ th' \in [Thread -> ThreadRec]
  BY DEF IInv, TInv, TypeOK, CInv
<1>1. UNCHANGED <<pg, io, ram, disk>> /\ Frame
  BY DEF BeginAccess, Fault, DoAccess, Frame
<1>2. PICK x : th' = [th EXCEPT ![t] = x] /\ x.pc # "pagein"
  <2>1. CASE BeginAccess(t)
    BY <2>1 DEF BeginAccess
  <2>2. CASE Fault(t)
    BY <1>0, <2>2, GotoThread, SMTT(30) DEF Fault
  <2>3. CASE DoAccess(t)
    <3>1. Running.pc # "pagein"
      BY DEF Running
    <3> QED BY <2>3, <3>1 DEF DoAccess
  <2> QED BY <2>1, <2>2, <2>3
<1>3. th[t].pc # "pagein"
  BY DEF BeginAccess, Fault, DoAccess
<1>4. \A p \in Page : LoadersKept(p)
  BY <1>0, <1>2, <1>3, LoadersUnmoved
<1>5. ThreadAccess'
  <2>1. CASE BeginAccess(t)
    <3>1. PICK a \in Access :
            a[1] = t /\ th' = [th EXCEPT ![t] = [pc |-> "access", op |-> a[2], page |-> a[3]]]
      BY <2>1 DEF BeginAccess
    <3>2. a = <<t, a[2], a[3]>>
      BY <3>1, AccessAssumption, SMTT(30)
    <3> QED BY <1>0, <3>1, <3>2 DEF ThreadAccess
  <2>2. CASE Fault(t)
    BY <1>0, <2>2, GotoThread DEF Fault
  <2>3. CASE DoAccess(t)
    BY <1>0, <2>3 DEF DoAccess, Running, ThreadAccess
  <2> QED BY <2>1, <2>2, <2>3
<1> QED BY <1>1, <1>4, <1>5, QuietStep

(* A store: the page is dirty, mapped for writing and has its snapshot copy. *)
LEMMA StoreKeeps ==
  ASSUME IInv, IInv', CInv, PrivateWriters, NEW t \in Thread, DoAccess(t), th[t].op = "write"
  PROVE  /\ CInv'
         /\ \E p \in Page, v \in Stored :
              /\ MemVal(p)' = v /\ ShotVal(p)' = ShotVal(p) /\ DurableVal(p)' = DurableVal(p)
              /\ \A x \in Page \ {p} : SameView(x)
<1>0. /\ th \in [Thread -> ThreadRec] /\ ram \in [Page -> Contents] /\ pg \in [Page -> PageRec]
      /\ ThreadAccess /\ io \in [Page -> IoRec]
  BY DEF IInv, TInv, TypeOK, CInv
<1>1. PICK p \in Page : p = th[t].page
  BY <1>0 DEF ThreadRec
<1>2. PICK v \in Stored : ram' = [ram EXCEPT ![p] = v]
  BY <1>1 DEF DoAccess
<1>3. /\ UNCHANGED <<pg, io, disk>> /\ Frame /\ th' = [th EXCEPT ![t] = Running]
      /\ th[t].pc = "access" /\ pg[p].map = "rw"
  BY <1>1 DEF DoAccess, Frame, Permitted
<1>4. \A x \in Page : LoadersKept(x)
  <2>1. Running.pc # "pagein" /\ th[t].pc # "pagein"
    BY <1>3 DEF Running
  <2> QED BY <1>0, <1>3, <2>1, LoadersUnmoved
<1>5. ThreadAccess'
  BY <1>0, <1>3 DEF Running, ThreadAccess
<1>6. SoundPage(p) /\ Guarded(p)
  BY DEF CInv
<1>7. pg[p].phys_mem /\ ~pg[p].phys_protect /\ ~Under(io[p], "pagein")
  BY <1>3, <1>6 DEF SoundPage, Sound, Flags
<1>8. pg[p].phys_dirty /\ ~Under(io[p], "pageout")
  BY <1>0, <1>1, <1>3, <1>6, <1>7, NoLoader DEF Guarded, Writable, SoundPage, Sound, Flags
<1>9. ram'[p] = v
  BY <1>0, <1>2
<1>10. SoundPage(p)'
  BY <1>3, <1>6, <1>7, <1>8 DEF SoundPage, Sound, Under, Saved
<1>11. Guarded(p)'
  BY <1>3, <1>4, <1>6 DEF Guarded, LoadersKept, Op, Frame, Snapping, Kicked
<1>12. MemVal(p)' = v
  BY <1>3, <1>7, <1>9 DEF MemVal, Resident, Loading, Under
<1>13. ShotVal(p)' = ShotVal(p) /\ DurableVal(p)' = DurableVal(p)
  <2>1. ~Snapping(pg[p])
    BY <1>6, <1>7 DEF Guarded, Writable
  <2>2. CopiesKept(p)
    BY <1>3 DEF CopiesKept, CopyVal
  <2> QED BY <1>3, <2>1, <2>2, ShotKept DEF Frame, Making
<1>14. \A x \in Page \ {p} : Still(x) /\ SnapFrame(x) /\ LoadersKept(x)
  BY <1>0, <1>2, <1>3, <1>4, FrameSnap DEF Still
<1>15. CInv' /\ \A x \in Page \ {p} : SameView(x)
  BY <1>3, <1>5, <1>10, <1>11, <1>14, OnePage
<1> QED BY <1>12, <1>13, <1>15

(* Bringing in page r, which is page p up to its snapshot copy. *)
LEMMA PopulateKeeps ==
  ASSUME IInv, IInv', PrivateWriters, ThreadAccess, NEW t \in Thread, NEW p \in Page,
         p = th[t].page, th[t].pc = "fault", SoundPage(p),
         NEW r \in PageRec, NEW prot \in BOOLEAN, th[t].op = IF prot THEN "read" ELSE "write",
         NEW q \in {"clean", "dirty"}, q = IF prot THEN "clean" ELSE "dirty",
         Populate(t, p, r, prot, q), ~r.phys_mem, r.map = "none", r.reclaim_q = "none",
         Source(r) = Source(pg[p]), ~pg[p].phys_mem, Snapping(r) => prot,
         Frame, UNCHANGED disk
  PROVE  /\ SoundPage(p)' /\ Guarded(p)' /\ MemVal(p)' = MemVal(p)
         /\ MemVal(p) = DiskVal(Source(pg[p]))
         /\ SameCopies(pg'[p], r)
         /\ io'[p].st # "idle" => io'[p].cb = "pagein"
         /\ \E pc \in {"access", "pagein"} : Goto(t, pc)
         /\ \A x \in Page \ {p} : pg'[x] = pg[x] /\ io'[x] = io[x] /\ ram'[x] = ram[x]
<1>a. /\ pg \in [Page -> PageRec] /\ io \in [Page -> IoRec] /\ ram \in [Page -> Contents]
      /\ th \in [Thread -> ThreadRec]
  BY DEF IInv, TInv, TypeOK
<1> DEFINE b == Source(r)
           n == [r EXCEPT !.phys_mem = TRUE, !.phys_protect = prot, !.phys_dirty = FALSE]
           z == [n EXCEPT !.phys_dirty = ~prot, !.map = IF prot THEN "ro" ELSE "rw"]
           m == put_on_q(z, q)
<1>1. /\ n.phys_mem /\ n.phys_protect = prot /\ ~n.phys_dirty /\ n.map = r.map
      /\ n.reclaim_q = r.reclaim_q /\ SameCopies(n, r)
  BY DEF PageRec, SameCopies
<1>2. /\ m.phys_mem /\ m.phys_protect = prot /\ m.phys_dirty = ~prot
      /\ m.map = IF prot THEN "ro" ELSE "rw"
      /\ m.reclaim_q = q /\ SameCopies(m, r)
  BY DEF put_on_q, PageRec, SameCopies
<1> HIDE DEF n, m
<1>3. /\ ~InCore(pg[p], io[p]) /\ MemVal(p) = DiskVal(Source(pg[p]))
  <2>1. MemForm
    BY MemIs
  <2> QED BY <2>1 DEF MemForm, InCore
<1>4. ~Loader(p, "write")
  BY NoLoader
<1>5. \A s : DiskVal(s)' = DiskVal(s)
  BY DEF DiskVal
<1>6. MemForm'
  BY MemIs, PTL
<1>7. CASE b = ZeroPage
  <2>1. /\ pg' = [pg EXCEPT ![p] = m] /\ ram' = [ram EXCEPT ![p] = Zero]
        /\ io' = [io EXCEPT ![p] = IdleIo] /\ Goto(t, "access")
    BY <1>7 DEF Populate, Return, m, n
  <2>2. pg'[p] = m /\ ram'[p] = Zero /\ io'[p].st = "idle"
    BY <1>a, <2>1 DEF IdleIo
  <2>3. Source(m) = ZeroPage /\ DiskVal(Source(pg[p])) = Zero /\ DiskVal(Source(m))' = Zero
    BY <1>2, <1>7, SameSource DEF DiskVal
  <2>4. SoundPage(p)'
    BY <1>2, <2>2, <2>3 DEF SoundPage, Sound, Flags, Under
  <2>5. ~Loader(p, "write")'
    <3>1. th' = [th EXCEPT ![t] = [pc |-> "access", op |-> th[t].op, page |-> th[t].page]]
      BY <1>a, <2>1, GotoThread
    <3> QED BY <1>4, <1>a, <3>1 DEF Loader
  <2>6. Guarded(p)'
    BY <1>2, <2>2, <2>5 DEF Guarded, Under, Writable, Snapping, SameCopies, Frame
  <2>7. MemVal(p)' = MemVal(p)
    BY <1>2, <1>3, <1>6, <2>2, <2>3, <2>4, SMTT(30) DEF MemForm, InCore
  <2> QED BY <1>2, <1>3, <1>a, <2>1, <2>2, <2>4, <2>6, <2>7
<1>8. CASE b # ZeroPage
  <2>1. /\ pg' = [pg EXCEPT ![p] = n] /\ ram' = ram
        /\ io' = [io EXCEPT ![p] = NewIo("pagein", b, Junk)] /\ Goto(t, "pagein")
    BY <1>8 DEF Populate, n
  <2>2. /\ pg'[p] = n /\ io'[p].st = "queued" /\ io'[p].cb = "pagein"
        /\ io'[p].disk_page = b
    BY <1>a, <2>1 DEF NewIo
  <2>3. Source(n) = b /\ b = Source(pg[p])
    BY <1>1, SameSource
  <2>4. SoundPage(p)'
    BY <1>1, <2>2, <2>3 DEF SoundPage, Sound, Flags, Under, InCore
  <2>5. th' = [th EXCEPT ![t] = [pc |-> "pagein", op |-> th[t].op, page |-> p]]
    BY <1>a, <2>1, GotoThread
  <2>6. Loader(p, IF prot THEN "read" ELSE "write")' /\ (Loader(p, "write")' => ~prot)
    BY <1>4, <1>a, <2>5 DEF Loader
  <2>7. Guarded(p)'
    <3>1. Snapping(pg[p])' => prot
      BY <1>1, <2>2 DEF Snapping, SameCopies, Frame
    <3>2. Under(io[p], "pagein")' /\ ~Under(io[p], "pageout")'
      BY <2>2 DEF Under
    <3>3. ~Writable(pg[p])' <=> prot
      BY <1>1, <2>2 DEF Writable
    <3>4. ~pg'[p].phys_dirty /\ pg'[p].phys_protect = prot
      BY <1>1, <2>2
    <3>5. Loader(p, IF prot THEN "read" ELSE "write")'
      BY <2>6
    <3>6. CASE prot
      BY <2>6, <3>1, <3>2, <3>3, <3>4, <3>5, <3>6 DEF Guarded
    <3>7. CASE ~prot
      BY <2>6, <3>1, <3>2, <3>3, <3>4, <3>5, <3>7 DEF Guarded
    <3> QED BY <3>6, <3>7
  <2>8. MemVal(p)' = MemVal(p)
    BY <1>3, <1>5, <1>6, <2>2, <2>3, <2>4 DEF MemForm, InCore
  <2> QED BY <1>1, <1>3, <1>a, <2>1, <2>2, <2>4, <2>7, <2>8
<1> QED BY <1>7, <1>8

(* A thread that waits, or returns to its instruction, with no page changed. *)
LEMMA IdleStep ==
  ASSUME IInv, IInv', CInv, NEW t \in Thread, Frame, UNCHANGED <<pg, io, ram, disk>>,
         UNCHANGED th \/ (th[t].pc = "fault" /\ Return(t))
  PROVE  CInv' /\ \A p \in Page : SameView(p)
<1>0. th \in [Thread -> ThreadRec] /\ ThreadAccess
  BY DEF IInv, TInv, TypeOK, CInv
<1>1. CASE UNCHANGED th
  <2>1. ThreadAccess' /\ \A p \in Page : LoadersKept(p)
    BY <1>0, <1>1 DEF ThreadAccess, LoadersKept, Loader
  <2> QED BY <2>1, QuietStep
<1>2. CASE th[t].pc = "fault" /\ Return(t)
  <2>1. /\ th' = [th EXCEPT ![t] = [pc |-> "access", op |-> th[t].op, page |-> th[t].page]]
        /\ ThreadAccess'
    BY <1>0, <1>2, GotoThread DEF Return
  <2>2. \A p \in Page : LoadersKept(p)
    <3> DEFINE x == [pc |-> "access", op |-> th[t].op, page |-> th[t].page]
    <3>1. th' = [th EXCEPT ![t] = x] /\ x.pc # "pagein" /\ th[t].pc # "pagein"
      BY <1>2, <2>1
    <3> HIDE DEF x
    <3> QED BY <1>0, <3>1, LoadersUnmoved
  <2> QED BY <2>1, <2>2, QuietStep
<1> QED BY <1>1, <1>2

(* page_fault_read. *)
LEMMA ReadFaultKeeps ==
  ASSUME IInv, IInv', CInv, PrivateWriters, NEW t \in Thread, page_fault_read(t)
  PROVE  CInv' /\ \A p \in Page : SameView(p)
<1>a. /\ pg \in [Page -> PageRec] /\ th \in [Thread -> ThreadRec] /\ ThreadAccess
  BY DEF IInv, TInv, TypeOK, CInv
<1>0. PICK p \in Page : p = th[t].page
  BY <1>a DEF ThreadRec
<1>1. /\ Frame /\ UNCHANGED disk /\ th[t].pc = "fault" /\ th[t].op = "read"
      /\ SoundPage(p) /\ Guarded(p)
  BY DEF page_fault_read, Frame, InFault, CInv
<1>2. CASE WaitDone(t)
  BY <1>1, <1>2, IdleStep DEF WaitDone
<1>3. CASE Return(t) /\ UNCHANGED <<pg, io, ram>>
  BY <1>1, <1>3, IdleStep
<1>4. CASE ~Busy(p) /\ ~pg[p].phys_mem /\ Populate(t, p, pg[p], TRUE, "clean")
  <2>1. PICK r \in PageRec, prot \in BOOLEAN, q \in {"clean", "dirty"} :
          r = pg[p] /\ prot = TRUE /\ q = "clean"
    BY <1>a
  <2>2. r.map = "none" /\ r.reclaim_q = "none" /\ ~r.phys_mem /\ io[p].st = "idle"
    BY <1>1, <1>4, <2>1 DEF SoundPage, Sound, Flags, Busy
  <2>3. /\ SoundPage(p)' /\ Guarded(p)' /\ MemVal(p)' = MemVal(p)
        /\ SameCopies(pg'[p], r)
        /\ io'[p].st # "idle" => io'[p].cb = "pagein"
        /\ \E pc \in {"access", "pagein"} : Goto(t, pc)
        /\ \A x \in Page \ {p} : pg'[x] = pg[x] /\ io'[x] = io[x] /\ ram'[x] = ram[x]
    BY <1>0, <1>1, <1>4, <1>a, <2>1, <2>2, PopulateKeeps
  <2>4. CopiesKept(p)
    BY <1>1, <2>1, <2>2, <2>3 DEF CopiesKept, CopyVal, SameCopies
  <2>5. SameView(p)
    BY <1>1, <2>3, <2>4, ViewKept DEF Frame, Making
  <2>6. ThreadAccess'
    BY <1>1, <1>a, <2>3, GotoThread
  <2>7. \A x \in Page \ {p} : Still(x) /\ SnapFrame(x) /\ LoadersKept(x)
    BY <1>0, <1>1, <2>3, ThreadElsewhere
  <2> QED BY <1>1, <2>3, <2>5, <2>6, <2>7, OnePage
<1> QED BY <1>0, <1>2, <1>3, <1>4 DEF page_fault_read

(* What a step of thread t in a fault on page p does, and that this is enough. *)
FaultStep(t, p) ==
  /\ SoundPage(p)' /\ Guarded(p)' /\ MemVal(p)' = MemVal(p)
  /\ CopiesKept(p) \/ NowCopied(p)
  /\ \E pc \in {"access", "pagein"} : Goto(t, pc)
  /\ \A x \in Page \ {p} : pg'[x] = pg[x] /\ io'[x] = io[x] /\ ram'[x] = ram[x]

LEMMA FaultStepKeeps ==
  ASSUME IInv, IInv', CInv, NEW t \in Thread, NEW p \in Page, p = th[t].page,
         th[t].pc # "run", Frame, UNCHANGED disk, FaultStep(t, p)
  PROVE  CInv' /\ \A x \in Page : SameView(x)
<1>1. th \in [Thread -> ThreadRec] /\ ThreadAccess
  BY DEF IInv, TInv, TypeOK, CInv
<1>2. SameView(p)
  BY ViewKept DEF Frame, Making, FaultStep
<1>3. PICK pc \in {"access", "pagein"} : Goto(t, pc)
  BY DEF FaultStep
<1>4. ThreadAccess'
  BY <1>1, <1>3, GotoThread
<1>5. \A x \in Page \ {p} : pg'[x] = pg[x] /\ io'[x] = io[x] /\ ram'[x] = ram[x]
  BY DEF FaultStep
<1>6. \A x \in Page \ {p} : Still(x) /\ SnapFrame(x) /\ LoadersKept(x)
  BY <1>3, <1>5, ThreadElsewhere
<1> QED BY <1>2, <1>4, <1>6, OnePage DEF FaultStep

(* The ends of the faults that waited for a pagein. *)
LEMMA PageinDoneKeeps ==
  ASSUME IInv, IInv', CInv, PrivateWriters, NEW t \in Thread, NEW op \in Op, PageinDone(t, op)
  PROVE  CInv' /\ \A p \in Page : SameView(p)
<1>a. /\ pg \in [Page -> PageRec] /\ th \in [Thread -> ThreadRec] /\ ThreadAccess
  BY DEF IInv, TInv, TypeOK, CInv
<1>0. PICK p \in Page : p = th[t].page
  BY <1>a DEF ThreadRec
<1>1. /\ Frame /\ UNCHANGED disk /\ th[t].pc = "pagein" /\ th[t].op = op
      /\ SoundPage(p) /\ Guarded(p)
  BY DEF PageinDone, Frame, InFault, CInv
<1>2. CASE WaitDone(t)
  BY <1>1, <1>2, IdleStep DEF WaitDone
<1>3. CASE ~WaitDone(t)
  <2>1. /\ io[p].st = "idle" /\ Goto(t, "access") /\ UNCHANGED <<io, ram>>
        /\ pg' = IF op = "write" /\ pg[p].phys_mem
                 THEN [pg EXCEPT ![p] = move_to_dirty_q([@ EXCEPT !.phys_dirty = TRUE])]
                 ELSE pg
    BY <1>0, <1>3 DEF PageinDone, Return, Busy
  <2> DEFINE y == [pc |-> "access", op |-> op, page |-> p]
  <2>2. th' = [th EXCEPT ![t] = y]
    BY <1>0, <1>1, <1>a, <2>1, GotoThread
  <2>3. th[t] = [pc |-> "pagein", op |-> op, page |-> p]
    BY <1>0, <1>1, <1>a DEF ThreadRec
  <2>4. /\ Loader(p, "write")' => Loader(p, "write") /\ op # "write"
        /\ op # "write" => (Loader(p, "write") => Loader(p, "write")')
    <3>1. ASSUME Loader(p, "write")' PROVE Loader(p, "write") /\ op # "write"
      <4>1. PICK u \in Thread : th'[u] = [pc |-> "pagein", op |-> "write", page |-> p]
        BY <3>1 DEF Loader
      <4>2. u # t
        BY <1>a, <2>2, <4>1
      <4>3. th[u] = [pc |-> "pagein", op |-> "write", page |-> p]
        BY <1>a, <2>2, <4>1, <4>2
      <4>4. th[u].pc = "pagein" /\ th[u].op = "write" /\ th[u].page = p
        BY <4>3, SMTT(30)
      <4> QED BY <1>0, <1>1, <1>a, <4>2, <4>4, Private
    <3>2. ASSUME op # "write", Loader(p, "write") PROVE Loader(p, "write")'
      BY <1>a, <2>2, <2>3, <3>2, SMTT(30) DEF Loader
    <3> QED BY <3>1, <3>2
  <2>5. \A x \in Page \ {p} : pg'[x] = pg[x] /\ io'[x] = io[x] /\ ram'[x] = ram[x]
    BY <1>a, <2>1
  <2>6. CASE ~(op = "write" /\ pg[p].phys_mem)
    <3>1. pg' = pg
      BY <2>1, <2>6
    <3>2. SoundPage(p)' /\ MemVal(p)' = MemVal(p) /\ CopiesKept(p)
      BY <1>1, <2>1, <3>1
      DEF SoundPage, DiskVal, MemVal, Resident, Loading, BlockVal, CopiesKept, CopyVal
    <3>3. Guarded(p)'
      BY <1>1, <2>1, <2>4, <2>6, <3>1 DEF Guarded, Under, Writable, Snapping, Frame, Kicked
    <3> QED BY <1>0, <1>1, <2>1, <2>5, <3>2, <3>3, FaultStepKeeps DEF FaultStep
  <2>7. CASE op = "write" /\ pg[p].phys_mem
    <3>1. Loader(p, "write")
      BY <2>3, <2>7 DEF Loader
    <3>2. ~pg[p].phys_dirty /\ ~pg[p].phys_protect /\ ~Snapping(pg[p])
      BY <1>1, <2>7, <3>1 DEF Guarded, Writable
    <3>3. pg[p].reclaim_q = "clean" /\ pg[p].map = "rw"
      BY <1>1, <2>1, <2>7, <3>2 DEF SoundPage, Sound, Flags, Under
    <3>4. PICK r \in PageRec : r = pg[p]
      BY <1>a
    <3>5. PICK n : n = pg'[p]
      OBVIOUS
    <3>6. /\ n.phys_mem /\ n.phys_dirty /\ ~n.phys_protect /\ n.map = "rw"
          /\ n.reclaim_q = "dirty" /\ SameCopies(n, r)
      BY <1>a, <2>1, <2>7, <3>2, <3>3, <3>4, <3>5
      DEF move_to_dirty_q, put_on_q, remove_from_q, PageRec, SameCopies
    <3>7. SoundPage(p)'
      BY <2>1, <3>5, <3>6 DEF SoundPage, Sound, Flags, Under, Saved
    <3>8. Guarded(p)'
      BY <1>1, <2>1, <2>4, <2>7, <3>2, <3>4, <3>5, <3>6
      DEF Guarded, Under, Writable, Snapping, Frame, SameCopies
    <3>9. MemVal(p)' = MemVal(p) /\ CopiesKept(p)
      BY <1>1, <2>1, <2>7, <3>4, <3>5, <3>6, SMTT(30)
      DEF MemVal, Resident, Loading, CopiesKept, CopyVal, SameCopies
    <3> QED BY <1>0, <1>1, <2>1, <2>5, <3>7, <3>8, <3>9, FaultStepKeeps DEF FaultStep
  <2> QED BY <2>6, <2>7
<1> QED BY <1>2, <1>3

-----------------------------------------------------------------------------
(* The write fault. *)

(* The snapshot copy of an unchanged page is where it was read from. *)
LEMMA TakeSource ==
  ASSUME NEW r \in PageRec, ~Have(r.make_page)
  PROVE  LET n == TakeDiskCopy(r) IN
         /\ n \in PageRec /\ Have(n.make_page)
         /\ n.make_page = Source(r) /\ Source(n) = Source(r)
         /\ n.phys_mem = r.phys_mem /\ n.phys_dirty = r.phys_dirty
         /\ n.phys_protect = r.phys_protect /\ n.map = r.map /\ n.reclaim_q = r.reclaim_q
BY BlockAssumption DEF TakeDiskCopy, PageRec, Have, Source, BlockRef

(* What page_fault_write finds after its wait loop: the page and its       *)
(* request, idle or writing a copy; a request taken off the disk queue was *)
(* the pageout of a page the snapshot still needs.                         *)
AfterWait(p, r, q) ==
  /\ r \in PageRec /\ SameCopies(r, pg[p])
  /\ r.phys_mem = pg[p].phys_mem /\ r.phys_dirty = pg[p].phys_dirty
  /\ r.phys_protect = pg[p].phys_protect /\ r.map = pg[p].map
  /\ Flags(r, q)
  /\ \/ q = io[p] /\ (Busy(p) => io[p].cb = "cow")
     \/ /\ q = IdleIo /\ Under(io[p], "pageout")
        /\ Snapping(r) /\ r.phys_dirty /\ r.phys_protect

LEMMA AfterWaitFacts ==
  ASSUME IInv, NEW p \in Page, SoundPage(p), Guarded(p), ~Loader(p, "write"),
         NEW r, NEW q, AfterWait(p, r, q)
  PROVE  /\ MemVal(p) = IF r.phys_mem THEN ram[p] ELSE DiskVal(Source(r))
         /\ r.phys_mem /\ ~r.phys_dirty => ram[p] = DiskVal(Source(r))
         /\ Writable(r) => r.phys_dirty /\ ~Snapping(r)
         /\ r.phys_mem /\ ~Writable(r) => q.st = "idle" /\ (r.phys_dirty => Snapping(r))
         /\ ~r.phys_mem => q.st = "idle" /\ q = io[p]
         /\ q.st # "idle" => q.cb = "cow"
         /\ Snapping(r) <=> Snapping(pg[p])
         /\ \A b : CopyVal(io[p], b) = CopyVal(q, b)
<1>1. Source(r) = Source(pg[p])
  BY SameSource DEF AfterWait
<1>2. MemForm
  BY MemIs
<1>3. Snapping(r) <=> Snapping(pg[p])
  BY DEF Snapping, AfterWait, SameCopies
<1>4. Writable(r) <=> Writable(pg[p])
  BY DEF Writable, AfterWait
<1>5. q.st # "idle" => q.cb = "cow"
  BY SMTT(30) DEF AfterWait, Busy, IdleIo
<1>6. ~Under(io[p], "pagein")
  BY DEF AfterWait, Busy, Under
<1>7. InCore(pg[p], io[p]) <=> r.phys_mem
  BY <1>6 DEF AfterWait, InCore, Under
<1>8. MemVal(p) = IF r.phys_mem THEN ram[p] ELSE DiskVal(Source(r))
  BY <1>1, <1>2, <1>7 DEF MemForm
<1>9. r.phys_mem /\ ~r.phys_dirty => ram[p] = DiskVal(Source(r))
  BY <1>1, <1>7 DEF AfterWait, SoundPage, Sound, Saved
<1>10. Writable(r) => r.phys_dirty /\ ~Snapping(r)
  BY <1>3, <1>4 DEF Guarded, AfterWait
<1>11. r.phys_mem /\ ~Writable(r) => q.st = "idle" /\ (r.phys_dirty => Snapping(r))
  BY <1>3, <1>5 DEF AfterWait, Flags, Under, Writable, Guarded, Busy
<1>12. ~r.phys_mem => q.st = "idle" /\ q = io[p]
  BY DEF AfterWait, Flags
<1>13. \A b : CopyVal(io[p], b) = CopyVal(q, b)
  BY SMTT(30) DEF AfterWait, CopyVal, Under, IdleIo
<1> QED BY <1>3, <1>5, <1>8, <1>9, <1>10, <1>11, <1>12, <1>13

(* The parts of Guarded for a page no pagein of a writing thread waits for. *)
LEMMA GuardedNow ==
  ASSUME NEW p \in Page, ~Loader(p, "write")', io'[p].st # "idle" => io'[p].cb = "cow",
         Writable(pg[p])' => pg'[p].phys_dirty /\ ~Snapping(pg[p])',
         pg'[p].phys_dirty /\ pg'[p].phys_protect => FALSE,
         pg'[p].phys_dirty => pg'[p].phys_mem
  PROVE  Guarded(p)'
<1>1. ~Under(io[p], "pagein")' /\ ~Under(io[p], "pageout")'
  BY DEF Under
<1>2. pg'[p].phys_dirty => Writable(pg[p])'
  BY DEF Writable
<1> QED BY <1>1, <1>2 DEF Guarded

(* page_fault_write after its wait loop. *)
LEMMA WriteFaultKeeps ==
  ASSUME IInv, IInv', PrivateWriters, ThreadAccess, NEW t \in Thread, NEW p \in Page,
         p = th[t].page, th[t].pc = "fault", th[t].op = "write", SoundPage(p), Guarded(p),
         NEW r, NEW q, AfterWait(p, r, q), WriteFault(t, p, r, q), Frame, UNCHANGED disk
  PROVE  FaultStep(t, p)
<1>a. /\ pg \in [Page -> PageRec] /\ io \in [Page -> IoRec] /\ th \in [Thread -> ThreadRec]
      /\ free \in SUBSET Block /\ ram \in [Page -> Contents]
  BY DEF IInv, TInv, TypeOK
<1>b. /\ MemVal(p) = IF r.phys_mem THEN ram[p] ELSE DiskVal(Source(r))
      /\ r.phys_mem /\ ~r.phys_dirty => ram[p] = DiskVal(Source(r))
      /\ Writable(r) => r.phys_dirty /\ ~Snapping(r)
      /\ r.phys_mem /\ ~Writable(r) => q.st = "idle" /\ (r.phys_dirty => Snapping(r))
      /\ ~r.phys_mem => q.st = "idle" /\ q = io[p]
      /\ q.st # "idle" => q.cb = "cow"
      /\ Snapping(r) <=> Snapping(pg[p])
      /\ \A b : CopyVal(io[p], b) = CopyVal(q, b)
  <2>1. ~Loader(p, "write")
    BY NoLoader
  <2> QED BY <2>1, AfterWaitFacts, SMTT(30)
<1>c. r \in PageRec /\ SameCopies(r, pg[p]) /\ Flags(r, q) /\ r.phys_mem = pg[p].phys_mem
  BY DEF AfterWait
<1>d. Goto(t, "access") => ~Loader(p, "write")'
  <2>1. SUFFICES ASSUME Goto(t, "access") PROVE ~Loader(p, "write")'
    OBVIOUS
  <2>2. th' = [th EXCEPT ![t] = [pc |-> "access", op |-> th[t].op, page |-> th[t].page]]
    BY <1>a, <2>1, GotoThread
  <2>3. ~Loader(p, "write")
    BY NoLoader
  <2> QED BY <1>a, <2>2, <2>3 DEF Loader
<1>e. ASSUME NEW n, pg' = [pg EXCEPT ![p] = n], NEW z, io' = [io EXCEPT ![p] = z],
             UNCHANGED ram \/ \E v : ram' = [ram EXCEPT ![p] = v]
      PROVE  /\ pg'[p] = n /\ io'[p] = z
             /\ \A x \in Page \ {p} : pg'[x] = pg[x] /\ io'[x] = io[x] /\ ram'[x] = ram[x]
  BY <1>a, <1>e
<1>f. MemForm'
  BY MemIs, PTL
<1>1. CASE Writable(r)
  <2>1. pg' = [pg EXCEPT ![p] = r] /\ io' = [io EXCEPT ![p] = q] /\ Goto(t, "access") /\ ram' = ram
    BY <1>1, <1>b DEF WriteFault, Return
  <2>2. /\ pg'[p] = r /\ io'[p] = q
        /\ \A x \in Page \ {p} : pg'[x] = pg[x] /\ io'[x] = io[x] /\ ram'[x] = ram[x]
    BY <1>e, <2>1
  <2>3. SoundPage(p)'
    BY <1>1, <1>b, <1>c, <2>2 DEF SoundPage, Sound, Saved, Flags, Under, Writable
  <2>4. r.phys_mem /\ ~r.phys_protect /\ r.phys_dirty /\ ~Snapping(r) /\ ~Snapping(pg[p])'
    BY <1>1, <1>b, <2>2 DEF Writable, Snapping, Frame
  <2>5. Guarded(p)'
    BY <1>b, <1>d, <2>1, <2>2, <2>4, GuardedNow
  <2>6. MemVal(p)' = MemVal(p)
    BY <1>b, <1>f, <2>1, <2>2, <2>3, <2>4 DEF MemForm, InCore
  <2>7. CopiesKept(p)
    <3>1. /\ CopyVal(io[p], pg[p].make_page)' = CopyVal(q, r.make_page)
          /\ CopyVal(io[p], pg[p].prev_page)' = CopyVal(q, r.prev_page)
      BY <2>2 DEF CopyVal
    <3> QED BY <1>b, <1>c, <2>2, <3>1, SMTT(30) DEF CopiesKept, SameCopies
  <2> QED BY <2>1, <2>2, <2>3, <2>5, <2>6, <2>7 DEF FaultStep
<1>2. CASE ~Writable(r) /\ NeedsCopy(r)
  <2>1. CopyOnWrite(t, p, r)
    BY <1>2 DEF WriteFault
  <2>2. PICK b \in Block :
          /\ pg' = [pg EXCEPT ![p] = [r EXCEPT !.make_page = b, !.curr_page = NoPage,
                                      !.phys_protect = FALSE, !.map = "rw"]]
          /\ io' = [io EXCEPT ![p] = NewIo("cow", b, ram[p])]
    BY <1>a, <1>c, <2>1, CandidatesAssumption DEF CopyOnWrite, PageRec, Have
  <2>3. PICK n : n = [r EXCEPT !.make_page = b, !.curr_page = NoPage,
                               !.phys_protect = FALSE, !.map = "rw"]
    OBVIOUS
  <2>4. PICK z : z = NewIo("cow", b, ram[p])
    OBVIOUS
  <2>5. /\ pg'[p] = n /\ io'[p] = z /\ Goto(t, "access") /\ ram' = ram
        /\ \A x \in Page \ {p} : pg'[x] = pg[x] /\ io'[x] = io[x] /\ ram'[x] = ram[x]
    BY <1>e, <2>1, <2>2, <2>3, <2>4 DEF CopyOnWrite, Return
  <2>6. z.st = "queued" /\ z.cb = "cow" /\ z.disk_page = b /\ z.copy = ram[p]
    BY <2>4 DEF NewIo
  <2>7. r.phys_mem /\ r.phys_dirty /\ Snapping(r) /\ r.reclaim_q = "dirty"
    BY <1>2, <1>b, <1>c DEF NeedsCopy, Flags, Under
  <2>8. /\ n.phys_mem /\ n.phys_dirty /\ ~n.phys_protect /\ n.map = "rw"
        /\ n.reclaim_q = "dirty" /\ n.make_page = b
    BY <1>c, <2>3, <2>7 DEF PageRec
  <2>9. Have(b) /\ b # ZeroPage
    BY BlockAssumption DEF Have
  <2>10. SoundPage(p)'
    BY <2>5, <2>6, <2>8 DEF SoundPage, Sound, Flags, Under, Saved
  <2>11. Guarded(p)'
    <3>1. ~Snapping(pg[p])'
      BY <2>5, <2>8, <2>9 DEF Snapping
    <3> QED BY <1>d, <2>5, <2>6, <2>8, <3>1, GuardedNow
  <2>12. MemVal(p)' = MemVal(p)
    BY <1>b, <1>f, <2>5, <2>6, <2>7, <2>8, <2>10 DEF MemForm, InCore
  <2>13. NowCopied(p)
    BY <1>b, <2>5, <2>6, <2>7, <2>8, <2>9, SMTT(30) DEF NowCopied, CopyVal
  <2> QED BY <2>5, <2>10, <2>11, <2>12, <2>13 DEF FaultStep
<1>3. CASE ~Writable(r) /\ ~NeedsCopy(r)
  <2>1. PICK a : a = IF Snapping(r) THEN TakeDiskCopy(r) ELSE r
    OBVIOUS
  <2>2. /\ a \in PageRec /\ Source(a) = Source(r)
        /\ a.phys_mem = r.phys_mem /\ a.phys_dirty = r.phys_dirty
        /\ a.phys_protect = r.phys_protect /\ a.map = r.map /\ a.reclaim_q = r.reclaim_q
        /\ ~Snapping(a)
        /\ Snapping(r) => Have(a.make_page) /\ a.make_page = Source(r)
    BY <1>c, <2>1, TakeSource DEF Snapping
  <2>3. ~Snapping(r) => a = r
    BY <2>1
  <2>4. r.phys_mem => ~r.phys_dirty /\ r.reclaim_q = "clean" /\ q.st = "idle"
    BY <1>3, <1>b, <1>c DEF NeedsCopy, Flags, Under
  <2>5. q.st = "idle"
    BY <1>b, <2>4
  <2>6. MemVal(p) = DiskVal(Source(r))
    BY <1>b, <2>4
  <2>7. \A b : CopyVal(io[p], b) = DiskVal(b)
    BY <1>b, <2>5 DEF CopyVal, DiskVal
  <2>8. ASSUME SameCopies(pg'[p], a), io'[p].st # "idle" => io'[p].cb = "pagein"
        PROVE  CopiesKept(p) \/ NowCopied(p)
    <3>2. /\ CopyVal(io[p], pg[p].make_page)' = DiskVal(pg'[p].make_page)
          /\ CopyVal(io[p], pg[p].prev_page)' = DiskVal(pg'[p].prev_page)
      BY <2>8 DEF CopyVal, DiskVal
    <3>3. CASE Snapping(r)
      BY <1>b, <2>2, <2>6, <2>8, <3>2, <3>3 DEF NowCopied, SameCopies
    <3>4. CASE ~Snapping(r)
      BY <1>c, <2>3, <2>7, <2>8, <3>2, <3>4, ZenonT(30) DEF CopiesKept, SameCopies
    <3> QED BY <3>3, <3>4
  <2>9. CASE r.phys_mem
    <3>1. PICK n : n = move_to_dirty_q([a EXCEPT !.phys_protect = FALSE,
                                       !.phys_dirty = TRUE, !.map = "rw"])
      OBVIOUS
    <3>2. /\ pg' = [pg EXCEPT ![p] = n] /\ io' = [io EXCEPT ![p] = q]
          /\ Goto(t, "access") /\ ram' = ram
      BY <1>3, <2>1, <2>2, <2>9, <3>1 DEF WriteFault, Return
    <3>3. /\ pg'[p] = n /\ io'[p] = q
          /\ \A x \in Page \ {p} : pg'[x] = pg[x] /\ io'[x] = io[x] /\ ram'[x] = ram[x]
      BY <1>e, <3>2
    <3>4. /\ n.phys_mem /\ n.phys_dirty /\ ~n.phys_protect /\ n.map = "rw"
          /\ n.reclaim_q = "dirty" /\ SameCopies(n, a)
      BY <2>2, <2>4, <2>9, <3>1
      DEF move_to_dirty_q, put_on_q, remove_from_q, PageRec, SameCopies
    <3>5. SoundPage(p)'
      BY <2>5, <3>3, <3>4 DEF SoundPage, Sound, Flags, Under, Saved
    <3>6. Guarded(p)'
      <4>1. ~Snapping(pg[p])'
        BY <2>2, <3>3, <3>4 DEF Snapping, SameCopies, Frame
      <4> QED BY <1>d, <2>5, <3>2, <3>3, <3>4, <4>1, GuardedNow
    <3>7. MemVal(p)' = MemVal(p)
      BY <1>b, <1>f, <2>5, <2>9, <3>2, <3>3, <3>4, <3>5 DEF MemForm, InCore
    <3>8. CopiesKept(p) \/ NowCopied(p)
      BY <2>5, <2>8, <3>3, <3>4
    <3> QED BY <3>2, <3>3, <3>5, <3>6, <3>7, <3>8 DEF FaultStep
  <2>10. CASE ~r.phys_mem
    <3>1. PICK prot \in BOOLEAN, w \in {"clean", "dirty"} : prot = FALSE /\ w = "dirty"
      OBVIOUS
    <3>2. Populate(t, p, a, prot, w)
      BY <1>3, <2>1, <2>2, <2>10, <3>1 DEF WriteFault
    <3>3. a.map = "none" /\ a.reclaim_q = "none" /\ ~a.phys_mem /\ ~pg[p].phys_mem
      BY <1>c, <2>2, <2>10 DEF Flags
    <3>4. Source(a) = Source(pg[p])
      BY <1>c, <2>2, SameSource
    <3>5. /\ SoundPage(p)' /\ Guarded(p)' /\ MemVal(p)' = MemVal(p)
          /\ SameCopies(pg'[p], a)
          /\ io'[p].st # "idle" => io'[p].cb = "pagein"
          /\ \E pc \in {"access", "pagein"} : Goto(t, pc)
          /\ \A x \in Page \ {p} : pg'[x] = pg[x] /\ io'[x] = io[x] /\ ram'[x] = ram[x]
      BY <2>2, <3>1, <3>2, <3>3, <3>4, PopulateKeeps
    <3> QED BY <2>8, <3>5 DEF FaultStep
  <2> QED BY <2>9, <2>10
<1> QED BY <1>1, <1>2, <1>3

LEMMA WriteKeeps ==
  ASSUME IInv, IInv', CInv, PrivateWriters, NEW t \in Thread, page_fault_write(t)
  PROVE  CInv' /\ \A p \in Page : SameView(p)
<1>a. /\ pg \in [Page -> PageRec] /\ io \in [Page -> IoRec] /\ th \in [Thread -> ThreadRec]
      /\ ThreadAccess /\ IoHasTarget
  BY DEF IInv, TInv, TypeOK, CInv
<1>0. PICK p \in Page : p = th[t].page
  BY <1>a DEF ThreadRec
<1>1. /\ Frame /\ UNCHANGED disk /\ th[t].pc = "fault" /\ th[t].op = "write"
      /\ SoundPage(p) /\ Guarded(p)
  BY DEF page_fault_write, Frame, InFault, CInv
<1>2. ASSUME NEW r, NEW q, AfterWait(p, r, q), WriteFault(t, p, r, q)
      PROVE  CInv' /\ \A x \in Page : SameView(x)
  <2>1. FaultStep(t, p)
    BY <1>0, <1>1, <1>2, <1>a, WriteFaultKeeps
  <2> QED BY <1>0, <1>1, <2>1, FaultStepKeeps
<1>3. CASE WaitDone(t)
  BY <1>1, <1>3, IdleStep DEF WaitDone
<1> DEFINE n == put_on_q(pg[p], IF pg[p].phys_dirty THEN "dirty" ELSE "clean")
<1>4. CASE UnderIo(p) /\ io[p].st = "queued" /\ Snapping(pg[p]) /\ WriteFault(t, p, n, IdleIo)
  <2>1. ~Under(io[p], "pagein")
    <3>1. ~Loader(p, "write") /\ ~Loader(p, "read")
      BY <1>0, <1>1, <1>a, NoLoader
    <3> QED BY <1>1, <3>1 DEF Guarded
  <2>2. Under(io[p], "pageout")
    BY <1>4, <1>a, <2>1 DEF UnderIo, Busy, Under, IoHasTarget, IoRec
  <2>3. /\ pg[p].phys_dirty /\ pg[p].phys_protect /\ pg[p].phys_mem
        /\ pg[p].reclaim_q = "none" /\ pg[p].map = "ro"
    BY <1>1, <2>2 DEF SoundPage, Sound, Flags, Under
  <2>4. PICK r \in PageRec : r = pg[p]
    BY <1>a
  <2>5. PICK m : m = n
    OBVIOUS
  <2>6. /\ m \in PageRec /\ SameCopies(m, r) /\ m.phys_mem /\ m.phys_dirty /\ m.phys_protect
        /\ m.map = "ro" /\ m.reclaim_q = "dirty"
    BY <2>3, <2>4, <2>5 DEF put_on_q, PageRec, SameCopies
  <2>7. Flags(m, IdleIo)
    BY <2>6 DEF Flags, Under, IdleIo
  <2>8. AfterWait(p, m, IdleIo)
    BY <1>4, <2>2, <2>3, <2>4, <2>6, <2>7 DEF AfterWait, Snapping, SameCopies
  <2> QED BY <1>2, <1>4, <2>5, <2>8
<1>5. CASE ~UnderIo(p) /\ WriteFault(t, p, pg[p], io[p])
  <2>1. AfterWait(p, pg[p], io[p])
    BY <1>1, <1>5, <1>a DEF AfterWait, SameCopies, SoundPage, Sound, UnderIo
  <2> QED BY <1>2, <1>5, <2>1
<1> QED BY <1>0, <1>3, <1>4, <1>5 DEF page_fault_write

-----------------------------------------------------------------------------
(* The steps of the pager, of memory reclaim and of the lazy pageout thread. *)

LEMMA SameThreads ==
  ASSUME CInv, UNCHANGED th
  PROVE  ThreadAccess' /\ \A p \in Page : LoadersKept(p)
BY DEF CInv, ThreadAccess, LoadersKept, Loader

(* No transfer may fail. *)
NoFailures == MaxIoErrors = Cardinality({})

LEMMA PagerKeeps ==
  ASSUME IInv, IInv', CInv, NEW p \in Page, NoFailures,
         PagerStep(p) \/ physmem_try_to_reclaim_page(p)
  PROVE  CInv' /\ \A x \in Page : SameView(x)
<1>a. /\ pg \in [Page -> PageRec] /\ io \in [Page -> IoRec] /\ ram \in [Page -> Contents]
      /\ SoundPage(p) /\ Guarded(p)
  BY DEF IInv, TInv, TypeOK, CInv
<1>1. ~TransferError(p)
  BY BoundAssumption, SMTT(30) DEF NoFailures, TransferError, CInv
<1>2. SoundPage(p)' /\ Guarded(p)' /\ SameView(p)
  BY <1>1, <1>a, TransferKeeps, PageoutDoneKeeps, CopyDoneKeeps, PageinKeeps, ReclaimKeeps
  DEF PagerStep
<1>3. Frame /\ UNCHANGED th
  BY <1>1 DEF PagerStep, Transfer, pageout_callback, snapper_COW_callback, pagein_callback,
              physmem_try_to_reclaim_page, Frame
<1>4. ASSUME NEW x \in Page \ {p} PROVE Still(x) /\ SnapFrame(x)
  <2>1. SnapFrame(x)
    BY <1>3, FrameSnap
  <2>2. CASE Transfer(p)
    BY <2>1, <2>2, TransferElsewhere
  <2>3. CASE ~Transfer(p)
    <3>1. /\ disk' = disk /\ pg'[x] = pg[x] /\ io'[x] = io[x] /\ ram'[x] = ram[x]
      BY <1>1, <1>a, <2>3 DEF PagerStep, pageout_callback, snapper_COW_callback,
                              pagein_callback, physmem_try_to_reclaim_page
    <3> QED BY <2>1, <3>1 DEF Still
  <2> QED BY <2>2, <2>3
<1>5. ThreadAccess' /\ \A x \in Page : LoadersKept(x)
  BY <1>3, SameThreads
<1> QED BY <1>2, <1>3, <1>4, <1>5, OnePage

(* A walk or the lazy pageout thread asks for the pageout of page p. *)
LEMMA PageoutStep ==
  ASSUME IInv, IInv', CInv, NEW p \in Page, vm_page_req_pageout(p),
         UNCHANGED <<ram, disk, th, is_in_snapshot_process, last_snap, ioerror>>,
         Making' = Making, \A x \in Page : Kicked(x)' => Kicked(x) \/ x = p
  PROVE  CInv' /\ \A x \in Page : SameView(x)
<1>a. pg \in [Page -> PageRec] /\ io \in [Page -> IoRec] /\ SoundPage(p) /\ Guarded(p)
  BY DEF IInv, TInv, TypeOK, CInv
<1>1. SoundPage(p)' /\ Guarded(p)' /\ SameView(p)
  BY <1>a, PageoutKeeps
<1>2. ThreadAccess' /\ \A x \in Page : LoadersKept(x)
  BY SameThreads
<1>3. ASSUME NEW x \in Page \ {p} PROVE SoundPage(x)' /\ Guarded(x)' /\ SameView(x)
  <2>1. pg'[x] = pg[x] /\ io'[x] = io[x]
    BY <1>a DEF vm_page_req_pageout
  <2>2. Still(x) /\ SnapFrame(x)
    BY <2>1 DEF Still, SnapFrame
  <2>3. SoundPage(x) /\ Guarded(x)
    BY DEF CInv
  <2> QED BY <1>2, <2>2, <2>3, StillPage
<1>4. ioerror' = {}
  BY DEF CInv
<1> QED BY <1>1, <1>2, <1>3, <1>4 DEF CInv

LEMMA LazyKeeps ==
  ASSUME IInv, IInv', CInv, LazyStep
  PROVE  CInv' /\ \A x \in Page : SameView(x)
<1>1. CASE \E p \in Page : LazyPick(p)
  <2>1. Frame /\ UNCHANGED <<pg, io, ram, disk, th>>
    BY <1>1 DEF LazyPick, Frame
  <2> QED BY <2>1, SameThreads, QuietStep
<1>2. CASE LazyPageout
  <2>1. lazy \in Page
    BY <1>2 DEF LazyPageout, IInv, TInv, TypeOK
  <2>2. PICK p \in Page : p = lazy
    BY <2>1
  <2>3. /\ UNCHANGED <<ram, disk, th, is_in_snapshot_process, last_snap, ioerror, snap>>
        /\ vm_page_req_pageout(p)
    BY <1>2, <2>2 DEF LazyPageout
  <2>4. Making' = Making /\ \A x \in Page : Kicked(x)' => Kicked(x)
    BY <2>3 DEF Making, Kicked
  <2> QED BY <2>3, <2>4, PageoutStep
<1> QED BY <1>1, <1>2 DEF LazyStep

-----------------------------------------------------------------------------
(* The snapshot thread. *)

(* A step of do_snapshot that works on no page. *)
LEMMA StillStep ==
  ASSUME IInv, IInv', CInv, Making' = Making, \A x \in Page : Kicked(x)' => Kicked(x),
         UNCHANGED <<pg, io, ram, disk, th, is_in_snapshot_process, last_snap, ioerror>>
  PROVE  CInv' /\ \A x \in Page : SameView(x)
<1>1. ASSUME NEW x \in Page PROVE SoundPage(x)' /\ Guarded(x)' /\ SameView(x)
  <2>1. Still(x) /\ SnapFrame(x) /\ LoadersKept(x)
    BY SameThreads DEF Still, SnapFrame
  <2>2. SoundPage(x) /\ Guarded(x)
    BY DEF CInv
  <2> QED BY <2>1, <2>2, StillPage
<1> QED BY <1>1, SameThreads DEF CInv

LEMMA StartKeeps ==
  ASSUME IInv, IInv', CInv, StartSnapshot \/ wait_commit_snap
  PROVE  CInv' /\ \A x \in Page : SameView(x)
<1>1. UNCHANGED <<pg, io, ram, disk, th, is_in_snapshot_process, last_snap, ioerror>>
  BY DEF StartSnapshot, wait_commit_snap
<1>0. snap \in [pc : SnapPc, at : Page]
  BY DEF IInv, TInv, TypeOK
<1>2. \/ snap.pc = "idle" /\ snap'.pc = "kick1"
      \/ snap.pc \in {"commit", "cwait"} /\ snap'.pc \in {"commit", "cwait", "super"}
  <2>1. CASE StartSnapshot
    BY <2>1 DEF StartSnapshot, At
  <2>2. CASE wait_commit_snap
    BY <1>0, <2>2, SMTT(30) DEF wait_commit_snap, At, Walk, SnapperWait
  <2> QED BY <2>1, <2>2
<1>3. Making' = Making /\ \A x \in Page : ~Kicked(x)'
  BY <1>2 DEF Making, Kicked
<1> QED BY <1>1, <1>3, StillStep

(* kick_pageout leaves no dirty page behind that is not being written. *)
LEMMA KickKeeps ==
  ASSUME IInv, IInv', CInv, kick_pageout("kick1", "stop") \/ kick_pageout("kick2", "final")
  PROVE  CInv' /\ \A x \in Page : SameView(x)
<1>1. snap \in [pc : SnapPc, at : Page]
  BY DEF IInv, TInv, TypeOK
<1>2. PICK p \in Page : p = snap.at
  BY <1>1
<1>3. /\ UNCHANGED <<ram, disk, th, is_in_snapshot_process, last_snap, ioerror>>
      /\ vm_page_req_pageout(p)
  BY <1>2 DEF kick_pageout
<1>4. \/ snap.pc = "kick1" /\ snap'.pc \in {"kick1", "stop"}
      \/ /\ snap.pc = "kick2"
         /\ \/ snap'.pc = "kick2" /\ snap'.at = p + 1
            \/ snap'.pc = "final" /\ p = NumPages
  BY <1>1, <1>2, SMTT(30) DEF kick_pageout, At, Walk, Last
<1>5. Making' = Making
  BY <1>4 DEF Making
<1>6. ASSUME NEW x \in Page, Kicked(x)' PROVE Kicked(x) \/ x = p
  BY <1>2, <1>4, <1>6, NumPagesAssumption, SMTT(30) DEF Kicked, Page
<1> QED BY <1>3, <1>5, <1>6, PageoutStep

(* save_snap writes the page's block number, and starts the next pageout. *)
LEMMA SaveKeeps ==
  ASSUME IInv, IInv', CInv, SaveToList
  PROVE  CInv' /\ \A x \in Page : SameView(x)
<1>1. snap \in [pc : SnapPc, at : Page]
  BY DEF IInv, TInv, TypeOK
<1>2. PICK p \in Page : p = snap.at
  BY <1>1
<1>3. /\ UNCHANGED <<ram, disk, th, is_in_snapshot_process, last_snap, ioerror>>
      /\ UNCHANGED <<pg, io>> \/ vm_page_req_pageout(p)
      /\ snap.pc = "save" /\ snap'.pc = "move"
  BY <1>1, <1>2 DEF SaveToList, At
<1>4. Making' = Making /\ \A x \in Page : ~Kicked(x)'
  BY <1>3 DEF Making, Kicked
<1> QED BY <1>3, <1>4, PageoutStep, StillStep

(* finalize_snap: the page's disk copy, which its memory equals, is taken. *)
LEMMA FinalizeKeeps ==
  ASSUME IInv, IInv', CInv, finalize_snap
  PROVE  CInv' /\ \A x \in Page : SameView(x)
<1>a. /\ pg \in [Page -> PageRec] /\ io \in [Page -> IoRec]
      /\ snap \in [pc : SnapPc, at : Page]
  BY DEF IInv, TInv, TypeOK
<1>b. PICK p \in Page : p = snap.at
  BY <1>a
<1>1. /\ UNCHANGED <<io, ram, disk, th, last_snap, ioerror>>
      /\ snap.pc \in {"final", "fwait"} /\ snap'.pc \in {"final", "fwait", "save"}
  BY <1>a, SMTT(30) DEF finalize_snap, At, SnapperWait, Walk
<1>2. /\ Making' = Making /\ Making /\ is_in_snapshot_process
      /\ \A x \in Page : Kicked(x)
  BY <1>1 DEF Making, Kicked, IInv, Phase, PhaseGlobal
<1>3. CASE UNCHANGED <<pg, is_in_snapshot_process>>
  BY <1>1, <1>2, <1>3, StillStep
<1>4. CASE ~UNCHANGED <<pg, is_in_snapshot_process>>
  <2>1. /\ Have(pg[p].make_page) \/ ~Busy(p)
        /\ pg' = [pg EXCEPT ![p] = IF Have(@.make_page) THEN @ ELSE TakeDiskCopy(@)]
        /\ is_in_snapshot_process' = ~Last
    BY <1>4, <1>b DEF finalize_snap
  <2>2. pg'[p] = IF Have(pg[p].make_page) THEN pg[p] ELSE TakeDiskCopy(pg[p])
    BY <1>a, <2>1
  <2>3. PICK r \in PageRec : r = pg[p]
    BY <1>a
  <2>4. Have(pg'[p].make_page)
    BY <2>2, <2>3, TakeSource
  <2>5. ASSUME NEW x \in Page, Last PROVE Have(pg'[x].make_page)
    <3>1. x = p \/ x < p
      BY <1>b, <2>5, NumPagesAssumption, SMTT(30) DEF Last, Page
    <3>2. x < p => Have(pg[x].make_page) /\ pg'[x] = pg[x]
      BY <1>1, <1>a, <1>b, <2>1 DEF IInv, Phase, PhasePage, Page
    <3> QED BY <2>4, <3>1, <3>2
  <2>6. ASSUME NEW x \in Page PROVE SnapFrame(x)
    BY <1>1, <1>2, <2>1, <2>5 DEF SnapFrame
  <2>7. ThreadAccess' /\ \A x \in Page : LoadersKept(x)
    BY <1>1, SameThreads
  <2>8. ASSUME NEW x \in Page, pg'[x] = pg[x] PROVE SoundPage(x)' /\ Guarded(x)' /\ SameView(x)
    <3>1. Still(x)
      BY <1>1, <2>8 DEF Still
    <3>2. SoundPage(x) /\ Guarded(x)
      BY DEF CInv
    <3> QED BY <2>6, <2>7, <3>1, <3>2, StillPage
  <2>9. ASSUME ~Have(r.make_page) PROVE SoundPage(p)' /\ Guarded(p)' /\ SameView(p)
    <3>0. SoundPage(p) /\ Guarded(p)
      BY DEF CInv
    <3>1. io[p].st = "idle" /\ Snapping(r)
      BY <1>2, <2>1, <2>3, <2>9 DEF Busy, Snapping
    <3>2. ~r.phys_dirty /\ ~Writable(r)
      BY <1>2, <2>3, <3>0, <3>1 DEF Guarded, Under
    <3>3. PICK n : n = pg'[p]
      OBVIOUS
    <3>4. n = TakeDiskCopy(r)
      BY <2>2, <2>3, <2>9, <3>3
    <3>5. /\ n.make_page = Source(r) /\ Source(n) = Source(r)
          /\ n.phys_mem = r.phys_mem /\ n.phys_dirty = r.phys_dirty
          /\ n.phys_protect = r.phys_protect /\ n.map = r.map /\ n.reclaim_q = r.reclaim_q
      BY <2>9, <3>4, TakeSource
    <3>6. SoundPage(p)'
      BY <1>1, <2>3, <3>0, <3>1, <3>3, <3>5
      DEF SoundPage, Sound, Flags, Under, InCore, Saved, DiskVal
    <3>7. Loader(p, "write")' <=> Loader(p, "write")
      BY <2>7 DEF LoadersKept, Op
    <3>8. Guarded(p)'
      BY <1>1, <2>3, <2>4, <3>0, <3>1, <3>2, <3>3, <3>5, <3>7
      DEF Guarded, Under, Writable, Snapping
    <3>9. MemForm /\ MemForm'
      BY MemIs, PTL
    <3>10. MemVal(p) = DiskVal(Source(r))
      BY <2>3, <3>0, <3>1, <3>2, <3>9 DEF MemForm, SoundPage, Sound, Saved
    <3>11. MemVal(p)' = MemVal(p)
      BY <1>1, <2>3, <3>0, <3>1, <3>3, <3>5, <3>6, <3>9, SMTT(30)
      DEF MemForm, InCore, DiskVal
    <3>12. CopyVal(io[p], pg[p].make_page)' = DiskVal(Source(r))
      BY <1>1, <3>1, <3>3, <3>5 DEF CopyVal, DiskVal
    <3>13. NowCopied(p)
      BY <2>3, <2>4, <3>1, <3>10, <3>12 DEF NowCopied
    <3> QED BY <1>1, <2>6, <3>6, <3>8, <3>11, <3>13, ViewKept DEF SnapFrame
  <2>10. ASSUME NEW x \in Page PROVE SoundPage(x)' /\ Guarded(x)' /\ SameView(x)
    <3>1. x # p => pg'[x] = pg[x]
      BY <1>a, <2>1
    <3> QED BY <2>2, <2>3, <2>8, <2>9, <3>1
  <2>11. ioerror' = {}
    BY <1>1 DEF CInv
  <2> QED BY <2>7, <2>10, <2>11 DEF CInv
<1> QED BY <1>3, <1>4

(* save_snap after the pagelist is written: the snapshot copy moves to     *)
(* prev_page, which the page may now be read from.                         *)
LEMMA MoveKeeps ==
  ASSUME IInv, IInv', CInv, MoveToPrev
  PROVE  CInv' /\ \A x \in Page : SameView(x)
<1>a. /\ pg \in [Page -> PageRec] /\ snap \in [pc : SnapPc, at : Page]
  BY DEF IInv, TInv, TypeOK
<1>b. PICK p \in Page : p = snap.at
  BY <1>a
<1>1. /\ UNCHANGED <<io, ram, disk, th, is_in_snapshot_process, last_snap, ioerror>>
      /\ snap.pc = "move" /\ snap'.pc \in {"save", "commit"}
      /\ pg' = [pg EXCEPT ![p] = [@ EXCEPT !.prev_page = pg[p].make_page, !.make_page = NoPage]]
  BY <1>a, <1>b DEF MoveToPrev, At, Walk
<1>2. /\ Making' = Making /\ Making /\ ~is_in_snapshot_process /\ Have(pg[p].make_page)
      /\ \A x \in Page : ~Kicked(x)'
  BY <1>1, <1>b, SMTT(30) DEF Making, Kicked, IInv, Phase, PhaseGlobal, PhasePage, Page
<1>3. ThreadAccess' /\ \A x \in Page : LoadersKept(x)
  BY <1>1, SameThreads
<1>4. ASSUME NEW x \in Page \ {p} PROVE SoundPage(x)' /\ Guarded(x)' /\ SameView(x)
  <2>1. Still(x) /\ SnapFrame(x)
    BY <1>1, <1>2, <1>a DEF Still, SnapFrame
  <2>2. SoundPage(x) /\ Guarded(x)
    BY DEF CInv
  <2> QED BY <1>3, <2>1, <2>2, StillPage
<1>5. SoundPage(p)' /\ Guarded(p)' /\ SameView(p)
  <2>0. SoundPage(p) /\ Guarded(p)
    BY DEF CInv
  <2>1. PICK r \in PageRec : r = pg[p]
    BY <1>a
  <2>2. PICK n : n = pg'[p]
    OBVIOUS
  <2>3. /\ n.phys_mem = r.phys_mem /\ n.phys_dirty = r.phys_dirty
        /\ n.phys_protect = r.phys_protect /\ n.map = r.map /\ n.reclaim_q = r.reclaim_q
        /\ n.curr_page = r.curr_page /\ n.prev_page = r.make_page /\ n.make_page = NoPage
    BY <1>1, <1>a, <2>1, <2>2 DEF PageRec
  <2>4. Source(n) = Source(r)
    BY <1>2, <2>1, <2>3 DEF Source, Have
  <2>5. SoundPage(p)'
    BY <1>1, <2>0, <2>1, <2>2, <2>3, <2>4, SMTT(30)
    DEF SoundPage, Sound, Flags, Under, InCore, Saved, DiskVal
  <2>6. Guarded(p)'
    BY <1>1, <1>2, <1>3, <2>0, <2>1, <2>2, <2>3
    DEF Guarded, Under, Writable, Snapping, LoadersKept, Op
  <2>7. MemForm /\ MemForm' /\ ShotForm /\ ShotForm'
    BY MemIs, ShotIs, PTL
  <2>8. MemVal(p)' = MemVal(p)
    <3>1. MemVal(p) = IF InCore(r, io[p]) THEN ram[p] ELSE DiskVal(Source(r))
      BY <2>0, <2>1, <2>7 DEF MemForm
    <3>2. MemVal(p)' = IF InCore(n, io'[p]) THEN ram'[p] ELSE DiskVal(Source(n))'
      BY <2>2, <2>5, <2>7 DEF MemForm
    <3>3. InCore(n, io'[p]) = InCore(r, io[p])
      BY <1>1, <2>3 DEF InCore
    <3> QED BY <1>1, <2>4, <3>1, <3>2, <3>3, SMTT(30) DEF DiskVal
  <2>9. DurableVal(p)' = DurableVal(p)
    BY <1>1 DEF DurableVal
  <2>10. CopyVal(io[p], pg[p].prev_page)' = CopyVal(io[p], pg[p].make_page)
    BY <1>1, <2>1, <2>2, <2>3, SMTT(30) DEF CopyVal
  <2>11. ShotVal(p)' = ShotVal(p)
    <3>1. ShotVal(p) = CopyVal(io[p], pg[p].make_page)
      BY <1>2, <2>7 DEF ShotForm
    <3>2. ShotVal(p)' = CopyVal(io[p], pg[p].prev_page)'
      BY <1>1, <1>2, <2>2, <2>3, <2>7 DEF ShotForm, Have
    <3> QED BY <2>10, <3>1, <3>2
  <2> QED BY <2>5, <2>6, <2>8, <2>9, <2>11 DEF SameView
<1>6. ioerror' = {}
  BY <1>1 DEF CInv
<1> QED BY <1>3, <1>4, <1>5, <1>6 DEF CInv

(* mark_for_snap over all pages, with the threads stopped: the snapshot is *)
(* what the memory holds.                                                  *)
LEMMA MarkTakes ==
  ASSUME IInv, IInv', CInv, MarkAll
  PROVE  /\ CInv' /\ ~Making /\ Making'
         /\ \A x \in Page : /\ MemVal(x)' = MemVal(x) /\ DurableVal(x)' = DurableVal(x)
                            /\ ShotVal(x)' = MemVal(x)
<1>1. /\ UNCHANGED <<io, ram, disk, th, last_snap, ioerror>> /\ AllStopped
      /\ snap.pc = "stop" /\ snap'.pc = "kick2" /\ snap'.at = 1 /\ is_in_snapshot_process'
      /\ pg' = [p \in Page |-> mark_for_snap(pg[p])]
  BY DEF MarkAll, At
<1>2. ~Making /\ Making' /\ ~is_in_snapshot_process /\ \A x \in Page : ~Kicked(x)'
  BY <1>1, SMTT(30) DEF Making, Kicked, IInv, Phase, PhaseGlobal, Page
<1>3. \A p \in Page, op \in Op : ~Loader(p, op) /\ ~Loader(p, op)'
  BY <1>1, SMTT(30) DEF Loader, AllStopped
<1>4. MemForm /\ MemForm' /\ ShotForm'
  BY MemIs, ShotIs, PTL
<1>5. ASSUME NEW p \in Page
      PROVE  /\ SoundPage(p)' /\ Guarded(p)' /\ MemVal(p)' = MemVal(p)
             /\ DurableVal(p)' = DurableVal(p) /\ ShotVal(p)' = MemVal(p)
  <2>0. SoundPage(p) /\ Guarded(p)
    BY DEF CInv
  <2>1. PICK r \in PageRec, q \in IoRec : r = pg[p] /\ q = io[p]
    BY DEF IInv, TInv, TypeOK
  <2>2. PICK n : n = pg'[p]
    OBVIOUS
  <2>3. n = mark_for_snap(r)
    BY <1>1, <2>1, <2>2
  <2>4. /\ n.phys_mem = r.phys_mem /\ n.phys_dirty = r.phys_dirty
        /\ n.phys_protect = (r.phys_protect \/ Writable(r))
        /\ n.map = (IF Writable(r) THEN "ro" ELSE r.map)
        /\ n.reclaim_q = r.reclaim_q /\ SameCopies(n, r)
    BY <2>3 DEF mark_for_snap, PageRec, SameCopies, Writable
  <2>5. ~Have(r.make_page) /\ ~Under(q, "cow")
    BY <1>1, <2>1 DEF IInv, Phase, PhasePage, Under, Writing
  <2>6. ~Under(q, "pagein") /\ (Writable(r) => r.phys_dirty)
    BY <1>3, <2>0, <2>1 DEF Guarded, Op
  <2>7. DiskVal(Source(n)) = DiskVal(Source(r)) /\ DiskVal(Source(n))' = DiskVal(Source(n))
    BY <1>1, <2>4, SameSource DEF DiskVal
  <2>8. SoundPage(p)'
    BY <1>1, <2>0, <2>1, <2>2, <2>4, <2>5, <2>6, <2>7, ZenonT(30)
    DEF SoundPage, Sound, Flags, Under, InCore, Saved, Writable
  <2>9. Snapping(pg[p])' /\ ~Writable(pg[p])'
    BY <1>1, <2>2, <2>4, <2>5 DEF Snapping, Writable, SameCopies
  <2>10. Guarded(p)'
    BY <1>1, <1>2, <1>3, <2>1, <2>6, <2>9 DEF Guarded, Op
  <2>11. MemVal(p)' = MemVal(p)
    BY <1>1, <1>4, <2>0, <2>1, <2>2, <2>4, <2>7, <2>8 DEF MemForm, InCore
  <2>12. DurableVal(p)' = DurableVal(p)
    BY <1>1 DEF DurableVal
  <2>13. ShotVal(p)' = MemVal(p)
    BY <1>2, <1>4, <2>9, <2>11 DEF ShotForm, Snapping
  <2> QED BY <2>8, <2>10, <2>11, <2>12, <2>13
<1>6. ThreadAccess' /\ ioerror' = {}
  BY <1>1, SameThreads DEF CInv
<1> QED BY <1>2, <1>5, <1>6 DEF CInv

(* The superblock update: the copies the new pagelist holds are on disk. *)
LEMMA CommitKeeps ==
  ASSUME IInv, IInv', CInv, UpdateSuperblock
  PROVE  /\ CInv' /\ Making /\ ~Making'
         /\ \A x \in Page : /\ MemVal(x)' = MemVal(x) /\ DurableVal(x)' = ShotVal(x)
                            /\ ShotVal(x)' = ShotVal(x)
<1>1. /\ UNCHANGED <<pg, io, ram, disk, th, is_in_snapshot_process, ioerror>>
      /\ snap.pc = "super" /\ snap'.pc = "free" /\ last_snap' = list
  BY DEF UpdateSuperblock, At
<1>2. Making /\ ~Making' /\ ~is_in_snapshot_process /\ \A x \in Page : ~Kicked(x)'
  BY <1>1 DEF Making, Kicked, IInv, Phase, PhaseGlobal
<1>3. ThreadAccess' /\ (\A x \in Page : LoadersKept(x)) /\ ioerror' = {}
  BY <1>1, SameThreads DEF CInv
<1>4. ShotForm /\ ShotForm'
  BY ShotIs, PTL
<1>5. ASSUME NEW p \in Page
      PROVE  /\ SoundPage(p)' /\ Guarded(p)' /\ MemVal(p)' = MemVal(p)
             /\ DurableVal(p)' = ShotVal(p) /\ ShotVal(p)' = ShotVal(p)
  <2>0. SoundPage(p) /\ Guarded(p)
    BY DEF CInv
  <2>1. SoundPage(p)' /\ MemVal(p)' = MemVal(p)
    BY <1>1, <2>0 DEF SoundPage, DiskVal, MemVal, Resident, Loading, BlockVal
  <2>2. Guarded(p)'
    BY <1>1, <1>2, <1>3, <2>0 DEF Guarded, Snapping, LoadersKept, Op
  <2>3. ~Have(pg[p].make_page) /\ pg[p].prev_page = list[p] /\ ~Under(io[p], "cow")
    BY <1>1 DEF IInv, Phase, PhasePage, Under, Writing
  <2>4. DurableVal(p)' = CopyVal(io[p], pg[p].prev_page)
    BY <1>1, <2>3 DEF DurableVal, CopyVal, Under
  <2>5. ShotVal(p) = CopyVal(io[p], pg[p].prev_page) /\ ShotVal(p)' = DurableVal(p)'
    BY <1>2, <1>4, <2>3 DEF ShotForm
  <2> QED BY <2>1, <2>2, <2>4, <2>5
<1> QED BY <1>2, <1>3, <1>5 DEF CInv

(* phantom_free_snap takes no block a page is read from, nor one of the    *)
(* last snapshot.                                                          *)
LEMMA FreeKeeps ==
  ASSUME IInv, IInv', CInv, phantom_free_snap
  PROVE  CInv' /\ \A x \in Page : SameView(x)
<1> DEFINE dead == BlocksOf(toFree) \ (BlocksOf(prev_snap) \cup BlocksOf(last_snap))
<1>a. /\ pg \in [Page -> PageRec] /\ last_snap \in [Page -> BlockRef]
      /\ toFree \in [Page -> BlockRef] /\ disk \in [Block -> Contents]
  BY DEF IInv, TInv, TypeOK
<1>1. /\ UNCHANGED <<pg, io, ram, th, is_in_snapshot_process, last_snap, ioerror>>
      /\ snap.pc = "free" /\ snap'.pc = "idle"
      /\ disk' = [b \in Block |-> IF b \in dead THEN Junk ELSE disk[b]]
  BY DEF phantom_free_snap, At
<1>2. ~Making /\ ~Making' /\ \A x \in Page : ~Kicked(x)'
  BY <1>1 DEF Making, Kicked
<1>3. ThreadAccess' /\ (\A x \in Page : LoadersKept(x)) /\ ioerror' = {}
  BY <1>1, SameThreads DEF CInv
<1>4. MemForm /\ MemForm' /\ ShotForm /\ ShotForm'
  BY MemIs, ShotIs, PTL
<1>5. ASSUME NEW p \in Page PROVE SoundPage(p)' /\ Guarded(p)' /\ SameView(p)
  <2>0. SoundPage(p) /\ Guarded(p)
    BY DEF CInv
  <2>1. last_snap[p] \in Block => last_snap[p] \notin dead
    BY DEF BlocksOf
  <2>2. Have(pg[p].curr_page) => pg[p].curr_page \notin dead
    <3>1. \A x \in Page : pg[p].curr_page \in Block => pg[p].curr_page # toFree[x]
      BY BlockAssumption, SMTT(30) DEF IInv, Own, OwnPage, Apart, Refs, Have
    <3> QED BY <3>1 DEF BlocksOf
  <2>3. ~Have(pg[p].make_page) /\ (pg[p].prev_page \in Block => pg[p].prev_page = last_snap[p])
    <3>1. list[p] = ZeroPage
      BY <1>1 DEF IInv, Phase, PhaseGlobal, NoList
    <3> QED BY <1>1, <3>1, BlockAssumption DEF IInv, Phase, PhasePage, Own, OwnPage
  <2>4. Source(pg[p]) \in Block => Source(pg[p]) \notin dead
    BY <2>1, <2>2, <2>3, BlockAssumption DEF Source
  <2>5. Source(pg[p]) \in Block \cup {ZeroPage}
    BY <1>a, SourceRef DEF BlockRef
  <2>6. DiskVal(Source(pg[p]))' = DiskVal(Source(pg[p]))
    BY <1>1, <2>4, <2>5 DEF DiskVal
  <2>7. SoundPage(p)'
    BY <1>1, <2>0, <2>6 DEF SoundPage
  <2>8. Guarded(p)'
    BY <1>1, <1>2, <1>3, <2>0 DEF Guarded, Snapping, LoadersKept, Op
  <2>9. MemVal(p)' = MemVal(p)
    BY <1>1, <1>4, <2>0, <2>6, <2>7 DEF MemForm
  <2>10. DurableVal(p)' = DurableVal(p)
    BY <1>1, <1>a, <2>1 DEF DurableVal, BlockRef
  <2>11. ShotVal(p)' = ShotVal(p)
    BY <1>2, <1>4, <2>10 DEF ShotForm
  <2> QED BY <2>7, <2>8, <2>9, <2>10, <2>11 DEF SameView
<1> QED BY <1>3, <1>5 DEF CInv

-----------------------------------------------------------------------------
(* Every step. *)

(* A step of a program's store; the start of a snapshot; its commit. *)
StoreView == /\ Making' = Making
             /\ \E p \in Page, v \in Val :
                  /\ MemVal(p)' = v /\ ShotVal(p)' = ShotVal(p) /\ DurableVal(p)' = DurableVal(p)
                  /\ \A x \in Page \ {p} : SameView(x)

TakeView == /\ ~Making /\ Making'
            /\ \A x \in Page : /\ MemVal(x)' = MemVal(x) /\ DurableVal(x)' = DurableVal(x)
                               /\ ShotVal(x)' = MemVal(x)

CommitView == /\ Making /\ ~Making'
              /\ \A x \in Page : /\ MemVal(x)' = MemVal(x) /\ DurableVal(x)' = ShotVal(x)
                                 /\ ShotVal(x)' = ShotVal(x)

StillView == Making' = Making /\ \A x \in Page : SameView(x)

LEMMA ThreadView ==
  ASSUME IInv, IInv', CInv, PrivateWriters, NEW t \in Thread, ThreadStep(t)
  PROVE  CInv' /\ (StillView \/ StoreView)
<1>1. Making' = Making
  BY DEF ThreadStep, BeginAccess, DoAccess, Fault, page_fault_read, page_fault_write,
         PageinDone, Making
<1>2. CASE DoAccess(t) /\ th[t].op = "write"
  BY <1>1, <1>2, StoreKeeps, AccessAssumption DEF StoreView
<1>3. CASE ~(DoAccess(t) /\ th[t].op = "write")
  <2>1. CASE BeginAccess(t) \/ Fault(t) \/ DoAccess(t)
    <3>1. BeginAccess(t) \/ Fault(t) \/ (DoAccess(t) /\ th[t].op = "read")
      BY <1>3, <2>1 DEF DoAccess
    <3> QED BY <1>1, <3>1, BeginKeeps DEF StillView
  <2>2. CASE page_fault_read(t)
    BY <1>1, <2>2, ReadFaultKeeps DEF StillView
  <2>3. CASE page_fault_write(t)
    BY <1>1, <2>3, WriteKeeps DEF StillView
  <2>4. CASE PageinDone(t, "read") \/ PageinDone(t, "write")
    BY <1>1, <2>4, PageinDoneKeeps DEF StillView, Op
  <2> QED BY <2>1, <2>2, <2>3, <2>4 DEF ThreadStep
<1> QED BY <1>2, <1>3

LEMMA SnapperView ==
  ASSUME IInv, IInv', CInv, SnapperStep \/ StartSnapshot
  PROVE  CInv' /\ (StillView \/ TakeView \/ CommitView)
<1>0. snap \in [pc : SnapPc, at : Page]
  BY DEF IInv, TInv, TypeOK
<1>1. CASE MarkAll
  BY <1>1, MarkTakes DEF TakeView
<1>2. CASE UpdateSuperblock
  BY <1>2, CommitKeeps DEF CommitView
<1>3. CASE StartSnapshot \/ wait_commit_snap
  <2>1. Making' = Making
    <3>1. CASE StartSnapshot
      BY <3>1 DEF StartSnapshot, At, Making
    <3>2. CASE wait_commit_snap
      BY <1>0, <3>2, SMTT(30) DEF wait_commit_snap, At, Walk, SnapperWait, Making
    <3> QED BY <1>3, <3>1, <3>2
  <2> QED BY <1>3, <2>1, StartKeeps DEF StillView
<1>4. CASE kick_pageout("kick1", "stop") \/ kick_pageout("kick2", "final")
  <2>1. Making' = Making
    BY <1>4, SMTT(30) DEF kick_pageout, At, Walk, Making
  <2> QED BY <1>4, <2>1, KickKeeps DEF StillView
<1>5. CASE finalize_snap
  <2>1. Making' = Making
    BY <1>0, <1>5, SMTT(30) DEF finalize_snap, At, Walk, SnapperWait, Making
  <2> QED BY <1>5, <2>1, FinalizeKeeps DEF StillView
<1>6. CASE SaveToList
  <2>1. Making' = Making
    BY <1>0, <1>6 DEF SaveToList, At, Making
  <2> QED BY <1>6, <2>1, SaveKeeps DEF StillView
<1>7. CASE MoveToPrev
  <2>1. Making' = Making
    BY <1>0, <1>7 DEF MoveToPrev, At, Walk, Making
  <2> QED BY <1>7, <2>1, MoveKeeps DEF StillView
<1>8. CASE phantom_free_snap
  <2>1. Making' = Making
    BY <1>8 DEF phantom_free_snap, At, Making
  <2> QED BY <1>8, <2>1, FreeKeeps DEF StillView
<1> QED BY <1>1, <1>2, <1>3, <1>4, <1>5, <1>6, <1>7, <1>8 DEF SnapperStep

(* The invariant is kept, and what the program and a restart would see     *)
(* changes as AtomicSnapshot says.                                         *)
LEMMA StepView ==
  ASSUME NoFailures, PrivateWriters, IInv, IInv', CInv, [Next]_vars
  PROVE  CInv' /\ (StillView \/ StoreView \/ TakeView \/ CommitView)
<1>1. ASSUME NEW t \in Thread, ThreadStep(t) PROVE CInv' /\ (StillView \/ StoreView)
  BY <1>1, ThreadView
<1>2. ASSUME NEW p \in Page, PagerStep(p) \/ physmem_try_to_reclaim_page(p)
      PROVE  CInv' /\ StillView
  <2>1. Making' = Making
    BY <1>2 DEF PagerStep, Transfer, TransferError, pageout_callback, snapper_COW_callback,
                pagein_callback, physmem_try_to_reclaim_page, Making
  <2> QED BY <1>2, <2>1, PagerKeeps DEF StillView
<1>3. CASE LazyStep
  <2>1. Making' = Making
    BY <1>3 DEF LazyStep, LazyPick, LazyPageout, Making
  <2> QED BY <1>3, <2>1, LazyKeeps DEF StillView
<1>4. CASE SnapperStep \/ StartSnapshot
  BY <1>4, SnapperView
<1>5. CASE UNCHANGED vars
  <2>1. /\ UNCHANGED <<pg, io, ram, disk, th, is_in_snapshot_process, last_snap, ioerror>>
        /\ UNCHANGED snap
    BY <1>5 DEF vars
  <2>2. Making' = Making /\ \A x \in Page : Kicked(x)' => Kicked(x)
    BY <2>1 DEF Making, Kicked
  <2> QED BY <2>1, <2>2, StillStep DEF StillView
<1> QED BY <1>1, <1>2, <1>3, <1>4, <1>5 DEF Next

-----------------------------------------------------------------------------
(* The start. *)

(* vm_map_init starts with no page in memory. *)
LEMMA InitContents == Init => CInv
<1> SUFFICES ASSUME Init PROVE CInv
  OBVIOUS
<1>1. /\ pg = [p \in Page |-> Loaded(last_snap[p])] /\ io = [p \in Page |-> IdleIo]
      /\ th = [t \in Thread |-> Running] /\ ioerror = {}
  BY DEF Init
<1>2. ThreadAccess /\ \A p \in Page, op \in Op : ~Loader(p, op)
  BY <1>1 DEF ThreadAccess, Loader, Running
<1>3. ASSUME NEW p \in Page PROVE SoundPage(p) /\ Guarded(p)
  <2>1. /\ ~pg[p].phys_mem /\ ~pg[p].phys_dirty /\ pg[p].map = "none"
        /\ pg[p].reclaim_q = "none" /\ io[p].st = "idle"
    BY <1>1 DEF Loaded, IdleIo
  <2>2. SoundPage(p)
    BY <2>1 DEF SoundPage, Sound, Flags, Under, InCore
  <2>3. Guarded(p)
    BY <1>2, <2>1 DEF Guarded, Under, Writable, Op
  <2> QED BY <2>2, <2>3
<1> QED BY <1>1, <1>2, <1>3 DEF CInv

(* It starts from the last snapshot. *)
LEMMA InitView ==
  ASSUME Init, IInv
  PROVE  /\ ~Making
         /\ \A p \in Page : /\ MemVal(p) \in Val /\ ShotVal(p) = MemVal(p)
                            /\ DurableVal(p) = MemVal(p)
<1>1. IInv /\ CInv
  BY InitContents
<1>2. ~Making
  BY DEF Init, Making
<1>3. MemForm /\ ShotForm
  BY MemIs, ShotIs
<1>4. ASSUME NEW p \in Page
      PROVE  MemVal(p) \in Val /\ ShotVal(p) = MemVal(p) /\ DurableVal(p) = MemVal(p)
  <2>1. last_snap \in [Page -> BlockRef] /\ disk \in [Block -> Contents]
    BY <1>1 DEF IInv, TInv, TypeOK
  <2>2. PICK b \in BlockRef : b = last_snap[p]
    BY <2>1
  <2>3. pg[p] = Loaded(b)
    BY <2>2 DEF Init
  <2>4. ~pg[p].phys_mem /\ Source(pg[p]) = b
    BY <2>2, <2>3, BlockAssumption, SMTT(30) DEF Loaded, Source, Have, BlockRef
  <2>5. MemVal(p) = DiskVal(b)
    BY <1>1, <1>3, <2>4 DEF MemForm, CInv, InCore
  <2>6. DurableVal(p) = DiskVal(b)
    BY <2>2 DEF DurableVal, DiskVal
  <2>7. DiskVal(b) \in Val
    <3>1. b \in Block => b \notin free
      BY <2>2 DEF Init, BlocksOf
    <3>2. b \in Block => disk[b] # Junk
      BY <3>1 DEF Init
    <3> QED BY <2>1, <3>2, ValueAssumption DEF DiskVal, BlockRef, Contents
  <2> QED BY <1>1, <1>2, <1>3, <2>5, <2>6, <2>7 DEF ShotForm
<1> QED BY <1>2, <1>4

-----------------------------------------------------------------------------
(* Refinement. *)

(* The first state is one of AtomicSnapshot. *)
LEMMA RefineInit == Init /\ IInv => Snapshots!Init
<1> SUFFICES ASSUME Init, IInv PROVE Snapshots!Init
  OBVIOUS
<1>1. /\ ~Making
      /\ \A p \in Page : MemVal(p) \in Val /\ ShotVal(p) = MemVal(p) /\ DurableVal(p) = MemVal(p)
  BY InitView
<1>2. Making = FALSE
  BY <1>1 DEF Making
<1> QED BY <1>1, <1>2 DEF Snapshots!Init

(* Every step is one of AtomicSnapshot or changes nothing it sees. *)
LEMMA RefineStep ==
  ASSUME NoFailures, PrivateWriters
  PROVE  IInv /\ IInv' /\ CInv /\ [Next]_vars => [Snapshots!Next]_(Snapshots!absVars)
<1> DEFINE mem == [p \in Page |-> MemVal(p)]
           shot == [p \in Page |-> ShotVal(p)]
           durable == [p \in Page |-> DurableVal(p)]
<1> SUFFICES ASSUME IInv, IInv', CInv, [Next]_vars
             PROVE  Snapshots!Next \/ UNCHANGED Snapshots!absVars
  OBVIOUS
<1>1. StillView \/ StoreView \/ TakeView \/ CommitView
  BY StepView
<1>2. Making \in BOOLEAN /\ Making' \in BOOLEAN
  BY DEF Making
<1>3. CASE StillView
  BY <1>3 DEF StillView, SameView, Snapshots!absVars
<1>4. CASE TakeView
  BY <1>2, <1>4 DEF TakeView, Snapshots!Next, Snapshots!Take
<1>5. CASE CommitView
  BY <1>2, <1>5 DEF CommitView, Snapshots!Next, Snapshots!Commit
<1>6. CASE StoreView
  <2>1. PICK p \in Page, v \in Val :
          /\ MemVal(p)' = v /\ ShotVal(p)' = ShotVal(p) /\ DurableVal(p)' = DurableVal(p)
          /\ \A x \in Page \ {p} : SameView(x)
    BY <1>6 DEF StoreView
  <2>2. /\ \A x \in Page : MemVal(x)' = IF x = p THEN v ELSE MemVal(x)
        /\ \A x \in Page : ShotVal(x)' = ShotVal(x) /\ DurableVal(x)' = DurableVal(x)
    BY <2>1 DEF SameView
  <2>3. mem' = [mem EXCEPT ![p] = v] /\ shot' = shot /\ durable' = durable
    BY <2>2
  <2>4. Making' = Making
    BY <1>6 DEF StoreView
  <2>5. Snapshots!Store
    BY <2>3, <2>4 DEF Snapshots!Store
  <2> QED BY <2>5 DEF Snapshots!Next
<1> QED BY <1>1, <1>3, <1>4, <1>5, <1>6

-----------------------------------------------------------------------------
(* The contents of the pages. *)

LEMMA ContentsInvariance ==
  ASSUME MaxIoErrors = 0, PrivateWriters
  PROVE  Spec => []CInv
<1>1. Init => CInv
  BY InitContents
<1>2. IInv /\ IInv' /\ CInv /\ [Next]_vars => CInv'
  BY FS_EmptySet, StepView DEF NoFailures
<1> QED BY <1>1, <1>2, Invariance, PTL DEF Spec

(* With private written pages and no failed transfer, vm_map.c implements  *)
(* atomic snapshots: no fault, pageout, reclaim or snapshot step changes   *)
(* what the program reads, and a restart finds the memory of one instant.  *)
THEOREM MemoryImplementsSnapshots ==
  ASSUME MaxIoErrors = 0, PrivateWriters
  PROVE  Spec => ImplementsSnapshots
<1>1. IInv /\ IInv' /\ CInv /\ [Next]_vars => [Snapshots!Next]_(Snapshots!absVars)
  BY FS_EmptySet, RefineStep DEF NoFailures
<1> QED BY <1>1, RefineInit, Invariance, ContentsInvariance, PTL
        DEF Spec, ImplementsSnapshots, Snapshots!Spec
=============================================================================
