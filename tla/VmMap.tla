------------------------------- MODULE VmMap -------------------------------
(***************************************************************************)
(* Persistent virtual memory of the Phantom kernel: the page state machine *)
(* of oldtree/kernel/phantom/vm_map.c.  Object-space pages are backed by   *)
(* disk blocks; page faults bring them in, pageouts write them out, and    *)
(* do_snapshot() periodically makes the whole object space durable while   *)
(* the virtual machine keeps running (copy on write).                      *)
(*                                                                         *)
(* An atomic step is what one thread does under one page's lock, from one  *)
(* release of the lock to the next; a thread that waits on the page's      *)
(* condition variable is in asleep until a broadcast takes it out.         *)
(***************************************************************************)
EXTENDS Naturals, FiniteSets

CONSTANTS
  NumPages,       \* vm_map_vm_page_count
  Block,          \* disk blocks of the paging partition that may hold page data
  Val,            \* page contents the program can store
  Zero,           \* content of a cleared page
  Junk,           \* content of memory or of a block nobody has written
  NoPage,         \* curr_page, make_page or prev_page while its flag_have_* is 0
  ZeroPage,       \* disk page number 0: "no data for this block, must be zero"
  Thread,         \* virtual machine threads
  Snapper,        \* the snapshot thread
  Access,         \* the accesses <<thread, op, page>> the program may make
  Stored,         \* the values it may store
  Candidates(_),  \* the blocks pager_alloc_page may return out of a free set
  BootSnaps,      \* the pagelists superblock.last_snap may lead to at boot
  MaxIoErrors     \* bound on the failed transfers of a behaviour

Page == 1..NumPages
BlockRef == Block \cup {ZeroPage}
Contents == Val \cup {Junk}
Op == {"read", "write"}

ASSUME NumPagesAssumption == NumPages \in Nat \ {0}
ASSUME ValueAssumption == Zero \in Val /\ Junk \notin Val
ASSUME BlockAssumption == /\ NoPage \notin Block /\ ZeroPage \notin Block
                          /\ NoPage # ZeroPage
ASSUME ThreadAssumption == Snapper \notin Thread
ASSUME AccessAssumption == Access \subseteq (Thread \X Op \X Page) /\ Stored \subseteq Val
ASSUME CandidatesAssumption == \A S \in SUBSET Block : Candidates(S) \subseteq S
ASSUME BootSnapsAssumption ==
  /\ BootSnaps \subseteq [Page -> BlockRef]
  /\ \A l \in BootSnaps : \A p, q \in Page : l[p] \in Block /\ l[p] = l[q] => p = q
ASSUME BoundAssumption == MaxIoErrors \in Nat

VARIABLES
  pg,        \* the struct vm_page of every page
  io,        \* its pager_io request
  ram,       \* content of the page's physical page
  disk,      \* content of every block
  free,      \* blocks the pager considers free
  th,        \* where every VM thread is in its current memory access
  asleep,    \* threads inside hal_cond_wait( &p->done )
  snap,      \* the snapshot thread: step of do_snapshot and page it is at
  is_in_snapshot_process,
  list,      \* the pagelist of the snapshot being written
  last_snap, \* pagelist the superblock's last_snap leads to
  prev_snap, \* pagelist the superblock's prev_snap leads to
  toFree,    \* pagelist do_snapshot is about to free
  lazy,      \* the page the lazy pageout thread has picked, or 0
  ioerror    \* the pages whose pager_io has flag_ioerror set

vars == <<pg, io, ram, disk, free, th, asleep, snap, is_in_snapshot_process,
          list, last_snap, prev_snap, toFree, lazy, ioerror>>

-----------------------------------------------------------------------------
(* The records the variables hold. *)

PageRec == [phys_mem : BOOLEAN, phys_protect : BOOLEAN, phys_dirty : BOOLEAN,
            curr_page : Block \cup {NoPage},
            make_page : BlockRef \cup {NoPage},
            prev_page : BlockRef \cup {NoPage},
            reclaim_q : {"none", "clean", "dirty", "broken"},
            map : {"none", "ro", "rw"}]

(* st: "idle" - flag_pager_io_busy is 0; "queued" - on the disk queue, can  *)
(* be dequeued; "moved" - the transfer is over, the callback is still due.  *)
(* cb is the pager_callback; copy is the side page a COW request writes.    *)
IoRec == [st : {"idle", "queued", "moved"}, cb : {"none", "pageout", "cow", "pagein"},
          disk_page : Block \cup {NoPage}, copy : Contents]

IdleIo == [st |-> "idle", cb |-> "none", disk_page |-> NoPage, copy |-> Junk]

(* "run" - at a bytecode boundary; "access" - about to execute the load or *)
(* store; "fault" - in page_fault, up to the end of its first wait loop;    *)
(* "pagein" - in the wait loop for the pagein it has started itself.        *)
ThreadRec == [pc : {"run", "access", "fault", "pagein"}, op : Op, page : Page]

Running == [pc |-> "run", op |-> "read", page |-> 1]

(* The steps of do_snapshot: the two kick_pageout walks, the stop of the    *)
(* threads in between, finalize_snap, the two halves of save_snap,          *)
(* wait_commit_snap, the superblock update, phantom_free_snap.  "fwait" and *)
(* "cwait" are the wait loops inside finalize_snap and wait_commit_snap.    *)
SnapPc == {"idle", "kick1", "stop", "kick2", "final", "fwait", "save", "move",
           "commit", "cwait", "super", "free"}

TypeOK ==
  /\ pg \in [Page -> PageRec]
  /\ io \in [Page -> IoRec]
  /\ ram \in [Page -> Contents]
  /\ disk \in [Block -> Contents]
  /\ free \in SUBSET Block
  /\ th \in [Thread -> ThreadRec]
  /\ asleep \in SUBSET (Thread \cup {Snapper})
  /\ snap \in [pc : SnapPc, at : Page]
  /\ is_in_snapshot_process \in BOOLEAN
  /\ list \in [Page -> BlockRef]
  /\ last_snap \in [Page -> BlockRef]
  /\ prev_snap \in [Page -> BlockRef]
  /\ toFree \in [Page -> BlockRef]
  /\ lazy \in Page \cup {0}
  /\ ioerror \in SUBSET Page

-----------------------------------------------------------------------------
(* vm_page_init and the pagelist loop of vm_map_init. *)

NoList == [p \in Page |-> ZeroPage]

Loaded(b) == [phys_mem |-> FALSE, phys_protect |-> FALSE, phys_dirty |-> FALSE,
              curr_page |-> NoPage, make_page |-> NoPage,
              prev_page |-> IF b = ZeroPage THEN NoPage ELSE b,
              reclaim_q |-> "none", map |-> "none"]

BlocksOf(l) == {l[p] : p \in Page} \cap Block

Init ==
  /\ last_snap \in BootSnaps
  /\ prev_snap = NoList
  /\ toFree = NoList
  /\ list = NoList
  /\ pg = [p \in Page |-> Loaded(last_snap[p])]
  /\ io = [p \in Page |-> IdleIo]
  /\ ram = [p \in Page |-> Junk]
  /\ free = Block \ BlocksOf(last_snap)
  /\ disk \in [Block -> Contents]
  /\ \A b \in Block : disk[b] = Junk <=> b \in free
  /\ th = [t \in Thread |-> Running]
  /\ asleep = {}
  /\ snap = [pc |-> "idle", at |-> 1]
  /\ is_in_snapshot_process = FALSE
  /\ lazy = 0
  /\ ioerror = {}

-----------------------------------------------------------------------------
(* Helpers on page records.  A queue operation whose assert fails, or that  *)
(* names a queue the page is not on, leaves the page's queue "broken".      *)

Have(b) == b # NoPage

put_on_q(r, q) == [r EXCEPT !.reclaim_q = IF @ = "none" THEN q ELSE "broken"]
remove_from_q(r, q) == [r EXCEPT !.reclaim_q = IF @ = q THEN "none" ELSE "broken"]
move_to_dirty_q(r) == put_on_q(remove_from_q(r, "clean"), "dirty")

(* Where a fault reads the page from. *)
Source(r) == CASE Have(r.curr_page) -> r.curr_page
               [] ~Have(r.curr_page) /\ Have(r.make_page) -> r.make_page
               [] ~Have(r.curr_page) /\ ~Have(r.make_page) /\ Have(r.prev_page) -> r.prev_page
               [] OTHER -> ZeroPage

(* The disk copy of an unchanged page becomes its snapshot copy: the common *)
(* tail of page_fault_snap_aid and finalize_snap.                           *)
TakeDiskCopy(r) ==
  CASE Have(r.curr_page) -> [r EXCEPT !.make_page = r.curr_page, !.curr_page = NoPage]
    [] ~Have(r.curr_page) /\ Have(r.prev_page) ->
         [r EXCEPT !.make_page = r.prev_page, !.prev_page = NoPage]
    [] OTHER -> [r EXCEPT !.make_page = ZeroPage]

Busy(p) == io[p].st # "idle"

Broadcast(p) ==
  asleep' = asleep \ ({t \in Thread : th[t].page = p}
                       \cup (IF snap.at = p THEN {Snapper} ELSE {}))

(* assert( rq->flag_ioerror == 0 ) of disk_enqueue: nothing clears the flag. *)
CanEnqueue(p) == p \notin ioerror

NewIo(cb, b, copy) == [st |-> "queued", cb |-> cb, disk_page |-> b, copy |-> copy]

-----------------------------------------------------------------------------
(* vm_page_req_pageout and its callback. *)

CanPageout(p) == ~Busy(p) /\ pg[p].phys_mem /\ pg[p].phys_dirty

vm_page_req_pageout(p) ==
  \/ ~CanPageout(p) /\ UNCHANGED <<pg, io, free>>
  \/ /\ CanPageout(p) /\ CanEnqueue(p)
     /\ \E b \in IF Have(pg[p].curr_page) THEN {pg[p].curr_page} ELSE Candidates(free) :
          /\ pg' = [pg EXCEPT ![p] = remove_from_q([@ EXCEPT !.curr_page = b,
                                      !.phys_protect = TRUE, !.map = "ro"], "dirty")]
          /\ io' = [io EXCEPT ![p] = NewIo("pageout", b, Junk)]
          /\ free' = free \ {b}

CallbackDue(p, cb) == io[p].st = "moved" /\ io[p].cb = cb

pageout_callback_noQueue(p) ==              \* mutant: no put_on_clean_q
  /\ CallbackDue(p, "pageout")
  /\ pg' = [pg EXCEPT ![p].phys_dirty = FALSE]
  /\ io' = [io EXCEPT ![p] = IdleIo]
  /\ Broadcast(p)
  /\ UNCHANGED <<ram, disk, free, th, snap, is_in_snapshot_process,
                 list, last_snap, prev_snap, toFree, lazy, ioerror>>

pageout_callback(p) ==
  /\ CallbackDue(p, "pageout")
  /\ pg' = [pg EXCEPT ![p] = put_on_q([@ EXCEPT !.phys_dirty = FALSE], "clean")]
  /\ io' = [io EXCEPT ![p] = IdleIo]
  /\ Broadcast(p)
  /\ UNCHANGED <<ram, disk, free, th, snap, is_in_snapshot_process,
                 list, last_snap, prev_snap, toFree, lazy, ioerror>>

snapper_COW_callback_silent(p) ==           \* mutant: no hal_cond_broadcast
  /\ CallbackDue(p, "cow")
  /\ io' = [io EXCEPT ![p] = IdleIo]
  /\ UNCHANGED <<pg, ram, disk, free, th, asleep, snap, is_in_snapshot_process,
                 list, last_snap, prev_snap, toFree, lazy, ioerror>>

snapper_COW_callback(p) ==
  /\ CallbackDue(p, "cow")
  /\ io' = [io EXCEPT ![p] = IdleIo]
  /\ Broadcast(p)
  /\ UNCHANGED <<pg, ram, disk, free, th, snap, is_in_snapshot_process,
                 list, last_snap, prev_snap, toFree, lazy, ioerror>>

pagein_callback_silent(p) ==                \* mutant: no hal_cond_broadcast
  /\ CallbackDue(p, "pagein")
  /\ pg' = [pg EXCEPT ![p] = put_on_q([@ EXCEPT !.phys_dirty = FALSE,
                              !.map = IF pg[p].phys_protect THEN "ro" ELSE "rw"], "clean")]
  /\ io' = [io EXCEPT ![p] = IdleIo]
  /\ UNCHANGED <<ram, disk, free, th, asleep, snap, is_in_snapshot_process,
                 list, last_snap, prev_snap, toFree, lazy, ioerror>>

pagein_callback(p) ==
  /\ CallbackDue(p, "pagein")
  /\ pg' = [pg EXCEPT ![p] = put_on_q([@ EXCEPT !.phys_dirty = FALSE,
                              !.map = IF pg[p].phys_protect THEN "ro" ELSE "rw"], "clean")]
  /\ io' = [io EXCEPT ![p] = IdleIo]
  /\ Broadcast(p)
  /\ UNCHANGED <<ram, disk, free, th, snap, is_in_snapshot_process,
                 list, last_snap, prev_snap, toFree, lazy, ioerror>>

(* The disk serves the request (start_io to pager_io_request_done).  A      *)
(* failed transfer moves no data; its error code is not looked at.          *)
Moved(p) == io' = [io EXCEPT ![p] = [@ EXCEPT !.st = "moved", !.copy = Junk]]

Transfer(p) ==
  /\ io[p].st = "queued"
  /\ Moved(p)
  /\ \/ /\ io[p].cb = "pagein"
        /\ ram' = [ram EXCEPT ![p] = disk[io[p].disk_page]]
        /\ UNCHANGED disk
     \/ /\ io[p].cb # "pagein"
        /\ disk' = [disk EXCEPT ![io[p].disk_page] =
                       IF io[p].cb = "cow" THEN io[p].copy ELSE ram[p]]
        /\ UNCHANGED ram
  /\ UNCHANGED <<pg, free, th, asleep, snap, is_in_snapshot_process,
                 list, last_snap, prev_snap, toFree, lazy, ioerror>>

TransferError(p) ==
  /\ io[p].st = "queued"
  /\ Cardinality(ioerror) < MaxIoErrors
  /\ ioerror' = ioerror \cup {p}
  /\ Moved(p)
  /\ UNCHANGED <<pg, ram, disk, free, th, asleep, snap, is_in_snapshot_process,
                 list, last_snap, prev_snap, toFree, lazy>>

-----------------------------------------------------------------------------
(* A VM thread executes an instruction that loads from or stores to a page. *)

Goto(t, pc) == th' = [th EXCEPT ![t].pc = pc]
Return(t) == Goto(t, "access")

(* The interpreter loop: no instruction starts once the snapper has asked   *)
(* the threads to stop.                                                     *)
BeginAccess(t) ==
  /\ th[t].pc = "run"
  /\ snap.pc # "stop"
  /\ \E a \in Access :
       /\ a[1] = t
       /\ th' = [th EXCEPT ![t] = [pc |-> "access", op |-> a[2], page |-> a[3]]]
  /\ UNCHANGED <<pg, io, ram, disk, free, asleep, snap, is_in_snapshot_process,
                 list, last_snap, prev_snap, toFree, lazy, ioerror>>

Permitted(t) == pg[th[t].page].map \in IF th[t].op = "write" THEN {"rw"} ELSE {"ro", "rw"}

DoAccess(t) ==
  /\ th[t].pc = "access"
  /\ Permitted(t)
  /\ th' = [th EXCEPT ![t] = Running]
  /\ \/ th[t].op = "read" /\ UNCHANGED ram
     \/ th[t].op = "write" /\ \E v \in Stored : ram' = [ram EXCEPT ![th[t].page] = v]
  /\ UNCHANGED <<pg, io, disk, free, asleep, snap, is_in_snapshot_process,
                 list, last_snap, prev_snap, toFree, lazy, ioerror>>

(* The memory management unit raises a page fault. *)
Fault(t) ==
  /\ th[t].pc = "access"
  /\ ~Permitted(t)
  /\ Goto(t, "fault")
  /\ UNCHANGED <<pg, io, ram, disk, free, asleep, snap, is_in_snapshot_process,
                 list, last_snap, prev_snap, toFree, lazy, ioerror>>

-----------------------------------------------------------------------------
(* page_fault_read and page_fault_write, under the page's lock. *)

InFault(t, op, pc) == /\ th[t].pc = pc /\ th[t].op = op
                      /\ t \notin asleep

WaitDone(t) ==
  /\ asleep' = asleep \cup {t}
  /\ UNCHANGED <<pg, io, ram, free, th>>

(* The page gets a physical page: the content of b, or zeroes if b is 0. *)
Populate(t, p, r, prot, q) ==
  LET b == Source(r)
      n == [r EXCEPT !.phys_mem = TRUE, !.phys_protect = prot, !.phys_dirty = FALSE]
  IN \/ /\ b = ZeroPage
        /\ pg' = [pg EXCEPT ![p] = put_on_q([n EXCEPT !.phys_dirty = ~prot,
                                    !.map = IF prot THEN "ro" ELSE "rw"], q)]
        /\ ram' = [ram EXCEPT ![p] = Zero]
        /\ io' = [io EXCEPT ![p] = IdleIo]
        /\ Return(t)
     \/ /\ b # ZeroPage /\ CanEnqueue(p)
        /\ pg' = [pg EXCEPT ![p] = n]
        /\ io' = [io EXCEPT ![p] = NewIo("pagein", b, Junk)]
        /\ Goto(t, "pagein")
        /\ UNCHANGED ram

page_fault_read(t) ==
  LET p == th[t].page IN
  /\ InFault(t, "read", "fault")
  /\ \/ Busy(p) /\ WaitDone(t)
     \/ /\ ~Busy(p) /\ pg[p].phys_mem
        /\ Return(t)
        /\ UNCHANGED <<pg, io, ram, free, asleep>>
     \/ /\ ~Busy(p) /\ ~pg[p].phys_mem
        /\ Populate(t, p, pg[p], TRUE, "clean")
        /\ UNCHANGED <<free, asleep>>
  /\ UNCHANGED <<disk, snap, is_in_snapshot_process,
                 list, last_snap, prev_snap, toFree, lazy, ioerror>>

(* The page's own memory is under IO; a COW request writes a side copy. *)
UnderIo(p) == Busy(p) /\ io[p].cb # "cow"

Snapping_whenMade(r) ==                     \* mutant: the flag_have_make test inverted
  is_in_snapshot_process /\ Have(r.make_page)

Snapping(r) == is_in_snapshot_process /\ ~Have(r.make_page)
Writable(r) == r.phys_mem /\ ~r.phys_protect
NeedsCopy(r) == Snapping(r) /\ r.phys_mem /\ r.phys_dirty

(* The part of page_fault_snap_aid that copies the page and sends the copy  *)
(* to the snapshot.                                                         *)
CopyOnWrite(t, p, r) ==
  /\ CanEnqueue(p)
  /\ \E b \in IF Have(r.curr_page) THEN {r.curr_page} ELSE Candidates(free) :
       /\ pg' = [pg EXCEPT ![p] = [r EXCEPT !.make_page = b, !.curr_page = NoPage,
                                   !.phys_protect = FALSE, !.map = "rw"]]
       /\ io' = [io EXCEPT ![p] = NewIo("cow", b, ram[p])]
       /\ free' = free \ {b}
  /\ Broadcast(p)
  /\ Return(t)
  /\ UNCHANGED ram

(* page_fault_write after its wait loop; r and q are the page and its       *)
(* request as the loop leaves them.                                         *)
WriteFault(t, p, r, q) ==
  \/ /\ Writable(r)                                         \* solved meanwhile
     /\ pg' = [pg EXCEPT ![p] = IF r.phys_dirty THEN r
                                ELSE [move_to_dirty_q(r) EXCEPT !.phys_dirty = TRUE]]
     /\ io' = [io EXCEPT ![p] = q]
     /\ Return(t)
     /\ UNCHANGED <<ram, free, asleep>>
  \/ ~Writable(r) /\ NeedsCopy(r) /\ CopyOnWrite(t, p, r)
  \/ /\ ~Writable(r) /\ ~NeedsCopy(r)
     /\ LET a == IF Snapping(r) THEN TakeDiskCopy(r) ELSE r
        IN \/ /\ a.phys_mem
              /\ pg' = [pg EXCEPT ![p] = move_to_dirty_q([a EXCEPT !.phys_protect = FALSE,
                                          !.phys_dirty = TRUE, !.map = "rw"])]
              /\ io' = [io EXCEPT ![p] = q]
              /\ Return(t)
              /\ UNCHANGED ram
           \/ ~a.phys_mem /\ Populate(t, p, a, FALSE, "dirty")
     /\ UNCHANGED <<free, asleep>>

page_fault_write(t) ==
  LET p == th[t].page IN
  /\ InFault(t, "write", "fault")
  /\ \/ UnderIo(p) /\ WaitDone(t)
     \/ /\ UnderIo(p) /\ io[p].st = "queued" /\ Snapping(pg[p])   \* dequeued
        /\ WriteFault(t, p, put_on_q(pg[p], IF pg[p].phys_dirty THEN "dirty" ELSE "clean"),
                      IdleIo)
     \/ ~UnderIo(p) /\ WriteFault(t, p, pg[p], io[p])
  /\ UNCHANGED <<disk, snap, is_in_snapshot_process,
                 list, last_snap, prev_snap, toFree, lazy, ioerror>>

(* The ends of page_fault_read and page_fault_write, after their pagein. *)
PageinDone(t, op) ==
  LET p == th[t].page IN
  /\ InFault(t, op, "pagein")
  /\ \/ Busy(p) /\ WaitDone(t)
     \/ /\ ~Busy(p)
        /\ pg' = IF op = "write" /\ pg[p].phys_mem
                 THEN [pg EXCEPT ![p] = move_to_dirty_q([@ EXCEPT !.phys_dirty = TRUE])]
                 ELSE pg
        /\ Return(t)
        /\ UNCHANGED <<io, ram, free, asleep>>
  /\ UNCHANGED <<disk, snap, is_in_snapshot_process,
                 list, last_snap, prev_snap, toFree, lazy, ioerror>>

-----------------------------------------------------------------------------
(* Memory reclaim and the lazy pageout thread. *)

(* physmem_try_to_reclaim_page, called by the physical memory allocator.    *)
physmem_try_to_reclaim_page(p) ==
  /\ pg[p].phys_mem /\ ~pg[p].phys_dirty /\ pg[p].reclaim_q # "none"
  /\ pg' = [pg EXCEPT ![p] = [remove_from_q(@, "clean") EXCEPT !.phys_mem = FALSE,
                                                               !.map = "none"]]
  /\ ram' = [ram EXCEPT ![p] = Junk]
  /\ UNCHANGED <<io, disk, free, th, asleep, snap, is_in_snapshot_process,
                 list, last_snap, prev_snap, toFree, lazy, ioerror>>

QueueSize(q) == Cardinality({p \in Page : pg[p].reclaim_q = q})

need_pageout(dirty, clean) ==
  /\ dirty > 0
  /\ CASE clean < 8 -> dirty >= clean
       [] clean >= 8 /\ clean < 32 -> dirty > clean * 16
       [] OTHER -> dirty > clean * 4096

(* balance_clean_dirty: choose a page from the dirty queue, then lock it  *)
(* and write it out if it is still dirty.                                  *)
LazyPick(p) ==
  /\ lazy = 0
  /\ pg[p].reclaim_q = "dirty"
  /\ need_pageout(QueueSize("dirty"), QueueSize("clean"))
  /\ lazy' = p
  /\ UNCHANGED <<pg, io, ram, disk, free, th, asleep, snap, is_in_snapshot_process,
                 list, last_snap, prev_snap, toFree, ioerror>>

LazyPageout ==
  /\ lazy # 0
  /\ vm_page_req_pageout(lazy)
  /\ lazy' = 0
  /\ UNCHANGED <<ram, disk, th, asleep, snap, is_in_snapshot_process,
                 list, last_snap, prev_snap, toFree, ioerror>>

-----------------------------------------------------------------------------
(* do_snapshot.  vm_map_for_all walks the pages in order, one lock at a time. *)

At(pc) == snap.pc \in pc /\ Snapper \notin asleep

Last == snap.at = NumPages

(* The walk goes on at its step pc with the next page, or on to step next. *)
Walk(pc, next) ==
  snap' = IF Last THEN [pc |-> next, at |-> 1] ELSE [pc |-> pc, at |-> snap.at + 1]

StartSnapshot ==
  /\ At({"idle"})
  /\ snap' = [pc |-> "kick1", at |-> 1]
  /\ UNCHANGED <<pg, io, ram, disk, free, th, asleep, is_in_snapshot_process,
                 list, last_snap, prev_snap, toFree, lazy, ioerror>>

kick_pageout(pc, next) ==
  /\ At({pc})
  /\ vm_page_req_pageout(snap.at)
  /\ Walk(pc, next)
  /\ UNCHANGED <<ram, disk, th, asleep, is_in_snapshot_process,
                 list, last_snap, prev_snap, toFree, lazy, ioerror>>

AllStopped == \A t \in Thread : th[t].pc = "run"

mark_for_snap(r) == IF Writable(r) THEN [r EXCEPT !.phys_protect = TRUE, !.map = "ro"] ELSE r

(* Threads stopped, interrupts off: every page is marked before anyone runs. *)
MarkAll_noKick ==                           \* mutant: no second kick_pageout
  /\ At({"stop"})
  /\ AllStopped
  /\ is_in_snapshot_process' = TRUE
  /\ pg' = [p \in Page |-> mark_for_snap(pg[p])]
  /\ snap' = [pc |-> "final", at |-> 1]
  /\ UNCHANGED <<io, ram, disk, free, th, asleep,
                 list, last_snap, prev_snap, toFree, lazy, ioerror>>

MarkAll ==
  /\ At({"stop"})
  /\ AllStopped
  /\ is_in_snapshot_process' = TRUE
  /\ pg' = [p \in Page |-> mark_for_snap(pg[p])]
  /\ snap' = [pc |-> "kick2", at |-> 1]
  /\ UNCHANGED <<io, ram, disk, free, th, asleep,
                 list, last_snap, prev_snap, toFree, lazy, ioerror>>

SnapperWait(pc) == asleep' = asleep \cup {Snapper} /\ snap' = [snap EXCEPT !.pc = pc]

(* A page that has no snapshot copy yet gets its (now clean) disk copy.  The *)
(* walk ends with is_in_snapshot_process = 0.                                *)
finalize_snap ==
  LET p == snap.at
      entered == snap.pc = "final" /\ Have(pg[p].make_page)
  IN
  /\ At({"final", "fwait"})
  /\ \/ ~entered /\ Busy(p) /\ SnapperWait("fwait") /\ UNCHANGED <<pg, is_in_snapshot_process>>
     \/ /\ entered \/ ~Busy(p)
        /\ pg' = [pg EXCEPT ![p] = IF Have(@.make_page) THEN @ ELSE TakeDiskCopy(@)]
        /\ Walk("final", "save")
        /\ is_in_snapshot_process' = ~Last
        /\ UNCHANGED asleep
  /\ UNCHANGED <<io, ram, disk, free, th,
                 list, last_snap, prev_snap, toFree, lazy, ioerror>>

(* make_page is 0 for a page that has never had any data. *)
NeverUsed(r) == r.make_page = ZeroPage /\ ~Have(r.curr_page) /\ ~Have(r.prev_page)

(* save_snap up to the write of the pagelist, done with the lock dropped ... *)
SaveToList ==
  LET p == snap.at IN
  /\ At({"save"})
  /\ Have(pg[p].make_page)                 \* assert of save_snap
  /\ \/ NeverUsed(pg[p]) /\ UNCHANGED <<pg, io, free>>
     \/ ~NeverUsed(pg[p]) /\ vm_page_req_pageout(p)
  /\ list' = [list EXCEPT ![p] = pg[p].make_page]
  /\ snap' = [snap EXCEPT !.pc = "move"]
  /\ UNCHANGED <<ram, disk, th, asleep, is_in_snapshot_process,
                 last_snap, prev_snap, toFree, lazy, ioerror>>

(* ... and after it: the snapshot copy becomes the previous one. *)
MoveToPrev_keepsMake ==                     \* mutant: flag_have_make is not cleared
  LET p == snap.at IN
  /\ At({"move"})
  /\ pg' = [pg EXCEPT ![p].prev_page = pg[p].make_page]
  /\ Walk("save", "commit")
  /\ UNCHANGED <<io, ram, disk, free, th, asleep, is_in_snapshot_process,
                 list, last_snap, prev_snap, toFree, lazy, ioerror>>

MoveToPrev ==
  LET p == snap.at IN
  /\ At({"move"})
  /\ pg' = [pg EXCEPT ![p] = [@ EXCEPT !.prev_page = pg[p].make_page, !.make_page = NoPage]]
  /\ Walk("save", "commit")
  /\ UNCHANGED <<io, ram, disk, free, th, asleep, is_in_snapshot_process,
                 list, last_snap, prev_snap, toFree, lazy, ioerror>>

(* The request under way writes the page's state after the snapshot. *)
LaterIo_any(p) == Busy(p)                   \* mutant: the block is not compared

LaterIo(p) == Have(pg[p].curr_page) /\ io[p].disk_page = pg[p].curr_page

wait_commit_snap ==
  LET p == snap.at
      waiting == Busy(p) /\ (snap.pc = "cwait" \/ ~LaterIo(p))
  IN
  /\ At({"commit", "cwait"})
  /\ \/ waiting /\ SnapperWait("cwait")
     \/ ~waiting /\ Walk("commit", "super") /\ UNCHANGED asleep
  /\ UNCHANGED <<pg, io, ram, disk, free, th, is_in_snapshot_process,
                 list, last_snap, prev_snap, toFree, lazy, ioerror>>

UpdateSuperblock ==
  /\ At({"super"})
  /\ toFree' = prev_snap
  /\ prev_snap' = last_snap
  /\ last_snap' = list
  /\ list' = NoList
  /\ snap' = [pc |-> "free", at |-> 1]
  /\ UNCHANGED <<pg, io, ram, disk, free, th, asleep, is_in_snapshot_process, lazy, ioerror>>

phantom_free_snap_shared ==                 \* mutant: shared blocks are freed too
  LET dead == BlocksOf(toFree) IN
  /\ At({"free"})
  /\ free' = free \cup dead
  /\ disk' = [b \in Block |-> IF b \in dead THEN Junk ELSE disk[b]]
  /\ toFree' = NoList
  /\ snap' = [pc |-> "idle", at |-> 1]
  /\ UNCHANGED <<pg, io, ram, th, asleep, is_in_snapshot_process,
                 list, last_snap, prev_snap, lazy, ioerror>>

phantom_free_snap_leak ==                   \* mutant: nothing is freed
  /\ At({"free"})
  /\ toFree' = NoList
  /\ snap' = [pc |-> "idle", at |-> 1]
  /\ UNCHANGED <<pg, io, ram, disk, free, th, asleep, is_in_snapshot_process,
                 list, last_snap, prev_snap, lazy, ioerror>>

phantom_free_snap ==
  LET dead == BlocksOf(toFree) \ (BlocksOf(prev_snap) \cup BlocksOf(last_snap)) IN
  /\ At({"free"})
  /\ free' = free \cup dead
  /\ disk' = [b \in Block |-> IF b \in dead THEN Junk ELSE disk[b]]
  /\ toFree' = NoList
  /\ snap' = [pc |-> "idle", at |-> 1]
  /\ UNCHANGED <<pg, io, ram, th, asleep, is_in_snapshot_process,
                 list, last_snap, prev_snap, lazy, ioerror>>

-----------------------------------------------------------------------------
ThreadStep(t) ==
  \/ BeginAccess(t) \/ DoAccess(t) \/ Fault(t)
  \/ page_fault_read(t) \/ page_fault_write(t)
  \/ PageinDone(t, "read") \/ PageinDone(t, "write")

PagerStep(p) ==
  \/ Transfer(p) \/ TransferError(p)
  \/ pageout_callback(p) \/ snapper_COW_callback(p) \/ pagein_callback(p)

SnapperStep ==
  \/ kick_pageout("kick1", "stop") \/ MarkAll \/ kick_pageout("kick2", "final")
  \/ finalize_snap \/ SaveToList \/ MoveToPrev \/ wait_commit_snap
  \/ UpdateSuperblock \/ phantom_free_snap

LazyStep == (\E p \in Page : LazyPick(p)) \/ LazyPageout

Next ==
  \/ \E t \in Thread : ThreadStep(t)
  \/ \E p \in Page : PagerStep(p) \/ physmem_try_to_reclaim_page(p)
  \/ LazyStep
  \/ StartSnapshot
  \/ SnapperStep

Spec == Init /\ [][Next]_vars

(* The disk serves its queue and calls back; a thread in a memory access   *)
(* and the snapshot thread keep running.  The lazy pageout thread sleeps   *)
(* between its rounds, so that it does not win every race for the page     *)
(* against a thread about to use it: hence strong fairness for the access  *)
(* itself and for the steps of the snapshot thread that are not waits.     *)
(* The pressure for physical memory that makes the allocator reclaim pages *)
(* does not last forever.                                                  *)
Fairness ==
  /\ \A p \in Page : WF_vars(PagerStep(p))
  /\ \A t \in Thread : /\ WF_vars(ThreadStep(t) /\ th[t].pc # "run")
                        /\ SF_vars(DoAccess(t))
  /\ SF_vars(SnapperStep /\ asleep' = asleep)
  /\ <>[][~\E p \in Page : physmem_try_to_reclaim_page(p)]_vars

FairSpec == Spec /\ Fairness

-----------------------------------------------------------------------------
(* What the program, the snapshot and the disk hold for a page. *)

(* Content of block b for page p once p's queued write, if any, has arrived. *)
BlockVal(p, b) ==
  CASE b = ZeroPage -> Zero
    [] b # ZeroPage /\ io[p].st = "queued" /\ io[p].disk_page = b /\ io[p].cb = "cow" -> io[p].copy
    [] b # ZeroPage /\ io[p].st = "queued" /\ io[p].disk_page = b /\ io[p].cb = "pageout" -> ram[p]
    [] OTHER -> disk[b]

Loading(p) == io[p].st = "queued" /\ io[p].cb = "pagein"
Resident(p) == pg[p].phys_mem /\ ~Loading(p)

MemVal(p) == IF Resident(p) THEN ram[p] ELSE BlockVal(p, Source(pg[p]))

(* What vm_map_init and the faults after it would bring back after a crash. *)
DurableVal(p) == IF last_snap[p] = ZeroPage THEN Zero ELSE disk[last_snap[p]]

Making == snap.pc \notin {"idle", "kick1", "stop", "free"}

ShotVal(p) ==
  CASE ~Making -> DurableVal(p)
    [] Making /\ Have(pg[p].make_page) -> BlockVal(p, pg[p].make_page)
    [] Making /\ ~Have(pg[p].make_page) /\ is_in_snapshot_process -> MemVal(p)
    [] OTHER -> BlockVal(p, pg[p].prev_page)

Snapshots == INSTANCE AtomicSnapshot WITH
  mem <- [p \in Page |-> MemVal(p)], shot <- [p \in Page |-> ShotVal(p)],
  making <- Making, durable <- [p \in Page |-> DurableVal(p)]

-----------------------------------------------------------------------------
(* Properties. *)

(* vm_map.c implements atomic snapshots: paging never changes what the     *)
(* program sees; a snapshot is the memory at the instant mark_for_snap ran *)
(* over all pages, whatever is written while it is being saved; a crash at *)
(* any moment leaves the last completed one.                               *)
ImplementsSnapshots == Snapshots!Spec

(* No write ever reaches a block of a snapshot the superblock leads to: a  *)
(* pageout, a COW copy and the freeing of an older snapshot all leave the  *)
(* blocks of last_snap and prev_snap as they are.                          *)
CommittedImmutable ==
  [][\A b \in BlocksOf(last_snap) \cup BlocksOf(prev_snap) : disk'[b] = disk[b]]_vars

(* No request on the disk queue is about to write a block of a snapshot    *)
(* the superblock leads to, nor of the one it is about to lead to: when    *)
(* wait_commit_snap is past a page, nothing of its snapshot copy is still  *)
(* to be written.                                                          *)
SettledBlocks(p) ==
  {last_snap[p], prev_snap[p]}
  \cup IF snap.pc = "super" \/ (snap.pc \in {"commit", "cwait"} /\ p < snap.at)
       THEN {list[p]} ELSE {}
SettledNotTargeted ==
  \A p, q \in Page : io[p].st = "queued" /\ io[p].cb # "pagein"
                       => io[p].disk_page \notin SettledBlocks(q)

(* The blocks page p accounts for. *)
Refs(p) == ({pg[p].curr_page, pg[p].make_page, pg[p].prev_page}
            \cup {list[p], last_snap[p], prev_snap[p], toFree[p]}) \cap Block

(* Disk blocks are never shared: no block belongs to two pages, is free    *)
(* while some page or snapshot leads to it, or is at once the page's       *)
(* current copy and a copy some snapshot relies on.                        *)
BlocksOwnedOnce ==
  /\ \A p, q \in Page : p # q => Refs(p) \cap Refs(q) = {}
  /\ \A p \in Page : Refs(p) \cap free = {}
  /\ \A p \in Page : Have(pg[p].curr_page) =>
       pg[p].curr_page \notin {pg[p].make_page, pg[p].prev_page, list[p],
                              last_snap[p], prev_snap[p], toFree[p]}

(* vm_map.h says that flag_phys_dirty means "changed against disk (curr)   *)
(* content", and physmem_try_to_reclaim_page drops a page whose flag is 0: *)
(* such a page equals its disk copy.  One thread alone keeps to this.  Two *)
(* do not: pagein_callback maps the page read-write before the thread that *)
(* faulted has set the flag, and a store of another thread comes between.  *)
CleanMatchesDisk ==
  \A p \in Page : Resident(p) /\ ~pg[p].phys_dirty => ram[p] = BlockVal(p, Source(pg[p]))

(* A page is on a reclaim queue exactly while it has memory that no        *)
(* transfer reads or writes: the physical allocator never takes a page     *)
(* from under the disk, and no page is lost to both queues, though two     *)
(* threads fault on it, take each other's requests off the disk queue and  *)
(* transfers fail.  This is so up to the first queue operation that fails  *)
(* its assert or names a queue the page is not on, which the end of a      *)
(* write fault may do when a second thread has solved it meanwhile.        *)
ReclaimSparesIo ==
  \A p \in Page : pg[p].reclaim_q # "broken" =>
    (pg[p].reclaim_q # "none" <=> pg[p].phys_mem /\ ~UnderIo(p))

(* assert(!p->flag_phys_dirty) in finalize_snap: once the walk is past the *)
(* wait for the page's IO, a page without a snapshot copy is clean, though *)
(* threads have been running, on this page too, since it was marked.       *)
FinalizeFindsClean ==
  At({"final", "fwait"}) /\ ~Busy(snap.at) /\ ~Have(pg[snap.at].make_page)
    => ~pg[snap.at].phys_dirty

(* mark_for_snap's panic and save_snap's assert(p->flag_have_make): no     *)
(* make_page survives from one snapshot to the next, and every page has    *)
(* one when the pagelist is written.                                       *)
MakePageExact ==
  /\ snap.pc \in {"idle", "kick1", "stop", "commit", "cwait", "super", "free"} =>
       \A p \in Page : ~Have(pg[p].make_page)
  /\ snap.pc \in {"save", "move"} => \A p \in Page : p >= snap.at => Have(pg[p].make_page)

(* Every snapshot do_snapshot starts reaches the superblock and ends, with *)
(* threads writing and pages being reclaimed all the while.                *)
SnapshotCompletes == snap.pc # "idle" ~> snap.pc = "idle"

(* Every load and store is eventually carried out, however often its page  *)
(* is written out, marked or reclaimed before.                             *)
AccessCompletes == \A t \in Thread : th[t].pc # "run" ~> th[t].pc = "run"

(* Four blocks per page are always enough: pager_alloc_page finds one      *)
(* whenever vm_page_req_pageout or page_fault_snap_aid may need it (both   *)
(* panic otherwise).                                                       *)
DiskNeverFull ==
  Cardinality(Block) >= 4 * NumPages =>
    ((\E p \in Page : pg[p].phys_dirty /\ ~Have(pg[p].curr_page)) => free # {})
=============================================================================
