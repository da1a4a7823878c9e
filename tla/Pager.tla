------------------------------- MODULE Pager -------------------------------
(***************************************************************************)
(* The block allocator and the disk structures of the pager: the list of   *)
(* free blocks, the reserve, the three copies of the superblock and the    *)
(* lists of the last two snapshots, through crashes and restarts.  The     *)
(* snapshot thread runs do_snapshot (vm_map.c); other threads page out and *)
(* allocate at the same time.  What the pages hold is left out: VmMap      *)
(* models it.                                                              *)
(*                                                                         *)
(* A step is what one thread does between two waits for the disk or for a  *)
(* mutex.  Everything in memory is lost by a crash; disk and sbs stay.     *)
(***************************************************************************)
EXTENDS Integers, Sequences, FiniteSets, SequencesExt

CONSTANTS
  NumPages,       \* pages of the object space, vm_map_vm_page_count
  NRef,           \* N_REF_PER_BLOCK, entries of a list block
  ReserveSize,    \* free_reserve_size
  LastBlock,      \* disk_page_count - 1
  FormatBlocks,   \* blocks below free_start once the format is completed
  Snapper,        \* the thread of do_snapshot; boot and shutdown run in it
  Allocators,     \* other threads that page out
  NoThread,       \* owner of a mutex that is free
  MaxStops,       \* bound: how often the machine stops and boots again
  MaxSnaps        \* bound: how many snapshots are started

ASSUME PagerAssumption ==
  /\ NumPages \in Nat \ {0} /\ NRef \in Nat \ {0} /\ ReserveSize \in Nat \ {0}
  /\ LastBlock \in Nat /\ FormatBlocks \in 1 .. LastBlock
  /\ FormatBlocks - 1 <= NRef
  /\ MaxStops \in Nat /\ MaxSnaps \in Nat
  /\ Snapper \notin Allocators /\ NoThread \notin Allocators \cup {Snapper}

VARIABLES
  power,     \* "up", "down", or "dead": pager_get_superblock panics
  sb,        \* superblock, in memory
  sbs,       \* its three copies on the disk
  disk,      \* block -> what was last written there
  head,      \* freelist_head, the cached head block of the free list
  reserve,   \* free_reserve
  mutex,     \* owner of pager_freelist_mutex, or NoThread
  io,        \* superblock_io
  pages,     \* prev_page, curr_page and make_page of every page
  pc, stack, \* per thread: where it is, and where its calls return to
  loc,       \* per thread: the block it got, the superblock copy it writes,
             \* the page whose lock it holds
  snap,      \* locals of do_snapshot
  flushed,   \* history: the free list was saved since the last commit
  safe,      \* history: the machine never stopped while flushed was FALSE
  snaps,     \* history: how many snapshots were started
  stops      \* history: how often the machine stopped since the format

vars == <<power, sb, sbs, disk, head, reserve, mutex, io, pages, pc, stack,
          loc, snap, flushed, safe, snaps, stops>>
history == <<flushed, safe, snaps, stops>>

Thread == {Snapper} \cup Allocators
Page == 1 .. NumPages
Block == 1 .. LastBlock
Copy == 1 .. 3

Blocklist(magic, list, next) == [magic |-> magic, list |-> list, next |-> next]
Data == Blocklist("data", << >>, 0)
NoHead == Blocklist("none", << >>, 0)

Fresh == [free_start |-> 1, free_list |-> 0, last_snap |-> 0, prev_snap |-> 0,
          has_copies |-> FALSE]

NoPages == [p \in Page |-> [prev |-> 0, curr |-> 0, make |-> 0]]
NoSnap == [root |-> 0, blk |-> 0, list |-> << >>, page |-> 1, old |-> 0,
           own |-> {}, todo |-> {}]
IdleIo == [busy |-> FALSE, copy |-> 1, data |-> Fresh]
NoLoc == [t \in Thread |-> [got |-> 0, copy |-> 1, page |-> 0]]

-----------------------------------------------------------------------------
(* Reading a chain of list blocks.                                         *)

(* The list blocks from b on, as the next fields on the disk d lead        *)
(* through them.  The walk ends at a block that is not a list of that kind.*)
Chain(d, magic, b) ==
  LET walk[k \in 0 .. LastBlock] ==
        IF k = 0 THEN << >>
        ELSE LET seen == walk[k - 1]
                 next == IF seen = << >> THEN b ELSE d[Last(seen)].next
             IN  IF next = 0 \/ next \in ToSet(seen) \/ d[next].magic # magic
                   THEN seen
                   ELSE Append(seen, next)
  IN  walk[LastBlock]

(* The entries of the list that starts at b, in order.                     *)
Entries(d, magic, b) ==
  LET c == Chain(d, magic, b) IN FlattenSeq([i \in DOMAIN c |-> d[c[i]].list])

(* Every block the snapshot list at b stands for: its own and its pages.   *)
ForList(d, b) ==
  (ToSet(Chain(d, "snap", b)) \cup ToSet(Entries(d, "snap", b))) \ {0}

(* fsck_forlist finds nothing wrong: the walk ended at a next field of 0.  *)
Sane(b) ==
  \/ b = 0
  \/ /\ Chain(disk, "snap", b) # << >>
     /\ disk[Last(Chain(disk, "snap", b))].next = 0

-----------------------------------------------------------------------------
(* Calls: a thread waits in a called function and comes back to a label.   *)

Goto(t, l) == pc' = [pc EXCEPT ![t] = l] /\ UNCHANGED stack

Call(t, l, back) ==
  /\ pc' = [pc EXCEPT ![t] = l]
  /\ stack' = [stack EXCEPT ![t] = <<back>> \o @]

Return(t) ==
  /\ pc' = [pc EXCEPT ![t] = Head(stack[t])]
  /\ stack' = [stack EXCEPT ![t] = Tail(@)]

(* The machine stops: memory is gone.                                      *)
Stop(state) ==
  /\ power' = state
  /\ sb' = Fresh /\ head' = NoHead /\ reserve' = << >> /\ mutex' = NoThread
  /\ io' = IdleIo /\ pages' = NoPages /\ snap' = NoSnap /\ loc' = NoLoc
  /\ pc' = [t \in Thread |-> "off"] /\ stack' = [t \in Thread |-> << >>]
  /\ flushed' = TRUE /\ safe' = (safe /\ flushed) /\ stops' = stops + 1
  /\ UNCHANGED <<sbs, disk, snaps>>

At(t, l) == power = "up" /\ pc[t] = l

-----------------------------------------------------------------------------
(* pager_update_superblock                                                 *)

SbCopy(t) ==
  /\ At(t, "sb_copy")
  /\ ~io.busy
  /\ io' = [busy |-> FALSE, copy |-> 1, data |-> sb]
  /\ loc' = [loc EXCEPT ![t].copy = 1]
  /\ Goto(t, "sb_save")
  /\ UNCHANGED <<power, sb, sbs, disk, head, reserve, mutex, pages, snap,
                 history>>

(* The assertion fails: another thread's write of a copy is on its way.    *)
SbPanic(t) ==
  /\ At(t, "sb_copy")
  /\ io.busy
  /\ Stop("down")

SbSave(t) ==
  /\ At(t, "sb_save")
  /\ ~io.busy
  /\ io' = [io EXCEPT !.busy = TRUE]
  /\ Goto(t, "sb_wait")
  /\ UNCHANGED <<power, sb, sbs, disk, head, reserve, mutex, pages, loc, snap,
                 history>>

(* The disk completes the request.                                         *)
SbWritten ==
  /\ power = "up"
  /\ io.busy
  /\ sbs' = [sbs EXCEPT ![io.copy] = io.data]
  /\ io' = [io EXCEPT !.busy = FALSE]
  /\ UNCHANGED <<power, sb, disk, head, reserve, mutex, pages, pc, stack, loc,
                 snap, history>>

MoreCopies_two(t) == loc[t].copy < 2      \* mutant: the third is left out
MoreCopies(t) == loc[t].copy < 3

SbNext(t) ==
  /\ At(t, "sb_wait")
  /\ ~io.busy
  /\ IF MoreCopies(t)
       THEN /\ loc' = [loc EXCEPT ![t].copy = @ + 1]
            /\ io' = [io EXCEPT !.copy = loc[t].copy + 1]
            /\ Goto(t, "sb_save")
       ELSE /\ Return(t)
            /\ loc' = [loc EXCEPT ![t].copy = 1]
            /\ UNCHANGED io
  /\ UNCHANGED <<power, sb, sbs, disk, head, reserve, mutex, pages, snap,
                 history>>

-----------------------------------------------------------------------------
(* pager_alloc_page and pager_refill_free_reserve                          *)

MutexFree_ignored == TRUE                 \* mutant: nobody takes the mutex
MutexFree == mutex = NoThread

AllocLock(t) ==
  /\ At(t, "alloc")
  /\ MutexFree
  /\ mutex' = t
  /\ Goto(t, "refill")
  /\ UNCHANGED <<power, sb, sbs, disk, head, reserve, io, pages, loc, snap,
                 history>>

ReserveLow_full == Len(reserve) <= ReserveSize    \* mutant: one too many
ReserveLow == Len(reserve) < ReserveSize

NoNextHead == head.next \in {0, sb.free_list}

RefillFromHead(t) ==
  /\ At(t, "refill")
  /\ ReserveLow
  /\ head.list # << >>
  /\ reserve' = Append(reserve, Last(head.list))
  /\ head' = [head EXCEPT !.list = Front(@)]
  /\ UNCHANGED <<power, sb, sbs, disk, mutex, io, pages, pc, stack, loc, snap,
                 history>>

(* The empty head block itself becomes a free block; the next one is read  *)
(* from the disk and, unless it is insane, the superblock saved.           *)
RefillNextHead_unsaved(t) ==              \* mutant: the superblock is not saved
  /\ At(t, "refill")
  /\ ReserveLow
  /\ head.list = << >>
  /\ ~NoNextHead
  /\ reserve' = Append(reserve, sb.free_list)
  /\ sb' = [sb EXCEPT !.free_list = head.next]
  /\ head' = IF disk[head.next].magic = "free" THEN disk[head.next] ELSE NoHead
  /\ UNCHANGED <<power, sbs, disk, mutex, io, pages, pc, stack, loc, snap,
                 history>>

RefillNextHead(t) ==
  /\ At(t, "refill")
  /\ ReserveLow
  /\ head.list = << >>
  /\ ~NoNextHead
  /\ reserve' = Append(reserve, sb.free_list)
  /\ sb' = [sb EXCEPT !.free_list = head.next]
  /\ IF disk[head.next].magic = "free"
       THEN head' = disk[head.next] /\ Call(t, "sb_copy", "refill")
       ELSE head' = NoHead /\ Goto(t, "refill")
  /\ UNCHANGED <<power, sbs, disk, mutex, io, pages, loc, snap, history>>

RefillFromStart(t) ==
  /\ At(t, "refill")
  /\ ReserveLow
  /\ head.list = << >>
  /\ NoNextHead
  /\ sb.free_start <= LastBlock
  /\ reserve' = Append(reserve, sb.free_start)
  /\ sb' = [sb EXCEPT !.free_start = @ + 1]
  /\ UNCHANGED <<power, sbs, disk, head, mutex, io, pages, pc, stack, loc, snap,
                 history>>

Refilled ==
  \/ Len(reserve) = ReserveSize
  \/ head.list = << >> /\ NoNextHead /\ sb.free_start > LastBlock

AllocDone(t) ==
  /\ At(t, "refill")
  /\ Refilled
  /\ reserve # << >>
  /\ loc' = [loc EXCEPT ![t].got = Last(reserve)]
  /\ reserve' = Front(reserve)
  /\ mutex' = NoThread
  /\ Return(t)
  /\ UNCHANGED <<power, sb, sbs, disk, head, io, pages, snap, history>>

(* Every caller panics when the disk is full.                              *)
AllocFailed(t) ==
  /\ At(t, "refill")
  /\ Refilled
  /\ reserve = << >>
  /\ Stop("down")

-----------------------------------------------------------------------------
(* Paging out: a page with no block for its current contents gets one.     *)

Idle(t) == pc[t] \in IF t = Snapper THEN {"kick", "marked"} ELSE {"idle"}

Locked(p) == \E t \in Thread : loc[t].page = p

(* The pages are marked and is_in_snapshot_process is set.                 *)
Snapping ==
  \/ pc[Snapper] \in {"marked", "finalize"}
  \/ "marked" \in ToSet(stack[Snapper])

LockAndAlloc(t, p, then) ==
  /\ loc' = [loc EXCEPT ![t].page = p]
  /\ pc' = [pc EXCEPT ![t] = "alloc"]
  /\ stack' = [stack EXCEPT ![t] = <<then, pc[t]>> \o @]

(* The block got is written and becomes the field's; the lock is released. *)
BlockWritten(t, field) ==
  /\ pages' = [pages EXCEPT ![loc[t].page][field] = loc[t].got]
  /\ disk' = [disk EXCEPT ![loc[t].got] = Data]
  /\ loc' = [loc EXCEPT ![t].page = 0, ![t].got = 0]
  /\ Return(t)
  /\ UNCHANGED <<power, sb, sbs, head, reserve, mutex, io, snap, history>>

Pageout(t, p) ==
  /\ power = "up" /\ Idle(t)
  /\ ~Locked(p)
  /\ pages[p].curr = 0
  /\ LockAndAlloc(t, p, "pageout")
  /\ UNCHANGED <<power, sb, sbs, disk, head, reserve, mutex, io, pages, snap,
                 history>>

PageoutWritten(t) == At(t, "pageout") /\ BlockWritten(t, "curr")

(* A write fault on a page that the snapshot has marked and not settled:   *)
(* the snapshot gets the block of the current contents, or a new one.      *)
CopyOnWrite(t, p) ==
  /\ power = "up" /\ t \in Allocators /\ Idle(t)
  /\ Snapping /\ p >= snap.page
  /\ ~Locked(p)
  /\ pages[p].make = 0
  /\ IF pages[p].curr # 0
       THEN /\ pages' = [pages EXCEPT ![p].make = pages[p].curr, ![p].curr = 0]
            /\ UNCHANGED <<loc, pc, stack>>
       ELSE /\ LockAndAlloc(t, p, "cow")
            /\ UNCHANGED pages
  /\ UNCHANGED <<power, sb, sbs, disk, head, reserve, mutex, io, snap, history>>

CopyWritten(t) == At(t, "cow") /\ BlockWritten(t, "make")

-----------------------------------------------------------------------------
(* do_snapshot.  The snapshot thread pages out what it likes, before and   *)
(* after it marks the pages, settles the block of every page, writes the   *)
(* list and commits it.                                                    *)

StartSnapshot ==
  /\ At(Snapper, "idle")
  /\ snaps < MaxSnaps
  /\ snaps' = snaps + 1
  /\ snap' = NoSnap
  /\ Goto(Snapper, "kick")
  /\ UNCHANGED <<power, sb, sbs, disk, head, reserve, mutex, io, pages, loc,
                 flushed, safe, stops>>

MarkPages ==
  /\ At(Snapper, "kick")
  /\ Goto(Snapper, "marked")
  /\ UNCHANGED <<power, sb, sbs, disk, head, reserve, mutex, io, pages, loc,
                 snap, history>>

Settled(pg) ==
  IF pg.make # 0 THEN pg
  ELSE IF pg.curr # 0 THEN [pg EXCEPT !.curr = 0, !.make = pg.curr]
  ELSE [pg EXCEPT !.prev = 0, !.make = pg.prev]

Finalize ==
  LET p == snap.page IN
  /\ At(Snapper, "marked") \/ At(Snapper, "finalize")
  /\ p \in Page
  /\ ~Locked(p)
  /\ pages' = [pages EXCEPT ![p] = Settled(pages[p])]
  /\ snap' = [snap EXCEPT !.page = p + 1]
  /\ Goto(Snapper, "finalize")
  /\ UNCHANGED <<power, sb, sbs, disk, head, reserve, mutex, io, loc, history>>

AllocRoot ==
  /\ At(Snapper, "finalize")
  /\ snap.page > NumPages
  /\ Call(Snapper, "alloc", "root")
  /\ UNCHANGED <<power, sb, sbs, disk, head, reserve, mutex, io, pages, loc,
                 snap, history>>

PagelistInit ==
  /\ At(Snapper, "root")
  /\ disk' = [disk EXCEPT ![loc[Snapper].got] = Blocklist("snap", << >>, 0)]
  /\ snap' = [snap EXCEPT !.root = loc[Snapper].got, !.blk = loc[Snapper].got,
                          !.list = << >>, !.own = {loc[Snapper].got},
                          !.page = 1]
  /\ loc' = [loc EXCEPT ![Snapper].got = 0]
  /\ Goto(Snapper, "save")
  /\ UNCHANGED <<power, sb, sbs, head, reserve, mutex, io, pages, history>>

PagelistWrite ==
  LET p == snap.page IN
  /\ At(Snapper, "save")
  /\ p \in Page
  /\ Len(snap.list) < NRef
  /\ snap' = [snap EXCEPT !.list = Append(@, pages[p].make), !.page = p + 1]
  /\ pages' = [pages EXCEPT ![p].prev = pages[p].make, ![p].make = 0]
  /\ UNCHANGED <<power, sb, sbs, disk, head, reserve, mutex, io, pc, stack, loc,
                 history>>

PagelistFull ==
  /\ At(Snapper, "save")
  /\ snap.page \in Page
  /\ Len(snap.list) = NRef
  /\ Call(Snapper, "alloc", "link")
  /\ UNCHANGED <<power, sb, sbs, disk, head, reserve, mutex, io, pages, loc,
                 snap, history>>

ListBlock_unlinked(next) == Blocklist("snap", snap.list, 0)  \* mutant: no link
ListBlock(next) == Blocklist("snap", snap.list, next)

PagelistLink ==
  /\ At(Snapper, "link")
  /\ disk' = [disk EXCEPT ![snap.blk] = ListBlock(loc[Snapper].got)]
  /\ snap' = [snap EXCEPT !.blk = loc[Snapper].got, !.list = << >>,
                          !.own = @ \cup {loc[Snapper].got}]
  /\ loc' = [loc EXCEPT ![Snapper].got = 0]
  /\ Goto(Snapper, "save")
  /\ UNCHANGED <<power, sb, sbs, head, reserve, mutex, io, pages, history>>

PagelistFlush ==
  /\ At(Snapper, "save")
  /\ snap.page > NumPages
  /\ disk' = [disk EXCEPT ![snap.blk] = ListBlock(0)]
  /\ snap' = [snap EXCEPT !.blk = 0, !.list = << >>]
  /\ Goto(Snapper, "commit")
  /\ UNCHANGED <<power, sb, sbs, head, reserve, mutex, io, pages, loc, history>>

Commit ==
  /\ At(Snapper, "commit")
  /\ snap' = [snap EXCEPT !.old = sb.prev_snap]
  /\ sb' = [sb EXCEPT !.prev_snap = sb.last_snap, !.last_snap = snap.root]
  /\ flushed' = FALSE
  /\ Call(Snapper, "sb_copy", "old")
  /\ UNCHANGED <<power, sbs, disk, head, reserve, mutex, io, pages, loc, safe,
                 snaps, stops>>

-----------------------------------------------------------------------------
(* phantom_free_snap and pager_put_to_free_list                            *)

NoOldSnap ==
  /\ At(Snapper, "old")
  /\ snap.old = 0
  /\ snap' = NoSnap
  /\ Call(Snapper, "sb_copy", "idle")
  /\ UNCHANGED <<power, sb, sbs, disk, head, reserve, mutex, io, pages, loc,
                 history>>

Unused_newOnly ==                         \* mutant: the middle list is not marked
  ForList(disk, snap.old) \ ForList(disk, sb.last_snap)

Unused_pagesOnly ==                       \* mutant: list blocks are not freed
  (ToSet(Entries(disk, "snap", snap.old)) \ {0})
    \ (ForList(disk, sb.prev_snap) \cup ForList(disk, sb.last_snap))

(* The blocks of the oldest list that neither younger list leads to.       *)
Unused ==
  ForList(disk, snap.old)
    \ (ForList(disk, sb.prev_snap) \cup ForList(disk, sb.last_snap))

FreeSnap ==
  /\ At(Snapper, "old")
  /\ snap.old # 0
  /\ snap' = [NoSnap EXCEPT !.todo = Unused]
  /\ Goto(Snapper, "free")
  /\ UNCHANGED <<power, sb, sbs, disk, head, reserve, mutex, io, pages, loc,
                 history>>

NextToFree == CHOOSE b \in snap.todo : \A c \in snap.todo : b <= c

PutToFreeList ==
  /\ At(Snapper, "free")
  /\ snap.todo # {}
  /\ MutexFree
  /\ Len(head.list) < NRef
  /\ head' = [head EXCEPT !.list = Append(@, NextToFree)]
  /\ snap' = [snap EXCEPT !.todo = @ \ {NextToFree}]
  /\ UNCHANGED <<power, sb, sbs, disk, reserve, mutex, io, pages, pc, stack,
                 loc, history>>

HeadSaved == [disk EXCEPT ![sb.free_list] = head]

(* The head is full: it is saved, and the block freed becomes the head.    *)
SaveFullHead ==
  /\ At(Snapper, "free")
  /\ snap.todo # {}
  /\ MutexFree
  /\ Len(head.list) >= NRef
  /\ mutex' = Snapper
  /\ disk' = HeadSaved
  /\ Goto(Snapper, "format")
  /\ UNCHANGED <<power, sb, sbs, head, reserve, io, pages, loc, snap, history>>

EmptyHead_listed ==                       \* mutant: the new head lists itself
  Blocklist("free", <<NextToFree>>, sb.free_list)

EmptyHead == Blocklist("free", << >>, sb.free_list)

FormatHead ==
  /\ At(Snapper, "format")
  /\ head' = EmptyHead
  /\ disk' = [disk EXCEPT ![NextToFree] = EmptyHead]
  /\ sb' = [sb EXCEPT !.free_list = NextToFree]
  /\ snap' = [snap EXCEPT !.todo = @ \ {NextToFree}]
  /\ mutex' = NoThread
  /\ Goto(Snapper, "free")
  /\ UNCHANGED <<power, sbs, reserve, io, pages, loc, history>>

FlushFreeList ==
  /\ At(Snapper, "free")
  /\ snap.todo = {}
  /\ MutexFree
  /\ disk' = HeadSaved
  /\ flushed' = TRUE
  /\ Call(Snapper, "sb_copy", "idle")
  /\ UNCHANGED <<power, sb, sbs, head, reserve, mutex, io, pages, loc, snap,
                 safe, snaps, stops>>

-----------------------------------------------------------------------------
(* Boot, shutdown and crash                                                *)

CopiesEqual == \A i, j \in Copy : sbs[i] = sbs[j]

MayBoot == power = "down" /\ stops <= MaxStops

(* A disk with no copies of the superblock: the format is completed.       *)
BootFresh ==
  /\ MayBoot
  /\ ~sbs[1].has_copies
  /\ power' = "up"
  /\ sb' = [Fresh EXCEPT !.free_start = FormatBlocks + 1, !.free_list = 1,
                         !.has_copies = TRUE]
  /\ head' = Blocklist("free", [i \in 1 .. FormatBlocks - 1 |-> i + 1], 0)
  /\ disk' = [disk EXCEPT ![1] = Blocklist("free", << >>, 0)]
  /\ Call(Snapper, "sb_copy", "boot_free")
  /\ UNCHANGED <<sbs, reserve, mutex, io, pages, loc, snap, history>>

BootGood ==
  /\ MayBoot
  /\ sbs[1].has_copies /\ CopiesEqual
  /\ power' = "up"
  /\ sb' = sbs[1]
  /\ Goto(Snapper, "fsck_last")
  /\ UNCHANGED <<sbs, disk, head, reserve, mutex, io, pages, loc, snap, history>>

BootPanic ==
  /\ MayBoot
  /\ sbs[1].has_copies /\ ~CopiesEqual
  /\ Stop("dead")

(* phantom_fsck_lists drops a snapshot whose list is damaged.              *)
FsckList(here, field, then) ==
  /\ At(Snapper, here)
  /\ IF Sane(sb[field])
       THEN Goto(Snapper, then) /\ UNCHANGED sb
       ELSE sb' = [sb EXCEPT ![field] = 0] /\ Call(Snapper, "sb_copy", then)
  /\ UNCHANGED <<power, sbs, disk, head, reserve, mutex, io, pages, loc, snap,
                 history>>

FsckLast == FsckList("fsck_last", "last_snap", "fsck_prev")
FsckPrev == FsckList("fsck_prev", "prev_snap", "boot_free")

(* pager_fast_fsck: the head of the free list is read, unless completing   *)
(* the format has left it in memory, and must be one.                      *)
BootFreeList ==
  /\ At(Snapper, "boot_free")
  /\ LET h == IF head = NoHead THEN disk[sb.free_list] ELSE head IN
       IF h.magic = "free"
         THEN /\ head' = h
              /\ Call(Snapper, "sb_copy", "load")
              /\ UNCHANGED <<power, sb, sbs, disk, reserve, mutex, io, pages,
                             loc, snap, history>>
         ELSE Stop("dead")

(* vm_map_init: the pages of the last snapshot; a missing entry is 0.      *)
LoadPages ==
  /\ At(Snapper, "load")
  /\ LET l == Entries(disk, "snap", sb.last_snap) IN
       pages' = [p \in Page |->
         [prev |-> IF p <= Len(l) THEN l[p] ELSE 0, curr |-> 0, make |-> 0]]
  /\ pc' = [t \in Thread |-> "idle"]
  /\ UNCHANGED <<power, sb, sbs, disk, head, reserve, mutex, io, stack, loc,
                 snap, history>>

(* pager_finish, once the other threads are finished.                      *)
Shutdown ==
  /\ \A t \in Thread : At(t, "idle")
  /\ stops < MaxStops
  /\ disk' = HeadSaved
  /\ flushed' = TRUE
  /\ Call(Snapper, "sb_copy", "halt")
  /\ UNCHANGED <<power, sb, sbs, head, reserve, mutex, io, pages, loc, snap,
                 safe, snaps, stops>>

Halt ==
  /\ At(Snapper, "halt")
  /\ Stop("down")

Crash ==
  /\ power = "up"
  /\ stops < MaxStops
  /\ Stop("down")

-----------------------------------------------------------------------------
Init ==
  /\ power = "down"
  /\ sb = Fresh /\ sbs = [i \in Copy |-> Fresh]
  /\ disk = [b \in Block |-> Data]
  /\ head = NoHead /\ reserve = << >> /\ mutex = NoThread /\ io = IdleIo
  /\ pages = NoPages /\ snap = NoSnap /\ loc = NoLoc
  /\ pc = [t \in Thread |-> "off"] /\ stack = [t \in Thread |-> << >>]
  /\ flushed = TRUE /\ safe = TRUE /\ snaps = 0 /\ stops = 0

ThreadStep(t) ==
  \/ SbCopy(t) \/ SbPanic(t) \/ SbSave(t) \/ SbNext(t)
  \/ AllocLock(t) \/ RefillFromHead(t) \/ RefillNextHead(t)
  \/ RefillFromStart(t) \/ AllocDone(t) \/ AllocFailed(t)
  \/ PageoutWritten(t) \/ CopyWritten(t)

SnapperStep ==
  \/ MarkPages \/ Finalize \/ AllocRoot
  \/ PagelistInit \/ PagelistWrite \/ PagelistFull
  \/ PagelistLink \/ PagelistFlush \/ Commit \/ NoOldSnap \/ FreeSnap
  \/ PutToFreeList \/ SaveFullHead \/ FormatHead \/ FlushFreeList

BootStep ==
  \/ BootFresh \/ BootGood \/ BootPanic \/ FsckLast \/ FsckPrev
  \/ BootFreeList \/ LoadPages

Next ==
  \/ \E t \in Thread : ThreadStep(t)
  \/ \E t \in Thread, p \in Page : Pageout(t, p) \/ CopyOnWrite(t, p)
  \/ SbWritten \/ StartSnapshot \/ SnapperStep
  \/ BootStep \/ Shutdown \/ Halt \/ Crash

Spec == Init /\ [][Next]_vars

-----------------------------------------------------------------------------
(* The blocks the allocator can still hand out, each place in turn.        *)
FreeSeq ==
  reserve \o head.list \o <<sb.free_list>> \o Chain(disk, "free", head.next)
    \o Entries(disk, "free", head.next)

Free == ToSet(FreeSeq) \cup sb.free_start .. LastBlock

(* The blocks something leads to: the pages, the list being written and    *)
(* the two snapshots.                                                      *)
InUse ==
  (UNION {{pages[p].prev, pages[p].curr, pages[p].make} : p \in Page}
    \cup {loc[t].got : t \in Thread} \cup snap.own
    \cup ForList(disk, sb.last_snap) \cup ForList(disk, sb.prev_snap)) \ {0}

Running == power = "up" /\ \A t \in Allocators : pc[t] # "off"
Quiet == Running /\ \A t \in Thread : pc[t] = "idle"

(* The reserve and the head block stay within their arrays, and block      *)
(* numbers within the disk.                                                *)
TypeOK ==
  /\ power \in {"up", "down", "dead"}
  /\ head.list \in Seq(Block) /\ Len(head.list) <= NRef
  /\ reserve \in Seq(Block) /\ Len(reserve) <= ReserveSize
  /\ mutex \in Thread \cup {NoThread}
  /\ io.copy \in Copy /\ io.busy \in BOOLEAN
  /\ \A p \in Page : {pages[p].prev, pages[p].curr, pages[p].make}
                       \subseteq Block \cup {0}

(* The reserve, the cached head, the head block itself and the chain of    *)
(* list blocks on the disk together hold a free block once, and none that  *)
(* free_start still counts as never used, so pager_alloc_page cannot hand  *)
(* a block out twice.  Through any number of restarts, as long as the      *)
(* machine did not stop between a commit and the next save of the list.    *)
FreeOnce ==
  safe /\ Running =>
    /\ IsInjective(FreeSeq)
    /\ ToSet(FreeSeq) \subseteq 1 .. sb.free_start - 1

(* No block that a page, the list being written or one of the two          *)
(* snapshots uses can be handed out: phantom_free_snap frees only what     *)
(* nothing leads to, and a restart finds no used block on the free list.   *)
UsedNotFree == safe /\ Running => Free \cap InUse = {}

(* Until the machine first stops no block is lost: every block is free or  *)
(* in use between two snapshots.  In particular phantom_free_snap gives    *)
(* back the blocks of the old list itself, not only those of its pages.    *)
NoLeak == stops = 0 /\ Quiet => Free \cup InUse = Block

(* What a boot would find.                                                 *)
FreeOnDisk ==
  ToSet(Chain(disk, "free", sbs[1].free_list)) \cup
  ToSet(Entries(disk, "free", sbs[1].free_list)) \cup
  sbs[1].free_start .. LastBlock

Bootable == sbs[1].has_copies /\ CopiesEqual

(* A crash at any step that leaves the superblock copies equal, other than *)
(* one between a commit and the next save of the free list, leaves a disk  *)
(* whose free list has no block of the two snapshots, although blocks      *)
(* have moved to the reserve and into use since the list was last written. *)
RestartSafe ==
  safe /\ flushed /\ Bootable =>
    FreeOnDisk \cap (ForList(disk, sbs[1].last_snap)
                       \cup ForList(disk, sbs[1].prev_snap)) = {}

(* The block the superblock on the disk names as head of the free list is  *)
(* one: pager_refill_free_reserve saves the superblock before it hands out *)
(* an old head block, pager_put_to_free_list formats a new one before it   *)
(* is named.  Else pager_fast_fsck would panic at the next start.          *)
FreeHeadOnDisk == safe /\ Bootable => disk[sbs[1].free_list].magic = "free"

(* Both snapshots of a superblock on the disk can be read: phantom_fsck    *)
(* finds no damage, every page has an entry, and no entry leads to a block *)
(* that has since become part of a list.  The list is complete before the  *)
(* superblock leads to it.                                                 *)
SnapshotReadable ==
  safe /\ Bootable =>
    \A s \in {sbs[1].last_snap, sbs[1].prev_snap} \ {0} :
      /\ Sane(s)
      /\ Len(Entries(disk, "snap", s)) = NumPages
      /\ \A b \in ToSet(Entries(disk, "snap", s)) \ {0} : disk[b] = Data

(* When no update of the superblock is under way its three copies agree,   *)
(* so only a stop inside pager_update_superblock makes pager_get_superblock *)
(* panic at the next start.                                                *)
CopiesAgree ==
  Running /\ (\A t \in Thread : pc[t] \notin {"sb_copy", "sb_save", "sb_wait"})
    => CopiesEqual
=============================================================================
