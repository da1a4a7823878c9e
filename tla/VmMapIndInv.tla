---------------------------- MODULE VmMapIndInv -----------------------------
(***************************************************************************)
(* The inductive invariant behind the theorems of VmMapBlocks.             *)
(***************************************************************************)
EXTENDS VmMap

(* The inductive invariant.                                                *)
(*                                                                         *)
(* Type correctness needs to know that a request under way names a block.  *)
(* That a write never reaches a committed block rests on who owns a block  *)
(* (Own), and that in turn on how far the snapshot is: which pages have a  *)
(* make_page, which prev_page is already the new one, and until when a COW *)
(* copy may still be on its way (Phase).                                   *)

IoHasTarget == \A p \in Page : io[p].st # "idle" => /\ io[p].disk_page \in Block
                                                    /\ io[p].cb # "none"

TInv == TypeOK /\ IoHasTarget

Writing(p, cb) == io[p].st # "idle" /\ io[p].cb = cb

OwnPage(p) ==
  /\ Refs(p) \cap free = {}
  /\ Have(pg[p].curr_page) =>
       pg[p].curr_page \notin {pg[p].make_page, pg[p].prev_page, list[p],
                              last_snap[p], prev_snap[p], toFree[p]}
  /\ Writing(p, "pageout") => io[p].disk_page = pg[p].curr_page
  /\ Writing(p, "cow") => /\ io[p].disk_page \in {pg[p].make_page, list[p]}
                          /\ io[p].disk_page \notin {pg[p].curr_page, last_snap[p], prev_snap[p]}
  /\ pg[p].prev_page \in Block => pg[p].prev_page \in {last_snap[p], list[p]}

Apart == \A p, q \in Page : p # q => Refs(p) \cap Refs(q) = {}

Own == Apart /\ \A p \in Page : OwnPage(p)

PhasePage(p) ==
  /\ snap.pc \in {"idle", "kick1", "stop", "commit", "cwait", "super", "free"} =>
       ~Have(pg[p].make_page)
  /\ snap.pc \in {"final", "fwait"} /\ p < snap.at => Have(pg[p].make_page)
  /\ snap.pc \in {"save", "move"} => (Have(pg[p].make_page) <=> p >= snap.at)
  /\ snap.pc = "move" /\ p = snap.at => list[p] = pg[p].make_page
  /\ snap.pc = "save" /\ p >= snap.at => list[p] = ZeroPage
  /\ snap.pc = "move" /\ p > snap.at => list[p] = ZeroPage
  /\ snap.pc \in {"save", "move"} /\ p < snap.at => pg[p].prev_page = list[p]
  /\ snap.pc \in {"commit", "cwait", "super"} => pg[p].prev_page = list[p]
  /\ Writing(p, "cow") =>
       /\ snap.pc \in {"kick2", "final", "fwait", "save", "move", "commit", "cwait"}
       /\ snap.pc \in {"commit", "cwait"} => p >= snap.at

PhaseGlobal ==
  /\ is_in_snapshot_process <=> snap.pc \in {"kick2", "final", "fwait"}
  /\ snap.pc # "free" => toFree = NoList
  /\ snap.pc \notin {"save", "move", "commit", "cwait", "super"} => list = NoList

Phase == PhaseGlobal /\ \A p \in Page : PhasePage(p)

IInv == TInv /\ Own /\ Phase

(* A page record that replaces pg[p] and keeps its copies. *)
SameCopies(r, s) == /\ r.curr_page = s.curr_page /\ r.make_page = s.make_page
                    /\ r.prev_page = s.prev_page
=============================================================================
