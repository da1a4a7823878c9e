------------------------------ MODULE MCPager ------------------------------
(* Instances of Pager for TLC: small disks with one entry to a list block,  *)
(* so that every list grows and shrinks by whole blocks.                    *)
EXTENDS Pager
=============================================================================
