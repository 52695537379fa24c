--------------------------- MODULE MCAstLifecycle ---------------------------
(***************************************************************************)
(* AstLifecycle with two versions that share payloads.  The trees have one *)
(* and two nodes, so that packing a payload twice with different trees,    *)
(* and a stale node count, both show.                                      *)
(***************************************************************************)
EXTENDS AstLifecycle, TLC

CONSTANTS root, child

MCTrees == {{root}, {root, child}}

VersionSymmetry == Permutations(Versions)
=============================================================================
