--------------------------- MODULE MCGroupHierarchy ---------------------------
(***************************************************************************)
(* An instance of GroupHierarchy: root, root.p, root.p.x, and root.pq,     *)
(* whose name begins like that of root.p.                                  *)
(***************************************************************************)
EXTENDS GroupHierarchy, TLC

MCGroups == {"root", "p", "px", "pq"}
MCAbove == [g \in MCGroups |->
              CASE g = "root" -> {} [] g = "px" -> {"root", "p"} [] OTHER -> {"root"}]
MCAlike == [g \in MCGroups |->
              CASE g = "root" -> MCGroups [] g = "p" -> {"p", "px", "pq"} [] OTHER -> {g}]
Symmetry == Permutations(Threads)
=============================================================================
