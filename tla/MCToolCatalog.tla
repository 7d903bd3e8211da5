----------------------------- MODULE MCToolCatalog -----------------------------
(***************************************************************************)
(* Three tools, two of which compete in one category.                      *)
(***************************************************************************)
EXTENDS ToolCatalog, TLC

CONSTANTS joe, uni, send

MCTools == {joe, uni, send}
MCCategory == (joe :> "swap") @@ (uni :> "swap") @@ (send :> "transfer")
MCPriority == (joe :> 0) @@ (uni :> 1) @@ (send :> 0)
MCDefaults == {joe}
MCSymmetry == Permutations(Admins)
================================================================================
