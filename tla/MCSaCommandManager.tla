------------------------- MODULE MCSaCommandManager -------------------------
(***************************************************************************)
(* Processors that register and unregister while batches are processed.    *)
(***************************************************************************)
EXTENDS SaCommandManager, TLC

Symmetry ==
    Permutations(Threads) \cup Permutations(Processors)
        \cup Permutations(CommandIds)

=============================================================================
