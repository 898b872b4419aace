---------------------------- MODULE KVDefragment ----------------------------
(***************************************************************************)
(* DynamicMigrator.defragment of scripts/host_os_scheduler.py over the     *)
(* page table: the live pages of a node are renumbered 0, 1, 2, ... in the *)
(* order of their frames. The allocator's free list and bump pointer are   *)
(* not touched.                                                            *)
(***************************************************************************)
EXTENDS KVPageTable

\* The position of v in the node's pages sorted by frame.
Rank(n, v) ==
  Cardinality({w \in node_pages[n] \cap Mapped :
    \/ page_table[w].physical_page_id < page_table[v].physical_page_id
    \/ /\ page_table[w].physical_page_id = page_table[v].physical_page_id
       /\ w < v})

Defragment(n) ==
  /\ page_table' = [v \in Mapped |->
                      IF v \in node_pages[n]
                        THEN [page_table[v] EXCEPT !.physical_page_id = Rank(n, v)]
                        ELSE page_table[v]]
  /\ UNCHANGED <<node_pages, next_physical, free_lists, next_virtual_id>>

DefragNext == Next \/ \E n \in Node : Defragment(n)

DefragSpec == Init /\ [][DefragNext]_ptVars
=============================================================================
