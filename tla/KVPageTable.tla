----------------------------- MODULE KVPageTable -----------------------------
(***************************************************************************)
(* GlobalKVPageTable of scripts/host_os_scheduler.py: the hypervisor-level *)
(* map from virtual KV pages to (node, physical page), its reverse index,  *)
(* and the per-node physical allocator (a bump pointer and a LIFO free     *)
(* list).                                                                  *)
(*                                                                         *)
(* Timestamps and the hit counters are left out: nothing in the code       *)
(* decides on them.                                                        *)
(***************************************************************************)
EXTENDS Integers, Sequences, FiniteSets

CONSTANTS
  NumNodes,       \* num_nodes
  PagesPerNode,   \* pages_per_node
  Req,            \* the requests that own pages
  MaxVirtual,     \* bound: virtual ids handed out in a behaviour
  MaxAccess       \* bound: accesses counted on one page

ASSUME NumNodesAssumption == NumNodes \in Nat \ {0}
ASSUME PagesPerNodeAssumption == PagesPerNode \in Nat
ASSUME MaxVirtualAssumption == MaxVirtual \in Nat
ASSUME MaxAccessAssumption == MaxAccess \in Nat

VARIABLES
  page_table,       \* the dict: live virtual page -> KVPage
  node_pages,       \* reverse index: node -> set of virtual pages
  next_physical,    \* _next_physical: node -> bump pointer
  free_lists,       \* _free_lists: node -> list of freed physical pages
  next_virtual_id   \* _next_virtual_id

ptVars == <<page_table, node_pages, next_physical, free_lists, next_virtual_id>>

Node == 0 .. NumNodes - 1
Frame == 0 .. PagesPerNode - 1
VirtualId == 0 .. MaxVirtual - 1
PageState == {"ALLOCATED", "SHARED"}

KVPage == [node_id : Node, physical_page_id : Frame, req_id : Req,
           state : PageState, access_count : Nat,
           is_shared_prefix : BOOLEAN, ref_count : Int]

Mapped == DOMAIN page_table

-----------------------------------------------------------------------------
(* The physical allocator.                                                 *)

\* Mutant: the capacity test is off by one.
CanAlloc_OffByOne(n) == free_lists[n] # <<>> \/ next_physical[n] <= PagesPerNode

\* _alloc_physical returns None when neither source has a page left.
CanAlloc(n) == free_lists[n] # <<>> \/ next_physical[n] < PagesPerNode

\* The page _alloc_physical returns: the last one freed, else a new one.
PhysicalFor(n) ==
  IF free_lists[n] # <<>> THEN free_lists[n][Len(free_lists[n])]
                          ELSE next_physical[n]

\* Mutant: the page is read off the list but not removed.
PoppedList_Peek(n) == free_lists[n]

\* pop(): the free list of n afterwards.
PoppedList(n) ==
  IF free_lists[n] # <<>> THEN SubSeq(free_lists[n], 1, Len(free_lists[n]) - 1)
                          ELSE free_lists[n]

BumpedNext(n) ==
  IF free_lists[n] # <<>> THEN next_physical[n] ELSE next_physical[n] + 1

-----------------------------------------------------------------------------
Init ==
  /\ page_table = [v \in {} |-> v]
  /\ node_pages = [n \in Node |-> {}]
  /\ next_physical = [n \in Node |-> 0]
  /\ free_lists = [n \in Node |-> <<>>]
  /\ next_virtual_id = 0

NewPage(n, r, shared) ==
  [node_id |-> n, physical_page_id |-> PhysicalFor(n), req_id |-> r,
   state |-> IF shared THEN "SHARED" ELSE "ALLOCATED", access_count |-> 0,
   is_shared_prefix |-> shared, ref_count |-> 1]

\* allocate_page on a node with room. On a full node it returns None and
\* changes nothing.
AllocatePage(n, r, shared) ==
  /\ next_virtual_id < MaxVirtual
  /\ CanAlloc(n)
  /\ page_table' = [v \in Mapped \cup {next_virtual_id} |->
                      IF v = next_virtual_id THEN NewPage(n, r, shared)
                                             ELSE page_table[v]]
  /\ node_pages' = [node_pages EXCEPT ![n] = @ \cup {next_virtual_id}]
  /\ free_lists' = [free_lists EXCEPT ![n] = PoppedList(n)]
  /\ next_physical' = [next_physical EXCEPT ![n] = BumpedNext(n)]
  /\ next_virtual_id' = next_virtual_id + 1

\* free_page: a shared page loses a reference first, and goes with the last.
FreePage(v) ==
  LET p == page_table[v]
      referenced == p.is_shared_prefix /\ p.ref_count - 1 > 0
  IN
  /\ v \in Mapped
  /\ IF referenced
       THEN /\ page_table' = [page_table EXCEPT ![v].ref_count = @ - 1]
            /\ UNCHANGED <<free_lists, node_pages>>
       ELSE /\ free_lists' = [free_lists EXCEPT ![p.node_id] =
                                Append(@, p.physical_page_id)]
            /\ node_pages' = [node_pages EXCEPT ![p.node_id] = @ \ {v}]
            /\ page_table' = [w \in Mapped \ {v} |-> page_table[w]]
  /\ UNCHANGED <<next_physical, next_virtual_id>>

\* record_access.
RecordAccess(v) ==
  /\ v \in Mapped
  /\ page_table[v].access_count < MaxAccess
  /\ page_table' = [page_table EXCEPT ![v].access_count = @ + 1]
  /\ UNCHANGED <<node_pages, next_physical, free_lists, next_virtual_id>>

\* Mutant: the source frame is never given back.
MigratePage_Leaks(v, dst) ==
  LET p == page_table[v] IN
  /\ v \in Mapped
  /\ p.node_id # dst
  /\ CanAlloc(dst)
  /\ free_lists' = [free_lists EXCEPT ![dst] = PoppedList(dst)]
  /\ next_physical' = [next_physical EXCEPT ![dst] = BumpedNext(dst)]
  /\ node_pages' = [node_pages EXCEPT ![p.node_id] = @ \ {v},
                                      ![dst] = @ \cup {v}]
  /\ page_table' = [page_table EXCEPT
                      ![v].node_id = dst,
                      ![v].physical_page_id = PhysicalFor(dst),
                      ![v].state = "ALLOCATED"]
  /\ UNCHANGED next_virtual_id

\* Mutant: the page is dropped from the index of its new node, the mapping having
\* been updated first.
MigratePage_LateDiscard(v, dst) ==
  LET p == page_table[v] IN
  /\ v \in Mapped
  /\ p.node_id # dst
  /\ CanAlloc(dst)
  /\ free_lists' = [free_lists EXCEPT
                      ![dst] = PoppedList(dst),
                      ![p.node_id] = Append(@, p.physical_page_id)]
  /\ next_physical' = [next_physical EXCEPT ![dst] = BumpedNext(dst)]
  /\ node_pages' = [node_pages EXCEPT ![dst] = @ \cup {v}]
  /\ page_table' = [page_table EXCEPT
                      ![v].node_id = dst,
                      ![v].physical_page_id = PhysicalFor(dst),
                      ![v].state = "ALLOCATED"]
  /\ UNCHANGED next_virtual_id

\* Mutant: the frame given back is the new one.
MigratePage_FreesNew(v, dst) ==
  LET p == page_table[v] IN
  /\ v \in Mapped
  /\ p.node_id # dst
  /\ CanAlloc(dst)
  /\ free_lists' = [free_lists EXCEPT ![dst] = Append(PoppedList(dst), PhysicalFor(dst))]
  /\ next_physical' = [next_physical EXCEPT ![dst] = BumpedNext(dst)]
  /\ node_pages' = [node_pages EXCEPT ![p.node_id] = @ \ {v},
                                      ![dst] = @ \cup {v}]
  /\ page_table' = [page_table EXCEPT
                      ![v].node_id = dst,
                      ![v].physical_page_id = PhysicalFor(dst),
                      ![v].state = "ALLOCATED"]
  /\ UNCHANGED next_virtual_id

\* migrate_page: a frame on the destination is taken before the one on the
\* source is given back. It fails, changing nothing, when the destination is
\* full.
MigratePage(v, dst) ==
  LET p == page_table[v] IN
  /\ v \in Mapped
  /\ p.node_id # dst
  /\ CanAlloc(dst)
  /\ free_lists' = [free_lists EXCEPT
                      ![dst] = PoppedList(dst),
                      ![p.node_id] = Append(@, p.physical_page_id)]
  /\ next_physical' = [next_physical EXCEPT ![dst] = BumpedNext(dst)]
  /\ node_pages' = [node_pages EXCEPT ![p.node_id] = @ \ {v},
                                      ![dst] = @ \cup {v}]
  /\ page_table' = [page_table EXCEPT
                      ![v].node_id = dst,
                      ![v].physical_page_id = PhysicalFor(dst),
                      ![v].state = "ALLOCATED"]
  /\ UNCHANGED next_virtual_id

Next ==
  \/ \E n \in Node, r \in Req, shared \in BOOLEAN : AllocatePage(n, r, shared)
  \/ \E v \in Mapped : FreePage(v)
  \/ \E v \in Mapped : RecordAccess(v)
  \/ \E v \in Mapped, dst \in Node : MigratePage(v, dst)

Spec == Init /\ [][Next]_ptVars
-----------------------------------------------------------------------------
(* Properties.                                                             *)

\* Type invariant: every live page is a KVPage with an id already handed out,
\* and the allocator's fields hold frames of the node.
TypeOK ==
  /\ next_virtual_id \in 0 .. MaxVirtual
  /\ Mapped \subseteq 0 .. next_virtual_id - 1
  /\ page_table \in [Mapped -> KVPage]
  /\ node_pages \in [Node -> SUBSET VirtualId]
  /\ next_physical \in [Node -> 0 .. PagesPerNode]
  /\ free_lists \in [Node -> Seq(Frame)]

FramesOf(n) ==
  {page_table[v].physical_page_id : v \in {w \in Mapped : page_table[w].node_id = n}}

FreeFrames(n) == {free_lists[n][i] : i \in DOMAIN free_lists[n]}

\* No two live pages share a physical page: whatever the order of allocations,
\* frees and migrations, one request never reads another one's KV data.
NoDoubleMapping ==
  \A v, w \in Mapped :
    /\ page_table[v].node_id = page_table[w].node_id
    /\ page_table[v].physical_page_id = page_table[w].physical_page_id
    => v = w

\* The frames below a node's bump pointer are each either mapped or on its free
\* list, never both and never listed twice: the allocator loses no memory and
\* gives none away twice, however often pages are freed and migrated.
FramesConserved ==
  \A n \in Node :
    /\ FramesOf(n) \cup FreeFrames(n) = 0 .. next_physical[n] - 1
    /\ FramesOf(n) \cap FreeFrames(n) = {}
    /\ \A i, j \in DOMAIN free_lists[n] :
         free_lists[n][i] = free_lists[n][j] => i = j

\* node_pages, which the migrator and the statistics read, is exactly the
\* inverse of page_table.
ReverseIndexExact ==
  \A n \in Node :
    node_pages[n] = {v \in Mapped : page_table[v].node_id = n}

\* The table is a map of virtual pages to locations with unique ids and unique
\* locations, as PageMap promises.
Abs == INSTANCE PageMap WITH
  Location <- Node \X Frame,
  where <- [v \in Mapped |-> <<page_table[v].node_id, page_table[v].physical_page_id>>],
  retired <- (0 .. next_virtual_id - 1) \ Mapped

AbsSpec == Abs!Spec
=============================================================================
