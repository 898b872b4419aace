-------------------------- MODULE KVPageTableProofs --------------------------
(* Theorems about KVPageTable, for every number of nodes, pages and ids.   *)
EXTENDS KVPageTable, TLAPS

-----------------------------------------------------------------------------
(* Lemmas about lists.                                                     *)

Elements(s) == {s[i] : i \in DOMAIN s}
Distinct(s) == \A i, j \in DOMAIN s : s[i] = s[j] => i = j

\* Removing the last element of a list without repetitions removes exactly that
\* element.
LEMMA PopLemma ==
  ASSUME NEW S, NEW s \in Seq(S), s # <<>>, Distinct(s),
         NEW t, t = SubSeq(s, 1, Len(s) - 1), NEW x, x = s[Len(s)]
  PROVE  /\ t \in Seq(S) /\ Distinct(t)
         /\ x \in S
         /\ Elements(t) = Elements(s) \ {x} /\ x \in Elements(s)
<1>1. PICK k \in Nat : k > 0 /\ Len(s) = k /\ DOMAIN s = 1 .. k
  OBVIOUS
<1>2. t \in Seq(S) /\ DOMAIN t = 1 .. (k - 1) /\ \A i \in 1 .. (k - 1) : t[i] = s[i]
  BY <1>1
<1>3. x \in S /\ x \in Elements(s)
  BY <1>1 DEF Elements
<1>4. Distinct(t)
  BY <1>1, <1>2 DEF Distinct
<1>5. ASSUME NEW y \in Elements(t) PROVE y \in Elements(s) \ {x}
  <2>1. PICK i \in 1 .. (k - 1) : y = s[i]
    BY <1>2, <1>5 DEF Elements
  <2>2. i \in 1 .. k /\ k \in 1 .. k /\ i # k
    BY <1>1, <2>1
  <2>3. y # x
    BY <1>1, <2>1, <2>2 DEF Distinct
  <2> QED BY <1>1, <2>1, <2>2, <2>3 DEF Elements
<1>6. ASSUME NEW y \in Elements(s) \ {x} PROVE y \in Elements(t)
  <2>1. PICK i \in 1 .. k : y = s[i]
    BY <1>1, <1>6 DEF Elements
  <2>2. i \in 1 .. (k - 1)
    BY <1>1, <1>6, <2>1
  <2> QED BY <1>2, <2>1, <2>2 DEF Elements
<1> QED BY <1>2, <1>3, <1>4, <1>5, <1>6

\* Appending a new element adds exactly that element.
LEMMA AppendLemma ==
  ASSUME NEW S, NEW s \in Seq(S), NEW x \in S
  PROVE  /\ Append(s, x) \in Seq(S)
         /\ Elements(Append(s, x)) = Elements(s) \cup {x}
         /\ Distinct(s) /\ x \notin Elements(s) => Distinct(Append(s, x))
<1> DEFINE t == Append(s, x)
<1>1. /\ Len(s) \in Nat /\ DOMAIN s = 1 .. Len(s)
      /\ t \in Seq(S) /\ DOMAIN t = 1 .. (Len(s) + 1)
      /\ t[Len(s) + 1] = x
  OBVIOUS
<1>2. \A i \in 1 .. Len(s) : t[i] = s[i]
  OBVIOUS
<1>3. Elements(t) = Elements(s) \cup {x}
  <2> HIDE DEF t
  <2>1. ASSUME NEW y \in Elements(t) PROVE y \in Elements(s) \cup {x}
    BY <1>1, <1>2 DEF Elements
  <2>2. ASSUME NEW y \in Elements(s) \cup {x} PROVE y \in Elements(t)
    BY <1>1, <1>2 DEF Elements
  <2> QED BY <2>1, <2>2
<1>4. Distinct(s) /\ x \notin Elements(s) => Distinct(t)
  <2> HIDE DEF t
  <2> QED BY <1>1, <1>2 DEF Distinct, Elements
<1> QED BY <1>1, <1>3, <1>4

-----------------------------------------------------------------------------
(* The inductive invariant.                                                *)

IInv == TypeOK /\ NoDoubleMapping /\ FramesConserved /\ ReverseIndexExact

\* What the allocator hands out: a frame of the node that is not mapped, after
\* which the free list and the bump pointer account for every other frame.
LEMMA AllocLemma ==
  ASSUME TypeOK, FramesConserved, NEW n \in Node, CanAlloc(n)
  PROVE  /\ PhysicalFor(n) \in Frame
         /\ PhysicalFor(n) \notin FramesOf(n)
         /\ PoppedList(n) \in Seq(Frame)
         /\ Distinct(PoppedList(n))
         /\ Elements(PoppedList(n)) = FreeFrames(n) \ {PhysicalFor(n)}
         /\ BumpedNext(n) \in 0 .. PagesPerNode
         /\ FramesOf(n) \cup FreeFrames(n) \cup {PhysicalFor(n)} = 0 .. BumpedNext(n) - 1
<1> USE PagesPerNodeAssumption
<1>1. /\ free_lists[n] \in Seq(Frame)
      /\ next_physical[n] \in 0 .. PagesPerNode
      /\ FreeFrames(n) = Elements(free_lists[n])
      /\ Distinct(free_lists[n])
      /\ FramesOf(n) \cup FreeFrames(n) = 0 .. next_physical[n] - 1
      /\ FramesOf(n) \cap FreeFrames(n) = {}
  BY DEF TypeOK, FramesConserved, FreeFrames, Elements, Distinct
<1>2. CASE free_lists[n] # <<>>
  <2>1. /\ PhysicalFor(n) = free_lists[n][Len(free_lists[n])]
        /\ PoppedList(n) = SubSeq(free_lists[n], 1, Len(free_lists[n]) - 1)
        /\ BumpedNext(n) = next_physical[n]
    BY <1>2 DEF PhysicalFor, PoppedList, BumpedNext
  <2>2. /\ PoppedList(n) \in Seq(Frame) /\ Distinct(PoppedList(n))
        /\ PhysicalFor(n) \in Frame
        /\ Elements(PoppedList(n)) = Elements(free_lists[n]) \ {PhysicalFor(n)}
        /\ PhysicalFor(n) \in Elements(free_lists[n])
    BY <1>1, <1>2, <2>1, PopLemma
  <2> QED BY <1>1, <2>1, <2>2
<1>3. CASE free_lists[n] = <<>>
  <2>1. /\ PhysicalFor(n) = next_physical[n]
        /\ PoppedList(n) = <<>>
        /\ BumpedNext(n) = next_physical[n] + 1
        /\ next_physical[n] < PagesPerNode
    BY <1>3 DEF PhysicalFor, PoppedList, BumpedNext, CanAlloc
  <2>2. FreeFrames(n) = {} /\ Elements(PoppedList(n)) = {} /\ Distinct(PoppedList(n))
    BY <1>3, <2>1 DEF FreeFrames, Elements, Distinct
  <2>3. PhysicalFor(n) \in Frame /\ BumpedNext(n) \in 0 .. PagesPerNode
    BY <1>1, <2>1 DEF Frame
  <2>4. FramesOf(n) \cup {PhysicalFor(n)} = 0 .. BumpedNext(n) - 1
    BY <1>1, <2>1, <2>2
  <2>5. PhysicalFor(n) \notin FramesOf(n)
    BY <1>1, <2>1
  <2> QED BY <1>1, <2>1, <2>2, <2>3, <2>4, <2>5
<1> QED BY <1>2, <1>3

-----------------------------------------------------------------------------
(* One lemma per operation.                                                *)

LEMMA AllocatePageLemma ==
  ASSUME IInv, NEW n \in Node, NEW r \in Req, NEW shared \in BOOLEAN,
         AllocatePage(n, r, shared)
  PROVE  IInv'
<1> USE NumNodesAssumption, PagesPerNodeAssumption, MaxVirtualAssumption DEF IInv
<1> DEFINE f == PhysicalFor(n)
           v == next_virtual_id
<1>1. /\ f \in Frame /\ f \notin FramesOf(n)
      /\ PoppedList(n) \in Seq(Frame) /\ Distinct(PoppedList(n))
      /\ Elements(PoppedList(n)) = FreeFrames(n) \ {f}
      /\ BumpedNext(n) \in 0 .. PagesPerNode
      /\ FramesOf(n) \cup FreeFrames(n) \cup {f} = 0 .. BumpedNext(n) - 1
  BY AllocLemma DEF AllocatePage
<1> HIDE DEF f
<1>2. /\ v \in VirtualId /\ v \notin Mapped /\ v \in Nat
      /\ next_virtual_id' = v + 1 /\ v < MaxVirtual
  BY DEF AllocatePage, TypeOK, VirtualId
<1>3. /\ Mapped' = Mapped \cup {v}
      /\ \A w \in Mapped : page_table'[w] = page_table[w]
      /\ page_table'[v] = NewPage(n, r, shared)
      /\ page_table' = [w \in Mapped \cup {v} |->
                          IF w = v THEN NewPage(n, r, shared) ELSE page_table[w]]
  BY <1>2 DEF AllocatePage, Mapped
<1>4. /\ NewPage(n, r, shared) \in KVPage
      /\ NewPage(n, r, shared).node_id = n
      /\ NewPage(n, r, shared).physical_page_id = f
  BY <1>1 DEF NewPage, KVPage, PageState, f
<1>5. TypeOK'
  <2>1. next_virtual_id' \in 0 .. MaxVirtual /\ Mapped' \subseteq 0 .. next_virtual_id' - 1
    BY <1>2, <1>3 DEF TypeOK
  <2>2. page_table' \in [Mapped' -> KVPage]
    BY <1>3, <1>4 DEF TypeOK
  <2>3. node_pages' \in [Node -> SUBSET VirtualId]
    BY <1>2 DEF TypeOK, AllocatePage
  <2>4. /\ next_physical' \in [Node -> 0 .. PagesPerNode]
        /\ free_lists' \in [Node -> Seq(Frame)]
    BY <1>1 DEF TypeOK, AllocatePage
  <2> QED BY <2>1, <2>2, <2>3, <2>4 DEF TypeOK
<1>6. NoDoubleMapping'
  <2> SUFFICES ASSUME NEW a \in Mapped', NEW b \in Mapped',
                      page_table'[a].node_id = page_table'[b].node_id,
                      page_table'[a].physical_page_id = page_table'[b].physical_page_id
               PROVE  a = b
    BY DEF NoDoubleMapping
  <2>1. \A w \in Mapped : page_table[w].node_id = n => page_table[w].physical_page_id # f
    BY <1>1 DEF FramesOf
  <2> QED BY <1>3, <1>4, <2>1 DEF NoDoubleMapping
<1>7. FramesConserved'
  <2>1. FramesOf(n)' = FramesOf(n) \cup {f}
    BY <1>2, <1>3, <1>4 DEF FramesOf
  <2>2. FreeFrames(n)' = FreeFrames(n) \ {f}
    BY <1>1 DEF AllocatePage, TypeOK, FreeFrames, Elements
  <2>3. next_physical'[n] = BumpedNext(n) /\ free_lists'[n] = PoppedList(n)
    BY DEF AllocatePage, TypeOK
  <2>4. ASSUME NEW m \in Node \ {n}
        PROVE  /\ FramesOf(m)' = FramesOf(m) /\ FreeFrames(m)' = FreeFrames(m)
               /\ next_physical'[m] = next_physical[m] /\ free_lists'[m] = free_lists[m]
    <3>1. FramesOf(m)' = FramesOf(m)
      BY <1>2, <1>3, <1>4 DEF FramesOf
    <3>2. next_physical'[m] = next_physical[m] /\ free_lists'[m] = free_lists[m]
      BY DEF AllocatePage, TypeOK
    <3> QED BY <3>1, <3>2 DEF FreeFrames
  <2> SUFFICES ASSUME NEW m \in Node
               PROVE  /\ FramesOf(m)' \cup FreeFrames(m)' = 0 .. next_physical'[m] - 1
                      /\ FramesOf(m)' \cap FreeFrames(m)' = {}
                      /\ \A i, j \in DOMAIN free_lists'[m] :
                           free_lists'[m][i] = free_lists'[m][j] => i = j
    BY DEF FramesConserved
  <2>5. CASE m = n
    BY <1>1, <2>1, <2>2, <2>3, <2>5 DEF FramesConserved, Distinct
  <2>6. CASE m # n
    BY <2>4, <2>6 DEF FramesConserved
  <2> QED BY <2>5, <2>6
<1>8. ReverseIndexExact'
  <2>1. node_pages' = [node_pages EXCEPT ![n] = @ \cup {v}]
    BY DEF AllocatePage
  <2> QED BY <1>2, <1>3, <1>4, <2>1 DEF ReverseIndexExact, TypeOK
<1> QED BY <1>5, <1>6, <1>7, <1>8

\* A step that rewrites pages but moves none of them keeps the invariant.
LEMMA SameLocationsLemma ==
  ASSUME IInv, Mapped' = Mapped, page_table' \in [Mapped -> KVPage],
         \A w \in Mapped : /\ page_table'[w].node_id = page_table[w].node_id
                           /\ page_table'[w].physical_page_id = page_table[w].physical_page_id,
         UNCHANGED <<free_lists, node_pages, next_physical, next_virtual_id>>
  PROVE  IInv'
<1> USE DEF IInv
<1>1. \A m \in Node : FramesOf(m)' = FramesOf(m) /\ FreeFrames(m)' = FreeFrames(m)
  BY DEF FramesOf, FreeFrames
<1>2. TypeOK'
  BY DEF TypeOK
<1>3. NoDoubleMapping'
  BY DEF NoDoubleMapping
<1>4. FramesConserved'
  BY <1>1 DEF FramesConserved
<1>5. ReverseIndexExact'
  BY DEF ReverseIndexExact
<1> QED BY <1>2, <1>3, <1>4, <1>5

\* Updating one live page by a KVPage at the same location.
LEMMA RewritePageLemma ==
  ASSUME IInv, NEW v \in Mapped, NEW q \in KVPage,
         q.node_id = page_table[v].node_id,
         q.physical_page_id = page_table[v].physical_page_id,
         page_table' = [page_table EXCEPT ![v] = q],
         UNCHANGED <<free_lists, node_pages, next_physical, next_virtual_id>>
  PROVE  IInv'
<1>1. page_table \in [Mapped -> KVPage]
  BY DEF IInv, TypeOK
<1>2. Mapped' = Mapped /\ page_table' \in [Mapped -> KVPage]
  BY <1>1 DEF Mapped
<1>3. \A w \in Mapped : page_table'[w] = IF w = v THEN q ELSE page_table[w]
  BY <1>1
<1> QED BY <1>2, <1>3, SameLocationsLemma

LEMMA FreePageLemma ==
  ASSUME IInv, NEW v \in Mapped, FreePage(v)
  PROVE  IInv'
<1> USE NumNodesAssumption, PagesPerNodeAssumption, MaxVirtualAssumption
<1> DEFINE p == page_table[v]
<1>1. p \in KVPage
  BY DEF IInv, TypeOK
<1>2. PICK n \in Node, f \in Frame : n = p.node_id /\ f = p.physical_page_id
  BY <1>1 DEF KVPage
<1>3. CASE p.is_shared_prefix /\ p.ref_count - 1 > 0
  <2> DEFINE q == [p EXCEPT !.ref_count = @ - 1]
  <2>1. /\ page_table' = [page_table EXCEPT ![v] = q]
        /\ UNCHANGED <<free_lists, node_pages, next_physical, next_virtual_id>>
    BY <1>3 DEF FreePage
  <2>2. /\ q \in KVPage /\ q.node_id = p.node_id
        /\ q.physical_page_id = p.physical_page_id
    BY <1>1 DEF KVPage
  <2> HIDE DEF q
  <2> QED BY <2>1, <2>2, RewritePageLemma
<1>4. CASE ~(p.is_shared_prefix /\ p.ref_count - 1 > 0)
  <2>1. /\ free_lists' = [free_lists EXCEPT ![n] = Append(@, f)]
        /\ node_pages' = [node_pages EXCEPT ![n] = @ \ {v}]
        /\ page_table' = [w \in Mapped \ {v} |-> page_table[w]]
        /\ UNCHANGED <<next_physical, next_virtual_id>>
    BY <1>2, <1>4 DEF FreePage
  <2>2. /\ Mapped' = Mapped \ {v}
        /\ \A w \in Mapped \ {v} : page_table'[w] = page_table[w]
    BY <2>1 DEF Mapped
  <2>3. /\ free_lists[n] \in Seq(Frame) /\ f \in FramesOf(n)
        /\ FreeFrames(n) = Elements(free_lists[n])
        /\ Distinct(free_lists[n]) /\ f \notin Elements(free_lists[n])
    BY <1>2 DEF IInv, TypeOK, FramesConserved, FreeFrames, FramesOf, Elements, Distinct
  <2>4. /\ Append(free_lists[n], f) \in Seq(Frame)
        /\ Elements(Append(free_lists[n], f)) = FreeFrames(n) \cup {f}
        /\ Distinct(Append(free_lists[n], f))
    BY <2>3, AppendLemma
  <2>5. TypeOK'
    BY <2>1, <2>2, <2>4 DEF IInv, TypeOK
  <2>6. NoDoubleMapping'
    BY <2>2 DEF IInv, NoDoubleMapping
  <2>7. FramesConserved'
    <3>1. FramesOf(n)' = FramesOf(n) \ {f}
      BY <1>2, <2>2 DEF FramesOf, IInv, NoDoubleMapping
    <3>2. free_lists'[n] = Append(free_lists[n], f)
      BY <2>1 DEF IInv, TypeOK
    <3>3. FreeFrames(n)' = FreeFrames(n) \cup {f}
      BY <3>2, <2>4 DEF FreeFrames, Elements
    <3>4. ASSUME NEW m \in Node \ {n}
          PROVE  /\ FramesOf(m)' = FramesOf(m) /\ FreeFrames(m)' = FreeFrames(m)
                 /\ free_lists'[m] = free_lists[m]
      <4>1. FramesOf(m)' = FramesOf(m)
        BY <1>2, <2>2 DEF FramesOf
      <4>2. free_lists'[m] = free_lists[m]
        BY <2>1 DEF IInv, TypeOK
      <4> QED BY <4>1, <4>2 DEF FreeFrames
    <3> SUFFICES ASSUME NEW m \in Node
                 PROVE  /\ FramesOf(m)' \cup FreeFrames(m)' = 0 .. next_physical'[m] - 1
                        /\ FramesOf(m)' \cap FreeFrames(m)' = {}
                        /\ Distinct(free_lists'[m])
      BY DEF FramesConserved, Distinct
    <3>5. CASE m = n
      <4>1. /\ FramesOf(n) \cup FreeFrames(n) = 0 .. next_physical[n] - 1
            /\ FramesOf(n) \cap FreeFrames(n) = {}
        BY DEF IInv, FramesConserved
      <4> QED BY <2>1, <2>3, <2>4, <3>1, <3>2, <3>3, <3>5, <4>1
    <3>6. CASE m # n
      BY <2>1, <3>4, <3>6 DEF IInv, FramesConserved, Distinct
    <3> QED BY <3>5, <3>6
  <2>8. ReverseIndexExact'
    BY <1>2, <2>1, <2>2 DEF IInv, ReverseIndexExact, TypeOK
  <2> QED BY <2>5, <2>6, <2>7, <2>8 DEF IInv
<1> QED BY <1>3, <1>4

LEMMA RecordAccessLemma ==
  ASSUME IInv, NEW v \in Mapped, RecordAccess(v)
  PROVE  IInv'
<1> DEFINE q == [page_table[v] EXCEPT !.access_count = @ + 1]
<1>1. page_table[v] \in KVPage
  BY DEF IInv, TypeOK
<1>2. /\ q \in KVPage /\ q.node_id = page_table[v].node_id
      /\ q.physical_page_id = page_table[v].physical_page_id
  BY <1>1 DEF KVPage
<1>3. /\ page_table' = [page_table EXCEPT ![v] = q]
      /\ UNCHANGED <<free_lists, node_pages, next_physical, next_virtual_id>>
  BY DEF RecordAccess
<1> HIDE DEF q
<1> QED BY <1>2, <1>3, RewritePageLemma

LEMMA MigratePageLemma ==
  ASSUME IInv, NEW v \in Mapped, NEW dst \in Node, MigratePage(v, dst)
  PROVE  IInv'
<1> USE NumNodesAssumption, PagesPerNodeAssumption, MaxVirtualAssumption
<1> DEFINE p == page_table[v]
<1>1. p \in KVPage
  BY DEF IInv, TypeOK
<1>2. PICK src \in Node, old \in Frame : src = p.node_id /\ old = p.physical_page_id
  BY <1>1 DEF KVPage
<1>3. PICK new \in Frame : /\ new = PhysicalFor(dst) /\ new \notin FramesOf(dst)
                           /\ PoppedList(dst) \in Seq(Frame) /\ Distinct(PoppedList(dst))
                           /\ Elements(PoppedList(dst)) = FreeFrames(dst) \ {new}
                           /\ BumpedNext(dst) \in 0 .. PagesPerNode
                           /\ FramesOf(dst) \cup FreeFrames(dst) \cup {new}
                                = 0 .. BumpedNext(dst) - 1
  BY AllocLemma DEF IInv, MigratePage
<1> DEFINE q == [p EXCEPT !.node_id = dst, !.physical_page_id = new, !.state = "ALLOCATED"]
<1>4. /\ src # dst
      /\ free_lists' = [free_lists EXCEPT ![dst] = PoppedList(dst),
                                          ![src] = Append(@, old)]
      /\ next_physical' = [next_physical EXCEPT ![dst] = BumpedNext(dst)]
      /\ node_pages' = [node_pages EXCEPT ![src] = @ \ {v}, ![dst] = @ \cup {v}]
      /\ page_table' = [page_table EXCEPT ![v] = q]
      /\ next_virtual_id' = next_virtual_id
  BY <1>2, <1>3 DEF MigratePage
<1>5. q \in KVPage /\ q.node_id = dst /\ q.physical_page_id = new
  BY <1>1 DEF KVPage, PageState
<1> HIDE DEF q
<1>6. /\ Mapped' = Mapped /\ page_table' \in [Mapped' -> KVPage]
      /\ \A w \in Mapped \ {v} : page_table'[w] = page_table[w]
      /\ page_table'[v] = q
  BY <1>4, <1>5 DEF IInv, TypeOK, Mapped
<1>7. /\ free_lists[src] \in Seq(Frame) /\ old \in FramesOf(src)
      /\ FreeFrames(src) = Elements(free_lists[src])
      /\ Distinct(free_lists[src]) /\ old \notin Elements(free_lists[src])
  BY <1>2 DEF IInv, TypeOK, FramesConserved, FreeFrames, FramesOf, Elements, Distinct
<1>8. /\ Append(free_lists[src], old) \in Seq(Frame)
      /\ Elements(Append(free_lists[src], old)) = FreeFrames(src) \cup {old}
      /\ Distinct(Append(free_lists[src], old))
  BY <1>7, AppendLemma
<1>9. /\ free_lists'[dst] = PoppedList(dst)
      /\ free_lists'[src] = Append(free_lists[src], old)
      /\ \A m \in Node \ {src, dst} : free_lists'[m] = free_lists[m]
      /\ next_physical'[dst] = BumpedNext(dst)
      /\ \A m \in Node \ {dst} : next_physical'[m] = next_physical[m]
  BY <1>4 DEF IInv, TypeOK
<1>10. TypeOK'
  <2>1. free_lists' \in [Node -> Seq(Frame)]
    BY <1>3, <1>4, <1>8 DEF IInv, TypeOK
  <2>2. next_physical' \in [Node -> 0 .. PagesPerNode]
    BY <1>3, <1>4 DEF IInv, TypeOK
  <2>3. node_pages' \in [Node -> SUBSET VirtualId]
    <3>1. v \in VirtualId /\ node_pages \in [Node -> SUBSET VirtualId]
      BY DEF IInv, TypeOK, VirtualId
    <3> QED BY <1>4, <3>1
  <2> QED BY <1>4, <1>6, <2>1, <2>2, <2>3 DEF IInv, TypeOK
<1>11. NoDoubleMapping'
  <2>1. \A w \in Mapped : page_table[w].node_id = dst => page_table[w].physical_page_id # new
    BY <1>3 DEF FramesOf
  <2> QED BY <1>5, <1>6, <2>1 DEF IInv, NoDoubleMapping
<1>12. FramesConserved'
  <2>1. FramesOf(dst)' = FramesOf(dst) \cup {new}
    BY <1>2, <1>4, <1>5, <1>6 DEF FramesOf
  <2>2. FramesOf(src)' = FramesOf(src) \ {old}
    BY <1>2, <1>4, <1>5, <1>6 DEF FramesOf, IInv, NoDoubleMapping
  <2>3. \A m \in Node \ {src, dst} : FramesOf(m)' = FramesOf(m)
    BY <1>2, <1>5, <1>6 DEF FramesOf
  <2>4. /\ FreeFrames(dst)' = FreeFrames(dst) \ {new}
        /\ FreeFrames(src)' = FreeFrames(src) \cup {old}
        /\ \A m \in Node \ {src, dst} : FreeFrames(m)' = FreeFrames(m)
    <3>1. \A m \in Node : FreeFrames(m) = Elements(free_lists[m])
      BY DEF FreeFrames, Elements
    <3>2. \A m \in Node : FreeFrames(m)' = Elements(free_lists'[m])
      BY DEF FreeFrames, Elements
    <3> QED BY <1>3, <1>8, <1>9, <3>1, <3>2
  <2> SUFFICES ASSUME NEW m \in Node
               PROVE  /\ FramesOf(m)' \cup FreeFrames(m)' = 0 .. next_physical'[m] - 1
                      /\ FramesOf(m)' \cap FreeFrames(m)' = {}
                      /\ Distinct(free_lists'[m])
    BY DEF FramesConserved, Distinct
  <2>5. /\ FramesOf(m) \cup FreeFrames(m) = 0 .. next_physical[m] - 1
        /\ FramesOf(m) \cap FreeFrames(m) = {}
        /\ Distinct(free_lists[m])
    BY DEF IInv, FramesConserved, Distinct
  <2>6. CASE m = dst
    BY <1>3, <1>9, <2>1, <2>4, <2>5, <2>6
  <2>7. CASE m = src
    BY ZenonT(30), <1>4, <1>7, <1>8, <1>9, <2>2, <2>4, <2>5, <2>7
  <2>8. CASE m \notin {src, dst}
    BY <1>9, <2>3, <2>4, <2>5, <2>8
  <2> QED BY <2>6, <2>7, <2>8
<1>13. ReverseIndexExact'
  <2>1. /\ node_pages'[src] = node_pages[src] \ {v}
        /\ node_pages'[dst] = node_pages[dst] \cup {v}
        /\ \A m \in Node \ {src, dst} : node_pages'[m] = node_pages[m]
    BY <1>4 DEF IInv, TypeOK
  <2>2. \A m \in Node : node_pages[m] = {w \in Mapped : page_table[w].node_id = m}
    BY DEF IInv, ReverseIndexExact
  <2>3. \A m \in Node : {w \in Mapped' : page_table'[w].node_id = m} =
          {w \in Mapped \ {v} : page_table[w].node_id = m} \cup (IF m = dst THEN {v} ELSE {})
    BY <1>5, <1>6
  <2> SUFFICES ASSUME NEW m \in Node
               PROVE  node_pages'[m] = {w \in Mapped' : page_table'[w].node_id = m}
    BY DEF ReverseIndexExact
  <2>4. CASE m = dst
    BY <1>2, <1>4, <2>1, <2>2, <2>3, <2>4
  <2>5. CASE m = src
    BY <1>4, <2>1, <2>2, <2>3, <2>5
  <2>6. CASE m \notin {src, dst}
    BY <1>2, <2>1, <2>2, <2>3, <2>6
  <2> QED BY <2>4, <2>5, <2>6
<1> QED BY <1>10, <1>11, <1>12, <1>13 DEF IInv

-----------------------------------------------------------------------------
(* The theorems.                                                           *)

LEMMA InitLemma == Init => IInv
<1> SUFFICES ASSUME Init PROVE IInv
  OBVIOUS
<1> USE NumNodesAssumption, PagesPerNodeAssumption, MaxVirtualAssumption DEF Init
<1>1. Mapped = {}
  BY DEF Mapped
<1>2. TypeOK
  BY <1>1 DEF TypeOK, VirtualId, Frame
<1>3. \A n \in Node : FramesOf(n) = {} /\ FreeFrames(n) = {} /\ DOMAIN free_lists[n] = {}
  BY <1>1 DEF FramesOf, FreeFrames
<1>4. FramesConserved
  BY <1>3 DEF FramesConserved
<1> QED BY <1>1, <1>2, <1>4 DEF IInv, NoDoubleMapping, ReverseIndexExact

LEMMA StepLemma == IInv /\ [Next]_ptVars => IInv'
<1> SUFFICES ASSUME IInv, [Next]_ptVars PROVE IInv'
  OBVIOUS
<1>1. ASSUME NEW n \in Node, NEW r \in Req, NEW shared \in BOOLEAN, AllocatePage(n, r, shared)
      PROVE IInv'
  BY <1>1, AllocatePageLemma
<1>2. ASSUME NEW v \in Mapped, FreePage(v) PROVE IInv'
  BY <1>2, FreePageLemma
<1>3. ASSUME NEW v \in Mapped, RecordAccess(v) PROVE IInv'
  BY <1>3, RecordAccessLemma
<1>4. ASSUME NEW v \in Mapped, NEW dst \in Node, MigratePage(v, dst) PROVE IInv'
  BY <1>4, MigratePageLemma
<1>5. CASE UNCHANGED ptVars
  <2>1. UNCHANGED <<page_table, node_pages, next_physical, free_lists, next_virtual_id>>
    BY <1>5 DEF ptVars
  <2>2. Mapped' = Mapped
    BY <2>1 DEF Mapped
  <2>3. page_table \in [Mapped -> KVPage]
    BY DEF IInv, TypeOK
  <2> QED BY <2>1, <2>2, <2>3, SameLocationsLemma
<1> QED BY <1>1, <1>2, <1>3, <1>4, <1>5 DEF Next

\* The invariant holds of every state of the page table: the four facts below
\* are proved together because each operation's proof of one uses the others.
THEOREM InvariantHolds == Spec => []IInv
  BY InitLemma, StepLemma, PTL DEF Spec

\* Every field always has its type: a page is always on an existing node, in a
\* frame of that node, under an id that was handed out.
THEOREM TypeCorrect == Spec => []TypeOK
  BY InvariantHolds, PTL DEF IInv

\* No history of allocations, frees and migrations maps two live pages to one
\* physical page.
THEOREM NeverDoubleMapped == Spec => []NoDoubleMapping
  BY InvariantHolds, PTL DEF IInv

\* No history loses a frame or lists one twice.
THEOREM FramesAreConserved == Spec => []FramesConserved
  BY InvariantHolds, PTL DEF IInv

\* node_pages never drifts from page_table.
THEOREM ReverseIndexIsExact == Spec => []ReverseIndexExact
  BY InvariantHolds, PTL DEF IInv

-----------------------------------------------------------------------------
(* The page table implements PageMap.                                      *)

Where == [v \in Mapped |-> <<page_table[v].node_id, page_table[v].physical_page_id>>]
Retired == (0 .. next_virtual_id - 1) \ Mapped

\* A page that moves to a frame nobody maps is a Move of the abstract map; one
\* that keeps its frame is a stutter.
LEMMA RefinementStep == IInv /\ IInv' /\ [Next]_ptVars => [Abs!Next]_(Abs!vars)
<1> SUFFICES ASSUME IInv, IInv', [Next]_ptVars PROVE [Abs!Next]_(Abs!vars)
  OBVIOUS
<1>1. page_table \in [Mapped -> KVPage] /\ page_table' \in [Mapped' -> KVPage]
  BY DEF IInv, TypeOK
<1>2. \A v \in Mapped : Where[v] \in Node \X Frame /\ DOMAIN Where = Mapped
  BY <1>1 DEF Where, KVPage
<1>3. \A n \in Node, f \in Frame : f \notin FramesOf(n) =>
        <<n, f>> \in (Node \X Frame) \ {Where[v] : v \in Mapped}
  BY <1>1 DEF Where, FramesOf
<1>4. ASSUME NEW n \in Node, NEW r \in Req, NEW shared \in BOOLEAN, AllocatePage(n, r, shared)
      PROVE  Abs!Next
  <2>0. PICK v, l : v = next_virtual_id /\ l = <<n, PhysicalFor(n)>>
    OBVIOUS
  <2>1. PhysicalFor(n) \in Frame /\ PhysicalFor(n) \notin FramesOf(n)
    BY <1>4, AllocLemma DEF IInv, AllocatePage
  <2>2. /\ v \in VirtualId \ (Mapped \cup Retired)
        /\ l \in (Node \X Frame) \ {Where[w] : w \in Mapped}
    BY <1>3, <1>4, <2>0, <2>1, MaxVirtualAssumption DEF Retired, IInv, TypeOK, VirtualId, AllocatePage
  <2>3. /\ Mapped' = Mapped \cup {v} /\ next_virtual_id' = v + 1
        /\ \A w \in Mapped' : page_table'[w] = IF w = v THEN NewPage(n, r, shared)
                                                        ELSE page_table[w]
    BY <1>4, <2>0 DEF AllocatePage, Mapped
  <2>4. Where' = [w \in Mapped \cup {v} |-> IF w = v THEN l ELSE Where[w]]
    BY <2>0, <2>3 DEF Where, NewPage
  <2>5. Retired' = Retired
    BY <2>0, <2>2, <2>3 DEF Retired, IInv, TypeOK
  <2>6. Abs!Allocate(v, l)
    BY <1>2, <2>2, <2>4, <2>5 DEF Abs!Allocate, Abs!Live, Abs!Used, Where, Retired
  <2>7. v \in VirtualId /\ l \in Node \X Frame
    BY <2>2
  <2> QED BY <2>6, <2>7 DEF Abs!Next
<1>5. ASSUME NEW v \in Mapped, RecordAccess(v) PROVE UNCHANGED Abs!vars
  <2> DEFINE q == [page_table[v] EXCEPT !.access_count = @ + 1]
  <2>1. /\ page_table' = [page_table EXCEPT ![v] = q] /\ next_virtual_id' = next_virtual_id
        /\ q.node_id = page_table[v].node_id
        /\ q.physical_page_id = page_table[v].physical_page_id
    BY <1>1, <1>5 DEF RecordAccess, KVPage
  <2> HIDE DEF q
  <2>2. Mapped' = Mapped /\ Where' = Where /\ Retired' = Retired
    BY <1>1, <2>1 DEF Mapped, Where, Retired
  <2> QED BY <2>2 DEF Abs!vars, Where, Retired
<1>6. ASSUME NEW v \in Mapped, FreePage(v) PROVE Abs!Next \/ UNCHANGED Abs!vars
  <2> DEFINE p == page_table[v]
             q == [p EXCEPT !.ref_count = @ - 1]
  <2>1. CASE p.is_shared_prefix /\ p.ref_count - 1 > 0
    <3>1. /\ page_table' = [page_table EXCEPT ![v] = q] /\ next_virtual_id' = next_virtual_id
          /\ q.node_id = p.node_id /\ q.physical_page_id = p.physical_page_id
      BY <1>1, <1>6, <2>1 DEF FreePage, KVPage
    <3> HIDE DEF q
    <3>2. Mapped' = Mapped /\ Where' = Where /\ Retired' = Retired
      BY <1>1, <3>1 DEF Mapped, Where, Retired
    <3> QED BY <3>2 DEF Abs!vars, Where, Retired
  <2>2. CASE ~(p.is_shared_prefix /\ p.ref_count - 1 > 0)
    <3>1. /\ page_table' = [w \in Mapped \ {v} |-> page_table[w]]
          /\ next_virtual_id' = next_virtual_id
      BY <1>6, <2>2 DEF FreePage
    <3>2. Mapped' = Mapped \ {v} /\ v \in 0 .. next_virtual_id - 1
      BY <3>1 DEF Mapped, IInv, TypeOK
    <3>3. Where' = [w \in Mapped \ {v} |-> Where[w]]
      BY <3>1, <3>2 DEF Where
    <3>4. Retired' = Retired \cup {v}
      BY <3>1, <3>2 DEF Retired
    <3>5. Abs!Free(v)
      BY <1>2, <3>3, <3>4 DEF Abs!Free, Abs!Live, Where, Retired
    <3> QED BY <1>2, <3>5 DEF Abs!Next, Abs!Live, Where
  <2> QED BY <2>1, <2>2
<1>7. ASSUME NEW v \in Mapped, NEW dst \in Node, MigratePage(v, dst) PROVE Abs!Next
  <2>0. PICK l : l = <<dst, PhysicalFor(dst)>>
    OBVIOUS
  <2> DEFINE q == [page_table[v] EXCEPT !.node_id = dst,
                     !.physical_page_id = PhysicalFor(dst), !.state = "ALLOCATED"]
  <2>1. PhysicalFor(dst) \in Frame /\ PhysicalFor(dst) \notin FramesOf(dst)
    BY <1>7, AllocLemma DEF IInv, MigratePage
  <2>2. l \in (Node \X Frame) \ {Where[w] : w \in Mapped}
    BY <1>3, <2>0, <2>1
  <2>3. /\ page_table' = [page_table EXCEPT ![v] = q] /\ next_virtual_id' = next_virtual_id
        /\ <<q.node_id, q.physical_page_id>> = l
    BY <1>1, <1>7, <2>0 DEF MigratePage, KVPage
  <2> HIDE DEF q
  <2>4. Mapped' = Mapped /\ Retired' = Retired
    BY <2>3 DEF Mapped, Retired
  <2>5. Where' = [Where EXCEPT ![v] = l]
    BY <1>1, <2>3, <2>4 DEF Where
  <2>6. Abs!Move(v, l)
    BY <1>2, <2>2, <2>4, <2>5 DEF Abs!Move, Abs!Live, Abs!Used, Where, Retired
  <2>7. v \in Abs!Live /\ l \in Node \X Frame
    BY <2>2 DEF Abs!Live
  <2> QED BY <2>6, <2>7 DEF Abs!Next
<1>8. CASE UNCHANGED ptVars
  BY <1>8 DEF ptVars, Abs!vars, Mapped
<1> QED BY <1>4, <1>5, <1>6, <1>7, <1>8 DEF Next

\* The page table with its free lists, bump pointers and reverse index is an
\* implementation of the abstract map: fresh ids, locations used once.
THEOREM ImplementsPageMap == Spec => AbsSpec
<1>1. Init => Abs!Init
  BY DEF Init, Abs!Init, Mapped
<1> QED BY <1>1, RefinementStep, InvariantHolds, PTL DEF Spec, AbsSpec, Abs!Spec
=============================================================================
