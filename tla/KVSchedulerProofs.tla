-------------------------- MODULE KVSchedulerProofs --------------------------
(* Theorems about KVScheduler, for every policy, threshold and batch size. *)
EXTENDS KVScheduler, KVPageTableProofs, OrderLemmas

Private(v) == v \in Mapped /\ ~page_table[v].is_shared_prefix

\* The part of the migrator's and the request tracker's state that the
\* invariants need: it names nodes, and private pages that are live.
LoopOK ==
  /\ policy \in Policies
  /\ sources \subseteq Node /\ underloaded \subseteq Node
  /\ \A v \in todo : Private(v)
  /\ active_requests \in [Req -> Seq(VirtualId)]

SIInv == IInv /\ LoopOK /\ SharedPrefixPinned /\ RequestPagesExact

-----------------------------------------------------------------------------
(* Which page-table operation each scheduler action is.                    *)

LEMMA SelectedIsNode ==
  ASSUME NEW r \in Req, NEW shared \in BOOLEAN, NEW n \in SelectNode(r, shared),
         policy \in Policies
  PROVE  n \in Node /\ (shared => n = SharedNode)
BY SharedNodeAssumption, PoliciesAssumption
   DEF SelectNode, RoundRobinNode, LeastLoadedNode, FirstLeast, Candidates,
       LocalityNodes, PreferredNodes

\* Every step of the scheduler is one operation of the page table, or none.
LEMMA SchedulerStep ==
  ASSUME LoopOK, [SchedNext]_schedVars
  PROVE  [Next]_ptVars
<1>1. ASSUME NEW r \in Req, WriteInBlock(r) PROVE UNCHANGED ptVars
  BY <1>1 DEF WriteInBlock
<1>2. ASSUME NEW r \in Req, ReadLine(r) PROVE [Next]_ptVars
  BY <1>2 DEF ReadLine, Next, RecordAccess
<1>3. ASSUME NEW r \in Req, NEW shared \in BOOLEAN, WriteNewPage(r, shared)
      PROVE  Next
  BY <1>3, SelectedIsNode DEF WriteNewPage, Next, LoopOK
<1>4. ASSUME NEW r \in Req, NEW shared \in BOOLEAN, WriteDropped(r, shared)
      PROVE  UNCHANGED ptVars
  BY <1>4 DEF WriteDropped
<1>5. ASSUME StartCheck \/ NextSource \/ MigrationDone PROVE UNCHANGED ptVars
  BY <1>5 DEF StartCheck, NextSource, MigrationDone
<1>6. ASSUME MigrateNext PROVE [Next]_ptVars
  BY <1>6 DEF MigrateNext, Coldest, FirstLeast, LoopOK, Private, Next
<1>7. CASE UNCHANGED schedVars
  BY <1>7 DEF schedVars
<1> QED BY <1>1, <1>2, <1>3, <1>4, <1>5, <1>6, <1>7
        DEF SchedNext, TraceLine, Migration

-----------------------------------------------------------------------------
(* What the operations do to the scheduler's invariants.                   *)

\* A step that keeps every page's owner, sharing and place keeps the invariants
\* about pages.
LEMMA SamePagesLemma ==
  ASSUME IInv, SharedPrefixPinned, RequestPagesExact,
         Mapped' = Mapped, active_requests' = active_requests,
         \A w \in Mapped : /\ page_table'[w].req_id = page_table[w].req_id
                           /\ page_table'[w].is_shared_prefix = page_table[w].is_shared_prefix
                           /\ page_table[w].is_shared_prefix =>
                                /\ page_table'[w].node_id = page_table[w].node_id
                                /\ page_table'[w].state = page_table[w].state
  PROVE  SharedPrefixPinned' /\ RequestPagesExact'
<1>1. SharedPrefixPinned'
  BY DEF SharedPrefixPinned
<1>2. RequestPagesExact'
  <2> SUFFICES ASSUME NEW r \in Req
               PROVE  {v \in Mapped' : page_table'[v].req_id = r}
                        = {v \in Mapped : page_table[v].req_id = r}
    BY DEF RequestPagesExact
  <2> QED OBVIOUS
<1> QED BY <1>1, <1>2

\* One page rewritten, keeping its owner and sharing, and if shared its place.
LEMMA OnePageLemma ==
  ASSUME SIInv, NEW v \in Mapped, NEW q,
         page_table' = [page_table EXCEPT ![v] = q],
         active_requests' = active_requests,
         q.req_id = page_table[v].req_id,
         q.is_shared_prefix = page_table[v].is_shared_prefix,
         page_table[v].is_shared_prefix =>
           q.node_id = page_table[v].node_id /\ q.state = page_table[v].state
  PROVE  /\ SharedPrefixPinned' /\ RequestPagesExact' /\ Mapped' = Mapped
         /\ \A w \in Mapped : Private(w) => Private(w)'
<1>1. page_table \in [Mapped -> KVPage]
  BY DEF SIInv, IInv, TypeOK
<1>2. Mapped' = Mapped
  BY <1>1 DEF Mapped
<1>3. \A w \in Mapped : page_table'[w] = IF w = v THEN q ELSE page_table[w]
  BY <1>1
<1>4. \A w \in Mapped : Private(w) => Private(w)'
  BY <1>2, <1>3 DEF Private
<1> QED BY <1>2, <1>3, <1>4, SamePagesLemma DEF SIInv

LEMMA WriteNewPageLemma ==
  ASSUME SIInv, IInv', NEW r \in Req, NEW shared \in BOOLEAN, WriteNewPage(r, shared)
  PROVE  LoopOK' /\ SharedPrefixPinned' /\ RequestPagesExact'
<1>1. PICK n \in SelectNode(r, shared) : AllocatePage(n, r, shared)
  BY DEF WriteNewPage
<1>2. n \in Node /\ (shared => n = SharedNode)
  BY <1>1, SelectedIsNode DEF SIInv, LoopOK
<1>3. PICK v : v = next_virtual_id
  OBVIOUS
<1>4. /\ v \in VirtualId /\ v \notin Mapped
      /\ active_requests' = [active_requests EXCEPT ![r] = Append(@, v)]
      /\ UNCHANGED <<policy, sources, todo, underloaded>>
  BY <1>1, <1>3, MaxVirtualAssumption
     DEF WriteNewPage, AllocatePage, SIInv, IInv, TypeOK, VirtualId, EndOfLine, migVars
<1>5. /\ Mapped' = Mapped \cup {v}
      /\ \A w \in Mapped : page_table'[w] = page_table[w]
      /\ page_table'[v].req_id = r
      /\ page_table'[v].is_shared_prefix = shared
      /\ page_table'[v].node_id = n
      /\ shared => page_table'[v].state = "SHARED"
  BY <1>1, <1>3, <1>4 DEF AllocatePage, Mapped, NewPage
<1>6. LoopOK'
  <2>1. active_requests' \in [Req -> Seq(VirtualId)]
    BY <1>4, AppendLemma DEF SIInv, LoopOK
  <2>2. \A w \in todo : Private(w)'
    BY <1>5 DEF SIInv, LoopOK, Private
  <2> QED BY <1>4, <2>1, <2>2 DEF SIInv, LoopOK
<1>7. SharedPrefixPinned'
  BY <1>2, <1>5 DEF SIInv, SharedPrefixPinned
<1>8. RequestPagesExact'
  <2> SUFFICES ASSUME NEW q \in Req
               PROVE  /\ Elements(active_requests'[q])
                           = {w \in Mapped' : page_table'[w].req_id = q}
                      /\ Distinct(active_requests'[q])
    BY DEF RequestPagesExact, Elements, Distinct
  <2>1. /\ active_requests[q] \in Seq(VirtualId)
        /\ Elements(active_requests[q]) = {w \in Mapped : page_table[w].req_id = q}
        /\ Distinct(active_requests[q])
    BY DEF SIInv, LoopOK, RequestPagesExact, Elements, Distinct
  <2>2. CASE q = r
    <3>1. active_requests'[q] = Append(active_requests[q], v)
      BY <1>4, <2>2 DEF SIInv, LoopOK
    <3>2. v \notin Elements(active_requests[q])
      BY <1>4, <2>1
    <3>3. /\ Elements(active_requests'[q]) = Elements(active_requests[q]) \cup {v}
          /\ Distinct(active_requests'[q])
      BY <1>4, <2>1, <3>1, <3>2, AppendLemma
    <3> QED BY <1>4, <1>5, <2>1, <2>2, <3>3
  <2>3. CASE q # r
    <3>1. active_requests'[q] = active_requests[q]
      BY <1>4, <2>3 DEF SIInv, LoopOK
    <3> QED BY <1>5, <2>1, <2>3, <3>1
  <2> QED BY <2>2, <2>3
<1> QED BY <1>6, <1>7, <1>8

LEMMA ReadLineLemma ==
  ASSUME SIInv, IInv', NEW r \in Req, ReadLine(r)
  PROVE  LoopOK' /\ SharedPrefixPinned' /\ RequestPagesExact'
<1>1. UNCHANGED <<policy, sources, underloaded, todo, active_requests>>
  BY DEF ReadLine, EndOfLine, migVars
<1>2. CASE active_requests[r] # <<>>
  <2>1. PICK v \in Mapped : RecordAccess(v)
    BY <1>2 DEF ReadLine, RecordAccess
  <2> DEFINE q == [page_table[v] EXCEPT !.access_count = @ + 1]
  <2>2. page_table[v] \in KVPage
    BY DEF SIInv, IInv, TypeOK
  <2>3. /\ page_table' = [page_table EXCEPT ![v] = q]
        /\ q.req_id = page_table[v].req_id /\ q.node_id = page_table[v].node_id
        /\ q.is_shared_prefix = page_table[v].is_shared_prefix
        /\ q.state = page_table[v].state
    BY <2>1, <2>2 DEF RecordAccess, KVPage
  <2> HIDE DEF q
  <2> QED BY <1>1, <2>3, OnePageLemma DEF SIInv, LoopOK, Private
<1>3. CASE active_requests[r] = <<>>
  <2>1. UNCHANGED <<page_table, policy, sources, underloaded, todo, active_requests>>
    BY <1>1, <1>3 DEF ReadLine, ptVars
  <2> QED BY <2>1, SamePagesLemma DEF SIInv, LoopOK, Private, Mapped
<1> QED BY <1>2, <1>3

LEMMA MigrateNextLemma ==
  ASSUME SIInv, IInv', MigrateNext
  PROVE  LoopOK' /\ SharedPrefixPinned' /\ RequestPagesExact'
<1>1. PICK v \in todo, dst \in underloaded :
        /\ todo' = todo \ {v}
        /\ MigratePage(v, dst) \/ UNCHANGED ptVars
  BY DEF MigrateNext, Coldest, FirstLeast
<1>2. UNCHANGED <<policy, sources, underloaded, active_requests>>
  BY DEF MigrateNext, lbVars
<1>3. CASE MigratePage(v, dst)
  <2> DEFINE q == [page_table[v] EXCEPT !.node_id = dst,
                     !.physical_page_id = PhysicalFor(dst), !.state = "ALLOCATED"]
  <2>1. page_table[v] \in KVPage /\ v \in Mapped /\ ~page_table[v].is_shared_prefix
    BY DEF SIInv, IInv, TypeOK, LoopOK, Private
  <2>2. /\ page_table' = [page_table EXCEPT ![v] = q]
        /\ q.req_id = page_table[v].req_id
        /\ q.is_shared_prefix = page_table[v].is_shared_prefix
    BY <1>3, <2>1 DEF MigratePage, KVPage
  <2> HIDE DEF q
  <2> QED BY <1>1, <1>2, <2>1, <2>2, OnePageLemma DEF SIInv, LoopOK, Private
<1>4. CASE UNCHANGED ptVars
  BY <1>1, <1>2, <1>4, SamePagesLemma DEF SIInv, LoopOK, Private, Mapped, ptVars
<1> QED BY <1>1, <1>3, <1>4

\* The steps that leave the page table alone.
LEMMA OtherStepsLemma ==
  ASSUME SIInv, UNCHANGED <<ptVars, active_requests, policy>>,
         \/ UNCHANGED <<sources, underloaded, todo>>
         \/ /\ sources' \subseteq Node /\ underloaded' \subseteq Node
            /\ \/ todo' = {}
               \/ \E n \in Node : todo' = PrivatePages(n)
  PROVE  LoopOK' /\ SharedPrefixPinned' /\ RequestPagesExact'
<1>1. \A n \in Node : \A v \in PrivatePages(n) : Private(v)
  BY DEF PrivatePages, Private
<1>2. Mapped' = Mapped /\ page_table' = page_table
  BY DEF ptVars, Mapped
<1>3. \A v : Private(v)' <=> Private(v)
  BY <1>2 DEF Private
<1>4. LoopOK'
  BY <1>1, <1>3 DEF SIInv, LoopOK
<1> QED BY <1>2, <1>4, SamePagesLemma DEF SIInv

-----------------------------------------------------------------------------
(* The theorems.                                                           *)

LEMMA SchedInitLemma == SchedInit => SIInv
<1> SUFFICES ASSUME SchedInit PROVE SIInv
  OBVIOUS
<1>1. IInv /\ Mapped = {}
  BY InitLemma DEF SchedInit, Init, Mapped
<1>2. LoopOK /\ SharedPrefixPinned
  BY <1>1 DEF SchedInit, LoopOK, SharedPrefixPinned
<1>3. RequestPagesExact
  BY <1>1 DEF SchedInit, RequestPagesExact
<1> QED BY <1>1, <1>2, <1>3 DEF SIInv

LEMMA SchedStepLemma == SIInv /\ [SchedNext]_schedVars => SIInv'
<1> SUFFICES ASSUME SIInv, [SchedNext]_schedVars PROVE SIInv'
  OBVIOUS
<1>1. IInv'
  BY SchedulerStep, StepLemma DEF SIInv
<1>2. ASSUME NEW r \in Req, WriteInBlock(r) PROVE SIInv'
  <2>1. UNCHANGED <<ptVars, active_requests, policy, sources, underloaded, todo>>
    BY <1>2 DEF WriteInBlock, EndOfLine, migVars
  <2> QED BY <1>1, <2>1, OtherStepsLemma DEF SIInv
<1>3. ASSUME NEW r \in Req, ReadLine(r) PROVE SIInv'
  BY <1>1, <1>3, ReadLineLemma DEF SIInv
<1>4. ASSUME NEW r \in Req, NEW shared \in BOOLEAN, WriteNewPage(r, shared) PROVE SIInv'
  BY <1>1, <1>4, WriteNewPageLemma DEF SIInv
<1>5. ASSUME NEW r \in Req, NEW shared \in BOOLEAN, WriteDropped(r, shared) PROVE SIInv'
  <2>1. UNCHANGED <<ptVars, active_requests, policy, sources, underloaded, todo>>
    BY <1>5 DEF WriteDropped, EndOfLine, migVars
  <2> QED BY <1>1, <2>1, OtherStepsLemma DEF SIInv
<1>6. ASSUME StartCheck PROVE SIInv'
  <2>1. UNCHANGED <<ptVars, active_requests, policy>>
    BY <1>6 DEF StartCheck
  <2>2. /\ sources' \subseteq Node /\ underloaded' \subseteq Node
        /\ todo' = {} \/ \E n \in Node : todo' = PrivatePages(n)
    BY <1>6 DEF StartCheck, Idle, Overloaded, Underloaded, First
  <2> QED BY <1>1, <2>1, <2>2, OtherStepsLemma DEF SIInv
<1>7. ASSUME MigrateNext PROVE SIInv'
  BY <1>1, <1>7, MigrateNextLemma DEF SIInv
<1>8. ASSUME NextSource PROVE SIInv'
  <2>1. UNCHANGED <<ptVars, active_requests, policy>>
    BY <1>8 DEF NextSource, lbVars
  <2>2. /\ sources' \subseteq Node /\ underloaded' \subseteq Node
        /\ \E n \in Node : todo' = PrivatePages(n)
    BY <1>8 DEF NextSource, First, SIInv, LoopOK
  <2> QED BY <1>1, <2>1, <2>2, OtherStepsLemma DEF SIInv
<1>9. ASSUME MigrationDone PROVE SIInv'
  <2>1. UNCHANGED <<ptVars, active_requests, policy>>
    BY <1>9 DEF MigrationDone, lbVars
  <2>2. sources' = {} /\ underloaded' = {} /\ todo' = {}
    BY <1>9 DEF MigrationDone, Idle
  <2> QED BY <1>1, <2>1, <2>2, OtherStepsLemma DEF SIInv
<1>10. CASE UNCHANGED schedVars
  <2>1. UNCHANGED <<ptVars, active_requests, policy, sources, underloaded, todo>>
    BY <1>10 DEF schedVars, migVars, lbVars
  <2> QED BY <1>1, <2>1, OtherStepsLemma DEF SIInv
<1> QED BY <1>2, <1>3, <1>4, <1>5, <1>6, <1>7, <1>8, <1>9, <1>10
        DEF SchedNext, TraceLine, Migration

\* The scheduler's invariant: the page table's, and what ties the table to the
\* requests, the shared node and the migration loop.
THEOREM SchedulerInvariant == SchedSpec => []SIInv
  BY SchedInitLemma, SchedStepLemma, PTL DEF SchedSpec

\* The scheduler only ever uses the page table through its operations, so every
\* property of the table holds under every policy and migration schedule.
THEOREM SchedulerUsesTable == SchedSpec => Spec
<1>1. SchedInit => Init
  BY DEF SchedInit
<1>2. SIInv /\ [SchedNext]_schedVars => [Next]_ptVars
  BY SchedulerStep DEF SIInv
<1> QED BY <1>1, <1>2, SchedulerInvariant, PTL DEF SchedSpec, Spec

\* Under the load balancer and the migrator too, no two live pages share a frame.
THEOREM SchedulerNeverDoubleMaps == SchedSpec => []NoDoubleMapping
  BY SchedulerInvariant, PTL DEF SIInv, IInv

\* The shared prefix never leaves the shared node.
THEOREM SharedPrefixStaysPinned == SchedSpec => []SharedPrefixPinned
  BY SchedulerInvariant, PTL DEF SIInv

\* Each request's list and the table agree for ever.
THEOREM RequestPagesAreExact == SchedSpec => []RequestPagesExact
  BY SchedulerInvariant, PTL DEF SIInv

-----------------------------------------------------------------------------
(* The migrator's estimates.                                               *)

\* How far a call may have moved a node's count from what it read: sources have
\* lost and destinations gained at most the pages migrated so far, and no other
\* node has changed.
Bounded(n) ==
  LET read == node_utilization[n] IN
  /\ n \in Overloaded(node_utilization) => utils[n] \in read - migrated .. read
  /\ n \in Underloaded(node_utilization) => utils[n] \in read .. read + migrated
  /\ n \notin Overloaded(node_utilization) \cup Underloaded(node_utilization)
       => utils[n] = read

\* What holds inside the page loop: the estimates are the real counts, the pages
\* left are on the source being drained, and the sources and destinations are
\* those of the check's reading.
LoopInv ==
  pc = "migrate" =>
    /\ EstimatesExact
    /\ sources # {} /\ sources \subseteq Overloaded(node_utilization)
    /\ underloaded # {} /\ underloaded = Underloaded(node_utilization)
    /\ \A v \in todo : page_table[v].node_id \in First(sources)
    /\ migrated <= batch_size
    /\ \A n \in Node : Bounded(n)

MIInv == SIInv /\ SchedTypeOK /\ LoopInv

\* A node's page count is the size of a finite set, and no more than its frames.
LEMMA CountedPages ==
  ASSUME IInv, NEW n \in Node
  PROVE  /\ node_pages[n] \cap Mapped = node_pages[n]
         /\ IsFiniteSet(node_pages[n])
         /\ Cardinality(node_pages[n]) \in 0 .. PagesPerNode
         /\ PageCount[n] = Cardinality(node_pages[n])
<1> DEFINE P == node_pages[n]
           f == [v \in P |-> page_table[v].physical_page_id]
<1>1. P = {v \in Mapped : page_table[v].node_id = n}
  BY DEF IInv, ReverseIndexExact
<1>2. \A v \in P : page_table[v].physical_page_id \in Frame
  BY <1>1 DEF IInv, TypeOK, KVPage
<1>3. \A v, w \in P : f[v] = f[w] => v = w
  BY <1>1 DEF IInv, NoDoubleMapping
<1>4. f \in Injection(P, Frame)
  BY <1>2, <1>3 DEF Injection, IsInjective
<1>5. IsFiniteSet(Frame) /\ Cardinality(Frame) = PagesPerNode
  <2>1. /\ IsFiniteSet(0 .. PagesPerNode - 1)
        /\ Cardinality(0 .. PagesPerNode - 1)
             = IF 0 > PagesPerNode - 1 THEN 0 ELSE PagesPerNode - 1 - 0 + 1
    BY PagesPerNodeAssumption, FS_Interval
  <2> QED BY <2>1, PagesPerNodeAssumption DEF Frame
<1> HIDE DEF f
<1>6. IsFiniteSet(P) /\ Cardinality(P) <= PagesPerNode
  BY <1>4, <1>5, FS_Injection
<1>7. Cardinality(P) \in Nat
  BY <1>6, FS_CardinalityType
<1>8. P \cap Mapped = P
  BY <1>1
<1> QED BY <1>6, <1>7, <1>8, PagesPerNodeAssumption DEF PageCount

\* What a migration does to the counts.
LEMMA MigrateCounts ==
  ASSUME IInv, IInv', NEW v \in Mapped, NEW dst \in Node, MigratePage(v, dst),
         NEW src, src = page_table[v].node_id
  PROVE  /\ src \in Node /\ src # dst
         /\ PageCount' = [PageCount EXCEPT ![src] = @ - 1, ![dst] = @ + 1]
<1>1. src \in Node /\ src # dst
  BY DEF MigratePage, IInv, TypeOK, KVPage
<1>2. /\ node_pages'[src] = node_pages[src] \ {v}
      /\ node_pages'[dst] = node_pages[dst] \cup {v}
      /\ \A m \in Node \ {src, dst} : node_pages'[m] = node_pages[m]
  BY <1>1 DEF MigratePage, IInv, TypeOK
<1>3. v \in node_pages[src] /\ v \notin node_pages[dst]
  BY <1>1 DEF IInv, ReverseIndexExact
<1>4. \A m \in Node : /\ PageCount[m] = Cardinality(node_pages[m])
                      /\ IsFiniteSet(node_pages[m])
  BY CountedPages
<1>5. \A m \in Node : PageCount'[m] = Cardinality(node_pages'[m])
  <2>1. \A m \in Node : node_pages'[m] \cap Mapped' = node_pages'[m]
    BY DEF IInv, ReverseIndexExact
  <2> QED BY <2>1 DEF PageCount
<1>6. /\ Cardinality(node_pages'[src]) = Cardinality(node_pages[src]) - 1
      /\ Cardinality(node_pages'[dst]) = Cardinality(node_pages[dst]) + 1
  <2>1. Cardinality(node_pages[src] \ {v}) = Cardinality(node_pages[src]) - 1
    BY <1>1, <1>3, <1>4, FS_RemoveElement
  <2>2. Cardinality(node_pages[dst] \cup {v}) = Cardinality(node_pages[dst]) + 1
    BY <1>3, <1>4, FS_AddElement
  <2> QED BY <1>2, <2>1, <2>2
<1>7. /\ DOMAIN PageCount = Node /\ DOMAIN PageCount' = Node
      /\ \A m \in Node :
           PageCount'[m] = [PageCount EXCEPT ![src] = @ - 1, ![dst] = @ + 1][m]
  BY ZenonT(30), <1>1, <1>2, <1>4, <1>5, <1>6 DEF PageCount
<1>8. PageCount' = [m \in Node |-> PageCount'[m]]
  BY DEF PageCount
<1> QED BY <1>1, <1>7, <1>8

\* Imbalance is the largest difference between two nodes.
LEMMA ImbalanceIsLargest ==
  ASSUME NEW u, \A n \in Node : u[n] \in 0 .. PagesPerNode
  PROVE  /\ Imbalance(u) \in 0 .. PagesPerNode
         /\ \A n, m \in Node : u[n] - u[m] <= Imbalance(u)
         /\ \E n, m \in Node : u[n] - u[m] = Imbalance(u)
<1> USE NumNodesAssumption, PagesPerNodeAssumption
<1> DEFINE D == {d \in 0 .. PagesPerNode : \E n, m \in Node : u[n] - u[m] = d}
<1>1. D \subseteq Int /\ \A d \in D : d <= PagesPerNode
  OBVIOUS
<1>2. 0 \in Node /\ 0 \in D
  BY DEF Node
<1>3. PICK d \in D : \A e \in D : e <= d
  <2>1. D # {} /\ PagesPerNode \in Int
    BY <1>2
  <2> HIDE DEF D
  <2> QED BY <1>1, <2>1, Greatest
<1>4. \A n, m \in Node : u[n] - u[m] <= d
  BY <1>3
<1>5. \E e \in 0 .. PagesPerNode : /\ \A n, m \in Node : u[n] - u[m] <= e
                                   /\ \E n, m \in Node : u[n] - u[m] = e
  BY <1>3, <1>4
<1> QED BY <1>5 DEF Imbalance

LEMMA SumOverIsNat ==
  ASSUME NEW u, \A n \in Node : u[n] \in Nat
  PROVE  SumOver(u) \in Nat
<1>1. \A i \in 0 .. NumNodes - 1 : u[i] \in Nat
  BY DEF Node
<1> QED BY <1>1, NumNodesAssumption, SumIsNat DEF SumOver

\* A source is ahead of every destination by more than the threshold.
LEMMA SourcesAhead ==
  ASSUME NEW u, \A n \in Node : u[n] \in Nat,
         NEW src \in Overloaded(u), NEW dst \in Underloaded(u)
  PROVE  u[src] - u[dst] > ImbalancePages
<1>1. PICK a \in Nat, b \in Nat : a = u[src] /\ b = u[dst]
  BY DEF Overloaded, Underloaded
<1>2. PICK s \in Nat : s = SumOver(u)
  BY SumOverIsNat
<1>3. PICK N \in Nat, I \in Nat : N = NumNodes /\ I = ImbalancePages /\ N > 0
  BY NumNodesAssumption, ThresholdAssumption
<1>4. PICK t \in Nat : t = N * I
  BY <1>3
<1>5. 2 * N * a > 2 * s + t /\ 2 * N * b < 2 * s - t
  BY <1>1, <1>2, <1>3, <1>4 DEF Overloaded, Underloaded
<1>6. PICK p \in Nat, q \in Nat : p = N * a /\ q = N * b
  BY <1>3, <1>1
<1>7. 2 * p > 2 * s + t /\ 2 * q < 2 * s - t
  BY <1>5, <1>6
<1>8. p - q > t
  BY <1>7
<1>9. N * (a - b) > N * I
  BY <1>4, <1>6, <1>8
<1>10. a - b > I
  <2> SUFFICES ASSUME a - b <= I PROVE FALSE
    OBVIOUS
  <2>1. PICK x \in Nat : x = I - (a - b)
    OBVIOUS
  <2>2. N * x >= 0 /\ N * x = N * I - N * (a - b)
    BY <2>1
  <2>3. N * I \in Int /\ N * (a - b) \in Int
    OBVIOUS
  <2> QED BY <1>9, <2>2, <2>3
<1> QED BY <1>1, <1>3, <1>10

\* The first of a set of nodes is one node.
LEMMA FirstIsOne ==
  ASSUME NEW S \in SUBSET Node, NEW m \in First(S), NEW n \in First(S)
  PROVE  m = n
BY NumNodesAssumption DEF First, Node

LEMMA ModRange ==
  ASSUME NEW m \in Nat \ {0}, NEW x \in Int
  PROVE  x % m \in 0 .. m - 1
OBVIOUS

LEMMA CountsTyped ==
  ASSUME IInv
  PROVE  PageCount \in [Node -> 0 .. PagesPerNode]
<1>1. \A n \in Node : PageCount[n] \in 0 .. PagesPerNode
  BY CountedPages
<1> QED BY <1>1 DEF PageCount

\* The scheduler's own fields keep their types; those of the page lists and of
\* the loop's sets are part of LoopOK.
LEMMA SchedTypeStep ==
  ASSUME SIInv, SIInv', SchedTypeOK, [SchedNext]_schedVars
  PROVE  SchedTypeOK'
<1> DEFINE Own == /\ policy \in Policies /\ batch_size \in BatchSizes
                  /\ rr_counter \in 0 .. NumNodes - 2
                  /\ node_utilization \in [Node -> 0 .. PagesPerNode]
                  /\ request_locality \in [Req -> [Node -> Nat]]
                  /\ req_tokens \in [Req -> 0 .. BlockTokens - 1]
                  /\ processed \in 0 .. MigrationInterval - 1
                  /\ pc \in {"line", "check", "migrate"}
                  /\ utils \in [Node -> Int] /\ migrated \in Nat
<1>1. /\ active_requests' \in [Req -> Seq(VirtualId)]
      /\ sources' \subseteq Node /\ todo' \subseteq Mapped' /\ underloaded' \subseteq Node
  BY DEF SIInv, LoopOK, Private
<1> SUFFICES Own'
  BY <1>1 DEF SchedTypeOK
<1> USE DEF SchedTypeOK
<1>2. \A r \in Req : (req_tokens[r] + 1) % BlockTokens \in 0 .. BlockTokens - 1
  <2> TAKE r \in Req
  <2>1. BlockTokens \in Nat \ {0} /\ req_tokens[r] + 1 \in Int
    BY BlockTokensAssumption
  <2> QED BY <2>1, ModRange
<1>3. (processed + 1) % MigrationInterval \in 0 .. MigrationInterval - 1
  BY IntervalAssumption, ModRange
<1>4. (rr_counter + 1) % (NumNodes - 1) \in 0 .. NumNodes - 2
  <2>1. NumNodes - 1 \in Nat \ {0} /\ rr_counter + 1 \in Int
    BY NumNodesAssumption, SharedNodeAssumption
  <2>2. (rr_counter + 1) % (NumNodes - 1) \in 0 .. (NumNodes - 1) - 1
    BY <2>1, ModRange
  <2> QED BY <2>2, NumNodesAssumption
<1>5. ASSUME EndOfLine
      PROVE  /\ processed' \in 0 .. MigrationInterval - 1 /\ pc' \in {"line", "check", "migrate"}
             /\ UNCHANGED <<policy, batch_size, node_utilization, utils, migrated>>
  BY <1>3, <1>5 DEF EndOfLine, migVars
<1>6. ASSUME NEW shared \in BOOLEAN, CountSelection(shared)
      PROVE  rr_counter' \in 0 .. NumNodes - 2
  BY <1>4, <1>6 DEF CountSelection
<1>7. ASSUME NEW r \in Req, WriteInBlock(r) PROVE Own'
  BY <1>2, <1>5, <1>7 DEF WriteInBlock
<1>8. ASSUME NEW r \in Req, ReadLine(r) PROVE Own'
  BY <1>5, <1>8 DEF ReadLine
<1>9. ASSUME NEW r \in Req, NEW shared \in BOOLEAN, WriteNewPage(r, shared) PROVE Own'
  <2>1. PICK n \in Node : request_locality' = [request_locality EXCEPT ![r][n] = @ + 1]
    BY <1>9, SelectedIsNode DEF WriteNewPage
  <2>2. request_locality' \in [Req -> [Node -> Nat]]
    BY <2>1
  <2>3. EndOfLine /\ CountSelection(shared)
        /\ req_tokens' = [req_tokens EXCEPT ![r] = (@ + 1) % BlockTokens]
    BY <1>9 DEF WriteNewPage
  <2> QED BY <1>2, <1>5, <1>6, <2>2, <2>3
<1>10. ASSUME NEW r \in Req, NEW shared \in BOOLEAN, WriteDropped(r, shared) PROVE Own'
  BY <1>2, <1>5, <1>6, <1>10 DEF WriteDropped
<1>11. ASSUME Idle PROVE pc' = "line" /\ utils' \in [Node -> Int] /\ migrated' \in Nat
  BY <1>11 DEF Idle
<1>12. ASSUME StartCheck PROVE Own'
  <2>1. PageCount \in [Node -> 0 .. PagesPerNode] /\ PageCount \in [Node -> Int]
    BY CountsTyped, PagesPerNodeAssumption DEF SIInv
  <2> QED BY <1>11, <1>12, <2>1 DEF StartCheck
<1>13. ASSUME MigrateNext PROVE Own'
  <2>1. \/ UNCHANGED <<utils, migrated>>
        \/ /\ migrated' = migrated + 1
           /\ \E src, dst \in Node : utils' = [utils EXCEPT ![src] = @ - 1, ![dst] = @ + 1]
    BY <1>13 DEF MigrateNext, First, FirstLeast
  <2>2. utils' \in [Node -> Int] /\ migrated' \in Nat
    <3>1. CASE UNCHANGED <<utils, migrated>>
      BY <3>1
    <3>2. CASE ~UNCHANGED <<utils, migrated>>
      <4>1. PICK src \in Node, dst \in Node :
              utils' = [utils EXCEPT ![src] = @ - 1, ![dst] = @ + 1]
        BY <2>1, <3>2
      <4>2. utils' \in [Node -> Int]
        BY <4>1
      <4>3. migrated' \in Nat
        BY SMTT(30), <2>1, <3>2
      <4> QED BY <4>2, <4>3
    <3> QED BY <3>1, <3>2
  <2> QED BY <1>13, <2>2 DEF MigrateNext, lbVars
<1>14. ASSUME NextSource PROVE Own'
  BY <1>14 DEF NextSource, lbVars
<1>15. ASSUME MigrationDone PROVE Own'
  BY <1>11, <1>15 DEF MigrationDone, lbVars
<1>16. CASE UNCHANGED schedVars
  BY <1>16 DEF schedVars, lbVars, migVars
<1> HIDE DEF Own
<1> QED BY <1>7, <1>8, <1>9, <1>10, <1>12, <1>13, <1>14, <1>15, <1>16
        DEF SchedNext, TraceLine, Migration

\* What one migration does to the loop's invariant.
LEMMA MigrateNextLoop ==
  ASSUME MIInv, SIInv', SchedTypeOK', MigrateNext
  PROVE  LoopInv'
<1> USE DEF MIInv
<1>1. PICK v \in Coldest(todo), src \in First(sources), dst \in FirstLeast(underloaded, utils) :
        /\ todo' = todo \ {v}
        /\ IF CanAlloc(dst)
             THEN /\ MigratePage(v, dst)
                  /\ migrated' = migrated + 1
                  /\ utils' = [utils EXCEPT ![src] = @ - 1, ![dst] = @ + 1]
             ELSE UNCHANGED <<ptVars, migrated, utils>>
  BY DEF MigrateNext
<1>2. /\ pc = "migrate" /\ pc' = "migrate" /\ migrated < batch_size
      /\ UNCHANGED <<sources, underloaded, node_utilization, batch_size>>
  BY DEF MigrateNext, lbVars
<1>3. /\ src \in Overloaded(node_utilization) /\ src \in Node
      /\ dst \in Underloaded(node_utilization) /\ dst \in Node
      /\ v \in todo /\ v \in Mapped /\ page_table[v].node_id = src
  <2>1. page_table[v].node_id \in First(sources) /\ v \in todo /\ v \in Mapped
    BY <1>2, <1>1 DEF LoopInv, Coldest, SIInv, LoopOK, Private
  <2>2. sources \in SUBSET Node /\ src \in sources /\ dst \in underloaded
    BY DEF SchedTypeOK, First, FirstLeast
  <2> QED BY <1>2, <2>1, <2>2, FirstIsOne DEF LoopInv, SchedTypeOK
<1>4. \A n \in Node : node_utilization[n] \in Nat /\ utils[n] \in Int
  BY DEF SchedTypeOK
<1>5. Overloaded(node_utilization) \cap Underloaded(node_utilization) = {}
  <2> SUFFICES ASSUME NEW n \in Overloaded(node_utilization), n \in Underloaded(node_utilization)
               PROVE  FALSE
    OBVIOUS
  <2>1. node_utilization[n] - node_utilization[n] > ImbalancePages
    BY <1>4, SourcesAhead
  <2>2. n \in Node
    BY DEF Overloaded
  <2> QED BY <1>4, <2>1, <2>2, ThresholdAssumption
<1>6. \A w \in todo' : w \in todo /\ w # v
  BY <1>1
<1>7. CASE CanAlloc(dst)
  <2>1. MigratePage(v, dst) /\ migrated' = migrated + 1
        /\ utils' = [utils EXCEPT ![src] = @ - 1, ![dst] = @ + 1]
    BY <1>1, <1>7
  <2>2. src # dst /\ PageCount' = [PageCount EXCEPT ![src] = @ - 1, ![dst] = @ + 1]
    BY <1>3, <2>1, MigrateCounts DEF SIInv
  <2>3. EstimatesExact'
    BY <1>2, <2>1, <2>2 DEF LoopInv, EstimatesExact
  <2>4. \A w \in todo' : page_table'[w].node_id \in First(sources)
    <3>1. page_table' = [page_table EXCEPT ![v].node_id = dst,
                           ![v].physical_page_id = PhysicalFor(dst), ![v].state = "ALLOCATED"]
      BY <2>1 DEF MigratePage
    <3>2. \A w \in todo : w \in Mapped
      BY DEF SIInv, LoopOK, Private
    <3>3. \A w \in todo' : page_table'[w] = page_table[w]
      BY <1>6, <3>1, <3>2 DEF Mapped
    <3> QED BY <1>2, <1>6, <3>3 DEF LoopInv
  <2>5. \A n \in Node : Bounded(n)'
    <3> TAKE n \in Node
    <3>1. Bounded(n)
      BY <1>2 DEF LoopInv
    <3>2. /\ n = src => utils'[n] = utils[n] - 1
          /\ n = dst => utils'[n] = utils[n] + 1
          /\ n \notin {src, dst} => utils'[n] = utils[n]
      BY <1>3, <2>1, <2>2 DEF SchedTypeOK
    <3>3. migrated \in Nat
      BY DEF SchedTypeOK
    <3>4. /\ Overloaded(node_utilization)' = Overloaded(node_utilization)
          /\ Underloaded(node_utilization)' = Underloaded(node_utilization)
          /\ node_utilization'[n] = node_utilization[n]
      BY <1>2 DEF Overloaded, Underloaded, SumOver
    <3> QED BY <1>3, <1>4, <1>5, <2>1, <3>1, <3>2, <3>3, <3>4 DEF Bounded
  <2>6. migrated' <= batch_size'
    BY <1>2, <2>1, ThresholdAssumption DEF SchedTypeOK
  <2> QED BY <1>2, <2>3, <2>4, <2>5, <2>6 DEF LoopInv, First, Overloaded, Underloaded, SumOver
<1>8. CASE ~CanAlloc(dst)
  <2>1. UNCHANGED <<ptVars, migrated, utils>>
    BY <1>1, <1>8
  <2>2. PageCount' = PageCount /\ page_table' = page_table
    BY <2>1 DEF PageCount, ptVars, Mapped
  <2> QED BY <1>2, <1>6, <2>1, <2>2
          DEF LoopInv, EstimatesExact, First, Bounded, Overloaded, Underloaded, SumOver
<1> QED BY <1>7, <1>8

LEMMA StartCheckLoop ==
  ASSUME MIInv, SchedTypeOK', StartCheck
  PROVE  LoopInv'
<1> SUFFICES ASSUME pc' = "migrate" PROVE LoopInv'
  BY DEF LoopInv
<1>1. /\ Overloaded(PageCount) # {} /\ Underloaded(PageCount) # {}
      /\ sources' = Overloaded(PageCount) /\ underloaded' = Underloaded(PageCount)
      /\ \E src \in First(Overloaded(PageCount)) : todo' = PrivatePages(src)
      /\ utils' = PageCount /\ migrated' = 0 /\ node_utilization' = PageCount
      /\ UNCHANGED <<ptVars, batch_size>>
  BY DEF StartCheck, Idle
<1>2. page_table' = page_table /\ PageCount' = PageCount
  BY <1>1 DEF ptVars, PageCount, Mapped
<1>3. PICK src \in First(Overloaded(PageCount)) : todo' = PrivatePages(src)
  BY <1>1
<1>4. src \in Node /\ \A w \in PrivatePages(src) : page_table[w].node_id = src
  <2>1. src \in Node
    BY DEF First, Overloaded
  <2> QED BY <2>1 DEF PrivatePages, MIInv, SIInv, IInv, ReverseIndexExact
<1>5. /\ Overloaded(node_utilization)' = Overloaded(PageCount)
      /\ Underloaded(node_utilization)' = Underloaded(PageCount)
  BY <1>1 DEF Overloaded, Underloaded, SumOver
<1>6. \A w \in todo' : page_table'[w].node_id \in First(sources)'
  BY <1>1, <1>2, <1>3, <1>4 DEF First
<1>7. \A n \in Node : Bounded(n)'
  <2>1. \A n \in Node : PageCount[n] \in Int
    BY CountsTyped, PagesPerNodeAssumption DEF MIInv, SIInv
  <2>2. \A n \in Node : utils'[n] = node_utilization'[n] /\ node_utilization'[n] \in Int
    BY <1>1, <2>1
  <2> QED BY <1>1, <2>2 DEF Bounded
<1>8. migrated' <= batch_size'
  BY <1>1, ThresholdAssumption DEF SchedTypeOK
<1>9. EstimatesExact'
  BY <1>1, <1>2 DEF EstimatesExact
<1> QED BY <1>1, <1>5, <1>6, <1>7, <1>8, <1>9 DEF LoopInv

LEMMA NextSourceLoop ==
  ASSUME MIInv, NextSource
  PROVE  LoopInv'
<1>1. /\ UNCHANGED <<ptVars, pc, underloaded, utils, migrated, batch_size, node_utilization>>
      /\ pc = "migrate"
  BY DEF NextSource, lbVars
<1>1a. PICK src \in First(sources) :
         /\ sources' = sources \ {src}
         /\ \E next \in First(sources \ {src}) : todo' = PrivatePages(next)
  BY DEF NextSource
<1>2. PICK next \in First(sources') : todo' = PrivatePages(next) /\ sources' \subseteq sources
  BY <1>1a
<1>3. sources \subseteq Node
  BY DEF MIInv, SchedTypeOK
<1>4. next \in sources' /\ next \in Node /\ next \in First(sources)'
  BY <1>2, <1>3 DEF First
<1>5. \A w \in PrivatePages(next) : page_table[w].node_id = next
  BY <1>4 DEF PrivatePages, MIInv, SIInv, IInv, ReverseIndexExact
<1>6. page_table' = page_table /\ PageCount' = PageCount
  BY <1>1 DEF ptVars, PageCount, Mapped
<1>7. /\ Overloaded(node_utilization)' = Overloaded(node_utilization)
      /\ Underloaded(node_utilization)' = Underloaded(node_utilization)
  BY <1>1 DEF Overloaded, Underloaded, SumOver
<1>8. \A w \in todo' : page_table'[w].node_id \in First(sources)'
  BY <1>2, <1>4, <1>5, <1>6
<1>9. \A n \in Node : Bounded(n)'
  <2> TAKE n \in Node
  <2>1. Bounded(n)
    BY <1>1 DEF MIInv, LoopInv
  <2> QED BY <1>1, <1>7, <2>1 DEF Bounded
<1>10. EstimatesExact'
  BY <1>1, <1>6 DEF MIInv, LoopInv, EstimatesExact
<1> QED BY <1>1, <1>2, <1>4, <1>7, <1>8, <1>9, <1>10 DEF MIInv, LoopInv

LEMMA MigratorInit == SchedInit => MIInv
<1> SUFFICES ASSUME SchedInit PROVE MIInv
  OBVIOUS
<1>1. SIInv
  BY SchedInitLemma
<1>2. LoopInv
  BY DEF SchedInit, LoopInv
<1>3. /\ 0 \in 0 .. NumNodes - 2 /\ 0 \in 0 .. PagesPerNode
      /\ 0 \in 0 .. BlockTokens - 1 /\ 0 \in 0 .. MigrationInterval - 1
  BY NumNodesAssumption, SharedNodeAssumption, PagesPerNodeAssumption,
     BlockTokensAssumption, IntervalAssumption
<1>4. SchedTypeOK
  BY <1>3 DEF SchedInit, SchedTypeOK
<1> QED BY <1>1, <1>2, <1>4 DEF MIInv

LEMMA MigratorStep == MIInv /\ [SchedNext]_schedVars => MIInv'
<1> SUFFICES ASSUME MIInv, [SchedNext]_schedVars PROVE MIInv'
  OBVIOUS
<1>1. SIInv'
  BY SchedStepLemma DEF MIInv
<1>2. SchedTypeOK'
  BY <1>1, SchedTypeStep DEF MIInv
<1>3. CASE TraceLine
  <2>1. pc' # "migrate"
    BY <1>3 DEF TraceLine, WriteInBlock, ReadLine, WriteNewPage, WriteDropped, EndOfLine
  <2> QED BY <1>1, <1>2, <2>1 DEF MIInv, LoopInv
<1>4. CASE StartCheck
  BY <1>1, <1>2, <1>4, StartCheckLoop DEF MIInv
<1>5. CASE MigrateNext
  BY <1>1, <1>2, <1>5, MigrateNextLoop DEF MIInv
<1>6. CASE NextSource
  BY <1>1, <1>2, <1>6, NextSourceLoop DEF MIInv
<1>7. CASE MigrationDone
  <2>1. pc' # "migrate"
    BY <1>7 DEF MigrationDone, Idle
  <2> QED BY <1>1, <1>2, <2>1 DEF MIInv, LoopInv
<1>8. CASE UNCHANGED schedVars
  <2>1. UNCHANGED <<page_table, node_pages, pc, sources, underloaded, utils, migrated,
                    batch_size, node_utilization, todo>>
    BY <1>8 DEF schedVars, ptVars, lbVars, migVars
  <2>2. LoopInv'
    BY <2>1 DEF MIInv, LoopInv, EstimatesExact, PageCount, Mapped, First, Bounded,
                Overloaded, Underloaded, SumOver
  <2> QED BY <1>1, <1>2, <2>2 DEF MIInv
<1> QED BY <1>3, <1>4, <1>5, <1>6, <1>7, <1>8 DEF SchedNext, Migration

\* The migrator's invariant, at every line of the trace and inside every call.
THEOREM MigratorInvariant == SchedSpec => []MIInv
  BY MigratorInit, MigratorStep, PTL DEF SchedSpec

\* Every field of the load balancer, the request tracker and the migrator keeps
\* its type: the round-robin counter never names a candidate that is not there,
\* the cached counts never exceed a node, whatever the policy and the thresholds.
THEOREM SchedTypeCorrect == SchedSpec => []SchedTypeOK
  BY MigratorInvariant, PTL DEF MIInv

\* Inside a migration call the running estimates are the real page counts, after
\* pages moved and pages refused alike.
THEOREM EstimatesAreExact == SchedSpec => []EstimatesExact
<1>1. MIInv => EstimatesExact
  BY DEF MIInv, LoopInv, EstimatesExact
<1> QED BY <1>1, MigratorInvariant, PTL

\* While no more pages have moved than the threshold, no two nodes differ by
\* more than the two that differed most when the call read them.
LEMMA NeverFurtherApart ==
  ASSUME MIInv, pc = "migrate", batch_size <= ImbalancePages
  PROVE  Imbalance(PageCount) <= Imbalance(node_utilization)
<1> DEFINE read(n) == node_utilization[n]
           O == Overloaded(node_utilization)
           U == Underloaded(node_utilization)
           D == Imbalance(node_utilization)
<1>1. \A n \in Node : read(n) \in 0 .. PagesPerNode /\ read(n) \in Nat /\ utils[n] \in Int
  BY PagesPerNodeAssumption DEF MIInv, SchedTypeOK
<1>2. migrated \in Nat /\ migrated <= ImbalancePages /\ ImbalancePages \in Nat
  BY ThresholdAssumption DEF MIInv, LoopInv, SchedTypeOK
<1>3. D \in Int /\ \A n, m \in Node : read(n) - read(m) <= D
  BY <1>1, ImbalanceIsLargest, PagesPerNodeAssumption
<1>4. /\ O \subseteq Node /\ U \subseteq Node
      /\ \A s \in O, d \in U : read(s) - read(d) > ImbalancePages
  BY <1>1, SourcesAhead DEF Overloaded, Underloaded
<1>5. PICK s \in O, d \in U : TRUE
  BY DEF MIInv, LoopInv
<1>6. \A n \in Node : /\ n \in O => utils[n] >= read(n) - migrated /\ utils[n] <= read(n)
                      /\ n \in U => utils[n] >= read(n) /\ utils[n] <= read(n) + migrated
                      /\ n \notin O \cup U => utils[n] = read(n)
  BY <1>1, <1>2 DEF MIInv, LoopInv, Bounded
<1>7. \A n, m \in Node : utils[n] - utils[m] <= D
  <2> TAKE n \in Node, m \in Node
  <2>1. /\ read(n) - read(m) <= D /\ read(s) - read(m) <= D /\ read(n) - read(d) <= D
        /\ read(s) - read(d) <= D /\ read(m) - read(n) <= D
    BY <1>3, <1>4, <1>5
  <2>2. /\ read(s) - read(d) > ImbalancePages
        /\ n \in U => read(s) - read(n) > ImbalancePages
        /\ m \in O => read(m) - read(d) > ImbalancePages
        /\ n \in U /\ m \in O => read(m) - read(n) > ImbalancePages
    BY <1>4, <1>5
  <2>3. /\ read(n) \in Int /\ read(m) \in Int /\ read(s) \in Int /\ read(d) \in Int
        /\ utils[n] \in Int /\ utils[m] \in Int
    BY <1>1, <1>4, <1>5
  <2>4. CASE n \in U /\ m \in O
    BY <1>2, <1>3, <1>6, <2>1, <2>2, <2>3, <2>4
  <2>5. CASE n \in U /\ m \notin O
    BY <1>2, <1>3, <1>6, <2>1, <2>2, <2>3, <2>5
  <2>6. CASE n \notin U /\ m \in O
    BY <1>2, <1>3, <1>6, <2>1, <2>2, <2>3, <2>6
  <2>7. CASE n \notin U /\ m \notin O
    BY <1>2, <1>3, <1>6, <2>1, <2>3, <2>7
  <2> QED BY <2>4, <2>5, <2>6, <2>7
<1>8. utils = PageCount /\ \A n \in Node : utils[n] \in 0 .. PagesPerNode
  BY CountsTyped DEF MIInv, SIInv, LoopInv, EstimatesExact
<1>9. PICK n \in Node, m \in Node : utils[n] - utils[m] = Imbalance(utils)
  BY <1>8, ImbalanceIsLargest
<1> QED BY <1>7, <1>8, <1>9

\* A migration call whose batch is no larger than the imbalance threshold never
\* leaves the nodes more unbalanced than it found them.
THEOREM MigrationsNeverWorsen == SchedSpec => MigrationNeverWorsens
<1>1. MIInv /\ [SchedNext]_schedVars =>
        [pc = "migrate" /\ pc' = "line" /\ batch_size <= ImbalancePages
           => Imbalance(PageCount) <= Imbalance(node_utilization)]_schedVars
  BY NeverFurtherApart
<1> QED BY <1>1, MigratorInvariant, PTL DEF SchedSpec, MigrationNeverWorsens

-----------------------------------------------------------------------------
(* The locality tracker and the shared node.                               *)

SharedPages(r) == {v \in Mapped : page_table[v].req_id = r /\ page_table[v].is_shared_prefix}

\* Only a page of the shared prefix is sent to the shared node.
LEMMA SharedNodeForShared ==
  ASSUME NEW r \in Req, NEW shared \in BOOLEAN, policy \in Policies, NEW n \in SelectNode(r, shared)
  PROVE  n = SharedNode <=> shared
<1>1. shared => n = SharedNode
  BY SelectedIsNode
<1>2. ASSUME ~shared PROVE n \in Candidates
  <2>1. CASE policy = "round_robin"
    BY <1>2, <2>1 DEF SelectNode, RoundRobinNode
  <2>2. CASE policy = "least_loaded"
    BY <1>2, <2>2 DEF SelectNode, LeastLoadedNode, FirstLeast
  <2>3. CASE policy = "locality_aware"
    BY <1>2, <2>3 DEF SelectNode, LocalityNodes, IsLocal, LeastLoadedNode, FirstLeast
  <2> QED BY <2>1, <2>2, <2>3, PoliciesAssumption
<1> QED BY <1>1, <1>2 DEF Candidates

\* A step that keeps every page's owner and sharing, and the tracker, keeps the count.
LEMMA SameSharedPages ==
  ASSUME ReservedFromAllocation, Mapped' = Mapped, request_locality' = request_locality,
         \A w \in Mapped : /\ page_table'[w].req_id = page_table[w].req_id
                           /\ page_table'[w].is_shared_prefix = page_table[w].is_shared_prefix
  PROVE  ReservedFromAllocation'
<1>1. \A r \in Req : SharedPages(r)' = SharedPages(r)
  BY DEF SharedPages
<1>2. \A r \in Req : request_locality[r][SharedNode] = Cardinality(SharedPages(r))
  BY DEF ReservedFromAllocation, SharedPages
<1>3. \A r \in Req : request_locality'[r][SharedNode] = Cardinality(SharedPages(r)')
  BY <1>1, <1>2
<1> QED BY <1>3 DEF ReservedFromAllocation, SharedPages

\* A new page is counted on the shared node just when it is shared.
LEMMA NewPageReserved ==
  ASSUME MIInv, ReservedFromAllocation, NEW r \in Req, NEW shared \in BOOLEAN, WriteNewPage(r, shared)
  PROVE  ReservedFromAllocation'
<1>1. PICK n \in SelectNode(r, shared) :
        AllocatePage(n, r, shared) /\ request_locality' = [request_locality EXCEPT ![r][n] = @ + 1]
  BY DEF WriteNewPage
<1>2. n \in Node /\ SharedNode \in Node /\ (n = SharedNode <=> shared)
  BY <1>1, SelectedIsNode, SharedNodeForShared, SharedNodeAssumption DEF MIInv, SIInv, LoopOK
<1>3. PICK v : v = next_virtual_id
  OBVIOUS
<1>4. v \in VirtualId /\ v \notin Mapped /\ Mapped \subseteq VirtualId
  BY <1>1, <1>3, MaxVirtualAssumption
     DEF AllocatePage, MIInv, SIInv, IInv, TypeOK, VirtualId
<1>5. /\ Mapped' = Mapped \cup {v}
      /\ \A w \in Mapped : page_table'[w] = page_table[w]
      /\ page_table'[v].req_id = r
      /\ page_table'[v].is_shared_prefix = shared
  BY <1>1, <1>3, <1>4 DEF AllocatePage, Mapped, NewPage
<1>6. request_locality \in [Req -> [Node -> Nat]]
  BY DEF MIInv, SchedTypeOK
<1>7. ASSUME NEW q \in Req
      PROVE  request_locality'[q][SharedNode] = Cardinality(SharedPages(q)')
  <2>1. request_locality[q][SharedNode] = Cardinality(SharedPages(q))
    BY DEF ReservedFromAllocation, SharedPages
  <2>2. IsFiniteSet(SharedPages(q)) /\ v \notin SharedPages(q)
    <3>1. IsFiniteSet(VirtualId)
      BY MaxVirtualAssumption, FS_Interval DEF VirtualId
    <3>2. SharedPages(q) \subseteq VirtualId
      BY <1>4 DEF SharedPages
    <3> QED BY <1>4, <3>1, <3>2, FS_Subset DEF SharedPages
  <2>3. CASE q = r /\ shared
    <3>1. SharedPages(q)' = SharedPages(q) \cup {v}
      BY <1>5, <2>3 DEF SharedPages
    <3>2. Cardinality(SharedPages(q) \cup {v}) = Cardinality(SharedPages(q)) + 1
      BY <2>2, FS_AddElement
    <3>3. request_locality'[q][SharedNode] = request_locality[q][SharedNode] + 1
      BY <1>1, <1>2, <1>6, <2>3
    <3> QED BY <2>1, <3>1, <3>2, <3>3
  <2>4. CASE ~(q = r /\ shared)
    <3>1. SharedPages(q)' = SharedPages(q)
      BY <1>5, <2>4 DEF SharedPages
    <3>2. request_locality'[q][SharedNode] = request_locality[q][SharedNode]
      BY <1>1, <1>2, <1>6, <2>4
    <3> QED BY <2>1, <3>1, <3>2
  <2> QED BY <2>3, <2>4
<1> QED BY <1>7 DEF ReservedFromAllocation, SharedPages

LEMMA ReservedStep == MIInv /\ ReservedFromAllocation /\ [SchedNext]_schedVars => ReservedFromAllocation'
<1> SUFFICES ASSUME MIInv, ReservedFromAllocation, [SchedNext]_schedVars PROVE ReservedFromAllocation'
  OBVIOUS
<1>0. page_table \in [Mapped -> KVPage] /\ SIInv
  BY DEF MIInv, SIInv, IInv, TypeOK
<1>1. ASSUME UNCHANGED <<page_table, request_locality>> PROVE ReservedFromAllocation'
  BY <1>1, SameSharedPages DEF Mapped
<1>2. ASSUME UNCHANGED request_locality, NEW v \in Mapped, NEW p, page_table' = [page_table EXCEPT ![v] = p],
             p.req_id = page_table[v].req_id, p.is_shared_prefix = page_table[v].is_shared_prefix
      PROVE  ReservedFromAllocation'
  <2>1. Mapped' = Mapped
    BY <1>0, <1>2 DEF Mapped
  <2>2. \A w \in Mapped : page_table'[w] = IF w = v THEN p ELSE page_table[w]
    BY <1>0, <1>2
  <2> QED BY <1>2, <2>1, <2>2, SameSharedPages
<1>3. ASSUME NEW r \in Req, WriteInBlock(r) PROVE ReservedFromAllocation'
  BY <1>1, <1>3 DEF WriteInBlock, ptVars
<1>4. ASSUME NEW r \in Req, ReadLine(r) PROVE ReservedFromAllocation'
  <2>1. CASE active_requests[r] # <<>>
    <3>1. PICK v \in Mapped : RecordAccess(v)
      BY <1>4, <2>1 DEF ReadLine, RecordAccess
    <3>2. PICK p : p = [page_table[v] EXCEPT !.access_count = @ + 1]
      OBVIOUS
    <3>3. page_table[v] \in KVPage
      BY <1>0
    <3>4. page_table' = [page_table EXCEPT ![v] = p] /\ UNCHANGED request_locality
      BY <1>4, <3>1, <3>2 DEF RecordAccess, ReadLine
    <3>5. p.req_id = page_table[v].req_id /\ p.is_shared_prefix = page_table[v].is_shared_prefix
      BY <3>2, <3>3 DEF KVPage
    <3> QED BY <1>2, <3>4, <3>5
  <2>2. CASE active_requests[r] = <<>>
    BY <1>1, <1>4, <2>2 DEF ReadLine, ptVars
  <2> QED BY <2>1, <2>2
<1>5. ASSUME NEW r \in Req, NEW shared \in BOOLEAN, WriteDropped(r, shared) PROVE ReservedFromAllocation'
  BY <1>1, <1>5 DEF WriteDropped, ptVars
<1>6. ASSUME StartCheck \/ NextSource \/ MigrationDone PROVE ReservedFromAllocation'
  BY <1>1, <1>6 DEF StartCheck, NextSource, MigrationDone, ptVars, lbVars
<1>7. ASSUME MigrateNext PROVE ReservedFromAllocation'
  <2>1. PICK v \in todo, dst \in underloaded : MigratePage(v, dst) \/ UNCHANGED ptVars
    BY <1>7 DEF MigrateNext, Coldest, FirstLeast
  <2>2. UNCHANGED request_locality /\ v \in Mapped
    BY <1>0, <1>7 DEF MigrateNext, lbVars, SIInv, LoopOK, Private
  <2>3. CASE MigratePage(v, dst)
    <3>1. PICK p : p = [page_table[v] EXCEPT !.node_id = dst, !.physical_page_id = PhysicalFor(dst),
                                             !.state = "ALLOCATED"]
      OBVIOUS
    <3>2. page_table[v] \in KVPage
      BY <1>0, <2>2
    <3>3. page_table' = [page_table EXCEPT ![v] = p]
      BY <2>3, <3>1 DEF MigratePage
    <3>4. p.req_id = page_table[v].req_id /\ p.is_shared_prefix = page_table[v].is_shared_prefix
      BY <3>1, <3>2 DEF KVPage
    <3> QED BY <1>2, <2>2, <3>3, <3>4
  <2>4. CASE UNCHANGED ptVars
    BY <1>1, <2>2, <2>4 DEF ptVars
  <2> QED BY <2>1, <2>3, <2>4
<1>8. CASE UNCHANGED schedVars
  BY <1>1, <1>8 DEF schedVars, lbVars, ptVars
<1> QED BY <1>3, <1>4, <1>5, <1>6, <1>7, <1>8, NewPageReserved DEF SchedNext, TraceLine, Migration

\* Under every policy, what the tracker counts on the shared node for a request is
\* its pages of the shared prefix: no policy allocates another page there.
THEOREM SharedNodeIsReserved == SchedSpec => []ReservedFromAllocation
<1>1. SchedInit => ReservedFromAllocation
  <2> SUFFICES ASSUME SchedInit, NEW r \in Req
               PROVE  request_locality[r][SharedNode] = Cardinality(SharedPages(r))
    BY DEF ReservedFromAllocation, SharedPages
  <2>1. SharedPages(r) = {}
    BY DEF SchedInit, Init, SharedPages, Mapped
  <2>2. request_locality[r][SharedNode] = 0
    BY SharedNodeAssumption DEF SchedInit
  <2> QED BY <2>1, <2>2, FS_EmptySet
<1> QED BY <1>1, ReservedStep, MigratorInvariant, PTL DEF SchedSpec

=============================================================================
