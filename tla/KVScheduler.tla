----------------------------- MODULE KVScheduler -----------------------------
(***************************************************************************)
(* HostOSScheduler of scripts/host_os_scheduler.py: process_trace drives   *)
(* the page table through the LoadBalancer (which node a new page goes to) *)
(* and the DynamicMigrator (which pages move when nodes are unbalanced).   *)
(*                                                                         *)
(* A utilization is the number of pages of a node: the code divides every  *)
(* one of them by the same pages_per_node, so thresholds are given in      *)
(* pages and compared exactly where the code compares floats.              *)
(*                                                                         *)
(* The program is sequential; pc says where in an iteration of             *)
(* process_trace it is: reading a "line", at the periodic "check", or in   *)
(* the page loop of check_and_migrate ("migrate").                         *)
(***************************************************************************)
EXTENDS KVPageTable

CONSTANTS
  Policies,           \* the AllocationPolicy values under check
  SharedNode,         \* shared_node_id
  BlockTokens,        \* KV_BLOCK_TOKENS
  MigrationInterval,  \* migration_interval, in trace lines
  OverloadPages,      \* overload_threshold, in pages
  ImbalancePages,     \* imbalance_threshold, in pages
  BatchSizes          \* the migration_batch_size values under check

ASSUME PoliciesAssumption ==
  Policies \subseteq {"round_robin", "least_loaded", "locality_aware"}
ASSUME SharedNodeAssumption == SharedNode \in Node /\ NumNodes > 1
ASSUME BlockTokensAssumption == BlockTokens \in Nat /\ BlockTokens > 1
ASSUME IntervalAssumption == MigrationInterval \in Nat \ {0}
ASSUME ThresholdAssumption ==
  OverloadPages \in Nat /\ ImbalancePages \in Nat \ {0} /\ BatchSizes \subseteq Nat

VARIABLES
  policy,            \* LoadBalancer.policy
  batch_size,        \* DynamicMigrator.migration_batch_size
  rr_counter,        \* _rr_counter, modulo the number of candidates
  node_utilization,  \* _node_utilization: the cached page count of each node
  request_locality,  \* _request_locality: pages recorded per request and node
  active_requests,   \* request -> list of its virtual pages
  req_tokens,        \* tokens written per request, modulo BlockTokens
  processed,         \* trace lines processed, modulo MigrationInterval
  pc,                \* where process_trace is
  sources,           \* check_and_migrate: overloaded nodes not yet drained
  todo,              \* its src_pages still to try, of the least of sources
  underloaded,       \* its candidate destinations
  utils,             \* its running estimate of the page counts
  migrated           \* pages moved by this call

lbVars == <<policy, batch_size, rr_counter, node_utilization, request_locality>>
migVars == <<sources, todo, underloaded, utils, migrated>>
schedVars == <<ptVars, lbVars, active_requests, req_tokens, processed, pc, migVars>>

-----------------------------------------------------------------------------
(* LoadBalancer.                                                           *)

\* Mutant: the shared node is one candidate like the others.
Candidates_All == Node

Candidates == Node \ {SharedNode}

\* min() keeps the first of equals, the lowest node id: a set of one node.
FirstLeast(S, u) ==
  {n \in S : \A m \in S : u[n] < u[m] \/ (u[n] = u[m] /\ n <= m)}

RoundRobinNode ==
  {c \in Candidates : Cardinality({d \in Candidates : d < c}) = rr_counter}

LeastLoadedNode == FirstLeast(Candidates, node_utilization)

\* max() over the request's dict: which of several maxima is met first depends
\* on insertion order, so any of them.
PreferredNodes(r) ==
  {n \in Node : /\ request_locality[r][n] > 0
                /\ \A m \in Node : request_locality[r][m] <= request_locality[r][n]}

IsLocal(n) == n \in Candidates /\ node_utilization[n] < OverloadPages

LocalityNodes(r) ==
  LET preferred == PreferredNodes(r) IN
  {n \in preferred : IsLocal(n)}
    \cup (IF preferred # {} /\ \A n \in preferred : IsLocal(n)
            THEN {} ELSE LeastLoadedNode)

\* select_node: the nodes a new page may be sent to.
SelectNode(r, shared) ==
  CASE shared -> {SharedNode}
    [] ~shared /\ policy = "round_robin" -> RoundRobinNode
    [] ~shared /\ policy = "least_loaded" -> LeastLoadedNode
    [] ~shared /\ policy = "locality_aware" -> LocalityNodes(r)

\* Mutant: the counter runs over all nodes, the shared one included.
CountSelection_AllNodes(shared) ==
  rr_counter' = IF ~shared /\ policy = "round_robin"
                  THEN (rr_counter + 1) % NumNodes
                  ELSE rr_counter

CountSelection(shared) ==
  rr_counter' = IF ~shared /\ policy = "round_robin"
                  THEN (rr_counter + 1) % (NumNodes - 1)
                  ELSE rr_counter

-----------------------------------------------------------------------------
(* process_trace, one trace line at a time.                                *)

EndOfLine ==
  /\ processed' = (processed + 1) % MigrationInterval
  /\ pc' = IF processed' = 0 THEN "check" ELSE "line"
  /\ UNCHANGED <<policy, batch_size, node_utilization, migVars>>

\* A K or V line inside a block: the token is counted, no page is needed.
WriteInBlock(r) ==
  /\ pc = "line"
  /\ (req_tokens[r] + 1) % BlockTokens # 1
  /\ req_tokens' = [req_tokens EXCEPT ![r] = (@ + 1) % BlockTokens]
  /\ UNCHANGED <<ptVars, rr_counter, request_locality, active_requests>>
  /\ EndOfLine

\* A K or V line that starts a block and finds room on the selected node.
WriteNewPage(r, shared) ==
  /\ pc = "line"
  /\ (req_tokens[r] + 1) % BlockTokens = 1
  /\ req_tokens' = [req_tokens EXCEPT ![r] = (@ + 1) % BlockTokens]
  /\ \E n \in SelectNode(r, shared) :
       /\ AllocatePage(n, r, shared)
       /\ request_locality' = [request_locality EXCEPT ![r][n] = @ + 1]
  /\ active_requests' = [active_requests EXCEPT ![r] = Append(@, next_virtual_id)]
  /\ CountSelection(shared)
  /\ EndOfLine

\* Mutant: the page is appended without looking whether there is one.
WriteDropped_Recorded(r, shared) ==
  /\ pc = "line"
  /\ (req_tokens[r] + 1) % BlockTokens = 1
  /\ req_tokens' = [req_tokens EXCEPT ![r] = (@ + 1) % BlockTokens]
  /\ \E n \in SelectNode(r, shared) : ~CanAlloc(n)
  /\ active_requests' = [active_requests EXCEPT ![r] = Append(@, next_virtual_id)]
  /\ CountSelection(shared)
  /\ UNCHANGED <<ptVars, request_locality>>
  /\ EndOfLine

\* ... and one that finds the selected node full: the page is given up, silently.
WriteDropped(r, shared) ==
  /\ pc = "line"
  /\ (req_tokens[r] + 1) % BlockTokens = 1
  /\ req_tokens' = [req_tokens EXCEPT ![r] = (@ + 1) % BlockTokens]
  /\ \E n \in SelectNode(r, shared) : ~CanAlloc(n)
  /\ CountSelection(shared)
  /\ UNCHANGED <<ptVars, request_locality, active_requests>>
  /\ EndOfLine

\* An RK or RV line touches the request's most recent page, if it has one.
ReadLine(r) ==
  /\ pc = "line"
  /\ IF active_requests[r] # <<>>
       THEN RecordAccess(active_requests[r][Len(active_requests[r])])
       ELSE UNCHANGED ptVars
  /\ UNCHANGED <<rr_counter, request_locality, active_requests, req_tokens>>
  /\ EndOfLine

-----------------------------------------------------------------------------
(* DynamicMigrator.check_and_migrate.                                      *)

PageCount == [n \in Node |-> Cardinality(node_pages[n] \cap Mapped)]

SumOver(u) ==
  LET sum[n \in 0 .. NumNodes] == IF n = 0 THEN 0 ELSE sum[n - 1] + u[n - 1]
  IN  sum[NumNodes]

Imbalance(u) ==
  CHOOSE d \in 0 .. PagesPerNode : /\ \A n, m \in Node : u[n] - u[m] <= d
                     /\ \E n, m \in Node : u[n] - u[m] = d

Overloaded(u) ==
  {n \in Node : 2 * NumNodes * u[n] > 2 * SumOver(u) + NumNodes * ImbalancePages}
Underloaded(u) ==
  {n \in Node : 2 * NumNodes * u[n] < 2 * SumOver(u) - NumNodes * ImbalancePages}

\* Mutant: shared pages are not filtered out.
PrivatePages_All(n) == node_pages[n] \cap Mapped

PrivatePages(n) == {v \in node_pages[n] \cap Mapped : ~page_table[v].is_shared_prefix}

\* The node a loop over S in id order meets first: a set of one node.
First(S) == {n \in S : \A m \in S : n <= m}

Idle ==
  /\ pc' = "line"
  /\ sources' = {} /\ todo' = {} /\ underloaded' = {} /\ migrated' = 0
  /\ utils' = [n \in Node |-> 0]

\* The periodic check refreshes the load balancer's cache, then either finds
\* nothing to do or starts on the first overloaded node.
StartCheck ==
  LET balanced == \/ Imbalance(PageCount) < ImbalancePages
                  \/ Overloaded(PageCount) = {}
                  \/ Underloaded(PageCount) = {}
  IN
  /\ pc = "check"
  /\ node_utilization' = PageCount
  /\ IF balanced
       THEN Idle
       ELSE /\ pc' = "migrate"
            /\ sources' = Overloaded(PageCount)
            /\ \E src \in First(Overloaded(PageCount)) : todo' = PrivatePages(src)
            /\ underloaded' = Underloaded(PageCount)
            /\ utils' = PageCount
            /\ migrated' = 0
  /\ UNCHANGED <<ptVars, policy, batch_size, rr_counter, request_locality,
                 active_requests, req_tokens, processed>>

Coldest(S) ==
  {v \in S : \A w \in S : page_table[v].access_count <= page_table[w].access_count}

\* Mutant: the estimates follow even when the destination refused the page.
MigrateNext_AlwaysCounts ==
  /\ pc = "migrate"
  /\ migrated < batch_size
  /\ \E v \in Coldest(todo), src \in First(sources),
        dst \in FirstLeast(underloaded, utils) :
       /\ todo' = todo \ {v}
       /\ utils' = [utils EXCEPT ![src] = @ - 1, ![dst] = @ + 1]
       /\ IF CanAlloc(dst)
            THEN MigratePage(v, dst) /\ migrated' = migrated + 1
            ELSE UNCHANGED <<ptVars, migrated>>
  /\ UNCHANGED <<sources, underloaded, pc, lbVars, active_requests, req_tokens, processed>>

\* Mutant: the batch limit is not looked at between pages.
MigrateNext_NoLimit ==
  /\ pc = "migrate"
  /\ \E v \in Coldest(todo), src \in First(sources),
        dst \in FirstLeast(underloaded, utils) :
       /\ todo' = todo \ {v}
       /\ IF CanAlloc(dst)
            THEN /\ MigratePage(v, dst)
                 /\ migrated' = migrated + 1
                 /\ utils' = [utils EXCEPT ![src] = @ - 1, ![dst] = @ + 1]
            ELSE UNCHANGED <<ptVars, migrated, utils>>
  /\ UNCHANGED <<sources, underloaded, pc, lbVars, active_requests, req_tokens, processed>>

\* One pass of the page loop: the coldest page left goes to the emptiest
\* destination, and the estimates follow when it moved.
MigrateNext ==
  /\ pc = "migrate"
  /\ migrated < batch_size
  /\ \E v \in Coldest(todo), src \in First(sources),
        dst \in FirstLeast(underloaded, utils) :
       /\ todo' = todo \ {v}
       /\ IF CanAlloc(dst)
            THEN /\ MigratePage(v, dst)
                 /\ migrated' = migrated + 1
                 /\ utils' = [utils EXCEPT ![src] = @ - 1, ![dst] = @ + 1]
            ELSE UNCHANGED <<ptVars, migrated, utils>>
  /\ UNCHANGED <<sources, underloaded, pc, lbVars, active_requests, req_tokens, processed>>

\* The loop over sources: on to the next one, or out.
NextSource ==
  /\ pc = "migrate"
  /\ migrated < batch_size
  /\ todo = {}
  /\ Cardinality(sources) > 1
  /\ \E src \in First(sources) :
       /\ sources' = sources \ {src}
       /\ \E next \in First(sources \ {src}) : todo' = PrivatePages(next)
  /\ UNCHANGED <<ptVars, lbVars, active_requests, req_tokens, processed, pc,
                 underloaded, utils, migrated>>

MigrationDone ==
  /\ pc = "migrate"
  /\ migrated >= batch_size \/ (todo = {} /\ Cardinality(sources) = 1)
  /\ Idle
  /\ UNCHANGED <<ptVars, lbVars, active_requests, req_tokens, processed>>

-----------------------------------------------------------------------------
SchedInit ==
  /\ Init
  /\ policy \in Policies /\ batch_size \in BatchSizes
  /\ rr_counter = 0
  /\ node_utilization = [n \in Node |-> 0]
  /\ request_locality = [r \in Req |-> [n \in Node |-> 0]]
  /\ active_requests = [r \in Req |-> <<>>]
  /\ req_tokens = [r \in Req |-> 0]
  /\ processed = 0
  /\ pc = "line"
  /\ sources = {} /\ todo = {} /\ underloaded = {} /\ migrated = 0
  /\ utils = [n \in Node |-> 0]

TraceLine ==
  \/ \E r \in Req : WriteInBlock(r) \/ ReadLine(r)
  \/ \E r \in Req, shared \in BOOLEAN : WriteNewPage(r, shared) \/ WriteDropped(r, shared)

Migration == StartCheck \/ MigrateNext \/ NextSource \/ MigrationDone

SchedNext == TraceLine \/ Migration

\* The trace may end at any line; the periodic check, once begun, runs to its
\* end like any sequential call.
SchedSpec == SchedInit /\ [][SchedNext]_schedVars /\ WF_schedVars(Migration)

-----------------------------------------------------------------------------
(* Properties.                                                             *)

\* Type invariant of the scheduler's own state.
SchedTypeOK ==
  /\ policy \in Policies /\ batch_size \in BatchSizes
  /\ rr_counter \in 0 .. NumNodes - 2
  /\ node_utilization \in [Node -> 0 .. PagesPerNode]
  /\ request_locality \in [Req -> [Node -> Nat]]
  /\ active_requests \in [Req -> Seq(VirtualId)]
  /\ req_tokens \in [Req -> 0 .. BlockTokens - 1]
  /\ processed \in 0 .. MigrationInterval - 1
  /\ pc \in {"line", "check", "migrate"}
  /\ sources \subseteq Node /\ todo \subseteq Mapped /\ underloaded \subseteq Node
  /\ utils \in [Node -> Int] /\ migrated \in Nat

\* Pages of the shared prefix are allocated on the shared node and no migration
\* takes them off it: requests find the shared prompt where the topology puts it.
SharedPrefixPinned ==
  \A v \in Mapped : page_table[v].is_shared_prefix =>
    page_table[v].node_id = SharedNode /\ page_table[v].state = "SHARED"

\* check_and_migrate never re-reads the table: its running estimate must agree
\* with the real page counts after every page, moved or refused, or it would
\* pick wrong destinations.
EstimatesExact == pc = "migrate" => utils = PageCount

\* A request's page list names exactly the live pages it owns, each once: a read
\* line always finds a page, and no allocated page is forgotten.
RequestPagesExact ==
  \A r \in Req :
    LET pages == active_requests[r] IN
    /\ {pages[i] : i \in DOMAIN pages} = {v \in Mapped : page_table[v].req_id = r}
    /\ \A i, j \in DOMAIN pages : pages[i] = pages[j] => i = j

\* With a batch no larger than the imbalance threshold, a migration call never
\* leaves the nodes more unbalanced than it found them (node_utilization is what
\* the same check read before the call).
MigrationNeverWorsens ==
  [][pc = "migrate" /\ pc' = "line" /\ batch_size <= ImbalancePages
       => Imbalance(PageCount) <= Imbalance(node_utilization)]_schedVars

\* Every policy keeps the shared node out of its candidates ("Skip shared node to
\* keep it reserved", host_os_scheduler.py:369), so that of a request's pages just
\* those of the shared prefix were allocated there.  The locality tracker, which
\* counts pages where they were allocated, tells them from the private pages
\* that are on the shared node because a migration took it for a destination.
ReservedFromAllocation ==
  \A r \in Req : request_locality[r][SharedNode]
    = Cardinality({v \in Mapped : page_table[v].req_id = r /\ page_table[v].is_shared_prefix})
=============================================================================
