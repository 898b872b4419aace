--------------------------- MODULE LastLevelCache ---------------------------
(* The last-level cache of the O3 front ends (llc.cpp, and bhllc.cpp, which  *)
(* adds a quota of MSHRs for blacklisted cores and clflush): sets in LRU     *)
(* order, MSHRs, the requests waiting under an address, the miss and the hit *)
(* list.  An address is a number; the three functions get_index, get_tag and *)
(* align are those of CacheGeometry.  Of a request its address, its core and *)
(* whether it stores are kept.  Times are cycles still to wait.              *)
(*                                                                           *)
(* The memory system is external: it takes or refuses a request, and answers *)
(* the reads it took in any order, between two ticks of the front end.       *)
EXTENDS Integers, FiniteSets, SequencesExt

CONSTANTS Addrs, get_index, get_tag, align,
          Associativity, NumMshrs, Latency,
          NumCores,
          Quotas,         \* what the throttler may leave a blacklisted core
          Attackers,      \* cores that flush what they receive (BHO3)
          SavedCaches,    \* contents a simulation may start from
          MaxRefused,     \* bound: due requests the memory refuses at a tick
          MaxReads        \* bound: reads the memory holds

Cores == 1 .. NumCores
NoCore == 0               \* source_id -1 of a write-back

ASSUME SizesAssumption ==
  /\ {Associativity, NumMshrs, NumCores} \subseteq Nat \ {0}
  /\ {Latency, MaxRefused, MaxReads} \subseteq Nat
  /\ IsFiniteSet(Addrs)
  /\ Attackers \subseteq Cores
  /\ Quotas \subseteq Int

\* Two addresses are of one line when set and tag agree.
ASSUME GeometryAssumption ==
  \A a, b \in Addrs :
    align[a] = align[b] <=> get_index[a] = get_index[b] /\ get_tag[a] = get_tag[b]

VARIABLES
  cache,             \* m_cache_sets: per index its lines [addr, dirty, ready], the least recently used first
  mshrs,             \* m_mshrs: the address of the first request of each entry
  receive_requests,  \* m_receive_requests: who waits under an address
  miss_list,         \* m_miss_list: [wait, write, addr, core]
  hit_list,          \* m_hit_list
  allocated,         \* m_allocated_mshrs
  blacklisted,       \* m_blacklist_status and m_blacklist_max_mshrs
  max_mshrs,
  memory,            \* external: how often the memory holds each read
  unsaved,           \* history: lines with a store that the memory has not got
  crossed            \* history: a hit was called back while its line was missing

cacheVars == <<cache, mshrs, receive_requests, miss_list, hit_list, allocated,
               blacklisted, max_mshrs, memory, unsaved, crossed>>

Indices == {get_index[a] : a \in Addrs}
Lines == {align[a] : a \in Addrs}
Waiter == [addr : Addrs, core : Cores]
HitEntry == [wait : 0 .. Latency, addr : Addrs, core : Cores]

SameTag(line, addr) == get_tag[line.addr] = get_tag[addr]
SetFor(addr) == cache[get_index[addr]]

\* A saved cache is one a run of this geometry could serialize; every line is
\* ready when it is read back.
ASSUME SavedAssumption ==
  \A saved \in SavedCaches :
    /\ saved \in [Indices -> Seq([addr : Addrs, dirty : BOOLEAN, ready : {TRUE}])]
    /\ \A ix \in Indices :
         /\ Len(saved[ix]) <= Associativity
         /\ \A i \in DOMAIN saved[ix] : get_index[saved[ix][i].addr] = ix
         /\ \A i, j \in DOMAIN saved[ix] : SameTag(saved[ix][i], saved[ix][j].addr) => i = j

\* The line of an address in a set, or 0; check_set_hit wants it ready.
Position(set, addr) == SelectInSeq(set, LAMBDA line : SameTag(line, addr))
check_set_hit(set, addr) ==
  LET i == Position(set, addr) IN IF i # 0 /\ set[i].ready THEN i ELSE 0
check_mshr_hit(addr) == {a \in mshrs : align[a] = align[addr]}

DirtyIn(sets, l) == \E ix \in Indices : \E i \in DOMAIN sets[ix] :
                      sets[ix][i].dirty /\ align[sets[ix][i].addr] = l
WritebackIn(list, l) == \E i \in DOMAIN list : list[i].write /\ align[list[i].addr] = l

\* What evict_line puts on the miss list.
\* Mutant: a dirty victim is dropped.
Writeback_Dropped(line) == <<>>
Writeback(line) ==
  IF line.dirty
  THEN <<[wait |-> Latency, write |-> TRUE, addr |-> line.addr, core |-> NoCore]>>
  ELSE <<>>

Stored(req) == IF req.write THEN {align[req.addr]} ELSE {}

-----------------------------------------------------------------------------
(* send(req), one action for each way through it.                            *)

Hit(req) ==
  LET ix == get_index[req.addr]
      i == check_set_hit(cache[ix], req.addr)
  IN /\ i # 0
     /\ cache' = [cache EXCEPT ![ix] = Append(RemoveAt(@, i),
                    [addr |-> req.addr, dirty |-> @[i].dirty \/ req.write, ready |-> TRUE])]
     /\ hit_list' = Append(hit_list, [wait |-> Latency, addr |-> req.addr, core |-> req.core])
     /\ unsaved' = unsaved \cup Stored(req)
     /\ UNCHANGED <<mshrs, receive_requests, miss_list, allocated,
                    blacklisted, max_mshrs, memory, crossed>>

\* A miss of a line that is on its way: the request joins those of the MSHR,
\* under the address of the first of them, and may dirty the line it waits for.
\* Mutant: the request waits under its own address.
Merge_Elsewhere(req) ==
  LET ix == get_index[req.addr]
  IN /\ check_set_hit(cache[ix], req.addr) = 0
     /\ \E a \in check_mshr_hit(req.addr) :
          /\ receive_requests' = [receive_requests EXCEPT
               ![req.addr] = @ \cup {[addr |-> req.addr, core |-> req.core]}]
          /\ cache' = [cache EXCEPT ![ix][Position(cache[ix], a)].dirty = @ \/ req.write]
     /\ unsaved' = unsaved \cup Stored(req)
     /\ UNCHANGED <<mshrs, miss_list, hit_list, allocated,
                    blacklisted, max_mshrs, memory, crossed>>
Merge(req) ==
  LET ix == get_index[req.addr]
  IN /\ check_set_hit(cache[ix], req.addr) = 0
     /\ \E a \in check_mshr_hit(req.addr) :
          /\ receive_requests' = [receive_requests EXCEPT
               ![a] = @ \cup {[addr |-> req.addr, core |-> req.core]}]
          /\ cache' = [cache EXCEPT ![ix][Position(cache[ix], a)].dirty = @ \/ req.write]
     /\ unsaved' = unsaved \cup Stored(req)
     /\ UNCHANGED <<mshrs, miss_list, hit_list, allocated,
                    blacklisted, max_mshrs, memory, crossed>>

Misses(req) == /\ check_set_hit(SetFor(req.addr), req.addr) = 0
               /\ check_mshr_hit(req.addr) = {}

\* The core is over its quota, there is no MSHR, or no line may be evicted.
NoPlaceFor(req) ==
  \/ blacklisted[req.core] /\ allocated[req.core] >= max_mshrs[req.core]
  \/ Cardinality(mshrs) = NumMshrs
  \/ /\ Len(SetFor(req.addr)) >= Associativity
     /\ \A i \in DOMAIN SetFor(req.addr) : ~SetFor(req.addr)[i].ready

Refuse(req) == Misses(req) /\ NoPlaceFor(req) /\ UNCHANGED cacheVars

\* allocate_line: a full set gives up its first ready line.
\* Mutant: the least recently used line, ready or not.
Victim_Oldest(set) == IF Len(set) < Associativity THEN 0 ELSE 1
Victim(set) == IF Len(set) < Associativity THEN 0 ELSE SelectInSeq(set, LAMBDA line : line.ready)

Allocate(req) ==
  LET ix == get_index[req.addr]
      v == Victim(cache[ix])
      kept == IF v = 0 THEN cache[ix] ELSE RemoveAt(cache[ix], v)
      evicted == IF v = 0 THEN <<>> ELSE Writeback(cache[ix][v])
      read == [wait |-> Latency, write |-> FALSE, addr |-> req.addr, core |-> req.core]
  IN /\ Misses(req) /\ ~NoPlaceFor(req)
     /\ cache' = [cache EXCEPT ![ix] =
                    Append(kept, [addr |-> req.addr, dirty |-> req.write, ready |-> FALSE])]
     /\ mshrs' = mshrs \cup {req.addr}
     /\ receive_requests' = [receive_requests EXCEPT
          ![req.addr] = {[addr |-> req.addr, core |-> req.core]}]
     /\ miss_list' = miss_list \o evicted \o <<read>>
     /\ allocated' = [allocated EXCEPT ![req.core] = @ + 1]
     /\ unsaved' = unsaved \cup Stored(req)
     /\ UNCHANGED <<hit_list, blacklisted, max_mshrs, memory, crossed>>

Accept(req) == Hit(req) \/ Merge(req) \/ Allocate(req)

-----------------------------------------------------------------------------
(* tick() and the callbacks.                                                 *)

Aged(list) == [i \in DOMAIN list |->
                 [list[i] EXCEPT !.wait = IF @ = 0 THEN 0 ELSE @ - 1]]
\* The elements of a list at some indices, in its order: the new place of one
\* is how many of the indices come up to its own.
Place(kept, i) == Cardinality({k \in kept : k <= i})
Picked(list, kept) ==
  [j \in 1 .. Cardinality(kept) |-> list[CHOOSE i \in kept : Place(kept, i) = j]]
Without(list, taken) == Picked(list, DOMAIN list \ taken)
ReadsOf(list, r) ==
  {i \in DOMAIN list : ~list[i].write /\ list[i].addr = r.addr /\ list[i].core = r.core}

\* The due requests of the miss list are offered in order; the memory takes
\* some, the others stay where they are.
SendMisses ==
  LET aged == Aged(miss_list)
      due == {i \in DOMAIN aged : aged[i].wait = 0}
  IN \E taken \in SUBSET due :
       LET left == Without(aged, taken)
           written == {align[aged[i].addr] : i \in {j \in taken : aged[j].write}}
           held == [r \in Waiter |-> memory[r] + Cardinality(ReadsOf(aged, r) \cap taken)]
       IN /\ Cardinality(due \ taken) <= MaxRefused
          /\ MapThenSumSet(LAMBDA r : held[r], Waiter) <= MaxReads
          /\ miss_list' = left
          /\ memory' = held
          /\ unsaved' = {l \in unsaved : \/ l \notin written
                                         \/ DirtyIn(cache, l)
                                         \/ WritebackIn(left, l)}
          /\ hit_list' = Aged(hit_list)
          /\ UNCHANGED <<cache, mshrs, receive_requests, allocated,
                         blacklisted, max_mshrs, crossed>>

\* receive(req) of the cache and of the cores that wait: the line is ready, its
\* MSHR free, and a line that an attacker was waiting for is flushed at once.
\* Everyone who waits under one address waits for the same line.
Receive(addr, source, waiting) ==
  LET ix == get_index[addr]
      entry == check_mshr_hit(addr)
      filled == [i \in DOMAIN cache[ix] |->
                   [cache[ix][i] EXCEPT !.ready =
                      @ \/ (entry # {} /\ SameTag(cache[ix][i], addr))]]
      i == IF \E w \in waiting : w.core \in Attackers THEN check_set_hit(filled, addr) ELSE 0
  IN /\ mshrs' = mshrs \ entry
     /\ allocated' = IF entry = {} THEN allocated ELSE [allocated EXCEPT ![source] = @ - 1]
     /\ cache' = [cache EXCEPT ![ix] = IF i = 0 THEN filled ELSE RemoveAt(filled, i)]
     /\ miss_list' = IF i = 0 THEN miss_list ELSE miss_list \o Writeback(filled[i])
     /\ receive_requests' = [receive_requests EXCEPT ![addr] = {}]
     /\ UNCHANGED <<blacklisted, max_mshrs, unsaved>>

HitIsDue == hit_list # <<>> /\ Head(hit_list).wait = 0

\* A due hit replaces whatever waits under its address, then is called back.
CallBack(h) ==
  /\ HitIsDue /\ h = Head(hit_list)
  /\ Receive(h.addr, h.core, {[addr |-> h.addr, core |-> h.core]})
  /\ hit_list' = Tail(hit_list)
  /\ crossed' = (crossed \/ check_mshr_hit(h.addr) # {})
  /\ UNCHANGED memory

\* The memory answers a read.
Answer(r) ==
  /\ memory[r] > 0
  /\ memory' = [memory EXCEPT ![r] = @ - 1]
  /\ Receive(r.addr, r.core, receive_requests[r.addr])
  /\ UNCHANGED <<hit_list, crossed>>

\* BlockHammer's throttler, a plugin of the memory controller: a core is never
\* taken off the list, and its quota may change at any activation.
Blacklist(core, quota) ==
  /\ blacklisted' = [blacklisted EXCEPT ![core] = TRUE]
  /\ max_mshrs' = [max_mshrs EXCEPT ![core] = quota]
  /\ UNCHANGED <<cache, mshrs, receive_requests, miss_list, hit_list, allocated,
                 memory, unsaved, crossed>>

CacheInit ==
  /\ cache \in SavedCaches
  /\ mshrs = {}
  /\ receive_requests = [a \in Addrs |-> {}]
  /\ miss_list = <<>>
  /\ hit_list = <<>>
  /\ allocated = [c \in Cores |-> 0]
  /\ blacklisted = [c \in Cores |-> FALSE]
  /\ max_mshrs = [c \in Cores |-> 0]
  /\ memory = [r \in Waiter |-> 0]
  /\ unsaved = {l \in Lines : DirtyIn(cache, l)}
  /\ crossed = FALSE
=============================================================================
