----------------------------- MODULE O3FrontEnd -----------------------------
(* SimpleO3 and BHO3: cores with an instruction window that replay a trace   *)
(* against the shared last-level cache.  A tick of the front end ticks the   *)
(* cache, then every core in order; between two ticks the memory answers.    *)
(* turn says how far the tick has come, so that a step is one handler.       *)
(* Addresses are physical: translation is a parameter of the traces.         *)
EXTENDS LastLevelCache

CONSTANTS Depth, Ipc,     \* inst_window_depth, ipc
          Traces,         \* the traces the cores may replay, by core
          NoAddr          \* -1

Inst == [bubbles : Nat, load : Addrs, store : Addrs \cup {NoAddr}]

ASSUME FrontEndAssumption ==
  /\ {Depth, Ipc} \subseteq Nat \ {0}
  /\ NoAddr \notin Addrs
  /\ \A t \in Traces : t \in [Cores -> Seq(Inst) \ {<<>>}]

VARIABLES
  trace,     \* m_trace of each core, fixed
  at,        \* m_curr_trace_idx
  pending,   \* m_num_bubbles, m_load_addr, m_writeback_addr
  window,    \* the instruction window, oldest first: per instruction, ready and addr
  turn

coreVars == <<trace, at, pending, window, turn>>
vars == <<cacheVars, coreVars>>

Between == 0                 \* the memory's turn; a core c has turn c
CallingBack == NumCores + 1  \* the cache goes through its hit list

\* A trace is replayed from its start when it ends.
Following(c, i) == (i % Len(trace[c])) + 1

Init ==
  /\ CacheInit
  /\ trace \in Traces
  /\ at = [c \in Cores |-> Following(c, 1)]
  /\ pending = [c \in Cores |-> trace[c][1]]
  /\ window = [c \in Cores |-> <<>>]
  /\ turn = Between

-----------------------------------------------------------------------------
(* The instruction window.                                                   *)

\* retire: at most Ipc of the oldest instructions, up to one that waits.
Retired(w) ==
  LET waits == SelectInSeq(w, LAMBDA s : ~s.ready)
      done == IF waits = 0 THEN Len(w) ELSE waits - 1
  IN SubSeq(w, Min({done, Ipc}) + 1, Len(w))

\* set_ready: every instruction on one of these addresses.
set_ready(w, addresses) ==
  [i \in DOMAIN w |-> [w[i] EXCEPT !.ready = @ \/ w[i].addr \in addresses]]

Wake(waiting) ==
  window' = [c \in Cores |->
               set_ready(window[c], {r.addr : r \in {x \in waiting : x.core = c}})]

-----------------------------------------------------------------------------
(* Core c ticks: it retires, inserts the bubbles that fit, and then sends    *)
(* its load or, at a later tick, the store of the same line of the trace.    *)

Inserted(c) == Min({pending[c].bubbles, Ipc, Depth - Len(Retired(window[c]))})
Filled(c) == Retired(window[c]) \o [i \in 1 .. Inserted(c) |-> [ready |-> TRUE, addr |-> NoAddr]]
BubblesDone(c) == Inserted(c) = pending[c].bubbles
LoadMayIssue(c) == /\ BubblesDone(c) /\ pending[c].load # NoAddr
                   /\ Inserted(c) < Ipc /\ Len(Filled(c)) < Depth
StoreMayIssue(c) == BubblesDone(c) /\ pending[c].load = NoAddr /\ pending[c].store # NoAddr

LoadOf(c) == [addr |-> pending[c].load, core |-> c, write |-> FALSE]
StoreOf(c) == [addr |-> pending[c].store, core |-> c, write |-> TRUE]

EndTurn == turn' = IF turn = NumCores THEN Between ELSE turn + 1
AfterBubbles(c) == [pending EXCEPT ![c].bubbles = @ - Inserted(c)]

GetNextInst(c) ==
  /\ pending' = [pending EXCEPT ![c] = trace[c][at[c]]]
  /\ at' = [at EXCEPT ![c] = Following(c, @)]

\* The window is full, Ipc instructions were inserted, or the cache refuses.
CoreWaits(c) ==
  /\ turn = c
  /\ \/ ~LoadMayIssue(c) /\ ~StoreMayIssue(c) /\ UNCHANGED cacheVars
     \/ LoadMayIssue(c) /\ Refuse(LoadOf(c))
     \/ StoreMayIssue(c) /\ Refuse(StoreOf(c))
  /\ window' = [window EXCEPT ![c] = Filled(c)]
  /\ pending' = AfterBubbles(c)
  /\ EndTurn
  /\ UNCHANGED <<trace, at>>

CoreLoads(c) ==
  /\ turn = c /\ LoadMayIssue(c)
  /\ Accept(LoadOf(c))
  /\ window' = [window EXCEPT ![c] =
       Append(Filled(c), [ready |-> FALSE, addr |-> pending[c].load])]
  /\ IF pending[c].store # NoAddr
       THEN /\ pending' = [AfterBubbles(c) EXCEPT ![c].load = NoAddr]
            /\ UNCHANGED at
       ELSE GetNextInst(c)
  /\ EndTurn
  /\ UNCHANGED trace

CoreStores(c) ==
  /\ turn = c /\ StoreMayIssue(c)
  /\ Accept(StoreOf(c))
  /\ window' = [window EXCEPT ![c] = Filled(c)]
  /\ GetNextInst(c)
  /\ EndTurn
  /\ UNCHANGED trace

-----------------------------------------------------------------------------
(* The cache's part of a tick, and the memory between two ticks.             *)

CacheTick == /\ turn = Between /\ SendMisses
             /\ turn' = CallingBack
             /\ UNCHANGED <<trace, at, pending, window>>

CacheCallsBack ==
  /\ turn = CallingBack
  /\ \E h \in HitEntry :
       CallBack(h) /\ Wake({[addr |-> h.addr, core |-> h.core]})
  /\ UNCHANGED <<trace, at, pending, turn>>

CacheTicked == /\ turn = CallingBack /\ ~HitIsDue
               /\ turn' = 1
               /\ UNCHANGED <<cacheVars, trace, at, pending, window>>

MemoryAnswers ==
  /\ turn = Between
  /\ \E r \in Waiter : Answer(r) /\ Wake(receive_requests[r.addr])
  /\ UNCHANGED <<trace, at, pending, turn>>

Throttle ==
  /\ turn = Between
  /\ \E c \in Cores, quota \in Quotas : Blacklist(c, quota)
  /\ UNCHANGED coreVars

Next == \/ \E c \in Cores : CoreWaits(c) \/ CoreLoads(c) \/ CoreStores(c)
        \/ CacheTick \/ CacheCallsBack \/ CacheTicked
        \/ MemoryAnswers \/ Throttle

Spec == Init /\ [][Next]_vars

-----------------------------------------------------------------------------
(* Properties.                                                               *)

\* The lines that are not ready and the MSHRs correspond one to one, and no set
\* holds a tag twice or more lines than ways: the assertion in need_eviction
\* ("the program can't reach here") holds and no iterator in m_mshrs dangles,
\* whatever is evicted, flushed or called back in between.
MshrsMatchLines ==
  /\ \A ix \in Indices :
       /\ Len(cache[ix]) <= Associativity
       /\ \A i, j \in DOMAIN cache[ix] : SameTag(cache[ix][i], cache[ix][j].addr) => i = j
       /\ \A i \in DOMAIN cache[ix] :
            ~cache[ix][i].ready <=> check_mshr_hit(cache[ix][i].addr) # {}
  /\ \A a \in mshrs : /\ Position(SetFor(a), a) # 0
                      /\ check_mshr_hit(a) = {a}
  /\ Cardinality(mshrs) <= NumMshrs

\* A store the cache has accepted is in a dirty line of it or in a write-back
\* on its way, until the memory has taken it: through merges into a miss,
\* replaced LRU entries, evictions, flushes and refused write-backs.
StoresKept ==
  \A l \in unsaved : DirtyIn(cache, l) \/ WritebackIn(miss_list, l)

\* How many reads of a core's misses are outstanding, unsent or unanswered.
Outstanding(a, c) == Cardinality(ReadsOf(miss_list, [addr |-> a, core |-> c]))
                     + memory[[addr |-> a, core |-> c]]

\* Every load in a window that is not ready will be answered: it is on the hit
\* list, or it waits under the address of an MSHR; every MSHR has exactly one
\* outstanding read, and the quota counts them for the core that sends them.
\* The code guarantees this as long as no hit is called back while its line,
\* evicted in the meantime, is being fetched again: such a call back replaces
\* the list of those who wait and frees the MSHR before the read is back.
AnswersOnTheWay ==
  crossed \/
    /\ \A c \in Cores : \A i \in DOMAIN window[c] :
         \/ window[c][i].ready
         \/ \E k \in DOMAIN hit_list :
              /\ hit_list[k].addr = window[c][i].addr
              /\ hit_list[k].core = c
         \/ \E a \in mshrs : [addr |-> window[c][i].addr, core |-> c] \in receive_requests[a]
    /\ \A a \in Addrs : (IF a \in mshrs THEN 1 ELSE 0)
                        = MapThenSumSet(LAMBDA c : Outstanding(a, c), Cores)
    /\ \A c \in Cores : allocated[c] = MapThenSumSet(LAMBDA a : Outstanding(a, c), Addrs)
=============================================================================
