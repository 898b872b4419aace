----------------------- MODULE DistributedReduceProofs -----------------------
(***************************************************************************)
(* Proofs about DistributedReduce, for every number of nodes, every        *)
(* timeout that fits its counter and every depth of the jitter buffer.     *)
(*                                                                         *)
(* The invariant adds to the properties what each phase finds when it      *)
(* begins: both counters are clear when a round is broadcast, and the sum  *)
(* counter stays clear until its own phase.                                *)
(***************************************************************************)
EXTENDS DistributedReduce, AsyncFifoProofs

ReduceInv ==
  /\ FifoInv
  /\ state \in States
  /\ timeout_cnt \in 0 .. TimeoutCycles + 1
  /\ Waiting => timeout_cnt <= TimeoutCycles
  /\ max_recv \in 0 .. CountSize - 1 /\ sum_recv \in 0 .. CountSize - 1
  /\ rx_fifo_inc \in BOOLEAN /\ rx_data_valid_r \in BOOLEAN /\ rx_data_latched \in Data
  /\ taken \in 0 .. NumNodes
  /\ CountsExact
  /\ state = "WAIT_M" => max_recv < NumNodes
  /\ state = "WAIT_S" => sum_recv < NumNodes
  /\ state = "BCAST_M" => max_recv = 0
  /\ state \in {"BCAST_M", "WAIT_M", "BCAST_S"} => sum_recv = 0

\* A counter of the given size: the next value fits, and is one more short of the end.
LEMMA CounterLemma ==
  ASSUME NEW size \in Nat, NEW c \in 0 .. size - 1
  PROVE  /\ (c + 1) % size \in 0 .. size - 1
         /\ c + 1 < size => (c + 1) % size = c + 1
OBVIOUS

\* The jitter buffer's edge is one of the FIFO's edges.
LEMMA DatapathFifo ==
  ASSUME ReduceInv, Datapath
  PROVE  FifoNext /\ FifoInv'
<1>1. PICK winc \in BOOLEAN, d \in Data :
        /\ Write(winc, d) /\ Read(rx_fifo_inc)
        /\ SyncToWrite(rptr_gray) /\ SyncToRead(wptr_gray)
  BY DataAssumption DEF Datapath, JitterBuffer
<1>2. /\ rptr_gray \in Sampled(rptr_gray, rptr_gray')
      /\ wptr_gray \in Sampled(wptr_gray, wptr_gray')
  BY GrayAssumption DEF Sampled, ReduceInv, FifoInv
<1>3. BothEdges(winc, d, rx_fifo_inc)
  BY <1>1, <1>2 DEF BothEdges
<1>4. FifoNext
  BY <1>3 DEF FifoNext, WriteClock, ReduceInv
<1> QED BY <1>4, FifoStepLemma DEF ReduceInv

\* The word presented after an edge is the one the read enable lets out at it.
LEMMA PresentedLemma ==
  ASSUME Datapath, NEW kind
  PROVE  /\ rx_fifo_inc /\ Kind[rdata] = kind => Presented(kind)'
         /\ ~(rx_fifo_inc /\ Kind[rdata] = kind) => ~Presented(kind)'
<1>1. /\ rx_data_valid_r' = rx_fifo_inc
      /\ rx_data_latched' = IF rx_fifo_inc THEN rdata ELSE rx_data_latched
  BY DEF Datapath, Latch
<1>2. CASE rx_fifo_inc
  <2>1. rx_data_latched' = rdata /\ rx_data_valid_r'
    BY <1>1, <1>2, Zenon
  <2> QED BY <1>2, <2>1 DEF Presented
<1>3. CASE ~rx_fifo_inc
  <2>1. ~rx_data_valid_r'
    BY <1>1, <1>3, Zenon
  <2> QED BY <1>3, <2>1 DEF Presented
<1> QED BY <1>2, <1>3

\* How many words of this kind are presented.
Now(kind) == IF Presented(kind) THEN 1 ELSE 0

\* What the other registers hold after an edge.
LEMMA DatapathLemma ==
  ASSUME ReduceInv, Datapath
  PROVE  /\ rx_fifo_inc' \in BOOLEAN /\ rx_data_valid_r' \in BOOLEAN
         /\ rx_data_latched' \in Data
         /\ timeout_cnt' = IF Waiting THEN timeout_cnt + 1 ELSE 0
         /\ max_recv' \in 0 .. CountSize - 1 /\ sum_recv' \in 0 .. CountSize - 1
         /\ state = "IDLE" => max_recv' = 0 /\ sum_recv' = 0
         /\ state \in {"BCAST_M", "BCAST_S"} => max_recv' = max_recv /\ sum_recv' = sum_recv
         /\ state = "WAIT_M" => sum_recv' = sum_recv
         /\ state = "WAIT_M" /\ max_recv + 1 < CountSize => max_recv' = taken
         /\ state = "WAIT_S" /\ sum_recv + 1 < CountSize => sum_recv' = taken
         /\ state' \notin {"WAIT_M", "WAIT_S"} => taken' = 0
         /\ state' = "WAIT_M" => taken' = (IF Waiting THEN taken ELSE 0) + Now("MAX")'
         /\ state' = "WAIT_S" => taken' = (IF Waiting THEN taken ELSE 0) + Now("SUM")'
<1>1. rx_fifo_inc' \in BOOLEAN /\ rx_data_valid_r' \in BOOLEAN
  <2>1. rx_fifo_inc' = (~rempty /\ Waiting) /\ rx_data_valid_r' = rx_fifo_inc
    BY DEF Datapath, FifoEnable, Latch
  <2> QED BY <2>1, ZenonT(20) DEF ReduceInv, Waiting
<1>2. rx_data_latched' \in Data
  <2>1. Slot(rptr) \in 0 .. Depth - 1
    BY IncLemma DEF ReduceInv, FifoInv
  <2> QED BY <2>1 DEF Datapath, Latch, rdata, ReduceInv, FifoInv
<1>3. timeout_cnt' = IF Waiting THEN timeout_cnt + 1 ELSE 0
  <2>1. Waiting => (timeout_cnt + 1) % TimeoutSize = timeout_cnt + 1
    <3> SUFFICES ASSUME Waiting PROVE (timeout_cnt + 1) % TimeoutSize = timeout_cnt + 1
      OBVIOUS
    <3>1. timeout_cnt \in 0 .. TimeoutSize - 1 /\ timeout_cnt + 1 < TimeoutSize
      BY TimeoutAssumption DEF ReduceInv
    <3> QED BY <3>1, CounterLemma, TimeoutAssumption
  <2> QED BY <2>1 DEF Datapath, TimeoutCount
<1>4. \A c \in 0 .. CountSize - 1 :
        /\ (c + 1) % CountSize \in 0 .. CountSize - 1
        /\ c + 1 < CountSize => (c + 1) % CountSize = c + 1
  BY CounterLemma, CountSizeAssumption
<1>5. /\ max_recv' = IF state = "IDLE" THEN 0
                     ELSE IF MaxSeen THEN (max_recv + 1) % CountSize ELSE max_recv
      /\ sum_recv' = IF state = "IDLE" THEN 0
                     ELSE IF SumSeen THEN (sum_recv + 1) % CountSize ELSE sum_recv
      /\ MaxSeen <=> Presented("MAX") /\ state = "WAIT_M"
      /\ SumSeen <=> Presented("SUM") /\ state = "WAIT_S"
  BY DEF Datapath, ReceiveCount, MaxSeen, SumSeen
<1>6. /\ max_recv \in 0 .. CountSize - 1 /\ sum_recv \in 0 .. CountSize - 1
      /\ 0 \in 0 .. CountSize - 1
  BY CountSizeAssumption, NumNodesAssumption DEF ReduceInv
<1>7. max_recv' \in 0 .. CountSize - 1 /\ sum_recv' \in 0 .. CountSize - 1
  BY <1>4, <1>5, <1>6
<1>8. /\ state = "IDLE" => max_recv' = 0 /\ sum_recv' = 0
      /\ state \in {"BCAST_M", "BCAST_S"} => max_recv' = max_recv /\ sum_recv' = sum_recv
      /\ state = "WAIT_M" => sum_recv' = sum_recv
  BY <1>5
<1>9. /\ state = "WAIT_M" => max_recv + (IF Presented("MAX") THEN 1 ELSE 0) = taken
      /\ state = "WAIT_S" => sum_recv + (IF Presented("SUM") THEN 1 ELSE 0) = taken
  BY DEF ReduceInv, CountsExact
<1>10. state = "WAIT_M" /\ max_recv + 1 < CountSize => max_recv' = taken
  BY <1>4, <1>5, <1>6, <1>9
<1>11. state = "WAIT_S" /\ sum_recv + 1 < CountSize => sum_recv' = taken
  BY <1>4, <1>5, <1>6, <1>9
<1>12. taken' = IF ~Waiting' THEN 0
                ELSE (IF Waiting THEN taken ELSE 0)
                     + (IF rx_fifo_inc /\ Kind[rdata] = Wanted(state') THEN 1 ELSE 0)
  BY DEF Datapath, History
<1>13. state' \notin {"WAIT_M", "WAIT_S"} => taken' = 0
  BY <1>12 DEF Waiting
<1>14. state' = "WAIT_M" => taken' = (IF Waiting THEN taken ELSE 0) + Now("MAX")'
  <2> SUFFICES ASSUME state' = "WAIT_M"
               PROVE  taken' = (IF Waiting THEN taken ELSE 0) + Now("MAX")'
    OBVIOUS
  <2>1. Waiting' /\ Wanted(state') = "MAX"
    BY DEF Waiting, Wanted
  <2>2. Now("MAX")' = IF rx_fifo_inc /\ Kind[rdata] = "MAX" THEN 1 ELSE 0
    BY PresentedLemma DEF Now
  <2> QED BY <1>12, <2>1, <2>2
<1>15. state' = "WAIT_S" => taken' = (IF Waiting THEN taken ELSE 0) + Now("SUM")'
  <2> SUFFICES ASSUME state' = "WAIT_S"
               PROVE  taken' = (IF Waiting THEN taken ELSE 0) + Now("SUM")'
    OBVIOUS
  <2>1. Waiting' /\ Wanted(state') = "SUM"
    BY DEF Waiting, Wanted
  <2>2. Now("SUM")' = IF rx_fifo_inc /\ Kind[rdata] = "SUM" THEN 1 ELSE 0
    BY PresentedLemma DEF Now
  <2> QED BY <1>12, <2>1, <2>2
<1> QED BY <1>1, <1>2, <1>3, <1>7, <1>8, <1>10, <1>11, <1>13, <1>14, <1>15

\* What the invariant says of the phase and the counters.
ReduceTail(phase, timeout, max, sum, words, nowMax, nowSum) ==
  /\ phase \in States
  /\ timeout \in 0 .. TimeoutCycles + 1
  /\ phase \in {"WAIT_M", "WAIT_S"} => timeout <= TimeoutCycles
  /\ words \in 0 .. NumNodes
  /\ phase = "WAIT_M" => max + nowMax = words /\ max < NumNodes
  /\ phase = "WAIT_S" => sum + nowSum = words /\ sum < NumNodes
  /\ phase = "BCAST_M" => max = 0
  /\ phase \in {"BCAST_M", "WAIT_M", "BCAST_S"} => sum = 0

\* Power-up satisfies the invariant.
LEMMA ReduceInitLemma == ReduceInit => ReduceInv
<1> SUFFICES ASSUME ReduceInit PROVE ReduceInv
  OBVIOUS
<1>1. FifoInv
  BY FifoInitLemma DEF ReduceInit
<1>2. /\ state \in States /\ ~Waiting /\ CountsExact /\ state \notin {"WAIT_M", "WAIT_S"}
      /\ rx_fifo_inc \in BOOLEAN /\ rx_data_valid_r \in BOOLEAN /\ rx_data_latched \in Data
      /\ state \notin {"BCAST_M", "WAIT_M", "BCAST_S"}
  BY DataAssumption DEF ReduceInit, States, Waiting, CountsExact
<1>3. /\ timeout_cnt \in 0 .. TimeoutCycles + 1
      /\ max_recv \in 0 .. CountSize - 1 /\ sum_recv \in 0 .. CountSize - 1
      /\ taken \in 0 .. NumNodes
  BY NumNodesAssumption, CountSizeAssumption, TimeoutAssumption DEF ReduceInit
<1> QED BY <1>1, <1>2, <1>3 DEF ReduceInv

\* Every step preserves the invariant.
LEMMA ReduceStepLemma == ReduceInv /\ [ReduceNext]_reduceVars => ReduceInv'
<1> SUFFICES ASSUME ReduceInv, [ReduceNext]_reduceVars PROVE ReduceInv'
  OBVIOUS
<1>1. CASE UNCHANGED reduceVars
  BY <1>1, FifoStepLemma
     DEF reduceVars, countVars, latchVars, ReduceInv, CountsExact, Waiting, Presented
<1>2. CASE ReduceNext
  <2>1. Datapath
    BY <1>2 DEF ReduceNext, StartRound, StayIdle, BroadcastMax, BroadcastSum,
       ErrorRecovery, Timeout, MaxComplete, SumComplete, KeepWaiting
  <2>2. FifoInv'
    BY <2>1, DatapathFifo
  <2>3. /\ rx_fifo_inc' \in BOOLEAN /\ rx_data_valid_r' \in BOOLEAN
        /\ rx_data_latched' \in Data
        /\ timeout_cnt' = IF Waiting THEN timeout_cnt + 1 ELSE 0
        /\ max_recv' \in 0 .. CountSize - 1 /\ sum_recv' \in 0 .. CountSize - 1
        /\ state = "IDLE" => max_recv' = 0 /\ sum_recv' = 0
        /\ state \in {"BCAST_M", "BCAST_S"} => max_recv' = max_recv /\ sum_recv' = sum_recv
        /\ state = "WAIT_M" => sum_recv' = sum_recv
        /\ state = "WAIT_M" /\ max_recv + 1 < CountSize => max_recv' = taken
        /\ state = "WAIT_S" /\ sum_recv + 1 < CountSize => sum_recv' = taken
        /\ state' \notin {"WAIT_M", "WAIT_S"} => taken' = 0
        /\ state' = "WAIT_M" => taken' = (IF Waiting THEN taken ELSE 0) + Now("MAX")'
        /\ state' = "WAIT_S" => taken' = (IF Waiting THEN taken ELSE 0) + Now("SUM")'
    BY <2>1, DatapathLemma
  <2>4. ReduceTail(state', timeout_cnt', max_recv', sum_recv', taken', Now("MAX")', Now("SUM")')
    <3>1. Now("MAX")' \in {0, 1} /\ Now("SUM")' \in {0, 1}
      BY DEF Now
    <3>a. /\ state = "WAIT_M" => taken \in {max_recv, max_recv + 1}
          /\ state = "WAIT_S" => taken \in {sum_recv, sum_recv + 1}
      BY DEF ReduceInv, CountsExact
    <3> USE NumNodesAssumption, CountSizeAssumption, TimeoutAssumption
    <3> USE DEF ReduceInv, Waiting, States, ReduceTail
    <3>2. CASE StartRound
      BY <2>3, <3>2 DEF StartRound
    <3>3. CASE StayIdle
      BY <2>3, <3>3 DEF StayIdle
    <3>4. CASE BroadcastMax
      BY <2>3, <3>1, <3>4 DEF BroadcastMax
    <3>5. CASE BroadcastSum
      BY <2>3, <3>1, <3>5 DEF BroadcastSum
    <3>6. CASE ErrorRecovery
      BY <2>3, <3>6 DEF ErrorRecovery
    <3>7. CASE Timeout
      BY <2>3, <3>7 DEF Timeout
    <3>8. CASE MaxComplete
      BY <2>3, <3>8 DEF MaxComplete
    <3>9. CASE SumComplete
      BY <2>3, <3>9 DEF SumComplete
    <3>10. CASE KeepWaiting
      <4>1. CASE state = "WAIT_M"
        <5>1. taken' = taken + Now("MAX")' /\ max_recv' = taken
          BY <2>3, <3>10, <4>1 DEF KeepWaiting, AllReceived
        <5>2. taken < NumNodes
          BY <3>10, <3>a, <4>1 DEF KeepWaiting, AllReceived
        <5> QED BY <2>3, <3>1, <3>10, <4>1, <5>1, <5>2 DEF KeepWaiting, TimedOut
      <4>2. CASE state = "WAIT_S"
        <5>1. taken' = taken + Now("SUM")' /\ sum_recv' = taken
          BY <2>3, <3>10, <4>2 DEF KeepWaiting, AllReceived
        <5>2. taken < NumNodes
          BY <3>10, <3>a, <4>2 DEF KeepWaiting, AllReceived
        <5> QED BY <2>3, <3>1, <3>10, <4>2, <5>1, <5>2 DEF KeepWaiting, TimedOut
      <4> QED BY <3>10, <4>1, <4>2 DEF KeepWaiting
    <3> QED BY <1>2, <3>2, <3>3, <3>4, <3>5, <3>6, <3>7, <3>8, <3>9, <3>10 DEF ReduceNext
  <2>5. CountsExact'
    BY <2>4 DEF ReduceTail, CountsExact, Now
  <2> QED BY <2>2, <2>3, <2>4, <2>5 DEF ReduceTail, ReduceInv, Waiting
<1> QED BY <1>1, <1>2

\* The strengthened invariant holds in every reachable state.
THEOREM ReduceInvariant == ReduceSpec => []ReduceInv
BY ReduceInitLemma, ReduceStepLemma, PTL DEF ReduceSpec

\* Registers stay in their widths; in particular timeout_cnt never wraps.
THEOREM ReduceTypeCorrect == ReduceSpec => []ReduceTypeOK
<1>1. ReduceInv => ReduceTypeOK
  BY GrayAssumption DEF ReduceInv, ReduceTypeOK, FifoInv, FifoTypeOK, Decoded
<1> QED BY <1>1, ReduceInvariant, PTL

\* A phase has counted, but for the word just presented, the words of its kind
\* that the read enable let out since it began, over any number of rounds.
THEOREM CountsAreExact == ReduceSpec => []CountsExact
<1>1. ReduceInv => CountsExact
  BY DEF ReduceInv
<1> QED BY <1>1, ReduceInvariant, PTL

\* Every word the FIFO gives up is the oldest one and is presented to the iNLU.
THEOREM PoppedWordsArePresented == ReduceSpec => PoppedIsPresented
<1>1. ReduceInv /\ [ReduceNext]_reduceVars =>
        [rptr' # rptr => rx_data_valid_r' /\ rx_data_latched' = Head(Held)]_reduceVars
  <2> SUFFICES ASSUME ReduceInv, ReduceNext, rptr' # rptr
               PROVE  rx_data_valid_r' /\ rx_data_latched' = Head(Held)
    BY DEF reduceVars, fifoVars, readVars
  <2>1. Datapath
    BY DEF ReduceNext, StartRound, StayIdle, BroadcastMax, BroadcastSum,
       ErrorRecovery, Timeout, MaxComplete, SumComplete, KeepWaiting
  <2>2. rx_fifo_inc /\ ~rempty
    BY <2>1 DEF Datapath, JitterBuffer, Read, readVars
  <2>3. FlagsConservative
    BY FifoInvFlags DEF ReduceInv
  <2>4. Ahead(wptr, rptr) \in 1 .. Depth
    BY <2>2, <2>3, DepthAssumption DEF FlagsConservative, Occupancy, ReduceInv, FifoInv,
       Ptr, Ahead
  <2>5. Held[1] = rdata /\ Len(Held) > 0 /\ Held \in Seq(Data)
    <3>1. Plus(rptr, 1 - 1) = rptr
      BY DepthAssumption DEF Plus, Ptr, ReduceInv, FifoInv
    <3>2. Held[1] = mem[Slot(Plus(rptr, 1 - 1))]
      BY <2>4 DEF Held, HeldIn
    <3>3. Held \in Seq(Data) /\ Len(Held) = Ahead(wptr, rptr)
      BY <2>4, HeldLemma DEF Held, ReduceInv, FifoInv
    <3> QED BY <2>4, <3>1, <3>2, <3>3 DEF rdata
  <2>6. Head(Held) = rdata
    BY <2>5
  <2> QED BY <2>1, <2>2, <2>6 DEF Datapath, Latch
<1> QED BY <1>1, ReduceInvariant, PTL DEF ReduceSpec, PoppedIsPresented
=============================================================================
