--------------------------- MODULE AsyncFifoProofs ---------------------------
(***************************************************************************)
(* Proofs about AsyncFifo, for every Depth and every code that satisfies   *)
(* GrayAssumption.                                                         *)
(*                                                                         *)
(* The invariant decodes the synchronizers: there are pointers p1, p2 (the *)
(* reader's view of wptr) and q1, q2 (the writer's view of rptr) that, on  *)
(* the circle of pointers, lie in the order q2, q1, rptr, p2, p1, wptr     *)
(* within Depth of q2.  The flags compare codes at the two ends of it.     *)
(***************************************************************************)
EXTENDS AsyncFifo, SequenceTheorems, TLAPS

Ordered(w, r, p1, p2, q1, q2) ==
  /\ Ahead(q1, q2) <= Ahead(r, q2)
  /\ Ahead(r, q2) <= Ahead(p2, q2)
  /\ Ahead(p2, q2) <= Ahead(p1, q2)
  /\ Ahead(p1, q2) <= Ahead(w, q2)
  /\ Ahead(w, q2) <= Depth

Decoded(p1, p2, q1, q2) ==
  /\ wptr_gray_sync1 = Gray[p1] /\ wptr_gray_sync2 = Gray[p2]
  /\ rptr_gray_sync1 = Gray[q1] /\ rptr_gray_sync2 = Gray[q2]
  /\ Ordered(wptr, rptr, p1, p2, q1, q2)

FifoInv ==
  /\ mem \in [0 .. Depth - 1 -> Data]
  /\ wptr \in Ptr /\ rptr \in Ptr
  /\ wptr_gray = Gray[wptr] /\ rptr_gray = Gray[rptr]
  /\ \E p1, p2, q1, q2 \in Ptr : Decoded(p1, p2, q1, q2)

-----------------------------------------------------------------------------
(* The circle of pointers.                                                 *)

\* The increment stays in the pointer's width and is one step ahead.
LEMMA IncLemma ==
  ASSUME NEW p \in Ptr
  PROVE  Inc(p) \in Ptr /\ Slot(p) \in 0 .. Depth - 1
BY DepthAssumption DEF Ptr, Inc, Slot

\* A write that finds room keeps the order, and so does the read pointer's
\* view moving up.
LEMMA OrderedWrite ==
  ASSUME NEW w \in Ptr, NEW r \in Ptr, NEW p1 \in Ptr, NEW p2 \in Ptr,
         NEW q1 \in Ptr, NEW q2 \in Ptr, Ordered(w, r, p1, p2, q1, q2)
  PROVE  /\ Ahead(w, q2) # Depth => Ordered(Inc(w), r, p1, p2, q1, q2)
         /\ Ordered(w, r, p1, p2, r, q1)
         /\ Ahead(w, q2) # Depth => Ordered(Inc(w), r, p1, p2, r, q1)
BY DepthAssumption DEF Ptr, Inc, Ahead, Ordered

\* A read of a word in sight keeps the order, and so does the write pointer's
\* view moving up.
LEMMA OrderedRead ==
  ASSUME NEW w \in Ptr, NEW r \in Ptr, NEW p1 \in Ptr, NEW p2 \in Ptr,
         NEW q1 \in Ptr, NEW q2 \in Ptr, Ordered(w, r, p1, p2, q1, q2)
  PROVE  /\ Ordered(w, r, w, p1, q1, q2)
         /\ r # p2 => Ordered(w, Inc(r), w, p1, q1, q2)
BY DepthAssumption DEF Ptr, Inc, Ahead, Ordered

\* Both pointers may move at once, and each view may take the old or the new one.
LEMMA OrderedBoth ==
  ASSUME NEW w \in Ptr, NEW r \in Ptr, NEW p1 \in Ptr, NEW p2 \in Ptr,
         NEW q1 \in Ptr, NEW q2 \in Ptr, Ordered(w, r, p1, p2, q1, q2),
         NEW w2 \in {w, Inc(w)}, w2 # w => Ahead(w, q2) # Depth,
         NEW r2 \in {r, Inc(r)}, r2 # r => r # p2,
         NEW a \in {w, w2}, NEW b \in {r, r2}
  PROVE  Ordered(w2, r2, a, p1, b, q1)
<1>1. w2 \in Ptr /\ r2 \in Ptr /\ a \in Ptr /\ b \in Ptr
  BY IncLemma
<1>2. /\ Ordered(w2, r, p1, p2, q1, q2)
      /\ Ahead(w, q2) <= Ahead(w2, q2)
  BY DepthAssumption DEF Ptr, Inc, Ahead, Ordered
<1>3. /\ Ordered(w2, r2, p1, p1, q1, q2)
      /\ Ahead(r, q2) <= Ahead(r2, q2)
  BY <1>1, <1>2, DepthAssumption DEF Ptr, Inc, Ahead, Ordered
<1>4. Ordered(w2, r2, a, p1, q1, q2)
  BY <1>1, <1>2, <1>3, DepthAssumption DEF Ptr, Ahead, Ordered
<1>5. Ahead(q1, q2) <= Ahead(b, q2) /\ Ahead(b, q2) <= Ahead(r2, q2)
  BY <1>1, <1>2, <1>3, DepthAssumption DEF Ptr, Ahead, Ordered
<1> QED BY <1>1, <1>4, <1>5, DepthAssumption DEF Ptr, Ahead, Ordered

\* What the order says of the two pointers that matter.
LEMMA OrderedBounds ==
  ASSUME NEW w \in Ptr, NEW r \in Ptr, NEW p1 \in Ptr, NEW p2 \in Ptr,
         NEW q1 \in Ptr, NEW q2 \in Ptr, Ordered(w, r, p1, p2, q1, q2)
  PROVE  /\ Ahead(w, r) \in 0 .. Depth
         /\ r # p2 => Ahead(w, r) > 0
         /\ Ahead(w, q2) # Depth => Ahead(w, r) < Depth
         /\ Ahead(p2, r) <= Ahead(w, r)
         /\ Ahead(r, q2) <= Ahead(w, q2) /\ Ahead(w, q2) <= Depth
BY DepthAssumption DEF Ptr, Ahead, Ordered

\* Whatever bits a synchronizer takes from a pointer that moves by at most one,
\* it holds the code before or the code after.
LEMMA SampledLemma ==
  ASSUME NEW p \in Ptr, NEW p2 \in {p, Inc(p)}, NEW c \in Sampled(Gray[p], Gray[p2])
  PROVE  c = Gray[p] \/ c = Gray[p2]
<1>1. p2 \in Ptr
  BY IncLemma
<1>2. c \in Code /\ Gray[p] \in Code /\ Gray[p2] \in Code
  BY <1>1, GrayAssumption DEF Sampled
<1>3. \A b \in Bits : c[b] \in {Gray[p][b], Gray[p2][b]}
  BY DEF Sampled
<1>4. CASE \A b \in Bits : c[b] = Gray[p][b]
  BY <1>2, <1>4 DEF Code
<1>5. CASE \E b \in Bits : c[b] # Gray[p][b]
  <2>1. PICK b \in Bits : c[b] # Gray[p][b]
    BY <1>5
  <2>2. c[b] = Gray[p2][b] /\ p2 = Inc(p) /\ Gray[p][b] # Gray[Inc(p)][b]
    BY <1>3, <2>1
  <2>3. ASSUME NEW d \in Bits PROVE c[d] = Gray[p2][d]
    <3>1. CASE d = b
      BY <2>2, <3>1
    <3>2. CASE d # b
      BY <1>3, <2>2, <3>2, GrayAssumption
    <3> QED BY <3>1, <3>2
  <2> QED BY <1>2, <2>3 DEF Code
<1> QED BY <1>4, <1>5

-----------------------------------------------------------------------------
(* The invariant.                                                          *)

\* Power-up satisfies the invariant.
LEMMA FifoInitLemma == FifoInit => FifoInv
<1> SUFFICES ASSUME FifoInit PROVE FifoInv
  OBVIOUS
<1>1. 0 \in Ptr /\ Ordered(0, 0, 0, 0, 0, 0)
  BY DepthAssumption DEF Ptr, Ordered, Ahead
<1>2. Decoded(0, 0, 0, 0)
  BY <1>1 DEF FifoInit, Decoded
<1> QED BY <1>1, <1>2 DEF FifoInit, FifoInv

\* The write domain's registers, given a decoding of what they compare with.
LEMMA WriteLemma ==
  ASSUME FifoInv, NEW winc \in BOOLEAN, NEW d \in Data, Write(winc, d),
         NEW p1 \in Ptr, NEW p2 \in Ptr, NEW q1 \in Ptr, NEW q2 \in Ptr,
         Decoded(p1, p2, q1, q2)
  PROVE  /\ mem' \in [0 .. Depth - 1 -> Data]
         /\ wptr' \in Ptr /\ wptr_gray' = Gray[wptr']
         /\ wptr' \in {wptr, Inc(wptr)}
         /\ wptr' # wptr => Ahead(wptr, q2) # Depth
<1>1. wfull <=> Ahead(wptr, q2) = Depth
  BY GrayAssumption DEF wfull, Decoded, FifoInv
<1>2. CASE winc /\ ~wfull
  BY <1>1, <1>2, IncLemma DEF Write, FifoInv
<1>3. CASE ~(winc /\ ~wfull)
  BY <1>3 DEF Write, writeVars, FifoInv
<1> QED BY <1>2, <1>3

\* The read domain's registers, likewise.
LEMMA ReadLemma ==
  ASSUME FifoInv, NEW rinc \in BOOLEAN, Read(rinc),
         NEW p1 \in Ptr, NEW p2 \in Ptr, NEW q1 \in Ptr, NEW q2 \in Ptr,
         Decoded(p1, p2, q1, q2)
  PROVE  /\ rptr' \in Ptr /\ rptr_gray' = Gray[rptr']
         /\ rptr' \in {rptr, Inc(rptr)}
         /\ rptr' # rptr => rptr # p2
<1>1. rempty <=> rptr = p2
  BY GrayAssumption DEF rempty, Decoded, FifoInv
<1>2. CASE rinc /\ ~rempty
  BY <1>1, <1>2, IncLemma DEF Read, FifoInv
<1>3. CASE ~(rinc /\ ~rempty)
  BY <1>3 DEF Read, readVars, FifoInv
<1> QED BY <1>2, <1>3

\* An edge of the write clock alone.
LEMMA WriteEdgeLemma ==
  ASSUME FifoInv, NEW winc \in BOOLEAN, NEW d \in Data, WriteEdge(winc, d)
  PROVE  FifoInv'
<1>1. PICK p1, p2, q1, q2 \in Ptr : Decoded(p1, p2, q1, q2)
  BY DEF FifoInv
<1>2. /\ mem' \in [0 .. Depth - 1 -> Data]
      /\ wptr' \in Ptr /\ wptr_gray' = Gray[wptr']
      /\ wptr' \in {wptr, Inc(wptr)}
      /\ wptr' # wptr => Ahead(wptr, q2) # Depth
  BY <1>1, WriteLemma DEF WriteEdge
<1>3. rptr \in Ptr /\ wptr \in Ptr /\ Ordered(wptr, rptr, p1, p2, q1, q2)
  BY <1>1 DEF FifoInv, Decoded
<1>4. Ordered(wptr', rptr, p1, p2, rptr, q1)
  <2>1. CASE wptr' = wptr
    BY <1>3, <2>1, OrderedWrite
  <2>2. CASE wptr' # wptr
    <3>1. wptr' = Inc(wptr) /\ Ahead(wptr, q2) # Depth
      BY <1>2, <2>2
    <3>2. Ordered(Inc(wptr), rptr, p1, p2, rptr, q1)
      BY <1>3, <3>1, OrderedWrite
    <3> QED BY <3>1, <3>2
  <2> QED BY <2>1, <2>2
<1>5. Decoded(p1, p2, rptr, q1)'
  BY <1>1, <1>4 DEF WriteEdge, SyncToWrite, readVars, readSync, Decoded, FifoInv
<1> QED BY <1>2, <1>3, <1>5 DEF WriteEdge, readVars, FifoInv

\* An edge of the read clock alone.
LEMMA ReadEdgeLemma ==
  ASSUME FifoInv, NEW rinc \in BOOLEAN, ReadEdge(rinc)
  PROVE  FifoInv'
<1>1. PICK p1, p2, q1, q2 \in Ptr : Decoded(p1, p2, q1, q2)
  BY DEF FifoInv
<1>2. /\ rptr' \in Ptr /\ rptr_gray' = Gray[rptr']
      /\ rptr' \in {rptr, Inc(rptr)}
      /\ rptr' # rptr => rptr # p2
  BY <1>1, ReadLemma DEF ReadEdge
<1>3. rptr \in Ptr /\ wptr \in Ptr /\ Ordered(wptr, rptr, p1, p2, q1, q2)
  BY <1>1 DEF FifoInv, Decoded
<1>4. Ordered(wptr, rptr', wptr, p1, q1, q2)
  BY SMTT(30), <1>2, <1>3, OrderedRead
<1>5. Decoded(wptr, p1, q1, q2)'
  BY <1>1, <1>4 DEF ReadEdge, SyncToRead, writeVars, writeSync, Decoded, FifoInv
<1> QED BY <1>2, <1>3, <1>5 DEF ReadEdge, writeVars, FifoInv

\* Both edges at once: each synchronizer takes the old or the new pointer.
LEMMA BothEdgesLemma ==
  ASSUME FifoInv, NEW winc \in BOOLEAN, NEW d \in Data, NEW rinc \in BOOLEAN,
         BothEdges(winc, d, rinc)
  PROVE  FifoInv'
<1>1. PICK p1, p2, q1, q2 \in Ptr : Decoded(p1, p2, q1, q2)
  BY DEF FifoInv
<1>2. /\ mem' \in [0 .. Depth - 1 -> Data]
      /\ wptr' \in Ptr /\ wptr_gray' = Gray[wptr']
      /\ wptr' \in {wptr, Inc(wptr)}
      /\ wptr' # wptr => Ahead(wptr, q2) # Depth
  BY <1>1, WriteLemma DEF BothEdges
<1>3. /\ rptr' \in Ptr /\ rptr_gray' = Gray[rptr']
      /\ rptr' \in {rptr, Inc(rptr)}
      /\ rptr' # rptr => rptr # p2
  BY <1>1, ReadLemma DEF BothEdges
<1>4. /\ rptr \in Ptr /\ wptr \in Ptr /\ Ordered(wptr, rptr, p1, p2, q1, q2)
      /\ wptr_gray = Gray[wptr] /\ rptr_gray = Gray[rptr]
  BY <1>1 DEF FifoInv, Decoded
<1>5. PICK a \in {wptr, wptr'} : /\ wptr_gray_sync1' = Gray[a]
                                 /\ wptr_gray_sync2' = wptr_gray_sync1
  <2>1. PICK c \in Sampled(wptr_gray, wptr_gray') : SyncToRead(c)
    BY DEF BothEdges
  <2>2. c = Gray[wptr] \/ c = Gray[wptr']
    BY <1>2, <1>4, <2>1, SampledLemma
  <2> QED BY <2>1, <2>2 DEF SyncToRead
<1>6. PICK b \in {rptr, rptr'} : /\ rptr_gray_sync1' = Gray[b]
                                 /\ rptr_gray_sync2' = rptr_gray_sync1
  <2>1. PICK c \in Sampled(rptr_gray, rptr_gray') : SyncToWrite(c)
    BY DEF BothEdges
  <2>2. c = Gray[rptr] \/ c = Gray[rptr']
    BY <1>3, <1>4, <2>1, SampledLemma
  <2> QED BY <2>1, <2>2 DEF SyncToWrite
<1>7. Ordered(wptr', rptr', a, p1, b, q1)
  <2> DEFINE w2 == wptr'  r2 == rptr'
  <2>1. /\ w2 \in {wptr, Inc(wptr)}
        /\ w2 # wptr => Ahead(wptr, q2) # Depth
        /\ r2 \in {rptr, Inc(rptr)}
        /\ r2 # rptr => rptr # p2
        /\ a \in {wptr, w2} /\ b \in {rptr, r2}
    BY <1>2, <1>3
  <2> HIDE DEF w2, r2
  <2>2. Ordered(w2, r2, a, p1, b, q1)
    BY <1>4, <2>1, OrderedBoth
  <2> QED BY <2>2 DEF w2, r2
<1>8. Decoded(a, p1, b, q1)'
  BY <1>1, <1>5, <1>6, <1>7 DEF Decoded
<1> QED BY <1>2, <1>3, <1>8 DEF FifoInv

\* A reset puts every pointer, and every view of it, back to zero.
LEMMA ResetLemma ==
  ASSUME FifoInv, Reset
  PROVE  FifoInv'
<1>1. 0 \in Ptr /\ Ordered(0, 0, 0, 0, 0, 0)
  BY DepthAssumption DEF Ptr, Ordered, Ahead
<1>2. Decoded(0, 0, 0, 0)'
  BY <1>1 DEF Reset, Decoded
<1> QED BY <1>1, <1>2 DEF Reset, FifoInv

\* Every step preserves the invariant.
LEMMA FifoStepLemma == FifoInv /\ [FifoNext]_fifoVars => FifoInv'
<1> SUFFICES ASSUME FifoInv, [FifoNext]_fifoVars PROVE FifoInv'
  OBVIOUS
<1>1. CASE WriteClock
  BY <1>1, WriteEdgeLemma, BothEdgesLemma DEF WriteClock
<1>2. CASE ReadClock
  BY <1>2, ReadEdgeLemma, BothEdgesLemma DEF ReadClock
<1>3. CASE Reset
  BY <1>3, ResetLemma
<1>4. CASE UNCHANGED fifoVars
  BY <1>4 DEF fifoVars, writeVars, readVars, writeSync, readSync, FifoInv, Decoded
<1> QED BY <1>1, <1>2, <1>3, <1>4 DEF FifoNext

\* The decoded order of the pointers holds in every reachable state.
THEOREM FifoInvariant == FifoSpec => []FifoInv
BY FifoInitLemma, FifoStepLemma, PTL DEF FifoSpec

\* Pointers stay in their width and every register holds a code.
THEOREM FifoTypeCorrect == FifoSpec => []FifoTypeOK
<1>1. FifoInv => FifoTypeOK
  BY GrayAssumption DEF FifoInv, FifoTypeOK, Decoded
<1> QED BY <1>1, FifoInvariant, PTL

\* The order of the pointers makes both flags safe.
LEMMA FifoInvFlags ==
  ASSUME FifoInv
  PROVE  FlagsConservative
<1>1. PICK p1, p2, q1, q2 \in Ptr : Decoded(p1, p2, q1, q2)
  BY DEF FifoInv
<1>2. /\ Ahead(wptr, rptr) \in 0 .. Depth
      /\ rptr # p2 => Ahead(wptr, rptr) > 0
      /\ Ahead(wptr, q2) # Depth => Ahead(wptr, rptr) < Depth
  BY <1>1, OrderedBounds DEF FifoInv, Decoded
<1>3. (rempty <=> rptr = p2) /\ (wfull <=> Ahead(wptr, q2) = Depth)
  BY <1>1, GrayAssumption DEF rempty, wfull, Decoded, FifoInv
<1> QED BY <1>2, <1>3, DepthAssumption DEF FlagsConservative, Occupancy

\* wfull and rempty err on the safe side for every depth: no word is
\* overwritten before it is read and none is read that was not written.
THEOREM FlagsAreConservative == FifoSpec => []FlagsConservative
BY FifoInvFlags, FifoInvariant, PTL

\* What comes out of a synchronizer is always a pointer the other domain really
\* had, whatever bits were sampled on the way.
THEOREM SyncedPointersAreReal == FifoSpec => []SyncedPointersReal
<1>1. FifoInv => SyncedPointersReal
  <2> SUFFICES ASSUME FifoInv PROVE SyncedPointersReal
    OBVIOUS
  <2>1. PICK p1, p2, q1, q2 \in Ptr : Decoded(p1, p2, q1, q2)
    BY DEF FifoInv
  <2>2. /\ Ahead(p2, rptr) <= Ahead(wptr, rptr)
        /\ Ahead(rptr, q2) <= Ahead(wptr, q2) /\ Ahead(wptr, q2) <= Depth
    BY <2>1, OrderedBounds DEF FifoInv, Decoded
  <2>3. wptr_gray_sync2 = Gray[p2] /\ rptr_gray_sync2 = Gray[q2]
    BY <2>1 DEF Decoded
  <2> QED BY <2>2, <2>3 DEF SyncedPointersReal, Occupancy
<1> QED BY <1>1, FifoInvariant, PTL

-----------------------------------------------------------------------------
(* Refinement: the words between the pointers are a bounded queue.         *)

\* Writing at the write pointer appends a word, when there is room.
LEMMA PutLemma ==
  ASSUME NEW m \in [0 .. Depth - 1 -> Data], NEW w \in Ptr, NEW r \in Ptr, NEW d \in Data,
         Ahead(w, r) < Depth
  PROVE  HeldIn([m EXCEPT ![Slot(w)] = d], Inc(w), r) = Append(HeldIn(m, w, r), d)
<1> DEFINE n == Ahead(w, r)  m2 == [m EXCEPT ![Slot(w)] = d]
           new == HeldIn(m2, Inc(w), r)  old == HeldIn(m, w, r)
<1>1. n \in Nat /\ Ahead(Inc(w), r) = n + 1
  BY DepthAssumption DEF Ptr, Inc, Ahead
<1>2. Slot(Plus(r, n)) = Slot(w) /\ Slot(w) \in 0 .. Depth - 1
  BY DepthAssumption DEF Ptr, Plus, Ahead, Slot
<1>3. \A i \in 1 .. n : /\ Slot(Plus(r, i - 1)) \in 0 .. Depth - 1
                        /\ Slot(Plus(r, i - 1)) # Slot(w)
  BY DepthAssumption DEF Ptr, Plus, Ahead, Slot
<1>4. old = [i \in 1 .. n |-> m[Slot(Plus(r, i - 1))]]
  BY DEF HeldIn
<1>5. new = [i \in 1 .. n + 1 |-> m2[Slot(Plus(r, i - 1))]]
  BY <1>1 DEF HeldIn
<1> HIDE DEF n, m2, new, old
<1>6. /\ m2[Slot(w)] = d
      /\ \A k \in 0 .. Depth - 1 : k # Slot(w) => m2[k] = m[k]
      /\ \A k \in 0 .. Depth - 1 : m[k] \in Data
  BY <1>2 DEF m2
<1>7. old \in Seq(Data) /\ Len(old) = n
  BY <1>1, <1>3, <1>4, <1>6
<1>8. \A i \in 1 .. n : new[i] = old[i]
  BY <1>1, <1>3, <1>4, <1>5, <1>6
<1>9. new[n + 1] = d
  BY <1>1, <1>2, <1>5, <1>6
<1>10. new = Append(old, d)
  <2>1. new \in Seq(Data) /\ Len(new) = n + 1
    BY <1>1, <1>2, <1>3, <1>5, <1>6
  <2>2. /\ Append(old, d) \in Seq(Data) /\ Len(Append(old, d)) = n + 1
        /\ \A i \in 1 .. n : Append(old, d)[i] = old[i]
        /\ Append(old, d)[n + 1] = d
    BY <1>7, AppendProperties
  <2>3. \A i \in 1 .. n + 1 : new[i] = Append(old, d)[i]
    BY <1>1, <1>8, <1>9, <2>2
  <2> QED BY <2>1, <2>2, <2>3, SeqEqual
<1> QED BY <1>10 DEF new, old, m2

\* Advancing the read pointer drops the oldest word, when there is one.
LEMMA GetLemma ==
  ASSUME NEW m \in [0 .. Depth - 1 -> Data], NEW w \in Ptr, NEW r \in Ptr,
         Ahead(w, r) > 0, Ahead(w, r) <= Depth
  PROVE  HeldIn(m, w, Inc(r)) = Tail(HeldIn(m, w, r))
<1> DEFINE n == Ahead(w, r)  new == HeldIn(m, w, Inc(r))  old == HeldIn(m, w, r)
<1>1. n \in Nat \ {0} /\ Ahead(w, Inc(r)) = n - 1
  BY DepthAssumption DEF Ptr, Inc, Ahead
<1>2. \A i \in 1 .. n - 1 : Slot(Plus(Inc(r), i - 1)) = Slot(Plus(r, i))
  BY DepthAssumption DEF Ptr, Inc, Plus, Ahead, Slot
<1>3. \A i \in 1 .. n : Slot(Plus(r, i - 1)) \in 0 .. Depth - 1
  BY DepthAssumption DEF Ptr, Plus, Ahead, Slot
<1>4. old = [i \in 1 .. n |-> m[Slot(Plus(r, i - 1))]]
  BY DEF HeldIn
<1>5. new = [i \in 1 .. n - 1 |-> m[Slot(Plus(Inc(r), i - 1))]]
  BY <1>1 DEF HeldIn
<1> HIDE DEF n, new, old
<1>6. old \in Seq(Data) /\ Len(old) = n
  BY <1>1, <1>3, <1>4
<1>7. \A i \in 1 .. n - 1 : new[i] = old[i + 1]
  BY <1>1, <1>2, <1>4, <1>5
<1>8. new = Tail(old)
  <2>1. /\ Tail(old) \in Seq(Data) /\ Len(Tail(old)) = n - 1
        /\ \A i \in 1 .. n - 1 : Tail(old)[i] = old[i + 1]
    BY <1>1, <1>6, HeadTailProperties
  <2>2. \A i \in 1 .. n - 1 : old[i + 1] \in Data
    BY <1>1, <1>6
  <2>3. new \in Seq(Data) /\ Len(new) = n - 1
    BY <1>1, <1>5, <1>7, <2>2
  <2> QED BY <1>7, <2>1, <2>3, SeqEqual
<1> QED BY <1>8 DEF new, old

\* Held is a sequence as long as the pointers are apart.
LEMMA HeldLemma ==
  ASSUME NEW m \in [0 .. Depth - 1 -> Data], NEW w \in Ptr, NEW r \in Ptr,
         Ahead(w, r) <= Depth
  PROVE  HeldIn(m, w, r) \in Seq(Data) /\ Len(HeldIn(m, w, r)) = Ahead(w, r)
<1>1. Ahead(w, r) \in Nat
  BY DepthAssumption DEF Ptr, Ahead
<1>2. \A i \in 1 .. Ahead(w, r) : m[Slot(Plus(r, i - 1))] \in Data
  <2>1. \A i \in 1 .. Ahead(w, r) : Slot(Plus(r, i - 1)) \in 0 .. Depth - 1
    BY DepthAssumption DEF Ptr, Plus, Ahead, Slot
  <2> QED BY <2>1
<1> QED BY <1>1, <1>2 DEF HeldIn

\* One edge, or two together, as seen through the mapping: each side moves the
\* queue or leaves it, depending on its enable and its flag.
LEMMA EdgeRefinement ==
  ASSUME FifoInv, NEW winc \in BOOLEAN, NEW d \in Data, NEW rinc \in BOOLEAN,
         Write(winc, d), Read(rinc)
  PROVE  Queue!Next \/ UNCHANGED Held
<1>1. /\ wptr \in Ptr /\ rptr \in Ptr /\ mem \in [0 .. Depth - 1 -> Data]
      /\ Ahead(wptr, rptr) \in 0 .. Depth
      /\ ~rempty => Ahead(wptr, rptr) > 0
      /\ ~wfull => Ahead(wptr, rptr) < Depth
  <2>1. FlagsConservative
    BY FifoInvFlags
  <2> QED BY <2>1, DepthAssumption DEF FlagsConservative, Occupancy, FifoInv, Ptr, Ahead
<1>2. Held \in Seq(Data) /\ Len(Held) = Ahead(wptr, rptr)
  BY <1>1, HeldLemma DEF Held
<1>3. CASE winc /\ ~wfull /\ ~(rinc /\ ~rempty)
  <2>1. /\ mem' = [mem EXCEPT ![Slot(wptr)] = d] /\ wptr' = Inc(wptr) /\ rptr' = rptr
    BY <1>3 DEF Write, Read, readVars
  <2>2. Held' = Append(Held, d)
    BY <1>1, <1>3, <2>1, PutLemma DEF Held
  <2>3. Len(Held) < Depth
    BY <1>1, <1>2, <1>3
  <2> QED BY <2>2, <2>3 DEF Queue!Next, Queue!Put
<1>4. CASE ~(winc /\ ~wfull) /\ rinc /\ ~rempty
  <2>1. mem' = mem /\ wptr' = wptr /\ rptr' = Inc(rptr)
    BY <1>4 DEF Write, Read, writeVars
  <2>2. Held' = Tail(Held)
    BY <1>1, <1>4, <2>1, GetLemma DEF Held
  <2>3. Held # <<>>
    BY <1>1, <1>2, <1>4
  <2> QED BY <2>2, <2>3 DEF Queue!Next, Queue!Get
<1>5. CASE winc /\ ~wfull /\ rinc /\ ~rempty
  <2> DEFINE m2 == [mem EXCEPT ![Slot(wptr)] = d]
  <2>1. mem' = m2 /\ wptr' = Inc(wptr) /\ rptr' = Inc(rptr)
    BY <1>5 DEF Write, Read
  <2>2. m2 \in [0 .. Depth - 1 -> Data] /\ Inc(wptr) \in Ptr
    BY <1>1, IncLemma
  <2>3. Ahead(Inc(wptr), rptr) > 0 /\ Ahead(Inc(wptr), rptr) <= Depth
    BY <1>1, <1>5, DepthAssumption DEF Ptr, Inc, Ahead
  <2>4. HeldIn(m2, Inc(wptr), rptr) = Append(Held, d)
    BY <1>1, <1>5, PutLemma DEF Held
  <2> HIDE DEF m2
  <2>5. HeldIn(m2, Inc(wptr), Inc(rptr)) = Tail(HeldIn(m2, Inc(wptr), rptr))
    BY <1>1, <2>2, <2>3, GetLemma
  <2>6. Held' = Tail(Append(Held, d))
    BY <2>1, <2>4, <2>5 DEF Held
  <2>7. Held # <<>> /\ Len(Held) < Depth
    BY <1>1, <1>2, <1>5
  <2>8. Tail(Append(Held, d)) = Append(Tail(Held), d)
    BY <1>2, <2>7
  <2> QED BY <2>6, <2>7, <2>8 DEF Queue!Next, Queue!PutAndGet
<1>6. CASE ~(winc /\ ~wfull) /\ ~(rinc /\ ~rempty)
  BY <1>6 DEF Write, Read, writeVars, readVars, Held
<1> QED BY <1>3, <1>4, <1>5, <1>6

\* The FIFO implements a bounded queue: words leave once each, in the order they
\* were accepted.
THEOREM FifoIsQueue == FifoSpec => IsQueue
<1>1. FifoInit => Queue!Empty
  BY DepthAssumption DEF FifoInit, Queue!Empty, Held, HeldIn, Ahead
<1>2. FifoInv /\ [FifoNext]_fifoVars => [Queue!Next]_Held
  <2> SUFFICES ASSUME FifoInv, [FifoNext]_fifoVars PROVE Queue!Next \/ UNCHANGED Held
    OBVIOUS
  <2>1. ASSUME NEW winc \in BOOLEAN, NEW d \in Data, WriteEdge(winc, d)
        PROVE  Queue!Next \/ UNCHANGED Held
    <3>1. Write(winc, d) /\ Read(FALSE)
      BY <2>1 DEF WriteEdge, Read
    <3> QED BY <3>1, EdgeRefinement
  <2>2. ASSUME NEW rinc \in BOOLEAN, NEW d \in Data, ReadEdge(rinc)
        PROVE  Queue!Next \/ UNCHANGED Held
    <3>1. Write(FALSE, d) /\ Read(rinc)
      BY <2>2 DEF ReadEdge, Write
    <3> QED BY <3>1, EdgeRefinement
  <2>3. ASSUME NEW winc \in BOOLEAN, NEW d \in Data, NEW rinc \in BOOLEAN,
               BothEdges(winc, d, rinc)
        PROVE  Queue!Next \/ UNCHANGED Held
    BY <2>3, EdgeRefinement DEF BothEdges
  <2>4. CASE Reset
    <3>1. Held' = <<>>
      BY <2>4, DepthAssumption DEF Reset, Held, HeldIn, Ahead
    <3> QED BY <3>1 DEF Queue!Next, Queue!Flush
  <2>5. CASE UNCHANGED fifoVars
    BY <2>5 DEF fifoVars, writeVars, readVars, Held
  <2> QED BY <2>1, <2>2, <2>3, <2>4, <2>5 DEF FifoNext, WriteClock, ReadClock
<1> QED BY <1>1, <1>2, FifoInvariant, PTL DEF FifoSpec, IsQueue, Queue!Spec
=============================================================================
