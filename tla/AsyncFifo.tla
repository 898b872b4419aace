------------------------------ MODULE AsyncFifo ------------------------------
(***************************************************************************)
(* ramulator2/verilog_verification/sources/async_fifo.sv: a FIFO between   *)
(* two clock domains.  Each domain owns a pointer and its Gray code; the   *)
(* other domain sees the code through two registers.                       *)
(*                                                                         *)
(* One action per clock edge.  When both clocks rise together the first    *)
(* register of a synchronizer may take either value of a bit that is       *)
(* changing (metastability), so each such bit is chosen separately.        *)
(*                                                                         *)
(* Pointers run over 0 .. 2 * Depth - 1 (ADDR_WIDTH + 1 bits).  The code   *)
(* and the wfull pattern are CONSTANTS so that the proofs use just what    *)
(* GrayAssumption states of them; module GrayCode has the real ones.       *)
(***************************************************************************)
EXTENDS Naturals, Sequences

CONSTANTS
  Data,      \* the words
  Depth,     \* 1 << ADDR_WIDTH
  Bits,      \* the bit positions of a pointer
  Gray,      \* pointer -> its Gray code, a function from Bits to {0, 1}
  FlipTop    \* code -> the code with its two highest bits inverted

Ptr == 0 .. 2 * Depth - 1

\* wptr + 1 in ADDR_WIDTH + 1 bits.
Inc(p) == IF p = 2 * Depth - 1 THEN 0 ELSE p + 1

\* The low ADDR_WIDTH bits: the memory slot of a pointer.
Slot(p) == IF p < Depth THEN p ELSE p - Depth

\* Pointer p advanced by k, for k up to one turn.
Plus(p, k) == IF p + k < 2 * Depth THEN p + k ELSE p + k - 2 * Depth

\* How far pointer p is ahead of pointer q.
Ahead(p, q) == IF p >= q THEN p - q ELSE p + 2 * Depth - q

Code == [Bits -> {0, 1}]

ASSUME DepthAssumption == Depth \in Nat \ {0}

ASSUME GrayAssumption ==
  /\ Gray \in [Ptr -> Code]
  /\ FlipTop \in [Code -> Code]
  /\ \A p, q \in Ptr : Gray[p] = Gray[q] => p = q
  /\ \A p, q \in Ptr : Gray[p] = FlipTop[Gray[q]] <=> Ahead(p, q) = Depth
  /\ \A p \in Ptr, b, c \in Bits :
       Gray[p][b] # Gray[Inc(p)][b] /\ Gray[p][c] # Gray[Inc(p)][c] => b = c

VARIABLES
  mem,                                \* mem [0:DEPTH-1]; power-up content is arbitrary
  wptr, wptr_gray,                    \* write domain
  rptr_gray_sync1, rptr_gray_sync2,   \* ... and its view of the read pointer
  rptr, rptr_gray,                    \* read domain
  wptr_gray_sync1, wptr_gray_sync2    \* ... and its view of the write pointer

writeVars == <<mem, wptr, wptr_gray>>
readVars  == <<rptr, rptr_gray>>
writeSync == <<rptr_gray_sync1, rptr_gray_sync2>>
readSync  == <<wptr_gray_sync1, wptr_gray_sync2>>
fifoVars  == <<writeVars, readVars, writeSync, readSync>>

-----------------------------------------------------------------------------
rempty == rptr_gray = wptr_gray_sync2

\* Mutant: the codes are compared as if they were binary pointers.
wfull_NotFlipped == wptr_gray = rptr_gray_sync2 /\ wptr # rptr

wfull == wptr_gray = FlipTop[rptr_gray_sync2]

rdata == mem[Slot(rptr)]

\* Mutant: the pointer counts past its width.
Write_NoWrap(winc, d) ==
  IF winc /\ ~wfull
    THEN /\ mem' = [mem EXCEPT ![Slot(wptr)] = d]
         /\ wptr' = wptr + 1
         /\ wptr_gray' = Gray[Inc(wptr)]
    ELSE UNCHANGED writeVars

\* The write domain's own registers at an edge with winc and wdata = d.
Write(winc, d) ==
  IF winc /\ ~wfull
    THEN /\ mem' = [mem EXCEPT ![Slot(wptr)] = d]
         /\ wptr' = Inc(wptr)
         /\ wptr_gray' = Gray[Inc(wptr)]
    ELSE UNCHANGED writeVars

\* Mutant: rempty is not looked at.
Read_Unguarded(rinc) ==
  IF rinc
    THEN rptr' = Inc(rptr) /\ rptr_gray' = Gray[Inc(rptr)]
    ELSE UNCHANGED readVars

\* The read domain's own registers at an edge with rinc.
Read(rinc) ==
  IF rinc /\ ~rempty
    THEN rptr' = Inc(rptr) /\ rptr_gray' = Gray[Inc(rptr)]
    ELSE UNCHANGED readVars

\* Mutant: a code whose bits may all change at one increment, as binary counting does.
Sampled_AllBits(old, new) == IF old = new THEN {old} ELSE Code

\* What a register may take from a code that is changing from one value to another.
Sampled(old, new) == {c \in Code : \A b \in Bits : c[b] \in {old[b], new[b]}}

\* Mutant: the second register is never loaded.
SyncToWrite_Stuck(code) == rptr_gray_sync1' = code /\ UNCHANGED rptr_gray_sync2

SyncToWrite(code) == rptr_gray_sync1' = code /\ rptr_gray_sync2' = rptr_gray_sync1

\* Mutant: the second register is never loaded.
SyncToRead_Stuck(code) == wptr_gray_sync1' = code /\ UNCHANGED wptr_gray_sync2

SyncToRead(code) == wptr_gray_sync1' = code /\ wptr_gray_sync2' = wptr_gray_sync1

-----------------------------------------------------------------------------
FifoInit ==
  /\ mem \in [0 .. Depth - 1 -> Data]
  /\ wptr = 0 /\ rptr = 0
  /\ wptr_gray = Gray[0] /\ rptr_gray = Gray[0]
  /\ wptr_gray_sync1 = Gray[0] /\ wptr_gray_sync2 = Gray[0]
  /\ rptr_gray_sync1 = Gray[0] /\ rptr_gray_sync2 = Gray[0]

WriteEdge(winc, d) ==
  /\ Write(winc, d)
  /\ SyncToWrite(rptr_gray)
  /\ UNCHANGED <<readVars, readSync>>

ReadEdge(rinc) ==
  /\ Read(rinc)
  /\ SyncToRead(wptr_gray)
  /\ UNCHANGED <<writeVars, writeSync>>

BothEdges(winc, d, rinc) ==
  /\ Write(winc, d)
  /\ Read(rinc)
  /\ \E code \in Sampled(rptr_gray, rptr_gray') : SyncToWrite(code)
  /\ \E code \in Sampled(wptr_gray, wptr_gray') : SyncToRead(code)

\* wrst_n and rrst_n are driven together wherever the FIFO is instantiated; the
\* memory array has no reset.
Reset ==
  /\ wptr' = 0 /\ rptr' = 0
  /\ wptr_gray' = Gray[0] /\ rptr_gray' = Gray[0]
  /\ wptr_gray_sync1' = Gray[0] /\ wptr_gray_sync2' = Gray[0]
  /\ rptr_gray_sync1' = Gray[0] /\ rptr_gray_sync2' = Gray[0]
  /\ UNCHANGED mem

WriteClock == \E winc, rinc \in BOOLEAN, d \in Data : WriteEdge(winc, d) \/ BothEdges(winc, d, rinc)
ReadClock  == \E winc, rinc \in BOOLEAN, d \in Data : ReadEdge(rinc) \/ BothEdges(winc, d, rinc)

FifoNext == WriteClock \/ ReadClock \/ Reset

\* Both clocks keep running.
FifoSpec == FifoInit /\ [][FifoNext]_fifoVars
              /\ WF_fifoVars(WriteClock) /\ WF_fifoVars(ReadClock)

-----------------------------------------------------------------------------
(* Properties.                                                             *)

Occupancy == Ahead(wptr, rptr)

\* Type invariant: pointers in their width, codes are codes.
FifoTypeOK ==
  /\ mem \in [0 .. Depth - 1 -> Data]
  /\ wptr \in Ptr /\ rptr \in Ptr
  /\ {wptr_gray, rptr_gray, wptr_gray_sync1, wptr_gray_sync2,
      rptr_gray_sync1, rptr_gray_sync2} \subseteq Code

\* The flags, computed from a pointer of the other domain that is at least two
\* edges old and may have been sampled while changing, err only on the safe
\* side: a FIFO that looks readable holds an item, one that looks writable has
\* room, so no unread word is overwritten and no word is read twice.
FlagsConservative ==
  /\ Occupancy <= Depth
  /\ ~rempty => Occupancy > 0
  /\ ~wfull => Occupancy < Depth

\* Nothing else than a pointer's past value ever comes out of a synchronizer,
\* whatever it sampled: the code it holds belongs to a write pointer that the
\* reader has not passed.
SyncedPointersReal ==
  /\ \E p \in Ptr : wptr_gray_sync2 = Gray[p] /\ Ahead(p, rptr) <= Occupancy
  /\ \E q \in Ptr : rptr_gray_sync2 = Gray[q] /\ Ahead(rptr, q) <= Ahead(wptr, q)
                      /\ Ahead(wptr, q) <= Depth

\* The words of memory m between the pointers w and r, oldest first.
HeldIn(m, w, r) == [i \in 1 .. Ahead(w, r) |-> m[Slot(Plus(r, i - 1))]]

Held == HeldIn(mem, wptr, rptr)

\* The FIFO is a bounded queue: words leave once each and in order.
Queue == INSTANCE BoundedQueue WITH held <- Held
IsQueue == Queue!Spec

\* A word in the FIFO is seen by the reader in the end, also when nothing more
\* is written to push it along.
WordsSeen == Occupancy > 0 ~> (~rempty \/ Occupancy = 0)

\* A writer that sees a full FIFO sees room again once the reader makes some.
RoomSeen == wfull /\ Occupancy < Depth ~> ~wfull
=============================================================================
