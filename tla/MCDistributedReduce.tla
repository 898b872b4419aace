------------------------- MODULE MCDistributedReduce -------------------------
EXTENDS DistributedReduce, GrayCode

CONSTANT AddrWidth

MCDepth == 2^AddrWidth
MCBits == Positions(AddrWidth)
MCGray == GrayOf(AddrWidth)
MCFlipTop == FlipTopOf(AddrWidth)

\* A word is its type field.
MCKind == [d \in Data |-> d]

\* The memory starts empty of messages; what it holds once the pointers have
\* gone round is whatever was written.
MCInit == ReduceInit /\ \A k \in DOMAIN mem : Kind[mem[k]] = "NONE"
MCSpec == MCInit /\ [][ReduceNext]_reduceVars /\ WF_reduceVars(ReduceNext)
=============================================================================
