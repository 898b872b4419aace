----------------------------- MODULE MCAsyncFifo -----------------------------
EXTENDS AsyncFifo, GrayCode

CONSTANT AddrWidth

MCDepth == 2^AddrWidth
MCBits == Positions(AddrWidth)
MCGray == GrayOf(AddrWidth)
MCFlipTop == FlipTopOf(AddrWidth)

\* What the proofs assume of the code, at every width up to 5.
ASSUME CodeAtEveryWidth ==
  \A aw \in 1 .. 5 :
    LET size == 2^(aw + 1)
        code == GrayOf(aw)
    IN \A p, q \in 0 .. size - 1 :
         /\ code[p] = code[q] => p = q
         /\ code[p] = FlipTopOf(aw)[code[q]] <=> p = (q + 2^aw) % size
         /\ q = (p + 1) % size =>
              \E b \in Positions(aw) : \A c \in Positions(aw) \ {b} : code[p][c] = code[q][c]
=============================================================================
