---------------------------- MODULE MCReduceRound ----------------------------
EXTENDS ReduceRound, GrayCode

CONSTANT AddrWidth

MCDepth == 2^AddrWidth
MCBits == Positions(AddrWidth)
MCGray == GrayOf(AddrWidth)
MCFlipTop == FlipTopOf(AddrWidth)

MCArriving == {"MAX", "SUM"} \X Others
MCData == MCArriving \cup {<<"NONE", "none">>}
MCKind == [w \in MCData |-> w[1]]
=============================================================================
