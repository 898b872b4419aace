------------------------------ MODULE GrayCode ------------------------------
(***************************************************************************)
(* The pointer codes of async_fifo.sv, bit by bit, for ADDR_WIDTH = aw:    *)
(* p ^ (p >> 1) and the wfull pattern with its two highest bits inverted.  *)
(***************************************************************************)
EXTENDS Naturals

Positions(aw) == 0 .. aw

Bit(p, b) == (p \div 2^b) % 2

\* wptr ^ (wptr >> 1): each bit with its upper neighbour; above the top is 0.
GrayOf(aw) ==
  [p \in 0 .. 2^(aw + 1) - 1 |->
     [b \in Positions(aw) |-> (Bit(p, b) + Bit(p, b + 1)) % 2]]

\* {~code[ADDR_WIDTH:ADDR_WIDTH-1], code[ADDR_WIDTH-2:0]}
FlipTopOf(aw) ==
  [c \in [Positions(aw) -> {0, 1}] |->
     [b \in Positions(aw) |-> IF b >= aw - 1 THEN 1 - c[b] ELSE c[b]]]
=============================================================================
