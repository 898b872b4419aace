--------------------------- MODULE CacheGeometry ---------------------------
(* How the last-level cache cuts an address into index, tag and line: the    *)
(* bit operations of llc.h, for a number of sets that need not be a power of *)
(* two (the capacity is multiplied by the number of cores).                  *)
EXTENDS Integers, FiniteSetsExt

CONSTANT AddressBits   \* addresses are below 2^AddressBits

Bit(x, i) == (x \div 2^i) % 2
BitAnd(x, y) == MapThenSumSet(LAMBDA i : 2^i * Bit(x, i) * Bit(y, i), 0 .. AddressBits - 1)

\* calc_log2 of utils.h rounds down.
calc_log2(n) == Max({0} \cup {k \in 0 .. AddressBits : 2^k <= n})

\* m_index_offset, m_index_mask and m_tag_offset are set by the constructor.
IndexOf(addr, lineSize, sets) == BitAnd(addr \div 2^calc_log2(lineSize), sets - 1)
TagOf(addr, lineSize, sets) == addr \div 2^(calc_log2(sets) + calc_log2(lineSize))
AlignOf(addr, lineSize) == addr - BitAnd(addr, lineSize - 1)

\* Index and tag together name the line: what the cache takes for granted
\* when it compares tags within a set, and addresses by line in its MSHRs.
Separates(addresses, lineSize, sets) ==
  \A a, b \in addresses :
    AlignOf(a, lineSize) = AlignOf(b, lineSize) <=>
      /\ IndexOf(a, lineSize, sets) = IndexOf(b, lineSize, sets)
      /\ TagOf(a, lineSize, sets) = TagOf(b, lineSize, sets)
=============================================================================
