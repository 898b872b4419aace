-------------------------- MODULE MCDramController --------------------------
(* Two banks; two rows of the first one and one of the second are used.    *)
EXTENDS DramController

TwoBanks == {"b0", "b1"}
TwoRows == {"r0", "r1"}
ThreeAddrs == {"b0r0", "b0r1", "b1r0"}
BankMap == [a \in ThreeAddrs |-> IF a = "b1r0" THEN "b1" ELSE "b0"]
RowMap == [a \in ThreeAddrs |-> IF a = "b0r1" THEN "r1" ELSE "r0"]
BothDevices == {"DDR4", "HBM3PIM"}
OnlyPIM == {"HBM3PIM"}
OnlyDDR4 == {"DDR4"}
TrafficOf == [d \in Devices |->
  IF d = "DDR4" THEN {"read", "write"} ELSE {"kvcache_read", "kvcache_write"}]
ActiveMaxes == [d \in Devices |-> IF d = "DDR4" THEN 1 ELSE 0]
=============================================================================
