---------------------------- MODULE MCO3FrontEnd ----------------------------
EXTENDS O3FrontEnd

CONSTANTS LineSize, NumSets, AddressBits

G == INSTANCE CacheGeometry

MCAddrs == {0, 1, 2, 4}   \* 0 and 1 share a line
MCIndex == [a \in MCAddrs |-> G!IndexOf(a, LineSize, NumSets)]
MCTag == [a \in MCAddrs |-> G!TagOf(a, LineSize, NumSets)]
MCAlign == [a \in MCAddrs |-> G!AlignOf(a, LineSize)]

I(bubbles, load, store) == [bubbles |-> bubbles, load |-> load, store |-> store]

\* Both cores may find their first line in the cache, and then want a third
\* line or the other's; or they store to the line the other one loads.
MCTraces == {<< <<I(0, 0, NoAddr), I(1, 4, 4)>>, <<I(0, 2, NoAddr), I(0, 0, 1)>> >>,
             << <<I(0, 1, 2)>>, <<I(1, 2, 0), I(0, 4, NoAddr)>> >>}
MCNoAddr == -1
Clean(addr) == [addr |-> addr, dirty |-> FALSE, ready |-> TRUE]
MCSaved == {[ix \in {0} |-> <<>>], [ix \in {0} |-> <<Clean(0), Clean(2)>>]}

\* The cache tells lines apart exactly when the number of sets is a power of two.
ASSUME OnlyPowersOfTwo ==
  \A sets \in 1 .. 8 :
    G!Separates(0 .. 2^AddressBits - 1, LineSize, sets) <=> sets \in {1, 2, 4, 8}
=============================================================================
