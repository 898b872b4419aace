-------------------------- MODULE O3FrontEndProofs --------------------------
(***************************************************************************)
(* Theorems about O3FrontEnd, for any number of cores, sets, ways, MSHRs,    *)
(* latencies and traces.  First what the sequences of a set, of the MSHRs and *)
(* of the hit and miss lists become when one element leaves or enters them,  *)
(* then the sets and MSHRs (CacheInv), the stores (StoreInv), and who waits  *)
(* for what (Coming).                                                       *)
(***************************************************************************)
EXTENDS O3FrontEnd, OrderLemmas

LEMMA AppendIs ==
  ASSUME NEW S, NEW s \in Seq(S), NEW e \in S
  PROVE  /\ Append(s, e) \in Seq(S)
         /\ Len(Append(s, e)) = Len(s) + 1
         /\ Append(s, e)[Len(s) + 1] = e
         /\ \A j \in 1 .. Len(s) : Append(s, e)[j] = s[j]
OBVIOUS

\* What is left of a sequence when one element is taken out.
LEMMA RemoveAtIs ==
  ASSUME NEW S, NEW s \in Seq(S), NEW i \in 1 .. Len(s)
  PROVE  /\ RemoveAt(s, i) \in Seq(S)
         /\ Len(RemoveAt(s, i)) = Len(s) - 1
         /\ \A j \in 1 .. Len(s) - 1 : RemoveAt(s, i)[j] = IF j < i THEN s[j] ELSE s[j + 1]
<1> DEFINE a == SubSeq(s, 1, i - 1)
           b == SubSeq(s, i + 1, Len(s))
<1>1. a \in Seq(S) /\ Len(a) = i - 1 /\ \A j \in 1 .. i - 1 : a[j] = s[j]
  OBVIOUS
<1>2. b \in Seq(S) /\ Len(b) = Len(s) - i /\ \A j \in 1 .. Len(s) - i : b[j] = s[i + j]
  OBVIOUS
<1>3. RemoveAt(s, i) = a \o b
  BY DEF RemoveAt
<1> HIDE DEF a, b
<1>4. a \o b \in Seq(S) /\ Len(a \o b) = Len(s) - 1
  <2>0. a \in Seq(S) /\ b \in Seq(S)
    BY <1>1, <1>2
  <2>1. a \o b \in Seq(S)
    BY <2>0
  <2>2. Len(a \o b) = Len(a) + Len(b)
    BY <2>0
  <2> QED BY <1>1, <1>2, <2>1, <2>2
<1>5. ASSUME NEW j \in 1 .. Len(s) - 1
      PROVE  (a \o b)[j] = IF j < i THEN s[j] ELSE s[j + 1]
  <2>1. CASE j < i
    BY <1>1, <1>2, <2>1
  <2>2. CASE ~(j < i)
    <3>1. j - (i - 1) \in 1 .. Len(s) - i
      BY <2>2
    <3>2. (a \o b)[j] = b[j - (i - 1)]
      BY <1>1, <1>2, <2>2
    <3>3. b[j - (i - 1)] = s[i + (j - (i - 1))]
      BY <1>2, <3>1
    <3> QED BY <2>2, <3>2, <3>3
  <2> QED BY <2>1, <2>2
<1> QED BY <1>3, <1>4, <1>5

LEMMA SelectedIs ==
  ASSUME NEW S, NEW set \in Seq(S), NEW addr
  PROVE  LET p == Position(set, addr) IN
         \/ p = 0 /\ \A i \in 1 .. Len(set) : ~SameTag(set[i], addr)
         \/ p \in 1 .. Len(set) /\ SameTag(set[p], addr)
<1> DEFINE I == {i \in 1 .. Len(set) : SameTag(set[i], addr)}
<1>1. Position(set, addr) = IF I # {} THEN Min(I) ELSE 0
  BY DEF Position, SelectInSeq
<1>2. ASSUME I # {} PROVE Min(I) \in I
  <2> HIDE DEF I
  <2>1. I \subseteq Nat
    BY DEF I
  <2>2. \E x \in I : \A y \in I : x <= y
    BY <2>1, <1>2, Smallest
  <2> QED BY <2>2 DEF Min
<1> QED BY <1>1, <1>2

-----------------------------------------------------------------------------
(* One set of the cache.                                                   *)

Line == [addr : Addrs, dirty : BOOLEAN, ready : BOOLEAN]

LEMMA LineIs ==
  ASSUME NEW set \in Seq(Line), NEW i \in 1 .. Len(set)
  PROVE  set[i].addr \in Addrs /\ set[i].dirty \in BOOLEAN /\ set[i].ready \in BOOLEAN
<1>1. set[i] \in Line
  OBVIOUS
<1> QED BY <1>1 DEF Line

Awaited(addr, M) == \E a \in M : align[a] = align[addr]
Holds(set, addr) == \E i \in 1 .. Len(set) : SameTag(set[i], addr)

\* A set and a set of MSHRs that agree.
SetInv(ix, set, M) ==
  /\ set \in Seq(Line)
  /\ Len(set) <= Associativity
  /\ \A i \in 1 .. Len(set) : get_index[set[i].addr] = ix
  /\ \A i, j \in 1 .. Len(set) : SameTag(set[i], set[j].addr) => i = j
  /\ \A i \in 1 .. Len(set) : ~set[i].ready <=> Awaited(set[i].addr, M)

LEMMA SameLine ==
  ASSUME NEW a \in Addrs, NEW b \in Addrs, get_index[a] = get_index[b]
  PROVE  get_tag[a] = get_tag[b] <=> align[a] = align[b]
BY GeometryAssumption

\* A line goes, or none, and one that no other line of the set has the tag of
\* comes at the end.
MayMove(set, v, line) ==
  /\ v \in 0 .. Len(set)
  /\ line \in Line
  /\ v = 0 => Len(set) < Associativity
  /\ \A i \in 1 .. Len(set) : i # v => ~SameTag(set[i], line.addr)
Moved(set, v, line) == Append(IF v = 0 THEN set ELSE RemoveAt(set, v), line)

From(v, j) == IF v = 0 \/ j < v THEN j ELSE j + 1

LEMMA MovedIs ==
  ASSUME NEW set \in Seq(Line), NEW v, NEW line, MayMove(set, v, line),
         NEW t, t = Moved(set, v, line)
  PROVE  /\ t \in Seq(Line)
         /\ Len(t) = (IF v = 0 THEN Len(set) + 1 ELSE Len(set))
         /\ t[Len(t)] = line
         /\ \A j \in 1 .. Len(t) - 1 : /\ t[j] = set[From(v, j)]
                                       /\ From(v, j) \in 1 .. Len(set)
                                       /\ From(v, j) # v
<1> DEFINE kept == IF v = 0 THEN set ELSE RemoveAt(set, v)
<1>1. v \in 0 .. Len(set) /\ line \in Line /\ Len(set) \in Nat
  BY DEF MayMove
<1>2. /\ kept \in Seq(Line)
      /\ Len(kept) = (IF v = 0 THEN Len(set) ELSE Len(set) - 1)
      /\ \A j \in 1 .. Len(kept) : kept[j] = set[From(v, j)]
  <2>1. CASE v = 0
    BY <1>1, <2>1 DEF From
  <2>2. CASE v # 0
    <3>1. v \in 1 .. Len(set)
      BY <2>2, <1>1
    <3> QED BY <1>1, <2>2, <3>1, RemoveAtIs DEF From
  <2> QED BY <2>1, <2>2
<1>3. t = Append(kept, line)
  BY DEF Moved
<1>4. \A j \in 1 .. Len(kept) : From(v, j) \in 1 .. Len(set) /\ From(v, j) # v
  BY <1>1, <1>2 DEF From
<1> HIDE DEF kept
<1>5. LET u == Append(kept, line) IN
      /\ u \in Seq(Line)
      /\ Len(u) = Len(kept) + 1
      /\ u[Len(kept) + 1] = line
      /\ \A j \in 1 .. Len(kept) : u[j] = kept[j]
  BY <1>1, <1>2, AppendIs
<1>6. Len(t) = Len(kept) + 1 /\ Len(t) - 1 = Len(kept)
  BY <1>1, <1>2, <1>3, <1>5
<1> QED BY <1>1, <1>2, <1>3, <1>4, <1>5, <1>6

LEMMA MovedLines ==
  ASSUME NEW set \in Seq(Line), NEW v, NEW line, MayMove(set, v, line)
  PROVE  LET t == Moved(set, v, line) IN
         /\ \E j \in 1 .. Len(t) : t[j] = line
         /\ \A i \in 1 .. Len(set) : i # v => \E j \in 1 .. Len(t) : t[j] = set[i]
<1> DEFINE t == Moved(set, v, line)
<1>1. v \in 0 .. Len(set) /\ Len(set) \in Nat
  BY DEF MayMove
<1>2. /\ Len(t) = (IF v = 0 THEN Len(set) + 1 ELSE Len(set))
      /\ t[Len(t)] = line
      /\ \A j \in 1 .. Len(t) - 1 : t[j] = set[From(v, j)]
  BY MovedIs
<1> HIDE DEF t
<1>3. Len(t) \in 1 .. Len(t)
  BY <1>1, <1>2
<1>4. ASSUME NEW i \in 1 .. Len(set), i # v PROVE \E j \in 1 .. Len(t) : t[j] = set[i]
  <2>1. CASE v = 0 \/ i < v
    <3>1. i \in 1 .. Len(t) - 1 /\ From(v, i) = i
      BY <1>1, <1>2, <1>4, <2>1 DEF From
    <3> QED BY <1>1, <1>2, <3>1
  <2>2. CASE ~(v = 0 \/ i < v)
    <3>1. i - 1 \in 1 .. Len(t) - 1 /\ From(v, i - 1) = i
      BY <1>1, <1>2, <1>4, <2>2 DEF From
    <3> QED BY <1>1, <1>2, <3>1
  <2> QED BY <2>1, <2>2
<1>5. \E j \in 1 .. Len(t) : t[j] = line
  BY <1>2, <1>3
<1> QED BY <1>4, <1>5 DEF t

LEMMA MovedSet ==
  ASSUME NEW ix, NEW set, NEW M, SetInv(ix, set, M), NEW M2,
         NEW v, NEW line, MayMove(set, v, line), get_index[line.addr] = ix,
         \A i \in 1 .. Len(set) : i # v => (Awaited(set[i].addr, M2) <=> Awaited(set[i].addr, M)),
         ~line.ready <=> Awaited(line.addr, M2)
  PROVE  SetInv(ix, Moved(set, v, line), M2)
<1> DEFINE t == Moved(set, v, line)
<1>1. set \in Seq(Line) /\ v \in 0 .. Len(set) /\ Len(set) \in Nat
  BY DEF SetInv, MayMove
<1>2. /\ v = 0 => Len(set) < Associativity
      /\ \A i \in 1 .. Len(set) : i # v => ~SameTag(set[i], line.addr)
  BY DEF MayMove
<1>3. /\ t \in Seq(Line)
      /\ Len(t) = (IF v = 0 THEN Len(set) + 1 ELSE Len(set))
      /\ t[Len(t)] = line
      /\ \A j \in 1 .. Len(t) - 1 : /\ t[j] = set[From(v, j)]
                                    /\ From(v, j) \in 1 .. Len(set)
                                    /\ From(v, j) # v
  BY <1>1, MovedIs
<1>4. \A j, k \in 1 .. Len(t) - 1 : From(v, j) = From(v, k) => j = k
  BY <1>1 DEF From
<1> HIDE DEF t
<1>5. \A j \in 1 .. Len(t) : j = Len(t) \/ j \in 1 .. Len(t) - 1
  BY <1>1, <1>3
<1>6. \A j, k \in 1 .. Len(t) : SameTag(t[j], t[k].addr) => j = k
  <2> SUFFICES ASSUME NEW j \in 1 .. Len(t), NEW k \in 1 .. Len(t), SameTag(t[j], t[k].addr)
               PROVE  j = k
    OBVIOUS
  <2>1. CASE j \in 1 .. Len(t) - 1 /\ k \in 1 .. Len(t) - 1
    <3>1. From(v, j) = From(v, k)
      BY <2>1, <1>3 DEF SetInv
    <3> QED BY <2>1, <3>1, <1>4
  <2>2. CASE j = Len(t) /\ k \in 1 .. Len(t) - 1
    BY <2>2, <1>2, <1>3 DEF SameTag
  <2>3. CASE k = Len(t) /\ j \in 1 .. Len(t) - 1
    BY <2>3, <1>2, <1>3 DEF SameTag
  <2> QED BY <2>1, <2>2, <2>3, <1>5
<1>7. ASSUME NEW j \in 1 .. Len(t) PROVE ~t[j].ready <=> Awaited(t[j].addr, M2)
  <2>1. CASE j = Len(t)
    BY <2>1, <1>3
  <2>2. CASE j \in 1 .. Len(t) - 1
    <3>1. ~set[From(v, j)].ready <=> Awaited(set[From(v, j)].addr, M)
      BY <2>2, <1>3 DEF SetInv
    <3>2. Awaited(set[From(v, j)].addr, M2) <=> Awaited(set[From(v, j)].addr, M)
      BY <2>2, <1>3
    <3> QED BY <2>2, <1>3, <3>1, <3>2
  <2> QED BY <2>1, <2>2, <1>5
<1>8. \A j \in 1 .. Len(t) : get_index[t[j].addr] = ix
  BY <1>3, <1>5 DEF SetInv
<1>9. Len(t) <= Associativity
  BY <1>1, <1>2, <1>3, SizesAssumption DEF SetInv
<1> QED BY <1>3, <1>6, <1>7, <1>8, <1>9 DEF SetInv, t

\* A line is found ready, or every line of this address waits for the memory.
LEMMA HitIs ==
  ASSUME NEW ix, NEW set, NEW M, SetInv(ix, set, M), NEW addr \in Addrs
  PROVE  LET i == check_set_hit(set, addr) IN
         \/ i = 0 /\ \A j \in 1 .. Len(set) : SameTag(set[j], addr) => ~set[j].ready
         \/ i \in 1 .. Len(set) /\ SameTag(set[i], addr) /\ set[i].ready
<1> DEFINE p == Position(set, addr)
<1>1. \/ p = 0 /\ \A i \in 1 .. Len(set) : ~SameTag(set[i], addr)
      \/ p \in 1 .. Len(set) /\ SameTag(set[p], addr)
  BY SelectedIs DEF SetInv
<1>2. check_set_hit(set, addr) = IF p # 0 /\ set[p].ready THEN p ELSE 0
  BY DEF check_set_hit
<1>3. \A i, j \in 1 .. Len(set) : SameTag(set[i], set[j].addr) => i = j
  BY DEF SetInv
<1> HIDE DEF p
<1>4. CASE p = 0
  BY <1>1, <1>2, <1>4
<1>5. CASE p \in 1 .. Len(set) /\ SameTag(set[p], addr)
  <2>1. \A j \in 1 .. Len(set) : SameTag(set[j], addr) => j = p
    BY <1>3, <1>5 DEF SameTag
  <2> QED BY <1>2, <1>5, <2>1
<1> QED BY <1>1, <1>4, <1>5

-----------------------------------------------------------------------------
(* The cache and its MSHRs.                                                *)

CacheInv ==
  /\ cache \in [Indices -> Seq(Line)]
  /\ \A ix \in Indices : SetInv(ix, cache[ix], mshrs)
  /\ mshrs \subseteq Addrs
  /\ IsFiniteSet(mshrs)
  /\ Cardinality(mshrs) <= NumMshrs
  /\ \A a \in mshrs : Holds(cache[get_index[a]], a)
  /\ \A a, b \in mshrs : align[a] = align[b] => a = b

Request == [addr : Addrs, core : Cores, write : BOOLEAN]

LEMMA CacheInvIsMatch == ASSUME CacheInv PROVE MshrsMatchLines
<1>1. ASSUME NEW ix \in Indices
      PROVE  /\ Len(cache[ix]) <= Associativity
             /\ \A i, j \in DOMAIN cache[ix] : SameTag(cache[ix][i], cache[ix][j].addr) => i = j
             /\ \A i \in DOMAIN cache[ix] :
                  ~cache[ix][i].ready <=> check_mshr_hit(cache[ix][i].addr) # {}
  <2>1. SetInv(ix, cache[ix], mshrs)
    BY DEF CacheInv
  <2>2. DOMAIN cache[ix] = 1 .. Len(cache[ix])
    BY <2>1 DEF SetInv
  <2> QED BY <2>1, <2>2 DEF SetInv, Awaited, check_mshr_hit
<1>2. ASSUME NEW a \in mshrs
      PROVE  Position(SetFor(a), a) # 0 /\ check_mshr_hit(a) = {a}
  <2>1. a \in Addrs /\ get_index[a] \in Indices
    BY DEF CacheInv, Indices
  <2>2. SetFor(a) \in Seq(Line) /\ Holds(SetFor(a), a)
    BY <2>1 DEF CacheInv, SetFor
  <2>3. Position(SetFor(a), a) # 0
    BY <2>2, SelectedIs DEF Holds
  <2>4. check_mshr_hit(a) = {a}
    BY DEF CacheInv, check_mshr_hit
  <2> QED BY <2>3, <2>4
<1> QED BY <1>1, <1>2 DEF MshrsMatchLines, CacheInv

\* One set changes, and the MSHRs for its lines.
LEMMA CacheStep ==
  ASSUME CacheInv, NEW ix \in Indices, NEW t, cache' = [cache EXCEPT ![ix] = t],
         SetInv(ix, t, mshrs'),
         mshrs' \subseteq Addrs, IsFiniteSet(mshrs'), Cardinality(mshrs') <= NumMshrs,
         \A a \in mshrs' \ mshrs : get_index[a] = ix,
         \A a \in mshrs \ mshrs' : get_index[a] = ix,
         \A a \in mshrs' : get_index[a] = ix => Holds(t, a),
         \A a, b \in mshrs' : align[a] = align[b] => a = b
  PROVE  CacheInv'
<1>1. cache' \in [Indices -> Seq(Line)]
  BY DEF CacheInv, SetInv
<1>2. cache'[ix] = t /\ \A iy \in Indices : iy # ix => cache'[iy] = cache[iy]
  BY DEF CacheInv
<1>3. ASSUME NEW iy \in Indices PROVE SetInv(iy, cache'[iy], mshrs')
  <2>1. CASE iy = ix
    BY <2>1, <1>2
  <2>2. CASE iy # ix
    <3>1. SetInv(iy, cache[iy], mshrs)
      BY DEF CacheInv
    <3>2. ASSUME NEW i \in 1 .. Len(cache[iy])
          PROVE  Awaited(cache[iy][i].addr, mshrs') = Awaited(cache[iy][i].addr, mshrs)
      <4> DEFINE b == cache[iy][i].addr
      <4>1. b \in Addrs /\ get_index[b] = iy
        BY <3>1, LineIs DEF SetInv
      <4>2. \A a \in Addrs : align[a] = align[b] => get_index[a] = iy
        BY <4>1, GeometryAssumption
      <4>3. mshrs \subseteq Addrs
        BY DEF CacheInv
      <4> HIDE DEF b
      <4>4. Awaited(b, mshrs') = Awaited(b, mshrs)
        BY <2>2, <4>2, <4>3 DEF Awaited
      <4> QED BY <4>4 DEF b
    <3>3. SetInv(iy, cache[iy], mshrs')
      BY <3>1, <3>2 DEF SetInv
    <3> QED BY <2>2, <1>2, <3>3
  <2> QED BY <2>1, <2>2
<1>4. ASSUME NEW a \in mshrs' PROVE Holds(cache'[get_index[a]], a)
  <2>1. get_index[a] \in Indices
    BY DEF Indices
  <2>2. CASE get_index[a] = ix
    BY <2>2, <1>2
  <2>3. CASE get_index[a] # ix
    BY <2>1, <2>3, <1>2 DEF CacheInv
  <2> QED BY <2>2, <2>3
<1> QED BY <1>1, <1>3, <1>4 DEF CacheInv

DirtyOf(set, l) == \E i \in 1 .. Len(set) : set[i].dirty /\ align[set[i].addr] = l

LEMMA DirtyIs ==
  ASSUME NEW sets \in [Indices -> Seq(Line)], NEW l
  PROVE  DirtyIn(sets, l) <=> \E ix \in Indices : DirtyOf(sets[ix], l)
<1>1. \A ix \in Indices : DOMAIN sets[ix] = 1 .. Len(sets[ix])
  OBVIOUS
<1> QED BY <1>1 DEF DirtyIn, DirtyOf

\* Nothing dirty is lost when one set changes and keeps or writes back its own.
LEMMA DirtyStep ==
  ASSUME CacheInv, CacheInv', NEW ix \in Indices, NEW t, cache' = [cache EXCEPT ![ix] = t],
         NEW l, NEW gone \in BOOLEAN, DirtyOf(cache[ix], l) => DirtyOf(t, l) \/ gone
  PROVE  DirtyIn(cache, l) => DirtyIn(cache', l) \/ gone
<1>1. cache \in [Indices -> Seq(Line)] /\ cache' \in [Indices -> Seq(Line)]
  BY DEF CacheInv
<1>2. cache'[ix] = t /\ \A iy \in Indices : iy # ix => cache'[iy] = cache[iy]
  BY DEF CacheInv
<1>3. /\ DirtyIn(cache, l) <=> \E iy \in Indices : DirtyOf(cache[iy], l)
      /\ DirtyIn(cache', l) <=> \E iy \in Indices : DirtyOf(cache'[iy], l)
  BY <1>1, DirtyIs
<1> QED BY <1>2, <1>3

LEMMA HitKeeps ==
  ASSUME CacheInv, NEW req \in Request, Hit(req)
  PROVE  /\ CacheInv'
         /\ \A l : DirtyIn(cache, l) => DirtyIn(cache', l)
         /\ req.write => DirtyIn(cache', align[req.addr])
<1> DEFINE ix == get_index[req.addr]
           set == cache[ix]
           i == check_set_hit(set, req.addr)
           line == [addr |-> req.addr, dirty |-> set[i].dirty \/ req.write, ready |-> TRUE]
           t == Append(RemoveAt(set, i), line)
<1>1. req.addr \in Addrs /\ ix \in Indices /\ req.write \in BOOLEAN
  BY DEF Request, Indices
<1>2. SetInv(ix, set, mshrs)
  BY <1>1 DEF CacheInv
<1>3. i # 0 /\ cache' = [cache EXCEPT ![ix] = t] /\ UNCHANGED mshrs
  BY DEF Hit
<1>4. i \in 1 .. Len(set) /\ SameTag(set[i], req.addr) /\ set[i].ready
  BY <1>1, <1>2, <1>3, HitIs
<1>5. /\ set[i].addr \in Addrs /\ set[i].dirty \in BOOLEAN
      /\ get_index[set[i].addr] = ix
  BY <1>2, <1>4, LineIs DEF SetInv
<1>6. align[set[i].addr] = align[req.addr]
  BY <1>1, <1>4, <1>5, GeometryAssumption DEF SameTag
<1>7. ~Awaited(req.addr, mshrs)
  BY ZenonT(30), <1>2, <1>4, <1>6 DEF SetInv, Awaited
<1>8. line \in Line /\ line.addr = req.addr /\ line.ready /\ line.dirty = (set[i].dirty \/ req.write)
  BY <1>1, <1>5 DEF Line
<1>9. \A k \in 1 .. Len(set) : k # i => ~SameTag(set[k], req.addr)
  BY <1>2, <1>4 DEF SetInv, SameTag
<1> HIDE DEF line, i, set
<1>10. /\ SetInv(ix, t, mshrs)
       /\ \E j \in 1 .. Len(t) : t[j] = line
       /\ \A k \in 1 .. Len(set) : k # i => \E j \in 1 .. Len(t) : t[j] = set[k]
  <2>1. i # 0 /\ i \in 0 .. Len(set)
    BY <1>4
  <2>2. t = Moved(set, i, line)
    BY <2>1 DEF Moved
  <2>3. MayMove(set, i, line)
    BY <1>8, <1>9, <2>1 DEF MayMove
  <2>4. (~line.ready <=> Awaited(line.addr, mshrs)) /\ get_index[line.addr] = ix
    BY <1>7, <1>8
  <2> HIDE DEF t, ix
  <2>5. SetInv(ix, Moved(set, i, line), mshrs)
    BY <1>2, <2>3, <2>4, MovedSet
  <2>6. set \in Seq(Line)
    BY <1>2 DEF SetInv
  <2> QED BY <2>2, <2>3, <2>5, <2>6, MovedLines
<1> HIDE DEF t
<1>11. \A a \in mshrs : get_index[a] = ix => Holds(t, a)
  <2> SUFFICES ASSUME NEW a \in mshrs, get_index[a] = ix PROVE Holds(t, a)
    OBVIOUS
  <2>1. PICK k \in 1 .. Len(set) : SameTag(set[k], a)
    BY DEF CacheInv, Holds, set
  <2>2. CASE k = i
    BY <2>1, <2>2, <1>4, <1>8, <1>10 DEF Holds, SameTag
  <2>3. CASE k # i
    BY <2>1, <2>3, <1>10 DEF Holds
  <2> QED BY <2>2, <2>3
<1>12. CacheInv'
  <2>1. mshrs' = mshrs /\ SetInv(ix, t, mshrs')
    BY <1>3, <1>10
  <2>2. /\ mshrs' \subseteq Addrs /\ IsFiniteSet(mshrs') /\ Cardinality(mshrs') <= NumMshrs
        /\ \A a \in mshrs' \ mshrs : get_index[a] = ix
        /\ \A a \in mshrs \ mshrs' : get_index[a] = ix
        /\ \A a \in mshrs' : get_index[a] = ix => Holds(t, a)
        /\ \A a, b \in mshrs' : align[a] = align[b] => a = b
    BY <1>11, <2>1 DEF CacheInv
  <2> HIDE DEF ix
  <2> QED BY <1>1, <1>3, <2>1, <2>2, CacheStep
<1>13. ASSUME NEW l PROVE DirtyIn(cache, l) => DirtyIn(cache', l)
  <2>1. DirtyOf(set, l) => DirtyOf(t, l)
    BY ZenonT(30), <1>4, <1>6, <1>8, <1>10 DEF DirtyOf
  <2>2. DirtyOf(cache[ix], l) => DirtyOf(t, l) \/ FALSE
    BY <2>1 DEF set
  <2>3. DirtyIn(cache, l) => DirtyIn(cache', l) \/ FALSE
    BY <1>1, <1>3, <1>12, <2>2, DirtyStep
  <2> QED BY <2>3
<1>14. req.write => DirtyIn(cache', align[req.addr])
  <2>1. cache' \in [Indices -> Seq(Line)] /\ cache'[ix] = t
    BY <1>1, <1>3, <1>12 DEF CacheInv
  <2>2. req.write => DirtyOf(t, align[req.addr])
    BY <1>8, <1>10 DEF DirtyOf
  <2> QED BY <1>1, <2>1, <2>2, DirtyIs
<1> QED BY <1>12, <1>13, <1>14

\* The lines stay and change in nothing but the two flags.
LEMMA RewrittenSet ==
  ASSUME NEW ix, NEW set, NEW M, SetInv(ix, set, M), NEW M2,
         NEW t \in Seq(Line), Len(t) = Len(set),
         \A i \in 1 .. Len(set) : t[i].addr = set[i].addr,
         \A i \in 1 .. Len(set) : ~t[i].ready <=> Awaited(set[i].addr, M2)
  PROVE  SetInv(ix, t, M2)
BY DEF SetInv, SameTag

\* A line goes.
LEMMA RemovedSet ==
  ASSUME NEW ix, NEW set, NEW M, SetInv(ix, set, M), NEW v \in 1 .. Len(set)
  PROVE  SetInv(ix, RemoveAt(set, v), M)
<1> DEFINE t == RemoveAt(set, v)
<1>1. set \in Seq(Line) /\ Len(set) \in Nat
  BY DEF SetInv
<1>2. /\ t \in Seq(Line)
      /\ Len(t) = Len(set) - 1
      /\ \A j \in 1 .. Len(set) - 1 : t[j] = IF j < v THEN set[j] ELSE set[j + 1]
  BY <1>1, RemoveAtIs
<1> HIDE DEF t
<1>3. \A j \in 1 .. Len(t) : t[j] = set[From(v, j)] /\ From(v, j) \in 1 .. Len(set)
  BY <1>1, <1>2 DEF From
<1>4. \A j, k \in 1 .. Len(t) : From(v, j) = From(v, k) => j = k
  BY <1>1, <1>2 DEF From
<1>5. \A j, k \in 1 .. Len(t) : SameTag(t[j], t[k].addr) => j = k
  BY <1>3, <1>4 DEF SetInv
<1>6. Len(t) <= Associativity
  BY <1>1, <1>2, SizesAssumption DEF SetInv
<1> QED BY SMTT(30), <1>2, <1>3, <1>5, <1>6 DEF SetInv, t

LEMMA RemovedLines ==
  ASSUME NEW set \in Seq(Line), NEW v \in 1 .. Len(set)
  PROVE  \A i \in 1 .. Len(set) : i # v => \E j \in 1 .. Len(RemoveAt(set, v)) : RemoveAt(set, v)[j] = set[i]
<1> DEFINE t == RemoveAt(set, v)
<1>1. /\ Len(t) = Len(set) - 1 /\ Len(set) \in Nat
      /\ \A j \in 1 .. Len(set) - 1 : t[j] = IF j < v THEN set[j] ELSE set[j + 1]
  BY RemoveAtIs
<1> HIDE DEF t
<1>2. ASSUME NEW i \in 1 .. Len(set), i # v PROVE \E j \in 1 .. Len(t) : t[j] = set[i]
  <2>1. CASE i < v
    <3>1. i \in 1 .. Len(t) /\ t[i] = set[i]
      BY <1>1, <2>1
    <3> QED BY <3>1
  <2>2. CASE ~(i < v)
    <3>1. i - 1 \in 1 .. Len(t) /\ t[i - 1] = set[i]
      BY <1>1, <1>2, <2>2
    <3> QED BY <3>1
  <2> QED BY <2>1, <2>2
<1> QED BY <1>2 DEF t

MissEntry == [wait : Nat, write : BOOLEAN, addr : Addrs, core : Cores \cup {NoCore}]

LEMMA ConcatIs ==
  ASSUME NEW S, NEW s \in Seq(S), NEW u \in Seq(S)
  PROVE  /\ s \o u \in Seq(S)
         /\ Len(s \o u) = Len(s) + Len(u)
         /\ \A i \in 1 .. Len(s) : (s \o u)[i] = s[i]
         /\ \A i \in 1 .. Len(u) : (s \o u)[Len(s) + i] = u[i]
OBVIOUS

LEMMA WritebacksIn ==
  ASSUME NEW list \in Seq(MissEntry), NEW more \in Seq(MissEntry), NEW l
  PROVE  WritebackIn(list \o more, l) <=> WritebackIn(list, l) \/ WritebackIn(more, l)
<1> DEFINE both == list \o more
<1>1. /\ both \in Seq(MissEntry)
      /\ Len(both) = Len(list) + Len(more) /\ Len(list) \in Nat /\ Len(more) \in Nat
      /\ \A i \in 1 .. Len(list) : both[i] = list[i]
      /\ \A i \in 1 .. Len(more) : both[Len(list) + i] = more[i]
  BY ConcatIs
<1> HIDE DEF both
<1>2. /\ DOMAIN both = 1 .. Len(both)
      /\ DOMAIN list = 1 .. Len(list)
      /\ DOMAIN more = 1 .. Len(more)
  BY <1>1
<1>3. ASSUME NEW i \in DOMAIN both
      PROVE  \/ i \in DOMAIN list /\ both[i] = list[i]
             \/ i - Len(list) \in DOMAIN more /\ both[i] = more[i - Len(list)]
  <2>1. CASE i <= Len(list)
    BY <1>1, <1>2, <2>1
  <2>2. CASE ~(i <= Len(list))
    <3>1. i - Len(list) \in DOMAIN more /\ i = Len(list) + (i - Len(list))
      BY <1>1, <1>2, <2>2
    <3> QED BY <1>1, <1>2, <3>1
  <2> QED BY <2>1, <2>2
<1>4. ASSUME NEW i \in DOMAIN list PROVE i \in DOMAIN both /\ both[i] = list[i]
  BY <1>1, <1>2
<1>5. ASSUME NEW i \in DOMAIN more
      PROVE  Len(list) + i \in DOMAIN both /\ both[Len(list) + i] = more[i]
  BY <1>1, <1>2
<1>6. WritebackIn(both, l) => WritebackIn(list, l) \/ WritebackIn(more, l)
  BY <1>3 DEF WritebackIn
<1>7. WritebackIn(list, l) => WritebackIn(both, l)
  BY <1>4 DEF WritebackIn
<1>8. WritebackIn(more, l) => WritebackIn(both, l)
  BY <1>5 DEF WritebackIn
<1> QED BY <1>6, <1>7, <1>8 DEF both

LEMMA WritebackIs ==
  ASSUME NEW line \in Line
  PROVE  /\ Writeback(line) \in Seq(MissEntry)
         /\ \A i \in 1 .. Len(Writeback(line)) : Writeback(line)[i].write
         /\ line.dirty => WritebackIn(Writeback(line), align[line.addr])
<1>1. CASE line.dirty
  <2> DEFINE e == [wait |-> Latency, write |-> TRUE, addr |-> line.addr, core |-> NoCore]
  <2>1. e \in MissEntry /\ e.write /\ e.addr = line.addr
    BY SizesAssumption DEF Line, MissEntry
  <2>2. Writeback(line) = <<e>>
    BY <1>1 DEF Writeback
  <2> HIDE DEF e
  <2>3. /\ <<e>> \in Seq(MissEntry) /\ Len(<<e>>) = 1 /\ <<e>>[1] = e
        /\ DOMAIN <<e>> = 1 .. 1
    BY <2>1
  <2>4. 1 \in DOMAIN <<e>> /\ <<e>>[1].write /\ align[<<e>>[1].addr] = align[line.addr]
    BY <2>1, <2>3
  <2>5. WritebackIn(<<e>>, align[line.addr])
    BY <2>4 DEF WritebackIn
  <2>6. \A i \in 1 .. Len(<<e>>) : <<e>>[i].write
    BY <2>1, <2>3
  <2> QED BY <2>2, <2>3, <2>5, <2>6
<1>2. CASE ~line.dirty
  BY <1>2 DEF Writeback
<1> QED BY <1>1, <1>2

\* Write-backs add no read to the miss list, a read adds itself.
LEMMA ReadsAfterWritebacks ==
  ASSUME NEW list \in Seq(MissEntry), NEW more \in Seq(MissEntry),
         \A i \in 1 .. Len(more) : more[i].write, NEW r
  PROVE  ReadsOf(list \o more, r) = ReadsOf(list, r)
<1> DEFINE both == list \o more
<1>1. /\ both \in Seq(MissEntry)
      /\ Len(both) = Len(list) + Len(more) /\ Len(list) \in Nat /\ Len(more) \in Nat
      /\ \A i \in 1 .. Len(list) : both[i] = list[i]
      /\ \A i \in 1 .. Len(more) : both[Len(list) + i] = more[i]
  BY ConcatIs
<1> HIDE DEF both
<1>2. DOMAIN both = 1 .. Len(both) /\ DOMAIN list = 1 .. Len(list)
  BY <1>1
<1>3. ASSUME NEW i \in DOMAIN both
      PROVE  \/ i \in DOMAIN list /\ both[i] = list[i]
             \/ i \notin DOMAIN list /\ both[i].write
  <2>1. CASE i <= Len(list)
    BY <1>1, <1>2, <2>1
  <2>2. CASE ~(i <= Len(list))
    <3>1. i - Len(list) \in 1 .. Len(more) /\ i = Len(list) + (i - Len(list)) /\ i \notin DOMAIN list
      BY <1>1, <1>2, <2>2
    <3> QED BY <1>1, <3>1
  <2> QED BY <2>1, <2>2
<1>4. \A i \in DOMAIN list : i \in DOMAIN both
  BY <1>1, <1>2
<1>5. ReadsOf(both, r) = ReadsOf(list, r)
  BY <1>3, <1>4 DEF ReadsOf
<1> QED BY <1>5 DEF both

LEMMA ReadsAfterRead ==
  ASSUME NEW list \in Seq(MissEntry), NEW e \in MissEntry, ~e.write, NEW r
  PROVE  ReadsOf(list \o <<e>>, r) =
           ReadsOf(list, r) \cup IF e.addr = r.addr /\ e.core = r.core THEN {Len(list) + 1} ELSE {}
<1> DEFINE both == list \o <<e>>
<1>1. Len(list) \in Nat /\ DOMAIN list = 1 .. Len(list)
  OBVIOUS
<1>2. /\ both \in Seq(MissEntry)
      /\ Len(both) = Len(list) + 1
      /\ \A i \in 1 .. Len(list) : both[i] = list[i]
      /\ both[Len(list) + 1] = e
  OBVIOUS
<1> HIDE DEF both
<1>3. DOMAIN both = 1 .. Len(list) + 1
  BY <1>1, <1>2
<1>4. \A i \in DOMAIN both : i \in DOMAIN list \/ i = Len(list) + 1
  BY <1>1, <1>3
<1>5. Len(list) + 1 \in DOMAIN both /\ Len(list) + 1 \notin DOMAIN list /\ DOMAIN list \subseteq DOMAIN both
  BY <1>1, <1>3
<1>6. \A i \in DOMAIN list : both[i] = list[i]
  BY <1>1, <1>2
<1>7. ReadsOf(both, r) =
           ReadsOf(list, r) \cup IF e.addr = r.addr /\ e.core = r.core THEN {Len(list) + 1} ELSE {}
  BY <1>2, <1>4, <1>5, <1>6 DEF ReadsOf
<1> QED BY <1>7 DEF both

\* A request finds the MSHR of its line, and the line that waits.
LEMMA WaitingLine ==
  ASSUME CacheInv, NEW a \in mshrs
  PROVE  LET p == Position(cache[get_index[a]], a) IN
         /\ a \in Addrs /\ get_index[a] \in Indices
         /\ SetInv(get_index[a], cache[get_index[a]], mshrs)
         /\ p \in 1 .. Len(cache[get_index[a]])
         /\ align[cache[get_index[a]][p].addr] = align[a]
<1> DEFINE set == cache[get_index[a]]
           p == Position(set, a)
<1>1. a \in Addrs /\ get_index[a] \in Indices
  BY DEF CacheInv, Indices
<1>2. SetInv(get_index[a], set, mshrs) /\ Holds(set, a)
  BY <1>1 DEF CacheInv
<1>3. p \in 1 .. Len(set) /\ SameTag(set[p], a)
  BY <1>2, SelectedIs DEF SetInv, Holds
<1> HIDE DEF p
<1>4. set[p].addr \in Addrs /\ get_index[set[p].addr] = get_index[a]
  BY <1>2, <1>3, LineIs DEF SetInv
<1>5. align[set[p].addr] = align[a]
  BY <1>1, <1>3, <1>4, GeometryAssumption DEF SameTag
<1> QED BY <1>1, <1>2, <1>3, <1>5 DEF p

LEMMA MergeKeeps ==
  ASSUME CacheInv, NEW req \in Request, Merge(req)
  PROVE  /\ CacheInv'
         /\ \A l : DirtyIn(cache, l) => DirtyIn(cache', l)
         /\ req.write => DirtyIn(cache', align[req.addr])
<1> DEFINE ix == get_index[req.addr]
           set == cache[ix]
<1>1. req.addr \in Addrs /\ ix \in Indices /\ req.write \in BOOLEAN
  BY DEF Request, Indices
<1>2. PICK a \in check_mshr_hit(req.addr) :
        cache' = [cache EXCEPT ![ix][Position(cache[ix], a)].dirty = @ \/ req.write]
  BY DEF Merge
<1>3. UNCHANGED mshrs
  BY DEF Merge
<1>4. a \in mshrs /\ align[a] = align[req.addr]
  BY <1>2 DEF check_mshr_hit
<1>5. get_index[a] = ix
  <2>1. a \in Addrs
    BY <1>4 DEF CacheInv
  <2> QED BY <1>1, <1>4, <2>1, GeometryAssumption
<1> DEFINE p == Position(set, a)
           t == [set EXCEPT ![p].dirty = @ \/ req.write]
<1>6. /\ SetInv(ix, set, mshrs)
      /\ p \in 1 .. Len(set)
      /\ align[set[p].addr] = align[req.addr]
  BY <1>4, <1>5, WaitingLine
<1>7. cache' = [cache EXCEPT ![ix] = t]
  BY <1>1, <1>2 DEF CacheInv
<1> HIDE DEF p
<1>8. /\ set \in Seq(Line) /\ Len(set) \in Nat
      /\ \A i \in 1 .. Len(set) : set[i] \in Line
      /\ \A i \in 1 .. Len(set) : ~set[i].ready <=> Awaited(set[i].addr, mshrs)
  BY <1>6 DEF SetInv
<1>9. /\ t \in Seq(Line)
      /\ Len(t) = Len(set)
      /\ \A i \in 1 .. Len(set) : /\ t[i].addr = set[i].addr
                                  /\ t[i].ready = set[i].ready
                                  /\ t[i].dirty = (set[i].dirty \/ (i = p /\ req.write))
  <2> HIDE DEF set
  <2>1. [set[p] EXCEPT !.dirty = set[p].dirty \/ req.write]
          = [addr |-> set[p].addr, dirty |-> set[p].dirty \/ req.write, ready |-> set[p].ready]
    BY <1>6, <1>8 DEF Line
  <2>2. t = [set EXCEPT ![p] = [addr |-> set[p].addr, dirty |-> set[p].dirty \/ req.write,
                                ready |-> set[p].ready]]
    BY <2>1
  <2> DEFINE e == [addr |-> set[p].addr, dirty |-> set[p].dirty \/ req.write, ready |-> set[p].ready]
  <2>3. e \in Line
    BY <1>1, <1>6, <1>8 DEF Line
  <2>4. e.addr = set[p].addr /\ e.ready = set[p].ready /\ e.dirty = (set[p].dirty \/ req.write)
    OBVIOUS
  <2>5. t = [set EXCEPT ![p] = e]
    BY <2>2
  <2> HIDE DEF e, t
  <2>6. /\ t \in Seq(Line) /\ Len(t) = Len(set)
        /\ \A i \in 1 .. Len(set) : t[i] = IF i = p THEN e ELSE set[i]
    BY <1>6, <1>8, <2>3, <2>5
  <2>7. ASSUME NEW i \in 1 .. Len(set)
        PROVE  /\ t[i].addr = set[i].addr
               /\ t[i].ready = set[i].ready
               /\ t[i].dirty = (set[i].dirty \/ (i = p /\ req.write))
    <3>1. CASE i = p
      BY <2>4, <2>6, <3>1
    <3>2. CASE i # p
      <4>1. t[i] = set[i]
        BY <2>6, <3>2
      <4>2. set[i].dirty \in BOOLEAN
        BY <1>8 DEF Line
      <4> QED BY <3>2, <4>1, <4>2
    <3> QED BY <3>1, <3>2
  <2> QED BY <2>6, <2>7
<1> HIDE DEF t, set
<1>10. SetInv(ix, t, mshrs)
  BY <1>6, <1>8, <1>9, RewrittenSet
<1>11. \A b \in mshrs : get_index[b] = ix => Holds(t, b)
  BY <1>9 DEF CacheInv, Holds, SameTag, set
<1>12. CacheInv'
  <2>1. mshrs' = mshrs /\ SetInv(ix, t, mshrs')
    BY <1>3, <1>10
  <2>2. /\ mshrs' \subseteq Addrs /\ IsFiniteSet(mshrs') /\ Cardinality(mshrs') <= NumMshrs
        /\ \A b \in mshrs' \ mshrs : get_index[b] = ix
        /\ \A b \in mshrs \ mshrs' : get_index[b] = ix
        /\ \A b \in mshrs' : get_index[b] = ix => Holds(t, b)
        /\ \A b, c \in mshrs' : align[b] = align[c] => b = c
    BY <1>11, <2>1 DEF CacheInv
  <2> HIDE DEF ix
  <2> QED BY <1>1, <1>7, <2>1, <2>2, CacheStep
<1>13. ASSUME NEW l PROVE DirtyIn(cache, l) => DirtyIn(cache', l)
  <2>1. DirtyOf(set, l) => DirtyOf(t, l)
    BY <1>9 DEF DirtyOf
  <2>2. DirtyOf(cache[ix], l) => DirtyOf(t, l) \/ FALSE
    BY <2>1 DEF set
  <2>3. DirtyIn(cache, l) => DirtyIn(cache', l) \/ FALSE
    BY <1>1, <1>7, <1>12, <2>2, DirtyStep
  <2> QED BY <2>3
<1>14. req.write => DirtyIn(cache', align[req.addr])
  <2>1. cache' \in [Indices -> Seq(Line)] /\ cache'[ix] = t
    BY <1>1, <1>7, <1>12 DEF CacheInv
  <2>2. req.write => DirtyOf(t, align[req.addr])
    BY <1>6, <1>9 DEF DirtyOf
  <2> QED BY <1>1, <2>1, <2>2, DirtyIs
<1> QED BY <1>12, <1>13, <1>14

\* A miss of a line nobody waits for finds no line of its tag.
LEMMA MissIs ==
  ASSUME CacheInv, NEW addr \in Addrs,
         check_set_hit(SetFor(addr), addr) = 0, check_mshr_hit(addr) = {}
  PROVE  \A i \in 1 .. Len(SetFor(addr)) : ~SameTag(SetFor(addr)[i], addr)
<1> DEFINE ix == get_index[addr]
           set == cache[ix]
<1>1. ix \in Indices /\ SetInv(ix, set, mshrs) /\ set = SetFor(addr)
  BY DEF CacheInv, Indices, SetFor
<1>2. \A j \in 1 .. Len(set) : SameTag(set[j], addr) => ~set[j].ready
  BY <1>1, HitIs
<1>3. SUFFICES ASSUME NEW i \in 1 .. Len(set), SameTag(set[i], addr) PROVE FALSE
  BY <1>1
<1>4. Awaited(set[i].addr, mshrs)
  BY <1>1, <1>2, <1>3 DEF SetInv
<1>5. set[i].addr \in Addrs /\ get_index[set[i].addr] = ix
  BY <1>1, LineIs DEF SetInv
<1>6. align[set[i].addr] = align[addr]
  BY <1>3, <1>5, GeometryAssumption DEF SameTag
<1> QED BY <1>4, <1>6 DEF Awaited, check_mshr_hit

LEMMA VictimIs ==
  ASSUME NEW set \in Seq(Line),
         ~(/\ Len(set) >= Associativity
           /\ \A i \in DOMAIN set : ~set[i].ready)
  PROVE  LET v == Victim(set) IN
         \/ v = 0 /\ Len(set) < Associativity
         \/ v \in 1 .. Len(set) /\ set[v].ready
<1> DEFINE I == {i \in 1 .. Len(set) : set[i].ready}
<1>1. CASE Len(set) < Associativity
  BY <1>1 DEF Victim
<1>2. CASE ~(Len(set) < Associativity)
  <2>1. I # {}
    BY <1>2, SizesAssumption
  <2>2. Victim(set) = Min(I)
    BY <1>2, <2>1 DEF Victim, SelectInSeq
  <2> HIDE DEF I
  <2>3. I \subseteq Nat
    BY DEF I
  <2>4. \E x \in I : \A y \in I : x <= y
    BY <2>1, <2>3, Smallest
  <2>5. Min(I) \in I
    BY <2>4 DEF Min
  <2> QED BY <2>2, <2>5 DEF I
<1> QED BY <1>1, <1>2

LEMMA AllocateKeeps ==
  ASSUME CacheInv, miss_list \in Seq(MissEntry), NEW req \in Request, Allocate(req)
  PROVE  /\ CacheInv'
         /\ \A l : DirtyIn(cache, l) => DirtyIn(cache', l) \/ WritebackIn(miss_list', l)
         /\ \A l : WritebackIn(miss_list, l) => WritebackIn(miss_list', l)
         /\ req.write => DirtyIn(cache', align[req.addr])
         /\ req.addr \notin mshrs
         /\ miss_list' \in Seq(MissEntry)
         /\ \E n : \A r : ReadsOf(miss_list', r) = ReadsOf(miss_list, r)
              \cup IF req.addr = r.addr /\ req.core = r.core THEN {n} ELSE {}
<1> DEFINE ix == get_index[req.addr]
           set == cache[ix]
           v == Victim(set)
           line == [addr |-> req.addr, dirty |-> req.write, ready |-> FALSE]
           t == Moved(set, v, line)
           evicted == IF v = 0 THEN <<>> ELSE Writeback(set[v])
           read == [wait |-> Latency, write |-> FALSE, addr |-> req.addr, core |-> req.core]
<1>1. req.addr \in Addrs /\ ix \in Indices /\ req.write \in BOOLEAN /\ req.core \in Cores
  BY DEF Request, Indices
<1>2. /\ check_set_hit(set, req.addr) = 0 /\ check_mshr_hit(req.addr) = {}
      /\ Cardinality(mshrs) # NumMshrs
      /\ ~(/\ Len(set) >= Associativity
           /\ \A i \in DOMAIN set : ~set[i].ready)
      /\ cache' = [cache EXCEPT ![ix] = t]
      /\ mshrs' = mshrs \cup {req.addr}
      /\ miss_list' = miss_list \o evicted \o <<read>>
  BY DEF Allocate, Misses, NoPlaceFor, SetFor, Moved
<1>3. /\ SetInv(ix, set, mshrs) /\ set \in Seq(Line) /\ Len(set) \in Nat
      /\ \A i \in 1 .. Len(set) : set[i] \in Line
  <2>1. SetInv(ix, set, mshrs)
    BY <1>1 DEF CacheInv
  <2>2. set \in Seq(Line)
    BY <2>1 DEF SetInv
  <2> HIDE DEF set
  <2> QED BY <2>1, <2>2
<1>4. \A i \in 1 .. Len(set) : ~SameTag(set[i], req.addr)
  BY <1>1, <1>2, MissIs DEF SetFor
<1>5. \/ v = 0 /\ Len(set) < Associativity
      \/ v \in 1 .. Len(set) /\ set[v].ready
  BY <1>2, <1>3, VictimIs
<1>6. line \in Line /\ line.addr = req.addr /\ ~line.ready /\ line.dirty = req.write
  BY <1>1 DEF Line
<1>7. read \in MissEntry /\ ~read.write /\ read.addr = req.addr /\ read.core = req.core
  BY <1>1, SizesAssumption DEF MissEntry
<1> HIDE DEF v, set, line, read, t
<1>8. \A i \in 1 .. Len(set) : /\ set[i].addr \in Addrs /\ get_index[set[i].addr] = ix
                               /\ align[set[i].addr] # align[req.addr]
  <2> SUFFICES ASSUME NEW i \in 1 .. Len(set)
               PROVE  /\ set[i].addr \in Addrs /\ get_index[set[i].addr] = ix
                      /\ align[set[i].addr] # align[req.addr]
    OBVIOUS
  <2>1. set[i].addr \in Addrs /\ get_index[set[i].addr] = ix
    BY <1>3, LineIs DEF SetInv
  <2> QED BY <1>1, <1>4, <2>1, GeometryAssumption DEF SameTag
<1>9. \A a \in mshrs : align[a] # align[req.addr]
  BY <1>2 DEF check_mshr_hit
<1>10. MayMove(set, v, line)
  BY <1>3, <1>4, <1>5, <1>6 DEF MayMove
<1>11. SetInv(ix, t, mshrs')
  <2>1. \A i \in 1 .. Len(set) : Awaited(set[i].addr, mshrs') <=> Awaited(set[i].addr, mshrs)
    BY <1>2, <1>8 DEF Awaited
  <2>2. Awaited(line.addr, mshrs')
    BY <1>2, <1>6 DEF Awaited
  <2>3. (~line.ready <=> Awaited(line.addr, mshrs')) /\ get_index[line.addr] = ix
    BY <1>6, <2>2
  <2> HIDE DEF ix
  <2>4. SetInv(ix, Moved(set, v, line), mshrs')
    BY <1>3, <1>10, <2>1, <2>3, MovedSet
  <2> QED BY <2>4 DEF t
<1>12. /\ \E j \in 1 .. Len(t) : t[j] = line
       /\ \A i \in 1 .. Len(set) : i # v => \E j \in 1 .. Len(t) : t[j] = set[i]
  BY <1>3, <1>10, MovedLines DEF t
<1>13. \A a \in mshrs' : get_index[a] = ix => Holds(t, a)
  <2> SUFFICES ASSUME NEW a \in mshrs', get_index[a] = ix PROVE Holds(t, a)
    OBVIOUS
  <2>1. CASE a = req.addr
    BY <2>1, <1>6, <1>12 DEF Holds, SameTag
  <2>2. CASE a \in mshrs
    <3>1. PICK k \in 1 .. Len(set) : SameTag(set[k], a)
      BY <2>2 DEF CacheInv, Holds, set
    <3>2. a \in Addrs
      BY <2>2 DEF CacheInv
    <3>3. Awaited(set[k].addr, mshrs)
      BY <1>8, <2>2, <3>1, <3>2, GeometryAssumption DEF SameTag, Awaited
    <3>4. k # v
      BY <1>3, <1>5, <3>3 DEF SetInv
    <3> QED BY <1>12, <3>1, <3>4 DEF Holds
  <2> QED BY <1>2, <2>1, <2>2
<1>14. CacheInv'
  <2>1. mshrs' \subseteq Addrs /\ IsFiniteSet(mshrs')
    BY <1>1, <1>2, FS_AddElement DEF CacheInv
  <2>2. Cardinality(mshrs') <= NumMshrs
    <3>1. IsFiniteSet(mshrs) /\ req.addr \notin mshrs
      BY <1>9 DEF CacheInv
    <3>2. Cardinality(mshrs') = Cardinality(mshrs) + 1
      BY <1>2, <3>1, FS_AddElement
    <3>3. Cardinality(mshrs) \in Nat
      BY <3>1, FS_CardinalityType
    <3> QED BY <1>2, <3>2, <3>3, SizesAssumption DEF CacheInv
  <2>3. /\ \A a \in mshrs' \ mshrs : get_index[a] = ix
        /\ \A a \in mshrs \ mshrs' : get_index[a] = ix
        /\ \A a, b \in mshrs' : align[a] = align[b] => a = b
    BY <1>2, <1>9 DEF CacheInv
  <2> HIDE DEF ix
  <2> QED BY <1>1, <1>2, <1>11, <1>13, <2>1, <2>2, <2>3, CacheStep
<1>15. /\ miss_list' \in Seq(MissEntry)
       /\ \E n : \A r : ReadsOf(miss_list', r) = ReadsOf(miss_list, r)
            \cup IF req.addr = r.addr /\ req.core = r.core THEN {n} ELSE {}
       /\ \A l : WritebackIn(miss_list, l) => WritebackIn(miss_list', l)
       /\ v # 0 /\ set[v].dirty => WritebackIn(miss_list', align[set[v].addr])
  <2>1. evicted \in Seq(MissEntry) /\ \A i \in 1 .. Len(evicted) : evicted[i].write
    <3>1. CASE v = 0
      BY <3>1
    <3>2. CASE v # 0
      BY <1>3, <1>5, <3>2, WritebackIs
    <3> QED BY <3>1, <3>2
  <2>2. <<read>> \in Seq(MissEntry)
    BY <1>7
  <2>3. v # 0 /\ set[v].dirty => WritebackIn(evicted, align[set[v].addr])
    BY <1>3, <1>5, WritebackIs
  <2> HIDE DEF evicted
  <2>4. miss_list \o evicted \in Seq(MissEntry)
    BY <2>1, ConcatIs
  <2>5. ASSUME NEW l
        PROVE  WritebackIn(miss_list', l)
                 <=> WritebackIn(miss_list, l) \/ WritebackIn(evicted, l) \/ WritebackIn(<<read>>, l)
    <3>1. WritebackIn(miss_list \o evicted, l) <=> WritebackIn(miss_list, l) \/ WritebackIn(evicted, l)
      BY <2>1, WritebacksIn
    <3>2. WritebackIn((miss_list \o evicted) \o <<read>>, l)
            <=> WritebackIn(miss_list \o evicted, l) \/ WritebackIn(<<read>>, l)
      BY <2>2, <2>4, WritebacksIn
    <3> QED BY <1>2, <3>1, <3>2
  <2>6. miss_list' \in Seq(MissEntry)
    BY <1>2, <2>2, <2>4, ConcatIs
  <2> DEFINE sent == miss_list \o evicted
  <2>7. ASSUME NEW r
        PROVE  ReadsOf(miss_list', r) = ReadsOf(miss_list, r)
                 \cup IF req.addr = r.addr /\ req.core = r.core THEN {Len(sent) + 1} ELSE {}
    <3>1. ReadsOf(sent, r) = ReadsOf(miss_list, r)
      BY <2>1, ReadsAfterWritebacks
    <3>2. sent \in Seq(MissEntry) /\ miss_list' = sent \o <<read>>
      BY <1>2, <2>4
    <3> HIDE DEF sent
    <3>3. ReadsOf(sent \o <<read>>, r) = ReadsOf(sent, r)
             \cup IF read.addr = r.addr /\ read.core = r.core THEN {Len(sent) + 1} ELSE {}
      BY <1>7, <3>2, ReadsAfterRead
    <3> QED BY <1>7, <3>1, <3>2, <3>3
  <2> QED BY <2>3, <2>5, <2>6, <2>7
<1>16. ASSUME NEW l PROVE DirtyIn(cache, l) => DirtyIn(cache', l) \/ WritebackIn(miss_list', l)
  <2>1. DirtyOf(set, l) => DirtyOf(t, l) \/ WritebackIn(miss_list', l)
    <3> SUFFICES ASSUME NEW k \in 1 .. Len(set), set[k].dirty, align[set[k].addr] = l
                 PROVE  DirtyOf(t, l) \/ WritebackIn(miss_list', l)
      BY DEF DirtyOf
    <3>1. CASE k = v
      BY <3>1, <1>3, <1>15
    <3>2. CASE k # v
      BY <3>2, <1>12 DEF DirtyOf
    <3> QED BY <3>1, <3>2
  <2>2. DirtyOf(cache[ix], l) => DirtyOf(t, l) \/ WritebackIn(miss_list', l)
    BY <2>1 DEF set
  <2>3. WritebackIn(miss_list', l) \in BOOLEAN
    BY DEF WritebackIn
  <2> QED BY <1>1, <1>2, <1>14, <2>2, <2>3, DirtyStep
<1>17. req.write => DirtyIn(cache', align[req.addr])
  <2>1. cache' \in [Indices -> Seq(Line)] /\ cache'[ix] = t
    BY <1>1, <1>2, <1>14 DEF CacheInv
  <2>2. req.write => DirtyOf(t, align[req.addr])
    BY <1>6, <1>12 DEF DirtyOf
  <2> QED BY <1>1, <2>1, <2>2, DirtyIs
<1> QED BY <1>9, <1>14, <1>15, <1>16, <1>17

LEMMA ReceiveKeeps ==
  ASSUME CacheInv, miss_list \in Seq(MissEntry), NEW addr \in Addrs, NEW source, NEW waiting,
         Receive(addr, source, waiting)
  PROVE  /\ CacheInv'
         /\ \A l : DirtyIn(cache, l) => DirtyIn(cache', l) \/ WritebackIn(miss_list', l)
         /\ \A l : WritebackIn(miss_list, l) => WritebackIn(miss_list', l)
         /\ miss_list' \in Seq(MissEntry)
         /\ \A r : ReadsOf(miss_list', r) = ReadsOf(miss_list, r)
<1> DEFINE ix == get_index[addr]
           set == cache[ix]
           entry == check_mshr_hit(addr)
           filled == [k \in DOMAIN set |->
                        [set[k] EXCEPT !.ready = @ \/ (entry # {} /\ SameTag(set[k], addr))]]
           i == IF \E w \in waiting : w.core \in Attackers THEN check_set_hit(filled, addr) ELSE 0
           t == IF i = 0 THEN filled ELSE RemoveAt(filled, i)
<1>1. ix \in Indices
  BY DEF Indices
<1>2. /\ mshrs' = mshrs \ entry
      /\ cache' = [cache EXCEPT ![ix] = t]
      /\ miss_list' = IF i = 0 THEN miss_list ELSE miss_list \o Writeback(filled[i])
  BY DEF Receive
<1>3. /\ SetInv(ix, set, mshrs) /\ set \in Seq(Line) /\ Len(set) \in Nat
      /\ \A k \in 1 .. Len(set) : set[k] \in Line
      /\ DOMAIN set = 1 .. Len(set)
  BY <1>1 DEF CacheInv, SetInv
<1> HIDE DEF set
<1>4. /\ filled \in Seq(Line) /\ Len(filled) = Len(set)
      /\ \A k \in 1 .. Len(set) :
           /\ filled[k].addr = set[k].addr
           /\ filled[k].dirty = set[k].dirty
           /\ filled[k].ready = (set[k].ready \/ (entry # {} /\ SameTag(set[k], addr)))
  <2> DEFINE e(k) == [set[k] EXCEPT !.ready = @ \/ (entry # {} /\ SameTag(set[k], addr))]
  <2>1. ASSUME NEW k \in 1 .. Len(set)
        PROVE  /\ e(k) \in Line
               /\ e(k).addr = set[k].addr
               /\ e(k).dirty = set[k].dirty
               /\ e(k).ready = (set[k].ready \/ (entry # {} /\ SameTag(set[k], addr)))
    <3>1. set[k] \in Line
      BY <1>3
    <3> HIDE DEF entry
    <3> QED BY <3>1 DEF Line
  <2>2. filled = [k \in 1 .. Len(set) |-> e(k)]
    BY <1>3
  <2> HIDE DEF e, filled
  <2>3. filled \in Seq(Line) /\ Len(filled) = Len(set)
    BY <1>3, <2>1, <2>2
  <2> QED BY <2>1, <2>2, <2>3
<1> HIDE DEF filled
<1>5. \A k \in 1 .. Len(set) : /\ set[k].addr \in Addrs /\ get_index[set[k].addr] = ix
                               /\ SameTag(set[k], addr) <=> align[set[k].addr] = align[addr]
  <2> SUFFICES ASSUME NEW k \in 1 .. Len(set)
               PROVE  /\ set[k].addr \in Addrs /\ get_index[set[k].addr] = ix
                      /\ SameTag(set[k], addr) <=> align[set[k].addr] = align[addr]
    OBVIOUS
  <2>1. set[k].addr \in Addrs /\ get_index[set[k].addr] = ix
    BY <1>3, LineIs DEF SetInv
  <2> QED BY <2>1, GeometryAssumption DEF SameTag
<1>6. entry = {a \in mshrs : align[a] = align[addr]}
  BY DEF check_mshr_hit
<1> HIDE DEF entry
<1>7. SetInv(ix, filled, mshrs')
  <2>1. ASSUME NEW k \in 1 .. Len(set)
        PROVE  ~filled[k].ready <=> Awaited(set[k].addr, mshrs')
    <3>1. ~set[k].ready <=> Awaited(set[k].addr, mshrs)
      BY <1>3 DEF SetInv
    <3>2. CASE SameTag(set[k], addr)
      <4>1. ~Awaited(set[k].addr, mshrs')
        BY <1>2, <1>5, <1>6, <3>2 DEF Awaited
      <4>2. Awaited(set[k].addr, mshrs) <=> entry # {}
        BY <1>5, <1>6, <3>2 DEF Awaited
      <4> QED BY <1>4, <3>1, <3>2, <4>1, <4>2
    <3>3. CASE ~SameTag(set[k], addr)
      <4>1. Awaited(set[k].addr, mshrs') <=> Awaited(set[k].addr, mshrs)
        BY <1>2, <1>5, <1>6, <3>3 DEF Awaited
      <4> QED BY <1>4, <3>1, <3>3, <4>1
    <3> QED BY <3>2, <3>3
  <2> HIDE DEF ix
  <2> QED BY <1>3, <1>4, <2>1, RewrittenSet
<1>8. \/ i = 0
      \/ i \in 1 .. Len(filled) /\ SameTag(filled[i], addr) /\ filled[i].ready
  BY <1>7, HitIs
<1> HIDE DEF i
<1>9. SetInv(ix, t, mshrs')
  <2> HIDE DEF ix
  <2>1. CASE i = 0
    BY <2>1, <1>7
  <2>2. CASE i # 0
    BY <2>2, <1>7, <1>8, RemovedSet
  <2> QED BY <2>1, <2>2
<1>10. \A k \in 1 .. Len(set) : k # i => \E j \in 1 .. Len(t) : t[j] = filled[k]
  <2>1. CASE i = 0
    BY <2>1, <1>4
  <2>2. CASE i # 0
    <3>1. i \in 1 .. Len(filled)
      BY <2>2, <1>8
    <3> QED BY <2>2, <3>1, <1>4, RemovedLines
  <2> QED BY <2>1, <2>2
<1> HIDE DEF t
<1>11. \A a \in mshrs' : get_index[a] = ix => Holds(t, a)
  <2> SUFFICES ASSUME NEW a \in mshrs', get_index[a] = ix PROVE Holds(t, a)
    OBVIOUS
  <2>1. a \in mshrs /\ a \in Addrs
    BY <1>2 DEF CacheInv
  <2>2. PICK k \in 1 .. Len(set) : SameTag(set[k], a)
    BY <2>1 DEF CacheInv, Holds, set
  <2>3. Awaited(set[k].addr, mshrs')
    BY <1>5, <2>1, <2>2, GeometryAssumption DEF SameTag, Awaited
  <2>4. ~filled[k].ready
    BY <1>4, <1>7, <2>3 DEF SetInv
  <2>5. k # i
    BY <1>3, <1>8, <2>4
  <2>6. SameTag(filled[k], a)
    BY <1>4, <2>2 DEF SameTag
  <2> QED BY <1>10, <2>5, <2>6 DEF Holds
<1>12. CacheInv'
  <2>1. mshrs' \subseteq mshrs
    BY <1>2
  <2>2. /\ IsFiniteSet(mshrs') /\ Cardinality(mshrs') <= Cardinality(mshrs)
        /\ Cardinality(mshrs) \in Nat /\ Cardinality(mshrs') \in Nat
    BY <2>1, FS_Subset, FS_CardinalityType DEF CacheInv
  <2>3. \A a \in mshrs \ mshrs' : get_index[a] = ix
    BY <1>2, <1>6, GeometryAssumption DEF CacheInv
  <2>4. /\ mshrs' \subseteq Addrs /\ Cardinality(mshrs') <= NumMshrs
        /\ \A a \in mshrs' \ mshrs : get_index[a] = ix
        /\ \A a, b \in mshrs' : align[a] = align[b] => a = b
    BY <2>1, <2>2, SizesAssumption DEF CacheInv
  <2> HIDE DEF ix
  <2> QED BY <1>1, <1>2, <1>9, <1>11, <2>2, <2>3, <2>4, CacheStep
<1>13. /\ miss_list' \in Seq(MissEntry)
       /\ \A r : ReadsOf(miss_list', r) = ReadsOf(miss_list, r)
       /\ \A l : WritebackIn(miss_list, l) => WritebackIn(miss_list', l)
       /\ i # 0 /\ filled[i].dirty => WritebackIn(miss_list', align[filled[i].addr])
  <2>1. CASE i = 0
    BY <2>1, <1>2
  <2>2. CASE i # 0
    <3>1. filled[i] \in Line
      BY <2>2, <1>4, <1>8
    <3>2. /\ Writeback(filled[i]) \in Seq(MissEntry)
          /\ \A k \in 1 .. Len(Writeback(filled[i])) : Writeback(filled[i])[k].write
          /\ filled[i].dirty => WritebackIn(Writeback(filled[i]), align[filled[i].addr])
      BY <3>1, WritebackIs
    <3>3. \A l : WritebackIn(miss_list', l) <=> WritebackIn(miss_list, l) \/ WritebackIn(Writeback(filled[i]), l)
      BY <1>2, <2>2, <3>2, WritebacksIn
    <3>4. miss_list' \in Seq(MissEntry)
      BY <1>2, <2>2, <3>2, ConcatIs
    <3>5. \A r : ReadsOf(miss_list', r) = ReadsOf(miss_list, r)
      BY <1>2, <2>2, <3>2, ReadsAfterWritebacks
    <3> QED BY <3>2, <3>3, <3>4, <3>5
  <2> QED BY <2>1, <2>2
<1>14. ASSUME NEW l PROVE DirtyIn(cache, l) => DirtyIn(cache', l) \/ WritebackIn(miss_list', l)
  <2>1. DirtyOf(set, l) => DirtyOf(t, l) \/ WritebackIn(miss_list', l)
    <3> SUFFICES ASSUME NEW k \in 1 .. Len(set), set[k].dirty, align[set[k].addr] = l
                 PROVE  DirtyOf(t, l) \/ WritebackIn(miss_list', l)
      BY DEF DirtyOf
    <3>1. filled[k].dirty /\ align[filled[k].addr] = l
      BY <1>4
    <3>2. CASE k = i
      BY <3>1, <3>2, <1>3, <1>13
    <3>3. CASE k # i
      BY <3>1, <3>3, <1>10 DEF DirtyOf
    <3> QED BY <3>2, <3>3
  <2>2. DirtyOf(cache[ix], l) => DirtyOf(t, l) \/ WritebackIn(miss_list', l)
    BY <2>1 DEF set
  <2>3. WritebackIn(miss_list', l) \in BOOLEAN
    BY DEF WritebackIn
  <2> QED BY <1>1, <1>2, <1>12, <2>2, <2>3, DirtyStep
<1> QED BY <1>12, <1>13, <1>14

-----------------------------------------------------------------------------
(* The tick of the cache.                                                  *)

\* The places of the kept elements are the indices of the new list.
LEMMA PlaceIs ==
  ASSUME NEW kept, kept \subseteq Nat, IsFiniteSet(kept)
  PROVE  /\ Cardinality(kept) \in Nat
         /\ \A i \in kept : Place(kept, i) \in 1 .. Cardinality(kept)
         /\ \A i, k \in kept : Place(kept, i) = Place(kept, k) => i = k
         /\ \A j \in 1 .. Cardinality(kept) : \E i \in kept : Place(kept, i) = j
<1> DEFINE Upto(i) == {k \in kept : k <= i}
           n == Cardinality(kept)
<1>1. n \in Nat /\ \A i \in kept : IsFiniteSet(Upto(i)) /\ Cardinality(Upto(i)) \in Nat
  <2>1. ASSUME NEW i \in kept PROVE IsFiniteSet(Upto(i)) /\ Cardinality(Upto(i)) \in Nat
    <3>1. Upto(i) \subseteq kept
      OBVIOUS
    <3> QED BY <3>1, FS_Subset, FS_CardinalityType
  <2> QED BY <2>1, FS_CardinalityType
<1>2. ASSUME NEW i \in kept PROVE Cardinality(Upto(i)) \in 1 .. n
  <2>1. Upto(i) \subseteq kept /\ i \in Upto(i)
    OBVIOUS
  <2>2. Cardinality(Upto(i)) <= n
    BY <2>1, FS_Subset
  <2>3. Upto(i) # {}
    BY <2>1
  <2>4. Cardinality(Upto(i)) # 0
    BY <1>1, <2>3, FS_EmptySet
  <2> QED BY <1>1, <2>2, <2>4
<1>3. ASSUME NEW i \in kept, NEW k \in kept, i < k
      PROVE  Cardinality(Upto(i)) < Cardinality(Upto(k))
  <2>1. Upto(i) \subseteq Upto(k) /\ k \in Upto(k) /\ k \notin Upto(i)
    <3>1. \A m \in kept : m \in Nat
      OBVIOUS
    <3>2. i \in Nat /\ k \in Nat /\ i < k
      BY <1>3, <3>1
    <3>3. ASSUME NEW m \in Upto(i) PROVE m \in Upto(k)
      <4>1. m \in kept /\ m \in Nat /\ m <= i
        BY <3>1
      <4>2. m <= k
        BY <3>2, <4>1
      <4> QED BY <4>1, <4>2
    <3>4. k \in Upto(k) /\ k \notin Upto(i)
      BY <3>2
    <3> QED BY <3>3, <3>4
  <2>2. IsFiniteSet(Upto(k))
    BY <1>1
  <2>3. Upto(i) # Upto(k)
    BY <2>1
  <2> HIDE DEF Upto
  <2> QED BY <1>1, <2>1, <2>2, <2>3, FS_Subset
<1>4. \A i, k \in kept : Cardinality(Upto(i)) = Cardinality(Upto(k)) => i = k
  <2> SUFFICES ASSUME NEW i \in kept, NEW k \in kept, i # k
               PROVE  Cardinality(Upto(i)) # Cardinality(Upto(k))
    OBVIOUS
  <2>1. i < k \/ k < i
    OBVIOUS
  <2> HIDE DEF Upto
  <2>2. Cardinality(Upto(i)) \in Nat /\ Cardinality(Upto(k)) \in Nat
    BY <1>1
  <2>3. Cardinality(Upto(i)) < Cardinality(Upto(k)) \/ Cardinality(Upto(k)) < Cardinality(Upto(i))
    BY <1>3, <2>1
  <2> QED BY <2>2, <2>3
<1> HIDE DEF Upto, n
<1> DEFINE p == [i \in kept |-> Cardinality(Upto(i))]
<1>5. p \in [kept -> 1 .. n]
  BY <1>2
<1>6. \A a, b \in kept : p[a] = p[b] => a = b
  BY <1>4
<1>7. IsFiniteSet(1 .. n) /\ Cardinality(1 .. n) = n
  BY <1>1, FS_Interval
<1> HIDE DEF p
<1>8. p \in Injection(kept, 1 .. n)
  BY <1>5, <1>6 DEF Injection, IsInjective
<1>9. p \in Surjection(kept, 1 .. n)
  BY <1>7, <1>8, FS_Injection DEF n
<1>10. \A j \in 1 .. n : \E i \in kept : p[i] = j
  BY <1>9 DEF Surjection
<1>11. \A i \in kept : p[i] = Place(kept, i)
  BY DEF p, Place, Upto
<1> QED BY <1>1, <1>5, <1>6, <1>10, <1>11 DEF n

\* The elements at the indices picked, each once.
LEMMA PickedIs ==
  ASSUME NEW S, NEW list \in Seq(S), NEW kept, kept \subseteq DOMAIN list,
         NEW left, left = Picked(list, kept)
  PROVE  /\ left \in Seq(S)
         /\ \A i \in kept : Place(kept, i) \in DOMAIN left /\ left[Place(kept, i)] = list[i]
         /\ \A j \in DOMAIN left : \E i \in kept : Place(kept, i) = j
         /\ \A i, k \in kept : Place(kept, i) = Place(kept, k) => i = k
<1> DEFINE n == Cardinality(kept)
           At(j) == CHOOSE i \in kept : Place(kept, i) = j
<1>1. DOMAIN list = 1 .. Len(list) /\ Len(list) \in Nat
  OBVIOUS
<1>2. kept \subseteq Nat /\ IsFiniteSet(kept)
  <2>1. kept \subseteq 1 .. Len(list)
    BY <1>1
  <2>2. IsFiniteSet(1 .. Len(list))
    BY <1>1, FS_Interval
  <2> QED BY <2>1, <2>2, FS_Subset
<1>3. /\ n \in Nat
      /\ \A i \in kept : Place(kept, i) \in 1 .. n
      /\ \A i, k \in kept : Place(kept, i) = Place(kept, k) => i = k
      /\ \A j \in 1 .. n : \E i \in kept : Place(kept, i) = j
  BY <1>2, PlaceIs
<1>4. left = [j \in 1 .. n |-> list[At(j)]]
  BY DEF Picked
<1>5. \A i \in kept : list[i] \in S
  BY <1>1
<1> HIDE DEF n
<1>6. \A j \in 1 .. n : At(j) \in kept /\ Place(kept, At(j)) = j
  BY <1>3
<1>7. \A i \in kept : At(Place(kept, i)) = i
  BY <1>3, <1>6
<1> HIDE DEF At
<1>8. left \in Seq(S) /\ DOMAIN left = 1 .. n
  BY <1>3, <1>4, <1>5, <1>6
<1>9. \A i \in kept : left[Place(kept, i)] = list[i]
  BY <1>3, <1>4, <1>7
<1> QED BY <1>3, <1>8, <1>9

Ripe(entry) == [entry EXCEPT !.wait = IF @ = 0 THEN 0 ELSE @ - 1]

LEMMA AgedIs ==
  ASSUME NEW list \in Seq(MissEntry)
  PROVE  /\ Aged(list) \in Seq(MissEntry)
         /\ DOMAIN Aged(list) = DOMAIN list
         /\ \A i \in DOMAIN list : /\ Aged(list)[i].write = list[i].write
                                   /\ Aged(list)[i].addr = list[i].addr
                                   /\ Aged(list)[i].core = list[i].core
<1>1. DOMAIN list = 1 .. Len(list) /\ Len(list) \in Nat /\ \A i \in 1 .. Len(list) : list[i] \in MissEntry
  OBVIOUS
<1>2. ASSUME NEW e \in MissEntry
      PROVE  /\ Ripe(e) \in MissEntry
             /\ Ripe(e).write = e.write /\ Ripe(e).addr = e.addr /\ Ripe(e).core = e.core
  BY DEF Ripe, MissEntry
<1>3. Aged(list) = [i \in 1 .. Len(list) |-> Ripe(list[i])]
  BY <1>1 DEF Aged, Ripe
<1>4. Aged(list) \in Seq(MissEntry) /\ DOMAIN Aged(list) = 1 .. Len(list)
  BY <1>1, <1>2, <1>3
<1> QED BY <1>1, <1>2, <1>3, <1>4

LEMMA SendKeeps ==
  ASSUME CacheInv, miss_list \in Seq(MissEntry), StoresKept, SendMisses
  PROVE  CacheInv' /\ StoresKept' /\ miss_list' \in Seq(MissEntry)
<1> DEFINE aged == Aged(miss_list)
           due == {i \in DOMAIN aged : aged[i].wait = 0}
           written(taken) == {align[aged[i].addr] : i \in {j \in taken : aged[j].write}}
<1>1. PICK taken \in SUBSET due :
        /\ miss_list' = Without(aged, taken)
        /\ unsaved' = {l \in unsaved : \/ l \notin written(taken)
                                       \/ DirtyIn(cache, l)
                                       \/ WritebackIn(Without(aged, taken), l)}
        /\ UNCHANGED <<cache, mshrs>>
  BY DEF SendMisses
<1> DEFINE left == Without(aged, taken)
<1>2. /\ aged \in Seq(MissEntry) /\ DOMAIN aged = DOMAIN miss_list
      /\ \A i \in DOMAIN miss_list : /\ aged[i].write = miss_list[i].write
                                     /\ aged[i].addr = miss_list[i].addr
  BY AgedIs
<1> HIDE DEF aged
<1>3. /\ left \in Seq(MissEntry)
      /\ \A i \in DOMAIN aged \ taken : Place(DOMAIN aged \ taken, i) \in DOMAIN left
                                        /\ left[Place(DOMAIN aged \ taken, i)] = aged[i]
  <2>1. aged \in Seq(MissEntry)
    BY <1>2
  <2> DEFINE kept == DOMAIN aged \ taken
  <2>2. left = Picked(aged, kept) /\ kept \subseteq DOMAIN aged
    BY DEF Without
  <2> HIDE DEF left, kept
  <2>3. /\ left \in Seq(MissEntry)
        /\ \A i \in kept : Place(kept, i) \in DOMAIN left /\ left[Place(kept, i)] = aged[i]
    BY <2>1, <2>2, PickedIs
  <2> QED BY <2>3 DEF kept
<1> HIDE DEF left
<1>4. CacheInv'
  BY <1>1 DEF CacheInv
<1>5. ASSUME NEW l \in unsaved' PROVE DirtyIn(cache', l) \/ WritebackIn(miss_list', l)
  <2>1. l \in unsaved /\ (l \notin written(taken) \/ DirtyIn(cache, l) \/ WritebackIn(left, l))
    BY <1>1 DEF left
  <2>2. DirtyIn(cache', l) <=> DirtyIn(cache, l)
    BY <1>1 DEF DirtyIn
  <2>3. CASE l \notin written(taken) /\ ~DirtyIn(cache, l)
    <3>1. WritebackIn(miss_list, l)
      BY <2>1, <2>3 DEF StoresKept
    <3>2. PICK i \in DOMAIN miss_list : miss_list[i].write /\ align[miss_list[i].addr] = l
      BY <3>1 DEF WritebackIn
    <3>3. i \in DOMAIN aged \ taken /\ aged[i].write /\ align[aged[i].addr] = l
      BY <1>2, <2>3, <3>2
    <3>4. WritebackIn(left, l)
      BY <1>3, <3>3 DEF WritebackIn
    <3> QED BY <1>1, <3>4 DEF left
  <2> QED BY <1>1, <2>1, <2>2, <2>3 DEF left
<1> QED BY <1>1, <1>3, <1>4, <1>5 DEF StoresKept, left

-----------------------------------------------------------------------------
(* The core.                                                               *)

Slot == [ready : BOOLEAN, addr : Addrs \cup {NoAddr}]

\* What is left of a line of a trace: its load is -1 once it is sent.
Pending == [bubbles : Nat, load : Addrs \cup {NoAddr}, store : Addrs \cup {NoAddr}]

CoreTyped ==
  /\ trace \in [Cores -> Seq(Inst) \ {<<>>}]
  /\ at \in [Cores -> Nat]
  /\ \A c \in Cores : at[c] \in 1 .. Len(trace[c])
  /\ pending \in [Cores -> Pending]
  /\ window \in [Cores -> Seq(Slot)]
  /\ \A c \in Cores : Len(window[c]) <= Depth

LEMMA ModRange ==
  ASSUME NEW i \in Nat, NEW n \in Nat \ {0}
  PROVE  i % n \in 0 .. n - 1
OBVIOUS

LEMMA FollowingIs ==
  ASSUME trace \in [Cores -> Seq(Inst) \ {<<>>}], NEW c \in Cores, NEW i \in Nat
  PROVE  Following(c, i) \in 1 .. Len(trace[c])
<1>1. Len(trace[c]) \in Nat \ {0}
  OBVIOUS
<1>2. i % Len(trace[c]) \in 0 .. Len(trace[c]) - 1
  BY <1>1, ModRange
<1> QED BY <1>1, <1>2 DEF Following

\* What a core retires is a part of the window, and a wait stays in it.
LEMMA RetiredIs ==
  ASSUME NEW w \in Seq(Slot)
  PROVE  /\ Retired(w) \in Seq(Slot)
         /\ Len(Retired(w)) <= Len(w)
         /\ \A i \in DOMAIN Retired(w) : \E k \in DOMAIN w : Retired(w)[i] = w[k]
<1> DEFINE I == {i \in 1 .. Len(w) : ~w[i].ready}
           waits == SelectInSeq(w, LAMBDA s : ~s.ready)
           done == IF waits = 0 THEN Len(w) ELSE waits - 1
           m == Min({done, Ipc})
<1>1. waits \in 0 .. Len(w)
  <2>1. waits = IF I # {} THEN Min(I) ELSE 0
    BY DEF SelectInSeq
  <2>2. ASSUME I # {} PROVE Min(I) \in I
    <3>1. I \subseteq Nat
      OBVIOUS
    <3> HIDE DEF I
    <3>2. \E x \in I : \A y \in I : x <= y
      BY <2>2, <3>1, Smallest
    <3> QED BY <3>2 DEF Min
  <2> QED BY <2>1, <2>2
<1>2. Ipc \in Nat
  BY FrontEndAssumption
<1> HIDE DEF waits
<1>3. done \in 0 .. Len(w)
  BY <1>1
<1> HIDE DEF done
<1>4. m \in {done, Ipc} /\ m <= done
  <2>1. \E x \in {done, Ipc} : \A y \in {done, Ipc} : x <= y
    BY <1>2, <1>3
  <2> QED BY <2>1 DEF Min
<1>5. m \in 0 .. Len(w)
  BY <1>2, <1>3, <1>4
<1>6. Retired(w) = SubSeq(w, m + 1, Len(w))
  BY DEF Retired, done, waits
<1> HIDE DEF m
<1>7. /\ Retired(w) \in Seq(Slot)
      /\ Len(Retired(w)) = Len(w) - m
      /\ \A i \in 1 .. Len(w) - m : Retired(w)[i] = w[m + i]
  BY <1>5, <1>6
<1>8. DOMAIN Retired(w) = 1 .. Len(w) - m /\ DOMAIN w = 1 .. Len(w)
  BY <1>7
<1>9. \A i \in 1 .. Len(w) - m : m + i \in 1 .. Len(w)
  BY <1>5
<1>10. Len(w) - m <= Len(w)
  BY <1>5
<1> QED BY <1>7, <1>8, <1>9, <1>10

\* What a core has in its window after retiring and inserting its bubbles.
LEMMA FilledIs ==
  ASSUME CoreTyped, NEW c \in Cores
  PROVE  /\ Inserted(c) \in 0 .. pending[c].bubbles
         /\ Filled(c) \in Seq(Slot)
         /\ Len(Filled(c)) <= Depth
         /\ \A i \in DOMAIN Filled(c) :
              Filled(c)[i].ready \/ \E k \in DOMAIN window[c] : Filled(c)[i] = window[c][k]
<1> DEFINE w == Retired(window[c])
           b == pending[c].bubbles
           room == Depth - Len(w)
           n == Inserted(c)
           bubble == [ready |-> TRUE, addr |-> NoAddr]
           more == [i \in 1 .. n |-> bubble]
<1>1. /\ w \in Seq(Slot) /\ Len(w) \in Nat /\ Len(w) <= Depth
      /\ \A i \in DOMAIN w : \E k \in DOMAIN window[c] : w[i] = window[c][k]
  <2>1. window[c] \in Seq(Slot) /\ Len(window[c]) \in Nat /\ Len(window[c]) <= Depth
    BY DEF CoreTyped
  <2>2. /\ w \in Seq(Slot) /\ Len(w) <= Len(window[c])
        /\ \A i \in DOMAIN w : \E k \in DOMAIN window[c] : w[i] = window[c][k]
    BY <2>1, RetiredIs
  <2> HIDE DEF w
  <2>3. Len(w) \in Nat
    BY <2>2
  <2> QED BY <2>1, <2>2, <2>3, FrontEndAssumption
<1>2. b \in Nat
  BY DEF CoreTyped, Pending
<1>3. Ipc \in Nat /\ Depth \in Nat
  BY FrontEndAssumption
<1> HIDE DEF w, b
<1>4. room \in Nat
  BY <1>1, <1>3
<1>5. n = Min({b, Ipc, room})
  BY DEF Inserted, w, b
<1> HIDE DEF room, n
<1>6. n \in {b, Ipc, room} /\ n <= b /\ n <= room
  <2>1. \E x \in {b, Ipc, room} : \A y \in {b, Ipc, room} : x <= y
    BY <1>2, <1>3, <1>4
  <2> QED BY <1>5, <2>1 DEF Min
<1>7. n \in Nat /\ n \in 0 .. b
  BY <1>2, <1>3, <1>4, <1>6
<1>8. bubble \in Slot /\ bubble.ready
  BY DEF Slot
<1> HIDE DEF bubble
<1>9. more \in Seq(Slot) /\ Len(more) = n /\ \A i \in 1 .. n : more[i] = bubble
  BY <1>7, <1>8
<1>10. Filled(c) = w \o more
  BY DEF Filled, w, n, bubble
<1> HIDE DEF more
<1>11. /\ w \o more \in Seq(Slot)
       /\ Len(w \o more) = Len(w) + Len(more)
       /\ \A i \in 1 .. Len(w) : (w \o more)[i] = w[i]
       /\ \A i \in 1 .. Len(more) : (w \o more)[Len(w) + i] = more[i]
  <2>1. w \in Seq(Slot) /\ more \in Seq(Slot)
    BY <1>1, <1>9
  <2> QED BY <2>1, ConcatIs
<1> DEFINE u == w \o more
<1> HIDE DEF u
<1>12. /\ u \in Seq(Slot) /\ Len(u) = Len(w) + n /\ DOMAIN u = 1 .. Len(w) + n
       /\ \A i \in 1 .. Len(w) : u[i] = w[i]
       /\ \A i \in 1 .. n : u[Len(w) + i] = bubble
  <2>1. Len(u) = Len(w) + n /\ u \in Seq(Slot)
    BY <1>9, <1>11 DEF u
  <2>2. DOMAIN u = 1 .. Len(w) + n
    BY <2>1
  <2> QED BY <1>9, <1>11, <2>1, <2>2 DEF u
<1>13. Len(u) <= Depth
  BY <1>1, <1>3, <1>6, <1>7, <1>12 DEF room
<1>14. ASSUME NEW i \in DOMAIN u
       PROVE  u[i].ready \/ \E k \in DOMAIN window[c] : u[i] = window[c][k]
  <2>1. CASE i <= Len(w)
    <3>1. i \in 1 .. Len(w) /\ DOMAIN w = 1 .. Len(w)
      BY <1>1, <1>12, <2>1
    <3> QED BY <1>1, <1>12, <3>1
  <2>2. CASE ~(i <= Len(w))
    <3>1. i - Len(w) \in 1 .. n /\ i = Len(w) + (i - Len(w))
      BY <1>1, <1>7, <1>12, <2>2
    <3>2. u[i] = bubble
      BY <1>12, <3>1
    <3> QED BY <1>8, <3>2
  <2> QED BY <2>1, <2>2
<1>15. Filled(c) = u
  BY <1>10 DEF u
<1> QED BY <1>7, <1>12, <1>13, <1>14, <1>15 DEF n, b

LEMMA WokenIs ==
  ASSUME NEW w \in Seq(Slot), NEW addresses
  PROVE  /\ set_ready(w, addresses) \in Seq(Slot)
         /\ Len(set_ready(w, addresses)) = Len(w)
         /\ DOMAIN set_ready(w, addresses) = DOMAIN w
         /\ \A i \in DOMAIN w :
              /\ set_ready(w, addresses)[i].addr = w[i].addr
              /\ set_ready(w, addresses)[i].ready <=> w[i].ready \/ w[i].addr \in addresses
<1> DEFINE e(i) == [ready |-> w[i].ready \/ w[i].addr \in addresses, addr |-> w[i].addr]
           u == [i \in 1 .. Len(w) |-> e(i)]
<1>1. DOMAIN w = 1 .. Len(w) /\ Len(w) \in Nat /\ \A i \in 1 .. Len(w) : w[i] \in Slot
  OBVIOUS
<1>2. \A i \in 1 .. Len(w) : /\ [w[i] EXCEPT !.ready = @ \/ w[i].addr \in addresses] = e(i)
                             /\ e(i) \in Slot
  BY <1>1 DEF Slot
<1>3. set_ready(w, addresses) = u
  BY <1>1, <1>2 DEF set_ready
<1>4. \A i \in 1 .. Len(w) : e(i).addr = w[i].addr /\ (e(i).ready <=> w[i].ready \/ w[i].addr \in addresses)
  BY <1>1 DEF Slot
<1> HIDE DEF e
<1>5. u \in Seq(Slot) /\ Len(u) = Len(w) /\ DOMAIN u = 1 .. Len(w) /\ \A i \in 1 .. Len(w) : u[i] = e(i)
  BY <1>1, <1>2
<1> HIDE DEF u
<1> QED BY <1>1, <1>3, <1>4, <1>5

LEMMA SlotAppended ==
  ASSUME CoreTyped, NEW c \in Cores, NEW addr \in Addrs, Len(Filled(c)) < Depth
  PROVE  LET u == Append(Filled(c), [ready |-> FALSE, addr |-> addr]) IN
         /\ u \in Seq(Slot)
         /\ Len(u) <= Depth
         /\ \A i \in DOMAIN u :
              \/ u[i].ready \/ u[i].addr = addr
              \/ \E k \in DOMAIN window[c] : u[i] = window[c][k]
<1> DEFINE w == Filled(c)
           slot == [ready |-> FALSE, addr |-> addr]
           u == Append(w, slot)
<1>1. /\ w \in Seq(Slot) /\ Len(w) \in Nat /\ DOMAIN w = 1 .. Len(w)
      /\ \A i \in DOMAIN w : w[i].ready \/ \E k \in DOMAIN window[c] : w[i] = window[c][k]
  BY FilledIs
<1>2. slot \in Slot /\ slot.addr = addr
  BY DEF Slot
<1>3. Len(w) < Depth /\ Depth \in Nat
  BY FrontEndAssumption
<1> HIDE DEF w, slot
<1>4. /\ u \in Seq(Slot) /\ Len(u) = Len(w) + 1
      /\ u[Len(w) + 1] = slot /\ \A j \in 1 .. Len(w) : u[j] = w[j]
  <2>1. w \in Seq(Slot) /\ slot \in Slot
    BY <1>1, <1>2
  <2> QED BY <2>1, AppendIs
<1> HIDE DEF u
<1>5. DOMAIN u = 1 .. Len(w) + 1
  BY <1>4
<1>6. ASSUME NEW i \in DOMAIN u
      PROVE  \/ u[i].ready \/ u[i].addr = addr
             \/ \E k \in DOMAIN window[c] : u[i] = window[c][k]
  <2>1. CASE i = Len(w) + 1
    BY <2>1, <1>2, <1>4
  <2>2. CASE i # Len(w) + 1
    <3>1. i \in 1 .. Len(w)
      BY <1>1, <1>5, <2>2
    <3> QED BY <1>1, <1>4, <3>1
  <2> QED BY <2>1, <2>2
<1>7. Len(u) <= Depth
  BY <1>1, <1>3, <1>4
<1> QED BY <1>4, <1>6, <1>7 DEF u, w, slot

\* What a core's turn leaves of the line of the trace it is at.
LEMMA PendingIs ==
  ASSUME CoreTyped, NEW c \in Cores
  PROVE  /\ AfterBubbles(c) \in [Cores -> Pending]
         /\ [AfterBubbles(c) EXCEPT ![c].load = NoAddr] \in [Cores -> Pending]
         /\ trace[c][at[c]] \in Pending
<1>1. pending \in [Cores -> Pending] /\ pending[c] \in Pending
  BY DEF CoreTyped
<1>2. pending[c].bubbles - Inserted(c) \in Nat
  <2>1. Inserted(c) \in 0 .. pending[c].bubbles /\ pending[c].bubbles \in Nat
    BY <1>1, FilledIs DEF Pending
  <2> QED BY <2>1
<1> DEFINE k == pending[c].bubbles - Inserted(c)
           p == [pending[c] EXCEPT !.bubbles = k]
<1>3. p \in Pending /\ [p EXCEPT !.load = NoAddr] \in Pending
  <2> HIDE DEF k
  <2>1. k \in Nat
    BY <1>2 DEF k
  <2> QED BY <1>1, <2>1 DEF Pending
<1>4. AfterBubbles(c) = [pending EXCEPT ![c] = p]
  BY <1>1 DEF AfterBubbles
<1> HIDE DEF p
<1>5. AfterBubbles(c) \in [Cores -> Pending] /\ AfterBubbles(c)[c] = p
  BY <1>1, <1>3, <1>4
<1>6. [AfterBubbles(c) EXCEPT ![c].load = NoAddr] \in [Cores -> Pending]
  BY <1>3, <1>5
<1>7. trace[c][at[c]] \in Pending
  <2>1. trace[c] \in Seq(Inst) /\ at[c] \in 1 .. Len(trace[c])
    BY DEF CoreTyped
  <2>2. trace[c][at[c]] \in Inst
    BY <2>1
  <2> QED BY <2>2 DEF Inst, Pending
<1> QED BY <1>5, <1>6, <1>7

-----------------------------------------------------------------------------
(* Lines and stores, through every step.                                   *)

StoreInv == /\ CacheInv
            /\ miss_list \in Seq(MissEntry)
            /\ CoreTyped
            /\ StoresKept

LEMMA AcceptKeeps ==
  ASSUME CacheInv, miss_list \in Seq(MissEntry), StoresKept, NEW req \in Request, Accept(req)
  PROVE  CacheInv' /\ miss_list' \in Seq(MissEntry) /\ StoresKept'
<1>1. \A l \in Stored(req) : req.write /\ l = align[req.addr]
  BY DEF Stored
<1>2. /\ CacheInv' /\ miss_list' \in Seq(MissEntry)
      /\ unsaved' = unsaved \cup Stored(req)
      /\ \A l : DirtyIn(cache, l) => DirtyIn(cache', l) \/ WritebackIn(miss_list', l)
      /\ \A l : WritebackIn(miss_list, l) => WritebackIn(miss_list', l)
      /\ req.write => DirtyIn(cache', align[req.addr])
  <2>1. CASE Hit(req)
    <3>1. UNCHANGED miss_list /\ unsaved' = unsaved \cup Stored(req)
      BY <2>1 DEF Hit
    <3> QED BY <2>1, <3>1, HitKeeps
  <2>2. CASE Merge(req)
    <3>1. UNCHANGED miss_list /\ unsaved' = unsaved \cup Stored(req)
      BY <2>2 DEF Merge
    <3> QED BY <2>2, <3>1, MergeKeeps
  <2>3. CASE Allocate(req)
    <3>1. unsaved' = unsaved \cup Stored(req)
      BY <2>3 DEF Allocate
    <3> QED BY <2>3, <3>1, AllocateKeeps
  <2> QED BY <2>1, <2>2, <2>3 DEF Accept
<1> QED BY <1>1, <1>2 DEF StoresKept

LEMMA ReceiveKeepsStores ==
  ASSUME CacheInv, miss_list \in Seq(MissEntry), StoresKept,
         NEW addr \in Addrs, NEW source, NEW waiting, Receive(addr, source, waiting)
  PROVE  CacheInv' /\ miss_list' \in Seq(MissEntry) /\ StoresKept'
<1>1. UNCHANGED unsaved
  BY DEF Receive
<1>2. /\ CacheInv' /\ miss_list' \in Seq(MissEntry)
      /\ \A l : DirtyIn(cache, l) => DirtyIn(cache', l) \/ WritebackIn(miss_list', l)
      /\ \A l : WritebackIn(miss_list, l) => WritebackIn(miss_list', l)
  BY ReceiveKeeps
<1> QED BY <1>1, <1>2 DEF StoresKept

LEMMA RequestsTyped ==
  ASSUME CoreTyped, NEW c \in Cores
  PROVE  /\ LoadMayIssue(c) => LoadOf(c) \in Request /\ pending[c].load \in Addrs
         /\ StoreMayIssue(c) => StoreOf(c) \in Request
<1>1. pending[c].load \in Addrs \cup {NoAddr} /\ pending[c].store \in Addrs \cup {NoAddr}
  BY DEF CoreTyped, Pending
<1> QED BY <1>1 DEF LoadMayIssue, StoreMayIssue, LoadOf, StoreOf, Request

LEMMA NextInstTyped ==
  ASSUME CoreTyped, NEW c \in Cores, GetNextInst(c), UNCHANGED trace
  PROVE  /\ pending' \in [Cores -> Pending]
         /\ at' \in [Cores -> Nat]
         /\ \A d \in Cores : at'[d] \in 1 .. Len(trace'[d])
<1>1. trace[c][at[c]] \in Pending
  BY PendingIs
<1>2. pending' \in [Cores -> Pending]
  BY <1>1 DEF GetNextInst, CoreTyped
<1>3. trace \in [Cores -> Seq(Inst) \ {<<>>}] /\ at \in [Cores -> Nat]
  BY DEF CoreTyped
<1>4. Following(c, at[c]) \in 1 .. Len(trace[c])
  BY <1>3, FollowingIs
<1>5. at' = [at EXCEPT ![c] = Following(c, at[c])]
  BY DEF GetNextInst
<1>6. at' \in [Cores -> Nat] /\ at'[c] = Following(c, at[c])
      /\ \A d \in Cores : d # c => at'[d] = at[d]
  BY <1>3, <1>4, <1>5
<1> QED BY <1>2, <1>4, <1>6 DEF CoreTyped

LEMMA WindowTyped ==
  ASSUME CoreTyped, NEW c \in Cores, NEW w \in Seq(Slot), Len(w) <= Depth,
         window' = [window EXCEPT ![c] = w]
  PROVE  /\ window' \in [Cores -> Seq(Slot)]
         /\ \A d \in Cores : Len(window'[d]) <= Depth
BY DEF CoreTyped

LEMMA WakeTyped ==
  ASSUME CoreTyped, NEW waiting, Wake(waiting)
  PROVE  /\ window' \in [Cores -> Seq(Slot)]
         /\ \A d \in Cores : Len(window'[d]) <= Depth
<1> DEFINE woken(c) == set_ready(window[c], {r.addr : r \in {x \in waiting : x.core = c}})
<1>1. window' = [c \in Cores |-> woken(c)]
  BY DEF Wake
<1>2. \A c \in Cores : woken(c) \in Seq(Slot) /\ Len(woken(c)) <= Depth
  <2> SUFFICES ASSUME NEW c \in Cores PROVE woken(c) \in Seq(Slot) /\ Len(woken(c)) <= Depth
    OBVIOUS
  <2>1. window[c] \in Seq(Slot) /\ Len(window[c]) <= Depth
    BY DEF CoreTyped
  <2> QED BY <2>1, WokenIs
<1> HIDE DEF woken
<1> QED BY <1>1, <1>2

LEMMA CoreWaitsKeeps ==
  ASSUME StoreInv, NEW c \in Cores, CoreWaits(c)
  PROVE  StoreInv'
<1>1. UNCHANGED cacheVars
  BY DEF CoreWaits, Refuse
<1>2. CacheInv' /\ miss_list' \in Seq(MissEntry) /\ StoresKept'
  BY <1>1 DEF StoreInv, CacheInv, StoresKept, cacheVars
<1>3. /\ window' \in [Cores -> Seq(Slot)]
      /\ \A d \in Cores : Len(window'[d]) <= Depth
  <2>1. window' = [window EXCEPT ![c] = Filled(c)]
    BY DEF CoreWaits
  <2> QED BY <2>1, FilledIs, WindowTyped DEF StoreInv
<1>4. pending' \in [Cores -> Pending]
  BY PendingIs DEF StoreInv, CoreWaits
<1>5. CoreTyped'
  BY <1>3, <1>4 DEF StoreInv, CoreTyped, CoreWaits
<1> QED BY <1>2, <1>5 DEF StoreInv

LEMMA CoreLoadsKeeps ==
  ASSUME StoreInv, NEW c \in Cores, CoreLoads(c)
  PROVE  StoreInv'
<1>1. CoreTyped /\ LoadMayIssue(c)
  BY DEF StoreInv, CoreLoads
<1>2. LoadOf(c) \in Request /\ pending[c].load \in Addrs
  BY <1>1, RequestsTyped
<1>3. CacheInv' /\ miss_list' \in Seq(MissEntry) /\ StoresKept'
  BY <1>2, AcceptKeeps DEF StoreInv, CoreLoads
<1>4. /\ window' \in [Cores -> Seq(Slot)]
      /\ \A d \in Cores : Len(window'[d]) <= Depth
  <2> DEFINE u == Append(Filled(c), [ready |-> FALSE, addr |-> pending[c].load])
  <2>1. Len(Filled(c)) < Depth
    BY <1>1 DEF LoadMayIssue
  <2>2. u \in Seq(Slot) /\ Len(u) <= Depth
    BY <1>1, <1>2, <2>1, SlotAppended
  <2>3. window' = [window EXCEPT ![c] = u]
    BY DEF CoreLoads
  <2> HIDE DEF u
  <2> QED BY <1>1, <2>2, <2>3, WindowTyped
<1>5. trace' = trace
  BY DEF CoreLoads
<1>6. /\ pending' \in [Cores -> Pending]
      /\ at' \in [Cores -> Nat]
      /\ \A d \in Cores : at'[d] \in 1 .. Len(trace'[d])
  <2>1. CASE pending[c].store # NoAddr
    BY <1>1, <1>5, <2>1, PendingIs DEF CoreLoads, CoreTyped
  <2>2. CASE ~(pending[c].store # NoAddr)
    <3>1. GetNextInst(c)
      BY <2>2 DEF CoreLoads
    <3> QED BY <1>1, <1>5, <3>1, NextInstTyped
  <2> QED BY <2>1, <2>2
<1>7. CoreTyped'
  BY <1>1, <1>4, <1>5, <1>6 DEF CoreTyped
<1> QED BY <1>3, <1>7 DEF StoreInv

LEMMA CoreStoresKeeps ==
  ASSUME StoreInv, NEW c \in Cores, CoreStores(c)
  PROVE  StoreInv'
<1>1. CoreTyped /\ StoreMayIssue(c) /\ trace' = trace /\ GetNextInst(c)
  BY DEF StoreInv, CoreStores
<1>2. StoreOf(c) \in Request
  BY <1>1, RequestsTyped
<1>3. CacheInv' /\ miss_list' \in Seq(MissEntry) /\ StoresKept'
  BY <1>2, AcceptKeeps DEF StoreInv, CoreStores
<1>4. /\ window' \in [Cores -> Seq(Slot)]
      /\ \A d \in Cores : Len(window'[d]) <= Depth
  <2>1. window' = [window EXCEPT ![c] = Filled(c)]
    BY DEF CoreStores
  <2> QED BY <1>1, <2>1, FilledIs, WindowTyped
<1>5. /\ pending' \in [Cores -> Pending]
      /\ at' \in [Cores -> Nat]
      /\ \A d \in Cores : at'[d] \in 1 .. Len(trace'[d])
  BY <1>1, NextInstTyped
<1>6. CoreTyped'
  BY <1>1, <1>4, <1>5 DEF CoreTyped
<1> QED BY <1>3, <1>6 DEF StoreInv

LEMMA StoreInvInit == Init => StoreInv
<1> SUFFICES ASSUME Init PROVE StoreInv
  OBVIOUS
<1>1. cache \in SavedCaches /\ mshrs = {} /\ miss_list = <<>>
      /\ unsaved = {l \in Lines : DirtyIn(cache, l)}
  BY DEF Init, CacheInit
<1>2. /\ cache \in [Indices -> Seq([addr : Addrs, dirty : BOOLEAN, ready : {TRUE}])]
      /\ \A ix \in Indices :
           /\ Len(cache[ix]) <= Associativity
           /\ \A i \in DOMAIN cache[ix] : get_index[cache[ix][i].addr] = ix
           /\ \A i, j \in DOMAIN cache[ix] : SameTag(cache[ix][i], cache[ix][j].addr) => i = j
  BY <1>1, SavedAssumption
<1>3. ASSUME NEW ix \in Indices PROVE SetInv(ix, cache[ix], mshrs)
  <2> DEFINE set == cache[ix]
             saved == [addr : Addrs, dirty : BOOLEAN, ready : {TRUE}]
  <2>1. /\ set \in Seq(saved)
        /\ DOMAIN set = 1 .. Len(set) /\ Len(set) \in Nat
        /\ \A i \in 1 .. Len(set) : set[i] \in saved
    <3>1. set \in Seq(saved)
      BY <1>2
    <3> HIDE DEF set, saved
    <3> QED BY <3>1
  <2>2. /\ Len(set) <= Associativity
        /\ \A i \in DOMAIN set : get_index[set[i].addr] = ix
        /\ \A i, j \in DOMAIN set : SameTag(set[i], set[j].addr) => i = j
    BY <1>2
  <2> HIDE DEF set
  <2>3. \A i \in 1 .. Len(set) : set[i] \in Line /\ set[i].ready
    BY <2>1 DEF Line
  <2>4. set \in Seq(Line)
    BY <2>1, <2>3
  <2>5. \A i \in 1 .. Len(set) : ~set[i].ready <=> Awaited(set[i].addr, mshrs)
    BY <1>1, <2>3 DEF Awaited
  <2>6. SetInv(ix, set, mshrs)
    BY <2>1, <2>2, <2>4, <2>5 DEF SetInv
  <2> QED BY <2>6 DEF set
<1>4. CacheInv
  <2>1. cache \in [Indices -> Seq(Line)]
    BY <1>2, <1>3 DEF SetInv
  <2>2. IsFiniteSet(mshrs) /\ Cardinality(mshrs) = 0
    BY <1>1, FS_EmptySet
  <2> QED BY <1>1, <1>3, <2>1, <2>2, SizesAssumption DEF CacheInv
<1>5. StoresKept
  BY <1>1 DEF StoresKept
<1>6. CoreTyped
  <2>1. trace \in Traces /\ trace \in [Cores -> Seq(Inst) \ {<<>>}]
    BY FrontEndAssumption DEF Init
  <2>2. \A c \in Cores : trace[c] \in Seq(Inst) /\ Len(trace[c]) \in Nat /\ Len(trace[c]) > 0
    BY <2>1
  <2>3. \A c \in Cores : trace[c][1] \in Inst
    BY <2>2
  <2>4. pending \in [Cores -> Pending]
    BY <2>3 DEF Init, Inst, Pending
  <2>5. \A c \in Cores : Following(c, 1) \in 1 .. Len(trace[c])
    BY <2>1, FollowingIs
  <2>6. at = [c \in Cores |-> Following(c, 1)]
    BY DEF Init
  <2>7. at \in [Cores -> Nat] /\ \A c \in Cores : at[c] \in 1 .. Len(trace[c])
    BY <2>2, <2>5, <2>6
  <2>8. window \in [Cores -> Seq(Slot)] /\ \A c \in Cores : Len(window[c]) <= Depth
    BY FrontEndAssumption DEF Init
  <2> QED BY <2>1, <2>4, <2>7, <2>8 DEF CoreTyped
<1> QED BY <1>1, <1>4, <1>5, <1>6 DEF StoreInv

LEMMA StoreInvStep ==
  ASSUME StoreInv, [Next]_vars
  PROVE  StoreInv'
<1>1. ASSUME NEW c \in Cores, CoreWaits(c) PROVE StoreInv'
  BY <1>1, CoreWaitsKeeps
<1>2. ASSUME NEW c \in Cores, CoreLoads(c) PROVE StoreInv'
  BY <1>2, CoreLoadsKeeps
<1>3. ASSUME NEW c \in Cores, CoreStores(c) PROVE StoreInv'
  BY <1>3, CoreStoresKeeps
<1>4. CASE CacheTick
  <2>1. SendMisses /\ UNCHANGED <<trace, at, pending, window>>
    BY <1>4 DEF CacheTick
  <2> QED BY <2>1, SendKeeps DEF StoreInv, CoreTyped
<1>5. CASE CacheCallsBack
  <2>1. PICK h \in HitEntry : CallBack(h) /\ Wake({[addr |-> h.addr, core |-> h.core]})
    BY <1>5 DEF CacheCallsBack
  <2>2. h.addr \in Addrs
    BY DEF HitEntry
  <2>3. CacheInv' /\ miss_list' \in Seq(MissEntry) /\ StoresKept'
    <3>1. Receive(h.addr, h.core, {[addr |-> h.addr, core |-> h.core]})
      BY <2>1 DEF CallBack
    <3> QED BY <2>2, <3>1, ReceiveKeepsStores DEF StoreInv
  <2>4. /\ window' \in [Cores -> Seq(Slot)]
        /\ \A d \in Cores : Len(window'[d]) <= Depth
    BY <2>1, WakeTyped DEF StoreInv
  <2>5. UNCHANGED <<trace, at, pending>>
    BY <1>5 DEF CacheCallsBack
  <2> QED BY <2>3, <2>4, <2>5 DEF StoreInv, CoreTyped
<1>6. CASE CacheTicked
  BY <1>6 DEF StoreInv, CacheInv, StoresKept, CoreTyped, CacheTicked, cacheVars
<1>7. CASE MemoryAnswers
  <2>1. PICK r \in Waiter : Answer(r) /\ Wake(receive_requests[r.addr])
    BY <1>7 DEF MemoryAnswers
  <2>2. r.addr \in Addrs
    BY DEF Waiter
  <2>3. CacheInv' /\ miss_list' \in Seq(MissEntry) /\ StoresKept'
    <3>1. Receive(r.addr, r.core, receive_requests[r.addr])
      BY <2>1 DEF Answer
    <3> QED BY <2>2, <3>1, ReceiveKeepsStores DEF StoreInv
  <2>4. /\ window' \in [Cores -> Seq(Slot)]
        /\ \A d \in Cores : Len(window'[d]) <= Depth
    BY <2>1, WakeTyped DEF StoreInv
  <2>5. UNCHANGED <<trace, at, pending>>
    BY <1>7 DEF MemoryAnswers
  <2> QED BY <2>3, <2>4, <2>5 DEF StoreInv, CoreTyped
<1>8. CASE Throttle
  <2>1. UNCHANGED <<cache, mshrs, miss_list, unsaved, trace, at, pending, window>>
    BY <1>8 DEF Throttle, Blacklist, coreVars
  <2> QED BY <2>1 DEF StoreInv, CacheInv, StoresKept, CoreTyped
<1>9. CASE UNCHANGED vars
  BY <1>9 DEF StoreInv, CacheInv, StoresKept, CoreTyped, vars, cacheVars, coreVars
<1> QED BY <1>1, <1>2, <1>3, <1>4, <1>5, <1>6, <1>7, <1>8, <1>9 DEF Next

\* Every reachable state has sets and MSHRs that agree, typed cores whose
\* windows hold at most Depth instructions, and no lost store.
THEOREM FrontEndInvariant == Spec => []StoreInv
BY StoreInvInit, StoreInvStep, PTL DEF Spec

\* The lines that are not ready are those the MSHRs wait for, one to one: no
\* set overflows or holds a tag twice, and need_eviction always finds its case.
THEOREM MshrsAreMatched == Spec => []MshrsMatchLines
<1>1. StoreInv => MshrsMatchLines
  BY CacheInvIsMatch DEF StoreInv
<1> QED BY <1>1, FrontEndInvariant, PTL

\* A store the cache has accepted is in a dirty line or in a write-back until
\* the memory has it.
THEOREM StoresAreKept == Spec => []StoresKept
<1>1. StoreInv => StoresKept
  BY DEF StoreInv
<1> QED BY <1>1, FrontEndInvariant, PTL

-----------------------------------------------------------------------------
(* The reads of the misses.                                                *)

Reads(a, c) == ReadsOf(miss_list, [addr |-> a, core |-> c])
Held(a, c) == memory[[addr |-> a, core |-> c]]

\* The core has no read of the address out, or exactly one.
Quiet(a, c) == Reads(a, c) = {} /\ Held(a, c) = 0
Sole(a, c) == \/ (\E k : Reads(a, c) = {k}) /\ Held(a, c) = 0
              \/ Reads(a, c) = {} /\ Held(a, c) = 1

ReadInv ==
  /\ \A a \in Addrs : a \in mshrs \/ \A c \in Cores : Quiet(a, c)
  /\ \A a \in mshrs : \E c \in Cores : Sole(a, c) /\ \A d \in Cores \ {c} : Quiet(a, d)
  /\ \A c \in Cores : allocated[c] = Cardinality({a \in mshrs : Sole(a, c)})

LEMMA NotBoth == ASSUME NEW a, NEW c, Sole(a, c) PROVE ~Quiet(a, c)
BY DEF Sole, Quiet

LEMMA EitherIs ==
  ASSUME ReadInv, NEW a \in Addrs, NEW c \in Cores
  PROVE  /\ a \notin mshrs => Quiet(a, c)
         /\ Sole(a, c) \/ Quiet(a, c)
BY DEF ReadInv

LEMMA OutstandingIs ==
  ASSUME NEW a, NEW c
  PROVE  /\ Quiet(a, c) => Outstanding(a, c) = 0
         /\ Sole(a, c) => Outstanding(a, c) = 1
<1>1. Outstanding(a, c) = Cardinality(Reads(a, c)) + Held(a, c)
  BY DEF Outstanding, Reads, Held
<1>2. Cardinality({}) = 0 /\ \A k : Cardinality({k}) = 1
  BY FS_EmptySet, FS_Singleton
<1> QED BY <1>1, <1>2 DEF Quiet, Sole

\* The sums of the invariant count: an MSHR has one read, a core its MSHRs.
LEMMA SumOverCores ==
  ASSUME ReadInv, NEW a \in Addrs
  PROVE  MapThenSumSet(LAMBDA c : Outstanding(a, c), Cores) = IF a \in mshrs THEN 1 ELSE 0
<1> DEFINE g == [c \in Cores |-> Outstanding(a, c)]
           Fix(f) == [s \in SUBSET Cores |->
                        IF s = {} THEN 0 ELSE Outstanding(a, AnyOf(s)) + f[s \ {AnyOf(s)}]]
           sum == CHOOSE f : f = Fix(f)
           F == [s \in SUBSET Cores |-> Cardinality(Ones(s, g))]
<1>1. MapThenSumSet(LAMBDA c : Outstanding(a, c), Cores) = sum[Cores]
  BY DEF MapThenSumSet, MapThenFoldSet, AnyOf
<1>2. \A c \in Cores : g[c] = Outstanding(a, c) /\ g[c] \in {0, 1}
  BY EitherIs, OutstandingIs
<1> HIDE DEF g
<1>3. IsFiniteSet(Cores)
  BY FS_Interval, SizesAssumption DEF Cores
<1>4. \A s \in SUBSET Cores : s # {} => g[AnyOf(s)] = Outstanding(a, AnyOf(s))
  BY <1>2, AnyOfIs
<1>5. Sums(Cores, g, F)
  BY <1>2, <1>3, BitsCounted
<1>6. F = Fix(F)
  <2>1. \A s \in SUBSET Cores : F[s] = Fix(F)[s]
    <3> SUFFICES ASSUME NEW s \in SUBSET Cores PROVE F[s] = Fix(F)[s]
      OBVIOUS
    <3>1. F[s] = IF s = {} THEN 0 ELSE g[AnyOf(s)] + F[s \ {AnyOf(s)}]
      <4> HIDE DEF F
      <4> QED BY <1>5 DEF Sums
    <3>2. F[s] = IF s = {} THEN 0 ELSE Outstanding(a, AnyOf(s)) + F[s \ {AnyOf(s)}]
      <4> HIDE DEF F
      <4> QED BY <1>4, <3>1
    <3> QED BY <3>2
  <2> QED BY <2>1
<1> HIDE DEF F
<1>7. sum = Fix(sum)
  <2> HIDE DEF Fix
  <2> QED BY <1>6
<1> HIDE DEF sum
<1>8. Sums(Cores, g, sum)
  <2>1. \A s \in SUBSET Cores : sum[s] = Fix(sum)[s]
    BY <1>7
  <2> QED BY <1>4, <2>1 DEF Sums
<1>9. sum[Cores] = Cardinality(Ones(Cores, g))
  BY <1>2, <1>3, <1>8, SumOfBits
<1>10. CASE a \in mshrs
  <2>1. PICK c \in Cores : Sole(a, c) /\ \A d \in Cores \ {c} : Quiet(a, d)
    BY <1>10 DEF ReadInv
  <2>2. Ones(Cores, g) = {c}
    BY <1>2, <2>1, OutstandingIs DEF Ones
  <2> QED BY <1>1, <1>9, <1>10, <2>2, FS_Singleton
<1>11. CASE a \notin mshrs
  <2>1. Ones(Cores, g) = {}
    BY <1>2, <1>11, EitherIs, OutstandingIs DEF Ones
  <2> QED BY <1>1, <1>9, <1>11, <2>1, FS_EmptySet
<1> QED BY <1>10, <1>11

LEMMA SumOverAddrs ==
  ASSUME ReadInv, mshrs \subseteq Addrs, NEW c \in Cores
  PROVE  MapThenSumSet(LAMBDA a : Outstanding(a, c), Addrs) = allocated[c]
<1> DEFINE g == [a \in Addrs |-> Outstanding(a, c)]
           Fix(f) == [s \in SUBSET Addrs |->
                        IF s = {} THEN 0 ELSE Outstanding(AnyOf(s), c) + f[s \ {AnyOf(s)}]]
           sum == CHOOSE f : f = Fix(f)
           F == [s \in SUBSET Addrs |-> Cardinality(Ones(s, g))]
<1>1. MapThenSumSet(LAMBDA a : Outstanding(a, c), Addrs) = sum[Addrs]
  BY DEF MapThenSumSet, MapThenFoldSet, AnyOf
<1>2. \A a \in Addrs : g[a] = Outstanding(a, c) /\ g[a] \in {0, 1}
  BY EitherIs, OutstandingIs
<1> HIDE DEF g
<1>3. IsFiniteSet(Addrs)
  BY SizesAssumption
<1>4. \A s \in SUBSET Addrs : s # {} => g[AnyOf(s)] = Outstanding(AnyOf(s), c)
  BY <1>2, AnyOfIs
<1>5. Sums(Addrs, g, F)
  BY <1>2, <1>3, BitsCounted
<1>6. F = Fix(F)
  <2>1. \A s \in SUBSET Addrs : F[s] = Fix(F)[s]
    <3> SUFFICES ASSUME NEW s \in SUBSET Addrs PROVE F[s] = Fix(F)[s]
      OBVIOUS
    <3>1. F[s] = IF s = {} THEN 0 ELSE g[AnyOf(s)] + F[s \ {AnyOf(s)}]
      <4> HIDE DEF F
      <4> QED BY <1>5 DEF Sums
    <3>2. F[s] = IF s = {} THEN 0 ELSE Outstanding(AnyOf(s), c) + F[s \ {AnyOf(s)}]
      <4> HIDE DEF F
      <4> QED BY <1>4, <3>1
    <3> QED BY <3>2
  <2> QED BY <2>1
<1> HIDE DEF F
<1>7. sum = Fix(sum)
  <2> HIDE DEF Fix
  <2> QED BY <1>6
<1> HIDE DEF sum
<1>8. Sums(Addrs, g, sum)
  <2>1. \A s \in SUBSET Addrs : sum[s] = Fix(sum)[s]
    BY <1>7
  <2> QED BY <1>4, <2>1 DEF Sums
<1>9. sum[Addrs] = Cardinality(Ones(Addrs, g))
  BY <1>2, <1>3, <1>8, SumOfBits
<1>10. Ones(Addrs, g) = {a \in mshrs : Sole(a, c)}
  <2>1. ASSUME NEW a \in Addrs PROVE g[a] = 1 <=> a \in mshrs /\ Sole(a, c)
    <3>1. CASE a \in mshrs /\ Sole(a, c)
      BY <1>2, <3>1, OutstandingIs
    <3>2. CASE ~(a \in mshrs /\ Sole(a, c))
      <4>1. Quiet(a, c)
        BY <3>2, EitherIs
      <4> QED BY <1>2, <3>2, <4>1, OutstandingIs
    <3> QED BY <3>1, <3>2
  <2> QED BY <2>1 DEF Ones
<1> QED BY <1>1, <1>9, <1>10 DEF ReadInv

\* The reads that are kept are at their new places.
LEMMA ReadsLeft ==
  ASSUME NEW list \in Seq(MissEntry), NEW kept, kept \subseteq DOMAIN list, NEW r
  PROVE  ReadsOf(Picked(list, kept), r) = {Place(kept, i) : i \in ReadsOf(list, r) \cap kept}
<1> DEFINE left == Picked(list, kept)
<1>1. /\ \A i \in kept : Place(kept, i) \in DOMAIN left /\ left[Place(kept, i)] = list[i]
      /\ \A j \in DOMAIN left : \E i \in kept : Place(kept, i) = j
  <2>1. left = Picked(list, kept)
    OBVIOUS
  <2> HIDE DEF left
  <2> QED BY <2>1, PickedIs
<1> HIDE DEF left
<1>2. ReadsOf(left, r) = {Place(kept, i) : i \in ReadsOf(list, r) \cap kept}
  BY <1>1 DEF ReadsOf
<1> QED BY <1>2 DEF left

\* The MSHRs and the quotas stay, and so does who has which read.
LEMMA ReadsUndisturbed ==
  ASSUME ReadInv, mshrs \subseteq Addrs, UNCHANGED <<mshrs, allocated>>,
         \A a \in Addrs, c \in Cores : (Sole(a, c) => Sole(a, c)') /\ (Quiet(a, c) => Quiet(a, c)')
  PROVE  ReadInv'
<1>1. \A a, c : Sole(a, c)' => ~Quiet(a, c)'
  BY DEF Sole, Quiet
<1>2. \A a \in mshrs, c \in Cores : Sole(a, c)' <=> Sole(a, c)
  BY <1>1, EitherIs
<1>3. \A c \in Cores : {a \in mshrs' : Sole(a, c)'} = {a \in mshrs : Sole(a, c)}
  BY <1>2
<1>4. \A a \in Addrs : a \in mshrs' \/ \A c \in Cores : Quiet(a, c)'
  BY DEF ReadInv
<1>5. \A a \in mshrs' : \E c \in Cores : Sole(a, c)' /\ \A d \in Cores \ {c} : Quiet(a, d)'
  BY DEF ReadInv
<1>6. \A c \in Cores : allocated'[c] = Cardinality({a \in mshrs' : Sole(a, c)'})
  BY <1>3 DEF ReadInv
<1> QED BY <1>4, <1>5, <1>6 DEF ReadInv

LEMMA SameReads ==
  ASSUME ReadInv, mshrs \subseteq Addrs, UNCHANGED <<mshrs, allocated, memory>>,
         \A r \in Waiter : ReadsOf(miss_list', r) = ReadsOf(miss_list, r)
  PROVE  ReadInv'
<1>1. \A a \in Addrs, c \in Cores : [addr |-> a, core |-> c] \in Waiter
  BY DEF Waiter
<1>2. \A a \in Addrs, c \in Cores : (Sole(a, c)' <=> Sole(a, c)) /\ (Quiet(a, c)' <=> Quiet(a, c))
  BY <1>1 DEF Sole, Quiet, Reads, Held
<1> QED BY <1>2, ReadsUndisturbed

ListsTyped ==
  /\ miss_list \in Seq(MissEntry)
  /\ hit_list \in Seq(HitEntry)
  /\ receive_requests \in [Addrs -> SUBSET Waiter]
  /\ memory \in [Waiter -> Nat]
  /\ allocated \in [Cores -> Int]
  /\ crossed \in BOOLEAN

LEMMA SendReads ==
  ASSUME ReadInv, ListsTyped, mshrs \subseteq Addrs, SendMisses
  PROVE  ReadInv'
<1> DEFINE aged == Aged(miss_list)
           due == {i \in DOMAIN aged : aged[i].wait = 0}
<1>1. PICK taken \in SUBSET due :
        /\ miss_list' = Without(aged, taken)
        /\ memory' = [r \in Waiter |-> memory[r] + Cardinality(ReadsOf(aged, r) \cap taken)]
        /\ UNCHANGED <<mshrs, allocated>>
  BY DEF SendMisses
<1>2. /\ aged \in Seq(MissEntry)
      /\ \A r : ReadsOf(aged, r) = ReadsOf(miss_list, r)
  <2>1. /\ aged \in Seq(MissEntry)
        /\ DOMAIN aged = DOMAIN miss_list
        /\ \A i \in DOMAIN miss_list : /\ aged[i].write = miss_list[i].write
                                       /\ aged[i].addr = miss_list[i].addr
                                       /\ aged[i].core = miss_list[i].core
    BY AgedIs DEF ListsTyped
  <2> HIDE DEF aged
  <2> QED BY <2>1 DEF ReadsOf
<1> HIDE DEF aged
<1> DEFINE kept == DOMAIN aged \ taken
<1>3. kept \subseteq DOMAIN aged /\ miss_list' = Picked(aged, kept)
  BY <1>1 DEF Without
<1>4. \A r : ReadsOf(miss_list, r) \subseteq DOMAIN aged
  BY <1>2 DEF ReadsOf
<1>5. \A r, i : i \in ReadsOf(miss_list, r) => (i \in kept <=> i \notin taken)
  BY <1>4
<1> HIDE DEF kept
<1>6. \A r : ReadsOf(miss_list', r) = {Place(kept, i) : i \in ReadsOf(miss_list, r) \cap kept}
  <2> SUFFICES ASSUME NEW r
               PROVE  ReadsOf(miss_list', r) = {Place(kept, i) : i \in ReadsOf(miss_list, r) \cap kept}
    OBVIOUS
  <2>1. ReadsOf(Picked(aged, kept), r) = {Place(kept, i) : i \in ReadsOf(aged, r) \cap kept}
    BY <1>2, <1>3, ReadsLeft
  <2> QED BY <1>2, <1>3, <2>1
<1>7. ASSUME NEW a \in Addrs, NEW c \in Cores
      PROVE  (Sole(a, c) => Sole(a, c)') /\ (Quiet(a, c) => Quiet(a, c)')
  <2> DEFINE r == [addr |-> a, core |-> c]
             old == ReadsOf(miss_list, r)
  <2>1. r \in Waiter
    BY DEF Waiter
  <2>2. memory'[r] = memory[r] + Cardinality(old \cap taken) /\ memory[r] \in Nat
    BY <1>1, <1>2, <2>1 DEF ListsTyped
  <2>3. /\ Sole(a, c) <=> ((\E k : old = {k}) /\ memory[r] = 0) \/ (old = {} /\ memory[r] = 1)
        /\ Quiet(a, c) <=> old = {} /\ memory[r] = 0
    BY DEF Sole, Quiet, Reads, Held
  <2>4. /\ Sole(a, c)' <=> \/ (\E k : ReadsOf(miss_list', r) = {k}) /\ memory'[r] = 0
                           \/ ReadsOf(miss_list', r) = {} /\ memory'[r] = 1
        /\ Quiet(a, c)' <=> ReadsOf(miss_list', r) = {} /\ memory'[r] = 0
    BY DEF Sole, Quiet, Reads, Held
  <2>5. ReadsOf(miss_list', r) = {Place(kept, i) : i \in old \cap kept}
    BY <1>6
  <2>6. \A i \in old : i \in kept <=> i \notin taken
    BY <1>5
  <2>7. Cardinality({}) = 0 /\ \A k : Cardinality({k}) = 1
    BY FS_EmptySet, FS_Singleton
  <2> HIDE DEF r, old
  <2>8. CASE old = {}
    <3>1. old \cap taken = {} /\ ReadsOf(miss_list', r) = {}
      BY <2>5, <2>8
    <3>2. memory'[r] = memory[r]
      <4>1. Cardinality(old \cap taken) = 0
        BY <2>7, <3>1
      <4> QED BY <2>2, <4>1
    <3>3. ~\E k : old = {k}
      BY <2>8
    <3> QED BY <2>3, <2>4, <2>8, <3>1, <3>2, <3>3
  <2>9. ASSUME NEW k, old = {k}, memory[r] = 0 PROVE Sole(a, c)'
    <3>1. CASE k \in taken
      <4>1. old \cap taken = {k} /\ old \cap kept = {}
        BY <2>6, <2>9, <3>1
      <4>2. Cardinality(old \cap taken) = 1
        BY <2>7, <4>1
      <4>3. memory'[r] = 1
        BY <2>2, <2>9, <4>2
      <4>4. ReadsOf(miss_list', r) = {}
        BY <2>5, <4>1
      <4> QED BY <2>4, <4>3, <4>4
    <3>2. CASE k \notin taken
      <4>1. old \cap taken = {} /\ old \cap kept = {k}
        BY <2>6, <2>9, <3>2
      <4>2. Cardinality(old \cap taken) = 0
        BY <2>7, <4>1
      <4>3. memory'[r] = 0
        BY <2>2, <2>9, <4>2
      <4>4. ReadsOf(miss_list', r) = {Place(kept, k)}
        BY <2>5, <4>1
      <4> QED BY <2>4, <4>3, <4>4
    <3> QED BY <3>1, <3>2
  <2> QED BY <2>3, <2>8, <2>9
<1> QED BY <1>1, <1>7, ReadsUndisturbed

LEMMA AllocateReads ==
  ASSUME ReadInv, ListsTyped, CacheInv, NEW req \in Request, Allocate(req)
  PROVE  ReadInv'
<1> DEFINE x == req.addr
           me == req.core
<1>1. x \in Addrs /\ me \in Cores
  BY DEF Request
<1>2. /\ mshrs' = mshrs \cup {x}
      /\ allocated' = [allocated EXCEPT ![me] = @ + 1]
      /\ UNCHANGED memory
  BY DEF Allocate
<1>3. x \notin mshrs
  BY AllocateKeeps DEF ListsTyped
<1>4. PICK n : \A r : ReadsOf(miss_list', r) = ReadsOf(miss_list, r)
                        \cup IF x = r.addr /\ me = r.core THEN {n} ELSE {}
  BY AllocateKeeps DEF ListsTyped
<1> HIDE DEF x, me
<1>5. ASSUME NEW a, NEW c, a # x \/ c # me
      PROVE  (Sole(a, c)' <=> Sole(a, c)) /\ (Quiet(a, c)' <=> Quiet(a, c))
  <2>1. ReadsOf(miss_list', [addr |-> a, core |-> c]) = ReadsOf(miss_list, [addr |-> a, core |-> c])
    BY <1>4, <1>5
  <2> QED BY <1>2, <2>1 DEF Sole, Quiet, Reads, Held
<1>6. \A c \in Cores : Quiet(x, c)
  BY <1>1, <1>3 DEF ReadInv
<1>7. Sole(x, me)'
  <2>1. ReadsOf(miss_list', [addr |-> x, core |-> me]) = ReadsOf(miss_list, [addr |-> x, core |-> me]) \cup {n}
    BY <1>4
  <2>2. ReadsOf(miss_list, [addr |-> x, core |-> me]) = {} /\ memory[[addr |-> x, core |-> me]] = 0
    BY <1>1, <1>6 DEF Quiet, Reads, Held
  <2>3. ReadsOf(miss_list', [addr |-> x, core |-> me]) = {n} /\ memory'[[addr |-> x, core |-> me]] = 0
    BY <1>2, <2>1, <2>2
  <2> QED BY <2>3 DEF Sole, Reads, Held
<1>8. \A a \in Addrs : a \in mshrs' \/ \A c \in Cores : Quiet(a, c)'
  BY <1>2, <1>5 DEF ReadInv
<1>9. ASSUME NEW a \in mshrs'
      PROVE  \E c \in Cores : Sole(a, c)' /\ \A d \in Cores \ {c} : Quiet(a, d)'
  <2>1. CASE a = x
    BY <2>1, <1>1, <1>5, <1>6, <1>7
  <2>2. CASE a # x
    <3>1. PICK c \in Cores : Sole(a, c) /\ \A d \in Cores \ {c} : Quiet(a, d)
      BY <1>2, <2>2 DEF ReadInv
    <3> QED BY <1>5, <2>2, <3>1
  <2> QED BY <2>1, <2>2
<1>10. ASSUME NEW c \in Cores PROVE allocated'[c] = Cardinality({a \in mshrs' : Sole(a, c)'})
  <2> DEFINE old == {a \in mshrs : Sole(a, c)}
             new == {a \in mshrs' : Sole(a, c)'}
  <2>1. allocated[c] = Cardinality(old) /\ allocated[c] \in Int
    BY DEF ReadInv, ListsTyped
  <2>2. IsFiniteSet(old) /\ x \notin old
    <3>1. old \subseteq mshrs
      OBVIOUS
    <3> QED BY <1>3, <3>1, FS_Subset DEF CacheInv
  <2>3. CASE c = me
    <3>1. new = old \cup {x}
      BY <1>2, <1>3, <1>5, <1>7, <2>3
    <3> HIDE DEF old, new
    <3>2. Cardinality(new) = Cardinality(old) + 1
      BY <2>2, <3>1, FS_AddElement
    <3>3. allocated'[c] = allocated[c] + 1
      BY <1>2, <2>3 DEF ListsTyped
    <3> QED BY <2>1, <3>2, <3>3 DEF new
  <2>4. CASE c # me
    <3>1. Quiet(x, c)'
      BY <1>5, <1>6, <2>4
    <3>2. ~Sole(x, c)'
      BY <3>1 DEF Sole, Quiet
    <3>3. new = old
      BY <1>2, <1>5, <2>4, <3>2
    <3>4. allocated'[c] = allocated[c]
      BY <1>2, <2>4 DEF ListsTyped
    <3> QED BY <2>1, <3>3, <3>4
  <2> QED BY <2>3, <2>4
<1> QED BY <1>8, <1>9, <1>10 DEF ReadInv

\* A hit called back while no MSHR waits for its line disturbs no read.
LEMMA CallBackReads ==
  ASSUME ReadInv, ListsTyped, CacheInv, NEW h \in HitEntry, CallBack(h), check_mshr_hit(h.addr) = {}
  PROVE  ReadInv'
<1>1. Receive(h.addr, h.core, {[addr |-> h.addr, core |-> h.core]}) /\ UNCHANGED memory
  BY DEF CallBack
<1>2. h.addr \in Addrs
  BY DEF HitEntry
<1>3. UNCHANGED <<mshrs, allocated>>
  BY <1>1 DEF Receive
<1>4. \A r : ReadsOf(miss_list', r) = ReadsOf(miss_list, r)
  BY <1>1, <1>2, ReceiveKeeps DEF ListsTyped
<1> QED BY <1>1, <1>3, <1>4, SameReads DEF CacheInv

\* The memory answers the one read of an MSHR, and that MSHR is freed.
LEMMA AnswerReads ==
  ASSUME ReadInv, ListsTyped, CacheInv, NEW r \in Waiter, Answer(r)
  PROVE  ReadInv' /\ r.addr \in mshrs /\ mshrs' = mshrs \ {r.addr}
<1> DEFINE x == r.addr
           me == r.core
<1>1. x \in Addrs /\ me \in Cores /\ r = [addr |-> x, core |-> me]
  BY DEF Waiter
<1>2. /\ memory[r] > 0
      /\ memory' = [memory EXCEPT ![r] = @ - 1]
      /\ Receive(x, me, receive_requests[x])
  BY DEF Answer
<1>3. \A q : ReadsOf(miss_list', q) = ReadsOf(miss_list, q)
  BY <1>1, <1>2, ReceiveKeeps DEF ListsTyped
<1> HIDE DEF x, me
<1>4. memory[r] = Held(x, me)
  BY <1>1 DEF Held
<1>5. ~Quiet(x, me)
  BY <1>2, <1>4 DEF Quiet
<1>6. x \in mshrs /\ Sole(x, me)
  BY <1>1, <1>5, EitherIs
<1>7. check_mshr_hit(x) = {x}
  BY <1>6 DEF CacheInv, check_mshr_hit
<1>8. mshrs' = mshrs \ {x} /\ allocated' = [allocated EXCEPT ![me] = @ - 1]
  BY <1>2, <1>7 DEF Receive
<1>9. Reads(x, me) = {} /\ Held(x, me) = 1
  BY <1>2, <1>4, <1>6 DEF Sole
<1>10. ASSUME NEW a \in Addrs, NEW c \in Cores, a # x \/ c # me
       PROVE  (Sole(a, c)' <=> Sole(a, c)) /\ (Quiet(a, c)' <=> Quiet(a, c))
  <2> DEFINE q == [addr |-> a, core |-> c]
  <2>1. q \in Waiter /\ q # r
    BY <1>1, <1>10 DEF Waiter
  <2>2. memory'[q] = memory[q]
    BY <1>2, <2>1 DEF ListsTyped
  <2> QED BY <1>3, <2>2 DEF Sole, Quiet, Reads, Held
<1>11. Quiet(x, me)'
  <2>1. ReadsOf(miss_list', [addr |-> x, core |-> me]) = {}
    BY <1>3, <1>9 DEF Reads
  <2>2. memory'[r] = 0
    BY <1>1, <1>2, <1>4, <1>9 DEF ListsTyped
  <2>3. memory'[[addr |-> x, core |-> me]] = 0
    BY <1>1, <2>2
  <2> QED BY <2>1, <2>3 DEF Quiet, Reads, Held
<1>12. \A d \in Cores \ {me} : Quiet(x, d)
  BY <1>1, <1>6, NotBoth DEF ReadInv
<1>13. ASSUME NEW a \in Addrs PROVE a \in mshrs' \/ \A c \in Cores : Quiet(a, c)'
  <2>1. CASE a = x
    BY <2>1, <1>10, <1>11, <1>12
  <2>2. CASE a # x
    BY <2>2, <1>8, <1>10 DEF ReadInv
  <2> QED BY <2>1, <2>2
<1>14. ASSUME NEW a \in mshrs'
       PROVE  \E c \in Cores : Sole(a, c)' /\ \A d \in Cores \ {c} : Quiet(a, d)'
  <2>1. a \in mshrs /\ a # x /\ a \in Addrs
    BY <1>8 DEF CacheInv
  <2>2. PICK c \in Cores : Sole(a, c) /\ \A d \in Cores \ {c} : Quiet(a, d)
    BY <2>1 DEF ReadInv
  <2> QED BY <1>10, <2>1, <2>2
<1>15. ASSUME NEW c \in Cores PROVE allocated'[c] = Cardinality({a \in mshrs' : Sole(a, c)'})
  <2> DEFINE old == {a \in mshrs : Sole(a, c)}
             new == {a \in mshrs' : Sole(a, c)'}
  <2>1. allocated[c] = Cardinality(old) /\ allocated[c] \in Int
    BY DEF ReadInv, ListsTyped
  <2>2. IsFiniteSet(old)
    <3>1. old \subseteq mshrs
      OBVIOUS
    <3> QED BY <3>1, FS_Subset DEF CacheInv
  <2>3. \A a \in mshrs : a # x => (Sole(a, c)' <=> Sole(a, c))
    BY <1>10 DEF CacheInv
  <2>4. CASE c = me
    <3>1. new = old \ {x} /\ x \in old
      BY <1>6, <1>8, <2>3, <2>4
    <3> HIDE DEF old, new
    <3>2. Cardinality(new) = Cardinality(old) - 1
      BY <2>2, <3>1, FS_RemoveElement
    <3>3. allocated'[c] = allocated[c] - 1
      BY <1>8, <2>4 DEF ListsTyped
    <3> QED BY <2>1, <3>2, <3>3 DEF new
  <2>5. CASE c # me
    <3>1. ~Sole(x, c)
      BY <1>12, <2>5, NotBoth
    <3>2. new = old
      BY <1>8, <2>3, <3>1
    <3>3. allocated'[c] = allocated[c]
      BY <1>8, <2>5 DEF ListsTyped
    <3> QED BY <2>1, <3>2, <3>3
  <2> QED BY <2>4, <2>5
<1> QED BY <1>6, <1>8, <1>13, <1>14, <1>15 DEF ReadInv, x

-----------------------------------------------------------------------------
(* The types of the lists of the cache.                                    *)

LEMMA AcceptTyped ==
  ASSUME ListsTyped, CacheInv, NEW req \in Request, Accept(req)
  PROVE  ListsTyped'
<1> DEFINE w == [addr |-> req.addr, core |-> req.core]
           h == [wait |-> Latency, addr |-> req.addr, core |-> req.core]
<1>1. req.addr \in Addrs /\ req.core \in Cores /\ w \in Waiter
  BY DEF Request, Waiter
<1>2. h \in HitEntry
  <2>1. Latency \in 0 .. Latency
    BY SizesAssumption
  <2> QED BY <1>1, <2>1 DEF HitEntry
<1> HIDE DEF w, h
<1>3. CASE Hit(req)
  <2>1. hit_list' = Append(hit_list, h)
    BY <1>3 DEF Hit, h
  <2>2. hit_list' \in Seq(HitEntry)
    BY <1>2, <2>1 DEF ListsTyped
  <2> QED BY <1>3, <2>2 DEF Hit, ListsTyped
<1>4. CASE Merge(req)
  <2>1. PICK a \in check_mshr_hit(req.addr) :
          receive_requests' = [receive_requests EXCEPT ![a] = @ \cup {w}]
    BY <1>4 DEF Merge, w
  <2>2. a \in Addrs
    BY DEF check_mshr_hit, CacheInv
  <2>3. receive_requests' \in [Addrs -> SUBSET Waiter]
    BY <1>1, <2>1, <2>2 DEF ListsTyped
  <2> QED BY <1>4, <2>3 DEF Merge, ListsTyped
<1>5. CASE Allocate(req)
  <2>1. receive_requests' = [receive_requests EXCEPT ![req.addr] = {w}]
    BY <1>5 DEF Allocate, w
  <2>2. receive_requests' \in [Addrs -> SUBSET Waiter]
    BY <1>1, <2>1 DEF ListsTyped
  <2>3. allocated' \in [Cores -> Int]
    <3>1. allocated' = [allocated EXCEPT ![req.core] = @ + 1]
      BY <1>5 DEF Allocate
    <3>2. \A c \in Cores : allocated[c] \in Int
      BY DEF ListsTyped
    <3> QED BY <1>1, <3>1, <3>2 DEF ListsTyped
  <2>4. miss_list' \in Seq(MissEntry)
    BY <1>5, AllocateKeeps DEF ListsTyped
  <2> QED BY <1>5, <2>2, <2>3, <2>4 DEF Allocate, ListsTyped
<1> QED BY <1>3, <1>4, <1>5 DEF Accept

LEMMA ReceiveTyped ==
  ASSUME ListsTyped, CacheInv, NEW addr \in Addrs, NEW source \in Cores, NEW waiting,
         Receive(addr, source, waiting)
  PROVE  /\ miss_list' \in Seq(MissEntry)
         /\ receive_requests' \in [Addrs -> SUBSET Waiter]
         /\ allocated' \in [Cores -> Int]
<1>1. miss_list' \in Seq(MissEntry)
  BY ReceiveKeeps DEF ListsTyped
<1>2. receive_requests' = [receive_requests EXCEPT ![addr] = {}]
  BY DEF Receive
<1>3. receive_requests' \in [Addrs -> SUBSET Waiter]
  BY <1>2 DEF ListsTyped
<1>4. allocated' = allocated \/ allocated' = [allocated EXCEPT ![source] = @ - 1]
  BY DEF Receive
<1>5. allocated' \in [Cores -> Int]
  BY <1>4 DEF ListsTyped
<1> QED BY <1>1, <1>3, <1>5

\* Waiting changes neither the address nor the core of a hit.
LEMMA AgedHits ==
  ASSUME NEW list \in Seq(HitEntry)
  PROVE  /\ Aged(list) \in Seq(HitEntry)
         /\ DOMAIN Aged(list) = DOMAIN list
         /\ \A i \in DOMAIN list : /\ Aged(list)[i].addr = list[i].addr
                                   /\ Aged(list)[i].core = list[i].core
<1>1. DOMAIN list = 1 .. Len(list) /\ Len(list) \in Nat /\ \A i \in 1 .. Len(list) : list[i] \in HitEntry
  OBVIOUS
<1>2. ASSUME NEW e \in HitEntry
      PROVE  /\ Ripe(e) \in HitEntry
             /\ Ripe(e).addr = e.addr /\ Ripe(e).core = e.core
  <2>1. Latency \in Nat
    BY SizesAssumption
  <2> QED BY <2>1 DEF Ripe, HitEntry
<1>3. Aged(list) = [i \in 1 .. Len(list) |-> Ripe(list[i])]
  BY <1>1 DEF Aged, Ripe
<1>4. Aged(list) \in Seq(HitEntry) /\ DOMAIN Aged(list) = 1 .. Len(list)
  BY <1>1, <1>2, <1>3
<1> QED BY <1>1, <1>2, <1>3, <1>4

LEMMA SendTyped ==
  ASSUME ListsTyped, miss_list' \in Seq(MissEntry), SendMisses
  PROVE  ListsTyped'
<1> DEFINE aged == Aged(miss_list)
           due == {i \in DOMAIN aged : aged[i].wait = 0}
<1>1. PICK taken \in SUBSET due :
        /\ memory' = [r \in Waiter |-> memory[r] + Cardinality(ReadsOf(aged, r) \cap taken)]
        /\ hit_list' = Aged(hit_list)
        /\ UNCHANGED <<receive_requests, allocated, crossed>>
  BY DEF SendMisses
<1>2. hit_list' \in Seq(HitEntry)
  BY <1>1, AgedHits DEF ListsTyped
<1>3. aged \in Seq(MissEntry)
  BY AgedIs DEF ListsTyped
<1>4. IsFiniteSet(taken)
  <2> HIDE DEF aged
  <2>1. DOMAIN aged = 1 .. Len(aged) /\ Len(aged) \in Nat
    BY <1>3
  <2>2. IsFiniteSet(1 .. Len(aged))
    BY <2>1, FS_Interval
  <2>3. taken \subseteq 1 .. Len(aged)
    BY <2>1
  <2> QED BY <2>2, <2>3, FS_Subset
<1> HIDE DEF aged
<1>5. \A r : Cardinality(ReadsOf(aged, r) \cap taken) \in Nat
  <2> SUFFICES ASSUME NEW r PROVE Cardinality(ReadsOf(aged, r) \cap taken) \in Nat
    OBVIOUS
  <2>1. ReadsOf(aged, r) \cap taken \subseteq taken
    OBVIOUS
  <2> QED BY <1>4, <2>1, FS_Subset, FS_CardinalityType
<1>6. memory' \in [Waiter -> Nat]
  <2>1. \A r \in Waiter : memory[r] \in Nat
    BY DEF ListsTyped
  <2>2. \A r \in Waiter : memory[r] + Cardinality(ReadsOf(aged, r) \cap taken) \in Nat
    BY SMTT(30), <1>5, <2>1
  <2> QED BY <1>1, <2>2
<1> QED BY <1>1, <1>2, <1>6 DEF ListsTyped

LEMMA CallBackTyped ==
  ASSUME ListsTyped, CacheInv, NEW h \in HitEntry, CallBack(h)
  PROVE  ListsTyped'
<1>1. h.addr \in Addrs /\ h.core \in Cores
  BY DEF HitEntry
<1>2. /\ Receive(h.addr, h.core, {[addr |-> h.addr, core |-> h.core]})
      /\ hit_list' = Tail(hit_list) /\ hit_list # <<>>
      /\ crossed' \in BOOLEAN
      /\ UNCHANGED memory
  BY DEF CallBack, HitIsDue
<1>3. hit_list' \in Seq(HitEntry)
  BY <1>2 DEF ListsTyped
<1> QED BY <1>1, <1>2, <1>3, ReceiveTyped DEF ListsTyped

LEMMA AnswerTyped ==
  ASSUME ListsTyped, CacheInv, NEW r \in Waiter, Answer(r)
  PROVE  ListsTyped'
<1>1. r.addr \in Addrs /\ r.core \in Cores
  BY DEF Waiter
<1>2. /\ Receive(r.addr, r.core, receive_requests[r.addr])
      /\ memory[r] > 0
      /\ memory' = [memory EXCEPT ![r] = @ - 1]
      /\ UNCHANGED <<hit_list, crossed>>
  BY DEF Answer
<1>3. memory' \in [Waiter -> Nat]
  BY <1>2 DEF ListsTyped
<1> QED BY <1>1, <1>2, <1>3, ReceiveTyped DEF ListsTyped

-----------------------------------------------------------------------------
(* Who waits will be answered.                                             *)

\* The waiters whose answer is on the hit list, or comes with the read of an MSHR.
Coming == {w \in Waiter :
             \/ \E k \in DOMAIN hit_list : hit_list[k].addr = w.addr /\ hit_list[k].core = w.core
             \/ \E m \in mshrs : w \in receive_requests[m]}

For(c, slot) == [addr |-> slot.addr, core |-> c]

WindowInv == \A c \in Cores : \A i \in DOMAIN window[c] :
               window[c][i].ready \/ For(c, window[c][i]) \in Coming

AnswerInv == ListsTyped /\ (crossed \/ (ReadInv /\ WindowInv))

LEMMA AcceptComing ==
  ASSUME ListsTyped, CacheInv, NEW req \in Request, Accept(req)
  PROVE  /\ Coming \subseteq Coming'
         /\ \A w : w = [addr |-> req.addr, core |-> req.core] => w \in Coming'
<1> DEFINE w == [addr |-> req.addr, core |-> req.core]
<1>1. /\ req.addr \in Addrs /\ req.core \in Cores
      /\ w \in Waiter /\ w.addr = req.addr /\ w.core = req.core
  BY DEF Request, Waiter
<1> SUFFICES Coming \subseteq Coming' /\ \A v : v = w => v \in Coming'
  OBVIOUS
<1> HIDE DEF w
<1>2. CASE Hit(req)
  <2> DEFINE h == [wait |-> Latency, addr |-> req.addr, core |-> req.core]
  <2>1. hit_list' = Append(hit_list, h) /\ UNCHANGED <<mshrs, receive_requests>>
    BY <1>2 DEF Hit
  <2>2. h.addr = req.addr /\ h.core = req.core
    OBVIOUS
  <2>3. Latency \in 0 .. Latency
    BY SizesAssumption
  <2>4. h \in HitEntry
    BY <1>1, <2>3 DEF HitEntry
  <2> HIDE DEF h
  <2>5. /\ DOMAIN hit_list' = 1 .. Len(hit_list) + 1 /\ Len(hit_list) \in Nat
        /\ DOMAIN hit_list = 1 .. Len(hit_list)
        /\ hit_list'[Len(hit_list) + 1] = h
        /\ \A k \in 1 .. Len(hit_list) : hit_list'[k] = hit_list[k]
    <3>1. hit_list \in Seq(HitEntry)
      BY DEF ListsTyped
    <3> QED BY <2>1, <2>4, <3>1, AppendIs
  <2>6. Len(hit_list) + 1 \in DOMAIN hit_list'
    BY <2>5
  <2>7. \A k \in DOMAIN hit_list : k \in DOMAIN hit_list' /\ hit_list'[k] = hit_list[k]
    BY <2>5
  <2> QED BY <1>1, <2>1, <2>2, <2>5, <2>6, <2>7 DEF Coming
<1>3. CASE Merge(req)
  <2>1. PICK a \in check_mshr_hit(req.addr) :
          receive_requests' = [receive_requests EXCEPT ![a] = @ \cup {w}]
    BY <1>3 DEF Merge, w
  <2>2. a \in mshrs /\ a \in Addrs
    BY DEF check_mshr_hit, CacheInv
  <2>3. UNCHANGED <<mshrs, hit_list>>
    BY <1>3 DEF Merge
  <2>4. w \in receive_requests'[a] /\ \A m \in Addrs : receive_requests[m] \subseteq receive_requests'[m]
    BY <2>1, <2>2 DEF ListsTyped
  <2>5. mshrs \subseteq Addrs
    BY DEF CacheInv
  <2> QED BY <1>1, <2>2, <2>3, <2>4, <2>5 DEF Coming
<1>4. CASE Allocate(req)
  <2>1. receive_requests' = [receive_requests EXCEPT ![req.addr] = {w}]
    BY <1>4 DEF Allocate, w
  <2>2. mshrs' = mshrs \cup {req.addr} /\ UNCHANGED hit_list
    BY <1>4 DEF Allocate
  <2>3. req.addr \notin mshrs /\ mshrs \subseteq Addrs
    BY <1>4, AllocateKeeps DEF CacheInv, ListsTyped
  <2>4. /\ w \in receive_requests'[req.addr]
        /\ \A m \in mshrs : receive_requests'[m] = receive_requests[m]
    BY <1>1, <2>1, <2>3 DEF ListsTyped
  <2> QED BY <1>1, <2>2, <2>4 DEF Coming
<1> QED BY <1>2, <1>3, <1>4 DEF Accept

\* The instructions of a window are ready, or were in the old one, or someone in
\* kept waits for them.
Supplied(c, w, kept) ==
  \A i \in DOMAIN w : \/ w[i].ready
                      \/ For(c, w[i]) \in kept
                      \/ \E k \in DOMAIN window[c] : w[i] = window[c][k]

LEMMA CoreWindow ==
  ASSUME WindowInv, CoreTyped, NEW c \in Cores, NEW w, window' = [window EXCEPT ![c] = w],
         NEW kept, kept = Coming', Coming \subseteq kept, Supplied(c, w, kept)
  PROVE  WindowInv'
<1>1. window'[c] = w /\ \A d \in Cores : d # c => window'[d] = window[d]
  BY DEF CoreTyped
<1>2. ASSUME NEW i \in DOMAIN w PROVE w[i].ready \/ For(c, w[i]) \in kept
  <2>1. CASE \E k \in DOMAIN window[c] : w[i] = window[c][k]
    <3>1. PICK k \in DOMAIN window[c] : w[i] = window[c][k]
      BY <2>1
    <3>2. window[c][k].ready \/ For(c, window[c][k]) \in Coming
      BY DEF WindowInv
    <3> QED BY <3>1, <3>2
  <2> QED BY <2>1 DEF Supplied
<1>3. ASSUME NEW d \in Cores, NEW i \in DOMAIN window'[d]
      PROVE  window'[d][i].ready \/ For(d, window'[d][i]) \in kept
  <2>1. CASE d = c
    BY <1>1, <1>2, <2>1
  <2>2. CASE d # c
    <3>1. window'[d] = window[d]
      BY <1>1, <2>2
    <3>2. window[d][i].ready \/ For(d, window[d][i]) \in Coming
      BY <3>1 DEF WindowInv
    <3> QED BY <3>1, <3>2
  <2> QED BY <2>1, <2>2
<1> QED BY <1>3 DEF WindowInv, For

\* An answer wakes all it is for; who is not among them waits on.
LEMMA WakeWindow ==
  ASSUME WindowInv, CoreTyped, NEW waiting, Wake(waiting),
         NEW kept, kept = Coming', Coming \subseteq kept \cup waiting
  PROVE  WindowInv'
<1> DEFINE for(c) == {r.addr : r \in {x \in waiting : x.core = c}}
<1>1. window' = [c \in Cores |-> set_ready(window[c], for(c))]
  BY DEF Wake
<1>2. \A c, slot : For(c, slot) \in waiting => slot.addr \in for(c)
  <2> SUFFICES ASSUME NEW c, NEW slot, For(c, slot) \in waiting PROVE slot.addr \in for(c)
    OBVIOUS
  <2> DEFINE r == For(c, slot)
  <2>1. r \in waiting /\ r.core = c /\ r.addr = slot.addr
    BY DEF For
  <2> HIDE DEF r
  <2> QED BY <2>1
<1> HIDE DEF for
<1>3. ASSUME NEW c \in Cores, NEW i \in DOMAIN window'[c]
      PROVE  window'[c][i].ready \/ For(c, window'[c][i]) \in kept
  <2> DEFINE w == window[c]
             u == set_ready(w, for(c))
  <2>1. window'[c] = u
    BY <1>1
  <2>2. w \in Seq(Slot)
    BY DEF CoreTyped
  <2> HIDE DEF w
  <2>3. /\ DOMAIN u = DOMAIN w
        /\ \A j \in DOMAIN w : u[j].addr = w[j].addr /\ (u[j].ready <=> w[j].ready \/ w[j].addr \in for(c))
    BY <2>2, WokenIs
  <2> HIDE DEF u
  <2>4. i \in DOMAIN w
    BY <2>1, <2>3
  <2>5. w[i].ready \/ For(c, w[i]) \in Coming
    BY <2>4 DEF WindowInv, w
  <2>6. w[i].ready \/ For(c, w[i]) \in kept \/ w[i].addr \in for(c)
    BY <1>2, <2>5
  <2>7. For(c, u[i]) = For(c, w[i])
    BY <2>3, <2>4 DEF For
  <2> QED BY <2>1, <2>3, <2>4, <2>6, <2>7
<1> QED BY <1>3 DEF WindowInv, For

LEMMA CoreWaitsAnswers ==
  ASSUME StoreInv, AnswerInv, NEW c \in Cores, CoreWaits(c)
  PROVE  AnswerInv'
<1>1. UNCHANGED <<mshrs, receive_requests, miss_list, hit_list, allocated, memory, crossed>>
  BY DEF CoreWaits, Refuse, cacheVars
<1>2. ListsTyped'
  BY <1>1 DEF AnswerInv, ListsTyped
<1>3. ASSUME ReadInv, WindowInv PROVE ReadInv' /\ WindowInv'
  <2>1. ReadInv'
    BY <1>1, <1>3, SameReads DEF StoreInv, CacheInv
  <2>2. window' = [window EXCEPT ![c] = Filled(c)]
    BY DEF CoreWaits
  <2>3. PICK kept : kept = Coming' /\ Coming \subseteq kept
    BY <1>1 DEF Coming
  <2>4. \A i \in DOMAIN Filled(c) : Filled(c)[i].ready \/ \E k \in DOMAIN window[c] : Filled(c)[i] = window[c][k]
    BY FilledIs DEF StoreInv
  <2> DEFINE w == Filled(c)
  <2> HIDE DEF w
  <2>5. /\ window' = [window EXCEPT ![c] = w]
        /\ Supplied(c, w, kept)
    BY <2>2, <2>4 DEF w, Supplied
  <2>6. WindowInv'
    BY <1>3, <2>3, <2>5, CoreWindow DEF StoreInv
  <2> QED BY <2>1, <2>6
<1> QED BY <1>1, <1>2, <1>3 DEF AnswerInv

\* A request that is no miss leaves the reads alone; a miss adds its own.
LEMMA AcceptReads ==
  ASSUME ReadInv, ListsTyped, CacheInv, NEW req \in Request, Accept(req)
  PROVE  ReadInv'
<1>1. CASE Hit(req)
  <2>1. UNCHANGED <<mshrs, miss_list, allocated, memory>>
    BY <1>1 DEF Hit
  <2> QED BY <2>1, SameReads DEF CacheInv
<1>2. CASE Merge(req)
  <2>1. UNCHANGED <<mshrs, miss_list, allocated, memory>>
    BY <1>2 DEF Merge
  <2> QED BY <2>1, SameReads DEF CacheInv
<1>3. CASE Allocate(req)
  BY <1>3, AllocateReads
<1> QED BY <1>1, <1>2, <1>3 DEF Accept

LEMMA AcceptNotCrossed ==
  ASSUME NEW req, Accept(req)
  PROVE  UNCHANGED crossed
BY DEF Accept, Hit, Merge, Allocate

LEMMA CoreLoadsAnswers ==
  ASSUME StoreInv, AnswerInv, NEW c \in Cores, CoreLoads(c)
  PROVE  AnswerInv'
<1> DEFINE x == pending[c].load
           w == Append(Filled(c), [ready |-> FALSE, addr |-> x])
<1>1. CoreTyped /\ CacheInv /\ ListsTyped /\ LoadMayIssue(c) /\ Accept(LoadOf(c))
  BY DEF StoreInv, AnswerInv, CoreLoads
<1>2. LoadOf(c) \in Request /\ x \in Addrs
  BY <1>1, RequestsTyped
<1>3. LoadOf(c).addr = x /\ LoadOf(c).core = c
  BY DEF LoadOf
<1>4. ListsTyped' /\ UNCHANGED crossed
  BY <1>1, <1>2, AcceptTyped, AcceptNotCrossed
<1>5. PICK kept : /\ kept = Coming' /\ Coming \subseteq kept
                  /\ [addr |-> x, core |-> c] \in kept
  <2>1. Coming \subseteq Coming' /\ \A v : v = [addr |-> x, core |-> c] => v \in Coming'
    BY <1>1, <1>2, <1>3, AcceptComing
  <2> QED BY <2>1
<1>6. window' = [window EXCEPT ![c] = w]
  BY DEF CoreLoads
<1>7. \A i \in DOMAIN w : \/ w[i].ready \/ w[i].addr = x
                          \/ \E k \in DOMAIN window[c] : w[i] = window[c][k]
  <2>1. Len(Filled(c)) < Depth
    BY <1>1 DEF LoadMayIssue
  <2> QED BY <1>1, <1>2, <2>1, SlotAppended
<1> HIDE DEF w, x
<1>8. ASSUME ReadInv, WindowInv PROVE ReadInv' /\ WindowInv'
  <2>1. ReadInv'
    BY <1>1, <1>2, <1>8, AcceptReads
  <2>2. Supplied(c, w, kept)
    BY <1>5, <1>7 DEF For, Supplied
  <2>3. WindowInv'
    BY <1>1, <1>5, <1>6, <1>8, <2>2, CoreWindow
  <2> QED BY <2>1, <2>3
<1> QED BY <1>4, <1>8 DEF AnswerInv

LEMMA CoreStoresAnswers ==
  ASSUME StoreInv, AnswerInv, NEW c \in Cores, CoreStores(c)
  PROVE  AnswerInv'
<1>1. CoreTyped /\ CacheInv /\ ListsTyped /\ StoreMayIssue(c) /\ Accept(StoreOf(c))
  BY DEF StoreInv, AnswerInv, CoreStores
<1>2. StoreOf(c) \in Request
  BY <1>1, RequestsTyped
<1>3. ListsTyped' /\ UNCHANGED crossed
  BY <1>1, <1>2, AcceptTyped, AcceptNotCrossed
<1>4. PICK kept : kept = Coming' /\ Coming \subseteq kept
  <2>1. Coming \subseteq Coming'
    BY <1>1, <1>2, AcceptComing
  <2> QED BY <2>1
<1> DEFINE w == Filled(c)
<1>5. window' = [window EXCEPT ![c] = w]
  BY DEF CoreStores
<1>6. \A i \in DOMAIN w : w[i].ready \/ \E k \in DOMAIN window[c] : w[i] = window[c][k]
  BY <1>1, FilledIs
<1> HIDE DEF w
<1>7. ASSUME ReadInv, WindowInv PROVE ReadInv' /\ WindowInv'
  <2>1. ReadInv'
    BY <1>1, <1>2, <1>7, AcceptReads
  <2>2. Supplied(c, w, kept)
    BY <1>6 DEF Supplied
  <2>3. WindowInv'
    BY <1>1, <1>4, <1>5, <1>7, <2>2, CoreWindow
  <2> QED BY <2>1, <2>3
<1> QED BY <1>3, <1>7 DEF AnswerInv

LEMMA CacheTickAnswers ==
  ASSUME StoreInv, AnswerInv, CacheTick
  PROVE  AnswerInv'
<1>1. SendMisses /\ UNCHANGED window
  BY DEF CacheTick
<1>2. /\ hit_list' = Aged(hit_list)
      /\ UNCHANGED <<mshrs, receive_requests, crossed>>
  BY <1>1 DEF SendMisses
<1>3. ListsTyped'
  BY <1>1, SendKeeps, SendTyped DEF StoreInv, AnswerInv
<1>4. Coming \subseteq Coming'
  <2>1. /\ DOMAIN hit_list' = DOMAIN hit_list
        /\ \A k \in DOMAIN hit_list : hit_list'[k].addr = hit_list[k].addr /\ hit_list'[k].core = hit_list[k].core
    BY <1>2, AgedHits DEF AnswerInv, ListsTyped
  <2> QED BY <1>2, <2>1 DEF Coming
<1>5. ASSUME ReadInv, WindowInv PROVE ReadInv' /\ WindowInv'
  <2>1. ReadInv'
    BY <1>1, <1>5, SendReads DEF StoreInv, CacheInv, AnswerInv
  <2> QED BY <1>1, <1>4, <1>5, <2>1 DEF WindowInv, For
<1> QED BY <1>2, <1>3, <1>5 DEF AnswerInv

\* Unless it crosses a miss of its line, a call back takes nothing from anyone
\* who waits for something else.
LEMMA CallBackAnswers ==
  ASSUME StoreInv, AnswerInv, CacheCallsBack
  PROVE  AnswerInv'
<1>1. PICK h \in HitEntry : CallBack(h) /\ Wake({[addr |-> h.addr, core |-> h.core]})
  BY DEF CacheCallsBack
<1>2. ListsTyped' /\ ListsTyped /\ CacheInv /\ CoreTyped
  BY <1>1, CallBackTyped DEF StoreInv, AnswerInv
<1>3. /\ crossed' = (crossed \/ check_mshr_hit(h.addr) # {})
      /\ hit_list # <<>> /\ h = Head(hit_list) /\ hit_list' = Tail(hit_list)
      /\ Receive(h.addr, h.core, {[addr |-> h.addr, core |-> h.core]})
  BY <1>1 DEF CallBack, HitIsDue
<1>4. ASSUME ~crossed'
      PROVE  ReadInv' /\ WindowInv'
  <2>1. ~crossed /\ check_mshr_hit(h.addr) = {} /\ ReadInv /\ WindowInv
    BY <1>3, <1>4 DEF AnswerInv
  <2>2. ReadInv'
    BY <1>1, <1>2, <2>1, CallBackReads
  <2>3. /\ mshrs' = mshrs
        /\ receive_requests' = [receive_requests EXCEPT ![h.addr] = {}]
    BY <1>3, <2>1 DEF Receive
  <2>4. h.addr \notin mshrs
    BY <2>1 DEF check_mshr_hit
  <2>5. \A m \in mshrs : receive_requests'[m] = receive_requests[m]
    BY <1>2, <2>3, <2>4 DEF ListsTyped, CacheInv
  <2>6. \A k \in DOMAIN hit_list :
          hit_list[k] = h \/ \E j \in DOMAIN hit_list' : hit_list'[j] = hit_list[k]
    <3>1. hit_list \in Seq(HitEntry)
      BY <1>2 DEF ListsTyped
    <3>2. ASSUME NEW k \in DOMAIN hit_list, k # 1
          PROVE  k - 1 \in DOMAIN hit_list' /\ hit_list'[k - 1] = hit_list[k]
      BY <1>3, <3>1, <3>2
    <3>3. hit_list[1] = h
      BY <1>3, <3>1
    <3> QED BY <3>2, <3>3
  <2> DEFINE waiting == {[addr |-> h.addr, core |-> h.core]}
  <2>7. ASSUME NEW w \in Coming, w \notin waiting
        PROVE  w \in Coming'
    <3>1. CASE \E m \in mshrs : w \in receive_requests[m]
      BY <2>3, <2>5, <3>1 DEF Coming
    <3>2. CASE \E k \in DOMAIN hit_list : hit_list[k].addr = w.addr /\ hit_list[k].core = w.core
      <4>1. PICK k \in DOMAIN hit_list : hit_list[k].addr = w.addr /\ hit_list[k].core = w.core
        BY <3>2
      <4>2. hit_list[k] # h
        <5>1. w = [addr |-> w.addr, core |-> w.core]
          BY DEF Coming, Waiter
        <5> QED BY <2>7, <4>1, <5>1
      <4>3. \E j \in DOMAIN hit_list' : hit_list'[j] = hit_list[k]
        BY <2>6, <4>2
      <4> QED BY <4>1, <4>3 DEF Coming
    <3> QED BY <3>1, <3>2 DEF Coming
  <2>8. Wake(waiting)
    BY <1>1
  <2> HIDE DEF waiting
  <2>9. PICK kept : kept = Coming' /\ Coming \subseteq kept \cup waiting
    BY <2>7
  <2>10. WindowInv'
    BY <1>2, <2>1, <2>8, <2>9, WakeWindow
  <2> QED BY <2>2, <2>10
<1>5. crossed' \in BOOLEAN
  BY <1>2 DEF ListsTyped
<1> QED BY <1>2, <1>4, <1>5 DEF AnswerInv

LEMMA MemoryAnswersAnswers ==
  ASSUME StoreInv, AnswerInv, MemoryAnswers
  PROVE  AnswerInv'
<1>1. PICK r \in Waiter : Answer(r) /\ Wake(receive_requests[r.addr])
  BY DEF MemoryAnswers
<1>2. ListsTyped' /\ ListsTyped /\ CacheInv /\ CoreTyped
  BY <1>1, AnswerTyped DEF StoreInv, AnswerInv
<1>3. /\ UNCHANGED <<crossed, hit_list>>
      /\ receive_requests' = [receive_requests EXCEPT ![r.addr] = {}]
  BY <1>1 DEF Answer, Receive
<1>4. ASSUME ReadInv, WindowInv PROVE ReadInv' /\ WindowInv'
  <2>1. ReadInv' /\ mshrs' = mshrs \ {r.addr}
    BY <1>1, <1>2, <1>4, AnswerReads
  <2>2. \A m \in mshrs : m # r.addr => receive_requests'[m] = receive_requests[m]
    BY <1>2, <1>3 DEF ListsTyped, CacheInv
  <2> DEFINE waiting == receive_requests[r.addr]
  <2>3. ASSUME NEW w \in Coming, w \notin waiting PROVE w \in Coming'
    BY <1>3, <2>1, <2>2, <2>3 DEF Coming
  <2>4. Wake(waiting)
    BY <1>1
  <2> HIDE DEF waiting
  <2>5. PICK kept : kept = Coming' /\ Coming \subseteq kept \cup waiting
    BY <2>3
  <2>6. WindowInv'
    BY <1>2, <1>4, <2>4, <2>5, WakeWindow
  <2> QED BY <2>1, <2>6
<1> QED BY <1>2, <1>3, <1>4 DEF AnswerInv

LEMMA AnswerInvInit == Init => AnswerInv
<1> SUFFICES ASSUME Init PROVE AnswerInv
  OBVIOUS
<1>1. /\ mshrs = {} /\ miss_list = <<>> /\ hit_list = <<>>
      /\ receive_requests = [a \in Addrs |-> {}]
      /\ allocated = [c \in Cores |-> 0]
      /\ memory = [r \in Waiter |-> 0]
      /\ crossed = FALSE
      /\ window = [c \in Cores |-> <<>>]
  BY DEF Init, CacheInit
<1>2. ListsTyped
  <2>1. /\ receive_requests \in [Addrs -> SUBSET Waiter]
        /\ allocated \in [Cores -> Int]
        /\ memory \in [Waiter -> Nat]
    BY <1>1
  <2>2. miss_list \in Seq(MissEntry) /\ hit_list \in Seq(HitEntry)
    BY <1>1
  <2> QED BY <1>1, <2>1, <2>2 DEF ListsTyped
<1>3. \A a \in Addrs, c \in Cores : Quiet(a, c)
  <2>1. \A r : ReadsOf(miss_list, r) = {}
    BY <1>1 DEF ReadsOf
  <2>2. \A a \in Addrs, c \in Cores : [addr |-> a, core |-> c] \in Waiter
    BY DEF Waiter
  <2> QED BY <1>1, <2>1, <2>2 DEF Quiet, Reads, Held
<1>4. \A c \in Cores : {a \in mshrs : Sole(a, c)} = {}
  BY <1>1
<1>5. ReadInv
  BY <1>1, <1>3, <1>4, FS_EmptySet DEF ReadInv
<1>6. WindowInv
  BY <1>1 DEF WindowInv
<1> QED BY <1>2, <1>5, <1>6 DEF AnswerInv

LEMMA AnswerInvStep ==
  ASSUME StoreInv, AnswerInv, [Next]_vars
  PROVE  AnswerInv'
<1>1. ASSUME NEW c \in Cores, CoreWaits(c) PROVE AnswerInv'
  BY <1>1, CoreWaitsAnswers
<1>2. ASSUME NEW c \in Cores, CoreLoads(c) PROVE AnswerInv'
  BY <1>2, CoreLoadsAnswers
<1>3. ASSUME NEW c \in Cores, CoreStores(c) PROVE AnswerInv'
  BY <1>3, CoreStoresAnswers
<1>4. CASE CacheTick
  BY <1>4, CacheTickAnswers
<1>5. CASE CacheCallsBack
  BY <1>5, CallBackAnswers
<1>6. CASE MemoryAnswers
  BY <1>6, MemoryAnswersAnswers
<1>7. CASE CacheTicked \/ Throttle \/ UNCHANGED vars
  <2>1. UNCHANGED <<mshrs, receive_requests, miss_list, hit_list, allocated, memory, crossed, window>>
    BY <1>7 DEF CacheTicked, Throttle, Blacklist, vars, cacheVars, coreVars
  <2>2. ListsTyped'
    BY <2>1 DEF AnswerInv, ListsTyped
  <2>3. ReadInv => ReadInv'
    BY <2>1, SameReads DEF StoreInv, CacheInv
  <2>4. WindowInv => WindowInv'
    BY <2>1 DEF WindowInv, Coming, For
  <2> QED BY <2>1, <2>2, <2>3, <2>4 DEF AnswerInv
<1> QED BY <1>1, <1>2, <1>3, <1>4, <1>5, <1>6, <1>7 DEF Next

\* Until a hit is called back while its line is being fetched again, every load
\* that waits in a window has an answer on its way, every MSHR has exactly one
\* read out, and a core's quota counts its own.
THEOREM AnswersComing == Spec => []AnswersOnTheWay
<1>1. StoreInv /\ AnswerInv => AnswersOnTheWay
  <2> SUFFICES ASSUME CacheInv, ReadInv, WindowInv PROVE AnswersOnTheWay
    BY DEF StoreInv, AnswerInv, AnswersOnTheWay
  <2>1. \A a \in Addrs : (IF a \in mshrs THEN 1 ELSE 0)
                         = MapThenSumSet(LAMBDA c : Outstanding(a, c), Cores)
    BY SumOverCores
  <2>2. \A c \in Cores : allocated[c] = MapThenSumSet(LAMBDA a : Outstanding(a, c), Addrs)
    BY SumOverAddrs DEF CacheInv
  <2>3. \A c \in Cores : \A i \in DOMAIN window[c] :
         \/ window[c][i].ready
         \/ \E k \in DOMAIN hit_list :
              /\ hit_list[k].addr = window[c][i].addr
              /\ hit_list[k].core = c
         \/ \E a \in mshrs : [addr |-> window[c][i].addr, core |-> c] \in receive_requests[a]
    BY DEF WindowInv, Coming, For
  <2> QED BY <2>1, <2>2, <2>3 DEF AnswersOnTheWay
<1> QED BY <1>1, FrontEndInvariant, AnswerInvInit, AnswerInvStep, PTL DEF Spec
=============================================================================
