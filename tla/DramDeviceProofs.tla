-------------------------- MODULE DramDeviceProofs --------------------------
(***************************************************************************)
(* Theorems about DramDevice, for any run of any device whose tables are     *)
(* tidy.  One invariant rests on the one before it:                         *)
(*                                                                         *)
(* DeviceInv says what the incremental state of the nodes means in terms of  *)
(* the log of commands: a history holds the cycles of the latest commands of *)
(* its kind, and the ready time of a command is no earlier than anything in  *)
(* the log allows it.  A command is issued when its nodes are ready for it,  *)
(* so it respects the timing constraints, and bursts do not meet.            *)
(*                                                                         *)
(* StatesInv says what the banks are in terms of the future: those that      *)
(* refresh are the ones that an action of it will end, as the command that   *)
(* began the refresh is still in the log and keeps the others off its banks. *)
(*                                                                         *)
(* UsageInv says what the banks are in terms of the log and the counters: an *)
(* open bank has the row of its last activation, and activations less       *)
(* precharges count the open banks of a rank.                               *)
(*                                                                         *)
(* CyclesInv says what a rank is charged for: every cycle until the state it *)
(* is in began, or until the refreshes of the future will have ended.        *)
(*                                                                         *)
(* LeadInv, on StatesInv, says which states a bank can be in at all, so that *)
(* a handler that looks for prerequisites knows those it may find.           *)
(***************************************************************************)
EXTENDS DramDevice, OrderLemmas

(***************************************************************************)
(* Finite sets of numbers.                                                  *)
(***************************************************************************)
\* A finite set of integers that is not empty has a maximum.
LEMMA MaxIs ==
  ASSUME NEW S, IsFiniteSet(S), S \subseteq Int, S # {}
  PROVE  Max(S) \in S /\ \A x \in S : x <= Max(S)
<1> DEFINE Topped(T) == \E x \in T : \A y \in T : y <= x
           Bad == {n \in Nat : \E T \in SUBSET S : T # {} /\ Cardinality(T) = n /\ ~Topped(T)}
<1>1. \A T \in SUBSET S : IsFiniteSet(T) /\ Cardinality(T) \in Nat
  BY FS_Subset, FS_CardinalityType
<1>2. Bad = {}
  <2> SUFFICES ASSUME Bad # {} PROVE FALSE
    OBVIOUS
  <2>1. PICK n \in Bad : \A m \in Bad : n <= m
    <3> HIDE DEF Bad
    <3>1. Bad \subseteq Nat
      BY DEF Bad
    <3> QED BY <3>1, Smallest
  <2>2. PICK T \in SUBSET S : T # {} /\ Cardinality(T) = n /\ ~Topped(T)
    BY <2>1
  <2>3. PICK a \in T : TRUE
    BY <2>2
  <2> DEFINE rest == T \ {a}
  <2>4. Cardinality(rest) = n - 1 /\ Cardinality(rest) \in Nat /\ rest \in SUBSET S
    <3>1. IsFiniteSet(T)
      BY <1>1
    <3>2. Cardinality(rest) = Cardinality(T) - 1
      BY <2>3, <3>1, FS_RemoveElement
    <3>3. rest \in SUBSET S
      OBVIOUS
    <3>4. Cardinality(rest) \in Nat
      BY <1>1, <3>3
    <3> QED BY <2>2, <3>2, <3>3, <3>4
  <2>5. rest # {}
    <3> SUFFICES ASSUME rest = {} PROVE FALSE
      OBVIOUS
    <3>1. T = {a} /\ a \in Int
      BY <2>3
    <3>2. Topped(T)
      BY <3>1
    <3> QED BY <2>2, <3>2
  <2>6. Topped(rest)
    <3>1. n \in Nat /\ n - 1 \in Nat /\ n - 1 \notin Bad
      <4>1. n \in Nat
        BY <2>1
      <4> HIDE DEF Bad
      <4> QED BY <2>1, <2>4, <4>1
    <3> HIDE DEF Topped
    <3> QED BY <2>4, <2>5, <3>1
  <2>7. PICK x \in rest : \A y \in rest : y <= x
    BY <2>6
  <2>8. T \subseteq Int /\ a \in Int /\ x \in Int
    BY <2>3
  <2>9. Topped(T)
    <3>1. CASE a <= x
      BY <2>7, <2>8, <3>1
    <3>2. CASE ~(a <= x)
      <4>1. \A y \in T : y <= a
        BY <2>7, <2>8, <3>2
      <4> QED BY <2>3, <4>1
    <3> QED BY <3>1, <3>2
  <2> QED BY <2>2, <2>9
<1>3. Topped(S)
  <2>1. S \in SUBSET S /\ Cardinality(S) \in Nat
    BY <1>1
  <2> HIDE DEF Topped
  <2> QED BY <1>2, <2>1
<1>4. \E x \in S : \A y \in S : x >= y
  BY <1>3
<1> QED BY <1>4 DEF Max

\* The values of a function on a finite set are finitely many.
LEMMA FiniteValues ==
  ASSUME NEW S, IsFiniteSet(S), NEW g, NEW T, \A t \in T : \E x \in S : t = g[x]
  PROVE  IsFiniteSet(T)
<1> DEFINE V == {g[x] : x \in S}
           v == [x \in S |-> g[x]]
<1>1. v \in Surjection(S, V)
  BY DEF Surjection
<1>2. IsFiniteSet(V)
  <2> HIDE DEF v, V
  <2> QED BY <1>1, FS_Surjection
<1>3. T \subseteq V
  OBVIOUS
<1> HIDE DEF V
<1> QED BY <1>2, <1>3, FS_Subset

-----------------------------------------------------------------------------
(***************************************************************************)
(* The inductive invariant.                                                 *)
(***************************************************************************)
\* Commands as the log keeps them.
Command(D) == [cmd : D.commands, addr : { r.addr : r \in Loads[load].requests }, clk : Nat]

\* The commands c that address a node from position i of a log on.
Later(h, p, c, i) == { j \in i..Len(h) : h[j].cmd = c /\ Targeted(p, h[j].addr) }

\* The windows kept cover those of the constraints.
Windowed(D) ==
  /\ \A l \in 1..D.bankLevel : \A c \in DOMAIN D.window[l] : D.window[l][c] \in Nat \ {0}
  /\ \A l \in 1..D.bankLevel, c \in D.commands : \A f \in DOMAIN D.cons[l][c] : \A e \in D.cons[l][c][f] :
       e.window > 1 => c \in DOMAIN D.window[l] /\ e.window <= D.window[l][c]

ReadyTyped(D, R) == DOMAIN R = D.nodes /\ \A p \in D.nodes : DOMAIN R[p] = D.commands /\ \A c \in D.commands : R[p][c] \in Int
HistoryTyped(D, H) ==
  /\ DOMAIN H = D.nodes
  /\ \A p \in D.nodes :
       /\ DOMAIN H[p] = DOMAIN D.window[Len(p)]
       /\ \A c \in DOMAIN H[p] : H[p][c] \in [1..D.window[Len(p)][c] -> Int]

\* A history holds the cycles of the latest commands, the newest first.
HistoryRight(D, H, h) ==
  \A p \in D.nodes : \A c \in DOMAIN H[p] : \A i \in DOMAIN h :
    (h[i].cmd = c /\ Targeted(p, h[i].addr)) =>
      (Cardinality(Later(h, p, c, i)) <= D.window[Len(p)][c] => H[p][c][Cardinality(Later(h, p, c, i))] = h[i].clk)

\* What a command holds back is not ready before its time.
Holds(h, p, i, e) ==
  \/ ~e.sibling /\ Targeted(p, h[i].addr) /\ Cardinality(Later(h, p, h[i].cmd, i)) >= e.window
  \/ e.sibling /\ ~Targeted(p, h[i].addr) /\ Targeted(Front(p), h[i].addr)
ReadyRight(D, R, h) ==
  \A p \in D.nodes : \A i \in DOMAIN h : \A f \in DOMAIN D.cons[Len(p)][h[i].cmd] :
    \A e \in D.cons[Len(p)][h[i].cmd][f] : Holds(h, p, i, e) => R[p][f] >= h[i].clk + e.val

DeviceInv ==
  /\ clk \in Nat /\ load \in {0} \cup DOMAIN Loads
  /\ load # 0 => \A D \in {TheDevice} :
       /\ log \in Seq(Command(D))
       /\ ReadyTyped(D, ready) /\ HistoryTyped(D, history)
       /\ HistoryRight(D, history, log) /\ ReadyRight(D, ready, log)

-----------------------------------------------------------------------------
(***************************************************************************)
(* The tables of a device.                                                  *)
(***************************************************************************)
\* The windows of the constraints a command states at a level.
WindowsOf(D, l, c) == { e.window : e \in UNION { D.cons[l][c][f] : f \in DOMAIN D.cons[l][c] } }

\* The constructor gives a command of a level the longest of its windows, when longer than one.
WindowsBuilt(D) ==
  \A l \in 1..D.bankLevel :
    D.window[l] = [c \in { c \in D.commands : Max({0} \cup WindowsOf(D, l, c)) > 1 } |-> Max(WindowsOf(D, l, c))]

LEMMA WindowsOfDevice ==
  ASSUME NEW spec, NEW org, NEW vals, NEW cons, NEW D, D = Device(spec, org, vals, cons)
  PROVE  WindowsBuilt(D)
<1> DEFINE bankLevel == CHOOSE i \in DOMAIN spec.levels : spec.levels[i] = "bank"
           commands == DOMAIN spec.scope
           entries == populate_timingcons(spec.levels, commands, cons)
           tracked(l, c) == { e.window : e \in UNION { entries[l][c][f] : f \in DOMAIN entries[l][c] } }
<1>1. /\ D.bankLevel = bankLevel /\ D.commands = commands /\ D.cons = entries
      /\ D.window = [l \in 1..bankLevel |-> [c \in { c \in commands : Max({0} \cup tracked(l, c)) > 1 } |-> Max(tracked(l, c))]]
  BY DEF Device
<1> HIDE DEF bankLevel, commands, entries
<1>2. \A l, c : tracked(l, c) = WindowsOf(D, l, c)
  BY <1>1 DEF WindowsOf
<1> HIDE DEF tracked
<1>3. ASSUME NEW l \in 1..bankLevel
      PROVE  D.window[l] = [c \in { c \in commands : Max({0} \cup tracked(l, c)) > 1 } |-> Max(tracked(l, c))]
  BY <1>1
<1>4. ASSUME NEW l
      PROVE  { c \in commands : Max({0} \cup tracked(l, c)) > 1 } = { c \in commands : Max({0} \cup WindowsOf(D, l, c)) > 1 }
  BY <1>2
<1>5. ASSUME NEW l, NEW c
      PROVE  Max(tracked(l, c)) = Max(WindowsOf(D, l, c))
  BY <1>2
<1> QED BY <1>1, <1>3, <1>4, <1>5 DEF WindowsBuilt

LEMMA WindowsAreFinite ==
  ASSUME NEW D, TablesAreTidy(D), NEW l \in 1..D.bankLevel, NEW c \in D.commands
  PROVE  IsFiniteSet(WindowsOf(D, l, c)) /\ WindowsOf(D, l, c) \subseteq Nat \ {0}
<1> DEFINE table == D.cons[l][c]
           S == { table[f] : f \in DOMAIN table }
           E == UNION S
           window == [e \in E |-> e.window]
<1>1. IsFiniteSet(DOMAIN table) /\ \A f \in DOMAIN table : IsFiniteSet(table[f])
  <2>1. DOMAIN table \subseteq D.commands /\ IsFiniteSet(D.commands)
    BY DEF TablesAreTidy
  <2>2. \A f \in DOMAIN table : IsFiniteSet(table[f])
    BY DEF TablesAreTidy
  <2> HIDE DEF table
  <2> QED BY <2>1, <2>2, FS_Subset
<1>2. \A e \in E : e.window \in Nat \ {0}
  BY DEF TablesAreTidy
<1>3. IsFiniteSet(S)
  <2>1. \A t \in S : \E f \in DOMAIN table : t = table[f]
    OBVIOUS
  <2> HIDE DEF S, table
  <2> QED BY <1>1, <2>1, FiniteValues
<1>4. IsFiniteSet(E)
  <2>1. \A T \in S : IsFiniteSet(T)
    BY <1>1
  <2> HIDE DEF S
  <2> QED BY <1>3, <2>1, FS_UNION
<1>5. WindowsOf(D, l, c) = { e.window : e \in E }
  BY DEF WindowsOf
<1> HIDE DEF E
<1>6. \A w \in WindowsOf(D, l, c) : \E e \in E : w = window[e]
  BY <1>5
<1> HIDE DEF window
<1>7. IsFiniteSet(WindowsOf(D, l, c))
  BY <1>4, <1>6, FiniteValues
<1> QED BY <1>2, <1>5, <1>7

LEMMA DeviceIsWindowed ==
  ASSUME NEW spec, NEW org, NEW vals, NEW cons, NEW D, D = Device(spec, org, vals, cons), TablesAreTidy(D)
  PROVE  Windowed(D)
<1> DEFINE W(l, c) == WindowsOf(D, l, c)
           Long(l) == { c \in D.commands : Max({0} \cup W(l, c)) > 1 }
<1>1. \A l \in 1..D.bankLevel : D.window[l] = [c \in Long(l) |-> Max(W(l, c))]
  <2>1. WindowsBuilt(D)
    BY WindowsOfDevice
  <2> QED BY <2>1 DEF WindowsBuilt
<1>2. ASSUME NEW l \in 1..D.bankLevel, NEW c \in D.commands
      PROVE  /\ c \in Long(l) => Max(W(l, c)) \in Nat \ {0}
             /\ \A w \in W(l, c) : w > 1 => c \in Long(l) /\ w <= Max(W(l, c))
  <2>1. IsFiniteSet(W(l, c)) /\ W(l, c) \subseteq Nat \ {0}
    BY WindowsAreFinite
  <2> DEFINE Z == {0} \cup W(l, c)
  <2>2. IsFiniteSet(Z) /\ Z \subseteq Int /\ Z # {} /\ W(l, c) \subseteq Int
    <3>1. IsFiniteSet({0})
      BY FS_Singleton
    <3>2. IsFiniteSet(Z)
      <4> HIDE DEF W
      <4> QED BY <2>1, <3>1, FS_Union
    <3> QED BY <2>1, <3>2
  <2>3. Max(Z) \in Z /\ \A x \in Z : x <= Max(Z)
    <3> HIDE DEF Z
    <3> QED BY <2>2, MaxIs
  <2>4. W(l, c) # {} => Max(W(l, c)) \in W(l, c) /\ \A w \in W(l, c) : w <= Max(W(l, c))
    <3> HIDE DEF W
    <3> QED BY <2>1, <2>2, MaxIs
  <2>5. c \in Long(l) <=> Max(Z) > 1
    OBVIOUS
  <2> HIDE DEF Long
  <2>6. c \in Long(l) => W(l, c) # {}
    <3> SUFFICES ASSUME W(l, c) = {} PROVE c \notin Long(l)
      OBVIOUS
    <3>1. Z = {0}
      OBVIOUS
    <3>2. Max(Z) = 0
      BY <2>3, <3>1
    <3> QED BY <2>5, <3>2
  <2>7. \A w \in W(l, c) : w > 1 => Max(Z) > 1
    <3> HIDE DEF W
    <3>1. \A w \in W(l, c) : w \in Int /\ w <= Max(Z)
      BY <2>1, <2>3
    <3>2. Max(Z) \in Int
      BY <2>2, <2>3
    <3> HIDE DEF Z
    <3> QED BY <3>1, <3>2
  <2> HIDE DEF W, Z
  <2> QED BY <2>1, <2>4, <2>5, <2>6, <2>7
<1>3. \A l \in 1..D.bankLevel, c \in D.commands : \A f \in DOMAIN D.cons[l][c] : \A e \in D.cons[l][c][f] :
        e.window \in W(l, c)
  BY DEF WindowsOf
<1>4. \A l \in 1..D.bankLevel : Long(l) \subseteq D.commands
  OBVIOUS
<1> HIDE DEF W, Long
<1>5. \A l \in 1..D.bankLevel : /\ DOMAIN D.window[l] = Long(l)
                                /\ \A c \in Long(l) : D.window[l][c] = Max(W(l, c))
  BY <1>1
<1>6. ASSUME NEW l \in 1..D.bankLevel, NEW c \in DOMAIN D.window[l] PROVE D.window[l][c] \in Nat \ {0}
  <2>1. c \in Long(l) /\ c \in D.commands
    BY <1>4, <1>5
  <2> QED BY <1>2, <1>5, <2>1
<1>7. ASSUME NEW l \in 1..D.bankLevel, NEW c \in D.commands, NEW f \in DOMAIN D.cons[l][c], NEW e \in D.cons[l][c][f],
             e.window > 1
      PROVE  c \in DOMAIN D.window[l] /\ e.window <= D.window[l][c]
  <2>1. e.window \in W(l, c)
    BY <1>3
  <2>2. c \in Long(l) /\ e.window <= Max(W(l, c))
    BY <1>2, <1>7, <2>1
  <2> QED BY <1>5, <2>2
<1> QED BY <1>6, <1>7 DEF Windowed

-----------------------------------------------------------------------------
(***************************************************************************)
(* Addresses, and the commands counted in a log.                            *)
(***************************************************************************)
\* An addressed node lies below addressed nodes of its channel.
LEMMA TargetedAbove ==
  ASSUME NEW p \in Seq(Nat), Len(p) > 1, NEW addr
  PROVE  /\ Targeted(p, addr) => Targeted(Front(p), addr)
         /\ Targeted(Front(p), addr) => p[1] = addr[1]
<1>1. Len(p) \in Nat /\ Len(Front(p)) = Len(p) - 1 /\ \A k \in 1..Len(p) - 1 : Front(p)[k] = p[k]
  BY DEF Front
<1>2. 1 \in 1..Len(p) - 1 /\ \A l \in 2..Len(p) - 1 : l \in 2..Len(p) /\ l \in 1..Len(p) - 1
  BY <1>1
<1>3. Front(p)[1] = p[1]
  BY <1>1, <1>2
<1>4. ASSUME Targeted(p, addr) PROVE Targeted(Front(p), addr)
  <2>1. p[1] = addr[1] /\ \A l \in 2..Len(p) : addr[l] \in {p[l], AnyId}
    BY <1>4 DEF Targeted
  <2>2. \A l \in 2..Len(p) - 1 : addr[l] \in {Front(p)[l], AnyId}
    BY <1>1, <1>2, <2>1
  <2> QED BY <1>1, <1>3, <2>1, <2>2 DEF Targeted
<1> QED BY <1>3, <1>4 DEF Targeted

LEMMA LaterIsFinite ==
  ASSUME NEW S, NEW h \in Seq(S), NEW p, NEW c, NEW i \in DOMAIN h
  PROVE  IsFiniteSet(Later(h, p, c, i)) /\ Cardinality(Later(h, p, c, i)) \in Nat
<1>1. IsFiniteSet(i..Len(h))
  BY FS_Interval
<1>2. Later(h, p, c, i) \subseteq i..Len(h)
  BY DEF Later
<1> QED BY <1>1, <1>2, FS_Subset, FS_CardinalityType

\* A command that matches is one more, counted from any earlier one ...
LEMMA LaterMore ==
  ASSUME NEW S, NEW h \in Seq(S), NEW a \in S, NEW p, NEW c, NEW i \in DOMAIN h, a.cmd = c, Targeted(p, a.addr)
  PROVE  Cardinality(Later(Append(h, a), p, c, i)) = Cardinality(Later(h, p, c, i)) + 1
<1> DEFINE n == Len(h) + 1
           g == Append(h, a)
<1>1. Len(h) \in Nat /\ i \in 1..Len(h) /\ Len(g) = n /\ g[n] = a /\ \A k \in 1..Len(h) : g[k] = h[k]
  OBVIOUS
<1>2. IsFiniteSet(Later(h, p, c, i)) /\ n \notin Later(h, p, c, i)
  <2>1. n \notin i..Len(h)
    BY <1>1
  <2>2. n \notin Later(h, p, c, i)
    <3> HIDE DEF n
    <3> QED BY <2>1 DEF Later
  <2> QED BY <2>2, LaterIsFinite
<1>3. Later(g, p, c, i) = Later(h, p, c, i) \cup {n}
  <2>1. i..Len(g) = (i..Len(h)) \cup {n} /\ i..Len(h) \subseteq 1..Len(h)
    BY <1>1
  <2> HIDE DEF g, n
  <2> QED BY <1>1, <2>1 DEF Later
<1> HIDE DEF n
<1> QED BY <1>2, <1>3, FS_AddElement

\* ... and is the only one counted from itself ...
LEMMA LaterItself ==
  ASSUME NEW S, NEW h \in Seq(S), NEW a \in S, NEW p, NEW c, a.cmd = c, Targeted(p, a.addr)
  PROVE  Cardinality(Later(Append(h, a), p, c, Len(h) + 1)) = 1
<1> DEFINE n == Len(h) + 1
           g == Append(h, a)
<1>1. Len(h) \in Nat /\ Len(g) = n /\ g[n] = a /\ n..Len(g) = {n}
  OBVIOUS
<1>2. Later(g, p, c, n) = {n}
  <2> HIDE DEF g, n
  <2> QED BY <1>1 DEF Later
<1> QED BY <1>2, FS_Singleton

\* ... and one that does not match is not counted.
LEMMA LaterSame ==
  ASSUME NEW S, NEW h \in Seq(S), NEW a \in S, NEW p, NEW c, NEW i \in DOMAIN h, ~(a.cmd = c /\ Targeted(p, a.addr))
  PROVE  Later(Append(h, a), p, c, i) = Later(h, p, c, i)
<1> DEFINE n == Len(h) + 1
           g == Append(h, a)
<1>1. Len(h) \in Nat /\ i \in 1..Len(h) /\ Len(g) = n /\ g[n] = a /\ \A k \in 1..Len(h) : g[k] = h[k]
  OBVIOUS
<1>2. i..Len(g) = (i..Len(h)) \cup {n} /\ i..Len(h) \subseteq 1..Len(h)
  BY <1>1
<1> HIDE DEF g, n
<1> QED BY <1>1, <1>2 DEF Later

-----------------------------------------------------------------------------
(***************************************************************************)
(* The steps of the histories and of the ready times.                       *)
(***************************************************************************)
\* A command addressed to a node enters its history as the newest.
LEMMA HistoryEnters ==
  ASSUME NEW D, TablesAreTidy(D), Windowed(D), NEW H, HistoryTyped(D, H),
         NEW p \in D.nodes, NEW c \in DOMAIN H[p], NEW addr, Targeted(p, addr), NEW now \in Nat
  PROVE  /\ DOMAIN HistoryAfter(D, H, c, addr, now)[p] = DOMAIN H[p]
         /\ \A b \in DOMAIN H[p] : b # c => HistoryAfter(D, H, c, addr, now)[p][b] = H[p][b]
         /\ HistoryAfter(D, H, c, addr, now)[p][c] \in [1..D.window[Len(p)][c] -> Int]
         /\ HistoryAfter(D, H, c, addr, now)[p][c][1] = now
         /\ \A k \in 1..D.window[Len(p)][c] - 1 : HistoryAfter(D, H, c, addr, now)[p][c][k + 1] = H[p][c][k]
<1> DEFINE G == HistoryAfter(D, H, c, addr, now)
           w == D.window[Len(p)][c]
           q == H[p][c]
           q1 == <<now>> \o Front(q)
<1>1. G[p] = [H[p] EXCEPT ![c] = q1]
  BY DEF HistoryAfter
<1>2. w \in Nat \ {0} /\ q \in [1..w -> Int]
  <2>1. Len(p) \in 1..D.bankLevel /\ c \in DOMAIN D.window[Len(p)]
    BY DEF TablesAreTidy, HistoryTyped
  <2> QED BY <2>1 DEF Windowed, HistoryTyped
<1>3. q \in Seq(Int) /\ Len(q) = w
  <2> HIDE DEF q, w
  <2> QED BY <1>2
<1>4. Front(q) \in Seq(Int) /\ Len(Front(q)) = w - 1 /\ \A k \in 1..w - 1 : Front(q)[k] = q[k]
  <2> HIDE DEF q, w
  <2> QED BY <1>2, <1>3 DEF Front
<1>5. q1 \in [1..w -> Int] /\ q1[1] = now /\ \A k \in 1..w - 1 : q1[k + 1] = q[k]
  <2> DEFINE r == Front(q)
  <2>1. r \in Seq(Int) /\ Len(r) = w - 1 /\ \A k \in 1..w - 1 : r[k] = q[k]
    BY <1>4
  <2>2. q1 = <<now>> \o r
    OBVIOUS
  <2> HIDE DEF q, w, r, q1
  <2>3. q1 \in Seq(Int) /\ Len(q1) = w /\ q1[1] = now /\ \A k \in 1..w - 1 : q1[k + 1] = r[k]
    BY <1>2, <2>1, <2>2
  <2> QED BY <2>1, <2>3
<1> HIDE DEF q1
<1>6. HistoryAfter(D, H, c, addr, now)[p][c] = q1
  BY <1>1
<1>7. /\ DOMAIN HistoryAfter(D, H, c, addr, now)[p] = DOMAIN H[p]
      /\ \A b \in DOMAIN H[p] : b # c => HistoryAfter(D, H, c, addr, now)[p][b] = H[p][b]
  BY <1>1
<1> QED BY <1>5, <1>6, <1>7

LEMMA HistoryStepTyped ==
  ASSUME NEW D, TablesAreTidy(D), Windowed(D), NEW H, HistoryTyped(D, H), NEW c, NEW addr, NEW now \in Nat
  PROVE  HistoryTyped(D, HistoryAfter(D, H, c, addr, now))
<1> DEFINE G == HistoryAfter(D, H, c, addr, now)
<1>1. DOMAIN G = D.nodes
  BY DEF HistoryAfter
<1>2. ASSUME NEW p \in D.nodes
      PROVE  /\ DOMAIN G[p] = DOMAIN D.window[Len(p)]
             /\ \A b \in DOMAIN G[p] : G[p][b] \in [1..D.window[Len(p)][b] -> Int]
  <2>1. /\ DOMAIN H[p] = DOMAIN D.window[Len(p)]
        /\ \A b \in DOMAIN H[p] : H[p][b] \in [1..D.window[Len(p)][b] -> Int]
    BY DEF HistoryTyped
  <2>2. CASE c \in DOMAIN H[p] /\ Targeted(p, addr)
    <3>1. /\ DOMAIN G[p] = DOMAIN H[p]
          /\ \A b \in DOMAIN H[p] : b # c => G[p][b] = H[p][b]
          /\ G[p][c] \in [1..D.window[Len(p)][c] -> Int]
      BY <2>2, HistoryEnters
    <3> HIDE DEF G
    <3> QED BY <2>1, <3>1
  <2>3. CASE ~(c \in DOMAIN H[p] /\ Targeted(p, addr))
    <3>1. G[p] = H[p]
      BY <2>3 DEF HistoryAfter
    <3> HIDE DEF G
    <3> QED BY <2>1, <3>1
  <2> QED BY <2>2, <2>3
<1> HIDE DEF G
<1>3. HistoryTyped(D, G)
  BY <1>1, <1>2 DEF HistoryTyped
<1> QED BY <1>3 DEF G

LEMMA HistoryStepRight ==
  ASSUME NEW D, TablesAreTidy(D), Windowed(D), NEW H, HistoryTyped(D, H),
         NEW S, NEW h \in Seq(S), HistoryRight(D, H, h), NEW a \in S, a.clk \in Nat
  PROVE  HistoryRight(D, HistoryAfter(D, H, a.cmd, a.addr, a.clk), Append(h, a))
<1> DEFINE G == HistoryAfter(D, H, a.cmd, a.addr, a.clk)
           g == Append(h, a)
           n == Len(h) + 1
<1>1. /\ Len(h) \in Nat /\ DOMAIN h = 1..Len(h) /\ DOMAIN g = 1..n /\ g[n] = a /\ \A i \in DOMAIN h : g[i] = h[i]
      /\ \A i \in DOMAIN g : i # n => i \in DOMAIN h
  OBVIOUS
<1>2. ASSUME NEW p \in D.nodes, NEW c \in DOMAIN G[p], NEW i \in DOMAIN g, g[i].cmd = c, Targeted(p, g[i].addr),
             Cardinality(Later(g, p, c, i)) <= D.window[Len(p)][c]
      PROVE  G[p][c][Cardinality(Later(g, p, c, i))] = g[i].clk
  <2>1. CASE a.cmd = c /\ Targeted(p, a.addr)
    <3>1. c \in DOMAIN H[p]
      <4>1. CASE c \notin DOMAIN H[p]
        <5>1. G[p] = H[p]
          BY <2>1, <4>1 DEF HistoryAfter
        <5> QED BY <4>1, <5>1
      <4> QED BY <4>1
    <3>2. /\ G[p][c][1] = a.clk
          /\ \A k \in 1..D.window[Len(p)][c] - 1 : G[p][c][k + 1] = H[p][c][k]
      BY <2>1, <3>1, HistoryEnters
    <3>3. CASE i = n
      <4>1. Cardinality(Later(g, p, c, i)) = 1
        BY <2>1, <3>3, LaterItself
      <4> HIDE DEF G, g, n
      <4> QED BY <1>1, <3>2, <3>3, <4>1
    <3>4. CASE i # n
      <4> DEFINE k == Cardinality(Later(h, p, c, i))
      <4>1. i \in DOMAIN h /\ g[i] = h[i]
        BY <1>1, <3>4
      <4>2. Cardinality(Later(g, p, c, i)) = k + 1
        BY ZenonT(30), <2>1, <4>1, LaterMore
      <4>3. k \in Nat
        BY <4>1, LaterIsFinite
      <4>4. i \in Later(h, p, c, i)
        <5> HIDE DEF g
        <5> QED BY <1>1, <1>2, <4>1 DEF Later
      <4>5. k \in Nat \ {0}
        <5>1. IsFiniteSet(Later(h, p, c, i))
          BY <4>1, LaterIsFinite
        <5>2. Cardinality(Later(h, p, c, i)) # 0
          BY <4>4, <5>1, FS_EmptySet
        <5> QED BY <4>3, <5>2
      <4>6. D.window[Len(p)][c] \in Nat
        <5>1. Len(p) \in 1..D.bankLevel /\ c \in DOMAIN D.window[Len(p)]
          BY <3>1 DEF TablesAreTidy, HistoryTyped
        <5> QED BY <5>1 DEF Windowed
      <4>7. k <= D.window[Len(p)][c] - 1
        <5> HIDE DEF k, g
        <5> QED BY <1>2, <4>2, <4>5, <4>6
      <4>8. H[p][c][k] = h[i].clk
        <5>1. k <= D.window[Len(p)][c]
          <6> HIDE DEF k
          <6> QED BY <4>5, <4>6, <4>7
        <5>2. h[i].cmd = c /\ Targeted(p, h[i].addr)
          BY <1>2, <4>1
        <5> QED BY <3>1, <4>1, <5>1, <5>2 DEF HistoryRight
      <4>9. G[p][c][k + 1] = H[p][c][k]
        <5> HIDE DEF k, G
        <5>1. k \in 1..D.window[Len(p)][c] - 1
          BY <4>5, <4>6, <4>7
        <5> QED BY <3>2, <5>1
      <4> HIDE DEF G, g, k
      <4> QED BY <4>1, <4>2, <4>8, <4>9
    <3> QED BY <3>3, <3>4
  <2>2. CASE ~(a.cmd = c /\ Targeted(p, a.addr))
    <3>1. i \in DOMAIN h /\ g[i] = h[i]
      <4>1. i # n
        <5> HIDE DEF g, n
        <5> QED BY <1>1, <1>2, <2>2
      <4> QED BY <1>1, <4>1
    <3>2. Later(g, p, c, i) = Later(h, p, c, i)
      BY <2>2, <3>1, LaterSame
    <3>3. c \in DOMAIN H[p] /\ G[p][c] = H[p][c]
      <4>1. CASE a.cmd \in DOMAIN H[p] /\ Targeted(p, a.addr)
        <5>1. DOMAIN G[p] = DOMAIN H[p] /\ \A b \in DOMAIN H[p] : b # a.cmd => G[p][b] = H[p][b]
          BY <4>1, HistoryEnters
        <5>2. c # a.cmd
          BY <2>2, <4>1
        <5> HIDE DEF G
        <5> QED BY <5>1, <5>2, <1>2
      <4>2. CASE ~(a.cmd \in DOMAIN H[p] /\ Targeted(p, a.addr))
        <5>1. G[p] = H[p]
          BY <4>2 DEF HistoryAfter
        <5> HIDE DEF G
        <5> QED BY <5>1, <1>2
      <4> QED BY <4>1, <4>2
    <3> HIDE DEF G, g
    <3>4. h[i].cmd = c /\ Targeted(p, h[i].addr) /\ Cardinality(Later(h, p, c, i)) <= D.window[Len(p)][c]
      BY <1>2, <3>1, <3>2
    <3>5. H[p][c][Cardinality(Later(h, p, c, i))] = h[i].clk
      BY <3>1, <3>3, <3>4 DEF HistoryRight
    <3> QED BY <3>1, <3>2, <3>3, <3>5
  <2> QED BY <2>1, <2>2
<1> HIDE DEF G, g
<1>3. HistoryRight(D, G, g)
  BY <1>2 DEF HistoryRight
<1> QED BY <1>3 DEF G, g

\* The cycles an entry list holds a command for: those of the entries over single commands, counted from
\* now, and for the addressed node those over a window, when the window is full.
LEMMA HeldIs ==
  ASSUME NEW E, IsFiniteSet(E), NEW t \in BOOLEAN, NEW past, NEW now \in Nat,
         \A e \in E : /\ e.val \in Int /\ e.window \in Nat \ {0} /\ e.sibling \in BOOLEAN
                      /\ e.sibling => e.window = 1,
         \A e \in E : (t /\ e.window # 1) => past[e.window] \in Int
  PROVE  /\ IsFiniteSet(Held(E, t, past, now)) /\ Held(E, t, past, now) \subseteq Int
         /\ \A e \in E : e.sibling # t /\ e.window = 1 => now + e.val \in Held(E, t, past, now)
         /\ \A e \in E : (t /\ ~e.sibling /\ e.window # 1 /\ past[e.window] >= 0) =>
              past[e.window] + e.val \in Held(E, t, past, now)
<1> DEFINE since(e) == IF e.window = 1 THEN now ELSE past[e.window]
           K == { e \in E : e.sibling # t /\ (t => since(e) >= 0) }
           v == [e \in K |-> since(e) + e.val]
<1>1. Held(E, t, past, now) = { since(e) + e.val : e \in K }
  BY DEF Held
<1>2. IsFiniteSet(K)
  <2>1. K \subseteq E
    OBVIOUS
  <2> HIDE DEF K
  <2> QED BY <2>1, FS_Subset
<1>3. IsFiniteSet(Held(E, t, past, now))
  <2>1. \A x \in Held(E, t, past, now) : \E e \in K : x = v[e]
    BY <1>1
  <2> HIDE DEF K, v
  <2> QED BY <1>2, <2>1, FiniteValues
<1>4. ASSUME NEW e \in K PROVE since(e) + e.val \in Int
  <2>1. e \in E /\ e.val \in Int
    OBVIOUS
  <2>2. CASE e.window = 1
    BY <2>1, <2>2
  <2>3. CASE e.window # 1
    <3>1. ~e.sibling /\ t
      BY <2>1, <2>3
    <3>2. past[e.window] \in Int
      BY <2>1, <2>3, <3>1
    <3> QED BY <2>1, <2>3, <3>2
  <2> QED BY <2>2, <2>3
<1>5. ASSUME NEW e \in E, e.sibling # t, e.window = 1 PROVE now + e.val \in Held(E, t, past, now)
  <2>1. since(e) = now /\ e \in K
    BY <1>5
  <2> HIDE DEF K
  <2> QED BY <1>1, <2>1
<1>6. ASSUME NEW e \in E, t, ~e.sibling, e.window # 1, past[e.window] >= 0
      PROVE  past[e.window] + e.val \in Held(E, t, past, now)
  <2>1. since(e) = past[e.window] /\ e \in K
    BY <1>6
  <2> HIDE DEF K
  <2> QED BY <1>1, <2>1
<1>7. Held(E, t, past, now) \subseteq Int
  <2> HIDE DEF K, since
  <2> QED BY <1>1, <1>4
<1> QED BY <1>3, <1>5, <1>6, <1>7

\* What a command does to the ready times of a node.
LEMMA ReadyAtNode ==
  ASSUME NEW D, TablesAreTidy(D), Windowed(D), NEW R, ReadyTyped(D, R), NEW H, HistoryTyped(D, H),
         NEW c \in D.commands, NEW addr, NEW now \in Nat, NEW p \in D.nodes, NEW f \in D.commands,
         NEW G, G = HistoryAfter(D, H, c, addr, now), NEW U, U = update_timing(D, R, H, c, addr, now)
  PROVE  /\ DOMAIN U[p] = D.commands /\ U[p][f] \in Int /\ U[p][f] >= R[p][f]
         /\ (f \in DOMAIN D.cons[Len(p)][c] /\ p[1] = addr[1] /\ (Len(p) = 1 \/ Targeted(Front(p), addr))) =>
              \A e \in D.cons[Len(p)][c][f] :
                /\ e.sibling # Targeted(p, addr) /\ e.window = 1 => U[p][f] >= now + e.val
                /\ (Targeted(p, addr) /\ ~e.sibling /\ e.window # 1 /\ G[p][c][e.window] >= 0) =>
                     U[p][f] >= G[p][c][e.window] + e.val
<1> DEFINE entries == D.cons[Len(p)][c]
           t == Targeted(p, addr)
           mine == IF c \in DOMAIN G[p] THEN G[p][c] ELSE << >>
           out == p[1] # addr[1] \/ ~(Len(p) = 1 \/ Targeted(Front(p), addr)) \/ DOMAIN entries = {}
           raised == [g \in D.commands |-> IF g \in DOMAIN entries
                                           THEN Max({R[p][g]} \cup Held(entries[g], t, mine, now)) ELSE R[p][g]]
<1>1. U[p] = IF out THEN R[p] ELSE raised
  BY DEF update_timing
<1>2. DOMAIN R[p] = D.commands /\ R[p][f] \in Int
  BY DEF ReadyTyped
<1>3. t \in BOOLEAN
  BY DEF Targeted
<1>4. CASE ~out /\ f \in DOMAIN entries
  <2> DEFINE E == entries[f]
             X == Held(E, t, mine, now)
             Z == {R[p][f]} \cup X
  <2>1. Len(p) \in 1..D.bankLevel
    BY DEF TablesAreTidy
  <2>2. IsFiniteSet(E)
    BY <1>4, <2>1 DEF TablesAreTidy
  <2>3. \A e \in E : /\ e.val \in Int /\ e.window \in Nat \ {0} /\ e.sibling \in BOOLEAN
                     /\ e.sibling => e.window = 1
    BY <1>4, <2>1 DEF TablesAreTidy
  <2>4. HistoryTyped(D, G)
    BY HistoryStepTyped
  <2>5. ASSUME NEW e \in E, e.window # 1
        PROVE  mine = G[p][c] /\ mine[e.window] \in Int
    <3>1. e.window \in Nat \ {0} /\ e.window > 1
      BY <2>3, <2>5
    <3>2. c \in DOMAIN D.window[Len(p)] /\ e.window <= D.window[Len(p)][c]
      BY <1>4, <2>1, <3>1 DEF Windowed
    <3>3. D.window[Len(p)][c] \in Nat
      BY <2>1, <3>2 DEF Windowed
    <3>4. c \in DOMAIN G[p] /\ G[p][c] \in [1..D.window[Len(p)][c] -> Int]
      BY <2>4, <3>2 DEF HistoryTyped
    <3>5. mine = G[p][c]
      BY <3>4
    <3> HIDE DEF mine
    <3>6. e.window \in 1..D.window[Len(p)][c]
      BY <3>1, <3>2, <3>3
    <3> QED BY <3>4, <3>5, <3>6
  <2> HIDE DEF E, mine, t
  <2>6. \A e \in E : (t /\ e.window # 1) => mine[e.window] \in Int
    BY <2>5
  <2>7. /\ IsFiniteSet(X) /\ X \subseteq Int
        /\ \A e \in E : e.sibling # t /\ e.window = 1 => now + e.val \in X
        /\ \A e \in E : (t /\ ~e.sibling /\ e.window # 1 /\ mine[e.window] >= 0) => mine[e.window] + e.val \in X
    BY <1>3, <2>2, <2>3, <2>6, HeldIs
  <2>8. U[p] = raised /\ raised[f] = Max(Z) /\ DOMAIN raised = D.commands
    BY <1>1, <1>4 DEF E
  <2> HIDE DEF X, raised
  <2>9. IsFiniteSet(Z) /\ Z \subseteq Int /\ Z # {}
    <3>1. IsFiniteSet({R[p][f]})
      BY FS_Singleton
    <3>2. IsFiniteSet(Z)
      BY <2>7, <3>1, FS_Union
    <3> QED BY <1>2, <2>7, <3>2
  <2>10. Max(Z) \in Z /\ \A x \in Z : x <= Max(Z)
    <3> HIDE DEF Z
    <3> QED BY <2>9, MaxIs
  <2>11. U[p][f] \in Int /\ \A x \in Z : x \in Int /\ U[p][f] >= x
    <3>1. \A x \in Z : x \in Int
      BY <2>9
    <3> HIDE DEF Z
    <3> QED BY <2>8, <2>10, <3>1
  <2>12. R[p][f] \in Z /\ X \subseteq Z
    OBVIOUS
  <2> HIDE DEF Z
  <2>13. ASSUME NEW e \in E
         PROVE  /\ e.sibling # t /\ e.window = 1 => U[p][f] >= now + e.val
                /\ (t /\ ~e.sibling /\ e.window # 1 /\ G[p][c][e.window] >= 0) => U[p][f] >= G[p][c][e.window] + e.val
    <3>1. e.sibling # t /\ e.window = 1 => U[p][f] >= now + e.val
      BY <2>7, <2>11, <2>12
    <3>2. ASSUME t, ~e.sibling, e.window # 1, G[p][c][e.window] >= 0 PROVE U[p][f] >= G[p][c][e.window] + e.val
      <4>1. mine[e.window] + e.val \in X /\ mine = G[p][c]
        BY <2>5, <2>7, <3>2
      <4> QED BY <2>11, <2>12, <4>1
    <3> QED BY <3>1, <3>2
  <2> QED BY <2>8, <2>11, <2>12, <2>13 DEF E, t
<1>5. CASE ~out /\ f \notin DOMAIN entries
  <2>1. U[p] = raised /\ raised[f] = R[p][f] /\ DOMAIN raised = D.commands
    BY <1>1, <1>5
  <2> HIDE DEF raised
  <2> QED BY <1>2, <1>5, <2>1
<1>6. CASE out
  <2>1. U[p] = R[p]
    BY <1>1, <1>6
  <2>2. ~(f \in DOMAIN entries /\ p[1] = addr[1] /\ (Len(p) = 1 \/ Targeted(Front(p), addr)))
    BY <1>6
  <2> QED BY <1>2, <2>1, <2>2
<1> QED BY <1>4, <1>5, <1>6

LEMMA ReadyStepTyped ==
  ASSUME NEW D, TablesAreTidy(D), Windowed(D), NEW R, ReadyTyped(D, R), NEW H, HistoryTyped(D, H),
         NEW c \in D.commands, NEW addr, NEW now \in Nat
  PROVE  ReadyTyped(D, update_timing(D, R, H, c, addr, now))
<1> DEFINE U == update_timing(D, R, H, c, addr, now)
<1>1. DOMAIN U = D.nodes
  BY DEF update_timing
<1>2. ASSUME NEW p \in D.nodes, NEW f \in D.commands
      PROVE  DOMAIN U[p] = D.commands /\ U[p][f] \in Int
  BY ReadyAtNode
<1>3. c \in D.commands
  OBVIOUS
<1> HIDE DEF U
<1>4. ReadyTyped(D, U)
  BY <1>1, <1>2, <1>3 DEF ReadyTyped
<1> QED BY <1>4 DEF U

\* Every command holds back what the table says, whether it is the latest or an earlier one.
LEMMA ReadyStepRight ==
  ASSUME NEW D, TablesAreTidy(D), Windowed(D), NEW R, ReadyTyped(D, R), NEW H, HistoryTyped(D, H),
         NEW S, NEW h \in Seq(S), HistoryRight(D, H, h), ReadyRight(D, R, h),
         \A s \in S : s.cmd \in D.commands /\ s.clk \in Nat, NEW a \in S
  PROVE  ReadyRight(D, update_timing(D, R, H, a.cmd, a.addr, a.clk), Append(h, a))
<1> DEFINE U == update_timing(D, R, H, a.cmd, a.addr, a.clk)
           G == HistoryAfter(D, H, a.cmd, a.addr, a.clk)
           g == Append(h, a)
           n == Len(h) + 1
<1>1. /\ Len(h) \in Nat /\ DOMAIN h = 1..Len(h) /\ DOMAIN g = 1..n /\ g[n] = a /\ \A i \in DOMAIN h : g[i] = h[i] /\ h[i] \in S
      /\ \A i \in DOMAIN g : i # n => i \in DOMAIN h
  OBVIOUS
<1>2. a.cmd \in D.commands /\ a.clk \in Nat
  OBVIOUS
<1>3. HistoryRight(D, G, g)
  BY <1>2, HistoryStepRight
<1>4. HistoryTyped(D, G)
  BY <1>2, HistoryStepTyped
<1>5. ASSUME NEW p \in D.nodes, NEW i \in DOMAIN g, NEW f \in DOMAIN D.cons[Len(p)][g[i].cmd],
             NEW e \in D.cons[Len(p)][g[i].cmd][f], Holds(g, p, i, e)
      PROVE  U[p][f] >= g[i].clk + e.val
  <2> DEFINE c == g[i].cmd
             k == Cardinality(Later(g, p, c, i))
  <2>1. g[i] \in S /\ c \in D.commands /\ g[i].clk \in Nat
    <3>1. g[i] \in S
      BY <1>1
    <3> QED BY <3>1
  <2>2. Len(p) \in 1..D.bankLevel /\ p \in Seq(Nat) /\ Len(p) \in Nat \ {0}
    BY DEF TablesAreTidy
  <2>3. /\ f \in D.commands /\ e.val \in Int /\ e.window \in Nat \ {0} /\ e.sibling \in BOOLEAN
        /\ e.sibling => e.window = 1 /\ Len(p) > 1
    BY <2>1, <2>2 DEF TablesAreTidy
  <2>4. /\ DOMAIN U[p] = D.commands /\ U[p][f] \in Int /\ U[p][f] >= R[p][f]
        /\ (f \in DOMAIN D.cons[Len(p)][a.cmd] /\ p[1] = a.addr[1] /\ (Len(p) = 1 \/ Targeted(Front(p), a.addr))) =>
              \A d \in D.cons[Len(p)][a.cmd][f] :
                /\ d.sibling # Targeted(p, a.addr) /\ d.window = 1 => U[p][f] >= a.clk + d.val
                /\ (Targeted(p, a.addr) /\ ~d.sibling /\ d.window # 1 /\ G[p][a.cmd][d.window] >= 0) =>
                     U[p][f] >= G[p][a.cmd][d.window] + d.val
    BY <1>2, <2>3, ReadyAtNode
  <2>5. R[p][f] \in Int
    BY <2>3 DEF ReadyTyped
  <2>6. Targeted(p, a.addr) => p[1] = a.addr[1] /\ (Len(p) = 1 \/ Targeted(Front(p), a.addr))
    <3>1. Len(p) = 1 \/ Len(p) > 1
      <4>1. \A x \in Nat \ {0} : x = 1 \/ x > 1
        OBVIOUS
      <4> QED BY <2>2, <4>1, Zenon
    <3> QED BY <2>2, <3>1, TargetedAbove DEF Targeted
  <2> HIDE DEF U, G, g
  <2>7. CASE i = n
    <3>1. c = a.cmd /\ g[i] = a
      BY <1>1, <2>7
    <3>2. CASE ~e.sibling /\ Targeted(p, a.addr)
      <4>1. k >= e.window
        BY <1>5, <3>1, <3>2 DEF Holds
      <4>2. k = 1
        BY <2>7, <3>1, <3>2, LaterItself DEF g
      <4>3. e.window = 1
        <5> HIDE DEF k
        <5> QED BY <2>3, <4>1, <4>2
      <4>4. e.sibling # Targeted(p, a.addr)
        BY <3>2
      <4> QED BY <2>4, <2>6, <3>1, <3>2, <4>3, <4>4
    <3>3. CASE e.sibling /\ ~Targeted(p, a.addr) /\ Targeted(Front(p), a.addr)
      <4>1. p[1] = a.addr[1] /\ e.window = 1
        BY <2>2, <2>3, <3>3, TargetedAbove
      <4>2. e.sibling # Targeted(p, a.addr)
        BY <3>3
      <4> QED BY <2>4, <3>1, <3>3, <4>1, <4>2
    <3> QED BY <1>5, <3>1, <3>2, <3>3 DEF Holds
  <2>8. CASE i # n
    <3> DEFINE j == Cardinality(Later(h, p, c, i))
    <3>1. i \in DOMAIN h /\ g[i] = h[i]
      BY <1>1, <2>8
    <3>2. j \in Nat
      BY <3>1, LaterIsFinite
    <3>3. Holds(h, p, i, e) => R[p][f] >= h[i].clk + e.val
      BY <3>1 DEF ReadyRight
    <3>4. ASSUME Holds(h, p, i, e) PROVE U[p][f] >= g[i].clk + e.val
      <4>1. R[p][f] >= g[i].clk + e.val
        BY <3>1, <3>3, <3>4
      <4> QED BY <2>1, <2>3, <2>4, <2>5, <4>1
    <3>5. ASSUME ~Holds(h, p, i, e) PROVE U[p][f] >= g[i].clk + e.val
      <4>1. ~e.sibling /\ Targeted(p, h[i].addr) /\ k >= e.window /\ ~(j >= e.window)
        BY <1>5, <3>1, <3>5 DEF Holds
      <4>2. a.cmd = c /\ Targeted(p, a.addr)
        <5>1. CASE ~(a.cmd = c /\ Targeted(p, a.addr))
          <6>1. k = j
            BY <3>1, <5>1, LaterSame DEF g
          <6> HIDE DEF k, j
          <6> QED BY <4>1, <6>1
        <5> QED BY <5>1
      <4>3. k = j + 1
        BY ZenonT(30), <3>1, <4>2, LaterMore DEF g
      <4>4. i \in Later(h, p, c, i) /\ IsFiniteSet(Later(h, p, c, i))
        <5>1. i \in Later(h, p, c, i)
          BY <1>1, <3>1, <4>1 DEF Later
        <5> QED BY <3>1, <5>1, LaterIsFinite
      <4>5. j # 0
        BY <4>4, FS_EmptySet
      <4>6. k = e.window /\ e.window > 1 /\ e.window # 1
        <5> HIDE DEF k, j
        <5> QED BY <2>3, <3>2, <4>1, <4>3, <4>5
      <4>7. c \in DOMAIN D.window[Len(p)] /\ k <= D.window[Len(p)][c]
        BY <2>1, <2>2, <4>6 DEF Windowed
      <4>8. c \in DOMAIN G[p]
        BY <1>4, <4>7 DEF HistoryTyped
      <4>9. G[p][c][k] = g[i].clk
        <5>1. g[i].cmd = c /\ Targeted(p, g[i].addr) /\ i \in DOMAIN g
          BY <3>1, <4>1
        <5> QED BY <1>3, <4>7, <4>8, <5>1 DEF HistoryRight
      <4>10. G[p][c][e.window] = g[i].clk /\ G[p][c][e.window] >= 0
        <5>1. G[p][c][e.window] = g[i].clk
          BY <4>6, <4>9
        <5> QED BY <2>1, <5>1
      <4> HIDE DEF k, j
      <4> QED BY <2>4, <2>6, <4>1, <4>2, <4>6, <4>10
    <3> QED BY <3>4, <3>5
  <2> QED BY <2>7, <2>8
<1> HIDE DEF U, g
<1>6. ReadyRight(D, U, g)
  BY <1>5 DEF ReadyRight
<1> QED BY <1>6 DEF U, g

-----------------------------------------------------------------------------
(***************************************************************************)
(* The specification.                                                       *)
(***************************************************************************)
\* The device of a run is one the tables assumption is about.
LEMMA TheDeviceIsTidy ==
  ASSUME NEW i \in DOMAIN Loads
  PROVE  TablesAreTidy(Compiled[i]) /\ Windowed(Compiled[i])
<1>1. TablesAreTidy(Compiled[i])
  BY TablesAssumption
<1>2. PICK d, org, vals : Compiled[i] = TimedDevice(d, org, vals)
  BY DEF Compiled, DeviceOf
<1>3. Compiled[i] = Device(Specs[d], org, vals, constraints(d, vals))
  BY <1>2 DEF TimedDevice
<1>4. Windowed(Compiled[i])
  <2> DEFINE D == Compiled[i]
             spec == Specs[d]
             cons == constraints(d, vals)
  <2>1. D = Device(spec, org, vals, cons) /\ TablesAreTidy(D)
    BY <1>1, <1>3
  <2> HIDE DEF D, spec, cons
  <2>2. Windowed(D)
    BY <2>1, DeviceIsWindowed
  <2> QED BY <2>2 DEF D
<1> QED BY <1>1, <1>4

\* A command the device takes is ready at every addressed node down to its scope.
LEMMA ReadyWhenTaken ==
  ASSUME NEW D, TablesAreTidy(D), NEW R, ReadyTyped(D, R), NEW c \in D.commands, NEW addr, NEW now \in Nat,
         check_ready(D, R, c, addr, now), NEW p \in D.nodes, Len(p) <= D.reach[c], Targeted(p, addr)
  PROVE  now >= R[p][c]
<1> DEFINE P == { q \in D.nodes : Len(q) <= D.reach[c] /\ Targeted(q, addr) }
           X == { R[q][c] : q \in P }
           r == [q \in P |-> R[q][c]]
<1>1. IsFiniteSet(P)
  <2>1. IsFiniteSet(D.nodes)
    BY DEF TablesAreTidy
  <2>2. P \subseteq D.nodes
    OBVIOUS
  <2> HIDE DEF P
  <2> QED BY <2>1, <2>2, FS_Subset
<1>2. p \in P /\ \A q \in P : R[q][c] \in Int
  BY DEF ReadyTyped
<1>3. now >= Max(X)
  BY DEF check_ready, ReadyAt
<1> HIDE DEF P
<1>4. IsFiniteSet(X)
  <2>1. \A x \in X : \E q \in P : x = r[q]
    OBVIOUS
  <2> HIDE DEF X, r
  <2> QED BY <1>1, <2>1, FiniteValues
<1>5. X \subseteq Int /\ R[p][c] \in X
  BY <1>2
<1> HIDE DEF X
<1>6. Max(X) \in Int /\ R[p][c] <= Max(X) /\ R[p][c] \in Int
  BY <1>4, <1>5, MaxIs
<1> QED BY <1>3, <1>6

LEMMA InitInvariant == Init => DeviceInv
<1> SUFFICES ASSUME Init PROVE DeviceInv
  OBVIOUS
<1>1. CASE InitPreset
  <2>1. load = 0 /\ clk = 0
    BY <1>1 DEF Init, InitPreset
  <2> QED BY <2>1 DEF DeviceInv
<1>2. CASE InitLoad
  <2>1. PICK i \in DOMAIN Loads : load = i /\ ready = InitReady(Compiled[i]) /\ history = InitHistory(Compiled[i])
    BY <1>2 DEF InitLoad
  <2>2. clk = 0 /\ log = << >>
    BY DEF Init
  <2> DEFINE D == Compiled[i]
  <2>3. TablesAreTidy(D) /\ Windowed(D)
    BY TheDeviceIsTidy
  <2>4. TheDevice = D
    BY <2>1 DEF TheDevice
  <2>5. ready = InitReady(D) /\ history = InitHistory(D)
    BY <2>1
  <2> HIDE DEF D
  <2>6. ReadyTyped(D, ready)
    BY <2>5 DEF ReadyTyped, InitReady
  <2>7. HistoryTyped(D, history)
    <3>1. \A p \in D.nodes : \A c \in DOMAIN D.window[Len(p)] : history[p][c] = [k \in 1..D.window[Len(p)][c] |-> -1]
      BY <2>5 DEF InitHistory
    <3>2. DOMAIN history = D.nodes /\ \A p \in D.nodes : DOMAIN history[p] = DOMAIN D.window[Len(p)]
      BY <2>5 DEF InitHistory
    <3>3. ASSUME NEW p \in D.nodes, NEW c \in DOMAIN history[p]
          PROVE  history[p][c] \in [1..D.window[Len(p)][c] -> Int]
      <4> DEFINE w == D.window[Len(p)][c]
      <4>1. history[p][c] = [k \in 1..w |-> -1]
        BY <3>1, <3>2
      <4> HIDE DEF w
      <4>2. [k \in 1..w |-> -1] \in [1..w -> Int]
        OBVIOUS
      <4>3. history[p][c] \in [1..w -> Int]
        BY <4>1, <4>2, Zenon
      <4> QED BY <4>3 DEF w
    <3> QED BY <3>2, <3>3 DEF HistoryTyped
  <2>8. HistoryRight(D, history, log) /\ ReadyRight(D, ready, log)
    BY <2>2 DEF HistoryRight, ReadyRight
  <2>9. log \in Seq(Command(D))
    BY <2>2
  <2> QED BY <2>1, <2>2, <2>4, <2>6, <2>7, <2>8, <2>9 DEF DeviceInv
<1> QED BY <1>1, <1>2 DEF Init

\* A step of the controller and of the device.
LEMMA IssueStep ==
  ASSUME NEW D, TablesAreTidy(D), Windowed(D), NEW r \in Loads[load].requests, NextCommand(D, r) \in D.commands,
         clk \in Nat, log \in Seq(Command(D)), ReadyTyped(D, ready), HistoryTyped(D, history),
         HistoryRight(D, history, log), ReadyRight(D, ready, log), Issue(D, r),
         NEW g, log' = g, NEW R, ready' = R, NEW H, history' = H
  PROVE  /\ g \in Seq(Command(D)) /\ ReadyTyped(D, R) /\ HistoryTyped(D, H)
         /\ HistoryRight(D, H, g) /\ ReadyRight(D, R, g)
         /\ \E a \in Command(D) : /\ g = Append(log, a)
                                  /\ check_ready(D, ready, a.cmd, a.addr, a.clk)
<1> DEFINE a == [cmd |-> NextCommand(D, r), addr |-> r.addr, clk |-> clk]
<1>1. a \in Command(D)
  BY DEF Command
<1>2. /\ a.cmd \in D.commands /\ a.clk \in Nat
      /\ R = update_timing(D, ready, history, a.cmd, a.addr, a.clk)
      /\ H = HistoryAfter(D, history, a.cmd, a.addr, a.clk)
      /\ g = Append(log, a)
      /\ check_ready(D, ready, a.cmd, a.addr, a.clk)
  BY DEF Issue
<1>3. \A s \in Command(D) : s.cmd \in D.commands /\ s.clk \in Nat
  BY DEF Command
<1> HIDE DEF a
<1>4. ReadyTyped(D, R)
  BY <1>2, ReadyStepTyped
<1>5. HistoryTyped(D, H)
  BY <1>2, HistoryStepTyped
<1>6. HistoryRight(D, H, g)
  BY <1>1, <1>2, HistoryStepRight
<1>7. ReadyRight(D, R, g)
  BY <1>1, <1>2, <1>3, ReadyStepRight
<1>8. g \in Seq(Command(D))
  BY <1>1, <1>2
<1> QED BY <1>1, <1>2, <1>4, <1>5, <1>6, <1>7, <1>8

\* The time a clock step goes to is a later cycle.
LEMMA TickGoesOn == ASSUME NEW D, clk \in Nat, Tick(D) PROVE clk' \in Nat /\ UNCHANGED <<load, ready, history, log>>
<1> DEFINE later == { t \in Events(D) \cap Nat : t > clk }
<1>1. later # {} /\ clk' = Min(later)
  BY DEF Tick
<1>2. \E x \in later : \A y \in later : x <= y
  <2>1. later \subseteq Nat
    OBVIOUS
  <2> HIDE DEF later
  <2> QED BY <1>1, <2>1, Smallest
<1>3. Min(later) \in later /\ later \subseteq Nat
  <2>1. later \subseteq Nat
    OBVIOUS
  <2> HIDE DEF later
  <2> QED BY <1>2, <2>1 DEF Min
<1> QED BY <1>1, <1>3 DEF Tick

-----------------------------------------------------------------------------
(***************************************************************************)
(* The constraints of the table.                                            *)
(***************************************************************************)
\* What TimingRespected says of a log.
TimingOf(D, g) ==
  \A i \in 1..Len(g) - 1 : \A p \in D.nodes :
    LET entries == D.cons[Len(p)][g[i].cmd]
        since == Cardinality({ j \in i..Len(g) - 1 : g[j].cmd = g[i].cmd /\ Targeted(p, g[j].addr) })
    IN  (Targeted(p, g[Len(g)].addr) /\ g[Len(g)].cmd \in DOMAIN entries /\ ~UncheckedByScope(D, p, g[Len(g)].cmd)) =>
          \A e \in entries[g[Len(g)].cmd] :
            (\/ ~e.sibling /\ Targeted(p, g[i].addr) /\ since = e.window
             \/ e.sibling /\ ~Targeted(p, g[i].addr) /\ Targeted(Front(p), g[i].addr))
            => g[Len(g)].clk >= g[i].clk + e.val

LEMMA TimingIsOfTheLog == TimingRespected <=> (load # 0 => TimingOf(TheDevice, log))
BY ZenonT(30) DEF TimingRespected, TimingOf, SinceFor

\* A command that is ready respects them.
LEMMA ReadyRespects ==
  ASSUME NEW D, TablesAreTidy(D), NEW R, ReadyTyped(D, R),
         NEW S, NEW h \in Seq(S), ReadyRight(D, R, h), \A s \in S : s.cmd \in D.commands /\ s.clk \in Nat,
         NEW a \in S, check_ready(D, R, a.cmd, a.addr, a.clk)
  PROVE  TimingOf(D, Append(h, a))
<1> DEFINE g == Append(h, a)
           n == Len(h) + 1
<1>1. /\ Len(h) \in Nat /\ DOMAIN h = 1..Len(h) /\ Len(g) = n /\ Len(g) - 1 = Len(h) /\ g[n] = a
      /\ \A i \in DOMAIN h : g[i] = h[i] /\ h[i] \in S
  OBVIOUS
<1>2. ASSUME NEW i \in DOMAIN h, NEW p \in D.nodes, Targeted(p, a.addr), a.cmd \in DOMAIN D.cons[Len(p)][h[i].cmd],
             ~UncheckedByScope(D, p, a.cmd), NEW e \in D.cons[Len(p)][h[i].cmd][a.cmd],
             \/ ~e.sibling /\ Targeted(p, h[i].addr) /\ Cardinality(Later(h, p, h[i].cmd, i)) = e.window
             \/ e.sibling /\ ~Targeted(p, h[i].addr) /\ Targeted(Front(p), h[i].addr)
      PROVE  a.clk >= h[i].clk + e.val
  <2>1. h[i].cmd \in D.commands /\ h[i].clk \in Nat /\ a.cmd \in D.commands /\ a.clk \in Nat
    <3>1. h[i] \in S
      BY <1>1
    <3> QED BY <3>1
  <2>2. Len(p) \in 1..D.bankLevel /\ Len(p) \in Nat /\ D.reach[a.cmd] \in Nat
    BY <2>1 DEF TablesAreTidy
  <2>3. e.val \in Int /\ e.window \in Nat
    BY <1>2, <2>1, <2>2 DEF TablesAreTidy
  <2>4. Len(p) <= D.reach[a.cmd]
    <3>1. CASE D.spec.levels[2] = "pseudochannel"
      BY <1>2, <2>2, <3>1 DEF UncheckedByScope
    <3>2. CASE D.spec.levels[2] # "pseudochannel"
      BY <1>2, <2>1, <2>2, <3>2 DEF TablesAreTidy
    <3> QED BY <3>1, <3>2
  <2>5. a.clk >= R[p][a.cmd]
    BY <1>2, <2>1, <2>4, ReadyWhenTaken
  <2>6. Holds(h, p, i, e)
    <3> DEFINE k == Cardinality(Later(h, p, h[i].cmd, i))
    <3>1. k = e.window => k >= e.window
      <4> HIDE DEF k
      <4> QED BY <2>3
    <3> QED BY <1>2, <3>1 DEF Holds
  <2>7. R[p][a.cmd] >= h[i].clk + e.val
    BY <1>2, <2>6 DEF ReadyRight
  <2>8. R[p][a.cmd] \in Int
    BY <2>1 DEF ReadyTyped
  <2> QED BY <2>1, <2>3, <2>5, <2>7, <2>8
<1>3. ASSUME NEW i \in DOMAIN h, NEW p
      PROVE  { j \in i..Len(g) - 1 : g[j].cmd = g[i].cmd /\ Targeted(p, g[j].addr) } = Later(h, p, h[i].cmd, i)
  <2>1. \A j \in i..Len(h) : j \in DOMAIN h
    BY <1>1
  <2> HIDE DEF g
  <2> QED BY <1>1, <2>1 DEF Later
<1> HIDE DEF g, n
<1>4. TimingOf(D, g)
  <2> SUFFICES ASSUME NEW i \in 1..Len(g) - 1, NEW p \in D.nodes,
                      Targeted(p, g[Len(g)].addr), g[Len(g)].cmd \in DOMAIN D.cons[Len(p)][g[i].cmd],
                      ~UncheckedByScope(D, p, g[Len(g)].cmd), NEW e \in D.cons[Len(p)][g[i].cmd][g[Len(g)].cmd],
                      \/ /\ ~e.sibling /\ Targeted(p, g[i].addr)
                         /\ Cardinality({ j \in i..Len(g) - 1 : g[j].cmd = g[i].cmd /\ Targeted(p, g[j].addr) }) = e.window
                      \/ e.sibling /\ ~Targeted(p, g[i].addr) /\ Targeted(Front(p), g[i].addr)
               PROVE  g[Len(g)].clk >= g[i].clk + e.val
    BY DEF TimingOf
  <2>1. i \in DOMAIN h /\ g[i] = h[i] /\ g[Len(g)] = a
    BY <1>1
  <2>2. \/ ~e.sibling /\ Targeted(p, h[i].addr) /\ Cardinality(Later(h, p, h[i].cmd, i)) = e.window
        \/ e.sibling /\ ~Targeted(p, h[i].addr) /\ Targeted(Front(p), h[i].addr)
    BY <1>3, <2>1
  <2>3. Targeted(p, a.addr) /\ a.cmd \in DOMAIN D.cons[Len(p)][h[i].cmd] /\ ~UncheckedByScope(D, p, a.cmd)
        /\ e \in D.cons[Len(p)][h[i].cmd][a.cmd]
    BY <2>1
  <2> QED BY <1>2, <2>1, <2>2, <2>3
<1> QED BY <1>4 DEF g

\* The invariant with what it is for.
TimedInv == DeviceInv /\ TimingRespected

LEMMA StepInvariant == TimedInv /\ [Next]_vars => TimedInv'
<1> SUFFICES ASSUME TimedInv, [Next]_vars PROVE TimedInv'
  OBVIOUS
<1>1. CASE UNCHANGED <<clk, load, ready, history, log>>
  <2> DEFINE D == TheDevice
  <2>0. D' = D
    BY <1>1 DEF TheDevice
  <2>1. DeviceInv'
    BY <1>1, <2>0 DEF TimedInv, DeviceInv, Command
  <2>2. TimingRespected'
    <3>1. load # 0 => TimingOf(D, log)
      BY TimingIsOfTheLog DEF TimedInv
    <3> HIDE DEF D
    <3>2. (load # 0 => TimingOf(D, log))'
      BY <1>1, <2>0, <3>1
    <3> QED BY <3>2, TimingIsOfTheLog, PTL DEF D
  <2> QED BY <2>1, <2>2 DEF TimedInv
<1>2. ASSUME load # 0, NEW D, D = TheDevice, ~Exits(D),
             (\E r \in Pending(D) : Issue(D, r)) \/ Tick(D) \/ Finalize(D)
      PROVE  TimedInv'
  <2>1. load \in DOMAIN Loads /\ D = Compiled[load] /\ clk \in Nat
    BY <1>2 DEF TimedInv, DeviceInv, TheDevice
  <2>2. TablesAreTidy(D) /\ Windowed(D)
    BY <2>1, TheDeviceIsTidy
  <2>3. /\ log \in Seq(Command(D)) /\ ReadyTyped(D, ready) /\ HistoryTyped(D, history)
        /\ HistoryRight(D, history, log) /\ ReadyRight(D, ready, log)
    BY <1>2 DEF TimedInv, DeviceInv
  <2>4. ASSUME NEW r \in Pending(D), Issue(D, r) PROVE TimedInv'
    <3>1. r \in Loads[load].requests /\ NextCommand(D, r) \in D.commands
      BY <1>2 DEF Exits, Pending
    <3>2. PICK g, R, H : log' = g /\ ready' = R /\ history' = H
      OBVIOUS
    <3>3. /\ g \in Seq(Command(D)) /\ ReadyTyped(D, R) /\ HistoryTyped(D, H)
          /\ HistoryRight(D, H, g) /\ ReadyRight(D, R, g)
          /\ \E a \in Command(D) : g = Append(log, a) /\ check_ready(D, ready, a.cmd, a.addr, a.clk)
      BY <2>1, <2>2, <2>3, <2>4, <3>1, <3>2, IssueStep
    <3>4. TimingOf(D, g)
      <4>1. PICK a \in Command(D) : g = Append(log, a) /\ check_ready(D, ready, a.cmd, a.addr, a.clk)
        BY <3>3
      <4>2. \A s \in Command(D) : s.cmd \in D.commands /\ s.clk \in Nat
        BY DEF Command
      <4> QED BY <2>2, <2>3, <4>1, <4>2, ReadyRespects
    <3>5. load' = load /\ clk' = clk
      BY <2>4 DEF Issue
    <3>6. TheDevice' = D /\ Command(D)' = Command(D)
      BY <2>1, <3>5 DEF TheDevice, Command
    <3>7. DeviceInv'
      BY <2>1, <3>2, <3>3, <3>5, <3>6 DEF DeviceInv
    <3>8. TimingRespected'
      <4>1. (load # 0 => TimingOf(TheDevice, log))'
        BY <3>2, <3>4, <3>6
      <4> QED BY <4>1, TimingIsOfTheLog, PTL
    <3> QED BY <3>7, <3>8 DEF TimedInv
  <2>5. ASSUME clk' \in Nat, UNCHANGED <<load, ready, history, log>> PROVE TimedInv'
    <3>1. TheDevice' = D /\ Command(D)' = Command(D)
      BY <2>1, <2>5 DEF TheDevice, Command
    <3>2. DeviceInv'
      BY <2>1, <2>3, <2>5, <3>1 DEF DeviceInv
    <3>3. TimingRespected'
      <4>1. TimingOf(D, log)
        BY <1>2, TimingIsOfTheLog DEF TimedInv
      <4>2. (load # 0 => TimingOf(TheDevice, log))'
        BY <2>5, <3>1, <4>1
      <4> QED BY <4>2, TimingIsOfTheLog, PTL
    <3> QED BY <3>2, <3>3 DEF TimedInv
  <2>6. CASE Tick(D)
    BY <2>1, <2>5, <2>6, TickGoesOn
  <2>7. CASE Finalize(D)
    <3>1. UNCHANGED <<clk, load, ready, history, log>>
      BY <2>7 DEF Finalize
    <3> QED BY <1>1, <3>1
  <2> QED BY <1>2, <2>4, <2>6, <2>7
<1>3. CASE Done \/ UNCHANGED vars
  <2>1. UNCHANGED <<clk, load, ready, history, log>>
    BY <1>3 DEF Done, vars, deviceVars
  <2> QED BY <1>1, <2>1
<1> QED BY <1>2, <1>3 DEF Next

LEMMA InitTimed == Init => TimedInv
<1> SUFFICES ASSUME Init PROVE TimedInv
  OBVIOUS
<1>1. DeviceInv
  BY InitInvariant
<1>2. log = << >>
  BY DEF Init
<1>3. TimingRespected
  <2>1. Len(log) = 0 /\ 1..Len(log) - 1 = {}
    BY <1>2
  <2>2. load # 0 => TimingOf(TheDevice, log)
    <3> DEFINE D == TheDevice
    <3> HIDE DEF D
    <3>1. TimingOf(D, log)
      BY <2>1 DEF TimingOf
    <3> QED BY <3>1 DEF D
  <2> QED BY <2>2, TimingIsOfTheLog
<1> QED BY <1>1, <1>3 DEF TimedInv

\* The invariant: the log is one of commands of the device, the histories hold the cycles of the latest
\* commands that addressed their node, and what any command of the log holds back is not ready before its
\* time; and with it, the constraints of the table are respected.
THEOREM DeviceInvariant == Spec => []TimedInv
BY InitTimed, StepInvariant, PTL DEF Spec

\* For every device whose tables are tidy, in every run of it: a command is issued only when every timing
\* constraint between it and the commands before it is met, at every level, for every window and towards
\* siblings, whatever the presets, the requests and their order.
THEOREM TimingIsRespected == Spec => []TimingRespected
<1>1. TimedInv => TimingRespected
  BY DEF TimedInv
<1> QED BY <1>1, DeviceInvariant, PTL

-----------------------------------------------------------------------------
(***************************************************************************)
(* The data bus.                                                            *)
(***************************************************************************)
\* The levels at which a device has a prerequisite for a command.
HandlersBuilt(D) ==
  \A c \in D.commands : D.asking[c] = { l \in 1..D.bankLevel : <<D.spec.levels[l], c>> \in DOMAIN D.spec.preqs }

LEMMA HandlersOfDevice ==
  ASSUME NEW spec, NEW org, NEW vals, NEW cons, NEW D, D = Device(spec, org, vals, cons)
  PROVE  HandlersBuilt(D)
<1> DEFINE bankLevel == CHOOSE i \in DOMAIN spec.levels : spec.levels[i] = "bank"
           commands == DOMAIN spec.scope
<1>1. /\ D.bankLevel = bankLevel /\ D.commands = commands /\ D.spec = spec
      /\ D.asking = [c \in commands |-> { l \in 1..bankLevel : <<spec.levels[l], c>> \in DOMAIN spec.preqs }]
  BY DEF Device
<1> HIDE DEF bankLevel, commands
<1>2. ASSUME NEW c \in commands
      PROVE  D.asking[c] = { l \in 1..bankLevel : <<spec.levels[l], c>> \in DOMAIN spec.preqs }
  BY <1>1
<1> QED BY <1>1, <1>2 DEF HandlersBuilt

\* A prerequisite is the command itself, one on rows, a synchronization, or the end of the program.
RowCommands == {"ACT", "PRE", "PREA", "PREsb", "ACT-1", "ACT-2", "CASRD", "CASWR", Exit}
LEMMA PrerequisiteIs ==
  ASSUME NEW D, TablesAreTidy(D), HandlersBuilt(D), NEW c \in D.commands, NEW b, NEW y, NEW addr, NEW now
  PROVE  get_preq_command(D, b, y, c, addr, now) \in {c} \cup RowCommands
<1> DEFINE A == D.asking[c]
           l == Min(A)
           handler == D.spec.preqs[<<D.spec.levels[l], c>>]
<1>1. CASE A = {}
  BY <1>1 DEF get_preq_command
<1>2. CASE A # {}
  <2>1. A = { k \in 1..D.bankLevel : <<D.spec.levels[k], c>> \in DOMAIN D.spec.preqs }
    BY DEF HandlersBuilt
  <2>2. A \subseteq Nat
    BY <2>1
  <2>3. l \in A
    <3> HIDE DEF A
    <3>1. \E x \in A : \A z \in A : x <= z
      BY <1>2, <2>2, Smallest
    <3> QED BY <3>1 DEF Min
  <2>4. handler \in PreqHandlers
    <3> HIDE DEF l, A
    <3>1. <<D.spec.levels[l], c>> \in DOMAIN D.spec.preqs
      BY <2>1, <2>3
    <3> QED BY <3>1 DEF TablesAreTidy
  <2> DEFINE below == { q \in D.banks : Below(q, NodeAt(addr, l)) }
             bk == b[NodeAt(addr, D.bankLevel)]
             same == { q \in below : q[D.bankLevel] = addr[D.bankLevel] }
  <2>5. get_preq_command(D, b, y, c, addr, now) =
          CASE handler = "RequireRowOpen"         -> RequireRowOpen(bk, c, RowOf(D, addr))
            [] handler = "RequireBankClosed"      -> RequireBankClosed(bk, c)
            [] handler = "RequireAllBanksClosed"  -> RequireAllBanksClosed(b, below, c)
            [] handler = "RequireSameBanksClosed" -> RequireSameBanksClosed(b, same, c)
            [] handler = "ChannelRequireAllBanksClosed" -> ChannelRequireAllBanksClosed(b, below, c)
            [] handler = "RequireSynced"          -> RequireSynced(bk, y, c, now)
            [] handler = "RequireRankClosed"      -> c
    BY <1>2 DEF get_preq_command
  <2> HIDE DEF handler, below, bk, same, A, l
  <2>6. /\ RequireRowOpen(bk, c, RowOf(D, addr)) \in {c} \cup RowCommands
        /\ RequireBankClosed(bk, c) \in {c} \cup RowCommands
        /\ RequireAllBanksClosed(b, below, c) \in {c} \cup RowCommands
        /\ RequireSameBanksClosed(b, same, c) \in {c} \cup RowCommands
        /\ ChannelRequireAllBanksClosed(b, below, c) \in {c} \cup RowCommands
        /\ RequireSynced(bk, y, c, now) \in {c} \cup RowCommands
    <3>1. RequireRowOpen(bk, c, RowOf(D, addr)) \in {c} \cup RowCommands
      BY DEF RequireRowOpen, RowCommands
    <3>2. RequireBankClosed(bk, c) \in {c} \cup RowCommands
      BY DEF RequireBankClosed, RowCommands
    <3>3. RequireAllBanksClosed(b, below, c) \in {c} \cup RowCommands
      BY DEF RequireAllBanksClosed, RowCommands
    <3>4. RequireSameBanksClosed(b, same, c) \in {c} \cup RowCommands
      BY DEF RequireSameBanksClosed, RowCommands
    <3>5. ChannelRequireAllBanksClosed(b, below, c) \in {c} \cup RowCommands
      BY DEF ChannelRequireAllBanksClosed, RowCommands
    <3>6. RequireSynced(bk, y, c, now) \in {c} \cup RowCommands
      BY DEF RequireSynced, RowCommands
    <3> QED BY <3>1, <3>2, <3>3, <3>4, <3>5, <3>6
  <2> QED BY <2>4, <2>5, <2>6 DEF PreqHandlers
<1> QED BY <1>1, <1>2

\* An access is issued only as the command its request is for.
LEMMA AccessIsFinal ==
  ASSUME NEW D, TablesAreTidy(D), HandlersBuilt(D), NEW r, FinalCommand(D, r) \in D.commands,
         NextCommand(D, r) \in DataCommands(D)
  PROVE  NextCommand(D, r) = FinalCommand(D, r)
<1>1. NextCommand(D, r) \in {FinalCommand(D, r)} \cup RowCommands
  BY PrerequisiteIs DEF NextCommand
<1>2. NextCommand(D, r) \notin RowCommands
  BY DEF DataCommands, DataReads, DataWrites, Reads, Writes, Reads16, Writes16, RowCommands, Exit
<1> QED BY <1>1, <1>2

\* A table that keeps a command off the bus does so in a run.
LEMMA KeptOff ==
  ASSUME NEW D, TablesAreTidy(D), NEW R, ReadyTyped(D, R),
         NEW S, NEW h \in Seq(S), ReadyRight(D, R, h), \A s \in S : s.cmd \in D.commands /\ s.clk \in Nat,
         NEW a \in S, check_ready(D, R, a.cmd, a.addr, a.clk),
         NEW i \in DOMAIN h, NEW p \in D.nodes, Len(p) <= D.reach[a.cmd], Targeted(p, a.addr),
         NEW sibling \in BOOLEAN, Keeps(D, Len(p), h[i].cmd, a.cmd, sibling),
         ~sibling => Targeted(p, h[i].addr),
         sibling => ~Targeted(p, h[i].addr) /\ Targeted(Front(p), h[i].addr),
         BurstLength(D) \in Int, Latency(D, a.cmd) \in Int, Latency(D, h[i].cmd) \in Int
  PROVE  a.clk + Latency(D, a.cmd) >= h[i].clk + Latency(D, h[i].cmd) + BurstLength(D)
<1>1. h[i] \in S /\ h[i].cmd \in D.commands /\ h[i].clk \in Nat /\ a.cmd \in D.commands /\ a.clk \in Nat
  <2>1. h[i] \in S
    OBVIOUS
  <2> QED BY <2>1
<1>2. PICK e \in D.cons[Len(p)][h[i].cmd][a.cmd] :
        e.sibling = sibling /\ e.window = 1 /\ e.val + Latency(D, a.cmd) >= Latency(D, h[i].cmd) + BurstLength(D)
  BY DEF Keeps
<1>3. a.cmd \in DOMAIN D.cons[Len(p)][h[i].cmd] /\ Len(p) \in 1..D.bankLevel
  BY DEF Keeps, TablesAreTidy
<1>4. e.val \in Int
  BY <1>1, <1>3 DEF TablesAreTidy
<1>5. Cardinality(Later(h, p, h[i].cmd, i)) >= 1 \/ ~Targeted(p, h[i].addr)
  <2> SUFFICES ASSUME Targeted(p, h[i].addr) PROVE Cardinality(Later(h, p, h[i].cmd, i)) >= 1
    OBVIOUS
  <2>1. i \in Later(h, p, h[i].cmd, i)
    <3>1. i \in i..Len(h)
      OBVIOUS
    <3> QED BY <3>1 DEF Later
  <2>2. IsFiniteSet(Later(h, p, h[i].cmd, i)) /\ Cardinality(Later(h, p, h[i].cmd, i)) \in Nat
    BY LaterIsFinite
  <2>3. Cardinality(Later(h, p, h[i].cmd, i)) # 0
    BY <2>1, <2>2, FS_EmptySet
  <2> QED BY <2>2, <2>3
<1>6. Holds(h, p, i, e)
  BY <1>2, <1>5 DEF Holds
<1>7. R[p][a.cmd] >= h[i].clk + e.val /\ R[p][a.cmd] \in Int
  BY <1>1, <1>3, <1>6 DEF ReadyRight, ReadyTyped
<1>8. a.clk >= R[p][a.cmd]
  BY <1>1, ReadyWhenTaken
<1>9. \A t, b \in Nat : \A v, x, y, n, q \in Int :
        (v + x >= y + n /\ q >= b + v /\ t >= q) => t + x >= b + y + n
  OBVIOUS
<1> DEFINE x == Latency(D, a.cmd)  y == Latency(D, h[i].cmd)  n == BurstLength(D)
           t == a.clk  b == h[i].clk  v == e.val  q == R[p][a.cmd]
<1>10. t \in Nat /\ b \in Nat /\ v \in Int /\ x \in Int /\ y \in Int /\ n \in Int /\ q \in Int
  BY <1>1, <1>4, <1>7
<1>11. v + x >= y + n /\ q >= b + v /\ t >= q
  BY <1>2, <1>7, <1>8
<1> HIDE DEF x, y, n, t, b, v, q
<1>12. t + x >= b + y + n
  BY <1>9, <1>10, <1>11
<1> QED BY <1>12 DEF x, y, n, t, b

\* What BurstsDisjoint says of a log.
ApartOf(D, g) ==
  g[Len(g)].cmd \in DataCommands(D) =>
    \A i \in 1..Len(g) - 1 :
      (/\ g[i].cmd \in DataCommands(D) /\ SameBus(D, g[i], g[Len(g)])
       /\ ~(WriteAfterRead(D, g[i].cmd, g[Len(g)].cmd) /\ g[i].addr[2] # g[Len(g)].addr[2]))
      => Burst(D, g[i]) \cap Burst(D, g[Len(g)]) = {}

LEMMA BurstsAreOfTheLog ==
  BurstsDisjoint <=> (load # 0 /\ log # << >> /\ Bused(config[1]) => ApartOf(TheDevice, log))
BY DEF BurstsDisjoint, ApartOf, Last

\* The nodes an address leads to.
LEMMA NodesOf ==
  ASSUME NEW addr \in Seq(Int), Len(addr) > 1
  PROVE  /\ Len(NodeAt(addr, 1)) = 1 /\ NodeAt(addr, 1)[1] = addr[1]
         /\ Len(NodeAt(addr, 2)) = 2 /\ NodeAt(addr, 2)[1] = addr[1] /\ NodeAt(addr, 2)[2] = addr[2]
         /\ Len(Front(NodeAt(addr, 2))) = 1 /\ Front(NodeAt(addr, 2))[1] = addr[1]
<1>1. NodeAt(addr, 1) \in Seq(Int) /\ Len(NodeAt(addr, 1)) = 1 /\ NodeAt(addr, 1)[1] = addr[1]
  BY DEF NodeAt
<1> DEFINE q == NodeAt(addr, 2)
<1>2. q \in Seq(Int) /\ Len(q) = 2 /\ q[1] = addr[1] /\ q[2] = addr[2]
  BY DEF NodeAt
<1> HIDE DEF q
<1>3. Len(Front(q)) = 1 /\ Front(q)[1] = q[1]
  BY <1>2 DEF Front
<1> QED BY <1>1, <1>2, <1>3 DEF q

\* A command that is ready finds the bus free.
LEMMA ReadyIsApart ==
  ASSUME NEW D, TablesAreTidy(D), BurstsAreSpaced(D), NEW R, ReadyTyped(D, R),
         NEW S, NEW h \in Seq(S), ReadyRight(D, R, h), \A s \in S : s.cmd \in D.commands /\ s.clk \in Nat,
         NEW a \in S, check_ready(D, R, a.cmd, a.addr, a.clk), a.addr \in Seq(Int), Len(a.addr) > D.bankLevel,
         a.cmd \in DataCommands(D) => NodeAt(a.addr, 1) \in D.nodes /\ NodeAt(a.addr, 2) \in D.nodes
  PROVE  ApartOf(D, Append(h, a))
<1> DEFINE g == Append(h, a)
           n == Len(h) + 1
<1>1. /\ Len(h) \in Nat /\ DOMAIN h = 1..Len(h) /\ Len(g) = n /\ Len(g) - 1 = Len(h) /\ g[n] = a
      /\ \A i \in DOMAIN h : g[i] = h[i] /\ h[i] \in S
  OBVIOUS
<1>2. ASSUME a.cmd \in DataCommands(D), NEW i \in DOMAIN h, h[i].cmd \in DataCommands(D), SameBus(D, h[i], a),
             ~(WriteAfterRead(D, h[i].cmd, a.cmd) /\ h[i].addr[2] # a.addr[2])
      PROVE  a.clk + Latency(D, a.cmd) >= h[i].clk + Latency(D, h[i].cmd) + BurstLength(D)
  <2> DEFINE p == NodeAt(a.addr, 1)
             q == NodeAt(a.addr, 2)
             c == h[i].cmd
             f == a.cmd
             b == h[i].addr
  <2>1. BurstLength(D) \in Int /\ Latency(D, f) \in Int /\ Latency(D, c) \in Int
    BY <1>2 DEF BurstsAreSpaced
  <2>2. /\ Len(p) = 1 /\ p[1] = a.addr[1] /\ Len(q) = 2 /\ q[1] = a.addr[1] /\ q[2] = a.addr[2]
        /\ Len(Front(q)) = 1 /\ Front(q)[1] = a.addr[1]
    <3>1. Len(a.addr) > 1
      BY DEF BurstsAreSpaced, TablesAreTidy
    <3> QED BY <3>1, NodesOf
  <2>3. p \in D.nodes /\ q \in D.nodes
    BY <1>2
  <2>4. Len(p) <= D.reach[f] /\ Len(q) <= D.reach[f]
    <3>1. D.reach[f] \in Nat /\ D.reach[f] > 1
      BY <1>2 DEF BurstsAreSpaced, TablesAreTidy, DataCommands
    <3> DEFINE m == D.reach[f]
    <3> HIDE DEF m
    <3>2. 1 <= m /\ 2 <= m
      BY <3>1 DEF m
    <3> QED BY <2>2, <3>2 DEF m
  <2>5. b[1] = a.addr[1] /\ (D.spec.levels[2] = "pseudochannel" => b[2] = a.addr[2])
    BY <1>2 DEF SameBus
  <2> HIDE DEF p, q
  <2>6. Targeted(p, a.addr) /\ Targeted(p, b) /\ Targeted(q, a.addr) /\ Targeted(Front(q), b)
    BY <2>2, <2>5 DEF Targeted
  <2>7. Targeted(q, b) <=> b[2] \in {a.addr[2], AnyId}
    BY <2>2, <2>5 DEF Targeted
  <2>8. CASE Keeps(D, 1, c, f, FALSE)
    BY <2>1, <2>2, <2>3, <2>4, <2>6, <2>8, KeptOff
  <2>9. CASE Keeps(D, 2, c, f, FALSE) /\ Targeted(q, b)
    BY <2>1, <2>2, <2>3, <2>4, <2>6, <2>9, KeptOff
  <2>10. CASE Keeps(D, 2, c, f, TRUE) /\ ~Targeted(q, b)
    BY <2>1, <2>2, <2>3, <2>4, <2>6, <2>10, KeptOff
  <2>11. /\ Keeps(D, 1, c, f, FALSE) \/ Keeps(D, 2, c, f, FALSE)
         /\ \/ D.spec.levels[2] = "pseudochannel" \/ WriteAfterRead(D, c, f)
            \/ Keeps(D, 1, c, f, FALSE) \/ Keeps(D, 2, c, f, TRUE)
    BY <1>2 DEF BurstsAreSpaced
  <2>12. ~Targeted(q, b) => D.spec.levels[2] # "pseudochannel" /\ ~WriteAfterRead(D, c, f)
    <3>1. ~Targeted(q, b) => b[2] # a.addr[2]
      BY <2>7
    <3> QED BY <1>2, <2>5, <3>1
  <2> QED BY <2>8, <2>9, <2>10, <2>11, <2>12
<1>3. ASSUME a.cmd \in DataCommands(D), NEW i \in DOMAIN h, h[i].cmd \in DataCommands(D), SameBus(D, h[i], a),
             ~(WriteAfterRead(D, h[i].cmd, a.cmd) /\ h[i].addr[2] # a.addr[2])
      PROVE  Burst(D, h[i]) \cap Burst(D, a) = {}
  <2> DEFINE x == h[i].clk + Latency(D, h[i].cmd)
             y == a.clk + Latency(D, a.cmd)
             w == BurstLength(D)
  <2>1. y >= x + w
    BY <1>2, <1>3
  <2>2. x \in Int /\ y \in Int /\ w \in Int
    <3>1. h[i].clk \in Nat /\ a.clk \in Nat
      BY <1>1
    <3> QED BY <1>3, <3>1 DEF BurstsAreSpaced
  <2>3. Burst(D, h[i]) = x..(x + w - 1) /\ Burst(D, a) = y..(y + w - 1)
    BY DEF Burst
  <2> HIDE DEF x, y, w
  <2> QED BY <2>1, <2>2, <2>3
<1> HIDE DEF g, n
<1>4. ApartOf(D, g)
  <2>1. \A i \in 1..Len(g) - 1 : i \in DOMAIN h /\ g[i] = h[i]
    BY <1>1
  <2>2. g[Len(g)] = a
    BY <1>1
  <2> QED BY <1>3, <2>1, <2>2 DEF ApartOf
<1> QED BY <1>4 DEF g

\* The invariant of the bus: the devices of the runs, with the timing, and the bursts apart.
BusInv == TimedInv /\ (load # 0 => config[1] = Loads[load].device) /\ BurstsDisjoint

LEMMA BuiltHandlers == ASSUME NEW i \in DOMAIN Loads PROVE HandlersBuilt(Compiled[i])
<1>1. PICK d, org, vals : Compiled[i] = TimedDevice(d, org, vals)
  BY DEF Compiled, DeviceOf
<1>2. Compiled[i] = Device(Specs[d], org, vals, constraints(d, vals))
  BY <1>1 DEF TimedDevice
<1> DEFINE D == Compiled[i]
           spec == Specs[d]
           cons == constraints(d, vals)
<1>3. D = Device(spec, org, vals, cons)
  BY <1>2
<1> HIDE DEF D, spec, cons
<1>4. HandlersBuilt(D)
  BY <1>3, HandlersOfDevice
<1> QED BY <1>4 DEF D

LEMMA TheDeviceHasItsBus ==
  ASSUME NEW i \in DOMAIN Loads, Bused(Loads[i].device)
  PROVE  /\ BurstsAreSpaced(Compiled[i]) /\ HandlersBuilt(Compiled[i])
         /\ \A r \in Loads[i].requests : Addressed(Compiled[i], r)
<1>1. BurstsAreSpaced(Compiled[i]) /\ \A r \in Loads[i].requests : Addressed(Compiled[i], r)
  BY BusAssumption
<1>2. HandlersBuilt(Compiled[i])
  BY BuiltHandlers
<1> QED BY <1>1, <1>2

LEMMA IssueApart ==
  ASSUME NEW D, TablesAreTidy(D), BurstsAreSpaced(D), HandlersBuilt(D),
         NEW r \in Loads[load].requests, Addressed(D, r), NextCommand(D, r) \in D.commands,
         clk \in Nat, log \in Seq(Command(D)), ReadyTyped(D, ready), ReadyRight(D, ready, log), Issue(D, r),
         NEW g, log' = g
  PROVE  ApartOf(D, g)
<1> DEFINE a == [cmd |-> NextCommand(D, r), addr |-> r.addr, clk |-> clk]
<1>1. a \in Command(D) /\ \A s \in Command(D) : s.cmd \in D.commands /\ s.clk \in Nat
  BY DEF Command
<1>2. a.cmd = NextCommand(D, r) /\ a.addr = r.addr /\ g = Append(log, a) /\ check_ready(D, ready, a.cmd, a.addr, a.clk)
  BY DEF Issue
<1> HIDE DEF a
<1>3. a.addr \in Seq(Int) /\ Len(a.addr) > D.bankLevel
  BY <1>2 DEF Addressed
<1>4. a.cmd \in DataCommands(D) => NodeAt(a.addr, 1) \in D.nodes /\ NodeAt(a.addr, 2) \in D.nodes
  BY <1>2, AccessIsFinal DEF Addressed
<1> QED BY <1>1, <1>2, <1>3, <1>4, ReadyIsApart

LEMMA StepBusInvariant == BusInv /\ [Next]_vars => BusInv'
<1> SUFFICES ASSUME BusInv, [Next]_vars PROVE BusInv'
  OBVIOUS
<1>1. TimedInv'
  BY StepInvariant DEF BusInv
<1>2. UNCHANGED <<load, config>>
  BY DEF Next, Issue, Tick, Finalize, Done, vars
<1>3. (load # 0 => config[1] = Loads[load].device)'
  BY <1>2 DEF BusInv
<1>4. ASSUME NEW g, log' = g, load # 0 /\ g # << >> /\ Bused(config[1]) => ApartOf(TheDevice, g)
      PROVE  BusInv'
  <2> DEFINE D == TheDevice
  <2>1. D' = D
    BY <1>2 DEF TheDevice
  <2>2. load # 0 /\ g # << >> /\ Bused(config[1]) => ApartOf(D, g)
    BY <1>4
  <2> HIDE DEF D
  <2>3. (load # 0 /\ log # << >> /\ Bused(config[1]) => ApartOf(D, log))'
    BY <1>2, <1>4, <2>1, <2>2
  <2>4. BurstsDisjoint'
    BY <2>3, BurstsAreOfTheLog, PTL DEF D
  <2> QED BY <1>1, <1>3, <2>4 DEF BusInv
<1>5. CASE log' = log
  <2>1. load # 0 /\ log # << >> /\ Bused(config[1]) => ApartOf(TheDevice, log)
    BY BurstsAreOfTheLog DEF BusInv
  <2> QED BY <1>4, <1>5, <2>1
<1>6. ASSUME load # 0, NEW D, D = TheDevice, ~Exits(D), NEW r \in Pending(D), Issue(D, r)
      PROVE  BusInv'
  <2>1. PICK g : log' = g
    OBVIOUS
  <2>2. load \in DOMAIN Loads /\ D = Compiled[load] /\ clk \in Nat
    BY <1>6 DEF BusInv, TimedInv, DeviceInv, TheDevice
  <2>3. r \in Loads[load].requests /\ NextCommand(D, r) \in D.commands
    BY <1>6 DEF Exits, Pending
  <2>4. log \in Seq(Command(D)) /\ ReadyTyped(D, ready) /\ ReadyRight(D, ready, log)
    BY <1>6 DEF BusInv, TimedInv, DeviceInv
  <2>5. ASSUME Bused(config[1]) PROVE ApartOf(D, g)
    <3>1. Bused(Loads[load].device)
      BY <1>6, <2>5 DEF BusInv
    <3>2. TablesAreTidy(D)
      BY <2>2, TheDeviceIsTidy
    <3>3. BurstsAreSpaced(D) /\ HandlersBuilt(D) /\ Addressed(D, r)
      BY <2>2, <2>3, <3>1, TheDeviceHasItsBus
    <3> QED BY <1>6, <2>1, <2>2, <2>3, <2>4, <3>2, <3>3, IssueApart
  <2> QED BY <1>4, <1>6, <2>1, <2>5
<1>7. CASE UNCHANGED vars
  BY <1>5, <1>7 DEF vars
<1>8. CASE Next
  <2>1. CASE Done
    BY <1>5, <2>1 DEF Done, vars
  <2>2. ASSUME load # 0, NEW D, D = TheDevice, ~Exits(D),
               (\E r \in Pending(D) : Issue(D, r)) \/ Tick(D) \/ Finalize(D)
        PROVE  BusInv'
    <3>1. CASE Tick(D)
      BY <1>5, <3>1 DEF Tick
    <3>2. CASE Finalize(D)
      BY <1>5, <3>2 DEF Finalize
    <3> QED BY <1>6, <2>2, <3>1, <3>2
  <2> QED BY <1>8, <2>1, <2>2 DEF Next
<1> QED BY <1>7, <1>8

\* For every device whose table spaces its bursts: in every run of it, two bursts never overlap on a data
\* bus, but for a write after a read of another rank, which the table of no device with ranks keeps off.
THEOREM BurstsAreDisjoint == Spec => []BurstsDisjoint
<1>1. Init => BusInv
  <2> SUFFICES ASSUME Init PROVE BusInv
    OBVIOUS
  <2>1. TimedInv
    BY InitTimed
  <2>2. load # 0 => config[1] = Loads[load].device
    <3>1. CASE InitPreset
      <4>1. load = 0
        BY <3>1 DEF InitPreset
      <4> QED BY <4>1
    <3>2. CASE InitLoad
      <4>1. PICK i \in DOMAIN Loads :
              config = <<Loads[i].device, Loads[i].org, Loads[i].speed>> /\ load = i
        BY <3>2 DEF InitLoad
      <4> QED BY <4>1
    <3> QED BY <3>1, <3>2 DEF Init
  <2>3. log = << >>
    BY DEF Init
  <2>4. BurstsDisjoint
    BY <2>3, BurstsAreOfTheLog
  <2> QED BY <2>1, <2>2, <2>4 DEF BusInv
<1>2. BusInv => BurstsDisjoint
  BY DEF BusInv
<1> QED BY <1>1, <1>2, StepBusInvariant, PTL DEF Spec

-----------------------------------------------------------------------------
(***************************************************************************)
(* Refreshes.                                                               *)
(***************************************************************************)
LEMMA MinIs ==
  ASSUME NEW S, S \subseteq Nat, S # {}
  PROVE  Min(S) \in S /\ \A y \in S : Min(S) <= y
<1>1. \E x \in S : \A y \in S : x <= y
  BY Smallest
<1> QED BY <1>1 DEF Min

\* Banks are ordered by their ids, the first that differs ...
LEMMA BeforeIsTotal ==
  ASSUME NEW q \in Seq(Nat), NEW r \in Seq(Nat), Len(q) = Len(r), q # r
  PROVE  Before(q, r) \/ Before(r, q)
<1> DEFINE differ == { i \in 1..Len(q) : q[i] # r[i] }
<1>1. DOMAIN q = 1..Len(q) /\ DOMAIN r = 1..Len(q) /\ Len(q) \in Nat
  OBVIOUS
<1>2. differ # {} /\ differ \subseteq Nat
  <2>1. differ # {}
    <3> SUFFICES ASSUME differ = {} PROVE FALSE
      OBVIOUS
    <3>1. \A i \in 1..Len(q) : q[i] = r[i]
      OBVIOUS
    <3>2. q = r
      BY <1>1, <3>1
    <3> QED BY <3>2
  <2> QED BY <2>1
<1>3. PICK i \in differ : \A j \in differ : i <= j
  <2> HIDE DEF differ
  <2> QED BY <1>2, Smallest
<1>4. i \in 1..Len(q) /\ q[i] \in Nat /\ r[i] \in Nat /\ q[i] # r[i]
  BY <1>1
<1>5. \A j \in 1..i - 1 : q[j] = r[j]
  <2> SUFFICES ASSUME NEW j \in 1..i - 1, q[j] # r[j] PROVE FALSE
    OBVIOUS
  <2>1. j \in differ /\ ~(i <= j)
    BY <1>1, <1>4
  <2> QED BY <1>3, <2>1
<1>6. q[i] < r[i] \/ r[i] < q[i]
  BY <1>4
<1> QED BY <1>1, <1>4, <1>5, <1>6 DEF Before

LEMMA BeforeIsTransitive ==
  ASSUME NEW q \in Seq(Nat), NEW r \in Seq(Nat), NEW t \in Seq(Nat), Len(q) = Len(r), Len(r) = Len(t),
         Before(q, r), Before(r, t)
  PROVE  Before(q, t)
<1>1. PICK i \in DOMAIN q : q[i] < r[i] /\ \A j \in 1..i - 1 : q[j] = r[j]
  BY DEF Before
<1>2. PICK k \in DOMAIN r : r[k] < t[k] /\ \A j \in 1..k - 1 : r[j] = t[j]
  BY DEF Before
<1>3. i \in 1..Len(q) /\ k \in 1..Len(q) /\ Len(q) \in Nat /\ DOMAIN q = 1..Len(q)
  OBVIOUS
<1>4. \A j \in 1..Len(q) : q[j] \in Nat /\ r[j] \in Nat /\ t[j] \in Nat
  OBVIOUS
<1>5. CASE i < k
  <2>1. i \in 1..k - 1 /\ \A j \in 1..i - 1 : j \in 1..k - 1
    BY <1>3, <1>5
  <2>2. q[i] < t[i] /\ \A j \in 1..i - 1 : q[j] = t[j]
    BY <1>1, <1>2, <2>1
  <2> QED BY <1>3, <2>2 DEF Before
<1>6. CASE i = k
  <2>1. q[i] < t[i] /\ \A j \in 1..i - 1 : q[j] = t[j]
    BY <1>1, <1>2, <1>3, <1>4, <1>6
  <2> QED BY <1>3, <2>1 DEF Before
<1>7. CASE i > k
  <2>1. k \in 1..i - 1 /\ \A j \in 1..k - 1 : j \in 1..i - 1
    BY <1>3, <1>7
  <2>2. q[k] < t[k] /\ \A j \in 1..k - 1 : q[j] = t[j]
    BY <1>1, <1>2, <2>1
  <2> QED BY <1>3, <2>2 DEF Before
<1> QED BY <1>3, <1>5, <1>6, <1>7

\* ... so that some of them have a first.
LEMMA FirstBank ==
  ASSUME NEW S, IsFiniteSet(S), S # {}, S \subseteq Seq(Nat), NEW n, \A q \in S : Len(q) = n
  PROVE  \E q \in S : \A r \in S \ {q} : Before(q, r)
<1> DEFINE First(T) == \E q \in T : \A r \in T \ {q} : Before(q, r)
           Bad == {m \in Nat : \E T \in SUBSET S : T # {} /\ Cardinality(T) = m /\ ~First(T)}
<1>1. \A T \in SUBSET S : IsFiniteSet(T) /\ Cardinality(T) \in Nat
  BY FS_Subset, FS_CardinalityType
<1>2. Bad = {}
  <2> SUFFICES ASSUME Bad # {} PROVE FALSE
    OBVIOUS
  <2>1. PICK m \in Bad : \A k \in Bad : m <= k
    <3> HIDE DEF Bad
    <3>1. Bad \subseteq Nat
      BY DEF Bad
    <3> QED BY <3>1, Smallest
  <2>2. PICK T \in SUBSET S : T # {} /\ Cardinality(T) = m /\ ~First(T)
    BY <2>1
  <2>3. PICK a \in T : TRUE
    BY <2>2
  <2> DEFINE rest == T \ {a}
  <2>4. Cardinality(rest) = m - 1 /\ Cardinality(rest) \in Nat /\ rest \in SUBSET S
    <3>1. IsFiniteSet(T)
      BY <1>1
    <3>2. Cardinality(rest) = Cardinality(T) - 1
      BY <2>3, <3>1, FS_RemoveElement
    <3>3. rest \in SUBSET S
      OBVIOUS
    <3>4. Cardinality(rest) \in Nat
      BY <1>1, <3>3
    <3> QED BY <2>2, <3>2, <3>3, <3>4
  <2>5. rest # {}
    <3> SUFFICES ASSUME rest = {} PROVE FALSE
      OBVIOUS
    <3>1. T \ {a} = {}
      OBVIOUS
    <3>2. First(T)
      BY <2>3, <3>1
    <3> QED BY <2>2, <3>2
  <2>6. First(rest)
    <3>1. m \in Nat /\ m - 1 \in Nat /\ m - 1 \notin Bad
      <4>1. m \in Nat
        BY <2>1
      <4> HIDE DEF Bad
      <4> QED BY <2>1, <2>4, <4>1
    <3> HIDE DEF First
    <3> QED BY <2>4, <2>5, <3>1
  <2>7. PICK q \in rest : \A r \in rest \ {q} : Before(q, r)
    BY <2>6
  <2>8. Before(a, q) \/ Before(q, a)
    <3>1. a \in Seq(Nat) /\ q \in Seq(Nat) /\ Len(a) = Len(q) /\ a # q
      BY <2>3
    <3> QED BY <3>1, BeforeIsTotal
  <2>9. First(T)
    <3>1. CASE Before(q, a)
      <4>1. \A r \in T \ {q} : Before(q, r)
        BY <2>7, <3>1
      <4> QED BY <4>1
    <3>2. CASE Before(a, q)
      <4>1. ASSUME NEW r \in T \ {a} PROVE Before(a, r)
        <5>1. CASE r = q
          BY <3>2, <5>1
        <5>2. CASE r # q
          <6>1. Before(q, r)
            BY <2>7, <5>2
          <6>2. a \in Seq(Nat) /\ q \in Seq(Nat) /\ r \in Seq(Nat) /\ Len(a) = Len(q) /\ Len(q) = Len(r)
            BY <2>3
          <6> QED BY <3>2, <6>1, <6>2, BeforeIsTransitive
        <5> QED BY <5>1, <5>2
      <4> QED BY <2>3, <4>1
    <3> QED BY <2>8, <3>1, <3>2
  <2> QED BY <2>2, <2>9
<1>3. First(S)
  <2>1. S \in SUBSET S /\ Cardinality(S) \in Nat
    BY <1>1
  <2> HIDE DEF First
  <2> QED BY <1>2, <2>1
<1> QED BY <1>3

-----------------------------------------------------------------------------
\* The banks a handler looked at are all closed, but for one that refreshes.
FoundClosed(b, banks) == (\A q \in banks : b[q].state = "Closed") \/ \E q \in banks : b[q].state = "Refreshing"

\* What a request comes to: its own command, or an answer of the handler, and a precharge only if some bank
\* that is looked at is neither closed nor refreshing.
LEMMA PrerequisiteOf ==
  ASSUME NEW D, TablesAreTidy(D), HandlersBuilt(D), D.banks \subseteq D.nodes, \A q \in D.banks : Len(q) = D.bankLevel,
         NEW c \in D.commands, NEW b, NEW y, NEW addr, NEW now, NEW x,
         x = get_preq_command(D, b, y, c, addr, now), x # Exit
  PROVE  /\ x \in {c} \cup Answers[Asker(D, c)]
         /\ (x # c /\ x \in Precharges /\ Asker(D, c) # "ChannelRequireAllBanksClosed") =>
              \E q \in Asked(D, c, addr) : b[q].state \notin {"Closed", "Refreshing"}
         /\ (x = c /\ c \notin Precharges /\ Asker(D, c) \in ClosedAskers) => FoundClosed(b, Asked(D, c, addr))
         /\ Asker(D, c) = "RequireRowOpen" => x = RequireRowOpen(b[NodeAt(addr, D.bankLevel)], c, RowOf(D, addr))
         /\ Asker(D, c) = "RequireBankClosed" => x = RequireBankClosed(b[NodeAt(addr, D.bankLevel)], c)
         /\ Asker(D, c) = "RequireSynced" => x = RequireSynced(b[NodeAt(addr, D.bankLevel)], y, c, now)
<1> USE DEF FoundClosed, ClosedAskers
<1> DEFINE A == D.asking[c]
           l == Min(A)
           handler == D.spec.preqs[<<D.spec.levels[l], c>>]
<1>1. CASE A = {}
  <2>1. x = c /\ Asker(D, c) = "none"
    BY <1>1 DEF get_preq_command, Asker
  <2> QED BY <2>1
<1>2. CASE A # {}
  <2>1. A = { k \in 1..D.bankLevel : <<D.spec.levels[k], c>> \in DOMAIN D.spec.preqs }
    BY DEF HandlersBuilt
  <2>2. A \subseteq Nat
    BY <2>1
  <2>3. l \in A
    <3> HIDE DEF A
    <3> QED BY <1>2, <2>2, MinIs
  <2>4. handler \in PreqHandlers /\ Asker(D, c) = handler
    <3>1. Asker(D, c) = handler
      BY <1>2 DEF Asker
    <3> HIDE DEF l, A
    <3>2. <<D.spec.levels[l], c>> \in DOMAIN D.spec.preqs
      BY <2>1, <2>3
    <3> QED BY <3>1, <3>2 DEF TablesAreTidy
  <2> DEFINE below == { q \in D.banks : Below(q, NodeAt(addr, l)) }
             one == NodeAt(addr, D.bankLevel)
             same == { q \in below : q[D.bankLevel] = addr[D.bankLevel] }
  <2>5. x = CASE handler = "RequireRowOpen"         -> RequireRowOpen(b[one], c, RowOf(D, addr))
              [] handler = "RequireBankClosed"      -> RequireBankClosed(b[one], c)
              [] handler = "RequireAllBanksClosed"  -> RequireAllBanksClosed(b, below, c)
              [] handler = "RequireSameBanksClosed" -> RequireSameBanksClosed(b, same, c)
              [] handler = "ChannelRequireAllBanksClosed" -> ChannelRequireAllBanksClosed(b, below, c)
              [] handler = "RequireSynced"          -> RequireSynced(b[one], y, c, now)
              [] handler = "RequireRankClosed"      -> c
    BY <1>2 DEF get_preq_command
  <2>6. /\ handler \in {"RequireAllBanksClosed", "ChannelRequireAllBanksClosed"} => Asked(D, c, addr) = below
        /\ handler = "RequireSameBanksClosed" => Asked(D, c, addr) = same
        /\ handler \in {"RequireRowOpen", "RequireBankClosed", "RequireSynced", "RequireRankClosed"} =>
             Asked(D, c, addr) = {one}
    BY <2>4 DEF Asked
  <2>7. below \subseteq D.banks
    OBVIOUS
  <2>0. one = NodeAt(addr, D.bankLevel)
    OBVIOUS
  <2> HIDE DEF handler, below, one, same, A, l
  <2>8. CASE handler = "RequireRowOpen"
    <3>1. x = RequireRowOpen(b[one], c, RowOf(D, addr)) /\ Asked(D, c, addr) = {one} /\ Answers[Asker(D, c)] = {"ACT", "PRE"}
      BY <2>4, <2>5, <2>6, <2>8 DEF Answers
    <3>2. x \in {c, "ACT", "PRE", Exit} /\ ((x # c /\ x \in Precharges) => b[one].state \notin {"Closed", "Refreshing"})
      BY <3>1 DEF RequireRowOpen, Precharges
    <3> QED BY <2>0, <2>4, <2>8, <3>1, <3>2
  <2>9. CASE handler = "RequireBankClosed"
    <3>1. x = RequireBankClosed(b[one], c) /\ Asked(D, c, addr) = {one} /\ Answers[Asker(D, c)] = {"PRE"}
      BY <2>4, <2>5, <2>6, <2>9 DEF Answers
    <3>2. /\ x \in {c, "PRE", Exit} /\ ((x # c /\ x \in Precharges) => b[one].state \notin {"Closed", "Refreshing"})
          /\ (x = c /\ c \notin Precharges) => b[one].state \in {"Closed", "Refreshing"}
      BY <3>1 DEF RequireBankClosed, Precharges
    <3> QED BY <2>0, <2>4, <2>9, <3>1, <3>2
  <2>10. CASE handler = "RequireSynced"
    <3>1. x = RequireSynced(b[one], y, c, now) /\ Asked(D, c, addr) = {one}
          /\ Answers[Asker(D, c)] = {"ACT-1", "ACT-2", "PRE", "CASRD", "CASWR"}
      BY <2>4, <2>5, <2>6, <2>10 DEF Answers
    <3>2. /\ x \in {c, "ACT-1", "ACT-2", "PRE", "CASRD", "CASWR", Exit}
          /\ (x # c /\ x \in Precharges) => b[one].state \notin {"Closed", "Refreshing"}
      BY <3>1 DEF RequireSynced, Precharges
    <3> QED BY <2>0, <2>4, <2>10, <3>1, <3>2
  <2>11. CASE handler = "RequireRankClosed"
    <3>1. x = c
      BY <2>5, <2>11
    <3> QED BY <2>4, <2>11, <3>1
  <2>12. CASE handler = "RequireSameBanksClosed"
    <3>1. x = RequireSameBanksClosed(b, same, c) /\ Asked(D, c, addr) = same /\ Answers[Asker(D, c)] = {"PREsb"}
      BY <2>4, <2>5, <2>6, <2>12 DEF Answers
    <3>2. /\ x \in {c, "PREsb"} /\ (x # c => \E q \in same : b[q].state \notin {"Closed", "Refreshing"})
          /\ (x = c /\ c \notin Precharges) => \A q \in same : b[q].state \in {"Closed", "Refreshing"}
      BY <3>1 DEF RequireSameBanksClosed, Precharges
    <3> QED BY <2>4, <2>12, <3>1, <3>2
  <2>13. CASE handler = "ChannelRequireAllBanksClosed"
    <3>1. x = ChannelRequireAllBanksClosed(b, below, c) /\ Asked(D, c, addr) = below /\ Answers[Asker(D, c)] = {"PREA"}
      BY <2>4, <2>5, <2>6, <2>13 DEF Answers
    <3>2. x \in {c, "PREA"} /\ ((x = c /\ c \notin Precharges) => \A q \in below : b[q].state = "Closed")
      BY <3>1 DEF ChannelRequireAllBanksClosed, Precharges
    <3> QED BY <2>4, <2>13, <3>1, <3>2
  <2>14. CASE handler = "RequireAllBanksClosed"
    <3> DEFINE busy == { q \in below : b[q].state # "Closed" }
               first == CHOOSE q \in busy : \A r \in busy \ {q} : Before(q, r)
    <3>1. x = RequireAllBanksClosed(b, below, c) /\ Asked(D, c, addr) = below /\ Answers[Asker(D, c)] = {"PREA"}
      BY <2>4, <2>5, <2>6, <2>14 DEF Answers
    <3>2. x = IF busy = {} \/ b[first].state = "Refreshing" THEN c ELSE "PREA"
      BY <3>1 DEF RequireAllBanksClosed
    <3>3. busy # {} => first \in busy
      <4>1. IsFiniteSet(D.nodes) /\ \A q \in D.nodes : q \in Seq(Nat)
        BY DEF TablesAreTidy
      <4>2. busy \subseteq D.nodes
        BY <2>7
      <4>3. IsFiniteSet(busy) /\ busy \subseteq Seq(Nat) /\ \A q \in busy : Len(q) = D.bankLevel
        <5>1. \A q \in busy : Len(q) = D.bankLevel
          BY <2>7
        <5>2. IsFiniteSet(busy)
          <6> HIDE DEF busy
          <6> QED BY <4>1, <4>2, FS_Subset
        <5> QED BY <4>1, <4>2, <5>1, <5>2
      <4> HIDE DEF busy
      <4>4. busy # {} => \E q \in busy : \A r \in busy \ {q} : Before(q, r)
        BY <4>3, FirstBank
      <4> QED BY <4>4
    <3>4. \A q \in busy : q \in below /\ b[q].state # "Closed"
      OBVIOUS
    <3>5. busy = {} => \A q \in below : b[q].state = "Closed"
      OBVIOUS
    <3> HIDE DEF busy, first
    <3>6. x \in {c, "PREA"}
      BY <3>2
    <3>7. x # c => first \in below /\ b[first].state \notin {"Closed", "Refreshing"}
      BY <3>2, <3>3, <3>4
    <3>8. (x = c /\ c \notin Precharges) =>
            (\A q \in below : b[q].state = "Closed") \/ \E q \in below : b[q].state = "Refreshing"
      <4> SUFFICES ASSUME x = c, c \notin Precharges
                   PROVE  (\A q \in below : b[q].state = "Closed") \/ \E q \in below : b[q].state = "Refreshing"
        OBVIOUS
      <4>1. busy = {} \/ b[first].state = "Refreshing"
        BY <3>2 DEF Precharges
      <4> QED BY <3>3, <3>4, <3>5, <4>1
    <3> QED BY <2>4, <2>14, <3>1, <3>6, <3>7, <3>8
  <2> QED BY <2>4, <2>8, <2>9, <2>10, <2>11, <2>12, <2>13, <2>14 DEF PreqHandlers
<1> QED BY <1>1, <1>2

-----------------------------------------------------------------------------
\* The rows of the requests Q of a run, and what is known of its banks B and of its future actions F after
\* the log h: an action ends a command of the log after its delay, and a bank refreshes as long as one is
\* to end it; a bank has a row just when it is opened, or on its way to be.
RowsOf(D, Q) == { RowOf(D, r.addr) : r \in Q }
BankStates == {"Closed", "Opened", "Pre-Opened", "Refreshing"}
Bank(D, Q) == [state : BankStates, rows : SUBSET RowsOf(D, Q)]
Goes(D, Q, e, h, now) ==
  /\ e.cmd \in Refreshes(D) /\ e.clk \in Nat /\ e.clk > now
  /\ \E s \in Q : FinalCommand(D, s) = e.cmd /\ s.addr = e.addr
  /\ \E j \in DOMAIN h : h[j].cmd = e.cmd /\ h[j].addr = e.addr /\ e.clk = h[j].clk + Delay(D, e.cmd) - 1
Enders(D, F, q) == { i \in DOMAIN F : Covers(D, F[i], q) }
BankRight(D, b, F, q) ==
  /\ b.state = "Refreshing" <=> Enders(D, F, q) # {}
  /\ \A i, j \in Enders(D, F, q) : i = j
  /\ b.rows = {} <=> b.state \in {"Closed", "Refreshing"}
StatesRight(D, Q, B, F, h, now) ==
  /\ F \in Seq([cmd : D.commands, addr : { r.addr : r \in Q }, clk : Nat])
  /\ \A i \in DOMAIN F : Goes(D, Q, F[i], h, now)
  /\ B \in [D.banks -> Bank(D, Q)]
  /\ \A q \in D.banks : BankRight(D, B[q], F, q)

\* A command held back by another is issued no earlier than what that one does is over.
LEMMA HeldUntilOver ==
  ASSUME NEW D, TablesAreTidy(D), NEW R, ReadyTyped(D, R),
         NEW S, NEW h \in Seq(S), ReadyRight(D, R, h), \A s \in S : s.cmd \in D.commands /\ s.clk \in Nat,
         NEW f \in D.commands, NEW addr, NEW now \in Nat, check_ready(D, R, f, addr, now),
         NEW j \in DOMAIN h, HeldBack(D, h[j].cmd, h[j].addr, f, addr), Delay(D, h[j].cmd) \in Nat
  PROVE  now >= h[j].clk + Delay(D, h[j].cmd) - 1
<1>1. h[j] \in S /\ h[j].cmd \in D.commands /\ h[j].clk \in Nat
  <2>1. h[j] \in S
    OBVIOUS
  <2> QED BY <2>1
<1>2. PICK p \in D.nodes :
        /\ Len(p) <= D.reach[f] /\ Targeted(p, h[j].addr) /\ Targeted(p, addr) /\ f \in DOMAIN D.cons[Len(p)][h[j].cmd]
        /\ \E e \in D.cons[Len(p)][h[j].cmd][f] : ~e.sibling /\ e.window = 1 /\ e.val >= Delay(D, h[j].cmd) - 1
  BY DEF HeldBack
<1>3. PICK e \in D.cons[Len(p)][h[j].cmd][f] : ~e.sibling /\ e.window = 1 /\ e.val >= Delay(D, h[j].cmd) - 1
  BY <1>2
<1>4. Len(p) \in 1..D.bankLevel /\ e.val \in Int
  <2>1. Len(p) \in 1..D.bankLevel
    BY DEF TablesAreTidy
  <2> QED BY <1>1, <1>2, <2>1 DEF TablesAreTidy
<1>5. Cardinality(Later(h, p, h[j].cmd, j)) >= 1
  <2>1. j \in Later(h, p, h[j].cmd, j)
    <3>1. j \in j..Len(h)
      OBVIOUS
    <3> QED BY <1>2, <3>1 DEF Later
  <2>2. IsFiniteSet(Later(h, p, h[j].cmd, j)) /\ Cardinality(Later(h, p, h[j].cmd, j)) \in Nat
    BY LaterIsFinite
  <2>3. Cardinality(Later(h, p, h[j].cmd, j)) # 0
    BY <2>1, <2>2, FS_EmptySet
  <2> QED BY <2>2, <2>3
<1>6. Holds(h, p, j, e)
  BY <1>2, <1>3, <1>5 DEF Holds
<1>7. R[p][f] >= h[j].clk + e.val /\ R[p][f] \in Int
  BY <1>1, <1>2, <1>6 DEF ReadyRight, ReadyTyped
<1>8. now >= R[p][f]
  BY <1>2, ReadyWhenTaken
<1>9. \A t, b, d \in Nat : \A v, x \in Int : (v >= d - 1 /\ x >= b + v /\ t >= x) => t >= b + d - 1
  OBVIOUS
<1> DEFINE b == h[j].clk  d == Delay(D, h[j].cmd)  v == e.val  x == R[p][f]
<1>10. b \in Nat /\ d \in Nat /\ v \in Int /\ x \in Int /\ v >= d - 1 /\ x >= b + v /\ now >= x
  BY <1>1, <1>3, <1>4, <1>7, <1>8
<1> HIDE DEF b, d, v, x
<1>11. now >= b + d - 1
  BY <1>9, <1>10
<1> QED BY <1>11 DEF b, d

\* The device takes a command f that a request r comes to.
Taken(D, Q, R, h, B, F, y, r, f, now) ==
  /\ TablesAreTidy(D) /\ HandlersBuilt(D) /\ StatesAreTidy(D, Q) /\ RefreshesAreKept(D, Q)
  /\ h \in Seq([cmd : D.commands, addr : { s.addr : s \in Q }, clk : Nat])
  /\ ReadyTyped(D, R) /\ ReadyRight(D, R, h) /\ StatesRight(D, Q, B, F, h, now)
  /\ r \in Q /\ now \in Nat /\ f \in D.commands
  /\ f = get_preq_command(D, B, y, FinalCommand(D, r), r.addr, now) /\ check_ready(D, R, f, r.addr, now)
  /\ r.type = "all-bank-refresh" =>
       \A i \in DOMAIN h : h[i].cmd = "REFab" /\ h[i].addr = r.addr => now >= DueAt(D, h[i])

\* No command acts on a bank that refreshes.
LEMMA BankIsFree ==
  ASSUME NEW D, NEW Q, NEW R, NEW h, NEW B, NEW F, NEW y, NEW r, NEW f, NEW now,
         Taken(D, Q, R, h, B, F, y, r, f, now), NEW q \in Touched(D, f, r.addr)
  PROVE  q \in D.banks /\ Enders(D, F, q) = {} /\ B[q].state # "Refreshing" /\ f \in Leads(D, r)
<1> DEFINE S == [cmd : D.commands, addr : { s.addr : s \in Q }, clk : Nat]
<1>0. /\ TablesAreTidy(D) /\ HandlersBuilt(D) /\ StatesAreTidy(D, Q) /\ RefreshesAreKept(D, Q)
      /\ h \in Seq(S) /\ ReadyTyped(D, R) /\ ReadyRight(D, R, h) /\ StatesRight(D, Q, B, F, h, now)
      /\ r \in Q /\ now \in Nat /\ f \in D.commands
      /\ f = get_preq_command(D, B, y, FinalCommand(D, r), r.addr, now) /\ check_ready(D, R, f, r.addr, now)
      /\ r.type = "all-bank-refresh" =>
           \A i \in DOMAIN h : h[i].cmd = "REFab" /\ h[i].addr = r.addr => now >= DueAt(D, h[i])
      /\ \A s \in S : s.cmd \in D.commands /\ s.clk \in Nat
  BY DEF Taken
<1> HIDE DEF S
<1> USE <1>0
<1> DEFINE final == FinalCommand(D, r)
<1>1. q \in D.banks /\ \A c, a : Touched(D, c, a) \subseteq D.banks
  BY DEF Touched
<1>2. final \in D.commands /\ f # Exit
  BY DEF StatesAreTidy
<1>3. /\ f \in {final} \cup Answers[Asker(D, final)]
      /\ (f # final /\ f \in Precharges /\ Asker(D, final) # "ChannelRequireAllBanksClosed") =>
           \E p \in Asked(D, final, r.addr) : B[p].state \notin {"Closed", "Refreshing"}
  <2>1. D.banks \subseteq D.nodes /\ \A p \in D.banks : Len(p) = D.bankLevel
    BY DEF StatesAreTidy
  <2> HIDE DEF final
  <2> QED BY <1>2, <2>1, PrerequisiteOf DEF final
<1>4. f \in Leads(D, r)
  BY <1>3 DEF Leads
<1>5. BankRight(D, B[q], F, q)
  BY <1>1 DEF StatesRight
<1>6. Enders(D, F, q) = {}
  <2> SUFFICES ASSUME NEW i \in Enders(D, F, q) PROVE FALSE
    OBVIOUS
  <2>1. i \in DOMAIN F /\ Covers(D, F[i], q)
    BY DEF Enders
  <2>2. Goes(D, Q, F[i], h, now)
    BY <2>1 DEF StatesRight
  <2> DEFINE c == F[i].cmd
  <2>3. PICK s \in Q : FinalCommand(D, s) = c /\ s.addr = F[i].addr
    BY <2>2 DEF Goes
  <2>4. PICK j \in DOMAIN h : h[j].cmd = c /\ h[j].addr = F[i].addr /\ F[i].clk = h[j].clk + Delay(D, c) - 1
    BY <2>2 DEF Goes
  <2>5. c \in Refreshes(D) /\ F[i].clk > now /\ F[i].clk \in Nat
    BY <2>2 DEF Goes
  <2>6. c \in Leads(D, s)
    BY <2>3 DEF StatesAreTidy, Leads
  <2>7. RefreshIsTidy(D, c, s)
    BY <2>5, <2>6 DEF StatesAreTidy
  <2>8. Delay(D, c) \in Nat /\ Touched(D, c, s.addr) = Covered(D, c, s.addr)
    BY <2>7 DEF RefreshIsTidy
  <2>9. \A p \in D.banks : p \in Covered(D, c, s.addr) <=> Covers(D, F[i], p)
    BY <2>3 DEF Covered, Covers
  <2>10. h[j].clk \in Nat
    <3>1. h[j] \in S
      OBVIOUS
    <3> QED BY <3>1
  <2> HIDE DEF c
  <2>11. q \in Touched(D, c, s.addr) \cap Touched(D, f, r.addr)
    BY <1>1, <2>1, <2>8, <2>9
  <2>12. CASE HeldBack(D, c, s.addr, f, r.addr)
    <3>1. now >= h[j].clk + Delay(D, h[j].cmd) - 1
      BY <2>3, <2>4, <2>8, <2>12, HeldUntilOver
    <3> QED BY <2>4, <2>5, <2>8, <2>10, <3>1
  <2>13. CASE NotAskedFor(D, c, s.addr, f, r)
    <3>1. PICK p \in Asked(D, final, r.addr) : B[p].state \notin {"Closed", "Refreshing"}
      BY <1>3, <2>13 DEF NotAskedFor
    <3>2. p \in Touched(D, c, s.addr)
      BY <2>13, <3>1 DEF NotAskedFor
    <3>3. p \in D.banks /\ Covers(D, F[i], p)
      BY <1>1, <2>8, <2>9, <3>2
    <3>4. BankRight(D, B[p], F, p)
      BY <3>3 DEF StatesRight
    <3>5. Enders(D, F, p) # {}
      BY <2>1, <3>3 DEF Enders
    <3> QED BY <3>1, <3>4, <3>5 DEF BankRight
  <2>14. CASE PacedApart(D, c, s.addr, f, r)
    <3>1. /\ now >= h[j].clk + D.vals.nREFI - RefreshLag
          /\ D.vals.nREFI \in Int /\ D.vals.nREFI - RefreshLag >= Delay(D, c) - 1
      BY <2>3, <2>4, <2>14 DEF PacedApart, DueAt
    <3> DEFINE d == Delay(D, c)  n == D.vals.nREFI  b == h[j].clk
    <3>2. /\ b + d - 1 > now /\ now >= b + n - RefreshLag /\ n - RefreshLag >= d - 1
          /\ n \in Int /\ d \in Nat /\ b \in Nat /\ RefreshLag \in Nat
      BY <2>4, <2>5, <2>8, <2>10, <3>1, RefreshLagAssumption
    <3> HIDE DEF d, n, b
    <3> QED BY <3>2
  <2>15. \/ Touched(D, c, s.addr) \cap Touched(D, f, r.addr) = {}
         \/ HeldBack(D, c, s.addr, f, r.addr)
         \/ NotAskedFor(D, c, s.addr, f, r)
         \/ PacedApart(D, c, s.addr, f, r)
    <3>1. FinalCommand(D, s) = c /\ FinalCommand(D, s) \in Refreshes(D)
      BY <2>3, <2>5
    <3> QED BY <1>4, <3>1 DEF RefreshesAreKept
  <2> QED BY <2>11, <2>12, <2>13, <2>14, <2>15
<1>7. B[q].state # "Refreshing"
  BY <1>5, <1>6 DEF BankRight
<1> QED BY <1>1, <1>4, <1>6, <1>7

-----------------------------------------------------------------------------
\* What a command that is no refresh makes of a bank that does not refresh.
RowsKnown(b) == b.rows = {} <=> b.state \in {"Closed", "Refreshing"}
LEMMA EffectOfOther ==
  ASSUME NEW D, NEW Q, NEW a \in OtherActions, NEW row \in RowsOf(D, Q), NEW b \in Bank(D, Q),
         b.state # "Refreshing", RowsKnown(b)
  PROVE  LET x == BankEffect(a, b, row) IN x \in Bank(D, Q) /\ x.state # "Refreshing" /\ RowsKnown(x)
<1> DEFINE x == BankEffect(a, b, row)
<1> USE DEF Bank, RowsKnown
<1>1. CASE a = "ACT"
  <2>1. x = [state |-> "Opened", rows |-> b.rows \cup {row}]
    BY <1>1 DEF BankEffect
  <2> QED BY <2>1 DEF BankStates
<1>2. CASE a = "ACT-1"
  <2>1. x = [state |-> "Pre-Opened", rows |-> b.rows \cup {row}]
    BY <1>2 DEF BankEffect
  <2> QED BY <2>1 DEF BankStates
<1>3. CASE a \in {"PRE", "PREsb", "PREab"}
  <2>1. x = [state |-> "Closed", rows |-> {}]
    BY <1>3 DEF BankEffect
  <2> QED BY <2>1 DEF BankStates
<1>4. CASE a = "synchronize"
  <2>1. x = b
    BY <1>4 DEF BankEffect
  <2> QED BY <2>1
<1> QED BY <1>1, <1>2, <1>3, <1>4 DEF OtherActions

\* The banks after a command, and its future action, are right again.
LEMMA IssueStates ==
  ASSUME NEW D, NEW Q, NEW R, NEW h, NEW B, NEW F, NEW y, NEW r, NEW f, NEW now,
         Taken(D, Q, R, h, B, F, y, r, f, now),
         NEW C, C = update_states(D, B, f, r.addr), NEW G,
         G = IF f \in Refreshes(D) THEN Append(F, [cmd |-> f, addr |-> r.addr, clk |-> now + Delay(D, f) - 1]) ELSE F
  PROVE  StatesRight(D, Q, C, G, Append(h, [cmd |-> f, addr |-> r.addr, clk |-> now]), now)
<1> DEFINE Entry == [cmd : D.commands, addr : { s.addr : s \in Q }, clk : Nat]
           g == Append(h, [cmd |-> f, addr |-> r.addr, clk |-> now])
           new == [cmd |-> f, addr |-> r.addr, clk |-> now + Delay(D, f) - 1]
           T == Touched(D, f, r.addr)
           row == RowOf(D, r.addr)
<1>0. /\ TablesAreTidy(D) /\ HandlersBuilt(D) /\ StatesAreTidy(D, Q) /\ RefreshesAreKept(D, Q)
      /\ h \in Seq(Entry) /\ StatesRight(D, Q, B, F, h, now) /\ r \in Q /\ now \in Nat /\ f \in D.commands
      /\ f = get_preq_command(D, B, y, FinalCommand(D, r), r.addr, now)
  BY DEF Taken
<1> USE <1>0
<1>1. \A q \in T : q \in D.banks /\ Enders(D, F, q) = {} /\ B[q].state # "Refreshing" /\ f \in Leads(D, r)
  <2> SUFFICES ASSUME NEW q \in T
               PROVE  q \in D.banks /\ Enders(D, F, q) = {} /\ B[q].state # "Refreshing" /\ f \in Leads(D, r)
    OBVIOUS
  <2>1. q \in Touched(D, f, r.addr)
    OBVIOUS
  <2> HIDE DEF T
  <2> QED BY <2>1, BankIsFree
<1>2. F \in Seq(Entry) /\ B \in [D.banks -> Bank(D, Q)]
  BY DEF StatesRight
<1>3. /\ C \in [D.banks -> {C[q] : q \in D.banks}] /\ DOMAIN C = D.banks
      /\ \A q \in D.banks : C[q] = IF q \in T THEN BankEffect(ActionAt(D, f, r.addr, q), B[q], row) ELSE B[q]
  BY DEF update_states, Touched
<1>4. row \in RowsOf(D, Q)
  BY DEF RowsOf
<1>5. /\ Len(g) = Len(h) + 1 /\ Len(h) \in Nat /\ DOMAIN h = 1..Len(h) /\ DOMAIN g = 1..Len(h) + 1
      /\ \A j \in DOMAIN h : g[j] = h[j]
      /\ g[Len(h) + 1] = [cmd |-> f, addr |-> r.addr, clk |-> now]
  OBVIOUS
<1> HIDE DEF g, T, row
<1>6. ASSUME NEW e, Goes(D, Q, e, h, now) PROVE Goes(D, Q, e, g, now)
  <2>1. PICK j \in DOMAIN h : h[j].cmd = e.cmd /\ h[j].addr = e.addr /\ e.clk = h[j].clk + Delay(D, e.cmd) - 1
    BY <1>6 DEF Goes
  <2>2. j \in DOMAIN g /\ g[j] = h[j]
    BY <1>5
  <2>3. \E k \in DOMAIN g : g[k].cmd = e.cmd /\ g[k].addr = e.addr /\ e.clk = g[k].clk + Delay(D, e.cmd) - 1
    BY <2>1, <2>2
  <2> QED BY <1>6, <2>3 DEF Goes
<1>7. CASE f \notin Refreshes(D)
  <2>1. G = F
    BY <1>7
  <2>2. \A i \in DOMAIN G : Goes(D, Q, G[i], g, now)
    BY <1>6, <2>1 DEF StatesRight
  <2>3. ASSUME NEW q \in D.banks PROVE C[q] \in Bank(D, Q) /\ BankRight(D, C[q], G, q)
    <3>1. B[q] \in Bank(D, Q) /\ BankRight(D, B[q], F, q)
      BY <1>2 DEF StatesRight
    <3>2. CASE q \notin T
      BY <1>3, <2>1, <3>1, <3>2
    <3>3. CASE q \in T
      <4>1. f \in Leads(D, r) /\ B[q].state # "Refreshing" /\ Enders(D, F, q) = {}
        BY <1>1, <3>3
      <4>2. ActionAt(D, f, r.addr, q) \in OtherActions
        BY <1>7, <3>3, <4>1 DEF StatesAreTidy, T
      <4>3. C[q] = BankEffect(ActionAt(D, f, r.addr, q), B[q], row)
        BY <1>3, <3>3
      <4>4. C[q] \in Bank(D, Q) /\ C[q].state # "Refreshing" /\ RowsKnown(C[q])
        <5> DEFINE a == ActionAt(D, f, r.addr, q)  b == B[q]  x == C[q]
        <5>1. a \in OtherActions /\ row \in RowsOf(D, Q) /\ b \in Bank(D, Q) /\ b.state # "Refreshing"
              /\ RowsKnown(b) /\ x = BankEffect(a, b, row)
          BY <1>4, <3>1, <4>1, <4>2, <4>3 DEF BankRight, RowsKnown
        <5> HIDE DEF a, b, x
        <5>2. x \in Bank(D, Q) /\ x.state # "Refreshing" /\ RowsKnown(x)
          BY <5>1, EffectOfOther
        <5> QED BY <5>2 DEF x
      <4> QED BY <2>1, <4>1, <4>4 DEF RowsKnown, BankRight
    <3> QED BY <3>2, <3>3
  <2>4. C \in [D.banks -> Bank(D, Q)]
    BY <1>3, <2>3
  <2> QED BY <1>2, <2>1, <2>2, <2>3, <2>4 DEF StatesRight, g
<1>8. CASE f \in Refreshes(D)
  <2>1. G = Append(F, new) /\ Len(F) \in Nat /\ DOMAIN F = 1..Len(F) /\ DOMAIN G = 1..Len(F) + 1
        /\ G[Len(F) + 1] = new /\ \A i \in DOMAIN F : G[i] = F[i]
    BY <1>2, <1>8
  <2>2. f \in Leads(D, r)
    <3>1. D.banks \subseteq D.nodes /\ (\A p \in D.banks : Len(p) = D.bankLevel) /\ f # Exit /\ FinalCommand(D, r) \in D.commands
      BY DEF StatesAreTidy
    <3>2. f \in {FinalCommand(D, r)} \cup Answers[Asker(D, FinalCommand(D, r))]
      BY <3>1, PrerequisiteOf
    <3> QED BY <3>2 DEF Leads
  <2>3. RefreshIsTidy(D, f, r)
    BY <1>8, <2>2 DEF StatesAreTidy
  <2>4. /\ f = FinalCommand(D, r) /\ f \notin Precharges /\ Delay(D, f) \in Nat /\ Delay(D, f) >= 2
        /\ Asker(D, f) \in {"RequireBankClosed", "RequireAllBanksClosed", "RequireSameBanksClosed"}
        /\ T = Covered(D, f, r.addr) /\ T = Asked(D, f, r.addr)
    BY <2>3 DEF RefreshIsTidy, T
  <2>5. new \in Entry
    <3>1. \A d \in Nat : d >= 2 => now + d - 1 \in Nat
      OBVIOUS
    <3>2. now + Delay(D, f) - 1 \in Nat
      BY <2>4, <3>1
    <3>3. r.addr \in { s.addr : s \in Q }
      OBVIOUS
    <3> QED BY <3>2, <3>3
  <2>6. G \in Seq(Entry)
    <3> HIDE DEF Entry
    <3> QED BY <1>2, <2>1, <2>5
  <2>7. Goes(D, Q, new, g, now)
    <3>1. \A d \in Nat : d >= 2 => now + d - 1 > now
      OBVIOUS
    <3>2. now + Delay(D, f) - 1 > now
      BY <2>4, <3>1
    <3>3. g[Len(h) + 1].cmd = f /\ g[Len(h) + 1].addr = r.addr /\ g[Len(h) + 1].clk = now /\ Len(h) + 1 \in DOMAIN g
      BY <1>5
    <3>4. \E j \in DOMAIN g : g[j].cmd = new.cmd /\ g[j].addr = new.addr /\ new.clk = g[j].clk + Delay(D, new.cmd) - 1
      BY <3>3
    <3> QED BY <1>8, <2>4, <2>5, <3>2, <3>4 DEF Goes
  <2>8. ASSUME NEW i \in DOMAIN G PROVE Goes(D, Q, G[i], g, now)
    <3>1. CASE i \in DOMAIN F
      BY <1>6, <2>1, <3>1 DEF StatesRight
    <3>2. CASE i = Len(F) + 1
      <4> HIDE DEF new
      <4> QED BY <2>1, <2>7, <3>2
    <3> QED BY <2>1, <3>1, <3>2
  <2>9. \A q \in T : q \in D.banks /\ B[q].state = "Closed"
    <3>1. D.banks \subseteq D.nodes /\ (\A p \in D.banks : Len(p) = D.bankLevel) /\ f # Exit
      BY DEF StatesAreTidy
    <3>2. \/ \A q \in Asked(D, f, r.addr) : B[q].state = "Closed"
          \/ \E q \in Asked(D, f, r.addr) : B[q].state = "Refreshing"
      <4>1. f \in D.commands /\ f = get_preq_command(D, B, y, f, r.addr, now)
        BY <2>4
      <4>2. FoundClosed(B, Asked(D, f, r.addr))
        BY <2>4, <3>1, <4>1, PrerequisiteOf DEF ClosedAskers
      <4> QED BY <4>2 DEF FoundClosed
    <3> QED BY <1>1, <2>4, <3>2
  <2>10. ASSUME NEW q \in D.banks PROVE (Covers(D, new, q) <=> q \in T)
    BY <2>4 DEF Covered, Covers
  <2>11. ASSUME NEW q \in D.banks
         PROVE  Enders(D, G, q) = Enders(D, F, q) \cup (IF q \in T THEN {Len(F) + 1} ELSE {})
    <3>1. Covers(D, new, q) <=> q \in T
      BY <2>10
    <3> HIDE DEF new
    <3> QED BY <2>1, <3>1 DEF Enders
  <2>12. ASSUME NEW q \in D.banks PROVE C[q] \in Bank(D, Q) /\ BankRight(D, C[q], G, q)
    <3>1. B[q] \in Bank(D, Q) /\ BankRight(D, B[q], F, q)
      BY <1>2 DEF StatesRight
    <3>2. CASE q \notin T
      <4>1. Enders(D, G, q) = Enders(D, F, q) /\ C[q] = B[q]
        BY <1>3, <2>11, <3>2
      <4> QED BY <3>1, <4>1 DEF BankRight
    <3>3. CASE q \in T
      <4>1. Enders(D, G, q) = {Len(F) + 1}
        BY <1>1, <2>11, <3>3
      <4>2. ActionAt(D, f, r.addr, q) \in RefreshActions
        BY <1>8, <2>2, <3>3 DEF StatesAreTidy, T
      <4>3. C[q] = [B[q] EXCEPT !.state = "Refreshing"]
        BY <1>3, <3>3, <4>2 DEF BankEffect, RefreshActions
      <4>4. B[q].rows = {} /\ B[q] \in [state : BankStates, rows : SUBSET RowsOf(D, Q)]
        BY <2>9, <3>1, <3>3 DEF Bank, BankRight
      <4>5. C[q].state = "Refreshing" /\ C[q].rows = {} /\ C[q] \in Bank(D, Q)
        BY <4>3, <4>4 DEF Bank, BankStates
      <4> QED BY <4>1, <4>5 DEF BankRight
    <3> QED BY <3>2, <3>3
  <2>13. C \in [D.banks -> Bank(D, Q)]
    BY <1>3, <2>12
  <2> HIDE DEF new
  <2> QED BY <2>6, <2>8, <2>12, <2>13 DEF StatesRight, g
<1> QED BY <1>7, <1>8

-----------------------------------------------------------------------------
(***************************************************************************)
(* The clock: the future actions that are due.                              *)
(***************************************************************************)
\* What every action of the scan keeps, its end keeps: K[i] holds what may be known after i of them.
LEMMA ScanKeeps ==
  ASSUME NEW D, NEW now, NEW S, future \in Seq(S), NEW K,
         [power |-> power, bank |-> bank, left |-> << >>] \in K[0],
         \A i \in 1..Len(future) : \A d \in K[i - 1] : Scanned(D, future[Len(future) + 1 - i], now, d) \in K[i]
  PROVE  Ended(D, now) \in K[Len(future)]
<1> DEFINE n == Len(future)
           d0 == [power |-> power, bank |-> bank, left |-> << >>]
           Step(i, d) == Scanned(D, future[n + 1 - i], now, d)
           G(g) == [i \in 0..n |-> IF i = 0 THEN d0 ELSE Step(i, g[i - 1])]
           scan == CHOOSE g : g = G(g)
<1>1. Ended(D, now) = scan[n]
  BY DEF Ended
<1>2. n \in Nat
  OBVIOUS
<1>3. d0 \in K[0] /\ \A i \in 1..n : \A d \in K[i - 1] : Step(i, d) \in K[i]
  OBVIOUS
<1> HIDE DEF n, d0, Step
<1> DEFINE Scans(g, m) == /\ g = [i \in 0..m |-> g[i]] /\ g[0] = d0
                          /\ \A i \in 1..m : g[i] = Step(i, g[i - 1])
           Bad == {m \in 0..n : ~\E g : Scans(g, m)}
<1>4. Bad = {}
  <2> SUFFICES ASSUME Bad # {} PROVE FALSE
    OBVIOUS
  <2>1. PICK m \in Bad : \A k \in Bad : m <= k
    <3> HIDE DEF Bad
    <3>1. Bad \subseteq Nat
      BY <1>2 DEF Bad
    <3> QED BY <3>1, Smallest
  <2>2. m # 0
    <3> DEFINE z == [i \in 0..0 |-> d0]
    <3>1. Scans(z, 0)
      OBVIOUS
    <3> QED BY <2>1, <3>1
  <2>3. m \in 0..n /\ m - 1 \in 0..n /\ m \in Nat
    BY <1>2, <2>1, <2>2
  <2>4. PICK g : Scans(g, m - 1)
    <3>1. m - 1 \notin Bad
      <4> HIDE DEF Bad
      <4> QED BY <2>1, <2>3
    <3> HIDE DEF Scans
    <3> QED BY <2>3, <3>1
  <2> DEFINE f == [i \in 0..m |-> IF i = m THEN Step(m, g[m - 1]) ELSE g[i]]
  <2>5. f = [i \in 0..m |-> f[i]] /\ f[0] = d0
    BY <2>2, <2>3, <2>4
  <2>6. ASSUME NEW i \in 1..m PROVE f[i] = Step(i, f[i - 1])
    <3>1. f[i - 1] = g[i - 1]
      BY <2>2, <2>3
    <3>2. f[i] = IF i = m THEN Step(m, g[m - 1]) ELSE g[i]
      BY <2>3
    <3>3. CASE i = m
      BY <3>1, <3>2, <3>3
    <3>4. CASE i # m
      <4>1. i \in 1..m - 1
        BY <2>3, <3>4
      <4>2. g[i] = Step(i, g[i - 1])
        BY <2>4, <4>1
      <4> QED BY <3>1, <3>2, <3>4, <4>2
    <3> QED BY <3>3, <3>4
  <2>7. Scans(f, m)
    BY <2>5, <2>6
  <2> QED BY <2>1, <2>7
<1>5. PICK g : Scans(g, n)
  <2>1. n \in 0..n /\ n \notin Bad
    <3> HIDE DEF Bad
    <3> QED BY <1>2, <1>4
  <2> HIDE DEF Scans
  <2> QED BY <2>1, Zenon
<1>6. g = G(g)
  <2>1. \A i \in 0..n : g[i] = IF i = 0 THEN d0 ELSE Step(i, g[i - 1])
    <3>1. \A i \in 0..n : i = 0 \/ i \in 1..n
      BY <1>2
    <3> QED BY <1>5, <3>1
  <2> QED BY <1>5, <2>1
<1>7. scan = G(scan)
  <2> HIDE DEF G
  <2> QED BY <1>6
<1> HIDE DEF scan, Scans
<1>8. scan[0] = d0 /\ \A i \in 1..n : scan[i] = Step(i, scan[i - 1])
  <2>1. \A i \in 0..n : scan[i] = IF i = 0 THEN d0 ELSE Step(i, scan[i - 1])
    BY <1>7
  <2> QED BY <1>2, <2>1
<1> HIDE DEF G
<1> DEFINE Off == {i \in 0..n : scan[i] \notin K[i]}
<1>9. Off = {}
  <2> SUFFICES ASSUME Off # {} PROVE FALSE
    OBVIOUS
  <2>1. PICK i \in Off : \A k \in Off : i <= k
    <3> HIDE DEF Off
    <3>1. Off \subseteq Nat
      BY <1>2 DEF Off
    <3> QED BY <3>1, Smallest
  <2>2. i # 0 /\ i \in 0..n
    BY <1>3, <1>8, <2>1
  <2>3. i \in 1..n /\ i - 1 \in 0..n
    BY <1>2, <2>2
  <2>4. scan[i - 1] \in K[i - 1]
    <3>1. i - 1 \notin Off
      <4> HIDE DEF Off
      <4> QED BY <1>2, <2>1, <2>3
    <3> QED BY <2>3, <3>1
  <2> QED BY <1>3, <1>8, <2>1, <2>3, <2>4
<1> QED BY <1>1, <1>2, <1>9 DEF n

\* The first k of a sequence, and another after them; an element before a sequence.
Joined(F, k, L) == SubSeq(F, 1, k) \o L
Put(e, L) == <<e>> \o L
Begins(M, e, L) == Len(M) = Len(L) + 1 /\ \A j \in 1..Len(L) + 1 : M[j] = IF j = 1 THEN e ELSE L[j - 1]
Without(H, G, k) == Len(H) = Len(G) - 1 /\ \A i \in DOMAIN H : H[i] = IF i < k THEN G[i] ELSE G[i + 1]

\* One action of the scan.
LEMMA ScanStep ==
  ASSUME NEW D, NEW f, NEW now, NEW d, d = [power |-> d.power, bank |-> d.bank, left |-> d.left]
  PROVE  Scanned(D, f, now, d) =
           IF f.clk = now
           THEN [power |-> update_powers(D, d.power, d.bank, D.spec.future[f.cmd].end, f.addr, now),
                 bank |-> update_states(D, d.bank, D.spec.future[f.cmd].end, f.addr), left |-> d.left]
           ELSE [power |-> d.power, bank |-> d.bank, left |-> Put(f, d.left)]
<1> DEFINE p == d.power  b == d.bank  l == d.left
           end == D.spec.future[f.cmd].end
           P == update_powers(D, p, b, end, f.addr, now)
           B == update_states(D, b, end, f.addr)
           m == <<f>> \o l
<1>1. handle_future_action(D, f, now, d) = [d EXCEPT !.power = P, !.bank = B]
  BY DEF handle_future_action
<1>2. [d EXCEPT !.left = <<f>> \o @] = [d EXCEPT !.left = m] /\ d = [power |-> p, bank |-> b, left |-> l]
  OBVIOUS
<1> HIDE DEF P, B, m, p, b, l
<1>3. handle_future_action(D, f, now, d) = [power |-> P, bank |-> B, left |-> l]
  BY <1>1, <1>2
<1>4. [d EXCEPT !.left = m] = [power |-> p, bank |-> b, left |-> m]
  BY <1>2
<1>5. Scanned(D, f, now, d) = IF f.clk = now THEN [power |-> P, bank |-> B, left |-> l]
                                             ELSE [power |-> p, bank |-> b, left |-> m]
  BY <1>2, <1>3, <1>4 DEF Scanned
<1> QED BY <1>5 DEF P, B, end, m, p, b, l, Put

\* Once ended, a refresh leaves its banks closed, and those of the other future actions alone.
LEMMA EndStates ==
  ASSUME NEW D, NEW Q, StatesAreTidy(D, Q), NEW B, NEW F, NEW h, NEW now, StatesRight(D, Q, B, F, h, now),
         NEW k \in DOMAIN F, NEW G \in Seq([cmd : D.commands, addr : { r.addr : r \in Q }, clk : Nat]),
         Len(G) = Len(F) - 1, \A i \in DOMAIN G : G[i] = IF i < k THEN F[i] ELSE F[i + 1],
         NEW C, C = update_states(D, B, D.spec.future[F[k].cmd].end, F[k].addr)
  PROVE  StatesRight(D, Q, C, G, h, now)
<1> DEFINE Entry == [cmd : D.commands, addr : { s.addr : s \in Q }, clk : Nat]
           end == D.spec.future[F[k].cmd].end
           T == Touched(D, end, F[k].addr)
<1>1. F \in Seq(Entry) /\ B \in [D.banks -> Bank(D, Q)]
  BY DEF StatesRight
<1>2. /\ DOMAIN F = 1..Len(F) /\ DOMAIN G = 1..Len(G) /\ Len(F) \in Nat /\ Len(G) = Len(F) - 1 /\ k \in 1..Len(F)
      /\ \A i \in 1..Len(G) : G[i] = IF i < k THEN F[i] ELSE F[i + 1]
  <2>1. G \in Seq(Entry)
    OBVIOUS
  <2> HIDE DEF Entry
  <2>2. DOMAIN F = 1..Len(F) /\ DOMAIN G = 1..Len(G) /\ Len(F) \in Nat
    BY <1>1, <2>1
  <2> QED BY <2>2
<1>3. Goes(D, Q, F[k], h, now)
  BY DEF StatesRight
<1>4. PICK s \in Q : FinalCommand(D, s) = F[k].cmd /\ s.addr = F[k].addr
  BY <1>3 DEF Goes
<1>5. F[k].cmd \in Refreshes(D)
  BY <1>3 DEF Goes
<1>6. RefreshIsTidy(D, F[k].cmd, s)
  <2>1. F[k].cmd \in Leads(D, s)
    BY <1>4 DEF StatesAreTidy, Leads
  <2> QED BY <1>5, <2>1 DEF StatesAreTidy
<1>7. T = Covered(D, F[k].cmd, F[k].addr) /\ \A q \in T : ActionAt(D, end, F[k].addr, q) \in EndActions
  BY <1>4, <1>6 DEF RefreshIsTidy
<1>8. \A q \in D.banks : q \in T <=> k \in Enders(D, F, q)
  <2>1. \A q \in D.banks : q \in T <=> Covers(D, F[k], q)
    BY <1>7 DEF Covered, Covers
  <2> HIDE DEF T
  <2> QED BY <2>1 DEF Enders
<1>9. /\ DOMAIN C = D.banks /\ C = [q \in D.banks |-> C[q]]
      /\ \A q \in D.banks : C[q] = IF q \in T THEN BankEffect(ActionAt(D, end, F[k].addr, q), B[q], RowOf(D, F[k].addr))
                                             ELSE B[q]
  BY DEF update_states, Touched
<1> HIDE DEF T, end
<1>10. ASSUME NEW i \in DOMAIN G PROVE Goes(D, Q, G[i], h, now)
  <2>1. G[i] = IF i < k THEN F[i] ELSE F[i + 1]
    BY <1>2
  <2>2. i < k => i \in DOMAIN F
    BY <1>2
  <2>3. ~(i < k) => i + 1 \in DOMAIN F
    BY <1>2
  <2> QED BY <2>1, <2>2, <2>3 DEF StatesRight
<1>11. ASSUME NEW q, NEW i \in Enders(D, G, q)
       PROVE  (IF i < k THEN i ELSE i + 1) \in Enders(D, F, q) \ {k} /\ i \in Nat
  <2>1. i \in 1..Len(G) /\ Covers(D, G[i], q)
    BY <1>2 DEF Enders
  <2>2. CASE i < k
    <3>1. i \in DOMAIN F /\ G[i] = F[i] /\ i \in Nat
      BY <1>2, <2>1, <2>2
    <3> QED BY <2>1, <2>2, <3>1 DEF Enders
  <2>3. CASE ~(i < k)
    <3>1. i + 1 \in DOMAIN F /\ G[i] = F[i + 1] /\ i \in Nat /\ i + 1 # k
      BY <1>2, <2>1, <2>3
    <3> QED BY <2>1, <2>3, <3>1 DEF Enders
  <2> QED BY <2>2, <2>3
<1>12. ASSUME NEW q, NEW i \in Enders(D, F, q) \ {k}
       PROVE  Enders(D, G, q) # {}
  <2>1. i \in 1..Len(F) /\ Covers(D, F[i], q) /\ i # k
    BY <1>2 DEF Enders
  <2>2. CASE i < k
    <3>1. i \in DOMAIN G /\ G[i] = F[i]
      BY <1>2, <2>1, <2>2
    <3> QED BY <2>1, <3>1 DEF Enders
  <2>3. CASE ~(i < k)
    <3>1. i - 1 \in 1..Len(G) /\ ~(i - 1 < k) /\ i - 1 + 1 = i
      BY <1>2, <2>1, <2>3
    <3>2. i - 1 \in DOMAIN G /\ G[i - 1] = F[i]
      BY <1>2, <3>1
    <3> QED BY <2>1, <3>2 DEF Enders
  <2> QED BY <2>2, <2>3
<1>13. ASSUME NEW q \in D.banks PROVE C[q] \in Bank(D, Q) /\ BankRight(D, C[q], G, q)
  <2>1. B[q] \in Bank(D, Q) /\ BankRight(D, B[q], F, q)
    BY <1>1 DEF StatesRight
  <2>2. \A i, j \in Enders(D, G, q) : i = j
    <3> SUFFICES ASSUME NEW i \in Enders(D, G, q), NEW j \in Enders(D, G, q) PROVE i = j
      OBVIOUS
    <3>1. (IF i < k THEN i ELSE i + 1) \in Enders(D, F, q) \ {k} /\ (IF j < k THEN j ELSE j + 1) \in Enders(D, F, q) \ {k}
      BY <1>11
    <3>2. (IF i < k THEN i ELSE i + 1) = (IF j < k THEN j ELSE j + 1) /\ i \in Nat /\ j \in Nat /\ k \in Nat
      BY <1>2, <1>11, <2>1, <3>1 DEF BankRight
    <3> QED BY <3>2
  <2>3. CASE q \in T
    <3>1. k \in Enders(D, F, q)
      BY <1>8, <2>3
    <3>2. Enders(D, G, q) = {}
      BY <1>11, <2>1, <3>1 DEF BankRight
    <3>3. B[q].state = "Refreshing" /\ B[q].rows = {} /\ B[q] \in [state : BankStates, rows : SUBSET RowsOf(D, Q)]
      BY <2>1, <3>1 DEF BankRight, Bank
    <3> DEFINE a == ActionAt(D, end, F[k].addr, q)  b == B[q]  x == C[q]
    <3>4. a \in EndActions /\ x = BankEffect(a, b, RowOf(D, F[k].addr))
      BY <1>7, <1>9, <2>3
    <3>5. b \in [state : BankStates, rows : SUBSET RowsOf(D, Q)] /\ b.rows = {}
      BY <3>3
    <3> HIDE DEF a, b, x
    <3>6. x = [state |-> "Closed", rows |-> {}]
      BY <3>4, <3>5 DEF BankEffect, EndActions
    <3>7. x \in Bank(D, Q) /\ x.state = "Closed" /\ x.rows = {}
      BY <3>6 DEF Bank, BankStates
    <3> QED BY <2>2, <3>2, <3>7 DEF BankRight, x
  <2>4. CASE q \notin T
    <3>1. C[q] = B[q] /\ k \notin Enders(D, F, q)
      BY <1>8, <1>9, <2>4
    <3>2. Enders(D, F, q) # {} <=> Enders(D, G, q) # {}
      BY <1>11, <1>12, <3>1
    <3> QED BY <2>1, <2>2, <3>1, <3>2 DEF BankRight
  <2> QED BY <2>3, <2>4
<1>14. C \in [D.banks -> Bank(D, Q)]
  BY <1>9, <1>13
<1> QED BY <1>10, <1>13, <1>14 DEF StatesRight

-----------------------------------------------------------------------------
(***************************************************************************)
(* The statistics of the ranks.                                             *)
(***************************************************************************)
\* Statistics that count the commands of C.
Stats(C) ==
  [state : {"IDLE", "ACTIVE", "REFRESHING"}, active_cycles : Int, idle_cycles : Int, active_start_cycle : Int,
   idle_start_cycle : Int, cmd_counters : [C -> Int]]

LEMMA StatsTyped ==
  ASSUME NEW C, NEW s \in Stats(C), NEW now \in Nat
  PROVE  /\ WakingUp(s, now) \in Stats(C) /\ GoingIdle(s, now) \in Stats(C) /\ REFab_end(s, now) \in Stats(C)
         /\ \A c, n : n \in Int => Counting(s, c, n) \in Stats(C)
<1> DEFINE idled == s.idle_cycles + now - s.idle_start_cycle
           worked == s.active_cycles + now - s.active_start_cycle
<1>1. idled \in Int /\ worked \in Int /\ now \in Int
  <2>1. s.idle_cycles \in Int /\ s.idle_start_cycle \in Int /\ s.active_cycles \in Int /\ s.active_start_cycle \in Int
    BY DEF Stats
  <2> QED BY <2>1
<1>2. /\ WakingUp(s, now) = [s EXCEPT !.state = "ACTIVE", !.idle_cycles = idled, !.active_start_cycle = now]
      /\ GoingIdle(s, now) = [s EXCEPT !.state = "IDLE", !.active_cycles = worked, !.idle_start_cycle = now]
      /\ REFab_end(s, now) = [s EXCEPT !.state = "IDLE", !.idle_start_cycle = now]
  BY DEF WakingUp, GoingIdle, REFab_end
<1> HIDE DEF idled, worked
<1>3. [s EXCEPT !.state = "ACTIVE", !.idle_cycles = idled, !.active_start_cycle = now] \in Stats(C)
  BY <1>1 DEF Stats
<1>4. [s EXCEPT !.state = "IDLE", !.active_cycles = worked, !.idle_start_cycle = now] \in Stats(C)
  BY <1>1 DEF Stats
<1>5. [s EXCEPT !.state = "IDLE", !.idle_start_cycle = now] \in Stats(C)
  BY <1>1 DEF Stats
<1>6. ASSUME NEW c, NEW n \in Int PROVE Counting(s, c, n) \in Stats(C)
  <2> DEFINE counters == s.cmd_counters
             m == counters[c] + n
             g == [counters EXCEPT ![c] = m]
  <2>1. counters \in [C -> Int]
    BY DEF Stats
  <2>2. c \in C => m \in Int
    <3> HIDE DEF counters
    <3> QED BY <2>1
  <2>3. Counting(s, c, n) = [s EXCEPT !.cmd_counters = g]
    BY DEF Counting
  <2> HIDE DEF m, counters
  <2>4. g \in [C -> Int]
    BY <2>1, <2>2
  <2> HIDE DEF g
  <2> QED BY <2>3, <2>4 DEF Stats
<1> QED BY <1>2, <1>3, <1>4, <1>5, <1>6

LEMMA RefreshTyped ==
  ASSUME NEW C, NEW s \in Stats(C), NEW now \in Nat
  PROVE  REFab(s, now) \in Stats(C)
<1> DEFINE t == Counting(s, "REF", 1)
           idled == t.idle_cycles + now - s.idle_start_cycle
<1>1. t \in Stats(C)
  BY StatsTyped
<1>2. REFab(s, now) = [t EXCEPT !.state = "REFRESHING", !.idle_cycles = idled]
  BY DEF REFab
<1> HIDE DEF t
<1>3. idled \in Int
  <2>1. s.idle_start_cycle \in Int /\ t.idle_cycles \in Int
    BY <1>1 DEF Stats
  <2> QED BY <2>1
<1> HIDE DEF idled
<1> QED BY <1>1, <1>2, <1>3 DEF Stats

LEMMA RankHandlerTyped ==
  ASSUME NEW C, NEW s \in Stats(C), NEW now \in Nat, NEW handler \in PowerHandlers,
         NEW B, NEW banks, IsFiniteSet(banks), NEW addr
  PROVE  RankHandler(handler, s, B, banks, addr, now) \in Stats(C)
<1> DEFINE open == get_open_bank_count(B, banks)
           refreshing == get_refreshing_bank_count(B, banks)
           bankgroups == Cardinality({ q[3] : q \in banks })
           target == { q \in banks : q[Len(q)] = addr[Len(q)] }
           aimed == get_open_bank_count(B, target)
           x == RankHandler(handler, s, B, banks, addr, now)
<1>1. open \in Int /\ aimed \in Int
  <2>1. \A T \in SUBSET banks : IsFiniteSet(T) /\ Cardinality(T) \in Nat
    BY FS_Subset, FS_CardinalityType
  <2>2. { q \in banks : B[q].state = "Opened" } \in SUBSET banks /\ { q \in target : B[q].state = "Opened" } \in SUBSET banks
    OBVIOUS
  <2> QED BY <2>1, <2>2 DEF get_open_bank_count
<1>2. /\ handler = "ACT" => x = ACT(s, open, refreshing, now)
      /\ handler = "PRE" => x = PRE(s, open, refreshing, now)
      /\ handler = "PREA" => x = PREA(s, open, refreshing, now)
      /\ handler = "PREsb" => x = PREsb(s, open, aimed, now)
      /\ handler = "REFab" => x = REFab(s, now)
      /\ handler = "REFab_end" => x = REFab_end(s, now)
      /\ handler = "VRR" => x = VRR(s, open, refreshing, now)
      /\ handler = "VRR_end" => x = VRR_end(s, open, refreshing, now)
      /\ handler = "RFMsb" => x = RFMsb(s, open, refreshing, now)
      /\ handler = "RFMsb_end" => x = RFMsb_end(s, open, refreshing, bankgroups, now)
      /\ handler = "RRFMsb" => x = RRFMsb(s, open, refreshing, now)
      /\ handler = "RRFMsb_end" => x = RRFMsb_end(s, open, refreshing, bankgroups, now)
  BY DEF RankHandler
<1> SUFFICES x \in Stats(C)
  OBVIOUS
<1> HIDE DEF open, refreshing, bankgroups, aimed, x
<1>3. /\ WakingUp(s, now) \in Stats(C) /\ GoingIdle(s, now) \in Stats(C) /\ REFab_end(s, now) \in Stats(C)
      /\ Counting(s, "PRE", open) \in Stats(C) /\ Counting(s, "PRE", aimed) \in Stats(C)
      /\ Counting(s, "RFM", 1) \in Stats(C) /\ Counting(s, "RRFM", 1) \in Stats(C) /\ REFab(s, now) \in Stats(C)
  <2>1. WakingUp(s, now) \in Stats(C) /\ GoingIdle(s, now) \in Stats(C) /\ REFab_end(s, now) \in Stats(C)
    BY StatsTyped
  <2>2. REFab(s, now) \in Stats(C)
    BY RefreshTyped
  <2>3. \A c, n : n \in Int => Counting(s, c, n) \in Stats(C)
    BY StatsTyped
  <2> QED BY <1>1, <2>1, <2>2, <2>3
<1>4. /\ GoingIdle(Counting(s, "PRE", open), now) \in Stats(C) /\ GoingIdle(Counting(s, "PRE", aimed), now) \in Stats(C)
      /\ WakingUp(Counting(s, "RFM", 1), now) \in Stats(C) /\ WakingUp(Counting(s, "RRFM", 1), now) \in Stats(C)
  BY <1>3, StatsTyped
<1>5. CASE handler \in {"ACT", "VRR"}
  BY <1>2, <1>3, <1>5 DEF ACT, VRR
<1>6. CASE handler \in {"PRE", "VRR_end", "RFMsb_end", "RRFMsb_end"}
  BY <1>2, <1>3, <1>6 DEF PRE, VRR_end, RFMsb_end, RRFMsb_end
<1>7. CASE handler \in {"PREA", "PREsb"}
  BY <1>2, <1>3, <1>4, <1>7 DEF PREA, PREsb
<1>8. CASE handler \in {"REFab", "REFab_end"}
  BY <1>2, <1>3, <1>8
<1>9. CASE handler \in {"RFMsb", "RRFMsb"}
  BY <1>2, <1>3, <1>4, <1>9 DEF RFMsb, RRFMsb, ACT
<1> QED BY <1>5, <1>6, <1>7, <1>8, <1>9 DEF PowerHandlers

\* The handlers leave statistics.
LEMMA PowersTyped ==
  ASSUME NEW D, TablesAreTidy(D), D.banks \subseteq D.nodes, NEW C, NEW P \in [D.ranks -> Stats(C)], NEW B,
         NEW c \in D.commands, NEW addr, NEW now \in Nat
  PROVE  update_powers(D, P, B, c, addr, now) \in [D.ranks -> Stats(C)]
<1> DEFINE rankHandled == 2 \in D.metering[c] /\ 2 <= D.reach[c]
           bankHandled == D.bankLevel \in D.metering[c] /\ D.bankLevel <= D.reach[c]
           banks(r) == { q \in D.banks : Below(q, r) }
           s(r) == IF rankHandled THEN RankHandler(D.spec.powers[<<"rank", c>>], P[r], B, banks(r), addr, now) ELSE P[r]
           counter == D.spec.powers[<<"bank", c>>]
           aimed(r) == Cardinality({ q \in banks(r) : Targeted(q, addr) })
           new(r) == IF ~Targeted(r, addr) THEN P[r] ELSE IF bankHandled THEN Counting(s(r), counter, aimed(r)) ELSE s(r)
<1>1. update_powers(D, P, B, c, addr, now) = [r \in D.ranks |-> new(r)]
  BY DEF update_powers
<1>2. ASSUME NEW r \in D.ranks PROVE new(r) \in Stats(C)
  <2>1. IsFiniteSet(banks(r)) /\ aimed(r) \in Int
    <3>1. IsFiniteSet(D.nodes) /\ banks(r) \subseteq D.nodes /\ { q \in banks(r) : Targeted(q, addr) } \subseteq D.nodes
      BY DEF TablesAreTidy
    <3> HIDE DEF banks
    <3>2. IsFiniteSet({ q \in banks(r) : Targeted(q, addr) }) /\ IsFiniteSet(banks(r))
      BY <3>1, FS_Subset
    <3> QED BY <3>2, FS_CardinalityType
  <2>2. P[r] \in Stats(C)
    OBVIOUS
  <2>3. s(r) \in Stats(C)
    <3>1. rankHandled => D.spec.powers[<<"rank", c>>] \in PowerHandlers
      BY DEF TablesAreTidy
    <3> DEFINE handler == D.spec.powers[<<"rank", c>>]
    <3> HIDE DEF banks, rankHandled
    <3>2. rankHandled => RankHandler(handler, P[r], B, banks(r), addr, now) \in Stats(C)
      <4> HIDE DEF handler
      <4> QED BY <2>1, <2>2, <3>1, RankHandlerTyped DEF handler
    <3> QED BY <2>2, <3>2
  <2> HIDE DEF s, aimed, bankHandled, counter
  <2>4. Counting(s(r), counter, aimed(r)) \in Stats(C)
    BY <2>1, <2>3, StatsTyped
  <2> QED BY <2>2, <2>3, <2>4
<1> HIDE DEF new
<1> QED BY <1>1, <1>2

LEMMA InitStatsTyped == ASSUME NEW C PROVE InitStats(C) \in Stats(C)
BY DEF InitStats, Stats

\* What is counted of a command c in the statistics s.
Counted(s, c) == s.cmd_counters[c]
LEMMA CountingCounts ==
  ASSUME NEW C, NEW s \in Stats(C), NEW c \in C
  PROVE  /\ Counted(s, c) \in Int /\ \A d, n : d # c => Counted(Counting(s, d, n), c) = Counted(s, c)
         /\ \A n : Counted(Counting(s, c, n), c) = Counted(s, c) + n
<1> DEFINE k == s.cmd_counters
<1>1. k \in [C -> Int]
  BY DEF Stats
<1>2. ASSUME NEW d, NEW n PROVE Counting(s, d, n).cmd_counters = [k EXCEPT ![d] = k[d] + n]
  <2> DEFINE g == [k EXCEPT ![d] = k[d] + n]
  <2>1. Counting(s, d, n) = [s EXCEPT !.cmd_counters = g]
    BY DEF Counting
  <2> HIDE DEF g
  <2>2. Counting(s, d, n).cmd_counters = g
    BY <2>1 DEF Stats
  <2> QED BY <2>2 DEF g
<1>3. Counted(s, c) = k[c] /\ \A d, n : Counted(Counting(s, d, n), c) = [k EXCEPT ![d] = k[d] + n][c]
  BY <1>2 DEF Counted
<1> HIDE DEF k
<1> QED BY <1>1, <1>3

\* Neither waking up nor going idle counts anything.
LEMMA WakingCounts ==
  ASSUME NEW C, NEW s \in Stats(C), NEW now, NEW c
  PROVE  /\ Counted(WakingUp(s, now), c) = Counted(s, c) /\ Counted(GoingIdle(s, now), c) = Counted(s, c)
         /\ Counted(REFab_end(s, now), c) = Counted(s, c) /\ Counted(finalize_rank(s, now), c) = Counted(s, c)
<1> DEFINE idled == s.idle_cycles + now - s.idle_start_cycle
           worked == s.active_cycles + now - s.active_start_cycle
<1>1. /\ WakingUp(s, now) = [s EXCEPT !.state = "ACTIVE", !.idle_cycles = idled, !.active_start_cycle = now]
      /\ GoingIdle(s, now) = [s EXCEPT !.state = "IDLE", !.active_cycles = worked, !.idle_start_cycle = now]
      /\ REFab_end(s, now) = [s EXCEPT !.state = "IDLE", !.idle_start_cycle = now]
  BY DEF WakingUp, GoingIdle, REFab_end
<1>2. /\ s.state = "IDLE" => finalize_rank(s, now) = [s EXCEPT !.idle_cycles = idled]
      /\ s.state = "ACTIVE" => finalize_rank(s, now) = [s EXCEPT !.active_cycles = worked]
      /\ s.state = "REFRESHING" => finalize_rank(s, now) = s
  BY DEF finalize_rank
<1>3. s.state \in {"IDLE", "ACTIVE", "REFRESHING"}
  BY DEF Stats
<1> HIDE DEF idled, worked
<1>4. /\ WakingUp(s, now).cmd_counters = s.cmd_counters /\ GoingIdle(s, now).cmd_counters = s.cmd_counters
      /\ REFab_end(s, now).cmd_counters = s.cmd_counters
  BY <1>1 DEF Stats
<1>5. finalize_rank(s, now).cmd_counters = s.cmd_counters
  BY <1>2, <1>3 DEF Stats
<1> QED BY <1>4, <1>5 DEF Counted

\* A rank's handler counts precharges, those of the open banks it closes.
LEMMA RankCounts ==
  ASSUME NEW C, NEW s \in Stats(C), "ACT" \in C, "PRE" \in C, NEW now \in Nat, NEW handler \in PowerHandlers,
         NEW B, NEW banks, IsFiniteSet(banks), NEW addr,
         NEW open, open = get_open_bank_count(B, banks),
         NEW aimed, aimed = get_open_bank_count(B, { q \in banks : q[Len(q)] = addr[Len(q)] })
  PROVE  LET x == RankHandler(handler, s, B, banks, addr, now)
         IN  /\ Counted(x, "ACT") = Counted(s, "ACT")
             /\ Counted(x, "PRE") = Counted(s, "PRE") + (CASE handler = "PREA" -> open [] handler = "PREsb" -> aimed
                                                           [] OTHER -> 0)
<1> DEFINE refreshing == get_refreshing_bank_count(B, banks)
           bankgroups == Cardinality({ q[3] : q \in banks })
           x == RankHandler(handler, s, B, banks, addr, now)
           Like(t, n) == Counted(t, "ACT") = Counted(s, "ACT") /\ Counted(t, "PRE") = Counted(s, "PRE") + n
<1>1. open \in Int /\ aimed \in Int
  <2>1. \A T \in SUBSET banks : IsFiniteSet(T) /\ Cardinality(T) \in Nat
    BY FS_Subset, FS_CardinalityType
  <2>2. { q \in banks : B[q].state = "Opened" } \in SUBSET banks
        /\ { q \in { q \in banks : q[Len(q)] = addr[Len(q)] } : B[q].state = "Opened" } \in SUBSET banks
    OBVIOUS
  <2> QED BY <2>1, <2>2 DEF get_open_bank_count
<1>2. /\ handler = "ACT" => x = ACT(s, open, refreshing, now)
      /\ handler = "PRE" => x = PRE(s, open, refreshing, now)
      /\ handler = "PREA" => x = PREA(s, open, refreshing, now)
      /\ handler = "PREsb" => x = PREsb(s, open, aimed, now)
      /\ handler = "REFab" => x = REFab(s, now)
      /\ handler = "REFab_end" => x = REFab_end(s, now)
      /\ handler = "VRR" => x = VRR(s, open, refreshing, now)
      /\ handler = "VRR_end" => x = VRR_end(s, open, refreshing, now)
      /\ handler = "RFMsb" => x = RFMsb(s, open, refreshing, now)
      /\ handler = "RFMsb_end" => x = RFMsb_end(s, open, refreshing, bankgroups, now)
      /\ handler = "RRFMsb" => x = RRFMsb(s, open, refreshing, now)
      /\ handler = "RRFMsb_end" => x = RRFMsb_end(s, open, refreshing, bankgroups, now)
  BY DEF RankHandler
<1> HIDE DEF refreshing, bankgroups, x
<1>3. Counted(s, "ACT") \in Int /\ Counted(s, "PRE") \in Int
  BY CountingCounts
<1>4. /\ Counting(s, "PRE", open) \in Stats(C) /\ Counting(s, "PRE", aimed) \in Stats(C)
      /\ Counting(s, "RFM", 1) \in Stats(C) /\ Counting(s, "RRFM", 1) \in Stats(C) /\ Counting(s, "REF", 1) \in Stats(C)
  <2>1. \A c, n : n \in Int => Counting(s, c, n) \in Stats(C)
    BY StatsTyped
  <2> QED BY <1>1, <2>1
<1>5. /\ Like(Counting(s, "PRE", open), open) /\ Like(Counting(s, "PRE", aimed), aimed)
      /\ Like(Counting(s, "RFM", 1), 0) /\ Like(Counting(s, "RRFM", 1), 0) /\ Like(Counting(s, "REF", 1), 0) /\ Like(s, 0)
  <2>1. \A d, n : d # "ACT" => Counted(Counting(s, d, n), "ACT") = Counted(s, "ACT")
    BY CountingCounts
  <2>2. \A d, n : d # "PRE" => Counted(Counting(s, d, n), "PRE") = Counted(s, "PRE")
    BY CountingCounts
  <2>3. \A n : Counted(Counting(s, "PRE", n), "PRE") = Counted(s, "PRE") + n
    BY CountingCounts
  <2> QED BY <1>3, <2>1, <2>2, <2>3
<1>6. ASSUME NEW t \in Stats(C), NEW n, Like(t, n)
      PROVE  Like(WakingUp(t, now), n) /\ Like(GoingIdle(t, now), n) /\ Like(REFab_end(t, now), n)
  BY <1>6, WakingCounts
<1>7. Like(REFab(s, now), 0)
  <2> DEFINE t == Counting(s, "REF", 1)
             idled == t.idle_cycles + now - s.idle_start_cycle
  <2>1. REFab(s, now) = [t EXCEPT !.state = "REFRESHING", !.idle_cycles = idled]
    BY DEF REFab
  <2>2. t \in Stats(C) /\ Like(t, 0)
    BY <1>4, <1>5
  <2> HIDE DEF t, idled
  <2>3. REFab(s, now).cmd_counters = t.cmd_counters
    BY <2>1, <2>2 DEF Stats
  <2> QED BY <2>2, <2>3 DEF Counted
<1>8. CASE handler \in {"ACT", "VRR", "PRE", "VRR_end", "RFMsb_end", "RRFMsb_end", "REFab", "REFab_end", "RFMsb", "RRFMsb"}
  <2> SUFFICES Like(x, 0)
    BY <1>8 DEF x
  <2>1. /\ Like(s, 0) /\ Like(WakingUp(s, now), 0) /\ Like(GoingIdle(s, now), 0) /\ Like(REFab_end(s, now), 0)
        /\ Like(WakingUp(Counting(s, "RFM", 1), now), 0) /\ Like(WakingUp(Counting(s, "RRFM", 1), now), 0)
        /\ Like(Counting(s, "RFM", 1), 0) /\ Like(Counting(s, "RRFM", 1), 0)
    BY <1>4, <1>5, <1>6
  <2> HIDE DEF Like
  <2>2. CASE handler \in {"ACT", "VRR"}
    BY <1>2, <2>1, <2>2 DEF ACT, VRR
  <2>3. CASE handler \in {"PRE", "VRR_end", "RFMsb_end", "RRFMsb_end"}
    BY <1>2, <2>1, <2>3 DEF PRE, VRR_end, RFMsb_end, RRFMsb_end
  <2>4. CASE handler \in {"REFab", "REFab_end"}
    BY <1>2, <1>7, <2>1, <2>4
  <2>5. CASE handler \in {"RFMsb", "RRFMsb"}
    BY <1>2, <2>1, <2>5 DEF RFMsb, RRFMsb, ACT
  <2> QED BY <1>8, <2>2, <2>3, <2>4, <2>5
<1>9. CASE handler = "PREA"
  <2>1. Like(Counting(s, "PRE", open), open) /\ Like(GoingIdle(Counting(s, "PRE", open), now), open)
    BY <1>4, <1>5, <1>6
  <2> HIDE DEF Like
  <2>2. Like(x, open)
    BY <1>2, <1>9, <2>1 DEF PREA
  <2> QED BY <1>9, <2>2 DEF Like, x
<1>10. CASE handler = "PREsb"
  <2>1. Like(Counting(s, "PRE", aimed), aimed) /\ Like(GoingIdle(Counting(s, "PRE", aimed), now), aimed)
    BY <1>4, <1>5, <1>6
  <2> HIDE DEF Like
  <2>2. Like(x, aimed)
    BY <1>2, <1>10, <2>1 DEF PREsb
  <2> QED BY <1>10, <2>2 DEF Like, x
<1> QED BY <1>8, <1>9, <1>10 DEF PowerHandlers

\* The banks of a rank, and how many of them a command is addressed to.
BanksOf(D, x) == { q \in D.banks : Below(q, x) }
Aimed(D, x, addr) == Cardinality({ q \in BanksOf(D, x) : Targeted(q, addr) })
Closes(D, B, x, c, addr) ==
  CASE RankPower(D, c) = "PREA" -> get_open_bank_count(B, BanksOf(D, x))
    [] RankPower(D, c) = "PREsb" -> get_open_bank_count(B, { q \in BanksOf(D, x) : q[Len(q)] = addr[Len(q)] })
    [] OTHER -> 0
CountedFor(D, B, s, X, x, c, addr) ==
  /\ ~Targeted(x, addr) => X = s
  /\ Targeted(x, addr) =>
       /\ Counted(X, "ACT") = Counted(s, "ACT") + (IF BankPower(D, c) = "ACT" THEN Aimed(D, x, addr) ELSE 0)
       /\ Counted(X, "PRE") = Counted(s, "PRE") + Closes(D, B, x, c, addr)
                                + (IF BankPower(D, c) = "PRE" THEN Aimed(D, x, addr) ELSE 0)
LEMMA PowersCount ==
  ASSUME NEW D, TablesAreTidy(D), D.banks \subseteq D.nodes, NEW C, NEW P \in [D.ranks -> Stats(C)], "ACT" \in C, "PRE" \in C,
         NEW B, NEW c \in D.commands, NEW addr, NEW now \in Nat, NEW x \in D.ranks,
         NEW X, X = update_powers(D, P, B, c, addr, now)[x]
  PROVE  CountedFor(D, B, P[x], X, x, c, addr)
<1> DEFINE rankHandled == 2 \in D.metering[c] /\ 2 <= D.reach[c]
           bankHandled == D.bankLevel \in D.metering[c] /\ D.bankLevel <= D.reach[c]
           banks == BanksOf(D, x)
           handler == D.spec.powers[<<"rank", c>>]
           counter == D.spec.powers[<<"bank", c>>]
           s == IF rankHandled THEN RankHandler(handler, P[x], B, banks, addr, now) ELSE P[x]
           n == Aimed(D, x, addr)
           closes == Closes(D, B, x, c, addr)
           open == get_open_bank_count(B, banks)
           aimed == get_open_bank_count(B, { q \in banks : q[Len(q)] = addr[Len(q)] })
<1>1. X = IF ~Targeted(x, addr) THEN P[x] ELSE IF bankHandled THEN Counting(s, counter, n) ELSE s
  BY DEF update_powers, BanksOf, Aimed
<1>2. IsFiniteSet(banks) /\ n \in Int
  <2>1. IsFiniteSet(D.nodes) /\ banks \subseteq D.nodes /\ { q \in banks : Targeted(q, addr) } \subseteq D.nodes
    BY DEF TablesAreTidy, BanksOf
  <2> HIDE DEF banks
  <2>2. IsFiniteSet({ q \in banks : Targeted(q, addr) }) /\ IsFiniteSet(banks)
    BY <2>1, FS_Subset
  <2>3. Cardinality({ q \in banks : Targeted(q, addr) }) \in Nat
    BY <2>2, FS_CardinalityType
  <2> QED BY <2>2, <2>3 DEF Aimed, banks
<1>3. P[x] \in Stats(C)
  OBVIOUS
<1>4. rankHandled => handler \in PowerHandlers
  BY DEF TablesAreTidy
<1>5. /\ RankPower(D, c) = IF rankHandled THEN handler ELSE "none"
      /\ BankPower(D, c) = IF bankHandled THEN counter ELSE "none"
  BY DEF RankPower, BankPower
<1>6. closes = CASE RankPower(D, c) = "PREA" -> open [] RankPower(D, c) = "PREsb" -> aimed [] OTHER -> 0
  BY DEF Closes
<1>7. s \in Stats(C) /\ Counted(s, "ACT") = Counted(P[x], "ACT") /\ Counted(s, "PRE") = Counted(P[x], "PRE") + closes
  <2>1. CASE rankHandled
    <3>0. PICK t : t = P[x]
      OBVIOUS
    <3> DEFINE z == RankHandler(handler, t, B, banks, addr, now)
    <3>1. s = z /\ RankPower(D, c) = handler /\ handler \in PowerHandlers /\ t \in Stats(C)
      BY <1>3, <1>4, <1>5, <2>1, <3>0
    <3> HIDE DEF rankHandled, banks, handler, closes
    <3>2. z \in Stats(C)
      BY <1>2, <3>1, RankHandlerTyped
    <3>3. /\ Counted(z, "ACT") = Counted(t, "ACT")
          /\ Counted(z, "PRE") = Counted(t, "PRE") + (CASE handler = "PREA" -> open [] handler = "PREsb" -> aimed
                                                          [] OTHER -> 0)
      <4>1. open = get_open_bank_count(B, banks) /\ aimed = get_open_bank_count(B, { q \in banks : q[Len(q)] = addr[Len(q)] })
        OBVIOUS
      <4> HIDE DEF open, aimed
      <4>2. IsFiniteSet(banks) /\ t \in Stats(C) /\ handler \in PowerHandlers
        BY <1>2, <3>1
      <4> QED BY <4>1, <4>2, RankCounts
    <3>4. closes = CASE handler = "PREA" -> open [] handler = "PREsb" -> aimed [] OTHER -> 0
      <4> HIDE DEF open, aimed
      <4> QED BY <1>6, <3>1
    <3> HIDE DEF s, z, open, aimed
    <3> QED BY <3>0, <3>1, <3>2, <3>3, <3>4
  <2>2. CASE ~rankHandled
    <3>1. s = P[x] /\ RankPower(D, c) = "none"
      BY <1>5, <2>2
    <3>2. closes = 0
      <4> HIDE DEF closes, open, aimed
      <4> QED BY <1>6, <3>1
    <3>3. Counted(P[x], "PRE") \in Int
      BY <1>3, CountingCounts
    <3> HIDE DEF s, closes
    <3> QED BY <1>3, <3>1, <3>2, <3>3
  <2> QED BY <2>1, <2>2
<1> HIDE DEF s, closes, n, rankHandled, bankHandled, counter, handler
<1>8. Counted(P[x], "ACT") \in Int /\ Counted(P[x], "PRE") \in Int /\ Counted(s, "ACT") \in Int /\ Counted(s, "PRE") \in Int
  BY <1>3, <1>7, CountingCounts
<1>9. CASE Targeted(x, addr) /\ bankHandled
  <2>1. X = Counting(s, counter, n) /\ BankPower(D, c) = counter
    BY <1>1, <1>5, <1>9
  <2>2. Counted(X, "ACT") = Counted(s, "ACT") + (IF counter = "ACT" THEN n ELSE 0)
    <3>1. \A d, m : d # "ACT" => Counted(Counting(s, d, m), "ACT") = Counted(s, "ACT")
      BY <1>7, CountingCounts
    <3>2. \A m : Counted(Counting(s, "ACT", m), "ACT") = Counted(s, "ACT") + m
      BY <1>7, CountingCounts
    <3> QED BY <1>8, <2>1, <3>1, <3>2
  <2>3. Counted(X, "PRE") = Counted(s, "PRE") + (IF counter = "PRE" THEN n ELSE 0)
    <3>1. \A d, m : d # "PRE" => Counted(Counting(s, d, m), "PRE") = Counted(s, "PRE")
      BY <1>7, CountingCounts
    <3>2. \A m : Counted(Counting(s, "PRE", m), "PRE") = Counted(s, "PRE") + m
      BY <1>7, CountingCounts
    <3> QED BY <1>8, <2>1, <3>1, <3>2
  <2> QED BY <1>7, <1>9, <2>1, <2>2, <2>3 DEF n, closes, CountedFor
<1>10. CASE Targeted(x, addr) /\ ~bankHandled
  <2>1. X = s /\ BankPower(D, c) = "none"
    BY <1>1, <1>5, <1>10
  <2> QED BY <1>7, <1>8, <1>10, <2>1 DEF closes, CountedFor
<1>11. ~Targeted(x, addr) => X = P[x]
  BY <1>1
<1> QED BY <1>9, <1>10, <1>11 DEF CountedFor
\* The open banks of a rank.
Opens(D, B, x) == { q \in BanksOf(D, x) : B[q].state = "Opened" }
LEMMA OpensAreFinite ==
  ASSUME NEW D, TablesAreTidy(D), D.banks \subseteq D.nodes, NEW B, NEW x
  PROVE  IsFiniteSet(Opens(D, B, x)) /\ Cardinality(Opens(D, B, x)) \in Nat /\ IsFiniteSet(BanksOf(D, x))
<1>1. IsFiniteSet(D.nodes) /\ BanksOf(D, x) \subseteq D.nodes /\ Opens(D, B, x) \subseteq D.nodes
  BY DEF TablesAreTidy, Opens, BanksOf
<1>2. IsFiniteSet(BanksOf(D, x)) /\ IsFiniteSet(Opens(D, B, x))
  BY <1>1, FS_Subset
<1> QED BY <1>2, FS_CardinalityType

-----------------------------------------------------------------------------
(***************************************************************************)
(* The cycles of a rank.                                                    *)
(***************************************************************************)
\* The cycles a rank has been charged for, a refresh for one more than it takes; that they are all those there
\* were before the rank's state began, and what a handler may make of that.
Worth(D)      == D.vals[D.spec.charged.REF]
Charged(D, s) == s.active_cycles + s.idle_cycles + (Counted(s, "REF") * Worth(D) - Counted(s, "REF"))
Clocked(D, s) ==
  /\ s.state = "IDLE" => Charged(D, s) = s.idle_start_cycle
  /\ s.state = "ACTIVE" => Charged(D, s) = s.active_start_cycle
Same(D, s, X)  == X.state = s.state /\ Charged(D, X) = Charged(D, s) /\ (Clocked(D, s) => Clocked(D, X))
Woken(D, s, X) == X.state = "ACTIVE" /\ (s.state = "IDLE" /\ Clocked(D, s) => Clocked(D, X))
Slept(D, s, X) == X.state = "IDLE" /\ (s.state = "ACTIVE" /\ Clocked(D, s) => Clocked(D, X))
Halted(D, s, X, at) == X.state = "REFRESHING" /\ (s.state = "IDLE" /\ Clocked(D, s) => Charged(D, X) = at)
Resumed(D, s, X, now) == X.state = "IDLE" /\ (Charged(D, s) = now => Clocked(D, X))

\* What the handler of a rank does, told how many of its banks are open and refreshing.
Meters(D, handler, s, X, open, refreshing, bankgroups, now) ==
  /\ handler = "none" => Same(D, s, X)
  /\ handler \in {"ACT", "VRR", "RFMsb", "RRFMsb"} =>
       IF open = 0 /\ refreshing = 0 THEN Woken(D, s, X) ELSE Same(D, s, X)
  /\ handler = "PRE" => IF open = 1 /\ refreshing = 0 THEN Slept(D, s, X) ELSE Same(D, s, X)
  /\ handler = "PREA" => IF open = 0 /\ refreshing = 0 THEN Same(D, s, X) ELSE Slept(D, s, X)
  /\ handler = "REFab" => Halted(D, s, X, now + Worth(D) - 1)
  /\ handler = "REFab_end" => Resumed(D, s, X, now)
  /\ handler = "VRR_end" => IF open = 0 /\ refreshing = 1 THEN Slept(D, s, X) ELSE Same(D, s, X)
  /\ handler \in {"RFMsb_end", "RRFMsb_end"} =>
       IF open = 0 /\ refreshing = bankgroups THEN Slept(D, s, X) ELSE Same(D, s, X)

\* The steps the handlers are made of.
LEMMA WakingMeters ==
  ASSUME NEW D, Worth(D) \in Int, NEW C, "REF" \in C, NEW s \in Stats(C), NEW now \in Nat
  PROVE  /\ Woken(D, s, WakingUp(s, now)) /\ Slept(D, s, GoingIdle(s, now)) /\ Resumed(D, s, REFab_end(s, now), now)
         /\ Same(D, s, s)
<1> DEFINE i == s.idle_cycles  a == s.active_cycles  b == s.idle_start_cycle  d == s.active_start_cycle
           w == Worth(D)  n == Counted(s, "REF")
           idled == i + now - b
           worked == a + now - d
<1>1. i \in Int /\ a \in Int /\ b \in Int /\ d \in Int /\ n \in Int /\ w \in Int
  <2>1. n \in Int
    BY CountingCounts
  <2> QED BY <2>1 DEF Stats
<1>2. /\ WakingUp(s, now) = [s EXCEPT !.state = "ACTIVE", !.idle_cycles = idled, !.active_start_cycle = now]
      /\ GoingIdle(s, now) = [s EXCEPT !.state = "IDLE", !.active_cycles = worked, !.idle_start_cycle = now]
      /\ REFab_end(s, now) = [s EXCEPT !.state = "IDLE", !.idle_start_cycle = now]
  BY DEF WakingUp, GoingIdle, REFab_end
<1>3. /\ Counted(WakingUp(s, now), "REF") = n /\ Counted(GoingIdle(s, now), "REF") = n
      /\ Counted(REFab_end(s, now), "REF") = n
  BY WakingCounts
<1>4. Charged(D, s) = a + i + (n * w - n)
  BY DEF Charged
<1>5. n * w - n \in Int
  BY <1>1
<1>6. PICK m : m = n * w - n
  OBVIOUS
<1> HIDE DEF idled, worked
<1>7. ASSUME NEW X, X = WakingUp(s, now) PROVE Woken(D, s, X)
  <2>1. X.state = "ACTIVE" /\ X.active_cycles = a /\ X.idle_cycles = idled /\ X.active_start_cycle = now
    BY <1>2, <1>7 DEF Stats
  <2>2. Charged(D, X) = a + idled + m
    <3>1. Counted(X, "REF") = n
      BY <1>3, <1>7
    <3> HIDE DEF n, a, w
    <3> QED BY <1>6, <2>1, <3>1 DEF Charged, w
  <2>3. s.state = "IDLE" /\ Clocked(D, s) => a + i + m = b
    BY <1>4, <1>6 DEF Clocked
  <2> HIDE DEF n, a, w, i, b, d
  <2>4. a + i + m = b => a + idled + m = now
    BY <1>1, <1>5, <1>6 DEF idled
  <2> QED BY <2>1, <2>2, <2>3, <2>4 DEF Woken, Clocked
<1>8. ASSUME NEW X, X = GoingIdle(s, now) PROVE Slept(D, s, X)
  <2>1. X.state = "IDLE" /\ X.active_cycles = worked /\ X.idle_cycles = i /\ X.idle_start_cycle = now
    BY <1>2, <1>8 DEF Stats
  <2>2. Charged(D, X) = worked + i + m
    <3>1. Counted(X, "REF") = n
      BY <1>3, <1>8
    <3> HIDE DEF n, a, w, i
    <3> QED BY <1>6, <2>1, <3>1 DEF Charged, w
  <2>3. s.state = "ACTIVE" /\ Clocked(D, s) => a + i + m = d
    BY <1>4, <1>6 DEF Clocked
  <2> HIDE DEF n, a, w, i, b, d
  <2>4. a + i + m = d => worked + i + m = now
    BY <1>1, <1>5, <1>6 DEF worked
  <2> QED BY <2>1, <2>2, <2>3, <2>4 DEF Slept, Clocked
<1>9. ASSUME NEW X, X = REFab_end(s, now) PROVE Resumed(D, s, X, now)
  <2>1. X.state = "IDLE" /\ X.active_cycles = a /\ X.idle_cycles = i /\ X.idle_start_cycle = now
    BY <1>2, <1>9 DEF Stats
  <2>2. Charged(D, X) = Charged(D, s)
    <3>1. Counted(X, "REF") = n
      BY <1>3, <1>9
    <3> QED BY <2>1, <3>1 DEF Charged
  <2> QED BY <2>1, <2>2 DEF Resumed, Clocked
<1> QED BY <1>7, <1>8, <1>9 DEF Same

\* What counts no refresh leaves the cycles as they are.
LEMMA CountingMeters ==
  ASSUME NEW D, NEW C, "REF" \in C, NEW s \in Stats(C), NEW c, NEW n \in Int, c # "REF"
  PROVE  Same(D, s, Counting(s, c, n))
<1> DEFINE counters == s.cmd_counters
           g == [counters EXCEPT ![c] = counters[c] + n]
<1>1. Counting(s, c, n) = [s EXCEPT !.cmd_counters = g]
  BY DEF Counting
<1>2. Counted(Counting(s, c, n), "REF") = Counted(s, "REF")
  BY CountingCounts
<1>3. PICK X : X = Counting(s, c, n)
  OBVIOUS
<1> HIDE DEF g
<1>4. /\ X.state = s.state /\ X.active_cycles = s.active_cycles /\ X.idle_cycles = s.idle_cycles
      /\ X.active_start_cycle = s.active_start_cycle /\ X.idle_start_cycle = s.idle_start_cycle
  BY <1>1, <1>3 DEF Stats
<1>5. Charged(D, X) = Charged(D, s)
  BY <1>2, <1>3, <1>4 DEF Charged
<1> QED BY <1>3, <1>4, <1>5 DEF Same, Clocked

\* A refresh is counted, and charged for at once.
LEMMA RefreshMeters ==
  ASSUME NEW D, Worth(D) \in Int, NEW C, "REF" \in C, NEW s \in Stats(C), NEW now \in Nat
  PROVE  Halted(D, s, REFab(s, now), now + Worth(D) - 1)
<1> DEFINE i == s.idle_cycles  a == s.active_cycles  b == s.idle_start_cycle
           w == Worth(D)  n == Counted(s, "REF")
           t == Counting(s, "REF", 1)
           idled == t.idle_cycles + now - b
<1>1. t \in Stats(C) /\ Counted(t, "REF") = n + 1 /\ n \in Int
  BY CountingCounts, StatsTyped
<1>2. t.idle_cycles = i /\ t.active_cycles = a /\ i \in Int /\ a \in Int /\ b \in Int /\ w \in Int
  <2> DEFINE counters == s.cmd_counters
             g == [counters EXCEPT !["REF"] = counters["REF"] + 1]
  <2>1. t = [s EXCEPT !.cmd_counters = g]
    BY DEF Counting
  <2> HIDE DEF g, t
  <2> QED BY <2>1 DEF Stats
<1>3. REFab(s, now) = [t EXCEPT !.state = "REFRESHING", !.idle_cycles = idled]
  BY DEF REFab
<1>4. PICK X : X = REFab(s, now)
  OBVIOUS
<1> HIDE DEF t, idled
<1>5. X.state = "REFRESHING" /\ X.idle_cycles = idled /\ X.active_cycles = a /\ Counted(X, "REF") = n + 1
  <2>1. X.cmd_counters = t.cmd_counters /\ X.state = "REFRESHING" /\ X.idle_cycles = idled /\ X.active_cycles = a
    BY <1>1, <1>2, <1>3, <1>4 DEF Stats
  <2> QED BY <1>1, <2>1 DEF Counted
<1>6. Charged(D, X) = a + idled + ((n + 1) * w - (n + 1))
  BY <1>5 DEF Charged
<1>7. s.state = "IDLE" /\ Clocked(D, s) => a + i + (n * w - n) = b
  BY DEF Charged, Clocked
<1>8. idled = i + now - b
  BY <1>2 DEF idled
<1> HIDE DEF i, a, b, w, n
<1>9. a + i + (n * w - n) = b => a + idled + ((n + 1) * w - (n + 1)) = now + w - 1
  <2>1. (n + 1) * w = n * w + w /\ n * w \in Int
    BY <1>1, <1>2
  <2>2. PICK m : m = n * w
    OBVIOUS
  <2> QED BY <1>1, <1>2, <1>8, <2>1, <2>2
<1> QED BY <1>4, <1>5, <1>6, <1>7, <1>9 DEF Halted, w

\* What changes nothing may come before or after what does.
LEMMA SameThen ==
  ASSUME NEW D, NEW s, NEW t, NEW X
  PROVE  /\ Same(D, s, t) =>
              /\ Woken(D, t, X) => Woken(D, s, X)
              /\ Slept(D, t, X) => Slept(D, s, X)
              /\ Same(D, t, X) => Same(D, s, X)
         /\ Same(D, t, X) =>
              /\ Woken(D, s, t) => Woken(D, s, X)
              /\ Slept(D, s, t) => Slept(D, s, X)
              /\ \A at : Halted(D, s, t, at) => Halted(D, s, X, at)
              /\ \A now : Resumed(D, s, t, now) => Resumed(D, s, X, now)
<1> QED BY Zenon DEF Same, Woken, Slept, Halted, Resumed, Clocked

\* The handlers of a rank keep its cycles.
LEMMA RankMeters ==
  ASSUME NEW D, Worth(D) \in Int, NEW C, "REF" \in C, NEW s \in Stats(C), NEW now \in Nat, NEW handler \in PowerHandlers,
         NEW B, NEW banks, IsFiniteSet(banks), NEW addr,
         NEW open, open = get_open_bank_count(B, banks), NEW refreshing, refreshing = get_refreshing_bank_count(B, banks),
         NEW bankgroups, bankgroups = Cardinality({ q[3] : q \in banks })
  PROVE  Meters(D, handler, s, RankHandler(handler, s, B, banks, addr, now), open, refreshing, bankgroups, now)
<1> DEFINE x == RankHandler(handler, s, B, banks, addr, now)
<1>1. open \in Int
  <2>1. \A T \in SUBSET banks : IsFiniteSet(T) /\ Cardinality(T) \in Nat
    BY FS_Subset, FS_CardinalityType
  <2>2. { q \in banks : B[q].state = "Opened" } \in SUBSET banks
    OBVIOUS
  <2> QED BY <2>1, <2>2 DEF get_open_bank_count
<1>2. /\ handler = "ACT" => x = ACT(s, open, refreshing, now)
      /\ handler = "PRE" => x = PRE(s, open, refreshing, now)
      /\ handler = "PREA" => x = PREA(s, open, refreshing, now)
      /\ handler = "REFab" => x = REFab(s, now)
      /\ handler = "REFab_end" => x = REFab_end(s, now)
      /\ handler = "VRR" => x = VRR(s, open, refreshing, now)
      /\ handler = "VRR_end" => x = VRR_end(s, open, refreshing, now)
      /\ handler = "RFMsb" => x = RFMsb(s, open, refreshing, now)
      /\ handler = "RFMsb_end" => x = RFMsb_end(s, open, refreshing, bankgroups, now)
      /\ handler = "RRFMsb" => x = RRFMsb(s, open, refreshing, now)
      /\ handler = "RRFMsb_end" => x = RRFMsb_end(s, open, refreshing, bankgroups, now)
  BY DEF RankHandler
<1>3. PICK X : X = x
  OBVIOUS
<1> SUFFICES Meters(D, handler, s, X, open, refreshing, bankgroups, now)
  BY <1>3
<1> HIDE DEF x
<1>4. /\ Counting(s, "PRE", open) \in Stats(C) /\ Counting(s, "RFM", 1) \in Stats(C) /\ Counting(s, "RRFM", 1) \in Stats(C)
  <2>1. \A c, n : n \in Int => Counting(s, c, n) \in Stats(C)
    BY StatsTyped
  <2> QED BY <1>1, <2>1
<1>5. /\ Same(D, s, Counting(s, "PRE", open)) /\ Same(D, s, Counting(s, "RFM", 1)) /\ Same(D, s, Counting(s, "RRFM", 1))
      /\ Same(D, s, s)
  BY <1>1, CountingMeters, WakingMeters
<1>6. ASSUME NEW t \in Stats(C), Same(D, s, t)
      PROVE  Woken(D, s, WakingUp(t, now)) /\ Slept(D, s, GoingIdle(t, now))
  <2>1. Woken(D, t, WakingUp(t, now)) /\ Slept(D, t, GoingIdle(t, now))
    BY WakingMeters
  <2> QED BY <1>6, <2>1, SameThen
<1>7. Resumed(D, s, REFab_end(s, now), now) /\ Halted(D, s, REFab(s, now), now + Worth(D) - 1)
  BY WakingMeters, RefreshMeters
<1>8. CASE handler = "ACT"
  <2>1. X = IF open = 0 /\ refreshing = 0 THEN WakingUp(s, now) ELSE s
    BY <1>2, <1>3, <1>8 DEF ACT
  <2> QED BY <1>5, <1>6, <1>8, <2>1 DEF Meters
<1>9. CASE handler = "VRR"
  <2>1. X = IF open = 0 /\ refreshing = 0 THEN WakingUp(s, now) ELSE s
    BY <1>2, <1>3, <1>9 DEF ACT, VRR
  <2> QED BY <1>5, <1>6, <1>9, <2>1 DEF Meters
<1>10. CASE handler = "RFMsb"
  <2>1. PICK t : t = Counting(s, "RFM", 1)
    OBVIOUS
  <2>2. X = IF open = 0 /\ refreshing = 0 THEN WakingUp(t, now) ELSE t
    BY <1>2, <1>3, <1>10, <2>1 DEF ACT, RFMsb
  <2> QED BY <1>4, <1>5, <1>6, <1>10, <2>1, <2>2 DEF Meters
<1>11. CASE handler = "RRFMsb"
  <2>1. PICK t : t = Counting(s, "RRFM", 1)
    OBVIOUS
  <2>2. X = IF open = 0 /\ refreshing = 0 THEN WakingUp(t, now) ELSE t
    BY <1>2, <1>3, <1>11, <2>1 DEF ACT, RRFMsb
  <2> QED BY <1>4, <1>5, <1>6, <1>11, <2>1, <2>2 DEF Meters
<1>12. CASE handler = "PRE"
  <2>1. X = IF open = 1 /\ refreshing = 0 THEN GoingIdle(s, now) ELSE s
    BY <1>2, <1>3, <1>12 DEF PRE
  <2> QED BY <1>5, <1>6, <1>12, <2>1 DEF Meters
<1>13. CASE handler = "PREA"
  <2>1. PICK t : t = Counting(s, "PRE", open)
    OBVIOUS
  <2>2. X = IF open = 0 /\ refreshing = 0 THEN t ELSE GoingIdle(t, now)
    BY <1>2, <1>3, <1>13, <2>1 DEF PREA
  <2> QED BY <1>4, <1>5, <1>6, <1>13, <2>1, <2>2 DEF Meters
<1>14. CASE handler \in {"REFab", "REFab_end"}
  BY <1>2, <1>3, <1>7, <1>14 DEF Meters
<1>15. CASE handler = "VRR_end"
  <2>1. X = IF open = 0 /\ refreshing = 1 THEN GoingIdle(s, now) ELSE s
    BY <1>2, <1>3, <1>15 DEF VRR_end
  <2> QED BY <1>5, <1>6, <1>15, <2>1 DEF Meters
<1>16. CASE handler \in {"RFMsb_end", "RRFMsb_end"}
  <2>1. X = IF open = 0 /\ refreshing = bankgroups THEN GoingIdle(s, now) ELSE s
    BY <1>2, <1>3, <1>16 DEF RFMsb_end, RRFMsb_end
  <2> QED BY <1>5, <1>6, <1>16, <2>1 DEF Meters
<1>17. CASE handler = "PREsb"
  BY <1>17 DEF Meters
<1> QED BY <1>8, <1>9, <1>10, <1>11, <1>12, <1>13, <1>14, <1>15, <1>16, <1>17 DEF PowerHandlers

\* So does a command for the ranks it is addressed to, and for the others.
Busy(D, B, x) == { q \in BanksOf(D, x) : B[q].state = "Refreshing" }
Bankgroups(D, x) == Cardinality({ q[3] : q \in BanksOf(D, x) })
Metering(D, B, s, X, x, c, addr, now) ==
  IF Targeted(x, addr)
  THEN Meters(D, RankPower(D, c), s, X, Cardinality(Opens(D, B, x)), Cardinality(Busy(D, B, x)), Bankgroups(D, x), now)
  ELSE X = s
LEMMA PowersMeter ==
  ASSUME NEW D, TablesAreTidy(D), D.banks \subseteq D.nodes, NEW C, NEW P \in [D.ranks -> Stats(C)], "REF" \in C,
         Worth(D) \in Int,
         NEW B, NEW c \in D.commands, NEW addr, NEW now \in Nat, NEW x \in D.ranks,
         Targeted(x, addr) => BankPower(D, c) # "REF",
         NEW X, X = update_powers(D, P, B, c, addr, now)[x]
  PROVE  Metering(D, B, P[x], X, x, c, addr, now)
<1> DEFINE rankHandled == 2 \in D.metering[c] /\ 2 <= D.reach[c]
           bankHandled == D.bankLevel \in D.metering[c] /\ D.bankLevel <= D.reach[c]
           banks == BanksOf(D, x)
           handler == D.spec.powers[<<"rank", c>>]
           counter == D.spec.powers[<<"bank", c>>]
           s == IF rankHandled THEN RankHandler(handler, P[x], B, banks, addr, now) ELSE P[x]
           n == Aimed(D, x, addr)
           open == Cardinality(Opens(D, B, x))
           refreshing == Cardinality(Busy(D, B, x))
           bankgroups == Bankgroups(D, x)
           M(t) == Meters(D, RankPower(D, c), P[x], t, open, refreshing, bankgroups, now)
<1>1. X = IF ~Targeted(x, addr) THEN P[x] ELSE IF bankHandled THEN Counting(s, counter, n) ELSE s
  BY DEF update_powers, BanksOf, Aimed
<1>2. IsFiniteSet(banks) /\ n \in Int
  <2>1. IsFiniteSet(D.nodes) /\ banks \subseteq D.nodes /\ { q \in banks : Targeted(q, addr) } \subseteq D.nodes
    BY DEF TablesAreTidy, BanksOf
  <2> HIDE DEF banks
  <2>2. IsFiniteSet({ q \in banks : Targeted(q, addr) }) /\ IsFiniteSet(banks)
    BY <2>1, FS_Subset
  <2>3. Cardinality({ q \in banks : Targeted(q, addr) }) \in Nat
    BY <2>2, FS_CardinalityType
  <2> QED BY <2>2, <2>3 DEF Aimed, banks
<1>3. P[x] \in Stats(C)
  OBVIOUS
<1>4. rankHandled => handler \in PowerHandlers
  BY DEF TablesAreTidy
<1>5. /\ RankPower(D, c) = IF rankHandled THEN handler ELSE "none"
      /\ BankPower(D, c) = IF bankHandled THEN counter ELSE "none"
  BY DEF RankPower, BankPower
<1>6. /\ open = get_open_bank_count(B, banks) /\ refreshing = get_refreshing_bank_count(B, banks)
      /\ bankgroups = Cardinality({ q[3] : q \in banks })
  BY DEF get_open_bank_count, get_refreshing_bank_count, Opens, Busy, Bankgroups
<1>7. s \in Stats(C) /\ M(s)
  <2>1. CASE rankHandled
    <3>0. PICK t : t = P[x]
      OBVIOUS
    <3> DEFINE z == RankHandler(handler, t, B, banks, addr, now)
    <3>1. s = z /\ RankPower(D, c) = handler /\ handler \in PowerHandlers /\ t \in Stats(C)
      BY <1>3, <1>4, <1>5, <2>1, <3>0
    <3> HIDE DEF rankHandled, banks, handler, open, refreshing, bankgroups
    <3>2. z \in Stats(C)
      BY <1>2, <3>1, RankHandlerTyped
    <3>3. Meters(D, handler, t, z, open, refreshing, bankgroups, now)
      <4>1. IsFiniteSet(banks) /\ t \in Stats(C) /\ handler \in PowerHandlers
        BY <1>2, <3>1
      <4> QED BY <1>6, <4>1, RankMeters
    <3> HIDE DEF s, z
    <3> QED BY <3>0, <3>1, <3>2, <3>3
  <2>2. CASE ~rankHandled
    <3>1. s = P[x] /\ RankPower(D, c) = "none"
      BY <1>5, <2>2
    <3>2. Same(D, P[x], P[x])
      BY <1>3, WakingMeters
    <3> HIDE DEF s, open, refreshing, bankgroups
    <3> QED BY <1>3, <3>1, <3>2 DEF Meters
  <2> QED BY <2>1, <2>2
<1> HIDE DEF s, n, rankHandled, bankHandled, counter, handler, open, refreshing, bankgroups
<1>8. CASE Targeted(x, addr) /\ bankHandled
  <2>1. X = Counting(s, counter, n) /\ counter # "REF"
    BY <1>1, <1>5, <1>8
  <2>2. Same(D, s, X)
    BY <1>2, <1>7, <2>1, CountingMeters
  <2>3. PICK t : t = P[x]
    OBVIOUS
  <2>4. Meters(D, RankPower(D, c), t, s, open, refreshing, bankgroups, now)
    BY <1>7, <2>3
  <2>5. Meters(D, RankPower(D, c), t, X, open, refreshing, bankgroups, now)
    BY <2>2, <2>4, SameThen DEF Meters
  <2> QED BY <1>8, <2>3, <2>5 DEF Metering, open, refreshing, bankgroups
<1>9. CASE Targeted(x, addr) /\ ~bankHandled
  BY <1>1, <1>7, <1>9 DEF Metering, open, refreshing, bankgroups
<1>10. CASE ~Targeted(x, addr)
  BY <1>1, <1>10 DEF Metering
<1> QED BY <1>8, <1>9, <1>10

-----------------------------------------------------------------------------
(***************************************************************************)
(* A rank, its banks and its refreshes.                                     *)
(***************************************************************************)
\* The banks of a rank that an action to come acts on, and the state the rank has until then.
Reached(D, e, x) == { q \in BanksOf(D, x) : Covers(D, e, q) }
Mode(D, e) ==
  CASE RankPower(D, e.cmd) = "REFab" -> "REFRESHING" [] RankPower(D, e.cmd) = "none" -> "IDLE" [] OTHER -> "ACTIVE"

\* The statistics s of a rank x with the open banks O and the refreshing ones R, which the actions W will end.
AtRank(D, s, O, R, W) ==
  /\ Clocked(D, s)
  /\ \A e \in W : s.state = Mode(D, e) /\ (s.state = "REFRESHING" => Charged(D, s) = e.clk)
  /\ s.state = "IDLE" => O = {}
  /\ s.state = "ACTIVE" => O # {} \/ R # {}
  /\ s.state = "REFRESHING" => \E e \in W : RankPower(D, e.cmd) = "REFab"
Finishes(D, x, e, A) == Reached(D, e, x) = A /\ A # {} /\ A \subseteq BanksOf(D, x) /\ ChargedTwice(D, e.cmd, A, BanksOf(D, x))
EndedBy(D, x, R, W) ==
  /\ \A e \in W : Finishes(D, x, e, Reached(D, e, x)) /\ Reached(D, e, x) \subseteq R
  /\ \A q \in R : \E e \in W : q \in Reached(D, e, x)

\* A command that acts on a bank not under a refresh finds its rank idle, all banks closed, or active.
AtRest(s, O, R, W) ==
  \/ s.state = "IDLE" /\ O = {} /\ R = {} /\ W = {}
  \/ s.state = "ACTIVE" /\ (O # {} \/ R # {})
LEMMA RankIsAtRest ==
  ASSUME NEW D, NEW x, NEW C, NEW s \in Stats(C), NEW O, NEW R, NEW W, AtRank(D, s, O, R, W), EndedBy(D, x, R, W),
         NEW q \in BanksOf(D, x), q \notin R
  PROVE  AtRest(s, O, R, W)
<1>1. s.state \in {"IDLE", "ACTIVE", "REFRESHING"}
  BY DEF Stats
<1>2. \A e \in W : RankPower(D, e.cmd) \notin {"REFab", "none"} /\ Mode(D, e) = "ACTIVE"
  <2> SUFFICES ASSUME NEW e \in W, RankPower(D, e.cmd) \in {"REFab", "none"} PROVE FALSE
    BY DEF Mode
  <2>1. Reached(D, e, x) = BanksOf(D, x) /\ Reached(D, e, x) \subseteq R
    BY DEF EndedBy, Finishes, ChargedTwice
  <2> QED BY <2>1
<1>3. s.state # "REFRESHING"
  BY <1>2 DEF AtRank
<1>4. s.state = "IDLE" => W = {}
  BY <1>2 DEF AtRank
<1>5. W = {} => R = {}
  BY DEF EndedBy
<1> QED BY <1>1, <1>3, <1>4, <1>5 DEF AtRank, AtRest

\* The rank wakes up for its first open bank and goes idle after its last.
LEMMA OpensMeter ==
  ASSUME NEW D, NEW s, NEW O, NEW R, NEW W, AtRank(D, s, O, R, W),
         AtRest(s, O, R, W), IsFiniteSet(O), IsFiniteSet(R), NEW q, NEW X, NEW now, NEW n,
         Meters(D, "ACT", s, X, Cardinality(O), Cardinality(R), n, now)
  PROVE  AtRank(D, X, O \cup {q}, R, W)
<1>1. (Cardinality(O) = 0 <=> O = {}) /\ (Cardinality(R) = 0 <=> R = {})
  BY FS_EmptySet
<1>2. IF O = {} /\ R = {} THEN Woken(D, s, X) ELSE Same(D, s, X)
  BY <1>1 DEF Meters
<1>3. CASE O = {} /\ R = {}
  <2>1. s.state = "IDLE" /\ W = {} /\ Clocked(D, s)
    BY <1>3 DEF AtRest, AtRank
  <2>2. X.state = "ACTIVE" /\ Clocked(D, X)
    BY <1>2, <1>3, <2>1 DEF Woken
  <2> QED BY <2>1, <2>2 DEF AtRank
<1>4. CASE ~(O = {} /\ R = {})
  <2>1. s.state = "ACTIVE"
    BY <1>4 DEF AtRest
  <2>2. X.state = "ACTIVE" /\ Clocked(D, X)
    BY <1>2, <1>4, <2>1 DEF Same, AtRank
  <2> QED BY <2>1, <2>2 DEF AtRank
<1> QED BY <1>3, <1>4

LEMMA ClosesMeter ==
  ASSUME NEW D, NEW x, NEW s, NEW O, NEW R, NEW W, AtRank(D, s, O, R, W), EndedBy(D, x, R, W),
         AtRest(s, O, R, W), IsFiniteSet(O), IsFiniteSet(R), NEW q \in O, NEW X, NEW now, NEW n,
         Meters(D, "PRE", s, X, Cardinality(O), Cardinality(R), n, now)
  PROVE  AtRank(D, X, O \ {q}, R, W)
<1>1. (Cardinality(O) = 1 <=> \E p : O = {p}) /\ (Cardinality(R) = 0 <=> R = {})
  BY FS_EmptySet, FS_Singleton
<1>2. Cardinality(O) = 1 <=> O \ {q} = {}
  BY <1>1
<1>3. IF O \ {q} = {} /\ R = {} THEN Slept(D, s, X) ELSE Same(D, s, X)
  BY <1>1, <1>2 DEF Meters
<1>4. s.state = "ACTIVE" /\ Clocked(D, s)
  BY DEF AtRest, AtRank
<1>5. CASE O \ {q} = {} /\ R = {}
  <2>1. W = {}
    BY <1>5 DEF EndedBy, Finishes
  <2>2. X.state = "IDLE" /\ Clocked(D, X)
    BY <1>3, <1>4, <1>5 DEF Slept
  <2> QED BY <1>5, <2>1, <2>2 DEF AtRank
<1>6. CASE ~(O \ {q} = {} /\ R = {})
  <2>1. X.state = "ACTIVE" /\ Clocked(D, X)
    BY <1>3, <1>4, <1>6 DEF Same
  <2> QED BY <1>4, <1>6, <2>1 DEF AtRank
<1> QED BY <1>5, <1>6

LEMMA ClosesAllMeter ==
  ASSUME NEW D, NEW x, NEW s, NEW O, NEW W, AtRank(D, s, O, {}, W), EndedBy(D, x, {}, W),
         AtRest(s, O, {}, W), IsFiniteSet(O), NEW X, NEW now, NEW n,
         Meters(D, "PREA", s, X, Cardinality(O), Cardinality({}), n, now)
  PROVE  AtRank(D, X, {}, {}, W)
<1>1. (Cardinality(O) = 0 <=> O = {}) /\ Cardinality({}) = 0
  BY FS_EmptySet
<1>2. IF O = {} THEN Same(D, s, X) ELSE Slept(D, s, X)
  BY <1>1 DEF Meters
<1>3. W = {}
  BY DEF EndedBy, Finishes
<1>4. IF O = {} THEN s.state = "IDLE" ELSE s.state = "ACTIVE"
  BY DEF AtRest
<1>5. X.state = "IDLE" /\ Clocked(D, X)
  BY <1>2, <1>4 DEF Same, Slept, AtRank
<1> QED BY <1>3, <1>5 DEF AtRank

LEMMA SameMeters ==
  ASSUME NEW D, NEW s, NEW X, NEW O, NEW R, NEW W, AtRank(D, s, O, R, W), Same(D, s, X)
  PROVE  AtRank(D, X, O, R, W)
BY DEF AtRank, Same

\* A refresh takes closed banks A.
LEMMA BeginsMeter ==
  ASSUME NEW D, NEW x, NEW s, NEW O, NEW R, NEW W, AtRank(D, s, O, R, W), EndedBy(D, x, R, W),
         AtRest(s, O, R, W), IsFiniteSet(O), IsFiniteSet(R), O \subseteq BanksOf(D, x), R \subseteq BanksOf(D, x),
         NEW e, NEW A, Finishes(D, x, e, A), A \cap O = {}, A \cap R = {},
         NEW X, NEW now, NEW n, e.clk = now + Delay(D, e.cmd) - 1,
         Meters(D, RankPower(D, e.cmd), s, X, Cardinality(O), Cardinality(R), n, now)
  PROVE  AtRank(D, X, O, R \cup A, W \cup {e})
<1>1. (Cardinality(O) = 0 <=> O = {}) /\ (Cardinality(R) = 0 <=> R = {})
  BY FS_EmptySet
<1> DEFINE begin == RankPower(D, e.cmd)
<1>2. begin \in {"REFab", "VRR", "RFMsb", "RRFMsb", "none"}
  BY DEF Finishes, ChargedTwice, EndHandler
<1>3. Clocked(D, s) /\ A # {}
  BY DEF AtRank, Finishes
<1>4. CASE begin \in {"REFab", "none"}
  <2>1. A = BanksOf(D, x)
    BY <1>4 DEF Finishes, ChargedTwice
  <2>2. O = {} /\ R = {} /\ s.state = "IDLE" /\ W = {}
    BY <2>1 DEF AtRest
  <2>3. CASE begin = "REFab"
    <3>1. Halted(D, s, X, now + Worth(D) - 1) /\ Delay(D, e.cmd) = Worth(D)
      BY <2>3 DEF Meters, Finishes, ChargedTwice, Worth
    <3>2. X.state = "REFRESHING" /\ Charged(D, X) = e.clk
      BY <1>3, <2>2, <3>1 DEF Halted
    <3>3. Mode(D, e) = "REFRESHING"
      BY <2>3 DEF Mode
    <3> QED BY <2>2, <2>3, <3>2, <3>3 DEF AtRank, Clocked
  <2>4. CASE begin = "none"
    <3>1. Same(D, s, X)
      BY <2>4 DEF Meters
    <3>2. X.state = "IDLE" /\ Clocked(D, X) /\ Mode(D, e) = "IDLE"
      BY <1>3, <2>2, <2>4, <3>1 DEF Same, Mode
    <3> QED BY <2>2, <3>2 DEF AtRank
  <2> QED BY <1>4, <2>3, <2>4
<1>5. CASE begin \in {"VRR", "RFMsb", "RRFMsb"}
  <2>1. IF O = {} /\ R = {} THEN Woken(D, s, X) ELSE Same(D, s, X)
    BY <1>1, <1>5 DEF Meters
  <2>2. IF O = {} /\ R = {} THEN s.state = "IDLE" /\ W = {} ELSE s.state = "ACTIVE"
    BY DEF AtRest
  <2>3. X.state = "ACTIVE" /\ Clocked(D, X) /\ Mode(D, e) = "ACTIVE"
    BY <1>3, <1>5, <2>1, <2>2 DEF Woken, Same, Mode
  <2>4. \A f \in W : Mode(D, f) = "ACTIVE"
    BY <2>2 DEF AtRank
  <2> QED BY <1>3, <2>3, <2>4 DEF AtRank
<1> QED BY <1>2, <1>4, <1>5

\* It ends.
LEMMA EndsMeter ==
  ASSUME NEW D, NEW x, NEW s, NEW O, NEW R, NEW W, NEW e, NEW V, W = V \cup {e},
         AtRank(D, s, O, R, W), EndedBy(D, x, R, W), IsFiniteSet(O), IsFiniteSet(R), O \subseteq BanksOf(D, x),
         O \cap R = {}, \A f \in V : Reached(D, e, x) \cap Reached(D, f, x) = {},
         NEW X, NEW now, e.clk = now,
         Meters(D, RankPower(D, D.spec.future[e.cmd].end), s, X, Cardinality(O), Cardinality(R), Bankgroups(D, x), now)
  PROVE  AtRank(D, X, O, R \ Reached(D, e, x), V)
<1> DEFINE begin == RankPower(D, e.cmd)  A == Reached(D, e, x)
<1>1. (Cardinality(O) = 0 <=> O = {})
  BY FS_EmptySet
<1>2. /\ A # {} /\ A \subseteq R /\ begin \in {"REFab", "VRR", "RFMsb", "RRFMsb", "none"}
      /\ RankPower(D, D.spec.future[e.cmd].end) = EndHandler[begin]
      /\ begin \in {"REFab", "none"} => A = BanksOf(D, x)
      /\ begin = "VRR" => Cardinality(A) = 1
      /\ begin \in {"RFMsb", "RRFMsb"} => Cardinality(A) = Bankgroups(D, x)
  BY DEF EndedBy, Finishes, ChargedTwice, EndHandler, Bankgroups
<1>3. \A f \in V : Reached(D, f, x) # {} /\ Reached(D, f, x) \subseteq R \ A /\ Reached(D, f, x) \subseteq BanksOf(D, x)
  BY DEF EndedBy, Finishes
<1>4. s.state = Mode(D, e) /\ Clocked(D, s) /\ (s.state = "REFRESHING" => Charged(D, s) = now)
  BY DEF AtRank
<1>5. CASE begin \in {"REFab", "none"}
  <2>1. V = {} /\ O = {}
    BY <1>2, <1>3, <1>5
  <2>2. CASE begin = "REFab"
    <3>1. Resumed(D, s, X, now) /\ Charged(D, s) = now
      BY <1>2, <1>4, <2>2 DEF Meters, EndHandler, Mode
    <3> QED BY <2>1, <3>1 DEF Resumed, AtRank
  <2>3. CASE begin = "none"
    <3>1. Same(D, s, X) /\ s.state = "IDLE"
      BY <1>2, <1>4, <2>3 DEF Meters, EndHandler, Mode
    <3> QED BY <1>4, <2>1, <3>1 DEF Same, AtRank
  <2> QED BY <1>5, <2>2, <2>3
<1>6. CASE begin \in {"VRR", "RFMsb", "RRFMsb"}
  <2>1. IF O = {} /\ Cardinality(R) = Cardinality(A) THEN Slept(D, s, X) ELSE Same(D, s, X)
    BY <1>1, <1>2, <1>6 DEF Meters, EndHandler
  <2>2. Cardinality(R) = Cardinality(A) <=> R = A
    BY <1>2, FS_Subset
  <2>3. s.state = "ACTIVE"
    BY <1>4, <1>6 DEF Mode
  <2> HIDE DEF A
  <2>4. CASE O = {} /\ R = A
    <3>1. V = {} /\ X.state = "IDLE" /\ Clocked(D, X)
      BY <1>3, <1>4, <2>1, <2>2, <2>3, <2>4 DEF Slept
    <3> QED BY <2>4, <3>1 DEF AtRank
  <2>5. CASE ~(O = {} /\ R = A)
    <3>1. X.state = "ACTIVE" /\ Clocked(D, X)
      BY <1>4, <2>1, <2>2, <2>3, <2>5 DEF Same
    <3>2. O # {} \/ R \ A # {}
      BY <1>2, <2>5
    <3>3. \A f \in V : Mode(D, f) = "ACTIVE"
      BY <2>3 DEF AtRank
    <3>4. AtRank(D, X, O, R \ A, V)
      BY <3>1, <3>2, <3>3 DEF AtRank
    <3> QED BY <3>4 DEF A
  <2> QED BY <2>4, <2>5 DEF A
<1> QED BY <1>2, <1>5, <1>6

-----------------------------------------------------------------------------
(***************************************************************************)
(* The ranks of a device.                                                   *)
(***************************************************************************)
\* The invariant of the cycles, as long as the log h has no command whose cycles are not accounted for.
Accounted(h) == \A i \in DOMAIN h : h[i].cmd \notin Unaccounted
Waiting(F, x) == { F[i] : i \in { i \in DOMAIN F : Targeted(x, F[i].addr) } }
Metered(D, B, F, P) == \A x \in D.ranks : AtRank(D, P[x], Opens(D, B, x), Busy(D, B, x), Waiting(F, x))

LEMMA BanksAreFinite ==
  ASSUME NEW D, TablesAreTidy(D), D.banks \subseteq D.nodes, NEW B, NEW x
  PROVE  /\ IsFiniteSet(Opens(D, B, x)) /\ IsFiniteSet(Busy(D, B, x)) /\ Opens(D, B, x) \cap Busy(D, B, x) = {}
         /\ Opens(D, B, x) \subseteq BanksOf(D, x) /\ Busy(D, B, x) \subseteq BanksOf(D, x)
<1>1. IsFiniteSet(BanksOf(D, x)) /\ IsFiniteSet(Opens(D, B, x))
  BY OpensAreFinite
<1>2. Busy(D, B, x) \subseteq BanksOf(D, x) /\ Opens(D, B, x) \subseteq BanksOf(D, x)
  BY DEF Busy, Opens
<1>3. IsFiniteSet(Busy(D, B, x))
  BY <1>1, <1>2, FS_Subset
<1>4. Opens(D, B, x) \cap Busy(D, B, x) = {}
  BY DEF Busy, Opens
<1> QED BY <1>1, <1>2, <1>3, <1>4

\* An action to come ends a command the ranks were told of, on the banks that command acted on.
LEMMA ActionToCome ==
  ASSUME NEW D, NEW Q, StatesAreTidy(D, Q), PowersAreTidy(D, Q), CyclesAreTidy(D, Q), NEW h, NEW now, Accounted(h),
         NEW e, Goes(D, Q, e, h, now), NEW x \in D.ranks, NEW end, end = D.spec.future[e.cmd].end
  PROVE  /\ \A q \in BanksOf(D, x) : Covers(D, e, q) => Targeted(x, e.addr)
         /\ Targeted(x, e.addr) => Finishes(D, x, e, Reached(D, e, x)) /\ BankPower(D, end) # "REF"
         /\ end \in D.commands /\ Touched(D, end, e.addr) = { q \in D.banks : Covers(D, e, q) }
         /\ \A q \in D.banks : Covers(D, e, q) => ActionAt(D, end, e.addr, q) \in EndActions
<1>1. PICK s \in Q : FinalCommand(D, s) = e.cmd /\ s.addr = e.addr
  BY DEF Goes
<1>2. e.cmd \in Refreshes(D) /\ e.cmd \notin Unaccounted
  BY DEF Goes, Accounted
<1>3. e.cmd \in Leads(D, s) /\ RefreshIsTidy(D, e.cmd, s)
  BY <1>1, <1>2 DEF StatesAreTidy, Leads
<1> DEFINE T == Touched(D, e.cmd, e.addr)
           K == { q \in D.banks : Covers(D, e, q) }
<1>4. Covered(D, e.cmd, e.addr) = K
  BY DEF Covered, Covers
<1>5. /\ T = K /\ Touched(D, end, e.addr) = K /\ end \in D.commands
      /\ \A q \in Touched(D, end, e.addr) : ActionAt(D, end, e.addr, q) \in EndActions
  BY <1>1, <1>3, <1>4 DEF RefreshIsTidy
<1>6. \A q \in T : Below(q, x) => Targeted(x, e.addr)
  BY <1>1, <1>3 DEF PowersAreTidy
<1>7. Reached(D, e, x) = { q \in T : Below(q, x) } /\ Reached(D, e, x) \subseteq BanksOf(D, x)
  BY <1>5 DEF Reached, BanksOf
<1>8. Targeted(x, e.addr) =>
        /\ { q \in T : Below(q, x) } # {} /\ ChargedTwice(D, e.cmd, { q \in T : Below(q, x) }, BanksOf(D, x))
  BY <1>1, <1>2, <1>3 DEF CyclesAreTidy, BanksOf
<1>9. Targeted(x, e.addr) => Finishes(D, x, e, Reached(D, e, x)) /\ BankPower(D, end) # "REF"
  <2>1. Targeted(x, e.addr) => ChargedTwice(D, e.cmd, Reached(D, e, x), BanksOf(D, x)) /\ Reached(D, e, x) # {}
    BY <1>7, <1>8
  <2> HIDE DEF T, K
  <2> QED BY <1>7, <2>1 DEF Finishes, ChargedTwice
<1>10. \A q \in BanksOf(D, x) : Covers(D, e, q) => q \in T /\ Below(q, x)
  BY <1>5 DEF BanksOf
<1> HIDE DEF T
<1> QED BY <1>5, <1>6, <1>9, <1>10

LEMMA RefreshesAreWaiting ==
  ASSUME NEW D, NEW Q, StatesAreTidy(D, Q), PowersAreTidy(D, Q), CyclesAreTidy(D, Q), NEW h, NEW now, Accounted(h),
         NEW B, NEW F, StatesRight(D, Q, B, F, h, now), NEW x \in D.ranks
  PROVE  EndedBy(D, x, Busy(D, B, x), Waiting(F, x))
<1>1. ASSUME NEW e \in Waiting(F, x) PROVE Finishes(D, x, e, Reached(D, e, x)) /\ Reached(D, e, x) \subseteq Busy(D, B, x)
  <2>1. PICK i \in DOMAIN F : e = F[i] /\ Targeted(x, e.addr)
    BY DEF Waiting
  <2>2. Goes(D, Q, e, h, now)
    BY <2>1 DEF StatesRight
  <2>3. Finishes(D, x, e, Reached(D, e, x))
    BY <2>1, <2>2, ActionToCome
  <2>4. ASSUME NEW q \in Reached(D, e, x) PROVE q \in Busy(D, B, x)
    <3>1. q \in BanksOf(D, x) /\ q \in D.banks /\ i \in Enders(D, F, q)
      BY <2>1 DEF Reached, BanksOf, Enders
    <3>2. B[q].state = "Refreshing"
      BY <3>1 DEF StatesRight, BankRight
    <3> QED BY <3>1, <3>2 DEF Busy
  <2> QED BY <2>3, <2>4
<1>2. ASSUME NEW q \in Busy(D, B, x) PROVE \E e \in Waiting(F, x) : q \in Reached(D, e, x)
  <2>1. q \in D.banks /\ q \in BanksOf(D, x) /\ B[q].state = "Refreshing"
    BY DEF Busy, BanksOf
  <2>2. PICK i \in Enders(D, F, q) : TRUE
    BY <2>1 DEF StatesRight, BankRight
  <2>3. PICK e : e = F[i]
    OBVIOUS
  <2>4. i \in DOMAIN F /\ Covers(D, e, q) /\ Goes(D, Q, e, h, now)
    BY <2>2, <2>3 DEF Enders, StatesRight
  <2>5. Targeted(x, e.addr)
    BY <2>1, <2>4, ActionToCome
  <2>6. e \in Waiting(F, x) /\ q \in Reached(D, e, x)
    BY <2>1, <2>3, <2>4, <2>5 DEF Waiting, Reached
  <2> QED BY <2>6
<1> QED BY <1>1, <1>2 DEF EndedBy

\* What waits for a rank, with one action less.
LEMMA WaitingLess ==
  ASSUME NEW S, NEW G \in Seq(S), NEW H \in Seq(S), NEW k \in DOMAIN G, Without(H, G, k), NEW x
  PROVE  /\ Waiting(G, x) = IF Targeted(x, G[k].addr) THEN Waiting(H, x) \cup {G[k]} ELSE Waiting(H, x)
         /\ \A f \in Waiting(H, x) : \E i \in DOMAIN G : f = G[i] /\ i # k
<1> DEFINE n == Len(H)
           e == G[k]
           to(i) == IF i < k THEN i ELSE i + 1
<1>1. n \in Nat /\ DOMAIN H = 1..n /\ DOMAIN G = 1..n + 1 /\ k \in 1..n + 1
  <2>1. Len(H) = Len(G) - 1
    BY DEF Without
  <2> QED BY <2>1
<1>2. \A i \in 1..n : to(i) \in 1..n + 1 /\ to(i) # k /\ H[i] = G[to(i)]
  BY <1>1 DEF Without
<1>3. \A j \in 1..n + 1 : j # k => \E i \in 1..n : to(i) = j
  <2> SUFFICES ASSUME NEW j \in 1..n + 1, j # k PROVE \E i \in 1..n : to(i) = j
    OBVIOUS
  <2>1. CASE j < k
    BY <1>1, <2>1
  <2>2. CASE ~(j < k)
    <3>1. j - 1 \in 1..n /\ ~(j - 1 < k) /\ (j - 1) + 1 = j
      BY <1>1, <2>2
    <3> QED BY <3>1
  <2> QED BY <2>1, <2>2
<1> HIDE DEF to, n, e
<1>4. \A f : f \in Waiting(G, x) <=> \E i \in 1..n + 1 : f = G[i] /\ Targeted(x, G[i].addr)
  BY <1>1 DEF Waiting
<1>5. \A f : f \in Waiting(H, x) <=> \E i \in 1..n : f = H[i] /\ Targeted(x, H[i].addr)
  BY <1>1 DEF Waiting
<1>6. \A f : f \in Waiting(G, x) <=> f \in Waiting(H, x) \/ (f = e /\ Targeted(x, e.addr))
  <2>1. ASSUME NEW f, f \in Waiting(G, x) PROVE f \in Waiting(H, x) \/ (f = e /\ Targeted(x, e.addr))
    <3>1. PICK j \in 1..n + 1 : f = G[j] /\ Targeted(x, G[j].addr)
      BY <1>4, <2>1
    <3>2. CASE j # k
      <4>1. PICK i \in 1..n : to(i) = j
        BY <1>3, <3>2
      <4>2. f = H[i] /\ Targeted(x, H[i].addr)
        BY <1>2, <3>1, <4>1
      <4> QED BY <1>5, <4>2
    <3>3. CASE j = k
      BY <3>1, <3>3 DEF e
    <3> QED BY <3>2, <3>3
  <2>2. ASSUME NEW f, f \in Waiting(H, x) PROVE f \in Waiting(G, x)
    <3>1. PICK i \in 1..n : f = H[i] /\ Targeted(x, H[i].addr)
      BY <1>5, <2>2
    <3>2. to(i) \in 1..n + 1 /\ f = G[to(i)] /\ Targeted(x, G[to(i)].addr)
      BY <1>2, <3>1
    <3> QED BY <1>4, <3>2
  <2>3. Targeted(x, e.addr) => e \in Waiting(G, x)
    BY <1>1, <1>4 DEF e
  <2> QED BY <2>1, <2>2, <2>3
<1>7. \A f \in Waiting(H, x) : \E i \in DOMAIN G : f = G[i] /\ i # k
  BY <1>1, <1>2, <1>5
<1>8. Waiting(G, x) = IF Targeted(x, e.addr) THEN Waiting(H, x) \cup {e} ELSE Waiting(H, x)
  BY <1>6
<1> QED BY <1>7, <1>8 DEF e

-----------------------------------------------------------------------------
(***************************************************************************)
(* The first entries of the future, and those left of the others.           *)
(***************************************************************************)
\* Two sequences, one after the other.
LEMMA Together ==
  ASSUME NEW S, NEW H \in Seq(S), NEW L \in Seq(S)
  PROVE  /\ H \o L \in Seq(S) /\ Len(H \o L) = Len(H) + Len(L)
         /\ \A j \in 1..Len(H) + Len(L) : (H \o L)[j] = IF j <= Len(H) THEN H[j] ELSE L[j - Len(H)]
<1>1. H \o L \in Seq(S) /\ Len(H \o L) = Len(H) + Len(L)
  OBVIOUS
<1>2. \A j \in 1..Len(H) + Len(L) : (H \o L)[j] = IF j <= Len(H) THEN H[j] ELSE L[j - Len(H)]
  OBVIOUS
<1> QED BY <1>1, <1>2

\* The first k of a sequence, and others after them.
LEMMA FirstThen ==
  ASSUME NEW S, NEW F \in Seq(S), NEW L \in Seq(S), NEW k \in 0..Len(F)
  PROVE  /\ Joined(F, k, L) \in Seq(S) /\ Len(Joined(F, k, L)) = k + Len(L)
         /\ \A i \in 1..k : Joined(F, k, L)[i] = F[i]
         /\ \A i \in 1..Len(Joined(F, k, L)) : ~(i <= k) => Joined(F, k, L)[i] = L[i - k]
<1> DEFINE H == SubSeq(F, 1, k)
           G == Joined(F, k, L)
<1>1. Len(F) \in Nat /\ Len(L) \in Nat /\ k \in Nat
  OBVIOUS
<1>2. H \in Seq(S) /\ Len(H) = k /\ \A i \in 1..k : H[i] = F[i]
  OBVIOUS
<1>3. G = H \o L
  BY DEF Joined
<1> HIDE DEF G, H
<1>4. /\ G \in Seq(S) /\ Len(G) = k + Len(L)
      /\ \A i \in 1..k : G[i] = F[i]
      /\ \A i \in 1..Len(G) : ~(i <= k) => G[i] = L[i - k]
  <2>0. /\ H \o L \in Seq(S) /\ Len(H \o L) = Len(H) + Len(L)
        /\ \A i \in 1..Len(H) + Len(L) : (H \o L)[i] = IF i <= Len(H) THEN H[i] ELSE L[i - Len(H)]
    BY <1>2, Together
  <2>1. G \in Seq(S) /\ Len(G) = Len(H) + Len(L)
    BY <1>3, <2>0
  <2>2. \A i \in 1..Len(H) + Len(L) : G[i] = IF i <= Len(H) THEN H[i] ELSE L[i - Len(H)]
    BY <1>3, <2>0
  <2>3. ASSUME NEW i \in 1..k PROVE G[i] = F[i]
    <3>1. i \in 1..Len(H) + Len(L) /\ i <= Len(H)
      BY <1>1, <1>2
    <3> QED BY <1>2, <2>2, <3>1
  <2>4. ASSUME NEW i \in 1..Len(G), ~(i <= k) PROVE G[i] = L[i - k]
    BY <1>2, <2>1, <2>2, <2>4
  <2> QED BY <1>2, <2>1, <2>3, <2>4
<1> QED BY <1>4 DEF G

LEMMA FirstAll ==
  ASSUME NEW S, NEW F \in Seq(S)
  PROVE  Joined(F, Len(F), << >>) = F /\ Joined(F, 0, F) = F /\ \A L \in Seq(S) : Joined(F, 0, L) = L
<1>1. << >> \in Seq(S) /\ Len(F) \in Nat
  OBVIOUS
<1>2. SubSeq(F, 1, Len(F)) = F /\ SubSeq(F, 1, 0) = << >>
  OBVIOUS
<1> QED BY <1>1, <1>2 DEF Joined

LEMMA PutBefore ==
  ASSUME NEW S, NEW e \in S, NEW L \in Seq(S)
  PROVE  Put(e, L) \in Seq(S) /\ Begins(Put(e, L), e, L)
<1> DEFINE x == <<e>>
           M == Put(e, L)
<1>1. x \in Seq(S) /\ Len(x) = 1 /\ x[1] = e /\ Len(L) \in Nat
  OBVIOUS
<1>2. M = x \o L
  BY DEF Put
<1> HIDE DEF x, M
<1>3. /\ x \o L \in Seq(S) /\ Len(x \o L) = Len(x) + Len(L)
      /\ \A j \in 1..Len(x) + Len(L) : (x \o L)[j] = IF j <= Len(x) THEN x[j] ELSE L[j - Len(x)]
  BY <1>1, Together
<1>4. ASSUME NEW j \in 1..Len(L) + 1 PROVE (x \o L)[j] = IF j = 1 THEN e ELSE L[j - 1]
  <2>1. j \in 1..(Len(x) + Len(L)) /\ (j <= Len(x) <=> j = 1) /\ j - Len(x) = j - 1
    BY <1>1
  <2>2. (x \o L)[j] = IF j <= Len(x) THEN x[j] ELSE L[j - Len(x)]
    BY <1>3, <2>1
  <2> QED BY <1>1, <2>1, <2>2
<1>5. M \in Seq(S) /\ Len(M) = Len(L) + 1
  BY <1>1, <1>2, <1>3
<1>6. ASSUME NEW j \in 1..Len(L) + 1 PROVE M[j] = IF j = 1 THEN e ELSE L[j - 1]
  BY <1>2, <1>4
<1> QED BY <1>5, <1>6 DEF M, Begins

\* One more of the first joins those after them, or is taken out.
LEMMA FirstMoves ==
  ASSUME NEW S, NEW F \in Seq(S), NEW L \in Seq(S), NEW k \in 1..Len(F)
  PROVE  Joined(F, k - 1, Put(F[k], L)) = Joined(F, k, L)
<1> DEFINE n == k - 1
           M == Put(F[k], L)
           G == Joined(F, n, M)
           H == Joined(F, k, L)
<1>1. Len(F) \in Nat /\ Len(L) \in Nat /\ k \in Nat /\ n \in 0..Len(F) /\ k \in 0..Len(F) /\ F[k] \in S /\ k >= 1
  OBVIOUS
<1>2. M \in Seq(S) /\ Len(M) = Len(L) + 1 /\ \A j \in 1..Len(L) + 1 : M[j] = IF j = 1 THEN F[k] ELSE L[j - 1]
  <2>1. M \in Seq(S) /\ Begins(M, F[k], L)
    BY <1>1, PutBefore
  <2> HIDE DEF M
  <2> QED BY <2>1 DEF Begins
<1>3. M \in Seq(S)
  BY <1>2
<1> HIDE DEF M, n
<1>4. /\ G \in Seq(S) /\ Len(G) = n + Len(M)
      /\ \A i \in 1..n : G[i] = F[i]
      /\ \A i \in 1..Len(G) : ~(i <= n) => G[i] = M[i - n]
  BY <1>1, <1>3, FirstThen
<1>5. /\ H \in Seq(S) /\ Len(H) = k + Len(L)
      /\ \A i \in 1..k : H[i] = F[i]
      /\ \A i \in 1..Len(H) : ~(i <= k) => H[i] = L[i - k]
  BY <1>1, FirstThen
<1> HIDE DEF G, H
<1>6. Len(G) = Len(H) /\ Len(H) \in Nat /\ k = n + 1 /\ n \in Nat
  BY <1>1, <1>2, <1>4, <1>5 DEF n
<1>7. ASSUME NEW i \in 1..Len(H) PROVE G[i] = H[i]
  <2>1. CASE i <= n
    <3>1. i \in 1..n /\ i \in 1..k
      BY <1>6, <2>1
    <3> QED BY <1>4, <1>5, <3>1
  <2>2. CASE i = k
    <3>1. i - n = 1 /\ ~(i <= n) /\ i \in 1..Len(G) /\ i \in 1..k /\ 1 \in 1..Len(L) + 1
      BY <1>1, <1>6, <2>2
    <3>2. G[i] = M[1] /\ H[i] = F[i]
      BY <1>4, <1>5, <3>1
    <3> QED BY <1>2, <2>2, <3>1, <3>2
  <2>3. CASE i > k
    <3>1. i - n \in 1..Len(L) + 1 /\ i - n # 1 /\ i - n - 1 = i - k /\ ~(i <= k) /\ ~(i <= n) /\ i \in 1..Len(G)
      BY <1>1, <1>5, <1>6, <2>3
    <3>2. G[i] = M[i - n] /\ H[i] = L[i - k]
      BY <1>4, <1>5, <3>1
    <3>3. M[i - n] = L[i - n - 1]
      BY <1>2, <3>1
    <3> QED BY <3>1, <3>2, <3>3
  <2>4. i \in Nat
    BY <1>6
  <2> QED BY <1>6, <2>1, <2>2, <2>3, <2>4
<1>8. G \in Seq(S) /\ H \in Seq(S)
  BY <1>4, <1>5
<1>9. G = H
  BY <1>6, <1>7, <1>8
<1> QED BY <1>9 DEF G, H, M, n

LEMMA FirstDrops ==
  ASSUME NEW S, NEW F \in Seq(S), NEW L \in Seq(S), NEW k \in 1..Len(F), NEW G, G = Joined(F, k, L),
         NEW H, H = Joined(F, k - 1, L)
  PROVE  /\ k \in DOMAIN G /\ G[k] = F[k] /\ H \in Seq(S) /\ Without(H, G, k)
<1>1. Len(F) \in Nat /\ Len(L) \in Nat /\ k \in Nat /\ k - 1 \in 0..Len(F) /\ k \in 0..Len(F) /\ k >= 1
  OBVIOUS
<1>2. /\ G \in Seq(S) /\ Len(G) = k + Len(L)
      /\ \A i \in 1..k : G[i] = F[i]
      /\ \A i \in 1..Len(G) : ~(i <= k) => G[i] = L[i - k]
  BY <1>1, FirstThen
<1>3. /\ H \in Seq(S) /\ Len(H) = k - 1 + Len(L)
      /\ \A i \in 1..k - 1 : H[i] = F[i]
      /\ \A i \in 1..Len(H) : ~(i <= k - 1) => H[i] = L[i - (k - 1)]
  <2> DEFINE m == k - 1
  <2>1. m \in 0..Len(F) /\ H = Joined(F, m, L)
    BY <1>1
  <2> HIDE DEF m
  <2>2. /\ H \in Seq(S) /\ Len(H) = m + Len(L)
        /\ \A i \in 1..m : H[i] = F[i]
        /\ \A i \in 1..Len(H) : ~(i <= m) => H[i] = L[i - m]
    BY <2>1, FirstThen
  <2> QED BY <2>2 DEF m
<1>4. DOMAIN G = 1..Len(G) /\ DOMAIN H = 1..Len(H) /\ Len(H) = Len(G) - 1 /\ Len(G) \in Nat
  BY <1>1, <1>2, <1>3
<1>5. ASSUME NEW i \in DOMAIN H PROVE H[i] = IF i < k THEN G[i] ELSE G[i + 1]
  <2>1. i \in 1..Len(H) /\ i \in Nat
    BY <1>4
  <2>2. CASE i < k
    <3>1. i \in 1..k - 1 /\ i \in 1..k
      BY <1>1, <2>1, <2>2
    <3> QED BY <1>2, <1>3, <2>2, <3>1
  <2>3. CASE ~(i < k)
    <3>1. ~(i <= k - 1) /\ i + 1 \in 1..Len(G) /\ ~(i + 1 <= k) /\ i + 1 - k = i - (k - 1)
      BY <1>1, <1>4, <2>1, <2>3
    <3>2. H[i] = L[i - (k - 1)] /\ G[i + 1] = L[i + 1 - k]
      BY <1>2, <1>3, <2>1, <3>1
    <3> QED BY <2>3, <3>1, <3>2
  <2> QED BY <2>2, <2>3
<1>6. k \in DOMAIN G /\ G[k] = F[k]
  BY <1>1, <1>2, <1>4
<1> QED BY <1>3, <1>4, <1>5, <1>6 DEF Without

-----------------------------------------------------------------------------
\* What is known after some actions of the scan: those not looked at yet, and after them those left.
Entries(D, Q) == [cmd : D.commands, addr : { r.addr : r \in Q }, clk : Nat]
Midway(D, Q, F, h, old, now, k, b, l) ==
  /\ l \in Seq(Entries(D, Q)) /\ StatesRight(D, Q, b, Joined(F, k, l), h, old)
  /\ \A j \in DOMAIN l : l[j].clk # now /\ \E m \in DOMAIN F : l[j] = F[m]

LEMMA MidwayStep ==
  ASSUME NEW D, NEW Q, StatesAreTidy(D, Q), NEW F \in Seq(Entries(D, Q)), NEW h, NEW old, NEW now,
         NEW k \in 1..Len(F), NEW b, NEW l, Midway(D, Q, F, h, old, now, k, b, l)
  PROVE  IF F[k].clk = now
         THEN Midway(D, Q, F, h, old, now, k - 1, update_states(D, b, D.spec.future[F[k].cmd].end, F[k].addr), l)
         ELSE Midway(D, Q, F, h, old, now, k - 1, b, Put(F[k], l))
<1> DEFINE S == Entries(D, Q)
<1>1. l \in Seq(S) /\ F \in Seq(S) /\ k \in DOMAIN F
  BY DEF Midway
<1>2. CASE F[k].clk = now
  <2> DEFINE G == Joined(F, k, l)
             H == Joined(F, k - 1, l)
             c == update_states(D, b, D.spec.future[F[k].cmd].end, F[k].addr)
  <2>1. /\ k \in DOMAIN G /\ G[k] = F[k] /\ H \in Seq(S) /\ Len(H) = Len(G) - 1
        /\ \A i \in DOMAIN H : H[i] = IF i < k THEN G[i] ELSE G[i + 1]
    <3>1. G = Joined(F, k, l) /\ H = Joined(F, k - 1, l)
      OBVIOUS
    <3>2. l \in Seq(S) /\ F \in Seq(S) /\ k \in 1..Len(F)
      BY <1>1
    <3> HIDE DEF G, H, S
    <3>3. k \in DOMAIN G /\ G[k] = F[k] /\ H \in Seq(S) /\ Without(H, G, k)
      BY <3>1, <3>2, FirstDrops
    <3> QED BY <3>3 DEF Without
  <2>2. StatesRight(D, Q, b, G, h, old)
    BY DEF Midway
  <2> HIDE DEF G, H
  <2>3. c = update_states(D, b, D.spec.future[G[k].cmd].end, G[k].addr)
    BY <2>1
  <2> HIDE DEF c
  <2>4. H \in Seq([cmd : D.commands, addr : { r.addr : r \in Q }, clk : Nat])
    BY <2>1 DEF Entries
  <2>5. StatesRight(D, Q, c, H, h, old)
    BY <2>1, <2>2, <2>3, <2>4, EndStates
  <2>6. Midway(D, Q, F, h, old, now, k - 1, c, l)
    BY <2>5 DEF Midway, H
  <2> QED BY <1>2, <2>6 DEF c
<1>3. CASE F[k].clk # now
  <2> DEFINE m == Put(F[k], l)
  <2> HIDE DEF S
  <2>0. l \in Seq(S) /\ F \in Seq(S) /\ k \in 1..Len(F)
    BY <1>1
  <2>1. Joined(F, k - 1, m) = Joined(F, k, l)
    BY <2>0, FirstMoves
  <2>5. m \in Seq(S) /\ Len(m) = Len(l) + 1 /\ \A j \in 1..Len(l) + 1 : m[j] = IF j = 1 THEN F[k] ELSE l[j - 1]
    <3>1. F[k] \in S
      BY <2>0
    <3>2. m \in Seq(S) /\ Begins(m, F[k], l)
      BY <2>0, <3>1, PutBefore
    <3> HIDE DEF m
    <3> QED BY <3>2 DEF Begins
  <2> HIDE DEF m
  <2>2. StatesRight(D, Q, b, Joined(F, k - 1, m), h, old)
    BY <2>1 DEF Midway
  <2>3. ASSUME NEW j \in DOMAIN m PROVE m[j].clk # now /\ \E i \in DOMAIN F : m[j] = F[i]
    <3>1. j \in 1..Len(l) + 1 /\ (j = 1 \/ j - 1 \in DOMAIN l)
      BY <2>0, <2>5
    <3>2. CASE j = 1
      BY <1>1, <1>3, <2>5, <3>1, <3>2
    <3>3. CASE j # 1
      <4>1. m[j] = l[j - 1] /\ j - 1 \in DOMAIN l
        BY <2>5, <3>1, <3>3
      <4> QED BY <4>1 DEF Midway
    <3> QED BY <3>2, <3>3
  <2>4. Midway(D, Q, F, h, old, now, k - 1, b, m)
    BY <2>2, <2>3, <2>5 DEF Midway, S
  <2> QED BY <1>3, <2>4 DEF m
<1> QED BY <1>2, <1>3

\* What the ends of refreshes leave alone: the open banks, and what is counted of activations and precharges.
EndsUncounted(D, Q) ==
  \A s \in Q : FinalCommand(D, s) \in Refreshes(D) =>
    LET end == D.spec.future[FinalCommand(D, s)].end
    IN  RankPower(D, end) \notin {"PREA", "PREsb"} /\ BankPower(D, end) \notin {"ACT", "PRE"}
OpenStates == {"Opened", "Pre-Opened"}
Alike(D, Q, C, B, P, b, p) ==
  /\ \A q \in D.banks : b[q].state \in OpenStates \/ B[q].state \in OpenStates => b[q] = B[q]
  /\ ("ACT" \in C /\ "PRE" \in C /\ EndsUncounted(D, Q)) =>
       \A x \in D.ranks : Counted(p[x], "ACT") = Counted(P[x], "ACT") /\ Counted(p[x], "PRE") = Counted(P[x], "PRE")
LEMMA EndAlike ==
  ASSUME NEW D, NEW Q, TablesAreTidy(D), StatesAreTidy(D, Q), NEW F \in Seq(Entries(D, Q)), NEW h, NEW old, NEW now \in Nat,
         NEW k \in 1..Len(F), NEW b, NEW l, Midway(D, Q, F, h, old, now, k, b, l),
         NEW C, NEW p \in [D.ranks -> Stats(C)], NEW B, NEW P, Alike(D, Q, C, B, P, b, p),
         NEW end, end = D.spec.future[F[k].cmd].end,
         NEW c, c = update_states(D, b, end, F[k].addr), NEW g, g = update_powers(D, p, b, end, F[k].addr, now)
  PROVE  Alike(D, Q, C, B, P, c, g)
<1>1. PICK G : G = Joined(F, k, l)
  OBVIOUS
<1>2. k \in DOMAIN G /\ G[k] = F[k] /\ StatesRight(D, Q, b, G, h, old)
  <2>1. l \in Seq(Entries(D, Q)) /\ StatesRight(D, Q, b, G, h, old)
    BY <1>1 DEF Midway
  <2>2. k \in DOMAIN Joined(F, k, l) /\ Joined(F, k, l)[k] = F[k]
    BY <2>1, FirstDrops
  <2> QED BY <1>1, <2>1, <2>2
<1>3. Goes(D, Q, F[k], h, old)
  BY <1>2 DEF StatesRight
<1>4. PICK s \in Q : FinalCommand(D, s) = F[k].cmd /\ s.addr = F[k].addr
  BY <1>3 DEF Goes
<1>5. F[k].cmd \in Refreshes(D) /\ RefreshIsTidy(D, F[k].cmd, s)
  <2>1. F[k].cmd \in Leads(D, s) /\ F[k].cmd \in Refreshes(D)
    BY <1>3, <1>4 DEF StatesAreTidy, Leads, Goes
  <2> QED BY <2>1 DEF StatesAreTidy
<1> DEFINE T == Touched(D, end, F[k].addr)
<1>6. /\ T = Covered(D, F[k].cmd, F[k].addr) /\ \A q \in T : ActionAt(D, end, F[k].addr, q) \in EndActions
      /\ end \in D.commands
  BY <1>4, <1>5 DEF RefreshIsTidy
<1>7. \A q \in D.banks : c[q] = IF q \in T THEN BankEffect(ActionAt(D, end, F[k].addr, q), b[q], RowOf(D, F[k].addr))
                                          ELSE b[q]
  BY DEF update_states, Touched
<1>8. \A q \in T : q \in D.banks /\ Covers(D, F[k], q)
  BY <1>6 DEF Covered, Covers
<1> HIDE DEF T
<1>9. ASSUME NEW q \in D.banks, c[q].state \in OpenStates \/ B[q].state \in OpenStates PROVE c[q] = B[q]
  <2>1. b[q].state \in OpenStates \/ B[q].state \in OpenStates => b[q] = B[q]
    BY DEF Alike
  <2>2. CASE q \in T
    <3>1. k \in Enders(D, G, q)
      BY <1>2, <1>8, <2>2 DEF Enders
    <3>2. b[q].state = "Refreshing" /\ b[q] \in Bank(D, Q)
      BY <1>2, <3>1 DEF StatesRight, BankRight
    <3> DEFINE a == ActionAt(D, end, F[k].addr, q)
    <3>3. a \in EndActions /\ c[q] = BankEffect(a, b[q], RowOf(D, F[k].addr))
      BY <1>6, <1>7, <2>2
    <3> HIDE DEF a
    <3>4. c[q].state = "Closed"
      BY <3>2, <3>3 DEF EndActions, BankEffect, Bank
    <3> QED BY <1>9, <2>1, <3>2, <3>4 DEF OpenStates
  <2>3. CASE q \notin T
    BY <1>7, <1>9, <2>1, <2>3
  <2> QED BY <2>2, <2>3
<1>10. ASSUME "ACT" \in C, "PRE" \in C, EndsUncounted(D, Q), NEW x \in D.ranks
       PROVE  Counted(g[x], "ACT") = Counted(P[x], "ACT") /\ Counted(g[x], "PRE") = Counted(P[x], "PRE")
  <2>1. Counted(p[x], "ACT") = Counted(P[x], "ACT") /\ Counted(p[x], "PRE") = Counted(P[x], "PRE")
    BY <1>10 DEF Alike
  <2>2. RankPower(D, end) \notin {"PREA", "PREsb"} /\ BankPower(D, end) \notin {"ACT", "PRE"}
    BY <1>4, <1>5, <1>10 DEF EndsUncounted
  <2>3. D.banks \subseteq D.nodes
    BY DEF StatesAreTidy
  <2>4. PICK X, addr : X = g[x] /\ addr = F[k].addr
    OBVIOUS
  <2>5. X = update_powers(D, p, b, end, addr, now)[x]
    BY <2>4
  <2>6. CountedFor(D, b, p[x], X, x, end, addr)
    <3>1. /\ TablesAreTidy(D) /\ D.banks \subseteq D.nodes /\ p \in [D.ranks -> Stats(C)] /\ "ACT" \in C /\ "PRE" \in C
          /\ end \in D.commands /\ now \in Nat /\ x \in D.ranks
      BY <1>6, <1>10, <2>3
    <3> QED BY <2>5, <3>1, PowersCount
  <2>7. Closes(D, b, x, end, addr) = 0
    BY <2>2 DEF Closes
  <2>8. Counted(p[x], "ACT") \in Int /\ Counted(p[x], "PRE") \in Int
    <3>1. p[x] \in Stats(C)
      OBVIOUS
    <3> QED BY <1>10, <3>1, CountingCounts
  <2>9. Counted(X, "ACT") = Counted(p[x], "ACT") /\ Counted(X, "PRE") = Counted(p[x], "PRE")
    BY <2>2, <2>6, <2>7, <2>8 DEF CountedFor
  <2> QED BY <2>1, <2>4, <2>9
<1> QED BY <1>9, <1>10 DEF Alike

\* The end of a refresh is charged to the ranks it is addressed to.
LEMMA EndMeters ==
  ASSUME NEW D, NEW Q, TablesAreTidy(D), StatesAreTidy(D, Q), PowersAreTidy(D, Q), CyclesAreTidy(D, Q),
         NEW F \in Seq(Entries(D, Q)), NEW h, NEW old, NEW now \in Nat, Accounted(h),
         NEW k \in 1..Len(F), NEW b, NEW l, Midway(D, Q, F, h, old, now, k, b, l), F[k].clk = now,
         NEW C, C = DOMAIN D.spec.charged, NEW p \in [D.ranks -> Stats(C)], Metered(D, b, Joined(F, k, l), p),
         NEW end, end = D.spec.future[F[k].cmd].end,
         NEW c, c = update_states(D, b, end, F[k].addr), NEW g, g = update_powers(D, p, b, end, F[k].addr, now)
  PROVE  Metered(D, c, Joined(F, k - 1, l), g)
<1>1. PICK G, H, e : G = Joined(F, k, l) /\ H = Joined(F, k - 1, l) /\ e = F[k]
  OBVIOUS
<1>2. /\ k \in DOMAIN G /\ G[k] = e /\ H \in Seq(Entries(D, Q)) /\ Without(H, G, k) /\ StatesRight(D, Q, b, G, h, old)
      /\ G \in Seq(Entries(D, Q))
  <2>1. l \in Seq(Entries(D, Q)) /\ StatesRight(D, Q, b, G, h, old)
    BY <1>1 DEF Midway
  <2>2. k \in DOMAIN G /\ G[k] = F[k] /\ H \in Seq(Entries(D, Q)) /\ Without(H, G, k)
    BY <1>1, <2>1, FirstDrops
  <2> QED BY <1>1, <2>1, <2>2 DEF StatesRight, Entries
<1>3. Goes(D, Q, e, h, old) /\ e.clk = now
  BY <1>1, <1>2 DEF StatesRight
<1> SUFFICES ASSUME NEW x \in D.ranks PROVE AtRank(D, g[x], Opens(D, c, x), Busy(D, c, x), Waiting(H, x))
  BY <1>1 DEF Metered
<1>4. PICK s, t : s = p[x] /\ t = g[x]
  OBVIOUS
<1>5. PICK O, R, W, V, A : /\ O = Opens(D, b, x) /\ R = Busy(D, b, x) /\ W = Waiting(G, x) /\ V = Waiting(H, x)
                           /\ A = Reached(D, e, x)
  OBVIOUS
<1>6. /\ \A q \in BanksOf(D, x) : Covers(D, e, q) => Targeted(x, e.addr)
      /\ Targeted(x, e.addr) => BankPower(D, end) # "REF"
      /\ end \in D.commands /\ Touched(D, end, e.addr) = { q \in D.banks : Covers(D, e, q) }
      /\ \A q \in D.banks : Covers(D, e, q) => ActionAt(D, end, e.addr, q) \in EndActions
  <2>1. end = D.spec.future[e.cmd].end
    BY <1>1
  <2>2. /\ \A q \in BanksOf(D, x) : Covers(D, e, q) => Targeted(x, e.addr)
        /\ Targeted(x, e.addr) => Finishes(D, x, e, Reached(D, e, x)) /\ BankPower(D, end) # "REF"
        /\ end \in D.commands /\ Touched(D, end, e.addr) = { q \in D.banks : Covers(D, e, q) }
        /\ \A q \in D.banks : Covers(D, e, q) => ActionAt(D, end, e.addr, q) \in EndActions
    BY <1>3, <2>1, ActionToCome
  <2> QED BY <2>2
<1>7. AtRank(D, s, O, R, W) /\ EndedBy(D, x, R, W)
  <2>1. EndedBy(D, x, Busy(D, b, x), Waiting(G, x))
    BY <1>2, RefreshesAreWaiting
  <2> QED BY <1>1, <1>4, <1>5, <2>1 DEF Metered
<1>8. D.banks \subseteq D.nodes
  BY DEF StatesAreTidy
<1>9. /\ IsFiniteSet(O) /\ IsFiniteSet(R) /\ O \cap R = {} /\ O \subseteq BanksOf(D, x) /\ R \subseteq BanksOf(D, x)
  BY <1>5, <1>8, BanksAreFinite
<1>10. W = (IF Targeted(x, e.addr) THEN V \cup {e} ELSE V) /\ \A f \in V : \E i \in DOMAIN G : f = G[i] /\ i # k
  BY <1>2, <1>5, WaitingLess
<1>11. \A f \in V : Reached(D, e, x) \cap Reached(D, f, x) = {}
  <2> SUFFICES ASSUME NEW f \in V, NEW q \in Reached(D, e, x), q \in Reached(D, f, x) PROVE FALSE
    OBVIOUS
  <2>1. PICK i \in DOMAIN G : f = G[i] /\ i # k
    BY <1>10
  <2>2. q \in D.banks /\ Covers(D, G[k], q) /\ Covers(D, G[i], q)
    BY <1>2, <2>1 DEF Reached, BanksOf
  <2>3. k \in Enders(D, G, q) /\ i \in Enders(D, G, q)
    BY <1>2, <2>2 DEF Enders
  <2>4. k = i
    BY <1>2, <2>2, <2>3 DEF StatesRight, BankRight
  <2> QED BY <2>1, <2>4
<1>12. ASSUME NEW q \in BanksOf(D, x)
       PROVE  IF q \in A THEN b[q].state = "Refreshing" /\ c[q].state = "Closed" ELSE c[q] = b[q]
  <2>1. q \in D.banks /\ (q \in A <=> Covers(D, e, q))
    BY <1>5 DEF BanksOf, Reached
  <2>2. c[q] = IF q \in Touched(D, end, e.addr) THEN BankEffect(ActionAt(D, end, e.addr, q), b[q], RowOf(D, e.addr)) ELSE b[q]
    BY <1>1, <2>1 DEF update_states, Touched
  <2>3. CASE q \in A
    <3>1. PICK a : a = ActionAt(D, end, e.addr, q)
      OBVIOUS
    <3>2. a \in EndActions /\ c[q] = BankEffect(a, b[q], RowOf(D, e.addr))
      BY <1>6, <2>1, <2>2, <2>3, <3>1
    <3>3. k \in Enders(D, G, q)
      BY <1>2, <2>1, <2>3 DEF Enders
    <3>4. b[q].state = "Refreshing" /\ b[q] \in Bank(D, Q)
      BY <1>2, <2>1, <3>3 DEF StatesRight, BankRight
    <3>5. c[q].state = "Closed"
      BY <3>2, <3>4 DEF EndActions, BankEffect, Bank
    <3> QED BY <2>3, <3>4, <3>5
  <2>4. CASE q \notin A
    BY <1>6, <2>1, <2>2, <2>4
  <2> QED BY <2>3, <2>4
<1>13. Opens(D, c, x) = O /\ Busy(D, c, x) = R \ A
  BY <1>5, <1>12 DEF Opens, Busy
<1>14. Metering(D, b, s, t, x, end, e.addr, now)
  <2>1. "REF" \in C /\ Worth(D) \in Int
    BY DEF CyclesAreTidy, Worth
  <2>2. t = update_powers(D, p, b, end, e.addr, now)[x]
    BY <1>1, <1>4
  <2>3. Metering(D, b, p[x], t, x, end, e.addr, now)
    BY <1>6, <1>8, <2>1, <2>2, PowersMeter
  <2> QED BY <1>4, <2>3
<1> SUFFICES AtRank(D, t, O, R \ A, V)
  BY <1>4, <1>5, <1>13
<1>15. CASE Targeted(x, e.addr)
  <2>1. Meters(D, RankPower(D, D.spec.future[e.cmd].end), s, t, Cardinality(O), Cardinality(R), Bankgroups(D, x), now)
    BY <1>1, <1>5, <1>14, <1>15 DEF Metering
  <2>2. W = V \cup {e}
    BY <1>10, <1>15
  <2>3. AtRank(D, t, O, R \ Reached(D, e, x), V)
    BY <1>3, <1>7, <1>9, <1>11, <2>1, <2>2, EndsMeter
  <2> QED BY <1>5, <2>3
<1>16. CASE ~Targeted(x, e.addr)
  <2>1. t = s /\ W = V /\ A = {}
    BY <1>5, <1>6, <1>10, <1>14, <1>16 DEF Metering, Reached
  <2> QED BY <1>7, <2>1
<1> QED BY <1>15, <1>16

\* The cycles are still accounted for, if they were before the clock went on.
Onward(D, Q, C, h, B, F, P, b, G, p) ==
  (PowersAreTidy(D, Q) /\ CyclesAreTidy(D, Q) /\ Accounted(h) /\ C = DOMAIN D.spec.charged /\ Metered(D, B, F, P)) =>
    Metered(D, b, G, p)

\* After the clock has gone on, the banks and what is left of the future actions are right for the new cycle, no
\* refresh that has ended has opened or closed a bank, and every one has been charged for.
LEMMA TickStates ==
  ASSUME NEW D, NEW Q, TablesAreTidy(D), StatesAreTidy(D, Q), NEW C, clk \in Nat, power \in [D.ranks -> Stats(C)],
         StatesRight(D, Q, bank, future, log, clk), Tick(D)
  PROVE  /\ StatesRight(D, Q, bank', future', log, clk') /\ power' \in [D.ranks -> Stats(C)]
         /\ Alike(D, Q, C, bank, power, bank', power') /\ Onward(D, Q, C, log, bank, future, power, bank', future', power')
<1> DEFINE later == { t \in Events(D) \cap Nat : t > clk }
           S == Entries(D, Q)
           n == Len(future)
<1>1. later \subseteq Nat /\ later # {} /\ clk' = Min(later) /\ \A t \in later : t > clk
  BY DEF Tick
<1>2. PICK now : now = Min(later)
  OBVIOUS
<1>3. now \in later /\ now \in Nat /\ \A t \in later : now <= t
  <2> HIDE DEF later
  <2>1. later \subseteq Nat /\ later # {}
    BY <1>1
  <2>2. Min(later) \in later /\ \A t \in later : Min(later) <= t
    BY <2>1, MinIs
  <2> QED BY <1>2, <2>1, <2>2
<1>4. clk' = now /\ bank' = Ended(D, now).bank /\ future' = Ended(D, now).left /\ power' = Ended(D, now).power
  BY <1>2 DEF Tick
<1>5. \A m \in DOMAIN future : future[m].clk > clk /\ future[m].clk \in Nat /\ future[m].clk >= now
  <2> SUFFICES ASSUME NEW m \in DOMAIN future PROVE future[m].clk > clk /\ future[m].clk \in Nat /\ future[m].clk >= now
    OBVIOUS
  <2>1. future[m].clk > clk /\ future[m].clk \in Nat
    BY DEF StatesRight, Goes
  <2>2. future[m].clk \in { future[i].clk : i \in DOMAIN future }
    OBVIOUS
  <2>3. future[m].clk \in Events(D)
    BY <2>2 DEF Events
  <2>4. future[m].clk \in later
    BY <2>1, <2>3
  <2> HIDE DEF later
  <2> QED BY <1>3, <2>1, <2>4
<1> HIDE DEF later
<1>6. future \in Seq(S) /\ n \in Nat
  BY DEF StatesRight, Entries
<1> DEFINE PP == [D.ranks -> Stats(C)]
           BB == [D.banks -> Bank(D, Q)]
           K == [i \in 0..n |-> { d \in [power : PP, bank : BB, left : Seq(S)] :
                                    /\ Midway(D, Q, future, log, clk, now, n - i, d.bank, d.left)
                                    /\ Alike(D, Q, C, bank, power, d.bank, d.power)
                                    /\ Onward(D, Q, C, log, bank, future, power, d.bank, Joined(future, n - i, d.left), d.power) }]
           d0 == [power |-> power, bank |-> bank, left |-> << >>]
<1>7. d0 \in K[0]
  <2>1. bank \in BB /\ power \in PP /\ << >> \in Seq(S)
    BY DEF StatesRight
  <2>2. Midway(D, Q, future, log, clk, now, n, bank, << >>)
    <3>1. Joined(future, n, << >>) = future
      BY <1>6, FirstAll
    <3>2. DOMAIN << >> = {}
      OBVIOUS
    <3> QED BY <2>1, <3>1, <3>2 DEF Midway
  <2>3. d0 \in [power : PP, bank : BB, left : Seq(S)] /\ d0.bank = bank /\ d0.left = << >>
    BY <2>1
  <2>4. 0 \in 0..n /\ n - 0 = n
    BY <1>6
  <2>5. Alike(D, Q, C, bank, power, bank, power) /\ d0.power = power
    BY DEF Alike
  <2>6. Onward(D, Q, C, log, bank, future, power, bank, Joined(future, n, << >>), power)
    <3>1. Joined(future, n, << >>) = future
      BY <1>6, FirstAll
    <3> QED BY <3>1 DEF Onward
  <2> HIDE DEF PP, BB, S, d0, n
  <2> QED BY <2>2, <2>3, <2>4, <2>5, <2>6
<1>8. ASSUME NEW i \in 1..n, NEW d \in K[i - 1] PROVE Scanned(D, future[n + 1 - i], now, d) \in K[i]
  <2> DEFINE k == n + 1 - i
             f == future[k]
             end == D.spec.future[f.cmd].end
             p == d.power  b == d.bank  l == d.left
  <2>1. i \in 0..n /\ i - 1 \in 0..n /\ n - (i - 1) = k /\ n - i = k - 1 /\ k \in 1..n /\ k \in DOMAIN future
    BY <1>6
  <2>2. /\ d \in [power : PP, bank : BB, left : Seq(S)] /\ Midway(D, Q, future, log, clk, now, k, d.bank, d.left)
        /\ Alike(D, Q, C, bank, power, d.bank, d.power)
        /\ Onward(D, Q, C, log, bank, future, power, d.bank, Joined(future, k, d.left), d.power)
    <3> HIDE DEF PP, BB, S, k, n
    <3> QED BY <2>1
  <2>3. d = [power |-> p, bank |-> b, left |-> l] /\ p \in PP /\ b \in BB /\ l \in Seq(S)
    <3> HIDE DEF PP, BB, S, k, n
    <3> QED BY <2>2
  <2> HIDE DEF p, b, l, k, n
  <2>4. IF f.clk = now
        THEN Midway(D, Q, future, log, clk, now, k - 1, update_states(D, b, end, f.addr), l)
        ELSE Midway(D, Q, future, log, clk, now, k - 1, b, Put(f, l))
    <3>1. k \in 1..Len(future) /\ future \in Seq(Entries(D, Q))
      BY <1>6, <2>1 DEF n
    <3>2. Midway(D, Q, future, log, clk, now, k, b, l)
      BY <2>2 DEF b, l
    <3> QED BY <3>1, <3>2, MidwayStep
  <2>5. Scanned(D, f, now, d) =
          IF f.clk = now
          THEN [power |-> update_powers(D, p, b, end, f.addr, now), bank |-> update_states(D, b, end, f.addr), left |-> l]
          ELSE [power |-> p, bank |-> b, left |-> Put(f, l)]
    <3>1. d = [power |-> d.power, bank |-> d.bank, left |-> d.left]
      BY <2>3 DEF p, b, l
    <3> HIDE DEF f
    <3>2. Scanned(D, f, now, d) =
            IF f.clk = now
            THEN [power |-> update_powers(D, d.power, d.bank, D.spec.future[f.cmd].end, f.addr, now),
                  bank |-> update_states(D, d.bank, D.spec.future[f.cmd].end, f.addr), left |-> d.left]
            ELSE [power |-> d.power, bank |-> d.bank, left |-> Put(f, d.left)]
      BY <3>1, ScanStep
    <3> QED BY <3>2 DEF p, b, l
  <2>6. update_powers(D, p, b, end, f.addr, now) \in PP
    <3>1. D.banks \subseteq D.nodes
      BY DEF StatesAreTidy
    <3>2. end \in D.commands
      <4>1. Goes(D, Q, f, log, clk)
        BY <2>1 DEF StatesRight
      <4>2. PICK s \in Q : FinalCommand(D, s) = f.cmd /\ s.addr = f.addr
        BY <4>1 DEF Goes
      <4>3. f.cmd \in Leads(D, s) /\ f.cmd \in Refreshes(D)
        BY <4>1, <4>2 DEF Goes, Leads, StatesAreTidy
      <4>4. RefreshIsTidy(D, f.cmd, s)
        BY <4>3 DEF StatesAreTidy
      <4> QED BY <4>4 DEF RefreshIsTidy
    <3> HIDE DEF end, f
    <3> QED BY <1>3, <2>3, <3>1, <3>2, PowersTyped
  <2>7. f.clk = now => Alike(D, Q, C, bank, power, update_states(D, b, end, f.addr), update_powers(D, p, b, end, f.addr, now))
    <3> DEFINE c == update_states(D, b, end, f.addr)
               g == update_powers(D, p, b, end, f.addr, now)
    <3>1. k \in 1..Len(future) /\ future \in Seq(Entries(D, Q)) /\ now \in Nat
      BY <1>3, <1>6, <2>1 DEF n
    <3>2. /\ Midway(D, Q, future, log, clk, now, k, b, l) /\ p \in [D.ranks -> Stats(C)]
          /\ Alike(D, Q, C, bank, power, b, p)
      BY <2>2, <2>3 DEF b, l, p
    <3>3. end = D.spec.future[future[k].cmd].end /\ c = update_states(D, b, end, future[k].addr)
          /\ g = update_powers(D, p, b, end, future[k].addr, now)
      OBVIOUS
    <3> HIDE DEF c, g, f, end
    <3>4. Alike(D, Q, C, bank, power, c, g)
      BY <3>1, <3>2, <3>3, EndAlike
    <3> QED BY <3>4 DEF c, g
  <2>8. Alike(D, Q, C, bank, power, b, p) /\ Onward(D, Q, C, log, bank, future, power, b, Joined(future, k, l), p)
    BY <2>2 DEF b, p, l
  <2>9. f.clk = now => Onward(D, Q, C, log, bank, future, power, update_states(D, b, end, f.addr), Joined(future, k - 1, l),
                               update_powers(D, p, b, end, f.addr, now))
    <3> DEFINE c == update_states(D, b, end, f.addr)
               g == update_powers(D, p, b, end, f.addr, now)
    <3>1. k \in 1..Len(future) /\ future \in Seq(Entries(D, Q)) /\ now \in Nat
      BY <1>3, <1>6, <2>1 DEF n
    <3>2. Midway(D, Q, future, log, clk, now, k, b, l) /\ p \in [D.ranks -> Stats(C)]
      BY <2>2, <2>3 DEF b, l, p
    <3>3. end = D.spec.future[future[k].cmd].end /\ c = update_states(D, b, end, future[k].addr)
          /\ g = update_powers(D, p, b, end, future[k].addr, now) /\ f.clk = future[k].clk
      OBVIOUS
    <3> HIDE DEF c, g, f, end
    <3>4. f.clk = now /\ Metered(D, b, Joined(future, k, l), p) /\ PowersAreTidy(D, Q) /\ CyclesAreTidy(D, Q)
            /\ Accounted(log) /\ C = DOMAIN D.spec.charged => Metered(D, c, Joined(future, k - 1, l), g)
      BY <3>1, <3>2, <3>3, EndMeters
    <3>5. f.clk = now => Onward(D, Q, C, log, bank, future, power, c, Joined(future, k - 1, l), g)
      BY <2>8, <3>4 DEF Onward
    <3> QED BY <3>5 DEF c, g
  <2>10. Onward(D, Q, C, log, bank, future, power, b, Joined(future, k - 1, Put(f, l)), p)
    <3>1. k \in 1..Len(future) /\ future \in Seq(Entries(D, Q)) /\ l \in Seq(Entries(D, Q))
      BY <1>6, <2>1, <2>3 DEF n
    <3>2. Joined(future, k - 1, Put(f, l)) = Joined(future, k, l)
      BY <3>1, FirstMoves
    <3> QED BY <2>8, <3>2
  <2> HIDE DEF f, PP, BB, S
  <2>11. CASE f.clk = now
    <3> DEFINE c == update_states(D, b, end, f.addr)
               g == update_powers(D, p, b, end, f.addr, now)
    <3>1. /\ Midway(D, Q, future, log, clk, now, n - i, c, l) /\ Scanned(D, f, now, d) = [power |-> g, bank |-> c, left |-> l]
          /\ Alike(D, Q, C, bank, power, c, g)
          /\ Onward(D, Q, C, log, bank, future, power, c, Joined(future, n - i, l), g)
      BY <2>1, <2>4, <2>5, <2>11, <2>7, <2>9
    <3>2. c \in BB /\ g \in PP
      <4>1. StatesRight(D, Q, c, Joined(future, n - i, l), log, clk)
        BY <3>1 DEF Midway
      <4> QED BY <2>6, <4>1 DEF StatesRight, BB
    <3> HIDE DEF c, g
    <3>3. Scanned(D, f, now, d) \in [power : PP, bank : BB, left : Seq(S)]
          /\ Scanned(D, f, now, d).bank = c /\ Scanned(D, f, now, d).left = l /\ Scanned(D, f, now, d).power = g
      BY <2>3, <3>1, <3>2
    <3> QED BY <2>1, <3>1, <3>3 DEF f, k
  <2>12. CASE f.clk # now
    <3> DEFINE m == Put(f, l)
    <3>1. Midway(D, Q, future, log, clk, now, n - i, b, m) /\ Scanned(D, f, now, d) = [power |-> p, bank |-> b, left |-> m]
          /\ Onward(D, Q, C, log, bank, future, power, b, Joined(future, n - i, m), p)
      BY <2>1, <2>4, <2>5, <2>12, <2>10
    <3>2. m \in Seq(S)
      BY <3>1 DEF Midway, S
    <3> HIDE DEF m
    <3>3. Scanned(D, f, now, d) \in [power : PP, bank : BB, left : Seq(S)]
          /\ Scanned(D, f, now, d).bank = b /\ Scanned(D, f, now, d).left = m /\ Scanned(D, f, now, d).power = p
      BY <2>3, <3>1, <3>2
    <3> QED BY <2>1, <2>8, <3>1, <3>3 DEF f, k
  <2> QED BY <2>11, <2>12
<1>9. Ended(D, now) \in K[n]
  <2>1. \A i \in 1..Len(future) : \A d \in K[i - 1] : Scanned(D, future[Len(future) + 1 - i], now, d) \in K[i]
    BY <1>8
  <2>2. [power |-> power, bank |-> bank, left |-> << >>] \in K[0]
    BY <1>7
  <2> HIDE DEF K
  <2>3. Ended(D, now) \in K[Len(future)]
    BY <1>6, <2>1, <2>2, ScanKeeps
  <2> QED BY <2>3
<1> HIDE DEF d0
<1>10. /\ bank' \in BB /\ power' \in PP /\ Midway(D, Q, future, log, clk, now, 0, bank', future')
       /\ Alike(D, Q, C, bank, power, bank', power')
       /\ Onward(D, Q, C, log, bank, future, power, bank', Joined(future, 0, future'), power')
  <2>1. n \in 0..n /\ n - n = 0
    BY <1>6
  <2> HIDE DEF PP, BB, S, n
  <2>2. Ended(D, now) \in [power : PP, bank : BB, left : Seq(S)]
        /\ Midway(D, Q, future, log, clk, now, 0, Ended(D, now).bank, Ended(D, now).left)
        /\ Alike(D, Q, C, bank, power, Ended(D, now).bank, Ended(D, now).power)
        /\ Onward(D, Q, C, log, bank, future, power, Ended(D, now).bank, Joined(future, 0, Ended(D, now).left), Ended(D, now).power)
    BY <1>9, <2>1
  <2> QED BY <1>4, <2>2
<1> HIDE DEF K, n
<1>11. PICK F : F = future'
  OBVIOUS
<1>12. PICK B : B = bank'
  OBVIOUS
<1>13. /\ F \in Seq(S) /\ StatesRight(D, Q, B, F, log, clk)
       /\ \A j \in DOMAIN F : F[j].clk # now /\ \E m \in DOMAIN future : F[j] = future[m]
       /\ Joined(future, 0, F) = F
  <2>1. Midway(D, Q, future, log, clk, now, 0, B, F)
    BY <1>10, <1>11, <1>12
  <2>2. F \in Seq(S) /\ StatesRight(D, Q, B, Joined(future, 0, F), log, clk)
    BY <2>1 DEF Midway
  <2>3. Joined(future, 0, F) = F
    <3> HIDE DEF S
    <3> QED BY <1>6, <2>2, FirstAll
  <2> QED BY <2>1, <2>2, <2>3 DEF Midway
<1>14. ASSUME NEW j \in DOMAIN F PROVE Goes(D, Q, F[j], log, now)
  <2>1. F[j].clk # now /\ \E m \in DOMAIN future : F[j] = future[m]
    BY <1>13
  <2>2. F[j].clk >= now /\ F[j].clk \in Nat
    BY <1>5, <2>1
  <2>3. F[j].clk > now
    BY <1>3, <2>1, <2>2
  <2>4. Goes(D, Q, F[j], log, clk)
    BY <1>13 DEF StatesRight
  <2> QED BY <2>3, <2>4 DEF Goes
<1>15. StatesRight(D, Q, B, F, log, now)
  BY <1>13, <1>14 DEF StatesRight
<1>16. Onward(D, Q, C, log, bank, future, power, bank', future', power')
  <2>1. Joined(future, 0, future') = future'
    BY <1>11, <1>13
  <2> QED BY <1>10, <2>1
<1> QED BY <1>4, <1>10, <1>11, <1>12, <1>15, <1>16

-----------------------------------------------------------------------------
(***************************************************************************)
(* The states of the banks, and the types of the others.                    *)
(***************************************************************************)
\* The invariant of the states: the banks of a run, its future actions and its statistics.
Kept(D, L, B, F, h, now, P) ==
  /\ StatesRight(D, L.requests, B, F, h, now) /\ P \in [D.ranks -> Stats(DOMAIN D.spec.charged)]
  /\ Len(h) <= L.commands
StatesInv ==
  /\ TimedInv /\ phase \in {"failed", "undefined", "ready", "finalized"} /\ issued \in BOOLEAN
  /\ load # 0 => Kept(TheDevice, Loads[load], bank, future, log, clk, power)

\* What is assumed of the runs, and what the tables are built from.
LEMMA TheDeviceIsKept ==
  ASSUME NEW i \in DOMAIN Loads
  PROVE  /\ TablesAreTidy(Compiled[i]) /\ HandlersBuilt(Compiled[i]) /\ StatesAreTidy(Compiled[i], Loads[i].requests)
         /\ RefreshesAreKept(Compiled[i], Loads[i].requests) /\ Compiled[i].banks \subseteq Compiled[i].nodes
<1>1. StatesAreTidy(Compiled[i], Loads[i].requests) /\ RefreshesAreKept(Compiled[i], Loads[i].requests)
  BY RefreshAssumption
<1>2. TablesAreTidy(Compiled[i])
  BY TheDeviceIsTidy
<1>3. Compiled[i].banks \subseteq Compiled[i].nodes
  BY <1>1 DEF StatesAreTidy
<1>4. HandlersBuilt(Compiled[i])
  BY BuiltHandlers
<1> QED BY <1>1, <1>2, <1>3, <1>4

\* A rank's statistics are left as they were typed, by every step.
LEMMA FinalizeTyped ==
  ASSUME NEW C, NEW s \in Stats(C), NEW now \in Nat
  PROVE  finalize_rank(s, now) \in Stats(C)
<1> DEFINE idled == s.idle_cycles + now - s.idle_start_cycle
           worked == s.active_cycles + now - s.active_start_cycle
<1>1. idled \in Int /\ worked \in Int
  <2>1. s.idle_cycles \in Int /\ s.idle_start_cycle \in Int /\ s.active_cycles \in Int /\ s.active_start_cycle \in Int
    BY DEF Stats
  <2> QED BY <2>1
<1>2. /\ s.state = "IDLE" => finalize_rank(s, now) = [s EXCEPT !.idle_cycles = idled]
      /\ s.state = "ACTIVE" => finalize_rank(s, now) = [s EXCEPT !.active_cycles = worked]
      /\ s.state = "REFRESHING" => finalize_rank(s, now) = s
  BY DEF finalize_rank
<1> HIDE DEF idled, worked
<1>3. [s EXCEPT !.idle_cycles = idled] \in Stats(C)
  BY <1>1 DEF Stats
<1>4. [s EXCEPT !.active_cycles = worked] \in Stats(C)
  BY <1>1 DEF Stats
<1>5. s.state \in {"IDLE", "ACTIVE", "REFRESHING"}
  BY DEF Stats
<1> QED BY <1>2, <1>3, <1>4, <1>5

LEMMA InitStates == Init => StatesInv
<1> SUFFICES ASSUME Init PROVE StatesInv
  OBVIOUS
<1>1. TimedInv
  BY InitTimed
<1>2. \A d, o, s, sizes, user : Outcome(d, o, s, sizes, user) \in {"failed", "undefined", "ready"}
  BY DEF Outcome
<1>3. clk = 0 /\ issued = FALSE /\ future = << >> /\ log = << >>
  BY DEF Init
<1>4. CASE InitPreset
  <2>1. load = 0 /\ phase \in {"failed", "undefined", "ready"}
    BY <1>2, <1>4 DEF InitPreset
  <2> QED BY <1>1, <1>3, <2>1 DEF StatesInv
<1>5. CASE InitLoad
  <2>1. PICK i \in DOMAIN Loads :
          /\ load = i /\ phase \in {"failed", "undefined", "ready"}
          /\ bank = [q \in Compiled[i].banks |-> [state |-> "Closed", rows |-> {}]]
          /\ power = [r \in Compiled[i].ranks |-> InitStats(DOMAIN Compiled[i].spec.charged)]
    BY <1>2, <1>5 DEF InitLoad
  <2> DEFINE D == Compiled[i]
             L == Loads[i]
             C == DOMAIN D.spec.charged
  <2>2. TheDevice = D /\ Loads[load] = L
    BY <2>1 DEF TheDevice
  <2>3. bank = [q \in D.banks |-> [state |-> "Closed", rows |-> {}]] /\ power = [r \in D.ranks |-> InitStats(C)]
    BY <2>1
  <2>4. L.commands \in Nat
    BY LoadsAssumption
  <2> HIDE DEF D, L, C
  <2>5. power \in [D.ranks -> Stats(C)]
    <3>1. InitStats(C) \in Stats(C)
      BY InitStatsTyped
    <3> QED BY <2>3, <3>1
  <2>6. bank \in [D.banks -> Bank(D, L.requests)]
    <3>1. [state |-> "Closed", rows |-> {}] \in Bank(D, L.requests)
      BY DEF Bank, BankStates
    <3> QED BY <2>3, <3>1
  <2>7. \A q \in D.banks : BankRight(D, bank[q], << >>, q)
    <3> SUFFICES ASSUME NEW q \in D.banks PROVE BankRight(D, bank[q], << >>, q)
      OBVIOUS
    <3>1. bank[q].state = "Closed" /\ bank[q].rows = {}
      BY <2>3
    <3>2. Enders(D, << >>, q) = {}
      BY DEF Enders
    <3> QED BY <3>1, <3>2 DEF BankRight
  <2>8. StatesRight(D, L.requests, bank, << >>, log, clk)
    BY <2>6, <2>7 DEF StatesRight
  <2>9. Len(log) <= L.commands
    BY <1>3, <2>4
  <2>10. Kept(D, L, bank, future, log, clk, power)
    BY <1>3, <2>5, <2>8, <2>9 DEF Kept, C
  <2> QED BY <1>1, <1>3, <2>1, <2>2, <2>10 DEF StatesInv
<1> QED BY <1>4, <1>5 DEF Init

\* The steps: a command is issued, the clock goes on.
LEMMA IssueTakes ==
  ASSUME NEW D, NEW L, load \in DOMAIN Loads, D = Compiled[load], L = Loads[load], TimedInv,
         Kept(D, L, bank, future, log, clk, power),
         NEW r \in Pending(D), NextCommand(D, r) \in D.commands, Issue(D, r)
  PROVE  Taken(D, L.requests, ready, log, bank, future, SyncedOf(r.addr), r, NextCommand(D, r), clk)
<1> DEFINE Q == L.requests
           f == NextCommand(D, r)
           y == SyncedOf(r.addr)
<1>1. TablesAreTidy(D) /\ HandlersBuilt(D) /\ StatesAreTidy(D, Q) /\ RefreshesAreKept(D, Q)
  BY TheDeviceIsKept
<1>2. /\ log \in Seq([cmd : D.commands, addr : { s.addr : s \in Q }, clk : Nat])
      /\ ReadyTyped(D, ready) /\ ReadyRight(D, ready, log) /\ clk \in Nat
  <2>1. load # 0
    BY LoadsAssumption
  <2>2. D = TheDevice
    BY DEF TheDevice
  <2>3. log \in Seq(Command(D)) /\ ReadyTyped(D, ready) /\ ReadyRight(D, ready, log) /\ clk \in Nat
    BY <2>1, <2>2 DEF TimedInv, DeviceInv
  <2>4. Command(D) = [cmd : D.commands, addr : { s.addr : s \in Q }, clk : Nat]
    BY DEF Command
  <2> QED BY <2>3, <2>4
<1>3. StatesRight(D, Q, bank, future, log, clk)
  BY DEF Kept
<1>4. r \in Q /\ Paced(D, r)
  BY DEF Pending
<1>5. f = get_preq_command(D, bank, y, FinalCommand(D, r), r.addr, clk)
  BY DEF NextCommand
<1>6. check_ready(D, ready, f, r.addr, clk)
  BY DEF Issue
<1>7. f \in D.commands
  OBVIOUS
<1> HIDE DEF Q, f, y
<1>8. r.type = "all-bank-refresh" =>
        \A i \in DOMAIN log : log[i].cmd = "REFab" /\ log[i].addr = r.addr => clk >= DueAt(D, log[i])
  BY <1>4 DEF Paced
<1>9. Taken(D, Q, ready, log, bank, future, y, r, f, clk)
  BY <1>1, <1>2, <1>3, <1>4, <1>5, <1>6, <1>7, <1>8 DEF Taken
<1> QED BY <1>9 DEF Q, y, f

LEMMA IssueKeeps ==
  ASSUME NEW D, NEW L, load \in DOMAIN Loads, D = Compiled[load], L = Loads[load], TimedInv,
         Kept(D, L, bank, future, log, clk, power),
         NEW r \in Pending(D), NextCommand(D, r) \in D.commands, Issue(D, r),
         NEW B, bank' = B, NEW F, future' = F, NEW h, log' = h, NEW P, power' = P
  PROVE  Kept(D, L, B, F, h, clk, P)
<1> DEFINE Q == L.requests
           f == NextCommand(D, r)
           y == SyncedOf(r.addr)
           e == [cmd |-> f, addr |-> r.addr, clk |-> clk]
           C == DOMAIN D.spec.charged
<1>1. Taken(D, Q, ready, log, bank, future, y, r, f, clk)
  BY IssueTakes
<1>2. /\ Len(log) < L.commands
      /\ B = update_states(D, bank, f, r.addr)
      /\ P = update_powers(D, power, IF PowersFirst(D.spec) THEN bank ELSE B, f, r.addr, clk)
      /\ F = check_future_action(D, f, r.addr)
      /\ h = Append(log, e)
  BY DEF Issue
<1>3. power \in [D.ranks -> Stats(C)]
  BY DEF Kept
<1>4. TablesAreTidy(D) /\ D.banks \subseteq D.nodes
  BY TheDeviceIsKept
<1>5. F = IF f \in Refreshes(D) THEN Append(future, [cmd |-> f, addr |-> r.addr, clk |-> clk + Delay(D, f) - 1]) ELSE future
  BY <1>2 DEF check_future_action, Refreshes, Delay
<1> HIDE DEF Q, f, y, C
<1>6. f \in D.commands /\ clk \in Nat /\ log \in Seq([cmd : D.commands, addr : { s.addr : s \in Q }, clk : Nat])
  BY <1>1 DEF Taken
<1>7. StatesRight(D, Q, B, F, h, clk)
  BY <1>1, <1>2, <1>5, IssueStates
<1>8. P \in [D.ranks -> Stats(C)]
  BY <1>2, <1>3, <1>4, <1>6, PowersTyped
<1>9. Len(h) <= L.commands
  <2>1. Len(h) = Len(log) + 1 /\ Len(log) \in Nat
    BY <1>2, <1>6
  <2>2. L.commands \in Nat
    BY LoadsAssumption
  <2> QED BY <1>2, <2>1, <2>2
<1> QED BY <1>7, <1>8, <1>9 DEF Kept, Q, C

LEMMA TickKeeps ==
  ASSUME NEW D, NEW L, load \in DOMAIN Loads, D = Compiled[load], L = Loads[load], clk \in Nat,
         Kept(D, L, bank, future, log, clk, power), Tick(D)
  PROVE  Kept(D, L, bank', future', log', clk', power')
<1> DEFINE Q == L.requests
           C == DOMAIN D.spec.charged
<1>1. TablesAreTidy(D) /\ StatesAreTidy(D, Q)
  BY TheDeviceIsKept
<1>2. StatesRight(D, Q, bank, future, log, clk) /\ power \in [D.ranks -> Stats(C)]
  BY DEF Kept
<1> HIDE DEF Q, C
<1>3. StatesRight(D, Q, bank', future', log, clk') /\ power' \in [D.ranks -> Stats(C)]
  BY <1>1, <1>2, TickStates
<1>4. Len(log) <= L.commands /\ log' = log
  BY DEF Kept, Tick
<1> QED BY <1>3, <1>4 DEF Kept, Q, C

LEMMA StepStates == StatesInv /\ [Next]_vars => StatesInv'
<1> SUFFICES ASSUME StatesInv, [Next]_vars PROVE StatesInv'
  OBVIOUS
<1>1. TimedInv'
  BY StepInvariant DEF StatesInv
<1>2. UNCHANGED load
  BY DEF Next, Issue, Tick, Finalize, Done, vars
<1> DEFINE Phases == {"failed", "undefined", "ready", "finalized"}
<1>3. phase \in Phases /\ issued \in BOOLEAN
  BY DEF StatesInv
<1>4. CASE UNCHANGED <<phase, issued, bank, future, log, clk, power>>
  <2> DEFINE D == TheDevice
  <2>1. D' = D
    BY <1>2 DEF TheDevice
  <2>2. load # 0 => Kept(D, Loads[load], bank, future, log, clk, power)
    BY DEF StatesInv
  <2> HIDE DEF D
  <2>3. (load # 0 => Kept(D, Loads[load], bank, future, log, clk, power))'
    BY <1>2, <1>4, <2>1, <2>2
  <2> QED BY <1>1, <1>3, <1>4, <2>3 DEF StatesInv, D
<1>5. ASSUME load # 0, NEW D, D = TheDevice, ~Exits(D),
             (\E r \in Pending(D) : Issue(D, r)) \/ Tick(D) \/ Finalize(D)
      PROVE  StatesInv'
  <2>1. load \in DOMAIN Loads /\ clk \in Nat /\ D = Compiled[load]
    BY <1>5 DEF StatesInv, TimedInv, DeviceInv, TheDevice
  <2>2. PICK L : L = Loads[load]
    OBVIOUS
  <2>3. Kept(D, L, bank, future, log, clk, power) /\ TimedInv
    BY <1>5, <2>2 DEF StatesInv
  <2>4. ASSUME Kept(D, L, bank', future', log', clk', power'), phase' \in Phases, issued' \in BOOLEAN
        PROVE  StatesInv'
    <3>1. TheDevice' = D /\ Loads[load'] = L
      BY <1>2, <2>1, <2>2 DEF TheDevice
    <3> QED BY <1>1, <2>4, <3>1 DEF StatesInv
  <2>5. ASSUME NEW r \in Pending(D), Issue(D, r) PROVE StatesInv'
    <3>1. NextCommand(D, r) \in D.commands
      BY <1>5 DEF Exits
    <3>2. PICK B, F, h, P : bank' = B /\ future' = F /\ log' = h /\ power' = P
      OBVIOUS
    <3>3. Kept(D, L, B, F, h, clk, P)
      BY <2>1, <2>2, <2>3, <2>5, <3>1, <3>2, IssueKeeps
    <3>4. UNCHANGED <<clk, phase>> /\ issued' = TRUE
      BY <2>5 DEF Issue
    <3>5. Kept(D, L, bank', future', log', clk', power')
      BY <3>2, <3>3, <3>4
    <3> QED BY <1>3, <2>4, <3>4, <3>5
  <2>6. CASE Tick(D)
    <3>1. Kept(D, L, bank', future', log', clk', power')
      BY <2>1, <2>2, <2>3, <2>6, TickKeeps
    <3>2. phase' = phase /\ issued' = FALSE
      BY <2>6 DEF Tick
    <3> QED BY <1>3, <2>4, <3>1, <3>2
  <2>7. CASE Finalize(D)
    <3>1. /\ UNCHANGED <<bank, future, log, clk, issued>> /\ phase' = "finalized"
          /\ power' = [r \in D.ranks |-> finalize_rank(power[r], clk)]
      BY <2>7 DEF Finalize
    <3> DEFINE C == DOMAIN D.spec.charged
    <3>2. power \in [D.ranks -> Stats(C)]
      BY <2>3 DEF Kept
    <3> HIDE DEF C
    <3>3. \A r \in D.ranks : finalize_rank(power[r], clk) \in Stats(C)
      <4> TAKE r \in D.ranks
      <4>1. power[r] \in Stats(C)
        BY <3>2
      <4> QED BY <2>1, <4>1, FinalizeTyped
    <3>4. power' \in [D.ranks -> Stats(C)]
      BY <3>1, <3>3
    <3>5. Kept(D, L, bank', future', log', clk', power')
      BY <2>3, <3>1, <3>4 DEF Kept, C
    <3> QED BY <1>3, <2>4, <3>1, <3>5
  <2> QED BY <1>5, <2>5, <2>6, <2>7
<1>6. CASE Done \/ UNCHANGED vars
  BY <1>4, <1>6 DEF Done, vars, deviceVars
<1> QED BY <1>5, <1>6 DEF Next

\* The invariant: every bank is closed, open or refreshing, and refreshes just as long as one future action is
\* to end it; every future action ends a refresh of the log, some cycles later; and the statistics are numbers.
THEOREM StatesInvariant == Spec => []StatesInv
BY InitStates, StepStates, PTL DEF Spec

\* For every device whose table keeps what its requests may come to off the banks that refresh: in every run
\* of it, the banks that refresh are those that one pending future action, not yet overdue, will end: no
\* command opens or closes a bank under a refresh, no second one begins, and no bank is left refreshing.
THEOREM RefreshesHaveTheirEnd == Spec => []RefreshHasItsEnd
<1>1. StatesInv => RefreshHasItsEnd
  <2> SUFFICES ASSUME StatesInv, load # 0, NEW D, D = TheDevice, NEW q \in D.banks
               PROVE  LET ends == { i \in DOMAIN future : Covers(D, future[i], q) }
                      IN  /\ bank[q].state = "Refreshing" <=> ends # {}
                          /\ Cardinality(ends) <= 1 /\ \A i \in ends : future[i].clk > clk
    BY DEF RefreshHasItsEnd, Running
  <2> DEFINE ends == Enders(D, future, q)
  <2>1. StatesRight(D, Loads[load].requests, bank, future, log, clk)
    BY DEF StatesInv, Kept
  <2>2. /\ bank[q].state = "Refreshing" <=> ends # {}
        /\ \A i, j \in ends : i = j
        /\ \A i \in DOMAIN future : future[i].clk > clk
    BY <2>1 DEF StatesRight, BankRight, Goes
  <2>3. ends \subseteq DOMAIN future
    BY DEF Enders
  <2>4. Cardinality(ends) <= 1
    <3> HIDE DEF ends
    <3>1. CASE ends = {}
      BY <3>1, FS_EmptySet
    <3>2. CASE ends # {}
      <4>1. PICK i : i \in ends
        BY <3>2
      <4>2. ends = {i}
        BY <2>2, <4>1
      <4> QED BY <4>2, FS_Singleton
    <3> QED BY <3>1, <3>2
  <2> QED BY <2>2, <2>3, <2>4 DEF Enders
<1> QED BY <1>1, StatesInvariant, PTL

\* In every run of such a device, its state is of the types of its variables: a bank has a row just when it is
\* open or on its way to be, and what is scheduled is a refresh.
THEOREM DeviceIsTyped == Spec => []DeviceTypeOK
<1>1. StatesInv => DeviceTypeOK
  <2> SUFFICES ASSUME StatesInv PROVE DeviceTypeOK
    OBVIOUS
  <2>1. /\ phase \in {"failed", "undefined", "ready", "finalized"} /\ clk \in Nat /\ issued \in BOOLEAN
        /\ load \in {0} \cup DOMAIN Loads
    BY DEF StatesInv, TimedInv, DeviceInv
  <2>2. load \in 0..Len(Loads)
    <3>1. DOMAIN Loads = 1..Len(Loads) /\ Len(Loads) \in Nat
      BY LoadsAssumption
    <3> QED BY <2>1, <3>1
  <2>3. ASSUME load # 0, NEW D, D = TheDevice
        PROVE  /\ \A q \in D.banks : /\ bank[q].state \in {"Closed", "Opened", "Pre-Opened", "Refreshing"}
                                     /\ bank[q].state # "Refreshing" => (bank[q].rows = {} <=> bank[q].state = "Closed")
               /\ \A r \in D.ranks : power[r].state \in {"IDLE", "ACTIVE", "REFRESHING"}
               /\ Len(log) <= Loads[load].commands
               /\ \A i \in DOMAIN future : future[i].cmd \in DOMAIN D.spec.future
    <3>1. /\ StatesRight(D, Loads[load].requests, bank, future, log, clk)
          /\ power \in [D.ranks -> Stats(DOMAIN D.spec.charged)] /\ Len(log) <= Loads[load].commands
      BY <2>3 DEF StatesInv, Kept
    <3>2. \A q \in D.banks : /\ bank[q].state \in {"Closed", "Opened", "Pre-Opened", "Refreshing"}
                             /\ bank[q].state # "Refreshing" => (bank[q].rows = {} <=> bank[q].state = "Closed")
      BY <3>1 DEF StatesRight, BankRight, Bank, BankStates
    <3>3. \A r \in D.ranks : power[r].state \in {"IDLE", "ACTIVE", "REFRESHING"}
      BY <3>1 DEF Stats
    <3>4. \A i \in DOMAIN future : future[i].cmd \in DOMAIN D.spec.future
      BY <3>1 DEF StatesRight, Goes, Refreshes
    <3> QED BY <3>1, <3>2, <3>3, <3>4
  <2> QED BY <2>1, <2>2, <2>3 DEF DeviceTypeOK
<1> QED BY <1>1, StatesInvariant, PTL

-----------------------------------------------------------------------------
(***************************************************************************)
(* Open rows.                                                               *)
(***************************************************************************)
\* What a command finds: what PrerequisiteOf says of the one that is taken.
LEMMA TakenIs ==
  ASSUME NEW D, NEW Q, NEW R, NEW h, NEW B, NEW F, NEW y, NEW r, NEW f, NEW now,
         Taken(D, Q, R, h, B, F, y, r, f, now), NEW c, c = FinalCommand(D, r), NEW q, q = NodeAt(r.addr, D.bankLevel)
  PROVE  /\ f \in Leads(D, r) /\ f # Exit
         /\ (f = c /\ c \notin Precharges /\ Asker(D, c) \in ClosedAskers) => FoundClosed(B, Asked(D, c, r.addr))
         /\ Asker(D, c) = "RequireRowOpen" => f = RequireRowOpen(B[q], c, RowOf(D, r.addr))
         /\ Asker(D, c) = "RequireBankClosed" => f = RequireBankClosed(B[q], c)
         /\ Asker(D, c) = "RequireSynced" => f = RequireSynced(B[q], y, c, now)
<1>1. /\ TablesAreTidy(D) /\ HandlersBuilt(D) /\ StatesAreTidy(D, Q) /\ r \in Q /\ f \in D.commands
      /\ f = get_preq_command(D, B, y, c, r.addr, now)
  BY DEF Taken
<1>2. /\ D.banks \subseteq D.nodes /\ \A b \in D.banks : Len(b) = D.bankLevel
      /\ c \in D.commands /\ f # Exit
  BY <1>1 DEF StatesAreTidy
<1>3. /\ f \in {c} \cup Answers[Asker(D, c)]
      /\ (f = c /\ c \notin Precharges /\ Asker(D, c) \in ClosedAskers) => FoundClosed(B, Asked(D, c, r.addr))
      /\ Asker(D, c) = "RequireRowOpen" => f = RequireRowOpen(B[q], c, RowOf(D, r.addr))
      /\ Asker(D, c) = "RequireBankClosed" => f = RequireBankClosed(B[q], c)
      /\ Asker(D, c) = "RequireSynced" => f = RequireSynced(B[q], y, c, now)
  BY <1>1, <1>2, PrerequisiteOf
<1>4. f \in Leads(D, r)
  BY <1>1, <1>3 DEF Leads
<1> QED BY <1>2, <1>3, <1>4

\* The latest command that turned a bank is entry k of a log, an activation.
Opener(D, h, k, q) ==
  /\ h[k].cmd \in Activations /\ Turns(D, h[k].cmd) /\ Covers(D, h[k], q)
  /\ \A j \in DOMAIN h : j > k => ~(Turns(D, h[j].cmd) /\ Covers(D, h[j], q))
RowRight(D, b, h, q) == b.state = "Opened" => \E k \in DOMAIN h : Opener(D, h, k, q) /\ b.rows = {RowOf(D, h[k].addr)}
RowsRight(D, B, h) == \A q \in D.banks : RowRight(D, B[q], h, q)

\* A command that does not turn a bank leaves it to the one that opened it.
LEMMA RowStays ==
  ASSUME NEW D, NEW S, NEW h \in Seq(S), NEW e, NEW b, NEW q, RowRight(D, b, h, q), ~(Turns(D, e.cmd) /\ Covers(D, e, q))
  PROVE  RowRight(D, b, Append(h, e), q)
<1> DEFINE g == Append(h, e)
<1>1. /\ DOMAIN h = 1..Len(h) /\ DOMAIN g = 1..Len(h) + 1 /\ Len(h) \in Nat
      /\ \A j \in DOMAIN h : g[j] = h[j]
      /\ g[Len(h) + 1] = e
  OBVIOUS
<1> HIDE DEF g
<1> SUFFICES ASSUME b.state = "Opened" PROVE RowRight(D, b, g, q)
  BY DEF RowRight, g
<1>2. PICK k \in DOMAIN h : Opener(D, h, k, q) /\ b.rows = {RowOf(D, h[k].addr)}
  BY DEF RowRight
<1>3. k \in DOMAIN g /\ g[k] = h[k]
  BY <1>1
<1>4. Opener(D, g, k, q)
  <2>1. h[k].cmd \in Activations /\ Turns(D, h[k].cmd) /\ Covers(D, h[k], q)
    BY <1>2 DEF Opener
  <2>2. ASSUME NEW j \in DOMAIN g, j > k PROVE ~(Turns(D, g[j].cmd) /\ Covers(D, g[j], q))
    <3>1. CASE j = Len(h) + 1
      BY <1>1, <3>1
    <3>2. CASE j # Len(h) + 1
      <4>1. j \in DOMAIN h /\ g[j] = h[j]
        BY <1>1, <3>2
      <4> QED BY <1>2, <2>2, <4>1 DEF Opener
    <3> QED BY <3>1, <3>2
  <2> QED BY <1>3, <2>1, <2>2 DEF Opener
<1> QED BY <1>2, <1>3, <1>4 DEF RowRight

\* An activation of a bank without a row opens it.
LEMMA RowOpens ==
  ASSUME NEW D, NEW S, NEW h \in Seq(S), NEW e, NEW b, NEW q, e.cmd \in Activations, Turns(D, e.cmd), Covers(D, e, q),
         b.rows = {RowOf(D, e.addr)}
  PROVE  RowRight(D, b, Append(h, e), q)
<1> DEFINE g == Append(h, e)
           k == Len(h) + 1
<1>1. DOMAIN g = 1..Len(h) + 1 /\ Len(h) \in Nat /\ g[Len(h) + 1] = e
  OBVIOUS
<1> HIDE DEF g
<1>2. k \in DOMAIN g /\ g[k] = e /\ \A j \in DOMAIN g : ~(j > k)
  BY <1>1
<1>3. Opener(D, g, k, q)
  BY <1>2 DEF Opener
<1> HIDE DEF k
<1>4. RowRight(D, b, g, q)
  BY <1>2, <1>3 DEF RowRight
<1> QED BY <1>4 DEF g

-----------------------------------------------------------------------------
\* An activation that is asked for finds its bank without a row.
LEMMA AskedForWhenClosed ==
  ASSUME NEW D, NEW Q, NEW R, NEW h, NEW B, NEW F, NEW y, NEW r, NEW f, NEW now,
         Taken(D, Q, R, h, B, F, y, r, f, now), f \in Activations, NEW q, AskedFor(D, f, r, q)
  PROVE  B[q].state \in {"Closed", "Refreshing"}
<1> DEFINE row == RowOf(D, r.addr)
           final == FinalCommand(D, r)
<1>1. q = NodeAt(r.addr, D.bankLevel) /\ Asker(D, final) = IF f = final THEN "RequireBankClosed" ELSE "RequireRowOpen"
  BY DEF AskedFor
<1>2. f # Exit
  BY TakenIs
<1>3. CASE f = final
  <2>1. f = RequireBankClosed(B[q], f)
    BY <1>1, <1>3, TakenIs
  <2> QED BY <1>2, <2>1 DEF RequireBankClosed, Activations
<1>4. CASE f # final
  <2>1. f = RequireRowOpen(B[q], final, row)
    BY <1>1, <1>4, TakenIs
  <2> HIDE DEF final
  <2> QED BY <1>2, <1>4, <2>1 DEF RequireRowOpen, Activations
<1> QED BY <1>3, <1>4

\* A bank that is opened by an activation has no other row than that one.
LEMMA ActOpens ==
  ASSUME NEW D, NEW Q, NEW R, NEW h, NEW B, NEW F, NEW y, NEW r, NEW f, NEW now,
         Taken(D, Q, R, h, B, F, y, r, f, now), RowsAreTidy(D, Q), NEW q \in Touched(D, f, r.addr),
         ActionAt(D, f, r.addr, q) = "ACT"
  PROVE  B[q].rows \cup {RowOf(D, r.addr)} = {RowOf(D, r.addr)}
<1> DEFINE row == RowOf(D, r.addr)
<1>1. q \in D.banks /\ f \in Leads(D, r) /\ r \in Q
  <2>1. q \in D.banks /\ f \in Leads(D, r)
    BY BankIsFree
  <2> QED BY <2>1 DEF Taken
<1>2. B[q] \in Bank(D, Q) /\ BankRight(D, B[q], F, q)
  BY <1>1 DEF Taken, StatesRight
<1>3. f \in Activations /\ (OneRow(D, Q) \/ AskedFor(D, f, r, q))
  BY <1>1 DEF RowsAreTidy
<1>4. CASE OneRow(D, Q)
  <2>1. RowsOf(D, Q) = {row}
    BY <1>1, <1>4 DEF OneRow, RowsOf
  <2>2. B[q].rows \subseteq RowsOf(D, Q)
    BY <1>2 DEF Bank
  <2> QED BY <2>1, <2>2
<1>5. CASE AskedFor(D, f, r, q)
  <2>1. B[q].state \in {"Closed", "Refreshing"}
    BY <1>3, <1>5, AskedForWhenClosed
  <2>2. B[q].rows = {}
    BY <1>2, <2>1 DEF BankRight
  <2> QED BY <2>2
<1> QED BY <1>3, <1>4, <1>5

\* After a command, every open bank has the row of the activation that opened it last.
LEMMA IssueRows ==
  ASSUME NEW D, NEW Q, NEW R, NEW h, NEW B, NEW F, NEW y, NEW r, NEW f, NEW now,
         Taken(D, Q, R, h, B, F, y, r, f, now), RowsAreTidy(D, Q), RowsRight(D, B, h),
         NEW C, C = update_states(D, B, f, r.addr), NEW e, e = [cmd |-> f, addr |-> r.addr, clk |-> now]
  PROVE  RowsRight(D, C, Append(h, e))
<1> DEFINE Entry == [cmd : D.commands, addr : { s.addr : s \in Q }, clk : Nat]
           row == RowOf(D, r.addr)
           T == Touched(D, f, r.addr)
<1>1. h \in Seq(Entry) /\ r \in Q /\ StatesRight(D, Q, B, F, h, now) /\ StatesAreTidy(D, Q)
  BY DEF Taken
<1>2. f \in Leads(D, r) /\ f # Exit
  BY TakenIs
<1>3. e.cmd = f /\ e.addr = r.addr /\ \A q \in D.banks : Covers(D, e, q) <=> q \in Covered(D, f, r.addr)
  BY DEF Covers, Covered
<1>4. \A q \in D.banks : C[q] = IF q \in T THEN BankEffect(ActionAt(D, f, r.addr, q), B[q], row) ELSE B[q]
  BY DEF update_states, Touched
<1>5. Turns(D, f) => \/ Covered(D, f, r.addr) \subseteq { q \in T : ActionAt(D, f, r.addr, q) # "synchronize" }
                     \/ Unseen(D, f, r)
  BY <1>1, <1>2 DEF RowsAreTidy
<1> HIDE DEF Entry, T, row
<1> SUFFICES ASSUME NEW q \in D.banks, C[q].state = "Opened" PROVE RowRight(D, C[q], Append(h, e), q)
  BY DEF RowsRight, RowRight
<1> DEFINE a == ActionAt(D, f, r.addr, q)
<1>6. RowRight(D, B[q], h, q) /\ BankRight(D, B[q], F, q)
  BY <1>1 DEF RowsRight, StatesRight
<1>7. ASSUME C[q] = B[q], ~(Turns(D, f) /\ q \in Covered(D, f, r.addr))
      PROVE  RowRight(D, C[q], Append(h, e), q)
  BY <1>1, <1>3, <1>6, <1>7, RowStays
<1>8. CASE q \notin T
  <2>1. C[q] = B[q]
    BY <1>4, <1>8
  <2>2. ASSUME Turns(D, f), q \in Covered(D, f, r.addr) PROVE FALSE
    <3>1. Unseen(D, f, r)
      BY <1>5, <1>8, <2>2
    <3>2. /\ f = FinalCommand(D, r) /\ f \notin Precharges /\ Refreshes(D) = {} /\ Asker(D, f) \in ClosedAskers
          /\ q \in Asked(D, f, r.addr)
      BY <2>2, <3>1 DEF Unseen
    <3>3. FoundClosed(B, Asked(D, f, r.addr))
      BY <3>2, TakenIs
    <3>4. ASSUME NEW x \in Asked(D, f, r.addr) PROVE B[x].state # "Refreshing"
      <4>1. x \in D.banks
        BY <3>2, <3>4 DEF Asked
      <4>2. BankRight(D, B[x], F, x)
        BY <1>1, <4>1 DEF StatesRight
      <4>3. Enders(D, F, x) = {}
        BY <1>1, <3>2 DEF StatesRight, Goes, Enders
      <4> QED BY <4>2, <4>3 DEF BankRight
    <3> QED BY <2>1, <3>2, <3>3, <3>4 DEF FoundClosed
  <2> QED BY <1>7, <2>1, <2>2
<1>9. CASE q \in T
  <2>1. C[q] = BankEffect(a, B[q], row)
    BY <1>4, <1>9
  <2>2. a \in IF f \in Refreshes(D) THEN RefreshActions ELSE OtherActions
    BY <1>1, <1>2, <1>9 DEF StatesAreTidy, T
  <2> HIDE DEF a
  <2>3. a \notin RefreshActions
    <3> SUFFICES ASSUME a \in RefreshActions PROVE FALSE
      OBVIOUS
    <3>1. C[q] = [B[q] EXCEPT !.state = "Refreshing"]
      BY <2>1 DEF BankEffect, RefreshActions
    <3>2. B[q] \in Bank(D, Q)
      BY <1>1 DEF StatesRight
    <3> QED BY <3>1, <3>2 DEF Bank
  <2>4. CASE a = "ACT"
    <3>1. /\ f \in Activations /\ Turns(D, f) /\ q \in Covered(D, f, r.addr)
      BY <1>1, <1>2, <1>9, <2>4 DEF RowsAreTidy, T, a
    <3>2. B[q].rows \cup {row} = {row}
      BY <1>9, <2>4, ActOpens DEF T, a, row
    <3>3. C[q].rows = {RowOf(D, e.addr)}
      BY <1>3, <2>1, <2>4, <3>2 DEF BankEffect, row
    <3> QED BY <1>1, <1>3, <3>1, <3>3, RowOpens
  <2>5. CASE a \in {"ACT-1", "PRE", "PREsb", "PREab"}
    BY <2>1, <2>5 DEF BankEffect
  <2>6. CASE a = "synchronize"
    <3>1. C[q] = B[q]
      BY <2>1, <2>6 DEF BankEffect
    <3>2. ~(Turns(D, f) /\ q \in Covered(D, f, r.addr))
      BY <1>5, <1>9, <2>6 DEF a, Unseen, T
    <3> QED BY <1>7, <3>1, <3>2
  <2> QED BY <2>2, <2>3, <2>4, <2>5, <2>6 DEF OtherActions
<1> QED BY <1>8, <1>9

\* What AccessHitsOpenRow says of a log.
HitsOf(D, g) ==
  LET n == Len(g)
      q == NodeAt(g[n].addr, D.bankLevel)
      before == { i \in 1..n - 1 : Turns(D, g[i].cmd) /\ Covers(D, g[i], q) }
  IN  Looks(D, g[n].cmd) =>
        before # {} /\ g[Max(before)].cmd \in Activations /\ RowOf(D, g[Max(before)].addr) = RowOf(D, g[n].addr)
LEMMA HitsAreOfTheLog == AccessHitsOpenRow <=> (load # 0 /\ log # << >> => HitsOf(TheDevice, log))
BY DEF AccessHitsOpenRow, HitsOf

\* The largest of some places of a log, the last of which is known.
LEMMA MaxOf ==
  ASSUME NEW n \in Nat, NEW S \in SUBSET (1..n), NEW k \in S, \A j \in S : ~(j > k)
  PROVE  Max(S) = k
<1>1. IsFiniteSet(S)
  <2>1. IsFiniteSet(1..n)
    BY FS_Interval
  <2> QED BY <2>1, FS_Subset
<1>2. S \subseteq Int /\ S # {}
  OBVIOUS
<1>3. Max(S) \in S /\ \A x \in S : x <= Max(S)
  BY <1>1, <1>2, MaxIs
<1>4. PICK m : m = Max(S)
  OBVIOUS
<1>5. m \in S /\ k <= m /\ ~(m > k) /\ m \in Int /\ k \in Int
  BY <1>2, <1>3, <1>4
<1>6. m = k
  BY <1>5
<1> QED BY <1>4, <1>6

\* An access is of the row that the latest activation of its bank has opened.
LEMMA IssueHits ==
  ASSUME NEW D, NEW Q, NEW R, NEW h, NEW B, NEW F, NEW y, NEW r, NEW f, NEW now,
         Taken(D, Q, R, h, B, F, y, r, f, now), RowsAreTidy(D, Q), RowsRight(D, B, h),
         NEW e, e = [cmd |-> f, addr |-> r.addr, clk |-> now], NEW g, g = Append(h, e)
  PROVE  HitsOf(D, g)
<1> DEFINE Entry == [cmd : D.commands, addr : { s.addr : s \in Q }, clk : Nat]
           row == RowOf(D, r.addr)
           q == NodeAt(r.addr, D.bankLevel)
           n == Len(g)
           before == { i \in 1..n - 1 : Turns(D, g[i].cmd) /\ Covers(D, g[i], q) }
<1>1. h \in Seq(Entry) /\ r \in Q /\ StatesRight(D, Q, B, F, h, now)
  BY DEF Taken
<1>2. f \in Leads(D, r) /\ f # Exit
  BY TakenIs
<1>3. /\ n = Len(h) + 1 /\ Len(h) \in Nat /\ DOMAIN h = 1..Len(h) /\ n - 1 = Len(h)
      /\ g[n] = e /\ \A j \in DOMAIN h : g[j] = h[j]
  <2> HIDE DEF Entry
  <2> QED BY <1>1
<1> HIDE DEF Entry
<1>4. g[n].cmd = f /\ g[n].addr = r.addr
  BY <1>3
<1> SUFFICES ASSUME Looks(D, f)
             PROVE  before # {} /\ g[Max(before)].cmd \in Activations /\ RowOf(D, g[Max(before)].addr) = row
  BY <1>4 DEF HitsOf
<1>5. /\ f = FinalCommand(D, r) /\ f \notin Answers[Asker(D, f)] /\ q \in D.banks
      /\ Asker(D, f) = "RequireRowOpen" \/ (Asker(D, f) = "RequireSynced" /\ OneRow(D, Q))
  BY <1>1, <1>2 DEF RowsAreTidy
<1>6. B[q].state = "Opened" /\ (row \in B[q].rows \/ OneRow(D, Q))
  <2>1. CASE Asker(D, f) = "RequireRowOpen"
    <3>1. f = RequireRowOpen(B[q], f, row)
      BY <1>5, <2>1, TakenIs
    <3>2. f # "ACT" /\ f # "PRE"
      BY <1>5, <2>1 DEF Answers
    <3> HIDE DEF q, row
    <3> QED BY <1>2, <3>1, <3>2 DEF RequireRowOpen
  <2>2. CASE Asker(D, f) = "RequireSynced" /\ OneRow(D, Q)
    <3>1. f = RequireSynced(B[q], y, f, now)
      BY <1>5, <2>2, TakenIs
    <3>2. f \notin {"ACT-1", "ACT-2"}
      BY <1>5, <2>2 DEF Answers
    <3> HIDE DEF q, row
    <3> QED BY <1>2, <2>2, <3>1, <3>2 DEF RequireSynced
  <2> QED BY <1>5, <2>1, <2>2
<1>7. PICK k \in DOMAIN h : Opener(D, h, k, q) /\ B[q].rows = {RowOf(D, h[k].addr)}
  BY <1>5, <1>6 DEF RowsRight, RowRight
<1>8. RowOf(D, h[k].addr) = row
  <2>1. CASE OneRow(D, Q)
    <3>1. h[k] \in Entry
      BY <1>1
    <3>2. PICK s \in Q : h[k].addr = s.addr
      BY <3>1 DEF Entry
    <3> QED BY <1>1, <2>1, <3>2 DEF OneRow
  <2> QED BY <1>6, <1>7, <2>1
<1>9. before \in SUBSET (1..Len(h)) /\ k \in before /\ \A j \in before : ~(j > k)
  <2>1. \A j \in 1..Len(h) : j \in before <=> Turns(D, h[j].cmd) /\ Covers(D, h[j], q)
    BY <1>3
  <2>2. before \subseteq 1..Len(h)
    BY <1>3
  <2> HIDE DEF before
  <2> QED BY <1>3, <1>7, <2>1, <2>2 DEF Opener
<1> HIDE DEF before
<1>10. Max(before) = k
  BY <1>3, <1>9, MaxOf
<1>11. g[k] = h[k] /\ h[k].cmd \in Activations
  BY <1>3, <1>7 DEF Opener
<1> QED BY <1>8, <1>9, <1>10, <1>11

-----------------------------------------------------------------------------
(***************************************************************************)
(* Activations and precharges.                                              *)
(***************************************************************************)
\* What has been counted says how many banks are open.
Balanced(D, P, B) ==
  \A x \in D.ranks : Counted(P[x], "ACT") - Counted(P[x], "PRE") = Cardinality(Opens(D, B, x))

\* A refresh finds its banks closed, and leaves them refreshing.
LEMMA RefreshFindsClosed ==
  ASSUME NEW D, NEW Q, NEW R, NEW h, NEW B, NEW F, NEW y, NEW r, NEW f, NEW now,
         Taken(D, Q, R, h, B, F, y, r, f, now), f \in Refreshes(D), NEW q \in Touched(D, f, r.addr)
  PROVE  B[q].state = "Closed" /\ update_states(D, B, f, r.addr)[q].state = "Refreshing"
<1> DEFINE a == ActionAt(D, f, r.addr, q)
           x == update_states(D, B, f, r.addr)[q]
<1>1. /\ q \in D.banks /\ f \in Leads(D, r) /\ \A p \in Touched(D, f, r.addr) : B[p].state # "Refreshing"
  BY BankIsFree
<1>2. r \in Q /\ StatesAreTidy(D, Q) /\ B[q] \in Bank(D, Q)
  BY <1>1 DEF Taken, StatesRight
<1>3. RefreshIsTidy(D, f, r) /\ a \in RefreshActions
  BY <1>1, <1>2 DEF StatesAreTidy
<1>4. /\ f = FinalCommand(D, r) /\ f \notin Precharges /\ Asker(D, f) \in ClosedAskers
      /\ Touched(D, f, r.addr) = Asked(D, f, r.addr)
  BY <1>3 DEF RefreshIsTidy, ClosedAskers
<1>5. FoundClosed(B, Asked(D, f, r.addr))
  BY <1>4, TakenIs
<1>6. B[q].state = "Closed"
  BY <1>1, <1>4, <1>5 DEF FoundClosed
<1>7. x = BankEffect(a, B[q], RowOf(D, r.addr))
  BY <1>1 DEF update_states, Touched
<1> HIDE DEF a, x
<1>8. x = [B[q] EXCEPT !.state = "Refreshing"]
  BY <1>3, <1>7 DEF BankEffect, RefreshActions
<1>9. x.state = "Refreshing"
  BY <1>2, <1>8 DEF Bank
<1> QED BY <1>6, <1>9 DEF x

\* Every command is counted for what it does to the open banks of a rank.
LEMMA IssueBalance ==
  ASSUME NEW D, NEW Q, NEW R, NEW h, NEW B, NEW F, NEW y, NEW r, NEW f, NEW now,
         Taken(D, Q, R, h, B, F, y, r, f, now), PowersAreTidy(D, Q), D.banks \subseteq D.nodes,
         NEW C, NEW P \in [D.ranks -> Stats(C)], "ACT" \in C, "PRE" \in C, Balanced(D, P, B),
         NEW W, W = update_states(D, B, f, r.addr), NEW X, X = update_powers(D, P, B, f, r.addr, now)
  PROVE  Balanced(D, X, W)
<1> DEFINE T == Touched(D, f, r.addr)
           row == RowOf(D, r.addr)
<1>1. TablesAreTidy(D) /\ r \in Q /\ now \in Nat /\ f \in D.commands
  BY DEF Taken
<1>2. f \in Leads(D, r) /\ f # Exit
  BY TakenIs
<1>3. \A q \in D.banks : W[q] = IF q \in T THEN BankEffect(ActionAt(D, f, r.addr, q), B[q], row) ELSE B[q]
  BY DEF update_states, Touched
<1>4. T \subseteq D.banks
  BY DEF Touched
<1> HIDE DEF row
<1> SUFFICES ASSUME NEW x \in D.ranks
             PROVE  Counted(X[x], "ACT") - Counted(X[x], "PRE") = Cardinality(Opens(D, W, x))
  BY DEF Balanced
<1> DEFINE a == Counted(P[x], "ACT")
           p == Counted(P[x], "PRE")
           S == Opens(D, B, x)
           o == Cardinality(S)
           closes == Closes(D, B, x, f, r.addr)
           aimed == Aimed(D, x, r.addr)
<1>5. /\ \A q \in T : Below(q, x) => Targeted(x, r.addr)
      /\ CountsOpened(D, f, r) \/ CountsClosed(D, f, r) \/ CountsAll(D, f, r) \/ CountsNone(D, f, r)
  BY <1>1, <1>2 DEF PowersAreTidy
<1> HIDE DEF T
<1>6. a \in Int /\ p \in Int /\ a - p = o
  <2>1. P[x] \in Stats(C)
    OBVIOUS
  <2> QED BY <2>1, CountingCounts DEF Balanced
<1>7. /\ ~Targeted(x, r.addr) => X[x] = P[x]
      /\ Targeted(x, r.addr) =>
           /\ Counted(X[x], "ACT") = a + (IF BankPower(D, f) = "ACT" THEN aimed ELSE 0)
           /\ Counted(X[x], "PRE") = p + closes + (IF BankPower(D, f) = "PRE" THEN aimed ELSE 0)
  <2>1. CountedFor(D, B, P[x], X[x], x, f, r.addr)
    BY <1>1, PowersCount
  <2> QED BY <2>1 DEF CountedFor
<1>8. IsFiniteSet(S) /\ o \in Nat /\ IsFiniteSet(BanksOf(D, x)) /\ S \subseteq BanksOf(D, x)
  BY <1>1, OpensAreFinite DEF Opens
<1>9. ASSUME NEW n \in Int, NEW m \in Int, Counted(X[x], "ACT") = a + n, Counted(X[x], "PRE") = p + m,
             Cardinality(Opens(D, W, x)) = o + n - m
      PROVE  Counted(X[x], "ACT") - Counted(X[x], "PRE") = Cardinality(Opens(D, W, x))
  <2> HIDE DEF a, p, o
  <2> QED BY <1>6, <1>9
<1>10. /\ closes = CASE RankPower(D, f) = "PREA" -> get_open_bank_count(B, BanksOf(D, x))
                     [] RankPower(D, f) = "PREsb" ->
                          get_open_bank_count(B, { q \in BanksOf(D, x) : q[Len(q)] = r.addr[Len(q)] })
                     [] OTHER -> 0
       /\ RankPower(D, f) \notin {"PREA", "PREsb"} => closes = 0
  BY DEF Closes
<1> HIDE DEF aimed, closes, S, o, a, p
<1>11. CASE ~Targeted(x, r.addr)
  <2>1. \A q \in BanksOf(D, x) : W[q] = B[q]
    BY <1>3, <1>5, <1>11 DEF BanksOf
  <2>2. Opens(D, W, x) = S
    BY <2>1 DEF Opens, S
  <2>3. Counted(X[x], "ACT") = a /\ Counted(X[x], "PRE") = p
    BY <1>7, <1>11 DEF a, p
  <2> QED BY <1>6, <2>2, <2>3 DEF o
<1>12. CASE Targeted(x, r.addr) /\ CountsNone(D, f, r)
  <2>1. ASSUME NEW q \in BanksOf(D, x) PROVE W[q].state = "Opened" <=> B[q].state = "Opened"
    <3>1. q \in D.banks
      BY DEF BanksOf
    <3>2. CASE q \in T
      <4>1. f \in Refreshes(D)
        BY <1>12, <3>2 DEF CountsNone, T
      <4>2. B[q].state = "Closed" /\ W[q].state = "Refreshing"
        BY <3>2, <4>1, RefreshFindsClosed DEF T
      <4> QED BY <4>2
    <3> QED BY <1>3, <3>1, <3>2
  <2>2. Opens(D, W, x) = S
    BY <2>1 DEF Opens, S
  <2>3. closes = 0 /\ BankPower(D, f) \notin {"ACT", "PRE"}
    BY <1>10, <1>12 DEF CountsNone
  <2>4. Counted(X[x], "ACT") = a + 0 /\ Counted(X[x], "PRE") = p + 0
    BY <1>6, <1>7, <1>12, <2>3
  <2>5. Cardinality(Opens(D, W, x)) = o + 0 - 0
    BY <1>8, <2>2 DEF o
  <2> QED BY <1>9, <2>4, <2>5
<1> DEFINE home == NodeAt(r.addr, D.bankLevel)
           n == IF home \in BanksOf(D, x) THEN 1 ELSE 0
<1>13. ASSUME NEW action, OneBank(D, f, r, action)
       PROVE  /\ T = {home} /\ home \in D.banks /\ ActionAt(D, f, r.addr, home) = action /\ BankPower(D, f) = action
              /\ RankPower(D, f) \in {"none", action} /\ aimed = n
  <2>1. /\ T = {home} /\ { b \in D.banks : Targeted(b, r.addr) } = {home} /\ ActionAt(D, f, r.addr, home) = action
        /\ BankPower(D, f) = action /\ RankPower(D, f) \in {"none", action}
    BY <1>13 DEF OneBank, T
  <2>2. { q \in BanksOf(D, x) : Targeted(q, r.addr) } = IF home \in BanksOf(D, x) THEN {home} ELSE {}
    <3> HIDE DEF home
    <3> QED BY <2>1 DEF BanksOf
  <2>3. aimed = n
    <3> HIDE DEF home
    <3> QED BY <2>2, FS_Singleton, FS_EmptySet DEF Aimed, aimed
  <2>4. home \in D.banks
    BY <1>4, <2>1
  <2> QED BY <2>1, <2>3, <2>4
<1>14. n \in {0, 1} /\ (n = 1 <=> home \in BanksOf(D, x))
  OBVIOUS
<1> HIDE DEF n
<1>15. CASE Targeted(x, r.addr) /\ CountsOpened(D, f, r)
  <2>1. OneBank(D, f, r, "ACT") /\ f = "ACT" /\ AskedFor(D, f, r, home)
    BY <1>15 DEF CountsOpened
  <2>2. /\ T = {home} /\ home \in D.banks /\ ActionAt(D, f, r.addr, home) = "ACT" /\ BankPower(D, f) = "ACT"
        /\ RankPower(D, f) \in {"none", "ACT"} /\ aimed = n
    BY <1>13, <2>1
  <2>3. B[home].state \in {"Closed", "Refreshing"}
    BY <2>1, AskedForWhenClosed DEF Activations
  <2> HIDE DEF home
  <2>4. W[home].state = "Opened" /\ \A q \in D.banks : q # home => W[q] = B[q]
    <3>1. W[home] = BankEffect("ACT", B[home], row)
      BY <1>3, <2>2
    <3>2. W[home].state = "Opened"
      BY <3>1 DEF BankEffect
    <3> QED BY <1>3, <2>2, <3>2
  <2>5. Opens(D, W, x) = IF home \in BanksOf(D, x) THEN S \cup {home} ELSE S
    BY <2>4 DEF Opens, S, BanksOf
  <2>6. home \notin S
    BY <2>3 DEF S, Opens
  <2>7. Cardinality(Opens(D, W, x)) = o + n
    <3>1. Cardinality(S \cup {home}) = o + 1
      BY <1>8, <2>6, FS_AddElement DEF o
    <3>2. home \notin BanksOf(D, x) => n = 0 /\ Opens(D, W, x) = S
      BY <1>14, <2>5
    <3>3. home \in BanksOf(D, x) => n = 1 /\ Opens(D, W, x) = S \cup {home}
      BY <1>14, <2>5
    <3>4. CASE home \in BanksOf(D, x)
      BY <3>1, <3>3, <3>4
    <3>5. CASE home \notin BanksOf(D, x)
      <4>1. Cardinality(Opens(D, W, x)) = o /\ n = 0 /\ o + 0 = o
        BY <1>8, <3>2, <3>5 DEF o
      <4> QED BY <4>1
    <3> QED BY <3>4, <3>5
  <2>8. Counted(X[x], "ACT") = a + n /\ Counted(X[x], "PRE") = p + 0
    BY <1>6, <1>7, <1>10, <1>15, <2>2
  <2>9. n \in Int /\ o + n - 0 = o + n
    BY <1>8, <1>14
  <2> QED BY <1>9, <2>7, <2>8, <2>9
<1>16. CASE Targeted(x, r.addr) /\ CountsClosed(D, f, r)
  <2> DEFINE final == FinalCommand(D, r)
  <2>1. OneBank(D, f, r, "PRE") /\ f = "PRE" /\ f # final /\ Asker(D, final) \in {"RequireRowOpen", "RequireBankClosed"}
    BY <1>16 DEF CountsClosed
  <2>2. /\ T = {home} /\ home \in D.banks /\ ActionAt(D, f, r.addr, home) = "PRE" /\ BankPower(D, f) = "PRE"
        /\ RankPower(D, f) \in {"none", "PRE"} /\ aimed = n
    BY <1>13, <2>1
  <2>3. f = RequireRowOpen(B[home], final, row) \/ f = RequireBankClosed(B[home], final)
    BY <2>1, TakenIs DEF row
  <2> HIDE DEF home, final
  <2>4. B[home].state = "Opened"
    BY <1>2, <2>1, <2>3 DEF RequireRowOpen, RequireBankClosed
  <2>5. W[home].state = "Closed" /\ \A q \in D.banks : q # home => W[q] = B[q]
    <3>1. W[home] = BankEffect("PRE", B[home], row)
      BY <1>3, <2>2
    <3>2. W[home].state = "Closed"
      BY <3>1 DEF BankEffect
    <3> QED BY <1>3, <2>2, <3>2
  <2>6. Opens(D, W, x) = S \ {home} /\ (home \in S <=> home \in BanksOf(D, x))
    BY <2>4, <2>5 DEF Opens, S, BanksOf
  <2>7. Cardinality(Opens(D, W, x)) = o - n
    <3>1. Cardinality(S \ {home}) = IF home \in S THEN o - 1 ELSE o
      BY <1>8, FS_RemoveElement DEF o
    <3> QED BY <1>8, <1>14, <2>6, <3>1
  <2>8. Counted(X[x], "ACT") = a + 0 /\ Counted(X[x], "PRE") = p + n
    BY <1>6, <1>7, <1>10, <1>14, <1>16, <2>2
  <2>9. n \in Int /\ o + 0 - n = o - n
    BY <1>8, <1>14
  <2> QED BY <1>9, <2>7, <2>8, <2>9
<1>17. CASE Targeted(x, r.addr) /\ CountsAll(D, f, r)
  <2> DEFINE closed == { q \in BanksOf(D, x) : RankPower(D, f) = "PREsb" => q[D.bankLevel] = r.addr[D.bankLevel] }
             V == S \cap closed
  <2>1. /\ RankPower(D, f) \in {"PREA", "PREsb"} /\ BankPower(D, f) = "none"
        /\ \A q \in T : ActionAt(D, f, r.addr, q) \in {"PRE", "PREsb", "PREab"}
        /\ { q \in T : Below(q, x) } = closed
    BY <1>17 DEF CountsAll, T, BanksOf
  <2>2. \A q \in BanksOf(D, x) : IF q \in closed THEN W[q].state = "Closed" ELSE W[q] = B[q]
    <3> SUFFICES ASSUME NEW q \in BanksOf(D, x)
                 PROVE  IF q \in closed THEN W[q].state = "Closed" ELSE W[q] = B[q]
      OBVIOUS
    <3>1. q \in D.banks /\ (q \in closed <=> q \in T)
      BY <2>1 DEF BanksOf
    <3> DEFINE b == ActionAt(D, f, r.addr, q)
    <3> HIDE DEF closed
    <3>2. CASE q \in T
      <4>1. b \in {"PRE", "PREsb", "PREab"} /\ W[q] = BankEffect(b, B[q], row)
        BY <1>3, <2>1, <3>1, <3>2
      <4> HIDE DEF b
      <4>2. W[q] = [state |-> "Closed", rows |-> {}]
        BY <4>1 DEF BankEffect
      <4> QED BY <3>1, <3>2, <4>2
    <3>3. CASE q \notin T
      BY <1>3, <3>1, <3>3
    <3> QED BY <3>2, <3>3
  <2>3. V = IF RankPower(D, f) = "PREA" THEN { q \in BanksOf(D, x) : B[q].state = "Opened" }
            ELSE { q \in { q \in BanksOf(D, x) : q[Len(q)] = r.addr[Len(q)] } : B[q].state = "Opened" }
    <3>1. \A q \in BanksOf(D, x) : Len(q) = D.bankLevel
      BY DEF BanksOf, Taken, StatesAreTidy
    <3> QED BY <2>1, <3>1 DEF S, Opens
  <2> HIDE DEF closed
  <2>4. Opens(D, W, x) = S \ V
    BY <2>2 DEF S, Opens
  <2> HIDE DEF V
  <2>5. closes = Cardinality(V)
    BY <1>10, <2>1, <2>3 DEF get_open_bank_count
  <2>6. V \subseteq S
    BY DEF V
  <2>7. Cardinality(Opens(D, W, x)) = o - closes /\ closes \in Int
    <3>1. IsFiniteSet(V) /\ Cardinality(V) \in Nat
      BY <1>8, <2>6, FS_Subset, FS_CardinalityType
    <3>2. S \cap V = V
      BY <2>6
    <3>3. Cardinality(S \ V) = Cardinality(S) - Cardinality(S \cap V)
      BY <1>8, <3>1, FS_Difference
    <3> QED BY <2>4, <2>5, <3>1, <3>2, <3>3 DEF o
  <2>8. Counted(X[x], "ACT") = a + 0 /\ Counted(X[x], "PRE") = p + closes
    BY <1>6, <1>7, <1>17, <2>1, <2>7
  <2>9. o + 0 - closes = o - closes
    BY <1>8, <2>7
  <2> QED BY <1>9, <2>7, <2>8, <2>9
<1> QED BY <1>5, <1>11, <1>12, <1>15, <1>16, <1>17

-----------------------------------------------------------------------------
(***************************************************************************)
(* What a command is charged.                                               *)
(***************************************************************************)
\* What waits for a rank, with one action more.
LEMMA WaitingMore ==
  ASSUME NEW S, NEW F \in Seq(S), NEW e \in S, NEW x
  PROVE  Waiting(Append(F, e), x) = IF Targeted(x, e.addr) THEN Waiting(F, x) \cup {e} ELSE Waiting(F, x)
<1> DEFINE G == Append(F, e)
           n == Len(F)
<1>1. n \in Nat /\ DOMAIN F = 1..n /\ DOMAIN G = 1..n + 1 /\ G[n + 1] = e /\ \A i \in 1..n : G[i] = F[i]
  OBVIOUS
<1>2. \A i \in 1..n + 1 : i \in 1..n \/ i = n + 1
  BY <1>1
<1>3. 1..n \subseteq 1..n + 1 /\ n + 1 \in 1..n + 1
  BY <1>1
<1> HIDE DEF G, n
<1>4. \A f : f \in Waiting(G, x) <=> f \in Waiting(F, x) \/ (f = e /\ Targeted(x, e.addr))
  <2>1. \A f : f \in Waiting(G, x) <=> \E i \in DOMAIN G : f = G[i] /\ Targeted(x, G[i].addr)
    BY DEF Waiting
  <2>2. \A f : f \in Waiting(F, x) <=> \E i \in DOMAIN F : f = F[i] /\ Targeted(x, F[i].addr)
    BY DEF Waiting
  <2> QED BY <1>1, <1>2, <1>3, <2>1, <2>2
<1>5. Waiting(G, x) = IF Targeted(x, e.addr) THEN Waiting(F, x) \cup {e} ELSE Waiting(F, x)
  BY <1>4
<1> QED BY <1>5 DEF G

\* A command issued is charged to the ranks it is addressed to.
Charging(D, Q, R, h, B, F, y, r, f, now, C, P, W, X, G) ==
  /\ Taken(D, Q, R, h, B, F, y, r, f, now) /\ PowersAreTidy(D, Q) /\ CyclesAreTidy(D, Q) /\ D.banks \subseteq D.nodes
  /\ Accounted(h) /\ f \notin Unaccounted /\ P \in [D.ranks -> Stats(C)] /\ C = DOMAIN D.spec.charged
  /\ Metered(D, B, F, P) /\ W = update_states(D, B, f, r.addr) /\ X = update_powers(D, P, B, f, r.addr, now)
  /\ G = IF f \in Refreshes(D) THEN Append(F, [cmd |-> f, addr |-> r.addr, clk |-> now + Delay(D, f) - 1]) ELSE F
ActedOn(D, f, r, x) == { q \in Touched(D, f, r.addr) : Below(q, x) }

\* The rank x before the command, and what its power model is told.
LEMMA ChargingIs ==
  ASSUME NEW D, NEW Q, NEW R, NEW h, NEW B, NEW F, NEW y, NEW r, NEW f, NEW now, NEW C, NEW P, NEW W, NEW X, NEW G,
         Charging(D, Q, R, h, B, F, y, r, f, now, C, P, W, X, G), NEW x \in D.ranks,
         NEW A, A = ActedOn(D, f, r, x)
  PROVE  /\ P[x] \in Stats(C) /\ AtRank(D, P[x], Opens(D, B, x), Busy(D, B, x), Waiting(F, x))
         /\ EndedBy(D, x, Busy(D, B, x), Waiting(F, x)) /\ A \subseteq BanksOf(D, x)
         /\ A # {} => Targeted(x, r.addr) /\ AtRest(P[x], Opens(D, B, x), Busy(D, B, x), Waiting(F, x))
         /\ \A q \in A : q \notin Busy(D, B, x)
         /\ \A q \in BanksOf(D, x) : q \notin A => W[q] = B[q]
         /\ IF Targeted(x, r.addr)
            THEN /\ Meters(D, RankPower(D, f), P[x], X[x], Cardinality(Opens(D, B, x)), Cardinality(Busy(D, B, x)),
                           Bankgroups(D, x), now)
                 /\ IF f \in Refreshes(D) THEN A # {} /\ ChargedTwice(D, f, A, BanksOf(D, x)) ELSE ChargedOnce(D, f, r, A)
            ELSE X[x] = P[x]
<1>1. /\ Taken(D, Q, R, h, B, F, y, r, f, now) /\ PowersAreTidy(D, Q) /\ CyclesAreTidy(D, Q) /\ D.banks \subseteq D.nodes
      /\ Accounted(h) /\ f \notin Unaccounted /\ P \in [D.ranks -> Stats(C)] /\ C = DOMAIN D.spec.charged
      /\ Metered(D, B, F, P) /\ W = update_states(D, B, f, r.addr) /\ X = update_powers(D, P, B, f, r.addr, now)
  BY DEF Charging
<1>2. /\ TablesAreTidy(D) /\ StatesAreTidy(D, Q) /\ StatesRight(D, Q, B, F, h, now) /\ r \in Q /\ now \in Nat
      /\ f \in D.commands /\ f \in Leads(D, r)
  <2>1. f \in Leads(D, r)
    BY <1>1, TakenIs
  <2> QED BY <1>1, <2>1 DEF Taken
<1>3. /\ P[x] \in Stats(C) /\ AtRank(D, P[x], Opens(D, B, x), Busy(D, B, x), Waiting(F, x))
      /\ EndedBy(D, x, Busy(D, B, x), Waiting(F, x))
  BY <1>1, <1>2, RefreshesAreWaiting DEF Metered
<1>4. /\ "REF" \in C /\ Worth(D) \in Int /\ \A q \in Touched(D, f, r.addr) : Below(q, x) => Targeted(x, r.addr)
      /\ Targeted(x, r.addr) =>
           /\ BankPower(D, f) # "REF"
           /\ IF f \in Refreshes(D) THEN A # {} /\ ChargedTwice(D, f, A, BanksOf(D, x)) ELSE ChargedOnce(D, f, r, A)
  <2>1. "REF" \in C /\ Worth(D) \in Int
    BY <1>1 DEF CyclesAreTidy, Worth
  <2>2. \A q \in Touched(D, f, r.addr) : Below(q, x) => Targeted(x, r.addr)
    BY <1>1, <1>2 DEF PowersAreTidy
  <2>3. Targeted(x, r.addr) =>
           /\ BankPower(D, f) # "REF"
           /\ IF f \in Refreshes(D) THEN A # {} /\ ChargedTwice(D, f, A, BanksOf(D, x)) ELSE ChargedOnce(D, f, r, A)
    BY <1>1, <1>2 DEF CyclesAreTidy, BanksOf, ActedOn
  <2> QED BY <2>1, <2>2, <2>3
<1>5. A \subseteq BanksOf(D, x) /\ \A q \in A : q \in Touched(D, f, r.addr) /\ Below(q, x)
  BY DEF ActedOn, BanksOf, Touched
<1>6. \A q \in A : q \notin Busy(D, B, x)
  <2>1. \A q \in Touched(D, f, r.addr) : B[q].state # "Refreshing"
    BY <1>1, BankIsFree
  <2> QED BY <1>5, <2>1 DEF Busy
<1>7. A # {} => Targeted(x, r.addr) /\ AtRest(P[x], Opens(D, B, x), Busy(D, B, x), Waiting(F, x))
  <2> SUFFICES ASSUME NEW q \in A PROVE Targeted(x, r.addr) /\ AtRest(P[x], Opens(D, B, x), Busy(D, B, x), Waiting(F, x))
    OBVIOUS
  <2>1. q \in BanksOf(D, x) /\ q \notin Busy(D, B, x) /\ Targeted(x, r.addr)
    BY <1>4, <1>5, <1>6
  <2> QED BY <1>3, <2>1, RankIsAtRest
<1>8. \A q \in BanksOf(D, x) : q \notin A => W[q] = B[q]
  BY <1>1 DEF update_states, Touched, ActedOn, BanksOf
<1>9. Metering(D, B, P[x], X[x], x, f, r.addr, now)
  <2>1. Targeted(x, r.addr) => BankPower(D, f) # "REF"
    BY <1>4
  <2>2. X[x] = update_powers(D, P, B, f, r.addr, now)[x]
    BY <1>1
  <2> QED BY <1>1, <1>2, <1>4, <2>1, <2>2, PowersMeter
<1> QED BY <1>3, <1>4, <1>5, <1>6, <1>7, <1>8, <1>9 DEF Metering

\* A command keeps every rank charged for the cycles before its state, or that a pending end will have it so.
LEMMA IssueMeters ==
  ASSUME NEW D, NEW Q, NEW R, NEW h, NEW B, NEW F, NEW y, NEW r, NEW f, NEW now, NEW C, NEW P, NEW W, NEW X, NEW G,
         Charging(D, Q, R, h, B, F, y, r, f, now, C, P, W, X, G)
  PROVE  Metered(D, W, G, X)
<1> SUFFICES ASSUME NEW x \in D.ranks PROVE AtRank(D, X[x], Opens(D, W, x), Busy(D, W, x), Waiting(G, x))
  BY DEF Metered
<1>1. PICK A : A = ActedOn(D, f, r, x)
  OBVIOUS
<1>2. PICK s, t : s = P[x] /\ t = X[x]
  OBVIOUS
<1>3. PICK O, K, V : O = Opens(D, B, x) /\ K = Busy(D, B, x) /\ V = Waiting(F, x)
  OBVIOUS
<1>4. /\ s \in Stats(C) /\ AtRank(D, s, O, K, V) /\ EndedBy(D, x, K, V) /\ A \subseteq BanksOf(D, x)
      /\ A # {} => Targeted(x, r.addr) /\ AtRest(s, O, K, V)
      /\ \A q \in A : q \notin K
      /\ \A q \in BanksOf(D, x) : q \notin A => W[q] = B[q]
      /\ IF Targeted(x, r.addr)
         THEN /\ Meters(D, RankPower(D, f), s, t, Cardinality(O), Cardinality(K), Bankgroups(D, x), now)
              /\ IF f \in Refreshes(D) THEN A # {} /\ ChargedTwice(D, f, A, BanksOf(D, x)) ELSE ChargedOnce(D, f, r, A)
         ELSE t = s
  BY <1>1, <1>2, <1>3, ChargingIs
<1>5. /\ Taken(D, Q, R, h, B, F, y, r, f, now) /\ D.banks \subseteq D.nodes /\ W = update_states(D, B, f, r.addr)
      /\ G = IF f \in Refreshes(D) THEN Append(F, [cmd |-> f, addr |-> r.addr, clk |-> now + Delay(D, f) - 1]) ELSE F
      /\ TablesAreTidy(D) /\ StatesAreTidy(D, Q) /\ StatesRight(D, Q, B, F, h, now) /\ r \in Q /\ now \in Nat
      /\ f \in D.commands /\ f \in Leads(D, r) /\ f # Exit
  <2>1. Taken(D, Q, R, h, B, F, y, r, f, now)
    BY DEF Charging
  <2>2. f \in Leads(D, r) /\ f # Exit
    BY <2>1, TakenIs
  <2> QED BY <2>1, <2>2 DEF Taken, Charging
<1>6. /\ IsFiniteSet(O) /\ IsFiniteSet(K) /\ O \cap K = {} /\ O \subseteq BanksOf(D, x) /\ K \subseteq BanksOf(D, x)
  BY <1>3, <1>5, BanksAreFinite
<1>7. \A q \in BanksOf(D, x) : (q \in O <=> B[q].state = "Opened") /\ (q \in K <=> B[q].state = "Refreshing")
  BY <1>3 DEF Opens, Busy
<1>8. \A q \in A : q \in Touched(D, f, r.addr) /\ Below(q, x) /\ q \in D.banks
  BY <1>1 DEF ActedOn, Touched
<1> SUFFICES AtRank(D, t, Opens(D, W, x), Busy(D, W, x), Waiting(G, x))
  BY <1>2
<1>9. \A q : (q \in Opens(D, W, x) <=> q \in BanksOf(D, x) /\ W[q].state = "Opened")
             /\ (q \in Busy(D, W, x) <=> q \in BanksOf(D, x) /\ W[q].state = "Refreshing")
  BY DEF Opens, Busy
<1>10. f \notin Refreshes(D) => Waiting(G, x) = V
  BY <1>3, <1>5
<1>11. CASE A = {} /\ f \notin Refreshes(D)
  <2>1. Opens(D, W, x) = O /\ Busy(D, W, x) = K
    BY <1>4, <1>6, <1>7, <1>9, <1>11
  <2>2. CASE ~Targeted(x, r.addr)
    BY <1>4, <1>10, <1>11, <2>1, <2>2
  <2>3. CASE Targeted(x, r.addr)
    <3>1. Same(D, s, t)
      BY <1>4, <1>11, <2>3 DEF ChargedOnce, Meters
    <3> QED BY <1>4, <1>10, <1>11, <2>1, <3>1, SameMeters
  <2> QED BY <2>2, <2>3
<1>12. CASE A = {} /\ f \in Refreshes(D)
  <2> DEFINE e == [cmd |-> f, addr |-> r.addr, clk |-> now + Delay(D, f) - 1]
  <2>1. Opens(D, W, x) = O /\ Busy(D, W, x) = K
    BY <1>4, <1>6, <1>7, <1>9, <1>12
  <2>2. ~Targeted(x, r.addr) /\ t = s
    BY <1>4, <1>12
  <2>3. F \in Seq(Entries(D, Q)) /\ e \in Entries(D, Q) /\ G = Append(F, e) /\ e.addr = r.addr
    <3>1. now + Delay(D, f) - 1 \in Nat
      <4>1. Delay(D, f) \in Nat /\ Delay(D, f) >= 2
        BY <1>5, <1>12 DEF StatesAreTidy, RefreshIsTidy
      <4> QED BY <1>5, <4>1
    <3> QED BY <1>5, <1>12, <3>1 DEF StatesRight, Entries
  <2> HIDE DEF e
  <2>4. Waiting(G, x) = V
    BY <1>3, <2>2, <2>3, WaitingMore
  <2> QED BY <1>4, <2>1, <2>2, <2>4
<1>13. CASE A # {} /\ f \in Refreshes(D)
  <2> DEFINE e == [cmd |-> f, addr |-> r.addr, clk |-> now + Delay(D, f) - 1]
  <2>1. \A q \in A : B[q].state = "Closed" /\ W[q].state = "Refreshing"
    BY <1>5, <1>8, <1>13, RefreshFindsClosed
  <2>2. Opens(D, W, x) = O /\ Busy(D, W, x) = K \cup A /\ A \cap O = {} /\ A \cap K = {}
    BY <1>4, <1>6, <1>7, <1>9, <2>1
  <2>3. F \in Seq(Entries(D, Q)) /\ e \in Entries(D, Q) /\ G = Append(F, e)
        /\ e.addr = r.addr /\ e.cmd = f /\ e.clk = now + Delay(D, f) - 1
    <3>1. now + Delay(D, f) - 1 \in Nat
      <4>1. Delay(D, f) \in Nat /\ Delay(D, f) >= 2
        BY <1>5, <1>13 DEF StatesAreTidy, RefreshIsTidy
      <4> QED BY <1>5, <4>1
    <3> QED BY <1>5, <1>13, <3>1 DEF StatesRight, Entries
  <2>4. Finishes(D, x, e, A)
    <3>1. Touched(D, f, r.addr) = Covered(D, f, r.addr)
      BY <1>5, <1>13 DEF StatesAreTidy, RefreshIsTidy
    <3>2. Covered(D, f, r.addr) = { q \in D.banks : Covers(D, e, q) }
      BY DEF Covered, Covers
    <3>3. Reached(D, e, x) = A
      <4> HIDE DEF e
      <4> QED BY <1>1, <3>1, <3>2 DEF Reached, ActedOn, BanksOf
    <3>4. ChargedTwice(D, e.cmd, A, BanksOf(D, x))
      BY <1>4, <1>13
    <3> HIDE DEF e
    <3> QED BY <1>4, <1>13, <3>3, <3>4 DEF Finishes
  <2> HIDE DEF e
  <2>5. Waiting(G, x) = V \cup {e}
    BY <1>3, <1>4, <1>13, <2>3, WaitingMore
  <2>6. AtRest(s, O, K, V) /\ Meters(D, RankPower(D, e.cmd), s, t, Cardinality(O), Cardinality(K), Bankgroups(D, x), now)
    BY <1>4, <1>13, <2>3
  <2>7. AtRank(D, t, O, K \cup A, V \cup {e})
    BY <1>4, <1>6, <2>2, <2>3, <2>4, <2>6, BeginsMeter
  <2> QED BY <2>2, <2>5, <2>7
<1>14. CASE A # {} /\ f \notin Refreshes(D)
  <2> DEFINE home == NodeAt(r.addr, D.bankLevel)
             row == RowOf(D, r.addr)
  <2>1. ChargedOnce(D, f, r, A) /\ AtRest(s, O, K, V)
        /\ Meters(D, RankPower(D, f), s, t, Cardinality(O), Cardinality(K), Bankgroups(D, x), now)
    BY <1>4, <1>14
  <2>2. \A q \in A : W[q] = BankEffect(ActionAt(D, f, r.addr, q), B[q], row)
    BY <1>5, <1>8 DEF update_states, Touched
  <2>3. ASSUME NEW action, OneBank(D, f, r, action)
        PROVE  A = {home} /\ home \in BanksOf(D, x) /\ W[home] = BankEffect(action, B[home], row)
    <3>1. Touched(D, f, r.addr) = {home} /\ ActionAt(D, f, r.addr, home) = action
      BY <2>3 DEF OneBank
    <3>2. A = {home}
      BY <1>8, <1>14, <3>1
    <3> QED BY <1>4, <2>2, <3>1, <3>2
  <2> HIDE DEF home, row
  <2>4. CASE RankPower(D, f) = "ACT" /\ CountsOpened(D, f, r)
    <3>1. A = {home} /\ home \in BanksOf(D, x) /\ W[home] = BankEffect("ACT", B[home], row)
      BY <2>3, <2>4 DEF CountsOpened
    <3>2. W[home].state = "Opened"
      BY <3>1 DEF BankEffect
    <3>3. Opens(D, W, x) = O \cup {home} /\ Busy(D, W, x) = K
      BY <1>4, <1>6, <1>7, <1>9, <3>1, <3>2
    <3>4. AtRank(D, t, O \cup {home}, K, V)
      <4>1. Meters(D, "ACT", s, t, Cardinality(O), Cardinality(K), Bankgroups(D, x), now)
        BY <2>1, <2>4
      <4> QED BY <1>4, <1>6, <2>1, <4>1, OpensMeter
    <3> QED BY <1>10, <1>14, <3>3, <3>4
  <2>5. CASE RankPower(D, f) = "PRE" /\ CountsClosed(D, f, r)
    <3> DEFINE final == FinalCommand(D, r)
    <3>1. A = {home} /\ home \in BanksOf(D, x) /\ W[home] = BankEffect("PRE", B[home], row)
      BY <2>3, <2>5 DEF CountsClosed
    <3>2. W[home].state = "Closed"
      BY <3>1 DEF BankEffect
    <3>3. f = "PRE" /\ f # final /\ Asker(D, final) \in {"RequireRowOpen", "RequireBankClosed"}
      BY <2>5 DEF CountsClosed
    <3>4. f = RequireRowOpen(B[home], final, row) \/ f = RequireBankClosed(B[home], final)
      BY <1>5, <3>3, TakenIs DEF row, home
    <3> HIDE DEF final
    <3>5. B[home].state = "Opened"
      BY <1>5, <3>3, <3>4 DEF RequireRowOpen, RequireBankClosed
    <3>6. home \in O /\ Opens(D, W, x) = O \ {home} /\ Busy(D, W, x) = K
      BY <1>4, <1>6, <1>7, <1>9, <3>1, <3>2, <3>5
    <3>7. AtRank(D, t, O \ {home}, K, V)
      BY <1>4, <1>6, <2>1, <2>5, <3>6, ClosesMeter
    <3> QED BY <1>10, <1>14, <3>6, <3>7
  <2>6. CASE RankPower(D, f) = "PREA" /\ CountsAll(D, f, r)
    <3>1. Targeted(x, r.addr)
      BY <1>4, <1>14
    <3>2. A = BanksOf(D, x) /\ \A q \in A : ActionAt(D, f, r.addr, q) \in {"PRE", "PREsb", "PREab"}
      BY <1>1, <2>6, <3>1 DEF CountsAll, ActedOn, BanksOf
    <3>3. \A q \in A : W[q].state = "Closed"
      <4> SUFFICES ASSUME NEW q \in A PROVE W[q].state = "Closed"
        OBVIOUS
      <4>1. PICK a : a = ActionAt(D, f, r.addr, q)
        OBVIOUS
      <4>2. a \in {"PRE", "PREsb", "PREab"} /\ W[q] = BankEffect(a, B[q], row)
        BY <2>2, <3>2, <4>1
      <4>3. W[q] = [state |-> "Closed", rows |-> {}]
        BY <4>2 DEF BankEffect
      <4> QED BY <4>3
    <3>4. K = {} /\ Opens(D, W, x) = {} /\ Busy(D, W, x) = {}
      BY <1>4, <1>6, <1>9, <3>2, <3>3
    <3>5. AtRank(D, t, {}, {}, V)
      <4>1. /\ AtRank(D, s, O, {}, V) /\ EndedBy(D, x, {}, V) /\ AtRest(s, O, {}, V)
            /\ Meters(D, "PREA", s, t, Cardinality(O), Cardinality({}), Bankgroups(D, x), now)
        BY <1>4, <2>1, <2>6, <3>4
      <4> QED BY <1>4, <1>6, <4>1, ClosesAllMeter
    <3> QED BY <1>10, <1>14, <3>4, <3>5
  <2>7. \/ RankPower(D, f) = "ACT" /\ CountsOpened(D, f, r)
        \/ RankPower(D, f) = "PRE" /\ CountsClosed(D, f, r)
        \/ RankPower(D, f) = "PREA" /\ CountsAll(D, f, r)
    BY <1>14, <2>1 DEF ChargedOnce
  <2> QED BY <2>4, <2>5, <2>6, <2>7
<1> QED BY <1>11, <1>12, <1>13, <1>14

-----------------------------------------------------------------------------
(***************************************************************************)
(* The rows that are open, and what is counted of them.                     *)
(***************************************************************************)
\* The invariant of the use of the banks: every open bank has the row of the activation that opened it last,
\* the last access was of such a row, and what is counted of a rank says how many banks it has open.
Used(D, B, h, P) == RowsRight(D, B, h) /\ (h # << >> => HitsOf(D, h)) /\ Balanced(D, P, B)
UsageInv == StatesInv /\ (load # 0 => Used(TheDevice, bank, log, power))

LEMMA TheDeviceIsUsed ==
  ASSUME NEW i \in DOMAIN Loads
  PROVE  RowsAreTidy(Compiled[i], Loads[i].requests) /\ PowersAreTidy(Compiled[i], Loads[i].requests)
BY RowsAssumption, PowersAssumption

LEMMA InitUsage == Init => UsageInv
<1> SUFFICES ASSUME Init, load # 0 PROVE Used(TheDevice, bank, log, power)
  BY InitStates DEF UsageInv
<1>1. PICK i \in DOMAIN Loads :
        /\ load = i /\ bank = [q \in Compiled[i].banks |-> [state |-> "Closed", rows |-> {}]]
        /\ power = [r \in Compiled[i].ranks |-> InitStats(DOMAIN Compiled[i].spec.charged)]
  BY DEF Init, InitLoad, InitPreset
<1> DEFINE D == TheDevice
           L == Loads[i]
           C == DOMAIN D.spec.charged
<1>2. /\ bank = [q \in D.banks |-> [state |-> "Closed", rows |-> {}]] /\ power = [r \in D.ranks |-> InitStats(C)]
      /\ PowersAreTidy(D, L.requests) /\ log = << >>
  BY <1>1, TheDeviceIsUsed DEF TheDevice, Init
<1> HIDE DEF D, L, C
<1>3. RowsRight(D, bank, log)
  BY <1>2 DEF RowsRight, RowRight
<1>4. Balanced(D, power, bank)
  <2> SUFFICES ASSUME NEW x \in D.ranks
               PROVE  Counted(power[x], "ACT") - Counted(power[x], "PRE") = Cardinality(Opens(D, bank, x))
    BY DEF Balanced
  <2>1. "ACT" \in C /\ "PRE" \in C
    BY <1>2 DEF PowersAreTidy, C
  <2>2. Opens(D, bank, x) = {}
    BY <1>2 DEF Opens, BanksOf
  <2>3. Counted(power[x], "ACT") = 0 /\ Counted(power[x], "PRE") = 0
    <3>1. power[x] = InitStats(C)
      BY <1>2
    <3> QED BY <2>1, <3>1 DEF InitStats, Counted
  <2> QED BY <2>2, <2>3, FS_EmptySet
<1> QED BY <1>2, <1>3, <1>4 DEF Used, D

LEMMA IssueUses ==
  ASSUME NEW D, NEW L, load \in DOMAIN Loads, D = Compiled[load], L = Loads[load], TimedInv,
         Kept(D, L, bank, future, log, clk, power), Used(D, bank, log, power),
         NEW r \in Pending(D), NextCommand(D, r) \in D.commands, Issue(D, r),
         NEW B, bank' = B, NEW h, log' = h, NEW P, power' = P
  PROVE  Used(D, B, h, P)
<1> DEFINE Q == L.requests
           f == NextCommand(D, r)
           y == SyncedOf(r.addr)
           e == [cmd |-> f, addr |-> r.addr, clk |-> clk]
           C == DOMAIN D.spec.charged
<1>1. Taken(D, Q, ready, log, bank, future, y, r, f, clk)
  BY IssueTakes
<1>2. /\ B = update_states(D, bank, f, r.addr) /\ h = Append(log, e)
      /\ P = update_powers(D, power, IF PowersFirst(D.spec) THEN bank ELSE B, f, r.addr, clk)
  BY DEF Issue
<1>3. power \in [D.ranks -> Stats(C)]
  BY DEF Kept
<1>4. RowsAreTidy(D, Q) /\ PowersAreTidy(D, Q) /\ D.banks \subseteq D.nodes
  BY TheDeviceIsKept, TheDeviceIsUsed
<1>5. e = [cmd |-> f, addr |-> r.addr, clk |-> clk]
  OBVIOUS
<1> HIDE DEF Q, f, y, C, e
<1>6. RowsRight(D, B, h)
  BY <1>1, <1>2, <1>4, <1>5, IssueRows DEF Used
<1>7. HitsOf(D, h)
  BY <1>1, <1>2, <1>4, <1>5, IssueHits DEF Used
<1>8. Balanced(D, P, B)
  <2>1. CASE D.ranks = {}
    BY <2>1 DEF Balanced
  <2>2. CASE D.ranks # {}
    <3>1. PowersFirst(D.spec) /\ "ACT" \in C /\ "PRE" \in C
      BY <1>4, <2>2 DEF PowersAreTidy, C
    <3>2. P = update_powers(D, power, bank, f, r.addr, clk) /\ Balanced(D, power, bank)
      BY <1>2, <3>1 DEF Used
    <3> QED BY <1>1, <1>2, <1>3, <1>4, <3>1, <3>2, IssueBalance
  <2> QED BY <2>1, <2>2
<1> QED BY <1>6, <1>7, <1>8 DEF Used

LEMMA TickUses ==
  ASSUME NEW D, NEW L, load \in DOMAIN Loads, D = Compiled[load], L = Loads[load], clk \in Nat,
         Kept(D, L, bank, future, log, clk, power), Used(D, bank, log, power), Tick(D),
         NEW B, bank' = B, NEW P, power' = P
  PROVE  Used(D, B, log, P)
<1> DEFINE Q == L.requests
           C == DOMAIN D.spec.charged
<1>1. TablesAreTidy(D) /\ StatesAreTidy(D, Q) /\ PowersAreTidy(D, Q)
  BY TheDeviceIsKept, TheDeviceIsUsed
<1>2. StatesRight(D, Q, bank, future, log, clk) /\ power \in [D.ranks -> Stats(C)]
  BY DEF Kept
<1> HIDE DEF Q, C
<1>3. Alike(D, Q, C, bank, power, B, P)
  <2>1. Alike(D, Q, C, bank, power, bank', power')
    BY <1>1, <1>2, TickStates
  <2> QED BY <2>1
<1>4. \A q \in D.banks : B[q].state = "Opened" \/ bank[q].state = "Opened" => B[q] = bank[q]
  BY <1>3 DEF Alike, OpenStates
<1>5. RowsRight(D, B, log)
  <2> SUFFICES ASSUME NEW q \in D.banks PROVE RowRight(D, B[q], log, q)
    BY DEF RowsRight
  <2>1. RowRight(D, bank[q], log, q)
    BY DEF Used, RowsRight
  <2> QED BY <1>4, <2>1 DEF RowRight
<1>6. Balanced(D, P, B)
  <2> SUFFICES ASSUME NEW x \in D.ranks
               PROVE  Counted(P[x], "ACT") - Counted(P[x], "PRE") = Cardinality(Opens(D, B, x))
    BY DEF Balanced
  <2>1. "ACT" \in C /\ "PRE" \in C
    BY <1>1 DEF PowersAreTidy, C
  <2>2. EndsUncounted(D, Q)
    <3> SUFFICES ASSUME NEW s \in Q, FinalCommand(D, s) \in Refreshes(D)
                 PROVE  LET end == D.spec.future[FinalCommand(D, s)].end
                        IN  RankPower(D, end) \notin {"PREA", "PREsb"} /\ BankPower(D, end) \notin {"ACT", "PRE"}
      BY DEF EndsUncounted
    <3>1. FinalCommand(D, s) \in Leads(D, s)
      BY <1>1 DEF StatesAreTidy, Leads
    <3> QED BY <1>1, <3>1 DEF PowersAreTidy
  <2>3. Counted(P[x], "ACT") = Counted(power[x], "ACT") /\ Counted(P[x], "PRE") = Counted(power[x], "PRE")
    BY <1>3, <2>1, <2>2 DEF Alike, OpenStates
  <2>4. Opens(D, B, x) = Opens(D, bank, x)
    BY <1>4 DEF Opens, BanksOf
  <2> QED BY <2>3, <2>4 DEF Used, Balanced
<1> QED BY <1>5, <1>6 DEF Used

LEMMA FinalizeUses ==
  ASSUME NEW D, NEW L, Kept(D, L, bank, future, log, clk, power), Used(D, bank, log, power), Finalize(D),
         NEW P, power' = P
  PROVE  Used(D, bank, log, P)
<1> DEFINE C == DOMAIN D.spec.charged
<1>1. power \in [D.ranks -> Stats(C)] /\ P = [x \in D.ranks |-> finalize_rank(power[x], clk)]
  BY DEF Kept, Finalize
<1> HIDE DEF C
<1>2. ASSUME NEW x \in D.ranks PROVE \A c : Counted(P[x], c) = Counted(power[x], c)
  <2>1. P[x] = finalize_rank(power[x], clk) /\ power[x] \in Stats(C)
    BY <1>1
  <2> QED BY <2>1, WakingCounts
<1>3. Balanced(D, P, bank)
  BY <1>2 DEF Used, Balanced
<1> QED BY <1>3 DEF Used

LEMMA StepUsage == UsageInv /\ [Next]_vars => UsageInv'
<1> SUFFICES ASSUME UsageInv, [Next]_vars PROVE UsageInv'
  OBVIOUS
<1>1. StatesInv'
  BY StepStates DEF UsageInv
<1>2. UNCHANGED load
  BY DEF Next, Issue, Tick, Finalize, Done, vars
<1>3. CASE UNCHANGED <<bank, log, power>>
  <2> DEFINE D == TheDevice
  <2>1. D' = D
    BY <1>2 DEF TheDevice
  <2>2. load # 0 => Used(D, bank, log, power)
    BY DEF UsageInv
  <2> HIDE DEF D
  <2>3. (load # 0 => Used(D, bank, log, power))'
    BY <1>2, <1>3, <2>1, <2>2
  <2> QED BY <1>1, <2>3 DEF UsageInv, D
<1>4. ASSUME load # 0, NEW D, D = TheDevice, ~Exits(D),
             (\E r \in Pending(D) : Issue(D, r)) \/ Tick(D) \/ Finalize(D)
      PROVE  UsageInv'
  <2>1. load \in DOMAIN Loads /\ clk \in Nat /\ D = Compiled[load] /\ TimedInv
    BY <1>4 DEF UsageInv, StatesInv, TimedInv, DeviceInv, TheDevice
  <2>2. PICK L : L = Loads[load]
    OBVIOUS
  <2>3. Kept(D, L, bank, future, log, clk, power) /\ Used(D, bank, log, power)
    BY <1>4, <2>2 DEF UsageInv, StatesInv
  <2>4. ASSUME Used(D, bank', log', power') PROVE UsageInv'
    <3>1. TheDevice' = D
      BY <1>2, <2>1 DEF TheDevice
    <3> QED BY <1>1, <2>4, <3>1 DEF UsageInv
  <2>5. PICK B, h, P : bank' = B /\ log' = h /\ power' = P
    OBVIOUS
  <2>6. ASSUME NEW r \in Pending(D), Issue(D, r) PROVE UsageInv'
    <3>1. NextCommand(D, r) \in D.commands
      BY <1>4 DEF Exits
    <3>2. Used(D, B, h, P)
      BY <2>1, <2>2, <2>3, <2>5, <2>6, <3>1, IssueUses
    <3> QED BY <2>4, <2>5, <3>2
  <2>7. CASE Tick(D)
    <3>1. Used(D, B, log, P) /\ log' = log
      <4>1. Used(D, B, log, P)
        BY <2>1, <2>2, <2>3, <2>5, <2>7, TickUses
      <4> QED BY <2>7, <4>1 DEF Tick
    <3> QED BY <2>4, <2>5, <3>1
  <2>8. CASE Finalize(D)
    <3>1. Used(D, bank, log, P)
      BY <2>3, <2>5, <2>8, FinalizeUses
    <3>2. UNCHANGED <<bank, log>>
      BY <2>8 DEF Finalize
    <3> QED BY <2>4, <2>5, <3>1, <3>2
  <2> QED BY <1>4, <2>6, <2>7, <2>8
<1>5. CASE Done \/ UNCHANGED vars
  BY <1>3, <1>5 DEF Done, vars, deviceVars
<1> QED BY <1>4, <1>5 DEF Next

\* The invariant: every open bank has just the row of the activation that opened it last, and activations and
\* precharges, as counted, say how many banks of a rank are open.
THEOREM UsageInvariant == Spec => []UsageInv
BY InitUsage, StepUsage, PTL DEF Spec

\* For every device whose requests ask for an activation when their bank has no row: in every run of it, an
\* access finds its row open, as the latest command to turn its bank was the activation of that row.
THEOREM AccessesHitTheirRow == Spec => []AccessHitsOpenRow
<1>1. UsageInv => AccessHitsOpenRow
  BY HitsAreOfTheLog DEF UsageInv, Used
<1> QED BY <1>1, UsageInvariant, PTL

\* For every device that charges its commands for what they do to its banks: in every run of it, the activations
\* counted for a rank are ahead of the precharges by the banks it has open.
THEOREM ActivationsBalance == Spec => []ActsBalancePres
<1>1. UsageInv => ActsBalancePres
  <2> SUFFICES ASSUME UsageInv, load # 0, NEW D, D = TheDevice, NEW x \in D.ranks
               PROVE  power[x].cmd_counters.ACT - power[x].cmd_counters.PRE
                        = get_open_bank_count(bank, { q \in D.banks : Below(q, x) })
    BY DEF ActsBalancePres, Running
  <2>1. Balanced(D, power, bank)
    BY DEF UsageInv, Used
  <2>2. Counted(power[x], "ACT") - Counted(power[x], "PRE") = Cardinality(Opens(D, bank, x))
    BY <2>1 DEF Balanced
  <2>3. Cardinality(Opens(D, bank, x)) = get_open_bank_count(bank, { q \in D.banks : Below(q, x) })
    BY DEF Opens, BanksOf, get_open_bank_count
  <2>4. power[x].cmd_counters.ACT = Counted(power[x], "ACT") /\ power[x].cmd_counters.PRE = Counted(power[x], "PRE")
    BY DEF Counted
  <2> QED BY <2>2, <2>3, <2>4
<1> QED BY <1>1, UsageInvariant, PTL

-----------------------------------------------------------------------------
(***************************************************************************)
(* The cycles that are charged for.                                         *)
(***************************************************************************)
\* The invariant of the cycles: a rank that is idle or active has been charged for every cycle until it came to
\* be so, one that is refreshing until that ends; at the end of a run, for all the cycles of the run.
Accounts(D, E, P, now) ==
  \A x \in D.ranks :
    \/ P[x].state = "REFRESHING"
    \/ E[x].act_background + E[x].pre_background + E[x].cmd.REF - P[x].cmd_counters.REF = now
CyclesInv ==
  /\ UsageInv
  /\ load # 0 /\ phase = "ready" /\ Accounted(log) => Metered(TheDevice, bank, future, power)
  /\ phase = "finalized" /\ Accounted(log) => Accounts(TheDevice, energy, power, clk)

\* At first no cycle has gone by, and every rank is idle from cycle 0.
LEMMA InitCycles == Init => CyclesInv
<1> SUFFICES ASSUME Init PROVE CyclesInv
  OBVIOUS
<1>1. phase # "finalized"
  BY DEF Init, InitLoad, InitPreset, Outcome
<1>2. ASSUME load # 0 PROVE Metered(TheDevice, bank, future, power)
  <2>1. PICK i \in DOMAIN Loads :
          /\ load = i /\ bank = [q \in Compiled[i].banks |-> [state |-> "Closed", rows |-> {}]]
          /\ power = [r \in Compiled[i].ranks |-> InitStats(DOMAIN Compiled[i].spec.charged)]
    BY <1>2 DEF Init, InitLoad, InitPreset
  <2> DEFINE D == TheDevice
             C == DOMAIN D.spec.charged
  <2>2. /\ bank = [q \in D.banks |-> [state |-> "Closed", rows |-> {}]] /\ power = [r \in D.ranks |-> InitStats(C)]
        /\ CyclesAreTidy(D, Loads[i].requests) /\ future = << >>
    BY <2>1, CyclesAssumption DEF TheDevice, Init
  <2> HIDE DEF D, C
  <2> SUFFICES ASSUME NEW x \in D.ranks
               PROVE  AtRank(D, power[x], Opens(D, bank, x), Busy(D, bank, x), Waiting(future, x))
    BY DEF Metered, D
  <2>3. "REF" \in C /\ Worth(D) \in Int
    BY <2>2 DEF CyclesAreTidy, Worth, C
  <2>4. Opens(D, bank, x) = {} /\ Waiting(future, x) = {}
    BY <2>2 DEF Opens, BanksOf, Waiting
  <2>5. PICK s : s = InitStats(C)
    OBVIOUS
  <2>6. /\ s.state = "IDLE" /\ s.active_cycles = 0 /\ s.idle_cycles = 0 /\ s.idle_start_cycle = 0 /\ Counted(s, "REF") = 0
    BY <2>3, <2>5 DEF InitStats, Counted
  <2>7. Charged(D, s) = 0
    <3>1. 0 * Worth(D) = 0
      BY <2>3
    <3> QED BY <2>6, <3>1 DEF Charged
  <2>8. power[x] = s
    BY <2>2, <2>5
  <2> QED BY <2>4, <2>6, <2>7, <2>8 DEF AtRank, Clocked
<1>3. UsageInv
  BY InitUsage
<1> QED BY <1>1, <1>2, <1>3 DEF CyclesInv

\* Issuing a command keeps what the ranks are charged.
LEMMA IssueCharges ==
  ASSUME NEW D, NEW L, load \in DOMAIN Loads, D = Compiled[load], L = Loads[load], TimedInv,
         Kept(D, L, bank, future, log, clk, power), Accounted(log) => Metered(D, bank, future, power),
         NEW r \in Pending(D), NextCommand(D, r) \in D.commands, Issue(D, r),
         NEW B, bank' = B, NEW F, future' = F, NEW h, log' = h, NEW P, power' = P, Accounted(h)
  PROVE  Metered(D, B, F, P)
<1> DEFINE Q == L.requests
           f == NextCommand(D, r)
           y == SyncedOf(r.addr)
           e == [cmd |-> f, addr |-> r.addr, clk |-> clk]
           C == DOMAIN D.spec.charged
<1>1. Taken(D, Q, ready, log, bank, future, y, r, f, clk)
  BY IssueTakes
<1>2. /\ B = update_states(D, bank, f, r.addr) /\ h = Append(log, e)
      /\ P = update_powers(D, power, IF PowersFirst(D.spec) THEN bank ELSE B, f, r.addr, clk)
      /\ F = IF f \in Refreshes(D) THEN Append(future, [cmd |-> f, addr |-> r.addr, clk |-> clk + Delay(D, f) - 1]) ELSE future
  BY DEF Issue, check_future_action, Refreshes, Delay
<1>3. power \in [D.ranks -> Stats(C)] /\ C = DOMAIN D.spec.charged
  BY DEF Kept
<1>4. PowersAreTidy(D, Q) /\ CyclesAreTidy(D, Q) /\ D.banks \subseteq D.nodes
  BY TheDeviceIsKept, TheDeviceIsUsed, CyclesAssumption
<1>5. e.cmd = f /\ log \in Seq([cmd : D.commands, addr : { s.addr : s \in Q }, clk : Nat])
  BY <1>1 DEF Taken
<1> HIDE DEF Q, f, y, C, e
<1>6. Accounted(log) /\ f \notin Unaccounted
  <2>1. \A i \in DOMAIN log : i \in DOMAIN h /\ h[i] = log[i]
    BY <1>2, <1>5
  <2>2. Len(log) + 1 \in DOMAIN h /\ h[Len(log) + 1] = e
    BY <1>2, <1>5
  <2> QED BY <1>5, <2>1, <2>2 DEF Accounted
<1>7. CASE D.ranks = {}
  BY <1>7 DEF Metered
<1>8. CASE D.ranks # {}
  <2>1. PowersFirst(D.spec)
    BY <1>4, <1>8 DEF PowersAreTidy
  <2>2. Charging(D, Q, ready, log, bank, future, y, r, f, clk, C, power, B, P, F)
    BY <1>1, <1>2, <1>3, <1>4, <1>6, <2>1 DEF Charging
  <2> QED BY <2>2, IssueMeters
<1> QED BY <1>7, <1>8

\* So do the ends of refreshes that are due at a tick.
LEMMA TickCharges ==
  ASSUME NEW D, NEW L, load \in DOMAIN Loads, D = Compiled[load], L = Loads[load], clk \in Nat,
         Kept(D, L, bank, future, log, clk, power), Accounted(log), Metered(D, bank, future, power), Tick(D),
         NEW B, bank' = B, NEW F, future' = F, NEW P, power' = P
  PROVE  Metered(D, B, F, P)
<1> DEFINE Q == L.requests
           C == DOMAIN D.spec.charged
<1>1. TablesAreTidy(D) /\ StatesAreTidy(D, Q) /\ PowersAreTidy(D, Q) /\ CyclesAreTidy(D, Q)
  BY TheDeviceIsKept, TheDeviceIsUsed, CyclesAssumption
<1>2. StatesRight(D, Q, bank, future, log, clk) /\ power \in [D.ranks -> Stats(C)] /\ C = DOMAIN D.spec.charged
  BY DEF Kept
<1> HIDE DEF Q, C
<1>3. Onward(D, Q, C, log, bank, future, power, bank', future', power')
  BY <1>1, <1>2, TickStates
<1> QED BY <1>1, <1>2, <1>3 DEF Onward

\* finalize charges a rank that is idle or active for the cycles of that state.
LEMMA FinalizeCharges ==
  ASSUME NEW D, NEW L, load \in DOMAIN Loads, D = Compiled[load], L = Loads[load], clk \in Nat,
         Kept(D, L, bank, future, log, clk, power), Metered(D, bank, future, power), Finalize(D),
         NEW E, energy' = E, NEW P, power' = P
  PROVE  Accounts(D, E, P, clk)
<1> DEFINE C == DOMAIN D.spec.charged
           bankgroups(x) == Cardinality({ q[3] : q \in { q \in D.banks : Below(q, x) } })
           closed == [x \in D.ranks |-> finalize_rank(power[x], clk)]
<1>1. /\ power \in [D.ranks -> Stats(C)] /\ P = closed
      /\ E = [x \in D.ranks |-> process_rank_energy(closed[x], D.vals, D.spec.charged, bankgroups(x))]
  <2>1. power \in [D.ranks -> Stats(C)]
    BY DEF Kept
  <2>2. P = closed
    BY DEF Finalize
  <2>3. E = [x \in D.ranks |-> process_rank_energy(closed[x], D.vals, D.spec.charged, bankgroups(x))]
    BY DEF Finalize
  <2> QED BY <2>1, <2>2, <2>3
<1>2. CyclesAreTidy(D, L.requests)
  BY CyclesAssumption
<1> SUFFICES ASSUME NEW x \in D.ranks, P[x].state # "REFRESHING"
             PROVE  E[x].act_background + E[x].pre_background + E[x].cmd.REF - P[x].cmd_counters.REF = clk
  BY DEF Accounts
<1>3. "REF" \in C /\ Worth(D) \in Int
  BY <1>2 DEF CyclesAreTidy, Worth
<1>4. PICK s, z, e : s = power[x] /\ z = P[x] /\ e = E[x]
  OBVIOUS
<1> DEFINE w == Worth(D)  n == Counted(z, "REF")
<1>5. s \in Stats(C) /\ z = finalize_rank(s, clk) /\ e = process_rank_energy(z, D.vals, D.spec.charged, bankgroups(x))
  <2> HIDE DEF C, bankgroups
  <2>1. closed[x] = finalize_rank(s, clk) /\ closed[x] = z
    BY <1>1, <1>4
  <2> HIDE DEF closed
  <2> QED BY <1>1, <1>4, <2>1
<1> HIDE DEF C, bankgroups, closed
<1>6. /\ e.act_background = z.active_cycles /\ e.pre_background = z.idle_cycles /\ e.cmd.REF = n * w * 1
      /\ z.cmd_counters.REF = n
  <2> DEFINE cmds == [c \in C |-> z.cmd_counters[c] * D.vals[D.spec.charged[c]]
                                   * (IF c \in {"RFM", "RRFM"} THEN bankgroups(x) ELSE 1)]
  <2>1. e = [act_background |-> z.active_cycles, pre_background |-> z.idle_cycles, cmd |-> cmds]
    BY <1>5 DEF process_rank_energy, C
  <2>2. cmds["REF"] = n * w * 1
    BY <1>3 DEF Counted, Worth
  <2> HIDE DEF cmds
  <2>3. e.act_background = z.active_cycles /\ e.pre_background = z.idle_cycles /\ e.cmd = cmds
    BY <2>1
  <2> QED BY <2>2, <2>3 DEF Counted
<1>7. Counted(s, "REF") = n /\ n \in Int
  <2>1. Counted(s, "REF") \in Int
    BY <1>3, <1>5, CountingCounts
  <2>2. Counted(z, "REF") = Counted(s, "REF")
    BY <1>5, WakingCounts
  <2> QED BY <2>1, <2>2
<1> DEFINE a == s.active_cycles  i == s.idle_cycles  b == s.idle_start_cycle  d == s.active_start_cycle
<1>8. a \in Int /\ i \in Int /\ b \in Int /\ d \in Int /\ s.state \in {"IDLE", "ACTIVE", "REFRESHING"} /\ w \in Int
  BY <1>3, <1>5 DEF Stats
<1>9. /\ s.state = "IDLE" => a + i + (n * w - n) = b
      /\ s.state = "ACTIVE" => a + i + (n * w - n) = d
  <2>1. Clocked(D, s)
    BY <1>4 DEF Metered, AtRank
  <2> QED BY <1>7, <2>1 DEF Clocked, Charged
<1> DEFINE idled == i + clk - b
           worked == a + clk - d
<1>10. /\ s.state = "IDLE" => z = [s EXCEPT !.idle_cycles = idled]
       /\ s.state = "ACTIVE" => z = [s EXCEPT !.active_cycles = worked]
       /\ s.state = "REFRESHING" => z = s
  BY <1>5 DEF finalize_rank
<1> HIDE DEF idled, worked
<1>11. /\ s.state = "IDLE" => z.active_cycles = a /\ z.idle_cycles = idled
       /\ s.state = "ACTIVE" => z.active_cycles = worked /\ z.idle_cycles = i
       /\ z.state = s.state
  BY <1>5, <1>8, <1>10 DEF Stats
<1>12. n * w \in Int /\ n * w * 1 = n * w
  BY <1>7, <1>8
<1> DEFINE m == n * w
<1> HIDE DEF a, i, b, d, n, w, m
<1>13. m \in Int /\ e.cmd.REF = m
  BY <1>6, <1>12 DEF m
<1>14. CASE s.state = "IDLE"
  <2>1. a + idled + m - n = clk
    <3>1. a + i + (m - n) = b
      BY <1>9, <1>14 DEF m
    <3> QED BY <1>7, <1>8, <1>13, <3>1 DEF idled
  <2> QED BY <1>4, <1>6, <1>11, <1>13, <1>14, <2>1
<1>15. CASE s.state = "ACTIVE"
  <2>1. worked + i + m - n = clk
    <3>1. a + i + (m - n) = d
      BY <1>9, <1>15 DEF m
    <3> QED BY <1>7, <1>8, <1>13, <3>1 DEF worked
  <2> QED BY <1>4, <1>6, <1>11, <1>13, <1>15, <2>1
<1> QED BY <1>4, <1>8, <1>11, <1>14, <1>15

\* No step of the device breaks the invariant of the cycles.
LEMMA StepCycles == CyclesInv /\ [Next]_vars => CyclesInv'
<1> SUFFICES ASSUME CyclesInv, [Next]_vars PROVE CyclesInv'
  OBVIOUS
<1>1. UsageInv'
  BY StepUsage DEF CyclesInv
<1>2. UNCHANGED load
  BY DEF Next, Issue, Tick, Finalize, Done, vars
<1>3. ASSUME NEW D, D = TheDevice, D = TheDevice',
             load # 0 /\ phase' = "ready" /\ Accounted(log') => Metered(D, bank', future', power'),
             phase' = "finalized" /\ Accounted(log') => Accounts(D, energy', power', clk')
      PROVE  CyclesInv'
  BY <1>1, <1>2, <1>3 DEF CyclesInv
<1>4. CASE UNCHANGED vars
  <2>1. PICK D : D = TheDevice
    OBVIOUS
  <2>2. D = TheDevice'
    BY <1>2, <2>1 DEF TheDevice
  <2>3. load # 0 /\ phase = "ready" /\ Accounted(log) => Metered(D, bank, future, power)
    BY <2>1 DEF CyclesInv
  <2>4. phase = "finalized" /\ Accounted(log) => Accounts(D, energy, power, clk)
    BY <2>1 DEF CyclesInv
  <2>5. UNCHANGED <<phase, log, bank, future, power, energy, clk>>
    BY <1>4 DEF vars, deviceVars
  <2> QED BY <1>3, <2>1, <2>2, <2>3, <2>4, <2>5
<1>5. ASSUME load # 0, NEW D, D = TheDevice, ~Exits(D),
             (\E r \in Pending(D) : Issue(D, r)) \/ Tick(D) \/ Finalize(D)
      PROVE  CyclesInv'
  <2>1. load \in DOMAIN Loads /\ clk \in Nat /\ D = Compiled[load] /\ TimedInv
    BY <1>5 DEF CyclesInv, UsageInv, StatesInv, TimedInv, DeviceInv, TheDevice
  <2>2. PICK L : L = Loads[load]
    OBVIOUS
  <2>3. D = TheDevice' /\ phase = "ready"
    BY <1>2, <1>5, <2>1 DEF TheDevice, Issue, Tick, Finalize
  <2>4. Kept(D, L, bank, future, log, clk, power) /\ (Accounted(log) => Metered(D, bank, future, power))
    BY <1>5, <2>2, <2>3 DEF CyclesInv, UsageInv, StatesInv
  <2>5. PICK B, F, h, P, E : bank' = B /\ future' = F /\ log' = h /\ power' = P /\ energy' = E
    OBVIOUS
  <2>6. ASSUME NEW r \in Pending(D), Issue(D, r) PROVE CyclesInv'
    <3>1. NextCommand(D, r) \in D.commands
      BY <1>5 DEF Exits
    <3>2. Accounted(h) => Metered(D, B, F, P)
      BY <2>1, <2>2, <2>4, <2>5, <2>6, <3>1, IssueCharges
    <3>3. phase' = "ready"
      BY <2>3, <2>6 DEF Issue
    <3> QED BY <1>3, <1>5, <2>3, <2>5, <3>2, <3>3
  <2>7. CASE Tick(D)
    <3>1. Accounted(log) => Metered(D, B, F, P)
      BY <2>1, <2>2, <2>4, <2>5, <2>7, TickCharges
    <3>2. phase' = "ready" /\ log' = log
      BY <2>3, <2>7 DEF Tick
    <3> QED BY <1>3, <1>5, <2>3, <2>5, <3>1, <3>2
  <2>8. CASE Finalize(D)
    <3>1. Accounted(log) => Accounts(D, E, P, clk)
      BY <2>1, <2>2, <2>4, <2>5, <2>8, FinalizeCharges
    <3>2. phase' = "finalized" /\ log' = log /\ clk' = clk
      BY <2>8 DEF Finalize
    <3> QED BY <1>3, <1>5, <2>3, <2>5, <3>1, <3>2
  <2> QED BY <1>5, <2>6, <2>7, <2>8
<1> QED BY <1>4, <1>5 DEF Next, Done

\* The invariant: in a run without the same-bank commands of the DDR5, a rank that is idle or active has been
\* charged for every cycle until its state began, and one that is refreshing for those until its end.
THEOREM CyclesInvariant == Spec => []CyclesInv
BY InitCycles, StepCycles, PTL DEF Spec

\* For every device that tells its power model of what opens, closes and refreshes its banks: at the end of every
\* run of it, the background energies and the refreshes of a rank account for each cycle of the run once.
THEOREM CyclesAreAccounted == Spec => []CyclesAccounted
<1>1. CyclesInv => CyclesAccounted
  BY DEF CyclesInv, CyclesAccounted, Accounts, Accounted
<1> QED BY <1>1, CyclesInvariant, PTL

-----------------------------------------------------------------------------
(***************************************************************************)
(* Where prerequisites lead.                                                *)
(***************************************************************************)
\* What the handler of a command answers, from the banks it looks at.
LEMMA AnswerOf ==
  ASSUME NEW D, TablesAreTidy(D), HandlersBuilt(D), NEW c \in D.commands, NEW b, NEW y, NEW addr, NEW now,
         NEW x, x = get_preq_command(D, b, y, c, addr, now),
         NEW h, h = Asker(D, c), NEW banks, banks = Asked(D, c, addr), NEW q, q = NodeAt(addr, D.bankLevel)
  PROVE  /\ h \in PreqHandlers \cup {"none"}
         /\ h \in {"none", "RequireRankClosed"} => x = c
         /\ h \in {"RequireRowOpen", "RequireBankClosed", "RequireSynced"} => banks = {q}
         /\ h = "RequireRowOpen" => x = RequireRowOpen(b[q], c, RowOf(D, addr))
         /\ h = "RequireBankClosed" => x = RequireBankClosed(b[q], c)
         /\ h = "RequireAllBanksClosed" => x = RequireAllBanksClosed(b, banks, c)
         /\ h = "RequireSameBanksClosed" => x = RequireSameBanksClosed(b, banks, c)
         /\ h = "ChannelRequireAllBanksClosed" => x = ChannelRequireAllBanksClosed(b, banks, c)
         /\ h = "RequireSynced" => x = RequireSynced(b[q], y, c, now)
<1> DEFINE A == D.asking[c]
           l == Min(A)
           handler == D.spec.preqs[<<D.spec.levels[l], c>>]
<1>1. CASE A = {}
  <2>1. x = c /\ h = "none"
    BY <1>1 DEF get_preq_command, Asker
  <2> QED BY <2>1
<1>2. CASE A # {}
  <2>1. A = { k \in 1..D.bankLevel : <<D.spec.levels[k], c>> \in DOMAIN D.spec.preqs }
    BY DEF HandlersBuilt
  <2>2. A \subseteq Nat
    BY <2>1
  <2>3. l \in A
    <3> HIDE DEF A
    <3> QED BY <1>2, <2>2, MinIs
  <2>4. handler \in PreqHandlers /\ h = handler
    <3>1. h = handler
      BY <1>2 DEF Asker
    <3> HIDE DEF l, A
    <3>2. <<D.spec.levels[l], c>> \in DOMAIN D.spec.preqs
      BY <2>1, <2>3
    <3> QED BY <3>1, <3>2 DEF TablesAreTidy
  <2> DEFINE below == { p \in D.banks : Below(p, NodeAt(addr, l)) }
             same == { p \in below : p[D.bankLevel] = addr[D.bankLevel] }
  <2>5. x = CASE handler = "RequireRowOpen"         -> RequireRowOpen(b[q], c, RowOf(D, addr))
              [] handler = "RequireBankClosed"      -> RequireBankClosed(b[q], c)
              [] handler = "RequireAllBanksClosed"  -> RequireAllBanksClosed(b, below, c)
              [] handler = "RequireSameBanksClosed" -> RequireSameBanksClosed(b, same, c)
              [] handler = "ChannelRequireAllBanksClosed" -> ChannelRequireAllBanksClosed(b, below, c)
              [] handler = "RequireSynced"          -> RequireSynced(b[q], y, c, now)
              [] handler = "RequireRankClosed"      -> c
    BY <1>2 DEF get_preq_command
  <2>6. /\ handler \in {"RequireAllBanksClosed", "ChannelRequireAllBanksClosed"} => banks = below
        /\ handler = "RequireSameBanksClosed" => banks = same
        /\ handler \in {"RequireRowOpen", "RequireBankClosed", "RequireSynced", "RequireRankClosed"} => banks = {q}
    BY <2>4 DEF Asked
  <2> HIDE DEF handler, below, same, A, l
  <2>7. /\ h \in PreqHandlers /\ (h = "RequireRankClosed" => x = c) /\ h # "none"
        /\ h \in {"RequireRowOpen", "RequireBankClosed", "RequireSynced"} => banks = {q}
    BY <2>4, <2>5, <2>6 DEF PreqHandlers
  <2>8. /\ h = "RequireRowOpen" => x = RequireRowOpen(b[q], c, RowOf(D, addr))
        /\ h = "RequireBankClosed" => x = RequireBankClosed(b[q], c)
    BY <2>4, <2>5
  <2>9. h = "RequireAllBanksClosed" => x = RequireAllBanksClosed(b, banks, c)
    BY <2>4, <2>5, <2>6
  <2>10. h = "RequireSameBanksClosed" => x = RequireSameBanksClosed(b, banks, c)
    BY <2>4, <2>5, <2>6
  <2>11. h = "ChannelRequireAllBanksClosed" => x = ChannelRequireAllBanksClosed(b, banks, c)
    BY <2>4, <2>5, <2>6
  <2>12. h = "RequireSynced" => x = RequireSynced(b[q], y, c, now)
    BY <2>4, <2>5
  <2> QED BY <2>7, <2>8, <2>9, <2>10, <2>11, <2>12
<1> QED BY <1>1, <1>2

\* A request has come to its command.
Settled(D, s, r) == get_preq_command(D, s.bank, s.synced, FinalCommand(D, r), r.addr, clk) = FinalCommand(D, r)
\* Then nothing more is asked for.
LEMMA SettledStays ==
  ASSUME NEW D, NEW s, NEW r, Settled(D, s, r)
  PROVE  Advance(D, s, r) = s
BY DEF Settled, Advance

\* Until then a prerequisite x is taken, and does to the banks what it is asked for.
Carried(D, s, t, r, x) ==
  /\ t.bank = update_states(D, s.bank, x, r.addr) /\ t.synced = SyncedAfter(s.synced, LPDDR5_sync, x, clk)
  /\ \A banks, actions : Does(D, x, r, banks, actions) =>
       \A q \in banks : \E a \in actions : t.bank[q] = BankEffect(a, s.bank[q], RowOf(D, r.addr))
  /\ \A q \in D.banks : q \notin Touched(D, x, r.addr) => t.bank[q] = s.bank[q]
\* A step on the way carries out the prerequisite.
LEMMA AdvanceDoes ==
  ASSUME NEW D, NEW s, NEW r, ~Settled(D, s, r), NEW t, t = Advance(D, s, r),
         NEW x, x = get_preq_command(D, s.bank, s.synced, FinalCommand(D, r), r.addr, clk)
  PROVE  Carried(D, s, t, r, x)
<1>1. t = [bank |-> update_states(D, s.bank, x, r.addr), synced |-> SyncedAfter(s.synced, LPDDR5_sync, x, clk)]
  BY DEF Advance, Settled
<1> DEFINE u == update_states(D, s.bank, x, r.addr)
<1>2. t.bank = u /\ t.synced = SyncedAfter(s.synced, LPDDR5_sync, x, clk)
  BY <1>1
<1>3. \A q \in D.banks : u[q] = IF q \in Touched(D, x, r.addr)
                                THEN BankEffect(ActionAt(D, x, r.addr, q), s.bank[q], RowOf(D, r.addr)) ELSE s.bank[q]
  BY DEF update_states, Touched
<1>4. Touched(D, x, r.addr) \subseteq D.banks
  BY DEF Touched
<1> HIDE DEF u
<1>5. ASSUME NEW banks, NEW actions, Does(D, x, r, banks, actions), NEW q \in banks
      PROVE  \E a \in actions : t.bank[q] = BankEffect(a, s.bank[q], RowOf(D, r.addr))
  <2>1. q \in Touched(D, x, r.addr) /\ ActionAt(D, x, r.addr, q) \in actions
    BY <1>5 DEF Does
  <2> QED BY <1>2, <1>3, <1>4, <2>1
<1> QED BY <1>2, <1>3, <1>5 DEF u, Carried

\* A precharge closes the banks that the handler looks at.
LEMMA PrechargeCloses ==
  ASSUME NEW D, NEW s, NEW r, Leading(D, r), ~Settled(D, s, r),
         NEW x, x = get_preq_command(D, s.bank, s.synced, FinalCommand(D, r), r.addr, clk),
         x \in Answers[Asker(D, FinalCommand(D, r))], x \in Precharges,
         NEW q \in Asked(D, FinalCommand(D, r), r.addr)
  PROVE  Advance(D, s, r).bank[q] = [state |-> "Closed", rows |-> {}]
<1>1. Does(D, x, r, Asked(D, FinalCommand(D, r), r.addr), Closing)
  BY DEF Leading
<1>2. PICK t : t = Advance(D, s, r)
  OBVIOUS
<1>3. Carried(D, s, t, r, x)
  BY <1>2, AdvanceDoes
<1>4. PICK a \in Closing : t.bank[q] = BankEffect(a, s.bank[q], RowOf(D, r.addr))
  BY <1>1, <1>3 DEF Carried
<1> QED BY <1>2, <1>4 DEF Closing, BankEffect

\* A request whose banks are to be closed is one step away from its command.
LEMMA ClosedLeads ==
  ASSUME NEW D, TablesAreTidy(D), HandlersBuilt(D), NEW r, FinalCommand(D, r) \in D.commands, Leading(D, r), NEW s,
         Asker(D, FinalCommand(D, r)) \notin {"RequireRowOpen", "RequireSynced"},
         Asker(D, FinalCommand(D, r)) = "RequireBankClosed" =>
           s.bank[NodeAt(r.addr, D.bankLevel)].state \in {"Closed", "Opened", "Refreshing"}
  PROVE  Settled(D, Advance(D, s, r), r)
<1> DEFINE c == FinalCommand(D, r)
           A == Asked(D, c, r.addr)
           q == NodeAt(r.addr, D.bankLevel)
           h == Asker(D, c)
<1>1. CASE Settled(D, s, r)
  <2>1. Advance(D, s, r) = s
    BY <1>1, SettledStays
  <2> QED BY <1>1, <2>1
<1>2. CASE ~Settled(D, s, r)
  <2>1. PICK t, x, z : /\ t = Advance(D, s, r) /\ x = get_preq_command(D, s.bank, s.synced, c, r.addr, clk)
                       /\ z = get_preq_command(D, t.bank, t.synced, c, r.addr, clk)
    OBVIOUS
  <2>2. x # c
    BY <1>2, <2>1 DEF Settled
  <2>3. h \in ClosedAskers /\ x \in Answers[h] /\ x \in Precharges
    <3> HIDE DEF c, A, q, h
    <3>1. c \in D.commands /\ h = Asker(D, c) /\ A = Asked(D, c, r.addr) /\ q = NodeAt(r.addr, D.bankLevel)
      BY DEF c, h, A, q
    <3>2. /\ h \in PreqHandlers \cup {"none"}
          /\ h \in {"none", "RequireRankClosed"} => x = c
          /\ h = "RequireBankClosed" => x = RequireBankClosed(s.bank[q], c)
          /\ h = "RequireAllBanksClosed" => x = RequireAllBanksClosed(s.bank, A, c)
          /\ h = "RequireSameBanksClosed" => x = RequireSameBanksClosed(s.bank, A, c)
          /\ h = "ChannelRequireAllBanksClosed" => x = ChannelRequireAllBanksClosed(s.bank, A, c)
      BY <2>1, <3>1, AnswerOf
    <3>3. h \in ClosedAskers
      BY <2>2, <3>2 DEF PreqHandlers, ClosedAskers, h, c
    <3>4. h = "RequireBankClosed" => x = "PRE"
      BY <2>2, <3>2 DEF RequireBankClosed, h, c, q
    <3>5. h \in {"RequireAllBanksClosed", "ChannelRequireAllBanksClosed"} => x = "PREA"
      BY <2>2, <3>2 DEF RequireAllBanksClosed, ChannelRequireAllBanksClosed
    <3>6. h = "RequireSameBanksClosed" => x = "PREsb"
      BY <2>2, <3>2 DEF RequireSameBanksClosed
    <3> QED BY <3>3, <3>4, <3>5, <3>6 DEF ClosedAskers, Answers, Precharges
  <2>4. \A p \in A : t.bank[p] = [state |-> "Closed", rows |-> {}]
    BY <1>2, <2>1, <2>3, PrechargeCloses
  <2>5. z = c
    <3> HIDE DEF c, A, q, h
    <3>1. c \in D.commands /\ h = Asker(D, c) /\ A = Asked(D, c, r.addr) /\ q = NodeAt(r.addr, D.bankLevel)
      BY DEF c, h, A, q
    <3>2. /\ h = "RequireBankClosed" => A = {q} /\ z = RequireBankClosed(t.bank[q], c)
          /\ h = "RequireAllBanksClosed" => z = RequireAllBanksClosed(t.bank, A, c)
          /\ h = "RequireSameBanksClosed" => z = RequireSameBanksClosed(t.bank, A, c)
          /\ h = "ChannelRequireAllBanksClosed" => z = ChannelRequireAllBanksClosed(t.bank, A, c)
      BY <2>1, <3>1, AnswerOf
    <3>3. \A p \in A : t.bank[p].state = "Closed"
      BY <2>4
    <3>4. h = "RequireBankClosed" => z = c
      BY <3>2, <3>3 DEF RequireBankClosed
    <3>5. h = "RequireAllBanksClosed" => z = c
      <4>1. { p \in A : t.bank[p].state # "Closed" } = {}
        BY <3>3
      <4> QED BY <3>2, <4>1 DEF RequireAllBanksClosed
    <3>6. h \in {"ChannelRequireAllBanksClosed", "RequireSameBanksClosed"} => z = c
      BY <3>2, <3>3 DEF ChannelRequireAllBanksClosed, RequireSameBanksClosed
    <3> QED BY <2>3, <3>4, <3>5, <3>6 DEF ClosedAskers
  <2> QED BY <2>1, <2>5 DEF Settled
<1> QED BY <1>1, <1>2

\* A bank has the row, or has none.
HasRow(b, row) == b.state = "Opened" /\ row \in b.rows
Shut(b) == b.state \in {"Closed", "Refreshing"}
\* One step opens the row of a bank that has none, or closes the bank.
LEMMA RowStep ==
  ASSUME NEW D, TablesAreTidy(D), HandlersBuilt(D), NEW r, FinalCommand(D, r) \in D.commands, Leading(D, r), NEW s,
         Asker(D, FinalCommand(D, r)) = "RequireRowOpen", NEW q, q = NodeAt(r.addr, D.bankLevel),
         NEW t, t = Advance(D, s, r)
  PROVE  /\ HasRow(s.bank[q], RowOf(D, r.addr)) => Settled(D, s, r)
         /\ Shut(s.bank[q]) => Settled(D, s, r) \/ HasRow(t.bank[q], RowOf(D, r.addr))
         /\ s.bank[q].state = "Opened" => Settled(D, s, r) \/ Shut(t.bank[q])
<1> DEFINE c == FinalCommand(D, r)
           row == RowOf(D, r.addr)
<1>1. PICK x : x = get_preq_command(D, s.bank, s.synced, c, r.addr, clk)
  OBVIOUS
<1>2. x = RequireRowOpen(s.bank[q], c, row) /\ Asked(D, c, r.addr) = {q}
  BY <1>1, AnswerOf
<1>3. Settled(D, s, r) <=> x = c
  BY <1>1 DEF Settled
<1> HIDE DEF row
<1>4. HasRow(s.bank[q], row) => x = c
  BY <1>2 DEF HasRow, RequireRowOpen
<1>5. ASSUME x # c, Shut(s.bank[q]) PROVE HasRow(t.bank[q], row)
  <2>1. x = "ACT"
    BY <1>2, <1>5 DEF Shut, RequireRowOpen
  <2>2. Does(D, "ACT", r, {q}, {"ACT"})
    BY <1>2 DEF Leading
  <2>3. ~Settled(D, s, r)
    BY <1>3, <1>5
  <2>4. Carried(D, s, t, r, x)
    BY <1>1, <2>3, AdvanceDoes
  <2>5. t.bank[q] = BankEffect("ACT", s.bank[q], row)
    BY <2>1, <2>2, <2>4 DEF row, Carried
  <2>6. t.bank[q] = [state |-> "Opened", rows |-> s.bank[q].rows \cup {row}]
    BY <2>5 DEF BankEffect
  <2> QED BY <2>6 DEF HasRow
<1>6. ASSUME x # c, s.bank[q].state = "Opened" PROVE Shut(t.bank[q])
  <2>1. x = "PRE"
    BY <1>2, <1>6 DEF RequireRowOpen
  <2>2. x \in Answers[Asker(D, c)] /\ x \in Precharges
    BY <2>1 DEF Answers, Precharges
  <2>3. ~Settled(D, s, r) /\ q \in Asked(D, FinalCommand(D, r), r.addr)
    BY <1>2, <1>3, <1>6
  <2>4. Advance(D, s, r).bank[q] = [state |-> "Closed", rows |-> {}]
    BY <1>1, <2>2, <2>3, PrechargeCloses
  <2> QED BY <2>4 DEF Shut
<1> QED BY <1>3, <1>4, <1>5, <1>6 DEF row

\* A request for a row is two steps away from its command.
LEMMA RowLeads ==
  ASSUME NEW D, TablesAreTidy(D), HandlersBuilt(D), NEW r, FinalCommand(D, r) \in D.commands, Leading(D, r), NEW s,
         Asker(D, FinalCommand(D, r)) = "RequireRowOpen",
         s.bank[NodeAt(r.addr, D.bankLevel)].state \in {"Closed", "Opened", "Refreshing"}
  PROVE  Settled(D, AdvanceTwice(D, s, r), r)
<1>1. PICK t, u, q : t = Advance(D, s, r) /\ u = Advance(D, t, r) /\ q = NodeAt(r.addr, D.bankLevel)
  OBVIOUS
<1>2. u = AdvanceTwice(D, s, r)
  BY <1>1 DEF AdvanceTwice
<1>3. /\ Shut(s.bank[q]) => Settled(D, s, r) \/ HasRow(t.bank[q], RowOf(D, r.addr))
      /\ s.bank[q].state = "Opened" => Settled(D, s, r) \/ Shut(t.bank[q])
  BY <1>1, RowStep
<1>4. /\ HasRow(t.bank[q], RowOf(D, r.addr)) => Settled(D, t, r)
      /\ Shut(t.bank[q]) => Settled(D, t, r) \/ HasRow(u.bank[q], RowOf(D, r.addr))
  BY <1>1, RowStep
<1>5. HasRow(u.bank[q], RowOf(D, r.addr)) => Settled(D, u, r)
  BY <1>1, RowStep
<1>6. Shut(s.bank[q]) \/ s.bank[q].state = "Opened"
  BY <1>1 DEF Shut
<1>7. Settled(D, s, r) => t = s
  BY <1>1, SettledStays
<1>8. Settled(D, t, r) => u = t
  BY <1>1, SettledStays
<1> QED BY <1>2, <1>3, <1>4, <1>5, <1>6, <1>7, <1>8

\* A bank of LPDDR5 has row 0, and its rank is synchronized.
Synced(s, q) == HasRow(s.bank[q], 0) /\ s.synced >= clk
\* One step closes the bank, makes the first or the second activation, or synchronizes.
LEMMA SyncStep ==
  ASSUME NEW D, TablesAreTidy(D), HandlersBuilt(D), NEW r, FinalCommand(D, r) \in D.commands, Leading(D, r), NEW s,
         Asker(D, FinalCommand(D, r)) = "RequireSynced", RowOf(D, r.addr) = 0,
         NEW q, q = NodeAt(r.addr, D.bankLevel), clk \in Nat, NEW t, t = Advance(D, s, r)
  PROVE  /\ Synced(s, q) => Settled(D, s, r)
         /\ HasRow(s.bank[q], 0) => Settled(D, s, r) \/ Synced(t, q)
         /\ s.bank[q].state = "Pre-Opened" => Settled(D, s, r) \/ HasRow(t.bank[q], 0)
         /\ s.bank[q].state = "Closed" => Settled(D, s, r) \/ t.bank[q].state = "Pre-Opened"
         /\ s.bank[q].state = "Opened" /\ 0 \notin s.bank[q].rows => Settled(D, s, r) \/ t.bank[q].state = "Closed"
<1> DEFINE c == FinalCommand(D, r)
<1>1. PICK x : x = get_preq_command(D, s.bank, s.synced, c, r.addr, clk)
  OBVIOUS
<1>2. x = RequireSynced(s.bank[q], s.synced, c, clk) /\ Asked(D, c, r.addr) = {q}
  BY <1>1, AnswerOf
<1>3. Settled(D, s, r) <=> x = c
  BY <1>1 DEF Settled
<1>4. x # c => Carried(D, s, t, r, x)
  BY <1>1, <1>3, AdvanceDoes
<1>5. /\ Does(D, "ACT-1", r, {q}, {"ACT-1"}) /\ Does(D, "ACT-2", r, {q}, {"ACT"})
      /\ \A m \in {"CASRD", "CASWR"} : Does(D, m, r, {q} \cap Touched(D, m, r.addr), {"synchronize"})
  BY <1>2 DEF Leading
<1>6. Synced(s, q) => x = c
  BY <1>2 DEF Synced, HasRow, RequireSynced
<1>7. ASSUME x # c, HasRow(s.bank[q], 0) PROVE Synced(t, q)
  <2>1. x \in {"CASRD", "CASWR"}
    BY <1>2, <1>7 DEF HasRow, RequireSynced
  <2>2. t.bank[q] = s.bank[q]
    <3>1. CASE q \in Touched(D, x, r.addr)
      <4>1. Does(D, x, r, {q} \cap Touched(D, x, r.addr), {"synchronize"})
        BY <1>5, <2>1
      <4>2. t.bank[q] = BankEffect("synchronize", s.bank[q], RowOf(D, r.addr))
        BY <1>4, <1>7, <3>1, <4>1 DEF Carried
      <4> QED BY <4>2 DEF BankEffect
    <3>2. CASE q \notin Touched(D, x, r.addr)
      <4>1. q \in D.banks
        BY <1>5 DEF Does, Touched
      <4> QED BY <1>4, <1>7, <3>2, <4>1 DEF Carried
    <3> QED BY <3>1, <3>2
  <2>3. t.synced >= clk
    <3>1. t.synced = SyncedAfter(s.synced, LPDDR5_sync, x, clk)
      BY <1>4, <1>7 DEF Carried
    <3>2. x \in DOMAIN LPDDR5_sync /\ LPDDR5_sync[x] \in {4, 12}
      BY <2>1 DEF LPDDR5_sync
    <3>3. t.synced = clk + LPDDR5_sync[x]
      BY <3>1, <3>2 DEF SyncedAfter
    <3> QED BY <3>2, <3>3
  <2> QED BY <1>7, <2>2, <2>3 DEF Synced
<1>8. ASSUME x # c, s.bank[q].state = "Pre-Opened" PROVE HasRow(t.bank[q], 0)
  <2>1. x = "ACT-2"
    BY <1>2, <1>8 DEF RequireSynced
  <2>2. t.bank[q] = BankEffect("ACT", s.bank[q], 0)
    BY <1>4, <1>5, <1>8, <2>1 DEF Carried
  <2>3. t.bank[q] = [state |-> "Opened", rows |-> s.bank[q].rows \cup {0}]
    BY <2>2 DEF BankEffect
  <2> QED BY <2>3 DEF HasRow
<1>9. ASSUME x # c, s.bank[q].state = "Closed" PROVE t.bank[q].state = "Pre-Opened"
  <2>1. x = "ACT-1"
    BY <1>2, <1>9 DEF RequireSynced
  <2>2. t.bank[q] = BankEffect("ACT-1", s.bank[q], 0)
    BY <1>4, <1>5, <1>9, <2>1 DEF Carried
  <2> QED BY <2>2 DEF BankEffect
<1>10. ASSUME x # c, s.bank[q].state = "Opened", 0 \notin s.bank[q].rows PROVE t.bank[q].state = "Closed"
  <2>1. x = "PRE"
    BY <1>2, <1>10 DEF RequireSynced
  <2>2. x \in Answers[Asker(D, FinalCommand(D, r))] /\ x \in Precharges
    BY <2>1 DEF Answers, Precharges
  <2>3. ~Settled(D, s, r) /\ q \in Asked(D, FinalCommand(D, r), r.addr)
    BY <1>2, <1>3, <1>10
  <2>4. Advance(D, s, r).bank[q] = [state |-> "Closed", rows |-> {}]
    BY <1>1, <2>2, <2>3, PrechargeCloses
  <2> QED BY <2>4
<1> QED BY <1>3, <1>6, <1>7, <1>8, <1>9, <1>10

\* A request of LPDDR5 for row 0 is four steps away from its command.
LEMMA SyncLeads ==
  ASSUME NEW D, TablesAreTidy(D), HandlersBuilt(D), NEW r, FinalCommand(D, r) \in D.commands, Leading(D, r), NEW s,
         Asker(D, FinalCommand(D, r)) = "RequireSynced", RowOf(D, r.addr) = 0, clk \in Nat,
         s.bank[NodeAt(r.addr, D.bankLevel)].state \in {"Closed", "Opened", "Pre-Opened"}
  PROVE  Settled(D, AdvanceTwice(D, AdvanceTwice(D, s, r), r), r)
<1>1. PICK t, u, v, w, q : /\ t = Advance(D, s, r) /\ u = Advance(D, t, r) /\ v = Advance(D, u, r) /\ w = Advance(D, v, r)
                           /\ q = NodeAt(r.addr, D.bankLevel)
  OBVIOUS
<1>2. w = AdvanceTwice(D, AdvanceTwice(D, s, r), r)
  BY <1>1 DEF AdvanceTwice
<1> DEFINE P1(x) == HasRow(x.bank[q], 0)
           P2(x) == x.bank[q].state = "Pre-Opened"
           P3(x) == x.bank[q].state = "Closed"
           P4(x) == x.bank[q].state = "Opened" /\ 0 \notin x.bank[q].rows
           Z(x)  == Settled(D, x, r)
<1>3. P1(s) \/ P2(s) \/ P3(s) \/ P4(s)
  BY <1>1 DEF HasRow
<1>4. ASSUME NEW x, NEW y, y = Advance(D, x, r)
      PROVE  /\ Synced(x, q) => Z(x)
             /\ P1(x) => Z(x) \/ Synced(y, q)
             /\ P2(x) => Z(x) \/ P1(y)
             /\ P3(x) => Z(x) \/ P2(y)
             /\ P4(x) => Z(x) \/ P3(y)
             /\ Z(x) => y = x
  <2>1. /\ Synced(x, q) => Settled(D, x, r)
        /\ HasRow(x.bank[q], 0) => Settled(D, x, r) \/ Synced(y, q)
        /\ x.bank[q].state = "Pre-Opened" => Settled(D, x, r) \/ HasRow(y.bank[q], 0)
        /\ x.bank[q].state = "Closed" => Settled(D, x, r) \/ y.bank[q].state = "Pre-Opened"
        /\ x.bank[q].state = "Opened" /\ 0 \notin x.bank[q].rows => Settled(D, x, r) \/ y.bank[q].state = "Closed"
    BY <1>1, <1>4, SyncStep
  <2>2. Settled(D, x, r) => y = x
    BY <1>4, SettledStays
  <2> QED BY <2>1, <2>2
<1> HIDE DEF P1, P2, P3, P4, Z
<1>5. Z(s) => t = s
  BY <1>1, <1>4
<1>6. Z(t) => u = t
  BY <1>1, <1>4
<1>7. Z(u) => v = u
  BY <1>1, <1>4
<1>8. Z(v) => w = v
  BY <1>1, <1>4
<1>9. Z(t) \/ P1(t) \/ P2(t) \/ P3(t) \/ Synced(t, q)
  BY <1>1, <1>3, <1>4, <1>5
<1>10. Z(u) \/ P1(u) \/ P2(u) \/ Synced(u, q)
  BY <1>1, <1>4, <1>6, <1>9
<1>11. Z(v) \/ P1(v) \/ Synced(v, q)
  BY <1>1, <1>4, <1>7, <1>10
<1>12. Z(w) \/ Synced(w, q)
  BY <1>1, <1>4, <1>8, <1>11
<1>13. Z(w)
  BY <1>4, <1>12
<1> QED BY <1>2, <1>13 DEF Z

\* The invariant: a bank is between two activations only in an LPDDR5.
Whole(D, L, B) == L.device # "LPDDR5" => \A q \in D.banks : B[q].state # "Pre-Opened"
LeadInv ==
  /\ StatesInv
  /\ load # 0 => config[1] = Loads[load].device /\ Whole(TheDevice, Loads[load], bank)

\* At first every bank is closed.
LEMMA InitLead == Init => LeadInv
<1> SUFFICES ASSUME Init, load # 0 PROVE config[1] = Loads[load].device /\ Whole(TheDevice, Loads[load], bank)
  BY InitStates DEF LeadInv
<1>1. PICK i \in DOMAIN Loads :
        /\ load = i /\ bank = [q \in Compiled[i].banks |-> [state |-> "Closed", rows |-> {}]]
        /\ config = <<Loads[i].device, Loads[i].org, Loads[i].speed>>
  BY DEF Init, InitLoad, InitPreset
<1>2. config[1] = Loads[load].device
  BY <1>1
<1>3. \A q \in TheDevice.banks : bank[q].state = "Closed"
  BY <1>1 DEF TheDevice
<1> QED BY <1>2, <1>3 DEF Whole

\* No command leaves a bank between two activations, unless it is LPDDR5's.
LEMMA IssueWhole ==
  ASSUME NEW D, NEW L, load \in DOMAIN Loads, D = Compiled[load], L = Loads[load], TimedInv,
         Kept(D, L, bank, future, log, clk, power), Whole(D, L, bank),
         NEW r \in Pending(D), NextCommand(D, r) \in D.commands, Issue(D, r), NEW B, bank' = B
  PROVE  Whole(D, L, B)
<1> DEFINE Q == L.requests
           f == NextCommand(D, r)
           y == SyncedOf(r.addr)
<1>1. Taken(D, Q, ready, log, bank, future, y, r, f, clk)
  BY IssueTakes
<1>2. B = update_states(D, bank, f, r.addr)
  BY DEF Issue
<1>3. StatesAreTidy(D, Q) /\ r \in Q
  BY <1>1 DEF Taken
<1>4. LeadsAreTidy(D, L)
  BY PrerequisitesAssumption
<1> SUFFICES ASSUME L.device # "LPDDR5", NEW q \in D.banks PROVE B[q].state # "Pre-Opened"
  BY DEF Whole
<1>5. bank[q].state # "Pre-Opened"
  BY DEF Whole
<1> HIDE DEF f, y
<1>6. CASE q \in Touched(D, f, r.addr)
  <2> DEFINE a == ActionAt(D, f, r.addr, q)
  <2>1. f \in Leads(D, r)
    BY <1>1, <1>6, BankIsFree
  <2>2. a \in RefreshActions \cup OtherActions
    BY <1>3, <1>6, <2>1 DEF StatesAreTidy
  <2>3. a # "ACT-1"
    BY <1>3, <1>4, <1>6, <2>1 DEF LeadsAreTidy
  <2>4. B[q] = BankEffect(a, bank[q], RowOf(D, r.addr))
    BY <1>2, <1>6 DEF update_states, Touched
  <2>5. bank[q] \in Bank(D, Q)
    BY <1>1 DEF Taken, StatesRight
  <2> HIDE DEF a
  <2>6. a = "synchronize" => B[q] = bank[q]
    BY <2>4 DEF BankEffect
  <2>7. a \in RefreshActions => B[q] = [bank[q] EXCEPT !.state = "Refreshing"]
    BY <2>4 DEF BankEffect, RefreshActions
  <2>8. a \in {"ACT", "PRE", "PREsb", "PREab"} => B[q].state \in {"Opened", "Closed"}
    BY <2>4 DEF BankEffect
  <2>9. a \in RefreshActions => B[q].state = "Refreshing"
    BY <2>5, <2>7 DEF Bank
  <2> QED BY <1>5, <2>2, <2>3, <2>6, <2>8, <2>9 DEF OtherActions
<1>7. CASE q \notin Touched(D, f, r.addr)
  <2>1. B[q] = bank[q]
    BY <1>2, <1>7 DEF update_states, Touched
  <2> QED BY <1>5, <2>1
<1> QED BY <1>6, <1>7

\* Nor does the end of a refresh.
LEMMA TickWhole ==
  ASSUME NEW D, NEW L, load \in DOMAIN Loads, D = Compiled[load], L = Loads[load], clk \in Nat,
         Kept(D, L, bank, future, log, clk, power), Whole(D, L, bank), Tick(D), NEW B, bank' = B
  PROVE  Whole(D, L, B)
<1> DEFINE Q == L.requests
           C == DOMAIN D.spec.charged
<1>1. TablesAreTidy(D) /\ StatesAreTidy(D, Q)
  BY TheDeviceIsKept
<1>2. StatesRight(D, Q, bank, future, log, clk) /\ power \in [D.ranks -> Stats(C)]
  BY DEF Kept
<1> HIDE DEF Q, C
<1>3. Alike(D, Q, C, bank, power, bank', power')
  BY <1>1, <1>2, TickStates
<1> QED BY <1>3 DEF Alike, OpenStates, Whole

\* Every step keeps the invariant.
LEMMA StepLead == LeadInv /\ [Next]_vars => LeadInv'
<1> SUFFICES ASSUME LeadInv, [Next]_vars PROVE LeadInv'
  OBVIOUS
<1>1. StatesInv'
  BY StepStates DEF LeadInv
<1>2. UNCHANGED <<load, config>>
  BY DEF Next, Issue, Tick, Finalize, Done, vars
<1>3. ASSUME load # 0 => Whole(TheDevice, Loads[load], bank') PROVE LeadInv'
  <2>1. TheDevice' = TheDevice
    BY <1>2 DEF TheDevice
  <2>2. load # 0 => config[1] = Loads[load].device
    BY DEF LeadInv
  <2> QED BY <1>1, <1>2, <1>3, <2>1, <2>2 DEF LeadInv
<1>4. CASE UNCHANGED bank
  <2>1. load # 0 => Whole(TheDevice, Loads[load], bank)
    BY DEF LeadInv
  <2>2. bank' = bank
    BY <1>4
  <2> QED BY <1>3, <2>1, <2>2
<1>5. ASSUME load # 0, NEW D, D = TheDevice, ~Exits(D),
             (\E r \in Pending(D) : Issue(D, r)) \/ Tick(D) \/ Finalize(D)
      PROVE  LeadInv'
  <2>1. load \in DOMAIN Loads /\ clk \in Nat /\ D = Compiled[load] /\ TimedInv
    BY <1>5 DEF LeadInv, StatesInv, TimedInv, DeviceInv, TheDevice
  <2>2. PICK L : L = Loads[load]
    OBVIOUS
  <2>3. Kept(D, L, bank, future, log, clk, power) /\ Whole(D, L, bank)
    BY <1>5, <2>2 DEF LeadInv, StatesInv
  <2>4. PICK B : B = bank'
    OBVIOUS
  <2>5. ASSUME NEW r \in Pending(D), Issue(D, r) PROVE Whole(D, L, B)
    <3>1. NextCommand(D, r) \in D.commands
      BY <1>5 DEF Exits
    <3> QED BY <2>1, <2>2, <2>3, <2>4, <2>5, <3>1, IssueWhole
  <2>6. Tick(D) => Whole(D, L, B)
    BY <2>1, <2>2, <2>3, <2>4, TickWhole
  <2>7. Finalize(D) => Whole(D, L, B)
    BY <2>3, <2>4 DEF Finalize
  <2>8. Whole(TheDevice, Loads[load], bank')
    BY <1>5, <2>2, <2>4, <2>5, <2>6, <2>7
  <2> QED BY <1>3, <2>8
<1>6. CASE Done \/ UNCHANGED vars
  BY <1>4, <1>6 DEF Done, vars, deviceVars
<1> QED BY <1>5, <1>6 DEF Next

\* The invariant: beyond StatesInv, what states the banks of a device can be in.
THEOREM LeadInvariant == Spec => []LeadInv
BY InitLead, StepLead, PTL DEF Spec

\* What is known of the bank addressed where some handlers look: it is the device's, and in a state they know.
LEMMA KnownState ==
  ASSUME NEW D, NEW L, NEW r \in L.requests, TablesAreTidy(D), HandlersBuilt(D), FinalCommand(D, r) \in D.commands,
         LeadsAreTidy(D, L), NEW now, NEW h, StatesRight(D, L.requests, bank, future, h, now), Whole(D, L, bank),
         NEW q, q = NodeAt(r.addr, D.bankLevel), NEW a, a = Asker(D, FinalCommand(D, r))
  PROVE  /\ a \in {"RequireRowOpen", "RequireBankClosed"} => bank[q].state \in {"Closed", "Opened", "Refreshing"}
         /\ a = "RequireSynced" => bank[q].state \in {"Closed", "Opened", "Pre-Opened"}
<1>1. PICK A, x : /\ A = Asked(D, FinalCommand(D, r), r.addr)
                  /\ x = get_preq_command(D, bank, SyncedOf(r.addr), FinalCommand(D, r), r.addr, clk)
  OBVIOUS
<1>2. Leading(D, r)
  BY DEF LeadsAreTidy
<1>3. a \in {"RequireRowOpen", "RequireBankClosed", "RequireSynced"} => A = {q}
  BY <1>1, AnswerOf
<1>4. ASSUME a \in {"RequireRowOpen", "RequireBankClosed", "RequireSynced"} PROVE q \in D.banks
  <2>1. CASE a = "RequireRowOpen"
    <3>1. Does(D, "ACT", r, {q}, {"ACT"})
      BY <1>1, <1>2, <1>3, <2>1 DEF Leading
    <3> QED BY <3>1 DEF Does, Touched
  <2>2. CASE a = "RequireBankClosed"
    <3>1. "PRE" \in Answers[a] \cap Precharges
      BY <2>2 DEF Answers, Precharges
    <3>2. Does(D, "PRE", r, {q}, Closing)
      BY <1>1, <1>2, <1>3, <2>2, <3>1 DEF Leading
    <3> QED BY <3>2 DEF Does, Touched
  <2>3. CASE a = "RequireSynced"
    <3>1. Does(D, "ACT-1", r, {q}, {"ACT-1"})
      BY <1>1, <1>2, <1>3, <2>3 DEF Leading
    <3> QED BY <3>1 DEF Does, Touched
  <2> QED BY <1>4, <2>1, <2>2, <2>3
<1>5. q \in D.banks => bank[q].state \in BankStates
  BY DEF StatesRight, Bank
<1>6. ASSUME a \in {"RequireRowOpen", "RequireBankClosed"} PROVE bank[q].state # "Pre-Opened"
  <2>1. L.device # "LPDDR5"
    BY <1>6 DEF LeadsAreTidy
  <2> QED BY <1>4, <1>6, <2>1 DEF Whole
<1>7. ASSUME a = "RequireSynced" PROVE bank[q].state # "Refreshing"
  <2>1. Refreshes(D) = {}
    BY <1>7 DEF LeadsAreTidy
  <2>2. DOMAIN future = {}
    BY <2>1 DEF StatesRight, Goes
  <2>3. BankRight(D, bank[q], future, q)
    BY <1>4, <1>7 DEF StatesRight
  <2> QED BY <2>2, <2>3 DEF BankRight, Enders
<1> QED BY <1>4, <1>5, <1>6, <1>7 DEF BankStates

\* A row hit is what RequireRowOpen has nothing to ask for, and RequireSynced at most a synchronization.
LEMMA HitNeedsNothing ==
  ASSUME NEW D, NEW r, TablesAreTidy(D), HandlersBuilt(D), FinalCommand(D, r) \in D.commands, Served(D, r),
         FinalCommand(D, r) \in D.spec.rowhits, NEW a, a = Asker(D, FinalCommand(D, r)),
         a \in {"RequireSynced", "RequireRowOpen"}, FinalCommand(D, r) \notin Answers[a],
         bank[NodeAt(r.addr, D.bankLevel)].state \in
           (IF a = "RequireSynced" THEN {"Closed", "Opened"} ELSE {"Closed", "Opened", "Refreshing"})
  PROVE  check_rowbuffer_hit(D, bank, FinalCommand(D, r), r.addr)
           <=> NextCommand(D, r) \in {FinalCommand(D, r), "CASRD", "CASWR"}
<1>b. PICK x : x = get_preq_command(D, bank, SyncedOf(r.addr), FinalCommand(D, r), r.addr, clk)
  OBVIOUS
<1>a. /\ a = "RequireRowOpen" => x = RequireRowOpen(bank[NodeAt(r.addr, D.bankLevel)], FinalCommand(D, r), RowOf(D, r.addr))
      /\ a = "RequireSynced" =>
           x = RequireSynced(bank[NodeAt(r.addr, D.bankLevel)], SyncedOf(r.addr), FinalCommand(D, r), clk)
  BY <1>b, AnswerOf
<1>1. PICK f, b, row, y : /\ f = FinalCommand(D, r) /\ b = bank[NodeAt(r.addr, D.bankLevel)] /\ row = RowOf(D, r.addr)
                          /\ y = SyncedOf(r.addr) /\ x = get_preq_command(D, bank, y, f, r.addr, clk)
  BY <1>b
<1>2. check_rowbuffer_hit(D, bank, f, r.addr) <=> RowHit(b, row)
  BY <1>1 DEF check_rowbuffer_hit
<1>3. RowHit(b, row) <=> b.state = "Opened" /\ row \in b.rows
  BY <1>1 DEF RowHit
<1>4. NextCommand(D, r) = x
  BY <1>1 DEF NextCommand
<1>5. CASE a = "RequireRowOpen"
  <2>1. x = RequireRowOpen(b, f, row)
    BY <1>a, <1>1, <1>5
  <2>2. f \notin {"ACT", "PRE"}
    BY <1>1, <1>5 DEF Answers
  <2>3. x \in {f, "CASRD", "CASWR"} <=> b.state = "Opened" /\ row \in b.rows
    BY <1>1, <1>5, <2>1, <2>2 DEF RequireRowOpen
  <2> QED BY <1>1, <1>2, <1>3, <1>4, <2>3
<1>6. CASE a = "RequireSynced"
  <2>1. x = RequireSynced(b, y, f, clk)
    BY <1>a, <1>1, <1>6
  <2>2. f \notin {"ACT-1", "ACT-2", "PRE"}
    BY <1>1, <1>6 DEF Answers
  <2>3. row = 0
    BY <1>1, <1>6 DEF Served
  <2>4. b.state \in {"Closed", "Opened"}
    BY <1>1, <1>6
  <2>5. x \in {f, "CASRD", "CASWR"} <=> b.state = "Opened" /\ row \in b.rows
    BY <2>1, <2>2, <2>3, <2>4 DEF RequireSynced
  <2> QED BY <1>1, <1>2, <1>3, <1>4, <2>5
<1> QED BY <1>5, <1>6

\* What LeadInv says of the banks is enough for the prerequisites to lead.
LEMMA LeadInvLeads == LeadInv => PrerequisitesLead
<1> SUFFICES ASSUME LeadInv, load # 0, NEW D, D = TheDevice, NEW r \in Loads[load].requests, Served(D, r),
                    NEW final, final = FinalCommand(D, r), NEW s, s = [bank |-> bank, synced |-> SyncedOf(r.addr)],
                    NEW led, led = IF config[1] = "LPDDR5" THEN AdvanceTwice(D, AdvanceTwice(D, s, r), r)
                                   ELSE AdvanceTwice(D, s, r)
             PROVE  /\ get_preq_command(D, led.bank, led.synced, final, r.addr, clk) = final
                    /\ final \in D.spec.rowhits \ CompressedCommands
                         /\ bank[NodeAt(r.addr, D.bankLevel)].state # "Pre-Opened" =>
                         (check_rowbuffer_hit(D, bank, final, r.addr) <=> NextCommand(D, r) \in {final, "CASRD", "CASWR"})
  BY DEF PrerequisitesLead, Running
<1>1. load \in DOMAIN Loads /\ clk \in Nat /\ D = Compiled[load]
  BY DEF LeadInv, StatesInv, TimedInv, DeviceInv, TheDevice
<1>2. PICK L : L = Loads[load]
  OBVIOUS
<1>3. TablesAreTidy(D) /\ HandlersBuilt(D) /\ StatesAreTidy(D, L.requests)
  BY <1>1, <1>2, TheDeviceIsKept
<1>4. final \in D.commands /\ r \in L.requests
  BY <1>2, <1>3 DEF StatesAreTidy
<1>5. LeadsAreTidy(D, L)
  BY <1>1, <1>2, PrerequisitesAssumption
<1>6. Leading(D, r)
  BY <1>4, <1>5 DEF LeadsAreTidy
<1>7. config[1] = L.device /\ Whole(D, L, bank) /\ StatesRight(D, L.requests, bank, future, log, clk)
  BY <1>2 DEF LeadInv, StatesInv, Kept
<1>8. PICK a, q : a = Asker(D, final) /\ q = NodeAt(r.addr, D.bankLevel)
  OBVIOUS
<1>9. /\ a \in {"RequireRowOpen", "RequireBankClosed"} => bank[q].state \in {"Closed", "Opened", "Refreshing"}
      /\ a = "RequireSynced" => bank[q].state \in {"Closed", "Opened", "Pre-Opened"}
  BY <1>3, <1>4, <1>5, <1>7, <1>8, KnownState
<1>10. s.bank = bank
  OBVIOUS
<1>11. ASSUME a \notin {"RequireRowOpen", "RequireSynced"} PROVE Settled(D, led, r)
  <2>1. PICK t, u, v, w : /\ t = Advance(D, s, r) /\ u = Advance(D, t, r) /\ v = Advance(D, u, r) /\ w = Advance(D, v, r)
    OBVIOUS
  <2>2. Settled(D, t, r)
    BY <1>3, <1>4, <1>6, <1>8, <1>9, <1>10, <1>11, <2>1, ClosedLeads
  <2>3. u = t
    BY <2>1, <2>2, SettledStays
  <2>4. w = t
    BY <2>1, <2>3
  <2> QED BY <2>1, <2>2, <2>3, <2>4 DEF AdvanceTwice
<1>12. ASSUME a = "RequireRowOpen" PROVE Settled(D, led, r)
  <2>1. config[1] # "LPDDR5"
    BY <1>4, <1>5, <1>7, <1>8, <1>12 DEF LeadsAreTidy
  <2>2. Settled(D, AdvanceTwice(D, s, r), r)
    BY <1>3, <1>4, <1>6, <1>8, <1>9, <1>10, <1>12, RowLeads
  <2> QED BY <2>1, <2>2
<1>13. ASSUME a = "RequireSynced" PROVE Settled(D, led, r)
  <2>1. config[1] = "LPDDR5"
    BY <1>4, <1>5, <1>7, <1>8, <1>13 DEF LeadsAreTidy
  <2>2. Settled(D, AdvanceTwice(D, AdvanceTwice(D, s, r), r), r)
    <3>1. RowOf(D, r.addr) = 0
      BY <1>8, <1>13 DEF Served
    <3> QED BY <1>1, <1>3, <1>4, <1>6, <1>8, <1>9, <1>10, <1>13, <3>1, SyncLeads
  <2> QED BY <2>1, <2>2
<1>14. get_preq_command(D, led.bank, led.synced, final, r.addr, clk) = final
  BY <1>11, <1>12, <1>13 DEF Settled
<1>15. ASSUME final \in D.spec.rowhits \ CompressedCommands, bank[q].state # "Pre-Opened"
       PROVE  check_rowbuffer_hit(D, bank, final, r.addr) <=> NextCommand(D, r) \in {final, "CASRD", "CASWR"}
  <2>1. a \in {"RequireSynced", "RequireRowOpen"} /\ final \notin Answers[a]
    BY <1>6, <1>8, <1>15 DEF Leading
  <2>2. bank[q].state \in (IF a = "RequireSynced" THEN {"Closed", "Opened"} ELSE {"Closed", "Opened", "Refreshing"})
    BY <1>9, <1>15, <2>1
  <2> QED BY <1>3, <1>4, <1>8, <1>15, <2>1, <2>2, HitNeedsNothing
<1> QED BY <1>8, <1>14, <1>15

\* The prerequisites of the requests of a run lead to their commands, whatever state the commands issued before
\* left the banks in: two of them at most, four for an access of LPDDR5 to row 0 (to another row it has no end),
\* and none for a row hit but LPDDR5's synchronization (RequireRowOpen and its like, and the actions, of lambdas;
\* RequireSynced of LPDDR5.cpp).
THEOREM PrerequisitesAlwaysLead == Spec => []PrerequisitesLead
BY LeadInvariant, LeadInvLeads, PTL

=============================================================================
