------------------------------ MODULE DramNode ------------------------------
(***************************************************************************)
(* The tree of nodes of a device (src/ramulator2/src/dram/node.h) and the     *)
(* handlers its tables name (src/ramulator2/src/dram/lambdas).  A node is the  *)
(* sequence of ids that leads to it from its channel; the leaves are banks.  *)
(* A command is addressed to a node by a sequence of ids, one per level down *)
(* to the row, AnyId standing for every node of a level.                     *)
(***************************************************************************)
EXTENDS DramSpec

(***************************************************************************)
(* What a device's definitions come to: its lookup tables by level number.  *)
(***************************************************************************)
Device(spec, org, vals, cons) ==
  LET numbered(l) == CHOOSE i \in DOMAIN spec.levels : spec.levels[i] = l
      bankLevel == numbered("bank")
      size(l) == org.count[spec.levels[l]]
      nodesAt(n) == { p \in [1..n -> 0..Max({size(l) : l \in 1..n}) - 1] : \A l \in 1..n : p[l] < size(l) }
      commands == DOMAIN spec.scope
      handled(table) == [c \in commands |-> { l \in 1..bankLevel : <<spec.levels[l], c>> \in DOMAIN table }]
      entries == populate_timingcons(spec.levels, commands, cons)
      tracked(l, c) == { e.window : e \in UNION { entries[l][c][f] : f \in DOMAIN entries[l][c] } }
  IN  [spec |-> spec, vals |-> vals, commands |-> commands, cons |-> entries, bankLevel |-> bankLevel,
       nodes |-> UNION { nodesAt(n) : n \in 1..bankLevel }, banks |-> nodesAt(bankLevel),
       ranks |-> IF spec.powers = << >> THEN {} ELSE nodesAt(2),
       reach |-> [c \in commands |-> Min({numbered(spec.scope[c]), bankLevel})],
       acting |-> handled(spec.actions), asking |-> handled(spec.preqs), metering |-> handled(spec.powers),
       window |-> [l \in 1..bankLevel |->
                     [c \in { c \in commands : Max({0} \cup tracked(l, c)) > 1 } |-> Max(tracked(l, c))]]]

\* The node an address leads to at a level, and the nodes on the path of an address.
NodeAt(addr, l) == SubSeq(addr, 1, l)
Targeted(p, addr) == p[1] = addr[1] /\ \A l \in 2..Len(p) : addr[l] \in {p[l], AnyId}
Below(q, n) == IsPrefix(n, q)

\* Row of an address.
RowOf(D, addr) == addr[D.bankLevel + 1]

(***************************************************************************)
(* Timing.  A command updates every node whose ancestors it addresses: the   *)
(* addressed ones by their own constraints, their siblings by the sibling    *)
(* constraints.  Only windows longer than one need a history, newest first.  *)
(***************************************************************************)
InitReady(D)   == [p \in D.nodes |-> [c \in D.commands |-> -1]]
InitHistory(D) == [p \in D.nodes |-> [c \in DOMAIN D.window[Len(p)] |-> [i \in 1..D.window[Len(p)][c] |-> -1]]]

HistoryAfter(D, history, cmd, addr, clk) ==
  [p \in D.nodes |->
     IF cmd \notin DOMAIN history[p] \/ ~Targeted(p, addr) THEN history[p]
     ELSE [history[p] EXCEPT ![cmd] = <<clk>> \o Front(@)]]

\* The cycles from which the entries of one constrained command let it go again.
\* Mutant: the windows longer than one are not looked at.
Held_NoWindow(entries, isTarget, past, clk) ==
  { clk + e.val : e \in { e \in entries : e.sibling # isTarget /\ e.window = 1 } }
\* Mutant: the cycle of the command is counted as one of those waited for.
Held_OffByOne(entries, isTarget, past, clk) ==
  LET since(e) == IF e.window = 1 THEN clk ELSE past[e.window]
  IN  { since(e) + e.val - 1 : e \in { e \in entries : e.sibling # isTarget /\ (isTarget => since(e) >= 0) } }
Held(entries, isTarget, past, clk) ==
  LET since(e) == IF e.window = 1 THEN clk ELSE past[e.window]
  IN  { since(e) + e.val : e \in { e \in entries : e.sibling # isTarget /\ (isTarget => since(e) >= 0) } }

update_timing(D, ready, history, cmd, addr, clk) ==
  LET past == HistoryAfter(D, history, cmd, addr, clk)
      reached(p) == Len(p) = 1 \/ Targeted(Front(p), addr)
  IN  [p \in D.nodes |->
         LET entries == D.cons[Len(p)][cmd]
             mine    == IF cmd \in DOMAIN past[p] THEN past[p][cmd] ELSE << >>
         IN  IF p[1] # addr[1] \/ ~reached(p) \/ DOMAIN entries = {} THEN ready[p]
             ELSE [f \in D.commands |->
                     IF f \in DOMAIN entries
                     THEN Max({ready[p][f]} \cup Held(entries[f], Targeted(p, addr), mine, clk))
                     ELSE ready[p][f]]]

\* The cycle from which a command is ready: its nodes down to its scope all let it go.
ReadyAt(D, ready, cmd, addr) ==
  Max({ ready[p][cmd] : p \in { p \in D.nodes : Len(p) <= D.reach[cmd] /\ Targeted(p, addr) } })
check_ready(D, ready, cmd, addr, clk) == clk >= ReadyAt(D, ready, cmd, addr)

(***************************************************************************)
(* State machines.  The bank-level effects of the action handlers.          *)
(***************************************************************************)
\* Mutant: an auto precharge, as a same-bank precharge, clears the state and not the row map.
BankEffect_KeepsRow(handler, b, row) ==
  CASE handler = "ACT"   -> [state |-> "Opened", rows |-> b.rows \cup {row}]
    [] handler = "ACT-1" -> [state |-> "Pre-Opened", rows |-> b.rows \cup {row}]
    [] handler \in {"VRR", "REFsb", "REFab"}  -> [b EXCEPT !.state = "Refreshing"]
    [] handler = "synchronize" -> b
    [] OTHER -> [b EXCEPT !.state = "Closed"]

BankEffect(handler, b, row) ==
  CASE handler = "ACT"   -> [state |-> "Opened", rows |-> b.rows \cup {row}]
    [] handler = "ACT-1" -> [state |-> "Pre-Opened", rows |-> b.rows \cup {row}]
    [] handler \in {"PRE", "PREsb", "REFsb_end", "PREab"} -> [state |-> "Closed", rows |-> {}]
    [] handler \in {"VRR", "REFsb", "REFab"}  -> [b EXCEPT !.state = "Refreshing"]
    [] handler \in {"VRR_end", "REFab_end"}   -> [b EXCEPT !.state = "Closed"]
    [] handler = "synchronize" -> b

\* A handler of a level acts on the banks below each node addressed there; those of a bank group pick
\* the bank of the address.
Acting(D, cmd, addr, q) ==
  { l \in D.acting[cmd] : /\ l <= D.reach[cmd] /\ Targeted(NodeAt(q, l), addr)
                          /\ D.spec.levels[l] = "bankgroup" => q[D.bankLevel] = addr[D.bankLevel] }
ActionAt(D, cmd, addr, q) == D.spec.actions[<<D.spec.levels[Min(Acting(D, cmd, addr, q))], cmd>>]

update_states(D, bank, cmd, addr) ==
  [q \in D.banks |-> IF Acting(D, cmd, addr, q) = {} THEN bank[q]
                     ELSE BankEffect(ActionAt(D, cmd, addr, q), bank[q], RowOf(D, addr))]

\* LPDDR5: the cycle up to which the clock of a rank stays synchronized.
SyncedAfter(synced, sync, cmd, clk) == IF cmd \in DOMAIN sync THEN clk + sync[cmd] ELSE synced

(***************************************************************************)
(* Prerequisites, by handler.                                               *)
(***************************************************************************)
Before(q, r) == \E i \in DOMAIN q : q[i] < r[i] /\ \A j \in 1..i - 1 : q[j] = r[j]

\* What the device has no case for ends the program, as std::exit(-1).
Exit == "exit"

\* Mutant: any open row will do.
RequireRowOpen_AnyRow(b, cmd, row) == IF b.state = "Opened" THEN cmd ELSE "ACT"
RequireRowOpen(b, cmd, row) ==
  CASE b.state \in {"Closed", "Refreshing"} -> "ACT"
    [] b.state = "Opened" -> IF row \in b.rows THEN cmd ELSE "PRE"
    [] OTHER -> Exit

RequireBankClosed(b, cmd) ==
  CASE b.state \in {"Closed", "Refreshing"} -> cmd
    [] b.state = "Opened" -> "PRE"
    [] OTHER -> Exit

\* The first bank that is not closed decides.
RequireAllBanksClosed(bank, banks, cmd) ==
  LET busy  == { q \in banks : bank[q].state # "Closed" }
      first == CHOOSE q \in busy : \A r \in busy \ {q} : Before(q, r)
  IN  IF busy = {} \/ bank[first].state = "Refreshing" THEN cmd ELSE "PREA"

RequireSameBanksClosed(bank, banks, cmd) ==
  IF \A q \in banks : bank[q].state \in {"Closed", "Refreshing"} THEN cmd ELSE "PREsb"

ChannelRequireAllBanksClosed(bank, banks, cmd) ==
  IF \A q \in banks : bank[q].state = "Closed" THEN cmd ELSE "PREA"

\* LPDDR5 looks for row 0 whatever the row of the address.
RequireSynced(b, synced, cmd, clk) ==
  CASE b.state = "Closed"     -> "ACT-1"
    [] b.state = "Pre-Opened" -> "ACT-2"
    [] b.state = "Opened"     -> IF 0 \notin b.rows THEN "PRE"
                                 ELSE IF synced >= clk THEN cmd
                                 ELSE IF cmd = "RD16" THEN "CASRD" ELSE "CASWR"
    [] OTHER -> Exit

\* The first level with a handler decides; a command without one has no prerequisite.
get_preq_command(D, bank, synced, cmd, addr, clk) ==
  IF D.asking[cmd] = {} THEN cmd
  ELSE LET l       == Min(D.asking[cmd])
           handler == D.spec.preqs[<<D.spec.levels[l], cmd>>]
           below   == { q \in D.banks : Below(q, NodeAt(addr, l)) }
           b       == bank[NodeAt(addr, D.bankLevel)]
       IN  CASE handler = "RequireRowOpen"         -> RequireRowOpen(b, cmd, RowOf(D, addr))
             [] handler = "RequireBankClosed"      -> RequireBankClosed(b, cmd)
             [] handler = "RequireAllBanksClosed"  -> RequireAllBanksClosed(bank, below, cmd)
             [] handler = "RequireSameBanksClosed" ->
                  RequireSameBanksClosed(bank, { q \in below : q[D.bankLevel] = addr[D.bankLevel] }, cmd)
             [] handler = "ChannelRequireAllBanksClosed" -> ChannelRequireAllBanksClosed(bank, below, cmd)
             [] handler = "RequireSynced"          -> RequireSynced(b, synced, cmd, clk)
             [] handler = "RequireRankClosed"      -> cmd

(***************************************************************************)
(* Row hits and open rows, for the commands a device tests: the program ends *)
(* in a state there is no case for.                                         *)
(***************************************************************************)
\* Mutant: a row hit is an open row.
RowHit_AnyRow(b, row) == b.state = "Opened"
RowHit(b, row) ==
  CASE b.state \in {"Closed", "Refreshing"} -> FALSE
    [] b.state = "Opened" -> row \in b.rows
RowOpen(b) ==
  CASE b.state \in {"Closed", "Refreshing"} -> FALSE
    [] b.state = "Opened" -> TRUE

check_rowbuffer_hit(D, bank, cmd, addr) ==
  cmd \in D.spec.rowhits /\ RowHit(bank[NodeAt(addr, D.bankLevel)], RowOf(D, addr))
check_node_open(D, bank, cmd, addr) == cmd \in D.spec.rowhits /\ RowOpen(bank[NodeAt(addr, D.bankLevel)])

=============================================================================
