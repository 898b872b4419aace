----------------------------- MODULE DramDevice -----------------------------
(***************************************************************************)
(* A DRAM device of src/ramulator2/src/dram/impl, from the initialization of  *)
(* any of its presets to the end of a run: its controller issues the         *)
(* prerequisites of its requests as the device lets it, one command a cycle, *)
(* and the device's clock carries out the ends of its refreshes.             *)
(***************************************************************************)
EXTENDS DramPower, DramDDR, DramDDR5, DramHBM, DramLPDDR5

CONSTANTS
  Loads,      \* runs: a device, its presets, the user's sizes and timings, the requests, the commands they last for
  RefreshLag  \* the most cycles the controller keeps a refresh that was sent to it
ASSUME LoadsAssumption ==
  Loads \in Seq({ Loads[i] : i \in DOMAIN Loads }) /\ \A i \in DOMAIN Loads : Loads[i].commands \in Nat
ASSUME RefreshLagAssumption == RefreshLag \in Nat

VARIABLES
  config,       \* <<device, organization, speed>>
  load,         \* index of the run in Loads, 0 when only the initialization is looked at
  phase,        \* "failed", "undefined", "ready" or "finalized"
  clk,          \* m_clk
  issued,       \* the controller has issued a command in this cycle
  bank,         \* m_state and m_row_state of every bank
  ready,        \* m_cmd_ready_clk of every node
  history,      \* m_cmd_history of every node
  synced,       \* m_final_synced_cycle of every rank
  future,       \* m_future_actions
  power,        \* m_power_stats
  energy,       \* what process_rank_energy leaves
  log           \* every command issued, with its address and cycle

deviceVars == <<bank, ready, history, synced, future, power>>
vars == <<config, load, phase, clk, issued, deviceVars, energy, log>>

(***************************************************************************)
(* The devices, by name.                                                    *)
(***************************************************************************)
Specs ==
  [DDR3 |-> DDR3, DDR4 |-> DDR4, DDR4VRR |-> DDR4VRR, DDR4RVRR |-> DDR4RVRR, DDR5 |-> DDR5, DDR5VRR |-> DDR5VRR,
   DDR5RVRR |-> DDR5RVRR, HBM |-> HBM, HBM2 |-> HBM2, HBM3 |-> HBM3, HBM3PIM_Baseline |-> HBM3PIM_Baseline,
   HBM3PIM |-> HBM3PIM, LPDDR5 |-> LPDDR5]

org_presets(d) ==
  CASE d = "DDR3" -> DDR3_org_presets [] d = "DDR4" -> DDR4_org_presets [] d = "DDR4VRR" -> DDR4VRR_org_presets
    [] d = "DDR4RVRR" -> DDR4RVRR_org_presets [] d = "DDR5" -> DDR5_org_presets
    [] d = "DDR5VRR" -> DDR5VRR_org_presets [] d = "DDR5RVRR" -> DDR5RVRR_org_presets
    [] d = "HBM" -> HBM_org_presets [] d = "HBM2" -> HBM2_org_presets [] d = "HBM3" -> HBM3_org_presets
    [] d = "HBM3PIM_Baseline" -> HBM3PIM_Baseline_org_presets [] d = "HBM3PIM" -> HBM3PIM_org_presets
    [] d = "LPDDR5" -> LPDDR5_org_presets

timing_presets(d) ==
  CASE d = "DDR3" -> DDR3_timing_presets [] d = "DDR4" -> DDR4_timing_presets [] d = "DDR4VRR" -> DDR4VRR_timing_presets
    [] d = "DDR4RVRR" -> DDR4RVRR_timing_presets [] d = "DDR5" -> DDR5_timing_presets
    [] d = "DDR5VRR" -> DDR5VRR_timing_presets [] d = "DDR5RVRR" -> DDR5RVRR_timing_presets
    [] d = "HBM" -> HBM_timing_presets [] d = "HBM2" -> HBM2_timing_presets [] d = "HBM3" -> HBM3_timing_presets
    [] d = "HBM3PIM_Baseline" -> HBM3PIM_Baseline_timing_presets [] d = "HBM3PIM" -> HBM3PIM_timing_presets
    [] d = "LPDDR5" -> LPDDR5_timing_presets

set_organization(d, name, sizes) ==
  CASE d = "DDR3" -> DDR3_set_organization(name, sizes) [] d = "DDR4" -> DDR4_set_organization(name, sizes)
    [] d = "DDR4VRR" -> DDR4VRR_set_organization(name, sizes) [] d = "DDR4RVRR" -> DDR4RVRR_set_organization(name, sizes)
    [] d = "DDR5" -> DDR5_set_organization(name, sizes) [] d = "DDR5VRR" -> DDR5VRR_set_organization(name, sizes)
    [] d = "DDR5RVRR" -> DDR5RVRR_set_organization(name, sizes) [] d = "HBM" -> HBM_set_organization(name, sizes)
    [] d = "HBM2" -> HBM2_set_organization(name, sizes) [] d = "HBM3" -> HBM3_set_organization(name, sizes)
    [] d = "HBM3PIM_Baseline" -> HBM3PIM_Baseline_set_organization(name, sizes)
    [] d = "HBM3PIM" -> HBM3PIM_set_organization(name, sizes) [] d = "LPDDR5" -> LPDDR5_set_organization(name, sizes)

set_timing_vals(d, speed, org, user) ==
  CASE d = "DDR3" -> DDR3_set_timing_vals(speed, org, user) [] d = "DDR4" -> DDR4_set_timing_vals(speed, org, user)
    [] d = "DDR4VRR" -> DDR4VRR_set_timing_vals(speed, org, user)
    [] d = "DDR4RVRR" -> DDR4RVRR_set_timing_vals(speed, org, user)
    [] d = "DDR5" -> DDR5_set_timing_vals(speed, org, user) [] d = "DDR5VRR" -> DDR5VRR_set_timing_vals(speed, org, user)
    [] d = "DDR5RVRR" -> DDR5RVRR_set_timing_vals(speed, org, user)
    [] d = "HBM" -> HBM_set_timing_vals(speed, org, user) [] d = "HBM2" -> HBM2_set_timing_vals(speed, org, user)
    [] d = "HBM3" -> HBM3_set_timing_vals(speed, org, user)
    [] d = "HBM3PIM_Baseline" -> HBM3PIM_Baseline_set_timing_vals(speed, org, user)
    [] d = "HBM3PIM" -> HBM3PIM_set_timing_vals(speed, org, user)
    [] d = "LPDDR5" -> LPDDR5_set_timing_vals(speed, org, user)

constraints(d, V) ==
  CASE d = "DDR3" -> DDR3_constraints(V) [] d = "DDR4" -> DDR4_constraints(V) [] d = "DDR4VRR" -> DDR4VRR_constraints(V)
    [] d = "DDR4RVRR" -> DDR4RVRR_constraints(V) [] d = "DDR5" -> DDR5_constraints(V)
    [] d = "DDR5VRR" -> DDR5VRR_constraints(V) [] d = "DDR5RVRR" -> DDR5RVRR_constraints(V)
    [] d = "HBM" -> HBM_constraints(V) [] d = "HBM2" -> HBM2_constraints(V) [] d = "HBM3" -> HBM3_constraints(V)
    [] d = "HBM3PIM_Baseline" -> HBM3PIM_Baseline_constraints(V) [] d = "HBM3PIM" -> HBM3PIM_constraints(V)
    [] d = "LPDDR5" -> LPDDR5_constraints(V)

TimedDevice(d, org, vals) == Device(Specs[d], org, vals, constraints(d, vals))
DeviceOf(d, speed, org, user) == TimedDevice(d, org, set_timing_vals(d, speed, org, user))

\* The device of every run, built once.
Compiled ==
  [i \in DOMAIN Loads |->
     LET L == Loads[i]
     IN  DeviceOf(L.device, L.speed, set_organization(L.device, L.org, L.sizes), L.user)]

\* The handlers of lambdas/preq.h, and LPDDR5's own.
PreqHandlers ==
  {"RequireRowOpen", "RequireBankClosed", "RequireAllBanksClosed", "RequireSameBanksClosed",
   "ChannelRequireAllBanksClosed", "RequireSynced", "RequireRankClosed"}

\* The handlers of lambdas/power.h for a rank.
PowerHandlers ==
  {"ACT", "PRE", "PREA", "PREsb", "REFab", "REFab_end", "VRR", "VRR_end", "RFMsb", "RFMsb_end", "RRFMsb", "RRFMsb_end"}

\* The tables of a run are as the initializers of the thirteen devices write them: whole latencies over
\* windows of at least one command, siblings only below the channel and counted from the command itself,
\* and, but for the devices with pseudochannels, no node below those a command looks at holds it back.
TablesAreTidy(D) ==
  /\ IsFiniteSet(D.commands) /\ IsFiniteSet(D.nodes) /\ D.bankLevel \in Nat
  /\ \A p \in D.nodes : p \in Seq(Nat) /\ Len(p) \in 1..D.bankLevel
  /\ \A c \in D.commands : D.reach[c] \in Nat
  /\ \A k \in DOMAIN D.spec.preqs : D.spec.preqs[k] \in PreqHandlers
  /\ \A c \in D.commands : 2 \in D.metering[c] => D.spec.powers[<<"rank", c>>] \in PowerHandlers
  /\ \A l \in 1..D.bankLevel, c \in D.commands :
       LET entries == D.cons[l][c]
       IN  \A f \in DOMAIN entries :
             /\ f \in D.commands /\ IsFiniteSet(entries[f])
             /\ D.spec.levels[2] # "pseudochannel" => l <= D.reach[f]
             /\ \A e \in entries[f] : /\ e.val \in Int /\ e.window \in Nat \ {0} /\ e.sibling \in BOOLEAN
                                      /\ e.sibling => e.window = 1 /\ l > 1
ASSUME TablesAssumption == \A i \in DOMAIN Loads : TablesAreTidy(Compiled[i])

\* A data bus, that of a channel or of its pseudochannel, carries a burst some cycles after its command.
DataReads  == Reads \cup Reads16
DataWrites == Writes \cup Writes16
DataCommands(D) == (DataReads \cup DataWrites) \cap D.commands
Latency(D, c)  == IF c \in DataReads THEN D.vals.nCL ELSE D.vals.nCWL
BurstLength(D) == IF "nBL" \in DOMAIN D.vals THEN D.vals.nBL ELSE D.vals.nBL16

\* A table spaces the bursts of two commands to the same rank (bank group, pseudochannel), and to two
\* ranks but for a write after a read: a command is held back until the burst before its own is over.
Keeps(D, l, c, f, sibling) ==
  /\ f \in DOMAIN D.cons[l][c]
  /\ \E e \in D.cons[l][c][f] : e.sibling = sibling /\ e.window = 1
                                /\ e.val + Latency(D, f) >= Latency(D, c) + BurstLength(D)
WriteAfterRead(D, c, f) == D.spec.levels[2] = "rank" /\ c \in DataReads /\ f \in DataWrites
BurstsAreSpaced(D) ==
  /\ BurstLength(D) \in Int /\ D.bankLevel > 1
  /\ \A c \in DataCommands(D) : Latency(D, c) \in Int /\ D.reach[c] > 1
  /\ \A c, f \in DataCommands(D) :
       /\ Keeps(D, 1, c, f, FALSE) \/ Keeps(D, 2, c, f, FALSE)
       /\ \/ D.spec.levels[2] = "pseudochannel" \/ WriteAfterRead(D, c, f)
          \/ Keeps(D, 1, c, f, FALSE) \/ Keeps(D, 2, c, f, TRUE)

\* The PIM devices state no constraint for their bus.
Bused(device) == device \notin {"HBM3PIM", "HBM3PIM_Baseline"}
FinalCommand(D, r) == D.spec.requests[r.type]
\* The requests of a run name commands of the device, at an address with an id for every level to the row.
Addressed(D, r) ==
  /\ FinalCommand(D, r) \in D.commands
  /\ r.addr \in Seq(Int) /\ Len(r.addr) > D.bankLevel
  /\ FinalCommand(D, r) \in DataCommands(D) => NodeAt(r.addr, 1) \in D.nodes /\ NodeAt(r.addr, 2) \in D.nodes
ASSUME BusAssumption ==
  \A i \in DOMAIN Loads :
    Bused(Loads[i].device) => BurstsAreSpaced(Compiled[i]) /\ \A r \in Loads[i].requests : Addressed(Compiled[i], r)

\* The handler that looks for the prerequisites of a command, the banks it looks at, what it answers.
Asker(D, c) == IF D.asking[c] = {} THEN "none" ELSE D.spec.preqs[<<D.spec.levels[Min(D.asking[c])], c>>]
Asked(D, c, addr) ==
  LET below == { q \in D.banks : Below(q, NodeAt(addr, Min(D.asking[c]))) }
  IN  CASE Asker(D, c) \in {"RequireAllBanksClosed", "ChannelRequireAllBanksClosed"} -> below
        [] Asker(D, c) = "RequireSameBanksClosed" -> { q \in below : q[D.bankLevel] = addr[D.bankLevel] }
        [] OTHER -> { NodeAt(addr, D.bankLevel) }
Answers ==
  [RequireRowOpen |-> {"ACT", "PRE"}, RequireBankClosed |-> {"PRE"}, RequireAllBanksClosed |-> {"PREA"},
   RequireSameBanksClosed |-> {"PREsb"}, ChannelRequireAllBanksClosed |-> {"PREA"},
   RequireSynced |-> {"ACT-1", "ACT-2", "PRE", "CASRD", "CASWR"}, RequireRankClosed |-> {}, none |-> {}]
\* The commands a request may come to.
Leads(D, r) == ({FinalCommand(D, r)} \cup Answers[Asker(D, FinalCommand(D, r))]) \cap D.commands

\* The banks a command acts on, and those an entry of the log, or of the future, is about.
Touched(D, c, addr) == { q \in D.banks : Acting(D, c, addr, q) # {} }
Covers(D, e, q) == Targeted(NodeAt(q, D.reach[e.cmd]), e.addr)
Covered(D, c, addr) == { q \in D.banks : Covers(D, [cmd |-> c, addr |-> addr], q) }

\* The commands that go on after their cycle set their banks refreshing, once these are closed, and what
\* ends them some cycles later acts on the same banks.
Refreshes(D) == DOMAIN D.spec.future
Delay(D, c)  == D.vals[D.spec.future[c].after]
Precharges   == {"PRE", "PREA", "PREsb"}
RefreshActions == {"VRR", "REFsb", "REFab"}
EndActions     == {"VRR_end", "REFsb_end", "REFab_end"}
OtherActions   == {"ACT", "ACT-1", "PRE", "PREsb", "PREab", "synchronize"}
ClosedAskers ==
  {"RequireBankClosed", "RequireAllBanksClosed", "RequireSameBanksClosed", "ChannelRequireAllBanksClosed"}
RefreshIsTidy(D, c, r) ==
  LET end == D.spec.future[c].end
  IN  /\ c = FinalCommand(D, r) /\ c \notin Precharges /\ Delay(D, c) \in Nat /\ Delay(D, c) >= 2 /\ end \in D.commands
      /\ Asker(D, c) \in {"RequireBankClosed", "RequireAllBanksClosed", "RequireSameBanksClosed"}
      /\ Touched(D, c, r.addr) = Covered(D, c, r.addr) /\ Touched(D, end, r.addr) = Covered(D, c, r.addr)
      /\ Touched(D, c, r.addr) = Asked(D, c, r.addr)
      /\ \A q \in Touched(D, end, r.addr) : ActionAt(D, end, r.addr, q) \in EndActions
StatesAreTidy(D, requests) ==
  /\ Exit \notin D.commands /\ \A q \in D.banks : q \in D.nodes /\ Len(q) = D.bankLevel
  /\ \A r \in requests :
       /\ FinalCommand(D, r) \in D.commands
       /\ \A c \in Leads(D, r) :
            /\ \A q \in Touched(D, c, r.addr) :
                 ActionAt(D, c, r.addr, q) \in (IF c \in Refreshes(D) THEN RefreshActions ELSE OtherActions)
            /\ c \in Refreshes(D) => RefreshIsTidy(D, c, r)

\* A table keeps what a request may come to off the banks that refresh: some node that both are addressed
\* to holds the command back until the refresh is over, or else the command is a precharge, asked for when
\* a bank is open where none is.  A DDR4 states nothing between two all-bank refreshes: their pace does.
HeldBack(D, c, a, f, b) ==
  \E p \in D.nodes :
    /\ Len(p) <= D.reach[f] /\ Targeted(p, a) /\ Targeted(p, b) /\ f \in DOMAIN D.cons[Len(p)][c]
    /\ \E e \in D.cons[Len(p)][c][f] : ~e.sibling /\ e.window = 1 /\ e.val >= Delay(D, c) - 1
NotAskedFor(D, c, a, f, r) ==
  LET final == FinalCommand(D, r)
  IN  /\ f # final /\ f \in Precharges /\ Asker(D, final) # "ChannelRequireAllBanksClosed"
      /\ Asked(D, final, r.addr) \subseteq Touched(D, c, a)
PacedApart(D, c, a, f, r) ==
  /\ c = "REFab" /\ f = "REFab" /\ r.type = "all-bank-refresh" /\ a = r.addr
  /\ D.vals.nREFI \in Int /\ D.vals.nREFI - RefreshLag >= Delay(D, c) - 1
RefreshesAreKept(D, requests) ==
  \A s, r \in requests :
    FinalCommand(D, s) \in Refreshes(D) =>
      \A f \in Leads(D, r) :
        \/ Touched(D, FinalCommand(D, s), s.addr) \cap Touched(D, f, r.addr) = {}
        \/ HeldBack(D, FinalCommand(D, s), s.addr, f, r.addr)
        \/ NotAskedFor(D, FinalCommand(D, s), s.addr, f, r)
        \/ PacedApart(D, FinalCommand(D, s), s.addr, f, r)
ASSUME RefreshAssumption ==
  \A i \in DOMAIN Loads :
    StatesAreTidy(Compiled[i], Loads[i].requests) /\ RefreshesAreKept(Compiled[i], Loads[i].requests)

\* A bank gets its row by an activation, asked for when it has none, or in a run of one row: the LPDDR5, whose
\* accesses look for row 0, is safe in no other.  Every other command that turns a bank leaves it without an
\* open row, or is a refresh of closed banks that their states do not show, as those of the DDR3 and the HBM.
\* An access looks for its row; the compressed ones of HBM3PIM have no prerequisite.
Activations == {"ACT", "ACT-2"}
Turns(D, c)  == {"open", "close", "refresh"} \cap D.spec.meta[c] # {}
Looks(D, c)  == "access" \in D.spec.meta[c] /\ c \notin CompressedCommands
OneRow(D, requests) == \A r, s \in requests : RowOf(D, r.addr) = RowOf(D, s.addr)
AskedFor(D, c, r, q) ==
  LET final == FinalCommand(D, r)
  IN  q = NodeAt(r.addr, D.bankLevel) /\ Asker(D, final) = IF c = final THEN "RequireBankClosed" ELSE "RequireRowOpen"
Unseen(D, c, r) ==
  /\ c = FinalCommand(D, r) /\ c \notin Precharges /\ Refreshes(D) = {} /\ Touched(D, c, r.addr) = {}
  /\ Asker(D, c) \in ClosedAskers /\ Covered(D, c, r.addr) \subseteq Asked(D, c, r.addr)
RowsAreTidy(D, requests) ==
  \A r \in requests : \A c \in Leads(D, r) :
    /\ Turns(D, c) =>
         \/ Covered(D, c, r.addr) \subseteq { q \in Touched(D, c, r.addr) : ActionAt(D, c, r.addr, q) # "synchronize" }
         \/ Unseen(D, c, r)
    /\ \A q \in Touched(D, c, r.addr) : ActionAt(D, c, r.addr, q) = "ACT" =>
         /\ c \in Activations /\ Turns(D, c) /\ q \in Covered(D, c, r.addr)
         /\ OneRow(D, requests) \/ AskedFor(D, c, r, q)
    /\ Looks(D, c) =>
         /\ c = FinalCommand(D, r) /\ c \notin Answers[Asker(D, c)] /\ NodeAt(r.addr, D.bankLevel) \in D.banks
         /\ Asker(D, c) = "RequireRowOpen" \/ (Asker(D, c) = "RequireSynced" /\ OneRow(D, requests))
ASSUME RowsAssumption == \A i \in DOMAIN Loads : RowsAreTidy(Compiled[i], Loads[i].requests)

\* What a rank's power model is told of a command, before the banks change: the activation or the precharge of
\* the bank addressed, all its banks closed or one of every bank group, or what leaves the open ones alone.
PowersFirst(spec) == SelectInSeq(spec.issue, LAMBDA u : u = "powers") < SelectInSeq(spec.issue, LAMBDA u : u = "states")

RankPower(D, c) == IF 2 \in D.metering[c] /\ 2 <= D.reach[c] THEN D.spec.powers[<<"rank", c>>] ELSE "none"
BankPower(D, c) ==
  IF D.bankLevel \in D.metering[c] /\ D.bankLevel <= D.reach[c] THEN D.spec.powers[<<"bank", c>>] ELSE "none"
OneBank(D, c, r, action) ==
  LET q == NodeAt(r.addr, D.bankLevel)
  IN  /\ Touched(D, c, r.addr) = {q} /\ { b \in D.banks : Targeted(b, r.addr) } = {q}
      /\ ActionAt(D, c, r.addr, q) = action /\ BankPower(D, c) = action /\ RankPower(D, c) \in {"none", action}
CountsOpened(D, c, r) == OneBank(D, c, r, "ACT") /\ c = "ACT" /\ AskedFor(D, c, r, NodeAt(r.addr, D.bankLevel))
CountsClosed(D, c, r) ==
  OneBank(D, c, r, "PRE") /\ c = "PRE" /\ c # FinalCommand(D, r)
  /\ Asker(D, FinalCommand(D, r)) \in {"RequireRowOpen", "RequireBankClosed"}
CountsAll(D, c, r) ==
  LET closed(k) == { q \in D.banks : Below(q, k) /\ (RankPower(D, c) = "PREsb" => q[D.bankLevel] = r.addr[D.bankLevel]) }
  IN  /\ RankPower(D, c) \in {"PREA", "PREsb"} /\ BankPower(D, c) = "none" /\ c \notin Refreshes(D)
      /\ \A q \in Touched(D, c, r.addr) : ActionAt(D, c, r.addr, q) \in {"PRE", "PREsb", "PREab"}
      /\ \A k \in D.ranks : Targeted(k, r.addr) => { q \in Touched(D, c, r.addr) : Below(q, k) } = closed(k)
CountsNone(D, c, r) ==
  /\ Touched(D, c, r.addr) = {} \/ c \in Refreshes(D)
  /\ RankPower(D, c) \notin {"PREA", "PREsb"} /\ BankPower(D, c) \notin {"ACT", "PRE"}
PowersAreTidy(D, requests) ==
  D.ranks # {} =>
    /\ PowersFirst(D.spec) /\ {"ACT", "PRE"} \subseteq DOMAIN D.spec.charged
    /\ \A r \in requests : \A c \in Leads(D, r) :
         /\ \A q \in Touched(D, c, r.addr), k \in D.ranks : Below(q, k) => Targeted(k, r.addr)
         /\ CountsOpened(D, c, r) \/ CountsClosed(D, c, r) \/ CountsAll(D, c, r) \/ CountsNone(D, c, r)
         /\ c \in Refreshes(D) => LET end == D.spec.future[c].end
                                  IN  RankPower(D, end) \notin {"PREA", "PREsb"} /\ BankPower(D, end) \notin {"ACT", "PRE"}
ASSUME PowersAssumption == \A i \in DOMAIN Loads : PowersAreTidy(Compiled[i], Loads[i].requests)

\* How the cycles of a rank are charged: a command that opens or closes its banks is told to its power model as
\* such, and one that goes on is told twice, at its begin and at its end, if at all; one that takes the whole
\* rank out of use takes all its banks, for as long as it is charged for.  The same-bank commands of the DDR5
\* are left out: the handlers of two of its refreshes are commented out, so that no activation under them wakes
\* the rank up, and PREsb puts the rank to sleep under any other.
Unaccounted == {"PREsb", "REFsb", "DRFMsb"}
EndHandler == [REFab |-> "REFab_end", VRR |-> "VRR_end", RFMsb |-> "RFMsb_end", RRFMsb |-> "RRFMsb_end", none |-> "none"]
ChargedTwice(D, c, acted, below) ==
  LET end   == D.spec.future[c].end
      begin == RankPower(D, c)
  IN  /\ begin \in DOMAIN EndHandler /\ RankPower(D, end) = EndHandler[begin] /\ BankPower(D, end) # "REF"
      /\ begin \in {"REFab", "none"} => acted = below
      /\ begin = "REFab" => Delay(D, c) = D.vals[D.spec.charged.REF]
      /\ begin = "VRR" => Cardinality(acted) = 1
      /\ begin \in {"RFMsb", "RRFMsb"} => Cardinality(acted) = Cardinality({ q[3] : q \in below })
ChargedOnce(D, c, r, acted) ==
  \/ RankPower(D, c) = "none" /\ acted = {}
  \/ acted # {} /\ \/ RankPower(D, c) = "ACT" /\ CountsOpened(D, c, r)
                   \/ RankPower(D, c) = "PRE" /\ CountsClosed(D, c, r)
                   \/ RankPower(D, c) = "PREA" /\ CountsAll(D, c, r)
CyclesAreTidy(D, requests) ==
  D.ranks # {} =>
    /\ "REF" \in DOMAIN D.spec.charged /\ D.vals[D.spec.charged.REF] \in Int
    /\ \A r \in requests : \A c \in Leads(D, r) \ Unaccounted, x \in D.ranks :
         Targeted(x, r.addr) =>
           LET below == { q \in D.banks : Below(q, x) }
               acted == { q \in Touched(D, c, r.addr) : Below(q, x) }
           IN  /\ BankPower(D, c) # "REF"
               /\ IF c \in Refreshes(D) THEN acted # {} /\ ChargedTwice(D, c, acted, below) ELSE ChargedOnce(D, c, r, acted)
ASSUME CyclesAssumption == \A i \in DOMAIN Loads : CyclesAreTidy(Compiled[i], Loads[i].requests)

\* A request's prerequisites do what its handler asks them for: a precharge closes the banks the handler looks
\* at, an activation opens the bank, LPDDR5's two do so together, and its CAS leaves the banks alone.
\* Only an access that asks for its row is looked up as a row hit.
Does(D, c, r, banks, actions) == \A q \in banks : q \in Touched(D, c, r.addr) /\ ActionAt(D, c, r.addr, q) \in actions
Closing == {"PRE", "PREsb", "PREab"}
Leading(D, r) ==
  LET final == FinalCommand(D, r)
      asker == Asker(D, final)
      asked == Asked(D, final, r.addr)
  IN  /\ \A c \in Answers[asker] \cap Precharges : Does(D, c, r, asked, Closing)
      /\ asker = "RequireRowOpen" => Does(D, "ACT", r, asked, {"ACT"})
      /\ asker = "RequireSynced" =>
           /\ Does(D, "ACT-1", r, asked, {"ACT-1"}) /\ Does(D, "ACT-2", r, asked, {"ACT"})
           /\ \A c \in {"CASRD", "CASWR"} : Does(D, c, r, asked \cap Touched(D, c, r.addr), {"synchronize"})
      /\ final \in D.spec.rowhits \ CompressedCommands =>
           asker \in {"RequireSynced", "RequireRowOpen"} /\ final \notin Answers[asker]
\* A bank between its two activations is known to RequireSynced alone, and one that refreshes to all others.
LeadsAreTidy(D, L) ==
  /\ \A r \in L.requests : Leading(D, r)
  /\ IF L.device = "LPDDR5"
     THEN /\ Refreshes(D) = {}
          /\ \A r \in L.requests : Asker(D, FinalCommand(D, r)) \notin {"RequireRowOpen", "RequireBankClosed"}
     ELSE \A r \in L.requests :
            /\ Asker(D, FinalCommand(D, r)) # "RequireSynced"
            /\ \A c \in Leads(D, r) : \A q \in Touched(D, c, r.addr) : ActionAt(D, c, r.addr, q) # "ACT-1"
ASSUME PrerequisitesAssumption == \A i \in DOMAIN Loads : LeadsAreTidy(Compiled[i], Loads[i])

(***************************************************************************)
(* init: every preset, or the presets of a run.                             *)
(***************************************************************************)
Outcome(d, o, s, sizes, user) ==
  LET org  == set_organization(d, o, sizes)
      vals == set_timing_vals(d, s, org, user)
  IN  IF org = Error THEN "failed"
      ELSE IF vals = Error THEN "failed"
      ELSE IF Undefined(vals) THEN "undefined" ELSE "ready"

InitPreset ==
  \E d \in DOMAIN Specs : \E o \in DOMAIN org_presets(d) : \E s \in DOMAIN timing_presets(d) :
    /\ config = <<d, o, s>> /\ load = 0 /\ phase = Outcome(d, o, s, << >>, << >>)
    /\ bank = << >> /\ ready = << >> /\ history = << >> /\ synced = << >> /\ power = << >>

InitLoad ==
  \E i \in DOMAIN Loads :
    \E D \in {Compiled[i]} :
    LET L == Loads[i]  ranks == { p \in D.nodes : Len(p) = 2 }
    IN  /\ config = <<L.device, L.org, L.speed>> /\ load = i
        /\ phase = Outcome(L.device, L.org, L.speed, L.sizes, L.user)
        /\ bank = [q \in D.banks |-> [state |-> "Closed", rows |-> {}]]
        /\ ready = InitReady(D) /\ history = InitHistory(D)
        /\ synced = [r \in ranks |-> -1]
        /\ power = [r \in D.ranks |-> InitStats(DOMAIN D.spec.charged)]

Init ==
  /\ InitPreset \/ InitLoad
  /\ clk = 0 /\ issued = FALSE /\ future = << >> /\ energy = << >> /\ log = << >>

(***************************************************************************)
(* The command a request needs next, and when the device takes it.          *)
(***************************************************************************)
TheDevice == Compiled[load]
SyncedOf(addr) == IF NodeAt(addr, 2) \in DOMAIN synced THEN synced[NodeAt(addr, 2)] ELSE -1
NextCommand(D, r) == get_preq_command(D, bank, SyncedOf(r.addr), FinalCommand(D, r), r.addr, clk)

\* The refresh manager sends an all-bank refresh to each rank every nREFI cycles, and the controller issues it
\* once its active requests let it, at most RefreshLag cycles later: so much closer may two of them follow.
DueAt(D, e) == e.clk + D.vals.nREFI - RefreshLag
Paced(D, r) ==
  r.type = "all-bank-refresh" =>
    \A i \in DOMAIN log : log[i].cmd = "REFab" /\ log[i].addr = r.addr => clk >= DueAt(D, log[i])
Pending(D) == { r \in Loads[load].requests : Paced(D, r) }

\* The program has ended: a request needs what its device has no case for.
Exits(D) == \E r \in Pending(D) : NextCommand(D, r) \notin D.commands

(***************************************************************************)
(* issue_command and check_future_action.                                   *)
(***************************************************************************)
check_future_action(D, cmd, addr) ==
  IF cmd \in DOMAIN D.spec.future
  THEN Append(future, [cmd |-> cmd, addr |-> addr, clk |-> clk + D.vals[D.spec.future[cmd].after] - 1])
  ELSE future

Issue(D, r) ==
  LET cmd == NextCommand(D, r)
  IN  /\ phase = "ready" /\ ~issued /\ Len(log) < Loads[load].commands
      /\ check_ready(D, ready, cmd, r.addr, clk)
      /\ ready'   = update_timing(D, ready, history, cmd, r.addr, clk)
      /\ history' = HistoryAfter(D, history, cmd, r.addr, clk)
      /\ bank'    = update_states(D, bank, cmd, r.addr)
      /\ synced'  = [n \in DOMAIN synced |->
                       IF <<"rank", cmd>> \in DOMAIN D.spec.actions /\ Targeted(n, r.addr)
                       THEN SyncedAfter(synced[n], LPDDR5_sync, cmd, clk) ELSE synced[n]]
      /\ power'   = update_powers(D, power, IF PowersFirst(D.spec) THEN bank ELSE bank', cmd, r.addr, clk)
      /\ future'  = check_future_action(D, cmd, r.addr)
      /\ issued'  = TRUE
      /\ log'     = Append(log, [cmd |-> cmd, addr |-> r.addr, clk |-> clk])
      /\ UNCHANGED <<config, load, phase, clk, energy>>

(***************************************************************************)
(* tick and handle_future_action.  The cycles at which nothing ends and no   *)
(* command becomes ready are passed over.                                   *)
(***************************************************************************)
Events(D) ==
  LET ripe == { ReadyAt(D, ready, NextCommand(D, r), r.addr) : r \in Pending(D) }
  IN  { future[i].clk : i \in DOMAIN future }
      \cup (IF Len(log) = Loads[load].commands THEN {}
            ELSE ripe \cup { synced[n] + 1 : n \in DOMAIN synced }
                      \cup { DueAt(D, log[i]) : i \in { j \in DOMAIN log : log[j].cmd = "REFab" } }
                      \cup (IF issued /\ \E t \in ripe : t <= clk THEN {clk + 1} ELSE {}))

\* Mutant: the rank's power state is ended and its banks are not.
handle_future_action_PowerOnly(D, f, now, d) ==
  [d EXCEPT !.power = update_powers(D, @, d.bank, D.spec.future[f.cmd].end, f.addr, now)]
handle_future_action(D, f, now, d) ==
  LET end == D.spec.future[f.cmd].end
  IN  [d EXCEPT !.power = update_powers(D, @, d.bank, end, f.addr, now), !.bank = update_states(D, @, end, f.addr)]

\* The vector is scanned from its back: what is due is handled and erased.
Scanned(D, f, now, d) ==
  IF f.clk = now THEN handle_future_action(D, f, now, d) ELSE [d EXCEPT !.left = <<f>> \o @]
Ended(D, now) ==
  LET n == Len(future)
      scan[i \in 0..n] == IF i = 0 THEN [power |-> power, bank |-> bank, left |-> << >>]
                          ELSE Scanned(D, future[n + 1 - i], now, scan[i - 1])
  IN  scan[n]

\* Cycles are natural numbers, as m_clk only counts up from 0.
Tick(D) ==
  LET later == { t \in Events(D) \cap Nat : t > clk }
      now   == Min(later)
      ended == Ended(D, now)
  IN  /\ phase = "ready" /\ later # {}
      /\ clk' = now /\ issued' = FALSE
      /\ power' = ended.power /\ bank' = ended.bank /\ future' = ended.left
      /\ UNCHANGED <<config, load, phase, ready, history, synced, energy, log>>

(***************************************************************************)
(* finalize, at the end of a run.                                           *)
(***************************************************************************)
Finalize(D) ==
  LET closed == [r \in D.ranks |-> finalize_rank(power[r], clk)]
      bankgroups(r) == Cardinality({ q[3] : q \in { q \in D.banks : Below(q, r) } })
  IN  /\ phase = "ready" /\ Len(log) = Loads[load].commands
      /\ phase' = "finalized" /\ power' = closed
      /\ energy' = [r \in D.ranks |-> process_rank_energy(closed[r], D.vals, D.spec.charged, bankgroups(r))]
      /\ UNCHANGED <<config, load, clk, issued, bank, ready, history, synced, future, log>>

Done == (phase # "ready" \/ load = 0) /\ UNCHANGED vars

Next ==
  \/ load # 0 /\ \E D \in {TheDevice} :
       ~Exits(D) /\ ((\E r \in Pending(D) : Issue(D, r)) \/ Tick(D) \/ Finalize(D))
  \/ Done
Spec == Init /\ [][Next]_vars

-----------------------------------------------------------------------------
(***************************************************************************)
(* Properties.                                                              *)
(***************************************************************************)
Running == load # 0 /\ phase \in {"ready", "finalized"}

\* Type correctness of the state of a device.
DeviceTypeOK ==
  /\ phase \in {"failed", "undefined", "ready", "finalized"}
  /\ clk \in Nat /\ issued \in BOOLEAN /\ load \in 0..Len(Loads)
  /\ load # 0 => \A D \in {TheDevice} :
       /\ \A q \in D.banks : /\ bank[q].state \in {"Closed", "Opened", "Pre-Opened", "Refreshing"}
                                      /\ bank[q].state # "Refreshing" => (bank[q].rows = {} <=> bank[q].state = "Closed")
       /\ \A r \in D.ranks : power[r].state \in {"IDLE", "ACTIVE", "REFRESHING"}
       /\ Len(log) <= Loads[load].commands
       /\ \A i \in DOMAIN future : future[i].cmd \in DOMAIN D.spec.future

\* Every preset initializes, with tables that name all their timings, tidy as the runs assume, with
\* constraints that hold something back, and that space the bursts on a bus.  The 1 Gb HBM and the 32 Gb
\* LPDDR5 have no entry in the tables they are looked up in; the write latency of the slow DDR3 is the
\* longer one, and a read of another rank then comes too early after a write.
NoTableEntry == {<<"HBM", 1>>, <<"LPDDR5", 32>>}
LateWrites(d, V) == d = "DDR3" /\ V.nCWL + V.nCWL > V.nCL + V.nCL + V.nCS
PresetsResolve ==
  load = 0 =>
    LET org  == set_organization(config[1], config[2], << >>)
        vals == set_timing_vals(config[1], config[3], org, << >>)
    IN  IF \E e \in NoTableEntry : e[1] = config[1] /\ e[2] = config[2] THEN phase = "undefined"
        ELSE /\ phase = "ready"
             /\ \A c \in constraints(config[1], vals) : c.latency > 0
             /\ \A D \in {TimedDevice(config[1], org, vals)} :
                  /\ TablesAreTidy(D)
                  /\ Bused(config[1]) => (BurstsAreSpaced(D) <=> ~LateWrites(config[1], vals))

\* The commands issued respect the constraints as the table states them: between two commands, over the
\* nodes both address, over a window of commands, and towards the siblings of the nodes addressed.  Only
\* the HBM2 and its successors state constraints on the pseudochannel for PREA and REFab, which are
\* addressed to the channel and never look below it.
UncheckedByScope(D, p, cmd) == D.spec.levels[2] = "pseudochannel" /\ Len(p) > D.reach[cmd]
SinceFor(p, i) == Cardinality({ j \in i..Len(log) - 1 : log[j].cmd = log[i].cmd /\ Targeted(p, log[j].addr) })
TimingRespected ==
  load # 0 =>
    \A D \in {TheDevice} : LET n == Len(log) IN
        \A i \in 1..n - 1 : \A p \in D.nodes :
          LET entries == D.cons[Len(p)][log[i].cmd]
          IN  (Targeted(p, log[n].addr) /\ log[n].cmd \in DOMAIN entries /\ ~UncheckedByScope(D, p, log[n].cmd)) =>
                \A e \in entries[log[n].cmd] :
                  (\/ /\ ~e.sibling /\ Targeted(p, log[i].addr) /\ SinceFor(p, i) = e.window
                   \/ /\ e.sibling /\ ~Targeted(p, log[i].addr) /\ Targeted(Front(p), log[i].addr))
                  => log[n].clk >= log[i].clk + e.val

\* Two bursts never overlap on a data bus.  The PIM devices state no constraint for theirs; a write after
\* a read of another rank has its own, which falls short: it counts nBL + nCS from command to command, and
\* the burst of the read starts later after its command than that of the write.
Burst(D, e) ==
  LET start == e.clk + Latency(D, e.cmd)
  IN  start..(start + BurstLength(D) - 1)
SameBus(D, e, f) == e.addr[1] = f.addr[1] /\ (D.spec.levels[2] = "pseudochannel" => e.addr[2] = f.addr[2])
BurstsDisjoint ==
  load # 0 /\ log # << >> /\ Bused(config[1]) =>
    \A D \in {TheDevice} : LET e == Last(log)
    IN  e.cmd \in DataCommands(D) =>
          \A i \in 1..Len(log) - 1 :
            (/\ log[i].cmd \in DataCommands(D) /\ SameBus(D, log[i], e)
             /\ ~(WriteAfterRead(D, log[i].cmd, e.cmd) /\ log[i].addr[2] # e.addr[2]))
            => Burst(D, log[i]) \cap Burst(D, e) = {}

\* An access finds its row open: of the commands issued to its bank, the last one that opens, closes or
\* refreshes is the activation of that row.
AccessHitsOpenRow ==
  load # 0 /\ log # << >> =>
    \A D \in {TheDevice} :
    LET n == Len(log)
        q == NodeAt(log[n].addr, D.bankLevel)
        before == { i \in 1..n - 1 : Turns(D, log[i].cmd) /\ Covers(D, log[i], q) }
    IN  Looks(D, log[n].cmd) =>
          before # {} /\ log[Max(before)].cmd \in Activations /\ RowOf(D, log[Max(before)].addr) = RowOf(D, log[n].addr)

\* The banks that refresh are those some pending future action will end, each by one action that is not
\* yet overdue: no command closes or opens a bank under a refresh, and none is left refreshing.
RefreshHasItsEnd ==
  Running =>
    \A D \in {TheDevice} :
    LET ends(q) == { i \in DOMAIN future : Covers(D, future[i], q) }
    IN  \A q \in D.banks :
          /\ bank[q].state = "Refreshing" <=> ends(q) # {}
          /\ Cardinality(ends(q)) <= 1 /\ \A i \in ends(q) : future[i].clk > clk

\* Activations and precharges balance: those counted for a rank differ by the banks it has open.
ActsBalancePres ==
  Running =>
    \A D \in {TheDevice} : \A r \in D.ranks :
          LET count == power[r].cmd_counters
          IN  count.ACT - count.PRE = get_open_bank_count(bank, { q \in D.banks : Below(q, r) })

\* Every cycle of a run is charged once: the background energies and the refreshes, each one cycle longer
\* than the time the rank spends in it, add up to the cycles run, unless the run ended in a refresh or
\* had one of the same-bank commands of the DDR5 in it (Unaccounted).
CyclesAccounted ==
  phase = "finalized" /\ (\A i \in DOMAIN log : log[i].cmd \notin Unaccounted) =>
    \A r \in TheDevice.ranks :
      LET e == energy[r]
      IN  \/ power[r].state = "REFRESHING"
          \/ e.act_background + e.pre_background + e.cmd.REF - power[r].cmd_counters.REF = clk

\* The prerequisites of a request lead to its command: a row hit needs none, or an LPDDR5's synchronization, and
\* every other state is a few commands away from it (LPDDR5 activates in two and synchronizes).  Left out are
\* an access of the LPDDR5 to a row other than 0, which never comes to its command (ServedWhenAlone), and the
\* row hit of a bank between its two activations, a state the program ends in.
Advance(D, s, r) ==
  LET cmd == get_preq_command(D, s.bank, s.synced, FinalCommand(D, r), r.addr, clk)
  IN  IF cmd = FinalCommand(D, r) THEN s
      ELSE [bank |-> update_states(D, s.bank, cmd, r.addr), synced |-> SyncedAfter(s.synced, LPDDR5_sync, cmd, clk)]
Served(D, r) == Asker(D, FinalCommand(D, r)) = "RequireSynced" => RowOf(D, r.addr) = 0
AdvanceTwice(D, s, r) == Advance(D, Advance(D, s, r), r)
PrerequisitesLead ==
  Running =>
    \A D \in {TheDevice} : \A r \in { s \in Loads[load].requests : Served(D, s) } :
    LET final == FinalCommand(D, r)
        twice == AdvanceTwice(D, [bank |-> bank, synced |-> SyncedOf(r.addr)], r)
        led   == IF config[1] = "LPDDR5" THEN AdvanceTwice(D, twice, r) ELSE twice
    IN  /\ get_preq_command(D, led.bank, led.synced, final, r.addr, clk) = final
        /\ final \in D.spec.rowhits \ CompressedCommands /\ bank[NodeAt(r.addr, D.bankLevel)].state # "Pre-Opened" =>
             (check_rowbuffer_hit(D, bank, final, r.addr) <=> NextCommand(D, r) \in {final, "CASRD", "CASWR"})

\* What a device answers of its state leads to the command asked for: the only request of a run has been
\* served by the time five commands were issued, of whatever row it is.
ServedWhenAlone ==
  load # 0 /\ Len(log) >= 5 =>
    \A D \in {TheDevice} : \A r \in Loads[load].requests :
      Loads[load].requests = {r} => \E i \in DOMAIN log : log[i].cmd = FinalCommand(D, r)

=============================================================================
