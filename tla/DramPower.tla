------------------------------ MODULE DramPower ------------------------------
(***************************************************************************)
(* The power model of a rank (src/ramulator2/src/dram/lambdas/power.h): the    *)
(* cycles it spends with a bank open, with all banks precharged, and in an   *)
(* all-bank refresh, and the commands counted.  Voltages and currents only   *)
(* scale these, so an energy is given here in cycles.                        *)
(***************************************************************************)
EXTENDS DramNode

InitStats(counted) ==
  [state |-> "IDLE", active_cycles |-> 0, idle_cycles |-> 0, active_start_cycle |-> -1, idle_start_cycle |-> 0,
   cmd_counters |-> [c \in counted |-> 0]]

Counting(s, c, n) == [s EXCEPT !.cmd_counters[c] = @ + n]
WakingUp(s, clk) ==
  [s EXCEPT !.state = "ACTIVE", !.idle_cycles = @ + clk - s.idle_start_cycle, !.active_start_cycle = clk]
GoingIdle(s, clk) ==
  [s EXCEPT !.state = "IDLE", !.active_cycles = @ + clk - s.active_start_cycle, !.idle_start_cycle = clk]

get_open_bank_count(bank, banks)       == Cardinality({ q \in banks : bank[q].state = "Opened" })
get_refreshing_bank_count(bank, banks) == Cardinality({ q \in banks : bank[q].state = "Refreshing" })

(***************************************************************************)
(* The handlers of a rank: open and refreshing are its bank counts before    *)
(* the command.                                                             *)
(***************************************************************************)
ACT(s, open, refreshing, clk) == IF open = 0 /\ refreshing = 0 THEN WakingUp(s, clk) ELSE s
PRE(s, open, refreshing, clk) == IF open = 1 /\ refreshing = 0 THEN GoingIdle(s, clk) ELSE s

\* Asserts that no bank is refreshing.
\* Mutant: one precharge is counted for all the banks.
PREA_CountsOne(s, open, refreshing, clk) ==
  IF open = 0 /\ refreshing = 0 THEN Counting(s, "PRE", 1) ELSE GoingIdle(Counting(s, "PRE", 1), clk)
PREA(s, open, refreshing, clk) ==
  LET counted == Counting(s, "PRE", open)
  IN  IF open = 0 /\ refreshing = 0 THEN counted ELSE GoingIdle(counted, clk)

\* The rank is taken to be idle.
REFab(s, clk) ==
  [Counting(s, "REF", 1) EXCEPT !.state = "REFRESHING", !.idle_cycles = @ + clk - s.idle_start_cycle]
\* Mutant: the idle time goes on from before the refresh.
REFab_end_KeepsStart(s, clk) == [s EXCEPT !.state = "IDLE"]
REFab_end(s, clk) == [s EXCEPT !.state = "IDLE", !.idle_start_cycle = clk]

VRR(s, open, refreshing, clk)     == ACT(s, open, refreshing, clk)
VRR_end(s, open, refreshing, clk) == IF open = 0 /\ refreshing = 1 THEN GoingIdle(s, clk) ELSE s

RFMsb(s, open, refreshing, clk)  == ACT(Counting(s, "RFM", 1), open, refreshing, clk)
RRFMsb(s, open, refreshing, clk) == ACT(Counting(s, "RRFM", 1), open, refreshing, clk)

\* The one same-bank refresh in progress covers a bank of each bank group.
RFMsb_end(s, open, refreshing, num_bankgroups, clk) ==
  IF open = 0 /\ refreshing = num_bankgroups THEN GoingIdle(s, clk) ELSE s
RRFMsb_end(s, open, refreshing, num_bankgroups, clk) == RFMsb_end(s, open, refreshing, num_bankgroups, clk)

PREsb(s, open, open_target_banks, clk) ==
  LET counted == Counting(s, "PRE", open_target_banks)
  IN  IF open = open_target_banks THEN GoingIdle(counted, clk) ELSE counted

RankHandler(handler, s, bank, banks, addr, clk) ==
  LET open       == get_open_bank_count(bank, banks)
      refreshing == get_refreshing_bank_count(bank, banks)
      bankgroups == Cardinality({ q[3] : q \in banks })
      target     == { q \in banks : q[Len(q)] = addr[Len(q)] }
  IN  CASE handler = "ACT"     -> ACT(s, open, refreshing, clk)
        [] handler = "PRE"     -> PRE(s, open, refreshing, clk)
        [] handler = "PREA"    -> PREA(s, open, refreshing, clk)
        [] handler = "REFab"   -> REFab(s, clk)
        [] handler = "REFab_end" -> REFab_end(s, clk)
        [] handler = "VRR"     -> VRR(s, open, refreshing, clk)
        [] handler = "VRR_end" -> VRR_end(s, open, refreshing, clk)
        [] handler = "RFMsb"   -> RFMsb(s, open, refreshing, clk)
        [] handler = "RFMsb_end"  -> RFMsb_end(s, open, refreshing, bankgroups, clk)
        [] handler = "RRFMsb"     -> RRFMsb(s, open, refreshing, clk)
        [] handler = "RRFMsb_end" -> RRFMsb_end(s, open, refreshing, bankgroups, clk)
        [] handler = "PREsb"   -> PREsb(s, open, get_open_bank_count(bank, target), clk)

\* Rank handler first, then the counter of each bank addressed.
update_powers(D, power, bank, cmd, addr, clk) ==
  LET rankHandled == 2 \in D.metering[cmd] /\ 2 <= D.reach[cmd]
      bankHandled == D.bankLevel \in D.metering[cmd] /\ D.bankLevel <= D.reach[cmd]
      powers == D.spec.powers
  IN  [r \in D.ranks |->
         LET banks == { q \in D.banks : Below(q, r) }
             s == IF rankHandled THEN RankHandler(powers[<<"rank", cmd>>], power[r], bank, banks, addr, clk)
                  ELSE power[r]
         IN  IF ~Targeted(r, addr) THEN power[r]
             ELSE IF bankHandled
             THEN Counting(s, powers[<<"bank", cmd>>], Cardinality({ q \in banks : Targeted(q, addr) }))
             ELSE s]

finalize_rank(s, clk) ==
  CASE s.state = "IDLE"       -> [s EXCEPT !.idle_cycles = @ + clk - s.idle_start_cycle]
    [] s.state = "ACTIVE"     -> [s EXCEPT !.active_cycles = @ + clk - s.active_start_cycle]
    [] s.state = "REFRESHING" -> s

\* The cycles each energy term of a rank is proportional to; charged names the timing of each counter.
process_rank_energy(s, vals, charged, num_bankgroups) ==
  [act_background |-> s.active_cycles, pre_background |-> s.idle_cycles,
   cmd |-> [c \in DOMAIN charged |->
              s.cmd_counters[c] * vals[charged[c]] * (IF c \in {"RFM", "RRFM"} THEN num_bankgroups ELSE 1)]]

=============================================================================
