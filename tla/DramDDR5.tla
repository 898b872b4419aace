------------------------------- MODULE DramDDR5 -------------------------------
(***************************************************************************)
(* The DDR5 device models: DDR5, with victim row refresh (VRR), and with      *)
(* reduced refreshes besides (RVRR, RRFMsb).  Refresh commands come in a       *)
(* form for the whole rank (ab) and one for the banks with one id in every     *)
(* bank group (sb).                                                            *)
(***************************************************************************)
EXTENDS DramSpec

RankRefreshes == {"REFab", "RFMab", "DRFMab"}
SameBankRefreshes == {"REFsb", "RFMsb", "DRFMsb"}

\* The command that ends a refresh.
Ends(cmd) == [REFab |-> "REFab_end", REFsb |-> "REFsb_end", RFMab |-> "RFMab_end",
              RFMsb |-> "RFMsb_end", DRFMab |-> "DRFMab_end", DRFMsb |-> "DRFMsb_end",
              RRFMsb |-> "RRFMsb_end", VRR |-> "VRR_end", RVRR |-> "RVRR_end"][cmd]
Endings(cmds) == { Ends(c) : c \in cmds }

(***************************************************************************)
(* DDR5                                                                     *)
(***************************************************************************)
DDR5_org_presets ==
  [o \in {8, 16, 32} \X {4, 8, 16} |->
     LET gb == o[1]  dq == o[2]
     IN  Org(gb * 2^10, dq,
             [channel |-> 1, rank |-> 1, bankgroup |-> IF dq = 16 THEN 4 ELSE 8,
              bank |-> IF gb = 8 THEN 2 ELSE 4, row |-> IF gb = 32 THEN 2^17 ELSE 2^16,
              column |-> IF dq = 4 THEN 2^11 ELSE 2^10])]

\* The bins of 3200 MT/s by their CAS latency.
DDR5_bins == [AN |-> 24, BN |-> 26, C |-> 28]
DDR5_timing_presets ==
  [p \in {3200} \X DOMAIN DDR5_bins |->
     LET nCL == DDR5_bins[p[2]]  nCWL == nCL - 2  unset == -1
     IN  [rate |-> p[1], nBL |-> 8, nCL |-> nCL, nRCD |-> nCL, nRP |-> nCL, nRAS |-> 52,
          nRC |-> 51 + nCL, nWR |-> 48, nRTP |-> 12, nCWL |-> nCWL, nPPD |-> 2,
          nCCDS |-> 8, nCCDS_WR |-> 8, nCCDS_WTR |-> nCWL + 8 + 4,
          nCCDL |-> 8, nCCDL_WR |-> 16, nCCDL_WTR |-> nCWL + 8 + 16,
          nRRDS |-> 8, nRRDL |-> unset, nFAW |-> unset, nRFC1 |-> unset, nRFC2 |-> unset,
          nRFCsb |-> unset, nREFI |-> unset, nREFSBRD |-> 30, nRFM1 |-> unset, nRFM2 |-> unset,
          nRFMsb |-> unset, nDRFMab |-> unset, nDRFMsb |-> unset, nCS |-> 2, tCK_ps |-> 625]]

DDR5_command_scopes ==
  [ACT |-> "row", PRE |-> "bank", PREA |-> "rank", PREsb |-> "bank", RD |-> "column", WR |-> "column",
   RDA |-> "column", WRA |-> "column"]
  @@ [c \in RankRefreshes \cup Endings(RankRefreshes) |-> "rank"]
  @@ [c \in SameBankRefreshes \cup Endings(SameBankRefreshes) |-> "bank"]

DDR5_command_meta ==
  [ACT |-> {"open"}, PRE |-> {"close"}, PREA |-> {"close"}, PREsb |-> {"close"}, RD |-> {"access"},
   WR |-> {"access"}, RDA |-> {"close", "access"}, WRA |-> {"close", "access"}]
  @@ [c \in RankRefreshes \cup SameBankRefreshes |-> {"refresh"}]
  @@ [c \in Endings(RankRefreshes \cup SameBankRefreshes) |-> {"close"}]

DDR5_requests ==
  "read" :> "RD" @@ "write" :> "WR" @@ "all-bank-refresh" :> "REFab" @@ "same-bank-refresh" :> "REFsb" @@
  "rfm" :> "RFMab" @@ "same-bank-rfm" :> "RFMsb" @@ "directed-rfm" :> "DRFMab" @@
  "same-bank-directed-rfm" :> "DRFMsb" @@ "open-row" :> "ACT" @@ "close-row" :> "PRE"

DDR5_set_organization(name, sizes) ==
  Organized(DDR5_org_presets, name, sizes, {"bankgroup", "bank", "row", "column"})

\* Rows refreshed on either side of an aggressor, and the bounded refresh configuration.
RH_radius == 2
BRC == 2

DDR5_nFAW == << <<40>>, <<32>>, <<32>> >>
DDR5_base_timings(preset, org) ==
  LET dq_id   == Id(<<4, 8, 16>>, org.dq)
      rate_id == Id(<<3200>>, preset.rate)
      density_id == Id(<<8192, 16384, 32768>>, org.density)
      tCK_ps  == 1000000 \div (preset.rate \div 2)
      cycles(table) == JEDEC_rounding_DDR5(At(table, density_id), tCK_ps)
      nRFC1 == cycles(<<195, 295, 410>>)  nRFC2 == cycles(<<130, 160, 220>>)
      nRFCsb == cycles(<<115, 130, 190>>)
      refresh ==
        [tCK_ps |-> tCK_ps, nRFC1 |-> nRFC1, nRFC2 |-> nRFC2, nRFCsb |-> nRFCsb,
         nREFI |-> JEDEC_rounding_DDR5(3900, tCK_ps), nRFM1 |-> nRFC1, nRFM2 |-> nRFC2,
         nRFMsb |-> nRFCsb * RH_radius, nDRFMab |-> 2 * BRC * cycles(<<70, 70, 70>>),
         nDRFMsb |-> 2 * BRC * cycles(<<60, 60, 60>>),
         nCCDL_WR |-> IF dq_id = 1 THEN At(<<32>>, rate_id) ELSE preset.nCCDL_WR]
  IN  (IF dq_id = 0 \/ rate_id = 0 THEN refresh
       ELSE refresh @@ [nRRDL |-> 5, nFAW |-> DDR5_nFAW[dq_id][rate_id]]) @@ preset
DDR5_set_timing_vals(speed, org, user) ==
  IF speed \notin DOMAIN DDR5_timing_presets THEN Error
  ELSE Checked(Overridden(DDR5_base_timings(DDR5_timing_presets[speed], org), user))

\* The constraints; the commands that occupy the command bus for two cycles hold everything back.
DDR5_constraints(V) ==
  LET restore == V.nCWL + V.nBL + V.nWR
      rowWork == {"ACT"} \cup SameBankRefreshes
      everyRefresh(cmd, latency) ==
        Con("rank", {cmd}, {"ACT", "PREA"} \cup RankRefreshes \cup SameBankRefreshes, latency)
  IN
  { Con("channel", {"ACT"} \cup Reads \cup Writes, DOMAIN DDR5_command_scopes, 2),
    Con("channel", Reads, Reads, V.nBL), Con("channel", Writes, Writes, V.nBL),
    \* rank, or different bank groups
    Con("rank", Reads, Reads, V.nCCDS), Con("rank", Writes, Writes, V.nCCDS_WR),
    Con("rank", Reads, Writes, V.nCL + V.nBL + 2 - V.nCWL + 2), Con("rank", Writes, Reads, V.nCCDS_WTR),
    Sibling(Con("rank", Reads, Reads \cup Writes, V.nBL + V.nCS)),
    Sibling(Con("rank", Writes, Reads, V.nCL + V.nBL + V.nCS - V.nCWL)),
    Con("rank", {"RD"}, {"PREA"}, V.nRTP), Con("rank", {"WR"}, {"PREA"}, restore),
    Con("rank", {"ACT"}, {"ACT"}, V.nRRDS), Window(Con("rank", {"ACT"}, {"ACT"}, V.nFAW), 4),
    Con("rank", {"ACT"}, {"PREA"}, V.nRAS), Con("rank", {"PREA"}, {"ACT"}, V.nRP),
    Con("rank", {"ACT"}, RankRefreshes, V.nRC), Con("rank", {"PRE", "PREsb"}, RankRefreshes, V.nRP),
    Con("rank", {"PREA"}, RankRefreshes \cup SameBankRefreshes, V.nRP),
    Con("rank", {"RDA"}, RankRefreshes, V.nRP + V.nRTP), Con("rank", {"WRA"}, RankRefreshes, restore + V.nRP),
    everyRefresh("REFab", V.nRFC1), everyRefresh("RFMab", V.nRFM1), everyRefresh("DRFMab", V.nDRFMab),
    Con("rank", {"REFsb"}, {"PREA"} \cup RankRefreshes, V.nRFCsb),
    Con("rank", {"RFMsb"}, {"PREA"} \cup RankRefreshes, V.nRFMsb),
    Con("rank", {"DRFMsb"}, {"PREA"} \cup RankRefreshes, V.nDRFMsb),
    \* same bank group
    Con("bankgroup", Reads, Reads, V.nCCDL), Con("bankgroup", Writes, Writes, V.nCCDL_WR),
    Con("bankgroup", Writes, Reads, V.nCCDL_WTR), Con("bankgroup", {"ACT"}, {"ACT"}, V.nRRDL),
    \* bank
    Con("bank", {"ACT"}, rowWork, V.nRC), Con("bank", {"ACT"}, Reads \cup Writes, V.nRCD),
    Con("bank", {"ACT"}, {"PRE", "PREsb"}, V.nRAS), Con("bank", {"PRE", "PREsb"}, rowWork, V.nRP),
    Con("bank", {"RD"}, {"PRE", "PREsb"}, V.nRTP), Con("bank", {"WR"}, {"PRE", "PREsb"}, restore),
    Con("bank", {"RDA"}, rowWork, V.nRTP + V.nRP), Con("bank", {"WRA"}, rowWork, restore + V.nRP),
    Con("bank", {"WR"}, {"RDA"}, restore - V.nRTP),
    Con("bank", {"REFsb"}, rowWork, V.nRFCsb), Con("bank", {"RFMsb"}, rowWork, V.nRFMsb),
    Con("bank", {"DRFMsb"}, rowWork, V.nDRFMsb) }

DDR5_actions ==
  <<"rank", "PREA">> :> "PREab"
  @@ [k \in {"rank"} \X RankRefreshes |-> "REFab"] @@ [k \in {"rank"} \X Endings(RankRefreshes) |-> "REFab_end"]
  @@ <<"bankgroup", "PREsb">> :> "PREsb" @@ [k \in {"bankgroup"} \X SameBankRefreshes |-> "REFsb"]
  @@ [k \in {"bankgroup"} \X Endings(SameBankRefreshes) |-> "REFsb_end"]
  @@ <<"bank", "ACT">> :> "ACT" @@ [k \in {"bank"} \X {"PRE", "RDA", "WRA"} |-> "PRE"]

DDR5_preqs ==
  [k \in {"rank"} \X RankRefreshes |-> "RequireAllBanksClosed"]
  @@ [k \in {"rank"} \X SameBankRefreshes |-> "RequireSameBanksClosed"]
  @@ [k \in {"bank"} \X {"RD", "WR", "ACT"} |-> "RequireRowOpen"] @@ <<"bank", "PRE">> :> "RequireBankClosed"

DDR5_rowhits == {"RD", "WR"}

\* REFsb, RFMab, DRFMab and DRFMsb have no handler (their lines are commented out).
DDR5_powers ==
  [k \in ({"bank"} \X {"ACT", "PRE", "RD", "WR"})
         \cup ({"rank"} \X {"ACT", "PRE", "PREA", "REFab", "REFab_end", "RFMsb", "RFMsb_end", "PREsb"}) |-> k[2]]

\* The commands counted, and the timing each charges; an RFM in every bank group.
DDR5_cmds_counted ==
  [ACT |-> "nRAS", PRE |-> "nRP", RD |-> "nBL", WR |-> "nBL", REF |-> "nRFC1", RFM |-> "nRFMsb"]

Future(cmd, timing) == cmd :> [end |-> Ends(cmd), after |-> timing]
DDR5_future_actions ==
  Future("REFab", "nRFC1") @@ Future("REFsb", "nRFCsb") @@ Future("RFMab", "nRFM1") @@
  Future("RFMsb", "nRFMsb") @@ Future("DRFMab", "nDRFMab") @@ Future("DRFMsb", "nDRFMsb")
DDR5_issue_command == <<"timing", "powers", "states">>

DDR5_levels == <<"channel", "rank", "bankgroup", "bank", "row", "column">>
DDR5 == [levels |-> DDR5_levels, scope |-> DDR5_command_scopes, meta |-> DDR5_command_meta,
         requests |-> DDR5_requests, actions |-> DDR5_actions, preqs |-> DDR5_preqs,
         rowhits |-> DDR5_rowhits, powers |-> DDR5_powers, future |-> DDR5_future_actions,
         charged |-> DDR5_cmds_counted, issue |-> DDR5_issue_command]

(***************************************************************************)
(* A refresh of the victim rows in one bank waits where an ACT of the bank   *)
(* waits, and holds PREA and the refreshes back while it lasts.               *)
(***************************************************************************)
WithVictimRefresh5(cons, cmd, latency) ==
  LET alsoWaits(c) == /\ "ACT" \in c.following
                      /\ c.level = "bank" \/ c.preceding \in {{"PREA"}} \cup {{r} : r \in RankRefreshes}
  IN  { IF alsoWaits(c) THEN [c EXCEPT !.following = @ \cup {cmd}] ELSE c : c \in cons }
      \cup { Con("rank", {cmd}, {"PREA"}, latency), Con("rank", {cmd}, RankRefreshes, latency),
             Con("bank", {cmd}, {"ACT", "VRR", cmd} \cup SameBankRefreshes, latency) }

\* A longer list of commands: the command bus constraint reaches every one.
OnCommandBus(cons, commands) ==
  { IF c.level = "channel" /\ "ACT" \in c.following THEN [c EXCEPT !.following = commands] ELSE c : c \in cons }

DDR5VRR_org_presets    == DDR5_org_presets
DDR5VRR_timing_presets == [p \in DOMAIN DDR5_timing_presets |-> [nVRR |-> -1] @@ DDR5_timing_presets[p]]
DDR5VRR_command_scopes == DDR5_command_scopes @@ [VRR |-> "bank", VRR_end |-> "bank"]
DDR5VRR_command_meta   == DDR5_command_meta @@ [VRR |-> {"refresh"}, VRR_end |-> {"close"}]
DDR5VRR_requests       == DDR5_requests @@ "victim-row-refresh" :> "VRR" @@ "close-all-bank" :> "PREA"

DDR5VRR_set_organization(name, sizes) ==
  Organized(DDR5VRR_org_presets, name, sizes, {"bankgroup", "bank", "row", "column"})

\* tRAS, when the user gives it (REGA), is applied before the tables.
WithREGA(preset, user) ==
  LET tCK_ps == 1000000 \div (preset.rate \div 2)
      nRAS   == JEDEC_rounding_DDR5(user["tRAS"], tCK_ps)
  IN  IF "tRAS" \in DOMAIN user THEN [preset EXCEPT !.nRAS = nRAS, !.nRC = nRAS + preset.nRP] ELSE preset

\* Per-row activation counting replaces the row timings (JESD79-5C tables 343 and 347).
WithPRAC(vals, user) ==
  LET cycles(ns) == JEDEC_rounding_DDR5(ns, vals.tCK_ps)
  IN  IF "PRAC" \notin DOMAIN user THEN vals
      ELSE [vals EXCEPT !.nRAS = cycles(16), !.nRP = cycles(36), !.nRC = cycles(52), !.nRTP = cycles(5),
                        !.nWR = cycles(10), !.nRFM1 = (2 * BRC + 1) * cycles(70),
                        !.nRFMsb = (2 * BRC + 1) * cycles(60)]

DDR5VRR_nVRR(vals) == [vals EXCEPT !.nVRR = JEDEC_rounding_DDR5(60 * RH_radius * 2, vals.tCK_ps)]
DDR5VRR_set_timing_vals(speed, org, user) ==
  IF speed \notin DOMAIN DDR5VRR_timing_presets THEN Error
  ELSE Checked(Overridden(
         WithPRAC(DDR5VRR_nVRR(DDR5_base_timings(WithREGA(DDR5VRR_timing_presets[speed], user), org)), user), user))

DDR5VRR_constraints(V) ==
  OnCommandBus(WithVictimRefresh5(DDR5_constraints(V), "VRR", V.nVRR), DOMAIN DDR5VRR_command_scopes)

DDR5VRR_actions == DDR5_actions @@ <<"bank", "VRR">> :> "VRR" @@ <<"bank", "VRR_end">> :> "VRR_end"
DDR5VRR_preqs   ==
  DDR5_preqs @@ <<"rank", "PREA">> :> "RequireAllBanksClosed" @@ <<"bank", "VRR">> :> "RequireBankClosed"
DDR5VRR_rowhits == DDR5_rowhits
DDR5VRR_powers  ==
  DDR5_powers @@ <<"bank", "VRR">> :> "VRR" @@ <<"rank", "VRR">> :> "VRR" @@ <<"rank", "VRR_end">> :> "VRR_end"
DDR5VRR_cmds_counted == DDR5_cmds_counted @@ [VRR |-> "nVRR"]
DDR5VRR_future_actions == DDR5_future_actions @@ Future("VRR", "nVRR")
DDR5VRR_issue_command  == <<"timing", "powers", "states">>

DDR5VRR == [levels |-> DDR5_levels, scope |-> DDR5VRR_command_scopes, meta |-> DDR5VRR_command_meta,
            requests |-> DDR5VRR_requests, actions |-> DDR5VRR_actions, preqs |-> DDR5VRR_preqs,
            rowhits |-> DDR5VRR_rowhits, powers |-> DDR5VRR_powers, future |-> DDR5VRR_future_actions,
            charged |-> DDR5VRR_cmds_counted, issue |-> DDR5VRR_issue_command]

(***************************************************************************)
(* DDR5-RVRR: a reduced victim row refresh and a reduced same-bank RFM take   *)
(* the restoration part of the full one times latency_factor_vrr, in percent. *)
(***************************************************************************)
DDR5RVRR_latency_factor_vrr == 60
DDR5RVRR_latency_factor_rfc == 80
Reduced5(nCycles, vals, percent) ==
  (nCycles * (percent * vals.nRAS + 100 * vals.nRP)) \div (100 * (vals.nRAS + vals.nRP))
DDR5RVRR_nVRR(vals) == [vals EXCEPT !.nVRR = JEDEC_rounding_DDR5(70 * RH_radius * 2, vals.tCK_ps)]
DDR5RVRR_reduced(vals) ==
  [vals EXCEPT !.nRVRR = Reduced5(vals.nVRR, vals, DDR5RVRR_latency_factor_vrr),
               !.nRRFMsb = Reduced5(vals.nRFMsb, vals, DDR5RVRR_latency_factor_vrr)]
DDR5RVRR_nRFC1(vals) ==
  IF vals = Error \/ DDR5RVRR_latency_factor_rfc = 100 THEN vals
  ELSE [vals EXCEPT !.nRFC1 = Reduced5(@, vals, DDR5RVRR_latency_factor_rfc)]

DDR5RVRR_org_presets    == DDR5_org_presets
DDR5RVRR_timing_presets ==
  [p \in DOMAIN DDR5_timing_presets |-> [nRVRR |-> -1, nRRFMsb |-> -1] @@ DDR5VRR_timing_presets[p]]
DDR5RVRR_command_scopes ==
  DDR5VRR_command_scopes @@ [c \in {"RRFMsb", "RVRR"} \cup Endings({"RRFMsb", "RVRR"}) |-> "bank"]
DDR5RVRR_command_meta ==
  DDR5VRR_command_meta @@ [c \in {"RRFMsb", "RVRR"} |-> {"refresh"}] @@ [c \in Endings({"RRFMsb", "RVRR"}) |-> {"close"}]
DDR5RVRR_requests ==
  DDR5_requests @@ "reduced-same-bank-rfm" :> "RRFMsb" @@ "victim-row-refresh" :> "VRR" @@
  "reduced-victim-row-refresh" :> "RVRR"

DDR5RVRR_set_organization(name, sizes) ==
  Organized(DDR5RVRR_org_presets, name, sizes, {"bankgroup", "bank", "row", "column"})

DDR5RVRR_set_timing_vals(speed, org, user) ==
  IF speed \notin DOMAIN DDR5RVRR_timing_presets THEN Error
  ELSE DDR5RVRR_nRFC1(Checked(Overridden(
         DDR5RVRR_reduced(DDR5RVRR_nVRR(DDR5_base_timings(DDR5RVRR_timing_presets[speed], org))), user)))

\* RRFMsb waits where RFMsb does and holds back what RFMsb does.
DDR5RVRR_constraints(V) ==
  LET victim == WithVictimRefresh5(WithVictimRefresh5(DDR5_constraints(V), "VRR", V.nVRR), "RVRR", V.nRVRR)
      waits  == { IF "RFMsb" \in c.following THEN [c EXCEPT !.following = @ \cup {"RRFMsb"}] ELSE c : c \in victim }
      holds  == { [c EXCEPT !.preceding = {"RRFMsb"}, !.latency = V.nRRFMsb] :
                    c \in { c \in waits : c.preceding = {"RFMsb"} } }
  IN  OnCommandBus(waits \cup holds, DOMAIN DDR5RVRR_command_scopes)

DDR5RVRR_actions ==
  DDR5VRR_actions @@ <<"bankgroup", "RRFMsb">> :> "REFsb" @@ <<"bankgroup", "RRFMsb_end">> :> "REFsb_end" @@
  <<"bank", "RVRR">> :> "VRR" @@ <<"bank", "RVRR_end">> :> "VRR_end"
DDR5RVRR_preqs ==
  DDR5_preqs @@ <<"rank", "RRFMsb">> :> "RequireSameBanksClosed" @@
  [k \in {"bank"} \X {"VRR", "RVRR"} |-> "RequireBankClosed"]
DDR5RVRR_rowhits == DDR5_rowhits
DDR5RVRR_powers  ==
  DDR5VRR_powers @@ <<"bank", "RVRR">> :> "RVRR" @@ <<"rank", "RRFMsb">> :> "RRFMsb" @@
  <<"rank", "RRFMsb_end">> :> "RRFMsb_end" @@ <<"rank", "RVRR">> :> "VRR" @@ <<"rank", "RVRR_end">> :> "VRR_end"
DDR5RVRR_cmds_counted == DDR5VRR_cmds_counted @@ [RRFM |-> "nRRFMsb", RVRR |-> "nRVRR"]
DDR5RVRR_future_actions == DDR5VRR_future_actions @@ Future("RRFMsb", "nRRFMsb") @@ Future("RVRR", "nRVRR")
DDR5RVRR_issue_command  == <<"timing", "powers", "states">>

DDR5RVRR == [levels |-> DDR5_levels, scope |-> DDR5RVRR_command_scopes, meta |-> DDR5RVRR_command_meta,
             requests |-> DDR5RVRR_requests, actions |-> DDR5RVRR_actions, preqs |-> DDR5RVRR_preqs,
             rowhits |-> DDR5RVRR_rowhits, powers |-> DDR5RVRR_powers, future |-> DDR5RVRR_future_actions,
             charged |-> DDR5RVRR_cmds_counted, issue |-> DDR5RVRR_issue_command]

=============================================================================
