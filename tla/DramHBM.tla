------------------------------- MODULE DramHBM -------------------------------
(***************************************************************************)
(* The HBM device models: HBM, HBM2 and HBM3, and HBM3 with the PIM commands *)
(* (HBM3PIM) and its baseline without them.  Ranks are absent, HBM2 and HBM3 *)
(* split a channel in two pseudochannels, and a refresh has no end command   *)
(* and no effect on a bank's state.  An organization is named by its         *)
(* density in Gb.                                                            *)
(***************************************************************************)
EXTENDS DramSpec

(***************************************************************************)
(* HBM                                                                      *)
(***************************************************************************)
HBM_org_presets ==
  LET org(gb, banks, row) ==
        Org(gb * 2^10, 128, [channel |-> 1, bankgroup |-> 4, bank |-> banks, row |-> row, column |-> 2^7])
  IN  1 :> org(1, 2, 2^13) @@ 2 :> org(2, 2, 2^14) @@ 4 :> org(4, 4, 2^14)

\* The one speed, 2 Gbps, by the burst length.
HBM_speed(nBL) ==
  [rate |-> 2000, nBL |-> nBL, nCL |-> 7, nRCDRD |-> 7, nRCDWR |-> 7, nRP |-> 7, nRAS |-> 17, nRC |-> 19,
   nWR |-> 8, nRTPS |-> 2, nRTPL |-> 3, nCWL |-> 2, nCCDS |-> 1, nCCDL |-> 2, nRRDS |-> 2, nRRDL |-> 3,
   nWTRS |-> 3, nWTRL |-> 4, nRTW |-> 3, nFAW |-> 15, nRFC |-> -1, nRFCSB |-> 160, nREFI |-> 3900,
   nREFISB |-> -1, nRREFD |-> 8, tCK_ps |-> 1000]
HBM_timing_presets == "HBM_2Gbps" :> HBM_speed(2)

HBM_command_scopes ==
  [ACT |-> "row", PRE |-> "bank", PREA |-> "channel", RD |-> "column", WR |-> "column", RDA |-> "column",
   WRA |-> "column", REFab |-> "channel", REFsb |-> "bank"]

HBM_command_meta ==
  [ACT |-> {"open"}, PRE |-> {"close"}, PREA |-> {"close"}, RD |-> {"access"}, WR |-> {"access"},
   RDA |-> {"close", "access"}, WRA |-> {"close", "access"}, REFab |-> {"refresh"}, REFsb |-> {"refresh"}]

HBM_requests ==
  "read" :> "RD" @@ "write" :> "WR" @@ "all-bank-refresh" :> "REFab" @@ "per-bank-refresh" :> "REFsb"

HBM_set_organization(name, sizes) ==
  Organized(HBM_org_presets, name, sizes, {"bankgroup", "bank", "row", "column"})

\* Both refresh timings come from the tRFC table.
HBM_tRFC == <<160, 260, 350, 450>>
HBM_base_timings(preset, org) ==
  LET tCK_ps == 1000000 \div (preset.rate \div 2)
      nRFC   == JEDEC_rounding(At(HBM_tRFC, Id(<<2048, 4096, 8192, 16384>>, org.density)), tCK_ps)
  IN  [preset EXCEPT !.tCK_ps = tCK_ps, !.nRFC = nRFC, !.nREFISB = nRFC]
HBM_set_timing_vals(speed, org, user) ==
  IF speed \notin DOMAIN HBM_timing_presets THEN Error
  ELSE Checked(Overridden(HBM_base_timings(HBM_timing_presets[speed], org), user))

\* The row commands wait for the second cycle of ACT on the channel; the array timings bind one array.
HBM_array_constraints(V, array) ==
  LET restore == V.nCWL + V.nBL + V.nWR
  IN
  { Con("channel", {"ACT"}, {"ACT", "PRE", "PREA", "REFab", "REFsb"}, 2),
    Con(array, {"ACT"}, {"ACT"}, V.nRRDS), Window(Con(array, {"ACT"}, {"ACT"}, V.nFAW), 4),
    Con(array, {"ACT"}, {"REFsb"}, V.nRRDS + 1), Con(array, {"REFsb"}, {"REFsb"}, V.nRREFD),
    Con(array, {"REFsb"}, {"ACT"}, V.nRREFD - 1),
    Con(array, Reads, Reads, V.nBL), Con(array, Writes, Writes, V.nBL),
    Con(array, Reads, Reads, V.nCCDS), Con(array, Writes, Writes, V.nCCDS),
    Con(array, Reads, Writes, V.nCL + V.nBL + 2 - V.nCWL), Con(array, Writes, Reads, V.nCWL + V.nBL + V.nWTRS),
    Con(array, {"RD"}, {"PREA"}, V.nRTPS), Con(array, {"WR"}, {"PREA"}, restore),
    Con(array, {"ACT"}, {"PREA"}, V.nRAS), Con(array, {"PREA"}, {"ACT"}, V.nRP),
    Con(array, {"ACT"}, {"REFab"}, V.nRC), Con(array, {"PRE", "PREA"}, {"REFab"}, V.nRP),
    Con(array, {"RDA"}, {"REFab"}, V.nRP + V.nRTPS), Con(array, {"WRA"}, {"REFab"}, restore + V.nRP),
    Con(array, {"REFab"}, {"ACT", "REFsb"}, V.nRFC),
    Con("bankgroup", Reads, Reads, V.nCCDL), Con("bankgroup", Writes, Writes, V.nCCDL),
    Con("bankgroup", Writes, Reads, V.nCWL + V.nBL + V.nWTRL), Con("bankgroup", {"ACT"}, {"ACT"}, V.nRRDL),
    Con("bankgroup", {"ACT"}, {"REFsb"}, V.nRRDL + 1), Con("bankgroup", {"REFsb"}, {"ACT"}, V.nRRDL - 1),
    Con("bank", {"RD"}, {"PRE"}, V.nRTPS), Con("bank", {"ACT"}, {"ACT"}, V.nRC),
    Con("bank", {"ACT"}, Reads, V.nRCDRD), Con("bank", {"ACT"}, Writes, V.nRCDWR),
    Con("bank", {"ACT"}, {"PRE"}, V.nRAS), Con("bank", {"PRE"}, {"ACT"}, V.nRP),
    Con("bank", {"RD"}, {"PRE"}, V.nRTPL), Con("bank", {"WR"}, {"PRE"}, restore),
    Con("bank", {"RDA"}, {"ACT", "REFsb"}, V.nRTPL + V.nRP),
    Con("bank", {"WRA"}, {"ACT", "REFsb"}, restore + V.nRP) }
HBM_constraints(V) == HBM_array_constraints(V, "channel")

HBM_actions ==
  <<"channel", "PREA">> :> "PREab" @@ <<"bank", "ACT">> :> "ACT" @@
  [k \in {"bank"} \X {"PRE", "RDA", "WRA"} |-> "PRE"]
HBM_preqs ==
  <<"channel", "REFab">> :> "ChannelRequireAllBanksClosed" @@ <<"bank", "REFsb">> :> "RequireBankClosed" @@
  [k \in {"bank"} \X {"RD", "WR"} |-> "RequireRowOpen"]
HBM_rowhits == {"RD", "WR"}
HBM_issue_command == <<"timing", "states">>

HBM == [levels |-> <<"channel", "bankgroup", "bank", "row", "column">>, scope |-> HBM_command_scopes,
        meta |-> HBM_command_meta, requests |-> HBM_requests, actions |-> HBM_actions, preqs |-> HBM_preqs,
        rowhits |-> HBM_rowhits, powers |-> << >>, future |-> << >>, charged |-> << >>, issue |-> HBM_issue_command]

(***************************************************************************)
(* HBM2: the array timings are those of a pseudochannel.                    *)
(***************************************************************************)
PseudoOrg(gb, banks, row) ==
  Org(gb * 2^10, 128, [channel |-> 1, pseudochannel |-> 2, bankgroup |-> 4, bank |-> banks, row |-> row,
                       column |-> 2^6])
PseudoDensity == {"pseudochannel", "bankgroup", "bank", "row", "column"}

HBM2_org_presets == 2 :> PseudoOrg(2, 2, 2^14) @@ 4 :> PseudoOrg(4, 4, 2^14) @@ 8 :> PseudoOrg(8, 4, 2^15)
HBM2_timing_presets == "HBM2_2Gbps" :> HBM_speed(4)
HBM2_command_scopes == HBM_command_scopes
HBM2_command_meta   == HBM_command_meta
HBM2_requests       == HBM_requests
HBM2_set_organization(name, sizes) == Organized(HBM2_org_presets, name, sizes, PseudoDensity)
HBM2_base_timings(preset, org) == HBM_base_timings(preset, org)
HBM2_set_timing_vals(speed, org, user) ==
  IF speed \notin DOMAIN HBM2_timing_presets THEN Error
  ELSE Checked(Overridden(HBM2_base_timings(HBM2_timing_presets[speed], org), user))
HBM2_constraints(V) == HBM_array_constraints(V, "pseudochannel")
HBM2_actions == HBM_actions
HBM2_preqs   == HBM_preqs
HBM2_rowhits == HBM_rowhits
HBM2_issue_command == <<"timing", "states">>

HBM2 == [levels |-> <<"channel", "pseudochannel", "bankgroup", "bank", "row", "column">>,
         scope |-> HBM2_command_scopes, meta |-> HBM2_command_meta, requests |-> HBM2_requests,
         actions |-> HBM2_actions, preqs |-> HBM2_preqs, rowhits |-> HBM2_rowhits, powers |-> << >>,
         future |-> << >>, charged |-> << >>, issue |-> HBM2_issue_command]

(***************************************************************************)
(* HBM3: refresh management, timed like the refreshes, without prerequisite. *)
(***************************************************************************)
HBM3_org_presets == 2 :> PseudoOrg(2, 4, 2^13) @@ 4 :> PseudoOrg(4, 4, 2^14) @@ 8 :> PseudoOrg(8, 4, 2^15)
HBM3_timing_presets == "HBM3_2Gbps" :> HBM_speed(4)
HBM3_command_scopes == HBM2_command_scopes @@ [RFMab |-> "channel", RFMsb |-> "bank"]
HBM3_command_meta   == HBM2_command_meta @@ [RFMab |-> {"refresh"}, RFMsb |-> {"refresh"}]
HBM3_requests       == HBM2_requests @@ "all-bank-rfm" :> "RFMab" @@ "per-bank-rfm" :> "RFMsb"
HBM3_set_organization(name, sizes) == Organized(HBM3_org_presets, name, sizes, PseudoDensity)
HBM3_base_timings(preset, org) == HBM_base_timings(preset, org)
HBM3_set_timing_vals(speed, org, user) ==
  IF speed \notin DOMAIN HBM3_timing_presets THEN Error
  ELSE Checked(Overridden(HBM3_base_timings(HBM3_timing_presets[speed], org), user))
HBM3_constraints(V) ==
  LET with(cmds) == cmds \cup (IF "REFab" \in cmds THEN {"RFMab"} ELSE {})
                         \cup (IF "REFsb" \in cmds THEN {"RFMsb"} ELSE {})
  IN  { [c EXCEPT !.preceding = with(@), !.following = with(@)] : c \in HBM2_constraints(V) }
HBM3_actions == HBM_actions
HBM3_preqs   == HBM_preqs
HBM3_rowhits == HBM_rowhits
HBM3_issue_command == <<"timing", "states">>

HBM3 == [HBM2 EXCEPT !.scope = HBM3_command_scopes, !.meta = HBM3_command_meta, !.requests = HBM3_requests,
                     !.actions = HBM3_actions, !.preqs = HBM3_preqs, !.rowhits = HBM3_rowhits,
                     !.issue = HBM3_issue_command]

(***************************************************************************)
(* HBM3PIM_Baseline: few constraints, the states before the timing, RDA and  *)
(* WRA without an action.  RFMsb is absent from the scopes, REFsb twice      *)
(* there: RFMsb keeps level 0, the channel.                                  *)
(***************************************************************************)
HBM3PIM_Baseline_org_presets == HBM3_org_presets
HBM3PIM_Baseline_timing_presets ==
  "HBM3_2Gbps" :> ([nDEQUANT |-> 8] @@ [t \in DOMAIN HBM_speed(4) \ {"tCK_ps"} |-> HBM_speed(4)[t]])
HBM3PIM_Baseline_command_scopes == [HBM3_command_scopes EXCEPT !["RFMsb"] = "channel"]
HBM3PIM_Baseline_command_meta   == HBM3_command_meta
HBM3PIM_Baseline_requests == HBM3_requests @@ "kvcache_write" :> "WR" @@ "kvcache_read" :> "RD"

\* No density check; an unknown preset is an exception of the map, another way to stop.
CountsChecked(presets, name, sizes) ==
  IF name \notin DOMAIN presets THEN Error
  ELSE LET org == [presets[name] EXCEPT !.count = sizes @@ @]
       IN  IF \E l \in DOMAIN org.count : org.count[l] <= 0 THEN Error ELSE org
HBM3PIM_Baseline_set_organization(name, sizes) == CountsChecked(HBM3PIM_Baseline_org_presets, name, sizes)

\* tCK is a parameter of the device; the rate follows from it, and nothing is checked.
PIM_base_timings(preset) ==
  LET tCK_ps == 1000
  IN  [preset EXCEPT !.rate = 2000000 \div tCK_ps, !.nRFC = JEDEC_rounding(350, tCK_ps),
                     !.nREFISB = JEDEC_rounding(2438, tCK_ps), !.nREFI = JEDEC_rounding(3900, tCK_ps)]
HBM3PIM_Baseline_set_timing_vals(speed, org, user) ==
  IF speed \notin DOMAIN HBM3PIM_Baseline_timing_presets THEN Error
  ELSE LET vals == PIM_base_timings(HBM3PIM_Baseline_timing_presets[speed])
       IN  [t \in DOMAIN vals |-> IF t \in DOMAIN user THEN user[t] ELSE vals[t]]

HBM3PIM_Baseline_constraints(V) ==
  { Con("channel", {"ACT"}, {"ACT", "PRE", "PREA", "REFab", "REFsb"}, 2),
    Con("pseudochannel", {"ACT"}, {"ACT"}, V.nRRDS),
    Con("bank", {"ACT"}, {"ACT"}, V.nRC), Con("bank", {"ACT"}, {"RD", "WR"}, V.nRCDRD),
    Con("bank", {"ACT"}, {"PRE"}, V.nRAS), Con("bank", {"PRE"}, {"ACT"}, V.nRP),
    Con("bank", {"RD"}, {"PRE"}, V.nRTPS), Con("bank", {"WR"}, {"PRE"}, V.nCWL + V.nBL + V.nWR) }

HBM3PIM_Baseline_actions ==
  <<"channel", "PREA">> :> "PREab" @@ <<"bank", "ACT">> :> "ACT" @@ <<"bank", "PRE">> :> "PRE"
HBM3PIM_Baseline_preqs   == HBM_preqs
HBM3PIM_Baseline_rowhits == HBM_rowhits
HBM3PIM_Baseline_issue_command == <<"states", "timing">>

HBM3PIM_Baseline ==
  [HBM2 EXCEPT !.scope = HBM3PIM_Baseline_command_scopes, !.meta = HBM3PIM_Baseline_command_meta,
               !.requests = HBM3PIM_Baseline_requests, !.actions = HBM3PIM_Baseline_actions,
               !.preqs = HBM3PIM_Baseline_preqs, !.rowhits = HBM3PIM_Baseline_rowhits,
               !.issue = HBM3PIM_Baseline_issue_command]

(***************************************************************************)
(* HBM3PIM: quantization of a block, normal or outlier, before its write,    *)
(* and accesses to compressed blocks, which have no prerequisite.            *)
(***************************************************************************)
PimCommands == {"PIM_QUANTIZE", "PIM_OUTLIER"}
CompressedCommands == {"RD_COMP", "WR_COMP"}

HBM3PIM_org_presets == HBM3_org_presets
HBM3PIM_timing_presets ==
  "HBM3_2Gbps" :> ([nQUANT |-> 10, nOUTLIER |-> 15, nBL_COMP |-> 1]
                   @@ [t \in DOMAIN HBM_speed(4) \ {"tCK_ps"} |-> HBM_speed(4)[t]])
HBM3PIM_command_scopes ==
  HBM3PIM_Baseline_command_scopes @@ [c \in PimCommands |-> "bank"] @@ [c \in CompressedCommands |-> "column"]
HBM3PIM_command_meta ==
  HBM3_command_meta @@ [c \in PimCommands |-> {}] @@ [c \in CompressedCommands |-> {"access"}]
HBM3PIM_requests ==
  HBM3PIM_Baseline_requests @@ "read_comp" :> "RD_COMP" @@ "write_comp" :> "WR_COMP" @@
  "pim_quantize" :> "PIM_QUANTIZE" @@ "pim_outlier" :> "PIM_OUTLIER"
HBM3PIM_set_organization(name, sizes) == CountsChecked(HBM3PIM_org_presets, name, sizes)
HBM3PIM_set_timing_vals(speed, org, user) ==
  IF speed \notin DOMAIN HBM3PIM_timing_presets THEN Error
  ELSE LET vals == PIM_base_timings(HBM3PIM_timing_presets[speed])
       IN  [t \in DOMAIN vals |-> IF t \in DOMAIN user THEN user[t] ELSE vals[t]]

HBM3PIM_constraints(V) ==
  HBM3PIM_Baseline_constraints(V) \cup
  { Con("bank", {"ACT"}, {"PIM_QUANTIZE"}, V.nRCDRD), Con("bank", {"PIM_QUANTIZE"}, {"WR"}, V.nQUANT),
    Con("bank", {"ACT"}, {"PIM_OUTLIER"}, V.nRCDRD), Con("bank", {"PIM_OUTLIER"}, {"WR"}, V.nOUTLIER),
    Con("bank", {"ACT"}, {"RD_COMP"}, V.nRCDRD), Con("bank", {"ACT"}, {"WR_COMP"}, V.nRCDWR),
    Con("bank", {"RD_COMP"}, {"PRE"}, V.nRTPS), Con("bank", {"WR_COMP"}, {"PRE"}, V.nCWL + V.nBL_COMP + V.nWR),
    Con("pseudochannel", {"RD_COMP"}, {"RD_COMP"}, V.nCCDS),
    Con("pseudochannel", {"WR_COMP"}, {"WR_COMP"}, V.nCCDS) }

HBM3PIM_actions == HBM3PIM_Baseline_actions
HBM3PIM_preqs   == HBM_preqs @@ [k \in {"bank"} \X PimCommands |-> "RequireRowOpen"]
HBM3PIM_rowhits == HBM_rowhits \cup PimCommands \cup CompressedCommands
HBM3PIM_issue_command == <<"states", "timing">>

HBM3PIM ==
  [HBM2 EXCEPT !.scope = HBM3PIM_command_scopes, !.meta = HBM3PIM_command_meta, !.requests = HBM3PIM_requests,
               !.actions = HBM3PIM_actions, !.preqs = HBM3PIM_preqs, !.rowhits = HBM3PIM_rowhits,
               !.issue = HBM3PIM_issue_command]

=============================================================================
