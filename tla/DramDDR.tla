------------------------------- MODULE DramDDR -------------------------------
(***************************************************************************)
(* The DDR3 and DDR4 device models, and DDR4 with victim row refresh (VRR)   *)
(* and with a second, reduced one (RVRR).  A speed preset is named by its    *)
(* rate and bin, <<2400, "R">> for DDR4_2400R; an organization by its density *)
(* in Gb and DQ width, <<8, 8>> for DDR4_8Gb_x8.                              *)
(***************************************************************************)
EXTENDS DramSpec

(***************************************************************************)
(* DDR4                                                                     *)
(***************************************************************************)
DDR4_org_presets ==
  [o \in {2, 4, 8, 16} \X {4, 8, 16} |->
     LET gb == o[1]  dq == o[2]
     IN  Org(gb * 2^10, dq,
             [channel |-> 1, rank |-> 1, bankgroup |-> IF dq = 16 THEN 2 ELSE 4, bank |-> 4,
              row |-> gb * (IF dq = 4 THEN 2^14 ELSE 2^13), column |-> 2^10])]

\* Bins of every rate: the CAS latency, which is also nRCD and nRP.
DDR4_bins ==
  1600 :> [J |-> 10, K |-> 11, L |-> 12] @@ 1866 :> [L |-> 12, M |-> 13, N |-> 14] @@
  2133 :> [N |-> 14, P |-> 15, R |-> 16] @@ 2400 :> [P |-> 15, R |-> 16, U |-> 17, T |-> 18] @@
  2666 :> [T |-> 17, U |-> 18, V |-> 19, W |-> 20] @@
  2933 :> [V |-> 19, W |-> 20, Y |-> 21, AA |-> 22] @@ 3200 :> [W |-> 20, AA |-> 22, AC |-> 24]

\* What depends on the rate alone: <<nRAS, nWR, nRTP, nCWL, nCCDL, nWTRS, nWTRL, tCK_ps>>.
DDR4_rates ==
  1600 :> <<28, 12, 6, 9, 5, 2, 6, 1250>> @@ 1866 :> <<32, 14, 7, 10, 5, 3, 7, 1071>> @@
  2133 :> <<36, 16, 8, 11, 6, 3, 8, 937>> @@ 2400 :> <<39, 18, 9, 12, 6, 3, 9, 833>> @@
  2666 :> <<43, 20, 10, 14, 7, 4, 10, 750>> @@ 2933 :> <<47, 22, 11, 16, 8, 4, 11, 682>> @@
  3200 :> <<52, 24, 12, 16, 8, 4, 12, 625>>

DDR4_timing_presets ==
  [p \in UNION { {r} \X DOMAIN DDR4_bins[r] : r \in DOMAIN DDR4_bins } |->
     LET r == DDR4_rates[p[1]]  nCL == DDR4_bins[p[1]][p[2]]
     IN  [rate |-> p[1], nBL |-> 4, nCL |-> nCL, nRCD |-> nCL, nRP |-> nCL,
          nRAS |-> r[1], nRC |-> r[1] + nCL, nWR |-> r[2], nRTP |-> r[3], nCWL |-> r[4],
          nCCDS |-> 4, nCCDL |-> r[5], nRRDS |-> -1, nRRDL |-> -1, nWTRS |-> r[6], nWTRL |-> r[7],
          nFAW |-> -1, nRFC |-> -1, nREFI |-> -1, nCS |-> 2, tCK_ps |-> r[8]]]

DDR4_command_scopes ==
  [ACT |-> "row", PRE |-> "bank", PREA |-> "rank", RD |-> "column", WR |-> "column",
   RDA |-> "column", WRA |-> "column", REFab |-> "rank", REFab_end |-> "rank"]

DDR4_command_meta ==
  [ACT |-> {"open"}, PRE |-> {"close"}, PREA |-> {"close"}, RD |-> {"access"}, WR |-> {"access"},
   RDA |-> {"close", "access"}, WRA |-> {"close", "access"},
   REFab |-> {"refresh"}, REFab_end |-> {"close"}]

DDR4_requests ==
  "read" :> "RD" @@ "write" :> "WR" @@ "all-bank-refresh" :> "REFab" @@
  "open-row" :> "ACT" @@ "close-row" :> "PRE"

DDR4_set_organization(name, sizes) ==
  Organized(DDR4_org_presets, name, sizes, {"bankgroup", "bank", "row", "column"})

\* Tables 169-170 of JESD79-4C, by dq width and rate, and tRFC1 by density.
DDR4_nRRDS == << <<4, 4, 4, 4, 4, 4, 4>>, <<4, 4, 4, 4, 4, 4, 4>>, <<5, 5, 6, 7, 8, 8, 9>> >>
DDR4_nRRDL == << <<5, 5, 6, 6, 7, 8, 8>>, <<5, 5, 6, 6, 7, 8, 8>>, <<6, 6, 7, 8, 9, 10, 11>> >>
DDR4_nFAW == << <<16, 16, 16, 16, 16, 16, 16>>, <<20, 22, 23, 26, 28, 31, 34>>,
                 <<28, 28, 32, 36, 40, 44, 48>> >>
\* Mutant: the table was not extended to the 16 Gb devices.
DDR4_tRFC_Short == <<160, 260, 360>>
DDR4_tRFC == <<160, 260, 360, 550>>

\* set_timing_vals up to the user's values.
DDR4_base_timings(preset, org) ==
  LET dq_id   == Id(<<4, 8, 16>>, org.dq)
      rate_id == Id(<<1600, 1866, 2133, 2400, 2666, 2933, 3200>>, preset.rate)
      density_id == Id(<<2048, 4096, 8192, 16384>>, org.density)
      tCK_ps  == 1000000 \div (preset.rate \div 2)
      refresh == [tCK_ps |-> tCK_ps,
                  nRFC   |-> JEDEC_rounding(At(DDR4_tRFC, density_id), tCK_ps),
                  nREFI  |-> JEDEC_rounding(7800, tCK_ps)]
  IN  (IF dq_id = 0 \/ rate_id = 0 THEN refresh
       ELSE refresh @@ [nRRDS |-> DDR4_nRRDS[dq_id][rate_id], nRRDL |-> DDR4_nRRDL[dq_id][rate_id],
                        nFAW  |-> DDR4_nFAW[dq_id][rate_id]]) @@ preset
DDR4_set_timing_vals(speed, org, user) ==
  IF speed \notin DOMAIN DDR4_timing_presets THEN Error
  ELSE Checked(Overridden(DDR4_base_timings(DDR4_timing_presets[speed], org), user))

DDR4_constraints(V) ==
  { Con("channel", Reads, Reads, V.nBL), Con("channel", Writes, Writes, V.nBL),
    \* rank, or different bank groups
    Con("rank", Reads, Reads, V.nCCDS), Con("rank", Writes, Writes, V.nCCDS),
    Con("rank", Reads, Writes, V.nCL + V.nBL + 2 - V.nCWL),
    Con("rank", Writes, Reads, V.nCWL + V.nBL + V.nWTRS),
    Sibling(Con("rank", Reads, Reads \cup Writes, V.nBL + V.nCS)),
    Sibling(Con("rank", Writes, Reads, V.nCL + V.nBL + V.nCS - V.nCWL)),
    Con("rank", {"RD"}, {"PREA"}, V.nRTP), Con("rank", {"WR"}, {"PREA"}, V.nCWL + V.nBL + V.nWR),
    Con("rank", {"ACT"}, {"ACT"}, V.nRRDS), Window(Con("rank", {"ACT"}, {"ACT"}, V.nFAW), 4),
    Con("rank", {"ACT"}, {"PREA"}, V.nRAS), Con("rank", {"PREA"}, {"ACT"}, V.nRP),
    Con("rank", {"ACT"}, {"REFab"}, V.nRC), Con("rank", {"PRE", "PREA"}, {"REFab"}, V.nRP),
    Con("rank", {"RDA"}, {"REFab"}, V.nRP + V.nRTP),
    Con("rank", {"WRA"}, {"REFab"}, V.nCWL + V.nBL + V.nWR + V.nRP),
    Con("rank", {"REFab"}, {"ACT", "PREA"}, V.nRFC),
    \* same bank group
    Con("bankgroup", Reads, Reads, V.nCCDL), Con("bankgroup", Writes, Writes, V.nCCDL),
    Con("bankgroup", Writes, Reads, V.nCWL + V.nBL + V.nWTRL),
    Con("bankgroup", {"ACT"}, {"ACT"}, V.nRRDL),
    \* bank
    Con("bank", {"ACT"}, {"ACT"}, V.nRC), Con("bank", {"ACT"}, Reads \cup Writes, V.nRCD),
    Con("bank", {"ACT"}, {"PRE"}, V.nRAS), Con("bank", {"PRE"}, {"ACT"}, V.nRP),
    Con("bank", {"RD"}, {"PRE"}, V.nRTP), Con("bank", {"WR"}, {"PRE"}, V.nCWL + V.nBL + V.nWR),
    Con("bank", {"RDA"}, {"ACT"}, V.nRTP + V.nRP),
    Con("bank", {"WRA"}, {"ACT"}, V.nCWL + V.nBL + V.nWR + V.nRP) }

DDR4_actions ==
  <<"rank", "PREA">> :> "PREab" @@ <<"rank", "REFab">> :> "REFab" @@
  <<"rank", "REFab_end">> :> "REFab_end" @@ <<"bank", "ACT">> :> "ACT" @@
  <<"bank", "PRE">> :> "PRE" @@ <<"bank", "RDA">> :> "PRE" @@ <<"bank", "WRA">> :> "PRE"

DDR4_preqs ==
  <<"rank", "REFab">> :> "RequireAllBanksClosed" @@ <<"bank", "RD">> :> "RequireRowOpen" @@
  <<"bank", "WR">> :> "RequireRowOpen" @@ <<"bank", "ACT">> :> "RequireRowOpen" @@
  <<"bank", "PRE">> :> "RequireBankClosed"

\* Commands with a row-hit and a row-open test, both at the bank.
DDR4_rowhits == {"RD", "WR"}

DDR4_powers ==
  [k \in ({"bank"} \X {"ACT", "PRE", "RD", "WR"})
         \cup ({"rank"} \X {"ACT", "PRE", "PREA", "REFab", "REFab_end"}) |-> k[2]]

\* The commands counted, and the timing each charges.
DDR4_cmds_counted == [ACT |-> "nRAS", PRE |-> "nRP", RD |-> "nBL", WR |-> "nBL", REF |-> "nRFC"]

\* Command that ends another, and the timing it comes after.
DDR4_future_actions == [REFab |-> [end |-> "REFab_end", after |-> "nRFC"]]

\* Order of the updates an issued command makes.
DDR4_issue_command == <<"timing", "powers", "states">>

DDR4_levels == <<"channel", "rank", "bankgroup", "bank", "row", "column">>
DDR4 == [levels |-> DDR4_levels, scope |-> DDR4_command_scopes, meta |-> DDR4_command_meta,
         requests |-> DDR4_requests, actions |-> DDR4_actions, preqs |-> DDR4_preqs,
         rowhits |-> DDR4_rowhits, powers |-> DDR4_powers, future |-> DDR4_future_actions,
         charged |-> DDR4_cmds_counted, issue |-> DDR4_issue_command]

(***************************************************************************)
(* DDR3: no bank groups, nothing in the future, no power model.             *)
(***************************************************************************)
DDR3_org_presets ==
  [o \in {1, 2, 4, 8} \X {4, 8, 16} |->
     LET gb == o[1]  dq == o[2]
     IN  Org(gb * 2^10, dq,
             [channel |-> 1, rank |-> 1, bank |-> 8, row |-> gb * (IF dq = 16 THEN 2^13 ELSE 2^14),
              column |-> IF dq = 4 THEN 2^11 ELSE 2^10])]

DDR3_bins ==
  800  :> [D |-> 5, E |-> 5] @@ 1066 :> [E |-> 6, F |-> 7, G |-> 8] @@ 1333 :> [G |-> 8, H |-> 9] @@
  1600 :> [H |-> 9, J |-> 10, K |-> 11] @@ 1866 :> [K |-> 11, L |-> 12] @@ 2133 :> [L |-> 12, M |-> 13]

\* <<nRAS, nWR, nRTP, nWTR, tCK_ps>>
DDR3_rates ==
  800 :> <<15, 6, 4, 4, 2500>> @@ 1066 :> <<20, 8, 4, 4, 1875>> @@ 1333 :> <<24, 10, 5, 5, 1500>> @@
  1600 :> <<28, 12, 6, 6, 1250>> @@ 1866 :> <<32, 14, 7, 7, 1071>> @@ 2133 :> <<36, 16, 8, 8, 937>>

DDR3_timing_presets ==
  [p \in UNION { {r} \X DOMAIN DDR3_bins[r] : r \in DOMAIN DDR3_bins } |->
     LET r == DDR3_rates[p[1]]  nCL == DDR3_bins[p[1]][p[2]]
     IN  [rate |-> p[1], nBL |-> 4, nCL |-> nCL, nRCD |-> nCL, nRP |-> nCL,
          nRAS |-> r[1], nRC |-> r[1] + nCL, nWR |-> r[2], nRTP |-> r[3], nCWL |-> 9, nCCD |-> 4,
          nRRD |-> -1, nWTR |-> r[4], nFAW |-> -1, nRFC |-> -1, nREFI |-> -1, nCS |-> 2,
          tCK_ps |-> r[5]]]

DDR3_command_scopes == [c \in DOMAIN DDR4_command_scopes \ {"REFab_end"} |-> DDR4_command_scopes[c]]
DDR3_command_meta   == [c \in DOMAIN DDR3_command_scopes |-> DDR4_command_meta[c]]
DDR3_requests       == [r \in {"read", "write", "all-bank-refresh"} |-> DDR4_requests[r]]

DDR3_set_organization(name, sizes) ==
  Organized(DDR3_org_presets, name, sizes, {"bank", "row", "column"})

DDR3_nRRD == << <<4, 4, 4, 5, 5, 6>>, <<4, 4, 4, 5, 5, 6>>, <<4, 6, 5, 6, 6, 7>> >>
DDR3_nFAW == << <<16, 20, 20, 24, 26, 27>>, <<16, 20, 20, 24, 26, 27>>, <<20, 27, 30, 32, 33, 34>> >>
DDR3_tRFC == <<110, 160, 260, 350>>

DDR3_base_timings(preset, org) ==
  LET dq_id   == Id(<<4, 8, 16>>, org.dq)
      rate_id == Id(<<800, 1066, 1333, 1600, 1866, 2133>>, preset.rate)
      density_id == Id(<<1024, 2048, 4096, 8192>>, org.density)
      tCK_ps  == 1000000 \div (preset.rate \div 2)
      refresh == [tCK_ps |-> tCK_ps,
                  nRFC   |-> JEDEC_rounding(At(DDR3_tRFC, density_id), tCK_ps),
                  nREFI  |-> JEDEC_rounding(7800, tCK_ps)]
  IN  (IF dq_id = 0 \/ rate_id = 0 THEN refresh
       ELSE refresh @@ [nRRD |-> DDR3_nRRD[dq_id][rate_id], nFAW |-> DDR3_nFAW[dq_id][rate_id]]) @@ preset
DDR3_set_timing_vals(speed, org, user) ==
  IF speed \notin DOMAIN DDR3_timing_presets THEN Error
  ELSE Checked(Overridden(DDR3_base_timings(DDR3_timing_presets[speed], org), user))

\* DDR4's without the bank group, the same and different bank group alike; PREA does not wait for REFab.
DDR3_constraints(V) ==
  LET asDDR4 == [nCCDS |-> V.nCCD, nWTRS |-> V.nWTR, nRRDS |-> V.nRRD, nCCDL |-> 0, nWTRL |-> 0, nRRDL |-> 0] @@ V
  IN  { IF c.preceding = {"REFab"} THEN [c EXCEPT !.following = {"ACT"}] ELSE c :
          c \in { c \in DDR4_constraints(asDDR4) : c.level # "bankgroup" } }

DDR3_actions == [k \in DOMAIN DDR4_actions \ {<<"rank", "REFab">>, <<"rank", "REFab_end">>} |-> DDR4_actions[k]]
DDR3_preqs   == [k \in {<<"rank", "REFab">>, <<"bank", "RD">>, <<"bank", "WR">>} |-> DDR4_preqs[k]]
DDR3_rowhits == DDR4_rowhits
DDR3_issue_command == <<"timing", "states">>

DDR3 == [levels |-> <<"channel", "rank", "bank", "row", "column">>, scope |-> DDR3_command_scopes,
         meta |-> DDR3_command_meta, requests |-> DDR3_requests, actions |-> DDR3_actions,
         preqs |-> DDR3_preqs, rowhits |-> DDR3_rowhits, powers |-> << >>, future |-> << >>, charged |-> << >>,
         issue |-> DDR3_issue_command]

(***************************************************************************)
(* Victim row refresh: a command that closes nothing, keeps one bank busy    *)
(* for n<command> cycles and waits where ACT waits in its bank.              *)
(***************************************************************************)
WithVictimRefresh(cons, cmd, latency) ==
  LET alsoWaits(c) == /\ "ACT" \in c.following
                      /\ \/ c.level = "bank"
                         \/ c.preceding \in {{"PREA"}, {"REFab"}}
      refreshes == {"VRR", cmd}
  IN  { IF alsoWaits(c) THEN [c EXCEPT !.following = @ \cup {cmd}] ELSE c : c \in cons }
      \cup { Con("rank", {cmd}, {"PREA"}, latency), Con("rank", {cmd}, {"REFab"}, latency),
             Con("bank", {cmd}, {"ACT"} \cup refreshes, latency) }

DDR4VRR_org_presets    == DDR4_org_presets
DDR4VRR_timing_presets == [p \in DOMAIN DDR4_timing_presets |-> [nVRR |-> -1] @@ DDR4_timing_presets[p]]
DDR4VRR_command_scopes == DDR4_command_scopes @@ [VRR |-> "bank", VRR_end |-> "bank"]
DDR4VRR_command_meta   == DDR4_command_meta @@ [VRR |-> {"refresh"}, VRR_end |-> {"close"}]
DDR4VRR_requests       == DDR4_requests @@ "victim-row-refresh" :> "VRR"

DDR4VRR_set_organization(name, sizes) ==
  Organized(DDR4VRR_org_presets, name, sizes, {"bankgroup", "bank", "row", "column"})

\* RH_radius rows on either side, each 70 ns as in a DDR5 directed refresh.
DDR4VRR_RH_radius == 2
DDR4VRR_nVRR(vals) == [vals EXCEPT !.nVRR = JEDEC_rounding(70 * DDR4VRR_RH_radius * 2, vals.tCK_ps)]
DDR4VRR_base_timings(preset, org) == DDR4VRR_nVRR(DDR4_base_timings(preset, org))
DDR4VRR_set_timing_vals(speed, org, user) ==
  IF speed \notin DOMAIN DDR4VRR_timing_presets THEN Error
  ELSE Checked(Overridden(DDR4VRR_base_timings(DDR4VRR_timing_presets[speed], org), user))

\* A refresh no longer holds PREA back.
DDR4VRR_constraints(V) ==
  WithVictimRefresh(
    { IF c.preceding = {"REFab"} THEN [c EXCEPT !.following = {"ACT"}] ELSE c : c \in DDR4_constraints(V) },
    "VRR", V.nVRR)

DDR4VRR_actions == DDR4_actions @@ <<"bank", "VRR">> :> "VRR" @@ <<"bank", "VRR_end">> :> "VRR_end"
DDR4VRR_preqs   == DDR4_preqs @@ <<"bank", "VRR">> :> "RequireBankClosed"
DDR4VRR_rowhits == DDR4_rowhits
DDR4VRR_powers  ==
  DDR4_powers @@ <<"bank", "VRR">> :> "VRR" @@ <<"rank", "VRR">> :> "VRR" @@ <<"rank", "VRR_end">> :> "VRR_end"
DDR4VRR_cmds_counted == DDR4_cmds_counted @@ [VRR |-> "nVRR"]
DDR4VRR_future_actions == DDR4_future_actions @@ [VRR |-> [end |-> "VRR_end", after |-> "nVRR"]]
DDR4VRR_issue_command  == <<"timing", "powers", "states">>

DDR4VRR == [levels |-> DDR4_levels, scope |-> DDR4VRR_command_scopes, meta |-> DDR4VRR_command_meta,
            requests |-> DDR4VRR_requests, actions |-> DDR4VRR_actions, preqs |-> DDR4VRR_preqs,
            rowhits |-> DDR4VRR_rowhits, powers |-> DDR4VRR_powers, future |-> DDR4VRR_future_actions,
            charged |-> DDR4VRR_cmds_counted, issue |-> DDR4VRR_issue_command]

(***************************************************************************)
(* DDR4-RVRR: the reduced refresh takes the restoration part of a VRR times  *)
(* latency_factor_vrr, here in percent; a factor for nRFC applies likewise,  *)
(* after the user's values.  The floats are exact quotients here.            *)
(***************************************************************************)
DDR4RVRR_latency_factor_vrr == 60
DDR4RVRR_latency_factor_rfc == 80
Reduced(nCycles, vals, percent) ==
  (nCycles * (percent * vals.nRAS + 100 * vals.nRP)) \div (100 * (vals.nRAS + vals.nRP))
DDR4RVRR_nRVRR(vals) == [vals EXCEPT !.nRVRR = Reduced(vals.nVRR, vals, DDR4RVRR_latency_factor_vrr)]
DDR4RVRR_nRFC(vals) ==
  IF vals = Error \/ DDR4RVRR_latency_factor_rfc = 100 THEN vals
  ELSE [vals EXCEPT !.nRFC = Reduced(@, vals, DDR4RVRR_latency_factor_rfc)]

DDR4RVRR_org_presets    == DDR4_org_presets
DDR4RVRR_timing_presets == [p \in DOMAIN DDR4_timing_presets |-> [nRVRR |-> -1] @@ DDR4VRR_timing_presets[p]]
DDR4RVRR_command_scopes == DDR4VRR_command_scopes @@ [RVRR |-> "bank", RVRR_end |-> "bank"]
DDR4RVRR_command_meta   == DDR4VRR_command_meta @@ [RVRR |-> {"refresh"}, RVRR_end |-> {"close"}]
DDR4RVRR_requests       == DDR4VRR_requests @@ "reduced-victim-row-refresh" :> "RVRR"

DDR4RVRR_set_organization(name, sizes) ==
  Organized(DDR4RVRR_org_presets, name, sizes, {"bankgroup", "bank", "row", "column"})

DDR4RVRR_set_timing_vals(speed, org, user) ==
  IF speed \notin DOMAIN DDR4RVRR_timing_presets THEN Error
  ELSE DDR4RVRR_nRFC(Checked(Overridden(
         DDR4RVRR_nRVRR(DDR4VRR_base_timings(DDR4RVRR_timing_presets[speed], org)), user)))

\* VRR and RVRR wait for each other.
DDR4RVRR_constraints(V) ==
  WithVictimRefresh(DDR4VRR_constraints(V), "RVRR", V.nRVRR)

DDR4RVRR_actions == DDR4VRR_actions @@ <<"bank", "RVRR">> :> "VRR" @@ <<"bank", "RVRR_end">> :> "VRR_end"
DDR4RVRR_preqs   == DDR4VRR_preqs @@ <<"bank", "RVRR">> :> "RequireBankClosed"
DDR4RVRR_rowhits == DDR4_rowhits
DDR4RVRR_powers  ==
  DDR4VRR_powers @@ <<"bank", "RVRR">> :> "RVRR" @@ <<"rank", "RVRR">> :> "VRR" @@
  <<"rank", "RVRR_end">> :> "VRR_end"
DDR4RVRR_cmds_counted == DDR4VRR_cmds_counted @@ [RVRR |-> "nRVRR"]
DDR4RVRR_future_actions == DDR4VRR_future_actions @@ [RVRR |-> [end |-> "RVRR_end", after |-> "nRVRR"]]
DDR4RVRR_issue_command  == <<"timing", "powers", "states">>

DDR4RVRR == [levels |-> DDR4_levels, scope |-> DDR4RVRR_command_scopes, meta |-> DDR4RVRR_command_meta,
             requests |-> DDR4RVRR_requests, actions |-> DDR4RVRR_actions, preqs |-> DDR4RVRR_preqs,
             rowhits |-> DDR4RVRR_rowhits, powers |-> DDR4RVRR_powers, future |-> DDR4RVRR_future_actions,
             charged |-> DDR4RVRR_cmds_counted, issue |-> DDR4RVRR_issue_command]

=============================================================================
