----------------------------- MODULE DramLPDDR5 -----------------------------
(***************************************************************************)
(* The LPDDR5 device model: activation in two commands, and a clock that a   *)
(* CAS command synchronizes for the accesses that follow.  Its handlers are  *)
(* its own lambdas; the tables below name them after their commands.         *)
(***************************************************************************)
EXTENDS DramSpec

Reads16  == {"RD16", "RD16A"}
Writes16 == {"WR16", "WR16A"}

LPDDR5_org_presets ==
  [gb \in {2, 4, 8, 16, 32} |->
     Org(gb * 2^10, 16, [channel |-> 1, rank |-> 1, bankgroup |-> 4, bank |-> 4, row |-> gb * 2^12, column |-> 2^10])]

LPDDR5_timing_presets ==
  "LPDDR5_6400" :>
    [rate |-> 6400, nBL16 |-> 4, nCL |-> 20, nRCD |-> 15, nRPab |-> 17, nRPpb |-> 15, nRAS |-> 34, nRC |-> 30,
     nWR |-> 28, nRTP |-> 4, nCWL |-> 11, nCCD |-> 4, nRRD |-> 4, nWTRS |-> 5, nWTRL |-> 10, nFAW |-> 16,
     nPPD |-> 2, nRFCab |-> -1, nRFCpb |-> -1, nREFI |-> -1, nPBR2PBR |-> -1, nPBR2ACT |-> -1, nCS |-> 2,
     tCK_ps |-> 1250]

LPDDR5_command_scopes ==
  "ACT-1" :> "row" @@ "ACT-2" :> "row" @@ "PRE" :> "bank"
  @@ [c \in Reads16 \cup Writes16 |-> "column"]
  @@ [c \in {"PREA", "CASRD", "CASWR", "REFab", "REFpb", "RFMab", "RFMpb"} |-> "rank"]

LPDDR5_command_meta ==
  "ACT-1" :> {} @@ "ACT-2" :> {"open"} @@ [c \in {"PRE", "PREA"} |-> {"close"}] @@ [c \in {"CASRD", "CASWR"} |-> {}]
  @@ [c \in {"RD16", "WR16"} |-> {"access"}] @@ [c \in {"RD16A", "WR16A"} |-> {"close", "access"}]
  @@ [c \in {"REFab", "REFpb", "RFMab", "RFMpb"} |-> {"refresh"}]

LPDDR5_requests ==
  "read16" :> "RD16" @@ "write16" :> "WR16" @@ "all-bank-refresh" :> "REFab" @@ "per-bank-refresh" :> "REFpb"

LPDDR5_set_organization(name, sizes) ==
  Organized(LPDDR5_org_presets, name, sizes, {"bankgroup", "bank", "row", "column"})

LPDDR5_base_timings(preset, org) ==
  LET tCK_ps == 1000000 \div (preset.rate \div 2)
      density_id == Id(<<2048, 4096, 8192, 16384>>, org.density)
      cycles(table) == JEDEC_rounding(At(table, density_id), tCK_ps)
  IN  [preset EXCEPT !.tCK_ps = tCK_ps, !.nREFI = JEDEC_rounding(3906, tCK_ps),
                     !.nRFCab = cycles(<<130, 180, 210, 280>>), !.nRFCpb = cycles(<<60, 90, 120, 140>>),
                     !.nPBR2PBR = cycles(<<60, 90, 90, 90>>), !.nPBR2ACT = cycles(<<8, 8, 8, 8>>)]
LPDDR5_set_timing_vals(speed, org, user) ==
  IF speed \notin DOMAIN LPDDR5_timing_presets THEN Error
  ELSE Checked(Overridden(LPDDR5_base_timings(LPDDR5_timing_presets[speed], org), user))

\* Only the first half of an activation is timed; nRFCpb holds nothing back.
LPDDR5_constraints(V) ==
  LET restore == V.nCWL + V.nBL16 + V.nWR
  IN
  { Con("channel", Reads16, Reads16, V.nBL16), Con("channel", Writes16, Writes16, V.nBL16),
    \* rank, or different bank groups
    Con("rank", Reads16, Reads16, V.nCCD), Con("rank", Writes16, Writes16, V.nCCD),
    Con("rank", Reads16, Writes16, V.nCL + V.nBL16 + 2 - V.nCWL),
    Con("rank", Writes16, Reads16, V.nCWL + V.nBL16 + V.nWTRS),
    Sibling(Con("rank", Reads16, Reads16 \cup Writes16, V.nBL16 + V.nCS)),
    Sibling(Con("rank", Writes16, Reads16, V.nCL + V.nBL16 + V.nCS - V.nCWL)),
    Con("rank", {"RD16"}, {"PREA"}, V.nRTP), Con("rank", {"WR16"}, {"PREA"}, restore),
    Con("rank", {"ACT-1"}, {"ACT-1", "REFpb"}, V.nRRD), Window(Con("rank", {"ACT-1"}, {"ACT-1"}, V.nFAW), 4),
    Con("rank", {"ACT-1"}, {"PREA"}, V.nRAS), Con("rank", {"PREA"}, {"ACT-1"}, V.nRPab),
    Con("rank", {"ACT-1"}, {"REFab"}, V.nRC), Con("rank", {"PRE"}, {"REFab"}, V.nRPpb),
    Con("rank", {"PREA"}, {"REFab"}, V.nRPab), Con("rank", {"RD16A"}, {"REFab"}, V.nRPpb + V.nRTP),
    Con("rank", {"WR16A"}, {"REFab"}, restore + V.nRPpb),
    Con("rank", {"REFab"}, {"REFab", "ACT-1", "REFpb"}, V.nRFCab),
    Con("rank", {"ACT-1"}, {"REFpb"}, V.nPBR2ACT), Con("rank", {"REFpb"}, {"REFpb"}, V.nPBR2PBR),
    \* same bank group
    Con("bankgroup", Reads16, Reads16, V.nCCD), Con("bankgroup", Writes16, Writes16, V.nCCD),
    Con("bankgroup", Writes16, Reads16, V.nCWL + V.nBL16 + V.nWTRL), Con("bankgroup", {"ACT-1"}, {"ACT-1"}, V.nRRD),
    \* bank
    Con("bank", {"ACT-1"}, {"ACT-1"}, V.nRC), Con("bank", {"ACT-1"}, Reads16 \cup Writes16, V.nRCD),
    Con("bank", {"ACT-1"}, {"PRE"}, V.nRAS), Con("bank", {"PRE"}, {"ACT-1"}, V.nRPpb),
    Con("bank", {"RD16"}, {"PRE"}, V.nRTP), Con("bank", {"WR16"}, {"PRE"}, restore),
    Con("bank", {"RD16A"}, {"ACT-1"}, V.nRTP + V.nRPpb), Con("bank", {"WR16A"}, {"ACT-1"}, restore + V.nRPpb) }

\* The cycles a command keeps the clock synchronized, read as the position of the names in m_timings:
\* nCL is 2, nCWL 10 and nBL16 1.
LPDDR5_sync == [CASRD |-> 4, CASWR |-> 12, RD16 |-> 3, WR16 |-> 11]

LPDDR5_actions ==
  <<"rank", "PREA">> :> "PREab" @@ [k \in {"rank"} \X DOMAIN LPDDR5_sync |-> "synchronize"]
  @@ <<"bank", "ACT-1">> :> "ACT-1" @@ <<"bank", "ACT-2">> :> "ACT"
  @@ [k \in {"bank"} \X {"PRE", "RD16A", "WR16A"} |-> "PRE"]

LPDDR5_preqs ==
  [k \in {"rank"} \X {"REFab", "RFMab"} |-> "RequireAllBanksClosed"]
  @@ [k \in {"rank"} \X {"REFpb", "RFMpb"} |-> "RequireRankClosed"]
  @@ <<"bank", "RD16">> :> "RequireSynced" @@ <<"bank", "WR16">> :> "RequireSynced"

LPDDR5_rowhits == {"RD16", "WR16"}
LPDDR5_issue_command == <<"timing", "states">>

LPDDR5 == [levels |-> <<"channel", "rank", "bankgroup", "bank", "row", "column">>,
           scope |-> LPDDR5_command_scopes, meta |-> LPDDR5_command_meta, requests |-> LPDDR5_requests,
           actions |-> LPDDR5_actions, preqs |-> LPDDR5_preqs, rowhits |-> LPDDR5_rowhits,
           powers |-> << >>, future |-> << >>, charged |-> << >>, issue |-> LPDDR5_issue_command]

=============================================================================
