---------------------------- MODULE MCDramDevice ----------------------------
\* The runs of DramDevice that are model-checked.
EXTENDS DramDevice, Integers, Sequences

MCRefreshLag == 2000

none == << >>
Request(type, addr) == [type |-> type, addr |-> addr]
Run(device, org, speed, sizes, commands, requests) ==
  [device |-> device, org |-> org, speed |-> speed, sizes |-> sizes, user |-> none, commands |-> commands,
   requests |-> requests]

\* <<channel, rank, bank group, bank, row>>, and a rank; in an HBM, <<channel, (pseudochannel,) ...>>.
Bank0(bg, b, row)  == <<0, 0, bg, b, row>>
Bank1(bg, b, row) == <<0, 1, bg, b, row>>
SameBank(b) == <<0, 0, AnyId, b, AnyId>>
Rank0 == <<0, 0, AnyId, AnyId, AnyId>>

MCLoads == <<
  \* two rows of a bank, another bank group, a refresh
  Run("DDR4", <<8, 16>>, <<2400, "R">>, none, 5,
      { Request("read", Bank0(0, 0, 0)), Request("write", Bank0(0, 0, 1)), Request("read", Bank0(1, 0, 0)),
        Request("all-bank-refresh", Rank0) }),
  \* two ranks
  Run("DDR4", <<8, 16>>, <<3200, "AA">>, [rank |-> 2], 6,
      { Request("read", Bank0(0, 0, 0)), Request("write", Bank1(0, 0, 0)) }),
  \* five activations in the time the user gives the four-activation window
  [Run("DDR4", <<8, 16>>, <<2400, "R">>, none, 9,
       { Request("read", Bank0(0, 0, 0)), Request("read", Bank0(0, 0, 1)) }) EXCEPT !.user = [nFAW |-> 240]],
  Run("DDR3", <<4, 16>>, <<1600, "K">>, none, 4,
      { Request("read", <<0, 0, 0, 0>>), Request("write", <<0, 0, 0, 1>>), Request("write", <<0, 0, 1, 0>>),
        Request("all-bank-refresh", <<0, 0, AnyId, AnyId>>) }),
  Run("DDR4VRR", <<8, 16>>, <<2400, "R">>, none, 5,
      { Request("read", Bank0(0, 0, 0)), Request("victim-row-refresh", Bank0(0, 0, 1)), Request("read", Bank0(1, 0, 0)),
        Request("all-bank-refresh", Rank0) }),
  Run("DDR4RVRR", <<8, 16>>, <<2400, "R">>, none, 4,
      { Request("write", Bank0(0, 0, 0)), Request("victim-row-refresh", Bank0(1, 0, 1)),
        Request("all-bank-refresh", Rank0) }),
  Run("DDR5", <<8, 16>>, <<3200, "AN">>, none, 5,
      { Request("read", Bank0(0, 0, 0)), Request("write", Bank0(0, 0, 1)), Request("rfm", Rank0),
        Request("all-bank-refresh", Rank0) }),
  \* a bank of every bank group: its precharge, its refresh
  Run("DDR5", <<8, 16>>, <<3200, "BN">>, none, 4,
      { Request("read", Bank0(0, 0, 0)), Request("write", Bank0(1, 1, 0)), Request("same-bank-refresh", SameBank(0)),
        Request("same-bank-rfm", SameBank(1)) }),
  Run("DDR5VRR", <<8, 16>>, <<3200, "BN">>, none, 4,
      { Request("read", Bank0(0, 0, 0)), Request("victim-row-refresh", Bank0(0, 0, 1)), Request("close-all-bank", Rank0),
        Request("rfm", Rank0) }),
  Run("DDR5RVRR", <<8, 16>>, <<3200, "C">>, none, 4,
      { Request("read", Bank0(0, 0, 0)), Request("victim-row-refresh", Bank0(1, 0, 1)),
        Request("all-bank-refresh", Rank0) }),
  Run("HBM", 2, "HBM_2Gbps", none, 4,
      { Request("read", <<0, 0, 0, 0>>), Request("write", <<0, 0, 0, 1>>), Request("read", <<0, 1, 0, 0>>),
        Request("all-bank-refresh", <<0, AnyId, AnyId, AnyId>>) }),
  Run("HBM2", 2, "HBM2_2Gbps", none, 4,
      { Request("read", Bank0(0, 0, 0)), Request("write", Bank1(0, 0, 0)), Request("write", Bank0(0, 1, 0)),
        Request("all-bank-refresh", <<0, AnyId, AnyId, AnyId, AnyId>>) }),
  Run("HBM3", 2, "HBM3_2Gbps", none, 4,
      { Request("read", Bank0(0, 0, 0)), Request("write", Bank0(0, 0, 1)), Request("write", Bank0(0, 1, 0)),
        Request("all-bank-refresh", <<0, AnyId, AnyId, AnyId, AnyId>>) }),
  Run("HBM3PIM_Baseline", 2, "HBM3_2Gbps", none, 4,
      { Request("kvcache_read", Bank0(0, 0, 0)), Request("kvcache_write", Bank0(0, 0, 1)),
        Request("all-bank-refresh", <<0, AnyId, AnyId, AnyId, AnyId>>) }),
  Run("HBM3PIM", 2, "HBM3_2Gbps", none, 5,
      { Request("pim_quantize", Bank0(0, 0, 0)), Request("write", Bank0(0, 0, 0)), Request("read_comp", Bank0(0, 0, 1)),
        Request("all-bank-refresh", <<0, AnyId, AnyId, AnyId, AnyId>>) }),
  Run("LPDDR5", 4, "LPDDR5_6400", none, 7,
      { Request("read16", Bank0(0, 0, 0)), Request("write16", Bank0(0, 1, 0)) }),
  \* another row than the one an LPDDR5 looks up
  Run("LPDDR5", 4, "LPDDR5_6400", none, 7,
      { Request("read16", Bank0(0, 0, 1)), Request("write16", Bank0(0, 1, 1)) })
  >>

\* The only request of a run, for such a row.
MCOtherRow == << Run("LPDDR5", 4, "LPDDR5_6400", none, 6, { Request("read16", Bank0(0, 0, 1)) }) >>

=============================================================================
