-------------------------- MODULE DistributedReduce --------------------------
(***************************************************************************)
(* ramulator2/verilog_verification/sources/distributed_reduce.sv: the      *)
(* controller with which one CXL PIM node takes part in the reduction of   *)
(* Global_Max and then Global_Sum over NUM_NODES nodes.  Messages of the   *)
(* other nodes arrive through the jitter buffer, an AsyncFifo with both    *)
(* clocks tied to clk.                                                     *)
(*                                                                         *)
(* A step is one rising edge of clk.  The FSM has one action per arc; each *)
(* of them is joined with Datapath, what every other register does at the  *)
(* same edge.  The network (i_cxl_rx_valid) and the local iNLU                *)
(* (i_local_max_valid) are free.  Of a word only the type field counts     *)
(* here (Kind); who sent it is left to the modules that use this one.      *)
(***************************************************************************)
EXTENDS AsyncFifo

CONSTANTS
  Kind,            \* word -> its type field: "MAX", "SUM" or, for 00 and 11, "NONE"
  Arriving,        \* the words the network delivers
  NumNodes,        \* NUM_NODES
  CountSize,       \* the receive counters have $clog2(NUM_NODES) bits: how many values
  TimeoutCycles,   \* TIMEOUT_CYCLES
  TimeoutSize      \* timeout_cnt has 16 bits: how many values

Kinds == {"MAX", "SUM", "NONE"}

ASSUME DataAssumption ==
  Kind \in [Data -> Kinds] /\ Arriving \subseteq Data /\ \E zero \in Data : Kind[zero] = "NONE"
ASSUME NumNodesAssumption == NumNodes \in Nat /\ NumNodes > 1
ASSUME CountSizeAssumption == CountSize \in Nat /\ NumNodes <= CountSize
ASSUME TimeoutAssumption ==
  TimeoutCycles \in Nat /\ TimeoutSize \in Nat /\ TimeoutCycles + 1 < TimeoutSize

VARIABLES
  state,              \* the FSM
  timeout_cnt,
  max_recv, sum_recv,
  rx_fifo_inc,        \* registered read enable of the FIFO
  rx_data_valid_r,    \* the latched word is presented this cycle
  rx_data_latched,
  taken               \* history: words of the phase's kind that left rdata since it began

countVars == <<timeout_cnt, max_recv, sum_recv>>
latchVars == <<rx_data_valid_r, rx_data_latched>>
reduceVars == <<fifoVars, state, countVars, rx_fifo_inc, latchVars, taken>>

States == {"IDLE", "BCAST_M", "WAIT_M", "BCAST_S", "WAIT_S", "ERR_RCV"}

Waiting == state \in {"WAIT_M", "WAIT_S"}

-----------------------------------------------------------------------------
(* Registers beside the FSM, all loaded from values before the edge.       *)

\* Mutant: the word is latched a cycle after its read enable, when rdata has
\* moved on.
Latch_NextCycle ==
  /\ rx_data_valid_r' = rx_fifo_inc
  /\ rx_data_latched' = IF rx_data_valid_r THEN rdata ELSE rx_data_latched

Latch ==
  /\ rx_data_valid_r' = rx_fifo_inc
  /\ rx_data_latched' = IF rx_fifo_inc THEN rdata ELSE rx_data_latched

\* The enable is a register: it is still up in the cycle after the FIFO ran dry.
FifoEnable == rx_fifo_inc' = (~rempty /\ Waiting)

\* Mutant: the second wait phase is not timed.
TimeoutCount_OnlyMax ==
  timeout_cnt' = IF state = "WAIT_M" THEN (timeout_cnt + 1) % TimeoutSize ELSE 0

TimeoutCount ==
  timeout_cnt' = IF Waiting THEN (timeout_cnt + 1) % TimeoutSize ELSE 0

\* The word presented is of this kind.
Presented(kind) == rx_data_valid_r /\ Kind[rx_data_latched] = kind

MaxSeen == Presented("MAX") /\ state = "WAIT_M"

\* Mutant: whatever is presented while sums are awaited counts as one.
SumSeen_AnyKind == rx_data_valid_r /\ state = "WAIT_S"

SumSeen == Presented("SUM") /\ state = "WAIT_S"

\* Mutant: the counters are as wide as it takes.
ReceiveCount_Unbounded ==
  /\ max_recv' = IF state = "IDLE" THEN 0 ELSE IF MaxSeen THEN max_recv + 1 ELSE max_recv
  /\ sum_recv' = IF state = "IDLE" THEN 0 ELSE IF SumSeen THEN sum_recv + 1 ELSE sum_recv

ReceiveCount ==
  /\ max_recv' = IF state = "IDLE" THEN 0
                 ELSE IF MaxSeen THEN (max_recv + 1) % CountSize ELSE max_recv
  /\ sum_recv' = IF state = "IDLE" THEN 0
                 ELSE IF SumSeen THEN (sum_recv + 1) % CountSize ELSE sum_recv

\* Whatever arrives is offered to the FIFO; wfull is not connected, so a word
\* that finds it full is lost.  Both sides of the FIFO see the same edge and
\* the synchronizers take settled values.
JitterBuffer ==
  /\ \E winc \in BOOLEAN, d \in Arriving : Write(winc, d)
  /\ Read(rx_fifo_inc)
  /\ SyncToWrite(rptr_gray)
  /\ SyncToRead(wptr_gray)

\* The history looks at the other end of the pipeline from the counters: at the
\* read enable and the word at the FIFO's output, and at nothing but the phase.
Wanted(phase) == IF phase = "WAIT_M" THEN "MAX" ELSE "SUM"

History ==
  taken' = IF ~Waiting' THEN 0
           ELSE (IF Waiting THEN taken ELSE 0)
                + (IF rx_fifo_inc /\ Kind[rdata] = Wanted(state') THEN 1 ELSE 0)

Datapath ==
  JitterBuffer /\ Latch /\ FifoEnable /\ TimeoutCount /\ ReceiveCount /\ History

-----------------------------------------------------------------------------
(* The FSM.                                                                *)

\* i_local_max_valid starts a round.
StartRound    == state = "IDLE" /\ state' = "BCAST_M" /\ Datapath
StayIdle      == state = "IDLE" /\ state' = "IDLE" /\ Datapath
BroadcastMax  == state = "BCAST_M" /\ state' = "WAIT_M" /\ Datapath
BroadcastSum  == state = "BCAST_S" /\ state' = "WAIT_S" /\ Datapath
ErrorRecovery == state = "ERR_RCV" /\ state' = "IDLE" /\ Datapath

TimedOut == timeout_cnt >= TimeoutCycles

AllReceived(recv) == recv >= NumNodes - 1

\* The timeout is looked at first: it wins over words that complete the phase.
Timeout ==
  /\ Waiting
  /\ TimedOut
  /\ state' = "ERR_RCV"
  /\ Datapath

MaxComplete ==
  /\ state = "WAIT_M"
  /\ ~TimedOut
  /\ AllReceived(max_recv)
  /\ state' = "BCAST_S"
  /\ Datapath

SumComplete ==
  /\ state = "WAIT_S"
  /\ ~TimedOut
  /\ AllReceived(sum_recv)
  /\ state' = "IDLE"
  /\ Datapath

KeepWaiting ==
  /\ \/ state = "WAIT_M" /\ ~AllReceived(max_recv)
     \/ state = "WAIT_S" /\ ~AllReceived(sum_recv)
  /\ ~TimedOut
  /\ UNCHANGED state
  /\ Datapath

ReduceInit ==
  /\ FifoInit
  /\ state = "IDLE"
  /\ timeout_cnt = 0 /\ max_recv = 0 /\ sum_recv = 0
  /\ rx_fifo_inc = FALSE /\ rx_data_valid_r = FALSE
  /\ rx_data_latched \in Data /\ Kind[rx_data_latched] = "NONE"
  /\ taken = 0

ReduceNext ==
  \/ StartRound \/ StayIdle \/ BroadcastMax \/ BroadcastSum \/ ErrorRecovery
  \/ Timeout \/ MaxComplete \/ SumComplete \/ KeepWaiting

\* clk keeps running.
ReduceSpec == ReduceInit /\ [][ReduceNext]_reduceVars /\ WF_reduceVars(ReduceNext)

-----------------------------------------------------------------------------
(* Properties.                                                             *)

\* Type invariant.  The timeout counter stops short of its width: it is read
\* every cycle it counts.
ReduceTypeOK ==
  /\ FifoTypeOK
  /\ state \in States
  /\ timeout_cnt \in 0 .. TimeoutCycles + 1
  /\ max_recv \in 0 .. CountSize - 1 /\ sum_recv \in 0 .. CountSize - 1
  /\ rx_fifo_inc \in BOOLEAN /\ rx_data_valid_r \in BOOLEAN /\ rx_data_latched \in Data
  /\ taken \in 0 .. NumNodes

\* What a phase has counted, and the word presented to it at this moment, are the
\* words of its kind that the read enable has let out since it began: none of
\* another kind, none of an earlier phase or of a failed round, none twice and
\* none skipped between FIFO, latch and counter; and the narrow counter does not
\* wrap while it is compared.
CountsExact ==
  /\ state = "WAIT_M" => max_recv + (IF Presented("MAX") THEN 1 ELSE 0) = taken
  /\ state = "WAIT_S" => sum_recv + (IF Presented("SUM") THEN 1 ELSE 0) = taken

\* A word leaves the FIFO exactly when it is latched and presented: nothing the
\* FIFO gives up is lost on the way to the iNLU (the alignment that the comment
\* above the latch is about).
PoppedIsPresented ==
  [][rptr' # rptr => rx_data_valid_r' /\ rx_data_latched' = Head(Held)]_reduceVars

\* "Deadlock-free protection": a round started is over in the end, whatever the
\* network loses.
RoundEnds == state # "IDLE" ~> state = "IDLE"
=============================================================================
