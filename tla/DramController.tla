--------------------------- MODULE DramController ---------------------------
(***************************************************************************)
(* ramulator2/src/dram_controller/impl/generic_dram_controller.cpp with    *)
(* the FRFCFS scheduler, the open-row policy, the all-bank refresh manager *)
(* and, on the PIM device, the KVCompression plugin: one channel.          *)
(*                                                                         *)
(* A request is a number, given in the order in which send() accepts it.   *)
(* Requests enter the read and the write buffer in that order and keep it, *)
(* so those two lists are the sets of the numbers in them.  Refreshes are  *)
(* all alike: the priority buffer is how many of them it holds.            *)
(*                                                                         *)
(* Send is send(); Tick is tick(), whole.  Timing constraints are left to  *)
(* the device: each tick, any set of the (command, bank) pairs that the    *)
(* buffered requests are waiting for may be ready - but for RD and WR of   *)
(* one bank, see Possible - so what holds here holds for every speed       *)
(* grade.  `device' is the configuration chosen at                         *)
(* start: "DDR4" is refreshed and sees plain reads and writes, "HBM3PIM"   *)
(* also KV-cache accesses, which the plugin rewrites; it has no ranks, so  *)
(* AllBankRefresh never sends to it.                                       *)
(***************************************************************************)
EXTENDS Integers, FiniteSets, Sequences

CONSTANTS
  Devices,                \* the configurations to consider
  Traffic,                \* the request types the front end sends, by configuration
  Banks, Rows,
  Addrs, BankOf, RowOf,   \* addresses, and what the address mapper makes of them
  MaxSize, ActiveMax,     \* max_size of the read and write buffers, and, by
                          \* configuration, of the active one
  HighMark, LowMark,      \* the watermarks times max_size, in whole requests
  ReadLatency,            \* m_read_latency, in ticks
  MaxReqs, MaxRefresh     \* bounds: requests accepted, refreshes sent

ASSUME DeviceAssumption == Devices \subseteq {"DDR4", "HBM3PIM"}
ASSUME TrafficAssumption ==
  \A d \in Devices : Traffic[d] \subseteq IF d = "DDR4" THEN {"read", "write"}
                      ELSE {"read", "write", "kvcache_read", "kvcache_write"}
ASSUME AddressAssumption == BankOf \in [Addrs -> Banks] /\ RowOf \in [Addrs -> Rows]
ASSUME SizeAssumption == MaxSize \in Nat /\ ActiveMax \in [Devices -> Nat]
ASSUME WatermarkAssumption ==
  HighMark \in Nat /\ LowMark \in Nat \ {0} /\ HighMark <= MaxSize
ASSUME LatencyAssumption == ReadLatency \in Nat \ {0}
ASSUME BoundAssumption == MaxReqs \in Nat /\ MaxRefresh \in Nat

VARIABLES
  device,
  reqs,               \* every accepted request: [type, addr, arrive]
  read_buffer, write_buffer, active_buffer, priority_buffer,
  pending,            \* reads on their way back: [id, due], due counted in ticks
  is_write_mode,
  open,               \* the open row of each bank, or Closed
  read_since,         \* DDR4: the banks that were open when the last RD was issued
  issued,             \* history: requests whose final command was issued
  answered,           \* history: reads whose callback was called
  ticked,             \* whether the clock moved since the last accepted request
  refreshes_sent

queueVars == <<read_buffer, write_buffer, active_buffer, priority_buffer>>
vars == <<device, reqs, queueVars, pending, is_write_mode, open, read_since, issued,
          answered, ticked, refreshes_sent>>

Closed == "closed"
ASSUME ClosedAssumption == Closed \notin Rows
Refresh == 0          \* stands for the refresh at the head of the priority buffer
All == "all banks"

ReadTypes == {"read", "kvcache_read"}
WriteTypes == {"write", "kvcache_write"}

Elements(s) == {s[k] : k \in DOMAIN s}

(* ReqBuffer::remove: the list without its k-th element, or without i. *)
Erase(s, k) == [j \in 1 .. Len(s) - 1 |-> IF j < k THEN s[j] ELSE s[j + 1]]
Drop(s, i) ==
  IF i \in Elements(s) THEN Erase(s, CHOOSE k \in DOMAIN s : s[k] = i) ELSE s

BankOfReq(i) == BankOf[reqs[i].addr]
RowOfReq(i) == RowOf[reqs[i].addr]

(* As a bug: one place too many. *)
HasRoom_PlusOne(size, max) == size <= max + 1

(* ReqBuffer::enqueue accepts while size() <= max_size: one more than max. *)
HasRoom(size, max) == size <= max

-----------------------------------------------------------------------------
(* m_request_translations. *)
FinalCommand(type) ==
  CASE type \in ReadTypes  -> "RD"
    [] type \in WriteTypes -> "WR"
    [] type = "read_comp"  -> "RD_COMP"
    [] type = "write_comp" -> "WR_COMP"

(* get_preq_command: RequireRowOpen for RD and WR; the compressed commands *)
(* have no prerequisite; a refresh wants every bank closed.                *)
NextCommand(i) ==
  IF i = Refresh
  THEN IF \A b \in Banks : open[b] = Closed THEN "REFab" ELSE "PREA"
  ELSE LET cmd == FinalCommand(reqs[i].type) IN
       CASE cmd \in {"RD_COMP", "WR_COMP"}                         -> cmd
         [] cmd \in {"RD", "WR"} /\ open[BankOfReq(i)] = Closed      -> "ACT"
         [] cmd \in {"RD", "WR"} /\ open[BankOfReq(i)] = RowOfReq(i) -> cmd
         [] OTHER                                                  -> "PRE"

(* What the device must be ready for before i moves on. *)
Need(i) == <<NextCommand(i), IF i = Refresh THEN All ELSE BankOfReq(i)>>

(* As a bug: the newest ready request first. *)
BestOf_Newest(buffer, ready) ==
  {i \in buffer : Need(i) \in ready /\ \A j \in buffer : Need(j) \in ready => j <= i}

(* FRFCFS: ready before not ready, then the earlier arrival, then the      *)
(* place in the list.                                                      *)
BestOf(buffer, ready) ==
  {i \in buffer : Need(i) \in ready /\ \A j \in buffer : Need(j) \in ready => i <= j}

BestActive(ready) ==
  LET Ready(k) == Need(active_buffer[k]) \in ready
      Arrive(k) == reqs[active_buffer[k]].arrive
  IN  {active_buffer[k] : k \in {n \in DOMAIN active_buffer :
         /\ Ready(n)
         /\ \A m \in DOMAIN active_buffer : Ready(m) =>
              \/ Arrive(n) < Arrive(m)
              \/ Arrive(n) = Arrive(m) /\ n <= m}}

(* As a bug: write mode ends only when the buffer is below an empty one. *)
NextMode_Sticky ==
  IF is_write_mode
  THEN ~(Cardinality(write_buffer) < LowMark - 1 /\ read_buffer # {})
  ELSE Cardinality(write_buffer) > HighMark \/ read_buffer = {}

(* set_write_mode *)
NextMode ==
  IF is_write_mode
  THEN ~(Cardinality(write_buffer) < LowMark /\ read_buffer # {})
  ELSE Cardinality(write_buffer) > HighMark \/ read_buffer = {}

(* As a bug: the wildcards of a refresh match no bank. *)
ClosesActiveRow_NoWildcard(i) ==
  NextCommand(i) = "PRE" /\ \E j \in Elements(active_buffer) : BankOfReq(j) = BankOfReq(i)

(* The closing check: the command would close the row of an active request. *)
ClosesActiveRow(i) ==
  \/ NextCommand(i) = "PRE" /\ \E j \in Elements(active_buffer) : BankOfReq(j) = BankOfReq(i)
  \/ NextCommand(i) = "PREA" /\ active_buffer # <<>>

(* Step 2.2 is reached when no active request is ready, and its second     *)
(* part, the read and write queues, when no refresh waits either.          *)
QueuesReached(refreshes, ready) == BestActive(ready) = {} /\ refreshes = 0

(* schedule_request: at most one request. *)
Scheduled(refreshes, ready) ==
  LET active == BestActive(ready)
      chosen ==
        IF active # {} THEN active
        ELSE IF refreshes > 0 THEN {i \in {Refresh} : Need(i) \in ready}
        ELSE BestOf(IF NextMode THEN write_buffer ELSE read_buffer, ready)
  IN  {i \in chosen : ~ClosesActiveRow(i)}

CtrlInit ==
  /\ device \in Devices
  /\ reqs = <<>>
  /\ read_buffer = {} /\ write_buffer = {} /\ active_buffer = <<>>
  /\ priority_buffer = 0 /\ refreshes_sent = 0
  /\ pending = <<>>
  /\ is_write_mode = FALSE
  /\ open = [b \in Banks |-> Closed] /\ read_since = {}
  /\ issued = {} /\ answered = {}
  /\ ticked = FALSE

(* send(): a read is forwarded when a write to its address waits in the    *)
(* write buffer, and is then due at the next tick; any other request is    *)
(* enqueued if there is room.  A refused request changes nothing here.     *)
Forwarded(type, addr) ==
  type \in ReadTypes /\ \E w \in write_buffer : reqs[w].addr = addr

Arrival == IF reqs = <<>> THEN 0
           ELSE reqs[Len(reqs)].arrive + (IF ticked THEN 1 ELSE 0)

Enqueue(type, id) ==
  \/ /\ type \in ReadTypes /\ HasRoom(Cardinality(read_buffer), MaxSize)
     /\ read_buffer' = read_buffer \cup {id}
     /\ UNCHANGED write_buffer
  \/ /\ type \in WriteTypes /\ HasRoom(Cardinality(write_buffer), MaxSize)
     /\ write_buffer' = write_buffer \cup {id}
     /\ UNCHANGED read_buffer

Send(type, addr) ==
  LET id == Len(reqs) + 1 IN
  /\ id <= MaxReqs
  /\ \/ /\ Forwarded(type, addr)
        /\ pending' = Append(pending, [id |-> id, due |-> 1])
        /\ UNCHANGED <<read_buffer, write_buffer>>
     \/ /\ ~Forwarded(type, addr)
        /\ Enqueue(type, id)
        /\ UNCHANGED pending
  /\ reqs' = Append(reqs, [type |-> type, addr |-> addr, arrive |-> Arrival])
  /\ ticked' = FALSE
  /\ UNCHANGED <<device, active_buffer, priority_buffer, is_write_mode, open, read_since,
                 issued, answered, refreshes_sent>>

-----------------------------------------------------------------------------
(* serve_completed_reads: one tick has passed; only the head may leave.    *)
Aged == [k \in DOMAIN pending |->
           [pending[k] EXCEPT !.due = IF @ = 0 THEN 0 ELSE @ - 1]]
HeadIsDue == pending # <<>> /\ Aged[1].due = 0
Returning == IF HeadIsDue THEN Tail(Aged) ELSE Aged
Answered == IF HeadIsDue THEN answered \cup {pending[1].id} ELSE answered

(* KVCompressionPlugin::update, on the scheduled request: about one in a   *)
(* hundred values is an outlier, which keeps the plain command.            *)
PluginTypes(type) ==
  CASE type = "kvcache_write" -> {"write", "write_comp"}
    [] type = "kvcache_read"  -> {"read", "read_comp"}
    [] OTHER                  -> {type}

(* issue_command: what the command does to the rows. *)
RowsAfter(cmd, i) ==
  CASE cmd = "ACT"  -> [open EXCEPT ![BankOfReq(i)] = RowOfReq(i)]
    [] cmd = "PRE"  -> [open EXCEPT ![BankOfReq(i)] = Closed]
    [] cmd = "PREA" -> [b \in Banks |-> Closed]
    [] OTHER        -> open

(* update_timing, as far as it tells RD and WR of one bank apart.          *)
ReadSinceAfter(cmd, i) ==
  CASE cmd = "ACT"                   -> read_since \ {BankOfReq(i)}
    [] cmd = "RD" /\ device = "DDR4" -> {b \in Banks : open[b] # Closed}
    [] cmd = "PRE"                   -> read_since \ {BankOfReq(i)}
    [] cmd = "PREA"                  -> {}
    [] OTHER                         -> read_since

(* buffer->remove(req_it): the request is in one buffer. *)
RemoveRequest(i) ==
  /\ read_buffer' = read_buffer \ {i}
  /\ write_buffer' = write_buffer \ {i}
  /\ active_buffer' = Drop(active_buffer, i)

(* The final command: the request leaves; a read waits for its data.  The  *)
(* type tested is the one the plugin left.                                 *)
Finish(i, type) ==
  /\ NextCommand(i) = FinalCommand(type)
  /\ RemoveRequest(i)
  /\ issued' = issued \cup {i}
  /\ pending' = IF type \in ReadTypes
                THEN Append(Returning, [id |-> i, due |-> ReadLatency])
                ELSE Returning

(* As a bug: the request is copied to the active buffer and not removed. *)
Activate_Copies(i) ==
  /\ NextCommand(i) = "ACT"
  /\ IF HasRoom(Len(active_buffer), ActiveMax[device])
     THEN active_buffer' = Append(Drop(active_buffer, i), i)
     ELSE UNCHANGED active_buffer
  /\ pending' = Returning
  /\ UNCHANGED <<read_buffer, write_buffer, issued>>

(* ACT: the request moves to the active buffer if that has room. *)
Activate(i) ==
  /\ NextCommand(i) = "ACT"
  /\ IF HasRoom(Len(active_buffer), ActiveMax[device])
     THEN /\ read_buffer' = read_buffer \ {i}
          /\ write_buffer' = write_buffer \ {i}
          /\ active_buffer' = Append(Drop(active_buffer, i), i)
     ELSE UNCHANGED <<read_buffer, write_buffer, active_buffer>>
  /\ pending' = Returning
  /\ UNCHANGED issued

(* Any other command - PRE, or the plain WR or RD that was chosen before   *)
(* the plugin made the request a compressed one: it stays where it is.     *)
StepTowards(i, type) ==
  /\ NextCommand(i) \notin {FinalCommand(type), "ACT"}
  /\ pending' = Returning
  /\ UNCHANGED <<read_buffer, write_buffer, active_buffer, issued>>

IssueRequest(i, refreshes) ==
  /\ i # Refresh
  /\ open' = RowsAfter(NextCommand(i), i)
  /\ read_since' = ReadSinceAfter(NextCommand(i), i)
  /\ priority_buffer' = refreshes
  /\ \E type \in PluginTypes(reqs[i].type) :
       /\ reqs' = [reqs EXCEPT ![i].type = type]
       /\ Finish(i, type) \/ Activate(i) \/ StepTowards(i, type)

IssueRefresh(i, refreshes) ==
  /\ i = Refresh
  /\ open' = RowsAfter(NextCommand(i), i)
  /\ read_since' = ReadSinceAfter(NextCommand(i), i)
  /\ priority_buffer' = IF NextCommand(i) = "REFab" THEN refreshes - 1 ELSE refreshes
  /\ pending' = Returning
  /\ UNCHANGED <<reqs, read_buffer, write_buffer, active_buffer, issued>>

IssueNothing(refreshes) ==
  /\ priority_buffer' = refreshes
  /\ pending' = Returning
  /\ UNCHANGED <<reqs, read_buffer, write_buffer, active_buffer, open, read_since,
                 issued>>

(* tick(), in its order: completed reads, the refresh manager (new is 1 if *)
(* a refresh falls due), schedule_request with set_write_mode inside it,   *)
(* the plugin, the command.                                                *)
Needs(refreshes) ==
  {Need(i) : i \in read_buffer \cup write_buffer \cup Elements(active_buffer)}
    \cup {Need(i) : i \in IF refreshes > 0 THEN {Refresh} ELSE {}}

(* HBM3PIM holds RD and WR of a bank back alike, by ACT + nRCDRD.  On DDR4 *)
(* WR waits longer than RD for a while after an RD (a shorter time than    *)
(* nRCD, so an ACT in between ends it), and RD longer than WR after a WR.  *)
Possible(ready, needs) ==
  \A b \in Banks : {<<"RD", b>>, <<"WR", b>>} \subseteq needs =>
    /\ <<"RD", b>> \in ready /\ <<"WR", b>> \notin ready => b \in read_since
    /\ <<"WR", b>> \in ready /\ <<"RD", b>> \notin ready =>
         device = "DDR4" /\ \E w \in issued : reqs[w].type \in WriteTypes

TickWith(new, ready) ==
  LET refreshes == priority_buffer + new
      scheduled == Scheduled(refreshes, ready) IN
  /\ answered' = Answered
  /\ is_write_mode' = IF QueuesReached(refreshes, ready) THEN NextMode ELSE is_write_mode
  /\ \/ scheduled = {} /\ IssueNothing(refreshes)
     \/ \E i \in scheduled :
          IssueRequest(i, refreshes) \/ IssueRefresh(i, refreshes)
  /\ ticked' = TRUE
  /\ refreshes_sent' = refreshes_sent + new
  /\ UNCHANGED device

RefreshDue == device = "DDR4" /\ refreshes_sent < MaxRefresh

Tick ==
  \E new \in IF RefreshDue THEN {0, 1} ELSE {0} :
    LET needs == Needs(priority_buffer + new) IN
    \E ready \in SUBSET needs : Possible(ready, needs) /\ TickWith(new, ready)

(* A cycle in which no timing constraint is pending. *)
ReadyTick == TickWith(0, Needs(priority_buffer))

CtrlNext == Tick \/ \E type \in Traffic[device], addr \in Addrs : Send(type, addr)

CtrlSpec == CtrlInit /\ [][CtrlNext]_vars

FairCtrlSpec == CtrlSpec /\ WF_vars(ReadyTick)

-----------------------------------------------------------------------------
PendingIds == {pending[k].id : k \in DOMAIN pending}
IsRead(i) == reqs[i].type \in ReadTypes \cup {"read_comp"}

(* Types, and the buffers' real capacity: one more than max_size.          *)
CtrlTypeOK ==
  /\ device \in Devices
  /\ reqs \in Seq([type : ReadTypes \cup WriteTypes \cup {"read_comp", "write_comp"},
                   addr : Addrs, arrive : Nat])
  /\ read_buffer \subseteq DOMAIN reqs /\ Cardinality(read_buffer) <= MaxSize + 1
  /\ write_buffer \subseteq DOMAIN reqs /\ Cardinality(write_buffer) <= MaxSize + 1
  /\ active_buffer \in Seq(DOMAIN reqs) /\ Len(active_buffer) <= ActiveMax[device] + 1
  /\ priority_buffer \in 0..refreshes_sent /\ refreshes_sent \in 0..MaxRefresh
  /\ pending \in Seq([id : DOMAIN reqs, due : 0..ReadLatency])
  /\ open \in [Banks -> Rows \cup {Closed}] /\ read_since \subseteq Banks
  /\ issued \subseteq DOMAIN reqs /\ answered \subseteq DOMAIN reqs
  /\ is_write_mode \in BOOLEAN /\ ticked \in BOOLEAN

(* A request that send() accepted is in exactly one place: a buffer, the   *)
(* pending queue, answered, or gone after its final command; and it is     *)
(* there once.  The copy made when a request turns active is the hazard:   *)
(* enqueue and remove (tick, "is_opening") must go together.               *)
InOnePlace ==
  /\ \A m, n \in DOMAIN active_buffer : active_buffer[m] = active_buffer[n] => m = n
  /\ \A m, n \in DOMAIN pending : pending[m].id = pending[n].id => m = n
  /\ LET places == <<read_buffer, write_buffer, Elements(active_buffer), PendingIds,
                     answered, issued \ (PendingIds \cup answered)>>
     IN  \A i \in DOMAIN reqs : \E p \in DOMAIN places :
           i \in places[p] /\ \A q \in DOMAIN places \ {p} : i \notin places[q]

(* The row opened for an active request stays open until its column        *)
(* command: no PRE for another row of the bank and no PREA for a refresh   *)
(* comes in between (schedule_request, step 2.3), and so no two active     *)
(* requests share a bank.  Requests the plugin rewrote need not keep to it *)
(* before they are active, and do once they are.                           *)
ActiveRowsHeld ==
  /\ \A i \in Elements(active_buffer) : open[BankOfReq(i)] = RowOfReq(i)
  /\ \A i, j \in Elements(active_buffer) : i # j => BankOfReq(i) # BankOfReq(j)

(* Without the plugin, two writes to one address reach the bank in the     *)
(* order send() accepted them, whatever the buffers they wait in: one may  *)
(* be active while the other is still in the write buffer.                 *)
WritesInOrder ==
  [][\A i, j \in DOMAIN reqs :
       (/\ device = "DDR4" /\ i < j /\ reqs[i].addr = reqs[j].addr
        /\ ~IsRead(i) /\ ~IsRead(j) /\ j \in issued' \ issued)
       => i \in issued]_vars

(* Nothing is stuck: whatever mix of reads, writes and refreshes was       *)
(* accepted, the buffers drain - write mode gives way to reads and back,   *)
(* the closing check cannot block for ever, no refresh waits for ever.     *)
BuffersDrain ==
  [](<>(/\ read_buffer = {} /\ write_buffer = {} /\ active_buffer = <<>>
        /\ priority_buffer = 0 /\ pending = <<>>))

(* What "a queue for read requests that are about to finish (callback      *)
(* after RL)" promises: an accepted read is waiting, on its way back or    *)
(* answered.  A KV read the plugin compresses is none of them.             *)
ReadsReachCaller ==
  \A i \in DOMAIN reqs : IsRead(i) =>
    i \in read_buffer \cup Elements(active_buffer) \cup PendingIds \cup answered

(* What "forward existing write requests to incoming read requests" is     *)
(* for: a read never reads the bank while an older write to its address    *)
(* has yet to be issued.                                                   *)
ReadsSeeOlderWrites ==
  [][\A i, j \in DOMAIN reqs :
       (/\ i < j /\ reqs[i].addr = reqs[j].addr
        /\ ~IsRead(i) /\ IsRead(j) /\ j \in issued' \ issued)
       => i \in issued]_vars
=============================================================================
