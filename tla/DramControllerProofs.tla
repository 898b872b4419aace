------------------------ MODULE DramControllerProofs ------------------------
(***************************************************************************)
(* Theorems about DramController, for any device, geometry, buffer sizes,  *)
(* watermarks and timings.                                                 *)
(***************************************************************************)
EXTENDS DramController, OrderLemmas

ReqTypes == ReadTypes \cup WriteTypes \cup {"read_comp", "write_comp"}

-----------------------------------------------------------------------------
(* Lists.                                                                  *)

\* What a list of elements of S is.
LEMMA SeqFacts ==
  ASSUME NEW S, NEW s \in Seq(S)
  PROVE  /\ Len(s) \in Nat /\ DOMAIN s = 1 .. Len(s)
         /\ \A k \in DOMAIN s : s[k] \in S
OBVIOUS

\* What is left of a list of distinct elements when one of them is removed.
LEMMA EraseFacts ==
  ASSUME NEW S, NEW s \in Seq(S), NEW k \in DOMAIN s
  PROVE  /\ Erase(s, k) \in Seq(S)
         /\ Len(Erase(s, k)) = Len(s) - 1
         /\ Elements(Erase(s, k)) \subseteq Elements(s)
<1>1. Len(s) \in Nat \ {0} /\ k \in 1 .. Len(s) /\ DOMAIN s = 1 .. Len(s)
  OBVIOUS
<1>2. \A j \in 1 .. Len(s) - 1 : j \in 1 .. Len(s) /\ j + 1 \in 1 .. Len(s)
  BY <1>1
<1>3. Erase(s, k) \in [1 .. Len(s) - 1 -> S]
  BY <1>1, <1>2 DEF Erase
<1>4. Erase(s, k) \in Seq(S) /\ Len(Erase(s, k)) = Len(s) - 1
  <2> DEFINE n == Len(s) - 1
  <2>1. n \in Nat
    BY <1>1
  <2>2. Erase(s, k) \in [1 .. n -> S]
    BY <1>3
  <2> HIDE DEF n
  <2>3. Erase(s, k) \in Seq(S)
    BY <2>1, <2>2
  <2>4. Len(Erase(s, k)) = n
    BY <2>1, <2>2, <2>3
  <2> QED BY <2>3, <2>4 DEF n
<1>5. \A j \in DOMAIN Erase(s, k) : Erase(s, k)[j] \in Elements(s)
  BY <1>1, <1>2 DEF Erase, Elements
<1> QED BY <1>4, <1>5 DEF Elements

\* Drop leaves a list of the same elements, if not all of them.
LEMMA DropFacts ==
  ASSUME NEW S, NEW s \in Seq(S), NEW i
  PROVE  /\ Drop(s, i) \in Seq(S)
         /\ Len(Drop(s, i)) <= Len(s)
         /\ Elements(Drop(s, i)) \subseteq Elements(s)
<1>1. CASE i \in Elements(s)
  <2> DEFINE k == CHOOSE n \in DOMAIN s : s[n] = i
  <2>1. k \in DOMAIN s
    BY <1>1 DEF Elements
  <2>2. Drop(s, i) = Erase(s, k)
    BY <1>1 DEF Drop
  <2> HIDE DEF k
  <2>3. Len(s) \in Nat
    OBVIOUS
  <2> QED BY <2>1, <2>2, <2>3, EraseFacts
<1>2. CASE i \notin Elements(s)
  BY <1>2 DEF Drop
<1> QED BY <1>1, <1>2

Distinct(s) == \A m, n \in DOMAIN s : s[m] = s[n] => m = n

\* From a list without repetitions, Drop takes exactly the one element.
LEMMA DropDistinct ==
  ASSUME NEW S, NEW s \in Seq(S), NEW i, Distinct(s)
  PROVE  /\ Distinct(Drop(s, i))
         /\ Elements(Drop(s, i)) = Elements(s) \ {i}
<1>1. CASE i \in Elements(s)
  <2> DEFINE k == CHOOSE n \in DOMAIN s : s[n] = i
  <2>1. k \in DOMAIN s /\ s[k] = i
    BY <1>1 DEF Elements
  <2>2. Drop(s, i) = Erase(s, k)
    BY <1>1 DEF Drop
  <2> HIDE DEF k
  <2>3. Len(s) \in Nat \ {0} /\ k \in 1 .. Len(s) /\ DOMAIN s = 1 .. Len(s)
    BY <2>1
  <2>4. DOMAIN Erase(s, k) = 1 .. Len(s) - 1
    BY <2>3 DEF Erase
  <2>5. \A j \in 1 .. Len(s) - 1 : Erase(s, k)[j] = IF j < k THEN s[j] ELSE s[j + 1]
    BY DEF Erase
  <2>6. \A j \in 1 .. Len(s) - 1 : Erase(s, k)[j] \in Elements(s) \ {i}
    BY <2>1, <2>3, <2>5 DEF Distinct, Elements
  <2>7. ASSUME NEW x \in Elements(s) \ {i} PROVE x \in Elements(Erase(s, k))
    <3>1. PICK n \in DOMAIN s : s[n] = x
      BY DEF Elements
    <3>2. n # k
      BY <2>1, <2>7, <3>1
    <3>3. CASE n < k
      <4>1. n \in 1 .. Len(s) - 1 /\ Erase(s, k)[n] = x
        BY <2>3, <2>5, <3>1, <3>3
      <4> QED BY <2>4, <4>1 DEF Elements
    <3>4. CASE n > k
      <4>1. n - 1 \in 1 .. Len(s) - 1 /\ Erase(s, k)[n - 1] = x
        BY <2>3, <2>5, <3>1, <3>4
      <4> QED BY <2>4, <4>1 DEF Elements
    <3> QED BY <2>3, <3>1, <3>2, <3>3, <3>4
  <2>8. Distinct(Erase(s, k))
    <3> SUFFICES ASSUME NEW m \in 1 .. Len(s) - 1, NEW n \in 1 .. Len(s) - 1,
                        Erase(s, k)[m] = Erase(s, k)[n]
                 PROVE  m = n
      BY <2>4 DEF Distinct
    <3> DEFINE at(j) == IF j < k THEN j ELSE j + 1
    <3>1. at(m) \in DOMAIN s /\ at(n) \in DOMAIN s /\ s[at(m)] = s[at(n)]
      BY <2>3, <2>5
    <3>2. at(m) = at(n)
      BY <3>1 DEF Distinct
    <3> QED BY <2>3, <3>2
  <2> QED BY <2>2, <2>4, <2>6, <2>7, <2>8 DEF Elements
<1>2. CASE i \notin Elements(s)
  BY <1>2 DEF Drop, Elements
<1> QED BY <1>1, <1>2

\* Appending to a list.
LEMMA AppendFacts ==
  ASSUME NEW S, NEW s \in Seq(S), NEW x \in S
  PROVE  /\ Append(s, x) \in Seq(S)
         /\ Len(Append(s, x)) = Len(s) + 1
         /\ Elements(Append(s, x)) = Elements(s) \cup {x}
         /\ Distinct(s) /\ x \notin Elements(s) => Distinct(Append(s, x))
<1>1. Append(s, x) \in Seq(S) /\ Len(Append(s, x)) = Len(s) + 1
  OBVIOUS
<1>2. /\ DOMAIN s = 1 .. Len(s) /\ Len(s) \in Nat
      /\ DOMAIN Append(s, x) = 1 .. Len(s) + 1
      /\ \A j \in 1 .. Len(s) : Append(s, x)[j] = s[j]
      /\ Append(s, x)[Len(s) + 1] = x
  OBVIOUS
<1>3. \A y \in Elements(s) \cup {x} : y \in Elements(Append(s, x))
  BY <1>2 DEF Elements
<1>4. \A j \in 1 .. Len(s) + 1 : Append(s, x)[j] \in Elements(s) \cup {x}
  BY <1>2 DEF Elements
<1>5. Elements(Append(s, x)) = Elements(s) \cup {x}
  BY <1>2, <1>3, <1>4 DEF Elements
<1>6. ASSUME Distinct(s), x \notin Elements(s) PROVE Distinct(Append(s, x))
  BY <1>2, <1>6 DEF Distinct, Elements
<1> QED BY <1>1, <1>5, <1>6
-----------------------------------------------------------------------------
(* What schedule_request may choose, and what a request then does.         *)

Buffered == read_buffer \cup write_buffer \cup Elements(active_buffer)

\* The buffers hold accepted requests, and an accepted request is not the
\* refresh.
LEMMA BufferedFacts ==
  ASSUME CtrlTypeOK
  PROVE  Buffered \subseteq DOMAIN reqs /\ Refresh \notin DOMAIN reqs
<1>1. Elements(active_buffer) \subseteq DOMAIN reqs
  BY DEF CtrlTypeOK, Elements
<1>2. DOMAIN reqs = 1 .. Len(reqs) /\ Len(reqs) \in Nat
  BY DEF CtrlTypeOK
<1> QED BY <1>1, <1>2 DEF CtrlTypeOK, Buffered, Refresh

\* schedule_request returns a buffered request or a waiting refresh, and never
\* one whose command closes the row of an active request.
LEMMA ScheduledFacts ==
  ASSUME CtrlTypeOK, NEW refreshes \in Nat, NEW ready,
         NEW i \in Scheduled(refreshes, ready)
  PROVE  /\ ~ClosesActiveRow(i)
         /\ i \in Buffered \/ (i = Refresh /\ refreshes > 0)
<1>1. BestActive(ready) \subseteq Elements(active_buffer)
  BY DEF BestActive, Elements
<1>2. BestOf(write_buffer, ready) \subseteq write_buffer
      /\ BestOf(read_buffer, ready) \subseteq read_buffer
  BY DEF BestOf
<1>3. ~ClosesActiveRow(i)
  BY DEF Scheduled
<1>4. CASE BestActive(ready) # {}
  BY <1>1, <1>3, <1>4 DEF Scheduled, Buffered
<1>5. CASE BestActive(ready) = {} /\ refreshes > 0
  BY <1>3, <1>5 DEF Scheduled
<1>6. CASE BestActive(ready) = {} /\ ~(refreshes > 0)
  BY <1>2, <1>3, <1>6 DEF Scheduled, Buffered
<1> QED BY <1>4, <1>5, <1>6

\* The bank and the row of an accepted request, and the command it waits for:
\* ACT only when its bank is closed.
LEMMA RequestFacts ==
  ASSUME CtrlTypeOK, NEW i \in DOMAIN reqs
  PROVE  /\ reqs[i].type \in ReqTypes
         /\ BankOfReq(i) \in Banks /\ RowOfReq(i) \in Rows
         /\ NextCommand(i) \in {"RD", "WR", "RD_COMP", "WR_COMP", "ACT", "PRE"}
         /\ NextCommand(i) = "ACT" => open[BankOfReq(i)] = Closed
<1>1. reqs[i].type \in ReqTypes /\ reqs[i].addr \in Addrs
  <2> DEFINE Request == [type : ReqTypes, addr : Addrs, arrive : Nat]
  <2>1. reqs \in Seq(Request)
    BY DEF CtrlTypeOK, ReqTypes
  <2> HIDE DEF Request
  <2>2. reqs[i] \in Request
    BY <2>1, SeqFacts
  <2> QED BY <2>2 DEF Request
<1>2. BankOfReq(i) \in Banks /\ RowOfReq(i) \in Rows
  BY <1>1, AddressAssumption DEF BankOfReq, RowOfReq
<1>3. FinalCommand(reqs[i].type) \in {"RD", "WR", "RD_COMP", "WR_COMP"}
  BY <1>1 DEF FinalCommand, ReqTypes, ReadTypes, WriteTypes
<1>4. i # Refresh
  BY BufferedFacts
<1> QED BY <1>1, <1>2, <1>3, <1>4 DEF NextCommand

\* A row is closed or one of Rows, whatever command is issued.
LEMMA RowsFacts ==
  ASSUME CtrlTypeOK, NEW i, NEW cmd, i \in DOMAIN reqs \/ cmd \in {"REFab", "PREA"}
  PROVE  /\ RowsAfter(cmd, i) \in [Banks -> Rows \cup {Closed}]
         /\ ReadSinceAfter(cmd, i) \subseteq Banks
<1>1. open \in [Banks -> Rows \cup {Closed}] /\ read_since \subseteq Banks
  BY DEF CtrlTypeOK
<1>2. i \in DOMAIN reqs => BankOfReq(i) \in Banks /\ RowOfReq(i) \in Rows
  BY RequestFacts
<1> QED BY <1>1, <1>2 DEF RowsAfter, ReadSinceAfter

\* Reads on their way back keep their requests and count down; the head may
\* leave.
LEMMA ReturningFacts ==
  ASSUME CtrlTypeOK
  PROVE  /\ Returning \in Seq([id : DOMAIN reqs, due : 0 .. ReadLatency])
         /\ Answered \subseteq DOMAIN reqs
<1> DEFINE Entry == [id : DOMAIN reqs, due : 0 .. ReadLatency]
<1>1. pending \in Seq(Entry) /\ answered \subseteq DOMAIN reqs
  BY DEF CtrlTypeOK
<1>2. ReadLatency \in Nat \ {0}
  BY LatencyAssumption
<1>3. \A e \in Entry : [e EXCEPT !.due = IF @ = 0 THEN 0 ELSE @ - 1] \in Entry
  BY <1>2
<1> HIDE DEF Entry
<1>4. DOMAIN pending = 1 .. Len(pending) /\ Len(pending) \in Nat
      /\ \A k \in 1 .. Len(pending) : pending[k] \in Entry
  BY <1>1, SeqFacts
<1>5. Aged \in [1 .. Len(pending) -> Entry]
  BY <1>3, <1>4 DEF Aged
<1>6. Aged \in Seq(Entry) /\ Len(Aged) = Len(pending)
  BY <1>4, <1>5
<1>7. CASE HeadIsDue
  <2>1. Aged # <<>> /\ 1 \in DOMAIN pending
    BY <1>4, <1>6, <1>7 DEF HeadIsDue
  <2>2. Tail(Aged) \in Seq(Entry)
    BY <1>6, <2>1
  <2>3. pending[1].id \in DOMAIN reqs
    BY <1>4, <2>1 DEF Entry
  <2> QED BY <1>1, <1>7, <2>2, <2>3 DEF Returning, Answered, Entry
<1>8. CASE ~HeadIsDue
  BY <1>1, <1>6, <1>8 DEF Returning, Answered, Entry
<1> QED BY <1>7, <1>8
-----------------------------------------------------------------------------
(* Type correctness, handler by handler.                                   *)

Request == [type : ReqTypes, addr : Addrs, arrive : Nat]

\* A list of elements of a set is a list of elements of any larger one.
LEMMA SeqMono ==
  ASSUME NEW S, NEW T, S \subseteq T, NEW s \in Seq(S)
  PROVE  s \in Seq(T)
OBVIOUS

\* The read or write buffer, while it takes at most one more request than its
\* max_size.
LEMMA BufferFacts ==
  ASSUME CtrlTypeOK, NEW buffer, buffer \subseteq DOMAIN reqs,
         Cardinality(buffer) <= MaxSize + 1
  PROVE  /\ \A i : Cardinality(buffer \ {i}) <= MaxSize + 1
         /\ HasRoom(Cardinality(buffer), MaxSize) =>
              \A i : Cardinality(buffer \cup {i}) <= MaxSize + 1
<1>1. DOMAIN reqs = 1 .. Len(reqs) /\ Len(reqs) \in Nat
  BY DEF CtrlTypeOK
<1>2. IsFiniteSet(buffer)
  <2>1. IsFiniteSet(DOMAIN reqs)
    BY <1>1, FS_Interval
  <2> QED BY <2>1, FS_Subset
<1>3. Cardinality(buffer) \in Nat /\ MaxSize \in Nat
  BY <1>2, FS_CardinalityType, SizeAssumption
<1>4. ASSUME NEW i PROVE Cardinality(buffer \ {i}) <= MaxSize + 1
  <2>1. Cardinality(buffer \ {i}) \in {Cardinality(buffer), Cardinality(buffer) - 1}
    BY <1>2, FS_RemoveElement
  <2> QED BY <1>3, <2>1
<1>5. ASSUME HasRoom(Cardinality(buffer), MaxSize), NEW i
      PROVE  Cardinality(buffer \cup {i}) <= MaxSize + 1
  <2>1. Cardinality(buffer \cup {i}) \in {Cardinality(buffer), Cardinality(buffer) + 1}
    BY <1>2, FS_AddElement
  <2> QED BY <1>3, <1>5, <2>1 DEF HasRoom
<1> QED BY <1>4, <1>5

\* send(): the new request gets the next number; everything accepted before
\* keeps its own.
LEMMA SendFacts ==
  ASSUME CtrlTypeOK, NEW type \in Traffic[device], NEW addr \in Addrs, Send(type, addr)
  PROVE  /\ reqs' \in Seq(Request)
         /\ Len(reqs) \in Nat
         /\ DOMAIN reqs = 1 .. Len(reqs) /\ DOMAIN reqs' = 1 .. Len(reqs) + 1
         /\ \A i \in DOMAIN reqs : reqs'[i] = reqs[i]
<1> USE DEF Request
<1>1. type \in ReqTypes
  BY DeviceAssumption, TrafficAssumption DEF CtrlTypeOK, ReqTypes, ReadTypes, WriteTypes
<1>2. reqs \in Seq(Request)
  BY DEF CtrlTypeOK, ReqTypes
<1> HIDE DEF Request
<1>3. Arrival \in Nat
  <2>1. CASE reqs = <<>>
    BY <2>1 DEF Arrival
  <2>2. CASE reqs # <<>>
    <3>1. Len(reqs) \in DOMAIN reqs
      BY <1>2, <2>2
    <3>2. reqs[Len(reqs)] \in Request
      BY <1>2, <3>1, SeqFacts
    <3>3. reqs[Len(reqs)].arrive \in Nat
      BY <3>2 DEF Request
    <3> QED BY <2>2, <3>3 DEF Arrival
  <2> QED BY <2>1, <2>2
<1>4. [type |-> type, addr |-> addr, arrive |-> Arrival] \in Request
  BY <1>1, <1>3 DEF Request
<1>5. reqs' = Append(reqs, [type |-> type, addr |-> addr, arrive |-> Arrival])
  BY DEF Send
<1> QED BY <1>2, <1>4, <1>5

\* send() keeps the types, and each buffer within one of its max_size.
LEMMA SendType ==
  ASSUME CtrlTypeOK, NEW type \in Traffic[device], NEW addr \in Addrs, Send(type, addr)
  PROVE  CtrlTypeOK'
<1> DEFINE Entry(dom) == [id : dom, due : 0 .. ReadLatency]
<1>1. DOMAIN reqs \subseteq DOMAIN reqs' /\ Len(reqs) + 1 \in DOMAIN reqs'
  BY SendFacts
<1>2. reqs' \in Seq([type : ReadTypes \cup WriteTypes \cup {"read_comp", "write_comp"},
                   addr : Addrs, arrive : Nat])
  BY SendFacts DEF Request, ReqTypes
<1>3. /\ read_buffer' \subseteq DOMAIN reqs' /\ Cardinality(read_buffer') <= MaxSize + 1
      /\ write_buffer' \subseteq DOMAIN reqs' /\ Cardinality(write_buffer') <= MaxSize + 1
  BY <1>1, BufferFacts DEF CtrlTypeOK, Send, Enqueue
<1>4. active_buffer' \in Seq(DOMAIN reqs') /\ Len(active_buffer') <= ActiveMax[device'] + 1
  BY <1>1, SeqMono DEF CtrlTypeOK, Send
<1>5. pending' \in Seq(Entry(DOMAIN reqs'))
  <2>1. Entry(DOMAIN reqs) \subseteq Entry(DOMAIN reqs')
    BY <1>1
  <2>2. pending \in Seq(Entry(DOMAIN reqs))
    BY DEF CtrlTypeOK
  <2>3. [id |-> Len(reqs) + 1, due |-> 1] \in Entry(DOMAIN reqs')
    BY <1>1, LatencyAssumption
  <2>4. pending' = Append(pending, [id |-> Len(reqs) + 1, due |-> 1]) \/ pending' = pending
    BY DEF Send
  <2> HIDE DEF Entry
  <2>5. pending \in Seq(Entry(DOMAIN reqs'))
    BY <2>1, <2>2, SeqMono
  <2> QED BY <2>3, <2>4, <2>5
<1>6. /\ priority_buffer' = priority_buffer /\ refreshes_sent' = refreshes_sent
      /\ open' = open /\ read_since' = read_since /\ device' = device
      /\ issued' = issued /\ answered' = answered
      /\ is_write_mode' = is_write_mode /\ ticked' = FALSE
  BY DEF Send
<1> QED BY <1>1, <1>2, <1>3, <1>4, <1>5, <1>6 DEF CtrlTypeOK

\* The plugin changes the type of a request, never its address or its number.
LEMMA IssueRequestReqs ==
  ASSUME CtrlTypeOK, NEW refreshes, NEW i \in DOMAIN reqs, IssueRequest(i, refreshes)
  PROVE  /\ reqs' \in Seq(Request) /\ DOMAIN reqs' = DOMAIN reqs
         /\ \A j \in DOMAIN reqs : reqs'[j].addr = reqs[j].addr
<1>1. PICK type \in PluginTypes(reqs[i].type) : reqs' = [reqs EXCEPT ![i].type = type]
  BY DEF IssueRequest
<1>2. type \in ReqTypes
  BY RequestFacts DEF PluginTypes, ReqTypes, ReadTypes, WriteTypes
<1>3. reqs \in Seq(Request)
  BY DEF CtrlTypeOK, Request, ReqTypes
<1>4. \A r \in Request : /\ [r EXCEPT !.type = type] \in Request
                         /\ [r EXCEPT !.type = type].addr = r.addr
  BY <1>2 DEF Request
<1>5. reqs[i] \in Request
  BY <1>3, SeqFacts
<1>6. reqs' = [reqs EXCEPT ![i] = [reqs[i] EXCEPT !.type = type]]
  BY <1>1
<1> QED BY <1>3, <1>4, <1>5, <1>6

\* The three things that can happen to a request whose command is issued.
LEMMA IssueRequestCases ==
  ASSUME CtrlTypeOK, NEW refreshes, NEW i \in DOMAIN reqs, IssueRequest(i, refreshes)
  PROVE  \/ /\ NextCommand(i) \in {"RD", "WR", "RD_COMP", "WR_COMP"}
            /\ \E type \in ReqTypes : Finish(i, type)
         \/ Activate(i)
         \/ /\ NextCommand(i) # "ACT"
            /\ \E type \in ReqTypes : StepTowards(i, type)
<1>1. PICK type \in PluginTypes(reqs[i].type) :
        Finish(i, type) \/ Activate(i) \/ StepTowards(i, type)
  BY DEF IssueRequest
<1>2. type \in ReqTypes
  BY RequestFacts DEF PluginTypes, ReqTypes, ReadTypes, WriteTypes
<1>3. FinalCommand(type) \in {"RD", "WR", "RD_COMP", "WR_COMP"}
  BY <1>2 DEF FinalCommand, ReqTypes, ReadTypes, WriteTypes
<1>4. ASSUME Finish(i, type) PROVE NextCommand(i) \in {"RD", "WR", "RD_COMP", "WR_COMP"}
  BY <1>3, <1>4 DEF Finish
<1>5. ASSUME StepTowards(i, type) PROVE NextCommand(i) # "ACT"
  BY <1>5 DEF StepTowards
<1> QED BY <1>1, <1>2, <1>4, <1>5

\* The buffers stay buffers of accepted requests, within their capacity, when a
\* request leaves one or moves to the active one.
LEMMA IssueRequestBuffers ==
  ASSUME CtrlTypeOK, NEW refreshes, NEW i \in DOMAIN reqs, IssueRequest(i, refreshes)
  PROVE  /\ read_buffer' \subseteq DOMAIN reqs /\ Cardinality(read_buffer') <= MaxSize + 1
         /\ write_buffer' \subseteq DOMAIN reqs /\ Cardinality(write_buffer') <= MaxSize + 1
         /\ active_buffer' \in Seq(DOMAIN reqs) /\ Len(active_buffer') <= ActiveMax[device] + 1
<1>1. /\ read_buffer \subseteq DOMAIN reqs /\ Cardinality(read_buffer) <= MaxSize + 1
      /\ write_buffer \subseteq DOMAIN reqs /\ Cardinality(write_buffer) <= MaxSize + 1
      /\ active_buffer \in Seq(DOMAIN reqs) /\ Len(active_buffer) <= ActiveMax[device] + 1
      /\ ActiveMax[device] \in Nat /\ Len(active_buffer) \in Nat
  BY SizeAssumption DEF CtrlTypeOK
<1>2. /\ Cardinality(read_buffer \ {i}) <= MaxSize + 1
      /\ Cardinality(write_buffer \ {i}) <= MaxSize + 1
  BY <1>1, BufferFacts
<1> DEFINE dropped == Drop(active_buffer, i)
<1>3. dropped \in Seq(DOMAIN reqs) /\ Len(dropped) <= Len(active_buffer)
      /\ Len(dropped) \in Nat
  <2>1. dropped \in Seq(DOMAIN reqs) /\ Len(dropped) <= Len(active_buffer)
    BY <1>1, DropFacts
  <2> QED BY <2>1, SeqFacts
<1>4. Append(dropped, i) \in Seq(DOMAIN reqs) /\ Len(Append(dropped, i)) = Len(dropped) + 1
  <2> HIDE DEF dropped
  <2> QED BY <1>3, AppendFacts
<1>5. CASE \E type : Finish(i, type)
  BY <1>1, <1>2, <1>3, <1>5 DEF Finish, RemoveRequest
<1>6. CASE Activate(i)
  <2>1. CASE HasRoom(Len(active_buffer), ActiveMax[device])
    <3>1. Len(active_buffer) <= ActiveMax[device]
      BY <2>1 DEF HasRoom
    <3>2. /\ read_buffer' = read_buffer \ {i} /\ write_buffer' = write_buffer \ {i}
          /\ active_buffer' = Append(dropped, i)
      BY <1>6, <2>1 DEF Activate
    <3> HIDE DEF dropped
    <3> QED BY <1>1, <1>2, <1>3, <1>4, <3>1, <3>2
  <2>2. CASE ~HasRoom(Len(active_buffer), ActiveMax[device])
    BY <1>1, <1>6, <2>2 DEF Activate
  <2> QED BY <2>1, <2>2
<1>7. CASE \E type : StepTowards(i, type)
  BY <1>1, <1>7 DEF StepTowards
<1> QED BY <1>5, <1>6, <1>7, IssueRequestCases

\* A read that has had its final command joins the pending list; nothing else
\* does.
LEMMA IssueRequestPending ==
  ASSUME CtrlTypeOK, NEW refreshes, NEW i \in DOMAIN reqs, IssueRequest(i, refreshes)
  PROVE  /\ pending' \in Seq([id : DOMAIN reqs, due : 0 .. ReadLatency])
         /\ issued' \subseteq DOMAIN reqs
<1> DEFINE Entry == [id : DOMAIN reqs, due : 0 .. ReadLatency]
<1>1. Returning \in Seq(Entry) /\ issued \subseteq DOMAIN reqs
  BY ReturningFacts DEF CtrlTypeOK
<1>2. [id |-> i, due |-> ReadLatency] \in Entry
  BY LatencyAssumption
<1>3. pending' \in {Returning, Append(Returning, [id |-> i, due |-> ReadLatency])}
      /\ issued' \in {issued, issued \cup {i}}
  BY IssueRequestCases DEF Finish, Activate, StepTowards
<1> HIDE DEF Entry
<1>4. pending' \in Seq(Entry)
  BY <1>1, <1>2, <1>3, AppendFacts
<1> QED BY <1>1, <1>3, <1>4 DEF Entry

\* What a tick does: a request's command, a refresh's, or none.  `new' is 1 when
\* a refresh falls due in it (TickOf).
TickKind(ready, refreshes) ==
  \/ IssueNothing(refreshes)
  \/ \E i \in DOMAIN reqs : /\ i \in Scheduled(refreshes, ready)
                            /\ IssueRequest(i, refreshes)
  \/ /\ Refresh \in Scheduled(refreshes, ready) /\ refreshes > 0
     /\ IssueRefresh(Refresh, refreshes)

TickOf(new, ready) ==
  /\ new \in {0, 1}
  /\ priority_buffer + new \in 0 .. refreshes_sent + new
  /\ refreshes_sent' = refreshes_sent + new /\ refreshes_sent + new \in 0 .. MaxRefresh
  /\ TickKind(ready, priority_buffer + new)
  /\ TickWith(new, ready)

\* Every tick is one of them: what is scheduled is a buffered request or a waiting
\* refresh.
LEMMA TickCases ==
  ASSUME CtrlTypeOK, Tick
  PROVE  \E new, ready : TickOf(new, ready)
<1>1. PICK new \in IF RefreshDue THEN {0, 1} ELSE {0} :
        \E ready \in SUBSET Needs(priority_buffer + new) : TickWith(new, ready)
  BY DEF Tick
<1>2. PICK ready : TickWith(new, ready)
  BY <1>1
<1> DEFINE refreshes == priority_buffer + new
<1>3. /\ new \in {0, 1} /\ refreshes \in 0 .. refreshes_sent + new
      /\ refreshes_sent + new \in 0 .. MaxRefresh /\ refreshes \in Nat
  BY <1>1, BoundAssumption DEF CtrlTypeOK, RefreshDue
<1>4. refreshes_sent' = refreshes_sent + new
  BY <1>2 DEF TickWith
<1>5. \/ IssueNothing(refreshes)
      \/ \E i \in Scheduled(refreshes, ready) :
           IssueRequest(i, refreshes) \/ IssueRefresh(i, refreshes)
  BY <1>2 DEF TickWith
<1> HIDE DEF refreshes
<1>6. TickKind(ready, refreshes)
  <2>1. CASE IssueNothing(refreshes)
    BY <2>1 DEF TickKind
  <2>2. ASSUME NEW i \in Scheduled(refreshes, ready), IssueRequest(i, refreshes)
        PROVE  TickKind(ready, refreshes)
    <3>1. i \in Buffered
      BY <1>3, <2>2, ScheduledFacts DEF IssueRequest
    <3> QED BY <2>2, <3>1, BufferedFacts DEF TickKind
  <2>3. ASSUME NEW i \in Scheduled(refreshes, ready), IssueRefresh(i, refreshes)
        PROVE  TickKind(ready, refreshes)
    <3>1. i = Refresh
      BY <2>3 DEF IssueRefresh
    <3>2. refreshes > 0
      BY <1>3, <3>1, ScheduledFacts, BufferedFacts
    <3> QED BY <2>3, <3>1, <3>2 DEF TickKind
  <2> QED BY <1>5, <2>1, <2>2, <2>3
<1> QED BY <1>2, <1>3, <1>4, <1>6 DEF refreshes, TickOf

\* A refresh waits for an all-bank precharge or for itself.
LEMMA RefreshCommand == NextCommand(Refresh) \in {"REFab", "PREA"}
BY DEF NextCommand

\* tick() keeps the types.
LEMMA TickType ==
  ASSUME CtrlTypeOK, Tick
  PROVE  CtrlTypeOK'
<1>1. PICK new, ready : TickOf(new, ready)
  BY TickCases
<1>2. /\ device' = device /\ ticked' = TRUE /\ answered' = Answered
      /\ is_write_mode' = IF QueuesReached(priority_buffer + new, ready)
                          THEN NextMode ELSE is_write_mode
  BY <1>1 DEF TickOf, TickWith
<1>3. is_write_mode' \in BOOLEAN
  <2>1. is_write_mode \in BOOLEAN
    BY DEF CtrlTypeOK
  <2> QED BY <1>2, <2>1 DEF NextMode
<1>4. reqs' \in Seq(Request) /\ DOMAIN reqs' = DOMAIN reqs
  <2>1. reqs \in Seq(Request)
    BY DEF CtrlTypeOK, Request, ReqTypes
  <2> QED BY <1>1, <2>1, IssueRequestReqs DEF TickOf, TickKind, IssueNothing, IssueRefresh
<1>5. /\ read_buffer' \subseteq DOMAIN reqs /\ Cardinality(read_buffer') <= MaxSize + 1
      /\ write_buffer' \subseteq DOMAIN reqs /\ Cardinality(write_buffer') <= MaxSize + 1
      /\ active_buffer' \in Seq(DOMAIN reqs) /\ Len(active_buffer') <= ActiveMax[device] + 1
  BY <1>1, IssueRequestBuffers DEF TickOf, TickKind, IssueNothing, IssueRefresh, CtrlTypeOK
<1>6. priority_buffer' \in 0 .. refreshes_sent' /\ refreshes_sent' \in 0 .. MaxRefresh
  BY <1>1 DEF TickOf, TickKind, IssueNothing, IssueRefresh, IssueRequest
<1>7. /\ pending' \in Seq([id : DOMAIN reqs, due : 0 .. ReadLatency])
      /\ issued' \subseteq DOMAIN reqs
  <2>1. Returning \in Seq([id : DOMAIN reqs, due : 0 .. ReadLatency])
        /\ issued \subseteq DOMAIN reqs
    BY ReturningFacts DEF CtrlTypeOK
  <2> QED BY <1>1, <2>1, IssueRequestPending DEF TickOf, TickKind, IssueNothing, IssueRefresh
<1>8. open' \in [Banks -> Rows \cup {Closed}] /\ read_since' \subseteq Banks
  <2>1. CASE IssueNothing(priority_buffer + new)
    BY <2>1 DEF IssueNothing, CtrlTypeOK
  <2>2. ASSUME NEW i \in DOMAIN reqs, IssueRequest(i, priority_buffer + new)
        PROVE  open' \in [Banks -> Rows \cup {Closed}] /\ read_since' \subseteq Banks
    BY <2>2, RowsFacts DEF IssueRequest
  <2>3. CASE IssueRefresh(Refresh, priority_buffer + new)
    BY <2>3, RowsFacts, RefreshCommand DEF IssueRefresh
  <2> QED BY <1>1, <2>1, <2>2, <2>3 DEF TickOf, TickKind
<1>9. answered' \subseteq DOMAIN reqs
  BY <1>2, ReturningFacts
<1> QED BY <1>2, <1>3, <1>4, <1>5, <1>6, <1>7, <1>8, <1>9 DEF CtrlTypeOK, Request, ReqTypes

\* Every state of the controller is well typed: buffers of accepted requests,
\* never more than one over their max_size, and rows that exist.
THEOREM CtrlTypeCorrect == CtrlSpec => []CtrlTypeOK
<1>1. CtrlInit => CtrlTypeOK
  <2> SUFFICES ASSUME CtrlInit PROVE CtrlTypeOK
    OBVIOUS
  <2>1. Cardinality({}) = 0
    BY FS_EmptySet
  <2>2. device \in Devices /\ MaxSize \in Nat /\ ActiveMax[device] \in Nat /\ MaxRefresh \in Nat
    BY SizeAssumption, BoundAssumption DEF CtrlInit
  <2>3. \A S : <<>> \in Seq(S) /\ Len(<<>>) = 0
    OBVIOUS
  <2>4. open \in [Banks -> Rows \cup {Closed}] /\ is_write_mode \in BOOLEAN /\ ticked \in BOOLEAN
    BY DEF CtrlInit
  <2>5. 0 \in 0 .. 0 /\ 0 \in 0 .. MaxRefresh /\ 0 <= MaxSize + 1 /\ 0 <= ActiveMax[device] + 1
    BY <2>2
  <2> QED BY <2>1, <2>2, <2>3, <2>4, <2>5 DEF CtrlInit, CtrlTypeOK
<1>2. CtrlTypeOK /\ [CtrlNext]_vars => CtrlTypeOK'
  <2> SUFFICES ASSUME CtrlTypeOK, [CtrlNext]_vars PROVE CtrlTypeOK'
    OBVIOUS
  <2>1. CASE Tick
    BY <2>1, TickType
  <2>2. ASSUME NEW type \in Traffic[device], NEW addr \in Addrs, Send(type, addr)
        PROVE  CtrlTypeOK'
    BY <2>2, SendType
  <2>3. CASE UNCHANGED vars
    BY <2>3 DEF CtrlTypeOK, vars, queueVars
  <2> QED BY <2>1, <2>2, <2>3 DEF CtrlNext
<1> QED BY <1>1, <1>2, PTL DEF CtrlSpec
-----------------------------------------------------------------------------
(* The rows of the active requests.                                        *)

\* An active request's bank is open, so no ACT is issued for it.
LEMMA ActiveBankOpen ==
  ASSUME CtrlTypeOK, ActiveRowsHeld, NEW j \in Elements(active_buffer)
  PROVE  /\ j \in DOMAIN reqs
         /\ BankOfReq(j) \in Banks /\ open[BankOfReq(j)] = RowOfReq(j)
         /\ open[BankOfReq(j)] # Closed
<1>1. j \in DOMAIN reqs
  BY BufferedFacts DEF Buffered
<1> QED BY <1>1, RequestFacts, ClosedAssumption DEF ActiveRowsHeld

\* The property seen from its parts: which requests are active, which bank and
\* row they have, and which rows are open.
LEMMA HeldFrom ==
  ASSUME CtrlTypeOK, DOMAIN reqs' = DOMAIN reqs,
         \A j \in DOMAIN reqs : reqs'[j].addr = reqs[j].addr,
         Elements(active_buffer)' \subseteq DOMAIN reqs,
         \A j \in Elements(active_buffer)' : open'[BankOfReq(j)] = RowOfReq(j),
         \A i, j \in Elements(active_buffer)' : i # j => BankOfReq(i) # BankOfReq(j)
  PROVE  ActiveRowsHeld'
BY DEF ActiveRowsHeld, BankOfReq, RowOfReq

\* A request's command leaves the rows of the active requests open.
LEMMA RequestHolds ==
  ASSUME CtrlTypeOK, ActiveRowsHeld, NEW refreshes, NEW i \in DOMAIN reqs,
         IssueRequest(i, refreshes), ~ClosesActiveRow(i)
  PROVE  ActiveRowsHeld'
<1>1. /\ DOMAIN reqs' = DOMAIN reqs
      /\ \A j \in DOMAIN reqs : reqs'[j].addr = reqs[j].addr
  BY IssueRequestReqs
<1>2. open' = RowsAfter(NextCommand(i), i)
  BY DEF IssueRequest
<1>3. open \in [Banks -> Rows \cup {Closed}] /\ BankOfReq(i) \in Banks
  BY RequestFacts DEF CtrlTypeOK
<1> DEFINE Active == Elements(active_buffer)
<1>4. /\ \A j \in Active : j \in DOMAIN reqs /\ open[BankOfReq(j)] = RowOfReq(j)
                          /\ BankOfReq(j) \in Banks
      /\ \A j \in Active : open[BankOfReq(j)] # Closed
      /\ \A j, k \in Active : j # k => BankOfReq(j) # BankOfReq(k)
  BY ActiveBankOpen DEF ActiveRowsHeld
<1>5. Elements(Drop(active_buffer, i)) \subseteq Active
  BY DropFacts DEF CtrlTypeOK
<1>6. CASE /\ NextCommand(i) \in {"RD", "WR", "RD_COMP", "WR_COMP"}
           /\ \E type \in ReqTypes : Finish(i, type)
  <2>1. open' = open
    BY <1>2, <1>6 DEF RowsAfter
  <2>2. Elements(active_buffer)' \subseteq Active
    BY <1>5, <1>6 DEF Finish, RemoveRequest, Elements
  <2> HIDE DEF Active
  <2> QED BY <1>1, <1>4, <2>1, <2>2, HeldFrom
<1>7. CASE Activate(i)
  <2>1. NextCommand(i) = "ACT" /\ open[BankOfReq(i)] = Closed
    BY <1>7, RequestFacts DEF Activate
  <2>2. open' = [open EXCEPT ![BankOfReq(i)] = RowOfReq(i)]
    BY <1>2, <2>1 DEF RowsAfter
  <2>3. \A j \in Active : BankOfReq(j) # BankOfReq(i)
    BY <1>4, <2>1
  <2>4. Elements(active_buffer)' \subseteq Active \cup {i}
    <3>1. active_buffer' = active_buffer \/ active_buffer' = Append(Drop(active_buffer, i), i)
      BY <1>7 DEF Activate
    <3>2. Elements(Append(Drop(active_buffer, i), i)) \subseteq Active \cup {i}
      <4>1. Drop(active_buffer, i) \in Seq(DOMAIN reqs)
        BY DropFacts DEF CtrlTypeOK
      <4> QED BY <1>5, <4>1, AppendFacts
    <3> QED BY <3>1, <3>2 DEF Elements
  <2> HIDE DEF Active
  <2>5. /\ Elements(active_buffer)' \subseteq DOMAIN reqs
        /\ \A j \in Elements(active_buffer)' : open'[BankOfReq(j)] = RowOfReq(j)
    BY <1>3, <1>4, <2>2, <2>3, <2>4
  <2>6. \A j, k \in Elements(active_buffer)' : j # k => BankOfReq(j) # BankOfReq(k)
    BY <1>4, <2>3, <2>4
  <2> QED BY <1>1, <2>5, <2>6, HeldFrom
<1>8. CASE /\ NextCommand(i) # "ACT"
           /\ \E type \in ReqTypes : StepTowards(i, type)
  <2>1. Elements(active_buffer)' = Active
    BY <1>8 DEF StepTowards, Elements
  <2>2. \A j \in Active : open'[BankOfReq(j)] = open[BankOfReq(j)]
    <3>1. CASE NextCommand(i) = "PRE"
      <4>1. open' = [open EXCEPT ![BankOfReq(i)] = Closed]
        BY <1>2, <3>1 DEF RowsAfter
      <4>2. \A j \in Active : BankOfReq(j) # BankOfReq(i)
        BY <3>1 DEF ClosesActiveRow
      <4> QED BY <1>3, <1>4, <4>1, <4>2
    <3>2. CASE NextCommand(i) \in {"RD", "WR", "RD_COMP", "WR_COMP"}
      BY <1>2, <3>2 DEF RowsAfter
    <3> QED BY <1>8, <3>1, <3>2, RequestFacts
  <2> HIDE DEF Active
  <2> QED BY <1>1, <1>4, <2>1, <2>2, HeldFrom
<1> QED BY <1>6, <1>7, <1>8, IssueRequestCases

\* A refresh's command leaves them open, as PREA is held back while any is active.
LEMMA RefreshHolds ==
  ASSUME CtrlTypeOK, ActiveRowsHeld, NEW refreshes, IssueRefresh(Refresh, refreshes),
         ~ClosesActiveRow(Refresh)
  PROVE  ActiveRowsHeld'
<1>1. UNCHANGED <<reqs, active_buffer>> /\ open' = RowsAfter(NextCommand(Refresh), Refresh)
  BY DEF IssueRefresh
<1>2. CASE NextCommand(Refresh) = "REFab"
  <2>1. open' = open
    BY <1>1, <1>2 DEF RowsAfter
  <2> QED BY <1>1, <2>1 DEF ActiveRowsHeld, Elements, BankOfReq, RowOfReq
<1>3. CASE NextCommand(Refresh) = "PREA"
  <2>1. Elements(active_buffer)' = {}
    BY <1>1, <1>3 DEF ClosesActiveRow, Elements
  <2> QED BY <2>1 DEF ActiveRowsHeld
<1> QED BY <1>2, <1>3, RefreshCommand

\* The row opened for an active request stays open until its column command,
\* and no two active requests share a bank: an ACT needs a closed bank, and the
\* closing check stops every PRE and PREA that would take the row away.
THEOREM ActiveRowsAreHeld == CtrlSpec => []ActiveRowsHeld
<1>1. CtrlInit => ActiveRowsHeld
  BY DEF CtrlInit, ActiveRowsHeld, Elements
<1>2. CtrlTypeOK /\ ActiveRowsHeld /\ [CtrlNext]_vars => ActiveRowsHeld'
  <2> SUFFICES ASSUME CtrlTypeOK, ActiveRowsHeld, [CtrlNext]_vars PROVE ActiveRowsHeld'
    OBVIOUS
  <2>1. CASE Tick
    <3>1. PICK new, ready : TickOf(new, ready)
      BY <2>1, TickCases
    <3> DEFINE refreshes == priority_buffer + new
    <3>2. refreshes \in Nat
      BY <3>1, BoundAssumption DEF TickOf
    <3>3. TickKind(ready, refreshes)
      BY <3>1 DEF TickOf
    <3> HIDE DEF refreshes
    <3>4. CASE IssueNothing(refreshes)
      BY <3>4 DEF IssueNothing, ActiveRowsHeld, Elements, BankOfReq, RowOfReq
    <3>5. ASSUME NEW i \in DOMAIN reqs, i \in Scheduled(refreshes, ready),
                 IssueRequest(i, refreshes)
          PROVE  ActiveRowsHeld'
      BY <3>2, <3>5, ScheduledFacts, RequestHolds
    <3>6. CASE Refresh \in Scheduled(refreshes, ready) /\ IssueRefresh(Refresh, refreshes)
      BY <3>2, <3>6, ScheduledFacts, RefreshHolds
    <3> QED BY <3>3, <3>4, <3>5, <3>6 DEF TickKind
  <2>2. ASSUME NEW type \in Traffic[device], NEW addr \in Addrs, Send(type, addr)
        PROVE  ActiveRowsHeld'
    <3>1. UNCHANGED <<active_buffer, open>>
      BY <2>2 DEF Send
    <3>2. \A j \in Elements(active_buffer) : reqs'[j] = reqs[j]
      BY <2>2, SendFacts, BufferedFacts DEF Buffered
    <3> QED BY <3>1, <3>2 DEF ActiveRowsHeld, Elements, BankOfReq, RowOfReq
  <2>3. CASE UNCHANGED vars
    BY <2>3 DEF ActiveRowsHeld, Elements, BankOfReq, RowOfReq, vars, queueVars
  <2> QED BY <2>1, <2>2, <2>3 DEF CtrlNext
<1> QED BY <1>1, <1>2, CtrlTypeCorrect, PTL DEF CtrlSpec
-----------------------------------------------------------------------------
(* One place for each request.                                             *)

Ids(s) == {s[k].id : k \in DOMAIN s}
DistinctIds(s) == \A m, n \in DOMAIN s : s[m].id = s[n].id => m = n

\* Request i is in exactly one of: the read, the write and the active buffer (R,
\* W, A), the pending list (P), the answered reads (N), the finished rest of the
\* issued requests (I).
InOne(i, R, W, A, P, N, I) ==
  \/ i \in R /\ i \notin W \cup A \cup P \cup N \cup I
  \/ i \in W /\ i \notin R \cup A \cup P \cup N \cup I
  \/ i \in A /\ i \notin R \cup W \cup P \cup N \cup I
  \/ i \in P /\ i \notin R \cup W \cup A \cup N
  \/ i \in N /\ i \notin R \cup W \cup A \cup P
  \/ i \in I /\ i \notin R \cup W \cup A \cup P \cup N

\* InOnePlace, place by place.
PlaceOf(i) ==
  InOne(i, read_buffer, write_buffer, Elements(active_buffer), Ids(pending), answered, issued)
PlaceInv ==
  /\ Distinct(active_buffer) /\ DistinctIds(pending)
  /\ \A i \in DOMAIN reqs : PlaceOf(i)

\* PlaceInv says no less than the property.
LEMMA PlaceInvIsInOnePlace == PlaceInv => InOnePlace
<1> SUFFICES ASSUME PlaceInv PROVE InOnePlace
  OBVIOUS
<1> DEFINE places == <<read_buffer, write_buffer, Elements(active_buffer), PendingIds,
                       answered, issued \ (PendingIds \cup answered)>>
<1>1. ASSUME NEW i \in DOMAIN reqs
      PROVE  \E p \in DOMAIN places :
               i \in places[p] /\ \A q \in DOMAIN places \ {p} : i \notin places[q]
  <2>1. InOne(i, read_buffer, write_buffer, Elements(active_buffer), PendingIds, answered, issued)
    BY DEF PlaceInv, PlaceOf, Ids, PendingIds
  <2>2. DOMAIN places = 1 .. 6
    OBVIOUS
  <2> HIDE DEF places
  <2>3. /\ places[1] = read_buffer /\ places[2] = write_buffer
        /\ places[3] = Elements(active_buffer) /\ places[4] = PendingIds
        /\ places[5] = answered /\ places[6] = issued \ (PendingIds \cup answered)
    BY DEF places
  <2>4. \E p \in 1 .. 6 : i \in places[p] /\ \A q \in (1 .. 6) \ {p} : i \notin places[q]
    <3>1. \A q \in 1 .. 6 : q \in {1, 2, 3, 4, 5, 6}
      OBVIOUS
    <3> QED BY <2>1, <2>3, <3>1 DEF InOne
  <2> QED BY <2>2, <2>4
<1> QED BY <1>1 DEF PlaceInv, InOnePlace, Distinct, DistinctIds

\* Appending an entry to the pending list.
LEMMA AppendIds ==
  ASSUME NEW S, NEW s \in Seq(S), NEW e \in S
  PROVE  /\ Ids(Append(s, e)) = Ids(s) \cup {e.id}
         /\ DistinctIds(s) /\ e.id \notin Ids(s) => DistinctIds(Append(s, e))
<1>1. /\ DOMAIN s = 1 .. Len(s) /\ Len(s) \in Nat
      /\ DOMAIN Append(s, e) = 1 .. Len(s) + 1
      /\ \A j \in 1 .. Len(s) : Append(s, e)[j] = s[j]
      /\ Append(s, e)[Len(s) + 1] = e
  OBVIOUS
<1>2. \A y \in Ids(s) \cup {e.id} : y \in Ids(Append(s, e))
  BY <1>1 DEF Ids
<1>3. \A j \in 1 .. Len(s) + 1 : Append(s, e)[j].id \in Ids(s) \cup {e.id}
  BY <1>1 DEF Ids
<1>4. Ids(Append(s, e)) = Ids(s) \cup {e.id}
  BY <1>1, <1>2, <1>3 DEF Ids
<1>5. ASSUME DistinctIds(s), e.id \notin Ids(s) PROVE DistinctIds(Append(s, e))
  BY <1>1, <1>5 DEF DistinctIds, Ids
<1> QED BY <1>4, <1>5

\* Serving completed reads takes from the pending list what it adds to the
\* answered reads.
LEMMA ReturningIds ==
  ASSUME CtrlTypeOK, DistinctIds(pending)
  PROVE  /\ DistinctIds(Returning)
         /\ \E gone \in SUBSET Ids(pending) :
              Ids(Returning) = Ids(pending) \ gone /\ Answered = answered \cup gone
<1> DEFINE Entry == [id : DOMAIN reqs, due : 0 .. ReadLatency]
<1>1. pending \in Seq(Entry)
  BY DEF CtrlTypeOK
<1>2. \A e \in Entry : [e EXCEPT !.due = IF @ = 0 THEN 0 ELSE @ - 1].id = e.id
                     /\ [e EXCEPT !.due = IF @ = 0 THEN 0 ELSE @ - 1] \in Entry
  BY LatencyAssumption
<1> HIDE DEF Entry
<1>3. DOMAIN pending = 1 .. Len(pending) /\ Len(pending) \in Nat
      /\ \A k \in 1 .. Len(pending) : pending[k] \in Entry
  BY <1>1, SeqFacts
<1>4. /\ DOMAIN Aged = 1 .. Len(pending)
      /\ \A k \in 1 .. Len(pending) : Aged[k].id = pending[k].id
      /\ Aged \in [1 .. Len(pending) -> Entry]
  BY <1>2, <1>3 DEF Aged
<1>5. Aged \in Seq(Entry) /\ Len(Aged) = Len(pending)
  BY <1>3, <1>4
<1>6. CASE ~HeadIsDue
  <2>1. Ids(Aged) = Ids(pending) /\ DistinctIds(Aged)
    BY <1>3, <1>4 DEF Ids, DistinctIds
  <2>2. Ids(Returning) = Ids(pending) \ {} /\ Answered = answered \cup {}
    BY <1>6, <2>1 DEF Returning, Answered
  <2> QED BY <1>6, <2>1, <2>2 DEF Returning
<1>7. CASE HeadIsDue
  <2> DEFINE head == pending[1].id
  <2>1. Len(pending) \in Nat \ {0} /\ Aged # <<>>
    <3>1. pending # <<>>
      BY <1>7 DEF HeadIsDue
    <3>2. Len(pending) # 0
      BY <1>1, <3>1
    <3> QED BY <1>3, <1>5, <3>2
  <2>2. Returning = Tail(Aged) /\ Answered = answered \cup {head}
    BY <1>7 DEF Returning, Answered
  <2>3. /\ DOMAIN Tail(Aged) = 1 .. Len(pending) - 1
        /\ \A k \in 1 .. Len(pending) - 1 : Tail(Aged)[k] = Aged[k + 1]
    BY <1>5, <2>1
  <2>4. \A k \in 1 .. Len(pending) - 1 : k + 1 \in 1 .. Len(pending)
                                    /\ Tail(Aged)[k].id = pending[k + 1].id
    BY <1>3, <1>4, <2>1, <2>3
  <2>5. DistinctIds(Tail(Aged))
    BY SMTT(30), <1>3, <2>3, <2>4 DEF DistinctIds
  <2>6. Ids(Tail(Aged)) = Ids(pending) \ {head}
    <3>1. ASSUME NEW x \in Ids(Tail(Aged)) PROVE x \in Ids(pending) \ {head}
      <4>1. PICK k \in 1 .. Len(pending) - 1 : x = Tail(Aged)[k].id
        BY <2>3 DEF Ids
      <4>2. k + 1 \in DOMAIN pending /\ 1 \in DOMAIN pending /\ k + 1 # 1
        BY <1>3, <2>1
      <4> QED BY <2>4, <4>1, <4>2 DEF Ids, DistinctIds
    <3>2. ASSUME NEW x \in Ids(pending) \ {head} PROVE x \in Ids(Tail(Aged))
      <4>1. PICK k \in 1 .. Len(pending) : x = pending[k].id
        BY <1>3 DEF Ids
      <4>2. k - 1 \in 1 .. Len(pending) - 1 /\ (k - 1) + 1 = k
        BY <1>3, <3>2, <4>1
      <4>3. Tail(Aged)[k - 1].id = x
        BY <2>4, <4>1, <4>2
      <4> QED BY <2>3, <4>2, <4>3 DEF Ids
    <3> QED BY <3>1, <3>2
  <2>7. {head} \in SUBSET Ids(pending)
    BY <1>3, <2>1 DEF Ids
  <2> QED BY <2>2, <2>5, <2>6, <2>7
<1> QED BY <1>6, <1>7

\* The sets every conjunct of CtrlTypeOK keeps inside the accepted requests.
LEMMA PlacesAreRequests ==
  ASSUME CtrlTypeOK
  PROVE  /\ read_buffer \cup write_buffer \cup Elements(active_buffer) \subseteq DOMAIN reqs
         /\ Ids(pending) \cup answered \cup issued \subseteq DOMAIN reqs
<1>1. Ids(pending) \subseteq DOMAIN reqs
  <2> DEFINE Entry == [id : DOMAIN reqs, due : 0 .. ReadLatency]
  <2>1. pending \in Seq(Entry)
    BY DEF CtrlTypeOK
  <2>2. \A e \in Entry : e.id \in DOMAIN reqs
    OBVIOUS
  <2> HIDE DEF Entry
  <2> QED BY <2>1, <2>2, SeqFacts DEF Ids
<1> QED BY <1>1, BufferedFacts DEF CtrlTypeOK, Buffered

\* A new request goes to one place and leaves the others alone.
LEMMA SendPlace ==
  ASSUME CtrlTypeOK, PlaceInv, NEW type \in Traffic[device], NEW addr \in Addrs,
         Send(type, addr)
  PROVE  PlaceInv'
<1> DEFINE id == Len(reqs) + 1
           Entry == [id : DOMAIN reqs', due : 0 .. ReadLatency]
           Active == Elements(active_buffer)
<1>1. /\ DOMAIN reqs' = DOMAIN reqs \cup {id} /\ id \notin DOMAIN reqs
  <2>1. /\ Len(reqs) \in Nat
        /\ DOMAIN reqs = 1 .. Len(reqs) /\ DOMAIN reqs' = 1 .. Len(reqs) + 1
    BY SendFacts
  <2>2. \A n \in Nat : 1 .. n + 1 = (1 .. n) \cup {n + 1} /\ n + 1 \notin 1 .. n
    OBVIOUS
  <2> QED BY <2>1, <2>2
<1>2. /\ UNCHANGED <<active_buffer, answered, issued>>
  BY DEF Send
<1>3. /\ read_buffer \cup write_buffer \cup Active \subseteq DOMAIN reqs
      /\ Ids(pending) \cup answered \cup issued \subseteq DOMAIN reqs
  BY PlacesAreRequests
<1>4. \/ /\ pending' = Append(pending, [id |-> id, due |-> 1])
         /\ UNCHANGED <<read_buffer, write_buffer>>
      \/ /\ pending' = pending
         /\ \/ read_buffer' = read_buffer \cup {id} /\ write_buffer' = write_buffer
            \/ write_buffer' = write_buffer \cup {id} /\ read_buffer' = read_buffer
  BY DEF Send, Enqueue
<1>5. /\ Ids(Append(pending, [id |-> id, due |-> 1])) = Ids(pending) \cup {id}
      /\ DistinctIds(Append(pending, [id |-> id, due |-> 1]))
  <2>1. pending \in Seq(Entry)
    <3>1. [id : DOMAIN reqs, due : 0 .. ReadLatency] \subseteq Entry
      BY <1>1
    <3>2. pending \in Seq([id : DOMAIN reqs, due : 0 .. ReadLatency])
      BY DEF CtrlTypeOK
    <3> HIDE DEF Entry
    <3> QED BY <3>1, <3>2, SeqMono
  <2>2. [id |-> id, due |-> 1] \in Entry /\ [id |-> id, due |-> 1].id = id
    BY <1>1, LatencyAssumption
  <2>3. id \notin Ids(pending) /\ DistinctIds(pending)
    BY <1>1, <1>3 DEF PlaceInv
  <2> HIDE DEF Entry, id
  <2> QED BY <2>1, <2>2, <2>3, AppendIds
<1>6. Distinct(active_buffer)' /\ DistinctIds(pending)'
  BY <1>2, <1>4, <1>5 DEF PlaceInv, Distinct, DistinctIds
<1>7. Elements(active_buffer)' = Active
  BY <1>2 DEF Elements
<1>8. \/ Ids(pending)' = Ids(pending) \cup {id} /\ UNCHANGED <<read_buffer, write_buffer>>
      \/ /\ Ids(pending)' = Ids(pending)
         /\ \/ read_buffer' = read_buffer \cup {id} /\ write_buffer' = write_buffer
            \/ write_buffer' = write_buffer \cup {id} /\ read_buffer' = read_buffer
  BY <1>4, <1>5 DEF Ids
<1> HIDE DEF id, Active
<1>9. ASSUME NEW i \in DOMAIN reqs' PROVE PlaceOf(i)'
  <2>1. CASE i \in DOMAIN reqs
    <3>1. InOne(i, read_buffer, write_buffer, Active, Ids(pending), answered, issued)
      BY <2>1 DEF PlaceInv, PlaceOf, Active
    <3>2. i # id
      BY <1>1, <2>1
    <3>3. InOne(i, read_buffer', write_buffer', Active, Ids(pending)', answered, issued)
      BY <1>8, <3>1, <3>2 DEF InOne
    <3> QED BY <1>2, <1>7, <3>3 DEF PlaceOf
  <2>2. CASE i = id
    <3>1. i \notin read_buffer \cup write_buffer \cup Active \cup Ids(pending)
                    \cup answered \cup issued
      BY <1>1, <1>3, <2>2
    <3>2. InOne(i, read_buffer', write_buffer', Active, Ids(pending)', answered, issued)
      BY <1>8, <2>2, <3>1 DEF InOne
    <3> QED BY <1>2, <1>7, <3>2 DEF PlaceOf
  <2> QED BY <1>1, <2>1, <2>2
<1> QED BY <1>6, <1>9 DEF PlaceInv

\* A tick that moves no request out of its buffer.
LEMMA StillPlace ==
  ASSUME CtrlTypeOK, PlaceInv, DOMAIN reqs' = DOMAIN reqs, pending' = Returning,
         answered' = Answered, UNCHANGED <<read_buffer, write_buffer, active_buffer, issued>>
  PROVE  PlaceInv'
<1>1. DistinctIds(Returning)
  BY ReturningIds DEF PlaceInv
<1>2. PICK gone \in SUBSET Ids(pending) :
        Ids(Returning) = Ids(pending) \ gone /\ Answered = answered \cup gone
  BY ReturningIds DEF PlaceInv
<1>3. Distinct(active_buffer)' /\ DistinctIds(pending)'
  BY <1>1 DEF PlaceInv, Distinct, DistinctIds
<1>4. /\ Elements(active_buffer)' = Elements(active_buffer)
      /\ Ids(pending)' = Ids(pending) \ gone /\ answered' = answered \cup gone
  BY <1>2 DEF Elements, Ids
<1>5. ASSUME NEW i \in DOMAIN reqs PROVE PlaceOf(i)'
  <2>1. InOne(i, read_buffer, write_buffer, Elements(active_buffer), Ids(pending), answered, issued)
    BY DEF PlaceInv, PlaceOf
  <2>2. InOne(i, read_buffer, write_buffer, Elements(active_buffer), Ids(pending) \ gone,
              answered \cup gone, issued)
    BY <1>2, <2>1 DEF InOne
  <2> QED BY <1>4, <2>2 DEF PlaceOf
<1> QED BY <1>3, <1>5 DEF PlaceInv

\* A request whose command is issued leaves its buffer for the pending list, for
\* good, or for the active buffer; or stays.
LEMMA RequestPlace ==
  ASSUME CtrlTypeOK, PlaceInv, NEW refreshes, NEW i \in DOMAIN reqs, i \in Buffered,
         IssueRequest(i, refreshes), answered' = Answered
  PROVE  PlaceInv'
<1> DEFINE Entry == [id : DOMAIN reqs, due : 0 .. ReadLatency]
           Active == Elements(active_buffer)
           dropped == Drop(active_buffer, i)
<1>1. DOMAIN reqs' = DOMAIN reqs
  BY IssueRequestReqs
<1>2. DistinctIds(Returning) /\ Returning \in Seq(Entry)
  BY ReturningIds, ReturningFacts DEF PlaceInv
<1>3. PICK gone \in SUBSET Ids(pending) :
        Ids(Returning) = Ids(pending) \ gone /\ Answered = answered \cup gone
  BY ReturningIds DEF PlaceInv
<1>4. \A j \in DOMAIN reqs :
        InOne(j, read_buffer, write_buffer, Active, Ids(pending), answered, issued)
  BY DEF PlaceInv, PlaceOf
<1>5. i \in read_buffer \cup write_buffer \cup Active
  BY DEF Buffered
<1>6. i \notin Ids(pending) \cup answered \cup issued
  BY <1>4, <1>5 DEF InOne
<1>7. /\ dropped \in Seq(DOMAIN reqs) /\ Distinct(dropped) /\ Elements(dropped) = Active \ {i}
  BY DropFacts, DropDistinct DEF CtrlTypeOK, PlaceInv
<1>8. CASE \E type \in ReqTypes : Finish(i, type)
  <2>1. /\ read_buffer' = read_buffer \ {i} /\ write_buffer' = write_buffer \ {i}
        /\ active_buffer' = dropped /\ issued' = issued \cup {i}
        /\ \/ pending' = Returning
           \/ pending' = Append(Returning, [id |-> i, due |-> ReadLatency])
    BY <1>8 DEF Finish, RemoveRequest
  <2>2. /\ Ids(Append(Returning, [id |-> i, due |-> ReadLatency])) = (Ids(pending) \ gone) \cup {i}
        /\ DistinctIds(Append(Returning, [id |-> i, due |-> ReadLatency]))
    <3>1. [id |-> i, due |-> ReadLatency] \in Entry /\ [id |-> i, due |-> ReadLatency].id = i
      BY LatencyAssumption
    <3>2. i \notin Ids(Returning)
      BY <1>3, <1>6
    <3> HIDE DEF Entry
    <3> QED BY <1>2, <1>3, <3>1, <3>2, AppendIds
  <2>3. Distinct(active_buffer)' /\ DistinctIds(pending)'
    BY <1>2, <1>7, <2>1, <2>2 DEF Distinct, DistinctIds
  <2>4. Elements(active_buffer)' = Active \ {i} /\ answered' = answered \cup gone
    BY <1>3, <1>7, <2>1 DEF Elements
  <2>5. Ids(pending)' \in {Ids(pending) \ gone, (Ids(pending) \ gone) \cup {i}}
    BY <1>3, <2>1, <2>2 DEF Ids
  <2> HIDE DEF Active, dropped
  <2>6. ASSUME NEW j \in DOMAIN reqs PROVE PlaceOf(j)'
    <3>1. CASE j = i
      BY <1>3, <1>6, <2>1, <2>4, <2>5, <3>1 DEF PlaceOf, InOne
    <3>2. CASE j # i
      <4>1. InOne(j, read_buffer, write_buffer, Active, Ids(pending), answered, issued)
        BY <1>4
      <4>2. InOne(j, read_buffer', write_buffer', Elements(active_buffer)', Ids(pending)',
                  answered', issued')
        BY <1>3, <2>1, <2>4, <2>5, <3>2, <4>1 DEF InOne
      <4> QED BY <4>2 DEF PlaceOf
    <3> QED BY <3>1, <3>2
  <2> QED BY <1>1, <2>3, <2>6 DEF PlaceInv
<1>9. CASE Activate(i) /\ HasRoom(Len(active_buffer), ActiveMax[device])
  <2>1. /\ read_buffer' = read_buffer \ {i} /\ write_buffer' = write_buffer \ {i}
        /\ active_buffer' = Append(dropped, i) /\ issued' = issued /\ pending' = Returning
    BY <1>9 DEF Activate
  <2>2. Elements(Append(dropped, i)) = Active \cup {i} /\ Distinct(Append(dropped, i))
    <3> HIDE DEF dropped
    <3>1. i \notin Elements(dropped)
      BY <1>7
    <3>2. /\ Elements(Append(dropped, i)) = Elements(dropped) \cup {i}
          /\ Distinct(Append(dropped, i))
      BY <1>7, <3>1, AppendFacts
    <3> QED BY <1>7, <3>2
  <2>3. Distinct(active_buffer)' /\ DistinctIds(pending)'
    BY <1>2, <2>1, <2>2 DEF Distinct, DistinctIds
  <2>4. /\ Elements(active_buffer)' = Active \cup {i} /\ answered' = answered \cup gone
        /\ Ids(pending)' = Ids(pending) \ gone
    BY <1>3, <2>1, <2>2 DEF Elements, Ids
  <2> HIDE DEF Active, dropped
  <2>5. ASSUME NEW j \in DOMAIN reqs PROVE PlaceOf(j)'
    <3>1. CASE j = i
      BY <1>3, <1>6, <2>1, <2>4, <3>1 DEF PlaceOf, InOne
    <3>2. CASE j # i
      <4>1. InOne(j, read_buffer, write_buffer, Active, Ids(pending), answered, issued)
        BY <1>4
      <4>2. InOne(j, read_buffer', write_buffer', Elements(active_buffer)', Ids(pending)',
                  answered', issued')
        BY <1>3, <2>1, <2>4, <3>2, <4>1 DEF InOne
      <4> QED BY <4>2 DEF PlaceOf
    <3> QED BY <3>1, <3>2
  <2> QED BY <1>1, <2>3, <2>5 DEF PlaceInv
<1>10. CASE Activate(i) /\ ~HasRoom(Len(active_buffer), ActiveMax[device])
  BY <1>1, <1>10, StillPlace DEF Activate
<1>11. CASE \E type \in ReqTypes : StepTowards(i, type)
  BY <1>1, <1>11, StillPlace DEF StepTowards
<1> QED BY <1>8, <1>9, <1>10, <1>11, IssueRequestCases

\* PlaceInv is inductive given the types.
THEOREM PlacesHeld == CtrlSpec => []PlaceInv
<1>1. CtrlInit => PlaceInv
  BY DEF CtrlInit, PlaceInv, Distinct, DistinctIds
<1>2. CtrlTypeOK /\ PlaceInv /\ [CtrlNext]_vars => PlaceInv'
  <2> SUFFICES ASSUME CtrlTypeOK, PlaceInv, [CtrlNext]_vars PROVE PlaceInv'
    OBVIOUS
  <2>1. CASE Tick
    <3>1. PICK new, ready : TickOf(new, ready)
      BY <2>1, TickCases
    <3> DEFINE refreshes == priority_buffer + new
    <3>2. refreshes \in Nat /\ answered' = Answered
      BY <3>1, BoundAssumption DEF TickOf, TickWith
    <3>3. TickKind(ready, refreshes)
      BY <3>1 DEF TickOf
    <3> HIDE DEF refreshes
    <3>4. CASE IssueNothing(refreshes)
      BY <3>2, <3>4, StillPlace DEF IssueNothing
    <3>5. ASSUME NEW i \in DOMAIN reqs, i \in Scheduled(refreshes, ready),
                 IssueRequest(i, refreshes)
          PROVE  PlaceInv'
      BY <3>2, <3>5, ScheduledFacts, BufferedFacts, RequestPlace
    <3>6. CASE IssueRefresh(Refresh, refreshes)
      BY <3>2, <3>6, StillPlace DEF IssueRefresh
    <3> QED BY <3>3, <3>4, <3>5, <3>6 DEF TickKind
  <2>2. ASSUME NEW type \in Traffic[device], NEW addr \in Addrs, Send(type, addr)
        PROVE  PlaceInv'
    BY <2>2, SendPlace
  <2>3. CASE UNCHANGED vars
    BY <2>3 DEF PlaceInv, PlaceOf, Distinct, DistinctIds, Ids, Elements, vars, queueVars
  <2> QED BY <2>1, <2>2, <2>3 DEF CtrlNext
<1> QED BY <1>1, <1>2, CtrlTypeCorrect, PTL DEF CtrlSpec

\* An accepted request is in exactly one place, and there once: the move to the
\* active buffer neither copies nor loses it, a finished read is in the pending
\* list until it is answered, and it is answered once.
THEOREM RequestsInOnePlace == CtrlSpec => []InOnePlace
BY PlacesHeld, PlaceInvIsInOnePlace, PTL

-----------------------------------------------------------------------------
(* Two writes to one address.                                              *)

\* When an active request is ready, FRFCFS finds one: the earliest arrival, and
\* of several the first in the list.
LEMMA ActiveReadyIsFound ==
  ASSUME CtrlTypeOK, NEW ready, NEW i \in Elements(active_buffer), Need(i) \in ready
  PROVE  BestActive(ready) # {}
<1> DEFINE Arrive(k) == reqs[active_buffer[k]].arrive
           Ready == {k \in DOMAIN active_buffer : Need(active_buffer[k]) \in ready}
<1>1. /\ DOMAIN active_buffer \subseteq Nat
      /\ \A k \in DOMAIN active_buffer : active_buffer[k] \in DOMAIN reqs
  BY DEF CtrlTypeOK
<1>2. \A k \in DOMAIN active_buffer : Arrive(k) \in Nat
  <2>1. reqs \in Seq(Request)
    BY DEF CtrlTypeOK, Request, ReqTypes
  <2>2. \A j \in DOMAIN reqs : reqs[j] \in Request
    BY <2>1, SeqFacts
  <2>3. \A j \in DOMAIN reqs : reqs[j].arrive \in Nat
    BY <2>2 DEF Request
  <2> QED BY <1>1, <2>3
<1>3. Ready # {}
  BY DEF Elements
<1>4. PICK a \in {Arrive(k) : k \in Ready} : \A b \in {Arrive(k) : k \in Ready} : a <= b
  <2> DEFINE T == {Arrive(k) : k \in Ready}
  <2>1. T \subseteq Nat /\ T # {}
    BY <1>2, <1>3
  <2> HIDE DEF T
  <2>2. \E x \in T : \A y \in T : x <= y
    BY <2>1, Smallest
  <2> QED BY <2>2 DEF T
<1>5. PICK n \in {k \in Ready : Arrive(k) = a} : \A m \in {k \in Ready : Arrive(k) = a} : n <= m
  <2> DEFINE T == {k \in Ready : Arrive(k) = a}
  <2>1. T \subseteq Nat /\ T # {}
    BY <1>1, <1>4
  <2> HIDE DEF T
  <2>2. \E x \in T : \A y \in T : x <= y
    BY <2>1, Smallest
  <2> QED BY <2>2 DEF T
<1>6. \A m \in Ready : a < Arrive(m) \/ (a = Arrive(m) /\ n <= m)
  <2> SUFFICES ASSUME NEW m \in Ready PROVE a < Arrive(m) \/ (a = Arrive(m) /\ n <= m)
    OBVIOUS
  <2>1. a <= Arrive(m) /\ a \in Nat /\ Arrive(m) \in Nat
    BY <1>2, <1>4
  <2>2. a = Arrive(m) => n <= m
    BY <1>5
  <2> HIDE DEF Arrive
  <2> QED BY <2>1, <2>2
<1>7. active_buffer[n] \in BestActive(ready)
  BY <1>5, <1>6 DEF BestActive
<1> QED BY <1>7

IsWrite(i) == reqs[i].type = "write"

\* On DDR4: only plain requests; a write waits in the write buffer, is active or
\* was issued; and while a write was not issued, no younger write to its address
\* is active or issued.
OrderInv ==
  device = "DDR4" =>
    /\ \A i \in DOMAIN reqs : reqs[i].type \in {"read", "write"}
    /\ \A i \in DOMAIN reqs :
         IsWrite(i) => i \in write_buffer \cup Elements(active_buffer) \cup issued
    /\ \A i, j \in DOMAIN reqs :
         i < j /\ reqs[i].addr = reqs[j].addr /\ IsWrite(i) /\ IsWrite(j) /\ i \notin issued
           => j \notin issued \cup Elements(active_buffer)

\* The younger of two writes to one address is not even scheduled before the
\* older was issued: both wait for the same command of the same bank, and the
\* older one is in the active buffer or ahead of it in the write buffer.
LEMMA OlderWriteFirst ==
  ASSUME CtrlTypeOK, PlaceInv, OrderInv, device = "DDR4", NEW refreshes \in Nat, NEW ready,
         NEW j \in DOMAIN reqs, j \in Scheduled(refreshes, ready), IsWrite(j),
         NEW i \in DOMAIN reqs, i < j, reqs[i].addr = reqs[j].addr, IsWrite(i)
  PROVE  i \in issued
<1> SUFFICES ASSUME i \notin issued PROVE FALSE
  OBVIOUS
<1>1. j \notin issued \cup Elements(active_buffer) /\ j \in write_buffer
  BY DEF OrderInv
<1>2. i \in write_buffer \cup Elements(active_buffer)
  BY DEF OrderInv
<1>3. j \notin read_buffer
  <2>1. PlaceOf(j)
    BY DEF PlaceInv
  <2> QED BY <1>1, <2>1 DEF PlaceOf, InOne
<1>4. Need(i) = Need(j)
  <2>1. i # Refresh /\ j # Refresh
    BY BufferedFacts
  <2> QED BY <2>1 DEF Need, NextCommand, BankOfReq, RowOfReq, IsWrite
<1>5. BestActive(ready) = {}
  <2>1. BestActive(ready) \subseteq Elements(active_buffer)
    BY DEF BestActive, Elements
  <2> QED BY <1>1, <2>1 DEF Scheduled
<1>6. ~(refreshes > 0)
  BY <1>5, BufferedFacts DEF Scheduled
<1>7. j \in BestOf(write_buffer, ready)
  <2>1. BestOf(read_buffer, ready) \subseteq read_buffer
    BY DEF BestOf
  <2> QED BY <1>3, <1>5, <1>6, <2>1 DEF Scheduled
<1>8. Need(i) \in ready /\ (i \in write_buffer => j <= i)
  BY <1>4, <1>7 DEF BestOf
<1>9. i \in Elements(active_buffer)
  <2>1. DOMAIN reqs \subseteq Nat
    BY DEF CtrlTypeOK
  <2> QED BY <1>2, <1>8, <2>1
<1> QED BY <1>5, <1>8, <1>9, ActiveReadyIsFound

\* A new write is younger than all others, and is active or issued no sooner than
\* the next tick.
LEMMA SendOrder ==
  ASSUME CtrlTypeOK, OrderInv, NEW type \in Traffic[device], NEW addr \in Addrs,
         Send(type, addr)
  PROVE  OrderInv'
<1> SUFFICES ASSUME device = "DDR4" PROVE OrderInv'
  BY DEF OrderInv, Send
<1> DEFINE id == Len(reqs) + 1
           Active == Elements(active_buffer)
<1>1. /\ DOMAIN reqs = 1 .. Len(reqs) /\ Len(reqs) \in Nat
      /\ DOMAIN reqs' = 1 .. id
      /\ \A i \in DOMAIN reqs : reqs'[i] = reqs[i]
  BY SendFacts
<1>2. reqs'[id].type = type
  <2>1. reqs' = Append(reqs, [type |-> type, addr |-> addr, arrive |-> Arrival])
    BY DEF Send
  <2>2. reqs'[id] = [type |-> type, addr |-> addr, arrive |-> Arrival]
    BY <1>1, <2>1
  <2> QED BY <2>2
<1>3. type \in {"read", "write"}
  BY DeviceAssumption, TrafficAssumption DEF CtrlTypeOK
<1>4. /\ issued' = issued /\ Elements(active_buffer)' = Active
      /\ write_buffer \subseteq write_buffer'
      /\ type = "write" => id \in write_buffer'
  BY DEF Send, Enqueue, Forwarded, ReadTypes, Elements
<1>5. issued \cup Active \subseteq DOMAIN reqs
  BY PlacesAreRequests
<1> HIDE DEF Active
<1>6. \A i \in DOMAIN reqs' : i = id \/ (i \in DOMAIN reqs /\ i < id)
  BY <1>1
<1>7. id \notin DOMAIN reqs
  BY <1>1
<1> HIDE DEF id
<1>8. \A i \in DOMAIN reqs' : reqs'[i].type \in {"read", "write"}
  BY <1>1, <1>2, <1>3, <1>6 DEF OrderInv
<1>9. ASSUME NEW i \in DOMAIN reqs', reqs'[i].type = "write"
      PROVE  i \in write_buffer' \cup Active \cup issued
  BY <1>1, <1>2, <1>4, <1>6, <1>9 DEF OrderInv, IsWrite, Active
<1>10. ASSUME NEW i \in DOMAIN reqs', NEW j \in DOMAIN reqs', i < j,
              reqs'[i].addr = reqs'[j].addr, reqs'[i].type = "write",
              reqs'[j].type = "write", i \notin issued
       PROVE  j \notin issued \cup Active
  <2>1. CASE j = id
    BY <1>5, <1>7, <2>1
  <2>2. CASE j \in DOMAIN reqs
    <3>1. i \in DOMAIN reqs
      BY <1>1, <1>10, <2>2 DEF id
    <3> QED BY <1>1, <1>10, <2>2, <3>1 DEF OrderInv, IsWrite, Active
  <2> QED BY <1>6, <2>1, <2>2
<1> QED BY <1>4, <1>8, <1>9, <1>10 DEF OrderInv, IsWrite

\* Whatever request a tick serves, OrderInv holds after it, and a write is issued
\* after the older writes to its address.
LEMMA RequestOrder ==
  ASSUME CtrlTypeOK, PlaceInv, OrderInv, device = "DDR4", device' = device,
         NEW refreshes \in Nat, NEW ready, NEW k \in DOMAIN reqs,
         k \in Scheduled(refreshes, ready), IssueRequest(k, refreshes)
  PROVE  /\ OrderInv'
         /\ issued \subseteq issued' /\ issued' \subseteq issued \cup {k}
<1> DEFINE Active == Elements(active_buffer)
           dropped == Drop(active_buffer, k)
<1>1. reqs' = reqs
  <2>1. reqs[k].type \in {"read", "write"}
    BY DEF OrderInv
  <2>2. reqs' = [reqs EXCEPT ![k].type = reqs[k].type]
    BY <2>1 DEF IssueRequest, PluginTypes
  <2>3. reqs \in Seq(Request)
    BY DEF CtrlTypeOK, Request, ReqTypes
  <2>4. reqs[k] \in Request
    BY <2>3, SeqFacts
  <2>5. [reqs[k] EXCEPT !.type = reqs[k].type] = reqs[k]
    BY <2>4 DEF Request
  <2> QED BY <2>2, <2>3, <2>5
<1>2. dropped \in Seq(DOMAIN reqs) /\ Elements(dropped) = Active \ {k}
  BY DropFacts, DropDistinct DEF CtrlTypeOK, PlaceInv
<1>3. Elements(Append(dropped, k)) = Elements(dropped) \cup {k}
  <2> HIDE DEF dropped
  <2> QED BY <1>2, AppendFacts
<1>4. \/ /\ write_buffer' = write_buffer \ {k} /\ issued' = issued \cup {k}
         /\ Elements(active_buffer)' = Active \ {k}
      \/ /\ write_buffer' = write_buffer \ {k} /\ issued' = issued
         /\ Elements(active_buffer)' = Active \cup {k}
      \/ /\ write_buffer' = write_buffer /\ issued' = issued
         /\ Elements(active_buffer)' = Active
  <2>1. CASE \E type \in ReqTypes : Finish(k, type)
    BY <1>2, <2>1 DEF Finish, RemoveRequest, Elements
  <2>2. CASE Activate(k)
    <3>1. \/ /\ write_buffer' = write_buffer \ {k} /\ issued' = issued
             /\ active_buffer' = Append(dropped, k)
          \/ /\ write_buffer' = write_buffer /\ issued' = issued
             /\ active_buffer' = active_buffer
      BY <2>2 DEF Activate
    <3> QED BY ZenonT(30), <1>2, <1>3, <3>1 DEF Elements
  <2>3. CASE \E type \in ReqTypes : StepTowards(k, type)
    BY <2>3 DEF StepTowards, Elements
  <2> QED BY <2>1, <2>2, <2>3, IssueRequestCases
<1> HIDE DEF Active
<1>5. ASSUME NEW i \in DOMAIN reqs, IsWrite(i)
      PROVE  i \in write_buffer' \cup Elements(active_buffer)' \cup issued'
  BY <1>4, <1>5 DEF OrderInv, Active
<1>6. ASSUME NEW i \in DOMAIN reqs, NEW j \in DOMAIN reqs, i < j,
             reqs[i].addr = reqs[j].addr, IsWrite(i), IsWrite(j), i \notin issued'
      PROVE  j \notin issued' \cup Elements(active_buffer)'
  <2>1. i \notin issued
    BY <1>4, <1>6
  <2>2. j \notin issued \cup Active
    BY <1>6, <2>1 DEF OrderInv, Active
  <2>3. j # k
    BY <1>6, <2>1, OlderWriteFirst
  <2> QED BY <1>4, <2>2, <2>3
<1> QED BY <1>1, <1>4, <1>5, <1>6 DEF OrderInv, IsWrite

\* Without the plugin, two writes to one address reach the bank in the order
\* send() accepted them, though they may wait in different buffers.
THEOREM WritesAreInOrder == CtrlSpec => WritesInOrder
<1> DEFINE Body == \A i, j \in DOMAIN reqs :
             (/\ device = "DDR4" /\ i < j /\ reqs[i].addr = reqs[j].addr
              /\ ~IsRead(i) /\ ~IsRead(j) /\ j \in issued' \ issued)
             => i \in issued
<1>1. CtrlInit => OrderInv
  BY DEF CtrlInit, OrderInv
<1>2. CtrlTypeOK /\ PlaceInv /\ OrderInv /\ [CtrlNext]_vars => OrderInv' /\ [Body]_vars
  <2> SUFFICES ASSUME CtrlTypeOK, PlaceInv, OrderInv, [CtrlNext]_vars
               PROVE  OrderInv' /\ Body
    OBVIOUS
  <2>1. CASE UNCHANGED <<device, reqs, write_buffer, active_buffer, issued>>
    BY <2>1 DEF OrderInv, IsWrite, Elements
  <2>2. CASE Tick
    <3>1. PICK new, ready : TickOf(new, ready)
      BY <2>2, TickCases
    <3> DEFINE refreshes == priority_buffer + new
    <3>2. refreshes \in Nat /\ device' = device
      BY <3>1, BoundAssumption DEF TickOf, TickWith
    <3>3. TickKind(ready, refreshes)
      BY <3>1 DEF TickOf
    <3> HIDE DEF refreshes
    <3>4. CASE IssueNothing(refreshes) \/ IssueRefresh(Refresh, refreshes)
      BY <2>1, <3>2, <3>4 DEF IssueNothing, IssueRefresh
    <3>5. ASSUME NEW k \in DOMAIN reqs, k \in Scheduled(refreshes, ready),
                 IssueRequest(k, refreshes)
          PROVE  OrderInv' /\ Body
      <4>1. CASE device # "DDR4"
        BY <3>2, <4>1 DEF OrderInv
      <4>2. CASE device = "DDR4"
        <5>1. /\ OrderInv'
              /\ issued \subseteq issued' /\ issued' \subseteq issued \cup {k}
          BY <3>2, <3>5, <4>2, RequestOrder
        <5>2. ASSUME NEW i \in DOMAIN reqs, NEW j \in DOMAIN reqs, i < j,
                     reqs[i].addr = reqs[j].addr, ~IsRead(i), ~IsRead(j),
                     j \in issued' \ issued
              PROVE  i \in issued
          <6>1. IsWrite(i) /\ IsWrite(j)
            BY <4>2, <5>2 DEF OrderInv, IsWrite, IsRead, ReadTypes
          <6>2. j = k
            BY <5>1, <5>2
          <6> QED BY <3>2, <3>5, <4>2, <5>2, <6>1, <6>2, OlderWriteFirst
        <5> QED BY <5>1, <5>2
      <4> QED BY <4>1, <4>2
    <3> QED BY <3>3, <3>4, <3>5 DEF TickKind
  <2>3. ASSUME NEW type \in Traffic[device], NEW addr \in Addrs, Send(type, addr)
        PROVE  OrderInv' /\ Body
    <3>1. issued' = issued
      BY <2>3 DEF Send
    <3> QED BY <2>3, <3>1, SendOrder
  <2>4. CASE UNCHANGED vars
    BY <2>1, <2>4 DEF vars, queueVars
  <2> QED BY <2>2, <2>3, <2>4 DEF CtrlNext
<1> QED BY <1>1, <1>2, CtrlTypeCorrect, PlacesHeld, PTL DEF CtrlSpec, WritesInOrder
=============================================================================
