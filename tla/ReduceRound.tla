----------------------------- MODULE ReduceRound -----------------------------
(***************************************************************************)
(* One node of the reduction in its first round, with the words of the     *)
(* other nodes told apart: a word is its type and its sender.  The network *)
(* is at its best.  Each of the other nodes broadcasts its maximum once,   *)
(* and its sum once when it has every maximum, this node's among them; a   *)
(* word enters the jitter buffer at most once, any time after it was sent. *)
(***************************************************************************)
EXTENDS DistributedReduce

\* Arriving holds a word of either type of each of them.
CONSTANT Others    \* the nodes on the other end of the network

Word(kind, n) == <<kind, n>>
WordsOf(kind) == { Word(kind, n) : n \in Others }

VARIABLES
  entered,     \* the words that have entered the jitter buffer
  heard        \* history: the words counted since the phase began

roundVars == <<reduceVars, entered, heard>>

-----------------------------------------------------------------------------
\* What the other nodes may have sent when this one is in the given state.
Sent == WordsOf("MAX") \cup (IF state \in {"IDLE", "BCAST_M"} \/ ~(WordsOf("MAX") \subseteq entered)
                               THEN {} ELSE WordsOf("SUM"))

\* The word written at this edge, if there is one.
Entering == IF wptr' = wptr THEN {} ELSE {mem'[Slot(wptr)]}

Network ==
  /\ Entering \subseteq Sent \ entered
  /\ entered' = entered \cup Entering

Hear ==
  heard' = IF ~Waiting' THEN {}
           ELSE heard \cup { w \in {rx_data_latched} : MaxSeen \/ SumSeen }

RoundInit ==
  /\ ReduceInit
  /\ \A k \in DOMAIN mem : Kind[mem[k]] = "NONE"
  /\ entered = {} /\ heard = {}

\* The first round: over when the node gives it up, or is idle with sums received.
Over == state = "ERR_RCV" \/ (state = "IDLE" /\ WordsOf("SUM") \cap entered # {})

RoundNext == ~Over /\ ReduceNext /\ Network /\ Hear

RoundSpec == RoundInit /\ [][RoundNext]_roundVars

-----------------------------------------------------------------------------
\* "Wait for the other nodes' Max" and "... Sum", as the states of the FSM are
\* named (lines 75 and 77): a phase that ends without error has counted a word
\* of every other node.
EveryNodeHeard ==
  [][/\ state = "WAIT_M" /\ state' = "BCAST_S" => WordsOf("MAX") \subseteq heard
     /\ state = "WAIT_S" /\ state' = "IDLE"    => WordsOf("SUM") \subseteq heard]_roundVars
=============================================================================
