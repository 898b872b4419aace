------------------------------ MODULE DramSpec ------------------------------
(***************************************************************************)
(* The vocabulary the device models of src/ramulator2/src/dram/impl share:  *)
(* organization and speed presets, tables of secondary timings, timing      *)
(* constraints, and the lookup structure the nodes of a device read.  A     *)
(* device is one record built from these by its own definitions.            *)
(***************************************************************************)
EXTENDS Integers, Sequences, FiniteSets, FiniteSetsExt, SequencesExt, TLC

\* An id of -1 in an address vector addresses every node of its level.
AnyId == -1

\* What reading a table outside its bounds returns: a number no timing has.
OutOfTable == -1000000

\* Commands of an access: plain, and with auto precharge.
Reads  == {"RD", "RDA"}
Writes == {"WR", "WRA"}

\* Position of a dq width, a rate or a density in the table that lists the known ones (0: none).
Id(known, x) == IF Contains(known, x) THEN CHOOSE i \in DOMAIN known : known[i] = x ELSE 0

\* Entry i of a table.
At(table, i) == IF i \in DOMAIN table THEN table[i] ELSE OutOfTable

\* (t_ns * 1000 * factor / tCK_ps), the product never formed.
Picocycles(t_ns, factor, tCK_ps) ==
  LET t_ps == t_ns * 1000
  IN  (t_ps \div tCK_ps) * factor + ((t_ps % tCK_ps) * factor) \div tCK_ps

\* Nanoseconds to cycles, JESD79-4 and JESD79-5.
JEDEC_rounding(t_ns, tCK_ps) ==
  IF t_ns = OutOfTable THEN OutOfTable ELSE (Picocycles(t_ns, 1000, tCK_ps) + 974) \div 1000
JEDEC_rounding_DDR5(t_ns, tCK_ps) ==
  IF t_ns = OutOfTable THEN OutOfTable ELSE (Picocycles(t_ns, 997, tCK_ps) + 1000) \div 1000

\* An organization: density in Mb, width of the DQ bus, size of every level below the channel's rank.
Org(density, dq, count) == [density |-> density, dq |-> dq, count |-> count]

\* The chip density in Mb: the product of the sizes of the levels named, 2^20 taken out first.
Density(org, levels) ==
  LET halved == [org.count EXCEPT !["row"] = @ \div 2^10]
  IN  FoldSet(LAMBDA l, acc : acc * halved[l], org.dq, levels) \div 2^10

(***************************************************************************)
(* set_organization: the preset, the user's sizes, the density check.       *)
(***************************************************************************)
Error == [error |-> "ConfigurationError"]
Organized(presets, name, sizes, levels) ==
  IF name \notin DOMAIN presets THEN Error
  ELSE LET org == [presets[name] EXCEPT !.count = sizes @@ @]
       IN  IF Density(org, levels) # org.density THEN Error ELSE org

\* Values the user gives in cycles replace the computed ones; rate and tCK stay.
Overridden(vals, user) ==
  [t \in DOMAIN vals |-> IF t \in DOMAIN user \ {"rate", "tCK_ps"} THEN user[t] ELSE vals[t]]

\* The check that ends set_timing_vals; a value read outside a table may be anything.
Checked(vals) == IF \E t \in DOMAIN vals : vals[t] = -1 THEN Error ELSE vals
Undefined(vals) == \E t \in DOMAIN vals : vals[t] < -1

(***************************************************************************)
(* Timing constraints, as the initializers write them: after a command of   *)
(* preceding, a command of following waits for latency, counted from the    *)
(* window-th most recent one; a sibling constraint binds the nodes of the   *)
(* level that the command did not address.                                  *)
(***************************************************************************)
Con(level, preceding, following, latency) ==
  [level |-> level, preceding |-> preceding, following |-> following,
   latency |-> latency, window |-> 1, sibling |-> FALSE]
Window(con, w) == [con EXCEPT !.window = w]
Sibling(con)   == [con EXCEPT !.sibling = TRUE]

\* The entries of m_timing_cons[level][preceding], by the command they hold back.
populate_timingcons(levels, commands, cons) ==
  [l \in 1..Len(levels) |-> [p \in commands |->
     LET mine == { c \in cons : c.level = levels[l] /\ p \in c.preceding }
     IN  [f \in UNION { c.following : c \in mine } |->
            { [val |-> c.latency, window |-> c.window, sibling |-> c.sibling] :
                c \in { c \in mine : f \in c.following } }]]]

=============================================================================
