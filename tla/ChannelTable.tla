----------------------------- MODULE ChannelTable -----------------------------
(***************************************************************************)
(* What the hardware catalog promises its callers: a table of channels, at *)
(* most one for every uuid, in which a report replaces, a registration     *)
(* adds and the end of a discovery cycle removes; and a file that holds    *)
(* the table as it was saved, or nothing readable.  The entries_ and       *)
(* uuidIndex_ of HardwareCatalog.tla implement it.                         *)
(***************************************************************************)

CONSTANTS
  Backends,     \* who may take part in a cycle
  Reportable,   \* the channels that are reported, each with uuid and backend
  Registrable,  \* the channels that are registered
  Installed     \* the tables that the file may hold at first

VARIABLES
  table,     \* the channel of every uuid that is listed
  open,      \* a discovery cycle is open
  taking,    \* the backends that take part in it
  reported,  \* the uuids that were reported in it
  locked,    \* the table accepts no channels
  readable,  \* there is a file, and it parses
  kept,      \* the table it holds
  saving     \* it is being written

mode == <<open, taking, reported>>
disk == <<readable, kept, saving>>
vars == <<table, mode, locked, disk>>

Empty == [u \in {} |-> u]

Init ==
  /\ table = Empty
  /\ open = FALSE /\ taking = {} /\ reported = {}
  /\ locked = FALSE
  /\ readable \in BOOLEAN
  /\ IF readable THEN kept \in Installed ELSE kept = Empty
  /\ saving = FALSE

-------------------------------------------------------------------------------
(* What was saved comes back whole, or the table stays as it is. *)
Load ==
  /\ ~saving
  /\ table' = IF readable THEN kept ELSE table
  /\ UNCHANGED <<mode, locked, disk>>

(* A save that is cut off or lost leaves nothing to read. *)
SaveBegin ==
  /\ ~saving
  /\ saving' = TRUE
  /\ readable' = FALSE /\ kept' = Empty
  /\ UNCHANGED <<table, mode, locked>>

SaveEnd ==
  /\ saving
  /\ saving' = FALSE
  /\ (readable' = TRUE /\ kept' = table) \/ UNCHANGED <<readable, kept>>
  /\ UNCHANGED <<table, mode, locked>>

-------------------------------------------------------------------------------
Begin ==
  /\ ~saving
  /\ open' = TRUE /\ taking' = {} /\ reported' = {}
  /\ locked' = FALSE
  /\ UNCHANGED <<table, disk>>

TakePart(b) ==
  /\ ~saving
  /\ taking' = taking \cup {b}
  /\ UNCHANGED <<table, open, reported, locked, disk>>

(* The table with a channel in the place of what its uuid had. *)
With(c) == [u \in DOMAIN table \cup {c.uuid} |-> IF u = c.uuid THEN c ELSE table[u]]

Seen(c) ==
  /\ ~saving /\ ~locked
  /\ reported' = IF open THEN reported \cup {c.uuid} ELSE reported
  /\ UNCHANGED <<open, taking, locked, disk>>

Report(c) == Seen(c) /\ table' = With(c)

Register(c) == Seen(c) /\ table' = IF c.uuid \in DOMAIN table THEN table ELSE With(c)

(* What is left of the table at the end of a cycle: all that was reported,   *)
(* and what belongs to a backend that did not take part.                     *)
Current ==
  [u \in {v \in DOMAIN table : table[v].backend \in taking => v \in reported} |-> table[u]]

Close ==
  /\ ~saving
  /\ table' = IF open THEN Current ELSE table
  /\ open' = FALSE
  /\ locked' \in {locked, TRUE}
  /\ UNCHANGED <<taking, reported, disk>>

(* A new process has an empty table and the file. *)
Restart ==
  /\ table' = Empty
  /\ open' = FALSE /\ taking' = {} /\ reported' = {}
  /\ locked' = FALSE
  /\ saving' = FALSE
  /\ UNCHANGED <<readable, kept>>

Next ==
  \/ Load \/ SaveBegin \/ SaveEnd
  \/ Begin \/ \E b \in Backends : TakePart(b)
  \/ \E c \in Reportable : Report(c)
  \/ \E c \in Registrable : Register(c)
  \/ Close \/ Restart

Spec == Init /\ [][Next]_vars
===============================================================================
