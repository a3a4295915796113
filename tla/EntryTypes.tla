------------------------------ MODULE EntryTypes ------------------------------
(***************************************************************************)
(* EntryType: the composable bit mask of direction, signedness, base and   *)
(* size; the names DHDOFactory gives to types and the types it makes of    *)
(* names; and the bytes of the image that read() and write() of an entry   *)
(* touch.  The mask is a record, its reserved bit left out.  A name is     *)
(* that of a well-known type, or composed of the fields of the mask.       *)
(***************************************************************************)
EXTENDS Integers

EntryType == [dir : SUBSET {"In", "Out"}, signed : BOOLEAN,
              base : {"Bool", "Int", "Float", "Msg"}, size : {1, 8, 16, 32}]

(* entryIsInput(), entryIsOutput() *)
IsInput(t) == "In" \in t.dir
IsOutput(t) == "Out" \in t.dir

BoolInput   == [dir |-> {"In"},  signed |-> FALSE, base |-> "Bool",  size |-> 1]
BoolOutput  == [dir |-> {"Out"}, signed |-> FALSE, base |-> "Bool",  size |-> 1]
IntInput(n)  == [dir |-> {"In"},  signed |-> TRUE, base |-> "Int",   size |-> n]
IntOutput(n) == [dir |-> {"Out"}, signed |-> TRUE, base |-> "Int",   size |-> n]
FloatInput  == [dir |-> {"In"},  signed |-> FALSE, base |-> "Float", size |-> 32]
FloatOutput == [dir |-> {"Out"}, signed |-> FALSE, base |-> "Float", size |-> 32]
MessageIn   == [dir |-> {"In"},  signed |-> FALSE, base |-> "Msg",   size |-> 1]
MessageOut  == [dir |-> {"Out"}, signed |-> FALSE, base |-> "Msg",   size |-> 1]

(* What stringToEntryType() lists under the name of a type... *)
Listed == {BoolInput, BoolOutput, IntInput(32), IntInput(16), IntOutput(16),
           FloatInput, FloatOutput, MessageOut, MessageIn}

(* ... and the further ones that entryTypeToString() has a name for. *)
WellKnown == Listed \cup {IntInput(8), IntOutput(8), IntOutput(32)}

-------------------------------------------------------------------------------
(* entryTypeToString(): a composed name has one direction at most. *)
Word(t) == IF IsInput(t) THEN "In" ELSE IF IsOutput(t) THEN "Out" ELSE ""

NameOf(t) ==
  IF t \in WellKnown THEN [known |-> TRUE, type |-> t]
  ELSE [known |-> FALSE, signed |-> t.signed, base |-> t.base, size |-> t.size, word |-> Word(t)]

(* stringToEntryType() compares no more characters than the name has, so     *)
(* that a composed name is also taken for one that it begins: "Int16" and    *)
(* "Int16In" for "Int16Input", "Int32" and "Int32In" for "Int32Input",       *)
(* "Int1" for "Int16Input".                                                  *)
BeginsInput(name, n) ==
  /\ name.signed /\ name.base = "Int"
  /\ \/ name.size = n /\ name.word \in {"", "In"}
     \/ name.size = 1 /\ name.word = "" /\ n = 16

(* Mistake: a name that is not listed is taken for an output. *)
TypeNamedAsOutput(name) ==
  IF name.known THEN IF name.type \in Listed THEN name.type ELSE BoolOutput
  ELSE IF BeginsInput(name, 32) THEN IntInput(32)
  ELSE IF BeginsInput(name, 16) THEN IntInput(16)
  ELSE BoolOutput

TypeNamed(name) ==
  IF name.known THEN IF name.type \in Listed THEN name.type ELSE BoolInput
  ELSE IF BeginsInput(name, 32) THEN IntInput(32)
  ELSE IF BeginsInput(name, 16) THEN IntInput(16)
  ELSE BoolInput

(* What is left of a type that was written out by name and read back. *)
Reload(t) == TypeNamed(NameOf(t))

-------------------------------------------------------------------------------
(* The bytes of the image that DHDOEntry::read(), for an input, or write(),  *)
(* for an output, touches: none of a message or a one-bit number.            *)
Bytes(t) ==
  IF t.dir = {} \/ t.base = "Msg" THEN 0
  ELSE IF t.base = "Bool" THEN 1
  ELSE t.size \div 8
===============================================================================
