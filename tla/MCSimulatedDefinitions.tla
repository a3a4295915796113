------------------------ MODULE MCSimulatedDefinitions ------------------------
(***************************************************************************)
(* Instance of SimulatedDefinitions for TLC: a uuid and the generated one, *)
(* files of up to two channels of three types: of one and of two bytes,    *)
(* and one that the tables of the readers do not have; one-byte mappings.  *)
(***************************************************************************)
EXTENDS SimulatedDefinitions

CONSTANT u1

MCUuids == {u1, Generated}
MCTypeNames == {BoolInput, IntOutput(16), IntOutput(32)}
MCMappedTypes == {BoolInput}

(* Nothing reads the file again before the restart: what is written after    *)
(* buildRT() is as good as written then.                                     *)
WritesRead == builder \in {"built", "dead"} => file' = file
===============================================================================
