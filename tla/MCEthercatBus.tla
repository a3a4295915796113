---------------------------- MODULE MCEthercatBus ----------------------------
(***************************************************************************)
(* Instances of EthercatBus for TLC: a terminal with a 16-bit and a 1-bit  *)
(* input, both of which have a type, and one with a 16-bit output, which   *)
(* has none.  The first may be missing, and then the other has its place.  *)
(***************************************************************************)
EXTENDS EthercatBus, TLC

CONSTANTS inTerminal, outTerminal, analog, digital, word

MCSlaves == {inTerminal, outTerminal}
MCProductOf == [s \in MCSlaves |-> s]
MCPdos == inTerminal :> {analog, digital} @@ outTerminal :> {word}
MCBits == analog :> 16 @@ digital :> 1 @@ word :> 16
MCBuses == {<< >>, <<inTerminal, outTerminal>>, <<outTerminal>>}
===============================================================================
