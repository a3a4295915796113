------------------------------ MODULE MCRtContext ------------------------------
(***************************************************************************)
(* Instances of RtContext for TLC: two GPIO lines and two EtherCAT         *)
(* terminals, an input and an output each, and two simulated channels.     *)
(* The mappings include a line mapped twice, a list that leaves a vector   *)
(* half full, one that keeps the whole EtherCAT domain, and none at all.   *)
(***************************************************************************)
EXTENDS RtContext, TLC

CONSTANTS gIn, gOut, eIn, eOut, sIn, sOut, n1, n2, n3, n4

MCGpio == {gIn, gOut}
MCSimulated == {sIn, sOut}
MCEthercat == {eIn, eOut}
MCOutputs == {gOut, eOut, sOut}
MCNames == MCGpio \cup MCSimulated \cup MCEthercat \cup {n1, n2, n3, n4}
MCSimUuid == <<n1, n2, n3, n4>>
MCDefinitions == <<sIn, sOut>>
MCRegistrations == <<eIn, eOut>>
MCBuilds == {{"GPIO", "EtherCAT"}, {"Simulated"}}
HardwareBuilds == {{"GPIO", "EtherCAT"}}
MCMappings ==
  {<< >>, <<gIn, gOut, gOut, gIn>>, <<gIn, sIn, gOut, gOut>>, <<eIn, sOut, eOut>>, <<sIn, eOut>>}
===============================================================================
