------------------------ MODULE MCHardwareOrchestrator ------------------------
(***************************************************************************)
(* Instances of HardwareOrchestrator for TLC: a GPIO backend with two pins *)
(* of which one or both may be gone at the next scan, a simulated one      *)
(* whose scan() throws on a malformed definitions file, and an EtherCAT    *)
(* backend the library was built without.                                  *)
(***************************************************************************)
EXTENDS HardwareOrchestrator, TLC

CONSTANTS gpio, ecat, sim, pinA, pinB, wave, uA, uB, uC

MCUuids == {uA, uB, uC}
MCBackends == {gpio, ecat, sim}
MCInfos == {pinA, pinB, wave}
MCHash ==
  [b \in MCBackends |-> [i \in MCInfos |-> CASE i = pinA -> uA [] i = pinB -> uB [] OTHER -> uC]]

Gpio(pin) == [uuid |-> BlankUuid, backend |-> gpio, info |-> pin]
Simulated == [uuid |-> uC, backend |-> sim, info |-> wave]

MCDevices == {Gpio(pinA), Gpio(pinB), Simulated}
MCScans ==
  [b \in MCBackends |->
     CASE b = gpio -> {<< >>, <<Gpio(pinB)>>, <<Gpio(pinA), Gpio(pinB)>>}
       [] b = sim -> {<<Simulated>>}
       [] OTHER -> {}]

(* The application adds an entry for a pin by hand. *)
MCUserEntries == {Gpio(pinB)}
===============================================================================
