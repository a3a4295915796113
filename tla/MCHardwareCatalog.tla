--------------------------- MODULE MCHardwareCatalog ---------------------------
(***************************************************************************)
(* Instances of HardwareCatalog for TLC: GPIO and EtherCAT channels whose  *)
(* uuid is the hash of their data, and simulated ones whose uuid the user  *)
(* writes into the definitions file.                                       *)
(***************************************************************************)
EXTENDS HardwareCatalog, TLC

CONSTANTS gpio, ecat, sim, pinA, pinB, pdo, wave, edited, uA, uB, uC, uD

MCUuids == {uA, uB, uC, uD}
MCBackends == {gpio, ecat, sim}
MCInfos == {pinA, pinB, pdo, wave, edited}
MCHash ==
  [b \in MCBackends |->
     [i \in MCInfos |-> CASE i = pinA -> uA [] i = pinB -> uB [] i = pdo -> uC [] OTHER -> uD]]

Gpio(pin) == [uuid |-> BlankUuid, backend |-> gpio, info |-> pin]
Simulated(uuid, info) == [uuid |-> uuid, backend |-> sim, info |-> info]

(* One channel per backend, and an edit of the simulated one. *)
MCDevices == {Gpio(pinA), Simulated(uD, wave), Simulated(uD, edited)}
MCEcChannels == {pdo}
MCStoredFiles == {NoFile, TornFile}
===============================================================================
