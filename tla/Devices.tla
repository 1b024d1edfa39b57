------------------------------ MODULE Devices ------------------------------
(***************************************************************************)
(* The parts of the system above the kernel, side by side: the character   *)
(* device (system/portable/kernel/src/OSDeviceCharacter.cpp), the large    *)
(* circular storage, the SDI-12 sensor and the values that its D commands  *)
(* read.  They share no variable.                                          *)
(***************************************************************************)
EXTENDS OSDeviceCharacter, LargeCircularSessionsStorage, SDI12Sensor, SDI12Values

\* Each takes its own steps, at any time.
DevicesSide == DeviceSpec /\ StorageSpec /\ SensorSpec /\ ValuesSpec

\* The type invariants of the parts: sizes and counts stay within their bounds,
\* numbers on the ring, indexes among the values.
PartsTypeOK == DeviceTypeOK /\ StorageTypeOK /\ SensorTypeOK /\ ValuesTypeOK
=============================================================================
