------------------------------ MODULE MCDevices ------------------------------
(***************************************************************************)
(* The parts of the system above the kernel for one run of TLC: the        *)
(* character device, read or written, the large circular storage, the      *)
(* SDI-12 sensor and its D commands.  They share nothing, so a behaviour   *)
(* is one of a single part, and the others stay as they are initialised.   *)
(***************************************************************************)
EXTENDS Devices

CONSTANTS w, r, r1, addr   \* model values

VARIABLE part   \* which part it is, chosen at the beginning

all == <<deviceVars, storageVars, sensorVars, valuesVars, part>>

\* The character device as given is read, and its reads are cancelled; here it
\* is written.
SomeBytes == {<<0>>, <<1, 0>>, <<0, 1, 1>>}
Written == INSTANCE OSDeviceCharacter
  WITH Reads <- {}, Writes <- SomeBytes, Arriving <- {}

\* What may be on the ring of four blocks: nothing; three sessions that fill it,
\* the last one of two blocks; after one round, two whole sessions, the older of
\* them over the ring's end; after two, with the identifiers gone round, an older
\* session cut short.
SomeLogs == {<<>>, <<1,2,3,3>>, <<1,1,1,2,2,2,3>>, <<1,1,1,2,2,2,3,3,3>>}

DevicesInit ==
  /\ part \in {"read", "written", "storage", "sensor", "values"}
  /\ DeviceInit /\ SensorInit /\ ValuesInit
  /\ StorageInit /\ (part # "storage" => log = <<>>)

DevicesNext ==
  /\ \/ /\ part = "read" /\ DeviceNext
        /\ UNCHANGED <<storageVars, sensorVars, valuesVars>>
     \/ /\ part = "written" /\ Written!DeviceNext
        /\ UNCHANGED <<storageVars, sensorVars, valuesVars>>
     \/ /\ part = "storage" /\ StorageNext
        /\ UNCHANGED <<deviceVars, sensorVars, valuesVars>>
     \/ /\ part = "sensor" /\ SensorNext
        /\ UNCHANGED <<deviceVars, storageVars, valuesVars>>
     \/ /\ part = "values" /\ ValuesNext
        /\ UNCHANGED <<deviceVars, storageVars, sensorVars>>
  /\ UNCHANGED part

DevicesSpec == DevicesInit /\ [][DevicesNext]_all
=============================================================================
