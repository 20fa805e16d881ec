---------------------------- MODULE AudioVolumes ----------------------------
(***************************************************************************)
(* The volumes of the two audio devices and of the added sources.  The UI  *)
(* thread sets them for the host; the graphics thread reports a device's   *)
(* volume once, when it first becomes active; the project keeps them.      *)
(*                                                                         *)
(* The host counts in percent and libobs keeps a float: a volume here is   *)
(* the percent it was set from, and GetVolume computes what comes back.    *)
(***************************************************************************)
EXTENDS Integers, FiniteSets

CONSTANTS
  Media,       \* audio sources that can be added
  Volumes,     \* volumes the host chooses
  Unknown,     \* no volume
  MaxSets      \* bound: volumes set by the host

Devices == {"input", "output"}
Sources == Devices \cup Media
Percents == 0 .. 100

ASSUME MediaAssumption == Media \cap Devices = {}
ASSUME VolumesAssumption == Volumes \subseteq Percents
ASSUME UnknownAssumption == Unknown \notin Percents
ASSUME SetsAssumption == MaxSets \in Nat

VARIABLES
  volume,       \* of each source
  added,        \* the media sources in the scene
  lst_iodevice_,  \* the devices in the table
  report,       \* per device: none, or a volume read and not yet sent
  heard,        \* what the host believes
  kept,         \* the project
  sets,
  chosen,       \* history: the volume the host's user chose last
  silent,       \* history: sources added when there was no output device
  overtaken     \* history: devices whose volume was set while a report of it
                \* was on its way

volumeVars == <<volume, added, lst_iodevice_, report, heard, kept, sets,
                chosen, silent, overtaken>>

NoReports == [d \in Devices |-> Unknown]

VolumesInit ==
  /\ \E v \in Percents : volume = [s \in Sources |-> v]
  /\ added = {} /\ lst_iodevice_ = {}
  /\ report = NoReports
  /\ heard = NoReports
  /\ chosen = [d \in Devices |-> volume[d]]
  /\ silent = {} /\ overtaken = {}
  /\ kept = [volume |-> volume, added |-> added, chosen |-> chosen, silent |-> silent]
  /\ sets = 0

-----------------------------------------------------------------------------
(* The nearest multiple of n.                                              *)
Nearest(x, n) == ((x + n \div 2) \div n) * n

(* The power of two that brings v/100 between a half and one.              *)
Scale(v) == CHOOSE p \in {1, 2, 4, 8, 16, 32, 64} : 50 < v * p /\ v * p <= 100
Mantissa == 16777216    \* 2^24: a float has 24 bits

(* static_cast<float>(v) / 100.0, stored as a float: its 24 bits, to be    *)
(* divided by Mantissa * Scale(v).                                         *)
Float(v) == Nearest(v * Scale(v) * Mantissa, 100) \div 100

(* Mutant of GetVolume: the product is not rounded to a float.             *)
GetVolumeAsDouble(v) ==
  IF v = 0 THEN 0 ELSE (100 * Float(v)) \div (Mantissa * Scale(v))

(* static_cast<int>(100 * volume): the product is rounded to 24 bits and   *)
(* truncated.                                                              *)
GetVolume(v) ==
  IF v = 0 THEN 0
  ELSE LET p == 100 * Float(v)
       IN  Nearest(p, IF p < 64 * Mantissa THEN 64 ELSE 128) \div (Mantissa * Scale(v))

-----------------------------------------------------------------------------
(* The host sets a volume.                                                 *)

(* Without the device nothing is set, and the host is not told.            *)
SetInputVolume(v) ==
  volume' = IF "input" \in lst_iodevice_ THEN [volume EXCEPT !["input"] = v] ELSE volume

(* All audio sources but the microphone are set, with or without a device. *)
SetOutputVolume(v) ==
  volume' = [s \in Sources |-> IF s \in added \cup {"output"} THEN v ELSE volume[s]]

SetVolume(d, v) ==
  /\ sets < MaxSets /\ sets' = sets + 1
  /\ \/ d = "input" /\ SetInputVolume(v) /\ UNCHANGED silent
     \/ d = "output" /\ SetOutputVolume(v) /\ silent' = {}
  /\ heard' = [heard EXCEPT ![d] = v]
  /\ overtaken' = IF report[d] = Unknown THEN overtaken ELSE overtaken \cup {d}

Choose(d, v) ==
  /\ SetVolume(d, v)
  /\ chosen' = [chosen EXCEPT ![d] = IF d = "output" \/ d \in lst_iodevice_ THEN v ELSE @]
  /\ UNCHANGED <<added, lst_iodevice_, report, kept>>

(* The host sends back what it shows.                                      *)
Echo(d) ==
  /\ heard[d] # Unknown
  /\ SetVolume(d, heard[d])
  /\ UNCHANGED <<added, lst_iodevice_, report, kept, chosen>>

(* A new source takes the output's volume, read back through GetVolume,    *)
(* and none if there is no output device.                                  *)
AddSource(m) ==
  /\ m \notin added /\ added' = added \cup {m}
  /\ volume' = [volume EXCEPT ![m] =
                  IF "output" \in lst_iodevice_ THEN GetVolume(volume["output"]) ELSE 0]
  /\ silent' = IF "output" \in lst_iodevice_ THEN silent ELSE silent \cup {m}
  /\ UNCHANGED <<lst_iodevice_, report, heard, kept, sets, chosen, overtaken>>

-----------------------------------------------------------------------------
(* A device becomes active: its entry is made and its volume read, and     *)
(* then sent.                                                              *)
ReadVolume(d) ==
  /\ d \notin lst_iodevice_
  /\ lst_iodevice_' = lst_iodevice_ \cup {d}
  /\ report' = [report EXCEPT ![d] = GetVolume(volume[d])]
  /\ UNCHANGED <<volume, added, heard, kept, sets, chosen, silent, overtaken>>

SendIOVolumeMessage(d) ==
  /\ report[d] # Unknown
  /\ heard' = [heard EXCEPT ![d] = report[d]]
  /\ report' = [report EXCEPT ![d] = Unknown]
  /\ UNCHANGED <<volume, added, lst_iodevice_, kept, sets, chosen, silent, overtaken>>

(* The volumes are kept with the next change of the scene.                *)
SaveVolumes ==
  /\ kept' = [volume |-> volume, added |-> added, chosen |-> chosen, silent |-> silent]
  /\ UNCHANGED <<volume, added, lst_iodevice_, report, heard, sets, chosen, silent, overtaken>>

RestartVolumes ==
  /\ volume' = kept.volume /\ added' = kept.added
  /\ chosen' = kept.chosen /\ silent' = kept.silent
  /\ lst_iodevice_' = {} /\ report' = NoReports /\ heard' = NoReports
  /\ UNCHANGED <<kept, sets, overtaken>>

VolumesNext ==
  \/ \E d \in Devices :
       \/ \E v \in Volumes : Choose(d, v)
       \/ Echo(d) \/ ReadVolume(d) \/ SendIOVolumeMessage(d)
  \/ \E m \in Media : AddSource(m)
  \/ SaveVolumes \/ RestartVolumes

VolumesSpec == VolumesInit /\ [][VolumesNext]_volumeVars

-----------------------------------------------------------------------------
VolumesTypeOK ==
  /\ volume \in [Sources -> Percents]
  /\ added \subseteq Media /\ silent \subseteq added
  /\ lst_iodevice_ \subseteq Devices /\ overtaken \subseteq Devices
  /\ report \in [Devices -> Percents \cup {Unknown}]
  /\ heard \in [Devices -> Percents \cup {Unknown}]
  /\ chosen \in [Devices -> Percents]

Near(a, b) == a - b \in -1 .. 1

(* A device stays within one percent of what was chosen, however often the *)
(* host sends back what it was told, and over restarts: the truncation in  *)
(* GetVolume loses a step at 53 and at 59, and no other.                   *)
VolumeDoesNotCreep ==
  \A d \in Devices : d \notin overtaken => Near(volume[d], chosen[d])

(* An added source is as loud as the output device, unless it was added    *)
(* when there was none.                                                    *)
MediaFollowsOutput ==
  \A m \in added \ silent : Near(volume[m], volume["output"])

(* The host shows the volume of a device, unless it set the volume while a *)
(* report of it was on its way.                                            *)
HostKnowsVolume ==
  \A d \in lst_iodevice_ \ overtaken :
    report[d] = Unknown => heard[d] # Unknown /\ Near(heard[d], volume[d])

(* The same of a volume: chosen, set on every source, told.                *)
VolumesAgree ==
  VolumesTypeOK /\ VolumeDoesNotCreep /\ MediaFollowsOutput /\ HostKnowsVolume
=============================================================================
