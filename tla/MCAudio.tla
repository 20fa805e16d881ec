------------------------------- MODULE MCAudio -------------------------------
(* The filters and the volumes of the audio devices, which share no state: *)
(* each part moves while the other is at rest, so that one run covers both.*)
EXTENDS AudioFilters, AudioVolumes

FiltersAtRest ==
  filters = {} /\ kind = [i \in Ids |-> CHOOSE k \in Kinds : TRUE] /\ FiltersInit

VolumesAtRest == volume["input"] = 0 /\ VolumesInit

AudioInit ==
  \/ FiltersInit /\ VolumesInit /\ VolumesAtRest
  \/ FiltersInit /\ VolumesInit /\ FiltersAtRest

AudioNext ==
  \/ VolumesAtRest /\ FiltersNext /\ UNCHANGED volumeVars
  \/ FiltersAtRest /\ VolumesNext /\ UNCHANGED filterVars

AudioSpec == AudioInit /\ [][AudioNext]_<<filterVars, volumeVars>>
=============================================================================
