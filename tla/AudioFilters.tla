---------------------------- MODULE AudioFilters ----------------------------
(***************************************************************************)
(* The filters of an audio device: FLOBSIODevice and FLOBSFilterInfo, the  *)
(* entry of lst_iodevice_ they belong to, and the three threads that use   *)
(* them without a lock.  The graphics thread activates the source, and the *)
(* capture plugin may signal that its audio went off and on: both run      *)
(* ActivateAudioSource.  The pool runs SetDeviceValue for the host.        *)
(*                                                                         *)
(* The two types of device share no more than the table, so one stands for *)
(* each.  A filter is a number, higher for a newer one.  A filter's level  *)
(* is its db or suppress_level; Off is the value that takes it away.  A    *)
(* use of an object another thread has freed is the end of the process.    *)
(***************************************************************************)
EXTENDS Naturals, FiniteSets, FiniteSetsExt

CONSTANTS
  Kinds,       \* of filters: gain, denoise
  Levels, Default, Off,
  None,
  Signallers,  \* threads that signal: "graphics", "plugin"
  MaxFilters, MaxEdits, MaxTurns  \* bounds, for all runs of the program

ASSUME LevelsAssumption == Default \in Levels /\ Off \notin Levels /\ None \notin Levels \cup {Off}
ASSUME NoneAssumption == None \notin Kinds \cup Nat
ASSUME BoundsAssumption == {MaxFilters, MaxEdits, MaxTurns} \subseteq Nat

Ids == 1 .. MaxFilters
NoFilters == [k \in Kinds |-> None]
AllOff == [k \in Kinds |-> Off]

VARIABLES
  is_initialize_,
  filters, kind, level,  \* libobs: on the source, and what each is
  created,    \* filters created so far
  entry,      \* is the device in lst_iodevice_?
  filterinfos,  \* lst_filterinfos_ of the entry
  sig,        \* where each signaller is, and the message it has read
  pool,       \* where SetDeviceValue is
  saved,      \* the filters in default.json
  host,       \* the levels the host was told last
  asked,      \* the levels it asked for and was told to have
  edits, turns,
  fresh,      \* history: the entry was made and its filters not yet read
  hurried,    \* history: an edit found the entry fresh
  unsaved,    \* history: an edit came before is_initialize_ and is not saved
  crossed,    \* history: a level changed between a report's read and send
  misused     \* an object was freed by one thread and used by another

libobs == <<filters, kind, level, created>>
table == <<entry, filterinfos>>
told == <<host, asked>>
counts == <<edits, turns>>
history == <<fresh, hurried, unsaved, crossed, misused>>
filterVars == <<is_initialize_, libobs, table, sig, pool, saved, told, counts, history>>

Idle == [at |-> "idle", msg |-> AllOff]
PoolIdle == [at |-> "idle", kind |-> None, level |-> Off, msg |-> AllOff]

FiltersInit ==
  /\ is_initialize_ = FALSE
  /\ filters \in {{}} \cup {{i} : i \in Ids \cap {1}}
  /\ \E k \in Kinds : kind = [i \in Ids |-> k]
  /\ level = [i \in Ids |-> Default]
  /\ created = Cardinality(filters)
  /\ entry = FALSE /\ filterinfos = NoFilters
  /\ sig = [s \in Signallers |-> Idle]
  /\ pool = PoolIdle
  /\ saved = [filters |-> filters, level |-> level]
  /\ host = None /\ asked = NoFilters
  /\ edits = 0 /\ turns = 0
  /\ fresh = FALSE /\ hurried = FALSE /\ unsaved = FALSE
  /\ crossed = FALSE /\ misused = FALSE

(* What the device message says: the level of each filter the entry knows. *)
SetFiltersValue(infos) ==
  [k \in Kinds |-> IF infos[k] = None THEN Off ELSE level[infos[k]]]

-----------------------------------------------------------------------------
(* ActivateAudioSource and DeactivateAudioSource.                          *)
SigAt(s, here, there) ==
  /\ ~misused
  /\ sig[s].at = here
  /\ sig' = [sig EXCEPT ![s] = [at |-> there, msg |-> sig[s].msg]]

(* The graphics thread activates the source at the tick after Load set it; *)
(* the plugin signals when it likes.                                       *)
ActivateAudioSource(s) ==
  /\ SigAt(s, "idle", IF entry THEN "fill" ELSE "gen")
  /\ turns < MaxTurns /\ turns' = turns + 1
  /\ UNCHANGED <<is_initialize_, libobs, table, pool, saved, told, edits, history>>

(* Only the device that is in the table is reported as gone.               *)
DeactivateAudioSource(s) ==
  /\ entry
  /\ SigAt(s, "idle", "fill")
  /\ turns < MaxTurns /\ turns' = turns + 1
  /\ UNCHANGED <<is_initialize_, libobs, table, pool, saved, told, edits, history>>

(* The pool is inside a method of the entry.                               *)
InDevice == pool.at \in {"filter", "added", "removed", "set"}

(* The new object replaces the one another signaller made since the lookup.*)
GenDeviceInfo(s) ==
  /\ SigAt(s, "gen", "fill")
  /\ entry' = TRUE
  /\ filterinfos' = NoFilters
  /\ fresh' = TRUE
  /\ misused' = (entry /\ InDevice)
  /\ UNCHANGED <<is_initialize_, libobs, pool, saved, told, counts, hurried, unsaved, crossed>>

(* UpdateFilters: the filters are gone through from the oldest on, under   *)
(* the source's filter mutex, and a newer one takes the older one's place. *)
UpdateFilters ==
  [k \in Kinds |->
     LET on == {i \in filters : kind[i] = k}
     IN  IF on = {} THEN filterinfos[k] ELSE Max(on)]

(* GenObsDeviceMessage, after the volume was sent for a new entry.  Every  *)
(* FLOBSFilterInfo is made anew, also the one the pool is setting.         *)
GenObsDeviceMessage(s) ==
  /\ ~misused
  /\ sig[s].at = "fill"
  /\ filterinfos' = UpdateFilters
  /\ sig' = [sig EXCEPT ![s] = [at |-> "send", msg |-> SetFiltersValue(filterinfos')]]
  /\ fresh' = FALSE
  /\ misused' = (pool.at = "set" /\ UpdateFilters[pool.kind] # None)
  /\ crossed' = (crossed \/ pool.at = "answer")
  /\ UNCHANGED <<is_initialize_, libobs, entry, pool, saved, told, counts, hurried, unsaved>>

SendDeviceMessage(s) ==
  /\ SigAt(s, "send", "idle")
  /\ host' = sig[s].msg
  /\ UNCHANGED <<is_initialize_, libobs, table, pool, saved, asked, counts, history>>

-----------------------------------------------------------------------------
(* SetDeviceValue, on the pool.                                            *)
PoolAt(here, there) ==
  /\ ~misused
  /\ pool.at = here
  /\ pool' = [pool EXCEPT !.at = there]

Unsent == \E s \in Signallers : sig[s].at = "send"

(* Mutant of SetDeviceValue: the device is not looked up.                  *)
SetDeviceValueAnyway(k, l) ==
  /\ ~misused /\ pool.at = "idle"
  /\ edits < MaxEdits /\ edits' = edits + 1
  /\ pool' = [PoolIdle EXCEPT !.at = "filter", !.kind = k, !.level = l]
  /\ UNCHANGED <<is_initialize_, libobs, table, sig, saved, told, turns, history>>

(* Without an entry the answer is empty.                                   *)
SetDeviceValue(k, l) ==
  /\ ~misused /\ pool.at = "idle" /\ entry
  /\ edits < MaxEdits /\ edits' = edits + 1
  /\ pool' = [PoolIdle EXCEPT !.at = "filter", !.kind = k, !.level = l]
  /\ UNCHANGED <<is_initialize_, libobs, table, sig, saved, told, turns, history>>

(* A new device id or monitoring type: of these only the save and the      *)
(* answer are kept.                                                        *)
SetDeviceId ==
  /\ ~misused /\ pool.at = "idle" /\ entry
  /\ edits < MaxEdits /\ edits' = edits + 1
  /\ pool' = [PoolIdle EXCEPT !.at = "save"]
  /\ UNCHANGED <<is_initialize_, libobs, table, sig, saved, told, turns, history>>

(* SetDBValue and SetSuppressLevelValue with any other value than Off.     *)
SetKnown ==
  /\ PoolAt("filter", "set")
  /\ pool.level # Off /\ filterinfos[pool.kind] # None
  /\ UNCHANGED <<is_initialize_, libobs, table, sig, saved, told, counts, history>>

(* Mutant of MustAdd: a filter is added for every value.                   *)
AlwaysAdd == pool.level # Off

MustAdd == pool.level # Off /\ filterinfos[pool.kind] = None

(* AddFilterInfo looks for a filter of that name and adds another anyway.  *)
AddFilterInfo ==
  /\ PoolAt("filter", "added")
  /\ MustAdd
  /\ created < MaxFilters
  /\ created' = created + 1
  /\ filters' = filters \cup {created'}
  /\ kind' = [kind EXCEPT ![created'] = pool.kind]
  /\ level' = [level EXCEPT ![created'] = Default]
  /\ hurried' = (hurried \/ fresh)
  /\ UNCHANGED <<is_initialize_, table, sig, saved, told, counts,
                 fresh, unsaved, crossed, misused>>

(* The filter_add signal, on the thread that added.                        *)
AddFilter ==
  /\ PoolAt("added", "set")
  /\ filterinfos' = [filterinfos EXCEPT ![pool.kind] = created]
  /\ UNCHANGED <<is_initialize_, libobs, entry, sig, saved, told, counts, history>>

SetLevel ==
  /\ PoolAt("set", "save")
  /\ level' = [level EXCEPT ![filterinfos[pool.kind]] = pool.level]
  /\ crossed' = (crossed \/ Unsent)
  /\ UNCHANGED <<is_initialize_, filters, kind, created, table, sig, saved, told, counts,
                 fresh, hurried, unsaved, misused>>

(* With Off: RemoveFilterInfo.                                             *)
RemoveNothing ==
  /\ PoolAt("filter", "save")
  /\ pool.level = Off /\ filterinfos[pool.kind] = None
  /\ hurried' = (hurried \/ fresh)
  /\ UNCHANGED <<is_initialize_, libobs, table, sig, saved, told, counts,
                 fresh, unsaved, crossed, misused>>

RemoveFilterInfo ==
  /\ ~misused /\ pool.at = "filter"
  /\ pool.level = Off /\ filterinfos[pool.kind] # None
  /\ filters' = filters \ {filterinfos[pool.kind]}
  /\ pool' = [pool EXCEPT !.at = "removed"]
  /\ UNCHANGED <<is_initialize_, kind, level, created, table, sig, saved, told, counts, history>>

(* Mutant of ForgetFilter: its entry stays.                                *)
ForgetNothing == filterinfos

ForgetFilter == [filterinfos EXCEPT ![pool.kind] = None]

(* The filter_remove signal.                                               *)
RemoveFilter ==
  /\ PoolAt("removed", "save")
  /\ filterinfos' = ForgetFilter
  /\ crossed' = (crossed \/ Unsent)
  /\ UNCHANGED <<is_initialize_, libobs, entry, sig, saved, told, counts,
                 fresh, hurried, unsaved, misused>>

(* SaveProject does nothing before is_initialize_.                         *)
SaveProject ==
  /\ PoolAt("save", "gen")
  /\ saved' = IF is_initialize_ THEN [filters |-> filters, level |-> level] ELSE saved
  /\ unsaved' = ~is_initialize_
  /\ UNCHANGED <<is_initialize_, libobs, table, sig, told, counts,
                 fresh, hurried, crossed, misused>>

(* The host asks how the device stands; without one the answer says Off.   *)
UpdateInputInfo ==
  /\ ~misused /\ pool.at = "idle"
  /\ edits < MaxEdits /\ edits' = edits + 1
  /\ pool' = [PoolIdle EXCEPT !.at = "gen"]
  /\ UNCHANGED <<is_initialize_, libobs, table, sig, saved, told, turns, history>>

(* The answer, made without UpdateFilters.                                 *)
GenAnswer ==
  /\ ~misused /\ pool.at = "gen"
  /\ pool' = [pool EXCEPT !.at = "answer", !.msg = SetFiltersValue(filterinfos)]
  /\ UNCHANGED <<is_initialize_, libobs, table, sig, saved, told, counts, history>>

AnswerDevice ==
  /\ ~misused /\ pool.at = "answer"
  /\ host' = pool.msg
  /\ asked' = [k \in Kinds |-> IF k = pool.kind THEN pool.level ELSE asked[k]]
  /\ pool' = PoolIdle
  /\ UNCHANGED <<is_initialize_, libobs, table, sig, saved, counts, history>>

-----------------------------------------------------------------------------
(* OBSInit ends; another operation saves the project; the process ends and *)
(* is started again.                                                       *)
Initialized ==
  /\ ~is_initialize_ /\ ~misused
  /\ is_initialize_' = TRUE
  /\ UNCHANGED <<libobs, table, sig, pool, saved, told, counts, history>>

SaveOther ==
  /\ is_initialize_ /\ ~misused
  /\ saved' = [filters |-> filters, level |-> level]
  /\ unsaved' = FALSE
  /\ UNCHANGED <<is_initialize_, libobs, table, sig, pool, told, counts,
                 fresh, hurried, crossed, misused>>

Restart ==
  /\ is_initialize_ \/ misused
  /\ is_initialize_' = FALSE
  /\ filters' = saved.filters /\ level' = saved.level
  /\ entry' = FALSE /\ filterinfos' = NoFilters
  /\ sig' = [s \in Signallers |-> Idle]
  /\ pool' = PoolIdle
  /\ host' = None /\ asked' = NoFilters
  /\ fresh' = FALSE /\ unsaved' = FALSE /\ crossed' = FALSE /\ misused' = FALSE
  /\ UNCHANGED <<kind, created, saved, counts, hurried>>

-----------------------------------------------------------------------------
Signal ==
  \E s \in Signallers :
    \/ ActivateAudioSource(s) \/ DeactivateAudioSource(s)
    \/ GenDeviceInfo(s) \/ GenObsDeviceMessage(s) \/ SendDeviceMessage(s)

Edit ==
  \/ \E k \in Kinds, l \in Levels \cup {Off} : SetDeviceValue(k, l)
  \/ SetDeviceId \/ SetKnown \/ AddFilterInfo \/ AddFilter \/ SetLevel
  \/ RemoveNothing \/ RemoveFilterInfo \/ RemoveFilter
  \/ SaveProject \/ UpdateInputInfo \/ GenAnswer \/ AnswerDevice

FiltersNext == Signal \/ Edit \/ Initialized \/ SaveOther \/ Restart

FiltersSpec == FiltersInit /\ [][FiltersNext]_filterVars

-----------------------------------------------------------------------------
FiltersTypeOK ==
  /\ {is_initialize_, entry, fresh, hurried, unsaved, crossed, misused} \subseteq BOOLEAN
  /\ created \in 0 .. MaxFilters /\ filters \subseteq 1 .. created
  /\ kind \in [Ids -> Kinds] /\ level \in [Ids -> Levels]
  /\ \A k \in Kinds : filterinfos[k] \in {None} \cup {i \in 1 .. created : kind[i] = k}
  /\ \A s \in Signallers : sig[s].at \in {"idle", "gen", "fill", "send"}
  /\ pool.at \in {"idle", "filter", "added", "removed", "set", "save", "gen", "answer"}
  /\ saved.filters \subseteq 1 .. created /\ saved.level \in [Ids -> Levels]

On(k) == {i \in filters : kind[i] = k}
Quiet == ~misused /\ pool = PoolIdle /\ \A s \in Signallers : sig[s].at = "idle"

(* The source has at most one filter of a kind, although AddFilterInfo     *)
(* adds without looking, through any order of activations and edits, and   *)
(* also after restarts; but an edit that finds the entry before its        *)
(* filters were read adds a second one for good.                           *)
OneFilterEach == hurried \/ \A k \in Kinds : Cardinality(On(k)) <= 1

(* Between messages, the level the host asked for last is the one the      *)
(* source applies.                                                         *)
LastEditHolds ==
  Quiet /\ ~hurried =>
    \A k \in Kinds : asked[k] # None =>
      {level[i] : i \in On(k)} = {asked[k]} \ {Off}

(* The host was told the levels the source applies, also those it loaded,  *)
(* unless a level changed while a report was on its way.                   *)
HostKnowsLevels ==
  Quiet /\ entry /\ host # None /\ ~crossed /\ ~hurried =>
    \A k \in Kinds : {level[i] : i \in On(k)} = {host[k]} \ {Off}

(* The project on disk has the filters of the source, but for an edit that *)
(* came before is_initialize_.                                             *)
SavedIsLive ==
  Quiet /\ ~unsaved =>
    /\ saved.filters = filters
    /\ \A i \in filters : saved.level[i] = level[i]

(* The comment over GenDeviceInfo asks for a lock or a sequence, and there *)
(* is none.  Still, no thread uses an object another has freed while the   *)
(* device is signalled once, whatever the host edits meanwhile, unless the *)
(* edit found the entry before its filters were read; it takes a second    *)
(* signal.                                                                 *)
UsedInTurn == misused => hurried \/ turns > 1

(* Wherever a level is kept it is the same: asked for, applied, told, saved. *)
LevelsAgree == FiltersTypeOK /\ LastEditHolds /\ HostKnowsLevels /\ SavedIsLive
=============================================================================
