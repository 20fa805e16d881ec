----------------------------- MODULE ProjectFile -----------------------------
(***************************************************************************)
(* What saving the project promises, whatever files it is kept in: there   *)
(* is one stable project, which every start of the program begins with;    *)
(* only a save replaces it, by the scene as it was when the save began,    *)
(* whole and at once, and that is when it is reported as saved; a save     *)
(* that fails, or is cut off by the end of the process, changes nothing.   *)
(* The promise ends with the first thing it does not cover.                *)
(***************************************************************************)
EXTENDS Naturals

VARIABLES
  up,       \* does the program run?
  edits,    \* edits made in all its runs
  scene,    \* the scene in memory: the last edit it contains
  pending,  \* the project being saved: empty or one
  stable,   \* the project the next start begins with
  told,     \* the project last reported as saved
  void      \* does the promise no longer hold?

vars == <<up, edits, scene, pending, stable, told, void>>

Init ==
  /\ up = FALSE /\ void = FALSE
  /\ edits = 0 /\ scene = 0 /\ stable = 0 /\ told = 0
  /\ pending = {}

Start ==
  /\ ~up
  /\ up' = TRUE
  /\ scene' = stable
  /\ UNCHANGED <<edits, pending, stable, told, void>>

End ==
  /\ up
  /\ up' = FALSE
  /\ pending' = {}
  /\ UNCHANGED <<edits, scene, stable, told, void>>

Edit ==
  /\ up
  /\ edits' = edits + 1
  /\ scene' = edits'
  /\ UNCHANGED <<up, pending, stable, told, void>>

SaveBegins ==
  /\ up /\ pending = {}
  /\ pending' = {scene}
  /\ UNCHANGED <<up, edits, scene, stable, told, void>>

SaveFails ==
  /\ pending # {}
  /\ pending' = {}
  /\ UNCHANGED <<up, edits, scene, stable, told, void>>

Saved ==
  /\ stable' \in pending
  /\ told' = stable'
  /\ pending' = {}
  /\ UNCHANGED <<up, edits, scene, void>>

(* Two saves at once, or a failure of which no notice is taken: nothing is *)
(* promised from here on.                                                  *)
Uncovered == void' = TRUE

Next ==
  \/ Start \/ End \/ Edit
  \/ SaveBegins \/ SaveFails \/ Saved
  \/ Uncovered

Spec == Init /\ [][Next]_vars
=============================================================================
