----------------------------- MODULE MCPlacement -----------------------------
(* What places items on the canvas: the mouse in the preview, and the      *)
(* turns of a phone.  The two models share no state; each moves while the  *)
(* other is at rest, so that one run covers both.                          *)
EXTENDS PreviewWindow, PhoneCasting

(* A picture twice as high as wide, in a canvas that it fills one way      *)
(* round and not the other.                                                *)
MCPlaces == {<<4, -8>>}

MouseAtRest == presses = 0 /\ left = [i \in Items |-> 0] /\ PreviewInit
PhoneAtRest == ~present /\ Init

PlacementInit == Init /\ PreviewInit

PlacementNext ==
  \/ PhoneAtRest /\ PreviewNext /\ UNCHANGED vars
  \/ MouseAtRest /\ Next /\ UNCHANGED previewVars

PlacementSpec == PlacementInit /\ [][PlacementNext]_<<vars, previewVars>>

(* The types of both.                                                      *)
PlacementTypes == PreviewTypeOK /\ TypeOK
=============================================================================
