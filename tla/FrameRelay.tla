----------------------------- MODULE FrameRelay -----------------------------
(***************************************************************************)
(* What the beautification of camera frames promises to the rest of the    *)
(* program, whatever threads, mutex and condition variable it is built     *)
(* from: each camera's frames come out one by one, in the order they were  *)
(* captured, none of them twice; a frame is lost only if its camera was    *)
(* withdrawn; and the picture a frame is output with is the camera's own   *)
(* or one the host computed for a frame of that camera already captured,   *)
(* no host picture being output for two frames.                            *)
(***************************************************************************)
EXTENDS Naturals, Sequences

CONSTANTS Cameras, MaxFrame, Raw

VARIABLES
  taken,    \* frames each camera has captured
  holding,  \* is the last of them still inside?
  shown,    \* what each camera has output, in order
  gone      \* has the camera been withdrawn?

vars == <<taken, holding, shown, gone>>

Init ==
  /\ taken = [c \in Cameras |-> 0]
  /\ holding = [c \in Cameras |-> FALSE]
  /\ shown = [c \in Cameras |-> <<>>]
  /\ gone = [c \in Cameras |-> FALSE]

(* The host pictures of c that no frame has been output with.              *)
Unused(c) ==
  {p \in 1 .. taken[c] : \A i \in DOMAIN shown[c] : shown[c][i].picture # p}

Take(c) ==
  /\ ~holding[c]
  /\ taken[c] < MaxFrame
  /\ taken' = [taken EXCEPT ![c] = @ + 1]
  /\ holding' = [holding EXCEPT ![c] = TRUE]
  /\ UNCHANGED <<shown, gone>>

Deliver(c) ==
  /\ holding[c]
  /\ holding' = [holding EXCEPT ![c] = FALSE]
  /\ \E p \in {Raw} \cup Unused(c) :
       shown' = [shown EXCEPT ![c] = Append(@, [frame |-> taken[c], picture |-> p])]
  /\ UNCHANGED <<taken, gone>>

Drop(c) ==
  /\ holding[c]
  /\ gone[c]
  /\ holding' = [holding EXCEPT ![c] = FALSE]
  /\ UNCHANGED <<taken, shown, gone>>

Withdraw(S) ==
  /\ gone' = [c \in Cameras |-> gone[c] \/ c \in S]
  /\ UNCHANGED <<taken, holding, shown>>

Next ==
  \/ \E c \in Cameras : Take(c) \/ Deliver(c) \/ Drop(c)
  \/ \E S \in SUBSET Cameras : Withdraw(S)

Spec == Init /\ [][Next]_vars

(* No frame stays inside for ever.                                         *)
FairSpec == Spec /\ \A c \in Cameras : WF_vars(Deliver(c) \/ Drop(c))
=============================================================================
