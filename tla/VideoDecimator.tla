--------------------------- MODULE VideoDecimator ---------------------------
(***************************************************************************)
(* The frame-rate limiter of the live output, from                         *)
(* flobs/flobs_video_decimator.cc and its caller                           *)
(* FLOBSManager::DropVideoFrame.                                           *)
(*                                                                         *)
(* Three threads meet on six atomics and no lock.  The video thread calls  *)
(* DropFrame for every frame; the pool worker executes the host's          *)
(* MEANRATEINFO requests (DropVideoFrame); the UI thread calls Reset when  *)
(* the live output starts and stops.  Reset and the setters are modelled   *)
(* store by store, and DropFrame read by read for the three fields its     *)
(* callers set; the counters, which only DropFrame reads, are accessed in  *)
(* the step of the branch that uses them.                                  *)
(***************************************************************************)
EXTENDS Integers, Sequences, FiniteSets

CONSTANTS
  VideoRates,  \* the values fps_num of the video may have
  Targets,     \* the rates the host may ask for
  Overlap      \* may calls of different threads overlap?

ASSUME RatesAssumption == VideoRates \subseteq Nat \ {0} /\ Targets \subseteq Nat
ASSUME OverlapAssumption == Overlap \in BOOLEAN

Writers == {"ui", "pool"}

VARIABLES
  fps,      \* fps_num of the video, as obs_get_video_info reports it
  dec,      \* the decimator's six atomics
  step,     \* where each writer is: the store or comparison it makes next
  job,      \* the arguments of the pool's request
  video,    \* where the video thread is in DropFrame, and its two locals
  intent,   \* history: what the last request to begin should lead to
  solo,     \* history: no other request ran since the running one began
  torn,     \* history: requests overlapped and no lone Reset ran since
  swept,    \* history: a target of zero was stored during this DropFrame
  decided   \* history: the last decisions, TRUE for a frame sent

vars == <<fps, dec, step, job, video, intent, solo, torn, swept, decided>>

Rates == {0} \cup VideoRates
AllTargets == {0} \cup Targets
Setting == [enable : BOOLEAN, incoming : Rates, target : AllTargets]
Atomics == [overshoot : Int, drops : Nat, keeps : Nat,
            target : AllTargets, incoming : Rates, enable : BOOLEAN]
Off == [enable |-> FALSE, incoming |-> 0, target |-> 0]

ResetSteps == {"overshoot", "drops", "keeps", "target", "incoming", "enable"}
Steps == {"idle", "compareTarget", "compareIncoming"} \cup ResetSteps
           \cup {"setIncoming", "setTarget", "setEnable"}
Places == {"idle", "enable", "incoming", "round", "target", "compare",
           "overshoot", "keep", "divide", "remainder", "fault"}

Idle(w) == step[w] = "idle"
Quiet == \A w \in Writers : Idle(w)
Current == [enable |-> dec.enable, incoming |-> dec.incoming, target |-> dec.target]

Init ==
  /\ fps \in VideoRates
  /\ dec = [overshoot |-> 0, drops |-> 0, keeps |-> 1,
            target |-> 0, incoming |-> 0, enable |-> FALSE]
  /\ step = [w \in Writers |-> "idle"]
  /\ job = [incoming |-> 0, target |-> 0, enable |-> FALSE]
  /\ video = [at |-> "idle", rate |-> 0, overshoot |-> 0]
  /\ intent = Off /\ solo = TRUE /\ torn = FALSE /\ swept = FALSE
  /\ decided = <<>>

-----------------------------------------------------------------------------
(* The writers.                                                            *)

(* The history a request begins with.  Without Overlap it also waits for   *)
(* the other calls to end, and the decisions before it are forgotten.      *)
Begin(w, setting) ==
  /\ Idle(w)
  /\ Overlap \/ (Quiet /\ video.at = "idle")
  /\ intent' = setting
  /\ solo' = Quiet
  /\ torn' = (torn \/ ~Quiet)
  /\ decided' = <<>>

(* LiveOutputStart and LiveOutputStop reset the limiter.                   *)
LiveOutputReset ==
  /\ Begin("ui", Off)
  /\ step' = [step EXCEPT !["ui"] = "overshoot"]
  /\ UNCHANGED <<fps, dec, job, video, swept>>

(* A MEANRATEINFO request that turns the limiter off, or that finds no     *)
(* video.                                                                  *)
DropVideoFrameOff ==
  /\ Begin("pool", Off)
  /\ job' = Off
  /\ step' = [step EXCEPT !["pool"] = "overshoot"]
  /\ UNCHANGED <<fps, dec, video, swept>>

DropVideoFrame(target) ==
  /\ LET setting == [enable |-> TRUE, incoming |-> fps, target |-> target]
     IN  Begin("pool", setting) /\ job' = setting
  /\ step' = [step EXCEPT !["pool"] = "compareTarget"]
  /\ UNCHANGED <<fps, dec, video, swept>>

(* A request for the rates that are set already is not applied again: the  *)
(* target is compared first and the incoming rate only if it is equal.     *)
ResetIfNeed ==
  \/ /\ step["pool"] = "compareTarget"
     /\ step' = [step EXCEPT !["pool"] = IF job.target # dec.target
                                         THEN "overshoot" ELSE "compareIncoming"]
  \/ /\ step["pool"] = "compareIncoming"
     /\ step' = [step EXCEPT !["pool"] = IF job.incoming # dec.incoming
                                         THEN "overshoot" ELSE "idle"]

CompareRates ==
  /\ ResetIfNeed
  /\ UNCHANGED <<fps, dec, job, video, intent, solo, torn, swept, decided>>

(* Writer w moves from one step to the next.                               *)
Go(w, here, there) ==
  /\ step[w] = here
  /\ step' = [step EXCEPT ![w] = there]
  /\ UNCHANGED <<fps, job, video, intent, solo, decided>>

ResetOvershoot(w) ==
  /\ Go(w, "overshoot", "drops")
  /\ dec' = [dec EXCEPT !.overshoot = 0]
  /\ UNCHANGED <<torn, swept>>

ResetDrops(w) ==
  /\ Go(w, "drops", "keeps")
  /\ dec' = [dec EXCEPT !.drops = 0]
  /\ UNCHANGED <<torn, swept>>

ResetKeeps(w) ==
  /\ Go(w, "keeps", "target")
  /\ dec' = [dec EXCEPT !.keeps = 1]
  /\ UNCHANGED <<torn, swept>>

(* Mutant of ResetTarget: the store is missing.                            *)
ResetTargetForgotten(w) ==
  /\ Go(w, "target", "incoming")
  /\ UNCHANGED <<dec, torn, swept>>

ResetTarget(w) ==
  /\ Go(w, "target", "incoming")
  /\ dec' = [dec EXCEPT !.target = 0]
  /\ swept' = (video.at # "idle")
  /\ UNCHANGED torn

(* Mutant of ResetIncoming: the store is missing.                          *)
ResetIncomingForgotten(w) ==
  /\ Go(w, "incoming", "enable")
  /\ UNCHANGED <<dec, torn, swept>>

ResetIncoming(w) ==
  /\ Go(w, "incoming", "enable")
  /\ dec' = [dec EXCEPT !.incoming = 0]
  /\ UNCHANGED <<torn, swept>>

(* The last store of Reset, after which the pool's setters follow if the   *)
(* request enables the limiter.                                            *)
ResetEnable(w) ==
  /\ Go(w, "enable", IF w = "pool" /\ job.enable THEN "setIncoming" ELSE "idle")
  /\ dec' = [dec EXCEPT !.enable = FALSE]
  /\ torn' = (torn /\ ~solo)
  /\ UNCHANGED swept

SetIncomingFramerate ==
  /\ Go("pool", "setIncoming", "setTarget")
  /\ dec' = [dec EXCEPT !.incoming = job.incoming]
  /\ UNCHANGED <<torn, swept>>

SetTargetFramerate ==
  /\ Go("pool", "setTarget", "setEnable")
  /\ dec' = [dec EXCEPT !.target = job.target]
  /\ swept' = (swept \/ (job.target = 0 /\ video.at # "idle"))
  /\ UNCHANGED torn

EnableTemporalDecimation ==
  /\ Go("pool", "setEnable", "idle")
  /\ dec' = [dec EXCEPT !.enable = TRUE]
  /\ UNCHANGED <<torn, swept>>

(* SetVideoFPS changes the rate of the video; the limiter keeps the rate   *)
(* it was given.                                                           *)
SetVideoFPS ==
  /\ Idle("ui")
  /\ Overlap \/ (Quiet /\ video.at = "idle")
  /\ fps' \in VideoRates \ {fps}
  /\ UNCHANGED <<dec, step, job, video, intent, solo, torn, swept, decided>>

-----------------------------------------------------------------------------
(* The video thread: DropFrame.                                            *)

(* One decision more; the window is as long as the incoming rate, plus     *)
(* one.                                                                    *)
Decided(sent) ==
  IF Overlap THEN decided
  ELSE LET all == Append(decided, sent)
       IN  IF Len(all) <= dec.incoming + 1 THEN all ELSE Tail(all)

Return(sent) ==
  /\ video' = [at |-> "idle", rate |-> 0, overshoot |-> 0]
  /\ swept' = FALSE
  /\ decided' = Decided(sent)

GoOn(place) ==
  /\ video' = [video EXCEPT !.at = place]
  /\ UNCHANGED <<swept, decided>>

(* A read of DropFrame that leaves the atomics alone.                      *)
At(place) == video.at = place /\ UNCHANGED <<fps, step, job, intent, solo, torn>>

Frame ==
  /\ At("idle")
  /\ Overlap \/ Quiet
  /\ GoOn("enable")
  /\ UNCHANGED dec

CheckEnable ==
  /\ At("enable")
  /\ IF dec.enable THEN GoOn("incoming") ELSE Return(TRUE)
  /\ UNCHANGED dec

CheckIncoming ==
  /\ At("incoming")
  /\ IF dec.incoming <= 0 THEN Return(TRUE) ELSE GoOn("round")
  /\ UNCHANGED dec

(* The incoming rate is read again and rounded to an integer; fps_num is   *)
(* one already.                                                            *)
RoundIncoming ==
  /\ At("round")
  /\ video' = [video EXCEPT !.at = "target", !.rate = dec.incoming]
  /\ UNCHANGED <<dec, swept, decided>>

(* Mutant of CheckTarget: no test for a target of zero.                    *)
CheckTargetNever ==
  /\ At("target")
  /\ GoOn("compare")
  /\ UNCHANGED dec

CheckTarget ==
  /\ At("target")
  /\ IF dec.target = 0 THEN Return(FALSE) ELSE GoOn("compare")
  /\ UNCHANGED dec

CompareIncoming ==
  /\ At("compare")
  /\ IF video.rate > dec.target THEN GoOn("overshoot") ELSE Return(TRUE)
  /\ UNCHANGED dec

(* The frames to drop per second, corrected by what earlier rounds left    *)
(* over.  At less than half of the frames, frames are kept in runs;        *)
(* otherwise they are dropped in runs.                                     *)
ComputeOvershoot ==
  /\ At("overshoot")
  /\ LET signed == dec.overshoot + video.rate - dec.target
         overshoot == IF signed < 0 THEN 0 ELSE signed
     IN  /\ dec' = IF signed < 0 THEN [dec EXCEPT !.overshoot = 0] ELSE dec
         /\ video' = [video EXCEPT !.overshoot = overshoot,
                        !.at = IF overshoot # 0 /\ 2 * overshoot < video.rate
                               THEN "keep" ELSE "divide"]
  /\ UNCHANGED <<swept, decided>>

(* Mutant of KeepRun: one frame too many is kept before a drop.            *)
KeepRunTooLong ==
  /\ At("keep")
  /\ LET run == video.rate \div video.overshoot
     IN  IF dec.drops # 0
         THEN dec' = [dec EXCEPT !.drops = 0] /\ Return(FALSE)
         ELSE IF dec.keeps > run + 1
         THEN /\ dec' = [dec EXCEPT !.keeps = 1,
                          !.overshoot = -((video.rate % video.overshoot) \div 3)]
              /\ Return(FALSE)
         ELSE dec' = [dec EXCEPT !.keeps = @ + 1] /\ Return(TRUE)

(* The division by 3 is of a negative number, and C rounds it towards 0.   *)
KeepRun ==
  /\ At("keep")
  /\ LET run == video.rate \div video.overshoot
     IN  IF dec.drops # 0
         THEN dec' = [dec EXCEPT !.drops = 0] /\ Return(FALSE)
         ELSE IF dec.keeps >= run
         THEN /\ dec' = [dec EXCEPT !.keeps = 1,
                          !.overshoot = -((video.rate % video.overshoot) \div 3)]
              /\ Return(FALSE)
         ELSE dec' = [dec EXCEPT !.keeps = @ + 1] /\ Return(TRUE)

(* Both divisions read the target again.  A zero divisor ends the program. *)
Divides(run) ==
  IF dec.target = 0
  THEN /\ GoOn("fault")
       /\ dec' = [dec EXCEPT !.keeps = 0]
  ELSE IF run
  THEN /\ dec' = [dec EXCEPT !.keeps = 0, !.drops = @ + 1]
       /\ Return(FALSE)
  ELSE /\ dec' = [dec EXCEPT !.keeps = 0]
       /\ GoOn("remainder")

(* Mutant of DropRun: one frame more is dropped in a run.                  *)
DropRunTooLong ==
  /\ At("divide")
  /\ Divides(dec.target # 0 /\ dec.drops <= video.overshoot \div dec.target)

DropRun ==
  /\ At("divide")
  /\ Divides(dec.target # 0 /\ dec.drops < video.overshoot \div dec.target)

(* Mutant of EndDropRun: what the division leaves over is forgotten.       *)
EndDropRunForgetful ==
  /\ At("remainder")
  /\ IF dec.target = 0
     THEN GoOn("fault") /\ UNCHANGED dec
     ELSE /\ dec' = [dec EXCEPT !.overshoot = 0, !.drops = 0]
          /\ Return(TRUE)

EndDropRun ==
  /\ At("remainder")
  /\ IF dec.target = 0
     THEN GoOn("fault") /\ UNCHANGED dec
     ELSE /\ dec' = [dec EXCEPT !.overshoot = video.overshoot % dec.target, !.drops = 0]
          /\ Return(TRUE)

DropFrame ==
  \/ Frame \/ CheckEnable \/ CheckIncoming \/ RoundIncoming \/ CheckTarget
  \/ CompareIncoming \/ ComputeOvershoot \/ KeepRun \/ DropRun \/ EndDropRun

Reset(w) ==
  \/ ResetOvershoot(w) \/ ResetDrops(w) \/ ResetKeeps(w)
  \/ ResetTarget(w) \/ ResetIncoming(w) \/ ResetEnable(w)

Next ==
  \/ LiveOutputReset
  \/ DropVideoFrameOff
  \/ \E target \in Targets : DropVideoFrame(target)
  \/ CompareRates
  \/ \E w \in Writers : Reset(w)
  \/ SetIncomingFramerate \/ SetTargetFramerate \/ EnableTemporalDecimation
  \/ SetVideoFPS
  \/ DropFrame

Spec == Init /\ [][Next]_vars

-----------------------------------------------------------------------------
(* Properties.                                                             *)

(* The unsigned fields and the locals DropFrame divides by stay unsigned,  *)
(* however a Reset and a change of rates fall into a call; keep_count_     *)
(* never passes the highest rate.                                          *)
TypeOK ==
  /\ fps \in VideoRates
  /\ dec \in Atomics
  /\ step \in [Writers -> Steps]
  /\ step["ui"] \in {"idle"} \cup ResetSteps
  /\ job \in Setting
  /\ video \in [at : Places, rate : Rates, overshoot : Nat]
  /\ video.at = "keep" => video.overshoot # 0
  /\ intent \in Setting
  /\ solo \in BOOLEAN /\ torn \in BOOLEAN /\ swept \in BOOLEAN
  /\ decided \in Seq(BOOLEAN)
  /\ \E rate \in VideoRates : dec.keeps <= rate

(* With these three fields DropFrame drops every frame it is called for.   *)
Blackout == dec.enable /\ dec.incoming > 0 /\ dec.target = 0

(* A host that never asks for a rate of zero cannot lose the whole stream: *)
(* the overlapping stores of a Reset and of DropVideoFrame, in whatever    *)
(* order they land, leave the limiter dropping every frame only between    *)
(* two adjacent stores of a Reset.                                         *)
BlackoutIsTransient ==
  (Blackout /\ 0 \notin Targets) => \E w \in Writers : step[w] = "incoming"

(* The two divisions of DropFrame can meet a zero target only if it was    *)
(* stored while that same call of DropFrame ran (lines 47, 72 and 77).     *)
ZeroDivisorNeedsStore ==
  \/ video.at \in {"divide", "remainder"} /\ dec.target = 0
  \/ video.at = "fault"
  => swept

(* Once all requests have returned, the limiter is set as the last one     *)
(* asked, a repeated request included, unless requests overlapped and no   *)
(* Reset has run alone since.                                              *)
LastRequestWins == (Quiet /\ ~torn) => Current = intent

(* A limiter that is on and has a target below the incoming rate lets one  *)
(* frame through in every incoming \div target + 1.                        *)
Limiting == dec.enable /\ 0 < dec.target /\ dec.target < dec.incoming

LastDecisions(n) == SubSeq(decided, Len(decided) - n + 1, Len(decided))
SentOf(s) == {i \in DOMAIN s : s[i]}

NeverStarves ==
  LET run == dec.incoming \div dec.target + 1
  IN  (Limiting /\ Len(decided) >= run) => SentOf(LastDecisions(run)) # {}

(* Over as many frames as come in per second the frames let through are    *)
(* the target, give or take what the integer arithmetic of the counters    *)
(* costs at the rates of a camera.                                         *)
RateHonoured ==
  LET sent == Cardinality(SentOf(LastDecisions(dec.incoming)))
  IN  (Limiting /\ Len(decided) >= dec.incoming) => sent \in dec.target - 4 .. dec.target + 2

(* Whatever the two rates are.  At a target of at most half the incoming   *)
(* rate no frame is lost to the arithmetic: of any second's frames exactly *)
(* the target are sent.  Above half the runs of kept frames are between    *)
(* the one the rates give and the one the largest correction gives, and    *)
(* the dropped frames of a second between the quotients of those.          *)
Excess == dec.incoming - dec.target
ShortestRun == dec.incoming \div Excess
LongestRun == dec.incoming \div (Excess - (Excess - 1) \div 3)

RateMet ==
  LET sent == Cardinality(SentOf(LastDecisions(dec.incoming)))
      dropped == dec.incoming - sent
  IN  (Limiting /\ Len(decided) >= dec.incoming) =>
        IF 2 * dec.target <= dec.incoming
        THEN sent = dec.target
        ELSE dropped \in dec.incoming \div LongestRun
                           .. (dec.incoming + ShortestRun - 1) \div ShortestRun

(* The host gets the rate it asked for, over a second and without a gap.   *)
RateKept == NeverStarves /\ RateMet
=============================================================================
