------------------------ MODULE VideoDecimator_proofs ------------------------
(***************************************************************************)
(* What the limiter keeps to for every set of video rates and targets and  *)
(* every interleaving of its callers.                                      *)
(***************************************************************************)
EXTENDS VideoDecimator, FiniteSetTheorems, TLAPS

(* A quotient is no larger than its dividend.                              *)
LEMMA QuotientBound ==
  ASSUME NEW a \in Nat, NEW b \in Nat, b > 0
  PROVE  a \div b \in Nat /\ a \div b <= a
  OBVIOUS

LEMMA EmptySequence == ASSUME NEW S PROVE <<>> \in Seq(S)
  OBVIOUS

VideoType == /\ video \in [at : Places, rate : Rates, overshoot : Nat]
             /\ video.at = "keep" => video.overshoot # 0

LEMMA RatesAreNat == Rates \subseteq Nat /\ AllTargets \subseteq Nat /\ 0 \in Rates /\ 0 \in AllTargets
  BY RatesAssumption DEF Rates, AllTargets

LEMMA FieldTypes ==
  ASSUME TypeOK
  PROVE  /\ dec \in Atomics /\ dec.overshoot \in Int /\ dec.drops \in Nat /\ dec.keeps \in Nat
         /\ dec.target \in Nat /\ dec.incoming \in Nat
         /\ video.rate \in Nat /\ video.overshoot \in Nat
  BY RatesAreNat DEF TypeOK, Atomics

LEMMA InitTypeOK == Init => TypeOK
<1> SUFFICES ASSUME Init PROVE TypeOK
  OBVIOUS
<1>1. fps \in VideoRates
  BY DEF Init
<1>2. dec \in Atomics
  BY RatesAreNat DEF Init, Atomics
<1>3. step \in [Writers -> Steps] /\ step["ui"] \in {"idle"} \cup ResetSteps
  BY DEF Init, Writers, Steps, ResetSteps
<1>4. job \in Setting /\ intent \in Setting
  BY RatesAreNat DEF Init, Setting, Off
<1>5. VideoType
  BY RatesAreNat DEF Init, Places, VideoType
<1>6. solo \in BOOLEAN /\ torn \in BOOLEAN /\ swept \in BOOLEAN /\ decided \in Seq(BOOLEAN)
  BY EmptySequence, Zenon DEF Init
<1>7. \E rate \in VideoRates : dec.keeps <= rate
  <2>1. fps \in Nat \ {0} /\ dec.keeps = 1
    BY <1>1, RatesAssumption DEF Init
  <2> QED  BY <1>1, <2>1
<1> QED
  BY <1>1, <1>2, <1>3, <1>4, <1>5, <1>6, <1>7 DEF TypeOK, VideoType

(* One decision more leaves the history a sequence of decisions.           *)
LEMMA DecidedType ==
  ASSUME decided \in Seq(BOOLEAN), NEW sent \in BOOLEAN
  PROVE  Decided(sent) \in Seq(BOOLEAN)
<1>1. Append(decided, sent) \in Seq(BOOLEAN) /\ Append(decided, sent) # <<>>
  OBVIOUS
<1>2. Tail(Append(decided, sent)) \in Seq(BOOLEAN)
  BY <1>1
<1> QED  BY <1>1, <1>2 DEF Decided

(* The parts of TypeOK a step of a writer can disturb.                     *)
LEMMA WriterTypeOK ==
  ASSUME TypeOK,
         LiveOutputReset \/ DropVideoFrameOff \/ (\E target \in Targets : DropVideoFrame(target))
           \/ CompareRates
  PROVE  TypeOK'
<1>1. dec' = dec /\ video' = video /\ fps' = fps /\ swept' = swept
  BY DEF LiveOutputReset, DropVideoFrameOff, DropVideoFrame, CompareRates
<1>2. decided' \in Seq(BOOLEAN) /\ solo' \in BOOLEAN /\ torn' \in BOOLEAN
  <2>1. CASE CompareRates
    BY <2>1 DEF CompareRates, TypeOK
  <2>2. ASSUME NEW w \in Writers, NEW setting, Begin(w, setting)
        PROVE  decided' \in Seq(BOOLEAN) /\ solo' \in BOOLEAN /\ torn' \in BOOLEAN
    BY <2>2, EmptySequence, Zenon DEF Begin, TypeOK, Quiet
  <2> QED
    BY <2>1, <2>2, Zenon DEF LiveOutputReset, DropVideoFrameOff, DropVideoFrame, Writers
<1>3. step' \in [Writers -> Steps] /\ step'["ui"] \in {"idle"} \cup ResetSteps
  BY DEF TypeOK, LiveOutputReset, DropVideoFrameOff, DropVideoFrame, CompareRates, ResetIfNeed,
     Writers, Steps, ResetSteps
<1>4. job' \in Setting /\ intent' \in Setting
  <2>1. Off \in Setting
    BY RatesAreNat DEF Off, Setting
  <2>2. \A target \in Targets :
          [enable |-> TRUE, incoming |-> fps, target |-> target] \in Setting
    BY DEF TypeOK, Setting, Rates, AllTargets
  <2> QED
    BY <2>1, <2>2 DEF TypeOK, LiveOutputReset, DropVideoFrameOff, DropVideoFrame,
       CompareRates, Begin
<1> QED
  BY <1>1, <1>2, <1>3, <1>4 DEF TypeOK

LEMMA StoreTypeOK ==
  ASSUME TypeOK,
         (\E w \in Writers : Reset(w))
           \/ SetIncomingFramerate \/ SetTargetFramerate \/ EnableTemporalDecimation
  PROVE  TypeOK'
<1>1. /\ fps' = fps /\ job' = job /\ video' = video /\ intent' = intent
      /\ solo' = solo /\ decided' = decided
  BY DEF Reset, ResetOvershoot, ResetDrops, ResetKeeps, ResetTarget, ResetIncoming, ResetEnable,
     SetIncomingFramerate, SetTargetFramerate, EnableTemporalDecimation, Go
<1>2. step' \in [Writers -> Steps] /\ step'["ui"] \in {"idle"} \cup ResetSteps
  BY DEF TypeOK, Reset, ResetOvershoot, ResetDrops, ResetKeeps, ResetTarget, ResetIncoming,
     ResetEnable,
     SetIncomingFramerate, SetTargetFramerate, EnableTemporalDecimation, Go, Writers,
     Steps, ResetSteps
<1>3. torn' \in BOOLEAN /\ swept' \in BOOLEAN
  <2>1. torn' = torn \/ torn' = (torn /\ ~solo)
    BY Zenon DEF Reset, ResetOvershoot, ResetDrops, ResetKeeps, ResetTarget, ResetIncoming,
       ResetEnable,
       SetIncomingFramerate, SetTargetFramerate, EnableTemporalDecimation
  <2>2. \/ swept' = swept
        \/ swept' = (video.at # "idle")
        \/ swept' = (swept \/ (job.target = 0 /\ video.at # "idle"))
    BY Zenon DEF Reset, ResetOvershoot, ResetDrops, ResetKeeps, ResetTarget, ResetIncoming,
       ResetEnable,
       SetIncomingFramerate, SetTargetFramerate, EnableTemporalDecimation
  <2> QED  BY <2>1, <2>2, Zenon DEF TypeOK
<1>4. dec' \in Atomics /\ (dec'.keeps = 1 \/ dec'.keeps = dec.keeps)
  <2>1. \/ dec' = [dec EXCEPT !.overshoot = 0]
        \/ dec' = [dec EXCEPT !.drops = 0]
        \/ dec' = [dec EXCEPT !.keeps = 1]
        \/ dec' = [dec EXCEPT !.target = 0]
        \/ dec' = [dec EXCEPT !.incoming = 0]
        \/ dec' = [dec EXCEPT !.enable = FALSE]
        \/ dec' = [dec EXCEPT !.incoming = job.incoming]
        \/ dec' = [dec EXCEPT !.target = job.target]
        \/ dec' = [dec EXCEPT !.enable = TRUE]
    BY Zenon DEF Reset, ResetOvershoot, ResetDrops, ResetKeeps, ResetTarget, ResetIncoming,
       ResetEnable,
       SetIncomingFramerate, SetTargetFramerate, EnableTemporalDecimation
  <2>2. /\ dec \in Atomics /\ 0 \in Int /\ 0 \in Nat /\ 1 \in Nat /\ TRUE \in BOOLEAN /\ FALSE \in BOOLEAN
        /\ 0 \in Rates /\ 0 \in AllTargets /\ job.incoming \in Rates /\ job.target \in AllTargets
    BY RatesAreNat DEF TypeOK, Setting
  <2> QED
    <3>1. CASE dec' = [dec EXCEPT !.overshoot = 0]
      BY <2>2, <3>1 DEF Atomics
    <3>2. CASE dec' = [dec EXCEPT !.drops = 0]
      BY <2>2, <3>2 DEF Atomics
    <3>3. CASE dec' = [dec EXCEPT !.keeps = 1]
      BY <2>2, <3>3 DEF Atomics
    <3>4. CASE dec' = [dec EXCEPT !.target = 0] \/ dec' = [dec EXCEPT !.target = job.target]
      BY <2>2, <3>4 DEF Atomics
    <3>5. CASE dec' = [dec EXCEPT !.incoming = 0] \/ dec' = [dec EXCEPT !.incoming = job.incoming]
      BY <2>2, <3>5 DEF Atomics
    <3>6. CASE dec' = [dec EXCEPT !.enable = FALSE] \/ dec' = [dec EXCEPT !.enable = TRUE]
      BY <2>2, <3>6 DEF Atomics
    <3> QED  BY <2>1, <3>1, <3>2, <3>3, <3>4, <3>5, <3>6, Zenon
<1>5. \E rate \in VideoRates : dec'.keeps <= rate
  BY <1>4, RatesAssumption DEF TypeOK
<1> QED
  BY <1>1, <1>2, <1>3, <1>4, <1>5 DEF TypeOK

(* One lemma per group of steps of DropFrame.                              *)
LEMMA ReturnTypeOK ==
  ASSUME TypeOK, NEW sent \in BOOLEAN, Return(sent)
  PROVE  /\ VideoType'
         /\ swept' \in BOOLEAN /\ decided' \in Seq(BOOLEAN)
<1>1. VideoType'
  BY RatesAreNat DEF Return, Places, VideoType
<1>2. decided \in Seq(BOOLEAN)
  BY DEF TypeOK
<1>3. decided' \in Seq(BOOLEAN)
  BY <1>2, DecidedType, Zenon DEF Return
<1> QED
  BY <1>1, <1>3, Zenon DEF Return

LEMMA GoOnTypeOK ==
  ASSUME TypeOK, NEW place \in Places \ {"keep"}, GoOn(place)
  PROVE  /\ VideoType'
         /\ swept' \in BOOLEAN /\ decided' \in Seq(BOOLEAN)
<1>1. VideoType'
  BY DEF TypeOK, GoOn, VideoType
<1> QED
  BY <1>1, Zenon DEF TypeOK, GoOn

(* A step of DropFrame leaves the rates to the writers.                    *)
LEMMA FrameTypeOK ==
  ASSUME TypeOK, DropFrame
  PROVE  TypeOK'
<1> DEFINE Video == /\ VideoType'
                    /\ swept' \in BOOLEAN /\ decided' \in Seq(BOOLEAN)
           Dec == /\ dec' \in Atomics
                  /\ \E rate \in VideoRates : dec'.keeps <= rate
<1>p. /\ {"idle", "enable", "incoming", "round", "target", "compare",
          "overshoot", "divide", "remainder", "fault"} \subseteq Places \ {"keep"}
      /\ TRUE \in BOOLEAN /\ FALSE \in BOOLEAN
  BY DEF Places
<1>d. dec' = dec => Dec
  BY DEF TypeOK
<1>1. ASSUME Frame \/ CheckEnable \/ CheckIncoming \/ CheckTarget \/ CompareIncoming
      PROVE  Video /\ Dec
  <2>1. /\ dec' = dec
        /\ \/ \E place \in Places \ {"keep"} : GoOn(place)
           \/ \E sent \in BOOLEAN : Return(sent)
    BY <1>1, <1>p, Zenon DEF Frame, CheckEnable, CheckIncoming, CheckTarget, CompareIncoming
  <2>2. Video
    BY <2>1, GoOnTypeOK, ReturnTypeOK, Zenon
  <2> QED  BY <2>1, <2>2, <1>d, Zenon
<1>2. ASSUME RoundIncoming PROVE Video /\ Dec
  <2>1. VideoType'
    BY <1>2 DEF RoundIncoming, TypeOK, Places, Atomics, VideoType
  <2> QED  BY <1>2, <1>d, <2>1, Zenon DEF RoundIncoming, TypeOK
<1>3. ASSUME ComputeOvershoot PROVE Video /\ Dec
  <2> DEFINE signed == dec.overshoot + video.rate - dec.target
             clamped == IF signed < 0 THEN 0 ELSE signed
             place == IF clamped # 0 /\ 2 * clamped < video.rate THEN "keep" ELSE "divide"
  <2>1. clamped \in Nat
    <3>1. signed \in Int
      BY FieldTypes
    <3> HIDE DEF signed
    <3> QED  BY <3>1
  <2>2. video' = [video EXCEPT !.overshoot = clamped, !.at = place]
    BY <1>3, Zenon DEF ComputeOvershoot
  <2>3. place \in Places /\ (place = "keep" => clamped # 0)
    BY <1>p DEF Places
  <2>4. VideoType'
    <3> HIDE DEF clamped, place
    <3> QED  BY <2>1, <2>2, <2>3 DEF TypeOK, VideoType
  <2>5. dec' = [dec EXCEPT !.overshoot = 0] \/ dec' = dec
    BY <1>3, Zenon DEF ComputeOvershoot
  <2>6. dec' \in Atomics /\ dec'.keeps = dec.keeps
    BY <2>5 DEF TypeOK, Atomics
  <2>7. swept' \in BOOLEAN /\ decided' \in Seq(BOOLEAN)
    BY <1>3, Zenon DEF ComputeOvershoot, TypeOK
  <2>8. \E rate \in VideoRates : dec'.keeps <= rate
    BY <2>6 DEF TypeOK
  <2> QED  BY <2>4, <2>6, <2>7, <2>8, Zenon
<1>4. ASSUME KeepRun PROVE Video /\ Dec
  <2> DEFINE run == video.rate \div video.overshoot
             correction == -((video.rate % video.overshoot) \div 3)
  <2>1. \E sent \in BOOLEAN : Return(sent)
    BY <1>4, <1>p, Zenon DEF KeepRun
  <2>2. Video
    BY <2>1, ReturnTypeOK, Zenon
  <2>3. \/ dec' = [dec EXCEPT !.drops = 0]
        \/ dec' = [dec EXCEPT !.keeps = 1, !.overshoot = correction]
        \/ ~(dec.keeps >= run) /\ dec' = [dec EXCEPT !.keeps = dec.keeps + 1]
    BY <1>4, Zenon DEF KeepRun
  <2>4. video.overshoot > 0
    BY <1>4, FieldTypes DEF KeepRun, At, TypeOK
  <2>5. run \in Nat /\ run <= video.rate /\ correction \in Int
    BY <2>4, FieldTypes, QuotientBound
  <2>6. dec' \in Atomics /\ dec'.keeps \in Nat
                         /\ (dec'.keeps = dec.keeps \/ dec'.keeps = 1 \/ dec'.keeps <= run)
    <3> HIDE DEF run, correction
    <3>1. dec \in Atomics /\ 0 \in Nat /\ 1 \in Nat /\ dec.keeps + 1 \in Nat
      BY FieldTypes
    <3>2. CASE dec' = [dec EXCEPT !.drops = 0]
      BY <3>1, <3>2 DEF Atomics
    <3>3. CASE dec' = [dec EXCEPT !.keeps = 1, !.overshoot = correction]
      BY <2>5, <3>1, <3>3 DEF Atomics
    <3>4. CASE ~(dec.keeps >= run) /\ dec' = [dec EXCEPT !.keeps = dec.keeps + 1]
      <4>1. dec' \in Atomics /\ dec'.keeps = dec.keeps + 1
        BY <3>1, <3>4 DEF Atomics
      <4> QED  BY <4>1, <3>1, <3>4, <2>5, FieldTypes
    <3> QED  BY <2>3, <3>2, <3>3, <3>4
  <2>7. \E rate \in VideoRates : dec'.keeps <= rate
    <3> HIDE DEF run
    <3>1. video.rate \in VideoRates \/ video.rate = 0
      BY DEF TypeOK, Rates
    <3>2. fps \in VideoRates /\ \A rate \in VideoRates : rate \in Nat /\ 1 <= rate
      BY RatesAssumption DEF TypeOK
    <3> QED  BY <2>5, <2>6, <3>1, <3>2, FieldTypes DEF TypeOK
  <2> QED  BY <2>2, <2>6, <2>7, Zenon
<1>5. ASSUME DropRun PROVE Video /\ Dec
  <2>1. \/ \E place \in Places \ {"keep"} : GoOn(place)
        \/ \E sent \in BOOLEAN : Return(sent)
    BY <1>5, <1>p, Zenon DEF DropRun, Divides
  <2>2. Video
    BY <2>1, GoOnTypeOK, ReturnTypeOK, Zenon
  <2>3. \/ dec' = [dec EXCEPT !.keeps = 0]
        \/ dec' = [dec EXCEPT !.keeps = 0, !.drops = dec.drops + 1]
    BY <1>5, Zenon DEF DropRun, Divides
  <2>4. dec' \in Atomics /\ dec'.keeps = 0
    <3>1. dec \in Atomics /\ 0 \in Nat /\ dec.drops + 1 \in Nat
      BY DEF TypeOK, Atomics
    <3>2. CASE dec' = [dec EXCEPT !.keeps = 0]
      BY <3>1, <3>2 DEF Atomics
    <3>3. CASE dec' = [dec EXCEPT !.keeps = 0, !.drops = dec.drops + 1]
      BY <3>1, <3>3 DEF Atomics
    <3> QED  BY <2>3, <3>2, <3>3
  <2>5. \E rate \in VideoRates : dec'.keeps <= rate
    BY <2>4, RatesAssumption DEF TypeOK
  <2> QED  BY <2>2, <2>4, <2>5, Zenon
<1>6. ASSUME EndDropRun PROVE Video /\ Dec
  <2>1. \/ \E place \in Places \ {"keep"} : GoOn(place)
        \/ \E sent \in BOOLEAN : Return(sent)
    BY <1>6, <1>p, Zenon DEF EndDropRun
  <2>2. Video
    BY <2>1, GoOnTypeOK, ReturnTypeOK, Zenon
  <2> DEFINE rest == video.overshoot % dec.target
  <2>3. \/ dec' = dec
        \/ dec.target # 0 /\ dec' = [dec EXCEPT !.overshoot = rest, !.drops = 0]
    BY <1>6, Zenon DEF EndDropRun
  <2>4. dec.target # 0 => rest \in Int
    BY FieldTypes
  <2>5. dec' \in Atomics /\ dec'.keeps = dec.keeps
    <3> HIDE DEF rest
    <3>1. dec \in Atomics /\ 0 \in Nat
      BY DEF TypeOK
    <3> QED  BY <2>3, <2>4, <3>1 DEF Atomics
  <2> QED  BY <2>2, <2>5 DEF TypeOK
<1>7. Video /\ Dec
  BY <1>1, <1>2, <1>3, <1>4, <1>5, <1>6, Zenon DEF DropFrame
<1>8. /\ fps' = fps /\ step' = step /\ job' = job
      /\ intent' = intent /\ solo' = solo /\ torn' = torn
  BY Zenon DEF DropFrame, Frame, CheckEnable, CheckIncoming, RoundIncoming, CheckTarget,
     CompareIncoming, ComputeOvershoot, KeepRun, DropRun, EndDropRun, At
<1> QED
  BY <1>7, <1>8 DEF TypeOK, VideoType

(* The fields keep their types and DropFrame's unsigned arithmetic never   *)
(* leaves them, however its calls overlap with the writers'.               *)
THEOREM TypeCorrect == Spec => []TypeOK
<1>1. TypeOK /\ UNCHANGED vars => TypeOK'
  BY DEF TypeOK, vars
<1>2. TypeOK /\ SetVideoFPS => TypeOK'
  BY DEF TypeOK, SetVideoFPS
<1>3. TypeOK /\ [Next]_vars => TypeOK'
  BY <1>1, <1>2, WriterTypeOK, StoreTypeOK, FrameTypeOK, Zenon DEF Next
<1> QED
  BY InitTypeOK, <1>3, PTL DEF Spec

(* DropFrame stores to its own counters only.                              *)
LEMMA FrameKeepsRates ==
  ASSUME TypeOK, DropFrame
  PROVE  /\ step' = step /\ job' = job
         /\ dec'.target = dec.target /\ dec'.incoming = dec.incoming /\ dec'.enable = dec.enable
<1>1. step' = step /\ job' = job
  BY Zenon DEF DropFrame, Frame, CheckEnable, CheckIncoming, RoundIncoming, CheckTarget,
     CompareIncoming, ComputeOvershoot, KeepRun, DropRun, EndDropRun, At
<1>2. CASE dec' = dec
  BY <1>1, <1>2
<1>3. CASE ComputeOvershoot \/ DropRun
  <2>1. \/ dec' = dec
        \/ dec' = [dec EXCEPT !.overshoot = 0]
        \/ dec' = [dec EXCEPT !.keeps = 0]
        \/ dec' = [dec EXCEPT !.keeps = 0, !.drops = dec.drops + 1]
    BY <1>3, Zenon DEF ComputeOvershoot, DropRun, Divides
  <2> QED  BY <1>1, <2>1 DEF TypeOK, Atomics
<1>4. CASE KeepRun
  <2> DEFINE correction == -((video.rate % video.overshoot) \div 3)
  <2>1. \/ dec' = [dec EXCEPT !.drops = 0]
        \/ dec' = [dec EXCEPT !.keeps = 1, !.overshoot = correction]
        \/ dec' = [dec EXCEPT !.keeps = dec.keeps + 1]
    BY <1>4, Zenon DEF KeepRun
  <2> HIDE DEF correction
  <2> QED  BY <1>1, <2>1 DEF TypeOK, Atomics
<1>5. CASE EndDropRun
  <2> DEFINE rest == video.overshoot % dec.target
  <2>1. dec' = dec \/ dec' = [dec EXCEPT !.overshoot = rest, !.drops = 0]
    BY <1>5, Zenon DEF EndDropRun
  <2> HIDE DEF rest
  <2> QED  BY <1>1, <2>1 DEF TypeOK, Atomics
<1>6. dec' = dec \/ ComputeOvershoot \/ KeepRun \/ DropRun \/ EndDropRun
  BY Zenon DEF DropFrame, Frame, CheckEnable, CheckIncoming, RoundIncoming, CheckTarget,
     CompareIncoming
<1> QED
  BY <1>2, <1>3, <1>4, <1>5, <1>6

-----------------------------------------------------------------------------
(* No lasting blackout.  While the pool's setters run the limiter is off,  *)
(* since only the last of them turns it on; and when it is about to, a     *)
(* target of zero can only have come from a Reset of the UI thread that    *)
(* has not cleared the incoming rate yet.                                  *)
Setters == {"setIncoming", "setTarget", "setEnable"}

BlackoutInv ==
  /\ job.enable => job.target \in Targets
  /\ step["pool"] \in Setters => job.enable /\ ~dec.enable
  /\ step["pool"] = "setEnable" /\ dec.target = 0 /\ dec.incoming > 0 /\ 0 \notin Targets
       => step["ui"] = "incoming"
  /\ BlackoutIsTransient

LEMMA InitBlackoutInv == Init => BlackoutInv
  BY DEF Init, BlackoutInv, BlackoutIsTransient, Blackout, Setters, Writers

LEMMA NextBlackoutInv ==
  ASSUME TypeOK, BlackoutInv, [Next]_vars
  PROVE  BlackoutInv'
<1> USE DEF BlackoutInv, BlackoutIsTransient, Blackout, Setters, Writers
<1>1. CASE LiveOutputReset \/ DropVideoFrameOff \/ CompareRates \/ SetVideoFPS
  BY <1>1 DEF TypeOK, LiveOutputReset, DropVideoFrameOff, CompareRates, ResetIfNeed,
     SetVideoFPS, Begin, Idle, Off
<1>2. CASE \E target \in Targets : DropVideoFrame(target)
  BY <1>2 DEF TypeOK, DropVideoFrame, Begin, Idle
<1>3. CASE \E w \in Writers : ResetOvershoot(w) \/ ResetDrops(w) \/ ResetKeeps(w)
  BY <1>3 DEF TypeOK, Atomics, ResetOvershoot, ResetDrops, ResetKeeps, Go
<1>4. CASE \E w \in Writers : ResetTarget(w)
  BY <1>4 DEF TypeOK, Atomics, ResetTarget, Go
<1>5. CASE \E w \in Writers : ResetIncoming(w)
  BY <1>5 DEF TypeOK, Atomics, ResetIncoming, Go
<1>6. CASE \E w \in Writers : ResetEnable(w)
  BY <1>6 DEF TypeOK, Atomics, ResetEnable, Go
<1>7. CASE SetIncomingFramerate \/ SetTargetFramerate \/ EnableTemporalDecimation
  BY <1>7 DEF TypeOK, Atomics, SetIncomingFramerate, SetTargetFramerate,
     EnableTemporalDecimation, Go
<1>8. CASE DropFrame
  BY <1>8, FrameKeepsRates
<1>9. CASE UNCHANGED vars
  BY <1>9 DEF vars
<1> QED
  BY <1>1, <1>2, <1>3, <1>4, <1>5, <1>6, <1>7, <1>8, <1>9 DEF Next, Reset

(* Whatever the order in which the stores of a Reset and of DropVideoFrame *)
(* land, the limiter drops every frame only between two adjacent stores.   *)
THEOREM NoLastingBlackout == Spec => []BlackoutIsTransient
<1>1. BlackoutInv => BlackoutIsTransient
  BY DEF BlackoutInv
<1> QED
  BY TypeCorrect, InitBlackoutInv, NextBlackoutInv, <1>1, PTL DEF Spec

-----------------------------------------------------------------------------
(* No division by zero without an overlap.  Past the test of line 47 a     *)
(* target of zero is news, and the store that brought it set swept; alone, *)
(* no writer is at work while the video thread is in DropFrame.            *)
PastTest == {"compare", "overshoot", "keep", "divide", "remainder"}

DivisorInv ==
  /\ (video.at \in PastTest /\ dec.target = 0) => swept
  /\ video.at = "fault" => swept
  /\ ~Overlap => ~swept /\ (video.at = "idle" \/ Quiet)

LEMMA InitDivisorInv == Init => DivisorInv
  BY DEF Init, DivisorInv, PastTest

LEMMA NextDivisorInv ==
  ASSUME TypeOK, DivisorInv, [Next]_vars
  PROVE  DivisorInv'
<1> USE DEF DivisorInv, PastTest, Quiet, Idle, Writers
<1>1. CASE LiveOutputReset \/ DropVideoFrameOff \/ (\E target \in Targets : DropVideoFrame(target))
  <2>1. dec' = dec /\ video' = video /\ swept' = swept /\ (Overlap \/ video.at = "idle")
    BY <1>1, Zenon DEF LiveOutputReset, DropVideoFrameOff, DropVideoFrame, Begin
  <2> QED  BY <2>1, Zenon
<1>2. CASE CompareRates \/ SetVideoFPS
  BY <1>2 DEF TypeOK, CompareRates, ResetIfNeed, SetVideoFPS
<1>3. CASE \E w \in Writers : Reset(w)
  <2>1. video' = video /\ ~Quiet
    BY <1>3 DEF Reset, ResetOvershoot, ResetDrops, ResetKeeps, ResetTarget, ResetIncoming,
       ResetEnable, Go
  <2>2. \/ dec'.target = dec.target /\ swept' = swept
        \/ swept' = (video.at # "idle")
    BY <1>3 DEF TypeOK, Atomics, Reset, ResetOvershoot, ResetDrops, ResetKeeps, ResetTarget,
       ResetIncoming, ResetEnable
  <2>3. CASE dec'.target = dec.target /\ swept' = swept
    BY <2>1, <2>3
  <2>4. CASE swept' = (video.at # "idle")
    BY <2>1, <2>4
  <2> QED  BY <2>2, <2>3, <2>4
<1>4. CASE SetIncomingFramerate \/ SetTargetFramerate \/ EnableTemporalDecimation
  <2>1. video' = video /\ ~Quiet
    BY <1>4 DEF SetIncomingFramerate, SetTargetFramerate, EnableTemporalDecimation, Go
  <2>2. \/ dec'.target = dec.target /\ swept' = swept
        \/ dec'.target = job.target /\ swept' = (swept \/ (job.target = 0 /\ video.at # "idle"))
    BY <1>4 DEF TypeOK, Atomics, SetIncomingFramerate, SetTargetFramerate,
       EnableTemporalDecimation
  <2>3. CASE dec'.target = dec.target /\ swept' = swept
    BY <2>1, <2>3
  <2>4. CASE dec'.target = job.target /\ swept' = (swept \/ (job.target = 0 /\ video.at # "idle"))
    BY <2>1, <2>4
  <2> QED  BY <2>2, <2>3, <2>4
<1>5. CASE DropFrame
  <2>1. step' = step /\ dec'.target = dec.target
    BY <1>5, FrameKeepsRates
  <2>2. CASE \E sent \in BOOLEAN : Return(sent)
    BY <2>1, <2>2 DEF Return
  <2>3. CASE Frame
    BY <2>1, <2>3 DEF Frame, At, GoOn, TypeOK
  <2>4. CASE \E place \in Places : GoOn(place) /\ place # "fault"
              /\ video.at # "idle" /\ (place \in PastTest => video.at \in PastTest \/ dec.target # 0)
    BY <2>1, <2>4 DEF GoOn, TypeOK
  <2>5. CASE GoOn("fault") /\ dec.target = 0 /\ video.at \in PastTest
    BY <2>1, <2>5 DEF GoOn, TypeOK
  <2>6. CASE RoundIncoming \/ ComputeOvershoot
    <3>1. video'.at \in {"target", "keep", "divide"} /\ video.at # "idle"
      BY <2>6 DEF RoundIncoming, ComputeOvershoot, At, TypeOK
    <3>2. video.at \in PastTest \/ video'.at = "target"
      BY <2>6 DEF RoundIncoming, ComputeOvershoot, At, TypeOK
    <3>3. swept' = swept
      BY <2>6, Zenon DEF RoundIncoming, ComputeOvershoot
    <3> QED  BY <2>1, <3>1, <3>2, <3>3
  <2>7. \/ \E sent \in BOOLEAN : Return(sent)
        \/ Frame
        \/ \E place \in Places : GoOn(place) /\ place # "fault"
              /\ video.at # "idle" /\ (place \in PastTest => video.at \in PastTest \/ dec.target # 0)
        \/ GoOn("fault") /\ dec.target = 0 /\ video.at \in PastTest
        \/ RoundIncoming \/ ComputeOvershoot
    BY <1>5, Zenon DEF DropFrame, CheckEnable, CheckIncoming, CheckTarget, CompareIncoming,
       KeepRun,
       DropRun, Divides, EndDropRun, At, Places
  <2> QED  BY <2>2, <2>3, <2>4, <2>5, <2>6, <2>7
<1>6. CASE UNCHANGED vars
  BY <1>6 DEF vars
<1> QED
  BY <1>1, <1>2, <1>3, <1>4, <1>5, <1>6 DEF Next

(* The divisions of DropFrame meet a zero only in a call during which a    *)
(* zero target was stored.                                                 *)
THEOREM ZeroDivisorIsStoredMeanwhile == Spec => []ZeroDivisorNeedsStore
<1>1. DivisorInv => ZeroDivisorNeedsStore
  BY DEF DivisorInv, ZeroDivisorNeedsStore, PastTest
<1> QED
  BY TypeCorrect, InitDivisorInv, NextDivisorInv, <1>1, PTL DEF Spec

-----------------------------------------------------------------------------
(* The last request wins.  A request that runs alone leaves behind what it *)
(* stored, and one that is skipped was made already: SoloInv says who runs *)
(* alone, RequestInv what can be asked for, and AppliedInv how much of a   *)
(* request that runs alone has been stored at each of its steps.           *)
Comparing == {"compareTarget", "compareIncoming"}

SoloInv ==
  /\ ~torn => solo
  /\ solo => Idle("ui") \/ Idle("pool")
  /\ solo /\ ~Idle("pool") => intent = job
  /\ solo /\ ~Idle("ui") => intent = Off

RequestInv ==
  /\ intent = Off \/ intent.enable
  /\ job = Off \/ (job.enable /\ job.incoming # 0)
  /\ step["pool"] \in Comparing \cup Setters => job.enable

AppliedInv ==
  /\ LastRequestWins
  /\ ~torn /\ step["pool"] \in Comparing => dec.enable \/ dec.incoming = 0
  /\ ~torn /\ step["pool"] = "compareIncoming" => dec.target = job.target
  /\ solo => \A w \in Writers :
       /\ step[w] \in {"incoming", "enable", "setIncoming"} => dec.target = 0
       /\ step[w] \in {"enable", "setIncoming"} => dec.incoming = 0
  /\ solo /\ step["pool"] \in Setters => ~dec.enable
  /\ solo /\ step["pool"] \in {"setTarget", "setEnable"} => dec.incoming = job.incoming
  /\ solo /\ step["pool"] = "setEnable" => dec.target = job.target

WinInv == SoloInv /\ RequestInv /\ AppliedInv

LEMMA InitWinInv == Init => WinInv
  BY DEF Init, WinInv, SoloInv, RequestInv, AppliedInv, LastRequestWins, Comparing,
     Setters, Writers,
     Quiet, Idle, Current, Off

LEMMA FrameKeepsHistory ==
  ASSUME DropFrame
  PROVE  intent' = intent /\ solo' = solo /\ torn' = torn
BY Zenon DEF DropFrame, Frame, CheckEnable, CheckIncoming, RoundIncoming, CheckTarget,
   CompareIncoming, ComputeOvershoot, KeepRun, DropRun, EndDropRun, At

LEMMA SoloStep ==
  ASSUME TypeOK, SoloInv, [Next]_vars
  PROVE  SoloInv'
<1> USE DEF SoloInv, Idle, Quiet, Writers
<1>1. CASE LiveOutputReset \/ DropVideoFrameOff \/ (\E target \in Targets : DropVideoFrame(target))
  BY <1>1 DEF TypeOK, LiveOutputReset, DropVideoFrameOff, DropVideoFrame, Begin
<1>2. CASE CompareRates \/ SetVideoFPS
  BY <1>2 DEF TypeOK, CompareRates, ResetIfNeed, SetVideoFPS
<1>3. CASE \E w \in Writers : ResetOvershoot(w) \/ ResetDrops(w) \/ ResetKeeps(w)
                              \/ ResetTarget(w) \/ ResetIncoming(w)
  BY <1>3 DEF TypeOK, ResetOvershoot, ResetDrops, ResetKeeps, ResetTarget, ResetIncoming, Go
<1>4. CASE \E w \in Writers : ResetEnable(w)
  BY <1>4 DEF TypeOK, ResetEnable, Go
<1>5. CASE SetIncomingFramerate \/ SetTargetFramerate \/ EnableTemporalDecimation
  BY <1>5 DEF TypeOK, SetIncomingFramerate, SetTargetFramerate, EnableTemporalDecimation, Go
<1>6. CASE DropFrame
  BY <1>6, FrameKeepsRates, FrameKeepsHistory
<1>7. CASE UNCHANGED vars
  BY <1>7 DEF vars
<1> QED
  BY <1>1, <1>2, <1>3, <1>4, <1>5, <1>6, <1>7 DEF Next, Reset

LEMMA RequestStep ==
  ASSUME TypeOK, RequestInv, [Next]_vars
  PROVE  RequestInv'
<1> USE DEF RequestInv, Comparing, Setters
<1>1. CASE LiveOutputReset \/ DropVideoFrameOff
  BY <1>1 DEF TypeOK, LiveOutputReset, DropVideoFrameOff, Begin, Idle, Writers
<1>2. CASE \E target \in Targets : DropVideoFrame(target)
  BY <1>2, RatesAssumption DEF TypeOK, DropVideoFrame, Begin, Writers
<1>3. CASE CompareRates \/ SetVideoFPS
  BY <1>3 DEF TypeOK, CompareRates, ResetIfNeed, SetVideoFPS, Writers
<1>4. CASE \E w \in Writers : Reset(w)
  BY <1>4 DEF TypeOK, Reset, ResetOvershoot, ResetDrops, ResetKeeps, ResetTarget, ResetIncoming,
     ResetEnable, Go, Writers
<1>5. CASE SetIncomingFramerate \/ SetTargetFramerate \/ EnableTemporalDecimation
  BY <1>5 DEF TypeOK, SetIncomingFramerate, SetTargetFramerate, EnableTemporalDecimation,
     Go, Writers
<1>6. CASE DropFrame
  BY <1>6, FrameKeepsRates, FrameKeepsHistory
<1>7. CASE UNCHANGED vars
  BY <1>7 DEF vars
<1> QED
  BY <1>1, <1>2, <1>3, <1>4, <1>5, <1>6, <1>7 DEF Next

LEMMA AppliedStep ==
  ASSUME TypeOK, WinInv, [Next]_vars
  PROVE  AppliedInv'
<1> USE DEF WinInv, SoloInv, RequestInv, AppliedInv, LastRequestWins, Comparing, Setters, Writers,
            Quiet, Idle, Current
<1>1. CASE LiveOutputReset \/ DropVideoFrameOff \/ (\E target \in Targets : DropVideoFrame(target))
  <2>1. CASE LiveOutputReset \/ DropVideoFrameOff
    BY <2>1 DEF TypeOK, LiveOutputReset, DropVideoFrameOff, Begin
  <2>2. CASE \E target \in Targets : DropVideoFrame(target)
    BY <2>2 DEF TypeOK, DropVideoFrame, Begin, Off
  <2> QED  BY <1>1, <2>1, <2>2
<1>2. CASE CompareRates
  BY <1>2 DEF TypeOK, Setting, Atomics, CompareRates, ResetIfNeed, Off
<1>3. CASE SetVideoFPS
  BY <1>3 DEF SetVideoFPS
<1>4. CASE \E w \in Writers : ResetOvershoot(w) \/ ResetDrops(w) \/ ResetKeeps(w)
  BY <1>4 DEF TypeOK, Atomics, ResetOvershoot, ResetDrops, ResetKeeps, Go
<1>5. CASE \E w \in Writers : ResetTarget(w)
  BY <1>5 DEF TypeOK, Atomics, ResetTarget, Go
<1>6. CASE \E w \in Writers : ResetIncoming(w)
  BY <1>6 DEF TypeOK, Atomics, ResetIncoming, Go
<1>7. CASE \E w \in Writers : ResetEnable(w)
  BY <1>7 DEF TypeOK, Atomics, ResetEnable, Go, Off
<1>8. CASE SetIncomingFramerate \/ SetTargetFramerate \/ EnableTemporalDecimation
  <2>1. CASE SetIncomingFramerate
    BY <2>1 DEF TypeOK, Atomics, Setting, SetIncomingFramerate, Go
  <2>2. CASE SetTargetFramerate
    BY <2>2 DEF TypeOK, Atomics, Setting, SetTargetFramerate, Go
  <2>3. CASE EnableTemporalDecimation
    BY <2>3 DEF TypeOK, Atomics, Setting, EnableTemporalDecimation, Go, Off
  <2> QED  BY <1>8, <2>1, <2>2, <2>3
<1>9. CASE DropFrame
  BY <1>9, FrameKeepsRates, FrameKeepsHistory
<1>10. CASE UNCHANGED vars
  BY <1>10 DEF vars
<1> QED
  BY <1>1, <1>2, <1>3, <1>4, <1>5, <1>6, <1>7, <1>8, <1>9, <1>10 DEF Next, Reset

(* Once no request runs, the limiter is set as the last one asked, also if *)
(* that one was skipped because its rates were set already, unless         *)
(* requests overlapped and no Reset has run alone since.                   *)
THEOREM LastRequestIsInForce == Spec => []LastRequestWins
<1>1. WinInv => LastRequestWins
  BY DEF WinInv, AppliedInv
<1>2. TypeOK /\ WinInv /\ [Next]_vars => WinInv'
  BY SoloStep, RequestStep, AppliedStep DEF WinInv
<1> QED
  BY TypeCorrect, InitWinInv, <1>1, <1>2, PTL DEF Spec


-----------------------------------------------------------------------------
(* No starvation: where a round of the limiter stands.                     *)

(* Quotients.                                                              *)
LEMMA QuotientGrows ==
  ASSUME NEW a \in Nat, NEW b \in Nat, NEW c \in Nat \ {0}, a <= b
  PROVE  a \div c <= b \div c
OBVIOUS

LEMMA QuotientGrowsByOne ==
  ASSUME NEW a \in Nat, NEW b \in Nat, NEW c \in Nat \ {0}, a + c <= b
  PROVE  a \div c + 1 <= b \div c
OBVIOUS

LEMMA HalfIsTwice ==
  ASSUME NEW a \in Nat, NEW c \in Nat \ {0}, 2 * c < a
  PROVE  2 <= a \div c
OBVIOUS

LEMMA RestIsSmaller ==
  ASSUME NEW a \in Nat, NEW c \in Nat \ {0}
  PROVE  a % c \in Nat /\ a % c < c
OBVIOUS

(* One of the last n + 1 decisions sent a frame, if there are as many.     *)
Wet(s, n) == Len(s) <= n \/ \E i \in DOMAIN s : i >= Len(s) - n /\ s[i]

LEMMA WetGrows ==
  ASSUME NEW s \in Seq(BOOLEAN), NEW n \in Nat, NEW m \in Nat, n <= m, Wet(s, n)
  PROVE  Wet(s, m)
BY DEF Wet

LEMMA NothingIsWet == \A n \in Nat : Wet(<<>>, n)
BY DEF Wet

LEMMA SentIsWet ==
  ASSUME decided \in Seq(BOOLEAN), dec.incoming \in Nat, ~Overlap
  PROVE  Wet(Decided(TRUE), 0)
<1> DEFINE all == Append(decided, TRUE)
<1>1. all \in Seq(BOOLEAN) /\ Len(all) = Len(decided) + 1 /\ all[Len(all)] = TRUE
      /\ Len(decided) \in Nat
  OBVIOUS
<1>2. CASE Len(all) <= dec.incoming + 1
  <2>1. Decided(TRUE) = all
    BY <1>2 DEF Decided
  <2> HIDE DEF all
  <2>2. Len(all) \in DOMAIN all /\ Len(all) >= Len(all) - 0
    BY <1>1
  <2>3. \E i \in DOMAIN all : i >= Len(all) - 0 /\ all[i]
    BY <1>1, <2>2, Zenon
  <2> QED BY <2>1, <2>3, Zenon DEF Wet
<1>3. CASE ~(Len(all) <= dec.incoming + 1)
  <2>1. Decided(TRUE) = Tail(all)
    BY <1>3 DEF Decided
  <2> HIDE DEF all
  <2> DEFINE t == Tail(all)
  <2>2. Len(all) >= 2
    BY <1>1, <1>3
  <2>3. Len(t) = Len(all) - 1 /\ t[Len(t)] = all[Len(all)] /\ Len(t) \in DOMAIN t
    BY <1>1, <2>2
  <2>4. Len(t) \in Nat
    BY <1>1, <2>2, <2>3
  <2> HIDE DEF t
  <2>5. Len(t) >= Len(t) - 0
    BY <2>4
  <2>6. \E i \in DOMAIN t : i >= Len(t) - 0 /\ t[i]
    BY <1>1, <2>3, <2>5, Zenon
  <2> QED BY <2>1, <2>6, Zenon DEF Wet, t
<1> QED BY <1>2, <1>3

LEMMA DroppedIsWet ==
  ASSUME decided \in Seq(BOOLEAN), dec.incoming \in Nat, ~Overlap,
         NEW n \in Nat, n + 1 <= dec.incoming, Wet(decided, n)
  PROVE  Wet(Decided(FALSE), n + 1)
<1> DEFINE all == Append(decided, FALSE)
<1>1. all \in Seq(BOOLEAN) /\ Len(all) = Len(decided) + 1 /\ Len(decided) \in Nat
      /\ \A i \in DOMAIN decided : i \in DOMAIN all /\ all[i] = decided[i]
  <2>1. all \in Seq(BOOLEAN) /\ Len(all) = Len(decided) + 1 /\ Len(decided) \in Nat
    OBVIOUS
  <2>2. DOMAIN decided = 1 .. Len(decided) /\ DOMAIN all = 1 .. Len(all)
    BY <2>1
  <2>3. \A i \in 1 .. Len(decided) : all[i] = decided[i]
    OBVIOUS
  <2>4. 1 .. Len(decided) \subseteq 1 .. Len(all)
    BY <2>1
  <2> QED BY <2>1, <2>2, <2>3, <2>4
<1>2. Wet(all, n + 1)
  <2> HIDE DEF all
  <2>1. CASE Len(decided) <= n
    BY <1>1, <2>1 DEF Wet
  <2>2. CASE ~(Len(decided) <= n)
    <3>1. PICK i \in DOMAIN decided : i >= Len(decided) - n /\ decided[i]
      BY <2>2 DEF Wet
    <3>2. i \in DOMAIN all /\ all[i] /\ i >= Len(all) - (n + 1)
      BY <1>1, <3>1
    <3> QED BY <3>2 DEF Wet
  <2> QED BY <2>1, <2>2
<1>3. CASE Len(all) <= dec.incoming + 1
  BY <1>2, <1>3 DEF Decided
<1>4. CASE ~(Len(all) <= dec.incoming + 1)
  <2>1. Decided(FALSE) = Tail(all)
    BY <1>4 DEF Decided
  <2> HIDE DEF all
  <2> DEFINE t == Tail(all)
  <2>2. PICK i \in DOMAIN all : i >= Len(all) - (n + 1) /\ all[i]
    BY <1>1, <1>2, <1>4 DEF Wet
  <2>3. i >= 2 /\ i \in Nat
    BY <1>1, <1>4, <2>2
  <2>4. Len(t) = Len(all) - 1 /\ i - 1 \in DOMAIN t /\ t[i - 1] = all[i]
    <3>1. Len(all) \in Nat /\ Len(all) >= 2 /\ i \in 1 .. Len(all)
      BY <1>1, <1>4, <2>2
    <3>2. Len(t) = Len(all) - 1 /\ DOMAIN t = 1 .. Len(t)
      BY <1>1, <3>1
    <3>3. \A j \in 1 .. Len(all) - 1 : t[j] = all[j + 1]
      BY <1>1, <3>1
    <3>4. i - 1 \in 1 .. Len(all) - 1 /\ (i - 1) + 1 = i
      BY <2>3, <3>1
    <3> QED BY <3>2, <3>3, <3>4
  <2> HIDE DEF t
  <2>5. i - 1 >= Len(t) - (n + 1)
    BY <1>1, <2>2, <2>3, <2>4
  <2>6. Wet(t, n + 1)
    BY <2>2, <2>4, <2>5 DEF Wet
  <2> QED BY <2>1, <2>6 DEF t
<1> QED BY <1>3, <1>4

(* Where a round of the limiter stands.  In a round that drops frames in   *)
(* runs, the run is one of those that the frames to drop ask for; before   *)
(* it at most one frame was dropped, by the end of a run of kept ones.     *)
Over == dec.overshoot + dec.incoming - dec.target
Dropped == dec.drops + (IF dec.overshoot <= 0 THEN 1 ELSE 0)
RunOfDrops == dec.drops # 0 => 2 * Over >= dec.incoming /\ dec.drops <= Over \div dec.target
Round ==
  /\ dec.overshoot < dec.target /\ RunOfDrops
  /\ Wet(decided, Dropped)
  /\ dec.keeps >= 2 => Wet(decided, 0)

AtRest(w) == step[w] \in {"idle", "compareTarget", "compareIncoming"}
RoundInv == Limiting /\ (\A w \in Writers : AtRest(w)) => Round

(* What a Reset has cleared so far.                                        *)
ClearedInv ==
  \A w \in Writers : ~AtRest(w) =>
    /\ step[w] # "overshoot" => dec.overshoot = 0
    /\ step[w] \notin {"overshoot", "drops"} => dec.drops = 0
    /\ step[w] \notin {"overshoot", "drops", "keeps"} => dec.keeps = 1

(* A request is alone, and no frame was decided since it began.            *)
AloneInv ==
  \A w \in Writers : ~Idle(w) =>
    video.at = "idle" /\ decided = <<>> /\ \A v \in Writers : v # w => Idle(v)

(* What DropFrame has seen is still so.                                    *)
Judging == {"overshoot", "keep", "divide", "remainder"}
FrameInv ==
  /\ video.at \notin {"idle", "enable"} => dec.enable
  /\ video.at \notin {"idle", "enable", "incoming"} => dec.incoming > 0
  /\ video.at \notin {"idle", "enable", "incoming", "round"} => video.rate = dec.incoming
  /\ video.at \in Judging \cup {"compare"} => dec.target # 0
  /\ video.at \in Judging => dec.target < dec.incoming
  /\ video.at = "keep" => video.overshoot = Over /\ 2 * Over < dec.incoming
  /\ video.at = "divide" =>
       video.overshoot = 0 \/ (video.overshoot = Over /\ 2 * Over >= dec.incoming)
StarveInv == RoundInv /\ ClearedInv /\ AloneInv /\ FrameInv

(* No more frames are dropped in a row than the quotient of the rates.     *)
LEMMA DroppedIsBounded ==
  ASSUME TypeOK, Limiting, RunOfDrops, dec.overshoot < dec.target
  PROVE  /\ Dropped \in Nat /\ dec.incoming \div dec.target \in Nat
         /\ Dropped <= dec.incoming \div dec.target
         /\ Dropped <= dec.incoming
<1>1. /\ dec.overshoot \in Int /\ dec.drops \in Nat /\ dec.target \in Nat /\ dec.incoming \in Nat
      /\ 0 < dec.target /\ dec.target < dec.incoming
  BY FieldTypes DEF Limiting
<1>2. /\ dec.incoming \div dec.target \in Nat
      /\ dec.incoming \div dec.target <= dec.incoming
  BY <1>1, QuotientBound
<1>3. CASE dec.drops = 0
  <2>1. 0 \div dec.target + 1 <= dec.incoming \div dec.target /\ 0 \div dec.target = 0
    BY <1>1, QuotientGrowsByOne
  <2> QED BY <1>1, <1>2, <1>3, <2>1 DEF Dropped
<1>4. CASE dec.drops # 0
  <2>1. Over \in Nat /\ dec.drops <= Over \div dec.target
    BY <1>1, <1>4 DEF RunOfDrops, Over
  <2>2. CASE dec.overshoot <= 0
    <3>1. Over + dec.target <= dec.incoming
      BY <1>1, <2>2 DEF Over
    <3>2. Over \div dec.target + 1 <= dec.incoming \div dec.target
      <4>1. dec.target \in Nat \ {0} /\ dec.incoming \in Nat /\ Over \in Nat
        BY <1>1, <2>1
      <4> QED BY <3>1, <4>1, QuotientGrowsByOne
    <3>3. Over \div dec.target \in Nat
      BY <1>1, <2>1, QuotientBound
    <3> QED BY <1>1, <1>2, <2>1, <2>2, <3>2, <3>3 DEF Dropped
  <2>3. CASE ~(dec.overshoot <= 0)
    <3>1. Over <= dec.incoming
      BY <1>1 DEF Over
    <3>2. Over \div dec.target <= dec.incoming \div dec.target
      BY <1>1, <2>1, <3>1, QuotientGrows
    <3>3. Over \div dec.target \in Nat
      BY <1>1, <2>1, QuotientBound
    <3> QED BY <1>1, <1>2, <2>1, <2>3, <3>2, <3>3 DEF Dropped
  <2> QED BY <2>2, <2>3
<1> QED BY <1>3, <1>4

LEMMA InvNeverStarves == TypeOK /\ StarveInv => NeverStarves
<1> SUFFICES ASSUME TypeOK, StarveInv, Limiting,
                    Len(decided) >= dec.incoming \div dec.target + 1
             PROVE  SentOf(LastDecisions(dec.incoming \div dec.target + 1)) # {}
  BY DEF NeverStarves
<1> DEFINE q == dec.incoming \div dec.target
<1>1. /\ dec.target \in Nat \ {0} /\ dec.incoming \in Nat /\ q \in Nat
      /\ decided \in Seq(BOOLEAN) /\ Len(decided) \in Nat
  <2>1. dec.target \in Nat \ {0} /\ dec.incoming \in Nat
    BY FieldTypes DEF Limiting
  <2> QED BY <2>1, QuotientBound DEF TypeOK
<1>2. decided # <<>>
  BY <1>1
<1>3. \A w \in Writers : AtRest(w)
  BY <1>2 DEF StarveInv, AloneInv, Idle, AtRest
<1>4. Round
  BY <1>3 DEF StarveInv, RoundInv
<1>5. Dropped \in Nat /\ Dropped <= q
  BY <1>4, DroppedIsBounded DEF Round
<1> HIDE DEF q
<1>6. Wet(decided, q)
  BY <1>1, <1>4, <1>5, WetGrows DEF Round
<1>7. Len(decided) >= q + 1
  BY DEF q
<1>8. PICK i \in DOMAIN decided : i >= Len(decided) - q /\ decided[i]
  BY <1>1, <1>6, <1>7 DEF Wet
<1> DEFINE first == Len(decided) - (q + 1) + 1
           last == SubSeq(decided, first, Len(decided))
           j == i - first + 1
<1>9. /\ first \in 1 .. Len(decided) /\ i \in 1 .. Len(decided) /\ first <= i
  BY <1>1, <1>7, <1>8
<1>10. Len(last) = Len(decided) - first + 1 /\ last \in Seq(BOOLEAN)
       /\ \A k \in 1 .. Len(last) : last[k] = decided[first + k - 1]
  BY <1>1, <1>9
<1>11. j \in 1 .. Len(last) /\ first + j - 1 = i /\ DOMAIN last = 1 .. Len(last)
  BY <1>1, <1>9, <1>10
<1>12. j \in DOMAIN last /\ last[j]
  BY <1>8, <1>10, <1>11
<1>13. last = LastDecisions(dec.incoming \div dec.target + 1)
  BY DEF LastDecisions, q
<1> QED BY <1>12, <1>13 DEF SentOf

LEMMA InitStarveInv == Init => StarveInv
<1> SUFFICES ASSUME Init PROVE StarveInv
  OBVIOUS
<1>1. ~dec.enable /\ \A w \in Writers : Idle(w) /\ AtRest(w)
  BY DEF Init, Idle, AtRest
<1> QED BY <1>1 DEF Init, StarveInv, RoundInv, ClearedInv, AloneInv, FrameInv, Limiting, Judging

(* A request begins: nothing is decided since.                             *)
LEMMA BeginStarveInv ==
  ASSUME TypeOK, StarveInv, ~Overlap, NEW w \in Writers, NEW setting, Begin(w, setting),
         NEW place \in {"overshoot", "compareTarget"}, step' = [step EXCEPT ![w] = place],
         UNCHANGED <<dec, video>>
  PROVE  StarveInv'
<1>1. Quiet /\ video.at = "idle" /\ decided' = <<>>
  BY DEF Begin
<1>2. \A v \in Writers : AtRest(v) /\ step[v] = "idle"
  BY <1>1 DEF Quiet, Idle, AtRest
<1>3. step'[w] = place /\ \A v \in Writers : v # w => step'[v] = "idle"
  BY <1>2 DEF TypeOK
<1>4. RoundInv'
  <2> SUFFICES ASSUME Limiting PROVE Round'
    BY DEF RoundInv, Limiting
  <2>1. Round
    BY <1>2 DEF StarveInv, RoundInv
  <2>2. Dropped \in Nat
    BY <2>1, DroppedIsBounded DEF Round
  <2>3. Wet(<<>>, Dropped) /\ Wet(<<>>, 0)
    BY <2>2, NothingIsWet
  <2> QED BY <1>1, <2>1, <2>3 DEF Round, RunOfDrops, Dropped, Over
<1>5. ClearedInv'
  BY <1>3 DEF ClearedInv, AtRest
<1>6. AloneInv'
  BY <1>1, <1>3 DEF AloneInv, Idle
<1>7. FrameInv'
  BY DEF StarveInv, FrameInv, Judging, Over
<1> QED BY <1>4, <1>5, <1>6, <1>7 DEF StarveInv

LEMMA CompareStarveInv ==
  ASSUME TypeOK, StarveInv, CompareRates PROVE StarveInv'
<1>1. /\ step["pool"] \in {"compareTarget", "compareIncoming"}
      /\ \E place \in {"overshoot", "compareIncoming", "idle"} :
           step' = [step EXCEPT !["pool"] = place]
      /\ UNCHANGED <<dec, video, decided>>
  BY DEF CompareRates, ResetIfNeed
<1>2. /\ ~Idle("pool") /\ Idle("ui") /\ video.at = "idle" /\ decided = <<>>
  BY <1>1 DEF StarveInv, AloneInv, Idle, Writers
<1>3. /\ step'["pool"] \in {"overshoot", "compareIncoming", "idle"} /\ step'["ui"] = "idle"
  BY <1>1, <1>2 DEF TypeOK, Idle, Writers
<1>4. \A w \in Writers : AtRest(w)
  BY <1>1, <1>2 DEF AtRest, Idle, Writers
<1>5. RoundInv'
  BY <1>1, <1>4 DEF StarveInv, RoundInv, Limiting, Round, RunOfDrops, Dropped, Over
<1>6. ClearedInv'
  BY <1>3 DEF ClearedInv, AtRest, Writers
<1>7. AloneInv'
  BY <1>1, <1>2, <1>3 DEF AloneInv, Idle, Writers
<1>8. FrameInv'
  BY <1>1 DEF StarveInv, FrameInv, Judging, Over
<1> QED BY <1>5, <1>6, <1>7, <1>8 DEF StarveInv

(* The stores: they are alone, and a round begins anew after the last.     *)
LEMMA StoreStarveInv ==
  ASSUME TypeOK, StarveInv, NEW w \in Writers,
         Reset(w) \/ (w = "pool" /\ (SetIncomingFramerate \/ SetTargetFramerate
                                      \/ EnableTemporalDecimation))
  PROVE  StarveInv'
<1>1. /\ step[w] \in ResetSteps \cup {"setIncoming", "setTarget", "setEnable"}
      /\ \E place \in Steps : step' = [step EXCEPT ![w] = place]
      /\ UNCHANGED <<video, decided>>
  BY DEF Reset, ResetOvershoot, ResetDrops, ResetKeeps, ResetTarget, ResetIncoming, ResetEnable,
         SetIncomingFramerate, SetTargetFramerate, EnableTemporalDecimation, Go, ResetSteps, Steps
<1>2. ~Idle(w) /\ ~AtRest(w)
  BY <1>1 DEF Idle, AtRest, ResetSteps
<1>3. video.at = "idle" /\ decided = <<>> /\ \A v \in Writers : v # w => step[v] = "idle"
  BY <1>2 DEF StarveInv, AloneInv, Idle
<1>4. \A v \in Writers : v # w => step'[v] = "idle"
  BY <1>1, <1>3 DEF TypeOK
<1>5. AloneInv'
  BY <1>1, <1>3, <1>4 DEF AloneInv, Idle
<1>6. FrameInv'
  BY <1>1, <1>3 DEF FrameInv, Judging
<1>7. /\ step[w] # "overshoot" => dec.overshoot = 0
      /\ step[w] \notin {"overshoot", "drops"} => dec.drops = 0
      /\ step[w] \notin {"overshoot", "drops", "keeps"} => dec.keeps = 1
  BY <1>2 DEF StarveInv, ClearedInv
<1>8. /\ dec \in Atomics /\ step \in [Writers -> Steps]
  BY DEF TypeOK
<1>9. /\ step'[w] # "overshoot" => dec'.overshoot = 0
      /\ step'[w] \notin {"overshoot", "drops"} => dec'.drops = 0
      /\ step'[w] \notin {"overshoot", "drops", "keeps"} => dec'.keeps = 1
      /\ step'[w] \in {"idle", "compareTarget", "compareIncoming"} =>
           ~dec'.enable \/ step[w] = "setEnable"
  BY <1>7, <1>8 DEF Reset, ResetOvershoot, ResetDrops, ResetKeeps, ResetTarget, ResetIncoming,
         ResetEnable, SetIncomingFramerate, SetTargetFramerate, EnableTemporalDecimation, Go,
         Atomics
<1>10. ClearedInv'
  BY <1>4, <1>9 DEF ClearedInv, AtRest
<1>11. RoundInv'
  <2> SUFFICES ASSUME Limiting', AtRest(w)' PROVE Round'
    BY DEF RoundInv
  <2>1. dec'.overshoot = 0 /\ dec'.drops = 0 /\ dec'.keeps = 1 /\ 0 < dec'.target
    BY <1>9 DEF AtRest, Limiting
  <2>2. Wet(decided', 1)
    BY <1>1, <1>3, NothingIsWet
  <2> QED BY <2>1, <2>2 DEF Round, RunOfDrops, Dropped
<1> QED BY <1>5, <1>6, <1>10, <1>11 DEF StarveInv

(* DropFrame runs while no request does, and leaves them alone.            *)
LEMMA DropFrameIsAlone ==
  ASSUME TypeOK, StarveInv, ~Overlap, DropFrame
  PROVE  /\ \A w \in Writers : Idle(w) /\ AtRest(w) /\ Idle(w)' /\ AtRest(w)'
         /\ ClearedInv' /\ AloneInv'
         /\ Limiting => Round
         /\ Limiting' <=> Limiting
         /\ UNCHANGED <<dec.enable, dec.target, dec.incoming>>
<1>1. step' = step
  BY DEF DropFrame, Frame, CheckEnable, CheckIncoming, RoundIncoming, CheckTarget,
         CompareIncoming, ComputeOvershoot, KeepRun, DropRun, EndDropRun, At
<1>2. \A w \in Writers : Idle(w)
  <2>1. CASE Frame
    BY <2>1 DEF Frame, Quiet
  <2>2. CASE ~Frame
    <3>1. video.at # "idle"
      BY <2>2 DEF DropFrame, CheckEnable, CheckIncoming, RoundIncoming, CheckTarget,
             CompareIncoming, ComputeOvershoot, KeepRun, DropRun, EndDropRun, At
    <3> QED BY <3>1 DEF StarveInv, AloneInv
  <2> QED BY <2>1, <2>2
<1>3. \A w \in Writers : AtRest(w) /\ Idle(w)' /\ AtRest(w)'
  BY <1>1, <1>2 DEF Idle, AtRest
<1>4. UNCHANGED <<dec.enable, dec.target, dec.incoming>>
  BY DEF TypeOK, Atomics, DropFrame, Frame, CheckEnable, CheckIncoming, RoundIncoming,
         CheckTarget, CompareIncoming, ComputeOvershoot, KeepRun, DropRun, EndDropRun, Divides
<1>5. Limiting' <=> Limiting
  BY <1>4 DEF Limiting
<1> QED
  BY <1>2, <1>3, <1>4, <1>5 DEF ClearedInv, AloneInv, StarveInv, RoundInv

(* Its steps up to the comparison of the rates decide nothing for a        *)
(* limiter that limits.                                                    *)
LEMMA CheckStarveInv ==
  ASSUME TypeOK, StarveInv, ~Overlap,
         Frame \/ CheckEnable \/ CheckIncoming \/ RoundIncoming \/ CheckTarget \/ CompareIncoming
  PROVE  StarveInv'
<1>1. DropFrame
  BY DEF DropFrame
<1>2. ClearedInv' /\ AloneInv' /\ (\A w \in Writers : AtRest(w)) /\ (Limiting => Round)
  BY <1>1, DropFrameIsAlone
<1>3. dec' = dec /\ FrameInv /\ video \in [at : Places, rate : Rates, overshoot : Nat]
  BY DEF Frame, CheckEnable, CheckIncoming, RoundIncoming, CheckTarget, CompareIncoming,
         StarveInv, TypeOK
<1>4. dec.incoming \in Nat /\ dec.target \in Nat
  BY FieldTypes
<1>5. (Limiting => decided' = decided) /\ FrameInv'
  <2>1. CASE Frame
    <3>1. video' = [video EXCEPT !.at = "enable"] /\ decided' = decided
      BY <2>1 DEF Frame, GoOn
    <3>2. video'.at = "enable"
      BY <1>3, <3>1
    <3> QED BY <3>1, <3>2 DEF FrameInv, Judging
  <2>2. CASE CheckEnable
    <3>1. CASE dec.enable
      <4>1. video' = [video EXCEPT !.at = "incoming"] /\ decided' = decided
        BY <2>2, <3>1 DEF CheckEnable, GoOn
      <4>2. video'.at = "incoming"
        BY <1>3, <4>1
      <4> QED BY <1>3, <3>1, <4>1, <4>2 DEF FrameInv, Judging
    <3>2. CASE ~dec.enable
      <4>1. video'.at = "idle"
        BY <2>2, <3>2 DEF CheckEnable, Return
      <4> QED BY <3>2, <4>1 DEF FrameInv, Judging, Limiting
    <3> QED BY <3>1, <3>2
  <2>3. CASE CheckIncoming
    <3>1. video.at = "incoming" /\ dec.enable
      BY <1>3, <2>3 DEF CheckIncoming, At, FrameInv
    <3>2. CASE dec.incoming <= 0
      <4>1. video'.at = "idle"
        BY <2>3, <3>2 DEF CheckIncoming, Return
      <4> QED BY <1>4, <3>2, <4>1 DEF FrameInv, Judging, Limiting
    <3>3. CASE ~(dec.incoming <= 0)
      <4>1. video' = [video EXCEPT !.at = "round"] /\ decided' = decided
        BY <2>3, <3>3 DEF CheckIncoming, GoOn
      <4>2. video'.at = "round"
        BY <1>3, <4>1
      <4>3. dec'.enable /\ dec'.incoming > 0
        BY <1>3, <1>4, <3>1, <3>3
      <4> QED BY <4>1, <4>2, <4>3 DEF FrameInv, Judging
    <3> QED BY <3>2, <3>3
  <2>4. CASE RoundIncoming
    <3>1. video.at = "round" /\ video' = [video EXCEPT !.at = "target", !.rate = dec.incoming]
          /\ decided' = decided
      BY <2>4 DEF RoundIncoming, At
    <3>2. video'.at = "target" /\ video'.rate = dec.incoming
      BY <1>3, <3>1
    <3>3. dec.enable /\ dec.incoming > 0
      BY <1>3, <3>1 DEF FrameInv
    <3> QED BY <1>3, <3>1, <3>2, <3>3 DEF FrameInv, Judging
  <2>5. CASE CheckTarget
    <3>1. video.at = "target" /\ dec.enable /\ dec.incoming > 0 /\ video.rate = dec.incoming
      BY <1>3, <2>5 DEF CheckTarget, At, FrameInv
    <3>2. CASE dec.target = 0
      <4>1. video'.at = "idle"
        BY <2>5, <3>2 DEF CheckTarget, Return
      <4> QED BY <3>2, <4>1 DEF FrameInv, Judging, Limiting
    <3>3. CASE dec.target # 0
      <4>1. video' = [video EXCEPT !.at = "compare"] /\ decided' = decided
        BY <2>5, <3>3 DEF CheckTarget, GoOn
      <4>2. video'.at = "compare" /\ video'.rate = video.rate
        BY <1>3, <4>1
      <4> QED BY <1>3, <3>1, <3>3, <4>1, <4>2 DEF FrameInv, Judging
    <3> QED BY <3>2, <3>3
  <2>6. CASE CompareIncoming
    <3>1. /\ video.at = "compare" /\ dec.enable /\ dec.incoming > 0 /\ video.rate = dec.incoming
          /\ dec.target # 0
      BY <1>3, <2>6 DEF CompareIncoming, At, FrameInv, Judging
    <3>2. CASE video.rate > dec.target
      <4>1. video' = [video EXCEPT !.at = "overshoot"] /\ decided' = decided
        BY <2>6, <3>2 DEF CompareIncoming, GoOn
      <4>2. video'.at = "overshoot" /\ video'.rate = video.rate
        BY <1>3, <4>1
      <4>3. dec.target < dec.incoming
        BY <1>4, <3>1, <3>2
      <4> QED BY <1>3, <3>1, <4>1, <4>2, <4>3 DEF FrameInv, Judging
    <3>3. CASE ~(video.rate > dec.target)
      <4>1. video'.at = "idle"
        BY <2>6, <3>3 DEF CompareIncoming, Return
      <4>2. ~Limiting
        BY <1>4, <3>1, <3>3 DEF Limiting
      <4> QED BY <4>1, <4>2 DEF FrameInv, Judging
    <3> QED BY <3>2, <3>3
  <2> QED BY <2>1, <2>2, <2>3, <2>4, <2>5, <2>6
<1>6. RoundInv'
  BY <1>2, <1>3, <1>5 DEF RoundInv, Limiting, Round, RunOfDrops, Dropped, Over
<1> QED BY <1>2, <1>5, <1>6 DEF StarveInv

LEMMA OvershootStarveInv ==
  ASSUME TypeOK, StarveInv, ~Overlap, ComputeOvershoot
  PROVE  StarveInv'
<1> DEFINE signed == dec.overshoot + video.rate - dec.target
<1>1. DropFrame
  BY DEF DropFrame
<1>2. ClearedInv' /\ AloneInv' /\ (Limiting => Round) /\ (Limiting' <=> Limiting)
      /\ UNCHANGED <<dec.enable, dec.target, dec.incoming>>
  BY <1>1, DropFrameIsAlone
<1>3. /\ video \in [at : Places, rate : Rates, overshoot : Nat] /\ dec \in Atomics
      /\ dec.incoming \in Nat /\ dec.target \in Nat /\ dec.overshoot \in Int /\ dec.drops \in Nat
  BY FieldTypes DEF TypeOK
<1>4. /\ video.at = "overshoot" /\ decided' = decided
      /\ dec.enable /\ dec.incoming > 0 /\ video.rate = dec.incoming
      /\ dec.target # 0 /\ dec.target < dec.incoming
  BY DEF ComputeOvershoot, At, StarveInv, FrameInv, Judging
<1>5. Limiting /\ Round /\ signed = Over /\ signed \in Int
  BY <1>2, <1>3, <1>4 DEF Limiting, Over
<1>6. /\ dec' = IF signed < 0 THEN [dec EXCEPT !.overshoot = 0] ELSE dec
      /\ video' = [video EXCEPT !.overshoot = IF signed < 0 THEN 0 ELSE signed,
                     !.at = IF (IF signed < 0 THEN 0 ELSE signed) # 0
                               /\ 2 * (IF signed < 0 THEN 0 ELSE signed) < video.rate
                            THEN "keep" ELSE "divide"]
  BY DEF ComputeOvershoot
<1> HIDE DEF signed
<1>7. CASE signed < 0
  <2>1. /\ dec' = [dec EXCEPT !.overshoot = 0] /\ video'.at = "divide" /\ video'.overshoot = 0
        /\ video'.rate = video.rate
    BY <1>3, <1>6, <1>7
  <2>2. /\ dec'.overshoot = 0 /\ dec'.drops = dec.drops /\ dec'.keeps = dec.keeps
    BY <1>3, <2>1 DEF Atomics
  <2>3. dec.drops = 0 /\ dec.overshoot <= 0
    BY <1>3, <1>4, <1>5, <1>7 DEF Round, RunOfDrops, Over
  <2>4. Dropped' = Dropped
    BY <2>2, <2>3 DEF Dropped
  <2>5. Round'
    BY <1>2, <1>3, <1>4, <1>5, <2>2, <2>3, <2>4 DEF Round, RunOfDrops
  <2>6. FrameInv'
    BY <1>2, <1>4, <2>1 DEF FrameInv, Judging
  <2> QED BY <1>2, <2>5, <2>6 DEF StarveInv, RoundInv
<1>8. CASE ~(signed < 0)
  <2>1. /\ dec' = dec /\ video'.overshoot = signed /\ video'.rate = video.rate
        /\ video'.at = IF signed # 0 /\ 2 * signed < video.rate THEN "keep" ELSE "divide"
    BY <1>3, <1>6, <1>8
  <2>2. Round'
    BY <1>4, <1>5, <2>1 DEF Round, RunOfDrops, Dropped, Over
  <2>3. Over' = Over
    BY <2>1 DEF Over
  <2>4. FrameInv'
    BY <1>2, <1>3, <1>4, <1>5, <2>1, <2>3 DEF FrameInv, Judging
  <2> QED BY <1>2, <2>2, <2>4 DEF StarveInv, RoundInv
<1> QED BY <1>7, <1>8

LEMMA KeepStarveInv ==
  ASSUME TypeOK, StarveInv, ~Overlap, KeepRun
  PROVE  StarveInv'
<1> DEFINE run == video.rate \div video.overshoot
<1>1. DropFrame
  BY DEF DropFrame
<1>2. ClearedInv' /\ AloneInv' /\ (Limiting => Round)
  BY <1>1, DropFrameIsAlone
<1>3. /\ dec \in Atomics /\ decided \in Seq(BOOLEAN) /\ video.overshoot \in Nat \ {0}
      /\ dec.incoming \in Nat /\ dec.target \in Nat /\ dec.overshoot \in Int
      /\ dec.drops \in Nat /\ dec.keeps \in Nat /\ video.at = "keep"
  BY FieldTypes DEF TypeOK, KeepRun, At
<1>4. /\ dec.enable /\ dec.incoming > 0 /\ video.rate = dec.incoming
      /\ dec.target # 0 /\ dec.target < dec.incoming
      /\ video.overshoot = Over /\ 2 * Over < dec.incoming
  BY <1>3 DEF StarveInv, FrameInv, Judging
<1>5. Limiting /\ Round
  BY <1>2, <1>3, <1>4 DEF Limiting
<1>6. dec.drops = 0
  BY <1>3, <1>4, <1>5 DEF Round, RunOfDrops
<1>7. run \in Nat /\ 2 <= run
  BY <1>3, <1>4, HalfIsTwice, QuotientBound
<1>8. video'.at = "idle"
  <2>1. \E sent \in BOOLEAN : Return(sent)
    BY Zenon DEF KeepRun
  <2> QED BY <2>1 DEF Return
<1>9. FrameInv'
  BY <1>8 DEF FrameInv, Judging
<1>10. CASE dec.keeps >= run
  <2> DEFINE left == -((video.rate % video.overshoot) \div 3)
  <2>1. dec' = [dec EXCEPT !.keeps = 1, !.overshoot = left] /\ decided' = Decided(FALSE)
    BY <1>6, <1>10 DEF KeepRun, Return
  <2>2. left \in Int /\ left <= 0
    BY <1>3, <1>4, RestIsSmaller
  <2> HIDE DEF left
  <2>3. dec'.overshoot = left /\ dec'.drops = 0 /\ dec'.keeps = 1 /\ dec'.target = dec.target
    BY <1>3, <1>6, <2>1 DEF Atomics
  <2>4. Wet(decided, 0)
    BY <1>3, <1>5, <1>7, <1>10 DEF Round
  <2>5. Wet(decided', 1)
    <3>1. 0 \in Nat /\ 0 + 1 = 1 /\ 0 + 1 <= dec.incoming
      BY <1>3, <1>4
    <3>2. Wet(Decided(FALSE), 0 + 1)
      BY <1>3, <2>4, <3>1, DroppedIsWet
    <3> QED BY <2>1, <3>1, <3>2
  <2>6. Dropped' = 1
    BY <2>2, <2>3 DEF Dropped
  <2>7. Round'
    BY <1>3, <1>4, <2>2, <2>3, <2>5, <2>6 DEF Round, RunOfDrops
  <2> QED BY <1>2, <1>9, <2>7 DEF StarveInv, RoundInv
<1>11. CASE ~(dec.keeps >= run)
  <2>1. dec' = [dec EXCEPT !.keeps = @ + 1] /\ decided' = Decided(TRUE)
    BY <1>6, <1>11 DEF KeepRun, Return
  <2>2. dec'.overshoot = dec.overshoot /\ dec'.drops = 0 /\ dec'.target = dec.target
    BY <1>3, <1>6, <2>1 DEF Atomics
  <2>3. Wet(decided', 0) /\ decided' \in Seq(BOOLEAN)
    BY <1>3, <2>1, SentIsWet, DecidedType
  <2>4. Dropped' \in Nat
    BY <2>2 DEF Dropped
  <2>5. Wet(decided', Dropped')
    BY <2>3, <2>4, WetGrows
  <2>6. Round'
    BY <1>5, <2>2, <2>3, <2>5 DEF Round, RunOfDrops
  <2> QED BY <1>2, <1>9, <2>6 DEF StarveInv, RoundInv
<1> QED BY <1>10, <1>11

(* A run of dropped frames, or the frame after it.  The division by the    *)
(* target is of a target that is not zero: no request runs meanwhile.      *)
LEMMA DropStarveInv ==
  ASSUME TypeOK, StarveInv, ~Overlap, DropRun
  PROVE  StarveInv'
<1>1. DropFrame
  BY DEF DropFrame
<1>2. ClearedInv' /\ AloneInv' /\ (Limiting => Round)
  BY <1>1, DropFrameIsAlone
<1>3. /\ video \in [at : Places, rate : Rates, overshoot : Nat] /\ dec \in Atomics
      /\ decided \in Seq(BOOLEAN)
      /\ dec.incoming \in Nat /\ dec.target \in Nat /\ dec.overshoot \in Int
      /\ dec.drops \in Nat /\ dec.keeps \in Nat /\ video.at = "divide"
  BY FieldTypes DEF TypeOK, DropRun, At
<1>4. /\ dec.enable /\ dec.incoming > 0 /\ video.rate = dec.incoming
      /\ dec.target # 0 /\ dec.target < dec.incoming
      /\ video.overshoot = 0 \/ (video.overshoot = Over /\ 2 * Over >= dec.incoming)
  BY <1>3 DEF StarveInv, FrameInv, Judging
<1>5. Limiting /\ Round
  BY <1>2, <1>3, <1>4 DEF Limiting
<1> DEFINE longest == video.overshoot \div dec.target
<1>6. longest \in Nat /\ video.overshoot \in Nat /\ dec.target \in Nat \ {0}
  BY <1>3, <1>4, QuotientBound
<1>7. CASE dec.drops < longest
  <2>1. /\ dec' = [dec EXCEPT !.keeps = 0, !.drops = @ + 1] /\ decided' = Decided(FALSE)
        /\ video'.at = "idle"
    BY <1>4, <1>7 DEF DropRun, Divides, Return
  <2>2. /\ dec'.drops = dec.drops + 1 /\ dec'.keeps = 0 /\ dec'.overshoot = dec.overshoot
        /\ dec'.target = dec.target /\ dec'.incoming = dec.incoming
    BY <1>3, <2>1 DEF Atomics
  <2>3. longest # 0
    BY <1>3, <1>6, <1>7
  <2>4. video.overshoot # 0
    <3>1. 0 \div dec.target = 0
      BY <1>6
    <3> QED BY <2>3, <3>1
  <2>5. video.overshoot = Over /\ 2 * Over >= dec.incoming /\ dec.drops + 1 <= Over \div dec.target
    BY <1>3, <1>4, <1>6, <1>7, <2>4
  <2>6. Over' = Over /\ RunOfDrops'
    BY <2>2, <2>5 DEF Over, RunOfDrops
  <2>7. Dropped \in Nat /\ Dropped' = Dropped + 1
    BY <1>3, <2>2 DEF Dropped
  <2>8. Dropped + 1 <= dec.incoming
    <3> DEFINE more == dec.drops + 1
               wait == IF dec.overshoot <= 0 THEN 1 ELSE 0
    <3>1. Over \in Nat /\ Over \div dec.target \in Nat
      BY <1>6, <2>5
    <3>2. CASE dec.overshoot <= 0
      <4>1. Over + dec.target <= dec.incoming
        BY <1>3, <3>2 DEF Over
      <4>2. Over \div dec.target + 1 <= dec.incoming \div dec.target
        BY <1>3, <1>6, <3>1, <4>1, QuotientGrowsByOne
      <4>3. dec.incoming \div dec.target \in Nat /\ dec.incoming \div dec.target <= dec.incoming
        <5>1. dec.incoming \in Nat /\ dec.target \in Nat \ {0}
          BY <1>3, <1>6
        <5> QED BY <5>1, QuotientBound
      <4> QED BY <1>3, <2>5, <3>1, <3>2, <4>2, <4>3 DEF Dropped
    <3>3. CASE ~(dec.overshoot <= 0)
      <4>1. Over <= dec.incoming
        BY <1>3, <1>5, <3>3 DEF Over, Round
      <4>2. Over \div dec.target <= Over
        BY <1>6, <3>1, QuotientBound
      <4> QED BY <1>3, <2>5, <3>1, <3>3, <4>1, <4>2 DEF Dropped
    <3> QED BY <3>2, <3>3
  <2>9. Wet(decided', Dropped')
    BY <1>3, <1>5, <2>1, <2>7, <2>8, DroppedIsWet DEF Round
  <2>10. Round'
    BY <1>5, <2>2, <2>6, <2>9 DEF Round
  <2>11. FrameInv'
    BY <2>1 DEF FrameInv, Judging
  <2> QED BY <1>2, <2>10, <2>11 DEF StarveInv, RoundInv
<1>8. CASE ~(dec.drops < longest)
  <2>1. /\ dec' = [dec EXCEPT !.keeps = 0] /\ video' = [video EXCEPT !.at = "remainder"]
        /\ decided' = decided
    BY <1>4, <1>8 DEF DropRun, Divides, GoOn
  <2>2. /\ dec'.drops = dec.drops /\ dec'.keeps = 0 /\ dec'.overshoot = dec.overshoot
        /\ dec'.target = dec.target /\ dec'.incoming = dec.incoming /\ dec'.enable = dec.enable
        /\ video'.at = "remainder" /\ video'.rate = video.rate
    BY <1>3, <2>1 DEF Atomics
  <2>3. Round'
    BY <1>5, <2>1, <2>2 DEF Round, RunOfDrops, Dropped, Over
  <2>4. FrameInv'
    BY <1>4, <2>2 DEF FrameInv, Judging
  <2> QED BY <1>2, <2>3, <2>4 DEF StarveInv, RoundInv
<1> QED BY <1>7, <1>8

(* The frame that ends a run is sent.                                      *)
LEMMA EndDropStarveInv ==
  ASSUME TypeOK, StarveInv, ~Overlap, EndDropRun
  PROVE  StarveInv'
<1>1. DropFrame
  BY DEF DropFrame
<1>2. ClearedInv' /\ AloneInv' /\ (Limiting => Round)
  BY <1>1, DropFrameIsAlone
<1>3. /\ video \in [at : Places, rate : Rates, overshoot : Nat] /\ dec \in Atomics
      /\ decided \in Seq(BOOLEAN) /\ dec.incoming \in Nat /\ dec.target \in Nat
      /\ video.overshoot \in Nat /\ video.at = "remainder"
  BY FieldTypes DEF TypeOK, EndDropRun, At
<1>4. dec.target # 0
  BY <1>3 DEF StarveInv, FrameInv, Judging
<1> DEFINE rest == video.overshoot % dec.target
<1>5. rest \in Nat /\ rest < dec.target
  BY <1>3, <1>4, RestIsSmaller
<1>6. /\ dec' = [dec EXCEPT !.overshoot = rest, !.drops = 0] /\ decided' = Decided(TRUE)
      /\ video'.at = "idle"
  BY <1>4 DEF EndDropRun, Return
<1> HIDE DEF rest
<1>7. dec'.overshoot = rest /\ dec'.drops = 0 /\ dec'.target = dec.target
  BY <1>3, <1>6 DEF Atomics
<1>8. Wet(decided', 0) /\ decided' \in Seq(BOOLEAN)
  BY <1>3, <1>6, SentIsWet, DecidedType
<1>9. Dropped' \in Nat
  BY <1>7 DEF Dropped
<1>10. Wet(decided', Dropped')
  BY <1>8, <1>9, WetGrows
<1>11. Round'
  BY <1>5, <1>7, <1>8, <1>10 DEF Round, RunOfDrops
<1>12. FrameInv'
  BY <1>6 DEF FrameInv, Judging
<1> QED BY <1>2, <1>11, <1>12 DEF StarveInv, RoundInv

(* What every step keeps while calls do not overlap.                       *)
LEMMA StarveStep ==
  ASSUME TypeOK, StarveInv, ~Overlap, [Next]_vars
  PROVE  StarveInv'
<1>1. CASE LiveOutputReset
  BY <1>1, BeginStarveInv DEF LiveOutputReset, Writers
<1>2. CASE DropVideoFrameOff
  BY <1>2, BeginStarveInv DEF DropVideoFrameOff, Writers
<1>3. ASSUME NEW target \in Targets, DropVideoFrame(target) PROVE StarveInv'
  <2>1. Begin("pool", [enable |-> TRUE, incoming |-> fps, target |-> target])
        /\ step' = [step EXCEPT !["pool"] = "compareTarget"] /\ UNCHANGED <<dec, video>>
    BY <1>3 DEF DropVideoFrame
  <2> QED BY <2>1, BeginStarveInv DEF Writers
<1>4. CASE CompareRates
  BY <1>4, CompareStarveInv
<1>5. ASSUME NEW w \in Writers, Reset(w) PROVE StarveInv'
  BY <1>5, StoreStarveInv
<1>6. CASE SetIncomingFramerate \/ SetTargetFramerate \/ EnableTemporalDecimation
  BY <1>6, StoreStarveInv DEF Writers
<1>7. CASE SetVideoFPS \/ UNCHANGED vars
  <2>1. UNCHANGED <<dec, step, video, decided>>
    BY <1>7 DEF SetVideoFPS, vars
  <2> QED BY <2>1 DEF StarveInv, RoundInv, ClearedInv, AloneInv, FrameInv, Limiting, Round,
                      RunOfDrops, Dropped, Over, AtRest, Idle, Judging
<1>8. CASE DropFrame
  BY <1>8, CheckStarveInv, OvershootStarveInv, KeepStarveInv, DropStarveInv, EndDropStarveInv
     DEF DropFrame
<1> QED BY <1>1, <1>2, <1>3, <1>4, <1>5, <1>6, <1>7, <1>8 DEF Next

(* Where calls overlap no decision is recorded.                            *)
LEMMA NothingRecorded ==
  ASSUME Overlap, decided = <<>>, [Next]_vars
  PROVE  decided' = <<>>
<1>1. \A sent \in BOOLEAN : Decided(sent) = decided
  BY DEF Decided
<1>2. CASE DropFrame
  BY <1>1, <1>2 DEF DropFrame, Frame, CheckEnable, CheckIncoming, RoundIncoming, CheckTarget,
     CompareIncoming, ComputeOvershoot, KeepRun, DropRun, EndDropRun, Divides, GoOn, Return
<1>3. CASE ~DropFrame
  BY <1>3 DEF Next, vars, LiveOutputReset, DropVideoFrameOff, DropVideoFrame, Begin, CompareRates,
     Reset, ResetOvershoot, ResetDrops, ResetKeeps, ResetTarget, ResetIncoming, ResetEnable, Go,
     SetIncomingFramerate, SetTargetFramerate, EnableTemporalDecimation, SetVideoFPS
<1> QED BY <1>2, <1>3

(* The stream is never without a frame for longer than the quotient of the *)
(* rates: whatever the two rates are and however often they are set, a     *)
(* limiter that limits sends one of every incoming \div target + 1 frames. *)
THEOREM StreamNeverStarves == Spec => []NeverStarves
<1>1. Spec => []TypeOK
  BY TypeCorrect
<1>2. CASE ~Overlap
  <2>1. StarveInv /\ TypeOK /\ [Next]_vars => StarveInv'
    BY <1>2, StarveStep
  <2>2. TypeOK /\ StarveInv => NeverStarves
    BY InvNeverStarves
  <2> QED BY <1>1, <2>1, <2>2, InitStarveInv, PTL DEF Spec
<1>3. CASE Overlap
  <2> DEFINE Nothing == decided = <<>>
  <2>1. Init => Nothing
    BY DEF Init
  <2>2. Nothing /\ [Next]_vars => Nothing'
    BY <1>3, NothingRecorded
  <2>3. TypeOK /\ Nothing => NeverStarves
    <3> SUFFICES ASSUME TypeOK, decided = <<>>, Limiting,
                        Len(decided) >= dec.incoming \div dec.target + 1
                 PROVE  FALSE
      BY DEF NeverStarves
    <3>1. dec.target \in Nat \ {0} /\ dec.incoming \in Nat
      BY FieldTypes DEF Limiting
    <3>2. dec.incoming \div dec.target \in Nat
      BY <3>1, QuotientBound
    <3> QED BY <3>2
  <2> HIDE DEF Nothing
  <2> QED BY <1>1, <2>1, <2>2, <2>3, PTL DEF Spec
<1> QED BY <1>2, <1>3

-----------------------------------------------------------------------------
(* The rate over a second.  What the last k decisions sent, for every k:   *)
(* a new decision lengthens each of them by one.                           *)
LastOf(s, k) == SubSeq(s, Len(s) - k + 1, Len(s))
Sent(s, k) == Cardinality(SentOf(LastOf(s, k)))

LEMMA SentIsFinite ==
  ASSUME NEW s \in Seq(BOOLEAN)
  PROVE  IsFiniteSet(SentOf(s)) /\ Cardinality(SentOf(s)) \in Nat
<1>1. IsFiniteSet(1 .. Len(s))
  BY FS_Interval
<1>2. SentOf(s) \subseteq 1 .. Len(s)
  BY DEF SentOf
<1> QED BY <1>1, <1>2, FS_Subset, FS_CardinalityType

LEMMA OneMoreDecision ==
  ASSUME NEW s \in Seq(BOOLEAN), NEW sent \in BOOLEAN
  PROVE  Cardinality(SentOf(Append(s, sent))) =
           Cardinality(SentOf(s)) + (IF sent THEN 1 ELSE 0)
<1> DEFINE all == Append(s, sent)
<1>1. /\ Len(s) \in Nat /\ DOMAIN s = 1 .. Len(s) /\ DOMAIN all = 1 .. Len(s) + 1
      /\ all[Len(s) + 1] = sent /\ \A i \in 1 .. Len(s) : all[i] = s[i]
  OBVIOUS
<1> HIDE DEF all
<1>2. SentOf(all) = SentOf(s) \cup (IF sent THEN {Len(s) + 1} ELSE {})
  BY <1>1 DEF SentOf
<1>3. Len(s) + 1 \notin SentOf(s)
  BY <1>1 DEF SentOf
<1>4. IsFiniteSet(SentOf(s)) /\ Cardinality(SentOf(s)) \in Nat
  BY SentIsFinite
<1>5. CASE sent
  BY <1>2, <1>3, <1>4, <1>5, FS_AddElement DEF all
<1>6. CASE ~sent
  BY <1>2, <1>4, <1>6 DEF all
<1> QED BY <1>5, <1>6

LEMMA LastOfAppend ==
  ASSUME NEW s \in Seq(BOOLEAN), NEW sent \in BOOLEAN, NEW k \in 0 .. Len(s)
  PROVE  LastOf(Append(s, sent), k + 1) = Append(LastOf(s, k), sent)
<1> DEFINE all == Append(s, sent)
           left == LastOf(all, k + 1)
           last == LastOf(s, k)
<1>1. /\ Len(s) \in Nat /\ k \in Nat /\ all \in Seq(BOOLEAN) /\ Len(all) = Len(s) + 1
      /\ all[Len(s) + 1] = sent /\ \A i \in 1 .. Len(s) : all[i] = s[i]
  OBVIOUS
<1> HIDE DEF all
<1>2. /\ last \in Seq(BOOLEAN) /\ Len(last) = k
      /\ \A i \in 1 .. k : last[i] = s[Len(s) - k + i]
  BY <1>1 DEF LastOf
<1>3. /\ left \in Seq(BOOLEAN) /\ Len(left) = k + 1
      /\ \A i \in 1 .. k + 1 : left[i] = all[Len(s) - k + i]
  BY <1>1 DEF LastOf
<1> HIDE DEF left, last
<1>4. \A i \in 1 .. k : left[i] = last[i]
  <2> TAKE i \in 1 .. k
  <2>1. i \in 1 .. k + 1 /\ Len(s) - k + i \in 1 .. Len(s)
    BY <1>1
  <2> QED BY <1>1, <1>2, <1>3, <2>1
<1>5. left[k + 1] = sent
  BY <1>1, <1>3
<1>6. left = Append(last, sent)
  BY <1>1, <1>2, <1>3, <1>4, <1>5
<1> QED BY <1>6 DEF left, last, all

LEMMA LastOfTail ==
  ASSUME NEW s \in Seq(BOOLEAN), s # <<>>, NEW k \in 0 .. Len(s) - 1
  PROVE  LastOf(Tail(s), k) = LastOf(s, k)
<1> DEFINE t == Tail(s)
           left == LastOf(t, k)
           right == LastOf(s, k)
<1>1. /\ Len(s) \in Nat \ {0} /\ k \in Nat /\ t \in Seq(BOOLEAN) /\ Len(t) = Len(s) - 1
      /\ \A i \in 1 .. Len(s) - 1 : t[i] = s[i + 1]
  OBVIOUS
<1> HIDE DEF t
<1>2. /\ left \in Seq(BOOLEAN) /\ Len(left) = k
      /\ \A i \in 1 .. k : left[i] = t[Len(t) - k + i]
  BY <1>1 DEF LastOf
<1>3. /\ right \in Seq(BOOLEAN) /\ Len(right) = k
      /\ \A i \in 1 .. k : right[i] = s[Len(s) - k + i]
  BY <1>1 DEF LastOf
<1> HIDE DEF left, right
<1>4. \A i \in 1 .. k : left[i] = right[i]
  <2> TAKE i \in 1 .. k
  <2>1. Len(t) - k + i \in 1 .. Len(s) - 1 /\ (Len(t) - k + i) + 1 = Len(s) - k + i
    BY <1>1
  <2> QED BY <1>1, <1>2, <1>3, <2>1
<1>5. left = right
  BY <1>1, <1>2, <1>3, <1>4
<1> QED BY <1>5 DEF left, right, t

LEMMA NothingSent == ASSUME NEW s \in Seq(BOOLEAN) PROVE Sent(s, 0) = 0
<1>1. LastOf(s, 0) = <<>>
  BY DEF LastOf
<1>2. SentOf(<<>>) = {}
  BY DEF SentOf
<1> QED BY <1>1, <1>2, FS_EmptySet DEF Sent

(* The last k + 1 decisions are the new one and the k before it.           *)
LEMMA SentGrows ==
  ASSUME decided \in Seq(BOOLEAN), dec.incoming \in Nat, ~Overlap, NEW sent \in BOOLEAN,
         NEW k \in 1 .. Len(Decided(sent))
  PROVE  /\ k - 1 \in 0 .. Len(decided)
         /\ Sent(Decided(sent), k) = Sent(decided, k - 1) + (IF sent THEN 1 ELSE 0)
         /\ Sent(decided, k - 1) \in Nat
<1> DEFINE all == Append(decided, sent)
<1>1. all \in Seq(BOOLEAN) /\ Len(all) = Len(decided) + 1 /\ Len(decided) \in Nat /\ all # <<>>
  <2>1. all \in Seq(BOOLEAN) /\ Len(all) = Len(decided) + 1 /\ Len(decided) \in Nat
    OBVIOUS
  <2>2. Len(<<>>) = 0
    OBVIOUS
  <2> QED BY <2>1, <2>2
<1> HIDE DEF all
<1>2. Decided(sent) = all \/ (Decided(sent) = Tail(all) /\ Len(Decided(sent)) = Len(all) - 1)
  BY <1>1 DEF Decided, all
<1>3. k \in 1 .. Len(all) /\ LastOf(Decided(sent), k) = LastOf(all, k)
  <2>1. CASE Decided(sent) = all
    BY <2>1
  <2>2. CASE Decided(sent) = Tail(all) /\ Len(Decided(sent)) = Len(all) - 1
    <3>1. k \in 0 .. Len(all) - 1 /\ k \in 1 .. Len(all)
      BY <1>1, <2>2
    <3> QED BY <1>1, <2>2, <3>1, LastOfTail
  <2> QED BY <1>2, <2>1, <2>2
<1>4. k - 1 \in 0 .. Len(decided) /\ (k - 1) + 1 = k
  BY <1>1, <1>3
<1>5. LastOf(all, k) = Append(LastOf(decided, k - 1), sent)
  BY <1>4, LastOfAppend DEF all
<1>6. LastOf(decided, k - 1) \in Seq(BOOLEAN)
  BY <1>1, <1>4 DEF LastOf
<1>7. Sent(decided, k - 1) \in Nat
  BY <1>6, SentIsFinite DEF Sent
<1>8. Cardinality(SentOf(LastOf(all, k))) = Sent(decided, k - 1) + (IF sent THEN 1 ELSE 0)
  BY <1>5, <1>6, OneMoreDecision DEF Sent
<1> QED BY <1>3, <1>4, <1>7, <1>8 DEF Sent

(* More of quotients.                                                      *)
LEMMA QuotientTimes ==
  ASSUME NEW a \in Nat, NEW c \in Nat \ {0}, NEW n \in Nat, n <= a \div c
  PROVE  n * c <= a
<1>1. a \div c \in Nat /\ (a \div c) * c <= a
  OBVIOUS
<1>2. n * c <= (a \div c) * c
  BY <1>1
<1> QED BY <1>1, <1>2

LEMMA QuotientAndRest ==
  ASSUME NEW a \in Nat, NEW c \in Nat \ {0}
  PROVE  a = c * (a \div c) + (a % c)
OBVIOUS

LEMMA QuotientShrinks ==
  ASSUME NEW a \in Nat, NEW b \in Nat \ {0}, NEW c \in Nat \ {0}, b <= c
  PROVE  a \div c <= a \div b
<1> DEFINE q == a \div c
           r == a \div b
<1>1. q \in Nat /\ q * c <= a
  OBVIOUS
<1>2. r \in Nat /\ a < (r + 1) * b
  OBVIOUS
<1> HIDE DEF q, r
<1>3. q * b <= q * c
  BY <1>1
<1>4. q * b < (r + 1) * b
  BY <1>1, <1>2, <1>3
<1>5. q < r + 1
  <2> SUFFICES ASSUME q >= r + 1 PROVE FALSE
    BY <1>1, <1>2
  <2>1. (r + 1) * b <= q * b
    BY <1>1, <1>2
  <2> QED BY <1>1, <1>2, <1>4, <2>1
<1>6. q <= r
  BY <1>1, <1>2, <1>5
<1> QED BY <1>6 DEF q, r

LEMMA OneMoreTimes ==
  ASSUME NEW a \in Int, NEW b \in Int
  PROVE  a * (b + 1) = a * b + a /\ (b + 1) * a = b * a + a
OBVIOUS

LEMMA TimesGrows ==
  ASSUME NEW a \in Nat, NEW b \in Nat, NEW c \in Nat, a <= b
  PROVE  a * c <= b * c
OBVIOUS

-----------------------------------------------------------------------------
(* At a target of at most half the incoming rate frames are dropped in     *)
(* runs, and the remainder of one run is the start of the next, so that    *)
(* nothing is lost: Phase is how far a round has come, and what the last k *)
(* decisions sent is what they should, but for the phase then and now.     *)
Phase == dec.overshoot - dec.drops * dec.target
Balance(k) == dec.incoming * Sent(decided, k) - k * dec.target
DropRound ==
  /\ dec.overshoot \in 0 .. dec.target - 1
  /\ dec.drops <= Over \div dec.target
  /\ \A k \in 0 .. Len(decided) : Balance(k) - Phase \in 1 - dec.target .. Excess

(* Above half, one frame is dropped after each run of kept ones, and the   *)
(* runs are between the shortest and the longest.                          *)
KeepRound ==
  /\ dec.drops = 0
  /\ dec.overshoot \in -((Excess - 1) \div 3) .. 0
  /\ dec.keeps \in 1 .. dec.incoming \div Over
  /\ \A k \in 0 .. Len(decided) :
       LET dropped == k - Sent(decided, k)
       IN  /\ dropped \in Nat
           /\ k <= dropped * LongestRun + dec.keeps - 1
           /\ dropped = 0 \/ dropped * ShortestRun <= k - dec.keeps + ShortestRun

Halved == 2 * dec.target <= dec.incoming
SecondRound == IF Halved THEN DropRound ELSE KeepRound
SecondInv == Limiting /\ (\A w \in Writers : AtRest(w)) => SecondRound

(* What DropFrame goes by when it chooses a branch and when it ends a run. *)
BranchInv ==
  Limiting /\ video.at \in {"keep", "divide", "remainder"} =>
    /\ video.overshoot = Over /\ (video.at = "keep" <=> 2 * Over < dec.incoming)
    /\ video.at = "remainder" => dec.drops = Over \div dec.target

PaceInv == SecondInv /\ BranchInv

LEMMA LimitingTypes ==
  ASSUME TypeOK, Limiting
  PROVE  /\ dec \in Atomics /\ decided \in Seq(BOOLEAN) /\ Len(decided) \in Nat
         /\ dec.incoming \in Nat \ {0} /\ dec.target \in Nat \ {0} /\ dec.overshoot \in Int
         /\ dec.drops \in Nat /\ dec.keeps \in Nat
         /\ Excess \in Nat \ {0} /\ Excess < dec.incoming /\ Over = dec.overshoot + Excess
         /\ dec.target = dec.incoming - Excess
<1>1. /\ dec \in Atomics /\ decided \in Seq(BOOLEAN) /\ Len(decided) \in Nat
      /\ dec.incoming \in Nat \ {0} /\ dec.target \in Nat \ {0} /\ dec.overshoot \in Int
      /\ dec.drops \in Nat /\ dec.keeps \in Nat /\ dec.target < dec.incoming
  BY FieldTypes DEF TypeOK, Limiting
<1> QED BY <1>1 DEF Excess, Over

LEMMA PhaseArithmetic ==
  ASSUME NEW o \in Int, NEW excess \in Int, NEW t \in Int, NEW p \in Nat,
         o \in 0 .. t - 1, p <= o + excess
  PROVE  o - p \in Int /\ -(o - p) \in 1 - t .. excess
OBVIOUS

LEMMA RunArithmetic ==
  ASSUME NEW o \in Int, NEW excess \in Nat \ {0}, o \in -((excess - 1) \div 3) .. 0
  PROVE  /\ excess - (excess - 1) \div 3 \in Nat \ {0}
         /\ excess - (excess - 1) \div 3 <= o + excess
         /\ o + excess <= excess /\ o + excess \in Nat \ {0}
OBVIOUS

LEMMA PhaseBounds ==
  ASSUME TypeOK, Limiting, dec.overshoot \in 0 .. dec.target - 1,
         dec.drops <= Over \div dec.target
  PROVE  Phase \in Int /\ -Phase \in 1 - dec.target .. Excess
<1>1. Over \in Nat
  BY LimitingTypes
<1>2. dec.drops * dec.target <= Over
  BY <1>1, LimitingTypes, QuotientTimes
<1>3. dec.drops * dec.target \in Nat
  BY LimitingTypes
<1>4. /\ dec.overshoot \in Int /\ Excess \in Int /\ dec.target \in Int
      /\ dec.drops * dec.target <= dec.overshoot + Excess
  BY <1>2, LimitingTypes
<1> QED BY <1>3, <1>4, PhaseArithmetic DEF Phase

LEMMA KeepBounds ==
  ASSUME TypeOK, Limiting, ~Halved, dec.overshoot \in -((Excess - 1) \div 3) .. 0
  PROVE  /\ Over \in Nat \ {0} /\ Over <= Excess /\ 2 * Over < dec.incoming
         /\ ShortestRun \in Nat \ {0} /\ LongestRun \in Nat \ {0}
         /\ dec.incoming \div Over \in Nat
         /\ 2 <= dec.incoming \div Over
         /\ ShortestRun <= dec.incoming \div Over /\ dec.incoming \div Over <= LongestRun
<1> DEFINE least == Excess - (Excess - 1) \div 3
<1>1. least \in Nat \ {0} /\ least <= Over /\ Over <= Excess /\ Over \in Nat \ {0}
  BY LimitingTypes, RunArithmetic
<1>2. 2 * Over < dec.incoming
  BY <1>1, LimitingTypes DEF Halved
<1>3. dec.incoming \in Nat /\ Excess \in Nat \ {0}
  BY LimitingTypes
<1>4. /\ dec.incoming \div Excess <= dec.incoming \div Over
      /\ dec.incoming \div Over <= dec.incoming \div least
  BY <1>1, <1>3, QuotientShrinks
<1>5. 2 <= dec.incoming \div Over
  BY <1>1, <1>2, <1>3, HalfIsTwice
<1>6. 1 <= dec.incoming \div Excess
  <2>1. 0 + Excess <= dec.incoming
    BY LimitingTypes
  <2>2. 0 \div Excess + 1 <= dec.incoming \div Excess /\ 0 \div Excess = 0
    BY <1>3, <2>1, QuotientGrowsByOne
  <2> QED BY <2>2
<1>7. /\ dec.incoming \div Excess \in Nat /\ dec.incoming \div Over \in Nat
      /\ dec.incoming \div least \in Nat
  BY <1>1, <1>3, QuotientBound
<1> QED BY <1>1, <1>2, <1>4, <1>5, <1>6, <1>7 DEF ShortestRun, LongestRun

LEMMA BalanceArithmetic ==
  ASSUME NEW a \in Int, NEW t \in Int, NEW s \in Int, NEW j \in Int, NEW phase \in Int
  PROVE  /\ a * (s + 1) - (j + 1) * t - (phase + a - t) = a * s - j * t - phase
         /\ a * s - (j + 1) * t - (phase - t) = a * s - j * t - phase
<1>1. a * (s + 1) = a * s + a /\ (j + 1) * t = j * t + t
  BY OneMoreTimes
<1>2. a * s \in Int /\ j * t \in Int
  OBVIOUS
<1> QED BY <1>1, <1>2

LEMMA KeepArithmetic ==
  ASSUME NEW j \in Nat, NEW d \in Nat, NEW keeps \in Nat \ {0},
         NEW longest \in Nat, NEW shortest \in Nat,
         j <= d * longest + keeps - 1,
         d = 0 \/ d * shortest <= j - keeps + shortest
  PROVE  /\ j + 1 <= d * longest + (keeps + 1) - 1
         /\ d = 0 \/ d * shortest <= j + 1 - (keeps + 1) + shortest
         /\ keeps <= longest => j + 1 <= (d + 1) * longest + 1 - 1
         /\ shortest <= keeps => (d + 1) * shortest <= j + 1 - 1 + shortest
<1>1. /\ (d + 1) * longest = d * longest + longest /\ d * longest \in Nat
      /\ (d + 1) * shortest = d * shortest + shortest /\ d * shortest \in Nat
  BY OneMoreTimes
<1>2. d = 0 => d * shortest = 0
  OBVIOUS
<1> QED BY <1>1, <1>2

(* A decision goes on with the round it falls into.                        *)
DropGoesOn(sent) ==
  /\ decided' = Decided(sent) /\ UNCHANGED <<dec.target, dec.incoming>>
  /\ dec'.overshoot \in 0 .. dec.target - 1
  /\ dec'.drops \in Nat /\ dec'.drops <= Over' \div dec.target
  /\ Phase' = Phase + (IF sent THEN dec.incoming ELSE 0) - dec.target

KeepGoesOn(sent) ==
  /\ decided' = Decided(sent) /\ UNCHANGED <<dec.target, dec.incoming>>
  /\ dec'.drops = 0 /\ dec'.overshoot \in -((Excess - 1) \div 3) .. 0
  /\ IF sent THEN dec'.keeps = dec.keeps + 1
     ELSE dec'.keeps = 1 /\ dec.keeps = dec.incoming \div Over
  /\ dec'.keeps <= dec.incoming \div Over'

LEMMA DropRoundGrows ==
  ASSUME TypeOK, Limiting, ~Overlap, DropRound, NEW sent \in BOOLEAN, DropGoesOn(sent)
  PROVE  DropRound'
<1>0. /\ decided' = Decided(sent) /\ UNCHANGED <<dec.target, dec.incoming>>
      /\ dec'.overshoot \in 0 .. dec.target - 1
      /\ dec'.drops \in Nat /\ dec'.drops <= Over' \div dec.target
      /\ Phase' = Phase + (IF sent THEN dec.incoming ELSE 0) - dec.target
  BY DEF DropGoesOn
<1>1. /\ dec.incoming \in Int /\ dec.target \in Nat \ {0} /\ Excess \in Nat
      /\ Excess = dec.incoming - dec.target /\ decided \in Seq(BOOLEAN) /\ dec.incoming \in Nat
  BY LimitingTypes
<1>2. Excess' = Excess /\ Over' = dec'.overshoot + Excess /\ Over' \in Nat
  BY <1>0, <1>1 DEF Excess, Over
<1>3. dec'.drops * dec.target <= dec'.overshoot + Excess /\ dec'.drops * dec.target \in Nat
  <2>1. dec'.drops * dec.target <= Over'
    BY <1>0, <1>1, <1>2, QuotientTimes
  <2>2. dec'.drops * dec.target \in Nat
    BY <1>0, <1>1
  <2> QED BY <1>2, <2>1, <2>2
<1>4. Phase' \in Int /\ -Phase' \in 1 - dec.target .. Excess
  <2>1. Phase' = dec'.overshoot - dec'.drops * dec.target
    BY <1>0 DEF Phase
  <2>2. dec'.overshoot \in Int /\ Excess \in Int /\ dec.target \in Int
    BY <1>0, <1>1
  <2> QED BY <1>0, <1>3, <2>1, <2>2, PhaseArithmetic
<1>5. Phase \in Int
  BY LimitingTypes DEF Phase
<1>6. decided' \in Seq(BOOLEAN)
  BY <1>0, <1>1, DecidedType
<1>7. ASSUME NEW k \in 0 .. Len(decided')
      PROVE  (Balance(k) - Phase)' \in 1 - dec.target .. Excess
  <2>1. Balance(k)' = dec.incoming * Sent(decided', k) - k * dec.target
    BY <1>0 DEF Balance
  <2>2. CASE k = 0
    <3>1. dec.incoming * Sent(decided', k) = 0 /\ k * dec.target = 0
      BY <1>1, <1>6, <2>2, NothingSent
    <3> QED BY <1>4, <2>1, <3>1
  <2>3. CASE k # 0
    <3> DEFINE j == k - 1
    <3>1. k \in 1 .. Len(decided')
      BY <1>6, <2>3
    <3>2. /\ j \in 0 .. Len(decided) /\ Sent(decided, j) \in Nat
          /\ Sent(decided', k) = Sent(decided, j) + (IF sent THEN 1 ELSE 0)
      BY <1>0, <1>1, <3>1, SentGrows
    <3>3. j \in Int /\ k = j + 1
      OBVIOUS
    <3> HIDE DEF j
    <3>4. Balance(j) - Phase \in 1 - dec.target .. Excess
      BY <3>2 DEF DropRound
    <3>5. Balance(k)' - Phase' = Balance(j) - Phase
      <4> DEFINE a == dec.incoming
                 t == dec.target
                 s == Sent(decided, j)
      <4>1. a \in Int /\ t \in Int /\ s \in Int /\ Phase \in Int /\ j \in Int
        BY <1>1, <1>5, <3>2, <3>3
      <4>2. Balance(j) = a * s - j * t /\ Balance(k)' = a * Sent(decided', k) - (j + 1) * t
        BY <2>1, <3>3 DEF Balance
      <4>3. Sent(decided', k) = s + (IF sent THEN 1 ELSE 0)
            /\ Phase' = Phase + (IF sent THEN a ELSE 0) - t
        BY <1>0, <3>2
      <4> HIDE DEF a, t, s
      <4>4. /\ a * (s + 1) - (j + 1) * t - (Phase + a - t) = a * s - j * t - Phase
            /\ a * s - (j + 1) * t - (Phase - t) = a * s - j * t - Phase
        BY <4>1, BalanceArithmetic
      <4>5. CASE sent
        <5>1. Sent(decided', k) = s + 1 /\ Phase' = Phase + a - t
          BY <4>3, <4>5
        <5> QED BY <4>2, <4>4, <5>1
      <4>6. CASE ~sent
        <5>1. Sent(decided', k) = s /\ Phase' = Phase - t
          BY <4>1, <4>3, <4>6
        <5> QED BY <4>2, <4>4, <5>1
      <4> QED BY <4>5, <4>6
    <3> QED BY <3>4, <3>5
  <2> QED BY <2>2, <2>3
<1> QED BY <1>0, <1>2, <1>7 DEF DropRound

LEMMA KeepRoundGrows ==
  ASSUME TypeOK, Limiting, ~Overlap, ~Halved, KeepRound, NEW sent \in BOOLEAN, KeepGoesOn(sent)
  PROVE  KeepRound'
<1>0. /\ decided' = Decided(sent) /\ UNCHANGED <<dec.target, dec.incoming>>
      /\ dec'.drops = 0 /\ dec'.overshoot \in -((Excess - 1) \div 3) .. 0
      /\ IF sent THEN dec'.keeps = dec.keeps + 1
         ELSE dec'.keeps = 1 /\ dec.keeps = dec.incoming \div Over
      /\ dec'.keeps <= dec.incoming \div Over'
  BY DEF KeepGoesOn
<1>1. /\ dec.incoming \in Nat /\ decided \in Seq(BOOLEAN) /\ dec.keeps \in Nat \ {0}
      /\ dec'.keeps \in Nat \ {0}
  <2>1. dec.incoming \in Nat /\ decided \in Seq(BOOLEAN) /\ dec.keeps \in Nat
    BY LimitingTypes
  <2>2. dec.keeps \in 1 .. dec.incoming \div Over
    BY DEF KeepRound
  <2> QED BY <1>0, <2>1, <2>2
<1>2. /\ ShortestRun \in Nat \ {0} /\ LongestRun \in Nat \ {0} /\ dec.incoming \div Over \in Nat
      /\ ShortestRun <= dec.incoming \div Over /\ dec.incoming \div Over <= LongestRun
  BY KeepBounds DEF KeepRound
<1>3. Excess' = Excess /\ ShortestRun' = ShortestRun /\ LongestRun' = LongestRun
  BY <1>0 DEF Excess, ShortestRun, LongestRun
<1>4. decided' \in Seq(BOOLEAN)
  BY <1>0, <1>1, DecidedType
<1>5. ASSUME NEW k \in 0 .. Len(decided')
      PROVE  /\ k - Sent(decided', k) \in Nat
             /\ k <= (k - Sent(decided', k)) * LongestRun + dec'.keeps - 1
             /\ \/ k - Sent(decided', k) = 0
                \/ (k - Sent(decided', k)) * ShortestRun <= k - dec'.keeps + ShortestRun
  <2>1. CASE k = 0
    <3>1. k - Sent(decided', k) = 0 /\ 0 * LongestRun = 0
      BY <1>2, <1>4, <2>1, NothingSent
    <3> QED BY <1>1, <2>1, <3>1
  <2>2. CASE k # 0
    <3> DEFINE j == k - 1
               d == j - Sent(decided, j)
               now == k - Sent(decided', k)
               keeps == dec.keeps
               keeps1 == dec'.keeps
    <3>1. k \in 1 .. Len(decided')
      BY <1>4, <2>2
    <3>2. /\ j \in 0 .. Len(decided) /\ Sent(decided, j) \in Nat
          /\ Sent(decided', k) = Sent(decided, j) + (IF sent THEN 1 ELSE 0)
      BY <1>0, <1>1, <3>1, SentGrows
    <3>3. j \in Nat /\ k = j + 1
      BY <3>1
    <3>4. /\ d \in Nat /\ j <= d * LongestRun + dec.keeps - 1
          /\ d = 0 \/ d * ShortestRun <= j - dec.keeps + ShortestRun
      BY <3>2 DEF KeepRound
    <3>7. /\ j + 1 <= d * LongestRun + (keeps + 1) - 1
          /\ d = 0 \/ d * ShortestRun <= j + 1 - (keeps + 1) + ShortestRun
          /\ keeps <= LongestRun => j + 1 <= (d + 1) * LongestRun + 1 - 1
          /\ ShortestRun <= keeps => (d + 1) * ShortestRun <= j + 1 - 1 + ShortestRun
      <4>1. keeps \in Nat \ {0} /\ LongestRun \in Nat /\ ShortestRun \in Nat
        BY <1>1, <1>2
      <4>2. /\ d \in Nat /\ j \in Nat /\ j <= d * LongestRun + keeps - 1
            /\ d = 0 \/ d * ShortestRun <= j - keeps + ShortestRun
        BY <3>3, <3>4
      <4> HIDE DEF d, j, keeps
      <4> QED BY <4>1, <4>2, KeepArithmetic
    <3>5. CASE sent
      <4>1. now = d /\ keeps1 = keeps + 1
        BY <1>0, <3>2, <3>3, <3>5
      <4> HIDE DEF d, j, now, keeps, keeps1
      <4>2. /\ k <= now * LongestRun + keeps1 - 1
            /\ now = 0 \/ now * ShortestRun <= k - keeps1 + ShortestRun
        BY <3>3, <3>7, <4>1
      <4> QED BY <3>4, <4>1, <4>2 DEF now, keeps1
    <3>6. CASE ~sent
      <4>1. now = d + 1 /\ keeps1 = 1
        BY <1>0, <3>2, <3>3, <3>6
      <4>2. keeps <= LongestRun /\ ShortestRun <= keeps
        BY <1>0, <1>2, <3>6
      <4> HIDE DEF d, j, now, keeps, keeps1
      <4>3. /\ k <= now * LongestRun + keeps1 - 1
            /\ now * ShortestRun <= k - keeps1 + ShortestRun
        BY <3>3, <3>7, <4>1, <4>2
      <4>4. now \in Nat
        BY <3>4, <4>1
      <4> QED BY <4>3, <4>4 DEF now, keeps1
    <3> QED BY <3>5, <3>6
  <2> QED BY <2>1, <2>2
<1>6. dec'.keeps \in 1 .. (dec.incoming \div Over)'
  BY <1>0, <1>1, KeepBounds
<1> QED BY <1>0, <1>3, <1>5, <1>6 DEF KeepRound

-----------------------------------------------------------------------------
(* What the counters are in a round, whatever was decided.                 *)
Counters ==
  IF Halved
  THEN dec.overshoot \in 0 .. dec.target - 1 /\ dec.drops <= Over \div dec.target
  ELSE /\ dec.drops = 0 /\ dec.overshoot \in -((Excess - 1) \div 3) .. 0
       /\ dec.keeps \in 1 .. dec.incoming \div Over

LEMMA RoundCounters == SecondRound => Counters
BY DEF SecondRound, Counters, DropRound, KeepRound

LEMMA FreshCounters ==
  TypeOK /\ Limiting /\ dec.overshoot = 0 /\ dec.drops = 0 /\ dec.keeps = 1 => Counters
<1> SUFFICES ASSUME TypeOK, Limiting, dec.overshoot = 0, dec.drops = 0, dec.keeps = 1
             PROVE  Counters
  OBVIOUS
<1>1. /\ dec.target \in Nat \ {0} /\ Excess \in Nat \ {0} /\ Over = Excess
      /\ (Excess - 1) \div 3 \in Nat
  <2>1. dec.target \in Nat \ {0} /\ Excess \in Nat \ {0} /\ Over = 0 + Excess
    BY LimitingTypes
  <2> QED BY <2>1
<1>2. CASE Halved
  <2>1. Over \div dec.target \in Nat
    BY <1>1, QuotientBound
  <2> QED BY <1>1, <1>2, <2>1 DEF Counters
<1>3. CASE ~Halved
  <2>1. dec.overshoot \in -((Excess - 1) \div 3) .. 0
    BY <1>1
  <2>2. dec.incoming \div Over \in Nat /\ 2 <= dec.incoming \div Over
    BY <1>3, <2>1, KeepBounds
  <2> QED BY <1>3, <2>1, <2>2 DEF Counters
<1> QED BY <1>2, <1>3

(* Before the first decision a round asks for no more.                     *)
LEMMA NothingDecided ==
  TypeOK /\ Limiting /\ decided = <<>> /\ Counters => SecondRound
<1> SUFFICES ASSUME TypeOK, Limiting, decided = <<>>, Counters PROVE SecondRound
  OBVIOUS
<1>1. /\ dec.incoming \in Nat \ {0} /\ dec.target \in Nat \ {0} /\ dec.keeps \in Nat
      /\ Excess \in Nat
  BY LimitingTypes
<1>2. Len(decided) = 0 /\ Sent(decided, 0) = 0 /\ \A k \in 0 .. Len(decided) : k = 0
  <2>1. decided \in Seq(BOOLEAN)
    BY EmptySequence
  <2>2. Len(decided) = 0
    OBVIOUS
  <2>3. Sent(decided, 0) = 0
    BY <2>1, NothingSent
  <2> QED BY <2>2, <2>3
<1>3. CASE Halved
  <2>1. dec.overshoot \in 0 .. dec.target - 1 /\ dec.drops <= Over \div dec.target
    BY <1>3 DEF Counters
  <2>2. Phase \in Int /\ -Phase \in 1 - dec.target .. Excess
    BY <2>1, PhaseBounds
  <2>3. Balance(0) = 0
    BY <1>1, <1>2 DEF Balance
  <2>4. Balance(0) - Phase \in 1 - dec.target .. Excess
    BY <2>2, <2>3
  <2> QED BY <1>2, <1>3, <2>1, <2>4 DEF SecondRound, DropRound
<1>4. CASE ~Halved
  <2>1. /\ dec.drops = 0 /\ dec.overshoot \in -((Excess - 1) \div 3) .. 0
        /\ dec.keeps \in 1 .. dec.incoming \div Over
    BY <1>4 DEF Counters
  <2>2. LongestRun \in Nat
    BY <1>4, <2>1, KeepBounds
  <2>3. 0 * LongestRun = 0 /\ 0 - Sent(decided, 0) = 0 /\ 0 <= 0 + dec.keeps - 1
    BY <1>1, <1>2, <2>1, <2>2
  <2> QED BY <1>2, <1>4, <2>1, <2>3 DEF SecondRound, KeepRound
<1> QED BY <1>3, <1>4

LEMMA NothingDecidedNext ==
  ASSUME TypeOK', Limiting', (decided = <<>>)', Counters' PROVE SecondRound'
BY NothingDecided, PTL

LEMMA FreshCountersNext ==
  ASSUME TypeOK', Limiting', (dec.overshoot = 0)', (dec.drops = 0)', (dec.keeps = 1)'
  PROVE  Counters'
BY FreshCounters, PTL

LEMMA SameRound ==
  ASSUME UNCHANGED <<dec, decided>>, SecondRound PROVE SecondRound'
BY DEF SecondRound, DropRound, KeepRound, Halved, Over, Excess, Phase, Balance, ShortestRun,
       LongestRun

LEMMA InitPaceInv == Init => PaceInv
<1> SUFFICES ASSUME Init PROVE PaceInv
  OBVIOUS
<1>1. ~Limiting
  BY DEF Init, Limiting
<1> QED BY <1>1 DEF PaceInv, SecondInv, BranchInv

LEMMA BeginPaceInv ==
  ASSUME TypeOK, TypeOK', PaceInv, ~Overlap, NEW w \in Writers, NEW setting, Begin(w, setting),
         UNCHANGED <<dec, video>>
  PROVE  PaceInv'
<1>1. Quiet /\ video.at = "idle" /\ decided' = <<>>
  BY DEF Begin
<1>2. \A v \in Writers : AtRest(v)
  BY <1>1 DEF Quiet, Idle, AtRest
<1>3. SecondInv'
  <2> SUFFICES ASSUME Limiting' PROVE SecondRound'
    BY DEF SecondInv
  <2>1. Limiting
    BY DEF Limiting
  <2>2. Counters
    BY <1>2, <2>1, RoundCounters DEF PaceInv, SecondInv
  <2>3. Counters'
    BY <2>2 DEF Counters, Halved, Over, Excess
  <2> QED BY <1>1, <2>3, NothingDecidedNext
<1>4. BranchInv'
  BY <1>1 DEF BranchInv
<1> QED BY <1>3, <1>4 DEF PaceInv

LEMMA ComparePaceInv ==
  ASSUME TypeOK, StarveInv, PaceInv, CompareRates PROVE PaceInv'
<1>1. /\ step["pool"] \in {"compareTarget", "compareIncoming"}
      /\ UNCHANGED <<dec, video, decided>>
  BY DEF CompareRates, ResetIfNeed
<1>2. ~Idle("pool") /\ Idle("ui")
  BY <1>1 DEF StarveInv, AloneInv, Idle, Writers
<1>3. \A w \in Writers : AtRest(w)
  BY <1>1, <1>2 DEF AtRest, Idle, Writers
<1>4. Limiting' <=> Limiting
  BY <1>1 DEF Limiting
<1>5. SecondInv'
  BY <1>1, <1>3, <1>4, SameRound DEF PaceInv, SecondInv
<1>6. BranchInv'
  BY <1>1, <1>4 DEF PaceInv, BranchInv, Over
<1> QED BY <1>5, <1>6 DEF PaceInv

LEMMA StorePaceInv ==
  ASSUME TypeOK, StarveInv, TypeOK', PaceInv, NEW w \in Writers,
         Reset(w) \/ (w = "pool" /\ (SetIncomingFramerate \/ SetTargetFramerate
                                      \/ EnableTemporalDecimation))
  PROVE  PaceInv'
<1>1. /\ step[w] \in ResetSteps \cup {"setIncoming", "setTarget", "setEnable"}
      /\ UNCHANGED <<video, decided>>
  BY DEF Reset, ResetOvershoot, ResetDrops, ResetKeeps, ResetTarget, ResetIncoming, ResetEnable,
         SetIncomingFramerate, SetTargetFramerate, EnableTemporalDecimation, Go, ResetSteps, Steps
<1>2. ~Idle(w) /\ ~AtRest(w)
  BY <1>1 DEF Idle, AtRest, ResetSteps
<1>3. video.at = "idle" /\ decided = <<>>
  BY <1>2 DEF StarveInv, AloneInv
<1>4. BranchInv'
  BY <1>1, <1>3 DEF BranchInv
<1>5. /\ step[w] # "overshoot" => dec.overshoot = 0
      /\ step[w] \notin {"overshoot", "drops"} => dec.drops = 0
      /\ step[w] \notin {"overshoot", "drops", "keeps"} => dec.keeps = 1
  BY <1>2 DEF StarveInv, ClearedInv
<1>6. /\ dec \in Atomics /\ step \in [Writers -> Steps]
  BY DEF TypeOK
<1>7. /\ step'[w] # "overshoot" => dec'.overshoot = 0
      /\ step'[w] \notin {"overshoot", "drops"} => dec'.drops = 0
      /\ step'[w] \notin {"overshoot", "drops", "keeps"} => dec'.keeps = 1
  BY <1>5, <1>6 DEF Reset, ResetOvershoot, ResetDrops, ResetKeeps, ResetTarget, ResetIncoming,
         ResetEnable, SetIncomingFramerate, SetTargetFramerate, EnableTemporalDecimation, Go,
         Atomics
<1>8. SecondInv'
  <2> SUFFICES ASSUME Limiting', AtRest(w)' PROVE SecondRound'
    BY DEF SecondInv
  <2>1. dec'.overshoot = 0 /\ dec'.drops = 0 /\ dec'.keeps = 1
    BY <1>7 DEF AtRest
  <2>2. Counters'
    BY <2>1, FreshCountersNext
  <2> QED BY <1>1, <1>3, <2>2, NothingDecidedNext
<1> QED BY <1>4, <1>8 DEF PaceInv

(* What every step of DropFrame leaves alone.                              *)
LEMMA DropFramePace ==
  ASSUME TypeOK, StarveInv, PaceInv, ~Overlap, DropFrame
  PROVE  /\ Limiting' <=> Limiting
         /\ Limiting => SecondRound
         /\ UNCHANGED <<dec.enable, dec.target, dec.incoming>>
         /\ Limiting /\ SecondRound' => SecondInv'
         /\ ~Limiting => PaceInv'
<1>1. /\ \A w \in Writers : AtRest(w) /\ AtRest(w)'
      /\ Limiting' <=> Limiting
      /\ UNCHANGED <<dec.enable, dec.target, dec.incoming>>
  BY DropFrameIsAlone
<1> QED BY <1>1 DEF PaceInv, SecondInv, BranchInv

LEMMA CheckPaceInv ==
  ASSUME TypeOK, StarveInv, PaceInv, ~Overlap,
         Frame \/ CheckEnable \/ CheckIncoming \/ RoundIncoming \/ CheckTarget \/ CompareIncoming
  PROVE  PaceInv'
<1>1. DropFrame
  BY DEF DropFrame
<1> SUFFICES ASSUME Limiting PROVE PaceInv'
  BY <1>1, DropFramePace
<1>2. /\ dec' = dec /\ FrameInv /\ video \in [at : Places, rate : Rates, overshoot : Nat]
      /\ dec.enable /\ dec.incoming \in Nat \ {0} /\ dec.target \in Nat \ {0}
      /\ dec.target < dec.incoming /\ ~(dec.incoming <= 0)
  <2>1. dec' = dec /\ FrameInv /\ video \in [at : Places, rate : Rates, overshoot : Nat]
    BY DEF Frame, CheckEnable, CheckIncoming, RoundIncoming, CheckTarget, CompareIncoming,
           StarveInv, TypeOK
  <2>2. /\ dec.enable /\ dec.incoming \in Nat \ {0} /\ dec.target \in Nat \ {0}
        /\ dec.target < dec.incoming /\ ~(dec.incoming <= 0)
    BY LimitingTypes DEF Limiting
  <2> QED BY <2>1, <2>2
<1>3. decided' = decided /\ video'.at \notin {"keep", "divide", "remainder"}
  <2>1. CASE Frame
    BY <1>2, <2>1 DEF Frame, GoOn
  <2>2. CASE CheckEnable
    BY <1>2, <2>2 DEF CheckEnable, GoOn
  <2>3. CASE CheckIncoming
    BY <1>2, <2>3 DEF CheckIncoming, GoOn
  <2>4. CASE RoundIncoming
    BY <1>2, <2>4 DEF RoundIncoming
  <2>5. CASE CheckTarget
    BY <1>2, <2>5 DEF CheckTarget, GoOn
  <2>6. CASE CompareIncoming
    <3>1. video.rate = dec.incoming
      BY <1>2, <2>6 DEF CompareIncoming, At, FrameInv
    <3> QED BY <1>2, <2>6, <3>1 DEF CompareIncoming, GoOn
  <2> QED BY <2>1, <2>2, <2>3, <2>4, <2>5, <2>6
<1>4. SecondRound'
  BY <1>1, <1>2, <1>3, DropFramePace, SameRound
<1>5. SecondInv' /\ BranchInv'
  BY <1>1, <1>3, <1>4, DropFramePace DEF BranchInv
<1> QED BY <1>5 DEF PaceInv

(* In either kind of round frames are due.                                 *)
LEMMA FramesAreDue ==
  ASSUME TypeOK, Limiting, SecondRound
  PROVE  Over \in Nat \ {0} /\ (2 * Over < dec.incoming <=> ~Halved)
<1>1. /\ dec.incoming \in Nat \ {0} /\ dec.target \in Nat \ {0} /\ dec.overshoot \in Int
      /\ Excess \in Nat \ {0} /\ Over = dec.overshoot + Excess
      /\ dec.target = dec.incoming - Excess
  BY LimitingTypes
<1>2. CASE Halved
  BY <1>1, <1>2 DEF SecondRound, DropRound, Halved
<1>3. CASE ~Halved
  BY <1>3, KeepBounds DEF SecondRound, KeepRound
<1> QED BY <1>2, <1>3

-----------------------------------------------------------------------------
LEMMA OvershootPaceInv ==
  ASSUME TypeOK, StarveInv, PaceInv, ~Overlap, ComputeOvershoot
  PROVE  PaceInv'
<1>1. DropFrame
  BY DEF DropFrame
<1> SUFFICES ASSUME Limiting PROVE PaceInv'
  BY <1>1, DropFramePace
<1>2. /\ video \in [at : Places, rate : Rates, overshoot : Nat] /\ decided' = decided
      /\ video.rate = dec.incoming
  BY DEF ComputeOvershoot, At, StarveInv, FrameInv, Judging, TypeOK
<1>3. SecondRound /\ Over \in Nat \ {0}
  BY <1>1, DropFramePace, FramesAreDue
<1> DEFINE signed == dec.overshoot + video.rate - dec.target
<1>4. signed = Over /\ ~(signed < 0) /\ signed # 0
  <2>1. signed = Over
    BY <1>2 DEF Over
  <2> QED BY <1>3, <2>1
<1>5. /\ dec' = IF signed < 0 THEN [dec EXCEPT !.overshoot = 0] ELSE dec
      /\ video' = [video EXCEPT !.overshoot = IF signed < 0 THEN 0 ELSE signed,
                     !.at = IF (IF signed < 0 THEN 0 ELSE signed) # 0
                               /\ 2 * (IF signed < 0 THEN 0 ELSE signed) < video.rate
                            THEN "keep" ELSE "divide"]
  BY DEF ComputeOvershoot
<1> HIDE DEF signed
<1>6. /\ dec' = dec /\ video'.overshoot = signed
      /\ video'.at = IF 2 * signed < video.rate THEN "keep" ELSE "divide"
  BY <1>2, <1>4, <1>5
<1>7. SecondRound' /\ Over' = Over
  BY <1>2, <1>3, <1>6, SameRound DEF Over
<1>8. BranchInv'
  BY <1>2, <1>4, <1>6, <1>7 DEF BranchInv
<1> QED BY <1>1, <1>7, <1>8, DropFramePace DEF PaceInv

(* Above half: the run that ends was as long as the counters say, and the  *)
(* correction leaves the next between the shortest and the longest.        *)
LEMMA CorrectionArithmetic ==
  ASSUME NEW a \in Nat, NEW over \in Nat \ {0}, NEW excess \in Nat \ {0}, over <= excess
  PROVE  -((a % over) \div 3) \in -((excess - 1) \div 3) .. 0
<1>1. a % over \in 0 .. over - 1
  OBVIOUS
<1>2. (a % over) \div 3 \in Nat /\ (a % over) \div 3 <= (excess - 1) \div 3
      /\ (excess - 1) \div 3 \in Nat
  <2> DEFINE rest == a % over
  <2>1. rest \in Nat /\ rest <= excess - 1
    BY <1>1
  <2> HIDE DEF rest
  <2>2. rest \div 3 \in Nat /\ rest \div 3 <= (excess - 1) \div 3 /\ (excess - 1) \div 3 \in Nat
    BY <2>1
  <2> QED BY <2>2 DEF rest
<1> QED BY <1>2

LEMMA OneFits ==
  ASSUME NEW a \in Nat, NEW c \in Nat \ {0}, c <= a PROVE 1 <= a \div c
OBVIOUS

LEMMA KeepPaceInv ==
  ASSUME TypeOK, StarveInv, PaceInv, ~Overlap, KeepRun
  PROVE  PaceInv'
<1>1. DropFrame
  BY DEF DropFrame
<1> SUFFICES ASSUME Limiting PROVE PaceInv'
  BY <1>1, DropFramePace
<1>2. /\ video.at = "keep" /\ video.rate = dec.incoming
      /\ video.overshoot = Over /\ 2 * Over < dec.incoming
  BY DEF KeepRun, At, StarveInv, FrameInv, Judging, PaceInv, BranchInv
<1>3. SecondRound /\ ~Halved
  BY <1>1, <1>2, DropFramePace, FramesAreDue
<1>4. KeepRound
  BY <1>3 DEF SecondRound
<1>5. /\ dec \in Atomics /\ dec.incoming \in Nat \ {0} /\ dec.keeps \in Nat
      /\ Excess \in Nat \ {0} /\ Excess < dec.incoming /\ Over = dec.overshoot + Excess
  BY LimitingTypes
<1>6. /\ Over \in Nat \ {0} /\ Over <= Excess /\ dec.incoming \div Over \in Nat
  BY <1>3, <1>4, KeepBounds DEF KeepRound
<1>7. /\ UNCHANGED <<dec.target, dec.incoming>> /\ Excess' = Excess
      /\ Over' = dec'.overshoot + Excess
  <2>1. UNCHANGED <<dec.target, dec.incoming>>
    BY <1>1, DropFramePace
  <2>2. Excess' = Excess
    BY <2>1 DEF Excess
  <2>3. /\ dec.target \in Nat /\ dec.incoming \in Nat /\ dec' \in Atomics
    BY <1>1, FrameTypeOK, LimitingTypes DEF TypeOK
  <2>4. dec'.overshoot \in Int
    BY <2>3 DEF Atomics
  <2> QED BY <2>1, <2>2, <2>3, <2>4 DEF Over, Excess
<1> DEFINE run == dec.incoming \div Over
<1>8. dec.drops = 0 /\ dec.keeps \in 1 .. run /\ dec.overshoot \in -((Excess - 1) \div 3) .. 0
  BY <1>4 DEF KeepRound
<1>9. PICK sent \in BOOLEAN : KeepGoesOn(sent)
  <2>1. CASE dec.keeps >= run
    <3> DEFINE left == -((dec.incoming % Over) \div 3)
    <3>1. dec' = [dec EXCEPT !.keeps = 1, !.overshoot = left] /\ decided' = Decided(FALSE)
      BY <1>2, <1>8, <2>1 DEF KeepRun, Return
    <3>2. left \in -((Excess - 1) \div 3) .. 0
      BY <1>5, <1>6, CorrectionArithmetic
    <3> HIDE DEF left
    <3>3. dec'.overshoot = left /\ dec'.drops = 0 /\ dec'.keeps = 1
      BY <1>5, <1>8, <3>1 DEF Atomics
    <3>4. Over' \in Nat \ {0} /\ Over' <= Excess
      BY <1>5, <1>7, <3>2, <3>3, RunArithmetic
    <3>5. 1 <= dec.incoming \div Over'
      <4> DEFINE divisor == Over'
                 a == dec.incoming
      <4>1. divisor \in Nat \ {0} /\ a \in Nat /\ divisor <= a
        BY <1>5, <3>4
      <4> HIDE DEF divisor, a
      <4>2. 1 <= a \div divisor
        BY <4>1, OneFits
      <4> QED BY <4>2 DEF divisor, a
    <3>6. dec.keeps = run
      <4>1. run \in Nat
        BY <1>6
      <4> HIDE DEF run
      <4> QED BY <1>5, <1>8, <2>1, <4>1
    <3>7. KeepGoesOn(FALSE)
      BY <1>7, <3>1, <3>2, <3>3, <3>5, <3>6 DEF KeepGoesOn
    <3> QED BY <3>7
  <2>2. CASE ~(dec.keeps >= run)
    <3>1. dec' = [dec EXCEPT !.keeps = @ + 1] /\ decided' = Decided(TRUE)
      BY <1>2, <1>8, <2>2 DEF KeepRun, Return
    <3>2. dec'.overshoot = dec.overshoot /\ dec'.drops = 0 /\ dec'.keeps = dec.keeps + 1
      BY <1>5, <1>8, <3>1 DEF Atomics
    <3>3. Over' = Over
      BY <1>5, <1>7, <3>2
    <3>4. dec.keeps + 1 <= run
      <4>1. run \in Nat
        BY <1>6
      <4> HIDE DEF run
      <4> QED BY <1>5, <2>2, <4>1
    <3>5. KeepGoesOn(TRUE)
      BY <1>7, <1>8, <3>1, <3>2, <3>3, <3>4 DEF KeepGoesOn
    <3> QED BY <3>5
  <2> QED BY <2>1, <2>2
<1>10. KeepRound'
  BY <1>3, <1>4, <1>9, KeepRoundGrows
<1>11. SecondRound'
  BY <1>3, <1>7, <1>10 DEF SecondRound, Halved
<1>12. BranchInv'
  <2>1. \E kept \in BOOLEAN : Return(kept)
    BY Zenon DEF KeepRun
  <2> QED BY <2>1 DEF Return, BranchInv
<1> QED BY <1>1, <1>11, <1>12, DropFramePace DEF PaceInv

(* What holds at either division of a limiter that limits.                 *)
LEMMA DropsAreHalf ==
  ASSUME TypeOK, StarveInv, PaceInv, ~Overlap, Limiting, DropRun \/ EndDropRun
  PROVE  /\ Halved /\ DropRound /\ Over \in Nat \ {0} /\ video.overshoot = Over
         /\ Over \div dec.target \in Nat /\ 2 * Over >= dec.incoming
         /\ dec' \in Atomics /\ dec'.target = dec.target /\ dec'.incoming = dec.incoming
         /\ Excess' = Excess /\ Over' = dec'.overshoot + Excess
<1>1. DropFrame
  BY DEF DropFrame
<1>2. video.at \in {"divide", "remainder"}
  BY DEF DropRun, EndDropRun, At
<1>3. video.overshoot = Over /\ ~(2 * Over < dec.incoming)
  BY <1>2 DEF PaceInv, BranchInv
<1>4. SecondRound /\ Over \in Nat \ {0} /\ Halved
  BY <1>1, <1>3, DropFramePace, FramesAreDue
<1>5. dec.target \in Nat \ {0} /\ dec.incoming \in Nat
  BY LimitingTypes
<1>6. Over \div dec.target \in Nat
  BY <1>4, <1>5, QuotientBound
<1>7. dec' \in Atomics /\ dec'.target = dec.target /\ dec'.incoming = dec.incoming
  BY <1>1, FrameTypeOK, DropFramePace DEF TypeOK
<1>8. dec'.overshoot \in Int /\ Excess' = Excess
  BY <1>7 DEF Atomics, Excess
<1>9. Over' = dec'.overshoot + Excess
  BY <1>5, <1>7, <1>8 DEF Over, Excess
<1> QED BY <1>3, <1>4, <1>5, <1>6, <1>7, <1>8, <1>9 DEF SecondRound

LEMMA DropPaceInv ==
  ASSUME TypeOK, StarveInv, PaceInv, ~Overlap, DropRun
  PROVE  PaceInv'
<1>1. DropFrame
  BY DEF DropFrame
<1> SUFFICES ASSUME Limiting PROVE PaceInv'
  BY <1>1, DropFramePace
<1>2. /\ Halved /\ DropRound /\ Over \in Nat \ {0} /\ video.overshoot = Over
      /\ Over \div dec.target \in Nat /\ 2 * Over >= dec.incoming
      /\ dec'.target = dec.target /\ dec'.incoming = dec.incoming
      /\ Excess' = Excess /\ Over' = dec'.overshoot + Excess
  BY DropsAreHalf
<1>3. /\ dec \in Atomics /\ dec.target \in Nat \ {0} /\ dec.drops \in Nat /\ dec.overshoot \in Int
      /\ Over = dec.overshoot + Excess /\ dec.incoming \in Nat
  BY LimitingTypes
<1>4. video \in [at : Places, rate : Rates, overshoot : Nat] /\ video.at = "divide"
  BY DEF TypeOK, DropRun, At
<1> DEFINE longest == Over \div dec.target
<1>5. dec.drops <= longest /\ dec.overshoot \in 0 .. dec.target - 1
  BY <1>2 DEF DropRound
<1>6. CASE dec.drops < longest
  <2>1. /\ dec' = [dec EXCEPT !.keeps = 0, !.drops = @ + 1] /\ decided' = Decided(FALSE)
        /\ video'.at = "idle"
    <3>1. dec.target # 0 /\ dec.drops < video.overshoot \div dec.target
      BY <1>2, <1>3, <1>6
    <3> QED BY <3>1 DEF DropRun, Divides, Return
  <2>2. /\ dec'.drops = dec.drops + 1 /\ dec'.overshoot = dec.overshoot
    BY <1>3, <2>1 DEF Atomics
  <2>3. Over' = Over
    BY <1>2, <1>3, <2>2
  <2>4. dec'.drops \in Nat /\ dec'.drops <= Over' \div dec.target
    <3>1. longest \in Nat
      BY <1>2
    <3> HIDE DEF longest
    <3>2. dec'.drops \in Nat /\ dec'.drops <= longest
      BY <1>3, <1>6, <2>2, <3>1
    <3> QED BY <2>3, <3>2 DEF longest
  <2>5. Phase' = Phase - dec.target
    <3> DEFINE t == dec.target
               d == dec.drops
               o == dec.overshoot
    <3>1. Phase' = o - (d + 1) * t /\ Phase = o - d * t
      BY <1>2, <2>2 DEF Phase
    <3>2. t \in Int /\ d \in Int /\ o \in Int
      BY <1>3
    <3> HIDE DEF t, d, o
    <3>3. (d + 1) * t = d * t + t /\ d * t \in Int
      BY <3>2, OneMoreTimes
    <3>4. Phase' = Phase - t
      BY <3>1, <3>2, <3>3
    <3> QED BY <3>4 DEF t
  <2>6. Phase \in Int
    BY <1>3 DEF Phase
  <2>7. Phase' = Phase + (IF FALSE THEN dec.incoming ELSE 0) - dec.target
    BY <1>3, <2>5, <2>6
  <2>8. DropGoesOn(FALSE)
    BY <1>2, <1>5, <2>1, <2>2, <2>4, <2>7 DEF DropGoesOn
  <2>9. DropRound'
    BY <1>2, <2>8, DropRoundGrows
  <2>10. SecondRound'
    BY <1>2, <2>9 DEF SecondRound, Halved
  <2>11. BranchInv'
    BY <2>1 DEF BranchInv
  <2> QED BY <1>1, <2>10, <2>11, DropFramePace DEF PaceInv
<1>7. CASE ~(dec.drops < longest)
  <2>1. /\ dec' = [dec EXCEPT !.keeps = 0] /\ video' = [video EXCEPT !.at = "remainder"]
        /\ decided' = decided
    BY <1>2, <1>3, <1>7 DEF DropRun, Divides, GoOn
  <2>2. /\ dec'.drops = dec.drops /\ dec'.overshoot = dec.overshoot
        /\ video'.at = "remainder" /\ video'.overshoot = video.overshoot
    BY <1>3, <1>4, <2>1 DEF Atomics
  <2>3. Over' = Over /\ Phase' = Phase
    BY <1>2, <1>3, <2>2 DEF Phase
  <2>4. dec.drops = longest
    <3>1. longest \in Nat
      BY <1>2
    <3> HIDE DEF longest
    <3> QED BY <1>3, <1>5, <1>7, <3>1
  <2>5. \A k \in 0 .. Len(decided') : Balance(k)' = Balance(k)
    BY <1>2, <2>1 DEF Balance
  <2>6. DropRound'
    BY <1>2, <2>1, <2>2, <2>3, <2>5 DEF DropRound
  <2>7. SecondRound'
    BY <1>2, <2>6 DEF SecondRound, Halved
  <2>8. ~(2 * Over' < dec'.incoming)
    BY <1>2, <1>3, <2>3
  <2>9. BranchInv'
    BY <1>2, <2>2, <2>3, <2>4, <2>8 DEF BranchInv
  <2> QED BY <1>1, <2>7, <2>9, DropFramePace DEF PaceInv
<1> QED BY <1>6, <1>7

(* The frame that ends a run is sent, and what the division leaves over is *)
(* where the next run begins.                                              *)
LEMMA EndDropPaceInv ==
  ASSUME TypeOK, StarveInv, PaceInv, ~Overlap, EndDropRun
  PROVE  PaceInv'
<1>1. DropFrame
  BY DEF DropFrame
<1> SUFFICES ASSUME Limiting PROVE PaceInv'
  BY <1>1, DropFramePace
<1>2. /\ Halved /\ DropRound /\ Over \in Nat \ {0} /\ video.overshoot = Over
      /\ Over \div dec.target \in Nat
      /\ dec'.target = dec.target /\ dec'.incoming = dec.incoming
      /\ Excess' = Excess /\ Over' = dec'.overshoot + Excess
  BY DropsAreHalf
<1>3. /\ dec \in Atomics /\ dec.target \in Nat \ {0} /\ dec.drops \in Nat /\ dec.overshoot \in Int
      /\ Over = dec.overshoot + Excess /\ dec.incoming \in Nat /\ Excess \in Nat
      /\ dec.target = dec.incoming - Excess
  BY LimitingTypes
<1>4. dec.drops = Over \div dec.target
  BY DEF EndDropRun, At, PaceInv, BranchInv
<1> DEFINE rest == Over % dec.target
<1>5. rest \in Nat /\ rest < dec.target
  BY <1>2, <1>3, RestIsSmaller
<1>6. /\ dec' = [dec EXCEPT !.overshoot = rest, !.drops = 0] /\ decided' = Decided(TRUE)
      /\ video'.at = "idle"
  <2>1. dec.target # 0 /\ video.overshoot % dec.target = rest
    BY <1>2, <1>3
  <2>2. /\ dec' = [dec EXCEPT !.overshoot = video.overshoot % dec.target, !.drops = 0]
        /\ decided' = Decided(TRUE) /\ video'.at = "idle"
    <3>1. /\ dec' = [dec EXCEPT !.overshoot = video.overshoot % dec.target, !.drops = 0]
          /\ Return(TRUE)
      BY <2>1, Zenon DEF EndDropRun
    <3> QED BY <3>1 DEF Return
  <2> HIDE DEF rest
  <2> QED BY <2>1, <2>2
<1>7. rest = Over - dec.drops * dec.target
  <2> DEFINE t == dec.target
             q == Over \div t
  <2>1. Over = t * q + rest
    BY <1>2, <1>3, QuotientAndRest
  <2>2. t \in Nat /\ q \in Nat /\ rest \in Nat /\ dec.drops = q
    BY <1>2, <1>3, <1>4, <1>5
  <2> HIDE DEF rest, t, q
  <2>3. t * q = q * t /\ q * t \in Nat
    BY <2>2
  <2>4. rest = Over - q * t
    BY <2>1, <2>2, <2>3
  <2> QED BY <2>2, <2>4 DEF t
<1> HIDE DEF rest
<1>8. dec'.overshoot = rest /\ dec'.drops = 0
  BY <1>3, <1>6 DEF Atomics
<1>9. dec'.drops \in Nat /\ dec'.drops <= Over' \div dec.target
  <2>1. Over' \in Nat
    BY <1>2, <1>3, <1>5, <1>8
  <2>2. Over' \div dec.target \in Nat
    BY <1>3, <2>1, QuotientBound
  <2> QED BY <1>8, <2>2
<1>10. Phase' = Phase + (IF TRUE THEN dec.incoming ELSE 0) - dec.target
  <2>1. 0 * dec.target = 0 /\ dec.drops * dec.target \in Nat
    BY <1>3
  <2>2. Phase' = rest
    BY <1>2, <1>5, <1>8, <2>1 DEF Phase
  <2>3. Phase + dec.incoming - dec.target = Over - dec.drops * dec.target
    BY <1>3, <2>1 DEF Phase
  <2> QED BY <1>7, <2>2, <2>3
<1>11. DropGoesOn(TRUE)
  BY <1>2, <1>3, <1>5, <1>6, <1>8, <1>9, <1>10 DEF DropGoesOn
<1>12. DropRound'
  BY <1>2, <1>11, DropRoundGrows
<1>13. SecondRound'
  BY <1>2, <1>12 DEF SecondRound, Halved
<1>14. BranchInv'
  BY <1>6 DEF BranchInv
<1> QED BY <1>1, <1>13, <1>14, DropFramePace DEF PaceInv

LEMMA PaceStep ==
  ASSUME TypeOK, TypeOK', StarveInv, PaceInv, ~Overlap, [Next]_vars
  PROVE  PaceInv'
<1>1. CASE LiveOutputReset
  BY <1>1, BeginPaceInv DEF LiveOutputReset, Writers
<1>2. CASE DropVideoFrameOff
  BY <1>2, BeginPaceInv DEF DropVideoFrameOff, Writers
<1>3. ASSUME NEW target \in Targets, DropVideoFrame(target) PROVE PaceInv'
  <2>1. Begin("pool", [enable |-> TRUE, incoming |-> fps, target |-> target])
        /\ UNCHANGED <<dec, video>>
    BY <1>3 DEF DropVideoFrame
  <2> QED BY <2>1, BeginPaceInv DEF Writers
<1>4. CASE CompareRates
  BY <1>4, ComparePaceInv
<1>5. ASSUME NEW w \in Writers, Reset(w) PROVE PaceInv'
  BY <1>5, StorePaceInv
<1>6. CASE SetIncomingFramerate \/ SetTargetFramerate \/ EnableTemporalDecimation
  BY <1>6, StorePaceInv DEF Writers
<1>7. CASE SetVideoFPS \/ UNCHANGED vars
  <2>1. UNCHANGED <<dec, step, video, decided>>
    BY <1>7 DEF SetVideoFPS, vars
  <2> QED BY <2>1, SameRound DEF PaceInv, SecondInv, BranchInv, Limiting, AtRest, Over
<1>8. CASE DropFrame
  BY <1>8, CheckPaceInv, OvershootPaceInv, KeepPaceInv, DropPaceInv, EndDropPaceInv
     DEF DropFrame
<1> QED BY <1>1, <1>2, <1>3, <1>4, <1>5, <1>6, <1>7, <1>8 DEF Next

-----------------------------------------------------------------------------
LEMMA LessThanTimes ==
  ASSUME NEW a \in Nat \ {0}, NEW s \in Int, NEW t \in Int, a * s - a * t \in 1 - a .. a - 1
  PROVE  s = t
<1>1. CASE s >= t + 1
  <2>1. a * (t + 1) <= a * s
    BY <1>1
  <2>2. a * (t + 1) = a * t + a
    BY OneMoreTimes
  <2> QED BY <2>1, <2>2
<1>2. CASE t >= s + 1
  <2>1. a * (s + 1) <= a * t
    BY <1>2
  <2>2. a * (s + 1) = a * s + a
    BY OneMoreTimes
  <2> QED BY <2>1, <2>2
<1> QED BY <1>1, <1>2

LEMMA QuotientBelow ==
  ASSUME NEW a \in Nat, NEW d \in Nat, NEW c \in Nat \ {0}, a < (d + 1) * c
  PROVE  a \div c \in Nat /\ a \div c <= d
<1> DEFINE q == a \div c
<1>1. q \in Nat /\ q * c <= a
  OBVIOUS
<1> HIDE DEF q
<1>2. SUFFICES ASSUME q >= d + 1 PROVE FALSE
  BY <1>1 DEF q
<1>3. (d + 1) * c <= q * c
  BY <1>1, <1>2
<1> QED BY <1>1, <1>3

LEMMA QuotientAbove ==
  ASSUME NEW a \in Nat, NEW d \in Nat, NEW c \in Nat \ {0}, d * c <= a
  PROVE  a \div c \in Nat /\ d <= a \div c
<1> DEFINE q == a \div c
<1>1. q \in Nat /\ a < (q + 1) * c
  OBVIOUS
<1> HIDE DEF q
<1>2. SUFFICES ASSUME d >= q + 1 PROVE FALSE
  BY <1>1 DEF q
<1>3. (q + 1) * c <= d * c
  BY <1>1, <1>2
<1> QED BY <1>1, <1>3

LEMMA HalfSecond ==
  ASSUME NEW a \in Nat \ {0}, NEW t \in Nat \ {0}, NEW s \in Nat, NEW phase \in Int,
         -phase \in 1 - t .. a - t, a * s - a * t - phase \in 1 - t .. a - t
  PROVE  s = t
<1>1. a * s \in Int /\ a * t \in Int
  OBVIOUS
<1>2. a * s - a * t \in 1 - a .. a - 1
  BY <1>1
<1> QED BY <1>2, LessThanTimes

LEMMA KeptSecond ==
  ASSUME NEW a \in Nat \ {0}, NEW d \in Nat, NEW keeps \in Nat \ {0},
         NEW longest \in Nat \ {0}, NEW shortest \in Nat \ {0}, keeps <= longest,
         a <= d * longest + keeps - 1, d = 0 \/ d * shortest <= a - keeps + shortest
  PROVE  d \in a \div longest .. (a + shortest - 1) \div shortest
<1>1. a < (d + 1) * longest
  <2>1. (d + 1) * longest = d * longest + longest /\ d * longest \in Nat
    BY OneMoreTimes
  <2> QED BY <2>1
<1>2. a + shortest - 1 \in Nat /\ d * shortest <= a + shortest - 1
  <2>1. d = 0 => d * shortest = 0
    OBVIOUS
  <2>2. d * shortest \in Nat
    OBVIOUS
  <2> QED BY <2>1, <2>2
<1>3. a \div longest \in Nat /\ a \div longest <= d
  BY <1>1, QuotientBelow
<1>4. (a + shortest - 1) \div shortest \in Nat /\ d <= (a + shortest - 1) \div shortest
  BY <1>2, QuotientAbove
<1> QED BY <1>3, <1>4

LEMMA InvRateMet == TypeOK /\ StarveInv /\ PaceInv => RateMet
<1> SUFFICES ASSUME TypeOK, StarveInv, PaceInv, Limiting, Len(decided) >= dec.incoming
             PROVE  LET sent == Cardinality(SentOf(LastDecisions(dec.incoming)))
                        dropped == dec.incoming - sent
                    IN  IF 2 * dec.target <= dec.incoming
                        THEN sent = dec.target
                        ELSE dropped \in dec.incoming \div LongestRun
                                  .. (dec.incoming + ShortestRun - 1) \div ShortestRun
  BY DEF RateMet
<1> DEFINE a == dec.incoming
           t == dec.target
           s == Sent(decided, a)
<1>1. /\ a \in Nat \ {0} /\ t \in Nat \ {0} /\ decided \in Seq(BOOLEAN) /\ Len(decided) \in Nat
      /\ Excess = a - t /\ dec.keeps \in Nat
  BY LimitingTypes DEF Excess
<1>2. a \in 0 .. Len(decided) /\ decided # <<>>
  BY <1>1
<1>3. LastDecisions(a) = LastOf(decided, a) /\ Cardinality(SentOf(LastDecisions(a))) = s
  BY DEF LastDecisions, LastOf, Sent
<1>4. s \in Nat
  <2>1. LastOf(decided, a) \in Seq(BOOLEAN)
    BY <1>1, <1>2 DEF LastOf
  <2> QED BY <2>1, SentIsFinite DEF Sent
<1>5. SecondRound
  BY <1>2 DEF StarveInv, AloneInv, Idle, AtRest, PaceInv, SecondInv
<1>6. CASE Halved
  <2>1. /\ dec.overshoot \in 0 .. dec.target - 1 /\ dec.drops <= Over \div dec.target
        /\ Balance(a) - Phase \in 1 - t .. Excess
    BY <1>2, <1>5, <1>6 DEF SecondRound, DropRound
  <2>2. Phase \in Int /\ -Phase \in 1 - t .. Excess
    BY <2>1, PhaseBounds
  <2>3. Balance(a) = a * s - a * t
    BY DEF Balance
  <2> HIDE DEF a, t, s
  <2>4. -Phase \in 1 - t .. a - t /\ a * s - a * t - Phase \in 1 - t .. a - t
    BY <1>1, <2>1, <2>2, <2>3
  <2>5. s = t
    BY <1>1, <1>4, <2>2, <2>4, HalfSecond
  <2> QED BY <1>3, <1>6, <2>5 DEF Halved, a, t
<1>7. CASE ~Halved
  <2>1. /\ dec.overshoot \in -((Excess - 1) \div 3) .. 0
        /\ dec.keeps \in 1 .. dec.incoming \div Over
        /\ a - s \in Nat
        /\ a <= (a - s) * LongestRun + dec.keeps - 1
        /\ a - s = 0 \/ (a - s) * ShortestRun <= a - dec.keeps + ShortestRun
    BY <1>2, <1>5, <1>7 DEF SecondRound, KeepRound
  <2>2. /\ ShortestRun \in Nat \ {0} /\ LongestRun \in Nat \ {0} /\ dec.incoming \div Over \in Nat
        /\ dec.incoming \div Over <= LongestRun
    BY <1>7, <2>1, KeepBounds
  <2> DEFINE d == a - s
             keeps == dec.keeps
             longest == LongestRun
             shortest == ShortestRun
  <2>3. /\ d \in Nat /\ keeps \in Nat \ {0} /\ keeps <= longest
        /\ longest \in Nat \ {0} /\ shortest \in Nat \ {0}
        /\ a <= d * longest + keeps - 1
        /\ d = 0 \/ d * shortest <= a - keeps + shortest
    BY <1>1, <2>1, <2>2
  <2>4. d \in a \div longest .. (a + shortest - 1) \div shortest
    <3> HIDE DEF d, a, s, keeps, longest, shortest
    <3> QED BY <1>1, <2>3, KeptSecond
  <2> QED BY <1>3, <1>7, <2>4 DEF Halved
<1> QED BY <1>6, <1>7

(* Over the frames of a second the host gets the rate it asked for, for    *)
(* every pair of rates: exactly, at a target of at most half the incoming  *)
(* rate; within the quotients of the shortest and the longest run above.   *)
THEOREM StreamKeepsItsRate == Spec => []RateKept
<1>1. Spec => []TypeOK /\ []NeverStarves
  BY TypeCorrect, StreamNeverStarves
<1>2. CASE ~Overlap
  <2>1. StarveInv /\ TypeOK /\ [Next]_vars => StarveInv'
    BY <1>2, StarveStep
  <2>2. PaceInv /\ StarveInv /\ TypeOK /\ TypeOK' /\ [Next]_vars => PaceInv'
    BY <1>2, PaceStep
  <2>3. TypeOK /\ StarveInv /\ PaceInv => RateMet
    BY InvRateMet
  <2>4. Spec => []RateMet
    BY <1>1, <2>1, <2>2, <2>3, InitStarveInv, InitPaceInv, PTL DEF Spec
  <2> QED BY <1>1, <2>4, PTL DEF RateKept
<1>3. CASE Overlap
  <2> DEFINE Nothing == decided = <<>>
  <2>1. Init => Nothing
    BY DEF Init
  <2>2. Nothing /\ [Next]_vars => Nothing'
    BY <1>3, NothingRecorded
  <2>3. TypeOK /\ Nothing => RateMet
    <3> SUFFICES ASSUME TypeOK, decided = <<>>, Limiting, Len(decided) >= dec.incoming
                 PROVE  FALSE
      BY DEF RateMet
    <3> QED BY LimitingTypes
  <2> HIDE DEF Nothing
  <2>4. Spec => []RateMet
    BY <1>1, <2>1, <2>2, <2>3, PTL DEF Spec
  <2> QED BY <1>1, <2>4, PTL DEF RateKept
<1> QED BY <1>2, <1>3
=============================================================================
