------------------------- MODULE LiveOutput_proofs -------------------------
(***************************************************************************)
(* What holds of live sessions for any number of outstanding messages.     *)
(* The invariants of a session at rest are not inductive: SessionInv says  *)
(* what the output, the reporter and the frame callback are at every step  *)
(* of Start and Stop.                                                      *)
(***************************************************************************)
EXTENDS LiveOutput, SequenceTheorems, TLAPS

LEMMA EmptySequence == \A S : <<>> \in Seq(S)
OBVIOUS

LEMMA TypeStep == TypeOK /\ [Next]_vars => TypeOK'
<1> SUFFICES ASSUME TypeOK, [Next]_vars PROVE TypeOK'
  OBVIOUS
<1> USE TasksAssumption DEF TypeOK, Messages, UiSteps, Outputs, RunLoop, limits
<1>1. ASSUME NEW m \in Messages, PostMessage(m) PROVE TypeOK'
  <2>1. Append(tasks, m) \in Seq(Messages) /\ Len(Append(tasks, m)) = Len(tasks) + 1
    BY AppendProperties
  <2>2. tasks' \in Seq(Messages) /\ Len(tasks') <= MaxTasks
    BY <1>1, <2>1, LenProperties DEF PostMessage
  <2>3. UNCHANGED <<ui, output, is_working_, thread_, reporter, video, limits>>
    BY <1>1 DEF PostMessage
  <2> QED BY <2>2, <2>3
<1>2. ASSUME DropVideoFrameOff \/ DropVideoFrame \/ EnableTemporalDecimation PROVE TypeOK'
  <2>1. limiter' \in {"off", "set"} /\ pool' \in {"idle", "setting"}
    BY <1>2, Zenon DEF DropVideoFrameOff, DropVideoFrame, EnableTemporalDecimation
  <2>2. asked' \in BOOLEAN /\ straddled' = straddled
    BY <1>2, Zenon DEF DropVideoFrameOff, DropVideoFrame, EnableTemporalDecimation
  <2>3. UNCHANGED <<tasks, ui, output, is_working_, thread_, reporter, video>>
    BY <1>2, Zenon DEF DropVideoFrameOff, DropVideoFrame, EnableTemporalDecimation
  <2> QED BY <2>1, <2>2, <2>3
<1>3. ASSUME LiveOutputStart \/ LiveOutputStop PROVE TypeOK'
  <2>1. Tail(tasks) \in Seq(Messages) /\ Len(Tail(tasks)) = Len(tasks) - 1
    BY <1>3, HeadTailProperties DEF LiveOutputStart, LiveOutputStop
  <2>2. tasks' \in Seq(Messages) /\ Len(tasks') <= MaxTasks
    BY <1>3, <2>1, LenProperties DEF LiveOutputStart, LiveOutputStop
  <2>3. ui' \in UiSteps /\ output' \in Outputs
    BY <1>3 DEF LiveOutputStart, LiveOutputStop
  <2>4. UNCHANGED <<is_working_, thread_, reporter, video, limits>>
    BY <1>3 DEF LiveOutputStart, LiveOutputStop
  <2> QED BY <2>2, <2>3, <2>4
<1>4. ASSUME StartCapture \/ StartFails \/ ServiceInit PROVE TypeOK'
  BY <1>4 DEF StartCapture, StartFails, ServiceInit, Ui
<1>5. ASSUME StartResetsLimiter PROVE TypeOK'
  <2>1. limiter' = "off" /\ asked' = FALSE /\ pool' = pool /\ ui' = "idle"
    BY <1>5 DEF StartResetsLimiter, Ui
  <2>2. straddled' \in BOOLEAN
    <3>1. (pool = "setting") \in BOOLEAN
      OBVIOUS
    <3> QED BY <1>5, <3>1, Zenon DEF StartResetsLimiter
  <2>3. UNCHANGED <<tasks, output, is_working_, thread_, reporter, video>>
    BY <1>5 DEF StartResetsLimiter
  <2> QED BY <2>1, <2>2, <2>3
<1>6. ASSUME ClearIsWorking \/ NotifyReporter PROVE TypeOK'
  <2>1. ui' \in UiSteps /\ reporter' \in RunLoop
    BY <1>6 DEF ClearIsWorking, NotifyReporter, Ui
  <2>2. is_working_' \in BOOLEAN
    BY <1>6, Zenon DEF ClearIsWorking, NotifyReporter
  <2>3. (thread_' = "null") <=> (reporter' = "none")
    BY <1>6 DEF ClearIsWorking, NotifyReporter
  <2>4. UNCHANGED <<tasks, output, thread_, video, limiter, pool, asked, straddled>>
    BY <1>6 DEF ClearIsWorking, NotifyReporter
  <2> QED BY <2>1, <2>2, <2>3, <2>4
<1>7. ASSUME StopResetsLimiter PROVE TypeOK'
  <2>1. limiter' = "off" /\ ui' = "clear"
    BY <1>7 DEF StopResetsLimiter, Ui
  <2>2. UNCHANGED <<tasks, output, is_working_, thread_, reporter, video,
                    pool, asked, straddled>>
    BY <1>7 DEF StopResetsLimiter
  <2> QED BY <2>1, <2>2
<1>8. ASSUME JoinReporter \/ StopOutput \/ ReleaseOutput PROVE TypeOK'
  BY <1>8 DEF JoinReporter, StopOutput, ReleaseOutput, Ui
<1>9. CASE ReporterThread
  BY <1>9 DEF ReporterThread, Reporter, CheckLoop, LockAndWait, WaitTimeout, CheckWoken, SendReport
<1>10. CASE EnterFrame \/ LeaveFrame \/ EndCapture
  BY <1>10 DEF EnterFrame, LeaveFrame, EndCapture
<1>11. CASE UNCHANGED vars
  BY <1>11 DEF vars
<1> HIDE DEF TypeOK
<1> QED BY <1>1, <1>2, <1>3, <1>4, <1>5, <1>6, <1>7, <1>8, <1>9, <1>10, <1>11
       DEF Next, UiThread

(* The variables of LiveOutput.tla keep their types, and a std::thread is  *)
(* held exactly as long as its reporter is not joined.                     *)
THEOREM TypeCorrect == Spec => []TypeOK
<1>1. Init => TypeOK
  <2>1. <<>> \in Seq(Messages) /\ Len(<<>>) = 0
    BY EmptySeq, EmptySequence
  <2> SUFFICES ASSUME Init PROVE TypeOK
    OBVIOUS
  <2>2. tasks \in Seq(Messages) /\ Len(tasks) <= MaxTasks
    BY <2>1, TasksAssumption DEF Init
  <2> QED BY <2>2 DEF Init, TypeOK, UiSteps, Outputs, RunLoop
<1> QED BY <1>1, TypeStep, PTL DEF Spec

-----------------------------------------------------------------------------
NoReporter == thread_ = "null" /\ reporter = "none"
Reporting == thread_ = "joinable" /\ is_working_ /\ reporter \notin {"none", "exited"}

SessionInv ==
  /\ ui = "idle" => \/ output = "none" /\ NoReporter
                    \/ output = "capturing" /\ Reporting
  /\ ui = "start" => output = "created" /\ NoReporter
  /\ ui = "init" => output = "capturing" /\ NoReporter
  /\ ui = "limiter" => output = "capturing" /\ Reporting
  /\ ui \in {"resetLimiter", "clear"} => \/ output = "created" /\ NoReporter
                                         \/ output = "capturing" /\ Reporting
  /\ ui \in {"notify", "join"} => output \in {"created", "capturing"}
  /\ ui = "stop" => output \in {"created", "capturing"} /\ NoReporter
  /\ ui = "release" => output \in {"created", "ending", "ended"} /\ NoReporter
  /\ video = "inside" => output \in {"capturing", "ending"}

LEMMA SessionStep == TypeOK /\ SessionInv /\ [Next]_vars => SessionInv'
<1> SUFFICES ASSUME TypeOK, SessionInv, [Next]_vars PROVE SessionInv'
  OBVIOUS
<1> USE DEF TypeOK, UiSteps, Outputs, RunLoop, SessionInv, NoReporter, Reporting, limits
<1>1. CASE \E m \in Messages : PostMessage(m)
  BY <1>1 DEF PostMessage
<1>2. CASE DropVideoFrameOff \/ DropVideoFrame \/ EnableTemporalDecimation
  BY <1>2 DEF DropVideoFrameOff, DropVideoFrame, EnableTemporalDecimation
<1>3. CASE LiveOutputStart
  BY <1>3 DEF LiveOutputStart
<1>4. CASE StartCapture
  BY <1>4 DEF StartCapture, Ui
<1>5. CASE StartFails
  BY <1>5 DEF StartFails, Ui
<1>6. CASE ServiceInit
  BY <1>6 DEF ServiceInit, Ui
<1>7. CASE StartResetsLimiter
  BY <1>7 DEF StartResetsLimiter, Ui
<1>8. CASE LiveOutputStop
  BY <1>8 DEF LiveOutputStop
<1>9. CASE StopResetsLimiter
  BY <1>9 DEF StopResetsLimiter, Ui
<1>10. CASE ClearIsWorking
  BY <1>10 DEF ClearIsWorking, Ui
<1>11. CASE NotifyReporter
  BY <1>11 DEF NotifyReporter, Ui
<1>12. CASE JoinReporter
  BY <1>12 DEF JoinReporter, Ui
<1>13. CASE StopOutput
  BY <1>13 DEF StopOutput, Ui
<1>14. CASE ReleaseOutput
  BY <1>14 DEF ReleaseOutput, Ui
<1>15. CASE ReporterThread
  BY <1>15 DEF ReporterThread, Reporter, CheckLoop, LockAndWait, WaitTimeout, CheckWoken, SendReport
<1>16. CASE EnterFrame \/ LeaveFrame \/ EndCapture
  BY <1>16 DEF EnterFrame, LeaveFrame, EndCapture
<1>17. CASE UNCHANGED vars
  BY <1>17 DEF vars
<1> QED BY <1>1, <1>2, <1>3, <1>4, <1>5, <1>6, <1>7, <1>8, <1>9, <1>10, <1>11,
           <1>12, <1>13, <1>14, <1>15, <1>16, <1>17 DEF Next, UiThread

LEMMA SessionCorrect == Spec => [](TypeOK /\ SessionInv)
<1>1. Init => SessionInv
  BY DEF Init, SessionInv, NoReporter
<1> QED BY <1>1, TypeCorrect, SessionStep, PTL DEF Spec

(* Between two requests a reporter runs exactly when there is an output,   *)
(* and Init never finds the std::thread of an earlier session.             *)
THEOREM ReporterIsTheOutputs == Spec => []ReporterFollowsOutput
<1>1. TypeOK /\ SessionInv => ReporterFollowsOutput
  BY DEF TypeOK, SessionInv, NoReporter, Reporting, ReporterFollowsOutput
<1> QED BY <1>1, SessionCorrect, PTL

(* Once LiveOutputStop has returned, neither a report nor a frame callback *)
(* of the session is under way.                                            *)
THEOREM StopLeavesNothing == Spec => []NothingAfterStop
<1>1. TypeOK /\ SessionInv => NothingAfterStop
  BY DEF TypeOK, UiSteps, Outputs, SessionInv, NoReporter, NothingAfterStop
<1> QED BY <1>1, SessionCorrect, PTL

-----------------------------------------------------------------------------
(* A request under way counts as a limit already.                          *)
LimitInv ==
  ui = "idle" /\ output = "capturing" /\ (limiter = "set" \/ pool = "setting")
    => asked \/ straddled

LEMMA LimitStep ==
  SessionInv /\ LimitInv /\ [Next]_vars => LimitInv'
<1> SUFFICES ASSUME SessionInv, LimitInv, [Next]_vars
             PROVE LimitInv'
  OBVIOUS
<1> USE DEF LimitInv, limits
<1>1. CASE (\E m \in Messages : PostMessage(m)) \/ UNCHANGED vars
  BY <1>1 DEF PostMessage, vars
<1>2. CASE DropVideoFrameOff \/ DropVideoFrame \/ EnableTemporalDecimation
  BY <1>2 DEF DropVideoFrameOff, DropVideoFrame, EnableTemporalDecimation
<1>3. CASE LiveOutputStart
  BY <1>3 DEF LiveOutputStart
<1>4. CASE LiveOutputStop
  BY <1>4 DEF LiveOutputStop
<1>5. CASE StartResetsLimiter
  BY <1>5 DEF StartResetsLimiter, Ui
<1>6. CASE ReleaseOutput
  BY <1>6 DEF ReleaseOutput, Ui
<1>7. CASE StartCapture \/ StartFails \/ ServiceInit
  BY <1>7 DEF StartCapture, StartFails, ServiceInit, Ui
<1>8. CASE StopResetsLimiter \/ ClearIsWorking \/ NotifyReporter \/ JoinReporter \/ StopOutput
  BY <1>8 DEF StopResetsLimiter, ClearIsWorking, NotifyReporter, JoinReporter, StopOutput, Ui
<1>9. CASE ReporterThread
  BY <1>9 DEF ReporterThread, Reporter, CheckLoop, LockAndWait, WaitTimeout, CheckWoken, SendReport
<1>10. CASE EnterFrame \/ LeaveFrame \/ EndCapture
  BY <1>10 DEF EnterFrame, LeaveFrame, EndCapture
<1> QED BY <1>1, <1>2, <1>3, <1>4, <1>5, <1>6, <1>7, <1>8, <1>9, <1>10 DEF Next, UiThread

(* A session runs under a limit only if the host asked for it since that   *)
(* session was started, or was asking while Start reset the limiter.       *)
THEOREM LimitBelongsToSession == Spec => []LimitIsThisSessions
<1>1. Init => LimitInv
  BY DEF Init, LimitInv
<1>2. LimitInv => LimitIsThisSessions
  BY DEF LimitInv, LimitIsThisSessions
<1> QED BY <1>1, <1>2, LimitStep, SessionCorrect, PTL DEF Spec
=============================================================================
