----------------------------- MODULE LiveOutput -----------------------------
(***************************************************************************)
(* A live session: FLOBSManager::LiveOutputStart and LiveOutputStop, the   *)
(* thread of FLOBSInfoReportService they start and join, and the libobs    *)
(* output whose video thread calls OnObsOutputVideoFrameFun.               *)
(*                                                                         *)
(* The host's LIVEOUTPUT_START and LIVEOUTPUT_STOP messages are tasks of   *)
(* the UI thread.  The reporter thread, the video thread, libobs' thread   *)
(* that ends a capture and the pool worker that sets the frame limiter     *)
(* run beside it, each as far as it shares state with a session.           *)
(***************************************************************************)
EXTENDS Naturals, Sequences

CONSTANT MaxTasks  \* bound: session messages the host has outstanding

ASSUME TasksAssumption == MaxTasks \in Nat \ {0}

VARIABLES
  tasks,       \* the session messages posted to the UI thread, oldest first
  ui,          \* what the UI thread does next in Start or Stop
  output,      \* m_liveOutput and its capture
  is_working_, \* of the report service
  thread_,     \* of the report service: the std::thread object
  reporter,    \* where __RunLoop is
  video,       \* the video thread: outside or inside the frame callback
  limiter,     \* the decimator: "off" or "set"
  pool,        \* the pool worker: in the middle of setting the limiter?
  asked,       \* history: a limit was asked for since Start reset the limiter
  straddled    \* history: that reset fell into a request that sets it

limits == <<limiter, pool, asked, straddled>>
vars == <<tasks, ui, output, is_working_, thread_, reporter, video, limits>>

Messages == {"start", "stop"}
UiSteps == {"idle", "start", "init", "limiter",
            "resetLimiter", "clear", "notify", "join", "stop", "release"}
Outputs == {"none", "created", "capturing", "ending", "ended"}
RunLoop == {"none", "check", "lock", "wait", "woken", "report", "exited"}

Init ==
  /\ tasks = <<>>
  /\ ui = "idle"
  /\ output = "none"
  /\ is_working_ = FALSE
  /\ thread_ = "null"
  /\ reporter = "none"
  /\ video = "outside"
  /\ limiter = "off"
  /\ pool = "idle"
  /\ asked = FALSE
  /\ straddled = FALSE

-----------------------------------------------------------------------------
(* The host, through the mojo thread.                                      *)
PostMessage(m) ==
  /\ Len(tasks) < MaxTasks
  /\ tasks' = Append(tasks, m)
  /\ UNCHANGED <<ui, output, is_working_, thread_, reporter, video, limits>>

(* MEANRATEINFO requests, on the pool worker, live or not: one resets the  *)
(* limiter, another sets it in several stores unless it is set that way    *)
(* already.                                                                *)
DropVideoFrameOff ==
  /\ pool = "idle"
  /\ limiter' = "off"
  /\ UNCHANGED <<tasks, ui, output, is_working_, thread_, reporter, video,
                 pool, asked, straddled>>

DropVideoFrame ==
  /\ pool = "idle"
  /\ pool' = "setting"
  /\ asked' = TRUE
  /\ UNCHANGED <<tasks, ui, output, is_working_, thread_, reporter, video,
                 limiter, straddled>>

EnableTemporalDecimation ==
  /\ pool = "setting"
  /\ pool' = "idle"
  /\ limiter' \in {"set", limiter}
  /\ UNCHANGED <<tasks, ui, output, is_working_, thread_, reporter, video,
                 asked, straddled>>

-----------------------------------------------------------------------------
(* The UI thread.                                                          *)
Ui(here, there) == ui = here /\ ui' = there

(* LiveOutputStart: a second start is ignored.                             *)
LiveOutputStart ==
  /\ ui = "idle" /\ tasks # <<>> /\ Head(tasks) = "start"
  /\ tasks' = Tail(tasks)
  /\ IF output = "none"
     THEN ui' = "start" /\ output' = "created"
     ELSE UNCHANGED <<ui, output>>
  /\ UNCHANGED <<is_working_, thread_, reporter, video, limits>>

(* obs_output_start: the capture runs before it returns, or it fails and   *)
(* LiveOutputStop is called.                                               *)
StartCapture ==
  /\ Ui("start", "init")
  /\ output' = "capturing"
  /\ UNCHANGED <<tasks, is_working_, thread_, reporter, video, limits>>

(* Mutant of StartFails: the failure is not noticed.                       *)
StartFailsUnnoticed ==
  /\ Ui("start", "init")
  /\ UNCHANGED <<tasks, output, is_working_, thread_, reporter, video, limits>>

StartFails ==
  /\ Ui("start", "resetLimiter")
  /\ UNCHANGED <<tasks, output, is_working_, thread_, reporter, video, limits>>

(* FLOBSInfoReportService::__Init.                                         *)
ServiceInit ==
  /\ Ui("init", "limiter")
  /\ is_working_' = TRUE
  /\ thread_' = "joinable"
  /\ reporter' = "check"
  /\ UNCHANGED <<tasks, output, video, limits>>

(* Mutant of StartResetsLimiter: the session goes on with the limiter it   *)
(* finds.                                                                  *)
StartKeepsLimiter ==
  /\ Ui("limiter", "idle")
  /\ asked' = FALSE
  /\ straddled' = (pool = "setting")
  /\ UNCHANGED <<tasks, output, is_working_, thread_, reporter, video, pool,
                 limiter>>

StartResetsLimiter ==
  /\ Ui("limiter", "idle")
  /\ limiter' = "off"
  /\ asked' = FALSE
  /\ straddled' = (pool = "setting")
  /\ UNCHANGED <<tasks, output, is_working_, thread_, reporter, video, pool>>

LiveOutputStop ==
  /\ ui = "idle" /\ tasks # <<>> /\ Head(tasks) = "stop"
  /\ tasks' = Tail(tasks)
  /\ ui' = IF output = "none" THEN "idle" ELSE "resetLimiter"
  /\ UNCHANGED <<output, is_working_, thread_, reporter, video, limits>>

StopResetsLimiter ==
  /\ Ui("resetLimiter", "clear")
  /\ limiter' = "off"
  /\ UNCHANGED <<tasks, output, is_working_, thread_, reporter, video,
                 pool, asked, straddled>>

(* FLOBSInfoReportService::__Cleanup, in its three steps.                  *)
ClearIsWorking ==
  /\ Ui("clear", "notify")
  /\ is_working_' = FALSE
  /\ UNCHANGED <<tasks, output, thread_, reporter, video, limits>>

NotifyReporter ==
  /\ Ui("notify", "join")
  /\ reporter' = IF reporter = "wait" THEN "woken" ELSE reporter
  /\ UNCHANGED <<tasks, output, is_working_, thread_, video, limits>>

JoinReporter ==
  /\ Ui("join", "stop")
  /\ thread_ = "joinable" => reporter = "exited"
  /\ thread_' = "null"
  /\ reporter' = "none"
  /\ UNCHANGED <<tasks, output, is_working_, video, limits>>

(* obs_output_stop leaves the end of the capture to a thread of libobs.    *)
StopOutput ==
  /\ Ui("stop", "release")
  /\ output' = IF output = "capturing" THEN "ending" ELSE output
  /\ UNCHANGED <<tasks, is_working_, thread_, reporter, video, limits>>

(* Mutant of ReleaseOutput: the output is given up without waiting.        *)
ReleaseAtOnce ==
  /\ Ui("release", "idle")
  /\ output' = "none"
  /\ UNCHANGED <<tasks, is_working_, thread_, reporter, video, limits>>

(* obs_output_release destroys the output, which joins that thread.        *)
ReleaseOutput ==
  /\ Ui("release", "idle")
  /\ output # "ending"
  /\ output' = "none"
  /\ UNCHANGED <<tasks, is_working_, thread_, reporter, video, limits>>

UiThread ==
  \/ LiveOutputStart \/ StartCapture \/ StartFails \/ ServiceInit \/ StartResetsLimiter
  \/ LiveOutputStop \/ StopResetsLimiter \/ ClearIsWorking \/ NotifyReporter
  \/ JoinReporter \/ StopOutput \/ ReleaseOutput

-----------------------------------------------------------------------------
(* The reporter thread: __RunLoop.                                         *)
Reporter(here, there) ==
  /\ reporter = here
  /\ reporter' = there
  /\ UNCHANGED <<tasks, ui, output, is_working_, thread_, video, limits>>

(* is_working_ is read before mutex_ is taken, and written without it.     *)
CheckLoop == Reporter("check", IF is_working_ THEN "lock" ELSE "exited")
LockAndWait == Reporter("lock", "wait")

(* Mutant of WaitTimeout: condition_.wait, without a timeout.              *)
NeverTimesOut == FALSE /\ Reporter("wait", "woken")

WaitTimeout == Reporter("wait", "woken")

CheckWoken == Reporter("woken", IF is_working_ THEN "report" ELSE "exited")
SendReport == Reporter("report", "check")

ReporterThread == CheckLoop \/ LockAndWait \/ WaitTimeout \/ CheckWoken \/ SendReport

-----------------------------------------------------------------------------
(* libobs: frames while a capture is connected; the end of a capture takes *)
(* the lock the video thread holds around its callbacks.                   *)
EnterFrame ==
  /\ video = "outside" /\ output \in {"capturing", "ending"}
  /\ video' = "inside"
  /\ UNCHANGED <<tasks, ui, output, is_working_, thread_, reporter, limits>>

LeaveFrame ==
  /\ video = "inside"
  /\ video' = "outside"
  /\ UNCHANGED <<tasks, ui, output, is_working_, thread_, reporter, limits>>

EndCapture ==
  /\ output = "ending" /\ video = "outside"
  /\ output' = "ended"
  /\ UNCHANGED <<tasks, ui, is_working_, thread_, reporter, video, limits>>

Next ==
  \/ \E m \in Messages : PostMessage(m)
  \/ DropVideoFrameOff \/ DropVideoFrame \/ EnableTemporalDecimation
  \/ UiThread
  \/ ReporterThread
  \/ EnterFrame \/ LeaveFrame \/ EndCapture

Spec == Init /\ [][Next]_vars

(* Threads run; a frame callback returns; the lock is not withheld forever *)
(* from the thread that ends a capture.                                    *)
Fairness ==
  /\ WF_vars(UiThread)
  /\ WF_vars(ReporterThread)
  /\ WF_vars(LeaveFrame)
  /\ SF_vars(EndCapture)

FairSpec == Spec /\ Fairness

-----------------------------------------------------------------------------
(* Properties.                                                             *)
TypeOK ==
  /\ tasks \in Seq(Messages) /\ Len(tasks) <= MaxTasks
  /\ ui \in UiSteps
  /\ output \in Outputs
  /\ is_working_ \in BOOLEAN
  /\ thread_ \in {"null", "joinable"}
  /\ reporter \in RunLoop
  /\ video \in {"outside", "inside"}
  /\ limiter \in {"off", "set"}
  /\ pool \in {"idle", "setting"}
  /\ asked \in BOOLEAN /\ straddled \in BOOLEAN
  /\ thread_ = "joinable" <=> reporter # "none"

(* Between two requests a reporter runs if and only if there is an output, *)
(* whether the last start succeeded or failed: no start finds the thread   *)
(* of an earlier session (assigning over a joinable std::thread ends the   *)
(* program) and no session goes without its reports.                       *)
ReporterFollowsOutput ==
  /\ ui = "idle" =>
       (thread_ = "joinable" /\ reporter # "exited") = (output = "capturing")
  /\ ui = "init" => thread_ = "null" /\ reporter = "none"

(* Once LiveOutputStop has returned nothing of the session is left: no     *)
(* report under way, no frame callback.                                    *)
NothingAfterStop ==
  output = "none" => reporter = "none" /\ video = "outside"

(* A session runs under a limit only if the host asked for it in that      *)
(* session: a limit asked for before or between sessions is dropped by     *)
(* Start, which resets the limiter last, unless the request was under way  *)
(* at that moment.                                                         *)
LimitIsThisSessions ==
  (ui = "idle" /\ output = "capturing" /\ limiter = "set") => asked \/ straddled

(* Start and Stop always return to the UI thread.  Nothing but the timeout *)
(* of the reporter's wait ensures it: is_working_ can be cleared and the   *)
(* notification sent between the reporter's test and its wait.             *)
UiReturns == (ui # "idle") ~> (ui = "idle")
=============================================================================
