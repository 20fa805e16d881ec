---------------------------- MODULE VideoSettings ----------------------------
(***************************************************************************)
(* The canvas and the frame rate: FLOBSManager::UpdatePreviewCanvas with   *)
(* ResetVideo on the UI thread, SetVideoFPS on the pool worker, and what   *)
(* obs_reset_video makes of them.                                          *)
(*                                                                         *)
(* The canvas is kept five times: in basic.ini, in canvas_size_ and        *)
(* base_window_size_, in libobs, and by the host.  Either thread builds    *)
(* all the video settings, from what it reads at its start, to change one  *)
(* of them; obs_reset_video takes no lock and refuses while an output is   *)
(* active.  What two calls inside it at once do to each other is left out: *)
(* here it looks at the outputs in one step and installs in a second one.  *)
(* m_canvas_mode_ is left out too: nothing reads it.                       *)
(***************************************************************************)
EXTENDS Naturals

CONSTANTS
  Sizes,       \* canvases that libobs takes
  TooSmall,    \* one that it does not take
  Rates,       \* frame rates the host asks for; 0 asks for none
  MaxChanges   \* bound: messages of the host, and restarts

ASSUME SizeAssumption == TooSmall \notin Sizes
ASSUME RateAssumption == Rates \subseteq Nat
ASSUME BoundAssumption == MaxChanges \in Nat

DefaultRate == 30
Canvases == Sizes \cup {TooSmall}
AllRates == Rates \cup {DefaultRate}
Settings == [size : Canvases, fps : AllRates \ {0}]

VARIABLES
  changes,
  running,            \* OBSInit succeeded
  config,             \* BaseCX and BaseCY in basic.ini
  canvas_size_, base_window_size_,
  hostCanvas,         \* the canvas last sent to the host
  scaled,             \* the canvas the mouse's scale was computed for
  fpsnum_,            \* 0 until the host asks for a rate
  ovi, up,            \* libobs' video settings, and whether it has video
  active,             \* the live output runs
  ui, pool,           \* where each thread is, and the settings it will install
  refused,   \* history: the canvas asked for last was refused, or failed
  silent,    \* history: the canvas was installed by the second attempt
  stale,     \* history: a thread went by settings the other had changed, and
             \* no canvas was installed since
  owed       \* history: the host was told of a canvas and has not asked for
             \* the preview to be scaled since

canvas == <<config, canvas_size_, base_window_size_, hostCanvas, scaled>>
history == <<refused, silent, stale, owed>>
vars == <<changes, running, canvas, fpsnum_, ovi, up, active, ui, pool, history>>

UiSteps == {"idle", "check", "init", "retry"}
PoolSteps == {"idle", "read", "check", "init"}

(* OBSInit with the canvas of basic.ini.                                   *)
Started(size) ==
  /\ running' = (size \in Sizes) /\ up' = (size \in Sizes)
  /\ canvas_size_' = size /\ base_window_size_' = size
  /\ hostCanvas' = size /\ scaled' = size
  /\ fpsnum_' = 0 /\ active' = FALSE
  /\ ovi' = [size |-> size, fps |-> DefaultRate]
  /\ ui' = [at |-> "idle", ovi |-> ovi'] /\ pool' = [at |-> "idle", ovi |-> ovi']
  /\ refused' = FALSE /\ silent' = FALSE /\ stale' = FALSE /\ owed' = FALSE

Init ==
  /\ changes = 0 /\ running = TRUE /\ up = TRUE
  /\ config \in Sizes
  /\ canvas_size_ = config /\ base_window_size_ = config
  /\ hostCanvas = config /\ scaled = config
  /\ fpsnum_ = 0 /\ active = FALSE
  /\ ovi = [size |-> config, fps |-> DefaultRate]
  /\ ui = [at |-> "idle", ovi |-> ovi] /\ pool = [at |-> "idle", ovi |-> ovi]
  /\ refused = FALSE /\ silent = FALSE /\ stale = FALSE /\ owed = FALSE

Change == changes < MaxChanges /\ changes' = changes + 1

(* The process ends and is started again; a start may fail for good.       *)
Restart ==
  /\ running /\ Change
  /\ Started(config)
  /\ UNCHANGED config

-----------------------------------------------------------------------------
(* The UI thread.                                                          *)
UiAt(here) == running /\ ui.at = here

(* GetFPSNum, or the rate there is.                                        *)
Wanted(default) == IF fpsnum_ = 0 THEN default ELSE fpsnum_

(* UpdateCanvasSize saves the canvas; ResetVideo begins with it and with   *)
(* the rate the host asked for, or the one of basic.ini.                   *)
UpdatePreviewCanvas(size) ==
  /\ UiAt("idle") /\ Change
  /\ config' = size /\ canvas_size_' = size
  /\ ui' = [at |-> "check", ovi |-> [size |-> size, fps |-> Wanted(DefaultRate)]]
  /\ UNCHANGED <<running, base_window_size_, hostCanvas, scaled, fpsnum_, ovi, up,
                 active, pool, history>>

(* Mutant of RefuseCanvas: the host is told all the same.                  *)
RefuseAndTell ==
  /\ UiAt("check")
  /\ active \/ ui.ovi.size \notin Sizes
  /\ ui' = [ui EXCEPT !.at = "idle"]
  /\ base_window_size_' = config /\ hostCanvas' = config
  /\ refused' = TRUE
  /\ UNCHANGED <<changes, running, config, canvas_size_, scaled, fpsnum_, ovi, up, active,
                 pool, silent, stale, owed>>

(* obs_reset_video refuses at once: ResetVideo returns, or tries OpenGL,   *)
(* to be refused again.                                                    *)
RefuseCanvas ==
  /\ UiAt("check")
  /\ active \/ ui.ovi.size \notin Sizes
  /\ ui' = [ui EXCEPT !.at = "idle"]
  /\ refused' = TRUE
  /\ UNCHANGED <<changes, running, canvas, fpsnum_, ovi, up, active, pool, silent, stale,
                 owed>>

AcceptCanvas ==
  /\ UiAt("check")
  /\ ~active /\ ui.ovi.size \in Sizes
  /\ ui' = [ui EXCEPT !.at = "init"]
  /\ UNCHANGED <<changes, running, canvas, fpsnum_, ovi, up, active, pool, history>>

(* All the settings are replaced, whatever had become of them before.      *)
InstallUi ==
  /\ ovi' = ui.ovi /\ up' = TRUE
  /\ stale' = (Wanted(ui.ovi.fps) # ui.ovi.fps)

ResetCanvas ==
  /\ UiAt("init")
  /\ InstallUi
  /\ base_window_size_' = config /\ hostCanvas' = config
  /\ ui' = [ui EXCEPT !.at = "idle"]
  /\ refused' = FALSE /\ silent' = FALSE /\ owed' = TRUE
  /\ UNCHANGED <<changes, running, config, canvas_size_, scaled, fpsnum_, active, pool>>

(* It fails when video was already stopped; the second attempt says        *)
(* nothing to the host, whether it succeeds or not.                        *)
ResetCanvasFails ==
  /\ UiAt("init")
  /\ up' = FALSE
  /\ ui' = [ui EXCEPT !.at = "retry"]
  /\ UNCHANGED <<changes, running, canvas, fpsnum_, ovi, active, pool, history>>

RetryCanvas ==
  /\ UiAt("retry")
  /\ \/ InstallUi /\ silent' = TRUE
     \/ up' = FALSE /\ UNCHANGED <<ovi, silent, stale>>
  /\ ui' = [ui EXCEPT !.at = "idle"]
  /\ refused' = TRUE
  /\ UNCHANGED <<changes, running, canvas, fpsnum_, active, pool, owed>>

(* LiveOutputStart and LiveOutputStop; a start fails without video.        *)
LiveOutputStart ==
  /\ UiAt("idle") /\ ~active /\ up /\ Change
  /\ active' = TRUE
  /\ UNCHANGED <<running, canvas, fpsnum_, ovi, up, ui, pool, history>>

LiveOutputStop ==
  /\ UiAt("idle") /\ active
  /\ active' = FALSE
  /\ UNCHANGED <<changes, running, canvas, fpsnum_, ovi, up, ui, pool, history>>

(* ResetOBSPreviewSize, when the host says that its window changed, of     *)
(* itself or because it heard of a canvas.                                 *)
OnPreviewChange ==
  /\ UiAt("idle")
  /\ scaled' = base_window_size_
  /\ owed' = FALSE
  /\ UNCHANGED <<changes, running, config, canvas_size_, base_window_size_, hostCanvas,
                 fpsnum_, ovi, up, active, ui, pool, refused, silent, stale>>

UiThread ==
  \/ RefuseCanvas \/ AcceptCanvas \/ ResetCanvas \/ ResetCanvasFails \/ RetryCanvas
  \/ OnPreviewChange

-----------------------------------------------------------------------------
(* The pool worker.                                                        *)
PoolAt(here) == running /\ pool.at = here

ObsFpsInfo(fps) ==
  /\ PoolAt("idle") /\ Change
  /\ fpsnum_' = fps
  /\ pool' = [pool EXCEPT !.at = "read"]
  /\ UNCHANGED <<running, canvas, ovi, up, active, ui, history>>

(* SetVideoFPS copies all the settings to change one of them.              *)
ReadSettings ==
  /\ PoolAt("read")
  /\ pool' = [at |-> IF Wanted(ovi.fps) = ovi.fps THEN "idle" ELSE "check", ovi |-> ovi]
  /\ UNCHANGED <<changes, running, canvas, fpsnum_, ovi, up, active, ui, history>>

GiveRateUp ==
  /\ fpsnum_' = pool.ovi.fps
  /\ stale' = (stale \/ ovi # pool.ovi)
  /\ pool' = [pool EXCEPT !.at = "idle"]
  /\ UNCHANGED <<changes, running, canvas, ovi, active, ui, refused, silent, owed>>

RefuseRate == PoolAt("check") /\ active /\ GiveRateUp /\ UNCHANGED up

AcceptRate ==
  /\ PoolAt("check") /\ ~active
  /\ pool' = [pool EXCEPT !.at = "init"]
  /\ UNCHANGED <<changes, running, canvas, fpsnum_, ovi, up, active, ui, history>>

(* Mutant of SetVideoFPS: the rest of the settings comes from basic.ini,   *)
(* where a canvas is that may have been refused.                           *)
SetFromConfig ==
  /\ PoolAt("init")
  /\ ovi' = [size |-> config, fps |-> fpsnum_] /\ up' = TRUE
  /\ pool' = [pool EXCEPT !.at = "idle"]
  /\ UNCHANGED <<changes, running, canvas, fpsnum_, active, ui, history>>

SetVideoFPS ==
  /\ PoolAt("init")
  /\ ovi' = [pool.ovi EXCEPT !.fps = fpsnum_] /\ up' = TRUE
  /\ stale' = (stale \/ ovi # pool.ovi)
  /\ pool' = [pool EXCEPT !.at = "idle"]
  /\ UNCHANGED <<changes, running, canvas, fpsnum_, active, ui, refused, silent, owed>>

SetVideoFPSFails == PoolAt("init") /\ GiveRateUp /\ up' = FALSE

PoolThread ==
  ReadSettings \/ RefuseRate \/ AcceptRate \/ SetVideoFPS \/ SetVideoFPSFails

Next ==
  \/ \E size \in Canvases : UpdatePreviewCanvas(size)
  \/ \E fps \in Rates : ObsFpsInfo(fps)
  \/ LiveOutputStart \/ LiveOutputStop \/ Restart
  \/ UiThread \/ PoolThread

Spec == Init /\ [][Next]_vars

-----------------------------------------------------------------------------
(* What must hold.                                                         *)

TypeOK ==
  /\ changes \in 0 .. MaxChanges
  /\ {running, up, active, refused, silent, stale, owed} \subseteq BOOLEAN
  /\ {config, canvas_size_, base_window_size_, hostCanvas, scaled} \subseteq Canvases
  /\ fpsnum_ \in AllRates \cup {0}
  /\ ovi \in Settings
  /\ ui \in [at : UiSteps, ovi : Settings] /\ pool \in [at : PoolSteps, ovi : Settings]

(* Between two changes of the canvas all its copies are the same: basic.ini *)
(* (what the next run starts with), canvas_size_ and base_window_size_     *)
(* (what items and the preview are laid out by) and libobs' own; but for a *)
(* canvas that was refused while the host was live, and a change of rate   *)
(* that was under way at the same time.                                    *)
CanvasAgrees ==
  running /\ ui.at = "idle" /\ ~refused /\ ~stale =>
    /\ ovi.size = config
    /\ canvas_size_ = config /\ base_window_size_ = config /\ hostCanvas = config

(* A canvas that was refused has changed basic.ini and canvas_size_ only:  *)
(* what the mouse and the preview are mapped by, and what the host was     *)
(* told, is what libobs draws, but after a second attempt that succeeded.  *)
RefusedCanvasStaysOut ==
  running /\ ~stale /\ ~silent => base_window_size_ = ovi.size /\ hostCanvas = ovi.size

(* When both threads are idle, the rate asked for is the one libobs runs   *)
(* at, also after a refusal; but for an overlap (SetVideoFPS).             *)
RateAgrees ==
  running /\ ui.at = "idle" /\ pool.at = "idle" /\ ~stale => fpsnum_ \in {0, ovi.fps}

(* A change of the rate leaves the canvas alone unless the canvas was      *)
(* changed while it was under way.                                         *)
RateKeepsCanvas ==
  [][pool' # pool /\ running' /\ changes' = changes => ovi'.size = ovi.size \/ stale']_vars

(* obs.h says that video cannot be changed while an output is active.  A   *)
(* change of the rate that had looked at the outputs before the live       *)
(* output was started does change it; nothing else does, whichever thread  *)
(* is where when the output starts.                                        *)
NoChangeWhileActive ==
  [][active /\ active' /\ ovi' # ovi => pool.at = "init" /\ pool'.at = "idle"]_vars

(* The preview draws libobs' canvas; the mouse is mapped to it by a scale  *)
(* computed from base_window_size_ (ResetOBSPreviewSize), so a click can   *)
(* miss what is drawn.  It does so only until the host asks for the scale  *)
(* of the canvas it was last told of, but for a second attempt that        *)
(* succeeded and for an overlap.                                           *)
MouseMapsPicture ==
  running /\ ~owed /\ ~stale /\ ~silent => scaled = ovi.size

(* Wherever canvas and rate are kept they are the same.  What an overlap   *)
(* of the two threads has undone is put right by the next canvas that is   *)
(* installed while no rate is asked for, whatever overlapped before.       *)
SettingsAgree == CanvasAgrees /\ RefusedCanvasStaysOut /\ RateAgrees /\ MouseMapsPicture

(* Neither change touches what is not its own: the canvas, a live output.  *)
ChangesKeepTheRest == RateKeepsCanvas /\ NoChangeWhileActive
=============================================================================
