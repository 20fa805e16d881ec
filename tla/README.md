# A TLA+ model of finderliveobs

finderliveobs is the helper process that wraps libobs for a live-streaming
client. The client (here *the host*) launches it, sends it requests over a
mojo pipe and receives composed video and audio frames in shared memory. The
program's own code is about 9,000 lines under `src/finderliveobs/` (`flobs`,
`flmojo`, `flui`, `flipc`, `flbase`, `main.cc`). libobs, Chromium's `base` and
the mojo library are vendored under `third_party`.

All paths below are relative to `src/finderliveobs/`.

## 1. Inventory

### Threads

| thread | where it comes from | what it runs |
| --- | --- | --- |
| UI | `main.cc:67`, `base::MessageLoop` | tasks posted by the dispatcher, in order: start and stop of the live output, added sources, the canvas; the preview window's messages |
| pool worker | `main.cc:74-87`, one foreground worker | requests with an answer (edits, devices, the frame limiter) and camera answers, in the order they were posted |
| mojo | the mojo library | the dispatcher, and `OnRemoteDisconnect`, which saves the project and ends the process |
| reporter | `FLOBSInfoReportService::__Init` | one report per second while live |
| video and audio | libobs | the output callbacks `OnObsOutput...FrameFun` |
| capture | one per DirectShow camera | `CameraVideoBeautifyCallback` |
| graphics and destruction | libobs | rendering, source signals, destruction of sources |

### Components

| component | state | operations | what makes it hard | what makes it correct | status |
| --- | --- | --- | --- | --- | --- |
| **Camera beautification relay** `flobs/flobs_camera_beautify.cc` | `lst_infos_`, `mutex_`, one `condition_`, `is_working_` | callback per frame, answer, removal, teardown | one condition variable for all cameras, `notify_one`, a wait without predicate or timeout, answers matched by item and not by frame, buffers used outside the lock | frames neither lost, duplicated nor overtaken; no thread left asleep; pictures on their frames | `CameraBeautify` |
| **Frame limiter** `flobs/flobs_video_decimator.cc` | six atomics | `Reset`, setters, `ResetIfNeed`, `DropFrame` | three threads and no lock; integer arithmetic with changes of sign | the requested rate is met; the stream never stalls; no division by zero | `VideoDecimator` |
| **Live output and report service** `flobs_manager.cc:2588-2625`, `flobs/flobs_inforeport_service.cc` | `m_liveOutput`; `is_working_`, `thread_`, `condition_` | start, stop, the report loop | joins, a notification that can be lost, an output that ends on another thread, a start that fails | a reporter exactly while there is an output; nothing left after stop; stop returns | `LiveOutput` |
| **Project store** `flobs_manager.cc:1149-1358`, `1720-1826` | `default.json`, `.bak`, `.tmp`; `is_initialize_` | `SaveProject`, `Load` | three threads save through one temporary file; the process is terminated at any point; calls fail | the next run finds what was saved | `ProjectStore` |
| **Scene and source manager** `flobs_manager.cc:1095-1106`, `2365-2414`, `2627-3286` | `m_currentSceneData` (the item list beside libobs' scene), the temporary camera display and its `camera_name_` | add and edit by kind of source, report, rename, remove | UI and pool change the list, the display and the reports without a lock; items are found by id, by name or by pointer | list, project and host agree with the scene; the display draws a live source; a request reaches the item it names | `SceneManager`; order, groups, transforms and the transition left out |
| **Start-up** `main.cc`, `flobs_manager.cc:599-726`, `1095-1158`, **mojo service** `flmojo/flmojo_service.cc`, **dispatcher** `flmojo/flmojo_recv.cc`, `flobs_task_executor.cc` | `is_initialize_`, the two queues, the scene while it is loaded | `main`, `Start`, `OBSInit`, `Load`, the three dispatchers, disconnection | messages arrive before the queues are served; the pool edits a half-loaded scene; items have ids for a moment that they do not keep; the mojo thread ends the process | every pull is answered; items are reported once, by their id, before the answer; no half-loaded project is saved | `StartUp`; about 40 kinds of message by one of each sort |
| **IO devices and filters** `flobs_iodevice.cc`, `flobs_filter_info.cc`, `flobs_manager.cc:867-978` | `lst_iodevice_`, `lst_filterinfos_`, the volumes | activation signals, `SetDeviceValue`, volume | the table and its entries are replaced by signals and edited by the pool, without a lock; a volume passes through a float | one filter of each kind; what was asked for, applied, reported and saved agree; no freed entry is used | `AudioFilters`, `AudioVolumes`; muting and the lists of properties left out |
| **Video settings and canvas** `flobs_manager.cc:1867-1955`, `2226-2310`, `2545-2586` | basic.ini, `canvas_size_`, `base_window_size_`, `fpsnum_`, libobs' settings | `UpdatePreviewCanvas`, `ResetVideo`, `SetVideoFPS`, `OnPreviewChange` | two threads each write back all settings to change one; libobs refuses while an output is active, after the code has saved | the five copies of the canvas agree; a live output keeps its video | `VideoSettings` |
| **Preview window** `flui/ms_window_win.cc` | the mouse state, `hoveredPreviewItem`, the stretched item | press, move, release, leave | gesture state outlives the gesture; items are removed, locked and selected by the pool meanwhile | the next gesture starts clean; a drag moves what it holds, by as much as the mouse; one item selected | `PreviewWindow`; rotation, crop, groups, cursor and drawing left out |
| **Phone casting** `flobs_manager.cc:3554-3728` | `phone_source_init_`, `last_scale_`, the phone's last size | direction, layout, removal | four fields outlive the item they describe; a division by a remembered fit | a new item is laid out anew; a turn keeps the item where it was, or at least on the canvas | `PhoneCasting` |
| Message wrappers, `flipc/flmojo` | ownership of a message | read, write, swap | nothing interleaves: each is moved into exactly one task | each message freed once | not modelled |
| Conversions (`flobs_util.cc`, `flobs_properyinfo.cc`, `flbase`) | none | pure | - | - | not modelled |
| `flproto`, `third_party` | - | generated, vendored | - | - | only the calls that an operation above rests on |

The components interact by tasks (dispatcher to UI and pool), by singletons
(`GetInstance()`) called from any thread, by signals of libobs (source and item
callbacks on the thread that caused them) and by the files of the project.

The hazards of this code, each at its line and with the properties that
watch it, are listed in `PROJECT.json`.

## 2. Modules

| module | what it is |
| --- | --- |
| `FrameRelay` | abstract: what a camera's way through the host promises |
| `CameraBeautify` | detailed: threads, mutex, condition variable, host, teardown; implements `FrameRelay` |
| `VideoDecimator`, `VideoDecimator_proofs` | the limiter, store by store |
| `LiveOutput`, `LiveOutput_proofs` | sessions |
| `ProjectFile` | abstract: what saving the project promises to those who save in turn |
| `ProjectStore`, `ProjectStore_proofs` | the project on disk; implements `ProjectFile` |
| `SceneManager`, `SceneManager_proofs` | the sources of the scene, on two threads |
| `StartUp`, `StartUp_proofs` | the start of the process, the queues, the load of the project |
| `AudioFilters`, `AudioVolumes` | the audio devices |
| `Devices_proofs` | proofs about the cameras (types, the lost-wakeup bound, the refinement, where pictures end up) and about `AudioFilters` and `AudioVolumes` |
| `VideoSettings`, `VideoSettings_proofs` | canvas and frame rate |
| `PreviewWindow` | the mouse in the preview |
| `PhoneCasting` | the layout of a mirrored phone |
| `Placement_proofs` | proofs about the two modules that place items, `PreviewWindow` and `PhoneCasting`, and about the instance of both in `MCPlacement` |
| `MC...` | the instances TLC checks. `MCPlacement` puts `PreviewWindow` and `PhoneCasting`, `MCAudio` the two audio modules into one instance; the parts share no state, and each moves only while the other is at rest |

The modules meet at the same operations: `SaveProject` is cut into file operations
in `ProjectStore`, into "generate" and "write" in `SceneManager` (where the order of two
savers matters) and is one step elsewhere; the start and stop of an output are cut into
steps in `LiveOutput` and are one step in `VideoSettings`; the queue of the UI thread is a
sequence in `LiveOutput` and `StartUp` and a choice of the next request elsewhere.

### CameraBeautify

A frame is its number in its camera's stream, a picture the number of the
frame it was computed from, `Raw` the camera's own picture. `mutex_` is held
from the top of the callback to the wait and from the return of the wait to the
unlock, so each half is one action: `SubmitFrame` (send, replace the entry,
block) and `Resume` (look up the entry, take frame and answer). The test of
`is_working_` and the search for the scene item happen before the lock and are
the action `CaptureFrame`; the output happens after the unlock and is
`OutputFrame`. `NotifyOne` wakes any one waiter. `WakeCameraVideoBeautify` is
the pool task that attaches an answer; answers are run in the order of `tasks`
because the pool has one worker. `HostAnswerUnreadable` and `HostIgnore` are the
ways the host can disappoint; `HostInOrder` makes it answer in order.

Three variables record what happened: `early`, returns from the wait before an
answer; `fake`, whether a wait returned that nobody notified; and `late`, the frame a
thread had between its tests and the lock when its camera was withdrawn.

`OBSUninit` is the only caller of `CameraVideoBeautifyDestoryAll` and has no
caller in the repository, so teardown stands behind the constant `WithUninit`.
A removal withdraws a camera in the same way and is live code (`RemoveSceneItem`).

The refinement of `FrameRelay` maps `taken` to the frame counter, `holding` to
"the thread is inside the callback" and `gone` to "removed or torn down".

### VideoDecimator

The video thread reads the three fields its callers set at the places where
`DropFrame` reads them, each read an action of its own: the target is tested at
line 47, compared at 50, subtracted at 52 and divided by at 72 and 77, and
another thread can store in between. Every store of `Reset` and of the setters
is an action of the thread that makes it. `overshoot_modifier_`, `drop_count_`
and `keep_count_` are read by `DropFrame` only and belong to the step of the
branch that uses them. `fault` is where an integer division by zero ends the
program. C's `%` and `/` round towards zero and the model's operators
towards minus infinity, so the one negative division is written out in
`KeepRun`. Rates are integers, because `fps_num` is one: the rounding at line 46
does nothing. A negative rate from the host is not modelled.

`intent`, `solo`, `torn`, `swept` and `decided` are history: what the last
request asked, whether requests overlapped, whether a zero was stored during
this `DropFrame`, and the last decisions.

### LiveOutput

`tasks` is the UI thread's queue. `LiveOutputStart` and `LiveOutputStop` are cut
where another thread can see what they do: the output's creation and capture,
`is_working_`, the notification, the join, the stop and the release.
`reporter` walks through `__RunLoop`; the test of `is_working_` and the taking of
`mutex_` are two steps, which is where the notification can be lost.
`obs_output_stop` hands the end of the capture to a thread of libobs
(`obs-output.c`), `EndCapture`; that thread needs `input_mutex`, which the video
thread holds during its callbacks (`video-io.c:135-145`), and
`obs_output_release` joins it. What a report says is left out.
Of the frame limiter a session sees whether it is on (`limiter`), and that a
request sets it in several stores on the pool worker (`pool`): `DropVideoFrame`
begins one and `EnableTemporalDecimation` ends it, with or without a change.
Two variables only record: `asked`, whether the limiter was requested since the
session reset it, and `straddled`, whether a request was under way at that
reset. Such a request, made before the session or while it started, may still
limit it; the model shows that nothing else from before can.

### ProjectStore

The scene is the number of the last edit it contains, so "older" is "smaller".
`SaveProject` is cut at the calls of the operating system: open and truncate,
write and close, the two renames of `ReplaceFileW` or the one of `MoveFileExW`.
Generating the data is one step; an edit that runs during it is counted as made
after it. The Windows calls are not in the repository. The model assumes that
`ReplaceFileW` renames the old file to the backup and then the new file to its
name and that the process may end in between; that it fails when the temporary
file is open or absent or another replacement is under way; that a file being
moved cannot be opened; and that two writers of one file leave what one of them
wrote, or neither. `FlushFails` is the failure that
`os_quick_write_utf8_file` does not look at (`platform.c:279-280`), and the last
disjunct of `Load` the rename that `obs_data_create_from_json_file_safe` does
not look at (`obs-data.c:688`); `ignored` records that one of them happened,
`overlapped` that two saves ran at once, `mixed` that one opened the temporary file
while another was writing or about to move it.

`ProjectFile` is the same without files: one stable project, a save that takes the scene at
once and either replaces the stable project by it or leaves everything alone, and starts that
begin with it. Its variables map as follows: `stable` is `Recoverable`, what `Load` would find;
`pending` the data of the saver past `GenerateSaveData`; `told` is `saved`; and
`overlapped \/ ignored` is where its promise ends (`void`). `SaveBegins` is
`GenerateSaveData`, `Saved` the last rename, `SaveFails` each of the failures, `End` every end of
the process; opening, writing and backing up change nothing that it knows of.

### SceneManager

The UI thread runs `AddSourceData` (one action per kind of source), the pool
`EditSourceItem`. A request is cut where the other thread can see it: libobs attaches
the item (`SceneAdd`), the signal appends it to `sceneItem` (`AddSceneItem`), its data are
read and sent (`ReadUi`, `SendUi`), the project is generated and written; a removal
searches the list, detaches, erases, generates, writes. A camera is edited by the
name it is asked for under (`FindSource`) and may open the temporary display
(`CreateTempDisplay`, `DisplayCamera`, `ReturnCamera`). If no camera has the name, a change of
its device is reported for a null item, whose null name `GetSceneItemData` compares: the UI thread is
at `crashed` and nothing moves any more. A camera is saved only when its
request says so; one that was added without is `unsaved`.
The other history variables record the overlaps that the properties except:
an append during an erase, two crossing saves, a rename that overtook a report, a camera
removed during a request that uses it.

Not every edit saves: showing, locking, selecting, ordering and placing do not, nor does
a rename; a removal, the cursor setting and the additions and edits of sources do.
The properties about the project speak of the items in it, not of their places.

### StartUp

`main` is four steps (`mojo`, `create`, `workers`, `run`), and the mojo thread may
deliver a message after the first. Messages are `start`, `add`, `edit`, `query` and
`unknown`, one of each sort the dispatchers treat differently, and may fail to parse. A task
posted to the pool before the TaskScheduler exists ends the process
(`PostToPool`); one posted before the workers run waits. `OBSInit` walks through
`Load` item by item: libobs gives each item an id from `id_counter` and signals it (`item`),
and then the saved id replaces it (`id`); an edit of the pool may come in between and find
an item by the wrong id (`mistaken`). If the edit removes the very item between the two, libobs
writes the id into memory that may be gone: `LoadItemId` lets the write be lost or end the process. Two items may share an id for that moment; an edit
removes the first of them, which is the one `GetSceneItemById` finds. The saved project has
each id once and none above its counter. That is an assumption on the first project
(`ProjectAssumption`) and a theorem about every later one (`SavedProjectsAreSound`). Then `is_initialize_` is set, the items are reported, the
start is answered and the display created. A second `start` runs `OBSInit` again
(`restarted`), and a failed one may be repeated. The mojo thread saves and ends the process
at any point.

### AudioFilters and AudioVolumes

`AudioFilters` has one device with one entry in the table, as the input and the output
do not share more than the table. `Signal` is `ActivateAudioSource` on two
threads, cut where it makes the entry, reads its filters, and reads and sends the message;
`Edit` is `SetDeviceValue` on the pool, cut where it finds the entry, adds, removes or sets
the filter, saves and answers. What is used after another thread has freed it sets
`misused`, which ends the behaviour.
`AudioVolumes` has the volumes only: a volume is the percent it was set from, and
`GetVolume` is the truncation of the float, which yields 52 for 53 and 58 for 59. Both have
restarts: what is saved is what comes back.

### VideoSettings

`obs_reset_video` is two steps, the look at the outputs (`check`) and the
installation (`init`), because an output may start in between. Canvases and rates are model
values; one canvas is too small for libobs. `stale` records that a thread
wrote settings read before the other changed them, until a canvas is installed again with the rate
that is asked for; `refused` and `silent` that the canvas
asked for last was refused or was installed by the second attempt, which reports
nothing. The scale of the mouse (`scaled`) is computed when the host says that its preview changed,
which it may do at any time and never has to; `owed` records that it was told of a canvas and has
not done so since.

### PreviewWindow

One axis, whole numbers, scale 1; an item is an interval. Each mouse message is one
action, with all it calls: `mousePressEvent`, `mouseMoveEvent`, `mouseReleaseEvent`, `leaveEvent`.
The mouse itself (`ptr`, `held`) is part of the environment, and a release may go to another
window. The pool's requests (remove, lock, select, reset, place) come between
messages; SELECT is two steps, as it unselects all items and then selects one.

### PhoneCasting

The callback is cut in three: find the item and read its transform, compute, write back.
Numbers are integers in units in which all quotients are exact; a division by zero gives
`Infinite` and an item placed by it is `Nowhere`. `excuse` records what spoils the
four fields: a first direction without a picture, a removal in the middle, a
stretched item.

## 3. Runs

| run | instance | question |
| --- | --- | --- |
| `camera_pair` | 2 cameras, 2 frames and 1, everything may go wrong | Can a frame be lost, doubled, overtaken? Is every sleeper paid for by an early wakeup? Do stale pictures and freed buffers need a missed answer? What does a camera keep, or sleep on, after it was removed or torn down? |
| `camera_alone` | 1 camera, 4 frames, a host that answers in order | Is each answer on its own frame, do pictures stay in order, and does each frame come out? |
| `decimator_steady` | rates 15, 25, 30, all targets 0..30, no overlap | Does the algorithm keep the rate, exactly where it should, without stalls? |
| `decimator_race` | rate 20, targets 3, 13, 19, all overlaps | What can the races do? |
| `live_sessions` | 3 outstanding messages | Do reporter, frames and limit follow the session, and does stop return? |
| `project_saves` | 3 edits, 3 savers, in turn or at once, every failure and crash | Do saves in turn behave like one stable project? What does it take to lose one? |
| `project_mixed` | *violation*: 3 edits, 3 savers, no failure | Two threads that save at once destroy the project, with no call failing |
| `scene_sources` | 2 items, 4 further requests, 2 names | Do list, display, project and host follow the scene? |
| `placement` | 2 items, 2 presses and 1 request; a phone turned any number of times | Is a gesture over when it is over, does a drag hold what it moves, does a turn keep the item? |
| `audio` | 2 kinds of filter, 3 filters, 2 edits, 2 signals; every first volume, 2 volumes set, 1 added source | Do the copies of levels and volumes agree, and is a freed entry used? |
| `start_up` | 3 messages, ids 1..4, with and without a project | Is every pull answered, every item reported, no half-loaded project saved? |
| `video_canvas` | 2 canvases and one that is refused, rates none, 15, 60, 5 changes | Which copies of the settings agree when, the scale of the mouse among them? |

Why the bounds are enough. *Cameras:* two are needed for one to take the other's
wakeup; a third adds no new kind of thief, and the bound on lost wakeups is
proved for any number. Two frames are needed for an answer to meet a later frame,
four for a lag that grows and shrinks. *Limiter:* the counters are functions of
the two rates and the run visits every target at three usual rates, from every
reachable setting of the counters. In the race, the jump from 13 to 19 makes
the overshoot negative, and 3 of 20 uses the branch that drops in runs. *Sessions:*
with three messages the next start and stop are posted while one is served.
*Project:* a loss takes at most two overlapping saves over one earlier save.
*Cameras, again:* the constant `OneFrame` names the cameras that deliver one frame
only; one of the pair is such a thief, the other goes through two.
*Scene:* two items are needed for one to be taken for the other, two names for a
rename; four requests are a removal and a rename on the pool against two on the
UI thread; the theorems say the same for any number.
*Placement:* two presses are a gesture and the one that meets what it left; two items make
"one selected" and "topmost" mean something; the snap of 2 on a canvas of 4 reaches
both edges. The phone's four fields are bounded by themselves.
*Audio:* a duplicate takes two filters of a kind and one of the other; the first volume runs
through all of 0..100. *Start:* a start, an edit and an addition, or a second start; with
a project of two items whose ids, 2 and 1, are not those of their places, ids 1 to 4 cover the
momentary ids, an id two items share and one addition.
*Video:* five changes are a canvas, a rate, a start of the output and a
second change of each of two of them.

`CHECK_DEADLOCK FALSE` stands where a behaviour ends because a bound is used up or
the program does: in the camera runs (no frames left, or a thread that has lost its
wakeup, which is the subject of `LostWakeupsAreStolen`), in `scene_sources` and
`video_canvas` (no requests left), in `audio` (after the use of a freed entry) and in
`start_up` (the process has ended).

What the runs show, in short:

- **Relay.** Two cameras can leave one of them asleep: the answer for one wakes the
  other, whose frame goes out raw. That costs one early return for each sleeper
  and never more (`LostWakeupsAreStolen`), and it delays frames without ever losing or
  reordering them (`ImplementsRelay`). With one camera none of this happens.
  A removal or a teardown may fall between a thread's tests and its wait. The thread then enters its
  frame into `lst_infos_` all the same and waits, and if the host stays silent it may sleep for ever;
  but that is one frame of a camera and no more (`LateFramesOnly`).
- **Limiter.** Alone, it never holds back more than `incoming / target` frames in a row. A target
  of at most half the incoming rate is met to the frame: any second's frames contain exactly
  that many that were sent. Above half a run of kept frames is corrected by a third of what the last
  division left over, and of a second as many frames are dropped as the shortest and the
  longest such run allow (`RateKept`); at 15, 25 and 30 frames per second that is the
  target give or take -4 to +2 frames (`RateHonoured`).
  Overlapping calls can make it divide by zero, but only through a store of zero
  during that same call; they cannot leave it dropping every frame. After an overlap the
  settings may differ from the last request until a `Reset` runs alone.
- **Sessions.** The notification of `__Cleanup` can be lost; only the one-second timeout of the wait
  lets the join return (`UiReturns` fails without it).
- **Project.** One save at a time is atomic and durable, wherever the process ends, unless a
  failure is ignored (`ImplementsProject`; that nothing older is ever found and nothing reported is
  lost, `SavesAreKept`, follows). Overlapping saves can lose the project, but only by mixing what they
  write (`DamageNeedsMixedWrites`); that is the finding of `project_mixed`. Its trace is a first save:
  of the sentence quoted below it breaks "Saves the data to a file as Json text", and not the clause
  about the backup, which is promised only when an old file is overwritten.
- **Scene.** The item list loses an item only if it is appended to during an
  erase. A freed source is drawn only after a rename of the camera, or if it is removed by the pool
  during the request that opens the display. A request that goes by name reaches another item
  only after a rename or with a phone. A request that finds no camera ends the process if it changes
  the device; that takes a rename, or a removal that the pool ran first.
- **Start.** The start order is safe except for one: a request that arrives before the TaskScheduler
  is created ends the process. The saves of a half-loaded scene are kept
  off by `is_initialize_` alone, and the same check drops the save of an
  edit acknowledged during the load.
- **Audio.** One filter of a kind, and agreement of all copies, unless an edit meets an entry whose
  filters are not read yet; then the second filter is saved for good. A freed entry can be used
  only if the device is signalled twice, or in that same overlap.
  Volumes do not creep: the truncation loses one percent at 53 and at 59 and no more however
  often the value goes round.
- **Video.** All copies of the canvas agree between changes, except after a refusal, which stays in
  basic.ini and `canvas_size_` until the next canvas, and after an overlap of the two threads, which the
  next canvas that is installed puts right. The mouse is mapped by the canvas that is drawn as
  soon as the host asks for the scale of the one it was told of. A
  live output keeps its settings unless a change of the rate had looked at the outputs before
  it started.
- **Preview.** A gesture leaves nothing behind unless two buttons were down at once or a release was
  lost; snaps do not add up; two items are selected only if SELECT meets the mouse.
- **Phone.** A turn keeps the centre exactly; the item is lost only if the phone's first direction came before its
  first picture or during a removal.

Disagreements between words and code that were met while modelling. The first is the finding of
a run; the others are noted here:

- `reference-settings.rst:98-100` on `obs_data_save_json_safe`: `project_mixed`.
- `flobs_manager.cc`, above `GenDeviceInfo`: asks for a lock or a sequence; there is neither.
  `UsedInTurn` says what follows.
- `post_task.h:64` of Chromium's base asks for a TaskScheduler before a task is posted;
  `main.cc` starts the service that posts first.
- `obs.h:388` says that video cannot be reset while an output is active;
  `ChangesKeepTheRest` states the one step that does it.
- `flobs_manager.cc:3582`: the comment says that the default picture does not change whether the
  phone was laid out; the code below it clears `phone_source_init_`.
- `os_quick_write_utf8_file` reports success although a flush failed (`platform.c:279-280`).

## 4. Fairness

`CameraBeautify`: `camera_pair` is about safety and has no fairness. `FairHostSpec`, of `camera_alone`,
has weak fairness of each thread inside the callback, of the pool worker and of the second step of a
teardown: the threads are
scheduled and `mutex_` is held for bounded times. A camera need not deliver frames, and nothing need be
removed or torn down; a teardown that has begun goes on. It also has a host that answers, which is an assumption about the host and not
about this program.

`StartUp`: weak fairness of `main`, of the UI thread and of the pool worker, each of which
always has a step while it has a task. The mojo thread, the host, failures and the end of the
process are not fair. `LiveOutput` is below; the other modules state safety only.

`LiveOutput`: weak fairness of the UI thread, of the reporter (its wait has a timeout,
so it always has a step) and of leaving a frame callback; strong fairness of `EndCapture`,
because it waits for a lock that the video thread takes and gives back frame after
frame. Windows hands such a lock over in the end; nothing in the code does.

## 5. Proofs

| theorem | property | argument |
| --- | --- | --- |
| `Devices_proofs!TypeCorrect` | `TypeOK` | inductive as it stands: it contains the two shapes that the other proof needs |
| `Devices_proofs!WakeupsOnlyStolen` | `LostWakeupsAreStolen` | inductive given `TypeOK`. A count: each action adds to the sleepers only if it adds as much to the woken-without-answer or to `early`; cardinalities of sets that grow and shrink by one element |
| `Devices_proofs!RelayIsImplemented` | `ImplementsRelay` | `RelayInv`: an entry and a picture never are of a frame that was not taken; an answer that is still open is in no entry, in no output and was never shown, so that a picture goes out once. Under it every action is an action of `FrameRelay` or leaves its variables alone |
| `Devices_proofs!StaleOnlyAfterMissing`, `BorrowedStaysAlive` | `StalePictureWasMissed`, `BorrowedPictureAlive` | `MissInv`, on top of `RelayInv`: every open answer is owed to a frame that still waits, or that was output without it, or the camera was withdrawn. So is a picture that an entry holds |
| `Devices_proofs!WithdrawalsAreOvertakenOnce` | `LateFramesOnly` | inductive given `TypeOK`, action by action: the thread of a withdrawn camera is past its tests only with the frame of `late`, and a wait of an earlier frame outlives the entry only if `notify_one` of the removal chose another thread, and the teardown wakes them all |
| `Devices_proofs!PicturesGoForward` | `PicturesNeverRewind` (half of `PicturesInStep`) | if `HostInOrder`: `OrderInv`, the open answers of a camera are queued in order and newer than what it shows, outputs or holds |
| `Devices_proofs!PicturesStayInStep` | `PicturesInStep` | one camera, `HostInOrder` and a host that may not fail, as in the run: `PunctualInv`, until `fake` the thread waits exactly while the answer for its frame is open, and is woken with it |
| `Devices_proofs!FiltersStaySingle` | `OneFilterEach` | `KnownInv`: of each kind the entry knows exactly the filter that is on the source, but for the moment between a change of the filters and its signal, and before it has read them. So `AddFilterInfo`, which adds without looking, is called only where there is none |
| `Devices_proofs!LevelsStayOne` | `LevelsAgree` | on top of `KnownInv`: `AskedInv`, the level asked for last is in force or is what the pool is at; `TellInv`, what is on the way to the host or was told last says the levels, unless a thread is still to tell more; `DiskInv`, the project is as libobs has it, but between a change of the filters and its save. Each of the three has its excuse: `hurried`, `crossed`, `unsaved` |
| `Devices_proofs!OneSignalIsSafe` | `UsedInTurn` | `TurnInv`: the only signaller makes the entry itself, so no other can free what it or the pool holds |
| `Devices_proofs!VolumesStayTogether` | `VolumesAgree` | `VolumeComesBack`, proved for all 101 percents by ranges of one exponent: reading a volume back gives itself, but for 53 and 59, and a second reading changes nothing more. Hence `VolumeInv`: the volume, what is kept of it and what the host was told are among the two `Readings` of what was chosen |
| `VideoDecimator_proofs!TypeCorrect` | `TypeOK` | inductive; the local of the keep branch is not zero and the counters are unsigned |
| `VideoDecimator_proofs!NoLastingBlackout` | `BlackoutIsTransient` | `BlackoutInv`: while the pool is between its setters the limiter is off, and a zero target at its last setter means that the UI thread's `Reset` is about to clear the rate |
| `VideoDecimator_proofs!ZeroDivisorIsStoredMeanwhile` | `ZeroDivisorNeedsStore` | `DivisorInv`: past its test of the target, `DropFrame` sees zero only if `swept` |
| `VideoDecimator_proofs!LastRequestIsInForce` | `LastRequestWins` | `WinInv`: what a request that runs alone has stored up to each of its steps is what it was asked for, and a comparison that finds no change finds the last request in force |
| `VideoDecimator_proofs!StreamNeverStarves` | `NeverStarves`, a part of `RateKept` | `StarveInv`: between calls, one of the last `drops` decisions, and one more after a run of kept frames, sent a frame, and a run is no longer than its quotient; the leftover of a round (`overshoot`) stays below the target, so that the two cases of `DropFrame` cannot follow each other into a longer gap |
| `VideoDecimator_proofs!StreamKeepsItsRate` | `RateKept` | `PaceInv`, for all last k decisions at once. Halved: `incoming` times the frames sent of them less k times `target` is what the phase of the round (`overshoot - drops * target`) grew by, and a phase is worth less than one frame; so a second is met exactly, as long as no remainder is forgotten. Above half: k decisions hold so many runs, each between the shortest and the longest. `SentGrows`: the last k + 1 decisions are the new one and the k before it, also where the history drops its oldest |
| `LiveOutput_proofs!TypeCorrect` | `TypeOK` | inductive |
| `LiveOutput_proofs!ReporterIsTheOutputs`, `StopLeavesNothing` | `ReporterFollowsOutput`, `NothingAfterStop` | `SessionInv`: what output, reporter and frame callback are at each step of the UI thread. The properties speak of the steps at rest only and are not inductive without it |
| `LiveOutput_proofs!LimitBelongsToSession` | `LimitIsThisSessions` | inductive given `SessionInv` and strengthened to `LimitInv`: a request under way counts as a limit already, since its end may set it at any time |
| `ProjectStore_proofs!TypeCorrect` | `TypeOK` | inductive |
| `ProjectStore_proofs!SerialSavesAreKept` | (`SavesAreKept`) | `SaveInv`, as long as `overlapped` is false: one saver at a time; the running save's data lie between what is recoverable and the scene; tmp holds them from the end of the write on. Each step keeps it and does not lower `Recoverable`, unless a failure was ignored |
| `ProjectStore_proofs!ProjectIsImplemented` | `ImplementsProject` | under `SaveInv`, what is pending is what the one busy saver generated (`OnePending`), and each action is one of `ProjectFile` or changes none of its variables: the first rename moves the recoverable project from one file to the other, the second replaces it by what is pending |
| `ProjectStore_proofs!ProjectKeepsSaves` | (`SavesAreKept`) | from `ProjectFile` alone, by `Promised`: what is pending lies between the stable project and the scene. So the run checks `ImplementsProject` in place of `SavesAreKept` |
| `ProjectStore_proofs!UnmixedSavesDoNoDamage` | `DamageNeedsMixedWrites` | `DamageInv`, as long as `mixed` is false: one saver at a time is between opening the temporary file and replacing it (`OneUser`), although others may be generating; then tmp is whole from the end of its write to its move, and of the two files one is always whole |
| `SceneManager_proofs!TypeCorrect` | `TypeOK` | inductive, one lemma per action |
| `SceneManager_proofs!ListFollowsScene`, `DisplayIsLive`, `HostHearsNames`, `RequestsReachTheirItem`, `ProjectFollowsScene` | `ListIsScene`, `DisplayDrawsLiveSource`, `HostKnowsNames`, `EditsReachTheirItem`, `SavedIsScene` | each has an invariant of its own on top of the types, saying what the two threads carry between the steps of a request: the item being pushed or erased, the name read and not yet sent, the set generated and not yet written |
| `VideoSettings_proofs!TypeCorrect` | `TypeOK` | inductive with `RateWanted`: the pool changes the rate only to one that was asked for |
| `VideoSettings_proofs!CopiesOfSettingsAgree` | `SettingsAgree` | `Sound`: what the UI thread installs is what it saved, what the pool installs is libobs' own unless it will be found stale. `MouseMapsPicture` needs nothing more: `base_window_size_` and libobs' canvas are replaced together, but by a silent second attempt |
| `VideoSettings_proofs!ChangesStayApart` | `ChangesKeepTheRest` | `NotLive`: no output is active while the UI thread is inside `obs_reset_video` past its check, because starts run on the same thread |
| `Placement_proofs!NewIsNew`, `TurnsKeepTheItem` | `NewItemIsNew`, `TurnKeepsItem` | `Sound`: fields that are trusted describe the item that is there; the centre by arithmetic over `HalfOf` |
| `Placement_proofs!TurnsAddNoError` | `FitsCanvas` | `Fitted`: an item that nobody else placed stands as laid out for the direction the fields remember, at every step of the callback; two fits after another are one |
| `Placement_proofs!GesturesEndClean` | `NothingIsLeft` | `GestureInv`: while a gesture is not disturbed, a button is down exactly while the window thinks so, and a box exists only while the mouse has moved |
| `Placement_proofs!AtMostOneSelected` | `OneSelected` | `SelectionInv`: at most one item is selected, and none besides the one under the mouse while a box is drawn. The topmost item exists because the items are finitely many (`WellFoundedInduction`) |
| `Placement_proofs!DragsHold` | `DragsMoveWhatTheyHold` | `DragInv`: from the first move of a drag on, what it moves is selected, was grabbed where it was at the press, and stands where `lastMoveOffset` says; a snap is less than `SnapDist`. It rests on `PreviewTypesHold`, which bounds positions by the canvas |
| `Placement_proofs!ScalesStayPositive`, `PlacementTypesHold` | `PlacementTypes` | `ScaleInv`: the scale of an item, times some fit, is one that it was placed with, times the fit that `last_scale_` remembers; a turn replaces the one fit by the other and divides without a rest (`ExactAssumption`). Each step of `MCPlacement` is a step of one part and leaves the other alone |
| `StartUp_proofs!StartTypesHold` | `TypeOK` | inductive with `StageInv` and `QueueInv`: who runs at which stage of `main`, and that a request is in one queue once |
| `StartUp_proofs!HostHearsInOrder` | `HostHearsOfStart` | `StartInv`: the keys of the items in the scene are distinct, at each step of `Load` they are those that were loaded so far, and an item is told of only after `is_initialize_` |
| `StartUp_proofs!SavedProjectsAreSound` | - | part of `StartInv`: unless `OBSInit` runs twice, every project saved has each id once and none above its counter, which is what `ProjectAssumption` asks of the one a start finds |
| `StartUp_proofs!StartsKeepTheProject` | `ProjectIsKept` | `KeptInv` and `GoneInv`: each item of the project is on disk, on its way from the disk, in the scene, or `Gone`, which counts a removal from its step on and not from its acknowledgement |

The assumptions are those of the modules: finite `Cameras`; rates in `Nat`, those of
the video positive; a positive bound of tasks; `Absent` and `Torn` different from each
other and from every number; `None` and `Off` not among the values they stand beside; the
lengths of `PhoneCasting` positive, no fit below its smallest scale, and turns that divide without a rest
(the code divides floats; the module leaves rounding out); items, canvas and snap of
`PreviewWindow` finite and positive; a saved project with each id once. The bounds on edits,
items and changes are constants too: the theorems hold for every value of them.

Two theorems have a hypothesis of their own. `HostInOrder` and `~HostMayFail` are switches of the
host, which is not in the repository; `PicturesInStep` is checked with them in `camera_alone`, and
without them a picture goes back as soon as the host answers out of order.

The type invariants of the proved modules are not checked by a run besides, but for those of
`PreviewWindow` and `PhoneCasting` as `PlacementTypes`, and those of `AudioFilters` and
`AudioVolumes` as parts of `LevelsAgree` and `VolumesAgree`.

Model-checked only:

- all liveness (`ImplementsFairRelay`, `UiReturns`, `PullsAnswered`):
  fairness is out of the provers' reach;
- `RateHonoured`: a tolerance in frames at the rates of the run. It is no statement about all
  rates (what `RateKept` allows grows with the rate above half) and above half it is tighter
  than the quotients `RateKept` proves.

## 6. Not modelled, and why

Of the 36,142 lines counted as implementation about 27,000 are generated by protoc
(`flproto/proto/*.pb.*`) and have no logic of this program. Of the remaining 9,000 the map
covers some 3,300, with another 600 of vendored code that they rest on. Most of the rest are
conversions between libobs' settings and protocol messages (`flobs_properyinfo.cc`,
`flobs_util.cc`, the fillers of reports in `flobs_manager.cc`), getters, logging, drawing
and set-up of windows: pure functions or calls of a library, without a state of their own.

In the modelled parts these are left out:

- contents of messages, reports, scenes and frames; rendering;
- floating point: the preview's geometry is one axis of integers, and the phone's is exact;
  rotation, crop and groups; a scale that differs between the axes of a phone;
- two calls of `obs_reset_video` inside it at once; what libobs does to frames on a change;
- order, transforms and groups of items; the transition, which is created and never started;
- muting, property lists and a change of the device id beyond its save and answer;
- reads of the four fields of `PhoneCasting` that another thread is writing (each is taken whole);
- `OBSUninit`, which has no caller, beyond the teardown of the cameras; `m_canvas_mode_`,
  which nothing reads;
- kinds of message beyond one of each sort.

What becomes of a write into an item that the pool removed during the load (`obs-scene.c:904`) is
undefined: the model lets the write be lost or end the process, and no property excludes it.

One hazard has no property: after `SetVideoFPS` the limiter goes on with the incoming rate
it was given (`flobs_manager.cc:3791`). The model keeps the two rates apart, but the code promises
nothing about them.

## 7. Plan

What would come next, in this order:

1. Order of items: up, down, top and bottom against additions; an abstract specification of the
   scene as a sequence, implemented by `SceneManager`.
2. `SceneManager` over the saves of `ProjectFile`, in place of its two-step save.
3. Muting and the change of a device id in `AudioFilters`.
4. Groups, crop and rotation in `PreviewWindow`.
