---------------------------- MODULE VideoCapture ----------------------------
(***************************************************************************)
(* The capture screen of the app, VideoCaptureActivity.  Touches, clicks,  *)
(* life cycle and surface callbacks and posted runnables are handled one   *)
(* at a time on the main thread; the timer of a recording counts on a      *)
(* thread of its own and shares mTimeCount with the main thread.           *)
(*                                                                         *)
(* Camera, MediaRecorder, MediaPlayer, Timer, the message queue and the    *)
(* order of the callbacks are Android's.  Which camera is used, the        *)
(* progress ring and the picture itself are left out.                      *)
(***************************************************************************)
EXTENDS Naturals

CONSTANT MaxTime  \* MAX_TIME, the ticks that end a recording

ASSUME CaptureConstants == MaxTime \in Nat \ {0}

Timers == {1, 2}  \* bound: a new timer and one whose last run is not over

VARIABLES
  camera,       \* mCamera: "none", "open" or "unlocked"
  recorder,     \* whether there is an mMediaRecorder
  player,       \* whether there is a mediaPlayer
  isRecording, isPlay, isTake, isPause,
  layout,       \* whether the record button is visible; if not, btn and btn2 are
  controls,     \* whether img_finish and img_change_camera are visible
  touch,        \* whether a finger is on the record button
  long,         \* whether a second has passed since time was set
  resumed, surface,  \* what Android has made of the activity and of its surface
  alive,        \* FALSE after an exception that nobody catches
  count,        \* mTimeCount.  Bound: it stops at MaxTime + 1
  timer,        \* per timer whether it is scheduled, its ticks, and where its run is
  posted,       \* the number of posted runnables sendVideo
  overtaken     \* history: recordStop came in the middle of a run of a timer

media    == <<camera, recorder, player>>
flags    == <<isRecording, isPlay, isTake, isPause>>
view     == <<layout, controls>>
android  == <<resumed, surface>>
clock    == <<count, timer, overtaken>>
vars     == <<media, flags, view, touch, long, android, alive, clock, posted>>

NoTimer == [on |-> FALSE, age |-> 0, at |-> "idle", read |-> 0]

Init ==
  /\ camera = "none" /\ recorder = FALSE /\ player = FALSE
  /\ isRecording = FALSE /\ isPlay = FALSE /\ isTake = FALSE /\ isPause = FALSE
  /\ layout = TRUE /\ controls = TRUE /\ touch = FALSE
  /\ long = TRUE /\ resumed = TRUE /\ surface = FALSE /\ alive = TRUE
  /\ count = 0 /\ timer = [t \in Timers |-> NoTimer] /\ posted = 0 /\ overtaken = FALSE

-----------------------------------------------------------------------------
(* What the handlers call. *)

\* Mutant: the camera is opened whatever is shown.
OpenVideoAlways(playing, taken) == camera' = "open"

\* openVideo, which releases a camera that is open first.
OpenVideo(playing, taken) ==
  camera' = IF playing \/ taken THEN camera ELSE "open"

\* Mutant: mTimeCount is not reset.
RecordStopKeepsCount ==
  /\ isRecording' = FALSE
  /\ timer' = [t \in Timers |-> [timer[t] EXCEPT !.on = FALSE]]
  /\ overtaken' = (overtaken \/ \E t \in Timers : timer[t].at # "idle")
  /\ recorder' = FALSE /\ isTake' = ~long
  /\ IF ~long /\ camera # "open"
     THEN alive' = FALSE /\ UNCHANGED <<camera, player, isPlay, layout>>
     ELSE /\ camera' = "none" /\ layout' = FALSE
          /\ player' = (player \/ long) /\ isPlay' = (isPlay \/ long)
          /\ UNCHANGED alive
  /\ UNCHANGED <<count, isPause, controls, long, android>>

\* recordStop: a long recording is played, a short one was meant as a picture.  The
\* picture cannot be taken without the camera or while a recorder has it.
RecordStop ==
  /\ isRecording' = FALSE
  /\ timer' = [t \in Timers |-> [timer[t] EXCEPT !.on = FALSE]]
  /\ overtaken' = (overtaken \/ \E t \in Timers : timer[t].at # "idle")
  /\ count' = 0
  /\ recorder' = FALSE /\ isTake' = ~long
  /\ IF ~long /\ camera # "open"
     THEN alive' = FALSE /\ UNCHANGED <<camera, player, isPlay, layout>>
     ELSE /\ camera' = "none" /\ layout' = FALSE
          /\ player' = (player \/ long) /\ isPlay' = (isPlay \/ long)
          /\ UNCHANGED alive
  /\ UNCHANGED <<isPause, controls, long, android>>

-----------------------------------------------------------------------------
(* Touches and clicks, which reach a resumed activity with a surface. *)

Usable == alive /\ resumed /\ surface

\* The button is pressed while a recording is on.
DownIgnored ==
  /\ Usable /\ layout /\ ~touch /\ isRecording
  /\ touch' = TRUE
  /\ UNCHANGED <<media, flags, view, long, android, alive, clock, posted>>

Press ==
  /\ Usable /\ layout /\ ~touch /\ ~isRecording
  /\ touch' = TRUE /\ long' = FALSE /\ controls' = FALSE

\* prepareVideoRecorder fails: there is no camera, or prepare throws an exception when
\* the camera is unlocked for the recorder.
DownFails ==
  /\ Press
  /\ camera' = IF camera = "none" THEN "none" ELSE "unlocked"
  /\ recorder' = FALSE
  /\ UNCHANGED <<player, flags, layout, android, alive, clock, posted>>

\* The recorder starts, which locks the camera again, and a new timer with it.
DownRecords(t) ==
  /\ Press /\ camera # "none"
  /\ camera' = "open" /\ recorder' = TRUE
  /\ isRecording' = TRUE
  /\ ~timer[t].on /\ timer[t].at = "idle"
  /\ timer' = [timer EXCEPT ![t] = [NoTimer EXCEPT !.on = TRUE]]
  /\ UNCHANGED <<player, isPlay, isTake, isPause, layout, android, alive, count, overtaken,
                 posted>>

\* The button has kept the gesture even if it is not visible any more.
Up ==
  /\ alive /\ touch
  /\ touch' = FALSE
  /\ RecordStop
  /\ UNCHANGED posted

\* Android ends the gesture; the listener does not handle that.
TouchCancelled ==
  /\ alive /\ touch
  /\ touch' = FALSE
  /\ UNCHANGED <<media, flags, view, long, android, alive, clock, posted>>

\* Mutant: isTake survives the click.
ClickAgainKeepsTake ==
  /\ Usable /\ ~layout /\ posted = 0
  /\ player' = (player /\ ~isPlay)
  /\ isPlay' = FALSE
  /\ OpenVideo(FALSE, isTake)
  /\ layout' = TRUE /\ controls' = TRUE
  /\ UNCHANGED <<recorder, isRecording, isTake, isPause, touch, long, android, alive, clock,
                 posted>>

\* The click on btn, for another recording.  Android posts a click to the main thread,
\* so that it is handled after every runnable that was posted before it; a touch is
\* not posted, and can overtake one.
ClickAgain ==
  /\ Usable /\ ~layout /\ posted = 0
  /\ player' = (player /\ ~isPlay)
  /\ isPlay' = FALSE /\ isTake' = FALSE
  /\ OpenVideo(FALSE, FALSE)
  /\ layout' = TRUE /\ controls' = TRUE
  /\ UNCHANGED <<recorder, isRecording, isPause, touch, long, android, alive, clock, posted>>

\* The click on img_change_camera, which releases the camera in any case.
ClickChangeCamera ==
  /\ Usable /\ controls /\ posted = 0
  /\ camera' = IF isPlay \/ isTake THEN "none" ELSE "open"
  /\ UNCHANGED <<recorder, player, flags, view, touch, long, android, alive, clock, posted>>

-----------------------------------------------------------------------------
(* Life cycle and surface.  Android takes the surface from a paused activity *)
(* only, and gives it to a resumed one only.                                 *)

Pause ==
  /\ alive /\ resumed
  /\ resumed' = FALSE
  /\ UNCHANGED <<media, flags, view, touch, long, surface, alive, clock, posted>>

Resume ==
  /\ alive /\ ~resumed
  /\ resumed' = TRUE
  /\ isPause' = FALSE
  /\ player' = (player \/ (isPause /\ isPlay))
  /\ IF isPause THEN OpenVideo(isPlay, isTake) ELSE UNCHANGED camera
  /\ UNCHANGED <<recorder, isRecording, isPlay, isTake, view, touch, long, surface, alive,
                 clock, posted>>

SurfaceCreated ==
  /\ alive /\ resumed /\ ~surface
  /\ surface' = TRUE
  /\ OpenVideo(isPlay, isTake)
  /\ UNCHANGED <<recorder, player, flags, view, touch, long, resumed, alive, clock, posted>>

\* Mutant: the recorder is kept.
SurfaceDestroyedKeepsRecorder ==
  /\ alive /\ ~resumed /\ surface
  /\ surface' = FALSE /\ touch' = FALSE
  /\ isPause' = TRUE
  /\ camera' = "none" /\ player' = FALSE
  /\ UNCHANGED <<recorder, isRecording, isPlay, isTake, view, long, resumed, alive, clock,
                 posted>>

\* The timer goes on, and so does isRecording.
SurfaceDestroyed ==
  /\ alive /\ ~resumed /\ surface
  /\ surface' = FALSE /\ touch' = FALSE
  /\ isPause' = TRUE
  /\ camera' = "none" /\ recorder' = FALSE /\ player' = FALSE
  /\ UNCHANGED <<isRecording, isPlay, isTake, view, long, resumed, alive, clock, posted>>

-----------------------------------------------------------------------------
(* The timer and the clock. *)

SecondPasses ==
  /\ ~long /\ long' = TRUE
  /\ UNCHANGED <<media, flags, view, touch, android, alive, clock, posted>>

\* mTimeCount++ is a read and a write.  Ten milliseconds lie between two runs of a
\* timer, so that its last one is more than a second behind its start.
TimerRead(t) ==
  /\ alive /\ timer[t].on /\ timer[t].at = "idle"
  /\ timer[t].age + 1 >= MaxTime => long
  /\ timer' = [timer EXCEPT ![t].at = "write", ![t].read = count,
                            ![t].age = IF @ < MaxTime THEN @ + 1 ELSE @]
  /\ UNCHANGED <<media, flags, view, touch, long, android, alive, count, posted, overtaken>>

TimerWrite(t) ==
  /\ alive /\ timer[t].at = "write"
  /\ count' = IF timer[t].read <= MaxTime THEN timer[t].read + 1 ELSE timer[t].read
  /\ timer' = [timer EXCEPT ![t].at = "test", ![t].read = 0]
  /\ UNCHANGED <<media, flags, view, touch, long, android, alive, posted, overtaken>>

TimerTest(t) ==
  /\ alive /\ timer[t].at = "test"
  /\ posted' = IF count = MaxTime THEN posted + 1 ELSE posted
  /\ timer' = [timer EXCEPT ![t].at = "idle"]
  /\ UNCHANGED <<media, flags, view, touch, long, android, alive, count, overtaken>>

TimerRun(t) == TimerRead(t) \/ TimerWrite(t) \/ TimerTest(t)

\* The main thread runs sendVideo, whatever has become of the activity.
SendVideo ==
  /\ alive /\ posted > 0
  /\ posted' = posted - 1
  /\ RecordStop
  /\ UNCHANGED touch

Next ==
  \/ DownIgnored \/ DownFails \/ (\E t \in Timers : DownRecords(t))
  \/ Up \/ TouchCancelled
  \/ ClickAgain \/ ClickChangeCamera
  \/ Pause \/ Resume \/ SurfaceCreated \/ SurfaceDestroyed
  \/ SecondPasses \/ (\E t \in Timers : TimerRun(t)) \/ SendVideo

\* Time passes, the timers run and the main thread handles its messages.  Nothing is
\* assumed of the user.
Fairness ==
  /\ WF_vars(SecondPasses) /\ WF_vars(SendVideo)
  /\ \A t \in Timers : WF_vars(TimerRun(t))

Spec == Init /\ [][Next]_vars /\ Fairness

-----------------------------------------------------------------------------
(* Correctness. *)

TypeOK ==
  /\ camera \in {"none", "open", "unlocked"} /\ recorder \in BOOLEAN /\ player \in BOOLEAN
  /\ isRecording \in BOOLEAN /\ isPlay \in BOOLEAN /\ isTake \in BOOLEAN
  /\ isPause \in BOOLEAN /\ layout \in BOOLEAN /\ controls \in BOOLEAN
  /\ touch \in BOOLEAN /\ long \in BOOLEAN
  /\ resumed \in BOOLEAN /\ surface \in BOOLEAN /\ alive \in BOOLEAN
  /\ count \in 0 .. MaxTime + 1
  /\ timer \in [Timers -> [on : BOOLEAN, age : 0 .. MaxTime, at : {"idle", "write", "test"},
                           read : 0 .. MaxTime + 1]]
  /\ posted \in 0 .. 3 /\ overtaken \in BOOLEAN

\* A recorder always has its camera: no handler, in whatever order they come, releases
\* or reopens the camera and leaves a recorder behind.
RecorderHasCamera == recorder => camera # "none"

\* The screen never plays a video and holds the camera at the same time.
CameraOrPlayer == isPlay \/ player => camera = "none"

\* Whenever the record button can be pressed there is a camera to record with, however
\* often the app was left and in whatever state of the screen.
ButtonHasCamera == Usable /\ layout => camera # "none"

\* A recording ends by itself after MAX_TIME, even if the user never lifts the finger
\* or leaves the app, unless recordStop came in the middle of a run of the timer,
\* whose write then undoes the reset of mTimeCount.
RecordingEnds ==
  isRecording /\ ~overtaken ~> (~isRecording \/ overtaken \/ ~alive)

=============================================================================
