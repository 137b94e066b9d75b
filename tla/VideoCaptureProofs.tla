------------------------- MODULE VideoCaptureProofs -------------------------
(***************************************************************************)
(* The safety properties of VideoCapture, for every length of a recording. *)
(***************************************************************************)
EXTENDS VideoCapture, TLAPS

\* The part of the type invariant that the proof needs.
MediaOK ==
  /\ camera \in {"none", "open", "unlocked"} /\ recorder \in BOOLEAN /\ player \in BOOLEAN
  /\ isPlay \in BOOLEAN /\ isTake \in BOOLEAN /\ isPause \in BOOLEAN
  /\ layout \in BOOLEAN /\ long \in BOOLEAN /\ alive \in BOOLEAN
  /\ resumed \in BOOLEAN /\ surface \in BOOLEAN

\* The record button is hidden exactly while a video or a picture is shown.
ButtonMatchesFlags == alive => (layout <=> (~isPlay /\ ~isTake))

\* With a surface and nothing shown there is a camera.
CameraComesBack == alive /\ surface /\ ~isPlay /\ ~isTake => camera # "none"

\* Only a video that is shown has a player, and nothing is shown during a recording.
ShownOrRecorded == (player => isPlay) /\ (recorder => ~isPlay /\ ~isTake)

CaptureInv ==
  /\ MediaOK /\ ButtonMatchesFlags /\ CameraComesBack /\ ShownOrRecorded
  /\ RecorderHasCamera /\ CameraOrPlayer

\* The screen starts without camera, recorder and player.
LEMMA CaptureInit == Init => CaptureInv
BY DEF Init, CaptureInv, MediaOK, ButtonMatchesFlags, CameraComesBack, ShownOrRecorded,
       RecorderHasCamera, CameraOrPlayer

\* recordStop in any state leaves the invariant true.
LEMMA RecordStopKeepsInv == CaptureInv /\ alive /\ RecordStop => CaptureInv'
<1> SUFFICES ASSUME CaptureInv, alive, RecordStop PROVE CaptureInv'
  OBVIOUS
<1> USE DEF CaptureInv, MediaOK, ButtonMatchesFlags, CameraComesBack, ShownOrRecorded,
            RecorderHasCamera, CameraOrPlayer
<1>1. CASE ~long /\ camera # "open"
  BY <1>1 DEF RecordStop, android
<1>2. CASE ~(~long /\ camera # "open")
  BY <1>2 DEF RecordStop, android
<1> QED BY <1>1, <1>2

\* Every handler, and every step of the timer, keeps the invariant.
LEMMA CaptureNext == CaptureInv /\ [Next]_vars => CaptureInv'
<1> SUFFICES ASSUME CaptureInv, [Next]_vars PROVE CaptureInv'
  OBVIOUS
<1> USE DEF CaptureInv, MediaOK, ButtonMatchesFlags, CameraComesBack, ShownOrRecorded,
            RecorderHasCamera, CameraOrPlayer
<1>1. CASE DownIgnored
  BY <1>1 DEF DownIgnored, media, flags, view, android
<1>2. CASE DownFails
  BY <1>2 DEF DownFails, Press, Usable, flags, android
<1>3. ASSUME NEW t \in Timers, DownRecords(t) PROVE CaptureInv'
  BY <1>3 DEF DownRecords, Press, Usable, android
<1>4. CASE Up
  BY <1>4, RecordStopKeepsInv DEF Up
<1>5. CASE TouchCancelled
  BY <1>5 DEF TouchCancelled, media, flags, view, android
<1>6. CASE ClickAgain
  BY <1>6 DEF ClickAgain, OpenVideo, Usable, android
<1>7. CASE ClickChangeCamera
  BY <1>7 DEF ClickChangeCamera, Usable, flags, view, android
<1>8. CASE Pause
  BY <1>8 DEF Pause, media, flags, view
<1>9. CASE Resume
  BY <1>9 DEF Resume, OpenVideo, view
<1>10. CASE SurfaceCreated
  BY <1>10 DEF SurfaceCreated, OpenVideo, flags, view
<1>11. CASE SurfaceDestroyed
  BY <1>11 DEF SurfaceDestroyed, view
<1>12. CASE SecondPasses
  BY <1>12 DEF SecondPasses, media, flags, view, android
<1>13. ASSUME NEW t \in Timers, TimerRun(t) PROVE CaptureInv'
  BY <1>13 DEF TimerRun, TimerRead, TimerWrite, TimerTest, media, flags, view, android
<1>14. CASE SendVideo
  BY <1>14, RecordStopKeepsInv DEF SendVideo
<1>15. CASE UNCHANGED vars
  BY <1>15 DEF vars, media, flags, view, android
<1> QED
  BY <1>1, <1>2, <1>3, <1>4, <1>5, <1>6, <1>7, <1>8, <1>9, <1>10, <1>11, <1>12, <1>13,
     <1>14, <1>15 DEF Next

\* The inductive invariant: what is held and what is shown fit together after every handler
\* of VideoCaptureActivity, for every MAX_TIME.
THEOREM CaptureIndInv == Spec => []CaptureInv
BY CaptureInit, CaptureNext, PTL DEF Spec

\* No handler of the capture screen releases the camera behind the back of a recorder.
THEOREM RecorderSafe == Spec => []RecorderHasCamera
<1>1. CaptureInv => RecorderHasCamera
  BY DEF CaptureInv
<1> QED BY <1>1, CaptureIndInv, PTL

\* The capture screen never plays a video while it holds the camera.
THEOREM CameraReleasedForPlayer == Spec => []CameraOrPlayer
<1>1. CaptureInv => CameraOrPlayer
  BY DEF CaptureInv
<1> QED BY <1>1, CaptureIndInv, PTL

\* The record button can be pressed only when there is a camera.
THEOREM ButtonSafe == Spec => []ButtonHasCamera
<1>1. CaptureInv => ButtonHasCamera
  BY DEF CaptureInv, MediaOK, ButtonMatchesFlags, CameraComesBack, ButtonHasCamera, Usable
<1> QED BY <1>1, CaptureIndInv, PTL

=============================================================================
