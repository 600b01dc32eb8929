----------------------------- MODULE UvcPreview -----------------------------
(***************************************************************************)
(* UVCPreview of the USB camera library: the preview thread opens the      *)
(* stream of UvcStream, takes the frames its callback queued, converts     *)
(* them and leaves the newest for the capture thread, which hands it to    *)
(* Java.  The camera's thread starts and stops the preview and deletes it; *)
(* stopPreview() clears mIsRunning and signals both conditions without     *)
(* holding their mutexes, then joins the threads.                          *)
(*                                                                         *)
(* Frames are counted, not named: every uvc_frame_t is in the pool, in a   *)
(* queue or in a thread's hands.  Bondcast sets the frame callback before  *)
(* the start, in the preview's own pixel format, and never a capture       *)
(* surface, so mIsCapturing stays set; running out of memory is left out.  *)
(***************************************************************************)
EXTENDS UvcStream

CONSTANTS
  MaxFrame,       (* MAX_FRAME: frames that wait for the preview thread.    *)
  FramePoolSize   (* FRAME_POOL_SZ                                          *)

ASSUME PreviewAssumption ==
  /\ MaxFrame \in Nat \ {0}
  /\ FramePoolSize \in Nat \ {0}

VARIABLES
  isRunning,   (* mIsRunning                                                *)
  window,      (* mPreviewWindow # NULL                                     *)
  main,        (* Where the camera's thread is; "idle" between its calls.   *)
  threads,     (* Whose pthread_t is known: "preview", "capture".           *)
  joined,      (* The threads stopPreview() joined.                         *)
  preview,     (* Where the preview thread is.                              *)
  capture,     (* Where the capture thread is.                              *)
  queue,       (* The length of previewFrames.                              *)
  captured,    (* The frames in captureQueu: one or none.                   *)
  copied,      (* The frames the stream's callback copied and not queued.   *)
  pool,        (* The length of mFramePool.                                 *)
  live,        (* Frames allocated and not freed.                           *)
  missed       (* A thread went to sleep after its last wake-up call.       *)

previewVars == <<isRunning, window, main, threads, joined, preview, capture,
                 queue, captured, copied, pool, live, missed>>
vars == <<streamVars, previewVars>>

MainPlaces ==
  {"idle", "create", "signalPreview", "signalCapture", "joinCapture", "joinPreview",
   "clear", "stopped", "deleted"}

PreviewPlaces ==
  {"none", "prepare", "starting", "spawn", "loop", "lock", "asleep", "take", "convert",
   "add", "signal", "stop", "stopping", "exited"}

CapturePlaces ==
  {"none", "begin", "loop", "lock", "asleep", "take", "callback", "exited"}

TypeOK ==
  /\ StreamTypeOK
  /\ isRunning \in BOOLEAN
  /\ window \in BOOLEAN
  /\ main \in MainPlaces
  /\ threads \subseteq {"preview", "capture"}
  /\ joined \subseteq {"preview", "capture"}
  /\ preview \in PreviewPlaces
  /\ capture \in CapturePlaces
  /\ queue \in 0..MaxFrame
  /\ captured \in 0..1
  /\ copied \in 0..1
  /\ pool \in 0..FramePoolSize
  /\ live \in Nat
  /\ missed \in BOOLEAN

Init ==
  /\ StreamInit
  /\ isRunning = FALSE
  /\ window = FALSE
  /\ main = "idle"
  /\ threads = {}
  /\ joined = {}
  /\ preview = "none"
  /\ capture = "none"
  /\ queue = 0
  /\ captured = 0
  /\ copied = 0
  /\ pool = 0
  /\ live = 0
  /\ missed = FALSE

-----------------------------------------------------------------------------
(* The frame pool                                                          *)

(* get_frame: from the pool, or a new one.                                 *)
GetFrame ==
  /\ pool' = IF pool > 0 THEN pool - 1 ELSE pool
  /\ live' = IF pool > 0 THEN live ELSE live + 1

(* recycle_frame, n times: what the pool has no room for is freed.         *)
Kept(n) == IF n <= FramePoolSize - pool THEN n ELSE FramePoolSize - pool

RecycleFrames(n) ==
  /\ pool' = pool + Kept(n)
  /\ live' = live - (n - Kept(n))

(* get_frame and recycle_frame of a frame that was no use.                 *)
TryFrame ==
  \/ pool > 0 /\ UNCHANGED <<pool, live>>
  \/ pool = 0 /\ pool' = 1 /\ live' = live + 1

-----------------------------------------------------------------------------
(* The camera's thread                                                     *)

(* startPreview(), after setPreviewDisplay() with the surface that may not *)
(* be there yet.  A surface set while the preview runs only changes where  *)
(* the picture is drawn, and is left out.                                  *)
StartPreview ==
  /\ main = "idle"
  /\ ~isRunning
  /\ window' \in BOOLEAN
  /\ isRunning' = TRUE
  /\ main' = "create"
  /\ UNCHANGED <<streamVars, threads, joined, preview, capture,
                 queue, captured, copied, pool, live, missed>>

CreateThread ==
  /\ main = "create"
  /\ window
  /\ preview' = "prepare"
  /\ threads' = threads \cup {"preview"}
  /\ main' = "idle"
  /\ UNCHANGED <<streamVars, isRunning, window, joined, capture,
                 queue, captured, copied, pool, live, missed>>

(* No window, or no thread: the flag is taken back.                        *)
CreateFails ==
  /\ main = "create"
  /\ isRunning' = FALSE
  /\ main' = "idle"
  /\ UNCHANGED <<streamVars, window, threads, joined, preview, capture,
                 queue, captured, copied, pool, live, missed>>

(* A preview that does not run only has its queues cleared.                *)
StopPreview ==
  /\ main = "idle"
  /\ main' = IF isRunning THEN "signalPreview" ELSE "clear"
  /\ isRunning' = FALSE
  /\ UNCHANGED <<streamVars, window, threads, joined, preview, capture,
                 queue, captured, copied, pool, live, missed>>

(* A signal wakes the thread that waits now, or nobody.                    *)
(* Mutant: preview_sync is not signalled.                                  *)
WakesNoPreview == UNCHANGED preview

WakesPreview == preview' = IF preview = "asleep" THEN "take" ELSE preview
WakesCapture == capture' = IF capture = "asleep" THEN "take" ELSE capture

SignalPreview ==
  /\ main = "signalPreview"
  /\ WakesPreview
  /\ main' = "signalCapture"
  /\ UNCHANGED <<streamVars, isRunning, window, threads, joined, capture,
                 queue, captured, copied, pool, live, missed>>

SignalCapture ==
  /\ main = "signalCapture"
  /\ WakesCapture
  /\ main' = "joinCapture"
  /\ UNCHANGED <<streamVars, isRunning, window, threads, joined, preview,
                 queue, captured, copied, pool, live, missed>>

(* A thread whose handle is not there yet is not joined.                   *)
(* Mutant: a thread is taken for joined that still runs.                   *)
JoinsAtOnce(thread, at) == joined' = joined \cup {thread}

Joins(thread, at) ==
  \/ thread \notin threads /\ UNCHANGED joined
  \/ /\ thread \in threads
     /\ at = "exited"
     /\ joined' = joined \cup {thread}

JoinCapture ==
  /\ main = "joinCapture"
  /\ Joins("capture", capture)
  /\ main' = "joinPreview"
  /\ UNCHANGED <<streamVars, isRunning, window, threads, preview, capture,
                 queue, captured, copied, pool, live, missed>>

JoinPreview ==
  /\ main = "joinPreview"
  /\ Joins("preview", preview)
  /\ main' = "clear"
  /\ UNCHANGED <<streamVars, isRunning, window, threads, preview, capture,
                 queue, captured, copied, pool, live, missed>>

(* clearPreviewFrame, clearCaptureFrame, and the window is released.       *)
ClearFrames ==
  /\ main = "clear"
  /\ RecycleFrames(queue + captured)
  /\ queue' = 0
  /\ captured' = 0
  /\ window' = FALSE
  /\ main' = "stopped"
  /\ UNCHANGED <<streamVars, isRunning, threads, joined, preview, capture, copied, missed>>

(* The destructor: the queues and the pool are freed.                      *)
Delete ==
  /\ main = "stopped"
  /\ live' = live - (queue + captured + pool)
  /\ queue' = 0
  /\ captured' = 0
  /\ pool' = 0
  /\ main' = "deleted"
  /\ UNCHANGED <<streamVars, isRunning, window, threads, joined, preview, capture,
                 copied, missed>>

MainStep ==
  \/ CreateThread
  \/ CreateFails
  \/ SignalPreview
  \/ SignalCapture
  \/ JoinCapture
  \/ JoinPreview
  \/ ClearFrames
  \/ Delete

-----------------------------------------------------------------------------
(* The preview thread                                                      *)

(* Only the preview thread's place changes.                                *)
PreviewGoes(from, to) ==
  /\ preview = from
  /\ preview' = to
  /\ UNCHANGED <<isRunning, window, main, threads, joined, capture, queue, captured,
                 copied, pool, live, missed>>

(* The camera refuses the format, or the stream cannot be opened.          *)
StartFails ==
  /\ PreviewGoes("prepare", "exited")
  /\ UNCHANGED streamVars

StartStreaming ==
  /\ PreviewGoes("prepare", "starting")
  /\ Open

(* clearPreviewFrame() after the stream started.                           *)
Started ==
  /\ preview = "starting"
  /\ stream = "open"
  /\ preview' = "spawn"
  /\ RecycleFrames(queue)
  /\ queue' = 0
  /\ UNCHANGED <<streamVars, isRunning, window, main, threads, joined, capture,
                 captured, copied, missed>>

Spawn ==
  /\ preview = "spawn"
  /\ preview' = "loop"
  /\ capture' = "begin"
  /\ threads' = threads \cup {"capture"}
  /\ UNCHANGED <<streamVars, isRunning, window, main, joined, queue, captured,
                 copied, pool, live, missed>>

LoopTest ==
  /\ PreviewGoes("loop", IF isRunning THEN "lock" ELSE "signal")
  /\ UNCHANGED streamVars

(* The stopping thread has given its last signal on preview_sync.          *)
PreviewSignalled == main \in {"signalCapture", "joinCapture", "joinPreview"}

(* waitPreviewFrame: an empty queue is waited for, once.                   *)
WaitPreviewFrame ==
  /\ preview = "lock"
  /\ preview' = IF queue = 0 THEN "asleep" ELSE "take"
  /\ missed' = (missed \/ (queue = 0 /\ PreviewSignalled))
  /\ UNCHANGED <<streamVars, isRunning, window, main, threads, joined, capture,
                 queue, captured, copied, pool, live>>

TakePreviewFrame ==
  /\ preview = "take"
  /\ preview' = IF isRunning /\ queue > 0 THEN "convert" ELSE "loop"
  /\ queue' = IF isRunning /\ queue > 0 THEN queue - 1 ELSE queue
  /\ UNCHANGED <<streamVars, isRunning, window, main, threads, joined, capture,
                 captured, copied, pool, live, missed>>

(* A frame for the picture; a broken picture gives both frames back.       *)
Convert ==
  /\ preview = "convert"
  /\ preview' = "add"
  /\ GetFrame
  /\ UNCHANGED <<streamVars, isRunning, window, main, threads, joined, capture,
                 queue, captured, copied, missed>>

ConvertFails ==
  /\ preview = "add"
  /\ preview' = "loop"
  /\ RecycleFrames(2)
  /\ UNCHANGED <<streamVars, isRunning, window, main, threads, joined, capture,
                 queue, captured, copied, missed>>

(* addCaptureFrame replaces the picture that was not taken; the camera's   *)
(* frame goes back to the pool.  Mutant: the replaced one is forgotten.    *)
NoneReplaced == 0

Replaced == captured

AddCaptureFrame ==
  /\ preview = "add"
  /\ preview' = "loop"
  /\ \/ /\ isRunning
        /\ captured' = 1
        /\ RecycleFrames(1 + Replaced)
        /\ WakesCapture
     \/ /\ ~isRunning
        /\ RecycleFrames(2)
        /\ UNCHANGED <<captured, capture>>
  /\ UNCHANGED <<streamVars, isRunning, window, main, threads, joined,
                 queue, copied, missed>>

ExitSignal ==
  /\ preview = "signal"
  /\ preview' = "stop"
  /\ WakesCapture
  /\ UNCHANGED <<streamVars, isRunning, window, main, threads, joined, queue, captured,
                 copied, pool, live, missed>>

StopStreaming ==
  /\ PreviewGoes("stop", "stopping")
  /\ StopFlag

ExitPreview ==
  /\ stream = "closed"
  /\ PreviewGoes("stopping", "exited")
  /\ UNCHANGED streamVars

(* Inside uvc_start_streaming and uvc_stop_streaming.                      *)
InStreamCall ==
  /\ StreamCallStep
  /\ UNCHANGED previewVars

PreviewStep ==
  \/ StartFails
  \/ StartStreaming
  \/ Started
  \/ Spawn
  \/ LoopTest
  \/ WaitPreviewFrame
  \/ TakePreviewFrame
  \/ Convert
  \/ ConvertFails
  \/ AddCaptureFrame
  \/ ExitSignal
  \/ StopStreaming
  \/ ExitPreview
  \/ InStreamCall

-----------------------------------------------------------------------------
(* The capture thread                                                      *)

(* A capture thread nobody joined may outlive the preview.                 *)
CaptureAlive == main # "deleted"

(* clearCaptureFrame()                                                     *)
CaptureBegins ==
  /\ CaptureAlive
  /\ capture = "begin"
  /\ capture' = "loop"
  /\ RecycleFrames(captured)
  /\ captured' = 0
  /\ UNCHANGED <<streamVars, isRunning, window, main, threads, joined, preview,
                 queue, copied, missed>>

CaptureLoopTest ==
  /\ CaptureAlive
  /\ capture = "loop"
  /\ capture' = IF isRunning THEN "lock" ELSE "exited"
  /\ UNCHANGED <<streamVars, isRunning, window, main, threads, joined, preview,
                 queue, captured, copied, pool, live, missed>>

(* Both signals on capture_sync were given: the stopping thread's and the  *)
(* one of the preview thread that leaves its loop.                         *)
CaptureSignalled ==
  /\ main \in {"joinCapture", "joinPreview"}
  /\ preview \in {"stop", "stopping", "exited"}

WaitCaptureFrame ==
  /\ CaptureAlive
  /\ capture = "lock"
  /\ capture' = IF captured > 0 THEN "take" ELSE "asleep"
  /\ missed' = (missed \/ (captured = 0 /\ CaptureSignalled))
  /\ UNCHANGED <<streamVars, isRunning, window, main, threads, joined, preview,
                 queue, captured, copied, pool, live>>

TakeCaptureFrame ==
  /\ CaptureAlive
  /\ capture = "take"
  /\ capture' = IF isRunning /\ captured > 0 THEN "callback" ELSE "loop"
  /\ captured' = IF isRunning THEN 0 ELSE captured
  /\ UNCHANGED <<streamVars, isRunning, window, main, threads, joined, preview,
                 queue, copied, pool, live, missed>>

(* onFrame() returned, the frame goes back.                                *)
CaptureCallback ==
  /\ CaptureAlive
  /\ capture = "callback"
  /\ capture' = "loop"
  /\ RecycleFrames(1)
  /\ UNCHANGED <<streamVars, isRunning, window, main, threads, joined, preview,
                 queue, captured, copied, missed>>

CaptureStep ==
  \/ CaptureBegins
  \/ CaptureLoopTest
  \/ WaitCaptureFrame
  \/ TakeCaptureFrame
  \/ CaptureCallback

(* A condition variable may wake its waiter for no reason.                 *)
SpuriousWakeup ==
  /\ \/ preview = "asleep" /\ WakesPreview /\ UNCHANGED capture
     \/ capture = "asleep" /\ WakesCapture /\ UNCHANGED preview
  /\ UNCHANGED <<streamVars, isRunning, window, main, threads, joined,
                 queue, captured, copied, pool, live, missed>>

-----------------------------------------------------------------------------
(* The stream's callback, uvc_preview_frame_callback                       *)

DuplicateFrame ==
  /\ caller = "user" /\ copied = 0
  /\ isRunning
  /\ copied' = 1
  /\ GetFrame
  /\ UNCHANGED <<streamVars, isRunning, window, main, threads, joined, preview,
                 capture, queue, captured, missed>>

(* The preview stops, the frame is broken or cannot be copied.             *)
DropFrame ==
  /\ UserReturns
  /\ copied = 0
  /\ \/ UNCHANGED <<pool, live>>
     \/ isRunning /\ TryFrame
  /\ UNCHANGED <<isRunning, window, main, threads, joined, preview, capture, queue,
                 captured, copied, missed>>

AddPreviewFrame ==
  /\ UserReturns
  /\ copied = 1
  /\ copied' = 0
  /\ \/ /\ isRunning /\ queue < MaxFrame
        /\ queue' = queue + 1
        /\ WakesPreview
        /\ UNCHANGED <<pool, live>>
     \/ /\ ~(isRunning /\ queue < MaxFrame)
        /\ RecycleFrames(1)
        /\ UNCHANGED <<queue, preview>>
  /\ UNCHANGED <<isRunning, window, main, threads, joined, capture, captured, missed>>

CallbackStep ==
  \/ DuplicateFrame
  \/ DropFrame
  \/ AddPreviewFrame
  \/ CallerTests /\ UNCHANGED previewVars

UsbStep == \E t \in Transfers : Event(t) /\ UNCHANGED previewVars

-----------------------------------------------------------------------------
Next ==
  \/ StartPreview
  \/ StopPreview
  \/ MainStep
  \/ PreviewStep
  \/ CaptureStep
  \/ CallbackStep
  \/ UsbStep
  \/ Unplug /\ UNCHANGED previewVars
  \/ SpuriousWakeup

(* The threads are scheduled, and libusb ends every transfer it was given: *)
(* each has a timeout.  Frames, starts and stops come as they like.        *)
Fairness ==
  /\ WF_vars(MainStep)
  /\ WF_vars(PreviewStep)
  /\ WF_vars(CaptureStep)
  /\ WF_vars(CallbackStep)
  /\ \A t \in Transfers :
       WF_vars((Completed(t) \/ CheckRunning(t) \/ Resubmit(t) \/ Unlink(t) \/ ReapFreed(t))
               /\ UNCHANGED previewVars)

Spec == Init /\ [][Next]_vars /\ Fairness

-----------------------------------------------------------------------------
(* Frames in the hands of the preview thread and of the capture thread.    *)
PreviewHolds == IF preview = "add" THEN 2 ELSE IF preview = "convert" THEN 1 ELSE 0
CaptureHolds == IF capture = "callback" THEN 1 ELSE 0

(* No frame is lost and none is in two places: what was allocated and not  *)
(* freed is in the pool, in a queue, or in a thread's hands, through every *)
(* full queue, broken frame and stop.                                      *)
FramesAccounted ==
  live = pool + queue + captured + copied + PreviewHolds + CaptureHolds

(* When the preview is deleted no thread is inside it any more, its stream *)
(* is closed and every frame freed.  The capture thread is covered only    *)
(* when stopPreview() saw its handle: a stop that comes before the preview *)
(* thread created it does not wait for it.                                 *)
DeletedIsQuiet ==
  main = "deleted" =>
    /\ preview \in {"none", "exited"}
    /\ stream = "closed" /\ caller = "none"
    /\ "capture" \in joined => capture = "exited"
    /\ live = 0

(* A stop ends: the only way to keep the camera's thread in pthread_join   *)
(* for ever is a thread that found mIsRunning set, and went to sleep after *)
(* the signals had been given.                                             *)
StopReturns == main = "signalPreview" ~> (main = "stopped" \/ missed)

(* The only way past the last signal: a thread that sleeps after the       *)
(* signals of the stop were given is one that tested mIsRunning before the *)
(* stop and went to sleep after it.  Every other one was woken, by the     *)
(* stopping thread or, the capture thread, by the preview thread that      *)
(* leaves its loop.                                                        *)
SleeperMissedTheSignal ==
  /\ preview = "asleep" /\ PreviewSignalled => missed
  /\ capture = "asleep" /\ CaptureSignalled => missed

=============================================================================
