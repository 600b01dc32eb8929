-------------------------- MODULE UvcPreview_proofs --------------------------
(***************************************************************************)
(* Proofs about UvcStream and UvcPreview: for any number of transfers and  *)
(* frames, a closed stream is quiet, frames are accounted for, and nothing *)
(* stopPreview() waited for is left in a deleted preview.                  *)
(***************************************************************************)
EXTENDS UvcPreview, TLAPS

-----------------------------------------------------------------------------
(* The stream.  Its thread joins the callback thread with no transfer left,*)
(* and only a device that is gone leaves a transfer freed in flight.       *)
StreamInv ==
  /\ stream \in {"joining", "closed"} => \A t \in Transfers : xfer[t] = "null"
  /\ stream = "closed" <=> caller = "none"
  /\ freed # {} => ~plugged

(* Everything the stream does by itself.                                   *)
StreamStep ==
  \/ \E t \in Transfers : Event(t)
  \/ Unplug
  \/ CallerTests
  \/ UserReturns
  \/ StreamCallStep

StreamNext == StreamStep \/ Open \/ StopFlag

LEMMA StreamTypeStep == StreamTypeOK /\ (StreamNext \/ UNCHANGED streamVars) => StreamTypeOK'
<1> SUFFICES ASSUME StreamTypeOK, StreamNext \/ UNCHANGED streamVars PROVE StreamTypeOK'
  OBVIOUS
<1> USE DEF StreamTypeOK
<1>1. CASE \E t \in Transfers : Event(t)
  <2> PICK t \in Transfers : Event(t)
    BY <1>1
  <2>1. CASE Completed(t) \/ Died(t)
    BY <2>1 DEF Completed, Died
  <2>2. CASE SwapBuffers(t) \/ CheckRunning(t)
    BY <2>2 DEF SwapBuffers, CheckRunning
  <2>3. CASE Resubmit(t) \/ Unlink(t) \/ ReapFreed(t)
    BY <2>3 DEF Resubmit, Unlink, ReapFreed
  <2>4. QED
    BY <2>1, <2>2, <2>3 DEF Event
<1>2. CASE Unplug
  BY <1>2 DEF Unplug
<1>3. CASE CallerTests \/ UserReturns
  BY <1>3 DEF CallerTests, UserReturns
<1>4. CASE StreamCallStep
  <2>1. CASE Submit
    BY <2>1 DEF Submit
  <2>2. CASE SubmitFails
    BY <2>2 DEF SubmitFails
  <2>3. CASE CancelTransfers
    BY <2>3 DEF CancelTransfers, Awaits, InFlight
  <2>4. CASE AwaitTransfers \/ Close
    BY <2>4 DEF AwaitTransfers, Awaits, Close
  <2>5. QED
    BY <1>4, <2>1, <2>2, <2>3, <2>4 DEF StreamCallStep
<1>5. CASE Open \/ StopFlag
  BY <1>5 DEF Open, StopFlag
<1>6. CASE UNCHANGED streamVars
  BY <1>6 DEF streamVars
<1>7. QED
  BY <1>1, <1>2, <1>3, <1>4, <1>5, <1>6 DEF StreamNext, StreamStep

LEMMA StreamInvStep ==
  StreamTypeOK /\ StreamInv /\ (StreamNext \/ UNCHANGED streamVars) => StreamInv'
<1> SUFFICES ASSUME StreamTypeOK, StreamInv, StreamNext \/ UNCHANGED streamVars
             PROVE StreamInv'
  OBVIOUS
<1> USE DEF StreamTypeOK, StreamInv
<1>1. CASE \E t \in Transfers : Event(t)
  <2> PICK t \in Transfers : Event(t)
    BY <1>1
  <2>1. CASE Completed(t) \/ Died(t)
    BY <2>1 DEF Completed, Died, InFlight
  <2>2. CASE SwapBuffers(t) \/ CheckRunning(t)
    BY <2>2 DEF SwapBuffers, CheckRunning
  <2>3. CASE Resubmit(t) \/ Unlink(t) \/ ReapFreed(t)
    BY <2>3 DEF Resubmit, Unlink, ReapFreed
  <2>4. QED
    BY <2>1, <2>2, <2>3 DEF Event
<1>2. CASE Unplug
  BY <1>2 DEF Unplug
<1>3. CASE CallerTests \/ UserReturns
  BY <1>3 DEF CallerTests, UserReturns
<1>4. CASE StreamCallStep
  <2>1. CASE Submit
    BY <2>1 DEF Submit
  <2>2. CASE SubmitFails
    BY <2>2 DEF SubmitFails
  <2>3. CASE CancelTransfers
    <3> PICK gone \in SUBSET {t \in Transfers : InFlight(t) /\ ~plugged} :
          /\ xfer' = [t \in Transfers |-> IF t \in gone THEN "null"
                                          ELSE IF InFlight(t) THEN "cancelled"
                                          ELSE xfer[t]]
          /\ freed' = freed \cup gone
          /\ Awaits(xfer')
      BY <2>3 DEF CancelTransfers
    <3>1. gone # {} => ~plugged
      OBVIOUS
    <3>2. stream' = "joining" => \A t \in Transfers : xfer'[t] = "null"
      BY DEF Awaits, AllGone
    <3>3. QED
      BY <2>3, <3>1, <3>2 DEF CancelTransfers, Awaits
  <2>4. CASE AwaitTransfers
    BY <2>4 DEF AwaitTransfers, Awaits, AllGone
  <2>5. CASE Close
    BY <2>5 DEF Close
  <2>6. QED
    BY <1>4, <2>1, <2>2, <2>3, <2>4, <2>5 DEF StreamCallStep
<1>5. CASE Open \/ StopFlag
  BY <1>5 DEF Open, StopFlag
<1>6. CASE UNCHANGED streamVars
  BY <1>6 DEF streamVars
<1>7. QED
  BY <1>1, <1>2, <1>3, <1>4, <1>5, <1>6 DEF StreamNext, StreamStep

(* Every step of the preview is a step of the stream or leaves it alone.   *)
LEMMA StreamOfNext == [Next]_vars => StreamNext \/ UNCHANGED streamVars
<1> SUFFICES ASSUME [Next]_vars PROVE StreamNext \/ UNCHANGED streamVars
  OBVIOUS
<1> USE DEF StreamNext, StreamStep
<1>1. CASE StartPreview \/ StopPreview \/ MainStep
  BY <1>1 DEF StartPreview, StopPreview, MainStep, CreateThread, CreateFails, SignalPreview,
              SignalCapture, JoinCapture, JoinPreview, ClearFrames, Delete
<1>2. CASE PreviewStep
  BY <1>2 DEF PreviewStep, StartFails, StartStreaming, Started, Spawn, LoopTest,
              WaitPreviewFrame, TakePreviewFrame, Convert, ConvertFails, AddCaptureFrame,
              ExitSignal, StopStreaming, ExitPreview, InStreamCall
<1>3. CASE CaptureStep \/ SpuriousWakeup
  BY <1>3 DEF CaptureStep, CaptureBegins, CaptureLoopTest, WaitCaptureFrame,
              TakeCaptureFrame, CaptureCallback, SpuriousWakeup
<1>4. CASE CallbackStep
  BY <1>4 DEF CallbackStep, DuplicateFrame, DropFrame, AddPreviewFrame
<1>5. CASE UsbStep \/ (Unplug /\ UNCHANGED previewVars) \/ UNCHANGED vars
  BY <1>5 DEF UsbStep, vars
<1>6. QED
  BY <1>1, <1>2, <1>3, <1>4, <1>5 DEF Next

-----------------------------------------------------------------------------
(* What only the stream does leaves the preview's own state alone.         *)
PreviewNext ==
  \/ StartPreview
  \/ StopPreview
  \/ MainStep
  \/ PreviewStep
  \/ CaptureStep
  \/ CallbackStep
  \/ SpuriousWakeup
  \/ UNCHANGED previewVars

LEMMA PreviewOfNext == [Next]_vars => PreviewNext
BY DEF Next, PreviewNext, UsbStep, vars

Frames == TypeOK /\ FramesAccounted

LEMMA FramesInit == Init => Frames
<1> SUFFICES ASSUME Init PROVE Frames
  OBVIOUS
<1>1. StreamTypeOK
  BY DEF Init, StreamInit, StreamTypeOK
<1>2. TypeOK
  <2>1. 0 \in 0..MaxFrame /\ 0 \in 0..FramePoolSize
    BY PreviewAssumption DEF PreviewAssumption
  <2>2. queue \in 0..MaxFrame /\ pool \in 0..FramePoolSize /\ live \in Nat
    BY <2>1 DEF Init
  <2>3. captured \in 0..1 /\ copied \in 0..1
    BY DEF Init
  <2>4. /\ isRunning \in BOOLEAN /\ window \in BOOLEAN /\ missed \in BOOLEAN
        /\ threads \subseteq {"preview", "capture"} /\ joined \subseteq {"preview", "capture"}
    BY DEF Init
  <2>5. main \in MainPlaces /\ preview \in PreviewPlaces /\ capture \in CapturePlaces
    BY DEF Init, MainPlaces, PreviewPlaces, CapturePlaces
  <2>6. QED
    BY <1>1, <2>2, <2>3, <2>4, <2>5 DEF TypeOK
<1>3. CaptureHolds = 0
  BY DEF Init, CaptureHolds
<1>4. PreviewHolds = 0
  BY DEF Init, PreviewHolds
<1>5. QED
  BY <1>2, <1>3, <1>4 DEF Init, Frames, FramesAccounted

(* Steps that move no frame.                                               *)
LEMMA FramesKept ==
  ASSUME TypeOK, FramesAccounted,
         UNCHANGED <<queue, captured, copied, pool, live>>,
         PreviewHolds' = PreviewHolds,
         CaptureHolds' = CaptureHolds
  PROVE  FramesAccounted'
BY DEF FramesAccounted

(* The type of what a step of the preview itself leaves: all but frames.   *)
LEMMA PlacesStep ==
  ASSUME TypeOK, PreviewNext
  PROVE  /\ isRunning' \in BOOLEAN /\ window' \in BOOLEAN /\ missed' \in BOOLEAN
         /\ main' \in MainPlaces
         /\ threads' \subseteq {"preview", "capture"}
         /\ joined' \subseteq {"preview", "capture"}
         /\ preview' \in PreviewPlaces
         /\ capture' \in CapturePlaces
<1>0. /\ "idle" \in MainPlaces /\ "create" \in MainPlaces /\ "signalPreview" \in MainPlaces
      /\ "signalCapture" \in MainPlaces /\ "joinCapture" \in MainPlaces /\ "joinPreview" \in MainPlaces
      /\ "clear" \in MainPlaces /\ "stopped" \in MainPlaces /\ "deleted" \in MainPlaces
      /\ "prepare" \in PreviewPlaces /\ "starting" \in PreviewPlaces /\ "spawn" \in PreviewPlaces
      /\ "loop" \in PreviewPlaces /\ "lock" \in PreviewPlaces /\ "asleep" \in PreviewPlaces
      /\ "take" \in PreviewPlaces /\ "convert" \in PreviewPlaces /\ "add" \in PreviewPlaces
      /\ "signal" \in PreviewPlaces /\ "stop" \in PreviewPlaces /\ "stopping" \in PreviewPlaces
      /\ "exited" \in PreviewPlaces
      /\ "begin" \in CapturePlaces /\ "loop" \in CapturePlaces /\ "lock" \in CapturePlaces
      /\ "asleep" \in CapturePlaces /\ "take" \in CapturePlaces /\ "callback" \in CapturePlaces
      /\ "exited" \in CapturePlaces
  BY DEF MainPlaces, PreviewPlaces, CapturePlaces
<1> USE <1>0 DEF TypeOK
<1>1. CASE StartPreview \/ StopPreview
  BY <1>1 DEF StartPreview, StopPreview
<1>2. CASE MainStep
  <2>1. CASE CreateThread \/ CreateFails
    BY <2>1 DEF CreateThread, CreateFails
  <2>2. CASE SignalPreview \/ SignalCapture
    BY <2>2 DEF SignalPreview, SignalCapture, WakesPreview, WakesCapture
  <2>3. CASE JoinCapture
    BY <2>3 DEF JoinCapture, Joins
  <2>4. CASE JoinPreview
    BY <2>4 DEF JoinPreview, Joins
  <2>5. CASE ClearFrames
    BY <2>5 DEF ClearFrames, RecycleFrames
  <2>6. CASE Delete
    BY <2>6 DEF Delete
  <2>7. QED
    BY <1>2, <2>1, <2>2, <2>3, <2>4, <2>5, <2>6 DEF MainStep
<1>3. CASE PreviewStep
  <2>1. CASE StartFails \/ StartStreaming
    BY <2>1 DEF StartFails, StartStreaming, PreviewGoes
  <2>8. CASE LoopTest
    BY <2>8 DEF LoopTest, PreviewGoes
  <2>9. CASE StopStreaming \/ ExitPreview
    BY <2>9 DEF StopStreaming, ExitPreview, PreviewGoes
  <2>2. CASE Started \/ Spawn
    BY <2>2 DEF Started, Spawn
  <2>3. CASE WaitPreviewFrame \/ TakePreviewFrame
    BY <2>3 DEF WaitPreviewFrame, TakePreviewFrame
  <2>4. CASE Convert \/ ConvertFails
    BY <2>4 DEF Convert, ConvertFails
  <2>5. CASE AddCaptureFrame
    BY <2>5 DEF AddCaptureFrame, WakesCapture
  <2>10. CASE ExitSignal
    BY <2>10 DEF ExitSignal, WakesCapture
  <2>6. CASE InStreamCall
    BY <2>6 DEF InStreamCall, previewVars
  <2>7. QED
    BY <1>3, <2>1, <2>2, <2>3, <2>4, <2>5, <2>6, <2>8, <2>9, <2>10 DEF PreviewStep
<1>4. CASE CaptureStep
  <2>1. CASE CaptureBegins \/ CaptureCallback
    BY <2>1 DEF CaptureBegins, CaptureCallback, RecycleFrames
  <2>2. CASE CaptureLoopTest \/ WaitCaptureFrame
    BY <2>2 DEF CaptureLoopTest, WaitCaptureFrame
  <2>3. CASE TakeCaptureFrame
    BY <2>3 DEF TakeCaptureFrame
  <2>4. QED
    BY <1>4, <2>1, <2>2, <2>3 DEF CaptureStep
<1>5. CASE CallbackStep
  <2>1. CASE DuplicateFrame
    BY <2>1 DEF DuplicateFrame
  <2>2. CASE DropFrame
    BY <2>2 DEF DropFrame
  <2>3. CASE AddPreviewFrame
    BY <2>3 DEF AddPreviewFrame, WakesPreview
  <2>4. CASE CallerTests /\ UNCHANGED previewVars
    BY <2>4 DEF previewVars
  <2>5. QED
    BY <1>5, <2>1, <2>2, <2>3, <2>4 DEF CallbackStep
<1>6. CASE SpuriousWakeup
  BY <1>6 DEF SpuriousWakeup, WakesPreview, WakesCapture
<1>7. CASE UNCHANGED previewVars
  BY <1>7 DEF previewVars
<1>8. QED
  BY <1>1, <1>2, <1>3, <1>4, <1>5, <1>6, <1>7 DEF PreviewNext

-----------------------------------------------------------------------------
(* Where the threads can be at the same time: the preview thread exists    *)
(* from its creation, the stream lives inside it, the capture thread comes *)
(* after the stream, and stopPreview() gets past a join when the thread    *)
(* ended.  A capture thread that was not joined came too late for a frame. *)
PlacesInv ==
  /\ main = "create" => isRunning /\ preview = "none"
  /\ main = "idle" /\ preview # "none" => isRunning
  /\ main \notin {"idle", "create"} => ~isRunning
  /\ main \in {"clear", "stopped", "deleted"} => preview \in {"none", "exited"}
  /\ preview # "none" <=> "preview" \in threads
  /\ capture # "none" <=> "capture" \in threads
  /\ preview \in {"none", "prepare", "starting", "spawn"} => capture = "none"
  /\ "capture" \in joined => capture = "exited"
  /\ main \in {"joinPreview", "clear", "stopped", "deleted"} /\ "capture" \notin joined
       => capture \in {"none", "begin", "loop", "exited"}
  /\ preview \in {"none", "prepare", "exited"} => stream = "closed"
  /\ preview = "starting" => stream \in {"submitting", "open"}
  /\ preview \notin {"none", "prepare", "starting", "stopping", "exited"} => stream = "open"
  /\ copied > 0 => caller = "user"
  /\ main = "deleted" => queue = 0 /\ captured = 0 /\ pool = 0

Inv == TypeOK /\ StreamInv /\ PlacesInv /\ FramesAccounted

(* The frames stay in their bounds, and all of them accounted for.         *)
FramesFine ==
  /\ captured' \in 0..1 /\ copied' \in 0..1
  /\ queue' \in 0..MaxFrame
  /\ pool' \in 0..FramePoolSize
  /\ live' \in Nat
  /\ FramesAccounted'

LEMMA FramesStep ==
  ASSUME Frames, PlacesInv, PreviewNext
  PROVE  FramesFine
<1> USE PreviewAssumption DEF Frames, PreviewAssumption
<1> DEFINE Unmoved == UNCHANGED <<queue, captured, copied, pool, live>>
<1>0. ASSUME Unmoved, PreviewHolds' = PreviewHolds,
             CaptureHolds' = CaptureHolds
      PROVE  FramesFine
  BY <1>0, FramesKept DEF FramesFine, TypeOK
<1>1. CASE StartPreview \/ StopPreview
  BY <1>0, <1>1 DEF StartPreview, StopPreview, PreviewHolds, CaptureHolds
<1>2. CASE MainStep
  <2>1. CASE CreateThread
    BY <1>0, <2>1 DEF CreateThread, PreviewHolds, CaptureHolds, PlacesInv
  <2>2. CASE CreateFails \/ JoinCapture \/ JoinPreview
    BY <1>0, <2>2 DEF CreateFails, JoinCapture, JoinPreview, PreviewHolds, CaptureHolds
  <2>3. CASE SignalPreview \/ SignalCapture
    BY <1>0, <2>3 DEF SignalPreview, SignalCapture, WakesPreview, WakesCapture, PreviewHolds, CaptureHolds
  <2>4. CASE ClearFrames
    BY <2>4 DEF ClearFrames, RecycleFrames, Kept, TypeOK, FramesAccounted, PreviewHolds, CaptureHolds,
                FramesFine
  <2>5. CASE Delete
    BY <2>5 DEF Delete, TypeOK, FramesAccounted, PreviewHolds, CaptureHolds, FramesFine
  <2>6. QED
    BY <1>2, <2>1, <2>2, <2>3, <2>4, <2>5 DEF MainStep
<1>3. CASE PreviewStep
  <2>1. CASE StartFails \/ StartStreaming \/ LoopTest \/ StopStreaming \/ ExitPreview
    BY <1>0, <2>1 DEF StartFails, StartStreaming, LoopTest, StopStreaming, ExitPreview,
                      PreviewGoes, PreviewHolds, CaptureHolds
  <2>2. CASE Started
    BY <2>2 DEF Started, RecycleFrames, Kept, TypeOK, FramesAccounted, PreviewHolds, CaptureHolds,
                FramesFine
  <2>3. CASE Spawn
    BY <1>0, <2>3 DEF Spawn, PreviewHolds, CaptureHolds, PlacesInv
  <2>11. CASE ExitSignal
    BY <1>0, <2>11 DEF ExitSignal, WakesCapture, PreviewHolds, CaptureHolds
  <2>4. CASE WaitPreviewFrame
    BY <1>0, <2>4 DEF WaitPreviewFrame, PreviewHolds, CaptureHolds
  <2>5. CASE TakePreviewFrame
    BY <2>5 DEF TakePreviewFrame, TypeOK, FramesAccounted, PreviewHolds, CaptureHolds, FramesFine
  <2>6. CASE Convert
    BY <2>6 DEF Convert, GetFrame, TypeOK, FramesAccounted, PreviewHolds, CaptureHolds, FramesFine
  <2>7. CASE ConvertFails
    BY <2>7 DEF ConvertFails, RecycleFrames, Kept, TypeOK, FramesAccounted, PreviewHolds, CaptureHolds,
                FramesFine
  <2>8. CASE AddCaptureFrame
    BY <2>8 DEF AddCaptureFrame, Replaced, RecycleFrames, Kept, WakesCapture, TypeOK,
                FramesAccounted, PreviewHolds, CaptureHolds, FramesFine
  <2>9. CASE InStreamCall
    BY <1>0, <2>9 DEF InStreamCall, previewVars, PreviewHolds, CaptureHolds
  <2>10. QED
    BY <1>3, <2>1, <2>2, <2>3, <2>4, <2>5, <2>6, <2>7, <2>8, <2>9, <2>11 DEF PreviewStep
<1>4. CASE CaptureStep
  <2>1. CASE CaptureBegins
    BY <2>1 DEF CaptureBegins, RecycleFrames, Kept, TypeOK, FramesAccounted, PreviewHolds, CaptureHolds,
                FramesFine
  <2>2. CASE CaptureLoopTest \/ WaitCaptureFrame
    BY <1>0, <2>2 DEF CaptureLoopTest, WaitCaptureFrame, PreviewHolds, CaptureHolds
  <2>3. CASE TakeCaptureFrame
    BY <2>3 DEF TakeCaptureFrame, TypeOK, FramesAccounted, PreviewHolds, CaptureHolds, FramesFine
  <2>4. CASE CaptureCallback
    BY <2>4 DEF CaptureCallback, RecycleFrames, Kept, TypeOK, FramesAccounted, PreviewHolds, CaptureHolds,
                FramesFine
  <2>5. QED
    BY <1>4, <2>1, <2>2, <2>3, <2>4 DEF CaptureStep
<1>5. CASE CallbackStep
  <2>1. CASE DuplicateFrame
    BY <2>1 DEF DuplicateFrame, GetFrame, TypeOK, FramesAccounted, PreviewHolds, CaptureHolds, FramesFine
  <2>2. CASE DropFrame
    BY <2>2 DEF DropFrame, TryFrame, TypeOK, FramesAccounted, PreviewHolds, CaptureHolds, FramesFine
  <2>3. CASE AddPreviewFrame
    BY <2>3 DEF AddPreviewFrame, RecycleFrames, Kept, WakesPreview, TypeOK, FramesAccounted,
                PreviewHolds, CaptureHolds, FramesFine
  <2>4. CASE CallerTests /\ UNCHANGED previewVars
    BY <1>0, <2>4 DEF previewVars, PreviewHolds, CaptureHolds
  <2>5. QED
    BY <1>5, <2>1, <2>2, <2>3, <2>4 DEF CallbackStep
<1>6. CASE SpuriousWakeup
  BY <1>0, <1>6 DEF SpuriousWakeup, WakesPreview, WakesCapture, PreviewHolds, CaptureHolds
<1>7. CASE UNCHANGED previewVars
  BY <1>0, <1>7 DEF previewVars, PreviewHolds, CaptureHolds
<1>8. QED
  BY <1>1, <1>2, <1>3, <1>4, <1>5, <1>6, <1>7 DEF PreviewNext

LEMMA PlacesInit == Init => PlacesInv
BY DEF Init, StreamInit, PlacesInv

LEMMA PlacesInvStep == Inv /\ [Next]_vars => PlacesInv'
<1> SUFFICES ASSUME Inv, [Next]_vars PROVE PlacesInv'
  OBVIOUS
<1> USE DEF Inv, PlacesInv
<1>1. CASE StartPreview
  BY <1>1 DEF StartPreview, streamVars
<1>2. CASE StopPreview
  BY <1>2 DEF StopPreview, streamVars
<1>3. CASE MainStep
  <2> USE DEF streamVars
  <2>1. CASE CreateThread
    BY <2>1 DEF CreateThread
  <2>2. CASE CreateFails
    BY <2>2 DEF CreateFails
  <2>3. CASE SignalPreview
    BY <2>3 DEF SignalPreview, WakesPreview
  <2>4. CASE SignalCapture
    BY <2>4 DEF SignalCapture, WakesCapture
  <2>5. CASE JoinCapture
    BY <2>5 DEF JoinCapture, Joins
  <2>6. CASE JoinPreview
    BY <2>6 DEF JoinPreview, Joins
  <2>7. CASE ClearFrames
    BY <2>7 DEF ClearFrames
  <2>8. CASE Delete
    BY <2>8 DEF Delete
  <2>9. QED
    BY <1>3, <2>1, <2>2, <2>3, <2>4, <2>5, <2>6, <2>7, <2>8 DEF MainStep
<1>4. CASE PreviewStep
  <2>1. CASE StartFails
    BY <2>1 DEF StartFails, PreviewGoes, streamVars
  <2>2. CASE StartStreaming
    BY <2>2 DEF StartStreaming, PreviewGoes, Open, StreamInv
  <2>3. CASE Started
    BY <2>3 DEF Started, streamVars
  <2>4. CASE Spawn
    BY <2>4 DEF Spawn, streamVars
  <2>5. CASE LoopTest
    BY <2>5 DEF LoopTest, PreviewGoes, streamVars
  <2>6. CASE WaitPreviewFrame
    BY <2>6 DEF WaitPreviewFrame, streamVars
  <2>7. CASE TakePreviewFrame
    BY <2>7 DEF TakePreviewFrame, streamVars
  <2>8. CASE Convert \/ ConvertFails
    BY <2>8 DEF Convert, ConvertFails, streamVars
  <2>9. CASE AddCaptureFrame
    BY <2>9 DEF AddCaptureFrame, WakesCapture, streamVars
  <2>10. CASE ExitSignal
    BY <2>10 DEF ExitSignal, WakesCapture, streamVars
  <2>11. CASE StopStreaming
    BY <2>11 DEF StopStreaming, PreviewGoes, StopFlag
  <2>12. CASE ExitPreview
    BY <2>12 DEF ExitPreview, PreviewGoes, streamVars
  <2>13. CASE InStreamCall
    <3>1. CASE Submit \/ SubmitFails
      BY <2>13, <3>1 DEF InStreamCall, Submit, SubmitFails, previewVars
    <3>2. CASE CancelTransfers
      BY <2>13, <3>2 DEF InStreamCall, CancelTransfers, previewVars
    <3>3. CASE AwaitTransfers
      BY <2>13, <3>3 DEF InStreamCall, AwaitTransfers, previewVars
    <3>4. CASE Close
      BY <2>13, <3>4 DEF InStreamCall, Close, previewVars
    <3>5. QED
      BY <2>13, <3>1, <3>2, <3>3, <3>4 DEF InStreamCall, StreamCallStep
  <2>14. QED
    BY <1>4, <2>1, <2>2, <2>3, <2>4, <2>5, <2>6, <2>7, <2>8, <2>9, <2>10, <2>11, <2>12, <2>13
       DEF PreviewStep
<1>5. CASE CaptureStep
  <2> USE DEF streamVars, CaptureAlive
  <2>1. CASE CaptureBegins
    BY <2>1 DEF CaptureBegins
  <2>2. CASE CaptureLoopTest
    BY <2>2 DEF CaptureLoopTest
  <2>3. CASE WaitCaptureFrame
    BY <2>3 DEF WaitCaptureFrame
  <2>4. CASE TakeCaptureFrame
    BY <2>4 DEF TakeCaptureFrame
  <2>5. CASE CaptureCallback
    BY <2>5 DEF CaptureCallback
  <2>6. QED
    BY <1>5, <2>1, <2>2, <2>3, <2>4, <2>5 DEF CaptureStep
<1>6. CASE CallbackStep
  <2>1. CASE DuplicateFrame
    BY <2>1 DEF DuplicateFrame, streamVars
  <2>2. CASE DropFrame
    BY <2>2 DEF DropFrame, UserReturns, StreamInv
  <2>3. CASE AddPreviewFrame
    BY <2>3 DEF AddPreviewFrame, UserReturns, StreamInv, WakesPreview
  <2>4. CASE CallerTests /\ UNCHANGED previewVars
    BY <2>4 DEF CallerTests, previewVars
  <2>5. QED
    BY <1>6, <2>1, <2>2, <2>3, <2>4 DEF CallbackStep
<1>7. CASE UsbStep
  <2> PICK t \in Transfers : Event(t) /\ UNCHANGED previewVars
    BY <1>7 DEF UsbStep
  <2>1. stream' = stream /\ caller' = caller
    BY DEF Event, Completed, Died, SwapBuffers, CheckRunning, Resubmit, Unlink, ReapFreed
  <2>2. QED
    BY <2>1 DEF previewVars
<1>8. CASE Unplug /\ UNCHANGED previewVars
  BY <1>8 DEF Unplug, previewVars
<1>9. CASE SpuriousWakeup
  BY <1>9 DEF SpuriousWakeup, WakesPreview, WakesCapture, streamVars
<1>10. CASE UNCHANGED vars
  BY <1>10 DEF vars, streamVars, previewVars
<1>11. QED
  BY <1>1, <1>2, <1>3, <1>4, <1>5, <1>6, <1>7, <1>8, <1>9, <1>10 DEF Next

-----------------------------------------------------------------------------
LEMMA InvInit == Init => Inv
<1>1. Init => StreamInv
  BY DEF Init, StreamInit, StreamInv
<1>2. QED
  BY <1>1, FramesInit, PlacesInit DEF Inv, Frames

LEMMA InvStep == Inv /\ [Next]_vars => Inv'
<1> SUFFICES ASSUME Inv, [Next]_vars PROVE Inv'
  OBVIOUS
<1>1. StreamTypeOK' /\ StreamInv'
  BY StreamOfNext, StreamTypeStep, StreamInvStep DEF Inv, TypeOK
<1>2. PlacesInv'
  BY PlacesInvStep
<1>3. PreviewNext
  BY PreviewOfNext
<1>4. FramesFine
  BY <1>3, FramesStep DEF Inv, Frames
<1>5. TypeOK'
  BY <1>1, <1>3, <1>4, PlacesStep DEF Inv, TypeOK, FramesFine
<1>6. QED
  BY <1>1, <1>2, <1>4, <1>5 DEF Inv, FramesFine

LEMMA InvAlways == Spec => []Inv
BY InvInit, InvStep, PTL DEF Spec

(* The types hold: no queue and no pool overflows, no frame is freed that  *)
(* was not allocated.                                                      *)
THEOREM TypesHold == Spec => []TypeOK
BY InvAlways, PTL DEF Inv

(* No frame is lost and none is in two places.                             *)
THEOREM FramesAreAccounted == Spec => []FramesAccounted
BY InvAlways, PTL DEF Inv

(* A closed stream has no transfer and no thread left, unless the device   *)
(* was pulled out.                                                         *)
THEOREM StreamEndsQuiet == Spec => []ClosedStreamIsQuiet
<1>1. Inv => ClosedStreamIsQuiet
  BY DEF Inv, StreamInv, ClosedStreamIsQuiet
<1>2. QED
  BY <1>1, InvAlways, PTL

(* A deleted preview has no thread in it that stopPreview() knew of, its   *)
(* stream is closed and every frame freed.                                 *)
THEOREM DeletionIsQuiet == Spec => []DeletedIsQuiet
<1>1. Inv => DeletedIsQuiet
  <2> SUFFICES ASSUME Inv, main = "deleted" PROVE DeletedIsQuiet
    BY DEF DeletedIsQuiet
  <2>1. preview \in {"none", "exited"} /\ stream = "closed" /\ caller = "none"
    BY DEF Inv, PlacesInv, StreamInv
  <2>2. "capture" \in joined => capture = "exited"
    BY DEF Inv, PlacesInv
  <2>3. copied = 0
    BY <2>1 DEF Inv, PlacesInv, TypeOK
  <2>4. PreviewHolds = 0 /\ CaptureHolds = 0
    BY <2>1 DEF Inv, PlacesInv, PreviewHolds, CaptureHolds
  <2>5. live = 0
    BY <2>3, <2>4 DEF Inv, PlacesInv, FramesAccounted
  <2>6. QED
    BY <2>1, <2>2, <2>5 DEF DeletedIsQuiet
<1>2. QED
  BY <1>1, InvAlways, PTL

-----------------------------------------------------------------------------
(* Who sleeps on cb_cond is woken.  The stream runs from its opening to    *)
(* its stop, only a stream being opened has a transfer ready, and the      *)
(* stopping thread sleeps only while a transfer is left: the one that      *)
(* unlinks it, under the mutex, wakes everyone.                            *)
WakeInv ==
  /\ running <=> stream \in {"submitting", "open"}
  /\ stream # "submitting" => \A t \in Transfers : xfer[t] # "ready"
  /\ "stopper" \in asleep => stream = "awaiting"
  /\ asleep # {} /\ ~running => stream \in {"cancelling", "awaiting"}
  /\ asleep # {} /\ stream = "awaiting" => ~AllGone(xfer)

(* What the thread that stops the stream leaves, asleep or not.            *)
LEMMA AwaitsWakes ==
  ASSUME StreamTypeOK, ~running, ~running',
         \A t \in Transfers : xfer'[t] # "ready",
         Awaits(xfer')
  PROVE  WakeInv'
<1> USE DEF StreamTypeOK, WakeInv
<1>1. CASE AllGone(xfer')
  BY <1>1 DEF Awaits
<1>2. CASE ~AllGone(xfer')
  BY <1>2 DEF Awaits
<1>3. QED
  BY <1>1, <1>2

LEMMA WakeInvStep ==
  StreamTypeOK /\ StreamInv /\ WakeInv /\ (StreamNext \/ UNCHANGED streamVars) => WakeInv'
<1> SUFFICES ASSUME StreamTypeOK, StreamInv, WakeInv, StreamNext \/ UNCHANGED streamVars
             PROVE WakeInv'
  OBVIOUS
<1> USE DEF StreamTypeOK
<1>1. CASE \E t \in Transfers : Event(t)
  <2> PICK t \in Transfers : Event(t)
    BY <1>1
  <2>1. CASE Completed(t) \/ Died(t)
    BY <2>1 DEF Completed, Died, InFlight, WakeInv, AllGone
  <2>2. CASE SwapBuffers(t)
    BY <2>2 DEF SwapBuffers, WakeInv
  <2>3. CASE CheckRunning(t)
    BY <2>3 DEF CheckRunning, WakeInv, AllGone
  <2>4. CASE Resubmit(t)
    BY <2>4 DEF Resubmit, WakeInv, AllGone
  <2>5. CASE Unlink(t)
    BY <2>5 DEF Unlink, WakeInv
  <2>6. CASE ReapFreed(t)
    BY <2>6 DEF ReapFreed, WakeInv
  <2>7. QED
    BY <2>1, <2>2, <2>3, <2>4, <2>5, <2>6 DEF Event
<1>2. CASE Unplug
  BY <1>2 DEF Unplug, WakeInv, AllGone
<1>3. CASE CallerTests
  BY <1>3 DEF CallerTests, WakeInv, AllGone
<1>4. CASE UserReturns
  BY <1>4 DEF UserReturns, WakeInv, AllGone
<1>5. CASE StreamCallStep
  <2>1. CASE Submit
    <3> PICK t \in Transfers :
          /\ IsNextToSubmit(t)
          /\ xfer' = [xfer EXCEPT ![t] = "flying"]
          /\ stream' = IF t = NumTransfers THEN "open" ELSE stream
      BY <2>1 DEF Submit
    <3>1. ASSUME t = NumTransfers, NEW u \in Transfers PROVE xfer'[u] # "ready"
      BY <3>1, StreamAssumption DEF IsNextToSubmit, Transfers, StreamAssumption
    <3>2. QED
      BY <2>1, <3>1 DEF Submit, WakeInv
  <2>2. CASE SubmitFails
    BY <2>2 DEF SubmitFails, WakeInv
  <2>3. CASE CancelTransfers
    <3> PICK gone \in SUBSET {t \in Transfers : InFlight(t) /\ ~plugged} :
          /\ xfer' = [t \in Transfers |-> IF t \in gone THEN "null"
                                          ELSE IF InFlight(t) THEN "cancelled"
                                          ELSE xfer[t]]
          /\ freed' = freed \cup gone
          /\ Awaits(xfer')
      BY <2>3 DEF CancelTransfers
    <3>1. \A t \in Transfers : xfer'[t] # "ready"
      BY <2>3 DEF CancelTransfers, WakeInv
    <3>2. ~running /\ ~running'
      BY <2>3 DEF CancelTransfers, WakeInv
    <3>3. QED
      BY <3>1, <3>2, AwaitsWakes
  <2>4. CASE AwaitTransfers
    <3>1. ~running /\ ~running' /\ \A t \in Transfers : xfer'[t] # "ready"
      BY <2>4 DEF AwaitTransfers, WakeInv
    <3>2. Awaits(xfer')
      BY <2>4 DEF AwaitTransfers, Awaits
    <3>3. QED
      BY <3>1, <3>2, AwaitsWakes
  <2>5. CASE Close
    BY <2>5 DEF Close, WakeInv
  <2>6. QED
    BY <1>5, <2>1, <2>2, <2>3, <2>4, <2>5 DEF StreamCallStep
<1>6. CASE Open
  BY <1>6 DEF Open, WakeInv
<1>7. CASE StopFlag
  BY <1>7 DEF StopFlag, WakeInv
<1>8. CASE UNCHANGED streamVars
  BY <1>8 DEF streamVars, WakeInv, AllGone
<1>9. QED
  BY <1>1, <1>2, <1>3, <1>4, <1>5, <1>6, <1>7, <1>8 DEF StreamNext, StreamStep

(* No thread of the stream sleeps with nobody left to wake it.             *)
THEOREM SleepersWoken == Spec => []SleepersAreWoken
<1>1. Init => WakeInv
  BY DEF Init, StreamInit, WakeInv
<1>2. Inv /\ WakeInv /\ [Next]_vars => WakeInv'
  BY StreamOfNext, WakeInvStep DEF Inv, TypeOK
<1>3. WakeInv => SleepersAreWoken
  BY DEF WakeInv, SleepersAreWoken, AllGone
<1>4. QED
  BY <1>1, <1>2, <1>3, InvAlways, PTL DEF Spec

-----------------------------------------------------------------------------
(* The two conditions of the preview itself.  A stop that has given its    *)
(* signals is not followed by a new start, so a thread asleep after them   *)
(* was woken or came too late.                                             *)
LEMMA MissedStep == Inv /\ SleeperMissedTheSignal /\ [Next]_vars => SleeperMissedTheSignal'
<1> SUFFICES ASSUME Inv, SleeperMissedTheSignal, [Next]_vars PROVE SleeperMissedTheSignal'
  OBVIOUS
<1> USE DEF SleeperMissedTheSignal, PreviewSignalled, CaptureSignalled
<1>1. CASE StartPreview \/ StopPreview
  BY <1>1 DEF StartPreview, StopPreview
<1>2. CASE MainStep
  <2>1. CASE CreateThread
    BY <2>1 DEF CreateThread
  <2>2. CASE CreateFails
    BY <2>2 DEF CreateFails
  <2>3. CASE SignalPreview
    BY <2>3 DEF SignalPreview, WakesPreview
  <2>4. CASE SignalCapture
    BY <2>4 DEF SignalCapture, WakesCapture
  <2>5. CASE JoinCapture
    BY <2>5 DEF JoinCapture
  <2>6. CASE JoinPreview
    BY <2>6 DEF JoinPreview
  <2>7. CASE ClearFrames \/ Delete
    BY <2>7 DEF ClearFrames, Delete
  <2>8. QED
    BY <1>2, <2>1, <2>2, <2>3, <2>4, <2>5, <2>6, <2>7 DEF MainStep
<1>3. CASE PreviewStep
  <2>1. CASE StartFails
    BY <2>1 DEF StartFails, PreviewGoes, Inv, PlacesInv
  <2>2. CASE StartStreaming
    BY <2>2 DEF StartStreaming, PreviewGoes
  <2>3. CASE Started \/ Spawn
    BY <2>3 DEF Started, Spawn
  <2>4. CASE LoopTest
    BY <2>4 DEF LoopTest, PreviewGoes
  <2>5. CASE WaitPreviewFrame
    BY <2>5 DEF WaitPreviewFrame
  <2>6. CASE TakePreviewFrame
    BY <2>6 DEF TakePreviewFrame
  <2>7. CASE Convert \/ ConvertFails
    BY <2>7 DEF Convert, ConvertFails
  <2>8. CASE AddCaptureFrame
    BY <2>8 DEF AddCaptureFrame, WakesCapture
  <2>9. CASE ExitSignal
    BY <2>9 DEF ExitSignal, WakesCapture
  <2>10. CASE StopStreaming
    BY <2>10 DEF StopStreaming, PreviewGoes
  <2>11. CASE ExitPreview
    BY <2>11 DEF ExitPreview, PreviewGoes
  <2>12. CASE InStreamCall
    BY <2>12 DEF InStreamCall, previewVars
  <2>13. QED
    BY <1>3, <2>1, <2>2, <2>3, <2>4, <2>5, <2>6, <2>7, <2>8, <2>9, <2>10, <2>11, <2>12
       DEF PreviewStep
<1>4. CASE CaptureStep
  <2>1. CASE CaptureBegins
    BY <2>1 DEF CaptureBegins
  <2>2. CASE CaptureLoopTest
    BY <2>2 DEF CaptureLoopTest
  <2>3. CASE WaitCaptureFrame
    <3>1. missed' = (missed \/ (captured = 0 /\ CaptureSignalled))
      BY <2>3 DEF WaitCaptureFrame
    <3>2. capture' = "asleep" => captured = 0
      BY <2>3 DEF WaitCaptureFrame, Inv, TypeOK
    <3>3. QED
      BY <2>3, <3>1, <3>2 DEF WaitCaptureFrame
  <2>4. CASE TakeCaptureFrame
    BY <2>4 DEF TakeCaptureFrame
  <2>5. CASE CaptureCallback
    BY <2>5 DEF CaptureCallback
  <2>6. QED
    BY <1>4, <2>1, <2>2, <2>3, <2>4, <2>5 DEF CaptureStep
<1>5. CASE CallbackStep
  <2>1. CASE DuplicateFrame \/ DropFrame
    BY <2>1 DEF DuplicateFrame, DropFrame
  <2>2. CASE AddPreviewFrame
    BY <2>2 DEF AddPreviewFrame, WakesPreview
  <2>3. CASE CallerTests /\ UNCHANGED previewVars
    BY <2>3 DEF previewVars
  <2>4. QED
    BY <1>5, <2>1, <2>2, <2>3 DEF CallbackStep
<1>6. CASE SpuriousWakeup
  BY <1>6 DEF SpuriousWakeup, WakesPreview, WakesCapture
<1>7. CASE UNCHANGED previewVars
  BY <1>7 DEF previewVars
<1>8. QED
  BY <1>1, <1>2, <1>3, <1>4, <1>5, <1>6, <1>7, PreviewOfNext DEF PreviewNext

(* A thread that sleeps after the signals of the stop is one that tested   *)
(* the flag before it and slept after it: the safety half of a stop that   *)
(* returns.                                                                *)
THEOREM SleeperMissed == Spec => []SleeperMissedTheSignal
<1>1. Init => SleeperMissedTheSignal
  BY DEF Init, SleeperMissedTheSignal
<1>2. QED
  BY <1>1, MissedStep, InvAlways, PTL DEF Spec

=============================================================================
