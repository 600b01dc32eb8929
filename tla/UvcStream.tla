------------------------------ MODULE UvcStream ------------------------------
(***************************************************************************)
(* The video stream of libuvc (stream.c): NumTransfers USB transfers are   *)
(* submitted again and again by the USB event thread, which assembles      *)
(* their payloads into frames; a thread of the stream hands the newest     *)
(* frame to the user's callback; stopping cancels the transfers and waits  *)
(* for both.  All share cb_mutex and the condition cb_cond.                *)
(*                                                                         *)
(* What libusb does with a transfer (it completes, times out, is cancelled *)
(* or dies with the device) is chosen by the environment.  The bytes of a  *)
(* payload are abstracted to "a frame got complete or not", and the        *)
(* sequence numbers to whether the held frame is a new one.                *)
(***************************************************************************)
EXTENDS Integers

CONSTANT NumTransfers  (* LIBUVC_NUM_TRANSFER_BUFS *)

ASSUME StreamAssumption == NumTransfers \in Nat \ {0}

Transfers == 1..NumTransfers

VARIABLES
  plugged,   (* The camera is on the bus.                                   *)
  stream,    (* Where the thread that opens and stops the stream is; the    *)
             (* handle exists unless "closed".                              *)
  running,   (* strmh->running                                              *)
  xfer,      (* Of every transfer: "null" (no pointer), "ready", "flying",  *)
             (* "cancelled" (and flying), or its step in the event thread:  *)
             (* "payload", "resubmit", "unlink".                            *)
  freed,     (* Transfers that were freed while libusb still had them.      *)
  fresh,     (* last_seq # hold_seq                                         *)
  caller,    (* The callback thread: "none", "test", "user" or "exited".    *)
  asleep     (* Who waits on cb_cond: "caller", "stopper".                  *)

streamVars == <<plugged, stream, running, xfer, freed, fresh, caller, asleep>>

StreamTypeOK ==
  /\ plugged \in BOOLEAN
  /\ stream \in {"closed", "submitting", "open", "cancelling", "awaiting", "joining"}
  /\ running \in BOOLEAN
  /\ xfer \in [Transfers -> {"null", "ready", "flying", "cancelled",
                             "payload", "resubmit", "unlink"}]
  /\ freed \subseteq Transfers
  /\ fresh \in BOOLEAN
  /\ caller \in {"none", "test", "user", "exited"}
  /\ asleep \subseteq {"caller", "stopper"}

StreamInit ==
  /\ plugged = TRUE
  /\ stream = "closed"
  /\ running = FALSE
  /\ xfer = [t \in Transfers |-> "null"]
  /\ freed = {}
  /\ fresh = FALSE
  /\ caller = "none"
  /\ asleep = {}

-----------------------------------------------------------------------------
(* uvc_start_streaming: open the handle, start the callback thread, submit *)
(* the transfers one by one.                                               *)

Open ==
  /\ stream = "closed"
  /\ plugged
  /\ stream' = "submitting"
  /\ running' = TRUE
  /\ xfer' = [t \in Transfers |-> "ready"]
  /\ fresh' = FALSE
  /\ caller' = "test"
  /\ asleep' = {}
  /\ UNCHANGED <<plugged, freed>>

IsNextToSubmit(t) ==
  /\ xfer[t] = "ready"
  /\ \A u \in Transfers : xfer[u] = "ready" => t <= u

Submit ==
  /\ stream = "submitting"
  /\ \E t \in Transfers :
       /\ IsNextToSubmit(t)
       /\ xfer' = [xfer EXCEPT ![t] = "flying"]
       /\ stream' = IF t = NumTransfers THEN "open" ELSE stream
  /\ UNCHANGED <<plugged, running, freed, fresh, caller, asleep>>

(* A refused transfer and all after it are freed; the start succeeds.      *)
SubmitFails ==
  /\ stream = "submitting"
  /\ xfer' = [t \in Transfers |-> IF xfer[t] = "ready" THEN "null" ELSE xfer[t]]
  /\ stream' = "open"
  /\ UNCHANGED <<plugged, running, freed, fresh, caller, asleep>>

-----------------------------------------------------------------------------
(* The USB event thread: one completed transfer at a time.                 *)

InFlight(t) == xfer[t] \in {"flying", "cancelled"}

EventIdle == \A t \in Transfers : xfer[t] \notin {"payload", "resubmit", "unlink"}

(* COMPLETED, TIMED_OUT, STALL or OVERFLOW.                                *)
Completed(t) ==
  /\ EventIdle
  /\ InFlight(t)
  /\ xfer' = [xfer EXCEPT ![t] = "payload"]
  /\ UNCHANGED <<plugged, stream, running, freed, fresh, caller, asleep>>

(* CANCELLED, ERROR or NO_DEVICE: not submitted again.                     *)
Died(t) ==
  /\ EventIdle
  /\ InFlight(t)
  /\ xfer' = [xfer EXCEPT ![t] = "unlink"]
  /\ UNCHANGED <<plugged, stream, running, freed, fresh, caller, asleep>>

(* _uvc_swap_buffers: a frame is complete; an isochronous transfer may     *)
(* complete several.                                                       *)
SwapBuffers(t) ==
  /\ xfer[t] = "payload"
  /\ fresh' = TRUE
  /\ asleep' = {}
  /\ UNCHANGED <<plugged, stream, running, xfer, freed, caller>>

CheckRunning(t) ==
  /\ xfer[t] = "payload"
  /\ xfer' = [xfer EXCEPT ![t] = IF running THEN "resubmit" ELSE "unlink"]
  /\ UNCHANGED <<plugged, stream, running, freed, fresh, caller, asleep>>

Resubmit(t) ==
  /\ xfer[t] = "resubmit"
  /\ \/ plugged /\ xfer' = [xfer EXCEPT ![t] = "flying"]
     \/ xfer' = [xfer EXCEPT ![t] = "unlink"]
  /\ UNCHANGED <<plugged, stream, running, freed, fresh, caller, asleep>>

(* The transfer is freed, and whoever waits on the condition told.         *)
Unlink(t) ==
  /\ xfer[t] = "unlink"
  /\ xfer' = [xfer EXCEPT ![t] = "null"]
  /\ asleep' = {}
  /\ UNCHANGED <<plugged, stream, running, freed, fresh, caller>>

(* A transfer the stopping thread freed under libusb: "not found".         *)
ReapFreed(t) ==
  /\ EventIdle
  /\ t \in freed
  /\ freed' = freed \ {t}
  /\ asleep' = {}
  /\ UNCHANGED <<plugged, stream, running, xfer, fresh, caller>>

Event(t) ==
  \/ Completed(t)
  \/ Died(t)
  \/ SwapBuffers(t)
  \/ CheckRunning(t)
  \/ Resubmit(t)
  \/ Unlink(t)
  \/ ReapFreed(t)

Unplug ==
  /\ plugged
  /\ plugged' = FALSE
  /\ UNCHANGED <<stream, running, xfer, freed, fresh, caller, asleep>>

-----------------------------------------------------------------------------
(* The callback thread, _uvc_user_caller                                   *)

CallerTests ==
  /\ caller = "test"
  /\ "caller" \notin asleep
  /\ \/ /\ ~running
        /\ caller' = "exited"
        /\ UNCHANGED <<fresh, asleep>>
     \/ /\ running /\ ~fresh
        /\ asleep' = asleep \cup {"caller"}
        /\ UNCHANGED <<fresh, caller>>
     \/ /\ running /\ fresh
        /\ fresh' = FALSE
        /\ caller' = "user"
        /\ UNCHANGED asleep
  /\ UNCHANGED <<plugged, stream, running, xfer, freed>>

UserReturns ==
  /\ caller = "user"
  /\ caller' = "test"
  /\ UNCHANGED <<plugged, stream, running, xfer, freed, fresh, asleep>>

-----------------------------------------------------------------------------
(* uvc_stop_streaming: uvc_stream_stop and uvc_stream_close                *)

StopFlag ==
  /\ stream = "open"
  /\ running' = FALSE
  /\ stream' = "cancelling"
  /\ UNCHANGED <<plugged, xfer, freed, fresh, caller, asleep>>

(* Mutant: one that is gone is enough.                                     *)
OneGone(x) == \E t \in Transfers : x[t] = "null"

AllGone(x) == \A t \in Transfers : x[t] = "null"

(* Under cb_mutex: all transfers gone, the callback thread is kicked;      *)
(* otherwise the condition is waited for.                                  *)
Awaits(x) ==
  \/ /\ AllGone(x)
     /\ stream' = "joining"
     /\ asleep' = {}
  \/ /\ ~AllGone(x)
     /\ stream' = "awaiting"
     /\ asleep' = asleep \cup {"stopper"}

(* What is in flight is cancelled.  A transfer libusb says is not in       *)
(* flight is left alone, and one it fails to cancel, which it does when    *)
(* the device is gone, is freed at once.                                   *)
CancelTransfers ==
  /\ stream = "cancelling"
  /\ \E gone \in SUBSET {t \in Transfers : InFlight(t) /\ ~plugged} :
       LET after == [t \in Transfers |-> IF t \in gone THEN "null"
                                         ELSE IF InFlight(t) THEN "cancelled"
                                         ELSE xfer[t]]
       IN  /\ xfer' = after
           /\ freed' = freed \cup gone
           /\ Awaits(after)
  /\ UNCHANGED <<plugged, running, fresh, caller>>

AwaitTransfers ==
  /\ stream = "awaiting"
  /\ "stopper" \notin asleep
  /\ Awaits(xfer)
  /\ UNCHANGED <<plugged, running, xfer, freed, fresh, caller>>

(* The callback thread is joined and the handle freed.                     *)
Close ==
  /\ stream = "joining"
  /\ caller = "exited"
  /\ stream' = "closed"
  /\ caller' = "none"
  /\ UNCHANGED <<plugged, running, xfer, freed, fresh, asleep>>

(* The steps of the thread inside uvc_start_streaming and                  *)
(* uvc_stop_streaming, after the call.                                     *)
StreamCallStep ==
  \/ Submit
  \/ SubmitFails
  \/ CancelTransfers
  \/ AwaitTransfers
  \/ Close

-----------------------------------------------------------------------------
(* Once the handle is freed nothing of the stream is left: libusb has no   *)
(* transfer that points to it and its callback thread has ended.  The      *)
(* exception is a device that was pulled out: a transfer libusb could not  *)
(* cancel was freed while it was in flight.                                *)
ClosedStreamIsQuiet ==
  /\ stream = "closed" => /\ \A t \in Transfers : xfer[t] = "null"
                          /\ caller = "none"
  /\ freed # {} => ~plugged

(* Nobody sleeps on cb_cond with nobody left to signal it: while a thread  *)
(* waits there the stream runs, or the thread that stops it is about to    *)
(* look, or libusb still has a transfer whose end wakes the waiters.  So   *)
(* the callback thread and the stopping thread never wait on each other,   *)
(* and the pulled cable does not leave both asleep.                        *)
SleepersAreWoken ==
  asleep # {} =>
    \/ running
    \/ stream = "cancelling"
    \/ \E t \in Transfers : xfer[t] \notin {"null", "ready"}

=============================================================================
