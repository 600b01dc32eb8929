------------------------------ MODULE SrtSink ------------------------------
(***************************************************************************)
(* SendTimeSrtSink: the end of the streaming pipeline, one SRT socket at a *)
(* time.  open() runs on the session's thread, the completion callback of  *)
(* a socket on the socket's own, write() on the encoder's; they share the  *)
(* fields below.  isOpenFlow is what the session waits on to learn that    *)
(* the connection is gone.                                                 *)
(*                                                                         *)
(* The socket is a library's: it may die at any moment, and its callback   *)
(* runs once, some time after that, also when open() has gone on to the    *)
(* next socket.                                                            *)
(***************************************************************************)
EXTENDS Naturals

VARIABLES
  socket,      (* The current socket: "none", "connecting", "connected" or "dead". *)
  callback,    (* Its completion callback: "armed", "set" once it wrote completionException, *)
               (* "told" once it also emitted to isOpenFlow.                *)
  late,        (* The same of the previous socket, which is dead.          *)
  failed,      (* completionException # null                               *)
  onError,     (* isOnError                                                *)
  isOpen,      (* isOpenFlow                                               *)
  opening,     (* Where open() is: "no", "connect", "check" or "emit".     *)
  streaming,   (* The encoder sends: between startStream() and stopStream(). *)
  alive,       (* The local variable of open().                            *)
  raced        (* History: the socket died after open() had looked at it   *)
               (* and before it emitted.                                   *)

sinkVars == <<socket, callback, late, failed, onError, isOpen, opening, streaming,
              alive, raced>>

CallbackState == {"armed", "set", "told"}

SinkTypeOK ==
  /\ socket \in {"none", "connecting", "connected", "dead"}
  /\ {callback, late} \subseteq CallbackState
  /\ opening \in {"no", "connect", "check", "emit"}
  /\ {failed, onError, isOpen, streaming, alive, raced} \subseteq BOOLEAN

SinkInit ==
  /\ socket = "none"
  /\ callback = "told"
  /\ late = "told"
  /\ failed = FALSE
  /\ onError = FALSE
  /\ isOpen = FALSE
  /\ opening = "no"
  /\ streaming = FALSE
  /\ alive = FALSE
  /\ raced = FALSE

-----------------------------------------------------------------------------
(* open()                                                                  *)

(* The framework opens a sink that is not open.  Bound: one callback of an *)
(* earlier socket may be late.                                             *)
OpenBegin ==
  /\ opening = "no"
  /\ ~isOpen
  /\ late = "told"
  /\ opening' = "connect"
  /\ socket' = "connecting"
  /\ callback' = "armed"
  /\ late' = callback
  /\ failed' = FALSE
  /\ onError' = FALSE
  /\ UNCHANGED <<isOpen, streaming, alive, raced>>

ConnectOk ==
  /\ opening = "connect" /\ socket = "connecting"
  /\ socket' = "connected"
  /\ opening' = "check"
  /\ UNCHANGED <<callback, late, failed, onError, isOpen, streaming, alive, raced>>

(* connect() throws; the caller closes the sink.                           *)
ConnectFails ==
  /\ opening = "connect"
  /\ opening' = "no"
  /\ UNCHANGED <<socket, callback, late, failed, onError, isOpen, streaming, alive, raced>>

CheckAlive ==
  /\ opening = "check"
  /\ alive' = (~failed /\ socket = "connected")
  /\ opening' = "emit"
  /\ UNCHANGED <<socket, callback, late, failed, onError, isOpen, streaming, raced>>

(* Mutant: the flag is raised whatever the check said.                     *)
RaisedAlways == TRUE

Raised == alive

(* The flag, and the exception when the socket was dead.                   *)
EmitOpen ==
  /\ opening = "emit"
  /\ isOpen' = Raised
  /\ opening' = "no"
  /\ alive' = FALSE
  /\ UNCHANGED <<socket, callback, late, failed, onError, streaming, raced>>

(* startStream() requires a connected socket.                              *)
StartSending ==
  /\ socket = "connected"
  /\ streaming' = TRUE
  /\ UNCHANGED <<socket, callback, late, failed, onError, isOpen, opening, alive, raced>>

-----------------------------------------------------------------------------
(* The socket dies: the network is gone, the server hung up, or it was     *)
(* closed.                                                                 *)
Dies ==
  /\ socket' = "dead"
  /\ raced' = (raced \/ (opening = "emit" /\ alive))

SocketDies ==
  /\ socket = "connected"
  /\ Dies
  /\ UNCHANGED <<callback, late, failed, onError, isOpen, opening, streaming, alive>>

(* The callback of the current socket, and of the one before it.  The      *)
(* exception is null after a completion without one.                       *)
CallbackSets(exception) ==
  /\ socket = "dead" /\ callback = "armed"
  /\ callback' = "set"
  /\ failed' = exception
  /\ UNCHANGED <<socket, late, onError, isOpen, opening, streaming, alive, raced>>

(* Mutant: a completion without an exception does not lower the flag.      *)
FlagOnError == isOpen /\ ~failed

FlagOnCompletion == FALSE

CallbackTells ==
  /\ callback = "set"
  /\ callback' = "told"
  /\ isOpen' = FlagOnCompletion
  /\ UNCHANGED <<socket, late, failed, onError, opening, streaming, alive, raced>>

LateSets(exception) ==
  /\ late = "armed"
  /\ late' = "set"
  /\ failed' = exception
  /\ UNCHANGED <<socket, callback, onError, isOpen, opening, streaming, alive, raced>>

LateTells ==
  /\ late = "set"
  /\ late' = "told"
  /\ isOpen' = FlagOnCompletion
  /\ UNCHANGED <<socket, callback, failed, onError, opening, streaming, alive, raced>>

Notifies ==
  \/ \E exception \in BOOLEAN : CallbackSets(exception) \/ LateSets(exception)
  \/ CallbackTells \/ LateTells

(* stopStream() and close() of the framework: the encoder stops, and the   *)
(* sink's close() does nothing but close the socket.                       *)
Closed ==
  /\ streaming' = FALSE
  /\ IF socket \in {"connecting", "connected"} THEN Dies ELSE UNCHANGED <<socket, raced>>
  /\ UNCHANGED <<callback, late, failed, onError, isOpen, alive>>

(* A packet of the encoder that finds the exception of the callback, or    *)
(* that fails and closes the socket.                                       *)
WriteFails ==
  /\ streaming /\ ~onError
  /\ onError' = TRUE
  /\ IF ~failed /\ socket = "connected" THEN Dies ELSE UNCHANGED <<socket, raced>>
  /\ UNCHANGED <<callback, late, failed, isOpen, opening, streaming, alive>>

=============================================================================
