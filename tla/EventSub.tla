------------------------------ MODULE EventSub ------------------------------
(***************************************************************************)
(* The EventSub connection of the Twitch chat: a registry of subscriptions *)
(* that features add to at any time, and a loop that keeps one websocket   *)
(* open and creates the registered subscriptions for its session through   *)
(* the API.  Twitch may ask the client to reconnect: the subscriptions     *)
(* then move to the new session.  A session lost in any other way takes    *)
(* its subscriptions with it.                                              *)
(*                                                                         *)
(* Connections are numbered, and the number stands for the session id.     *)
(* EventSubState is a function of the place of the loop and is left out.   *)
(***************************************************************************)
EXTENDS Naturals

CONSTANTS
  Subs,      (* Subscriptions, by key.                                      *)
  MaxConns   (* Connections made (bound).                                   *)

ASSUME EventSubAssumption == MaxConns \in Nat

VARIABLES
  at,         (* Where runSession() is.                                     *)
  recreate,   (* recreate                                                   *)
  moved,      (* The url is that of a reconnect.                            *)
  todo,       (* What createAll() has still to create.                      *)
  currentSessionId,  (* 0 for null.                                         *)
  registry,   (* Subscriptions registered.                                  *)
  adding,     (* Calls of register() between the registry and the id.       *)
  creating,   (* Creations launched by register(): subscription and id.     *)
  conn,       (* The last connection made.                                  *)
  welcome,    (* Its sessionId: "no", "yes" or "failed"                     *)
  closed,     (* Its socket is closed.                                      *)
  asked,      (* Its reconnectUrl has arrived.                              *)
  created,    (* Subscriptions of its session on the server.                *)
  failed,     (* Those that it refused, or that no token was there for.     *)
  missed      (* Those lost on the way from one session to the next.        *)

loopVars == <<at, recreate, moved, todo, currentSessionId>>
callVars == <<registry, adding, creating>>
socketVars == <<welcome, closed, asked>>
resultVars == <<created, failed, missed>>
vars == <<loopVars, callVars, conn, socketVars, resultVars>>

Init ==
  /\ at = "none"
  /\ recreate = TRUE
  /\ moved = FALSE
  /\ todo = {}
  /\ currentSessionId = 0
  /\ registry = {}
  /\ adding = {}
  /\ creating = {}
  /\ conn = 0
  /\ welcome = "no"
  /\ closed = TRUE
  /\ asked = FALSE
  /\ created = {}
  /\ failed = {}
  /\ missed = {}

-----------------------------------------------------------------------------
(* The features: start() and register()                                    *)

(* A new session, unless one is active.                                    *)
Start ==
  /\ at \in {"none", "ended"}
  /\ at' = "open"
  /\ recreate' = TRUE
  /\ moved' = FALSE
  /\ UNCHANGED <<todo, currentSessionId, callVars, conn, socketVars, resultVars>>

RegisterAdds(sub) ==
  /\ at # "none"
  /\ sub \notin registry
  /\ registry' = registry \cup {sub}
  /\ adding' = adding \cup {sub}
  /\ UNCHANGED <<loopVars, creating, conn, socketVars, resultVars>>

(* Mutant: the loop is left to create it.                                  *)
LaunchesNothing(sub) == UNCHANGED creating

Launches(sub) ==
  creating' = IF currentSessionId = 0 THEN creating
              ELSE creating \cup {<<sub, currentSessionId>>}

(* Without an id the loop will create it, unless that loop is on its way   *)
(* to a session that subscriptions move to.                                *)
RegisterReads(sub) ==
  /\ sub \in adding
  /\ adding' = adding \ {sub}
  /\ Launches(sub)
  /\ missed' = IF currentSessionId = 0 /\ ~recreate THEN missed \cup {sub} ELSE missed
  /\ UNCHANGED <<loopVars, registry, conn, socketVars, created, failed>>

-----------------------------------------------------------------------------
(* create(): the API knows the sessions whose socket is open               *)

SessionLives(id) == id = conn /\ welcome = "yes" /\ ~closed

Create(sub, id) ==
  \/ /\ SessionLives(id)
     /\ created' = created \cup {sub}
     /\ UNCHANGED <<failed, missed>>
  \/ /\ SessionLives(id)
     /\ failed' = failed \cup ({sub} \ created)
     /\ UNCHANGED <<created, missed>>
  \/ /\ ~SessionLives(id)
     /\ missed' = missed \cup ({sub} \ created)
     /\ UNCHANGED <<created, failed>>

CreateLaunched(sub, id) ==
  /\ <<sub, id>> \in creating
  /\ creating' = creating \ {<<sub, id>>}
  /\ Create(sub, id)
  /\ UNCHANGED <<loopVars, registry, adding, conn, socketVars>>

-----------------------------------------------------------------------------
(* Twitch                                                                  *)

ServerUnchanged == <<loopVars, callVars, conn, missed>>

(* The session of a reconnect takes over the subscriptions of the last.    *)
Welcome ==
  /\ welcome = "no" /\ ~closed
  /\ welcome' = "yes"
  /\ created' = IF moved THEN created ELSE {}
  /\ failed' = IF moved THEN failed ELSE {}
  /\ UNCHANGED <<ServerUnchanged, closed, asked>>

(* finish()                                                                *)
Finish ==
  /\ closed' = TRUE
  /\ welcome' = IF welcome = "no" THEN "failed" ELSE welcome

Drops ==
  /\ ~closed
  /\ Finish
  /\ UNCHANGED <<ServerUnchanged, asked, created, failed>>

AsksToReconnect ==
  /\ welcome = "yes" /\ ~closed
  /\ asked' = TRUE
  /\ UNCHANGED <<ServerUnchanged, welcome, closed, created, failed>>

-----------------------------------------------------------------------------
(* runSession                                                              *)

Open ==
  /\ at = "open"
  /\ conn < MaxConns
  /\ conn' = conn + 1
  /\ welcome' = "no"
  /\ closed' = FALSE
  /\ asked' = FALSE
  /\ at' = "await"
  /\ UNCHANGED <<recreate, moved, todo, currentSessionId, callVars, resultVars>>

AwaitReturns ==
  /\ at = "await"
  /\ welcome = "yes"
  /\ currentSessionId' = conn
  /\ at' = IF recreate THEN "snapshot" ELSE "live"
  /\ UNCHANGED <<recreate, moved, todo, callVars, conn, socketVars, resultVars>>

Snapshot ==
  /\ at = "snapshot"
  /\ todo' = registry
  /\ failed' = {}
  /\ missed' = missed \ registry
  /\ at' = "create"
  /\ UNCHANGED <<recreate, moved, currentSessionId, callVars, conn, socketVars, created>>

CreateNext(sub) ==
  /\ at = "create"
  /\ sub \in todo
  /\ todo' = todo \ {sub}
  /\ Create(sub, currentSessionId)
  /\ UNCHANGED <<at, recreate, moved, currentSessionId, callVars, conn, socketVars>>

AllCreated ==
  /\ at = "create"
  /\ todo = {}
  /\ at' = "live"
  /\ UNCHANGED <<recreate, moved, todo, currentSessionId, callVars, conn, socketVars,
                 resultVars>>

(* Mutant: recreate is not set again.                                      *)
RecreateKept(graceful) == recreate /\ ~graceful

RecreateAfter(graceful) == ~graceful

(* The finally, and what the next round is told.                           *)
Leaves(graceful) ==
  /\ currentSessionId' = 0
  /\ Finish
  /\ recreate' = RecreateAfter(graceful)
  /\ moved' = graceful
  /\ at' = IF graceful THEN "open" ELSE "delay"
  /\ todo' = {}
  /\ UNCHANGED <<callVars, conn, asked, resultVars>>

(* select takes the url if both have come.                                 *)
Migrates == at = "live" /\ asked /\ Leaves(TRUE)

Breaks ==
  /\ \/ at = "await" /\ welcome = "failed"
     \/ at = "live" /\ closed /\ ~asked
  /\ Leaves(FALSE)

(* The token of a create() cannot be checked.                              *)
CreateThrows == at = "create" /\ todo # {} /\ Leaves(FALSE)

(* The timeout is a cancellation, which leaves the loop.                   *)
WelcomeTimesOut ==
  /\ at = "await"
  /\ welcome = "no"
  /\ Finish
  /\ currentSessionId' = 0
  /\ at' = "ended"
  /\ UNCHANGED <<recreate, moved, todo, callVars, conn, asked, resultVars>>

DelayEnds ==
  /\ at = "delay"
  /\ at' = "open"
  /\ UNCHANGED <<recreate, moved, todo, currentSessionId, callVars, conn, socketVars,
                 resultVars>>

LoopStep ==
  \/ Open
  \/ AwaitReturns
  \/ Snapshot
  \/ \E sub \in Subs : CreateNext(sub)
  \/ AllCreated
  \/ Migrates
  \/ Breaks
  \/ CreateThrows
  \/ WelcomeTimesOut
  \/ DelayEnds

CallStep ==
  \/ \E sub \in Subs : RegisterReads(sub)
  \/ \E call \in creating : CreateLaunched(call[1], call[2])

Next ==
  \/ Start
  \/ \E sub \in Subs : RegisterAdds(sub)
  \/ CallStep
  \/ Welcome
  \/ Drops
  \/ AsksToReconnect
  \/ LoopStep

(* The dispatcher runs what is ready, and calls of the API end.            *)
Spec == Init /\ [][Next]_vars /\ WF_vars(LoopStep) /\ WF_vars(CallStep)

-----------------------------------------------------------------------------
Settled(sub) == sub \in created \cup failed \cup missed

(* A live session has every registered subscription, or is about to get    *)
(* it, or the API refused it: the loop and a call of register() at the     *)
(* same time do not leave it to each other.  The exception are calls that  *)
(* fell into the change to another session.                                *)
LiveHasSubscriptions ==
  at = "live" =>
    \A sub \in registry \ adding :
      Settled(sub) \/ \E id \in 1..conn : <<sub, id>> \in creating

(* A graceful reconnect keeps the subscriptions and does not look at the   *)
(* registry: one that was added on the way is created by nobody, until     *)
(* the session after it breaks.                                            *)
LostInReconnect(sub) == moved /\ sub \in missed

(* A registered subscription gets to a session that is open, created there *)
(* or refused by the API, whatever drops, errors and reconnects come       *)
(* first.  The exceptions: it was lost in a reconnect, the wait for a      *)
(* welcome timed out, the connections of the bound are used up.            *)
SubscriptionsServed ==
  \A sub \in Subs :
    sub \in registry ~>
      \/ SessionLives(conn) /\ sub \in created \cup failed
      \/ LostInReconnect(sub)
      \/ at = "ended"
      \/ conn = MaxConns /\ closed
=============================================================================
