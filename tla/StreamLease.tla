----------------------------- MODULE StreamLease -----------------------------
(***************************************************************************)
(* What StreamController promises of the things that the process has once: *)
(* the engine's connection, the bonding relay and the foreground service.  *)
(* One session at a time leases them.  It takes the service first and      *)
(* gives it back last, ends only when it was stopped, and has given        *)
(* everything back by then.                                                *)
(***************************************************************************)
CONSTANTS
  Sessions,
  None       (* No session.                                                 *)

VARIABLES
  owner,     (* The session that leases the process's things, or None.      *)
  stopping,  (* It was told to stop.                                        *)
  held       (* What it holds.                                              *)

vars == <<owner, stopping, held>>

Things == {"service", "relay", "connection"}

Init ==
  /\ owner = None
  /\ stopping = FALSE
  /\ held = {}

Claim(s) ==
  /\ owner = None
  /\ owner' = s
  /\ UNCHANGED <<stopping, held>>

Take(thing) ==
  /\ owner # None
  /\ thing # "service" => "service" \in held
  /\ held' = held \cup {thing}
  /\ UNCHANGED <<owner, stopping>>

Give(thing) ==
  /\ thing = "service" => held = {"service"}
  /\ held' = held \ {thing}
  /\ UNCHANGED <<owner, stopping>>

StopOwner ==
  /\ owner # None
  /\ stopping' = TRUE
  /\ UNCHANGED <<owner, held>>

Release ==
  /\ stopping
  /\ held = {}
  /\ owner' = None
  /\ stopping' = FALSE
  /\ UNCHANGED held

Next ==
  \/ \E s \in Sessions : Claim(s)
  \/ \E thing \in Things : Take(thing) \/ Give(thing)
  \/ StopOwner
  \/ Release

Spec == Init /\ [][Next]_vars
=============================================================================
