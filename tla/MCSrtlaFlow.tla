---------------------------- MODULE MCSrtlaFlow ----------------------------
(***************************************************************************)
(* Model checking the windows and the packet logs of SrtlaScheduler.  No   *)
(* guard of an action that changes what FlowView shows reads a variable    *)
(* FlowView hides: the registration state follows the flow and never       *)
(* steers it, so states that differ only there count as one.               *)
(***************************************************************************)
EXTENDS SrtlaScheduler

FlowView == <<nextLinkId, up, enabled, rcvdAge, flowVars>>
=============================================================================
