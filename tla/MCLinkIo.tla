------------------------------ MODULE MCLinkIo ------------------------------
(***************************************************************************)
(* LinkIo for TLC.                                                         *)
(***************************************************************************)
EXTENDS LinkIo

(* What lies in the queue of a closed relay whose callbacks have ended is  *)
(* read by nobody, nor whether a join gave up a thread that has ended and  *)
(* whose links are not shown: states that differ only there count as one.  *)
Queue(r) == IF closed[r] /\ ~listening[r] THEN <<>> ELSE <<told[r], pending[r]>>

LeftBehind == {r \in abandoned : Alive(r) \/ shownBy = r}

View ==
  <<up, changes, screenVars, flagVars, thread, links, failed, closed,
    client, goal, loop, starts, epoch, LeftBehind, [r \in Relays |-> Queue(r)]>>
=============================================================================
