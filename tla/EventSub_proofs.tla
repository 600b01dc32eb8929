--------------------------- MODULE EventSub_proofs ---------------------------
(***************************************************************************)
(* Proof that for any subscriptions, in any order of registrations, drops  *)
(* and reconnects, a live session has or is about to get every registered  *)
(* subscription.                                                           *)
(***************************************************************************)
EXTENDS EventSub, TLAPS

Types ==
  /\ conn \in Nat
  /\ recreate \in BOOLEAN /\ moved \in BOOLEAN
  /\ moved <=> ~recreate
  /\ adding \subseteq registry /\ registry \subseteq Subs
  /\ creating \subseteq Subs \X (1..conn)

(* The id is set from the welcome to the end of the connection, and a      *)
(* welcome can only come before.                                           *)
IdIsOfConnection ==
  /\ at \in {"snapshot", "create", "live"} => currentSessionId = conn /\ conn # 0
  /\ at \notin {"snapshot", "create", "live"} => currentSessionId = 0
  /\ welcome = "no" /\ ~closed => at = "await"
  /\ at = "await" => conn # 0
  /\ at = "delay" => recreate

(* Where the loop no longer counts on a snapshot of the registry to come.  *)
PastSnapshot == at \in {"create", "live"} \/ (at \in {"open", "await"} /\ ~recreate)

SubscriptionsKept ==
  PastSnapshot =>
    \A sub \in registry \ adding :
      \/ at = "create" /\ sub \in todo
      \/ Settled(sub)
      \/ \E id \in 1..conn : <<sub, id>> \in creating

Inv == Types /\ IdIsOfConnection /\ SubscriptionsKept

LEMMA InvInit == Init => Inv
<1> SUFFICES ASSUME Init PROVE Inv
  OBVIOUS
<1>1. Types
  BY DEF Init, Types
<1>2. IdIsOfConnection /\ SubscriptionsKept
  BY DEF Init, IdIsOfConnection, SubscriptionsKept, PastSnapshot
<1> QED
  BY <1>1, <1>2 DEF Inv

(* One step per action.                                                    *)
LEMMA InvStep == Inv /\ [Next]_vars => Inv'
<1> SUFFICES ASSUME Inv, [Next]_vars PROVE Inv'
  OBVIOUS
<1> USE DEF Inv, Types, IdIsOfConnection, SubscriptionsKept, PastSnapshot, Settled,
            loopVars, callVars, socketVars, resultVars
<1>1. CASE Start
  BY <1>1 DEF Start
<1>2. CASE \E sub \in Subs : RegisterAdds(sub)
  BY <1>2 DEF RegisterAdds
<1>3. CASE \E sub \in Subs : RegisterReads(sub)
  BY <1>3 DEF RegisterReads, Launches
<1>4. CASE \E call \in creating : CreateLaunched(call[1], call[2])
  <2> PICK call \in creating : CreateLaunched(call[1], call[2])
    BY <1>4
  <2>1. /\ creating' = creating \ {call}
        /\ UNCHANGED <<at, recreate, moved, todo, currentSessionId, registry, adding, conn,
                       welcome, closed>>
    BY DEF CreateLaunched
  <2>2. Settled(call[1])' /\ \A sub \in Subs : Settled(sub) => Settled(sub)'
    BY DEF CreateLaunched, Create
  <2>3. \A sub \in Subs, id \in 1..conn :
          <<sub, id>> \in creating => <<sub, id>> \in creating' \/ sub = call[1]
    BY <2>1
  <2> HIDE DEF Settled
  <2>4. SubscriptionsKept'
    BY <2>1, <2>2, <2>3
  <2>5. Types' /\ IdIsOfConnection'
    BY <2>1
  <2> QED
    BY <2>4, <2>5
<1>5. CASE Welcome
  BY <1>5 DEF Welcome, ServerUnchanged
<1>6. CASE Drops \/ AsksToReconnect
  BY <1>6 DEF Drops, AsksToReconnect, Finish, ServerUnchanged
<1>7. CASE Open
  BY <1>7 DEF Open
<1>8. CASE AwaitReturns
  BY <1>8 DEF AwaitReturns
<1>9. CASE Snapshot
  BY <1>9 DEF Snapshot
<1>10. CASE \E sub \in Subs : CreateNext(sub)
  <2> PICK sub \in Subs : CreateNext(sub)
    BY <1>10
  <2>1. /\ todo' = todo \ {sub} /\ at = "create"
        /\ UNCHANGED <<at, recreate, moved, currentSessionId, registry, adding, creating, conn,
                       welcome, closed>>
    BY DEF CreateNext
  <2>2. Settled(sub)' /\ \A s \in Subs : Settled(s) => Settled(s)'
    BY DEF CreateNext, Create
  <2> HIDE DEF Settled
  <2>3. SubscriptionsKept'
    BY <2>1, <2>2
  <2>4. Types' /\ IdIsOfConnection'
    BY <2>1
  <2> QED
    BY <2>3, <2>4
<1>11. CASE AllCreated
  BY <1>11 DEF AllCreated
<1>12. CASE Migrates \/ Breaks \/ CreateThrows
  BY <1>12 DEF Migrates, Breaks, CreateThrows, Leaves, RecreateAfter, Finish
<1>13. CASE WelcomeTimesOut
  BY <1>13 DEF WelcomeTimesOut, Finish
<1>14. CASE DelayEnds
  BY <1>14 DEF DelayEnds
<1>15. CASE UNCHANGED vars
  BY <1>15 DEF vars
<1> QED
  BY <1>1, <1>2, <1>3, <1>4, <1>5, <1>6, <1>7, <1>8, <1>9, <1>10, <1>11, <1>12,
     <1>13, <1>14, <1>15 DEF Next, CallStep, LoopStep

(* register() and the loop never leave a subscription to each other: it    *)
(* adds before it reads the id, the loop sets the id before it reads the   *)
(* registry.                                                               *)
THEOREM LiveHasAll == Spec => []LiveHasSubscriptions
<1>1. Inv => LiveHasSubscriptions
  BY DEF Inv, SubscriptionsKept, PastSnapshot, LiveHasSubscriptions
<1> QED
  BY <1>1, InvInit, InvStep, PTL DEF Spec
=============================================================================
