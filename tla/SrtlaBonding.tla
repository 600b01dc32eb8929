---------------------------- MODULE SrtlaBonding ----------------------------
(***************************************************************************)
(* The scheduler together with what it talks to: the uplinks, some of them *)
(* dead, and the bonding server (srtla_rec, built from its own repository  *)
(* and seen here as its client sees it), which may be restarted and then   *)
(* knows no group.                                                         *)
(*                                                                         *)
(* Only registration and keepalives travel; the flow of SRT packets is     *)
(* checked with SrtlaScheduler alone.  Datagrams of one link keep their    *)
(* order, those of different links do not.                                 *)
(***************************************************************************)
EXTENDS SrtlaScheduler, Sequences

CONSTANTS
  Good,          (* Links that deliver every datagram within a time unit;   *)
                 (* the others are dead and deliver nothing.                *)
  MaxRestarts    (* Bound: restarts of the server.                          *)

ASSUME BondingAssumption ==
  Good \subseteq 1..MaxLinkId /\ MaxRestarts \in Nat

VARIABLES
  toServer, toClient,   (* Datagrams on the way, by link.                   *)
  owner,                (* Per group: the link that created it, or NoLink   *)
                        (* when the server knows no such group.             *)
  member,               (* Per link: the group the server put it in, or     *)
                        (* NoGroup.                                         *)
  restarts,
  ticked                (* The io loop has ticked in this time unit.        *)

netVars    == <<toServer, toClient>>
serverVars == <<owner, member, restarts>>
bondVars   == <<vars, netVars, serverVars, ticked>>

NoGroup  == 0
ServerGroups == Suffixes \ {NoGroup}
Groups   == {g \in ServerGroups : owner[g] # NoLink}

(* The datagrams on the way after ps were sent, at most one on each link.  *)
Queued(q, ps) ==
  [l \in LinkIds |->
    IF l \in Good /\ \E p \in ps : p.to = l /\ p.type # "DATA"
    THEN Append(q[l], CHOOSE p \in ps : p.to = l)
    ELSE q[l]]
ClientSends(ps) == toServer' = Queued(toServer, ps)
Reply(l, type)  == Queued(toClient, {[to |-> l, type |-> type]})
ReplyReg2(l, g) == Queued(toClient, {[to |-> l, type |-> "REG2", id |-> <<"local", g>>]})

BondInit ==
  /\ Init
  /\ toServer = [l \in LinkIds |-> <<>>]
  /\ toClient = [l \in LinkIds |-> <<>>]
  /\ owner = [g \in ServerGroups |-> NoLink]
  /\ member = [l \in LinkIds |-> NoGroup]
  /\ restarts = 0
  /\ ticked = FALSE

-----------------------------------------------------------------------------
(* The client's io loop.  It ticks at least once in every time unit (200   *)
(* ms against a second), and a good link answers within the unit.          *)
TimePasses ==
  /\ ticked
  /\ \A l \in Good : toServer[l] = <<>> /\ toClient[l] = <<>>
  /\ Elapse
  /\ ticked' = FALSE
  /\ UNCHANGED <<netVars, serverVars>>

ClientTicks ==
  /\ Tick
  /\ ClientSends(out')
  /\ ticked' = TRUE
  /\ UNCHANGED <<toClient, serverVars>>

NetworkAvailable ==
  /\ LinkUp
  /\ ClientSends(out')
  /\ UNCHANGED <<toClient, serverVars, ticked>>

(* The socket of a lost network is closed with what it had queued.         *)
NetworkLost(l) ==
  /\ LinkDown(l)
  /\ toServer' = [toServer EXCEPT ![l] = <<>>]
  /\ toClient' = [toClient EXCEPT ![l] = <<>>]
  /\ UNCHANGED <<serverVars, ticked>>

(* The handlers, with their early returns: there the datagram is read and  *)
(* nothing changes.                                                        *)
Ignored(l, m) ==
  \/ m.type = "REG_NGP" /\ (pending # NoLink \/ \E k \in up : ~TimedOut(k))
  \/ m.type = "REG2" /\ pending # l
Handled(l, m) ==
  \/ m.type = "REG_NGP" /\ OnRegNgp(l)
  \/ m.type = "REG2" /\ OnReg2(l, m.id)
  \/ m.type = "REG3" /\ OnReg3(l)
  \/ m.type \in {"REG_ERR", "KEEPALIVE"} /\ OnOther(l)

ClientReceives(l) ==
  /\ toClient[l] # <<>>
  /\ toClient' = [toClient EXCEPT ![l] = Tail(@)]
  /\ LET m == Head(toClient[l]) IN
     \/ Handled(l, m) /\ ClientSends(out')
     \/ Ignored(l, m) /\ UNCHANGED <<vars, toServer>>
  /\ UNCHANGED <<serverVars, ticked>>

-----------------------------------------------------------------------------
(* The server.  An address belongs to the group it created or joined, and  *)
(* is refused another one as long as the server remembers that.            *)
HomeOf(l) == {g \in Groups : owner[g] = l \/ member[l] = g}

(* Ids are random and never come twice: one that somebody still knows is   *)
(* not issued again.  Which of the others is issued makes no difference,   *)
(* so it is the least.                                                     *)
Known(g) ==
  \/ g \in Groups \/ groupId[2] = g
  \/ \E l \in LinkIds : \E i \in DOMAIN toServer[l] :
       toServer[l][i].type = "REG2" /\ toServer[l][i].id[2] = g
  \/ \E l \in LinkIds : \E i \in DOMAIN toClient[l] :
       toClient[l][i].type = "REG2" /\ toClient[l][i].id[2] = g

(* REG1 creates a group and answers with its full id.                      *)
ServerReg1(l, m) ==
  /\ m.type = "REG1"
  /\ LET free == {g \in ServerGroups : ~Known(g)} IN
     IF HomeOf(l) = {} /\ free # {}
     THEN \E g \in free :
            /\ \A h \in free : g <= h
            /\ owner' = [owner EXCEPT ![g] = l]
            /\ toClient' = ReplyReg2(l, g)
     ELSE toClient' = Reply(l, "REG_ERR") /\ UNCHANGED owner
  /\ UNCHANGED member

(* REG2 puts the link into the group it names.                             *)
ServerReg2(l, m) ==
  /\ m.type = "REG2"
  /\ \/ /\ m.id[2] \notin Groups
        /\ toClient' = Reply(l, "REG_NGP")
        /\ UNCHANGED member
     \/ /\ m.id[2] \in Groups /\ HomeOf(l) \subseteq {m.id[2]}
        /\ toClient' = Reply(l, "REG3")
        /\ member' = [member EXCEPT ![l] = m.id[2]]
     \/ /\ m.id[2] \in Groups /\ ~(HomeOf(l) \subseteq {m.id[2]})
        /\ toClient' = Reply(l, "REG_ERR")
        /\ UNCHANGED member
  /\ UNCHANGED owner

(* A keepalive is returned to a member and ignored from anybody else.      *)
ServerKeepalive(l, m) ==
  /\ m.type = "KEEPALIVE"
  /\ toClient' = IF member[l] # NoGroup THEN Reply(l, "KEEPALIVE") ELSE toClient
  /\ UNCHANGED <<owner, member>>

ServerReceives(l) ==
  /\ toServer[l] # <<>>
  /\ toServer' = [toServer EXCEPT ![l] = Tail(@)]
  /\ LET m == Head(toServer[l]) IN
     ServerReg1(l, m) \/ ServerReg2(l, m) \/ ServerKeepalive(l, m)
  /\ UNCHANGED <<vars, restarts, ticked>>

(* A member whose socket is gone and a group that nobody joined are        *)
(* dropped after ten seconds, long after the client gave them up.          *)
ServerDropsMember(l) ==
  /\ member[l] # NoGroup
  /\ l \notin up
  /\ member' = [member EXCEPT ![l] = NoGroup]
  /\ UNCHANGED <<vars, netVars, owner, restarts, ticked>>

Awaited(g) ==
  \/ \E l \in LinkIds : member[l] = g
  \/ established /\ groupId[2] = g
  \/ pending = owner[g]
ServerDropsGroup(g) ==
  /\ g \in Groups /\ ~Awaited(g)
  /\ owner' = [owner EXCEPT ![g] = NoLink]
  /\ UNCHANGED <<vars, netVars, member, restarts, ticked>>

ServerRestarts ==
  /\ restarts < MaxRestarts
  /\ restarts' = restarts + 1
  /\ owner' = [g \in ServerGroups |-> NoLink]
  /\ member' = [l \in LinkIds |-> NoGroup]
  /\ UNCHANGED <<vars, netVars, ticked>>

-----------------------------------------------------------------------------
BondNext ==
  \/ TimePasses
  \/ ClientTicks
  \/ NetworkAvailable
  \/ \E l \in up : NetworkLost(l)
  \/ \E l \in up \cap Good : ClientReceives(l)
  \/ \E l \in Good : ServerReceives(l)
  \/ \E l \in Good : ServerDropsMember(l)
  \/ \E g \in ServerGroups : ServerDropsGroup(g)
  \/ ServerRestarts

(* Time passes and the loop ticks; the datagrams of a good link arrive and *)
(* the server answers them; what the server no longer needs it drops.      *)
BondSpec ==
  /\ BondInit /\ [][BondNext]_bondVars
  /\ WF_bondVars(TimePasses) /\ WF_bondVars(ClientTicks)
  /\ \A l \in Good : /\ WF_bondVars(ClientReceives(l)) /\ WF_bondVars(ServerReceives(l))
                      /\ WF_bondVars(ServerDropsMember(l))
  /\ \A g \in ServerGroups : WF_bondVars(ServerDropsGroup(g))

(* Every good link that stays attached ends up, for good, an active member *)
(* of one and the same group on both sides: with dead links in the round   *)
(* robin, whichever link registered first, and after a server restart.     *)
Joined(l) == established /\ reg[l] = "ACTIVE" /\ member[l] = groupId[2]
GoodLinksJoin ==
  \A l \in Good : <>[](l \notin up \/ Joined(l))

(* Whoever the server holds a member of a group is a member of the group   *)
(* the client has now, through rotations of the candidate, restarts of the *)
(* server and a REG_NGP that comes late: the links are never spread over   *)
(* two groups, of which each would deliver half of the stream.             *)
MembersInGroup ==
  \A l \in LinkIds : member[l] # NoGroup => established /\ member[l] = groupId[2]

(* As long as the server forgets nothing, a link shown as ACTIVE is in the *)
(* client's group there.                                                   *)
ActiveIsMember ==
  restarts = 0 => \A l \in up : reg[l] = "ACTIVE" => member[l] = groupId[2]

(* A REG2 that a link still delivers finds that link to be the candidate:   *)
(* resets, removals and restarts do not hand the registration on while the *)
(* answer is under way.  A REG2 after the deadline is beyond the model.    *)
AnswersAreAwaited ==
  \A l \in LinkIds : \A i \in 1..Len(toClient[l]) :
    toClient[l][i].type = "REG2" => pending = l

(* The client only takes up a group that its candidate created, and that   *)
(* nobody is in yet.                                                       *)
AdoptsOwnGroup ==
  [][groupId' # groupId => /\ owner[groupId'[2]] \in {pending, NoLink}
                           /\ \A l \in LinkIds : member[l] # groupId'[2]]_bondVars

(* SrtlaScheduler.kt:113 says that an established group is registered anew *)
(* because the server did not find it.                                     *)
OnlyALostGroupAsksAnew ==
  [][established /\ pending = NoLink /\ pending' # NoLink
       => groupId[2] \notin Groups]_bondVars

=============================================================================
