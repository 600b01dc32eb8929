------------------------ MODULE SrtlaBonding_proofs ------------------------
(***************************************************************************)
(* What holds of the scheduler, the uplinks and the server together, for   *)
(* every number of links, good and dead ones, and of restarts.             *)
(***************************************************************************)
EXTENDS SrtlaBonding, SrtlaScheduler_proofs

ToServer == [to : LinkIds, type : {"REG1", "REG2"}, id : GroupIds]
            \cup [to : LinkIds, type : {"KEEPALIVE"}]
ToClient == [to : LinkIds, type : {"REG_ERR", "REG_NGP", "REG3", "KEEPALIVE"}]
            \cup [to : LinkIds, type : {"REG2"}, id : {"local"} \X ServerGroups]

NetTypeOK ==
  /\ toServer \in [LinkIds -> Seq(ToServer)]
  /\ toClient \in [LinkIds -> Seq(ToClient)]
  /\ owner \in [ServerGroups -> LinkIds \cup {NoLink}]
  /\ member \in [LinkIds -> ServerGroups \cup {NoGroup}]
  /\ restarts \in Nat
  /\ ticked \in BOOLEAN

-----------------------------------------------------------------------------
(* Queues                                                                  *)

LEMMA QueueTail ==
  ASSUME NEW M, NEW q \in Seq(M), q # <<>>
  PROVE  /\ Tail(q) \in Seq(M) /\ Head(q) \in M
         /\ Len(q) \in Nat /\ 1 <= Len(q) /\ Head(q) = q[1]
         /\ Len(Tail(q)) = Len(q) - 1
         /\ \A i \in 1..Len(Tail(q)) : Tail(q)[i] = q[i + 1]
         /\ \A i \in 2..Len(q) : i - 1 \in 1..Len(Tail(q)) /\ Tail(q)[i - 1] = q[i]
OBVIOUS

LEMMA QueueAppend ==
  ASSUME NEW M, NEW q \in Seq(M), NEW m \in M
  PROVE  /\ Append(q, m) \in Seq(M)
         /\ Len(q) \in Nat
         /\ Len(Append(q, m)) = Len(q) + 1
         /\ \A i \in 1..Len(q) : Append(q, m)[i] = q[i]
         /\ Append(q, m)[Len(q) + 1] = m
OBVIOUS

(* A queue takes at most one of the datagrams sent, one that is for it.    *)
LEMMA QueuedOne ==
  ASSUME NEW q, NEW ps, NEW l \in LinkIds
  PROVE  \/ Queued(q, ps)[l] = q[l]
         \/ /\ l \in Good
            /\ \E p \in ps : p.to = l /\ Queued(q, ps)[l] = Append(q[l], p)
<1>1. CASE l \in Good /\ \E p \in ps : p.to = l /\ p.type # "DATA"
  <2>1. \E p \in ps : p.to = l
    BY <1>1
  <2>2. /\ (CHOOSE p \in ps : p.to = l) \in ps
        /\ (CHOOSE p \in ps : p.to = l).to = l
    BY <2>1
  <2>3. Queued(q, ps)[l] = Append(q[l], CHOOSE p \in ps : p.to = l)
    BY <1>1 DEF Queued
  <2> QED
    BY <1>1, <2>2, <2>3
<1>2. CASE ~(l \in Good /\ \E p \in ps : p.to = l /\ p.type # "DATA")
  BY <1>2 DEF Queued
<1> QED
  BY <1>1, <1>2

(* The only datagram for a good link is taken.                             *)
LEMMA QueuedThis ==
  ASSUME NEW q, NEW ps, NEW l \in LinkIds, l \in Good, NEW p \in ps,
         p.to = l, p.type # "DATA", \A x \in ps : x.to = l => x = p
  PROVE  Queued(q, ps)[l] = Append(q[l], p)
<1>1. (CHOOSE x \in ps : x.to = l) = p
  <2>1. \E x \in ps : x.to = l
    OBVIOUS
  <2>2. (CHOOSE x \in ps : x.to = l) \in ps /\ (CHOOSE x \in ps : x.to = l).to = l
    BY <2>1
  <2> QED
    BY <2>2
<1> QED
  BY <1>1 DEF Queued

(* Nothing is taken when nothing was sent.                                 *)
LEMMA QueuedNothing ==
  ASSUME NEW q, q = [l \in LinkIds |-> q[l]]
  PROVE  Queued(q, {}) = q
BY DEF Queued

(* An answer of the server to a good link.                                 *)
LEMMA Replied ==
  ASSUME NEW l \in LinkIds, l \in Good, toClient = [k \in LinkIds |-> toClient[k]]
  PROVE  /\ \A type \in {"REG_ERR", "REG_NGP", "REG3", "KEEPALIVE"} :
              Reply(l, type) = [toClient EXCEPT ![l] = Append(@, [to |-> l, type |-> type])]
         /\ \A g \in ServerGroups :
              ReplyReg2(l, g) = [toClient EXCEPT ![l] =
                Append(@, [to |-> l, type |-> "REG2", id |-> <<"local", g>>])]
<1>1. ASSUME NEW p, p.to = l, p.type # "DATA"
      PROVE  Queued(toClient, {p}) = [toClient EXCEPT ![l] = Append(@, p)]
  <2>1. Queued(toClient, {p})[l] = Append(toClient[l], p)
    BY <1>1, QueuedThis
  <2>2. \A k \in LinkIds : k # l => Queued(toClient, {p})[k] = toClient[k]
    BY <1>1 DEF Queued
  <2>3. Queued(toClient, {p}) = [k \in LinkIds |-> Queued(toClient, {p})[k]]
    BY DEF Queued
  <2> QED
    BY <2>1, <2>2, <2>3
<1>2. ASSUME NEW type \in {"REG_ERR", "REG_NGP", "REG3", "KEEPALIVE"}
      PROVE  Reply(l, type) = [toClient EXCEPT ![l] = Append(@, [to |-> l, type |-> type])]
  <2> DEFINE p == [to |-> l, type |-> type]
  <2>1. p.to = l /\ p.type # "DATA"
    OBVIOUS
  <2> HIDE DEF p
  <2>2. Queued(toClient, {p}) = [toClient EXCEPT ![l] = Append(@, p)]
    BY <2>1, <1>1
  <2> QED
    BY <2>2 DEF p, Reply
<1>3. ASSUME NEW g \in ServerGroups
      PROVE  ReplyReg2(l, g) = [toClient EXCEPT ![l] =
               Append(@, [to |-> l, type |-> "REG2", id |-> <<"local", g>>])]
  <2> DEFINE p == [to |-> l, type |-> "REG2", id |-> <<"local", g>>]
  <2>1. p.to = l /\ p.type # "DATA"
    OBVIOUS
  <2> HIDE DEF p
  <2>2. Queued(toClient, {p}) = [toClient EXCEPT ![l] = Append(@, p)]
    BY <2>1, <1>1
  <2> QED
    BY <2>2 DEF p, ReplyReg2
<1> QED
  BY <1>2, <1>3

-----------------------------------------------------------------------------
(* What the client sends                                                   *)

(* Nobody's REG1 is waited for, or it was waited for too long.             *)
NobodyAwaited == pending = NoLink \/ pendingAge > ConnTimeout

(* The effect of a tick and of a new link on registration.                 *)
Registers ==
  /\ UNCHANGED <<established, groupId>>
  /\ \A l \in LinkIds : reg'[l] = "ACTIVE" => reg[l] = "ACTIVE"
  /\ (pending' = pending /\ pendingAge' = pendingAge) \/ NobodyAwaited
  /\ \A p \in out' :
       /\ p.to \in up'
       /\ \/ /\ p.type = "REG1"
             /\ ~established /\ NobodyAwaited
             /\ pending' = p.to /\ pendingAge' = 0
          \/ p.type = "REG2" /\ established /\ p.id = groupId
          \/ p.type = "KEEPALIVE"

(* A new candidate is chosen when there is no group and nobody is awaited. *)
LEMMA CandidateAsks ==
  ASSUME TypeOK, NEW S, NEW p, NEW c \in S \cup {NoLink}, S \subseteq LinkIds,
         p = pending \/ (p = NoLink /\ NobodyAwaited),
         Selects(S, p, c), MakePending(p, c)
  PROVE  /\ (pending' = pending /\ pendingAge' = pendingAge) \/ NobodyAwaited
         /\ \A l \in LinkIds : RegAfter(c)[l] = "ACTIVE" => reg[l] = "ACTIVE"
         /\ \A x \in Reg1After(c) :
              /\ x.to \in S /\ x.type = "REG1"
              /\ ~established /\ NobodyAwaited
              /\ pending' = x.to /\ pendingAge' = 0
<1>1. c # NoLink => ~established /\ NobodyAwaited /\ c \in S
  BY DEF Selects, NobodyAwaited
<1>2. (pending' = pending /\ pendingAge' = pendingAge) \/ NobodyAwaited
  BY <1>1 DEF MakePending, NobodyAwaited
<1>3. \A l \in LinkIds : RegAfter(c)[l] = "ACTIVE" => reg[l] = "ACTIVE"
  BY DEF RegAfter
<1>4. ASSUME NEW x \in Reg1After(c)
      PROVE  /\ x.to \in S /\ x.type = "REG1"
             /\ ~established /\ NobodyAwaited
             /\ pending' = x.to /\ pendingAge' = 0
  <2>1. c # NoLink /\ x = Reg1(c, groupId)
    BY DEF Reg1After
  <2>2. x.to = c /\ x.type = "REG1"
    BY <2>1 DEF Reg1
  <2> QED
    BY <1>1, <2>1, <2>2 DEF MakePending
<1> QED
  BY <1>2, <1>3, <1>4

LEMMA TickRegisters == TypeOK /\ Tick => Registers /\ up' = up
<1> SUFFICES ASSUME TypeOK, Tick PROVE Registers /\ up' = up
  OBVIOUS
<1> DEFINE p == IF pendingAge > ConnTimeout THEN NoLink ELSE pending
<1>1. PICK c \in up \cup {NoLink} :
        /\ Selects(up, p, c)
        /\ MakePending(p, c)
        /\ LET rejoin == {l \in up : TimedOut(l) /\ established /\ SentAtTick(c, l) > Reg2Resend}
               idle   == {l \in up : ~TimedOut(l) /\ SentAtTick(c, l) > IdleTime}
           IN  /\ reg' = [l \in LinkIds |->
                    IF l \in rejoin THEN "WAIT_REG3" ELSE RegAfter(c)[l]]
               /\ out' = Reg1After(c) \cup {Reg2(l, groupId) : l \in rejoin}
                                      \cup {Keepalive(l) : l \in idle}
  BY DEF Tick
<1>2. UNCHANGED <<up, established, groupId>>
  BY DEF Tick, groupVars
<1>3. p = pending \/ (p = NoLink /\ NobodyAwaited)
  BY DEF NobodyAwaited
<1>4. up \subseteq LinkIds
  BY DEF TypeOK
<1> HIDE DEF p
<1>5. /\ (pending' = pending /\ pendingAge' = pendingAge) \/ NobodyAwaited
      /\ \A l \in LinkIds : RegAfter(c)[l] = "ACTIVE" => reg[l] = "ACTIVE"
      /\ \A x \in Reg1After(c) :
           /\ x.to \in up /\ x.type = "REG1"
           /\ ~established /\ NobodyAwaited
           /\ pending' = x.to /\ pendingAge' = 0
  BY <1>1, <1>3, <1>4, CandidateAsks
<1>6. \A l \in LinkIds : reg'[l] = "ACTIVE" => reg[l] = "ACTIVE"
  BY <1>1, <1>5
<1>7. ASSUME NEW x \in out'
      PROVE  \/ x \in Reg1After(c)
             \/ \E l \in up : x = Reg2(l, groupId) /\ established
             \/ \E l \in up : x = Keepalive(l)
  BY <1>1
<1>8. \A l : /\ Reg2(l, groupId).to = l /\ Reg2(l, groupId).type = "REG2"
             /\ Reg2(l, groupId).id = groupId
             /\ Keepalive(l).to = l /\ Keepalive(l).type = "KEEPALIVE"
  BY DEF Reg2, Keepalive
<1> QED
  BY <1>2, <1>5, <1>6, <1>7, <1>8 DEF Registers

LEMMA LinkUpRegisters ==
  TypeOK /\ LinkUp => /\ Registers
                     /\ nextLinkId \in LinkIds /\ nextLinkId' = nextLinkId + 1
                     /\ up' = up \cup {nextLinkId}
<1> SUFFICES ASSUME TypeOK, LinkUp
             PROVE  /\ Registers
                    /\ nextLinkId \in LinkIds /\ nextLinkId' = nextLinkId + 1
                    /\ up' = up \cup {nextLinkId}
  OBVIOUS
<1>1. /\ nextLinkId \in LinkIds /\ nextLinkId' = nextLinkId + 1
      /\ up' = up \cup {nextLinkId} /\ up' \subseteq LinkIds
  BY BoundsAssumption DEF LinkUp, TypeOK, LinkIds
<1>2. UNCHANGED <<established, groupId>>
  BY DEF LinkUp, groupVars
<1>3. CASE established
  <2>1. /\ pending' = pending /\ pendingAge' = pendingAge
        /\ reg' = [reg EXCEPT ![nextLinkId] = "WAIT_REG3"]
        /\ out' = {Reg2(nextLinkId, groupId)}
    BY <1>3 DEF LinkUp, regVars
  <2>2. \A l \in LinkIds : reg'[l] = "ACTIVE" => reg[l] = "ACTIVE"
    BY <2>1 DEF TypeOK
  <2> QED
    BY <1>1, <1>2, <1>3, <2>1, <2>2 DEF Registers, Reg2
<1>4. CASE ~established
  <2>1. PICK c \in up' \cup {NoLink} :
          /\ Selects(up', pending, c) /\ MakePending(pending, c)
          /\ reg' = RegAfter(c) /\ out' = Reg1After(c)
    BY <1>4 DEF LinkUp
  <2>2. /\ (pending' = pending /\ pendingAge' = pendingAge) \/ NobodyAwaited
        /\ \A l \in LinkIds : RegAfter(c)[l] = "ACTIVE" => reg[l] = "ACTIVE"
        /\ \A x \in Reg1After(c) :
             /\ x.to \in up' /\ x.type = "REG1"
             /\ ~established /\ NobodyAwaited
             /\ pending' = x.to /\ pendingAge' = 0
    BY <1>1, <2>1, CandidateAsks
  <2> QED
    BY <1>1, <1>2, <2>1, <2>2 DEF Registers
<1> QED
  BY <1>1, <1>3, <1>4

-----------------------------------------------------------------------------
(* Types, and the scheduler as a part of the whole                         *)

(* A handler of the client that is not one of the others' changes.         *)
LEMMA HandledSends ==
  ASSUME TypeOK, NEW l \in up, NEW m \in ToClient, Handled(l, m)
  PROVE  /\ \A p \in out' : p.type \in {"REG1", "REG2"}
         /\ Next
<1>1. CASE m.type = "REG_NGP" /\ OnRegNgp(l)
  <2>1. \A p \in Reg1After(l) : p.type = "REG1"
    BY DEF Reg1After, Reg1
  <2> QED
    BY <1>1, <2>1 DEF OnRegNgp, Next, LinkPacket
<1>2. CASE m.type = "REG2" /\ OnReg2(l, m.id)
  <2>1. m.id \in GroupIds
    BY <1>2 DEF ToClient, GroupIds, ServerGroups
  <2>2. \A k : Reg2(k, m.id).type = "REG2"
    BY DEF Reg2
  <2>3. out' = {Reg2(k, m.id) : k \in up}
    BY <1>2 DEF OnReg2, Joiners
  <2> QED
    BY <1>2, <2>1, <2>2, <2>3 DEF Next, LinkPacket
<1>3. CASE m.type = "REG3" /\ OnReg3(l)
  BY <1>3 DEF OnReg3, Heard, Next, LinkPacket
<1>4. CASE m.type \in {"REG_ERR", "KEEPALIVE"} /\ OnOther(l)
  BY <1>4 DEF OnOther, Heard, Next, LinkPacket
<1> QED
  BY <1>1, <1>2, <1>3, <1>4 DEF Handled

(* Every step is one of the scheduler or leaves it alone.                  *)
LEMMA BondingStep == TypeOK /\ NetTypeOK /\ [BondNext]_bondVars => [Next]_vars
<1> SUFFICES ASSUME TypeOK, NetTypeOK, [BondNext]_bondVars PROVE [Next]_vars
  OBVIOUS
<1>1. CASE TimePasses \/ ClientTicks \/ NetworkAvailable \/ \E l \in up : NetworkLost(l)
  BY <1>1 DEF TimePasses, ClientTicks, NetworkAvailable, NetworkLost, Next
<1>2. ASSUME NEW l \in up \cap Good, ClientReceives(l) PROVE [Next]_vars
  <2>1. Head(toClient[l]) \in ToClient
    BY <1>2, QueueTail DEF ClientReceives, NetTypeOK, TypeOK
  <2> QED
    BY <1>2, <2>1, HandledSends DEF ClientReceives
<1>3. CASE UNCHANGED vars
  BY <1>3
<1>4. ASSUME NEW l \in Good, ServerReceives(l) \/ ServerDropsMember(l) PROVE UNCHANGED vars
  BY <1>4 DEF ServerReceives, ServerDropsMember
<1>5. ASSUME NEW g \in ServerGroups, ServerDropsGroup(g) PROVE UNCHANGED vars
  BY <1>5 DEF ServerDropsGroup
<1>6. CASE ServerRestarts
  BY <1>6 DEF ServerRestarts
<1> QED
  BY <1>1, <1>2, <1>3, <1>4, <1>5, <1>6 DEF BondNext, bondVars

(* What the client sends is what the server reads.                         *)
LEMMA SentTypes ==
  ASSUME NetTypeOK, NEW ps \in SUBSET Packets, \A p \in ps : p.type # "DATA"
  PROVE  Queued(toServer, ps) \in [LinkIds -> Seq(ToServer)]
<1>1. ps \subseteq ToServer
  BY DEF Packets, ToServer
<1>2. ASSUME NEW l \in LinkIds PROVE Queued(toServer, ps)[l] \in Seq(ToServer)
  <2>1. toServer[l] \in Seq(ToServer)
    BY DEF NetTypeOK
  <2>2. \A p \in ps : Append(toServer[l], p) \in Seq(ToServer)
    BY <1>1, <2>1, QueueAppend
  <2>3. CASE Queued(toServer, ps)[l] = toServer[l]
    BY <2>1, <2>3
  <2>4. CASE \E p \in ps : Queued(toServer, ps)[l] = Append(toServer[l], p)
    BY <2>2, <2>4
  <2> HIDE DEF ToServer
  <2> QED
    BY <2>3, <2>4, QueuedOne
<1>3. Queued(toServer, ps) = [l \in LinkIds |-> Queued(toServer, ps)[l]]
  BY DEF Queued
<1> HIDE DEF ToServer
<1> QED
  BY <1>2, <1>3

LEMMA ReplyTypes ==
  ASSUME NetTypeOK, NEW l \in LinkIds, l \in Good
  PROVE  /\ \A type \in {"REG_ERR", "REG_NGP", "REG3", "KEEPALIVE"} :
              Reply(l, type) \in [LinkIds -> Seq(ToClient)]
         /\ \A g \in ServerGroups : ReplyReg2(l, g) \in [LinkIds -> Seq(ToClient)]
<1>1. toClient = [k \in LinkIds |-> toClient[k]] /\ toClient[l] \in Seq(ToClient)
  BY DEF NetTypeOK
<1>2. ASSUME NEW m \in ToClient
      PROVE  [toClient EXCEPT ![l] = Append(@, m)] \in [LinkIds -> Seq(ToClient)]
  <2>1. Append(toClient[l], m) \in Seq(ToClient)
    BY <1>1, QueueAppend
  <2> QED
    BY <2>1 DEF NetTypeOK
<1>3. \A type \in {"REG_ERR", "REG_NGP", "REG3", "KEEPALIVE"} :
        [to |-> l, type |-> type] \in ToClient
  BY DEF ToClient
<1>4. \A g \in ServerGroups :
        [to |-> l, type |-> "REG2", id |-> <<"local", g>>] \in ToClient
  BY DEF ToClient
<1>5. ASSUME NEW type \in {"REG_ERR", "REG_NGP", "REG3", "KEEPALIVE"}
      PROVE  Reply(l, type) \in [LinkIds -> Seq(ToClient)]
  <2>1. Reply(l, type) = [toClient EXCEPT ![l] = Append(@, [to |-> l, type |-> type])]
    BY <1>1, Replied
  <2> QED
    BY <1>2, <1>3, <2>1
<1>6. ASSUME NEW g \in ServerGroups
      PROVE  ReplyReg2(l, g) \in [LinkIds -> Seq(ToClient)]
  <2>1. ReplyReg2(l, g) = [toClient EXCEPT ![l] =
          Append(@, [to |-> l, type |-> "REG2", id |-> <<"local", g>>])]
    BY <1>1, Replied
  <2> QED
    BY <1>2, <1>4, <2>1
<1> QED
  BY <1>5, <1>6

(* A queue without its first datagram.                                     *)
LEMMA TailTypes ==
  ASSUME NEW M, NEW q \in [LinkIds -> Seq(M)], NEW l \in LinkIds, q[l] # <<>>
  PROVE  [q EXCEPT ![l] = Tail(@)] \in [LinkIds -> Seq(M)]
<1>1. Tail(q[l]) \in Seq(M)
  BY QueueTail
<1> QED
  BY <1>1

LEMMA NetTypeInit == BondInit => NetTypeOK
<1> SUFFICES ASSUME BondInit PROVE NetTypeOK
  OBVIOUS
<1>1. \A M : <<>> \in Seq(M)
  OBVIOUS
<1>2. toServer \in [LinkIds -> Seq(ToServer)] /\ toClient \in [LinkIds -> Seq(ToClient)]
  BY <1>1 DEF BondInit
<1> QED
  BY <1>2 DEF BondInit, NetTypeOK

LEMMA NetTypeStep ==
  TypeOK /\ TypeOK' /\ NetTypeOK /\ [BondNext]_bondVars => NetTypeOK'
<1> SUFFICES ASSUME TypeOK, TypeOK', NetTypeOK, [BondNext]_bondVars PROVE NetTypeOK'
  OBVIOUS
<1>1. LinkIds = 1..MaxLinkId /\ Good \subseteq LinkIds /\ up \subseteq LinkIds
  BY BondingAssumption DEF LinkIds, TypeOK
<1>2. out' \in SUBSET Packets
  BY DEF TypeOK
<1>3. CASE TimePasses
  BY <1>3 DEF TimePasses, NetTypeOK, netVars, serverVars
<1>4. CASE ClientTicks \/ NetworkAvailable
  <2>1. \A p \in out' : p.type # "DATA"
    BY <1>4, TickRegisters, LinkUpRegisters DEF ClientTicks, NetworkAvailable, Registers
  <2>2. toServer' \in [LinkIds -> Seq(ToServer)]
    BY <1>2, <1>4, <2>1, SentTypes DEF ClientTicks, NetworkAvailable, ClientSends
  <2> QED
    BY <1>4, <2>2 DEF ClientTicks, NetworkAvailable, NetTypeOK, serverVars
<1>5. ASSUME NEW l \in up, NetworkLost(l) PROVE NetTypeOK'
  <2>1. \A M : <<>> \in Seq(M)
    OBVIOUS
  <2>2. /\ toServer' \in [LinkIds -> Seq(ToServer)]
        /\ toClient' \in [LinkIds -> Seq(ToClient)]
    BY <1>5, <2>1 DEF NetworkLost, NetTypeOK
  <2> QED
    BY <1>5, <2>2 DEF NetworkLost, NetTypeOK, serverVars
<1>6. ASSUME NEW l \in up \cap Good, ClientReceives(l) PROVE NetTypeOK'
  <2>1. Head(toClient[l]) \in ToClient /\ toClient' \in [LinkIds -> Seq(ToClient)]
    BY <1>1, <1>6, QueueTail, TailTypes DEF ClientReceives, NetTypeOK
  <2>2. ASSUME Handled(l, Head(toClient[l])), ClientSends(out')
        PROVE  toServer' \in [LinkIds -> Seq(ToServer)]
    <3>1. \A p \in out' : p.type # "DATA"
      BY <2>1, <2>2, HandledSends
    <3> QED
      BY <1>2, <2>2, <3>1, SentTypes DEF ClientSends
  <2>3. toServer' \in [LinkIds -> Seq(ToServer)]
    BY <1>6, <2>2 DEF ClientReceives, NetTypeOK
  <2> QED
    BY <1>6, <2>1, <2>3 DEF ClientReceives, NetTypeOK, serverVars
<1>7. ASSUME NEW l \in Good, ServerReceives(l) PROVE NetTypeOK'
  <2> DEFINE m == Head(toServer[l])
  <2>1. m \in ToServer /\ toServer' \in [LinkIds -> Seq(ToServer)]
    BY <1>1, <1>7, QueueTail, TailTypes DEF ServerReceives, NetTypeOK
  <2>2. \/ toClient' = toClient
        \/ \E type \in {"REG_ERR", "REG_NGP", "REG3", "KEEPALIVE"} : toClient' = Reply(l, type)
        \/ \E g \in ServerGroups : toClient' = ReplyReg2(l, g)
    BY <1>7 DEF ServerReceives, ServerReg1, ServerReg2, ServerKeepalive
  <2>3. toClient' \in [LinkIds -> Seq(ToClient)]
    <3>1. toClient \in [LinkIds -> Seq(ToClient)]
      BY <1>1 DEF NetTypeOK
    <3>2. \A type \in {"REG_ERR", "REG_NGP", "REG3", "KEEPALIVE"} :
            Reply(l, type) \in [LinkIds -> Seq(ToClient)]
      BY <1>1, ReplyTypes
    <3>3. \A g \in ServerGroups : ReplyReg2(l, g) \in [LinkIds -> Seq(ToClient)]
      BY <1>1, ReplyTypes
    <3> HIDE DEF ToClient
    <3> QED
      BY <2>2, <3>1, <3>2, <3>3
  <2>4. owner' \in [ServerGroups -> LinkIds \cup {NoLink}]
    BY <1>1, <1>7 DEF ServerReceives, ServerReg1, ServerReg2, ServerKeepalive, NetTypeOK
  <2>5. member' \in [LinkIds -> ServerGroups \cup {NoGroup}]
    BY <1>1, <1>7 DEF ServerReceives, ServerReg1, ServerReg2, ServerKeepalive, NetTypeOK, Groups
  <2> QED
    BY <1>7, <2>1, <2>3, <2>4, <2>5 DEF ServerReceives, NetTypeOK
<1>8. ASSUME NEW l \in Good, ServerDropsMember(l) PROVE NetTypeOK'
  BY <1>8 DEF ServerDropsMember, NetTypeOK, netVars
<1>9. ASSUME NEW g \in ServerGroups, ServerDropsGroup(g) PROVE NetTypeOK'
  BY <1>9 DEF ServerDropsGroup, NetTypeOK, netVars
<1>10. CASE ServerRestarts
  BY <1>10 DEF ServerRestarts, NetTypeOK, netVars
<1>11. CASE UNCHANGED bondVars
  BY <1>11 DEF bondVars, netVars, serverVars, NetTypeOK
<1> QED
  BY <1>3, <1>4, <1>5, <1>6, <1>7, <1>8, <1>9, <1>10, <1>11 DEF BondNext

(* The types of the whole, client and network.                             *)
NetInv == TypeOK /\ NetTypeOK

LEMMA NetInvStep == NetInv /\ [BondNext]_bondVars => NetInv'
BY BondingStep, TypeStep, NetTypeStep DEF NetInv

LEMMA NetTypes == BondSpec => []NetInv
<1>1. BondInit => NetInv
  BY TypeInit, NetTypeInit DEF BondInit, NetInv
<1> QED
  BY <1>1, NetInvStep, PTL DEF BondSpec

(* What the client does when it is connected to a server by links that     *)
(* fail is what the scheduler's specification says: every theorem about    *)
(* Spec is one about BondSpec.                                             *)
THEOREM BondingIsScheduler == BondSpec => Spec
<1>1. BondInit => Init
  BY DEF BondInit
<1>2. NetInv /\ [BondNext]_bondVars => [Next]_vars
  BY BondingStep DEF NetInv
<1> QED
  BY <1>1, <1>2, NetTypes, PTL DEF BondSpec, Spec

-----------------------------------------------------------------------------
(* What is on the way                                                      *)

Names(m, g) == m.type = "REG2" /\ m.id[2] = g

(* The queue q holds a datagram of the type; one that names the group g;   *)
(* one of the type at most; no REG1 that is not behind a REG2 for g.       *)
Carries(q, type) == \E i \in 1..Len(q) : q[i].type = type
Joins(q, g)      == \E i \in 1..Len(q) : Names(q[i], g)
Single(q, type)  == \A i, j \in 1..Len(q) : q[i].type = type /\ q[j].type = type => i = j
Behind(q, g)     == \A j \in 1..Len(q) : q[j].type = "REG1" =>
                      \E i \in 1..(j - 1) : Names(q[i], g)

(* q is t behind the datagram m; q is t with m behind it.                  *)
Taken(q, t, m) ==
  /\ \A type : Carries(q, type) <=> m.type = type \/ Carries(t, type)
  /\ \A g : Joins(q, g) <=> Names(m, g) \/ Joins(t, g)
  /\ \A type : Single(q, type) => /\ Single(t, type)
                                  /\ m.type = type => ~Carries(t, type)
  /\ \A g : Behind(q, g) => m.type # "REG1" /\ (Names(m, g) \/ Behind(t, g))
Added(q, t, m) ==
  /\ \A type : Carries(q, type) <=> Carries(t, type) \/ m.type = type
  /\ \A g : Joins(q, g) <=> Joins(t, g) \/ Names(m, g)
  /\ \A type : Single(t, type) /\ ~(m.type = type /\ Carries(t, type)) => Single(q, type)
  /\ \A g : Behind(t, g) /\ (m.type = "REG1" => Joins(t, g)) => Behind(q, g)

LEMMA NothingOnTheWay ==
  /\ \A type : ~Carries(<<>>, type) /\ Single(<<>>, type)
  /\ \A g : ~Joins(<<>>, g) /\ Behind(<<>>, g)
BY DEF Carries, Joins, Single, Behind

LEMMA Popped ==
  ASSUME NEW M, NEW q \in Seq(M), q # <<>>
  PROVE  Taken(q, Tail(q), Head(q))
<1> DEFINE n == Len(q)
           t == Tail(q)
<1>1. /\ n \in Nat /\ 1 <= n /\ Head(q) = q[1] /\ Len(t) = n - 1
      /\ \A i \in 1..Len(t) : i + 1 \in 1..n /\ t[i] = q[i + 1]
      /\ \A i \in 2..n : i - 1 \in 1..Len(t) /\ t[i - 1] = q[i]
  BY QueueTail
<1> HIDE DEF n, t
<1>2. 1..n = {1} \cup 2..n /\ 1 \in 1..n /\ 2..n \subseteq 1..n
  BY <1>1
<1>3. ASSUME NEW type PROVE Carries(q, type) <=> Head(q).type = type \/ Carries(t, type)
  <2>1. ASSUME NEW i \in 1..n, q[i].type = type
        PROVE  Head(q).type = type \/ Carries(t, type)
    <3>1. CASE i = 1
      BY <1>1, <2>1, <3>1
    <3>2. CASE i \in 2..n
      <4>1. i - 1 \in 1..Len(t) /\ t[i - 1].type = type
        BY <1>1, <2>1, <3>2
      <4> QED
        BY <4>1 DEF Carries
    <3> QED
      BY <1>2, <3>1, <3>2
  <2>2. ASSUME NEW i \in 1..Len(t), t[i].type = type PROVE Carries(q, type)
    <3>1. i + 1 \in 1..n /\ q[i + 1].type = type
      BY <1>1, <2>2
    <3> QED
      BY <3>1 DEF Carries, n
  <2>3. Head(q).type = type => Carries(q, type)
    BY <1>1, <1>2 DEF Carries, n
  <2>4. Carries(q, type) <=> \E i \in 1..n : q[i].type = type
    BY DEF Carries, n
  <2>5. Carries(t, type) <=> \E i \in 1..Len(t) : t[i].type = type
    BY DEF Carries
  <2> QED
    BY <2>1, <2>2, <2>3, <2>4, <2>5
<1>4. ASSUME NEW g PROVE Joins(q, g) <=> Names(Head(q), g) \/ Joins(t, g)
  <2>1. ASSUME NEW i \in 1..n, Names(q[i], g)
        PROVE  Names(Head(q), g) \/ Joins(t, g)
    <3>1. CASE i = 1
      BY <1>1, <2>1, <3>1
    <3>2. CASE i \in 2..n
      <4>1. i - 1 \in 1..Len(t) /\ Names(t[i - 1], g)
        BY <1>1, <2>1, <3>2
      <4> QED
        BY <4>1 DEF Joins
    <3> QED
      BY <1>2, <3>1, <3>2
  <2>2. ASSUME NEW i \in 1..Len(t), Names(t[i], g) PROVE Joins(q, g)
    <3>1. i + 1 \in 1..n /\ Names(q[i + 1], g)
      BY <1>1, <2>2
    <3> QED
      BY <3>1 DEF Joins, n
  <2>3. Names(Head(q), g) => Joins(q, g)
    BY <1>1, <1>2 DEF Joins, n
  <2>4. Joins(q, g) <=> \E i \in 1..n : Names(q[i], g)
    BY DEF Joins, n
  <2>5. Joins(t, g) <=> \E i \in 1..Len(t) : Names(t[i], g)
    BY DEF Joins
  <2> QED
    BY <2>1, <2>2, <2>3, <2>4, <2>5
<1>5. ASSUME NEW type, Single(q, type)
      PROVE  Single(t, type) /\ (Head(q).type = type => ~Carries(t, type))
  <2>1. Single(t, type)
    <3> SUFFICES ASSUME NEW i \in 1..Len(t), NEW j \in 1..Len(t),
                        t[i].type = type, t[j].type = type
                 PROVE  i = j
      BY DEF Single
    <3>1. i + 1 = j + 1
      BY <1>1, <1>5 DEF Single, n
    <3> QED
      BY <3>1
  <2>2. ASSUME NEW i \in 1..Len(t), t[i].type = type, Head(q).type = type PROVE FALSE
    <3>1. i + 1 = 1
      BY <1>1, <1>2, <1>5, <2>2 DEF Single, n
    <3> QED
      BY <3>1
  <2> QED
    BY <2>1, <2>2 DEF Carries
<1>6. ASSUME NEW g, Behind(q, g)
      PROVE  Head(q).type # "REG1" /\ (Names(Head(q), g) \/ Behind(t, g))
  <2>1. Head(q).type # "REG1"
    BY <1>1, <1>2, <1>6 DEF Behind, n
  <2>2. ASSUME ~Names(Head(q), g), NEW j \in 1..Len(t), t[j].type = "REG1"
        PROVE  \E i \in 1..(j - 1) : Names(t[i], g)
    <3>1. PICK k \in 1..((j + 1) - 1) : Names(q[k], g)
      BY <1>1, <1>6, <2>2 DEF Behind, n
    <3>2. k # 1 /\ k \in 2..n /\ k - 1 \in 1..(j - 1)
      BY <1>1, <2>2, <3>1
    <3> QED
      BY <1>1, <3>1, <3>2
  <2> QED
    BY <2>1, <2>2 DEF Behind
<1> QED
  BY <1>3, <1>4, <1>5, <1>6 DEF t, Taken

LEMMA Pushed ==
  ASSUME NEW M, NEW q \in Seq(M), NEW m \in M
  PROVE  Added(Append(q, m), q, m)
<1> DEFINE n == Len(q)
           a == Append(q, m)
<1>1. /\ n \in Nat /\ Len(a) = n + 1 /\ a[n + 1] = m
      /\ \A i \in 1..n : a[i] = q[i]
  BY QueueAppend
<1> HIDE DEF n, a
<1>2. 1..(n + 1) = 1..n \cup {n + 1} /\ n + 1 \notin 1..n
  BY <1>1
<1>3. ASSUME NEW type PROVE Carries(a, type) <=> Carries(q, type) \/ m.type = type
  BY <1>1, <1>2 DEF Carries, n
<1>4. ASSUME NEW g PROVE Joins(a, g) <=> Joins(q, g) \/ Names(m, g)
  BY <1>1, <1>2 DEF Joins, n
<1>5. ASSUME NEW type, Single(q, type), ~(m.type = type /\ Carries(q, type))
      PROVE  Single(a, type)
  BY <1>1, <1>2, <1>5 DEF Single, Carries, n
<1>6. ASSUME NEW g, Behind(q, g), m.type = "REG1" => Joins(q, g)
      PROVE  Behind(a, g)
  <2> SUFFICES ASSUME NEW j \in 1..Len(a), a[j].type = "REG1"
               PROVE  \E i \in 1..(j - 1) : Names(a[i], g)
    BY DEF Behind
  <2>1. CASE j \in 1..n
    <3>1. PICK i \in 1..(j - 1) : Names(q[i], g)
      BY <1>1, <1>6, <2>1 DEF Behind, n
    <3>2. i \in 1..n
      BY <1>1, <2>1, <3>1
    <3> QED
      BY <1>1, <3>1, <3>2
  <2>2. CASE j = n + 1
    <3>1. PICK i \in 1..n : Names(q[i], g)
      BY <1>1, <1>6, <2>2 DEF Joins, n
    <3>2. i \in 1..(j - 1) /\ a[i] = q[i]
      BY <1>1, <2>2, <3>1
    <3> QED
      BY <3>1, <3>2
  <2> QED
    BY <1>1, <1>2, <2>1, <2>2
<1> QED
  BY <1>3, <1>4, <1>5, <1>6 DEF a, Added

(* A queue of the client after ps were sent.                               *)
LEMMA SentOn ==
  ASSUME NetTypeOK, NEW ps \in SUBSET Packets, \A p \in ps : p.type # "DATA",
         ClientSends(ps), NEW l \in LinkIds
  PROVE  \/ toServer'[l] = toServer[l]
         \/ l \in Good /\ \E p \in ps : p.to = l /\ Added(toServer'[l], toServer[l], p)
<1>1. ps \subseteq ToServer /\ toServer[l] \in Seq(ToServer)
  BY DEF Packets, ToServer, NetTypeOK
<1>2. \A p \in ps : Added(Append(toServer[l], p), toServer[l], p)
  BY <1>1, Pushed
<1>3. toServer'[l] = Queued(toServer, ps)[l]
  BY DEF ClientSends
<1>4. \/ Queued(toServer, ps)[l] = toServer[l]
      \/ /\ l \in Good
         /\ \E p \in ps : p.to = l /\ Queued(toServer, ps)[l] = Append(toServer[l], p)
  BY QueuedOne
<1> QED
  BY <1>2, <1>3, <1>4

(* A queue of the server after its answer.                                 *)
LEMMA RepliedOn ==
  ASSUME NetTypeOK, NEW l \in LinkIds, l \in Good
  PROVE  /\ \A type \in {"REG_ERR", "REG_NGP", "REG3", "KEEPALIVE"} :
              toClient' = Reply(l, type) =>
                /\ \A k \in LinkIds \ {l} : toClient'[k] = toClient[k]
                /\ Added(toClient'[l], toClient[l], [to |-> l, type |-> type])
         /\ \A g \in ServerGroups :
              toClient' = ReplyReg2(l, g) =>
                /\ \A k \in LinkIds \ {l} : toClient'[k] = toClient[k]
                /\ Added(toClient'[l], toClient[l],
                         [to |-> l, type |-> "REG2", id |-> <<"local", g>>])
<1>1. toClient = [k \in LinkIds |-> toClient[k]] /\ toClient[l] \in Seq(ToClient)
  BY DEF NetTypeOK
<1>2. ASSUME NEW m \in ToClient, toClient' = [toClient EXCEPT ![l] = Append(@, m)]
      PROVE  /\ \A k \in LinkIds \ {l} : toClient'[k] = toClient[k]
             /\ Added(toClient'[l], toClient[l], m)
  <2>1. Added(Append(toClient[l], m), toClient[l], m)
    BY <1>1, Pushed
  <2>2. toClient'[l] = Append(toClient[l], m)
    BY <1>1, <1>2
  <2> QED
    BY <1>1, <1>2, <2>1, <2>2
<1>3. ASSUME NEW type \in {"REG_ERR", "REG_NGP", "REG3", "KEEPALIVE"}, toClient' = Reply(l, type)
      PROVE  /\ \A k \in LinkIds \ {l} : toClient'[k] = toClient[k]
             /\ Added(toClient'[l], toClient[l], [to |-> l, type |-> type])
  <2>1. [to |-> l, type |-> type] \in ToClient
    BY DEF ToClient
  <2> QED
    BY <1>1, <1>2, <1>3, <2>1, Replied
<1>4. ASSUME NEW g \in ServerGroups, toClient' = ReplyReg2(l, g)
      PROVE  /\ \A k \in LinkIds \ {l} : toClient'[k] = toClient[k]
             /\ Added(toClient'[l], toClient[l],
                      [to |-> l, type |-> "REG2", id |-> <<"local", g>>])
  <2>1. [to |-> l, type |-> "REG2", id |-> <<"local", g>>] \in ToClient
    BY DEF ToClient
  <2> QED
    BY <1>1, <1>2, <1>4, <2>1, Replied
<1> QED
  BY <1>3, <1>4

-----------------------------------------------------------------------------
(* The invariant                                                           *)

Current == groupId[2]

(* Datagrams travel on attached good links only.  A link that is not       *)
(* attached yet owns no group.                                             *)
QueuesOpen == \A l \in LinkIds :
  l \notin up \cap Good => toServer[l] = <<>> /\ toClient[l] = <<>>
LinksKnown ==
  /\ \A l \in up : l < nextLinkId
  /\ \A g \in Groups : owner[g] < nextLinkId
  /\ \A l \in LinkIds : l \notin up => reg[l] # "ACTIVE"

(* A REG1 and the REG2 that answers it are on the candidate's link, in the *)
(* time unit in which it was chosen, and there is never more than one.     *)
OneCandidate == \A l \in LinkIds :
  /\ Carries(toServer[l], "REG1") \/ Carries(toClient[l], "REG2")
       => pending = l /\ pendingAge = 0
  /\ Single(toServer[l], "REG1") /\ Single(toClient[l], "REG2")
  /\ Carries(toServer[l], "REG1") => ~Carries(toClient[l], "REG2")

(* Nobody joins a group the server knows but the client's own, which all   *)
(* members are in; a group that is not the client's is on its way to it or *)
(* lost its owner.                                                         *)
JoinsCurrent == \A l \in LinkIds : \A g \in Groups :
  Joins(toServer[l], g) => established /\ g = Current
MembersCurrent == \A l \in LinkIds : member[l] # NoGroup =>
  established /\ member[l] = Current /\ Current \in Groups
OthersComing == \A g \in Groups :
  \/ established /\ g = Current
  \/ Joins(toClient[owner[g]], g)
  \/ owner[g] \notin up
AnswersOwned == \A l \in LinkIds : \A g \in ServerGroups :
  Joins(toClient[l], g) => owner[g] \in {l, NoLink}

(* While the server knows the client's group it creates no other: a REG1   *)
(* comes from a link it knows, or only after that link has joined.         *)
CurrentAlone == established =>
  /\ Current \in ServerGroups
  /\ Current \in Groups => \A l \in LinkIds : ~Carries(toClient[l], "REG2")
AsksAfterJoin == established /\ Current \in Groups =>
  \A l \in LinkIds : HomeOf(l) = {} => Behind(toServer[l], Current)

(* And the REG_NGP that makes the client send one late was caused by a     *)
(* REG2 that the link has sent again since, for the group it has now.      *)
LateNgp == established /\ Current \in Groups =>
  \A l \in up : Carries(toClient[l], "REG_NGP") \/ (\E g \in Suffixes \ {Current} : Joins(toServer[l], g))
    => Current \in HomeOf(l) \/ Joins(toServer[l], Current)

ActiveJoined == restarts = 0 =>
  \A l \in up : reg[l] = "ACTIVE" \/ Carries(toClient[l], "REG3") => member[l] # NoGroup

BondInv ==
  /\ QueuesOpen /\ LinksKnown /\ OneCandidate
  /\ JoinsCurrent /\ MembersCurrent /\ OthersComing /\ AnswersOwned
  /\ CurrentAlone /\ AsksAfterJoin /\ LateNgp /\ ActiveJoined

LEMMA LinkTypes ==
  /\ LinkIds \subseteq Nat \ {NoLink} /\ Good \subseteq LinkIds
  /\ NetInv => /\ up \subseteq LinkIds /\ nextLinkId \in Nat
               /\ pending \in LinkIds \cup {NoLink}
               /\ groupId \in GroupIds
  /\ NetInv' => up' \subseteq LinkIds /\ out' \subseteq Packets
<1>1. LinkIds \subseteq Nat \ {NoLink} /\ Good \subseteq LinkIds
  BY BoundsAssumption, BondingAssumption DEF LinkIds, NoLink
<1>2. NetInv => /\ up \subseteq LinkIds /\ pending \in LinkIds \cup {NoLink}
                /\ groupId \in GroupIds
  BY DEF NetInv, TypeOK
<1>3. NetInv => nextLinkId \in Nat
  BY BoundsAssumption DEF NetInv, TypeOK
<1>4. NetInv' => up' \subseteq LinkIds /\ out' \subseteq Packets
  BY DEF NetInv, TypeOK
<1> QED
  BY <1>1, <1>2, <1>3, <1>4

LEMMA BondInvInit == BondInit => BondInv
<1> SUFFICES ASSUME BondInit PROVE BondInv
  OBVIOUS
<1>1. Groups = {}
  BY DEF BondInit, Groups
<1>2. /\ \A l \in LinkIds : toServer[l] = <<>> /\ toClient[l] = <<>> /\ member[l] = NoGroup
      /\ up = {} /\ ~established
      /\ \A l \in LinkIds : reg[l] = "NONE"
  BY DEF BondInit, Init
<1> QED
  BY <1>1, <1>2, NothingOnTheWay
  DEF BondInv, QueuesOpen, LinksKnown, OneCandidate, JoinsCurrent, MembersCurrent,
      OthersComing, AnswersOwned, CurrentAlone, AsksAfterJoin, LateNgp, ActiveJoined

(* Time passes only when nothing is on the way.                            *)
LEMMA TimeKeeps == NetInv /\ BondInv /\ TimePasses => BondInv'
<1> SUFFICES ASSUME NetInv, BondInv, TimePasses PROVE BondInv'
  OBVIOUS
<1>1. /\ UNCHANGED <<up, nextLinkId, reg, pending, established, groupId>>
      /\ UNCHANGED <<toServer, toClient, owner, member, restarts>>
  BY DEF TimePasses, Elapse, groupVars, netVars, serverVars
<1>2. Groups' = Groups /\ Current' = Current /\ \A l : HomeOf(l)' = HomeOf(l)
  BY <1>1 DEF Groups, Current, HomeOf
<1>3. \A l \in LinkIds : toServer[l] = <<>> /\ toClient[l] = <<>>
  BY DEF TimePasses, BondInv, QueuesOpen
<1>4. OneCandidate'
  BY <1>1, <1>3, NothingOnTheWay DEF OneCandidate
<1>5. QueuesOpen' /\ LinksKnown'
  BY <1>1, <1>2 DEF BondInv, QueuesOpen, LinksKnown
<1>6. JoinsCurrent' /\ MembersCurrent' /\ AnswersOwned' /\ CurrentAlone'
  BY <1>1, <1>2 DEF BondInv, JoinsCurrent, MembersCurrent, AnswersOwned, CurrentAlone
<1>7. OthersComing' /\ ActiveJoined'
  BY <1>1, <1>2 DEF BondInv, OthersComing, ActiveJoined
<1>8. AsksAfterJoin'
  BY <1>1, <1>2 DEF BondInv, AsksAfterJoin
<1>9. LateNgp'
  BY <1>1, <1>2 DEF BondInv, LateNgp
<1> QED
  BY <1>4, <1>5, <1>6, <1>7, <1>8, <1>9 DEF BondInv

(* A tick and a new link send at most one datagram on a link: a REG1 when  *)
(* there is no group and nobody is awaited, or a REG2 for the group.       *)
LEMMA SendKeeps ==
  NetInv /\ NetInv' /\ BondInv /\ (ClientTicks \/ NetworkAvailable) => BondInv'
<1> SUFFICES ASSUME NetInv, NetInv', BondInv, ClientTicks \/ NetworkAvailable
             PROVE  BondInv'
  OBVIOUS
<1>1. /\ Registers
      /\ \/ up' = up /\ nextLinkId' = nextLinkId
         \/ up' = up \cup {nextLinkId} /\ nextLinkId' = nextLinkId + 1
  <2>1. CASE ClientTicks
    <3>1. Registers /\ up' = up
      BY <2>1, TickRegisters DEF ClientTicks, NetInv
    <3>2. nextLinkId' = nextLinkId
      BY <2>1 DEF ClientTicks, Tick
    <3> QED
      BY <3>1, <3>2
  <2>2. CASE NetworkAvailable
    BY <2>2, LinkUpRegisters DEF NetworkAvailable, NetInv
  <2> QED
    BY <2>1, <2>2
<1>2. /\ UNCHANGED <<established, groupId, toClient, owner, member, restarts>>
      /\ ClientSends(out')
  BY <1>1 DEF ClientTicks, NetworkAvailable, serverVars, Registers
<1>3. Groups' = Groups /\ Current' = Current /\ \A l : HomeOf(l)' = HomeOf(l)
  BY <1>2 DEF Groups, Current, HomeOf
<1>4. nextLinkId \notin up /\ up \subseteq LinkIds /\ up' \subseteq LinkIds /\ up \subseteq up'
  <2>1. up \subseteq LinkIds /\ up' \subseteq LinkIds /\ nextLinkId \in Nat
    BY LinkTypes
  <2>2. \A l \in up : l < nextLinkId
    BY DEF BondInv, LinksKnown
  <2> QED
    BY <1>1, <2>1, <2>2
<1>5. ASSUME NEW l \in LinkIds
      PROVE  \/ toServer'[l] = toServer[l]
             \/ /\ l \in Good /\ l \in up'
                /\ \E p \in out' :
                     /\ Added(toServer'[l], toServer[l], p)
                     /\ \/ /\ p.type = "REG1" /\ ~established /\ NobodyAwaited
                           /\ pending' = l /\ pendingAge' = 0
                        \/ p.type = "REG2" /\ established /\ p.id = groupId
                        \/ p.type = "KEEPALIVE"
  <2>1. out' \in SUBSET Packets /\ \A p \in out' : p.type # "DATA"
    <3>1. \A p \in out' : p.type # "DATA"
      BY <1>1 DEF Registers
    <3> QED
      BY <3>1, LinkTypes
  <2>2. \/ toServer'[l] = toServer[l]
        \/ l \in Good /\ \E p \in out' : p.to = l /\ Added(toServer'[l], toServer[l], p)
    BY <1>2, <2>1, SentOn DEF NetInv
  <2> QED
    BY <1>1, <2>2 DEF Registers
<1>6. NobodyAwaited => \A l \in LinkIds : /\ ~Carries(toServer[l], "REG1")
                                         /\ ~Carries(toClient[l], "REG2")
  BY TimeAssumption DEF BondInv, OneCandidate, NobodyAwaited, NoLink, LinkIds
<1>7. (pending' = pending /\ pendingAge' = pendingAge) \/ NobodyAwaited
  BY <1>1 DEF Registers
<1>8. \A l \in LinkIds : \A g :
        g # Current \/ ~established => (Joins(toServer'[l], g) => Joins(toServer[l], g))
  BY <1>5 DEF Added, Names, Current
<1>9. \A l \in LinkIds : \A g : Joins(toServer[l], g) => Joins(toServer'[l], g)
  BY <1>5 DEF Added
<1>10. QueuesOpen'
  BY <1>2, <1>4, <1>5 DEF BondInv, QueuesOpen
<1>11. LinksKnown'
  <2>1. \A l \in LinkIds : reg'[l] = "ACTIVE" => reg[l] = "ACTIVE"
    BY <1>1 DEF Registers
  <2>2. nextLinkId \in Nat /\ \A l \in up : l \in Nat
    BY LinkTypes
  <2>3. \A l \in up' : l < nextLinkId'
    BY <1>1, <2>2 DEF BondInv, LinksKnown
  <2>4. \A g \in Groups' : owner'[g] < nextLinkId'
    <3>1. \A g \in Groups : owner[g] \in LinkIds \cup {NoLink}
      BY DEF Groups, NetInv, NetTypeOK
    <3>2. LinkIds \subseteq Nat /\ NoLink \in Nat
      BY LinkTypes DEF NoLink
    <3>3. \A g \in Groups : owner[g] \in Nat
      BY <3>1, <3>2
    <3> QED
      BY <1>1, <1>2, <1>3, <2>2, <3>3 DEF BondInv, LinksKnown
  <2> QED
    BY <1>4, <2>1, <2>3, <2>4 DEF BondInv, LinksKnown
<1>12. OneCandidate'
  <2> SUFFICES ASSUME NEW l \in LinkIds
               PROVE  /\ Carries(toServer'[l], "REG1") \/ Carries(toClient[l], "REG2")
                           => pending' = l /\ pendingAge' = 0
                      /\ Single(toServer'[l], "REG1") /\ Single(toClient[l], "REG2")
                      /\ Carries(toServer'[l], "REG1") => ~Carries(toClient[l], "REG2")
    BY <1>2 DEF OneCandidate
  <2>1. /\ Carries(toServer[l], "REG1") \/ Carries(toClient[l], "REG2")
             => pending = l /\ pendingAge = 0
        /\ Single(toServer[l], "REG1") /\ Single(toClient[l], "REG2")
        /\ Carries(toServer[l], "REG1") => ~Carries(toClient[l], "REG2")
    BY DEF BondInv, OneCandidate
  <2>2. CASE toServer'[l] = toServer[l]
    BY <1>6, <1>7, <2>1, <2>2
  <2>3. ASSUME NEW p \in out', Added(toServer'[l], toServer[l], p),
               p.type = "REG1", NobodyAwaited, pending' = l, pendingAge' = 0
        PROVE  /\ ~Carries(toClient[l], "REG2") /\ pending' = l /\ pendingAge' = 0
               /\ Single(toServer'[l], "REG1")
    BY <1>6, <2>1, <2>3 DEF Added
  <2>4. ASSUME NEW p \in out', Added(toServer'[l], toServer[l], p), p.type # "REG1"
        PROVE  /\ Carries(toServer'[l], "REG1") => Carries(toServer[l], "REG1")
               /\ Single(toServer'[l], "REG1")
    BY <2>1, <2>4 DEF Added
  <2> QED
    BY <1>5, <1>6, <1>7, <2>1, <2>2, <2>3, <2>4
<1>13. JoinsCurrent'
  BY <1>2, <1>3, <1>8 DEF BondInv, JoinsCurrent
<1>14. MembersCurrent' /\ AnswersOwned' /\ CurrentAlone'
  BY <1>2, <1>3 DEF BondInv, MembersCurrent, AnswersOwned, CurrentAlone
<1>15. OthersComing'
  <2> SUFFICES ASSUME NEW g \in Groups
               PROVE  \/ established /\ g = Current
                      \/ Joins(toClient[owner[g]], g)
                      \/ owner[g] \notin up'
    BY <1>2, <1>3 DEF OthersComing
  <2>1. owner[g] # nextLinkId
    BY LinkTypes DEF BondInv, LinksKnown
  <2> QED
    BY <1>1, <2>1 DEF BondInv, OthersComing
<1>16. AsksAfterJoin'
  <2>1. ASSUME established, NEW l \in LinkIds, Behind(toServer[l], Current)
        PROVE  Behind(toServer'[l], Current)
    BY <1>5, <2>1 DEF Added
  <2> QED
    BY <1>2, <1>3, <2>1 DEF BondInv, AsksAfterJoin
<1>17. LateNgp'
  <2> SUFFICES ASSUME established, Current \in Groups, NEW l \in up',
                      \/ Carries(toClient[l], "REG_NGP")
                      \/ \E g \in Suffixes \ {Current} : Joins(toServer'[l], g)
               PROVE  Current \in HomeOf(l) \/ Joins(toServer'[l], Current)
    BY <1>2, <1>3 DEF LateNgp
  <2>1. \/ Carries(toClient[l], "REG_NGP")
        \/ \E g \in Suffixes \ {Current} : Joins(toServer[l], g)
    BY <1>4, <1>8
  <2>2. l \in LinkIds /\ (l \notin up => toServer[l] = <<>> /\ toClient[l] = <<>>)
    BY <1>4 DEF BondInv, QueuesOpen
  <2>3. l \in up
    BY <2>1, <2>2, NothingOnTheWay
  <2> QED
    BY <1>9, <2>1, <2>2, <2>3 DEF BondInv, LateNgp
<1>18. ActiveJoined'
  <2> SUFFICES ASSUME restarts = 0, NEW l \in up',
                      reg'[l] = "ACTIVE" \/ Carries(toClient[l], "REG3")
               PROVE  member[l] # NoGroup
    BY <1>2 DEF ActiveJoined
  <2>1. l \in LinkIds /\ (l \notin up => toClient[l] = <<>> /\ reg[l] # "ACTIVE")
    BY <1>4 DEF BondInv, QueuesOpen, LinksKnown
  <2>2. reg[l] = "ACTIVE" \/ Carries(toClient[l], "REG3")
    BY <1>1, <2>1 DEF Registers
  <2> QED
    BY <2>1, <2>2, NothingOnTheWay DEF BondInv, ActiveJoined
<1> QED
  BY <1>10, <1>11, <1>12, <1>13, <1>14, <1>15, <1>16, <1>17, <1>18 DEF BondInv

(* A lost link takes its datagrams and its candidacy with it.              *)
LEMMA LostKeeps ==
  ASSUME NetInv, BondInv, NEW l \in up, NetworkLost(l) PROVE BondInv'
<1>1. /\ up' = up \ {l}
      /\ UNCHANGED <<nextLinkId, established, groupId, owner, member, restarts>>
      /\ pending' = (IF pending = l THEN NoLink ELSE pending)
      /\ pendingAge' = (IF pending = l THEN 0 ELSE pendingAge)
      /\ reg' = [reg EXCEPT ![l] = "NONE"]
  BY DEF NetworkLost, LinkDown, groupVars, serverVars, PendingWithout
<1>2. Groups' = Groups /\ Current' = Current /\ \A k : HomeOf(k)' = HomeOf(k)
  BY <1>1 DEF Groups, Current, HomeOf
<1>3. l \in LinkIds /\ up \subseteq LinkIds
  BY LinkTypes
<1>4. \A k \in LinkIds :
        IF k = l THEN toServer'[k] = <<>> /\ toClient'[k] = <<>> /\ reg'[k] = "NONE"
        ELSE UNCHANGED <<toServer[k], toClient[k], reg[k]>>
  BY <1>1 DEF NetworkLost, NetInv, TypeOK, NetTypeOK
<1>5. QueuesOpen' /\ LinksKnown'
  <2>1. QueuesOpen'
    BY <1>1, <1>4 DEF BondInv, QueuesOpen
  <2>2. \A k \in LinkIds : k \notin up' => reg'[k] # "ACTIVE"
    BY <1>1, <1>4 DEF BondInv, LinksKnown
  <2> QED
    BY <1>1, <1>2, <2>1, <2>2 DEF BondInv, LinksKnown
<1>6. OneCandidate'
  BY <1>1, <1>3, <1>4, NothingOnTheWay DEF BondInv, OneCandidate
<1>7. JoinsCurrent' /\ AnswersOwned'
  BY <1>1, <1>2, <1>4, NothingOnTheWay DEF BondInv, JoinsCurrent, AnswersOwned
<1>8. MembersCurrent' /\ CurrentAlone'
  BY <1>1, <1>2, <1>4, NothingOnTheWay DEF BondInv, MembersCurrent, CurrentAlone
<1>9. OthersComing'
  <2>1. \A g \in Groups : owner[g] = l \/ toClient'[owner[g]] = toClient[owner[g]]
    <3>1. \A g \in Groups : owner[g] \in LinkIds
      BY DEF Groups, NetInv, NetTypeOK
    <3> QED
      BY <1>4, <3>1
  <2> QED
    BY <1>1, <1>2, <2>1 DEF BondInv, OthersComing
<1>10. AsksAfterJoin'
  BY <1>1, <1>2, <1>4, NothingOnTheWay DEF BondInv, AsksAfterJoin
<1>11. LateNgp'
  BY <1>1, <1>2, <1>3, <1>4, NothingOnTheWay DEF BondInv, LateNgp
<1>12. ActiveJoined'
  BY <1>1, <1>3, <1>4 DEF BondInv, ActiveJoined
<1> QED
  BY <1>5, <1>6, <1>7, <1>8, <1>9, <1>10, <1>11, <1>12 DEF BondInv

-----------------------------------------------------------------------------
(* What a receiver takes from the way                                      *)

LEMMA ClientTakes ==
  ASSUME NetInv, NEW l \in up \cap Good, ClientReceives(l)
  PROVE  /\ l \in LinkIds /\ Head(toClient[l]) \in ToClient
         /\ Taken(toClient[l], toClient'[l], Head(toClient[l]))
         /\ \A k \in LinkIds \ {l} : toClient'[k] = toClient[k]
         /\ UNCHANGED <<owner, member, restarts>>
<1>1. l \in LinkIds
  BY LinkTypes
<1>2. toClient[l] \in Seq(ToClient) /\ toClient[l] # <<>>
  BY <1>1 DEF NetInv, NetTypeOK, ClientReceives
<1>3. /\ toClient'[l] = Tail(toClient[l])
      /\ \A k \in LinkIds \ {l} : toClient'[k] = toClient[k]
  BY <1>1 DEF NetInv, NetTypeOK, ClientReceives
<1>4. Taken(toClient[l], Tail(toClient[l]), Head(toClient[l])) /\ Head(toClient[l]) \in ToClient
  BY <1>2, Popped, QueueTail
<1> QED
  BY <1>1, <1>3, <1>4 DEF ClientReceives, serverVars

LEMMA ServerTakes ==
  ASSUME NetInv, BondInv, NEW l \in Good, ServerReceives(l)
  PROVE  /\ l \in LinkIds /\ l \in up /\ Head(toServer[l]) \in ToServer
         /\ Taken(toServer[l], toServer'[l], Head(toServer[l]))
         /\ \A k \in LinkIds \ {l} : toServer'[k] = toServer[k]
         /\ UNCHANGED <<up, nextLinkId, reg, pending, pendingAge, established, groupId, restarts>>
<1>1. l \in LinkIds
  BY LinkTypes
<1>2. toServer[l] \in Seq(ToServer) /\ toServer[l] # <<>>
  BY <1>1 DEF NetInv, NetTypeOK, ServerReceives
<1>3. /\ toServer'[l] = Tail(toServer[l])
      /\ \A k \in LinkIds \ {l} : toServer'[k] = toServer[k]
  BY <1>1 DEF NetInv, NetTypeOK, ServerReceives
<1>4. Taken(toServer[l], Tail(toServer[l]), Head(toServer[l])) /\ Head(toServer[l]) \in ToServer
  BY <1>2, Popped, QueueTail
<1>5. l \in up
  BY <1>1, <1>2 DEF BondInv, QueuesOpen
<1> QED
  BY <1>1, <1>3, <1>4, <1>5 DEF ServerReceives, vars, regVars, groupVars

(* The client hears from a link, or ignores what it brings.                *)
LEMMA HeardKeeps ==
  ASSUME NetInv, BondInv, NEW l \in up \cap Good, ClientReceives(l),
         \/ /\ ~(Head(toClient[l]).type \in {"REG_NGP", "REG2"})
            /\ Handled(l, Head(toClient[l])) /\ ClientSends(out')
         \/ Ignored(l, Head(toClient[l])) /\ UNCHANGED <<vars, toServer>>
  PROVE  BondInv'
<1> DEFINE m == Head(toClient[l])
<1>1. /\ l \in LinkIds /\ l \in up /\ up \subseteq LinkIds
      /\ Taken(toClient[l], toClient'[l], m)
      /\ \A k \in LinkIds \ {l} : toClient'[k] = toClient[k]
      /\ UNCHANGED <<owner, member, restarts>>
  BY ClientTakes, LinkTypes
<1>2. /\ UNCHANGED <<up, nextLinkId, pending, pendingAge, established, groupId>>
      /\ \A k \in LinkIds : reg'[k] = "ACTIVE" => reg[k] = "ACTIVE" \/ (k = l /\ m.type = "REG3")
      /\ UNCHANGED toServer
  <2>1. CASE UNCHANGED <<vars, toServer>>
    BY <2>1 DEF vars, regVars, groupVars
  <2>2. ASSUME OnReg3(l) \/ OnOther(l), ClientSends(out')
        PROVE  /\ UNCHANGED <<up, nextLinkId, pending, pendingAge, established, groupId>>
               /\ UNCHANGED toServer
    <3>1. /\ UNCHANGED <<up, nextLinkId, pending, pendingAge, established, groupId>>
          /\ out' = {}
      BY <2>2 DEF OnReg3, OnOther, Heard, regVars, groupVars
    <3>2. toServer = [k \in LinkIds |-> toServer[k]]
      BY DEF NetInv, NetTypeOK
    <3>3. toServer' = Queued(toServer, {})
      BY <2>2, <3>1 DEF ClientSends
    <3> QED
      BY <3>1, <3>2, <3>3, QueuedNothing
  <2>3. CASE OnReg3(l) /\ m.type = "REG3" /\ ClientSends(out')
    <3>1. \A k \in LinkIds : k # l => reg'[k] = reg[k]
      BY <2>3 DEF OnReg3, NetInv, TypeOK
    <3> QED
      BY <2>2, <2>3, <3>1
  <2>4. CASE OnOther(l) /\ ClientSends(out')
    BY <2>2, <2>4 DEF OnOther
  <2> QED
    BY <2>1, <2>3, <2>4 DEF Handled
<1>3. Groups' = Groups /\ Current' = Current /\ \A k : HomeOf(k)' = HomeOf(k)
  BY <1>1, <1>2 DEF Groups, Current, HomeOf
<1>4. m.type # "REG2" /\ \A g : ~Names(m, g)
  <2>1. m.type # "REG2"
    <3>1. m.type = "REG2" => Carries(toClient[l], "REG2")
      BY <1>1 DEF Taken
    <3>2. m.type = "REG2" => pending = l
      BY <1>1, <3>1 DEF BondInv, OneCandidate
    <3> QED
      BY <3>2 DEF Ignored
  <2> QED
    BY <2>1 DEF Names
<1>5. \A k \in LinkIds :
        /\ \A type : Carries(toClient'[k], type) => Carries(toClient[k], type)
        /\ \A g : Joins(toClient'[k], g) <=> Joins(toClient[k], g)
        /\ Single(toClient[k], "REG2") => Single(toClient'[k], "REG2")
  BY <1>1, <1>4 DEF Taken
<1> HIDE DEF m
<1>6. QueuesOpen'
  BY <1>1, <1>2 DEF BondInv, QueuesOpen
<1>7. LinksKnown'
  BY <1>1, <1>2, <1>3 DEF BondInv, LinksKnown
<1>8. OneCandidate'
  BY <1>2, <1>5 DEF BondInv, OneCandidate
<1>9. JoinsCurrent' /\ MembersCurrent'
  BY <1>1, <1>2, <1>3 DEF BondInv, JoinsCurrent, MembersCurrent
<1>10. AnswersOwned' /\ CurrentAlone'
  BY <1>1, <1>2, <1>3, <1>5 DEF BondInv, AnswersOwned, CurrentAlone
<1>11. OthersComing'
  <2>1. \A g \in Groups : owner[g] \in LinkIds
    BY DEF Groups, NetInv, NetTypeOK
  <2> QED
    BY <1>1, <1>2, <1>3, <1>5, <2>1 DEF BondInv, OthersComing
<1>12. AsksAfterJoin'
  BY <1>1, <1>2, <1>3 DEF BondInv, AsksAfterJoin
<1>13. LateNgp'
  BY <1>1, <1>2, <1>3, <1>5 DEF BondInv, LateNgp
<1>14. ActiveJoined'
  <2>1. m.type = "REG3" => Carries(toClient[l], "REG3")
    BY <1>1 DEF Taken
  <2> QED
    BY <1>1, <1>2, <1>5, <2>1 DEF BondInv, ActiveJoined
<1> QED
  BY <1>6, <1>7, <1>8, <1>9, <1>10, <1>11, <1>12, <1>13, <1>14 DEF BondInv

(* A REG_NGP makes the link that brought it ask for a group anew.  If the  *)
(* server still knows the client's group, it knows the link too or hears   *)
(* its REG2 first.                                                         *)
LEMMA NgpKeeps ==
  ASSUME NetInv, NetInv', BondInv, NEW l \in up \cap Good, ClientReceives(l),
         Head(toClient[l]).type = "REG_NGP", OnRegNgp(l), ClientSends(out')
  PROVE  BondInv'
<1> DEFINE m == Head(toClient[l])
<1>1. /\ l \in LinkIds /\ l \in up /\ up \subseteq LinkIds /\ l # NoLink
      /\ Taken(toClient[l], toClient'[l], m)
      /\ \A k \in LinkIds \ {l} : toClient'[k] = toClient[k]
      /\ UNCHANGED <<owner, member, restarts>>
  BY ClientTakes, LinkTypes
<1>2. /\ UNCHANGED <<up, nextLinkId, established, groupId>>
      /\ pending = NoLink /\ pending' = l /\ pendingAge' = 0
      /\ reg' = RegAfter(l) /\ out' = Reg1After(l)
  BY <1>1 DEF OnRegNgp, MakePending, groupVars
<1>3. \A k \in LinkIds : reg'[k] = "ACTIVE" => reg[k] = "ACTIVE"
  BY <1>2 DEF RegAfter
<1>4. Groups' = Groups /\ Current' = Current /\ \A k : HomeOf(k)' = HomeOf(k)
  BY <1>1, <1>2 DEF Groups, Current, HomeOf
<1>5. /\ \A k \in LinkIds \ {l} : toServer'[k] = toServer[k]
      /\ \/ toServer'[l] = toServer[l]
         \/ \E p : p.type = "REG1" /\ Added(toServer'[l], toServer[l], p)
  <2>1. \A p \in out' : p.to = l /\ p.type = "REG1"
    BY <1>2 DEF Reg1After, Reg1
  <2>2. out' \in SUBSET Packets
    BY LinkTypes
  <2> QED
    BY <1>1, <2>1, <2>2, SentOn DEF NetInv
<1>6. m.type = "REG_NGP" /\ \A g : ~Names(m, g)
  BY DEF Names
<1>7. /\ Carries(toClient[l], "REG_NGP")
      /\ \A k \in LinkIds :
           /\ \A type : Carries(toClient'[k], type) => Carries(toClient[k], type)
           /\ \A g : Joins(toClient'[k], g) <=> Joins(toClient[k], g)
           /\ Single(toClient[k], "REG2") => Single(toClient'[k], "REG2")
  BY <1>1, <1>6 DEF Taken
<1> HIDE DEF m
<1>8. \A k \in LinkIds : \A g : Joins(toServer'[k], g) <=> Joins(toServer[k], g)
  BY <1>5 DEF Added, Names
<1>9. \A k \in LinkIds : ~Carries(toServer[k], "REG1") /\ ~Carries(toClient[k], "REG2")
  <2>1. \A k \in LinkIds : k # NoLink
    BY LinkTypes
  <2> QED
    BY <1>2, <2>1 DEF BondInv, OneCandidate
<1>10. QueuesOpen'
  BY <1>1, <1>2, <1>5 DEF BondInv, QueuesOpen
<1>11. LinksKnown'
  BY <1>1, <1>2, <1>3, <1>4 DEF BondInv, LinksKnown
<1>12. OneCandidate'
  <2> SUFFICES ASSUME NEW k \in LinkIds
               PROVE  /\ Carries(toServer'[k], "REG1") \/ Carries(toClient'[k], "REG2")
                           => pending' = k /\ pendingAge' = 0
                      /\ Single(toServer'[k], "REG1") /\ Single(toClient'[k], "REG2")
                      /\ Carries(toServer'[k], "REG1") => ~Carries(toClient'[k], "REG2")
    BY DEF OneCandidate
  <2>1. ~Carries(toClient'[k], "REG2") /\ Single(toClient'[k], "REG2")
    BY <1>7, <1>9 DEF BondInv, OneCandidate
  <2>2. Single(toServer'[k], "REG1")
    BY <1>5, <1>9 DEF BondInv, OneCandidate, Added
  <2>3. k # l => ~Carries(toServer'[k], "REG1")
    BY <1>5, <1>9
  <2> QED
    BY <1>2, <2>1, <2>2, <2>3
<1>13. JoinsCurrent' /\ MembersCurrent'
  BY <1>1, <1>2, <1>4, <1>8 DEF BondInv, JoinsCurrent, MembersCurrent
<1>14. AnswersOwned' /\ CurrentAlone'
  BY <1>1, <1>2, <1>4, <1>7 DEF BondInv, AnswersOwned, CurrentAlone
<1>15. OthersComing'
  <2>1. \A g \in Groups : owner[g] \in LinkIds
    BY DEF Groups, NetInv, NetTypeOK
  <2> QED
    BY <1>1, <1>2, <1>4, <1>7, <2>1 DEF BondInv, OthersComing
<1>16. AsksAfterJoin'
  <2> SUFFICES ASSUME established, Current \in Groups, NEW k \in LinkIds, HomeOf(k) = {}
               PROVE  Behind(toServer'[k], Current)
    BY <1>2, <1>4 DEF AsksAfterJoin
  <2>1. Behind(toServer[k], Current)
    BY DEF BondInv, AsksAfterJoin
  <2>2. k = l => Joins(toServer[l], Current)
    BY <1>1, <1>7 DEF BondInv, LateNgp
  <2> QED
    BY <1>5, <2>1, <2>2 DEF Added
<1>17. LateNgp'
  BY <1>1, <1>2, <1>4, <1>7, <1>8 DEF BondInv, LateNgp
<1>18. ActiveJoined'
  BY <1>1, <1>2, <1>3, <1>7 DEF BondInv, ActiveJoined
<1> QED
  BY <1>10, <1>11, <1>12, <1>13, <1>14, <1>15, <1>16, <1>17, <1>18 DEF BondInv

(* The client adopts a group.  The one it had is gone from the server, so  *)
(* nobody is in it, and every link asks to join the new one.               *)
LEMMA Reg2Keeps ==
  ASSUME NetInv, NetInv', BondInv, NEW l \in up \cap Good, ClientReceives(l),
         Head(toClient[l]).type = "REG2", OnReg2(l, Head(toClient[l]).id), ClientSends(out')
  PROVE  BondInv'
<1> DEFINE m == Head(toClient[l])
<1>1. /\ l \in LinkIds /\ l \in up /\ up \subseteq LinkIds
      /\ m \in ToClient /\ m.type = "REG2"
      /\ Taken(toClient[l], toClient'[l], m)
      /\ \A k \in LinkIds \ {l} : toClient'[k] = toClient[k]
      /\ UNCHANGED <<owner, member, restarts>>
  BY ClientTakes, LinkTypes
<1>2. PICK g \in ServerGroups : m.id = <<"local", g>>
  BY <1>1 DEF ToClient
<1>3. /\ UNCHANGED <<up, nextLinkId>>
      /\ pending = l /\ established' /\ groupId' = m.id
      /\ \A k \in LinkIds : IF k \in up THEN reg'[k] = "WAIT_REG3" ELSE reg'[k] = reg[k]
      /\ out' = {Reg2(k, m.id) : k \in up}
  BY DEF OnReg2, Joiners
<1>4. /\ Current' = g /\ Names(m, g) /\ Groups' = Groups
      /\ \A h : Names(m, h) => h = g
  BY <1>1, <1>2, <1>3 DEF Current, Names, Groups
<1>5. \A k \in LinkIds :
        \/ toServer'[k] = toServer[k] /\ ~(k \in up /\ k \in Good)
        \/ \E p : /\ p.type = "REG2" /\ p.id = m.id
                  /\ Added(toServer'[k], toServer[k], p)
  <2>1. \A k \in up : /\ Reg2(k, m.id) \in out'
                      /\ Reg2(k, m.id).to = k /\ Reg2(k, m.id).type = "REG2"
    BY <1>3 DEF Reg2
  <2>2. \A p \in out' : p.type = "REG2" /\ p.id = m.id /\ p.to \in up
                        /\ p = Reg2(p.to, m.id)
    BY <1>3 DEF Reg2
  <2>3. out' \in SUBSET Packets /\ \A p \in out' : p.type # "DATA"
    BY <2>2, LinkTypes
  <2>4. ASSUME NEW k \in LinkIds, k \in up, k \in Good
        PROVE  toServer'[k] = Append(toServer[k], Reg2(k, m.id))
    <3>1. Queued(toServer, out')[k] = Append(toServer[k], Reg2(k, m.id))
      <4>1. \A x \in out' : x.to = k => x = Reg2(k, m.id)
        BY <2>2
      <4>2. Reg2(k, m.id).type # "DATA"
        BY <2>1, <2>4
      <4> QED
        BY <2>1, <2>4, <4>1, <4>2, QueuedThis
    <3> QED
      BY <3>1 DEF ClientSends
  <2>5. ASSUME NEW k \in LinkIds, k \in up, k \in Good
        PROVE  Added(toServer'[k], toServer[k], Reg2(k, m.id))
    <3>1. toServer[k] \in Seq(ToServer)
      BY DEF NetInv, NetTypeOK
    <3>2. Reg2(k, m.id) \in ToServer
      BY <2>1, <2>3, <2>5 DEF Packets, ToServer
    <3> QED
      BY <2>4, <2>5, <3>1, <3>2, Pushed
  <2> QED
    BY <2>1, <2>2, <2>3, <2>5, SentOn DEF NetInv
<1>6. /\ \A type : Carries(toClient[l], type) <=> type = "REG2" \/ Carries(toClient'[l], type)
      /\ Joins(toClient[l], g)
      /\ \A h : Joins(toClient[l], h) <=> h = g \/ Joins(toClient'[l], h)
      /\ ~Carries(toClient'[l], "REG2")
  BY <1>1, <1>4 DEF Taken, BondInv, OneCandidate
<1> HIDE DEF m
<1>7. \A k \in LinkIds : \A h : Joins(toClient[k], h) => Carries(toClient[k], "REG2")
  BY DEF Joins, Carries, Names
<1>8. \A k \in LinkIds : k # l => ~Carries(toServer[k], "REG1") /\ ~Carries(toClient[k], "REG2")
  BY <1>3 DEF BondInv, OneCandidate
<1>9. \A k \in LinkIds : ~Carries(toServer'[k], "REG1") /\ ~Carries(toClient'[k], "REG2")
  <2>1. \A k \in LinkIds : ~Carries(toServer[k], "REG1")
    BY <1>1, <1>6, <1>8 DEF BondInv, OneCandidate
  <2> QED
    BY <1>1, <1>5, <1>6, <1>8, <2>1 DEF Added
<1>10. established => Current \notin Groups
  BY <1>1, <1>6 DEF BondInv, CurrentAlone
<1>11. /\ \A k \in LinkIds : member[k] = NoGroup
       /\ \A k \in LinkIds : \A h \in Groups : ~Joins(toServer[k], h)
  BY <1>10 DEF BondInv, MembersCurrent, JoinsCurrent
<1>12. QueuesOpen'
  <2>1. \A k \in LinkIds : k \notin up \cap Good => toServer'[k] = toServer[k]
    <3>1. ASSUME NEW k \in LinkIds, k \notin up \cap Good
          PROVE  Queued(toServer, out')[k] = toServer[k]
      <4>1. ~(k \in Good /\ \E p \in out' : p.to = k /\ p.type # "DATA")
        BY <1>3, <3>1 DEF Reg2
      <4> QED
        BY <4>1 DEF Queued
    <3> QED
      BY <3>1 DEF ClientSends
  <2> QED
    BY <1>1, <1>3, <2>1 DEF BondInv, QueuesOpen
<1>13. LinksKnown'
  BY <1>1, <1>3, <1>4 DEF BondInv, LinksKnown
<1>14. OneCandidate'
  <2>1. \A k \in LinkIds : Single(toServer'[k], "REG1") /\ Single(toClient'[k], "REG2")
    BY <1>9 DEF Single, Carries
  <2> QED
    BY <1>9, <2>1 DEF OneCandidate
<1>15. JoinsCurrent'
  <2>1. \A k \in LinkIds : \A h \in Groups : Joins(toServer'[k], h) => h = g
    BY <1>4, <1>5, <1>11 DEF Added, Names
  <2> QED
    BY <1>3, <1>4, <2>1 DEF JoinsCurrent
<1>16. MembersCurrent'
  BY <1>1, <1>11 DEF MembersCurrent
<1>17. OthersComing'
  <2> SUFFICES ASSUME NEW h \in Groups, h # g, owner[h] \in up PROVE FALSE
    BY <1>1, <1>3, <1>4 DEF OthersComing
  <2>1. Joins(toClient[owner[h]], h)
    BY <1>10 DEF BondInv, OthersComing
  <2>2. owner[h] = l
    BY <1>1, <1>7, <1>8, <2>1
  <2>3. Joins(toClient'[l], h)
    BY <1>6, <2>1, <2>2
  <2> QED
    BY <1>1, <1>9, <2>3 DEF Joins, Carries, Names
<1>18. AnswersOwned'
  BY <1>1, <1>6 DEF BondInv, AnswersOwned
<1>19. CurrentAlone'
  BY <1>4, <1>9 DEF CurrentAlone
<1>20. AsksAfterJoin'
  BY <1>9 DEF AsksAfterJoin, Behind, Carries
<1>21. LateNgp'
  <2> SUFFICES ASSUME NEW k \in up,
                      \/ Carries(toClient'[k], "REG_NGP")
                      \/ \E h \in Suffixes \ {g} : Joins(toServer'[k], h)
               PROVE  Joins(toServer'[k], g)
    BY <1>3, <1>4 DEF LateNgp
  <2>1. CASE k \in Good
    BY <1>1, <1>2, <1>5, <2>1 DEF Added, Names
  <2>2. CASE k \notin Good
    <3>1. toServer'[k] = <<>> /\ toClient'[k] = <<>>
      BY <1>1, <1>12, <2>2 DEF QueuesOpen
    <3> QED
      BY <3>1, NothingOnTheWay
  <2> QED
    BY <2>1, <2>2
<1>22. ActiveJoined'
  <2>1. \A k \in up : reg'[k] # "ACTIVE"
    BY <1>1, <1>3
  <2>2. \A k \in up : Carries(toClient'[k], "REG3") => Carries(toClient[k], "REG3")
    BY <1>1, <1>6
  <2> QED
    BY <1>1, <1>3, <2>1, <2>2 DEF BondInv, ActiveJoined
<1> QED
  BY <1>12, <1>13, <1>14, <1>15, <1>16, <1>17, <1>18, <1>19, <1>20, <1>21, <1>22 DEF BondInv

(* The groups of which nobody knows.                                       *)
LEMMA UnknownGroup ==
  ASSUME NetInv, NEW g \in ServerGroups, ~Known(g)
  PROVE  /\ g \notin Groups /\ g # Current
         /\ \A l \in LinkIds : ~Joins(toServer[l], g) /\ ~Joins(toClient[l], g)
<1>1. \A l \in LinkIds : /\ DOMAIN toServer[l] = 1..Len(toServer[l])
                         /\ DOMAIN toClient[l] = 1..Len(toClient[l])
  <2>1. \A l \in LinkIds : toServer[l] \in Seq(ToServer) /\ toClient[l] \in Seq(ToClient)
    BY DEF NetInv, NetTypeOK
  <2>2. \A M : \A q \in Seq(M) : DOMAIN q = 1..Len(q)
    OBVIOUS
  <2> QED
    BY <2>1, <2>2
<1>2. \A l \in LinkIds : ~Joins(toServer[l], g) /\ ~Joins(toClient[l], g)
  BY <1>1 DEF Known, Joins, Names
<1> QED
  BY <1>2 DEF Known, Current

(* The server creates a group only when it has none that the client uses:  *)
(* a link that asks while it has one is known or has joined before.        *)
LEMMA CreateKeeps ==
  ASSUME NetInv, BondInv, NEW l \in Good, ServerReceives(l),
         Head(toServer[l]).type = "REG1", NEW g \in ServerGroups, ~Known(g),
         HomeOf(l) = {}, owner' = [owner EXCEPT ![g] = l], UNCHANGED member,
         toClient' = ReplyReg2(l, g)
  PROVE  BondInv'
<1> DEFINE m == Head(toServer[l])
           r == [to |-> l, type |-> "REG2", id |-> <<"local", g>>]
<1>1. /\ l \in LinkIds /\ l \in up /\ up \subseteq LinkIds /\ l # NoLink
      /\ Taken(toServer[l], toServer'[l], m)
      /\ \A k \in LinkIds \ {l} : toServer'[k] = toServer[k]
      /\ UNCHANGED <<up, nextLinkId, reg, pending, pendingAge, established, groupId, restarts>>
  BY ServerTakes, LinkTypes
<1>2. /\ \A k \in LinkIds \ {l} : toClient'[k] = toClient[k]
      /\ Added(toClient'[l], toClient[l], r)
  BY <1>1, RepliedOn DEF NetInv
<1>3. r.type = "REG2" /\ \A h : Names(r, h) <=> h = g
  BY DEF Names
<1>4. m.type = "REG1" /\ \A h : ~Names(m, h)
  BY DEF Names
<1> HIDE DEF m, r
<1>5. /\ g \notin Groups /\ g # Current
      /\ \A k \in LinkIds : ~Joins(toServer[k], g) /\ ~Joins(toClient[k], g)
  BY UnknownGroup
<1>6. /\ Groups' = Groups \cup {g} /\ Current' = Current
      /\ \A h \in ServerGroups : owner'[h] = IF h = g THEN l ELSE owner[h]
  BY <1>1 DEF Groups, Current, NetInv, NetTypeOK
<1>7. /\ Carries(toServer[l], "REG1") /\ ~Carries(toClient[l], "REG2")
      /\ pending = l /\ pendingAge = 0
      /\ ~Carries(toServer'[l], "REG1") /\ Single(toServer'[l], "REG1")
  BY <1>1, <1>4 DEF Taken, BondInv, OneCandidate
<1>8. \A k \in LinkIds : \A h : Joins(toServer'[k], h) <=> Joins(toServer[k], h)
  BY <1>1, <1>4 DEF Taken
<1>9. \A k \in LinkIds : \A h :
        Joins(toClient'[k], h) <=> Joins(toClient[k], h) \/ (k = l /\ h = g)
  BY <1>1, <1>2, <1>3 DEF Added
<1>10. \A k \in LinkIds : \A type : type # "REG2" =>
         (Carries(toClient'[k], type) <=> Carries(toClient[k], type))
  BY <1>2, <1>3 DEF Added
<1>11. established => Current \notin Groups'
  <2>1. established /\ Current \in Groups => Behind(toServer[l], Current)
    BY <1>1 DEF BondInv, AsksAfterJoin
  <2>2. ~Behind(toServer[l], Current)
    BY <1>1, <1>4 DEF Taken
  <2> QED
    BY <1>5, <1>6, <2>1, <2>2
<1>12. QueuesOpen'
  BY <1>1, <1>2 DEF BondInv, QueuesOpen
<1>13. LinksKnown'
  <2>1. \A h \in Groups' : owner'[h] < nextLinkId
    BY <1>1, <1>6 DEF BondInv, LinksKnown, Groups
  <2> QED
    BY <1>1, <2>1 DEF BondInv, LinksKnown
<1>14. OneCandidate'
  <2>1. Single(toClient'[l], "REG2")
    BY <1>2, <1>7, <1>1 DEF BondInv, OneCandidate, Added
  <2> QED
    BY <1>1, <1>2, <1>7, <2>1 DEF BondInv, OneCandidate
<1>15. JoinsCurrent' /\ MembersCurrent'
  BY <1>1, <1>5, <1>6, <1>8 DEF BondInv, JoinsCurrent, MembersCurrent
<1>16. AnswersOwned'
  BY <1>5, <1>6, <1>9 DEF BondInv, AnswersOwned
<1>17. CurrentAlone'
  BY <1>1, <1>6, <1>11 DEF BondInv, CurrentAlone
<1>18. OthersComing'
  <2> SUFFICES ASSUME NEW h \in Groups', owner'[h] \in up, ~(established /\ h = Current)
               PROVE  Joins(toClient'[owner'[h]], h)
    BY <1>1, <1>6 DEF OthersComing
  <2>1. CASE h = g
    BY <1>1, <1>6, <1>9, <2>1
  <2>2. CASE h # g
    <3>1. h \in Groups /\ owner'[h] = owner[h]
      BY <1>6, <2>2 DEF Groups
    <3>2. Joins(toClient[owner[h]], h)
      BY <3>1 DEF BondInv, OthersComing
    <3> QED
      BY <1>1, <1>9, <3>1, <3>2
  <2> QED
    BY <2>1, <2>2
<1>19. AsksAfterJoin' /\ LateNgp'
  BY <1>1, <1>6, <1>11 DEF AsksAfterJoin, LateNgp
<1>20. ActiveJoined'
  BY <1>1, <1>10 DEF BondInv, ActiveJoined
<1> QED
  BY <1>12, <1>13, <1>14, <1>15, <1>16, <1>17, <1>18, <1>19, <1>20 DEF BondInv

(* The server answers the datagram m of link l with r, or not at all, and  *)
(* may put the link into the group that m names.                           *)
Answers(l, m, r) ==
  /\ UNCHANGED owner
  /\ \A k \in LinkIds \ {l} : toClient'[k] = toClient[k] /\ member'[k] = member[k]
  /\ toClient'[l] = toClient[l] \/ (Added(toClient'[l], toClient[l], r) /\ r.type # "REG2")
  /\ \/ UNCHANGED member /\ r.type # "REG3"
     \/ m.type = "REG2" /\ m.id[2] \in Groups /\ member'[l] = m.id[2]
  /\ r.type = "REG_NGP" => m.type = "REG2" /\ m.id[2] \notin Groups
  /\ m.type = "REG2" /\ m.id[2] \in Groups =>
       member'[l] = m.id[2] \/ \E h \in HomeOf(l) : h # m.id[2]

(* It creates a group or answers.                                          *)
LEMMA ServerAnswers ==
  ASSUME NetInv, BondInv, NEW l \in Good, ServerReceives(l)
  PROVE  \/ /\ Head(toServer[l]).type = "REG1"
            /\ \E g \in ServerGroups :
                 /\ ~Known(g) /\ HomeOf(l) = {}
                 /\ owner' = [owner EXCEPT ![g] = l] /\ UNCHANGED member
                 /\ toClient' = ReplyReg2(l, g)
         \/ \E r : Answers(l, Head(toServer[l]), r)
<1> DEFINE m == Head(toServer[l])
<1>1. l \in LinkIds
  BY LinkTypes
<1>2. ASSUME NEW type \in {"REG_ERR", "REG_NGP", "REG3", "KEEPALIVE"}, toClient' = Reply(l, type)
      PROVE  \E r : /\ r.type = type
                    /\ \A k \in LinkIds \ {l} : toClient'[k] = toClient[k]
                    /\ Added(toClient'[l], toClient[l], r)
  <2>1. [to |-> l, type |-> type].type = type
    OBVIOUS
  <2> QED
    BY <1>1, <1>2, <2>1, RepliedOn DEF NetInv
<1>3. CASE ServerReg1(l, m)
  <2>1. CASE toClient' = Reply(l, "REG_ERR") /\ UNCHANGED <<owner, member>>
    BY <1>2, <1>3, <2>1 DEF ServerReg1, Answers
  <2> QED
    BY <1>3, <2>1 DEF ServerReg1
<1>4. CASE ServerReg2(l, m)
  <2>1. CASE m.id[2] \notin Groups
    BY <1>2, <1>4, <2>1 DEF ServerReg2, Answers
  <2>2. CASE m.id[2] \in Groups /\ HomeOf(l) \subseteq {m.id[2]}
    <3>1. /\ toClient' = Reply(l, "REG3") /\ UNCHANGED owner /\ m.type = "REG2"
          /\ member' = [member EXCEPT ![l] = m.id[2]]
      BY <1>4, <2>2 DEF ServerReg2
    <3>2. member'[l] = m.id[2] /\ \A k \in LinkIds \ {l} : member'[k] = member[k]
      BY <1>1, <3>1 DEF NetInv, NetTypeOK
    <3>3. PICK r : /\ r.type = "REG3"
                   /\ \A k \in LinkIds \ {l} : toClient'[k] = toClient[k]
                   /\ Added(toClient'[l], toClient[l], r)
      BY <1>2, <3>1
    <3> QED
      BY <2>2, <3>1, <3>2, <3>3 DEF Answers
  <2>3. CASE m.id[2] \in Groups /\ ~(HomeOf(l) \subseteq {m.id[2]})
    BY <1>2, <1>4, <2>3 DEF ServerReg2, Answers
  <2> QED
    BY <1>4, <2>1, <2>2, <2>3 DEF ServerReg2
<1>5. CASE ServerKeepalive(l, m)
  BY <1>2, <1>5 DEF ServerKeepalive, Answers
<1> QED
  BY <1>3, <1>4, <1>5 DEF ServerReceives

LEMMA AnswerKeeps ==
  ASSUME NetInv, BondInv, NEW l \in Good, ServerReceives(l),
         NEW r, Answers(l, Head(toServer[l]), r)
  PROVE  BondInv'
<1> DEFINE m == Head(toServer[l])
<1>1. /\ l \in LinkIds /\ l \in up /\ up \subseteq LinkIds /\ m \in ToServer
      /\ Taken(toServer[l], toServer'[l], m)
      /\ \A k \in LinkIds \ {l} : toServer'[k] = toServer[k]
      /\ UNCHANGED <<up, nextLinkId, reg, pending, pendingAge, established, groupId, restarts>>
  BY ServerTakes, LinkTypes
<1>2. /\ UNCHANGED owner
      /\ \A k \in LinkIds \ {l} : toClient'[k] = toClient[k] /\ member'[k] = member[k]
      /\ toClient'[l] = toClient[l] \/ (Added(toClient'[l], toClient[l], r) /\ r.type # "REG2")
      /\ \/ UNCHANGED member /\ r.type # "REG3"
         \/ m.type = "REG2" /\ m.id[2] \in Groups /\ member'[l] = m.id[2]
      /\ r.type = "REG_NGP" => m.type = "REG2" /\ m.id[2] \notin Groups
      /\ m.type = "REG2" /\ m.id[2] \in Groups =>
           member'[l] = m.id[2] \/ \E h \in HomeOf(l) : h # m.id[2]
  BY DEF Answers
<1>3. m.type = "REG2" => m.id[2] \in Suffixes /\ Names(m, m.id[2])
  BY <1>1 DEF ToServer, GroupIds, Names
<1>4. \A h : Names(m, h) => m.type = "REG2" /\ h = m.id[2]
  BY DEF Names
<1> HIDE DEF m
<1>5. Groups' = Groups /\ Current' = Current
  BY <1>1, <1>2 DEF Groups, Current
<1>6. \A k \in LinkIds :
        /\ \A type : Carries(toServer'[k], type) => Carries(toServer[k], type)
        /\ \A h : Joins(toServer'[k], h) => Joins(toServer[k], h)
        /\ Single(toServer[k], "REG1") => Single(toServer'[k], "REG1")
  BY <1>1 DEF Taken
<1>7. \A k \in LinkIds :
        /\ Carries(toClient'[k], "REG2") <=> Carries(toClient[k], "REG2")
        /\ \A h : Joins(toClient'[k], h) <=> Joins(toClient[k], h)
        /\ Single(toClient[k], "REG2") => Single(toClient'[k], "REG2")
  <2>1. r.type # "REG2" => \A h : ~Names(r, h)
    BY DEF Names
  <2> QED
    BY <1>2, <2>1 DEF Added
<1>8. m.type = "REG2" => Joins(toServer[l], m.id[2])
  BY <1>1, <1>3 DEF Taken
<1>9. m.type = "REG2" /\ m.id[2] \in Groups => established /\ m.id[2] = Current
  BY <1>1, <1>8 DEF BondInv, JoinsCurrent
<1>10. \A h \in HomeOf(l) : established /\ Current \in Groups => h = Current
  <2> SUFFICES ASSUME NEW h \in HomeOf(l), established, Current \in Groups, h # Current
               PROVE  FALSE
    OBVIOUS
  <2>1. h \in Groups /\ (owner[h] = l \/ member[l] = h) /\ h # NoGroup
    BY DEF HomeOf, Groups, ServerGroups
  <2>2. owner[h] = l
    BY <1>1, <2>1 DEF BondInv, MembersCurrent
  <2>3. Joins(toClient[l], h)
    BY <1>1, <2>1, <2>2 DEF BondInv, OthersComing
  <2>4. Carries(toClient[l], "REG2")
    BY <2>3 DEF Joins, Carries, Names
  <2> QED
    BY <1>1, <2>4 DEF BondInv, CurrentAlone
<1>11. m.type = "REG2" /\ m.id[2] \in Groups => member'[l] = Current
  BY <1>2, <1>9, <1>10
<1>12. UNCHANGED member \/ (member'[l] = Current /\ established /\ Current \in Groups)
  BY <1>2, <1>9
<1>13. \A k \in LinkIds : established /\ Current \in Groups =>
         /\ Current \in HomeOf(k) => Current \in HomeOf(k)'
         /\ HomeOf(k)' = {} => HomeOf(k) = {}
  <2>1. CASE UNCHANGED member
    BY <1>2, <1>5, <2>1 DEF HomeOf
  <2>2. CASE member'[l] = Current /\ established /\ Current \in Groups
    <3>1. \A k \in LinkIds : k # l => HomeOf(k)' = HomeOf(k)
      BY <1>2, <1>5 DEF HomeOf
    <3>2. Current \in HomeOf(l)'
      BY <1>5, <2>2 DEF HomeOf
    <3> QED
      BY <3>1, <3>2
  <2> QED
    BY <1>12, <2>1, <2>2
<1>14. QueuesOpen'
  BY <1>1, <1>2 DEF BondInv, QueuesOpen
<1>15. LinksKnown'
  BY <1>1, <1>2, <1>5 DEF BondInv, LinksKnown
<1>16. OneCandidate'
  BY <1>1, <1>6, <1>7 DEF BondInv, OneCandidate
<1>17. JoinsCurrent'
  BY <1>1, <1>5, <1>6 DEF BondInv, JoinsCurrent
<1>18. MembersCurrent'
  BY <1>1, <1>2, <1>5, <1>12 DEF BondInv, MembersCurrent
<1>19. AnswersOwned' /\ CurrentAlone'
  BY <1>1, <1>2, <1>5, <1>7 DEF BondInv, AnswersOwned, CurrentAlone
<1>20. OthersComing'
  <2>1. \A h \in Groups : owner[h] \in LinkIds
    BY DEF Groups, NetInv, NetTypeOK
  <2> QED
    BY <1>1, <1>2, <1>5, <1>7, <2>1 DEF BondInv, OthersComing
<1>21. AsksAfterJoin'
  <2> SUFFICES ASSUME established, Current \in Groups, NEW k \in LinkIds, HomeOf(k)' = {}
               PROVE  Behind(toServer'[k], Current)
    BY <1>1, <1>5 DEF AsksAfterJoin
  <2>1. HomeOf(k) = {} /\ Behind(toServer[k], Current)
    BY <1>13 DEF BondInv, AsksAfterJoin
  <2>2. CASE k # l
    BY <1>1, <2>1, <2>2
  <2>3. CASE k = l
    <3>1. member'[l] # Current
      BY <1>5, <2>3 DEF HomeOf
    <3>2. ~Names(m, Current)
      BY <1>4, <1>11, <3>1
    <3> QED
      BY <1>1, <2>1, <2>3, <3>2 DEF Taken
  <2> QED
    BY <2>2, <2>3
<1>22. LateNgp'
  <2> SUFFICES ASSUME established, Current \in Groups, NEW k \in up,
                      \/ Carries(toClient'[k], "REG_NGP")
                      \/ \E g \in Suffixes \ {Current} : Joins(toServer'[k], g)
               PROVE  Current \in HomeOf(k)' \/ Joins(toServer'[k], Current)
    BY <1>1, <1>5 DEF LateNgp
  <2>1. k \in LinkIds /\ (Current \in HomeOf(k) => Current \in HomeOf(k)')
    BY <1>1, <1>13
  <2>2. \/ Carries(toClient[k], "REG_NGP")
        \/ \E g \in Suffixes \ {Current} : Joins(toServer[k], g)
    <3>1. CASE Carries(toClient'[k], "REG_NGP") /\ ~Carries(toClient[k], "REG_NGP")
      <4>1. k = l /\ r.type = "REG_NGP"
        BY <1>2, <2>1, <3>1 DEF Added
      <4> QED
        BY <1>2, <1>3, <1>8, <4>1
    <3> QED
      BY <1>6, <2>1, <3>1
  <2>3. Current \in HomeOf(k) \/ Joins(toServer[k], Current)
    BY <2>2 DEF BondInv, LateNgp
  <2>4. ASSUME Joins(toServer[k], Current), ~Joins(toServer'[k], Current)
        PROVE  Current \in HomeOf(k)'
    <3>1. k = l /\ Names(m, Current)
      BY <1>1, <2>1, <2>4 DEF Taken
    <3>2. member'[l] = Current
      BY <1>4, <1>11, <3>1
    <3> QED
      BY <1>5, <3>1, <3>2 DEF HomeOf
  <2> QED
    BY <2>1, <2>3, <2>4
<1>23. ActiveJoined'
  <2> SUFFICES ASSUME restarts = 0, NEW k \in up,
                      reg[k] = "ACTIVE" \/ Carries(toClient'[k], "REG3")
               PROVE  member'[k] # NoGroup
    BY <1>1 DEF ActiveJoined
  <2>1. k \in LinkIds /\ NoGroup \notin Groups
    BY <1>1 DEF Groups, ServerGroups
  <2>2. CASE UNCHANGED member /\ r.type # "REG3"
    <3>1. reg[k] = "ACTIVE" \/ Carries(toClient[k], "REG3")
      BY <1>2, <2>1, <2>2 DEF Added
    <3> QED
      BY <2>2, <3>1 DEF BondInv, ActiveJoined
  <2>3. CASE k # l
    BY <1>2, <2>1, <2>3 DEF BondInv, ActiveJoined
  <2>4. CASE k = l /\ m.id[2] \in Groups /\ member'[l] = m.id[2]
    BY <2>1, <2>4
  <2> QED
    BY <1>2, <2>2, <2>3, <2>4
<1> QED
  BY <1>14, <1>15, <1>16, <1>17, <1>18, <1>19, <1>20, <1>21, <1>22, <1>23 DEF BondInv

(* The server forgets: a member that is gone, a group that nobody needs,   *)
(* everything.                                                             *)
LEMMA DropMemberKeeps ==
  ASSUME NetInv, BondInv, NEW l \in Good, ServerDropsMember(l) PROVE BondInv'
<1>1. /\ l \in LinkIds /\ l \notin up /\ up \subseteq LinkIds
      /\ UNCHANGED <<up, nextLinkId, reg, pending, pendingAge, established, groupId>>
      /\ UNCHANGED <<toServer, toClient, owner, restarts>>
  BY LinkTypes DEF ServerDropsMember, vars, regVars, groupVars, netVars
<1>2. member'[l] = NoGroup /\ \A k \in LinkIds \ {l} : member'[k] = member[k]
  BY <1>1 DEF ServerDropsMember, NetInv, NetTypeOK
<1>3. /\ Groups' = Groups /\ Current' = Current
      /\ \A k \in LinkIds \ {l} : HomeOf(k)' = HomeOf(k)
  BY <1>1, <1>2 DEF Groups, Current, HomeOf
<1>4. toServer[l] = <<>>
  BY <1>1 DEF BondInv, QueuesOpen
<1>5. QueuesOpen' /\ LinksKnown' /\ OneCandidate'
  BY <1>1, <1>3 DEF BondInv, QueuesOpen, LinksKnown, OneCandidate
<1>6. JoinsCurrent' /\ MembersCurrent' /\ OthersComing'
  BY <1>1, <1>2, <1>3 DEF BondInv, JoinsCurrent, MembersCurrent, OthersComing
<1>7. AnswersOwned' /\ CurrentAlone'
  BY <1>1, <1>3 DEF BondInv, AnswersOwned, CurrentAlone
<1>8. AsksAfterJoin'
  BY <1>1, <1>3, <1>4, NothingOnTheWay DEF BondInv, AsksAfterJoin
<1>9. LateNgp'
  BY <1>1, <1>3 DEF BondInv, LateNgp
<1>10. ActiveJoined'
  BY <1>1, <1>2 DEF BondInv, ActiveJoined
<1> QED
  BY <1>5, <1>6, <1>7, <1>8, <1>9, <1>10 DEF BondInv

LEMMA DropGroupKeeps ==
  ASSUME NetInv, BondInv, NEW g \in ServerGroups, ServerDropsGroup(g) PROVE BondInv'
<1>1. /\ up \subseteq LinkIds /\ NoLink \notin LinkIds
      /\ UNCHANGED <<up, nextLinkId, reg, pending, pendingAge, established, groupId>>
      /\ UNCHANGED <<toServer, toClient, member, restarts>>
  BY LinkTypes DEF ServerDropsGroup, vars, regVars, groupVars, netVars
<1>2. /\ g \in Groups /\ \A l \in LinkIds : member[l] # g
      /\ established => Current # g
  BY DEF ServerDropsGroup, Awaited, Current
<1>3. \A h \in ServerGroups : owner'[h] = IF h = g THEN NoLink ELSE owner[h]
  BY DEF ServerDropsGroup, NetInv, NetTypeOK
<1>4. Groups' = Groups \ {g} /\ Current' = Current
  BY <1>1, <1>3 DEF Groups, Current
<1>5. established => \A l \in LinkIds : Current \in HomeOf(l) => Current \in HomeOf(l)'
  BY <1>1, <1>2, <1>3, <1>4 DEF HomeOf, Groups
<1>6. QueuesOpen' /\ OneCandidate'
  BY <1>1 DEF BondInv, QueuesOpen, OneCandidate
<1>7. LinksKnown'
  BY <1>1, <1>3, <1>4 DEF BondInv, LinksKnown, Groups
<1>8. JoinsCurrent' /\ MembersCurrent' /\ CurrentAlone'
  BY <1>1, <1>2, <1>4 DEF BondInv, JoinsCurrent, MembersCurrent, CurrentAlone
<1>9. OthersComing' /\ AnswersOwned'
  BY <1>1, <1>3, <1>4 DEF BondInv, OthersComing, AnswersOwned, Groups
<1>10. AsksAfterJoin'
  <2> SUFFICES ASSUME established, Current \in Groups, NEW l \in LinkIds, HomeOf(l)' = {},
                      HomeOf(l) # {}
               PROVE  Behind(toServer[l], Current)
    BY <1>1, <1>4 DEF BondInv, AsksAfterJoin
  <2>1. g \in HomeOf(l)
    BY <1>1, <1>3, <1>4 DEF HomeOf, Groups
  <2>2. owner[g] = l
    BY <1>2, <2>1 DEF HomeOf
  <2>3. Joins(toClient[l], g) \/ l \notin up
    BY <1>2, <2>2 DEF BondInv, OthersComing
  <2>4. ~Joins(toClient[l], g)
    BY DEF BondInv, CurrentAlone, Joins, Carries, Names
  <2>5. toServer[l] = <<>>
    BY <2>3, <2>4 DEF BondInv, QueuesOpen
  <2> QED
    BY <2>5, NothingOnTheWay
<1>11. LateNgp'
  BY <1>1, <1>4, <1>5 DEF BondInv, LateNgp
<1>12. ActiveJoined'
  BY <1>1 DEF BondInv, ActiveJoined
<1> QED
  BY <1>6, <1>7, <1>8, <1>9, <1>10, <1>11, <1>12 DEF BondInv

LEMMA RestartKeeps == NetInv /\ BondInv /\ ServerRestarts => BondInv'
<1> SUFFICES ASSUME NetInv, BondInv, ServerRestarts PROVE BondInv'
  OBVIOUS
<1>1. /\ UNCHANGED <<up, nextLinkId, reg, pending, pendingAge, established, groupId>>
      /\ UNCHANGED <<toServer, toClient>>
      /\ \A g \in ServerGroups : owner'[g] = NoLink
      /\ \A l \in LinkIds : member'[l] = NoGroup
  BY DEF ServerRestarts, vars, regVars, groupVars, netVars
<1>2. Groups' = {} /\ Current' = Current /\ restarts' # 0
  BY <1>1 DEF Groups, Current, ServerRestarts, NetInv, NetTypeOK
<1>3. QueuesOpen' /\ OneCandidate'
  BY <1>1 DEF BondInv, QueuesOpen, OneCandidate
<1>4. LinksKnown'
  BY <1>1, <1>2 DEF BondInv, LinksKnown
<1>5. CurrentAlone'
  BY <1>1, <1>2 DEF BondInv, CurrentAlone
<1> QED
  BY <1>1, <1>2, <1>3, <1>4, <1>5
  DEF BondInv, JoinsCurrent, MembersCurrent, OthersComing, AnswersOwned,
      AsksAfterJoin, LateNgp, ActiveJoined

LEMMA BondInvStep == NetInv /\ BondInv /\ [BondNext]_bondVars => BondInv'
<1> SUFFICES ASSUME NetInv, BondInv, [BondNext]_bondVars PROVE BondInv'
  OBVIOUS
<1>1. NetInv'
  BY NetInvStep
<1>2. CASE TimePasses \/ ClientTicks \/ NetworkAvailable \/ ServerRestarts
  BY <1>1, <1>2, TimeKeeps, SendKeeps, RestartKeeps
<1>3. ASSUME NEW l \in up, NetworkLost(l) PROVE BondInv'
  BY <1>3, LostKeeps
<1>4. ASSUME NEW l \in up \cap Good, ClientReceives(l) PROVE BondInv'
  <2> DEFINE m == Head(toClient[l])
  <2>1. CASE Ignored(l, m) /\ UNCHANGED <<vars, toServer>>
    BY <1>4, <2>1, HeardKeeps
  <2>2. ASSUME Handled(l, m), ClientSends(out') PROVE BondInv'
    <3>1. CASE m.type = "REG_NGP" /\ OnRegNgp(l)
      BY <1>1, <1>4, <2>2, <3>1, NgpKeeps
    <3>2. CASE m.type = "REG2" /\ OnReg2(l, m.id)
      BY <1>1, <1>4, <2>2, <3>2, Reg2Keeps
    <3>3. CASE ~(m.type \in {"REG_NGP", "REG2"})
      BY <1>4, <2>2, <3>3, HeardKeeps
    <3> QED
      BY <2>2, <3>1, <3>2, <3>3 DEF Handled
  <2> QED
    BY <1>4, <2>1, <2>2 DEF ClientReceives
<1>5. ASSUME NEW l \in Good, ServerReceives(l) PROVE BondInv'
  BY <1>5, ServerAnswers, CreateKeeps, AnswerKeeps
<1>6. ASSUME NEW l \in Good, ServerDropsMember(l) PROVE BondInv'
  BY <1>6, DropMemberKeeps
<1>7. ASSUME NEW g \in ServerGroups, ServerDropsGroup(g) PROVE BondInv'
  BY <1>7, DropGroupKeeps
<1>8. CASE UNCHANGED bondVars
  <2>1. /\ UNCHANGED <<up, nextLinkId, reg, pending, pendingAge, established, groupId>>
        /\ UNCHANGED <<toServer, toClient, owner, member, restarts>>
    BY <1>8 DEF bondVars, vars, regVars, groupVars, netVars, serverVars
  <2>2. Groups' = Groups /\ Current' = Current /\ \A l : HomeOf(l)' = HomeOf(l)
    BY <2>1 DEF Groups, Current, HomeOf
  <2>3. /\ QueuesOpen' /\ LinksKnown' /\ OneCandidate' /\ JoinsCurrent' /\ MembersCurrent'
        /\ AnswersOwned' /\ CurrentAlone'
    BY <2>1, <2>2 DEF BondInv, QueuesOpen, LinksKnown, OneCandidate, JoinsCurrent,
       MembersCurrent, AnswersOwned, CurrentAlone
  <2>4. OthersComing' /\ ActiveJoined'
    BY <2>1, <2>2 DEF BondInv, OthersComing, ActiveJoined
  <2>5. AsksAfterJoin'
    BY <2>1, <2>2 DEF BondInv, AsksAfterJoin
  <2>6. LateNgp'
    <3>1. up \subseteq LinkIds
      BY LinkTypes
    <3> QED
      BY <2>1, <2>2, <3>1 DEF BondInv, LateNgp
  <2> QED
    BY <2>3, <2>4, <2>5, <2>6 DEF BondInv
<1> QED
  BY <1>2, <1>3, <1>4, <1>5, <1>6, <1>7, <1>8 DEF BondNext

LEMMA BondInvHolds == BondSpec => []BondInv
BY NetTypes, BondInvInit, BondInvStep, PTL DEF BondSpec

-----------------------------------------------------------------------------
(* What the invariant says of the links                                    *)

(* The links are never spread over two groups.                             *)
THEOREM OneGroup == BondSpec => []MembersInGroup
<1>1. BondInv => MembersInGroup
  BY DEF BondInv, MembersCurrent, MembersInGroup, Current
<1> QED
  BY <1>1, BondInvHolds, PTL

(* An active link is a member while the server was not restarted.          *)
THEOREM ActiveMembers == BondSpec => []ActiveIsMember
<1>1. NetInv /\ BondInv => ActiveIsMember
  <2>1. NetInv => up \subseteq LinkIds
    BY LinkTypes
  <2> QED
    BY <2>1 DEF BondInv, MembersCurrent, ActiveJoined, ActiveIsMember, Current
<1> QED
  BY <1>1, NetTypes, BondInvHolds, PTL

(* A REG2 on its way is awaited.                                           *)
THEOREM AwaitedAnswers == BondSpec => []AnswersAreAwaited
<1>1. BondInv => AnswersAreAwaited
  BY DEF BondInv, OneCandidate, Carries, AnswersAreAwaited
<1> QED
  BY <1>1, BondInvHolds, PTL

(* The group taken up is the candidate's own and empty.                    *)
THEOREM AdoptsOwn == BondSpec => AdoptsOwnGroup
<1>1. NetInv /\ BondInv /\ [BondNext]_bondVars
      => [groupId' # groupId => /\ owner[groupId'[2]] \in {pending, NoLink}
                                /\ \A l \in LinkIds : member[l] # groupId'[2]]_bondVars
  <2> SUFFICES ASSUME NetInv, BondInv, BondNext, groupId' # groupId
               PROVE  /\ owner[groupId'[2]] \in {pending, NoLink}
                      /\ \A l \in LinkIds : member[l] # groupId'[2]
    BY DEF bondVars, vars, groupVars
  <2>1. PICK l \in up \cap Good : /\ ClientReceives(l)
                                  /\ Head(toClient[l]).type = "REG2"
                                  /\ OnReg2(l, Head(toClient[l]).id)
    <3>1. CASE \E l \in up \cap Good : ClientReceives(l)
      BY <3>1 DEF ClientReceives, Handled, OnRegNgp, OnReg3, OnOther, Heard, groupVars, vars
    <3>2. UNCHANGED groupId \/ \E l \in up \cap Good : ClientReceives(l)
      BY TickRegisters, LinkUpRegisters
      DEF BondNext, TimePasses, ClientTicks, NetworkAvailable, NetworkLost, ServerReceives,
          ServerDropsMember, ServerDropsGroup, ServerRestarts, Elapse, LinkDown, Registers,
          NetInv, vars, groupVars
    <3> QED
      BY <3>1, <3>2
  <2> DEFINE m == Head(toClient[l])
  <2>2. /\ l \in LinkIds /\ m \in ToClient /\ Taken(toClient[l], toClient'[l], m)
        /\ m.type = "REG2" /\ pending = l /\ groupId' = m.id
    BY <2>1, ClientTakes DEF OnReg2
  <2> HIDE DEF m
  <2>3. PICK g \in ServerGroups : m.id = <<"local", g>>
    BY <2>2 DEF ToClient
  <2>4. groupId'[2] = g /\ Names(m, g) /\ g # NoGroup
    BY <2>2, <2>3 DEF Names, ServerGroups
  <2>5. Joins(toClient[l], g) /\ Carries(toClient[l], "REG2")
    BY <2>2, <2>4 DEF Taken
  <2>6. owner[g] \in {pending, NoLink}
    BY <2>2, <2>5 DEF BondInv, AnswersOwned
  <2>7. \A k \in LinkIds : member[k] # g
    BY <2>2, <2>4, <2>5 DEF BondInv, MembersCurrent, CurrentAlone
  <2> QED
    BY <2>4, <2>6, <2>7
<1> QED
  BY <1>1, NetTypes, BondInvHolds, PTL DEF BondSpec, AdoptsOwnGroup
=============================================================================
