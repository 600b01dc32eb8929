--------------------------- MODULE SrtlaScheduler ---------------------------
(***************************************************************************)
(* The SRTLA scheduler of the bonding feature: one reducer that spreads    *)
(* the SRT packets of the local caller over the uplinks ("links"),         *)
(* registers the links with the bonding server (the REG1/REG2/REG3         *)
(* handshake) and keeps a congestion window and a log of packets in flight *)
(* for every link.  It is driven by one io thread (LinkIoLoop), so every   *)
(* event handler is one atomic step.                                       *)
(*                                                                         *)
(* Time.  The code stores the nanoTime of the last packet received and     *)
(* sent and compares "then + limit < now".  Here every stored time is the  *)
(* AGE of that moment, saturated one past the largest limit it is compared *)
(* with, and Elapse adds one to all ages: the comparisons come out the     *)
(* same and time is unbounded while the state stays finite.  A stored time *)
(* of 0 means "never" and is older than every limit: nanoTime counts from  *)
(* boot, which is more than connTimeout ago.                               *)
(*                                                                         *)
(* Link ids.  LinkIoLoop numbers the links 1, 2, ... and never reuses an   *)
(* id, so the insertion order of the LinkedHashMap is the order of the ids *)
(* and a LinkState object is identified by its id.                         *)
(***************************************************************************)
EXTENDS Integers, FiniteSets

CONSTANTS
  MaxLinkId,    (* Bound: links ever attached to one scheduler.            *)
  Switchable,   (* Links that the owner may disable and enable again.      *)
  WindowMin, WindowDef, WindowMax, WindowMult, WindowIncr, WindowDecr,
  PktLogSize,   (* Slots of the ring of sent sequence numbers per link.    *)
  MaxInFlight,  (* Bound: packets logged on a link between two SRT ACKs.   *)
  SeqMod,       (* Size of the circular sequence number space, 2^31.       *)
  Seqs,         (* Sequence numbers in use.                                *)
  Suffixes,     (* Second halves of group ids; 0 is the local random one.  *)
  ConnTimeout, IdleTime, Reg2Resend

ASSUME BoundsAssumption ==
  /\ MaxLinkId \in Nat
  /\ MaxInFlight \in Nat
  /\ Switchable \subseteq 1..MaxLinkId

ASSUME WindowAssumption ==
  /\ WindowMin \in Nat /\ WindowDef \in Nat /\ WindowMax \in Nat
  /\ WindowMult \in Nat \ {0} /\ WindowIncr \in Nat \ {0} /\ WindowDecr \in Nat
  /\ WindowMin <= WindowDef /\ WindowDef <= WindowMax

ASSUME LogAssumption ==
  /\ PktLogSize \in Nat \ {0}
  /\ SeqMod \in Nat \ {0}
  /\ Seqs \subseteq 0..(SeqMod - 1)

ASSUME TimeAssumption ==
  /\ ConnTimeout \in Nat /\ IdleTime \in Nat /\ Reg2Resend \in Nat

ASSUME SuffixAssumption == Suffixes \subseteq Nat /\ 0 \in Suffixes

VARIABLES
  nextLinkId,   (* LinkIoLoop: id of the next link.                        *)
  up,           (* Ids in the links map.                                   *)
  reg, enabled, (* Per link: registration state, user switch.              *)
  rcvdAge,      (* Per link: age of lastRcvdNanos.                         *)
  sentAge,      (* Per link: age of lastSentNanos.                         *)
  window, inFlight, pktLog, pktIdx,
  pending,      (* pendingReg2: the link whose REG1 waits for a REG2.      *)
  pendingAge,   (* Age of that choice; the deadline is ConnTimeout.        *)
  lastReg1,     (* lastReg1LinkId.                                         *)
  established,  (* groupEstablished.                                       *)
  groupId,
  out           (* Packets the last handler asked the sink to send on links. *)

regVars   == <<pending, pendingAge, lastReg1>>
groupVars == <<established, groupId>>
flowVars  == <<window, inFlight, pktLog, pktIdx>>
vars == <<nextLinkId, up, reg, enabled, rcvdAge, sentAge, flowVars, regVars,
          groupVars, out>>

LinkIds == 1..MaxLinkId
NoLink  == 0
Slots   == 0..(PktLogSize - 1)
Empty   == -1
Never   == -1
SentCap == (IF IdleTime > Reg2Resend THEN IdleTime ELSE Reg2Resend) + 1
RegState == {"NONE", "WAIT_REG2", "WAIT_REG3", "ACTIVE"}

(* A group id is <<first half, second half>>: the sender chooses the first *)
(* half and the server completes the second.                               *)
GroupIds == {"local", "other"} \X Suffixes
FirstHalfMatches(received, expected) == received[1] = expected[1]

(* What the sink is asked to send.                                         *)
Reg1(l, g)   == [to |-> l, type |-> "REG1", id |-> g]
Reg2(l, g)   == [to |-> l, type |-> "REG2", id |-> g]
Keepalive(l) == [to |-> l, type |-> "KEEPALIVE"]
Data(l, seq) == [to |-> l, type |-> "DATA", seq |-> seq]
Packets == [to : LinkIds, type : {"REG1", "REG2"}, id : GroupIds]
           \cup [to : LinkIds, type : {"KEEPALIVE"}]
           \cup [to : LinkIds, type : {"DATA"}, seq : Seqs \cup {Empty}]

-----------------------------------------------------------------------------
(* LinkState                                                               *)

TimedOut(l) == rcvdAge[l] = Never \/ rcvdAge[l] > ConnTimeout

(* The slots a scan visits: it starts behind pktIdx and stops there, so    *)
(* the slot about to be overwritten is never looked at.                    *)
Scanned(l) == Slots \ {pktIdx[l]}
Live(l)    == {i \in Scanned(l) : pktLog[l][i] # Empty}

(* An age one time unit later.                                             *)
Older(age, cap) == IF age < cap THEN age + 1 ELSE age

(* Mutants: a link that is already reset is reset again; the reset keeps   *)
(* the packet log.                                                         *)
LapsedAgain == {l \in up : TimedOut(l)}
LogKeptAtTick(l) == pktLog[l]

(* The links that a tick resets: timed out, and heard from since they were *)
(* last reset.                                                             *)
Lapsed == {l \in up : TimedOut(l) /\ rcvdAge[l] # Never}
LogAtTick(l) == IF l \in Lapsed THEN [i \in Slots |-> Empty] ELSE pktLog[l]

(* Slot i of link l is what a backward scan from pktIdx finds for seq.     *)
Back(l, i) == (pktIdx[l] - i) % PktLogSize
IsNewestCopy(l, i, seq) ==
  /\ i \in Scanned(l) /\ pktLog[l][i] = seq
  /\ \A j \in Scanned(l) : pktLog[l][j] = seq => Back(l, i) <= Back(l, j)

Holds(l, seq) == \E i \in Scanned(l) : pktLog[l][i] = seq

(* The scans go over the links in order and stop at the first that holds   *)
(* the packet.                                                             *)
IsFirstCopy(l, i, seq) ==
  /\ IsNewestCopy(l, i, seq)
  /\ \A k \in up : k < l => ~Holds(k, seq)

SeqAcked(value, ack) == (ack - value) % SeqMod \in 1..((SeqMod \div 2) - 1)

-----------------------------------------------------------------------------
(* Choosing links                                                          *)

(* Mutant: the search always starts at the first link.                     *)
IsFirstInRing(S, last, c) == c \in S /\ \A l \in S : c <= l

(* Round robin: c follows last in the order of S, or is the first of S     *)
(* when last is gone or is the last one.                                   *)
IsNextInRing(S, last, c) ==
  LET after == {l \in S : last \in S /\ l > last}
      pool  == IF after = {} THEN S ELSE after
  IN  c \in pool /\ \A l \in pool : c <= l

(* Mutant: another candidate is chosen while one is waited for.            *)
SelectsAnyway(S, p, c) ==
  IF established \/ S = {} THEN c = NoLink ELSE IsNextInRing(S, lastReg1, c)

(* selectPendingReg2 over the links S with the pending link p makes c the  *)
(* new candidate; c = NoLink when it returns early.                        *)
Selects(S, p, c) ==
  IF established \/ p # NoLink \/ S = {}
  THEN c = NoLink
  ELSE IsNextInRing(S, lastReg1, c)

(* Mutant: lastReg1LinkId is not stored.                                   *)
MakePendingOnly(p, c) ==
  /\ pending'    = IF c = NoLink THEN p ELSE c
  /\ pendingAge' = IF c # NoLink \/ p = NoLink THEN 0 ELSE pendingAge
  /\ UNCHANGED lastReg1

MakePending(p, c) ==
  /\ pending'    = IF c = NoLink THEN p ELSE c
  /\ pendingAge' = IF c # NoLink \/ p = NoLink THEN 0 ELSE pendingAge
  /\ lastReg1'   = IF c = NoLink THEN lastReg1 ELSE c

(* Mutant: a lost link stays the candidate.                                *)
PendingKept(l) == pending

(* The candidate after link l is gone.                                     *)
PendingWithout(l) == IF pending = l THEN NoLink ELSE pending

RegAfter(c)  == [l \in LinkIds |-> IF l = c THEN "WAIT_REG2" ELSE reg[l]]
SentAfter(c) == [l \in LinkIds |-> IF l = c THEN 0 ELSE sentAge[l]]
Reg1After(c) == IF c = NoLink THEN {} ELSE {Reg1(c, groupId)}

(* Mutant: the reset sets the time of the last packet sent to now.         *)
SentNowAtTick(c, l) == IF l \in Lapsed THEN 0 ELSE SentAfter(c)[l]

(* sentAge when a tick with the new candidate c gets to link l.            *)
SentAtTick(c, l) == IF l \in Lapsed THEN SentCap ELSE SentAfter(c)[l]

(* Mutant: a silent link is as good as any.                                *)
EligibleThoughSilent(l) == l \in up /\ enabled[l]

Eligible(l) == l \in up /\ enabled[l] /\ ~TimedOut(l)
Score(l)    == window[l] \div (inFlight[l] + 1)

(* selectConn: the first link of the greatest score above -1.              *)
IsBest(l) ==
  /\ Eligible(l) /\ Score(l) > -1
  /\ \A k \in up : Eligible(k) =>
       Score(k) < Score(l) \/ (Score(k) = Score(l) /\ l <= k)

-----------------------------------------------------------------------------
Init ==
  /\ nextLinkId = 1
  /\ up = {}
  /\ reg = [l \in LinkIds |-> "NONE"]
  /\ enabled = [l \in LinkIds |-> TRUE]
  /\ rcvdAge = [l \in LinkIds |-> Never]
  /\ sentAge = [l \in LinkIds |-> SentCap]
  /\ window = [l \in LinkIds |-> WindowDef * WindowMult]
  /\ inFlight = [l \in LinkIds |-> 0]
  /\ pktLog = [l \in LinkIds |-> [i \in Slots |-> Empty]]
  /\ pktIdx = [l \in LinkIds |-> 0]
  /\ pending = NoLink
  /\ pendingAge = 0
  /\ lastReg1 = NoLink
  /\ established = FALSE
  /\ groupId = <<"local", 0>>
  /\ out = {}

(* The clock.                                                              *)
Elapse ==
  /\ rcvdAge' = [l \in LinkIds |->
       IF rcvdAge[l] = Never THEN Never ELSE Older(rcvdAge[l], ConnTimeout + 1)]
  /\ sentAge' = [l \in LinkIds |-> Older(sentAge[l], SentCap)]
  /\ pendingAge' = IF pending = NoLink THEN 0 ELSE Older(pendingAge, ConnTimeout + 1)
  /\ out' = {}
  /\ UNCHANGED <<nextLinkId, up, reg, enabled, flowVars, pending, lastReg1, groupVars>>

(* A network became available: a new LinkState, which joins the group or   *)
(* may become the candidate that creates it.                               *)
LinkUp ==
  LET l == nextLinkId IN
  /\ l <= MaxLinkId
  /\ nextLinkId' = l + 1
  /\ up' = up \cup {l}
  /\ \/ /\ established
        /\ reg' = [reg EXCEPT ![l] = "WAIT_REG3"]
        /\ sentAge' = [sentAge EXCEPT ![l] = 0]
        /\ out' = {Reg2(l, groupId)}
        /\ UNCHANGED regVars
     \/ /\ ~established
        /\ \E c \in up' \cup {NoLink} :
             /\ Selects(up', pending, c)
             /\ MakePending(pending, c)
             /\ reg' = RegAfter(c)
             /\ sentAge' = SentAfter(c)
             /\ out' = Reg1After(c)
  /\ UNCHANGED <<enabled, rcvdAge, flowVars, groupVars>>

(* A network was lost.  The LinkState is garbage; its fields go back to    *)
(* what a new LinkState starts from.                                       *)
LinkDown(l) ==
  /\ l \in up
  /\ up' = up \ {l}
  /\ pending' = PendingWithout(l)
  /\ pendingAge' = IF pending = l THEN 0 ELSE pendingAge
  /\ reg' = [reg EXCEPT ![l] = "NONE"]
  /\ enabled' = [enabled EXCEPT ![l] = TRUE]
  /\ rcvdAge' = [rcvdAge EXCEPT ![l] = Never]
  /\ sentAge' = [sentAge EXCEPT ![l] = SentCap]
  /\ window' = [window EXCEPT ![l] = WindowDef * WindowMult]
  /\ inFlight' = [inFlight EXCEPT ![l] = 0]
  /\ pktLog' = [pktLog EXCEPT ![l] = [i \in Slots |-> Empty]]
  /\ pktIdx' = [pktIdx EXCEPT ![l] = 0]
  /\ out' = {}
  /\ UNCHANGED <<nextLinkId, lastReg1, groupVars>>

(* The owner switches a link off or on.                                    *)
SetLinkEnabled(l, on) ==
  /\ l \in up
  /\ enabled' = [enabled EXCEPT ![l] = on]
  /\ out' = {}
  /\ UNCHANGED <<nextLinkId, up, reg, rcvdAge, sentAge, flowVars, regVars, groupVars>>

(* A packet of the local SRT caller: seq, or Empty for a control packet.   *)
(* It is logged only when the socket took it (ok).  With no eligible link  *)
(* it is dropped and nothing changes.                                      *)
LogPacket(l, seq) ==
  /\ inFlight[l] < MaxInFlight
  /\ pktLog' = [pktLog EXCEPT ![l][pktIdx[l]] = seq]
  /\ pktIdx' = [pktIdx EXCEPT ![l] = IF @ + 1 >= PktLogSize THEN 0 ELSE @ + 1]
  /\ inFlight' = [inFlight EXCEPT ![l] = @ + 1]

OnLocalSrtPacket(seq, ok) ==
  \E l \in up :
    /\ IsBest(l)
    /\ sentAge' = [sentAge EXCEPT ![l] = 0]
    /\ IF ok /\ seq # Empty
       THEN LogPacket(l, seq)
       ELSE UNCHANGED <<pktLog, pktIdx, inFlight>>
    /\ out' = IF ok THEN {Data(l, seq)} ELSE {}
    /\ UNCHANGED <<nextLinkId, up, reg, enabled, rcvdAge, window, regVars, groupVars>>

-----------------------------------------------------------------------------
(* Packets of the server.  A packet for a link that is gone is ignored.    *)

(* REG_NGP: the server does not know the group.  The link that brought the *)
(* news registers the group again, if every link has timed out and no      *)
(* registration is under way.                                              *)
OnRegNgp(l) ==
  /\ l \in up
  /\ \A k \in up : TimedOut(k)
  /\ pending = NoLink
  /\ MakePending(NoLink, l)
  /\ reg' = RegAfter(l)
  /\ sentAge' = SentAfter(l)
  /\ out' = Reg1After(l)
  /\ UNCHANGED <<nextLinkId, up, enabled, rcvdAge, flowVars, groupVars>>

(* Mutant: only the link that created the group joins it.                  *)
CandidateJoins == {pending}

(* The links that join a group when it was created.                        *)
Joiners == up

(* REG2 on the pending link: the group exists, every link joins it.        *)
OnReg2(l, received) ==
  /\ l \in up
  /\ pending = l
  /\ FirstHalfMatches(received, groupId)
  /\ groupId' = received
  /\ established' = TRUE
  /\ pending' = NoLink
  /\ pendingAge' = 0
  /\ reg' = [k \in LinkIds |-> IF k \in Joiners THEN "WAIT_REG3" ELSE reg[k]]
  /\ sentAge' = [k \in LinkIds |-> IF k \in Joiners THEN 0 ELSE sentAge[k]]
  /\ out' = {Reg2(k, received) : k \in Joiners}
  /\ UNCHANGED <<nextLinkId, up, enabled, rcvdAge, flowVars, lastReg1>>

(* Every other packet proves that the link is alive.                       *)
Heard(l) ==
  /\ l \in up
  /\ rcvdAge' = [rcvdAge EXCEPT ![l] = 0]
  /\ out' = {}
  /\ UNCHANGED <<nextLinkId, up, enabled, sentAge, regVars, groupVars>>

OnReg3(l) ==
  /\ Heard(l)
  /\ reg' = [reg EXCEPT ![l] = "ACTIVE"]
  /\ UNCHANGED flowVars

(* KEEPALIVE, the refusals REG_ERR and REG_NAK, REG1 and the SRT packets   *)
(* that only go to the local caller.                                       *)
OnOther(l) == Heard(l) /\ UNCHANGED <<reg, flowVars>>

(* SRT ACK, cumulative over all links: drops what it covers and counts     *)
(* anew what is left.  (One too short to carry a number is an OnOther.)    *)
OnSrtAck(l, ack) ==
  /\ Heard(l)
  /\ pktLog' = [k \in LinkIds |-> [i \in Slots |->
       IF k \in up /\ i \in Scanned(k) /\ SeqAcked(pktLog[k][i], ack)
       THEN Empty ELSE pktLog[k][i]]]
  /\ inFlight' = [k \in LinkIds |->
       IF k \in up
       THEN Cardinality({i \in Live(k) : ~SeqAcked(pktLog[k][i], ack)})
       ELSE inFlight[k]]
  /\ UNCHANGED <<reg, window, pktIdx>>

(* Mutant: a NAK shrinks the window without a floor.                       *)
ShrunkFreely(w) == w - WindowDecr

(* The window w after a packet of it was lost.                             *)
Shrunk(w) == IF w - WindowDecr > WindowMin * WindowMult
             THEN w - WindowDecr ELSE WindowMin * WindowMult

(* SRT NAK of one packet: the window of the link that carried it shrinks.  *)
(* A NAK of several packets is that many of these at one instant.          *)
OnSrtNak(l, seq) ==
  /\ Heard(l)
  /\ \/ \E k \in up, i \in Slots :
          /\ IsFirstCopy(k, i, seq)
          /\ pktLog' = [pktLog EXCEPT ![k][i] = Empty]
          /\ window' = [window EXCEPT ![k] = Shrunk(@)]
     \/ /\ \A k \in up : ~Holds(k, seq)
        /\ UNCHANGED <<pktLog, window>>
  /\ UNCHANGED <<reg, inFlight, pktIdx>>

(* Mutant: growth is not capped.                                           *)
Uncapped(w) == w

Capped(w) == IF w < WindowMax * WindowMult THEN w ELSE WindowMax * WindowMult

(* The window of link l after an ACK left it n packets in flight.          *)
Opened(l, n) == IF n * WindowMult > window[l] THEN window[l] + WindowIncr - 1
                                              ELSE window[l]

(* SRTLA ACK of one packet: frees its slot, may open the window of the     *)
(* link that carried it, and nudges the window of every link heard from.   *)
OnSrtlaAck(l, seq) ==
  /\ Heard(l)
  /\ \/ \E k \in up, i \in Slots :
          /\ IsFirstCopy(k, i, seq)
          /\ pktLog' = [pktLog EXCEPT ![k][i] = Empty]
          /\ inFlight' = [inFlight EXCEPT ![k] = IF @ > 0 THEN @ - 1 ELSE @]
          /\ window' = [m \in LinkIds |->
               LET w == IF m = k THEN Opened(k, inFlight'[k]) ELSE window[m]
               IN  IF m \in up /\ rcvdAge'[m] # Never THEN Capped(w + 1) ELSE w]
     \/ /\ \A k \in up : ~Holds(k, seq)
        /\ window' = [m \in LinkIds |->
             IF m \in up /\ rcvdAge'[m] # Never THEN Capped(window[m] + 1) ELSE window[m]]
        /\ UNCHANGED <<pktLog, inFlight>>
  /\ UNCHANGED <<reg, pktIdx>>

-----------------------------------------------------------------------------
(* The periodic tick: gives up an expired candidate and picks the next,    *)
(* then goes over the links.  A link that timed out is reset; while the    *)
(* group exists it asks to join again, at most once per Reg2Resend.  An    *)
(* idle live link sends a keepalive.                                       *)
Tick ==
  LET p == IF pendingAge > ConnTimeout THEN NoLink ELSE pending IN
  \E c \in up \cup {NoLink} :
    /\ Selects(up, p, c)
    /\ MakePending(p, c)
    /\ LET rejoin == {l \in up : TimedOut(l) /\ established /\ SentAtTick(c, l) > Reg2Resend}
           idle   == {l \in up : ~TimedOut(l) /\ SentAtTick(c, l) > IdleTime}
       IN  /\ reg' = [l \in LinkIds |->
                IF l \in rejoin THEN "WAIT_REG3" ELSE RegAfter(c)[l]]
           /\ sentAge' = [l \in LinkIds |-> IF l \in rejoin \cup idle THEN 0 ELSE SentAtTick(c, l)]
           /\ out' = Reg1After(c) \cup {Reg2(l, groupId) : l \in rejoin}
                                  \cup {Keepalive(l) : l \in idle}
    /\ rcvdAge' = [l \in LinkIds |-> IF l \in Lapsed THEN Never ELSE rcvdAge[l]]
    /\ window' = [l \in LinkIds |-> IF l \in Lapsed THEN WindowMin * WindowMult ELSE window[l]]
    /\ inFlight' = [l \in LinkIds |-> IF l \in Lapsed THEN 0 ELSE inFlight[l]]
    /\ pktLog' = [l \in LinkIds |-> LogAtTick(l)]
    /\ pktIdx' = [l \in LinkIds |-> IF l \in Lapsed THEN 0 ELSE pktIdx[l]]
    /\ UNCHANGED <<nextLinkId, up, enabled, groupVars>>

-----------------------------------------------------------------------------
LinkPacket(l) ==
  \/ OnRegNgp(l)
  \/ \E g \in GroupIds : OnReg2(l, g)
  \/ OnReg3(l)
  \/ OnOther(l)
  \/ \E s \in Seqs : OnSrtAck(l, s)
  \/ \E s \in Seqs : OnSrtNak(l, s)
  \/ \E s \in Seqs : OnSrtlaAck(l, s)

Next ==
  \/ Elapse
  \/ LinkUp
  \/ \E l \in up : LinkDown(l)
  \/ \E l \in up \cap Switchable, on \in BOOLEAN : SetLinkEnabled(l, on)
  \/ \E s \in Seqs \cup {Empty}, ok \in BOOLEAN : OnLocalSrtPacket(s, ok)
  \/ \E l \in up : LinkPacket(l)
  \/ Tick

Spec == Init /\ [][Next]_vars

(* The io thread wakes from select at least every 200 ms and ticks, and    *)
(* the clock never stops.                                                  *)
FairSpec == Spec /\ WF_vars(Tick) /\ WF_vars(Elapse)

-----------------------------------------------------------------------------
(* The variables keep their types, and a link that is not attached is as   *)
(* good as new.                                                            *)
TypeOK ==
  /\ nextLinkId \in 1..(MaxLinkId + 1)
  /\ up \in SUBSET LinkIds
  /\ reg \in [LinkIds -> RegState]
  /\ enabled \in [LinkIds -> BOOLEAN]
  /\ rcvdAge \in [LinkIds -> {Never} \cup 0..(ConnTimeout + 1)]
  /\ sentAge \in [LinkIds -> 0..SentCap]
  /\ window \in [LinkIds -> Int]
  /\ inFlight \in [LinkIds -> Nat]
  /\ pktLog \in [LinkIds -> [Slots -> Seqs \cup {Empty}]]
  /\ pktIdx \in [LinkIds -> Slots]
  /\ pending \in LinkIds \cup {NoLink}
  /\ pendingAge \in 0..(ConnTimeout + 1)
  /\ lastReg1 \in LinkIds \cup {NoLink}
  /\ established \in BOOLEAN
  /\ groupId \in GroupIds
  /\ out \in SUBSET Packets

(* Registration never waits for a link that was detached: a dangling       *)
(* candidate would block the round robin until its deadline.               *)
PendingIsLinked == pending # NoLink => pending \in up

(* In an established group a link shown as ACTIVE was heard from since it  *)
(* was last reset: the reset of a dead link and the change of its state    *)
(* back to WAIT_REG3 never come apart, although the resend is throttled.   *)
ActiveWasHeard ==
  established => \A l \in up : reg[l] = "ACTIVE" => rcvdAge[l] # Never

(* A link never heard from (or reset) owns no packets: nothing was sent on *)
(* it since, so an acknowledgement can not open its window.                *)
SilentLinkOwnsNothing ==
  \A l \in LinkIds : rcvdAge[l] = Never =>
    inFlight[l] = 0 /\ \A i \in Slots : pktLog[l][i] = Empty

(* The window of every link stays within [min, max] x mult although growth *)
(* is only capped on links heard from.                                     *)
WindowBounded ==
  \A l \in LinkIds : window[l] \in WindowMin * WindowMult .. WindowMax * WindowMult

(* The packets a scan can find on a link are never more than inFlight      *)
(* says, so an SRTLA ACK that frees a slot always has one to take off.     *)
LiveWithinInFlight == \A l \in LinkIds : Cardinality(Live(l)) <= inFlight[l]

(* While some enabled link was heard from within ConnTimeout, a local      *)
(* packet finds a link: no sequence of NAKs and losses drives every score  *)
(* to where selectConn gives up.                                           *)
LiveLinkIsChosen == (\E l \in up : Eligible(l)) => \E l \in up : IsBest(l)

(* With no time passing, a tick repeats a REG2 only to a link that fell    *)
(* silent and is reset in that very tick: a reset link stays timed out, so *)
(* without the throttle every tick would send one.                         *)
Asked(l, packets) == \E p \in packets : p.to = l /\ p.type = "REG2"
NoReg2Storm ==
  [][\A l \in up : Asked(l, out) /\ Asked(l, out') /\ Tick => rcvdAge[l] # Never]_vars

(* A dead link does not monopolise registration: while there is no group,  *)
(* every attached link gets its turn to create it, again and again.        *)
RegistrationRotates ==
  \A l \in LinkIds : []<>(l \notin up \/ established \/ pending = l)

(* The links of S that the round robin asks before l, when last was asked  *)
(* last.                                                                   *)
Before(S, last, l) ==
  {k \in S : IF last \in S /\ last < l THEN last < k /\ k < l
             ELSE k < l \/ (last \in S /\ last < k)}

(* Every choice of another candidate brings each link that waits for its   *)
(* turn exactly one turn nearer in the round as it stands then, whatever   *)
(* candidates expired and links came in between.  Two things begin the     *)
(* round elsewhere: a candidate that was detached (the round starts at the *)
(* first link again, and a link after it waits anew), and a REG_NGP, which *)
(* picks the link that brought it.                                         *)
TurnsComeCloser ==
  [][\A l \in up' :
       /\ pending' \notin {pending, NoLink, l}
       /\ ~\E k \in up : OnRegNgp(k)
       => /\ pending' \in Before(up', lastReg1, l)
          /\ Before(up', lastReg1', l) = Before(up', lastReg1, l) \ {pending'}]_vars

=============================================================================
