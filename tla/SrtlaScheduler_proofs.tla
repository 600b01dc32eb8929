----------------------- MODULE SrtlaScheduler_proofs -----------------------
(***************************************************************************)
(* What holds of the scheduler for every number of links, every log size,  *)
(* every window and every timeout.                                         *)
(***************************************************************************)
EXTENDS SrtlaScheduler, FiniteSetTheorems, WellFoundedInduction, TLAPS

(* Slots of a log are finitely many.                                       *)
LEMMA SlotsCounted ==
  ASSUME NEW S \in SUBSET Slots
  PROVE  IsFiniteSet(S) /\ Cardinality(S) \in Nat
<1>1. IsFiniteSet(Slots)
  BY FS_Interval, LogAssumption DEF Slots
<1> QED
  BY <1>1, FS_Subset, FS_CardinalityType

(* Whoever is made the candidate, and however long the last candidate has  *)
(* waited, the registration state and what it sends keep their types.      *)
LEMMA CandidateTypes ==
  ASSUME TypeOK, NEW p \in LinkIds \cup {NoLink}, NEW c \in LinkIds \cup {NoLink},
         MakePending(p, c)
  PROVE  /\ pending' \in LinkIds \cup {NoLink}
         /\ pendingAge' \in 0..(ConnTimeout + 1)
         /\ lastReg1' \in LinkIds \cup {NoLink}
         /\ RegAfter(c) \in [LinkIds -> RegState]
         /\ SentAfter(c) \in [LinkIds -> 0..SentCap]
         /\ Reg1After(c) \in SUBSET Packets
<1>1. /\ pending' \in LinkIds \cup {NoLink}
      /\ lastReg1' \in LinkIds \cup {NoLink}
  BY DEF MakePending, TypeOK
<1>2. pendingAge' \in 0..(ConnTimeout + 1)
  BY TimeAssumption DEF MakePending, TypeOK
<1>3. RegAfter(c) \in [LinkIds -> RegState]
  BY DEF RegAfter, RegState, TypeOK
<1>4. SentAfter(c) \in [LinkIds -> 0..SentCap]
  BY TimeAssumption DEF SentAfter, SentCap, TypeOK
<1>5. Reg1After(c) \in SUBSET Packets
  BY DEF Reg1After, Reg1, Packets, TypeOK, NoLink
<1> QED
  BY <1>1, <1>2, <1>3, <1>4, <1>5

LEMMA SentCapType == SentCap \in Nat /\ SentCap > 0
  BY TimeAssumption DEF SentCap

LEMMA TypeInit == Init => TypeOK
<1> SUFFICES ASSUME Init PROVE TypeOK
  OBVIOUS
<1>1. 0..0 \subseteq Slots /\ 0 \in Slots
  BY LogAssumption DEF Slots
<1>2. groupId \in GroupIds
  BY SuffixAssumption DEF Init, GroupIds
<1>3. window \in [LinkIds -> Int]
  BY WindowAssumption DEF Init
<1>4. sentAge \in [LinkIds -> 0..SentCap] /\ rcvdAge \in [LinkIds -> {Never} \cup 0..(ConnTimeout + 1)]
  BY SentCapType, TimeAssumption DEF Init, Never
<1>5. pendingAge \in 0..(ConnTimeout + 1) /\ nextLinkId \in 1..(MaxLinkId + 1)
  BY TimeAssumption, BoundsAssumption DEF Init
<1> QED
  BY <1>1, <1>2, <1>3, <1>4, <1>5 DEF Init, TypeOK, RegState, Empty, NoLink

(* One step per action; the ages and the windows take most of the work.    *)
LEMMA TypeStep == TypeOK /\ [Next]_vars => TypeOK'
<1> SUFFICES ASSUME TypeOK, [Next]_vars PROVE TypeOK'
  OBVIOUS
<1>1. CASE Elapse
  <2>1. sentAge' \in [LinkIds -> 0..SentCap]
    BY <1>1, SentCapType DEF Elapse, Older, TypeOK
  <2>2. rcvdAge' \in [LinkIds -> {Never} \cup 0..(ConnTimeout + 1)]
    BY <1>1, TimeAssumption DEF Elapse, Older, TypeOK, Never
  <2>3. pendingAge' \in 0..(ConnTimeout + 1)
    BY <1>1, TimeAssumption DEF Elapse, Older, TypeOK
  <2> QED
    BY <1>1, <2>1, <2>2, <2>3 DEF Elapse, TypeOK, flowVars, groupVars
<1>2. CASE LinkUp
  <2>1. nextLinkId \in LinkIds /\ nextLinkId' \in 1..(MaxLinkId + 1)
    BY <1>2, BoundsAssumption DEF LinkUp, TypeOK, LinkIds
  <2>2. up' \in SUBSET LinkIds
    BY <1>2, <2>1 DEF LinkUp, TypeOK
  <2>3. CASE established
    <3>1. reg' \in [LinkIds -> RegState]
      BY <1>2, <2>3 DEF LinkUp, TypeOK, RegState
    <3>2. sentAge' \in [LinkIds -> 0..SentCap]
      BY <1>2, <2>3, SentCapType DEF LinkUp, TypeOK
    <3>3. out' \in SUBSET Packets
      BY <1>2, <2>1, <2>3 DEF LinkUp, TypeOK, Reg2, Packets
    <3> QED
      BY <1>2, <2>1, <2>2, <2>3, <3>1, <3>2, <3>3
      DEF LinkUp, TypeOK, flowVars, groupVars, regVars
  <2>4. CASE ~established
    <3>1. PICK c \in up' \cup {NoLink} :
            /\ MakePending(pending, c)
            /\ reg' = RegAfter(c) /\ sentAge' = SentAfter(c) /\ out' = Reg1After(c)
      BY <1>2, <2>4 DEF LinkUp
    <3>2. c \in LinkIds \cup {NoLink} /\ pending \in LinkIds \cup {NoLink}
      BY <2>2 DEF TypeOK
    <3> QED
      BY <1>2, <2>1, <2>2, <3>1, <3>2, CandidateTypes
      DEF LinkUp, TypeOK, flowVars, groupVars
  <2> QED
    BY <2>3, <2>4
<1>3. CASE \E l \in up : LinkDown(l)
  <2>1. PICK l \in up : LinkDown(l)
    BY <1>3
  <2>2. l \in LinkIds
    BY DEF TypeOK
  <2>3. pendingAge' \in 0..(ConnTimeout + 1) /\ pending' \in LinkIds \cup {NoLink}
    BY <2>1, TimeAssumption DEF LinkDown, PendingWithout, TypeOK
  <2>4. window' \in [LinkIds -> Int]
    BY <2>1, WindowAssumption DEF LinkDown, TypeOK
  <2>5. /\ rcvdAge' \in [LinkIds -> {Never} \cup 0..(ConnTimeout + 1)]
        /\ sentAge' \in [LinkIds -> 0..SentCap]
    BY <2>1, SentCapType DEF LinkDown, TypeOK
  <2>6. /\ pktLog' \in [LinkIds -> [Slots -> Seqs \cup {Empty}]]
        /\ pktIdx' \in [LinkIds -> Slots]
        /\ inFlight' \in [LinkIds -> Nat]
    BY <2>1, LogAssumption DEF LinkDown, TypeOK, Slots
  <2> QED
    BY <2>1, <2>2, <2>3, <2>4, <2>5, <2>6 DEF LinkDown, TypeOK, RegState, groupVars
<1>4. CASE \E l \in up \cap Switchable, on \in BOOLEAN : SetLinkEnabled(l, on)
  BY <1>4 DEF SetLinkEnabled, TypeOK, flowVars, regVars, groupVars
<1>5. CASE \E s \in Seqs \cup {Empty}, ok \in BOOLEAN : OnLocalSrtPacket(s, ok)
  <2>1. PICK s \in Seqs \cup {Empty}, ok \in BOOLEAN : OnLocalSrtPacket(s, ok)
    BY <1>5
  <2>2. PICK l \in up :
          /\ sentAge' = [sentAge EXCEPT ![l] = 0]
          /\ IF ok /\ s # Empty THEN LogPacket(l, s)
                                ELSE UNCHANGED <<pktLog, pktIdx, inFlight>>
          /\ out' = IF ok THEN {Data(l, s)} ELSE {}
          /\ UNCHANGED <<nextLinkId, up, reg, enabled, rcvdAge, window, regVars, groupVars>>
    BY <2>1 DEF OnLocalSrtPacket
  <2>3. l \in LinkIds
    BY DEF TypeOK
  <2>4. sentAge' \in [LinkIds -> 0..SentCap]
    BY <2>2, SentCapType DEF TypeOK
  <2>5. out' \in SUBSET Packets
    BY <2>2, <2>3 DEF Data, Packets
  <2>6. /\ pktLog' \in [LinkIds -> [Slots -> Seqs \cup {Empty}]]
        /\ pktIdx' \in [LinkIds -> Slots]
        /\ inFlight' \in [LinkIds -> Nat]
    <3>1. CASE ok /\ s # Empty
      <4>1. pktIdx[l] \in Slots /\ inFlight[l] \in Nat
        BY <2>3 DEF TypeOK
      <4>2. pktLog' \in [LinkIds -> [Slots -> Seqs \cup {Empty}]]
        <5>1. pktLog' = [pktLog EXCEPT ![l][pktIdx[l]] = s]
          BY <2>2, <3>1 DEF LogPacket
        <5>2. pktLog \in [LinkIds -> [Slots -> Seqs \cup {Empty}]]
          BY DEF TypeOK
        <5>3. [pktLog[l] EXCEPT ![pktIdx[l]] = s] \in [Slots -> Seqs \cup {Empty}]
          BY <2>3, <4>1, <5>2
        <5> QED
          BY <2>3, <5>1, <5>2, <5>3
      <4>3. pktIdx' \in [LinkIds -> Slots]
        <5>1. pktIdx' = [pktIdx EXCEPT ![l] = IF @ + 1 >= PktLogSize THEN 0 ELSE @ + 1]
          BY <2>2, <3>1 DEF LogPacket
        <5>2. pktIdx \in [LinkIds -> Slots]
          BY DEF TypeOK
        <5>3. (IF pktIdx[l] + 1 >= PktLogSize THEN 0 ELSE pktIdx[l] + 1) \in Slots
          BY <4>1, LogAssumption DEF Slots
        <5> QED
          BY <5>1, <5>2, <5>3
      <4>4. inFlight' \in [LinkIds -> Nat]
        BY <2>2, <2>3, <3>1, <4>1 DEF LogPacket, TypeOK
      <4> QED
        BY <4>2, <4>3, <4>4
    <3>2. CASE ~(ok /\ s # Empty)
      BY <2>2, <3>2 DEF TypeOK
    <3> QED
      BY <3>1, <3>2
  <2> QED
    BY <2>2, <2>4, <2>5, <2>6 DEF TypeOK, regVars, groupVars
<1>6. CASE \E l \in up : LinkPacket(l)
  <2>1. PICK l \in up : LinkPacket(l)
    BY <1>6
  <2>2. l \in LinkIds
    BY DEF TypeOK
  <2>3. CASE OnRegNgp(l)
    <3>1. MakePending(NoLink, l) /\ NoLink \in LinkIds \cup {NoLink}
      BY <2>3 DEF OnRegNgp
    <3> QED
      BY <2>2, <2>3, <3>1, CandidateTypes DEF OnRegNgp, TypeOK, flowVars, groupVars
  <2>4. CASE \E g \in GroupIds : OnReg2(l, g)
    <3>1. PICK g \in GroupIds : OnReg2(l, g)
      BY <2>4
    <3>2. reg' \in [LinkIds -> RegState] /\ sentAge' \in [LinkIds -> 0..SentCap]
      BY <3>1, SentCapType DEF OnReg2, Joiners, TypeOK, RegState
    <3>3. out' \in SUBSET Packets
      BY <3>1 DEF OnReg2, Joiners, TypeOK, Packets, Reg2
    <3>4. pendingAge' \in 0..(ConnTimeout + 1)
      BY <3>1, TimeAssumption DEF OnReg2, Joiners
    <3> QED
      BY <3>1, <3>2, <3>3, <3>4 DEF OnReg2, TypeOK, flowVars, NoLink
  <2>5. ASSUME Heard(l)
        PROVE  /\ rcvdAge' \in [LinkIds -> {Never} \cup 0..(ConnTimeout + 1)]
               /\ out' \in SUBSET Packets
               /\ UNCHANGED <<nextLinkId, up, enabled, sentAge, regVars, groupVars>>
    BY <2>5, <2>2, TimeAssumption DEF Heard, TypeOK
  <2>6. CASE OnReg3(l)
    BY <2>5, <2>6 DEF OnReg3, TypeOK, RegState, flowVars, regVars, groupVars
  <2>7. CASE OnOther(l)
    BY <2>5, <2>7 DEF OnOther, TypeOK, flowVars, regVars, groupVars
  <2>8. CASE \E s \in Seqs : OnSrtAck(l, s)
    <3>1. PICK s \in Seqs : OnSrtAck(l, s)
      BY <2>8
    <3>2. pktLog' \in [LinkIds -> [Slots -> Seqs \cup {Empty}]]
      BY <3>1 DEF OnSrtAck, TypeOK
    <3>3. \A k \in LinkIds : Cardinality({i \in Live(k) : ~SeqAcked(pktLog[k][i], s)}) \in Nat
      BY SlotsCounted DEF Live, Scanned
    <3>4. inFlight' \in [LinkIds -> Nat]
      BY <3>1, <3>3 DEF OnSrtAck, TypeOK
    <3> QED
      BY <3>1, <3>2, <3>4, <2>5 DEF OnSrtAck, TypeOK, regVars, groupVars
  <2>9. CASE \E s \in Seqs : OnSrtNak(l, s)
    <3>1. PICK s \in Seqs : OnSrtNak(l, s)
      BY <2>9
    <3>2. pktLog' \in [LinkIds -> [Slots -> Seqs \cup {Empty}]]
      <4>1. CASE UNCHANGED <<pktLog, window>>
        BY <4>1 DEF TypeOK
      <4>2. CASE \E k \in up, i \in Slots : pktLog' = [pktLog EXCEPT ![k][i] = Empty]
        BY <4>2 DEF TypeOK
      <4> QED
        BY <3>1, <4>1, <4>2 DEF OnSrtNak
    <3>3. window' \in [LinkIds -> Int]
      BY <3>1, WindowAssumption DEF OnSrtNak, Shrunk, TypeOK
    <3> QED
      BY <3>1, <3>2, <3>3, <2>5 DEF OnSrtNak, TypeOK, regVars, groupVars
  <2>10. CASE \E s \in Seqs : OnSrtlaAck(l, s)
    <3>1. PICK s \in Seqs : OnSrtlaAck(l, s)
      BY <2>10
    <3>2. \A w \in Int : Capped(w) \in Int
      BY WindowAssumption DEF Capped
    <3>3. CASE /\ window' = [m \in LinkIds |->
                    IF m \in up /\ rcvdAge'[m] # Never THEN Capped(window[m] + 1)
                                                      ELSE window[m]]
               /\ UNCHANGED <<pktLog, inFlight>>
      <4>1. window' \in [LinkIds -> Int]
        BY <3>2, <3>3 DEF TypeOK
      <4> QED
        BY <3>1, <3>3, <4>1, <2>5 DEF OnSrtlaAck, TypeOK, regVars, groupVars
    <3>4. CASE \E k \in up, i \in Slots :
                 /\ pktLog' = [pktLog EXCEPT ![k][i] = Empty]
                 /\ inFlight' = [inFlight EXCEPT ![k] = IF @ > 0 THEN @ - 1 ELSE @]
                 /\ window' = [m \in LinkIds |->
                      LET w == IF m = k THEN Opened(k, inFlight'[k]) ELSE window[m]
                      IN  IF m \in up /\ rcvdAge'[m] # Never THEN Capped(w + 1) ELSE w]
      <4>1. PICK k \in up, i \in Slots :
              /\ pktLog' = [pktLog EXCEPT ![k][i] = Empty]
              /\ inFlight' = [inFlight EXCEPT ![k] = IF @ > 0 THEN @ - 1 ELSE @]
              /\ window' = [m \in LinkIds |->
                   LET w == IF m = k THEN Opened(k, inFlight'[k]) ELSE window[m]
                   IN  IF m \in up /\ rcvdAge'[m] # Never THEN Capped(w + 1) ELSE w]
        BY <3>4
      <4>2. pktLog' \in [LinkIds -> [Slots -> Seqs \cup {Empty}]]
        BY <4>1 DEF TypeOK
      <4>3. inFlight' \in [LinkIds -> Nat]
        BY <4>1 DEF TypeOK
      <4>4. Opened(k, inFlight'[k]) \in Int
        BY WindowAssumption DEF Opened, TypeOK
      <4>5. window' \in [LinkIds -> Int]
        BY <3>2, <4>1, <4>4 DEF TypeOK
      <4> QED
        BY <3>1, <4>2, <4>3, <4>5, <2>5 DEF OnSrtlaAck, TypeOK, regVars, groupVars
    <3> QED
      BY <3>1, <3>3, <3>4 DEF OnSrtlaAck
  <2> QED
    BY <2>1, <2>3, <2>4, <2>6, <2>7, <2>8, <2>9, <2>10 DEF LinkPacket
<1>7. CASE Tick
  <2> DEFINE p == IF pendingAge > ConnTimeout THEN NoLink ELSE pending
  <2>1. PICK c \in up \cup {NoLink} :
          /\ MakePending(p, c)
          /\ LET rejoin == {l \in up : TimedOut(l) /\ established /\ SentAtTick(c, l) > Reg2Resend}
                 idle   == {l \in up : ~TimedOut(l) /\ SentAtTick(c, l) > IdleTime}
             IN  /\ reg' = [l \in LinkIds |->
                      IF l \in rejoin THEN "WAIT_REG3" ELSE RegAfter(c)[l]]
                 /\ sentAge' = [l \in LinkIds |->
                      IF l \in rejoin \cup idle THEN 0 ELSE SentAtTick(c, l)]
                 /\ out' = Reg1After(c) \cup {Reg2(l, groupId) : l \in rejoin}
                                        \cup {Keepalive(l) : l \in idle}
    BY <1>7 DEF Tick
  <2>2. c \in LinkIds \cup {NoLink} /\ p \in LinkIds \cup {NoLink}
    BY DEF TypeOK
  <2>3. /\ pending' \in LinkIds \cup {NoLink}
        /\ pendingAge' \in 0..(ConnTimeout + 1)
        /\ lastReg1' \in LinkIds \cup {NoLink}
        /\ RegAfter(c) \in [LinkIds -> RegState]
        /\ SentAfter(c) \in [LinkIds -> 0..SentCap]
        /\ Reg1After(c) \in SUBSET Packets
    BY <2>1, <2>2, CandidateTypes
  <2>4. reg' \in [LinkIds -> RegState]
    BY <2>1, <2>3 DEF RegState
  <2>5. sentAge' \in [LinkIds -> 0..SentCap]
    BY <2>1, <2>3, SentCapType DEF SentAtTick
  <2>6. out' \in SUBSET Packets
    BY <2>1, <2>3 DEF Packets, Reg2, Keepalive, TypeOK
  <2>7. rcvdAge' \in [LinkIds -> {Never} \cup 0..(ConnTimeout + 1)]
    BY <1>7 DEF Tick, TypeOK
  <2>8. window' \in [LinkIds -> Int] /\ inFlight' \in [LinkIds -> Nat]
    BY <1>7, WindowAssumption DEF Tick, TypeOK
  <2>9. /\ pktLog' \in [LinkIds -> [Slots -> Seqs \cup {Empty}]]
        /\ pktIdx' \in [LinkIds -> Slots]
    BY <1>7, LogAssumption DEF Tick, LogAtTick, TypeOK, Slots
  <2> QED
    BY <1>7, <2>3, <2>4, <2>5, <2>6, <2>7, <2>8, <2>9 DEF Tick, TypeOK, groupVars
<1>8. CASE UNCHANGED vars
  BY <1>8 DEF vars, TypeOK, flowVars, regVars, groupVars
<1> QED
  BY <1>1, <1>2, <1>3, <1>4, <1>5, <1>6, <1>7, <1>8 DEF Next

(* The variables keep their types in every reachable state.                *)
THEOREM TypeCorrect == Spec => []TypeOK
<1> QED
  BY TypeInit, TypeStep, PTL DEF Spec

-----------------------------------------------------------------------------
(* Registration never waits for a link that was detached: only attached    *)
(* links are made the candidate, and onLinkDown takes the candidate off.   *)
THEOREM PendingLinked == Spec => []PendingIsLinked
<1>1. Init => PendingIsLinked
  BY DEF Init, PendingIsLinked
<1>2. TypeOK /\ PendingIsLinked /\ [Next]_vars => PendingIsLinked'
  <2> SUFFICES ASSUME TypeOK, PendingIsLinked, [Next]_vars PROVE PendingIsLinked'
    OBVIOUS
  <2>1. CASE Elapse
    BY <2>1 DEF Elapse, PendingIsLinked
  <2>2. CASE LinkUp
    BY <2>2 DEF LinkUp, MakePending, PendingIsLinked, regVars
  <2>3. CASE \E l \in up : LinkDown(l)
    BY <2>3 DEF LinkDown, PendingWithout, PendingIsLinked
  <2>4. CASE \E l \in up \cap Switchable, on \in BOOLEAN : SetLinkEnabled(l, on)
    BY <2>4 DEF SetLinkEnabled, PendingIsLinked, regVars
  <2>5. CASE \E s \in Seqs \cup {Empty}, ok \in BOOLEAN : OnLocalSrtPacket(s, ok)
    BY <2>5 DEF OnLocalSrtPacket, PendingIsLinked, regVars
  <2>6. CASE \E l \in up : LinkPacket(l)
    BY <2>6 DEF LinkPacket, OnRegNgp, MakePending, OnReg2, OnReg3, OnOther, OnSrtAck,
                OnSrtNak, OnSrtlaAck, Heard, PendingIsLinked, regVars
  <2>7. CASE Tick
    BY <2>7 DEF Tick, MakePending, PendingIsLinked
  <2>8. CASE UNCHANGED vars
    BY <2>8 DEF vars, PendingIsLinked, regVars
  <2> QED
    BY <2>1, <2>2, <2>3, <2>4, <2>5, <2>6, <2>7, <2>8 DEF Next
<1> QED
  BY <1>1, <1>2, TypeCorrect, PTL DEF Spec

(* In an established group an ACTIVE link was heard from since its reset.  *)
(* The tick that resets a dead link also makes it ask to join again: the   *)
(* reset clears the time the throttle is measured from.                    *)
THEOREM ActiveHeard == Spec => []ActiveWasHeard
<1>1. Init => ActiveWasHeard
  BY DEF Init, ActiveWasHeard
<1>2. TypeOK /\ ActiveWasHeard /\ [Next]_vars => ActiveWasHeard'
  <2> SUFFICES ASSUME TypeOK, ActiveWasHeard, [Next]_vars,
                      established', NEW l \in up', reg'[l] = "ACTIVE"
               PROVE  rcvdAge'[l] # Never
    BY DEF ActiveWasHeard
  <2>1. CASE Elapse
    <3>1. l \in LinkIds /\ rcvdAge[l] # Never /\ rcvdAge[l] \in 0..(ConnTimeout + 1)
      BY <2>1 DEF Elapse, ActiveWasHeard, TypeOK, groupVars
    <3> QED
      BY <2>1, <3>1, TimeAssumption DEF Elapse, Older, Never
  <2>2. CASE LinkUp
    <3>1. established /\ rcvdAge' = rcvdAge /\ up' = up \cup {nextLinkId}
      BY <2>2 DEF LinkUp, groupVars
    <3>2. reg' = [reg EXCEPT ![nextLinkId] = "WAIT_REG3"]
      BY <2>2, <3>1 DEF LinkUp
    <3>3. l # nextLinkId \/ nextLinkId \notin LinkIds
      BY <3>2 DEF TypeOK
    <3>4. nextLinkId \in LinkIds
      BY <2>2, BoundsAssumption DEF LinkUp, TypeOK, LinkIds
    <3> QED
      BY <3>1, <3>2, <3>3, <3>4 DEF ActiveWasHeard, TypeOK
  <2>3. CASE \E k \in up : LinkDown(k)
    BY <2>3 DEF LinkDown, ActiveWasHeard, TypeOK, groupVars
  <2>4. CASE \E k \in up \cap Switchable, on \in BOOLEAN : SetLinkEnabled(k, on)
    BY <2>4 DEF SetLinkEnabled, ActiveWasHeard, groupVars
  <2>5. CASE \E s \in Seqs \cup {Empty}, ok \in BOOLEAN : OnLocalSrtPacket(s, ok)
    BY <2>5 DEF OnLocalSrtPacket, ActiveWasHeard, groupVars
  <2>6. CASE \E k \in up : LinkPacket(k)
    <3>1. PICK k \in up : LinkPacket(k)
      BY <2>6
    <3>2. CASE OnRegNgp(k)
      BY <3>2 DEF OnRegNgp, RegAfter, ActiveWasHeard, TypeOK, groupVars
    <3>3. CASE \E g \in GroupIds : OnReg2(k, g)
      BY <3>3 DEF OnReg2, Joiners, TypeOK
    <3>4. CASE Heard(k) /\ reg' \in {reg, [reg EXCEPT ![k] = "ACTIVE"]}
      BY <3>4 DEF Heard, ActiveWasHeard, TypeOK, Never, groupVars
    <3> QED
      BY <3>1, <3>2, <3>3, <3>4 DEF LinkPacket, OnReg3, OnOther, OnSrtAck, OnSrtNak, OnSrtlaAck
  <2>7. CASE Tick
    <3>1. established /\ l \in up /\ l \in LinkIds
      BY <2>7 DEF Tick, TypeOK, groupVars
    <3>2. PICK c \in up \cup {NoLink} :
            /\ Selects(up, IF pendingAge > ConnTimeout THEN NoLink ELSE pending, c)
            /\ reg' = [k \in LinkIds |->
                        IF k \in {m \in up : TimedOut(m) /\ established
                                            /\ SentAtTick(c, m) > Reg2Resend}
                        THEN "WAIT_REG3" ELSE RegAfter(c)[k]]
      BY <2>7, <3>1 DEF Tick
    <3>3. c = NoLink
      BY <3>1, <3>2 DEF Selects
    <3>4. l \notin Lapsed
      BY <3>1, <3>2, TimeAssumption DEF Lapsed, SentAtTick, SentCap
    <3>5. reg[l] = "ACTIVE"
      BY <3>1, <3>2, <3>3 DEF RegAfter, NoLink, LinkIds
    <3> QED
      BY <2>7, <3>1, <3>4, <3>5 DEF Tick, ActiveWasHeard
  <2>8. CASE UNCHANGED vars
    BY <2>8 DEF vars, ActiveWasHeard, groupVars
  <2> QED
    BY <2>1, <2>2, <2>3, <2>4, <2>5, <2>6, <2>7, <2>8 DEF Next
<1> QED
  BY <1>1, <1>2, TypeCorrect, PTL DEF Spec

-----------------------------------------------------------------------------
(* The floor and the ceiling of the window, as integers.                   *)
LEMMA WindowLimits ==
  /\ WindowMin * WindowMult \in Int /\ WindowDef * WindowMult \in Int
  /\ WindowMax * WindowMult \in Int
  /\ WindowMin * WindowMult <= WindowDef * WindowMult
  /\ WindowDef * WindowMult <= WindowMax * WindowMult
<1>1. \A a, b \in Nat, m \in Nat : a <= b => a * m <= b * m
  BY Z3
<1> QED
  BY <1>1, WindowAssumption

(* A link that was never heard from, or was reset, owns no packets: data   *)
(* goes only to links that were heard from, and the reset clears the log.  *)
LEMMA SilentStep == TypeOK /\ SilentLinkOwnsNothing /\ [Next]_vars => SilentLinkOwnsNothing'
<1> SUFFICES ASSUME TypeOK, SilentLinkOwnsNothing, [Next]_vars,
                    NEW l \in LinkIds, rcvdAge'[l] = Never
             PROVE  inFlight'[l] = 0 /\ \A i \in Slots : pktLog'[l][i] = Empty
  BY DEF SilentLinkOwnsNothing
<1>1. CASE Elapse
  <2>1. rcvdAge[l] = Never
    BY <1>1, TimeAssumption DEF Elapse, Older, TypeOK, Never
  <2> QED
    BY <1>1, <2>1 DEF Elapse, SilentLinkOwnsNothing, flowVars
<1>2. CASE LinkUp
  BY <1>2 DEF LinkUp, SilentLinkOwnsNothing, flowVars
<1>3. CASE \E k \in up : LinkDown(k)
  <2>1. PICK k \in up : LinkDown(k)
    BY <1>3
  <2>2. CASE l = k
    BY <2>1, <2>2 DEF LinkDown, TypeOK
  <2>3. CASE l # k
    BY <2>1, <2>3 DEF LinkDown, TypeOK, SilentLinkOwnsNothing
  <2> QED
    BY <2>2, <2>3
<1>4. CASE \E k \in up \cap Switchable, on \in BOOLEAN : SetLinkEnabled(k, on)
  BY <1>4 DEF SetLinkEnabled, SilentLinkOwnsNothing, flowVars
<1>5. CASE \E s \in Seqs \cup {Empty}, ok \in BOOLEAN : OnLocalSrtPacket(s, ok)
  <2>1. PICK s \in Seqs \cup {Empty}, ok \in BOOLEAN, k \in up :
          /\ IsBest(k)
          /\ \/ LogPacket(k, s)
             \/ UNCHANGED <<pktLog, pktIdx, inFlight>>
          /\ UNCHANGED rcvdAge
    BY <1>5 DEF OnLocalSrtPacket
  <2>2. l # k
    BY <2>1 DEF IsBest, Eligible, TimedOut
  <2>3. inFlight'[l] = inFlight[l] /\ pktLog'[l] = pktLog[l]
    BY <2>1, <2>2 DEF LogPacket, TypeOK
  <2> QED
    BY <2>1, <2>3 DEF SilentLinkOwnsNothing
<1>6. CASE \E k \in up : LinkPacket(k)
  <2>1. PICK k \in up : LinkPacket(k)
    BY <1>6
  <2>2. CASE OnRegNgp(k) \/ \E g \in GroupIds : OnReg2(k, g)
    BY <2>2 DEF OnRegNgp, OnReg2, SilentLinkOwnsNothing, flowVars
  <2>3. CASE Heard(k)
    <3>1. rcvdAge[l] = Never
      BY <2>3 DEF Heard, TypeOK, Never
    <3>2. inFlight[l] = 0 /\ \A i \in Slots : pktLog[l][i] = Empty
      BY <3>1 DEF SilentLinkOwnsNothing
    <3>3. CASE OnReg3(k) \/ OnOther(k)
      BY <3>2, <3>3 DEF OnReg3, OnOther, flowVars
    <3>4. CASE \E s \in Seqs : OnSrtAck(k, s)
      <4>1. PICK s \in Seqs : OnSrtAck(k, s)
        BY <3>4
      <4>2. {i \in Live(l) : ~SeqAcked(pktLog[l][i], s)} = {}
        BY <3>2 DEF Live, Scanned
      <4>3. inFlight'[l] = 0
        BY <3>2, <4>1, <4>2, FS_EmptySet DEF OnSrtAck
      <4> QED
        BY <3>2, <4>1, <4>3 DEF OnSrtAck
    <3>5. \A j \in up, i \in Slots, s \in Seqs : IsFirstCopy(j, i, s) => j # l
      BY <3>2, LogAssumption DEF IsFirstCopy, IsNewestCopy, Scanned, Empty
    <3>6. CASE \E s \in Seqs : OnSrtNak(k, s)
      BY <3>2, <3>5, <3>6 DEF OnSrtNak, TypeOK
    <3>7. CASE \E s \in Seqs : OnSrtlaAck(k, s)
      BY <3>2, <3>5, <3>7 DEF OnSrtlaAck, TypeOK
    <3> QED
      BY <2>1, <2>2, <3>3, <3>4, <3>6, <3>7 DEF LinkPacket
  <2> QED
    BY <2>1, <2>2, <2>3 DEF LinkPacket, OnReg3, OnOther, OnSrtAck, OnSrtNak, OnSrtlaAck
<1>7. CASE Tick
  <2>1. CASE l \in Lapsed
    BY <1>7, <2>1 DEF Tick, LogAtTick
  <2>2. CASE l \notin Lapsed
    BY <1>7, <2>2 DEF Tick, LogAtTick, SilentLinkOwnsNothing
  <2> QED
    BY <2>1, <2>2
<1>8. CASE UNCHANGED vars
  BY <1>8 DEF vars, SilentLinkOwnsNothing, flowVars
<1> QED
  BY <1>1, <1>2, <1>3, <1>4, <1>5, <1>6, <1>7, <1>8 DEF Next

(* The theorem of the step above.                                          *)
THEOREM SilentOwnsNothing == Spec => []SilentLinkOwnsNothing
<1>1. Init => SilentLinkOwnsNothing
  BY DEF Init, SilentLinkOwnsNothing
<1> QED
  BY <1>1, SilentStep, TypeCorrect, PTL DEF Spec

(* Every window stays within its limits.  An SRTLA ACK may open the window *)
(* of the link that carried the packet and caps it in the same step: that  *)
(* link holds a packet, so it was heard from and is not left uncapped.     *)
LEMMA WindowStep ==
  TypeOK /\ SilentLinkOwnsNothing /\ WindowBounded /\ [Next]_vars => WindowBounded'
<1> DEFINE lo == WindowMin * WindowMult
           hi == WindowMax * WindowMult
<1> SUFFICES ASSUME TypeOK, SilentLinkOwnsNothing, WindowBounded, [Next]_vars,
                    NEW l \in LinkIds
             PROVE  window'[l] \in lo..hi
  BY DEF WindowBounded
<1>0. lo \in Int /\ hi \in Int /\ lo <= hi /\ WindowDef * WindowMult \in lo..hi
  BY WindowLimits
<1>1. window[l] \in lo..hi
  BY DEF WindowBounded
<1>2. CASE UNCHANGED window
  BY <1>1, <1>2
<1>3. CASE \E k \in up : LinkDown(k)
  <2>1. PICK k \in up : window' = [window EXCEPT ![k] = WindowDef * WindowMult]
    BY <1>3 DEF LinkDown
  <2> QED
    BY <1>0, <1>1, <2>1 DEF TypeOK
<1>4. CASE \E k \in up : LinkPacket(k)
  <2>1. CASE \E k \in up, s \in Seqs : OnSrtNak(k, s)
    <3>1. PICK k \in up : window' = [window EXCEPT ![k] = Shrunk(@)] \/ UNCHANGED window
      BY <2>1 DEF OnSrtNak
    <3>2. \A w \in lo..hi : Shrunk(w) \in lo..hi
      BY <1>0, WindowAssumption DEF Shrunk
    <3> HIDE DEF lo, hi
    <3>3. window[k] \in lo..hi
      BY DEF WindowBounded, TypeOK, lo, hi
    <3> QED
      BY <1>1, <3>1, <3>2, <3>3 DEF TypeOK
  <2>2. CASE \E k \in up, s \in Seqs : OnSrtlaAck(k, s)
    <3>1. PICK k \in up, s \in Seqs : OnSrtlaAck(k, s)
      BY <2>2
    <3>2. \A w \in Int : w >= lo => Capped(w + 1) \in lo..hi
      BY <1>0 DEF Capped
    <3>3. rcvdAge[l] # Never => rcvdAge'[l] # Never
      BY <3>1, TimeAssumption DEF OnSrtlaAck, Heard, TypeOK, Never
    <3>4. CASE window' = [m \in LinkIds |->
                 IF m \in up /\ rcvdAge'[m] # Never THEN Capped(window[m] + 1) ELSE window[m]]
      <4> HIDE DEF lo, hi
      <4> QED
        BY <1>0, <1>1, <3>2, <3>4
    <3>5. CASE \E j \in up, i \in Slots :
                 /\ IsFirstCopy(j, i, s)
                 /\ inFlight' = [inFlight EXCEPT ![j] = IF @ > 0 THEN @ - 1 ELSE @]
                 /\ window' = [m \in LinkIds |->
                      LET w == IF m = j THEN Opened(j, inFlight'[j]) ELSE window[m]
                      IN  IF m \in up /\ rcvdAge'[m] # Never THEN Capped(w + 1) ELSE w]
      <4>1. PICK j \in up, i \in Slots :
              /\ IsFirstCopy(j, i, s)
              /\ inFlight' = [inFlight EXCEPT ![j] = IF @ > 0 THEN @ - 1 ELSE @]
              /\ window' = [m \in LinkIds |->
                   LET w == IF m = j THEN Opened(j, inFlight'[j]) ELSE window[m]
                   IN  IF m \in up /\ rcvdAge'[m] # Never THEN Capped(w + 1) ELSE w]
        BY <3>5
      <4>2. CASE l = j
        <5>1. rcvdAge[l] # Never
          BY <4>1, <4>2, LogAssumption
          DEF IsFirstCopy, IsNewestCopy, Scanned, SilentLinkOwnsNothing, Empty
        <5>2. Opened(l, inFlight'[l]) \in Int /\ Opened(l, inFlight'[l]) >= lo
          BY <1>0, <1>1, WindowAssumption DEF Opened
        <5>3. window'[l] = Capped(Opened(l, inFlight'[l]) + 1)
          BY <3>3, <4>1, <4>2, <5>1
        <5> QED
          BY <3>2, <5>2, <5>3
      <4>3. CASE l # j
        <5>1. window'[l] \in {Capped(window[l] + 1), window[l]}
          BY <4>1, <4>3
        <5> HIDE DEF lo, hi
        <5> QED
          BY <1>0, <1>1, <3>2, <5>1
      <4> QED
        BY <4>2, <4>3
    <3> QED
      BY <3>1, <3>4, <3>5 DEF OnSrtlaAck
  <2> QED
    BY <1>2, <1>4, <2>1, <2>2
    DEF LinkPacket, OnRegNgp, OnReg2, OnReg3, OnOther, OnSrtAck, flowVars
<1>5. CASE Tick
  <2> HIDE DEF lo, hi
  <2>1. window'[l] \in {lo, window[l]}
    BY <1>5 DEF Tick, lo
  <2> QED
    BY <1>0, <1>1, <2>1
<1> QED
  BY <1>2, <1>3, <1>4, <1>5
  DEF Next, Elapse, LinkUp, SetLinkEnabled, OnLocalSrtPacket, vars, flowVars

(* The window of every link stays within [min, max] x mult.                *)
THEOREM WindowsBounded == Spec => []WindowBounded
<1>1. Init => WindowBounded
  BY WindowLimits DEF Init, WindowBounded
<1> QED
  BY <1>1, WindowStep, TypeCorrect, SilentOwnsNothing, PTL DEF Spec

-----------------------------------------------------------------------------
(* Emptying a slot of the log never adds to what a scan can find.          *)
LEMMA EmptiedSlot ==
  ASSUME TypeOK, NEW l \in LinkIds, NEW k \in LinkIds, NEW i \in Slots,
         pktLog' = [pktLog EXCEPT ![k][i] = Empty], pktIdx' = pktIdx
  PROVE  Live(l)' = IF l = k THEN Live(l) \ {i} ELSE Live(l)
BY DEF Live, Scanned, TypeOK

(* The scans never find more packets of a link than its inFlight counts:   *)
(* a logged packet is counted, an SRT ACK counts what it leaves, and an    *)
(* SRTLA ACK takes one off only together with the slot it frees.           *)
LEMMA LiveStep == TypeOK /\ LiveWithinInFlight /\ [Next]_vars => LiveWithinInFlight'
<1> SUFFICES ASSUME TypeOK, LiveWithinInFlight, [Next]_vars, NEW l \in LinkIds
             PROVE  Cardinality(Live(l)') <= inFlight'[l]
  BY DEF LiveWithinInFlight
<1>1. /\ IsFiniteSet(Live(l)) /\ Cardinality(Live(l)) \in Nat
      /\ inFlight[l] \in Nat /\ Cardinality(Live(l)) <= inFlight[l]
  BY SlotsCounted DEF LiveWithinInFlight, Live, Scanned, TypeOK
<1>2. CASE UNCHANGED <<pktLog, pktIdx, inFlight>>
  BY <1>1, <1>2 DEF Live, Scanned
<1>3. CASE inFlight'[l] = 0 /\ \A i \in Slots : pktLog'[l][i] = Empty
  <2>1. Live(l)' = {}
    BY <1>3 DEF Live, Scanned
  <2> QED
    BY <1>3, <2>1, FS_EmptySet
<1>4. CASE \E k \in up : LinkDown(k)
  <2>1. PICK k \in up : LinkDown(k)
    BY <1>4
  <2>2. CASE l = k
    BY <1>3, <2>1, <2>2 DEF LinkDown, TypeOK
  <2>3. CASE l # k
    BY <1>1, <2>1, <2>3 DEF LinkDown, TypeOK, Live, Scanned
  <2> QED
    BY <2>2, <2>3
<1>5. CASE \E k \in up, s \in Seqs : LogPacket(k, s)
  <2>1. PICK k \in up, s \in Seqs : LogPacket(k, s)
    BY <1>5
  <2>2. CASE l = k
    <3>1. inFlight'[l] = inFlight[l] + 1
      BY <2>1, <2>2 DEF LogPacket, TypeOK
    <3>2. Live(l)' \subseteq Live(l) \cup {pktIdx[l]}
      BY <2>1, <2>2 DEF LogPacket, Live, Scanned, TypeOK
    <3>3. /\ IsFiniteSet(Live(l) \cup {pktIdx[l]})
          /\ Cardinality(Live(l) \cup {pktIdx[l]}) \in Nat
          /\ Cardinality(Live(l) \cup {pktIdx[l]}) <= Cardinality(Live(l)) + 1
      BY <1>1, FS_AddElement, FS_CardinalityType
    <3>4. Cardinality(Live(l)') <= Cardinality(Live(l) \cup {pktIdx[l]})
      BY <3>2, <3>3, FS_Subset
    <3>5. Cardinality(Live(l)') \in Nat
      BY <3>2, <3>3, FS_Subset, FS_CardinalityType
    <3> QED
      BY <1>1, <3>1, <3>3, <3>4, <3>5
  <2>3. CASE l # k
    <3>1. inFlight'[l] = inFlight[l] /\ pktLog'[l] = pktLog[l] /\ pktIdx'[l] = pktIdx[l]
      BY <2>1, <2>3 DEF LogPacket, TypeOK
    <3> QED
      BY <1>1, <3>1 DEF Live, Scanned
  <2> QED
    BY <2>2, <2>3
<1>6. CASE \E k \in up, s \in Seqs : OnSrtAck(k, s)
  <2>1. PICK k \in up, s \in Seqs : OnSrtAck(k, s)
    BY <1>6
  <2>2. CASE l \in up
    <3>1. Live(l)' = {i \in Live(l) : ~SeqAcked(pktLog[l][i], s)}
      BY <2>1, <2>2 DEF OnSrtAck, Live, Scanned
    <3>2. inFlight'[l] = Cardinality({i \in Live(l) : ~SeqAcked(pktLog[l][i], s)})
      BY <2>1, <2>2 DEF OnSrtAck
    <3>3. inFlight'[l] \in Nat
      BY <3>2, SlotsCounted DEF Live, Scanned
    <3> QED
      BY <3>1, <3>2, <3>3
  <2>3. CASE l \notin up
    BY <1>1, <2>1, <2>3 DEF OnSrtAck, Live, Scanned
  <2> QED
    BY <2>2, <2>3
<1>7. CASE \E k \in up, s \in Seqs : OnSrtNak(k, s)
  <2>1. PICK k \in up, i \in Slots :
          /\ pktIdx' = pktIdx /\ inFlight' = inFlight
          /\ pktLog' = [pktLog EXCEPT ![k][i] = Empty] \/ pktLog' = pktLog
    BY <1>7, LogAssumption DEF OnSrtNak, Slots
  <2>2. CASE pktLog' = pktLog
    BY <1>2, <2>1, <2>2
  <2>3. CASE pktLog' = [pktLog EXCEPT ![k][i] = Empty]
    <3>1. Live(l)' \subseteq Live(l)
      BY <2>1, <2>3, EmptiedSlot DEF TypeOK
    <3>2. Cardinality(Live(l)') <= Cardinality(Live(l)) /\ Cardinality(Live(l)') \in Nat
      BY <1>1, <3>1, FS_Subset, FS_CardinalityType
    <3> QED
      BY <1>1, <2>1, <3>2
  <2> QED
    BY <2>1, <2>2, <2>3
<1>8. CASE \E k \in up, s \in Seqs : OnSrtlaAck(k, s)
  <2>1. PICK h \in up, s \in Seqs : OnSrtlaAck(h, s)
    BY <1>8
  <2>2. CASE UNCHANGED <<pktLog, inFlight>>
    BY <1>2, <2>1, <2>2 DEF OnSrtlaAck
  <2>3. CASE \E k \in up, i \in Slots :
               /\ IsFirstCopy(k, i, s)
               /\ pktLog' = [pktLog EXCEPT ![k][i] = Empty]
               /\ inFlight' = [inFlight EXCEPT ![k] = IF @ > 0 THEN @ - 1 ELSE @]
    <3>1. PICK k \in up, i \in Slots :
            /\ IsFirstCopy(k, i, s)
            /\ pktLog' = [pktLog EXCEPT ![k][i] = Empty]
            /\ inFlight' = [inFlight EXCEPT ![k] = IF @ > 0 THEN @ - 1 ELSE @]
      BY <2>3
    <3>2. k \in LinkIds /\ pktIdx' = pktIdx
      BY <2>1 DEF OnSrtlaAck, TypeOK
    <3>3. Live(l)' = IF l = k THEN Live(l) \ {i} ELSE Live(l)
      BY <3>1, <3>2, EmptiedSlot
    <3>4. CASE l = k
      <4>1. i \in Live(l)
        <5>1. i \in Scanned(k) /\ pktLog[k][i] = s
          BY <3>1 DEF IsFirstCopy, IsNewestCopy
        <5>2. s # Empty
          BY LogAssumption DEF Empty
        <5> QED
          BY <3>4, <5>1, <5>2 DEF Live
      <4>2. Cardinality(Live(l)') = Cardinality(Live(l)) - 1
        <5>1. Live(l)' = Live(l) \ {i}
          BY <3>3, <3>4
        <5> QED
          BY <1>1, <4>1, <5>1, FS_RemoveElement
      <4>3. Cardinality(Live(l)) # 0
        BY <1>1, <4>1, FS_EmptySet
      <4>4. inFlight'[l] = inFlight[l] - 1
        BY <1>1, <3>1, <3>4, <4>3 DEF TypeOK
      <4> QED
        BY <1>1, <4>2, <4>4
    <3>5. CASE l # k
      BY <1>1, <3>1, <3>3, <3>5 DEF TypeOK
    <3> QED
      BY <3>4, <3>5
  <2> QED
    BY <2>1, <2>2, <2>3 DEF OnSrtlaAck
<1>9. CASE Tick
  <2>1. CASE l \in Lapsed
    BY <1>3, <1>9, <2>1 DEF Tick, LogAtTick
  <2>2. CASE l \notin Lapsed
    BY <1>1, <1>9, <2>2 DEF Tick, LogAtTick, Live, Scanned
  <2> QED
    BY <2>1, <2>2
<1>10. CASE \E s \in Seqs \cup {Empty}, ok \in BOOLEAN : OnLocalSrtPacket(s, ok)
  BY <1>2, <1>5, <1>10 DEF OnLocalSrtPacket
<1>11. CASE \E k \in up : LinkPacket(k)
  BY <1>2, <1>6, <1>7, <1>8, <1>11
  DEF LinkPacket, OnRegNgp, OnReg2, OnReg3, OnOther, flowVars
<1> QED
  BY <1>2, <1>4, <1>9, <1>10, <1>11
  DEF Next, Elapse, LinkUp, SetLinkEnabled, vars, flowVars

(* So an SRTLA ACK that frees a slot always has a packet to take off.      *)
THEOREM LiveWithin == Spec => []LiveWithinInFlight
<1>1. Init => LiveWithinInFlight
  <2> SUFFICES ASSUME Init, NEW l \in LinkIds
               PROVE  Cardinality(Live(l)) <= inFlight[l]
    BY DEF LiveWithinInFlight
  <2>1. Live(l) = {} /\ inFlight[l] = 0
    BY DEF Init, Live, Scanned
  <2> QED
    BY <2>1, FS_EmptySet
<1> QED
  BY <1>1, LiveStep, TypeCorrect, PTL DEF Spec

-----------------------------------------------------------------------------
(* A handler that asks a link to join or to register notes the time, so    *)
(* that a repetition is measured from it.                                  *)
AskedIsNoted == \A l \in LinkIds : Asked(l, out) => sentAge[l] = 0

LEMMA AskedStep == TypeOK /\ AskedIsNoted /\ [Next]_vars => AskedIsNoted'
<1> SUFFICES ASSUME TypeOK, AskedIsNoted, [Next]_vars,
                    NEW l \in LinkIds, Asked(l, out')
             PROVE  sentAge'[l] = 0
  BY DEF AskedIsNoted, Asked
<1>1. out' # {}
  BY DEF Asked
<1>2. CASE LinkUp
  <2>1. CASE established
    BY <1>2, <2>1 DEF LinkUp, Asked, Reg2, TypeOK
  <2>2. CASE ~established
    BY <1>2, <2>2 DEF LinkUp, Asked, Reg1After, Reg1
  <2> QED
    BY <2>1, <2>2
<1>3. CASE \E s \in Seqs \cup {Empty}, ok \in BOOLEAN : OnLocalSrtPacket(s, ok)
  BY <1>3 DEF OnLocalSrtPacket, Asked, Data
<1>4. CASE \E k \in up : LinkPacket(k)
  <2>1. CASE \E k \in up : OnRegNgp(k)
    BY <2>1 DEF OnRegNgp, Asked, Reg1After, Reg1
  <2>2. CASE \E k \in up, g \in GroupIds : OnReg2(k, g)
    BY <2>2 DEF OnReg2, Joiners, Asked, Reg2
  <2> QED
    BY <1>1, <1>4, <2>1, <2>2
    DEF LinkPacket, Heard, OnReg3, OnOther, OnSrtAck, OnSrtNak, OnSrtlaAck
<1>5. CASE Tick
  BY <1>5 DEF Tick, Asked, Reg1After, Reg1, Reg2, Keepalive
<1>6. CASE UNCHANGED vars
  BY <1>6 DEF vars, AskedIsNoted, Asked
<1> QED
  BY <1>1, <1>2, <1>3, <1>4, <1>5, <1>6 DEF Next, Elapse, LinkDown, SetLinkEnabled

(* A tick with no time between repeats a REG2 only to a link it resets:    *)
(* the reset clears the time the throttle is measured from, nothing else.  *)
THEOREM NoStorm == Spec => NoReg2Storm
<1>1. Init => AskedIsNoted
  BY DEF Init, AskedIsNoted, Asked
<1>2. TypeOK /\ AskedIsNoted /\ [Next]_vars
      => [\A l \in up : Asked(l, out) /\ Asked(l, out') /\ Tick => rcvdAge[l] # Never]_vars
  <2> SUFFICES ASSUME TypeOK, AskedIsNoted, Tick,
                      NEW l \in up, Asked(l, out), Asked(l, out')
               PROVE  rcvdAge[l] # Never
    OBVIOUS
  <2>1. l \in LinkIds /\ sentAge[l] = 0
    BY DEF AskedIsNoted, TypeOK
  <2>2. PICK c \in up \cup {NoLink} :
          out' = Reg1After(c)
                 \cup {Reg2(k, groupId) :
                        k \in {m \in up : TimedOut(m) /\ established
                                          /\ SentAtTick(c, m) > Reg2Resend}}
                 \cup {Keepalive(k) :
                        k \in {m \in up : ~TimedOut(m) /\ SentAtTick(c, m) > IdleTime}}
    BY DEF Tick
  <2>3. SentAtTick(c, l) > Reg2Resend
    BY <2>2 DEF Asked, Reg1After, Reg1, Reg2, Keepalive
  <2>4. l \in Lapsed
    BY <2>1, <2>3, TimeAssumption DEF SentAtTick, SentAfter
  <2> QED
    BY <2>4 DEF Lapsed
<1> QED
  BY <1>1, <1>2, AskedStep, TypeCorrect, PTL DEF Spec, NoReg2Storm

-----------------------------------------------------------------------------
(* The choice of a link                                                    *)

LEMMA ShareWithin == ASSUME NEW a \in Nat, NEW b \in Nat \ {0} PROVE a \div b \in 0..a
OBVIOUS

LEMMA HasLeast ==
  ASSUME NEW T, T \subseteq Nat, T # {}
  PROVE  \E x \in T : \A y \in T : x <= y
<1>1. IsWellFoundedOn(OpToRel(<, Nat), Nat)
  BY NatLessThanWellFounded
<1>2. PICK x \in T : \A y \in T : ~ (<<y, x>> \in OpToRel(<, Nat))
  BY <1>1, WFMin
<1>3. \A y \in T : y < x => <<y, x>> \in OpToRel(<, Nat)
  BY DEF OpToRel
<1>4. \A y \in T : ~(y < x)
  BY <1>2, <1>3, Zenon
<1> QED
  BY <1>4

(* Of any links that could be chosen, one is best: scores are bounded by   *)
(* the windows, and of the links of the best score one is the first.       *)
LEMMA BestExists == TypeOK /\ WindowBounded => LiveLinkIsChosen
<1> SUFFICES ASSUME TypeOK, WindowBounded, NEW l0 \in up, Eligible(l0)
             PROVE  \E l \in up : IsBest(l)
  BY DEF LiveLinkIsChosen
<1> DEFINE able == {l \in up : Eligible(l)}
           limit == WindowMax * WindowMult
<1>1. up \subseteq LinkIds /\ LinkIds \subseteq Nat /\ limit \in Nat
  BY BoundsAssumption, WindowAssumption DEF TypeOK, LinkIds
<1>2. ASSUME NEW l \in LinkIds PROVE Score(l) \in 0..limit
  <2>1. window[l] \in Nat /\ window[l] <= limit /\ inFlight[l] + 1 \in Nat \ {0}
    <3>1. \A a, b \in Nat : a * b \in Nat
      OBVIOUS
    <3>2. WindowMin * WindowMult \in Nat
      BY <3>1, WindowAssumption
    <3>3. window[l] \in WindowMin * WindowMult .. limit
      BY DEF WindowBounded
    <3>4. inFlight[l] \in Nat
      BY DEF TypeOK
    <3> HIDE DEF limit
    <3> QED
      BY <1>1, <3>2, <3>3, <3>4
  <2>2. Score(l) \in 0..window[l]
    BY <2>1, ShareWithin DEF Score
  <2> QED
    BY <1>1, <2>1, <2>2
<1> HIDE DEF limit
<1>3. PICK top \in able : \A k \in able : Score(k) <= Score(top)
  <2> DEFINE gaps == {limit - Score(l) : l \in able}
  <2>1. gaps \subseteq Nat /\ gaps # {}
    <3>1. \A l \in able : limit - Score(l) \in Nat
      <4> TAKE l \in able
      <4>1. Score(l) \in 0..limit
        BY <1>1, <1>2
      <4> QED
        BY <1>1, <4>1
    <3>2. l0 \in able
      OBVIOUS
    <3> QED
      BY <3>1, <3>2
  <2>2. PICK gap \in gaps : \A other \in gaps : gap <= other
    BY <2>1, HasLeast
  <2>3. PICK l \in able : gap = limit - Score(l)
    OBVIOUS
  <2>4. ASSUME NEW k \in able PROVE Score(k) <= Score(l)
    <3>1. limit - Score(l) <= limit - Score(k)
      BY <2>2, <2>3
    <3>2. Score(l) \in 0..limit /\ Score(k) \in 0..limit
      BY <1>1, <1>2
    <3> QED
      BY <1>1, <3>1, <3>2
  <2> QED
    BY <2>4
<1>4. PICK l \in {k \in able : Score(k) = Score(top)} :
        \A k \in {k \in able : Score(k) = Score(top)} : l <= k
  BY <1>1, HasLeast
<1>5. Score(l) \in 0..limit
  BY <1>1, <1>2
<1>6. ASSUME NEW k \in up, Eligible(k)
      PROVE  Score(k) < Score(l) \/ (Score(k) = Score(l) /\ l <= k)
  <2>1. Score(k) \in 0..limit /\ Score(k) <= Score(l)
    BY <1>1, <1>2, <1>3, <1>4, <1>6
  <2> QED
    BY <1>1, <1>4, <1>5, <1>6, <2>1
<1> QED
  BY <1>1, <1>4, <1>5, <1>6 DEF IsBest

(* While a link is alive data finds one: the windows stay positive, and    *)
(* the share of a window per packet in flight is never below zero.         *)
THEOREM LiveChosen == Spec => []LiveLinkIsChosen
BY TypeCorrect, WindowsBounded, BestExists, PTL

-----------------------------------------------------------------------------
(* The round robin of the registration                                     *)

(* Choosing c takes it, and nothing else, out of the way of l.             *)
Nearer(S, last, c, l) ==
  c \in Before(S, last, l) /\ Before(S, c, l) = Before(S, last, l) \ {c}

(* The next link of the ring is before every other.                        *)
LEMMA RingAdvances ==
  \A S \in SUBSET LinkIds, last \in LinkIds \cup {NoLink} : \A c, l \in S :
    IsNextInRing(S, last, c) /\ c # l => Nearer(S, last, c, l)
<1> SUFFICES ASSUME NEW S \in SUBSET LinkIds, NEW last \in LinkIds \cup {NoLink},
                    NEW c \in S, NEW l \in S, IsNextInRing(S, last, c), c # l
             PROVE  Nearer(S, last, c, l)
  OBVIOUS
<1>1. S \subseteq Nat /\ last \in Nat
  BY BoundsAssumption DEF LinkIds, NoLink
<1>2. CASE last \in S /\ \E k \in S : k > last
  <2>1. c \in S /\ c > last /\ \A k \in S : k > last => c <= k
    BY <1>2 DEF IsNextInRing
  <2>2. c \in Before(S, last, l)
    BY <1>1, <1>2, <2>1 DEF Before
  <2>3. ASSUME NEW k \in S
        PROVE  k \in Before(S, c, l) <=> k \in Before(S, last, l) /\ k # c
    BY <1>1, <1>2, <2>1 DEF Before
  <2> QED
    BY <2>2, <2>3 DEF Before, Nearer
<1>3. CASE ~(last \in S /\ \E k \in S : k > last)
  <2>1. c \in S /\ \A k \in S : c <= k
    BY <1>3 DEF IsNextInRing
  <2>2. c \in Before(S, last, l)
    BY <1>1, <1>3, <2>1 DEF Before
  <2>3. ASSUME NEW k \in S
        PROVE  k \in Before(S, c, l) <=> k \in Before(S, last, l) /\ k # c
    BY <1>1, <1>3, <2>1 DEF Before
  <2> QED
    BY <2>2, <2>3 DEF Before, Nearer
<1> QED
  BY <1>2, <1>3

(* Each choice of another candidate brings every waiting link one turn     *)
(* nearer in the round that is going on.                                   *)
THEOREM TurnsNearer == Spec => TurnsComeCloser
<1> DEFINE Turns == \A l \in up' :
             /\ pending' \notin {pending, NoLink, l}
             /\ ~\E k \in up : OnRegNgp(k)
             => /\ pending' \in Before(up', lastReg1, l)
                /\ Before(up', lastReg1', l) = Before(up', lastReg1, l) \ {pending'}
<1>1. ASSUME TypeOK, TypeOK', [Next]_vars PROVE Turns
  <2> SUFFICES ASSUME NEW l \in up', pending' \notin {pending, NoLink, l},
                      ~\E k \in up : OnRegNgp(k)
               PROVE  /\ pending' \in Before(up', lastReg1, l)
                      /\ Before(up', lastReg1', l) = Before(up', lastReg1, l) \ {pending'}
    OBVIOUS
  <2>1. LinkUp \/ Tick
    <3>1. CASE \E k \in up : LinkPacket(k)
      BY <3>1 DEF LinkPacket, OnReg2, OnReg3, OnOther, OnSrtAck, OnSrtNak, OnSrtlaAck, Heard,
                  regVars
    <3>2. CASE \E k \in up : LinkDown(k)
      BY <3>2 DEF LinkDown, PendingWithout
    <3>3. CASE Elapse \/ \E k \in up \cap Switchable, on \in BOOLEAN : SetLinkEnabled(k, on)
      BY <3>3 DEF Elapse, SetLinkEnabled, regVars
    <3>4. CASE \E s \in Seqs \cup {Empty}, ok \in BOOLEAN : OnLocalSrtPacket(s, ok)
      BY <3>4 DEF OnLocalSrtPacket, regVars
    <3>5. CASE UNCHANGED vars
      BY <3>5 DEF vars, regVars
    <3> QED
      BY <1>1, <3>1, <3>2, <3>3, <3>4, <3>5 DEF Next
  <2>2. PICK p \in {pending, NoLink}, c \in up' \cup {NoLink} :
          Selects(up', p, c) /\ MakePending(p, c)
    <3>1. CASE LinkUp
      BY <3>1 DEF LinkUp, regVars
    <3>2. CASE Tick
      BY <3>2 DEF Tick
    <3> QED
      BY <2>1, <3>1, <3>2
  <2>3. c # NoLink /\ pending' = c /\ lastReg1' = c
    BY <2>2 DEF MakePending
  <2>4. IsNextInRing(up', lastReg1, c)
    BY <2>2, <2>3 DEF Selects
  <2>5. up' \in SUBSET LinkIds /\ lastReg1 \in LinkIds \cup {NoLink}
    BY <1>1 DEF TypeOK
  <2>6. c # l
    BY <2>3
  <2>7. Nearer(up', lastReg1, c, l)
    <3>1. c \in up'
      BY <2>2, <2>3
    <3> QED
      BY <2>4, <2>5, <2>6, <3>1, RingAdvances
  <2> QED
    BY <2>3, <2>7 DEF Nearer
<1>2. TypeOK /\ TypeOK' /\ [Next]_vars => [Turns]_vars
  BY <1>1
<1> QED
  BY <1>2, TypeCorrect, PTL DEF Spec, TurnsComeCloser, Turns

=============================================================================
