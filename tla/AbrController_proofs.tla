------------------------ MODULE AbrController_proofs ------------------------
(***************************************************************************)
(* What holds of the bitrate controller for every range, step, factor,     *)
(* threshold and interval.                                                 *)
(***************************************************************************)
EXTENDS AbrController, TLAPS

(* Rounding half up stays in Nat and does not reach past a whole bound.    *)
LEMMA RoundedBound ==
  ASSUME NEW a \in Nat, NEW b \in Nat \ {0}, NEW t \in Nat, a <= t * b
  PROVE  Rounded(a, b) \in Nat /\ Rounded(a, b) <= t
<1> DEFINE q == (2 * a + b) \div (2 * b)
<1>1. 2 * b \in Nat \ {0} /\ 2 * a + b \in Nat
  OBVIOUS
<1>2. q \in Int /\ (2 * b) * q <= 2 * a + b /\ q >= 0
  BY <1>1, Z3
<1>3. ASSUME q >= t + 1 PROVE FALSE
  <2>1. (2 * b) * (t + 1) <= (2 * b) * q
    BY <1>1, <1>2, <1>3, Z3
  <2>2. (2 * b) * (t + 1) = 2 * (t * b) + 2 * b
    BY Z3
  <2>3. t * b \in Nat
    BY Z3
  <2> HIDE DEF q
  <2> QED
    BY <1>1, <1>2, <2>1, <2>2, <2>3
<1> HIDE DEF q
<1>4. q \in Nat /\ q <= t
  BY <1>2, <1>3
<1> QED
  BY <1>4 DEF Rounded, q

(* A cut stays in the range and never raises the target.                   *)
LEMMA CutBound ==
  ASSUME target \in MinKbps..MaxKbps
  PROVE  Cut \in MinKbps..MaxKbps /\ Cut <= target
<1>1. target \in Nat
  BY RateAssumption
<1>2. target * KeepNum \in Nat /\ target * KeepNum <= target * KeepDen
  BY <1>1, RateAssumption, Z3
<1>3. Rounded(target * KeepNum, KeepDen) \in Nat
      /\ Rounded(target * KeepNum, KeepDen) <= target
  BY <1>1, <1>2, RateAssumption, RoundedBound
<1> QED
  BY <1>1, <1>3, RateAssumption DEF Cut, Greatest

LEMMA LossType ==
  ASSUME NEW total \in 0..MaxLoss, lossTotal \in {Unknown} \cup 0..MaxLoss, lossAge \in 0..MaxGap
  PROVE  LossPerSec(total) \in Nat
<1>1. CASE lossTotal = Unknown \/ total < lossTotal \/ lossAge = 0
  BY <1>1 DEF LossPerSec
<1>2. CASE ~(lossTotal = Unknown \/ total < lossTotal \/ lossAge = 0)
  <2> DEFINE a == (total - lossTotal) * Second
  <2>1. a \in Nat /\ lossAge \in Nat \ {0}
    <3>1. total - lossTotal \in Nat /\ lossAge \in Nat \ {0}
      BY <1>2, SampleAssumption, TimeAssumption
    <3> QED
      BY <3>1, SampleAssumption, Z3
  <2>2. a <= a * lossAge
    <3> HIDE DEF a
    <3> QED
      BY <2>1, Z3
  <2>3. Rounded(a, lossAge) \in Nat
    <3> HIDE DEF a
    <3> QED
      BY <2>1, <2>2, RoundedBound
  <2> QED
    BY <1>2, <2>3 DEF LossPerSec
<1> QED
  BY <1>1, <1>2

(* The history of the target against the clocks that the code keeps.       *)
(* A clock never runs ahead of the event it stands for: whenever the       *)
(* target really dropped or rose, the clock was set back as well.          *)
ClocksHonest ==
  /\ sinceDecrease <= sinceDrop
  /\ sinceIncrease <= sinceDrop
  /\ sinceIncrease <= sinceRise

(* A streak of high samples is not older than the last sample.             *)
StreakHonest == highStreak > 0 => sample.buf > SndBufHigh

Inv == TypeOK /\ ClocksHonest /\ StreakHonest

LEMMA InvInit == Init => Inv
<1> SUFFICES ASSUME Init PROVE Inv
  OBVIOUS
<1>1. target \in MinKbps..MaxKbps
  BY RateAssumption DEF Init, Clamped, Least, Greatest
<1>2. Longest \in Nat /\ Longest >= Interval /\ Longest >= Cooldown
  BY TimeAssumption DEF Longest
<1> QED
  BY <1>1, <1>2, TimeAssumption
  DEF Init, Inv, TypeOK, ClocksHonest, StreakHonest, Unknown, NoSample

(* What one counted sample does, in terms the properties are about.        *)
LEMMA SampleStep ==
  ASSUME Inv, NEW buf \in SndBufs, NEW total \in 0..MaxLoss, OnSample(buf, total)
  PROVE  /\ target' \in MinKbps..MaxKbps
         /\ target' < target => /\ Cuts(buf, total)
                                /\ sinceDecrease' = 0 /\ sinceIncrease' = 0
         /\ target' > target => Climbs(buf, total) /\ sinceIncrease' = 0
<1>1. target \in MinKbps..MaxKbps /\ target \in Nat
  BY RateAssumption DEF Inv, TypeOK
<1>2. Cut \in MinKbps..MaxKbps /\ Cut <= target
  BY <1>1, CutBound
<1>3. CASE Cuts(buf, total)
  <2>1. target' = Cut /\ sinceDecrease' = 0
    BY <1>3 DEF OnSample
  <2>2. sinceIncrease' = 0
    BY <1>3 DEF OnSample, IncreaseAge
  <2> QED
    BY <1>1, <1>2, <1>3, <2>1, <2>2, RateAssumption
<1>4. CASE ~Cuts(buf, total) /\ Climbs(buf, total)
  <2>1. target' = Least(MaxKbps, target + Step) /\ sinceIncrease' = 0
    BY <1>4 DEF OnSample
  <2> QED
    BY <1>1, <1>4, <2>1, RateAssumption DEF Least
<1>5. CASE ~Cuts(buf, total) /\ ~Climbs(buf, total)
  <2>1. target' = target
    BY <1>5 DEF OnSample
  <2> QED
    BY <1>1, <2>1
<1> QED
  BY <1>3, <1>4, <1>5

LEMMA InvStep == Inv /\ [Next]_vars => Inv'
<1> SUFFICES ASSUME Inv, [Next]_vars PROVE Inv'
  OBVIOUS
<1>0. Longest \in Nat /\ Longest >= Interval /\ Longest >= Cooldown
  BY TimeAssumption DEF Longest
<1>1. CASE Wait
  <2>1. TypeOK'
    BY <1>0, <1>1, TimeAssumption DEF Wait, Inv, TypeOK, Least
  <2>2. ClocksHonest'
    BY <1>0, <1>1, TimeAssumption DEF Wait, Inv, TypeOK, ClocksHonest, Least
  <2>3. StreakHonest'
    BY <1>1 DEF Wait, Inv, StreakHonest
  <2> QED
    BY <2>1, <2>2, <2>3 DEF Inv
<1>2. CASE Sampled
  <2>1. PICK buf \in SndBufs, total \in 0..MaxLoss : OnSample(buf, total)
    BY <1>2 DEF Sampled
  <2>2. /\ target' \in MinKbps..MaxKbps
        /\ target' < target => sinceDecrease' = 0 /\ sinceIncrease' = 0
        /\ target' > target => sinceIncrease' = 0
    BY <2>1, SampleStep
  <2>3. sinceDecrease' \in {0, sinceDecrease} /\ sinceIncrease' \in {0, sinceIncrease}
    BY <2>1 DEF OnSample, IncreaseAge
  <2>4. highStreak' \in 0..2 /\ (highStreak' > 0 => buf > SndBufHigh)
    <3>1. highStreak' \in {0, Streak(buf)}
      BY <2>1 DEF OnSample
    <3>2. Streak(buf) \in 0..2 /\ (Streak(buf) > 0 => buf > SndBufHigh)
      BY DEF Inv, TypeOK, Streak, Least
    <3> QED
      BY <3>1, <3>2
  <2>5. LossPerSec(total) \in Nat
    BY LossType DEF Inv, TypeOK
  <2>6. /\ lossTotal' = total /\ lossAge' = 0
        /\ sample' = [buf |-> buf, rate |-> LossPerSec(total)]
        /\ sinceDrop' = IF target' < target THEN 0 ELSE sinceDrop
        /\ sinceRise' = IF target' > target THEN 0 ELSE sinceRise
    BY <2>1 DEF OnSample
  <2>7. TypeOK'
    BY <1>0, <2>2, <2>3, <2>4, <2>5, <2>6, SampleAssumption, TimeAssumption DEF Inv, TypeOK
  <2>8. ClocksHonest'
    BY <2>2, <2>3, <2>6, TimeAssumption DEF Inv, TypeOK, ClocksHonest
  <2>9. StreakHonest'
    BY <2>4, <2>6 DEF StreakHonest
  <2> QED
    BY <2>7, <2>8, <2>9 DEF Inv
<1>3. CASE \E start \in Starts : Reset(start)
  <2>1. PICK start \in Starts : Reset(start)
    BY <1>3
  <2>2. target' \in MinKbps..MaxKbps
    BY <2>1, RateAssumption, StartAssumption DEF Reset, Clamped, Least, Greatest
  <2> QED
    BY <1>0, <2>1, <2>2, TimeAssumption
    DEF Reset, Inv, TypeOK, ClocksHonest, StreakHonest, Unknown, NoSample
<1>4. CASE UNCHANGED vars
  BY <1>4 DEF Inv, TypeOK, ClocksHonest, StreakHonest, vars, ages, streaks, history
<1> QED
  BY <1>1, <1>2, <1>3, <1>4 DEF Next, Skip

LEMMA InvHolds == Spec => []Inv
<1> QED
  BY InvInit, InvStep, PTL DEF Spec

(* The target never leaves the range that the user set.                    *)
THEOREM TypeCorrect == Spec => []TypeOK
<1>1. Inv => TypeOK
  BY DEF Inv
<1> QED
  BY <1>1, InvHolds, PTL

(* The target climbs only after a whole interval without a drop or a climb. *)
THEOREM Patience == Spec => ClimbsPatiently
<1>1. Inv /\ [Next]_vars
      => [Sampled /\ target' > target => sinceDrop >= Interval /\ sinceRise >= Interval]_vars
  <2> SUFFICES ASSUME Inv, Sampled, target' > target
               PROVE  sinceDrop >= Interval /\ sinceRise >= Interval
    OBVIOUS
  <2>1. PICK buf \in SndBufs, total \in 0..MaxLoss : OnSample(buf, total)
    BY DEF Sampled
  <2>2. sinceIncrease >= Interval
    BY <2>1, SampleStep DEF Climbs
  <2> QED
    BY <2>2, TimeAssumption DEF Inv, ClocksHonest, TypeOK
<1> QED
  BY <1>1, InvHolds, PTL DEF Spec, ClimbsPatiently

(* Two cuts are at least a cooldown apart.                                 *)
THEOREM Spacing == Spec => DropsSpaced
<1>1. Inv /\ [Next]_vars => [Sampled /\ target' < target => sinceDrop >= Cooldown]_vars
  <2> SUFFICES ASSUME Inv, Sampled, target' < target PROVE sinceDrop >= Cooldown
    OBVIOUS
  <2>1. PICK buf \in SndBufs, total \in 0..MaxLoss : OnSample(buf, total)
    BY DEF Sampled
  <2>2. sinceDecrease >= Cooldown
    BY <2>1, SampleStep DEF Cuts
  <2> QED
    BY <2>2, TimeAssumption DEF Inv, ClocksHonest, TypeOK
<1> QED
  BY <1>1, InvHolds, PTL DEF Spec, DropsSpaced

(* No drop without a cause that the samples show.                          *)
THEOREM Causes == Spec => DropsHaveCause
<1>1. Inv /\ [Next]_vars
      => [Sampled /\ target' < target =>
            \/ sample'.buf >= 2 * SndBufHigh
            \/ sample.buf > SndBufHigh /\ sample'.buf > SndBufHigh
            \/ lossTotal # Unknown /\ lossTotal' > lossTotal]_vars
  <2> SUFFICES ASSUME Inv, Sampled, target' < target
               PROVE  \/ sample'.buf >= 2 * SndBufHigh
                      \/ sample.buf > SndBufHigh /\ sample'.buf > SndBufHigh
                      \/ lossTotal # Unknown /\ lossTotal' > lossTotal
    OBVIOUS
  <2>1. PICK buf \in SndBufs, total \in 0..MaxLoss : OnSample(buf, total)
    BY DEF Sampled
  <2>2. Cuts(buf, total)
    BY <2>1, SampleStep
  <2>3. sample'.buf = buf /\ lossTotal' = total
    BY <2>1 DEF OnSample
  <2>4. CASE buf >= 2 * SndBufHigh
    BY <2>3, <2>4
  <2>5. CASE buf > SndBufHigh /\ Streak(buf) >= 2
    <3>1. highStreak > 0
      BY <2>5 DEF Streak, Least, Inv, TypeOK
    <3> QED
      BY <2>3, <2>5, <3>1 DEF Inv, StreakHonest
  <2>6. CASE LossPerSec(total) > LossHigh
    <3>1. LossPerSec(total) # 0
      BY <2>6, SampleAssumption
    <3>2. lossTotal # Unknown /\ ~(total < lossTotal) /\ lossAge # 0
      BY <3>1 DEF LossPerSec
    <3>3. total # lossTotal
      <4>1. SUFFICES ASSUME total = lossTotal PROVE FALSE
        OBVIOUS
      <4>2. LossPerSec(total) = Rounded(0, lossAge)
        BY <3>2, <4>1, SampleAssumption DEF LossPerSec
      <4>3. lossAge \in Nat \ {0}
        BY <3>2, TimeAssumption DEF Inv, TypeOK
      <4>4. Rounded(0, lossAge) <= 0 /\ Rounded(0, lossAge) \in Nat
        BY <4>3, RoundedBound
      <4> QED
        BY <3>1, <4>2, <4>4
    <3> QED
      BY <2>3, <3>2, <3>3 DEF Inv, TypeOK, Unknown
  <2> QED
    BY <2>2, <2>4, <2>5, <2>6 DEF Cuts
<1> QED
  BY <1>1, InvHolds, PTL DEF Spec, DropsHaveCause
-----------------------------------------------------------------------------
(* A cut above the floor lowers the target, if the factor bites there: it  *)
(* takes off more than the rounding gives back.                            *)
LEMMA CutLowers ==
  ASSUME CutsBite, target \in MinKbps..MaxKbps, target > MinKbps
  PROVE  Cut < target
<1> DEFINE a == target * KeepNum
           gap == KeepDen - KeepNum
           q == (2 * a + KeepDen) \div (2 * KeepDen)
<1>1. /\ target \in Nat /\ MinKbps \in Nat /\ target >= MinKbps + 1
      /\ KeepNum \in Nat /\ KeepDen \in Nat \ {0} /\ gap \in Nat
  BY RateAssumption
<1>2. a \in Nat /\ a + target * gap = target * KeepDen /\ target * KeepDen \in Nat
  BY <1>1, Z3
<1>3. KeepDen < 2 * (target * gap)
  <2>1. (MinKbps + 1) * gap <= target * gap /\ target * gap \in Nat
    <3> HIDE DEF gap
    <3> QED
      BY <1>1, Z3
  <2>2. KeepDen < 2 * ((MinKbps + 1) * gap)
    <3>1. 2 * (MinKbps + 1) * gap = 2 * ((MinKbps + 1) * gap)
      <4> HIDE DEF gap
      <4> QED
        BY <1>1, Z3
    <3> QED
      BY <3>1 DEF CutsBite
  <2>3. (MinKbps + 1) * gap \in Nat
    <3> HIDE DEF gap
    <3> QED
      BY <1>1, Z3
  <2> HIDE DEF gap
  <2> QED
    BY <1>1, <2>1, <2>2, <2>3
<1>4. 2 * a + KeepDen < 2 * (target * KeepDen)
  <2> target * gap \in Nat
    <3> HIDE DEF gap
    <3> QED
      BY <1>1, Z3
  <2> HIDE DEF a, gap
  <2> QED
    BY <1>1, <1>2, <1>3
<1>5. q \in Int /\ (2 * KeepDen) * q <= 2 * a + KeepDen /\ q >= 0
  <2>1. 2 * KeepDen \in Nat \ {0} /\ 2 * a + KeepDen \in Nat
    <3> HIDE DEF a
    <3> QED
      BY <1>1, <1>2
  <2> HIDE DEF a
  <2> QED
    BY <2>1, Z3
<1>6. q < target
  <2> SUFFICES ASSUME q >= target PROVE FALSE
    BY <1>1, <1>5
  <2>1. (2 * KeepDen) * target <= (2 * KeepDen) * q
    <3> HIDE DEF q
    <3> QED
      BY <1>1, <1>5, Z3
  <2>2. (2 * KeepDen) * target = 2 * (target * KeepDen)
    BY <1>1, Z3
  <2>3. (2 * KeepDen) * q \in Int
    <3> HIDE DEF q
    <3> QED
      BY <1>1, <1>5
  <2> HIDE DEF a, q
  <2> QED
    BY <1>1, <1>2, <1>4, <1>5, <2>1, <2>2, <2>3
<1>7. Rounded(target * KeepNum, KeepDen) = q
  BY DEF Rounded
<1> HIDE DEF q
<1> QED
  BY <1>1, <1>5, <1>6, <1>7 DEF Cut, Greatest

(* While the cooldown of a cut that changed nothing runs, the target is at *)
(* the floor: it cannot have climbed since, because the cut put off the    *)
(* climb for longer.                                                       *)
FloorInv ==
  /\ sinceDecrease < Cooldown => sinceIncrease <= sinceDecrease
  /\ sinceDecrease < Cooldown /\ sinceDecrease < sinceDrop => target = MinKbps

LEMMA FloorStep ==
  ASSUME CutsBite, Cooldown <= Interval, Inv, FloorInv, [Next]_vars
  PROVE  FloorInv'
<1>0. Longest \in Nat /\ Longest >= Interval /\ Longest >= Cooldown
  BY TimeAssumption DEF Longest
<1>1. CASE Wait
  BY <1>0, <1>1, TimeAssumption DEF Wait, Inv, TypeOK, FloorInv, Least
<1>2. CASE Sampled
  <2> PICK buf \in SndBufs, total \in 0..MaxLoss : OnSample(buf, total)
    BY <1>2 DEF Sampled
  <2>1. target \in MinKbps..MaxKbps /\ MinKbps \in Nat /\ MaxKbps \in Nat
    BY RateAssumption DEF Inv, TypeOK
  <2>2. CASE Cuts(buf, total)
    <3>1. target' = Cut /\ sinceDecrease' = 0
          /\ sinceDrop' = IF target' < target THEN 0 ELSE sinceDrop
      BY <2>2 DEF OnSample
    <3>2. sinceIncrease' = 0
      BY <2>2 DEF OnSample, IncreaseAge
    <3>3. target' < target \/ target' = MinKbps
      <4>1. CASE target > MinKbps
        BY <2>1, <3>1, <4>1, CutLowers
      <4>2. CASE ~(target > MinKbps)
        BY <2>1, <3>1, <4>2, CutBound
      <4> QED
        BY <4>1, <4>2
    <3> QED
      BY <3>1, <3>2, <3>3 DEF FloorInv
  <2>3. CASE ~Cuts(buf, total) /\ Climbs(buf, total)
    <3>1. sinceIncrease >= Interval /\ sinceDecrease' = sinceDecrease
      BY <2>3 DEF OnSample, Climbs
    <3>2. ~(sinceDecrease < Cooldown)
      BY <3>1, TimeAssumption DEF Inv, TypeOK, FloorInv
    <3> QED
      BY <3>1, <3>2 DEF FloorInv
  <2>4. CASE ~Cuts(buf, total) /\ ~Climbs(buf, total)
    <3>1. target' = target /\ sinceDecrease' = sinceDecrease /\ sinceIncrease' = sinceIncrease
      BY <2>4 DEF OnSample, IncreaseAge
    <3>2. sinceDrop' = sinceDrop
      BY <2>1, <3>1 DEF OnSample
    <3> QED
      BY <3>1, <3>2 DEF FloorInv
  <2> QED
    BY <2>2, <2>3, <2>4
<1>3. CASE \E start \in Starts : Reset(start)
  BY <1>3, TimeAssumption DEF Reset, FloorInv
<1>4. CASE UNCHANGED vars
  BY <1>4 DEF FloorInv, vars, ages, history
<1> QED
  BY <1>1, <1>2, <1>3, <1>4 DEF Next, Skip

(* With a factor that bites and a climb that waits no shorter than a cut,  *)
(* a choked network lowers the target at once, down to the floor, at most  *)
(* one drop per cooldown.                                                  *)
THEOREM ChokedCut ==
  ASSUME CutsBite, Cooldown <= Interval, SndBufHigh > 0
  PROVE  Spec => ChokedIsCut
<1>1. Init => FloorInv
  BY TimeAssumption DEF Init, FloorInv
<1>2. Inv /\ FloorInv /\ [Next]_vars => FloorInv'
  BY FloorStep
<1>3. Inv /\ FloorInv /\ [Next]_vars
      => [Sampled /\ sample'.buf >= 2 * SndBufHigh =>
            target' < target \/ target = MinKbps \/ sinceDrop < Cooldown]_vars
  <2> SUFFICES ASSUME Inv, FloorInv, Sampled, sample'.buf >= 2 * SndBufHigh,
                      target # MinKbps, ~(sinceDrop < Cooldown)
               PROVE  target' < target
    OBVIOUS
  <2> PICK buf \in SndBufs, total \in 0..MaxLoss : OnSample(buf, total)
    BY DEF Sampled
  <2>1. target \in MinKbps..MaxKbps /\ target > MinKbps
    BY RateAssumption DEF Inv, TypeOK
  <2>2. sample'.buf = buf
    BY DEF OnSample
  <2>3. buf >= 2 * SndBufHigh /\ buf > SndBufHigh
    BY <2>2, SampleAssumption
  <2>4. sinceDecrease >= Cooldown
    BY TimeAssumption DEF Inv, TypeOK, FloorInv
  <2>5. Cuts(buf, total)
    BY <2>3, <2>4 DEF Cuts
  <2>6. target' = Cut
    BY <2>5 DEF OnSample
  <2> QED
    BY <2>1, <2>6, CutLowers
<1> QED
  BY <1>1, <1>2, <1>3, InvHolds, PTL DEF Spec, ChokedIsCut

=============================================================================
