--------------------------- MODULE AbrController ---------------------------
(***************************************************************************)
(* The adaptive bitrate controller: from samples of the SRT send buffer    *)
(* and of the loss counter it decides the target bitrate of the encoder.   *)
(* It cuts by a factor when the network is congested and climbs by a       *)
(* constant step when it is calm.                                          *)
(*                                                                         *)
(* Time.  lastDecreaseNanos and lastIncreaseNanos are ages, saturated at   *)
(* the interval they are compared with: null is as good as long ago.  The  *)
(* age of the last loss count is exact, because a rate is taken of it, and *)
(* is bounded by MaxGap.                                                   *)
(***************************************************************************)
EXTENDS Integers

CONSTANTS
  MinKbps, MaxKbps,
  SndBufHigh, SndBufLow,   (* Thresholds of the send buffer.               *)
  KeepNum, KeepDen,        (* decreaseFactor = KeepNum / KeepDen.          *)
  Step,                    (* increaseStepKbps                             *)
  Interval, Cooldown,      (* increaseInterval, decreaseCooldown           *)
  LossHigh, Second,        (* Losses per second; time units in a second.   *)
  SndBufs,                 (* Readings of the send buffer that count.      *)
  MaxLoss,                 (* Bound: the loss counter.                     *)
  MaxGap,                  (* Bound: time between two counted samples.     *)
  Starts                   (* Bitrates that a new connection starts from.  *)

ASSUME RateAssumption ==
  /\ MinKbps \in Nat /\ MaxKbps \in Nat /\ MinKbps <= MaxKbps
  /\ Step \in Nat \ {0}
  /\ KeepNum \in Nat /\ KeepDen \in Nat \ {0} /\ KeepNum <= KeepDen

ASSUME SampleAssumption ==
  /\ SndBufHigh \in Nat /\ SndBufLow \in Nat /\ SndBufLow <= SndBufHigh
  /\ LossHigh \in Nat /\ Second \in Nat \ {0}
  /\ SndBufs \subseteq Nat /\ MaxLoss \in Nat

ASSUME TimeAssumption ==
  Interval \in Nat /\ Cooldown \in Nat /\ MaxGap \in Nat

ASSUME StartAssumption == Starts \subseteq Nat

VARIABLES
  target,
  sinceDecrease,   (* Age of lastDecreaseNanos.                            *)
  sinceIncrease,   (* Age of lastIncreaseNanos.                            *)
  highStreak,      (* Saturated at 2, the only value it is compared with.  *)
  lossTotal,       (* lastLossTotal, or Unknown.                           *)
  lossAge,         (* Age of lastLossNanos.                                *)
  sample,          (* History: the last sample that was not skipped.       *)
  sinceDrop, sinceRise   (* History: ages of the last time that the target *)
                         (* really dropped and really rose.                *)

streaks == <<highStreak, lossTotal, lossAge>>
ages    == <<sinceDecrease, sinceIncrease>>
history == <<sample, sinceDrop, sinceRise>>
vars    == <<target, ages, streaks, history>>

Unknown  == -1
NoSample == [buf |-> 0, rate |-> 0]
Longest  == IF Interval > Cooldown THEN Interval ELSE Cooldown

Least(a, b)    == IF a < b THEN a ELSE b
Greatest(a, b) == IF a > b THEN a ELSE b
Clamped(k)     == Least(Greatest(k, MinKbps), MaxKbps)

(* a / b rounded half up, for a >= 0 and b > 0.                            *)
Rounded(a, b) == (2 * a + b) \div (2 * b)

-----------------------------------------------------------------------------
(* What one sample says.                                                   *)

(* Losses per second since the last count.  The first sample and one whose *)
(* counter fell (a new connection) only set the mark.                      *)
LossPerSec(total) ==
  IF lossTotal = Unknown \/ total < lossTotal \/ lossAge = 0
  THEN 0
  ELSE Rounded((total - lossTotal) * Second, lossAge)

(* Mutant: a calm sample does not end the streak.                          *)
StreakOfAll(buf) == IF buf > SndBufHigh THEN Least(highStreak + 1, 2) ELSE highStreak

(* The number of high samples in a row with this one.                      *)
Streak(buf) == IF buf > SndBufHigh THEN Least(highStreak + 1, 2) ELSE 0

(* Mutant: a congested network is cut at every sample.                     *)
CutsAtOnce(buf, total) ==
  \/ buf > SndBufHigh /\ (Streak(buf) >= 2 \/ buf >= 2 * SndBufHigh)
  \/ buf <= SndBufHigh /\ LossPerSec(total) > LossHigh

(* One spike is no congestion; a second in a row, or twice the limit, is,  *)
(* and so are too many losses.                                             *)
Cuts(buf, total) ==
  /\ \/ buf > SndBufHigh /\ (Streak(buf) >= 2 \/ buf >= 2 * SndBufHigh)
     \/ buf <= SndBufHigh /\ LossPerSec(total) > LossHigh
  /\ sinceDecrease >= Cooldown

(* Mutant: it climbs only by whole steps.                                  *)
ClimbsWhole(buf, total) ==
  /\ buf <= SndBufHigh /\ buf < SndBufLow /\ LossPerSec(total) <= LossHigh
  /\ target + Step <= MaxKbps
  /\ sinceIncrease >= Interval

Climbs(buf, total) ==
  /\ buf <= SndBufHigh /\ buf < SndBufLow /\ LossPerSec(total) <= LossHigh
  /\ target < MaxKbps
  /\ sinceIncrease >= Interval

(* Mutants: the cut has no floor; it rounds up.                            *)
CutWithoutFloor == Rounded(target * KeepNum, KeepDen)
CutRoundedUp    == Greatest(MinKbps, (target * KeepNum + KeepDen - 1) \div KeepDen)

Cut == Greatest(MinKbps, Rounded(target * KeepNum, KeepDen))

(* Mutant: after a cut the climb goes on as if nothing had happened.       *)
IncreaseAgeKept(cuts) == sinceIncrease

(* sinceIncrease after a sample that does not climb.                       *)
IncreaseAge(cuts) == IF cuts THEN 0 ELSE sinceIncrease

-----------------------------------------------------------------------------
Init ==
  /\ target = Clamped(MaxKbps)
  /\ sinceDecrease = Cooldown
  /\ sinceIncrease = Interval
  /\ highStreak = 0
  /\ lossTotal = Unknown
  /\ lossAge = 0
  /\ sample = NoSample
  /\ sinceDrop = Longest
  /\ sinceRise = Longest

(* A time unit passes.                                                     *)
Wait ==
  /\ lossAge < MaxGap
  /\ lossAge' = lossAge + 1
  /\ sinceDecrease' = Least(sinceDecrease + 1, Cooldown)
  /\ sinceIncrease' = Least(sinceIncrease + 1, Interval)
  /\ sinceDrop' = Least(sinceDrop + 1, Longest)
  /\ sinceRise' = Least(sinceRise + 1, Longest)
  /\ UNCHANGED <<target, highStreak, lossTotal, sample>>

(* A new connection.                                                       *)
Reset(start) ==
  /\ target' = Clamped(start)
  /\ sinceDecrease' = Cooldown
  /\ sinceIncrease' = Interval
  /\ highStreak' = 0
  /\ lossTotal' = Unknown
  /\ lossAge' = 0
  /\ sample' = NoSample
  /\ sinceDrop' = Longest
  /\ sinceRise' = Longest

(* libsrt sometimes reports a negative buffer: the sample is skipped       *)
(* before anything is counted.                                             *)
Skip == UNCHANGED vars

OnSample(buf, total) ==
  /\ LET cuts == Cuts(buf, total)
         climbs == Climbs(buf, total)
     IN  /\ target' = IF cuts THEN Cut
                      ELSE IF climbs THEN Least(MaxKbps, target + Step) ELSE target
         /\ sinceDecrease' = IF cuts THEN 0 ELSE sinceDecrease
         /\ sinceIncrease' = IF climbs THEN 0 ELSE IncreaseAge(cuts)
         /\ highStreak' = IF cuts THEN 0 ELSE Streak(buf)
  /\ lossTotal' = total
  /\ lossAge' = 0
  /\ sample' = [buf |-> buf, rate |-> LossPerSec(total)]
  /\ sinceDrop' = IF target' < target THEN 0 ELSE sinceDrop
  /\ sinceRise' = IF target' > target THEN 0 ELSE sinceRise

Sampled == \E buf \in SndBufs, total \in 0..MaxLoss : OnSample(buf, total)

Next ==
  \/ Wait
  \/ Sampled
  \/ Skip
  \/ \E start \in Starts : Reset(start)

Spec == Init /\ [][Next]_vars

(* The session samples every second while it is live, and only a few of    *)
(* the samples are to be skipped.                                          *)
FairSpec == Spec /\ WF_vars(Wait) /\ SF_vars(Sampled)

-----------------------------------------------------------------------------
(* The target never leaves the range that the user set, and the ages stay  *)
(* within what they are compared with.                                     *)
TypeOK ==
  /\ target \in MinKbps..MaxKbps
  /\ sinceDecrease \in 0..Cooldown
  /\ sinceIncrease \in 0..Interval
  /\ highStreak \in 0..2
  /\ lossTotal \in {Unknown} \cup 0..MaxLoss
  /\ lossAge \in 0..MaxGap
  /\ sample \in [buf : Nat, rate : Nat]
  /\ sinceDrop \in 0..Longest
  /\ sinceRise \in 0..Longest

(* The target climbs only when it has neither dropped nor climbed for the  *)
(* whole interval: a cut puts off the next climb, as the previous climb    *)
(* does.                                                                   *)
ClimbsPatiently ==
  [][Sampled /\ target' > target => sinceDrop >= Interval /\ sinceRise >= Interval]_vars

(* Two cuts are at least a cooldown apart, whatever called for them.       *)
DropsSpaced == [][Sampled /\ target' < target => sinceDrop >= Cooldown]_vars

(* The target drops only for a reason: twice the limit, two high samples   *)
(* in a row with nothing between them, or losses counted since the last    *)
(* sample of the same connection.                                          *)
DropsHaveCause ==
  [][Sampled /\ target' < target =>
       \/ sample'.buf >= 2 * SndBufHigh
       \/ sample.buf > SndBufHigh /\ sample'.buf > SndBufHigh
       \/ lossTotal # Unknown /\ lossTotal' > lossTotal]_vars

Calm      == sample.buf \in 0..(SndBufLow - 1) /\ sample.rate <= LossHigh
Choked    == sample.buf >= 2 * SndBufHigh

(* A network that stays calm gets the whole bitrate back, to the last      *)
(* kilobit, and keeps it, although the step need not divide the range.     *)
CalmRecovers == <>[]Calm => <>[](target = MaxKbps)

(* A network that stays choked is cut down to the floor and stays there.   *)
ChokedReachesFloor == <>[]Choked => <>[](target = MinKbps)

(* A cut takes at least one kilobit off every target above the floor: the  *)
(* rounding does not eat the factor.                                       *)
CutsBite == KeepDen < 2 * (MinKbps + 1) * (KeepDen - KeepNum)

(* A choked network is answered at once: the sample that shows it lowers   *)
(* the target, or the target is at the floor, or it did drop within the    *)
(* cooldown.  A cut that changed nothing at the floor does not use up the  *)
(* cooldown of a later one.  It needs factors that bite, and a climb that  *)
(* waits no shorter than a cut.                                            *)
ChokedIsCut ==
  [][Sampled /\ sample'.buf >= 2 * SndBufHigh =>
       target' < target \/ target = MinKbps \/ sinceDrop < Cooldown]_vars

=============================================================================
