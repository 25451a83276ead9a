---------------------------- MODULE ScalingPolicy ----------------------------
(***************************************************************************)
(* The default scaling policy of daemon/pool.go: a moving average of the   *)
(* target, over MinMax, over a moving average of the load, over AIMD; and  *)
(* the pool that it steers, as the policy sees it on every tick.           *)
(***************************************************************************)
EXTENDS Integers, Sequences

CONSTANTS
    WindowIn,        \* samples of the load that are averaged
    WindowTarget,    \* samples of the target that are averaged
    MinInstances,    \* BBLFSHD_MIN_DRIVER_INSTANCES
    MaxInstances,    \* BBLFSHD_MAX_DRIVER_INSTANCES
    Add,             \* BBLFSHD_POLICY_SCALE_INC
    MulNum, MulDen,  \* BBLFSHD_POLICY_DOWNSCALE_MULT = MulNum / MulDen
    MaxDemand,       \* bound: requests at the same time
    MaxChanges       \* bound: how often the demand changes

ASSUME WindowAssumption == WindowIn \in Nat \ {0} /\ WindowTarget \in Nat \ {0}

ASSUME PolicyAssumption ==
    /\ MinInstances \in Int /\ MaxInstances \in Nat \ {0}
    /\ MinInstances <= MaxInstances  \* otherwise MinMax exceeds MaxInstances
    /\ Add \in Nat \ {0}
    /\ MulNum \in Nat /\ MulDen \in Nat \ {0}
    /\ MaxDemand \in Nat /\ MaxChanges \in Nat

VARIABLES
    loads,       \* the movingAverage of loadMovingAverage
    targets,     \* the movingAverage of targetMovingAverage
    target,      \* the policy's last answer, and the size of the pool
    demand,      \* requests that have or want a driver
    changes,     \* changes of the demand so far
    loadsSeen,   \* history: the last WindowIn loads, oldest first
    targetsSeen  \* history: the last WindowTarget targets, oldest first

vars == <<loads, targets, target, demand, changes, loadsSeen, targetsSeen>>

-----------------------------------------------------------------------------
(* movingAverage                                                           *)

\* math.Ceil(a / b)
CeilDiv(a, b) == -((-a) \div b)

newMovingAverage == [samples |-> <<>>, next |-> 0, sum |-> 0]

\* Faulty variant: the oldest sample stays in the sum.
AddSampleSum(m, window, v) ==
    IF Len(m.samples) < window
    THEN [samples |-> Append(m.samples, v), next |-> m.next + 1, sum |-> m.sum + v]
    ELSE LET next == m.next % window
         IN  [samples |-> [m.samples EXCEPT ![next + 1] = v], next |-> next + 1,
              sum |-> m.sum + v]

\* Faulty variant: the capacity is not a limit.
AddSampleGrowing(m, window, v) ==
    [samples |-> Append(m.samples, v), next |-> m.next + 1, sum |-> m.sum + v]

\* AddSample: append while there is capacity (the window), then overwrite the
\* samples in a circle.
AddSample(m, window, v) ==
    IF Len(m.samples) < window
    THEN [samples |-> Append(m.samples, v), next |-> m.next + 1, sum |-> m.sum + v]
    ELSE LET next == m.next % window
         IN  [samples |-> [m.samples EXCEPT ![next + 1] = v], next |-> next + 1,
              sum |-> (m.sum + v) - m.samples[next + 1]]

\* What AddSample returns.
Average(m) == CeilDiv(m.sum, Len(m.samples))

-----------------------------------------------------------------------------
(* AIMD and MinMax                                                         *)

\* Faulty variant: the decrease is rounded down.
AIMDFloor(total, idle, waiting) ==
    LET load == waiting - idle
        size == IF load >= 0 THEN total + (IF Add > load THEN load ELSE Add)
                ELSE total - ((-load * MulNum) \div MulDen)
    IN  IF size < 1 THEN 1 ELSE size

\* Faulty variant: unused instances make the pool grow.
AIMDSign(total, idle, waiting) ==
    LET load == waiting - idle
        size == IF load >= 0 THEN total + (IF Add > load THEN load ELSE Add)
                ELSE total + CeilDiv(-load * MulNum, MulDen)
    IN  IF size < 1 THEN 1 ELSE size

\* Additive increase by at most the load, multiplicative decrease of what is
\* unused; never less than one instance.
AIMD(total, idle, waiting) ==
    LET load == waiting - idle
        size == IF load >= 0 THEN total + (IF Add > load THEN load ELSE Add)
                ELSE total - CeilDiv(-load * MulNum, MulDen)
    IN  IF size < 1 THEN 1 ELSE size

\* The minimum that defaultScalingPolicy and MinMax settle on.
Minimum ==
    LET min == IF MinInstances <= 0 THEN MaxInstances ELSE MinInstances
    IN  IF min < 1 THEN 1 ELSE min

\* Faulty variant: the maximum is not applied.
MinMaxOpen(v) == IF v < Minimum THEN Minimum ELSE v

MinMax(v) ==
    IF v > MaxInstances THEN MaxInstances
    ELSE IF v < Minimum THEN Minimum ELSE v

\* defaultScalingPolicy under the moving average of the load.
SubTarget(total, idle, waiting) ==
    MinMax(AIMD(total, idle, Average(AddSample(loads, WindowIn, waiting))))

-----------------------------------------------------------------------------
(* The pool as the policy sees it: as many instances as it last asked for, *)
(* and idle instances or waiting requests by the demand.                   *)

Idle == IF demand < target THEN target - demand ELSE 0

Waiting == IF demand > target THEN demand - target ELSE 0

Recent(s, window) == IF Len(s) > window THEN Tail(s) ELSE s

Init ==
    /\ loads = newMovingAverage /\ targets = newMovingAverage
    /\ target = 1
    /\ demand = 0 /\ changes = 0
    /\ loadsSeen = <<>> /\ targetsSeen = <<>>

\* DefaultScalingPolicy().Scale, and runPolicy's clamp.
Scale(total, idle, waiting) ==
    LET v == SubTarget(total, idle, waiting)
    IN  /\ loads' = AddSample(loads, WindowIn, waiting)
        /\ targets' = AddSample(targets, WindowTarget, v)
        /\ target' = LET t == Average(targets') IN IF t < 1 THEN 1 ELSE t
        /\ loadsSeen' = Recent(Append(loadsSeen, waiting), WindowIn)
        /\ targetsSeen' = Recent(Append(targetsSeen, v), WindowTarget)
        /\ UNCHANGED <<demand, changes>>

Tick == Scale(target, Idle, Waiting)

\* Requests come and go.
ChangeDemand ==
    /\ changes < MaxChanges
    /\ changes' = changes + 1
    /\ demand' \in (0..MaxDemand) \ {demand}
    /\ UNCHANGED <<loads, targets, target, loadsSeen, targetsSeen>>

Next == Tick \/ ChangeDemand

\* The ticker of runPolicy never stops while the pool is open.
Spec == Init /\ [][Next]_vars /\ WF_vars(Tick)

-----------------------------------------------------------------------------
\* The sums of the first n elements of a sequence, for each n.
Sums(s) == LET sum[n \in 0..Len(s)] == IF n = 0 THEN 0 ELSE sum[n - 1] + s[n] IN sum

SumOf(s) == Sums(s)[Len(s)]

\* The reference of a moving average: the mean of the last samples, rounded up.
MeanOf(s) == CeilDiv(SumOf(s), Len(s))

\* TypeOK: the windows never outgrow their capacity, and next is the position
\* after the last sample.
TypeOK ==
    /\ Len(loads.samples) <= WindowIn /\ Len(targets.samples) <= WindowTarget
    /\ loads.next \in 0..WindowIn /\ targets.next \in 0..WindowTarget
    /\ target \in Int /\ demand \in 0..MaxDemand /\ changes \in 0..MaxChanges

\* The running sum and the circle of AddSample give the average of exactly the
\* samples of the window, rounded up, however often the circle went round.
WindowAverage ==
    loadsSeen # <<>> => /\ Average(loads) = MeanOf(loadsSeen)
                        /\ Average(targets) = MeanOf(targetsSeen)

\* What MinMax is for: the average over its answers, computed from a running
\* sum, never leaves the limits, and never goes below one.
TargetWithinLimits ==
    targetsSeen # <<>> => target \in Minimum..MaxInstances /\ target >= 1

\* More waiting requests never make the policy ask for fewer instances, and more
\* idle instances never for more, in whatever state the averages are.
Monotone ==
    \A total \in 0..MaxInstances, idle, waiting \in 0..MaxDemand :
        /\ SubTarget(total, idle, waiting) <= SubTarget(total, idle, waiting + 1)
        /\ SubTarget(total, idle + 1, waiting) <= SubTarget(total, idle, waiting)

\* The instances that a demand deserves.
Deserved == MinMax(demand)

\* The control loop settles: when the demand does not change any more, the
\* target reaches it (within the limits) and stays there; the averages over
\* old loads and old targets neither stick nor oscillate.
Settles == <>[](target = Deserved)
=============================================================================
