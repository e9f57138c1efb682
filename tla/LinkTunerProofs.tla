-------------------------- MODULE LinkTunerProofs --------------------------
(***************************************************************************)
(* Proofs about LinkTuner, for every ladder, budget, threshold and bound   *)
(* its assumptions allow.                                                  *)
(*                                                                         *)
(* The invariant proved inductive is IInv.  To the properties themselves   *)
(* it adds what the steps need of each other: that nothing the model of    *)
(* inverter does not serve ever counts as answered (or a silent block      *)
(* could pass for a crowded line), that quiet and crowded polls were all   *)
(* counted at the gap held, and that the failed opens the tuner has        *)
(* counted or will count are all unspent.                                  *)
(***************************************************************************)
EXTENDS LinkTuner, TLAPS

AnsweredServed == answered \cap Unserved = {}

CountsSince == quiet <= since /\ crowded <= since

FailuresUnspent ==
    unspent >= Smaller(FailedOpens, badOpens + failedOpens)

IInv ==
    /\ TypeOK
    /\ UnitHoldsTuning
    /\ CountersBelowThresholds
    /\ OnlyTroubleWidens
    /\ AnsweredServed
    /\ CountsSince
    /\ PatienceCoversGap
    /\ FailuresUnspent

-----------------------------------------------------------------------------
(***************************************************************************)
(* Arithmetic and the ladder.                                              *)
(***************************************************************************)
\* Smaller and Larger are one of their arguments and bound both.
LEMMA SmallerLarger ==
    ASSUME NEW a \in Int, NEW b \in Int
    PROVE  /\ Smaller(a, b) \in {a, b} /\ Smaller(a, b) <= a /\ Smaller(a, b) <= b
           /\ Larger(a, b) \in {a, b} /\ Larger(a, b) >= a /\ Larger(a, b) >= b
BY DEF Smaller, Larger

\* A product of naturals grows with its factor.
LEMMA ProductMonotone ==
    ASSUME NEW a \in Nat, NEW b \in Nat, NEW n \in Nat, a <= b
    PROVE  a * n \in Nat /\ b * n \in Nat /\ a * n <= b * n
  <1> DEFINE d == b - a
  <1>1. d \in Nat /\ b = a + d
    OBVIOUS
  <1>2. a * n \in Nat /\ d * n \in Nat
    OBVIOUS
  <1>3. b * n = a * n + d * n
    BY <1>1
  <1>4. QED BY <1>2, <1>3

\* Gaps and pauses are naturals.
LEMMA LadderTypes ==
    /\ Gaps \subseteq Nat /\ Pauses \subseteq Nat
    /\ Steps \subseteq Gaps /\ Delays \subseteq Pauses
    /\ 0 \in Gaps /\ 0 \in Pauses
BY LaddersAssumption DEF Gaps, Pauses

\* A step up at most doubles the patience restore() gives, a step down
\* never raises it.
LEMMA BackoffSteps ==
    ASSUME NEW a \in Gaps, NEW b \in Steps, NextStep(a, b)
    PROVE  /\ Backoff[a] \in QuietPolls..MaxQuietPolls
           /\ Backoff[b] = Smaller(2 * Backoff[a], MaxQuietPolls)
           /\ Backoff[a] <= Backoff[b]
  <1>1. /\ Backoff[a] \in QuietPolls..MaxQuietPolls
        /\ Backoff[b] = Smaller(2 * Backoff[a], MaxQuietPolls)
    BY BackoffAssumption
  <1>2. Backoff[a] <= Backoff[b]
    BY <1>1, ThresholdsAssumption DEF Smaller
  <1>3. QED BY <1>1, <1>2

-----------------------------------------------------------------------------
(***************************************************************************)
(* What the parts of one observation do.                                   *)
(***************************************************************************)
\* Widening moves to the next step, and only within the budget.
LEMMA WidenFacts ==
    ASSUME TypeOK, UnitHoldsTuning, readsPerPoll' \in Nat, Widen,
           Backoff[spacing] <= requiredQuiet
    PROVE  /\ spacing' \in Gaps /\ unitGap' = spacing'
           /\ crowded' = 0 /\ quiet' = 0
           /\ requiredQuiet' \in QuietPolls..MaxQuietPolls
           /\ spacing' # spacing =>
                spacing' > spacing /\ spacing' * readsPerPoll' <= Budget
           /\ Backoff[spacing'] <= requiredQuiet'
  <1>1. CASE Wider(readsPerPoll') = {} /\ KeepGap
    BY <1>1 DEF Widen, KeepGap, TypeOK, UnitHoldsTuning
  <1>2. ASSUME NEW gap \in Wider(readsPerPoll'), WidenTo(gap)
        PROVE  /\ spacing' = gap /\ unitGap' = gap
               /\ gap \in Steps /\ gap > spacing
               /\ gap * readsPerPoll' <= Budget
               /\ requiredQuiet' \in QuietPolls..MaxQuietPolls
               /\ Backoff[gap] <= requiredQuiet'
    <2>1. /\ gap \in Steps /\ spacing < gap /\ gap * readsPerPoll' <= Budget
          /\ gap \in Nat /\ spacing \in Nat
      BY LadderTypes DEF Wider, TypeOK
    <2>2. NextStep(spacing, gap)
      <3> SUFFICES ASSUME NEW step \in Steps, spacing < step
                   PROVE  gap <= step
        BY <2>1 DEF NextStep, TypeOK
      <3>0. step \in Nat
        BY LadderTypes
      <3>1. CASE step * readsPerPoll' <= Budget
        BY <3>1, <1>2 DEF Wider, WidenTo
      <3>2. CASE ~(step * readsPerPoll' <= Budget)
        <4>1. CASE step < gap
          <5>1. step <= gap
            BY <4>1, <3>0, <2>1
          <5>2. /\ step * readsPerPoll' \in Nat /\ gap * readsPerPoll' \in Nat
                /\ step * readsPerPoll' <= gap * readsPerPoll'
            BY <5>1, <3>0, <2>1, ProductMonotone
          <5>3. \A x, y, z \in Nat : x <= y /\ y <= z => x <= z
            OBVIOUS
          <5>4. Budget \in Nat
            BY LaddersAssumption
          <5>5. step * readsPerPoll' <= Budget
            BY <5>2, <5>3, <5>4, <2>1
          <5>6. QED BY <5>5, <3>2
        <4>2. CASE gap <= step
          BY <4>2
        <4>3. QED BY <4>1, <4>2, <3>0, <2>1
      <3>3. QED BY <3>1, <3>2
    <2>3. /\ Backoff[spacing] \in QuietPolls..MaxQuietPolls
          /\ Backoff[gap] = Smaller(2 * Backoff[spacing], MaxQuietPolls)
      BY <2>1, <2>2, BackoffSteps DEF TypeOK
    <2>4. requiredQuiet' = Smaller(2 * requiredQuiet, MaxQuietPolls)
      BY <1>2 DEF WidenTo
    <2>5. requiredQuiet \in QuietPolls..MaxQuietPolls
      BY DEF TypeOK
    <2>6. /\ requiredQuiet' \in QuietPolls..MaxQuietPolls
          /\ Backoff[gap] <= requiredQuiet'
      BY <2>3, <2>4, <2>5, ThresholdsAssumption DEF Smaller
    <2>7. QED BY <1>2, <2>1, <2>6 DEF WidenTo
  <1>3. QED BY <1>1, <1>2, LadderTypes DEF Widen

\* Narrowing moves to the step below, and spends no patience.
LEMMA NarrowFacts ==
    ASSUME TypeOK, UnitHoldsTuning, Narrow,
           Backoff[spacing] <= requiredQuiet
    PROVE  /\ spacing' \in Gaps /\ unitGap' = spacing'
           /\ quiet' = 0
           /\ requiredQuiet' = requiredQuiet
           /\ spacing' # spacing => spacing' < spacing
           /\ Backoff[spacing'] <= requiredQuiet'
  <1>1. CASE spacing = 0 /\ KeepGap
    BY <1>1 DEF Narrow, KeepGap, TypeOK, UnitHoldsTuning
  <1>2. ASSUME spacing # 0, NEW gap \in Gaps, NarrowTo(gap)
        PROVE  /\ spacing' = gap /\ unitGap' = gap /\ gap < spacing
               /\ requiredQuiet' = requiredQuiet
               /\ Backoff[gap] <= requiredQuiet
    <2>1. /\ spacing \in Steps /\ spacing \in Nat /\ gap \in Nat
          /\ gap < spacing
          /\ \A other \in Steps : other < spacing => other <= gap
      BY <1>2, LadderTypes DEF TypeOK, Gaps, NarrowTo
    <2>2. NextStep(gap, spacing)
      <3> SUFFICES ASSUME NEW step \in Steps, gap < step
                   PROVE  spacing <= step
        BY <2>1 DEF NextStep
      <3>1. step \in Nat
        BY LadderTypes
      <3>2. QED BY <2>1, <3>1
    <2>3. /\ Backoff[gap] \in QuietPolls..MaxQuietPolls
          /\ Backoff[spacing] = Smaller(2 * Backoff[gap], MaxQuietPolls)
          /\ Backoff[gap] <= Backoff[spacing]
      BY <2>1, <2>2, BackoffSteps
    <2>4. Backoff[gap] <= requiredQuiet
      BY <2>3, ThresholdsAssumption DEF TypeOK, Smaller
    <2>5. QED BY <1>2, <2>1, <2>4 DEF NarrowTo
  <1>3. QED BY <1>1, <1>2 DEF Narrow

\* Everything the gap's half of observe() does to the state it keeps.
LEMMA SpacingFacts ==
    ASSUME TypeOK, UnitHoldsTuning, CountersBelowThresholds,
           Backoff[spacing] <= requiredQuiet,
           readsPerPoll' \in Nat, NEW r, ObserveSpacing(r)
    PROVE  /\ spacing' \in Gaps /\ unitGap' = spacing'
           /\ crowded' \in Nat /\ crowded' < CrowdedPolls
           /\ crowded' <= crowded + 1
           /\ requiredQuiet' \in QuietPolls..MaxQuietPolls
           /\ quiet' \in Nat /\ quiet' < requiredQuiet'
           /\ quiet' <= quiet + 1
           /\ crowded' = 0 \/ quiet' = 0
           /\ spacing' # spacing => crowded' = 0 /\ quiet' = 0
           /\ spacing' # spacing =>
                \/ spacing' < spacing /\ quiet + 1 >= requiredQuiet
                \/ /\ spacing' > spacing
                   /\ spacing' * readsPerPoll' <= Budget
                   /\ \/ Desynced(r)
                      \/ Crowding(r) /\ crowded + 1 >= CrowdedPolls
           /\ Backoff[spacing'] <= requiredQuiet'
  <1>0. /\ crowded \in Nat /\ quiet \in Nat
        /\ CrowdedPolls \in Nat \ {0} /\ QuietPolls \in Nat \ {0}
        /\ MaxQuietPolls \in Nat
        /\ requiredQuiet \in QuietPolls..MaxQuietPolls
        /\ spacing \in Gaps /\ spacing \in Nat
    BY ThresholdsAssumption, LadderTypes DEF TypeOK
  <1>1. CASE Desynced(r) /\ Widen
    BY <1>0, <1>1, WidenFacts
  <1>2. CASE Crowding(r) /\ crowded + 1 >= CrowdedPolls /\ Widen
    BY <1>0, <1>2, WidenFacts
  <1>3. CASE /\ crowded + 1 < CrowdedPolls
             /\ crowded' = crowded + 1
             /\ quiet' = 0
             /\ KeepGap
    BY <1>0, <1>3 DEF KeepGap, UnitHoldsTuning
  <1>4. CASE crowded' = 0 /\ quiet + 1 >= requiredQuiet /\ Narrow
    BY <1>0, <1>4, NarrowFacts
  <1>5. CASE /\ crowded' = 0
             /\ quiet + 1 < requiredQuiet
             /\ quiet' = quiet + 1
             /\ KeepGap
    BY <1>0, <1>5 DEF KeepGap, UnitHoldsTuning
  <1>6. QED
    BY <1>1, <1>2, <1>3, <1>4, <1>5
       DEF ObserveSpacing, CrowdedPoll, QuietPoll

\* What widens is a desync, a busy device or a served component's silence.
LEMMA CrowdingIsTrouble ==
    ASSUME NEW r \in Reports, AnsweredServed, Desynced(r) \/ Crowding(r)
    PROVE  ShowsTrouble(r)
  <1>1. PICK c \in Failed(r) :
            \/ r.failed[c] \in {"desync", "busy"}
            \/ r.failed[c] = "timeout" /\ c \in answered
    BY DEF Desynced, Crowding
  <1>2. c \in answered => c \notin Unserved
    BY DEF AnsweredServed
  <1>3. QED BY <1>1, <1>2 DEF ShowsTrouble

\* Everything the pause's half of observe() does to the state it keeps.
LEMMA OpeningFacts ==
    ASSUME TypeOK, UnitHoldsTuning, CountersBelowThresholds,
           FailuresUnspent, ObserveOpening, RecordPause
    PROVE  /\ opens' = 0 /\ failedOpens' = 0
           /\ delay' \in Pauses /\ unitPause' = delay'
           /\ badOpens' \in Nat /\ badOpens' < FailedOpens
           /\ unspent' \in 0..FailedOpens
           /\ FailuresUnspent'
           /\ delay' # delay => delay' > delay /\ unspent >= FailedOpens
  <1>1. /\ opens \in Nat /\ failedOpens \in Nat /\ badOpens \in Nat
        /\ unspent \in 0..FailedOpens /\ FailedOpens \in Nat \ {0}
        /\ badOpens < FailedOpens
        /\ delay \in Pauses /\ unitPause = delay
    BY ThresholdsAssumption, TimedUnitBounds
       DEF TypeOK, TimedUnitTypeOK, UnitHoldsTuning, CountersBelowThresholds
  <1>2. opens' = 0 /\ failedOpens' = 0
    BY DEF ObserveOpening, TakeOpens
  <1>3. unspent >= Smaller(FailedOpens, badOpens + failedOpens)
    BY DEF FailuresUnspent
  <1>4. CASE /\ failedOpens = 0
             /\ badOpens' = IF opens > 0 THEN 0 ELSE badOpens
             /\ KeepPause
    BY <1>1, <1>2, <1>3, <1>4
       DEF KeepPause, RecordPause, FailuresUnspent, Smaller
  <1>5. CASE /\ ~EnoughFailed
             /\ badOpens' = badOpens + failedOpens
             /\ KeepPause
    BY <1>1, <1>2, <1>3, <1>5
       DEF KeepPause, RecordPause, EnoughFailed, FailuresUnspent, Smaller
  <1>6. CASE EnoughFailed /\ badOpens' = 0 /\ Lengthen
    <2>1. unspent >= FailedOpens
      BY <1>1, <1>3, <1>6 DEF EnoughFailed, Smaller
    <2>2. /\ delay' \in Pauses /\ unitPause' = delay'
          /\ delay' # delay => delay' > delay
      BY <1>1, <1>6, LadderTypes DEF Lengthen, LengthenTo, KeepPause
    <2>3. unspent' \in 0..FailedOpens
      BY <1>1 DEF RecordPause
    <2>4. FailuresUnspent'
      BY <1>1, <1>2, <1>6, <2>3 DEF FailuresUnspent, Smaller
    <2>5. QED BY <1>1, <1>2, <1>6, <2>1, <2>2, <2>3, <2>4
  <1>7. QED BY <1>4, <1>5, <1>6 DEF ObserveOpening

\* Counting the reads keeps the mark a mark, over the poll's own reads too.
LEMMA CountReadsFacts ==
    ASSUME TypeOK, CountReads
    PROVE  /\ reads' = 0
           /\ readsPerPoll' \in 1..Larger(1, MaxReads)
           /\ readsPerPoll' \in Nat
           /\ readsPerPoll' = Larger(reads, readsPerPoll)
BY TimedUnitBounds DEF TypeOK, TimedUnitTypeOK, CountReads, Larger

-----------------------------------------------------------------------------
(***************************************************************************)
(* The invariant.                                                          *)
(***************************************************************************)
LEMMA InitInv == Init => IInv
  <1> SUFFICES ASSUME Init PROVE IInv
    OBVIOUS
  <1>1. Backoff[0] = QuietPolls
    BY BackoffAssumption
  <1>2. TypeOK
    <2>0. 0 \in 0..MaxOpening /\ 0 \in 0..MaxReads /\ 0 \in 0..MaxOpens
          /\ 0 \in 0..(MaxOpens + MaxOpening)
      BY TimedUnitBounds
    <2>1. TimedUnitTypeOK
      BY <2>0 DEF Init, TimedUnitInit, TimedUnitTypeOK
    <2>2. QuietPolls \in QuietPolls..MaxQuietPolls
      BY ThresholdsAssumption
    <2>3. 1 \in 1..Larger(1, MaxReads)
      BY TimedUnitBounds DEF Larger
    <2>4. 0 \in 0..OpensBound /\ 0 \in 0..FailedOpens /\ 0 \in 0..MaxQuietPolls
      BY TimedUnitBounds, ThresholdsAssumption DEF OpensBound
    <2>5. QED
      BY <2>1, <2>2, <2>3, <2>4, LadderTypes DEF Init, TypeOK
  <1>3. QED
    BY <1>1, <1>2, ThresholdsAssumption
       DEF Init, TimedUnitInit, IInv, UnitHoldsTuning,
           CountersBelowThresholds, OnlyTroubleWidens, AnsweredServed,
           CountsSince, PatienceCoversGap, FailuresUnspent, Smaller

\* A report observed: the gap, the pause and what has answered.
LEMMA ObserveReportInv ==
    ASSUME IInv, NEW r \in Reports, ObserveReport(r)
    PROVE  IInv'
  <1> USE DEF IInv
  <1>1. /\ reads' = 0 /\ readsPerPoll' \in Nat
        /\ readsPerPoll' \in 1..Larger(1, MaxReads)
    BY CountReadsFacts DEF ObserveReport
  <1>2. /\ spacing' \in Gaps /\ unitGap' = spacing'
        /\ crowded' \in Nat /\ crowded' < CrowdedPolls
        /\ crowded' <= crowded + 1
        /\ requiredQuiet' \in QuietPolls..MaxQuietPolls
        /\ quiet' \in Nat /\ quiet' < requiredQuiet'
        /\ quiet' <= quiet + 1
        /\ crowded' = 0 \/ quiet' = 0
        /\ spacing' # spacing => crowded' = 0 /\ quiet' = 0
        /\ spacing' # spacing =>
             \/ spacing' < spacing
             \/ Desynced(r) \/ Crowding(r)
        /\ Backoff[spacing'] <= requiredQuiet'
    BY <1>1, SpacingFacts DEF ObserveReport, PatienceCoversGap
  <1>3. /\ opens' = 0 /\ failedOpens' = 0
        /\ delay' \in Pauses /\ unitPause' = delay'
        /\ badOpens' \in Nat /\ badOpens' < FailedOpens
        /\ unspent' \in 0..FailedOpens
        /\ FailuresUnspent'
    BY OpeningFacts DEF ObserveReport
  <1>4. answered' \subseteq Components /\ AnsweredServed'
    BY DEF TypeOK, AnsweredServed, ObserveReport, Reports
  <1>5. since' \in 0..MaxQuietPolls /\ CountsSince'
    <2>1. /\ since \in 0..MaxQuietPolls
          /\ crowded \in Nat /\ quiet \in Nat
          /\ crowded <= since /\ quiet <= since
          /\ crowded' <= MaxQuietPolls /\ quiet' <= MaxQuietPolls
      BY <1>2, ThresholdsAssumption DEF TypeOK, CountsSince
    <2>2. since' = IF spacing' = spacing
                   THEN Smaller(since + 1, MaxQuietPolls) ELSE 0
      BY DEF ObserveReport
    <2>3. QED
      BY <1>2, <2>1, <2>2, ThresholdsAssumption DEF CountsSince, Smaller
  <1>6. trouble' \in BOOLEAN /\ OnlyTroubleWidens'
    <2>1. /\ saved' = saved
          /\ trouble' = (trouble \/ ShowsTrouble(r))
      BY DEF ObserveReport
    <2>2. trouble \in BOOLEAN
      BY DEF TypeOK
    <2>3. trouble => trouble'
      BY <2>1, <2>2
    <2>4. Desynced(r) \/ Crowding(r) => trouble'
      BY <2>1, CrowdingIsTrouble
    <2>5. spacing' < spacing => spacing # 0
      BY <1>2, LadderTypes DEF TypeOK
    <2>6. OnlyTroubleWidens'
      BY <1>2, <2>1, <2>3, <2>4, <2>5 DEF OnlyTroubleWidens
    <2>7. QED BY <2>1, <2>2, <2>6
  <1>7. TypeOK'
    BY <1>1, <1>2, <1>3, <1>4, <1>5, <1>6, TimedUnitBounds
       DEF TypeOK, TimedUnitTypeOK, ObserveReport
  <1>8. UnitHoldsTuning' /\ CountersBelowThresholds' /\ PatienceCoversGap'
    BY <1>2, <1>3
       DEF UnitHoldsTuning, CountersBelowThresholds, PatienceCoversGap,
           ObserveReport
  <1>9. QED BY <1>3, <1>4, <1>5, <1>6, <1>7, <1>8

\* A raised poll: the gap and all it rests on stay as they are.
LEMMA ObserveFailureInv ==
    ASSUME IInv, ObserveFailure
    PROVE  IInv'
  <1> USE DEF IInv
  <1>1. /\ reads' = 0
        /\ readsPerPoll' \in 1..Larger(1, MaxReads)
    BY CountReadsFacts DEF ObserveFailure
  <1>2. /\ opens' = 0 /\ failedOpens' = 0
        /\ delay' \in Pauses /\ unitPause' = delay'
        /\ badOpens' \in Nat /\ badOpens' < FailedOpens
        /\ unspent' \in 0..FailedOpens
        /\ FailuresUnspent'
    BY OpeningFacts DEF ObserveFailure
  <1>3. UNCHANGED <<connected, opening, gapVars, saved, since, trouble, badRun>>
    BY DEF ObserveFailure
  <1>4. TypeOK'
    BY <1>1, <1>2, <1>3, TimedUnitBounds
       DEF TypeOK, TimedUnitTypeOK, gapVars
  <1>5. QED
    BY <1>2, <1>3, <1>4
       DEF gapVars, UnitHoldsTuning, CountersBelowThresholds,
           OnlyTroubleWidens, AnsweredServed, CountsSince, PatienceCoversGap

\* The host stores what the tuner holds; nothing else moves.
LEMMA SaveInv ==
    ASSUME IInv, Save
    PROVE  IInv'
  <1> USE DEF IInv
  <1>1. UNCHANGED <<unitVars, gapVars, readsPerPoll, pauseVars, historyVars>>
    BY DEF Save
  <1>2. /\ saved'.spacing = spacing /\ saved'.patience = requiredQuiet
        /\ saved' \in [spacing : Gaps, delay : Pauses,
                       patience : QuietPolls..MaxQuietPolls]
    BY DEF Save, TypeOK
  <1>3. TypeOK'
    BY <1>1, <1>2
       DEF TypeOK, TimedUnitTypeOK, unitVars, gapVars, pauseVars, historyVars
  <1>4. QED
    BY <1>1, <1>2, <1>3
       DEF unitVars, gapVars, pauseVars, historyVars, UnitHoldsTuning,
           CountersBelowThresholds, OnlyTroubleWidens, AnsweredServed,
           CountsSince, PatienceCoversGap, FailuresUnspent

\* A restart takes up the stored tuning with fresh counters.
LEMMA RestartInv ==
    ASSUME IInv, Restart
    PROVE  IInv'
  <1> USE DEF IInv
  <1>1. /\ saved' = saved /\ trouble' = trouble
        /\ saved.spacing \in Gaps /\ saved.delay \in Pauses
        /\ Backoff[saved.spacing] \in QuietPolls..MaxQuietPolls
    BY BackoffAssumption DEF Restart, TypeOK
  <1>2. TypeOK'
    <2>0. 0 \in 0..MaxOpening /\ 0 \in 0..MaxReads /\ 0 \in 0..MaxOpens
          /\ 0 \in 0..(MaxOpens + MaxOpening)
      BY TimedUnitBounds
    <2>1. TimedUnitTypeOK'
      BY <2>0 DEF Restart, NewUnit, TimedUnitTypeOK
    <2>2. 1 \in 1..Larger(1, MaxReads)
      BY TimedUnitBounds DEF Larger
    <2>3. 0 \in 0..OpensBound /\ 0 \in 0..FailedOpens /\ 0 \in 0..MaxQuietPolls
      BY TimedUnitBounds, ThresholdsAssumption DEF OpensBound
    <2>4. QED
      BY <1>1, <2>1, <2>2, <2>3 DEF Restart, TypeOK
  <1>3. CountersBelowThresholds'
    BY <1>1, ThresholdsAssumption DEF Restart, CountersBelowThresholds
  <1>4. FailuresUnspent'
    BY ThresholdsAssumption DEF Restart, NewUnit, FailuresUnspent, Smaller
  <1>5. CountsSince' /\ AnsweredServed' /\ UnitHoldsTuning'
    BY DEF Restart, CountsSince, AnsweredServed, UnitHoldsTuning
  <1>6. OnlyTroubleWidens' /\ PatienceCoversGap'
    BY <1>1 DEF Restart, OnlyTroubleWidens, PatienceCoversGap, TypeOK
  <1>7. QED BY <1>2, <1>3, <1>4, <1>5, <1>6

\* The unit's own steps reach the tuner only through its counters.
LEMMA UnitStepInv ==
    ASSUME IInv, Request \/ Answer \/ Failure
    PROVE  IInv'
  <1> USE DEF IInv
  <1>1. CASE Request
    <2>1. UNCHANGED tunerVars /\ failedOpens' = failedOpens
      BY <1>1 DEF Request, BeginRequest, OpeningCancelled, LinkChange
    <2>2. TimedUnitTypeOK'
      <3>1. connected' \in BOOLEAN
        BY <1>1 DEF Request, BeginRequest, OpeningCancelled, LinkChange,
                    TypeOK, TimedUnitTypeOK
      <3>2. /\ opening' \in 0..MaxOpening /\ reads' \in 0..MaxReads
            /\ opens' \in 0..MaxOpens /\ failedOpens' = failedOpens
        BY <1>1, TimedUnitBounds
           DEF Request, BeginRequest, CountRead, CountOpening,
               OpeningCancelled, LinkChange, TypeOK, TimedUnitTypeOK
      <3>3. QED BY <3>1, <3>2 DEF TypeOK, TimedUnitTypeOK
    <2>3. TypeOK'
      BY <2>1, <2>2 DEF TypeOK, tunerVars, gapVars, pauseVars, historyVars
    <2>4. QED
      BY <2>1, <2>3
         DEF tunerVars, gapVars, pauseVars, historyVars, UnitHoldsTuning,
             CountersBelowThresholds, OnlyTroubleWidens, AnsweredServed,
             CountsSince, PatienceCoversGap, FailuresUnspent
  <1>2. CASE Answer
    <2>1. /\ UNCHANGED <<gapVars, readsPerPoll, pauseVars, saved, since,
                         trouble, unspent, failedOpens>>
          /\ badRun' = 0
      BY <1>2 DEF Answer, OpeningAnswered
    <2>2. TimedUnitTypeOK' /\ badRun' \in 0..OpensBound
      <3>1. /\ UNCHANGED <<connected, reads, opens, failedOpens>>
            /\ opening' = opening - 1 /\ opening > 0
        BY <1>2 DEF Answer, OpeningAnswered
      <3>2. opening' \in 0..MaxOpening /\ badRun' \in 0..OpensBound
        BY <2>1, <3>1, TimedUnitBounds
           DEF TypeOK, TimedUnitTypeOK, OpensBound
      <3>3. QED BY <3>1, <3>2 DEF TypeOK, TimedUnitTypeOK
    <2>3. TypeOK'
      BY <2>1, <2>2 DEF TypeOK, gapVars, pauseVars
    <2>4. QED
      BY <2>1, <2>3
         DEF gapVars, pauseVars, UnitHoldsTuning,
             CountersBelowThresholds, OnlyTroubleWidens, AnsweredServed,
             CountsSince, PatienceCoversGap, FailuresUnspent
  <1>3. CASE Failure
    <2>1. /\ UNCHANGED <<gapVars, readsPerPoll, pauseVars, saved, since,
                         trouble>>
          /\ failedOpens' = failedOpens + 1
          /\ unspent' = Smaller(unspent + 1, FailedOpens)
          /\ badRun' = Smaller(badRun + 1, OpensBound)
      BY <1>3 DEF Failure, OpeningFailed
    <2>2. TimedUnitTypeOK'
      <3>1. /\ UNCHANGED <<connected, reads, opens>>
            /\ opening' = opening - 1 /\ opening > 0
            /\ failedOpens < MaxOpens + MaxOpening
        BY <1>3 DEF Failure, OpeningFailed
      <3>2. /\ opening' \in 0..MaxOpening
            /\ failedOpens' \in 0..(MaxOpens + MaxOpening)
        BY <2>1, <3>1, TimedUnitBounds DEF TypeOK, TimedUnitTypeOK
      <3>3. QED BY <3>1, <3>2 DEF TypeOK, TimedUnitTypeOK
    <2>3. badRun' \in 0..OpensBound
      BY <2>1, TimedUnitBounds DEF TypeOK, OpensBound, Smaller
    <2>4. unspent' \in 0..FailedOpens
      BY <2>1, ThresholdsAssumption DEF TypeOK, Smaller
    <2>5. FailuresUnspent'
      BY <2>1, ThresholdsAssumption, TimedUnitBounds
         DEF TypeOK, TimedUnitTypeOK, FailuresUnspent, Smaller, pauseVars
    <2>6. TypeOK'
      BY <2>1, <2>2, <2>3, <2>4 DEF TypeOK, gapVars, pauseVars
    <2>7. QED
      BY <2>1, <2>5, <2>6
         DEF gapVars, pauseVars, UnitHoldsTuning,
             CountersBelowThresholds, OnlyTroubleWidens, AnsweredServed,
             CountsSince, PatienceCoversGap
  <1>4. QED BY <1>1, <1>2, <1>3

LEMMA StepInv == IInv /\ [Next]_vars => IInv'
  <1> SUFFICES ASSUME IInv, [Next]_vars PROVE IInv'
    OBVIOUS
  <1>1. CASE Request \/ Answer \/ Failure
    BY <1>1, UnitStepInv
  <1>2. CASE Observe
    BY <1>2, ObserveReportInv DEF Observe
  <1>3. CASE ObserveFailure
    BY <1>3, ObserveFailureInv
  <1>4. CASE Save
    BY <1>4, SaveInv
  <1>5. CASE Restart
    BY <1>5, RestartInv
  <1>6. CASE UNCHANGED vars
    BY <1>6
       DEF vars, unitVars, tunerVars, gapVars, pauseVars, historyVars, IInv,
           TypeOK, TimedUnitTypeOK, UnitHoldsTuning, CountersBelowThresholds,
           OnlyTroubleWidens, AnsweredServed, CountsSince,
           PatienceCoversGap, FailuresUnspent
  <1>7. QED BY <1>1, <1>2, <1>3, <1>4, <1>5, <1>6 DEF Next

LEMMA Invariance == Spec => []IInv
  <1>1. QED BY InitInv, StepInv, PTL DEF Spec

-----------------------------------------------------------------------------
(***************************************************************************)
(* The theorems.                                                           *)
(***************************************************************************)
\* Every reachable state of the tuner and its unit is of its type.
THEOREM TypeCorrect == Spec => []TypeOK
  <1>1. IInv => TypeOK
    BY DEF IInv
  <1>2. QED BY <1>1, Invariance, PTL

\* The unit's gap and pause are always the tuner's.
THEOREM UnitAlwaysHoldsTuning == Spec => []UnitHoldsTuning
  <1>1. IInv => UnitHoldsTuning
    BY DEF IInv
  <1>2. QED BY <1>1, Invariance, PTL

\* No counter of the tuner ever rests at the threshold it acts on.
THEOREM CountersAlwaysBelow == Spec => []CountersBelowThresholds
  <1>1. IInv => CountersBelowThresholds
    BY DEF IInv
  <1>2. QED BY <1>1, Invariance, PTL

\* A gap is held only for a desync, a busy device or a served component's
\* silence; that of a block the model does not serve never widens it.
THEOREM SilenceNeverWidens == Spec => []OnlyTroubleWidens
  <1>1. IInv => OnlyTroubleWidens
    BY DEF IInv
  <1>2. QED BY <1>1, Invariance, PTL

\* The patience held is never less than what restore() makes of the gap.
THEOREM PatienceAlwaysCoversGap == Spec => []PatienceCoversGap
  <1>1. IInv => PatienceCoversGap
    BY DEF IInv
  <1>2. QED BY <1>1, Invariance, PTL

\* What each kind of step may do to the gap and the pause.
LEMMA GapUntouched ==
    ASSUME [Next]_vars, ~Observe, ~Restart
    PROVE  spacing' = spacing
BY DEF Next, Request, Answer, Failure, ObserveFailure, Save, vars,
       tunerVars, gapVars

\* The gap moves only on evidence gathered since it last moved.
THEOREM GapMovesOnlyOnEvidence == Spec => GapMovesOnEvidence
  <1> DEFINE A == spacing' # spacing =>
                    \/ Restart
                    \/ \E r \in Reports :
                        /\ ObserveReport(r)
                        /\ \/ spacing' < spacing /\ since + 1 >= requiredQuiet
                           \/ spacing' > spacing /\ Desynced(r)
                           \/ spacing' > spacing /\ since + 1 >= CrowdedPolls
  <1>1. IInv /\ [Next]_vars => [A]_vars
    <2> SUFFICES ASSUME IInv, [Next]_vars, spacing' # spacing, ~Restart
                 PROVE  A
      OBVIOUS
    <2>1. PICK r \in Reports : ObserveReport(r)
      BY GapUntouched DEF Observe
    <2>2. readsPerPoll' \in Nat
      BY <2>1, CountReadsFacts DEF ObserveReport, IInv
    <2>3. \/ spacing' < spacing /\ quiet + 1 >= requiredQuiet
          \/ spacing' > spacing /\ Desynced(r)
          \/ spacing' > spacing /\ crowded + 1 >= CrowdedPolls
      BY <2>1, <2>2, SpacingFacts DEF ObserveReport, IInv, PatienceCoversGap
    <2>4. /\ quiet <= since /\ crowded <= since
          /\ quiet \in Nat /\ crowded \in Nat /\ since \in Nat
          /\ requiredQuiet \in Nat /\ CrowdedPolls \in Nat
      BY ThresholdsAssumption DEF IInv, TypeOK, CountsSince
    <2>5. \/ spacing' < spacing /\ since + 1 >= requiredQuiet
          \/ spacing' > spacing /\ Desynced(r)
          \/ spacing' > spacing /\ since + 1 >= CrowdedPolls
      BY <2>3, <2>4
    <2>6. QED BY <2>1, <2>5
  <1>2. QED BY <1>1, Invariance, PTL DEF Spec, GapMovesOnEvidence

\* A widened gap fits the budget over the reads of the poll that widened it.
THEOREM WideningAlwaysFits == Spec => WideningFitsPoll
  <1> DEFINE A == spacing' > spacing =>
                    \/ Restart
                    \/ spacing' * Larger(reads, readsPerPoll) <= Budget
  <1>1. IInv /\ [Next]_vars => [A]_vars
    <2> SUFFICES ASSUME IInv, [Next]_vars, spacing' > spacing, ~Restart
                 PROVE  A
      OBVIOUS
    <2>0. spacing \in Nat
      BY LadderTypes DEF IInv, TypeOK
    <2>1. PICK r \in Reports : ObserveReport(r)
      BY <2>0, GapUntouched DEF Observe
    <2>2. /\ readsPerPoll' \in Nat
          /\ readsPerPoll' = Larger(reads, readsPerPoll)
      BY <2>1, CountReadsFacts DEF ObserveReport, IInv
    <2>3. /\ spacing' \in Nat
          /\ \/ spacing' < spacing
             \/ spacing' * readsPerPoll' <= Budget
      BY <2>0, <2>1, <2>2, SpacingFacts, LadderTypes
         DEF ObserveReport, IInv, PatienceCoversGap
    <2>4. QED BY <2>0, <2>2, <2>3
  <1>2. QED BY <1>1, Invariance, PTL DEF Spec, WideningFitsPoll

\* Every lengthening of the pause is paid for by failures of its own.
THEOREM PauseAlwaysEarned == Spec => PauseEarned
  <1> DEFINE A == delay' # delay =>
                    Restart \/ (delay' > delay /\ unspent >= FailedOpens)
  <1>1. IInv /\ [Next]_vars => [A]_vars
    <2> SUFFICES ASSUME IInv, [Next]_vars, delay' # delay, ~Restart
                 PROVE  delay' > delay /\ unspent >= FailedOpens
      OBVIOUS
    <2>1. Observe \/ ObserveFailure
      BY DEF Next, Request, Answer, Failure, Save, vars, tunerVars, pauseVars
    <2>2. ObserveOpening /\ RecordPause
      BY <2>1 DEF Observe, ObserveReport, ObserveFailure
    <2>3. QED BY <2>2, OpeningFacts DEF IInv
  <1>2. QED BY <1>1, Invariance, PTL DEF Spec, PauseEarned
=============================================================================
