----------------------------- MODULE LinkTuner -----------------------------
(***************************************************************************)
(* The LinkTuner of src/sofar_modbus/tuning.py together with the TimedUnit *)
(* it measures and asks: the gap between frames it widens for a crowded    *)
(* line and gives back to a quiet one, the pause after connecting, and the *)
(* tuning a host stores and a later process restores.                      *)
(*                                                                         *)
(* Gaps and pauses are natural numbers (milliseconds in the code's         *)
(* ladders).  A poll is what its report says; which requests it made is    *)
(* what TimedUnit counted, and the two are only loosely coupled because    *)
(* polls overlap and other callers share the unit.                         *)
(***************************************************************************)
EXTENDS TimedUnit, Reports, FiniteSets

CONSTANTS
    Steps,         \* SPACING_STEPS: the gaps to try
    Delays,        \* CONNECT_DELAYS: the pauses to try
    Budget,        \* budget: what all gaps of one poll may add up to
    CrowdedPolls,  \* CROWDED_POLLS
    QuietPolls,    \* QUIET_POLLS
    MaxQuietPolls, \* MAX_QUIET_POLLS
    FailedOpens    \* FAILED_OPENS

ASSUME LaddersAssumption ==
    /\ IsFiniteSet(Steps) /\ Steps \subseteq Nat \ {0}
    /\ IsFiniteSet(Delays) /\ Delays \subseteq Nat \ {0}
    /\ Budget \in Nat

ASSUME ThresholdsAssumption ==
    /\ CrowdedPolls \in Nat \ {0}
    /\ QuietPolls \in Nat \ {0}
    /\ MaxQuietPolls \in Nat
    /\ QuietPolls <= MaxQuietPolls
    /\ CrowdedPolls <= MaxQuietPolls
    /\ FailedOpens \in Nat \ {0}

Smaller(a, b) == IF a <= b THEN a ELSE b
Larger(a, b) == IF a >= b THEN a ELSE b

Gaps == Steps \cup {0}
Pauses == Delays \cup {0}

\* The patience restore() gives back with a gap: doubled per step up to it.
Backoff ==
    [gap \in Gaps |->
        Smaller(QuietPolls * 2^Cardinality({step \in Steps : step <= gap}),
                MaxQuietPolls)]

\* b is the step of the ladder right above a.
NextStep(a, b) ==
    /\ a \in Gaps /\ b \in Steps /\ a < b
    /\ \A step \in Steps : a < step => b <= step

\* Arithmetic of Backoff, a fact about powers of two that TLC evaluates.
ASSUME BackoffAssumption ==
    /\ \A gap \in Gaps : Backoff[gap] \in QuietPolls..MaxQuietPolls
    /\ Backoff[0] = QuietPolls
    /\ \A a \in Gaps, b \in Steps :
        NextStep(a, b) => Backoff[b] = Smaller(2 * Backoff[a], MaxQuietPolls)

-----------------------------------------------------------------------------
VARIABLES
    spacing,       \* _spacing: the gap asked for
    crowded,       \* _crowded: crowded polls in a row
    quiet,         \* _quiet: quiet polls in a row
    requiredQuiet, \* _required_quiet: quiet polls before a step is given back
    answered,      \* _answered: components that answered once
    readsPerPoll,  \* _reads_per_poll: most reads seen between two looks
    delay,         \* _delay: the pause asked for
    badOpens,      \* _bad_opens: unanswered opens towards the next pause
    unitGap,       \* what the unit was last told by set_message_spacing
    unitPause,     \* what it was last told by require_connect_delay
    saved,         \* the host's stored tuning, and the patience of that moment
    since,         \* history: reports since the gap last moved
    trouble,       \* history: a report ever showed a crowded line
    unspent,       \* history: failed opens since the pause last moved
    badRun         \* history: failed opens since one was last answered

gapVars == <<spacing, crowded, quiet, requiredQuiet, answered, unitGap>>
pauseVars == <<delay, badOpens, unitPause>>
historyVars == <<since, trouble, unspent, badRun>>
tunerVars == <<gapVars, readsPerPoll, pauseVars, saved, historyVars>>
vars == <<unitVars, tunerVars>>

OpensBound == MaxOpens + MaxOpening

TypeOK ==
    /\ TimedUnitTypeOK
    /\ spacing \in Gaps /\ unitGap \in Gaps
    /\ crowded \in Nat /\ quiet \in Nat
    /\ requiredQuiet \in QuietPolls..MaxQuietPolls
    /\ answered \subseteq Components
    /\ readsPerPoll \in 1..Larger(1, MaxReads)
    /\ delay \in Pauses /\ unitPause \in Pauses
    /\ badOpens \in Nat
    /\ saved \in [spacing : Gaps, delay : Pauses,
                  patience : QuietPolls..MaxQuietPolls]
    /\ since \in 0..MaxQuietPolls
    /\ trouble \in BOOLEAN
    /\ unspent \in 0..FailedOpens
    /\ badRun \in 0..OpensBound

Init ==
    /\ TimedUnitInit
    /\ spacing = 0 /\ unitGap = 0
    /\ crowded = 0 /\ quiet = 0
    /\ requiredQuiet = QuietPolls
    /\ answered = {}
    /\ readsPerPoll = 1
    /\ delay = 0 /\ unitPause = 0
    /\ badOpens = 0
    /\ saved = [spacing |-> 0, delay |-> 0, patience |-> QuietPolls]
    /\ since = 0
    /\ trouble = FALSE
    /\ unspent = 0
    /\ badRun = 0

(***************************************************************************)
(* The gap.  A definition whose name starts with Bug is a plausible wrong  *)
(* form of the definition after it, which some property has to notice; no  *)
(* specification uses one.                                                 *)
(***************************************************************************)
BugCountsLastPollOnly ==
    /\ readsPerPoll' = reads
    /\ reads' = 0

CountReads ==
    /\ readsPerPoll' = Larger(readsPerPoll, reads)
    /\ reads' = 0

Desynced(r) == \E c \in Failed(r) : r.failed[c] = "desync"

BugSilenceAlwaysCrowds(r) ==
    \E c \in Failed(r) : r.failed[c] \in {"busy", "timeout"}

Crowding(r) ==
    \E c \in Failed(r) :
        \/ r.failed[c] = "busy"
        \/ r.failed[c] = "timeout" /\ c \in answered

BugWiderBeforeCounting(perPoll) ==
    {gap \in Steps : spacing < gap /\ gap * readsPerPoll <= Budget}

\* The steps above the gap whose cost, over a poll's reads, is in budget.
Wider(perPoll) == {gap \in Steps : spacing < gap /\ gap * perPoll <= Budget}

WidenTo(gap) ==
    /\ \A other \in Wider(readsPerPoll') : gap <= other
    /\ spacing' = gap
    /\ unitGap' = gap
    /\ requiredQuiet' = Smaller(2 * requiredQuiet, MaxQuietPolls)

KeepGap == UNCHANGED <<spacing, unitGap, requiredQuiet>>

BugWidenKeepsQuiet ==
    /\ crowded' = 0
    /\ UNCHANGED quiet
    /\ \/ Wider(readsPerPoll') = {} /\ KeepGap
       \/ \E gap \in Wider(readsPerPoll') : WidenTo(gap)

Widen ==
    /\ crowded' = 0
    /\ quiet' = 0
    /\ \/ Wider(readsPerPoll') = {} /\ KeepGap
       \/ \E gap \in Wider(readsPerPoll') : WidenTo(gap)

BugNarrowUntold(gap) ==
    /\ gap < spacing
    /\ \A other \in Gaps : other < spacing => other <= gap
    /\ spacing' = gap
    /\ UNCHANGED <<unitGap, requiredQuiet>>

BugNarrowSpendsPatience(gap) ==
    /\ gap < spacing
    /\ \A other \in Gaps : other < spacing => other <= gap
    /\ spacing' = gap
    /\ unitGap' = gap
    /\ requiredQuiet' = QuietPolls

BugNarrowKeepsFirstStep(gap) ==
    /\ gap < spacing
    /\ \A other \in Gaps : other < spacing => other <= gap
    /\ spacing' = Larger(gap, 1)
    /\ unitGap' = Larger(gap, 1)
    /\ UNCHANGED requiredQuiet

\* The widest gap below the one held; below the first step there is none.
NarrowTo(gap) ==
    /\ gap < spacing
    /\ \A other \in Gaps : other < spacing => other <= gap
    /\ spacing' = gap
    /\ unitGap' = gap
    /\ UNCHANGED requiredQuiet

Narrow ==
    /\ quiet' = 0
    /\ \/ spacing = 0 /\ KeepGap
       \/ spacing # 0 /\ \E gap \in Gaps : NarrowTo(gap)

BugCrowdedPollKeepsQuiet ==
    \/ crowded + 1 >= CrowdedPolls /\ Widen
    \/ /\ crowded + 1 < CrowdedPolls
       /\ crowded' = crowded + 1
       /\ UNCHANGED quiet
       /\ KeepGap

CrowdedPoll ==
    \/ crowded + 1 >= CrowdedPolls /\ Widen
    \/ /\ crowded + 1 < CrowdedPolls
       /\ crowded' = crowded + 1
       /\ quiet' = 0
       /\ KeepGap

QuietPoll ==
    /\ crowded' = 0
    /\ \/ quiet + 1 >= requiredQuiet /\ Narrow
       \/ /\ quiet + 1 < requiredQuiet
          /\ quiet' = quiet + 1
          /\ KeepGap

ObserveSpacing(r) ==
    \/ Desynced(r) /\ Widen
    \/ ~Desynced(r) /\ Crowding(r) /\ CrowdedPoll
    \/ ~Desynced(r) /\ ~Crowding(r) /\ QuietPoll

(***************************************************************************)
(* The pause after the link opens.                                         *)
(***************************************************************************)
BugLengthenUntold(pause) ==
    /\ pause > delay
    /\ \A other \in Delays : other > delay => pause <= other
    /\ delay' = pause
    /\ UNCHANGED unitPause

\* The shortest pause longer than the one asked for.
LengthenTo(pause) ==
    /\ pause > delay
    /\ \A other \in Delays : other > delay => pause <= other
    /\ delay' = pause
    /\ unitPause' = pause

KeepPause == UNCHANGED <<delay, unitPause>>

Lengthen ==
    \/ (\A pause \in Delays : pause <= delay) /\ KeepPause
    \/ \E pause \in Delays : LengthenTo(pause)

BugFailuresNotTaken ==
    /\ opens' = 0
    /\ UNCHANGED failedOpens

\* Moves the snapshot: what was counted is not counted again.
TakeOpens ==
    /\ opens' = 0
    /\ failedOpens' = 0

EnoughFailed == badOpens + failedOpens >= FailedOpens

ObserveOpening ==
    /\ TakeOpens
    /\ \/ /\ failedOpens = 0
          /\ badOpens' = IF opens > 0 THEN 0 ELSE badOpens
          /\ KeepPause
       \/ /\ failedOpens > 0 /\ ~EnoughFailed
          /\ badOpens' = badOpens + failedOpens
          /\ KeepPause
       \/ /\ failedOpens > 0 /\ EnoughFailed
          /\ badOpens' = 0
          /\ Lengthen

\* History: what may widen the gap by README.md -- a component the model
\* serves left unanswered -- and what tuning.py counts of any component.
ShowsTrouble(r) ==
    \E c \in Failed(r) :
        \/ r.failed[c] \in {"desync", "busy"}
        \/ r.failed[c] = "timeout" /\ c \notin Unserved

\* History: a lengthened pause has used up the failures before it.
RecordPause == unspent' = IF delay' = delay THEN unspent ELSE 0

-----------------------------------------------------------------------------
(***************************************************************************)
(* The tuner's operations.                                                 *)
(***************************************************************************)
ObserveReport(r) ==
    /\ CountReads
    /\ ObserveSpacing(r)
    /\ ObserveOpening
    /\ answered' = answered \cup r.updated
    /\ since' = IF spacing' = spacing
                THEN Smaller(since + 1, MaxQuietPolls) ELSE 0
    /\ trouble' = (trouble \/ ShowsTrouble(r))
    /\ RecordPause
    /\ UNCHANGED <<connected, opening, saved, badRun>>

Observe == \E r \in Reports : ObserveReport(r)

\* A poll that raised: it named no component, its requests still count.
ObserveFailure ==
    /\ CountReads
    /\ ObserveOpening
    /\ RecordPause
    /\ UNCHANGED <<connected, opening, gapVars, saved, since, trouble, badRun>>

\* The host stores tuner.tuning; when is up to it.
Save ==
    /\ saved' = [spacing |-> spacing, delay |-> delay,
                 patience |-> requiredQuiet]
    /\ UNCHANGED <<unitVars, gapVars, readsPerPoll, pauseVars, historyVars>>

\* The process ends at any point; the next one builds a new unit and tuner
\* and restores what was stored before its first poll.
Restart ==
    /\ NewUnit
    /\ spacing' = saved.spacing
    /\ unitGap' = saved.spacing
    /\ delay' = saved.delay
    /\ unitPause' = saved.delay
    /\ requiredQuiet' = Backoff[saved.spacing]
    /\ crowded' = 0 /\ quiet' = 0
    /\ answered' = {}
    /\ readsPerPoll' = 1
    /\ badOpens' = 0
    /\ since' = 0 /\ unspent' = 0 /\ badRun' = 0
    /\ UNCHANGED <<saved, trouble>>

\* The unit's own steps, and what the history keeps of them.
Request ==
    /\ \/ \E isRead \in BOOLEAN : BeginRequest(isRead)
       \/ OpeningCancelled
       \/ LinkChange
    /\ UNCHANGED tunerVars

Answer ==
    /\ OpeningAnswered
    /\ badRun' = 0
    /\ UNCHANGED <<gapVars, readsPerPoll, pauseVars, saved, since, trouble,
                   unspent>>

Failure ==
    /\ OpeningFailed
    /\ badRun' = Smaller(badRun + 1, OpensBound)
    /\ unspent' = Smaller(unspent + 1, FailedOpens)
    /\ UNCHANGED <<gapVars, readsPerPoll, pauseVars, saved, since, trouble>>

Next ==
    \/ Request
    \/ Answer
    \/ Failure
    \/ Observe
    \/ ObserveFailure
    \/ Save
    \/ Restart

Spec == Init /\ [][Next]_vars

\* The host's poll loop never stops for good, and does not only raise.
FairSpec == Spec /\ WF_vars(Observe)

-----------------------------------------------------------------------------
(***************************************************************************)
(* Properties.                                                             *)
(***************************************************************************)

\* The link runs with what the tuner believes it asked for, across every
\* widening, narrowing, pause and restore: _widen, _narrow, _observe_opening
\* and restore each tell the unit exactly when they change their own value.
UnitHoldsTuning == unitGap = spacing /\ unitPause = delay

\* No counter is left at a threshold it should have acted on, whatever
\* order polls, failures and restarts come in; and the line never counts as
\* crowding and as quiet at once, so neither run can be made of polls from
\* both sides of the other.
CountersBelowThresholds ==
    /\ crowded < CrowdedPolls
    /\ quiet < requiredQuiet
    /\ badOpens < FailedOpens
    /\ crowded = 0 \/ quiet = 0

\* A gap is only ever held because a report showed trouble: a desync or a
\* busy device, whichever component drew it, or the silence of a component
\* the model serves.  The silence of an absent block widens nothing, in this
\* process or through a stored tuning in a later one (_answered in
\* tuning.py holds what answered, and is rebuilt after a restart).
OnlyTroubleWidens == spacing # 0 \/ saved.spacing # 0 => trouble

\* The patience before giving a step back is at least what restore() would
\* set for the gap held: the formula a restart uses never asks more quiet
\* polls of a line than the run that settled on the gap had earned.
PatienceCoversGap ==
    /\ requiredQuiet >= Backoff[spacing]
    /\ saved.patience >= Backoff[saved.spacing]

\* The gap moves only on evidence gathered since it last moved: it narrows
\* after at least requiredQuiet reports at that gap, the doubled count a
\* widening just set, and widens on a desync or after CrowdedPolls reports.
\* A raised poll and a request move nothing.
GapMovesOnEvidence ==
    [][ spacing' # spacing =>
        \/ Restart
        \/ \E r \in Reports :
            /\ ObserveReport(r)
            /\ \/ spacing' < spacing /\ since + 1 >= requiredQuiet
               \/ spacing' > spacing /\ Desynced(r)
               \/ spacing' > spacing /\ since + 1 >= CrowdedPolls ]_vars

\* A widened gap fits the budget over the reads of the very poll that
\* widened it, not only over the polls before: observe() counts reads first.
WideningFitsPoll ==
    [][ spacing' > spacing =>
        Restart \/ spacing' * Larger(reads, readsPerPoll) <= Budget ]_vars

\* Every lengthening of the pause is paid for with FailedOpens failed opens
\* of its own: no failure is counted for two steps of the ladder, although
\* failures of requests in flight arrive in later polls than their opens.
PauseEarned ==
    [][ delay' # delay =>
        Restart \/ (delay' > delay /\ unspent >= FailedOpens) ]_vars

\* Once the line stays calm and no restart comes, the whole gap is given
\* back, whatever patience crowding had earned before.
Calm(r) == ~Desynced(r) /\ ~Crowding(r)
CalmStep ==
    /\ ~Restart
    /\ Observe => \E r \in Reports : ObserveReport(r) /\ Calm(r)
GapGivenBack == <>[][CalmStep]_vars => <>[](spacing = 0)

-----------------------------------------------------------------------------
(***************************************************************************)
(* What the documentation says and the code does not keep.                 *)
(***************************************************************************)

\* README.md: "Two opening requests that go unanswered earn a quarter
\* second": with every failure taken in, FailedOpens of them in a row have
\* earned a pause.
UnansweredOpensEarnPause ==
    failedOpens = 0 /\ badRun >= FailedOpens => delay # 0
=============================================================================
