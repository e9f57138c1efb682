------------------------------- MODULE Setup --------------------------------
(***************************************************************************)
(* The setup of SofarInverter (src/sofar_modbus/modern/device.py): what    *)
(* the inverter is and which components its polls read, asked of the       *)
(* inverter itself one request at a time.                                  *)
(*                                                                         *)
(* Setup runs in whichever poll comes first.  Any request of it may fail   *)
(* or its caller be cancelled, which ends the run where it stands, with    *)
(* what it wrote already in place for the run after it; further callers    *)
(* wait on a lock.  One action is what runs between two awaits.            *)
(***************************************************************************)
EXTENDS Masks, SequencesExt, FiniteSets

CONSTANTS
    Callers,           \* tasks that need the inverter set up
    Devices,           \* the inverters it may find on the line
    FaultLogAttempts   \* _FAULT_LOG_ATTEMPTS

\* The requests of a run, each an await.
Requests == {"phase", "battery", "strings", "tower", "tier", "rating",
             "eps", "meter", "fault_log", "cutoff"}

\* A device is what the host says of its type, what it answers -- the masks,
\* whether the off-grid block is served, and how the event log is -- and the
\* requests it leaves unanswered instead.
DeviceRecords ==
    [type : SUBSET InverterFlags, mask : [Blocks -> SUBSET AllBits],
     eps : BOOLEAN, log : {"answers", "refused", "junk"},
     silent : SUBSET Requests]

ASSUME SetupAssumption ==
    /\ \A d \in Devices :
        /\ DOMAIN d = {"type", "mask", "eps", "log", "silent"}
        /\ d.type \subseteq InverterFlags
        /\ DOMAIN d.mask = Blocks
        /\ d.eps \in BOOLEAN
        /\ d.silent \subseteq Requests
    /\ FaultLogAttempts \in Nat \ {0}

Busy == {"waiting"} \cup Requests

\* Where setup goes on after silence: it takes it for a tower or a log that
\* is not there.  Anywhere else it raises.
TakenForAbsent == {"tower", "fault_log"}

VARIABLES
    device,      \* the inverter on the line; it never changes
    inverter,    \* the fields of SofarInverter that setup writes
    run,         \* each caller: where it is, and what it has detected
    queue,       \* _setup_lock: its holder and who waits, in order
    calm         \* from here on only silent requests fail, nobody is cancelled

vars == <<device, inverter, run, queue, calm>>

\* The lists keep the order of the constants they are taken from, so what
\* is on them tells all.  misses counts the fault log's failed tries, those
\* of the last run kept.
NewInverter(type, hasFaultLog) ==
    [type |-> type, unrecognized |-> FALSE, readings |-> {},
     settings |-> {}, settled |-> FALSE, hasFaultLog |-> hasFaultLog,
     misses |-> 0]

Inverters ==
    [type : SUBSET InverterFlags, unrecognized : BOOLEAN,
     readings : SUBSET READING_COMPONENTS, settings : SUBSET SETTING_COMPONENTS,
     settled : BOOLEAN, hasFaultLog : BOOLEAN, misses : 0..FaultLogAttempts]

Away == [at |-> "away", detected |-> {}]

TypeOK ==
    /\ device \in Devices
    /\ inverter \in Inverters
    /\ run \in [Callers -> [at : Busy \cup {"away", "done", "raised", "cancelled"},
                           detected : SUBSET InverterFlags]]
    /\ queue \in Seq(Callers)
    /\ IsInjective(queue)
    /\ ToSet(queue) = {c \in Callers : run[c].at \in Busy}
    /\ calm \in BOOLEAN

Init ==
    /\ device \in Devices
    /\ \E hasFaultLog \in BOOLEAN :
        inverter = NewInverter(device.type, hasFaultLog)
    /\ run = [c \in Callers |-> Away]
    /\ queue = <<>>
    /\ calm = FALSE

\* What the block's mask says of the address setup looks at.
Says(block) == Declares(device.mask[block], Offset[block])

BugNoLock(c) == TRUE

Holds(c) == queue # <<>> /\ Head(queue) = c

At(c, request) == run[c].at = request /\ Holds(c)

-----------------------------------------------------------------------------
(***************************************************************************)
(* How a run goes on: to its next request, or to its end.  i is the        *)
(* inverter as the step leaves it.                                         *)
(***************************************************************************)
Await(c, i, request) ==
    /\ inverter' = i
    /\ run' = [run EXCEPT ![c] = [at |-> request, detected |-> {}]]
    /\ UNCHANGED queue

AwaitKnowing(c, detected, request) ==
    /\ run' = [run EXCEPT ![c] = [at |-> request, detected |-> detected]]
    /\ UNCHANGED <<inverter, queue>>

\* The caller leaves, and the lock passes on.
Leave(c, how) ==
    /\ run' = [run EXCEPT ![c] = [at |-> how, detected |-> {}]]
    /\ \E i \in DOMAIN queue : queue[i] = c /\ queue' = RemoveAt(queue, i)

Settle(c, i) ==
    /\ inverter' = [i EXCEPT !.settled = TRUE]
    /\ Leave(c, "done")

ListSettings(c, i) ==
    LET listed == [i EXCEPT
            !.settings = ComponentsFor(i.type, SETTING_COMPONENTS)]
    IN  IF "battery_charge_cutoff" \in listed.settings
        THEN Await(c, listed, "cutoff")
        ELSE Settle(c, listed)

\* A log once seen is not asked for again.
ProbesLog(i) == "fault_log" \in i.readings /\ ~i.hasFaultLog

ProbeLog(c, i) ==
    IF ProbesLog(i) THEN Await(c, i, "fault_log") ELSE ListSettings(c, i)

DropLog(i) == [i EXCEPT !.readings = @ \ {"fault_log"}]

Listed(i) ==
    [i EXCEPT !.readings = ComponentsFor(i.type, READING_COMPONENTS),
              !.misses = 0]

ListReadings(c, i) ==
    IF "meter_energy" \in Listed(i).readings
    THEN Await(c, Listed(i), "meter")
    ELSE ProbeLog(c, Listed(i))

-----------------------------------------------------------------------------
(***************************************************************************)
(* A caller's steps.                                                       *)
(***************************************************************************)
Call(c) ==
    /\ run[c].at \notin Busy
    /\ run' = [run EXCEPT ![c].at = "waiting"]
    /\ queue' = Append(queue, c)
    /\ UNCHANGED inverter

FirstRequest(type) ==
    IF type \subseteq {"PM"} THEN "phase"
    ELSE IF "MPPT10" \notin type /\ Matches(type, AppliesTo["pv_1_2"])
         THEN "tier" ELSE "rating"

\* The lock is the caller's: a setup that settled is not run again.
Proceed(c) ==
    /\ At(c, "waiting")
    /\ \/ inverter.settled /\ Leave(c, "done") /\ UNCHANGED inverter
       \/ /\ ~inverter.settled
          /\ Await(c, inverter, FirstRequest(inverter.type))

BugUnrecognizedRaises(c) ==
    /\ inverter' = [inverter EXCEPT !.unrecognized = TRUE]
    /\ Leave(c, "raised")

\* The masks settle no type, which a later run asks again.
Unrecognized(c) ==
    Await(c, [inverter EXCEPT !.unrecognized = TRUE], "rating")

Detected(c, flags) ==
    Await(c, [inverter EXCEPT !.type = @ \cup flags, !.unrecognized = FALSE],
          "rating")

PhaseAnswered(c) ==
    /\ At(c, "phase")
    /\ \/ Says("phase") = "unknown" /\ Unrecognized(c)
       \/ Says("phase") = "yes" /\ AwaitKnowing(c, {"GEN", "X3"}, "battery")
       \/ Says("phase") = "no" /\ AwaitKnowing(c, {"GEN", "X1"}, "battery")

BatteryAnswered(c) ==
    /\ At(c, "battery")
    /\ LET known == run[c].detected
       IN  \/ Says("battery") = "unknown" /\ Unrecognized(c)
           \/ /\ Says("battery") = "yes"
              /\ AwaitKnowing(c, known \cup {"HYBRID"}, "strings")
           \/ /\ Says("battery") = "no"
              /\ AwaitKnowing(c, known \cup {"PV"}, "strings")

StringsAnswered(c) ==
    /\ At(c, "strings")
    /\ LET mask == device.mask["strings"]
           known == run[c].detected \cup PvTier(mask)
       IN  \/ ~Usable(mask) /\ Unrecognized(c)
           \/ /\ Usable(mask) /\ "HYBRID" \in known
              /\ AwaitKnowing(c, known, "tower")
           \/ /\ Usable(mask) /\ "HYBRID" \notin known
              /\ Detected(c, known)

TowerAnswered(c) ==
    /\ At(c, "tower")
    /\ Detected(c, run[c].detected \cup
            IF Says("tower") = "yes" THEN {"BAT_BTS"} ELSE {})

\* A timeout, or a gateway that finds no target, is taken for no tower.
TowerSilent(c) ==
    /\ ~calm \/ "tower" \in device.silent
    /\ At(c, "tower")
    /\ Detected(c, run[c].detected)

BugTakesAnyTier(type, tier) == (type \ Tiers) \cup tier

\* A tier the mask declares beyond the one already known replaces it.
RaiseTier(type, tier) ==
    IF TierRank(tier) > TierRank(type) THEN (type \ Tiers) \cup tier ELSE type

TierAnswered(c) ==
    /\ At(c, "tier")
    /\ Await(c, [inverter EXCEPT
            !.type = RaiseTier(@, RaisedTier(device.mask["strings"]))],
            "rating")

AsksEps(type) == "EPS" \notin type /\ Matches(type, AppliesTo["offgrid"] \ {"EPS"})

RatingAnswered(c) ==
    /\ At(c, "rating")
    /\ \/ AsksEps(inverter.type) /\ Await(c, inverter, "eps")
       \/ ~AsksEps(inverter.type) /\ ListReadings(c, inverter)

EpsAnswered(c) ==
    /\ At(c, "eps")
    /\ ListReadings(c, IF device.eps
                       THEN [inverter EXCEPT !.type = @ \cup {"EPS"}]
                       ELSE inverter)

MeterAnswered(c) ==
    /\ At(c, "meter")
    /\ ProbeLog(c, IF Says("meter") = "no"
                   THEN [inverter EXCEPT
                            !.readings = @ \ {"meter_energy"}]
                   ELSE inverter)

LogAnswered(c) ==
    /\ At(c, "fault_log")
    /\ \/ /\ device.log = "answers"
          /\ ListSettings(c, [inverter EXCEPT !.hasFaultLog = TRUE])
       \/ /\ device.log \in {"refused", "junk"}
          /\ ListSettings(c, DropLog(inverter))

BugMissForgotten(c) ==
    /\ At(c, "fault_log")
    /\ ~calm \/ "fault_log" \in device.silent
    /\ Await(c, inverter, "fault_log")

BugOneTryMore(c) ==
    /\ At(c, "fault_log")
    /\ ~calm \/ "fault_log" \in device.silent
    /\ LET missed == [inverter EXCEPT !.misses = @ + 1]
       IN  IF missed.misses <= FaultLogAttempts
           THEN Await(c, missed, "fault_log")
           ELSE ListSettings(c, DropLog(missed))

\* Another failed try at the log; the last one takes it for absent.
LogMissed(c) ==
    /\ At(c, "fault_log")
    /\ ~calm \/ "fault_log" \in device.silent
    /\ LET missed == [inverter EXCEPT !.misses = @ + 1]
       IN  IF missed.misses < FaultLogAttempts
           THEN Await(c, missed, "fault_log")
           ELSE ListSettings(c, DropLog(missed))

CutoffAnswered(c) ==
    /\ At(c, "cutoff")
    /\ Settle(c, IF Says("config") = "yes" THEN inverter
                 ELSE [inverter EXCEPT
                        !.settings = @ \ {"battery_charge_cutoff"}])

\* Whether the request a run is at may fail in a way that ends the run.
MayEnd(c) == ~calm \/ run[c].at \in device.silent \ TakenForAbsent

BugMissIsVerdict(c) ==
    /\ MayEnd(c)
    /\ run[c].at \in Requests /\ Holds(c)
    /\ IF run[c].at \in {"phase", "battery", "strings"} THEN Unrecognized(c)
       ELSE Leave(c, "raised") /\ UNCHANGED inverter

BugFailureSwallowed(c) ==
    /\ MayEnd(c)
    /\ run[c].at \in Requests /\ Holds(c)
    /\ Leave(c, "done")
    /\ UNCHANGED inverter

\* A request failed or stays unanswered, or the link went: the run ends
\* where it stands.
Interrupted(c) ==
    /\ MayEnd(c)
    /\ run[c].at \in Requests /\ Holds(c)
    /\ Leave(c, "raised")
    /\ UNCHANGED inverter

\* The caller is cancelled, at a request or waiting for the lock.
Cancel(c) ==
    /\ ~calm
    /\ run[c].at \in Busy
    /\ Leave(c, "cancelled")
    /\ UNCHANGED inverter

Answered(c) ==
    /\ run[c].at \notin device.silent
    /\ \/ PhaseAnswered(c)
       \/ BatteryAnswered(c)
       \/ StringsAnswered(c)
       \/ TowerAnswered(c)
       \/ TierAnswered(c)
       \/ RatingAnswered(c)
       \/ EpsAnswered(c)
       \/ MeterAnswered(c)
       \/ LogAnswered(c)
       \/ CutoffAnswered(c)

\* What the event loop brings about: every request ends, one way or another.
Runs(c) ==
    /\ \/ Proceed(c)
       \/ Answered(c)
       \/ TowerSilent(c)
       \/ LogMissed(c)
       \/ Interrupted(c)
    /\ UNCHANGED <<device, calm>>

Asks(c) == Call(c) /\ UNCHANGED <<device, calm>>

GivesUp(c) == Cancel(c) /\ UNCHANGED <<device, calm>>

\* The program restarts; the host may have stored that the log answered.
Restart ==
    /\ ~calm
    /\ \E stored \in {FALSE, inverter.hasFaultLog} :
        inverter' = NewInverter(device.type, stored)
    /\ run' = [c \in Callers |-> Away]
    /\ queue' = <<>>
    /\ UNCHANGED <<device, calm>>

Heal ==
    /\ ~calm
    /\ calm' = TRUE
    /\ UNCHANGED <<device, inverter, run, queue>>

Next ==
    \/ \E c \in Callers : Asks(c) \/ Runs(c) \/ GivesUp(c)
    \/ Restart
    \/ Heal

Spec == Init /\ [][Next]_vars

\* Requests end and the event loop resumes who awaited them; the host polls
\* on, whatever its last poll came to.
FairSpec ==
    /\ Spec
    /\ \A c \in Callers : WF_vars(Runs(c)) /\ WF_vars(Asks(c))

-----------------------------------------------------------------------------
(***************************************************************************)
(* Properties.                                                             *)
(***************************************************************************)

\* What the masks say of an inverter whose type nobody knows.
DetectedFlags ==
    {"GEN"} \cup PvTier(device.mask["strings"])
    \cup (IF Says("phase") = "yes" THEN {"X3"} ELSE {"X1"})
    \cup (IF Says("battery") = "yes" THEN {"HYBRID"} ELSE {"PV"})

Detectable ==
    /\ Says("phase") # "unknown"
    /\ Says("battery") # "unknown"
    /\ Usable(device.mask["strings"])

\* Whether they declare more strings than the type that was told.
MoreStrings ==
    LET strings == device.mask["strings"]
    IN  /\ Matches(device.type, AppliesTo["pv_1_2"])
        /\ strings # AllBits /\ Usable(strings)
        /\ TierRank(Declared(strings)) > TierRank(device.type)

\* The type a setup nothing disturbs finds, before and with its off-grid
\* part.
BareType ==
    LET told == device.type
    IN  CASE told \subseteq {"PM"} /\ Detectable -> told \cup DetectedFlags
          [] ~(told \subseteq {"PM"}) /\ MoreStrings ->
                (told \ Tiers) \cup PvTier(device.mask["strings"])
          [] OTHER -> told

TrueType ==
    IF device.eps /\ "HYBRID" \in BareType THEN BareType \cup {"EPS"} ELSE BareType

\* Whether each component the type applies to is served, the masks asked.
Served(name) ==
    CASE name = "meter_energy" -> Says("meter") # "no"
      [] name = "fault_log" -> inverter.hasFaultLog
      [] name = "battery_charge_cutoff" -> Says("config") = "yes"
      [] OTHER -> TRUE

TrueList(names) ==
    {c \in ComponentsFor(TrueType, names) : Served(c)}

\* However many runs failed or were cancelled before, and wherever, setup
\* settles on what the inverter declares: neither a missed answer nor the
\* leftovers of an earlier run reach the lists.  Only silence that the code
\* takes for absence does: a tower's, and a fault log's three times over.
SettlesOnTheTruth ==
    inverter.settled =>
        /\ inverter.readings = TrueList(READING_COMPONENTS)
        /\ inverter.settings = TrueList(SETTING_COMPONENTS)
        /\ inverter.type \ {"BAT_BTS"} = TrueType \ {"BAT_BTS"}
        /\ "BAT_BTS" \in inverter.type =>
                "BAT_BTS" \in device.type \/ Says("tower") = "yes"
        /\ device.log = "answers" /\ ~inverter.hasFaultLog
           /\ Matches(TrueType, AppliesTo["fault_log"])
                => inverter.misses = FaultLogAttempts

\* Once settled, nothing edits the lists or the type again: overlapping
\* runs, of callers that began before, would.
SettledStays ==
    [][inverter.settled /\ inverter'.settled =>
        /\ inverter'.type = inverter.type
        /\ inverter'.readings = inverter.readings
        /\ inverter'.settings = inverter.settings]_inverter

\* What a host is told to lay out entities for: expected_components.
Expected(i) ==
    IF i.settled THEN i.readings \cup i.settings
    ELSE ComponentsFor(i.type, READING_COMPONENTS)
         \cup (ComponentsFor(i.type, SETTING_COMPONENTS) \ DECLARED_COMPONENTS)

\* What the inverter i gives as a reason to drop a component.
Denied(c, i) ==
    \/ c = "meter_energy" /\ Says("meter") = "no"
    \/ /\ c = "fault_log" /\ ~i.hasFaultLog
       /\ device.log = "answers" => i.misses = FaultLogAttempts

\* A host that laid out entities before setup loses one only at the moment
\* setup settles, and only where the inverter denies it (README.md, "drop the
\* ones a mask denies"): no failed run, no type the masks raised and no
\* overlapping caller takes an expected component back before or after.
DropsOnlyTheDenied ==
    [][ ~Restart =>
        \A c \in Expected(inverter) \ Expected(inverter') :
            /\ ~inverter.settled /\ inverter'.settled
            /\ Denied(c, inverter') ]_vars

\* Every caller gets an end, whatever became of those before it: no failed
\* or cancelled run keeps the lock.
CallEnds == \A c \in Callers : run[c].at \in Busy ~> run[c].at \notin Busy

\* Once the line is calm the inverter gets set up, whatever state the failed
\* runs left it in.  One that keeps leaving unanswered what its setup asks,
\* other than tower and event log, never is: setup raises at every poll.
SettlesWhenCalm ==
    calm /\ device.silent \subseteq TakenForAbsent ~> inverter.settled

\* README.md: "Setup spends it deliberately: probing for off-grid registers,
\* or for a battery tower that is not there, means waiting one out."  The
\* code waits, and then raises at the off-grid block every time.
SetupWaitsItOut ==
    calm /\ device.silent \subseteq {"eps", "tower"} ~> inverter.settled

\* What a caller is to those who know setup by its promise only.
ToOthers(at) ==
    IF at \in Busy THEN "asking" ELSE IF at = "done" THEN "through" ELSE "away"

SettledLists ==
    IF inverter.settled
    THEN {[readings |-> inverter.readings, settings |-> inverter.settings]}
    ELSE {}

\* To those who wait for it, setup is one step that settles the lists once.
Promise == INSTANCE SettledOnce WITH
    Lists <- [readings : SUBSET READING_COMPONENTS,
              settings : SUBSET SETTING_COMPONENTS],
    lists <- SettledLists,
    caller <- [c \in Callers |-> ToOthers(run[c].at)]

KeepsPromise == Promise!Spec
=============================================================================
