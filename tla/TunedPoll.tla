----------------------------- MODULE TunedPoll -----------------------------
(***************************************************************************)
(* The poll of SofarInverter (src/sofar_modbus/modern/device.py): setup    *)
(* first, each component read in turn, one retry of what failed, a late    *)
(* try at the identity, then the tuner told and the listeners fired.       *)
(*                                                                         *)
(* Several callers poll at once -- readings and settings are scheduled     *)
(* apart -- and a host reads the identity beside them; they interleave at  *)
(* every await, and any of them can be cancelled there.  One action is     *)
(* what runs between two awaits.                                           *)
(***************************************************************************)
EXTENDS Reports, SequencesExt, FiniteSets, Naturals

CONSTANTS
    Pollers,           \* callers of the update methods
    Sites,             \* the installations a host can poll; see SiteAssumption
    IdentityAttempts   \* _IDENTITY_ATTEMPTS

\* A site is who polls it, the errors its line gives, and what setup can
\* settle for its inverter: the readings and settings polled, none twice.
ASSUME SiteAssumption ==
    /\ \A s \in Sites :
        /\ s.pollers \subseteq Pollers
        /\ s.errors \subseteq Errors
        /\ \A l \in s.lists :
            /\ l \in [readings : Seq(Components), settings : Seq(Components)]
            /\ IsInjective(l.readings \o l.settings)
    /\ IdentityAttempts \in Nat \ {0}

Unsettled == [readings |-> <<>>, settings |-> <<>>]
Lists == UNION {s.lists : s \in Sites}

\* async_update_readings, async_update_settings and async_update.
Kinds == {"readings", "settings", "both"}

Running == {"setup", "reading", "retrying", "identity"}
Ended == {"raised", "cancelled", "reported"}

\* What a poll tells the tuner, if anything.
Nothing == [what |-> "nothing"]
Failure == [what |-> "failure"]
Outcome(up, down) == [what |-> "report", updated |-> up, failed |-> down]

VARIABLES
    site,        \* the installation; it never changes
    settled,     \* whether setup has settled the component lists
    lists,       \* _readings and _settings
    pending,     \* _identity_pending
    identity,    \* history: "unasked", "asked" by the host, or "read"
    reader,      \* tries the host's async_read_identity has left
    poll,        \* each caller's poll in progress, or its last one
    told,        \* what each caller's last poll told the tuner
    fired        \* the components whose listeners it fired, in order

vars == <<site, settled, lists, pending, identity, reader, poll, told, fired>>

(***************************************************************************)
(* The locals of one poll: names is what it polls, in order, todo what the *)
(* pass in progress has still to read of that, first the failures of the   *)
(* first pass.  asked and silent are history: how often it read each       *)
(* component (up to 3) and which timed out.                                *)
(***************************************************************************)
NewPoll(kind) ==
    [pc |-> "setup", kind |-> kind, names |-> <<>>, todo |-> {},
     updated |-> {}, failed |-> NoFailures, first |-> NoFailures,
     asked |-> [c \in Components |-> 0], silent |-> {}]

NoPoll == [NewPoll("both") EXCEPT !.pc = "idle"]

Outcomes == [Components -> Errors \cup {NoError}]

Polls ==
    [pc : {"idle"} \cup Running \cup Ended, kind : Kinds,
     names : Seq(Components), todo : SUBSET Components,
     updated : SUBSET Components, failed : Outcomes, first : Outcomes,
     asked : [Components -> 0..3], silent : SUBSET Components]

Tellings ==
    {Nothing, Failure}
    \cup [what : {"report"}, updated : SUBSET Components, failed : Outcomes]

TypeOK ==
    /\ site \in Sites
    /\ settled \in BOOLEAN /\ pending \in BOOLEAN
    /\ identity \in {"unasked", "asked", "read"}
    /\ reader \in 0..IdentityAttempts
    /\ lists \in IF settled THEN site.lists ELSE {Unsettled}
    /\ poll \in [Pollers -> Polls]
    /\ told \in [Pollers -> Tellings]
    /\ DOMAIN fired = Pollers

Init ==
    /\ site \in Sites
    /\ settled = FALSE
    /\ lists = Unsettled
    /\ pending = FALSE
    /\ identity = "unasked"
    /\ reader = 0
    /\ poll = [p \in Pollers |-> NoPoll]
    /\ told = [p \in Pollers |-> Nothing]
    /\ fired = [p \in Pollers |-> <<>>]

Names(kind, l) ==
    (IF kind = "settings" THEN <<>> ELSE l.readings)
    \o (IF kind = "readings" THEN <<>> ELSE l.settings)

\* Whether the report being built holds anything yet.
NothingYet(q) == q.updated = {} /\ q.failed = NoFailures

BugLastAttemptCounts(first, retried) ==
    [c \in Components |->
        IF retried[c] = NoError THEN first[c] ELSE retried[c]]

\* Both attempts' failures, a timeout outranking any other error.
BothAttempts(first, retried) ==
    [c \in Components |->
        IF retried[c] = NoError \/ first[c] = "timeout"
        THEN first[c] ELSE retried[c]]

-----------------------------------------------------------------------------
(***************************************************************************)
(* The end of a poll, with q its locals: the tuner hears both attempts and *)
(* listeners fire in polling order, with no await in between.              *)
(***************************************************************************)
BugFireOnFirstPass(p, q) ==
    /\ poll' = [poll EXCEPT ![p] = [q EXCEPT !.pc = "reported"]]
    /\ told' = [told EXCEPT ![p] =
            Outcome(q.updated, BothAttempts(q.first, q.failed))]
    /\ fired' = [fired EXCEPT ![p] =
            InOrder(q.names, {c \in Components : q.first[c] = NoError})]

Finish(p, q) ==
    /\ poll' = [poll EXCEPT ![p] = [q EXCEPT !.pc = "reported"]]
    /\ told' = [told EXCEPT ![p] =
            Outcome(q.updated, BothAttempts(q.first, q.failed))]
    /\ fired' = [fired EXCEPT ![p] = InOrder(q.names, q.updated)]

Resume(p, q) ==
    /\ poll' = [poll EXCEPT ![p] = q]
    /\ UNCHANGED <<told, fired>>

\* Every read done: the identity gets its late try where something answered.
AfterReads(p, q) ==
    \/ /\ pending /\ q.updated # {}
       /\ Resume(p, [q EXCEPT !.pc = "identity"])
    \/ /\ ~(pending /\ q.updated # {})
       /\ Finish(p, q)

BugRetryTheDead(q) == q.failed # NoFailures

\* No retry when nothing answered.
WorthRetrying(q) == q.failed # NoFailures /\ q.updated # {}

BugFailuresKept(q) ==
    [q EXCEPT !.pc = "retrying",
              !.first = q.failed,
              !.todo = Failed(q)]

\* The report forgets the failures and their components are read again.
Retrying(q) ==
    [q EXCEPT !.pc = "retrying",
              !.first = q.failed,
              !.failed = NoFailures,
              !.todo = Failed(q)]

BugRetryForever(p, q) ==
    \/ WorthRetrying(q) /\ Resume(p, [Retrying(q) EXCEPT !.pc = "reading"])
    \/ ~WorthRetrying(q) /\ AfterReads(p, [q EXCEPT !.first = q.failed])

FirstPassDone(p, q) ==
    \/ WorthRetrying(q) /\ Resume(p, Retrying(q))
    \/ ~WorthRetrying(q) /\ AfterReads(p, [q EXCEPT !.first = q.failed])

\* On to the poll's next await, or to its end.
Advance(p, q) ==
    \/ q.todo # {} /\ Resume(p, q)
    \/ q.todo = {} /\ q.pc = "reading" /\ FirstPassDone(p, q)
    \/ q.todo = {} /\ q.pc = "retrying" /\ AfterReads(p, q)

\* A ModbusError leaves the poll: the tuner hears of a failure.
RaiseWith(p, q) ==
    /\ poll' = [poll EXCEPT ![p] = [q EXCEPT !.pc = "raised"]]
    /\ told' = [told EXCEPT ![p] = Failure]
    /\ UNCHANGED fired

-----------------------------------------------------------------------------
(***************************************************************************)
(* A caller's steps.                                                       *)
(***************************************************************************)
Begin(p, kind) ==
    /\ poll[p].pc \notin Running
    /\ poll' = [poll EXCEPT ![p] = NewPoll(kind)]
    /\ told' = [told EXCEPT ![p] = Nothing]
    /\ fired' = [fired EXCEPT ![p] = <<>>]
    /\ UNCHANGED <<settled, lists, pending, identity, reader>>

BugSettlesAgain(p) == lists' \in site.lists

\* The component lists are settled once, for every caller.
SettleLists(p) == IF settled THEN lists' = lists ELSE lists' \in site.lists

\* Setup has passed, this caller's or an earlier one's: reading starts.
SetUp(p) ==
    /\ poll[p].pc = "setup"
    /\ settled' = TRUE
    /\ SettleLists(p)
    /\ LET names == Names(poll[p].kind, lists')
       IN  Advance(p, [poll[p] EXCEPT !.pc = "reading",
                                      !.names = names,
                                      !.todo = ToSet(names)])
    /\ UNCHANGED <<pending, identity, reader>>

SetupFails(p) ==
    /\ poll[p].pc = "setup"
    /\ ~settled
    /\ RaiseWith(p, poll[p])
    /\ UNCHANGED <<settled, lists, pending, identity, reader>>

\* The components are read one after the other, the retried ones too.
InTurn(p, c) ==
    /\ poll[p].pc \in {"reading", "retrying"}
    /\ c \in poll[p].todo
    /\ \A i, j \in DOMAIN poll[p].names :
        i < j /\ poll[p].names[j] = c => poll[p].names[i] \notin poll[p].todo

\* The poll after the read of c has ended, one way or another.
Asked(p, c) ==
    [poll[p] EXCEPT !.todo = @ \ {c},
                    !.asked[c] = IF @ < 3 THEN @ + 1 ELSE 3]

Answers(p, c) == [Asked(p, c) EXCEPT !.updated = @ \cup {c}]

ReadAnswered(p, c) ==
    /\ InTurn(p, c)
    /\ c \notin Unserved
    /\ Advance(p, Answers(p, c))
    /\ UNCHANGED <<settled, lists, pending, identity, reader>>

BugSilenceIsAReport(p, error) == FALSE

\* A timeout before the report holds anything is a dead inverter.
SilentFromTheStart(p, error) == error = "timeout" /\ NothingYet(poll[p])

Misses(p, c, error) ==
    [Asked(p, c) EXCEPT
        !.failed[c] = error,
        !.silent = IF error = "timeout" THEN @ \cup {c} ELSE @]

ReadFailed(p, c, error) ==
    /\ InTurn(p, c)
    /\ \/ SilentFromTheStart(p, error) /\ RaiseWith(p, Asked(p, c))
       \/ /\ ~SilentFromTheStart(p, error)
          /\ Advance(p, Misses(p, c, error))
    /\ UNCHANGED <<settled, lists, pending, identity, reader>>

\* The link goes down under a read: the poll raises, in either pass.
ConnectionLost(p, c) ==
    /\ InTurn(p, c)
    /\ RaiseWith(p, Asked(p, c))
    /\ UNCHANGED <<settled, lists, pending, identity, reader>>

BugOneTryIsEnough(p, answered) ==
    /\ poll[p].pc = "identity"
    /\ pending' = FALSE
    /\ identity' = IF answered THEN "read" ELSE identity
    /\ Finish(p, poll[p])
    /\ UNCHANGED <<settled, lists, reader>>

\* The late try at the identity; whatever comes of it, the poll reports.
TryIdentity(p, answered) ==
    /\ poll[p].pc = "identity"
    /\ pending' = ~answered
    /\ identity' = IF answered THEN "read" ELSE identity
    /\ Finish(p, poll[p])
    /\ UNCHANGED <<settled, lists, reader>>

\* The caller's task is cancelled at an await: nothing after it runs.
Cancel(p) ==
    /\ poll[p].pc \in Running
    /\ poll' = [poll EXCEPT ![p].pc = "cancelled"]
    /\ UNCHANGED <<settled, lists, pending, identity, reader, told, fired>>

(***************************************************************************)
(* async_read_identity, called by the host beside the polls.               *)
(***************************************************************************)
BugOneTryMore ==
    /\ reader = 0
    /\ reader' = IdentityAttempts + 1
    /\ identity' = "asked"
    /\ UNCHANGED <<settled, lists, pending, poll, told, fired>>

ReadIdentity ==
    /\ reader = 0
    /\ reader' = IdentityAttempts
    /\ identity' = "asked"
    /\ UNCHANGED <<settled, lists, pending, poll, told, fired>>

IdentityRead ==
    /\ reader > 0
    /\ reader' = 0
    /\ pending' = FALSE
    /\ identity' = "read"
    /\ UNCHANGED <<settled, lists, poll, told, fired>>

IdentityMissed ==
    /\ reader > 0
    /\ reader' = reader - 1
    /\ pending' = (pending \/ reader = 1)
    /\ UNCHANGED <<settled, lists, identity, poll, told, fired>>

\* The host gives up; what it asked for is nobody's business any more.
IdentityCancelled ==
    /\ reader > 0
    /\ reader' = 0
    /\ identity' = IF identity = "asked" THEN "unasked" ELSE identity
    /\ UNCHANGED <<settled, lists, pending, poll, told, fired>>

PollStep(p) ==
    \/ SetUp(p)
    \/ SetupFails(p)
    \/ \E c \in Components :
        \/ ReadAnswered(p, c)
        \/ \E error \in site.errors : ReadFailed(p, c, error)
        \/ ConnectionLost(p, c)
    \/ \E answered \in BOOLEAN : TryIdentity(p, answered)

IdentityStep ==
    \/ ReadIdentity
    \/ IdentityRead
    \/ IdentityMissed
    \/ IdentityCancelled

Next ==
    /\ \/ \E p \in site.pollers, kind \in Kinds : Begin(p, kind)
       \/ \E p \in Pollers : PollStep(p)
       \/ \E p \in Pollers : Cancel(p)
       \/ IdentityStep
    /\ UNCHANGED site

Spec == Init /\ [][Next]_vars

\* Every request ends, answered or by its timeout, and the event loop
\* resumes whoever awaited it.
FairSpec == Spec /\ \A p \in Pollers : WF_vars(PollStep(p) /\ UNCHANGED site)

-----------------------------------------------------------------------------
(***************************************************************************)
(* Properties.                                                             *)
(***************************************************************************)

\* A report accounts for every component polled, once: the retry takes a
\* component from the failed to the updated or leaves it where it was.
ReportAccounts ==
    \A p \in Pollers :
        poll[p].pc = "reported" =>
            /\ poll[p].updated \cup Failed(poll[p]) = ToSet(poll[p].names)
            /\ poll[p].updated \cap Failed(poll[p]) = {}

\* A component is read again only once, and only when the first pass got an
\* answer from another: an inverter that is down costs one pass.
RetryOnlyTheLiving ==
    \A p \in Pollers, c \in Components :
        /\ poll[p].asked[c] <= 2
        /\ poll[p].asked[c] = 2 =>
            \E other \in poll[p].updated \ {c} : poll[p].asked[other] = 1

\* The tuner hears of every component that failed in either attempt, and of
\* a timeout whichever attempt it came in: a silence that the retry hid or
\* another error covered still counts towards a crowded line.
TunerHearsEveryFailure ==
    \A p \in Pollers :
        told[p].what = "report" =>
            \A c \in Components :
                /\ poll[p].asked[c] = 2 => told[p].failed[c] # NoError
                /\ told[p].failed[c] = "timeout" <=> c \in poll[p].silent
                /\ poll[p].failed[c] # NoError => told[p].failed[c] # NoError

\* An identity the host asked for and did not get is never forgotten: once
\* its own tries are over it stays pending, through failed, cancelled and
\* overlapping late tries, until one of them reads it.
IdentityOwed == identity = "asked" /\ reader = 0 => pending

\* The tuner never judges a line by silence alone, and never by a retry
\* alone: a poll that told it a report met something other than silence
\* (device.py raises the poll whose first read times out), and where
\* anything answered, some component answered at the first attempt.
TellsPlausible ==
    \A p \in Pollers :
        told[p].what = "report" =>
            /\ [updated |-> told[p].updated, failed |-> told[p].failed]
                \in Reports
            /\ told[p].updated # {} => told[p].updated \ Failed(told[p]) # {}

\* What a poll at pc is to its caller and to setup, and what they have.
ToCaller(pc) == IF pc \in Running THEN "polling" ELSE pc

ReportOf(q) ==
    IF q.pc = "reported"
    THEN [updated |-> q.updated, failed |-> Failed(q)]
    ELSE [updated |-> {}, failed |-> {}]

ToSetup(pc) ==
    IF pc = "setup" THEN "asking"
    ELSE IF pc \in {"reading", "retrying", "identity", "reported"}
         THEN "through" ELSE "away"

SettledLists == IF settled THEN {lists} ELSE {}

\* The poll keeps the promise its callers rely on.  What a poll in progress
\* has gathered is nobody's yet: only a reported poll has a report.
Contract == INSTANCE PollContract WITH
    lists <- SettledLists,
    state <- [p \in Pollers |-> ToCaller(poll[p].pc)],
    kind <- [p \in Pollers |-> poll[p].kind],
    report <- [p \in Pollers |-> ReportOf(poll[p])],
    heard <- told

KeepsContract == Contract!Spec

\* All a poll relies on of setup is what setup keeps (Setup.tla): it reads
\* nothing before the lists are settled, and those of the first poll are
\* every later poll's.
Promise == INSTANCE SettledOnce WITH
    Callers <- Pollers,
    lists <- SettledLists,
    caller <- [p \in Pollers |-> ToSetup(poll[p].pc)]

UsesSetupAsPromised == Promise!Spec

\* Every poll ends: no pattern of answers, errors and identity tries keeps
\* one reading for ever.
PollEnds == \A p \in Pollers : poll[p].pc \in Running ~> poll[p].pc \notin Running

=============================================================================
