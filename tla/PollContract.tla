---------------------------- MODULE PollContract ----------------------------
(***************************************************************************)
(* What a caller of SofarInverter's update methods is promised, whatever   *)
(* awaits and retries lie behind it: a poll reports, raises or is          *)
(* cancelled.  A report accounts for exactly the components its method     *)
(* polls; the listeners of what it updated, and only theirs, fire as it    *)
(* ends, in polling order; and the tuner is told once, all of it, at that  *)
(* same moment.  A poll that does not report fires nothing.                *)
(***************************************************************************)
EXTENDS Reports, SequencesExt, FiniteSets

CONSTANTS Pollers, Lists

VARIABLES
    lists,    \* what setup settled on: at most one of Lists
    state,    \* "idle", "polling" or how the last poll ended
    kind,     \* the method called
    report,   \* what the caller got: components updated and failed
    heard,    \* what the tuner was told
    fired     \* the listeners fired, in order

vars == <<lists, state, kind, report, heard, fired>>

Kinds == {"readings", "settings", "both"}
Nothing == [what |-> "nothing"]
Failure == [what |-> "failure"]
NoReport == [updated |-> {}, failed |-> {}]

Polled(k, l) ==
    (IF k = "settings" THEN <<>> ELSE l.readings)
    \o (IF k = "readings" THEN <<>> ELSE l.settings)

Init ==
    /\ lists = {}
    /\ state = [p \in Pollers |-> "idle"]
    /\ kind = [p \in Pollers |-> "both"]
    /\ report = [p \in Pollers |-> NoReport]
    /\ heard = [p \in Pollers |-> Nothing]
    /\ fired = [p \in Pollers |-> <<>>]

Call(p, k) ==
    /\ state[p] # "polling"
    /\ state' = [state EXCEPT ![p] = "polling"]
    /\ kind' = [kind EXCEPT ![p] = k]
    /\ report' = [report EXCEPT ![p] = NoReport]
    /\ heard' = [heard EXCEPT ![p] = Nothing]
    /\ fired' = [fired EXCEPT ![p] = <<>>]
    /\ UNCHANGED lists

\* The first poll to get through setup settles the lists, for all of them.
MaySettle ==
    \/ lists' = lists
    \/ lists = {} /\ \E l \in Lists : lists' = {l}

Settle ==
    /\ \E p \in Pollers : state[p] = "polling"
    /\ MaySettle
    /\ UNCHANGED <<state, kind, report, heard, fired>>

\* told is what the tuner hears when up was updated and down was not: at
\* least every component missing from the report, and those that recovered.
TellsAll(told, names, up, down) ==
    /\ told.what = "report"
    /\ told.updated = up
    /\ [updated |-> up, failed |-> told.failed] \in Reports
    /\ down \subseteq Failed(told)
    /\ Failed(told) \subseteq names

Reported(p) ==
    /\ state[p] = "polling"
    /\ MaySettle
    /\ \E l \in lists' :
       LET names == Polled(kind[p], l)
       IN  \E up \in SUBSET ToSet(names) :
            /\ report' = [report EXCEPT ![p] =
                    [updated |-> up, failed |-> ToSet(names) \ up]]
            /\ TellsAll(heard'[p], ToSet(names), up, ToSet(names) \ up)
            /\ fired' = [fired EXCEPT ![p] = InOrder(names, up)]
    /\ heard' = [heard EXCEPT ![p] = heard'[p]]
    /\ state' = [state EXCEPT ![p] = "reported"]
    /\ UNCHANGED kind

Raised(p) ==
    /\ state[p] = "polling"
    /\ state' = [state EXCEPT ![p] = "raised"]
    /\ heard' = [heard EXCEPT ![p] = Failure]
    /\ UNCHANGED <<lists, kind, report, fired>>

Cancelled(p) ==
    /\ state[p] = "polling"
    /\ state' = [state EXCEPT ![p] = "cancelled"]
    /\ UNCHANGED <<lists, kind, report, heard, fired>>

Next ==
    \/ Settle
    \/ \E p \in Pollers :
        \/ \E k \in Kinds : Call(p, k)
        \/ Reported(p)
        \/ Raised(p)
        \/ Cancelled(p)

Spec == Init /\ [][Next]_vars
=============================================================================
