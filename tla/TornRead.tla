------------------------------ MODULE TornRead ------------------------------
(***************************************************************************)
(* Energy totals that survive a torn read (src/sofar_modbus/model.py, used *)
(* by src/sofar_modbus/modern/energy.py).  A counter caught mid-update can *)
(* read back slightly low; each total keeps a high-water mark and is held  *)
(* there through a small dip, while a large one passes for a real reset.   *)
(*                                                                         *)
(* The correction is a listener.  A poll reads the component and fires it  *)
(* only as the poll ends, when other reads may have refreshed the values,  *)
(* and a diagnostics dump refreshes them without firing it at all.  A host *)
(* stores the corrected totals and seeds them back after a restart, before *)
(* or after the first poll.                                                *)
(***************************************************************************)
EXTENDS Integers

CONSTANTS
    Totals,        \* the totals one component declares
    Scale, Dip,    \* _dip_tolerance as the fraction Dip / Scale
    MaxCount,      \* bound: what a counter counts to
    MaxDue         \* bound: polls that have read the component and not ended

ASSUME TornReadAssumption ==
    /\ Scale \in Nat \ {0} /\ Dip \in 0..Scale
    /\ MaxCount \in Nat
    /\ MaxDue \in Nat

\* What a total is before anything set it.
None == -1
Counts == 0..MaxCount
Readings == Counts \cup {None}

VARIABLES
    counter,      \* the inverter's counters
    values,       \* the component's fields, as last read
    readAt,       \* history: the counters as they stood at that read
    due,          \* polls that have read the component and not yet ended
    highWater, corrected,
    polled,       \* history: the values corrected last
    saved         \* what the host has stored of the corrected totals

vars == <<counter, values, readAt, due, highWater, corrected, polled, saved>>

Unread == [t \in Totals |-> None]

TypeOK ==
    /\ counter \in [Totals -> Counts]
    /\ values \in [Totals -> Readings]
    /\ readAt \in [Totals -> Readings]
    /\ due \in 0..MaxDue
    /\ highWater \in [Totals -> Readings]
    /\ corrected \in [Totals -> Readings]
    /\ polled \in [Totals -> Readings]
    /\ saved \in [Totals -> Readings]

Init ==
    /\ counter \in [Totals -> Counts]
    /\ values = Unread
    /\ readAt = Unread
    /\ due = 0
    /\ highWater = Unread
    /\ corrected = Unread
    /\ polled = Unread
    /\ saved = Unread

\* Too far below to be a torn read.
FarBelow(value, mark) == value * Scale < mark * (Scale - Dip)

-----------------------------------------------------------------------------
(***************************************************************************)
(* The inverter, the host's restarts, and reads: all fields in one request *)
(* (each block is far shorter than max_span), any of them torn.            *)
(***************************************************************************)
Grow(t) ==
    /\ counter[t] < MaxCount
    /\ counter' = [counter EXCEPT ![t] = @ + 1]
    /\ UNCHANGED <<values, readAt, due, highWater, corrected, polled, saved>>

\* Midnight, for a daily counter; a replaced board, for a lifetime one.
Reset(t) ==
    /\ counter' = [counter EXCEPT ![t] = 0]
    /\ UNCHANGED <<values, readAt, due, highWater, corrected, polled, saved>>

\* What a read gives: the count, or a value torn to a little below it.
TakesValues ==
    /\ values' \in [Totals -> Counts]
    /\ \A t \in Totals :
        values'[t] <= counter[t] /\ ~FarBelow(values'[t], counter[t])
    /\ readAt' = counter
    /\ UNCHANGED <<counter, highWater, corrected, polled, saved>>

PollRead ==
    /\ due < MaxDue
    /\ due' = due + 1
    /\ TakesValues

\* Setup's or a dump's read, which notifies nobody.
Refresh ==
    /\ TakesValues
    /\ UNCHANGED due

\* A poll that read the component raises or is cancelled later on.
PollLost ==
    /\ due > 0
    /\ due' = due - 1
    /\ UNCHANGED <<counter, values, readAt, highWater, corrected, polled, saved>>

Save ==
    /\ saved' = corrected
    /\ UNCHANGED <<counter, values, readAt, due, highWater, corrected, polled>>

Restart ==
    /\ values' = Unread
    /\ readAt' = Unread
    /\ due' = 0
    /\ highWater' = Unread
    /\ corrected' = Unread
    /\ polled' = Unread
    /\ UNCHANGED <<counter, saved>>

-----------------------------------------------------------------------------
(***************************************************************************)
(* The correction, and the seeds.                                          *)
(***************************************************************************)
BugHoldsResets(t) ==
    \/ highWater[t] = None
    \/ values[t] >= highWater[t]

BugNoTolerance(t) ==
    \/ highWater[t] = None
    \/ values[t] >= highWater[t]
    \/ values[t] < highWater[t]

\* Whether the value read is taken as it is.
Takes(t) ==
    \/ highWater[t] = None
    \/ values[t] >= highWater[t]
    \/ FarBelow(values[t], highWater[t])

BugAddsUpOverResets ==
    /\ due > 0
    /\ due' = due - 1
    /\ highWater' = [t \in Totals |->
            IF values[t] = None \/ highWater[t] = None THEN values[t]
            ELSE IF FarBelow(values[t], highWater[t])
                 THEN highWater[t] + values[t] ELSE highWater[t]]
    /\ corrected' = highWater'
    /\ polled' = values
    /\ UNCHANGED <<counter, values, readAt, saved>>

\* _correct_totals, fired as a poll ends.
Correct ==
    /\ due > 0
    /\ due' = due - 1
    /\ highWater' = [t \in Totals |->
            IF values[t] # None /\ Takes(t) THEN values[t] ELSE highWater[t]]
    /\ corrected' = [t \in Totals |->
            IF values[t] # None THEN highWater'[t] ELSE corrected[t]]
    /\ polled' = values
    /\ UNCHANGED <<counter, values, readAt, saved>>

\* The host seeds what it stored, early or late; a lower seed changes nothing.
Seed(t) ==
    /\ saved[t] # None
    /\ highWater' = [highWater EXCEPT ![t] = IF saved[t] > @ THEN saved[t] ELSE @]
    /\ UNCHANGED <<counter, values, readAt, due, corrected, polled, saved>>

Next ==
    \/ \E t \in Totals : Grow(t) \/ Reset(t) \/ Seed(t)
    \/ PollRead
    \/ Refresh
    \/ PollLost
    \/ Correct
    \/ Save
    \/ Restart

Spec == Init /\ [][Next]_vars

-----------------------------------------------------------------------------
(***************************************************************************)
(* Properties.                                                             *)
(***************************************************************************)

\* What is shown never strays: it is at least the value polled and exceeds
\* it by less than a torn read could hide, however old the mark it is held
\* at and whoever seeded that.  A reset therefore always shows.
NeverFarOff ==
    \A t \in Totals :
        corrected[t] # None =>
            /\ corrected[t] >= polled[t]
            /\ ~FarBelow(polled[t], corrected[t])

\* Torn reads alone never take a total back, whatever overlapping polls,
\* dumps and lost polls lie between read and correction: it falls only
\* where its mark stood above the counter itself, reset since it was set.
TearsNeverLower ==
    [][\A t \in Totals :
        corrected'[t] # None /\ corrected'[t] < corrected[t]
            => highWater[t] > readAt[t]]_vars

-----------------------------------------------------------------------------
(***************************************************************************)
(* What the documentation says and the code does not keep.                 *)
(***************************************************************************)

\* README.md: "A seed only ever raises the mark, so a stale saved state
\* seeded late cannot undo what a poll already read": a total that does not
\* overstate its counter never falls.
LateSeedUndoesNothing ==
    [][\A t \in Totals :
        corrected'[t] # None /\ corrected'[t] < corrected[t]
            => corrected[t] > readAt[t]]_vars
=============================================================================
