------------------------------ MODULE Reports ------------------------------
(***************************************************************************)
(* The vocabulary of a poll's outcome: the UpdateReport a poll of          *)
(* src/sofar_modbus/modern/device.py builds and the LinkTuner of           *)
(* src/sofar_modbus/tuning.py judges.                                      *)
(*                                                                         *)
(* An error is one of the kinds the code tells apart: a reply to another   *)
(* exchange, a busy device, a timeout, and any other refusal.  A lost      *)
(* connection never enters a report: the poll it ends raises.              *)
(***************************************************************************)
EXTENDS Sequences

CONSTANTS
    Components,    \* component names a report can carry
    Unserved       \* those this model of inverter never answers

ASSUME ComponentsAssumption == Unserved \subseteq Components

NoError == "none"
Errors == {"desync", "busy", "timeout", "refused"}

NoFailures == [c \in Components |-> NoError]
Failed(r) == {c \in Components : r.failed[c] # NoError}

\* Of the components named, those chosen, in order.
InOrder(names, chosen) == SelectSeq(names, LAMBDA c : c \in chosen)

\* A poll whose first read times out raises and reports nothing, so silence
\* alone never makes a report.
PlausibleReport(r) ==
    r.updated = {} /\ Failed(r) # {}
        => \E c \in Failed(r) : r.failed[c] # "timeout"

\* What a poll can hand to the tuner: it holds both attempts, so a
\* component can be failed and updated; one that is neither was not polled.
\* Asking for a component not served can end in any error: a reply to an
\* earlier request or a busy device is no matter of what was asked for.
Reports ==
    {r \in [updated : SUBSET (Components \ Unserved),
            failed : [Components -> Errors \cup {NoError}]] :
        PlausibleReport(r)}
=============================================================================
