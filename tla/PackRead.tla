------------------------------ MODULE PackRead ------------------------------
(***************************************************************************)
(* Reading one pack of a BTS battery tower: async_read_pack of             *)
(* src/sofar_modbus/modern/device.py and async_select of                   *)
(* modern/battery_pack.py.  The tower reports one pack at a time.  A write *)
(* to the inquiry register selects which, and the tower switches a moment  *)
(* later, or much later, or never.  The code waits for pack_id to name the *)
(* pack, reads the block whatever it names, and compares once more.        *)
(*                                                                         *)
(* Nothing orders two reads, and a read can end with its selection still   *)
(* under way: it failed, or was cancelled, or gave up waiting.  All reads  *)
(* share one component.  One action is what runs between two awaits.       *)
(*                                                                         *)
(* A pack stands for its number in its group, as pack_id masked with       *)
(* 0x0FFF and the inquiry register both spell it.                          *)
(***************************************************************************)
EXTENDS Naturals

CONSTANTS
    Callers,      \* tasks that read packs
    Packs,        \* packs whose numbers are within 0-15
    OutOfRange,   \* packs whose numbers are not
    NoPack,       \* no pack
    SettleSteps   \* _SETTLE_STEPS

ASSUME PackAssumption ==
    /\ Packs # {}
    /\ NoPack \notin Packs
    /\ Packs \cap OutOfRange = {}
    /\ SettleSteps \in Nat \ {0}

VARIABLES
    serves,      \* the pack the tower reports at 0x9044 and up
    due,         \* the pack it is still to switch to, if any
    read,        \* each caller: the read in progress, or how the last one ended
    component,   \* battery_pack: the packs its pack_id and cells come from
    answering    \* _packs_answering

vars == <<serves, due, read, component, answering>>

\* The block is read in order of address: what the whole tower reports, then
\* which pack it serves, then that pack, longer than one request may be.
Blocks == {"tower", "pack_id", "cells", "rest"}
Selecting == {"looking", "writing", "settling"}
Active == Selecting \cup Blocks
Ended == {"idle", "returned"}

\* looks counts the checks made while settling; id and cells are the packs
\* that answered the requests made so far.  clean is history: the tower was
\* at rest when the read began and no other read has been under way since.
NoRead ==
    [at |-> "idle", wants |-> NoPack, looks |-> 0,
     id |-> NoPack, cells |-> {}, clean |-> FALSE]

NoValues == [id |-> NoPack, cells |-> {}]

TypeOK ==
    /\ serves \in Packs
    /\ due \in Packs \cup {NoPack}
    /\ read \in [Callers ->
        [at : Active \cup Ended, wants : Packs \cup {NoPack},
         looks : 0..(SettleSteps - 1), id : Packs \cup {NoPack},
         cells : SUBSET Packs, clean : BOOLEAN]]
    /\ component \in [id : Packs \cup {NoPack}, cells : SUBSET Packs]
    /\ answering \in [Packs -> {"unknown", "answers", "silent"}]

Init ==
    /\ serves \in Packs
    /\ due = NoPack
    /\ read = [c \in Callers |-> NoRead]
    /\ component = NoValues
    /\ answering = [p \in Packs |-> "unknown"]

UnderWay == {c \in Callers : read[c].at \in Active}

Set(c, r) == read' = [read EXCEPT ![c] = r]
Note(p, how) == answering' = [answering EXCEPT ![p] = how]

-----------------------------------------------------------------------------
(***************************************************************************)
(* async_select: look whether the tower serves the pack already, or else   *)
(* write the selection and look again after each of SettleSteps sleeps.    *)
(***************************************************************************)

\* A number outside 0-15 raises before anything is asked or noted.
AskOutOfRange(c) ==
    /\ read[c].at \in Ended
    /\ OutOfRange # {}
    /\ Set(c, NoRead)
    /\ UNCHANGED <<serves, due, component, answering>>

\* A read that begins while others are under way makes none of them clean.
Begin(c, p) ==
    /\ read[c].at \in Ended
    /\ read' = [d \in Callers |->
            IF d = c
            THEN [NoRead EXCEPT !.at = "looking", !.wants = p,
                    !.clean = due = NoPack /\ UnderWay = {}]
            ELSE [read[d] EXCEPT !.clean = FALSE]]
    /\ UNCHANGED <<serves, due, component, answering>>

BugAlwaysWrites(c) ==
    /\ read[c].at = "looking"
    /\ Set(c, [read[c] EXCEPT !.at = "writing"])
    /\ UNCHANGED <<serves, due, component, answering>>

Look(c) ==
    /\ read[c].at = "looking"
    /\ Set(c, [read[c] EXCEPT
            !.at = IF serves = read[c].wants THEN "tower" ELSE "writing"])
    /\ UNCHANGED <<serves, due, component, answering>>

\* The write is answered; the tower means to switch, or ignores it.
Select(c) ==
    /\ read[c].at = "writing"
    /\ due' \in {due, read[c].wants}
    /\ Set(c, [read[c] EXCEPT !.at = "settling"])
    /\ UNCHANGED <<serves, component, answering>>

\* The steps of the wait: a look that names the pack ends it, as does the
\* last one.
BugOneLookMore(c) ==
    LET last == serves = read[c].wants \/ read[c].looks = SettleSteps
    IN  Set(c, [read[c] EXCEPT
            !.at = IF last THEN "tower" ELSE "settling",
            !.looks = IF last THEN 0 ELSE @ + 1])

BugSettleForever(c) ==
    Set(c, [read[c] EXCEPT
            !.at = IF serves = read[c].wants THEN "tower" ELSE "settling"])

LookedAgain(c) ==
    LET last == serves = read[c].wants \/ read[c].looks = SettleSteps - 1
    IN  Set(c, [read[c] EXCEPT
            !.at = IF last THEN "tower" ELSE "settling",
            !.looks = IF last THEN 0 ELSE @ + 1])

LookAgain(c) ==
    /\ read[c].at = "settling"
    /\ LookedAgain(c)
    /\ UNCHANGED <<serves, due, component, answering>>

-----------------------------------------------------------------------------
(***************************************************************************)
(* async_update of the component, request by request.  Its values change   *)
(* together, when all of its requests are answered.                        *)
(***************************************************************************)
ReadTower(c) ==
    /\ read[c].at = "tower"
    /\ Set(c, [read[c] EXCEPT !.at = "pack_id"])
    /\ UNCHANGED <<serves, due, component, answering>>

BugTrustsSelection(c) ==
    /\ read[c].at = "pack_id"
    /\ Set(c, [read[c] EXCEPT !.at = "cells", !.id = read[c].wants])
    /\ UNCHANGED <<serves, due, component, answering>>

ReadPackId(c) ==
    /\ read[c].at = "pack_id"
    /\ Set(c, [read[c] EXCEPT !.at = "cells", !.id = serves])
    /\ UNCHANGED <<serves, due, component, answering>>

ReadCells(c) ==
    /\ read[c].at = "cells"
    /\ Set(c, [read[c] EXCEPT !.at = "rest", !.cells = {serves}])
    /\ UNCHANGED <<serves, due, component, answering>>

\* The last request: the component takes all values, and without a further
\* await the read compares pack_id with what it asked for.
ReadRest(c) ==
    LET r == read[c]
        cells == r.cells \cup {serves}
    IN  /\ r.at = "rest"
        /\ component' = [id |-> r.id, cells |-> cells]
        /\ Note(r.wants, IF r.id = r.wants THEN "answers" ELSE "silent")
        /\ Set(c, [NoRead EXCEPT !.at = "returned"])
        /\ UNCHANGED <<serves, due>>

-----------------------------------------------------------------------------
(***************************************************************************)
(* The other ways a request ends.                                          *)
(***************************************************************************)

Raise(c) == Set(c, NoRead)

\* The tower rejects it or does not answer: the pack counts as silent.  A
\* write may have been taken though its answer is missing.
Fail(c) ==
    /\ read[c].at \in Active
    /\ Raise(c)
    /\ Note(read[c].wants, "silent")
    /\ due' \in IF read[c].at = "writing" THEN {due, read[c].wants} ELSE {due}
    /\ UNCHANGED <<serves, component>>

\* The link is lost or the caller cancelled, at a sleep too: nothing is said
\* of the pack.
Abandon(c) ==
    /\ read[c].at \in Active
    /\ Raise(c)
    /\ due' \in IF read[c].at = "writing" THEN {due, read[c].wants} ELSE {due}
    /\ UNCHANGED <<serves, component, answering>>

\* The tower switches in its own time.
Switch ==
    /\ due # NoPack
    /\ serves' = due
    /\ due' = NoPack
    /\ UNCHANGED <<read, component, answering>>

-----------------------------------------------------------------------------
\* The steps of a read that goes on, and those that end it early.
Advance(c) ==
    \/ Look(c) \/ Select(c) \/ LookAgain(c)
    \/ ReadTower(c) \/ ReadPackId(c) \/ ReadCells(c) \/ ReadRest(c)

Step(c) == Advance(c) \/ Fail(c) \/ Abandon(c)

Next ==
    \/ \E c \in Callers :
        AskOutOfRange(c) \/ Step(c) \/ \E p \in Packs : Begin(c, p)
    \/ Switch

Spec == Init /\ [][Next]_vars

\* Every sleep is over some time, and every request answered unless it fails;
\* that the tower switches is not assumed.
FairSpec == Spec /\ \A c \in Callers : WF_vars(Advance(c))

-----------------------------------------------------------------------------
(***************************************************************************)
(* Properties.                                                             *)
(***************************************************************************)
Returns(c) == read[c].at = "rest" /\ read'[c].at = "returned"
Named(c) == component'.id = read[c].wants
Whole(c) == component'.cells = {component'.id}

\* A read that found the tower at rest and overlapped no other, and whose
\* pack_id names the pack it wanted, carries that pack's values only, however
\* late the tower switches to it: the block names its pack before the values.
PackIdTellsThePack ==
    [][\A c \in Callers :
        Returns(c) /\ read[c].clean /\ Named(c) => Whole(c)]_vars

\* What the docstring of async_read_pack offers every caller: checking
\* pack_id tells whose values were read.
CheckPackId ==
    [][\A c \in Callers : Returns(c) /\ Named(c) => Whole(c)]_vars

\* Asking alone for the pack a tower at rest serves never writes a selection,
\* so a tower that rejects the register still reports its pack: from the look
\* to the write nothing makes the look stale.
ServedNeedsNoWrite ==
    \A c \in Callers :
        read[c].clean /\ read[c].at = "writing" => serves # read[c].wants

\* Every read comes to an end, also when the tower never switches and
\* another caller keeps selecting a pack of its own.
ReadEnds == \A c \in Callers : read[c].at \in Active ~> read[c].at \in Ended
=============================================================================
