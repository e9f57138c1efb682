--------------------------- MODULE PackReadProofs ---------------------------
(***************************************************************************)
(* Proofs about PackRead, for any number of callers and packs and any      *)
(* settle window.                                                          *)
(*                                                                         *)
(* What makes a clean read trustworthy is that nothing but its own         *)
(* selection can be under way: until it writes one the tower is at rest,   *)
(* afterwards the tower can only switch to the pack wanted.  So once       *)
(* pack_id has named that pack, the tower cannot leave it.  IInv adds this *)
(* to the types; the properties say nothing of due and are not inductive.  *)
(***************************************************************************)
EXTENDS PackRead, TLAPS

\* A clean read is the only one under way.
Alone(c) == \A d \in Callers : d # c => read[d].at \notin Active

\* Nothing is due but, once written, the pack it wants.
OnlyOwnSelection(c) ==
    /\ due \in {NoPack, read[c].wants}
    /\ read[c].at \in {"looking", "writing"} => due = NoPack
    /\ read[c].at = "writing" => serves # read[c].wants

\* Named by its pack_id, the pack is served to the end of the read.
StaysNamed(c) ==
    /\ read[c].at \in {"cells", "rest"} /\ read[c].id = read[c].wants
        => serves = read[c].wants
    /\ read[c].at = "rest" /\ read[c].id = read[c].wants
        => read[c].cells = {read[c].wants}

CleanRead(c) ==
    read[c].clean => /\ read[c].at \in Active
                     /\ read[c].wants \in Packs
                     /\ Alone(c)
                     /\ OnlyOwnSelection(c)
                     /\ StaysNamed(c)

Wanting(c) == read[c].at \in Active => read[c].wants \in Packs

IInv == TypeOK /\ \A c \in Callers : Wanting(c) /\ CleanRead(c)

-----------------------------------------------------------------------------
\* The records the reads go through.
Reads ==
    [at : Active \cup Ended, wants : Packs \cup {NoPack},
     looks : 0..(SettleSteps - 1), id : Packs \cup {NoPack},
     cells : SUBSET Packs, clean : BOOLEAN]

\* The record of a read that ended is one, and no clean one.
LEMMA EndedReads ==
    /\ NoRead \in Reads /\ NoRead.at \in Ended /\ ~NoRead.clean
    /\ LET r == [NoRead EXCEPT !.at = "returned"]
       IN  r \in Reads /\ r.at \in Ended /\ ~r.clean
  <1>1. 0 \in 0..(SettleSteps - 1)
    BY PackAssumption
  <1>2. QED BY <1>1 DEF NoRead, Reads, Ended

LEMMA InitIInv == Init => IInv
  BY PackAssumption
  DEF Init, IInv, TypeOK, NoRead, NoValues, Wanting, CleanRead, Active, Ended,
      Selecting, Blocks

\* A caller that goes on from one await to the next leaves the others' reads
\* as they were.
LEMMA OthersKept ==
    ASSUME TypeOK, NEW c \in Callers, NEW r, Set(c, r)
    PROVE  /\ read'[c] = r
           /\ \A d \in Callers : d # c => read'[d] = read[d]
           /\ r \in Reads => read' \in [Callers -> Reads]
  BY DEF TypeOK, Set, Reads

\* It is enough to look at the read that moves: when it stays in progress and
\* the tower is as before or has been given its selection, another read under
\* way was not clean to begin with.
LEMMA StepKeepsIInv ==
    ASSUME IInv, NEW c \in Callers, NEW r \in Reads, Set(c, r),
           read[c].at \in Active,
           serves' = serves, due' \in Packs \cup {NoPack},
           component' \in [id : Packs \cup {NoPack}, cells : SUBSET Packs],
           answering' \in [Packs -> {"unknown", "answers", "silent"}],
           r.at \in Active => r.wants \in Packs,
           r.clean => read[c].clean /\ r.at \in Active,
           CleanRead(c)'
    PROVE  IInv'
  <1>1. /\ read'[c] = r
        /\ \A d \in Callers : d # c => read'[d] = read[d]
        /\ read' \in [Callers -> Reads]
    BY OthersKept DEF IInv
  <1>2. TypeOK'
    BY <1>1 DEF IInv, TypeOK, Reads
  <1>3. ASSUME NEW d \in Callers PROVE Wanting(d)' /\ CleanRead(d)'
    <2>1. CASE d = c
      BY <2>1, <1>1 DEF Wanting
    <2>2. CASE d # c
      <3>1. read'[d] = read[d]
        BY <2>2, <1>1
      <3>2. ~read[d].clean
        BY <2>2 DEF IInv, CleanRead, Alone
      <3>3. QED BY <3>1, <3>2 DEF IInv, Wanting, CleanRead
    <2>3. QED BY <2>1, <2>2
  <1>4. QED BY <1>2, <1>3 DEF IInv

-----------------------------------------------------------------------------
LEMMA BeginKeepsIInv ==
    ASSUME IInv, NEW c \in Callers, NEW p \in Packs, Begin(c, p)
    PROVE  IInv'
  <1> DEFINE clean == due = NoPack /\ UnderWay = {}
             r == [NoRead EXCEPT !.at = "looking", !.wants = p,
                      !.clean = clean]
  <1>0. /\ clean \in BOOLEAN
        /\ clean => due = NoPack /\ UnderWay = {}
    OBVIOUS
  <1>1. /\ r \in Reads /\ r.at = "looking" /\ r.wants = p
        /\ r.clean => due = NoPack /\ UnderWay = {}
    <2>1. 0 \in 0..(SettleSteps - 1)
      BY PackAssumption
    <2> HIDE DEF clean
    <2>2. QED BY <1>0, <2>1 DEF NoRead, Reads, Active, Selecting
  <1>2. /\ read'[c] = r
        /\ \A d \in Callers : d # c =>
              read'[d] = [read[d] EXCEPT !.clean = FALSE]
        /\ read' \in [Callers -> Reads]
    BY <1>1 DEF Begin, IInv, TypeOK, Reads
  <1> HIDE DEF r
  <1>3. TypeOK'
    BY <1>2 DEF IInv, TypeOK, Begin, Reads
  <1>4. ASSUME NEW d \in Callers PROVE Wanting(d)' /\ CleanRead(d)'
    <2>1. CASE d = c
      <3>1. Wanting(c)'
        BY <1>1, <1>2 DEF Wanting
      <3>2. SUFFICES ASSUME r.clean PROVE CleanRead(c)'
        BY <2>1, <3>1, <1>2 DEF CleanRead
      <3>3. due' = NoPack /\ \A e \in Callers : read[e].at \notin Active
        BY <3>2, <1>1 DEF Begin, UnderWay
      <3>4. Alone(c)'
        BY <3>3, <1>2 DEF Alone, IInv, TypeOK
      <3>5. OnlyOwnSelection(c)' /\ StaysNamed(c)'
        BY <1>1, <1>2, <3>3 DEF OnlyOwnSelection, StaysNamed
      <3>6. QED BY <1>1, <1>2, <3>4, <3>5 DEF CleanRead, Active, Selecting
    <2>2. CASE d # c
      <3>1. /\ ~read'[d].clean
            /\ read'[d].at = read[d].at /\ read'[d].wants = read[d].wants
        BY <2>2, <1>2 DEF IInv, TypeOK
      <3>2. QED BY <3>1 DEF IInv, Wanting, CleanRead
    <2>3. QED BY <2>1, <2>2
  <1>5. QED BY <1>3, <1>4 DEF IInv

\* Where a read ends, or a call raises at once, no read is left to be clean.
LEMMA EndKeepsIInv ==
    ASSUME IInv, NEW c \in Callers,
           NEW r \in Reads, r.at \in Ended, ~r.clean, Set(c, r),
           serves' = serves,
           due' = due \/ (read[c].at \in Active /\ due' \in Packs \cup {NoPack}),
           component' \in [id : Packs \cup {NoPack}, cells : SUBSET Packs],
           answering' \in [Packs -> {"unknown", "answers", "silent"}]
    PROVE  IInv'
  <1>2. /\ read'[c] = r
        /\ \A d \in Callers : d # c => read'[d] = read[d]
        /\ read' \in [Callers -> Reads]
    BY OthersKept DEF IInv
  <1>3. r.at \notin Active
    BY DEF Active, Ended, Selecting, Blocks
  <1>4. TypeOK'
    BY <1>2 DEF IInv, TypeOK, Reads
  <1>5. Wanting(c)' /\ CleanRead(c)'
    BY <1>2, <1>3 DEF Wanting, CleanRead
  <1>6. ASSUME NEW d \in Callers, d # c PROVE Wanting(d)' /\ CleanRead(d)'
    <2>1. read'[d] = read[d]
      BY <1>6, <1>2
    <2>2. Wanting(d)'
      BY <2>1 DEF IInv, Wanting
    <2>3. SUFFICES ASSUME read[d].clean PROVE CleanRead(d)'
      BY <2>1, <2>2 DEF CleanRead
    <2>4. /\ read[d].at \in Active /\ read[d].wants \in Packs
          /\ Alone(d) /\ OnlyOwnSelection(d) /\ StaysNamed(d)
      BY <2>3 DEF IInv, CleanRead
    <2>5. due' = due
      BY <2>4, <1>6 DEF Alone
    <2>6. Alone(d)'
      BY <2>4, <1>2, <1>3 DEF Alone
    <2>7. OnlyOwnSelection(d)' /\ StaysNamed(d)'
      BY <2>1, <2>4, <2>5 DEF OnlyOwnSelection, StaysNamed
    <2>8. QED BY <2>1, <2>4, <2>6, <2>7 DEF CleanRead
  <1>7. QED BY <1>4, <1>5, <1>6 DEF IInv

-----------------------------------------------------------------------------
\* Every step of a read keeps IInv.
LEMMA ReadKeepsIInv ==
    ASSUME IInv, NEW c \in Callers, Step(c)
    PROVE  IInv'
  <1> DEFINE old == read[c]
  <1>1. /\ old \in Reads
        /\ old.at \in Active => old.wants \in Packs
        /\ serves \in Packs /\ due \in Packs \cup {NoPack}
        /\ component \in [id : Packs \cup {NoPack}, cells : SUBSET Packs]
        /\ answering \in [Packs -> {"unknown", "answers", "silent"}]
    BY DEF IInv, TypeOK, Wanting, Reads
  <1>2. CleanRead(c)
    BY DEF IInv
  <1>a. Active = {"looking", "writing", "settling",
                  "tower", "pack_id", "cells", "rest"}
    BY DEF Active, Selecting, Blocks
  <1>3. CASE Look(c)
    <2> DEFINE r == [old EXCEPT !.at =
                        IF serves = old.wants THEN "tower" ELSE "writing"]
    <2>1. /\ r \in Reads /\ r.at \in {"tower", "writing"}
          /\ r.wants = old.wants /\ r.clean = old.clean
          /\ r.at = "writing" => serves # r.wants
      BY <1>1, <1>a DEF Reads
    <2>2. Set(c, r) /\ old.at = "looking" /\ UNCHANGED <<serves, due, component, answering>>
      BY <1>3 DEF Look
    <2> HIDE DEF r
    <2>3. read'[c] = r /\ \A d \in Callers : d # c => read'[d] = read[d]
      BY <2>2, OthersKept DEF IInv
    <2>4. CleanRead(c)'
      BY <2>1, <2>2, <2>3, <1>2, <1>a
      DEF CleanRead, Alone, OnlyOwnSelection, StaysNamed
    <2>5. QED BY <1>1, <1>a, <2>1, <2>2, <2>4, StepKeepsIInv
  <1>4. CASE Select(c)
    <2> DEFINE r == [old EXCEPT !.at = "settling"]
    <2>1. /\ r \in Reads /\ r.at = "settling"
          /\ r.wants = old.wants /\ r.clean = old.clean
      BY <1>1, <1>a DEF Reads
    <2>2. /\ Set(c, r) /\ old.at = "writing" /\ due' \in {due, old.wants}
          /\ UNCHANGED <<serves, component, answering>>
      BY <1>4 DEF Select
    <2> HIDE DEF r
    <2>3. read'[c] = r /\ \A d \in Callers : d # c => read'[d] = read[d]
      BY <2>2, OthersKept DEF IInv
    <2>4. CleanRead(c)'
      BY <2>1, <2>2, <2>3, <1>2, <1>a
      DEF CleanRead, Alone, OnlyOwnSelection, StaysNamed
    <2>5. QED BY <1>1, <1>a, <2>1, <2>2, <2>4, StepKeepsIInv
  <1>5. CASE LookAgain(c)
    <2>1. PICK at \in {"tower", "settling"}, looks \in 0..(SettleSteps - 1) :
            Set(c, [old EXCEPT !.at = at, !.looks = looks])
      <3> DEFINE last == serves = old.wants \/ old.looks = SettleSteps - 1
      <3>1. CASE last
        <4>1. Set(c, [old EXCEPT !.at = "tower", !.looks = 0])
          BY <3>1, <1>5 DEF LookAgain, LookedAgain
        <4>2. 0 \in 0..(SettleSteps - 1)
          BY PackAssumption
        <4>3. QED BY <4>1, <4>2
      <3>2. CASE ~last
        <4>1. Set(c, [old EXCEPT !.at = "settling", !.looks = old.looks + 1])
          BY <3>2, <1>5 DEF LookAgain, LookedAgain
        <4>2. old.looks + 1 \in 0..(SettleSteps - 1)
          BY <3>2, <1>1, PackAssumption DEF Reads
        <4>3. QED BY <4>1, <4>2
      <3>3. QED BY <3>1, <3>2
    <2> DEFINE r == [old EXCEPT !.at = at, !.looks = looks]
    <2>2. /\ r \in Reads /\ r.at \in {"tower", "settling"}
          /\ r.wants = old.wants /\ r.clean = old.clean
      BY <1>1, <1>a, <2>1 DEF Reads
    <2>3. Set(c, r) /\ old.at = "settling" /\ UNCHANGED <<serves, due, component, answering>>
      BY <1>5, <2>1 DEF LookAgain
    <2> HIDE DEF r
    <2>4. read'[c] = r /\ \A d \in Callers : d # c => read'[d] = read[d]
      BY <2>3, OthersKept DEF IInv
    <2>5. CleanRead(c)'
      BY <2>2, <2>3, <2>4, <1>2, <1>a
      DEF CleanRead, Alone, OnlyOwnSelection, StaysNamed
    <2>6. QED BY <1>1, <1>a, <2>2, <2>3, <2>5, StepKeepsIInv
  <1>6. CASE ReadTower(c)
    <2> DEFINE r == [old EXCEPT !.at = "pack_id"]
    <2>1. /\ r \in Reads /\ r.at = "pack_id"
          /\ r.wants = old.wants /\ r.clean = old.clean
      BY <1>1, <1>a DEF Reads
    <2>2. Set(c, r) /\ old.at = "tower" /\ UNCHANGED <<serves, due, component, answering>>
      BY <1>6 DEF ReadTower
    <2> HIDE DEF r
    <2>3. read'[c] = r /\ \A d \in Callers : d # c => read'[d] = read[d]
      BY <2>2, OthersKept DEF IInv
    <2>4. CleanRead(c)'
      BY <2>1, <2>2, <2>3, <1>2, <1>a
      DEF CleanRead, Alone, OnlyOwnSelection, StaysNamed
    <2>5. QED BY <1>1, <1>a, <2>1, <2>2, <2>4, StepKeepsIInv
  <1>7. CASE ReadPackId(c)
    <2> DEFINE r == [old EXCEPT !.at = "cells", !.id = serves]
    <2>1. /\ r \in Reads /\ r.at = "cells" /\ r.id = serves
          /\ r.wants = old.wants /\ r.clean = old.clean
      BY <1>1, <1>a DEF Reads
    <2>2. Set(c, r) /\ old.at = "pack_id" /\ UNCHANGED <<serves, due, component, answering>>
      BY <1>7 DEF ReadPackId
    <2> HIDE DEF r
    <2>3. read'[c] = r /\ \A d \in Callers : d # c => read'[d] = read[d]
      BY <2>2, OthersKept DEF IInv
    <2>4. CleanRead(c)'
      BY <2>1, <2>2, <2>3, <1>2, <1>a
      DEF CleanRead, Alone, OnlyOwnSelection, StaysNamed
    <2>5. QED BY <1>1, <1>a, <2>1, <2>2, <2>4, StepKeepsIInv
  <1>8. CASE ReadCells(c)
    <2> DEFINE r == [old EXCEPT !.at = "rest", !.cells = {serves}]
    <2>1. /\ r \in Reads /\ r.at = "rest" /\ r.cells = {serves}
          /\ r.wants = old.wants /\ r.clean = old.clean /\ r.id = old.id
      BY <1>1, <1>a DEF Reads
    <2>2. Set(c, r) /\ old.at = "cells" /\ UNCHANGED <<serves, due, component, answering>>
      BY <1>8 DEF ReadCells
    <2> HIDE DEF r
    <2>3. read'[c] = r /\ \A d \in Callers : d # c => read'[d] = read[d]
      BY <2>2, OthersKept DEF IInv
    <2>4. CleanRead(c)'
      BY <2>1, <2>2, <2>3, <1>2, <1>a
      DEF CleanRead, Alone, OnlyOwnSelection, StaysNamed
    <2>5. QED BY <1>1, <1>a, <2>1, <2>2, <2>4, StepKeepsIInv
  <1>9. CASE ReadRest(c)
    <2>1. /\ Set(c, [NoRead EXCEPT !.at = "returned"])
          /\ UNCHANGED <<serves, due>>
      BY <1>9 DEF ReadRest
    <2>2. component' \in [id : Packs \cup {NoPack}, cells : SUBSET Packs]
      BY <1>9, <1>1 DEF ReadRest, Reads
    <2>3. answering' \in [Packs -> {"unknown", "answers", "silent"}]
      BY <1>9, <1>1 DEF ReadRest, Note
    <2>4. QED BY <2>1, <2>2, <2>3, EndedReads, EndKeepsIInv
  <1>10. ASSUME Fail(c) \/ Abandon(c) PROVE IInv'
    <2>1. Set(c, NoRead) /\ serves' = serves /\ component' = component
      BY <1>10 DEF Fail, Abandon, Raise
    <2>2. read[c].at \in Active /\ due' \in Packs \cup {NoPack}
      BY <1>10, <1>1 DEF Fail, Abandon
    <2>3. answering' \in [Packs -> {"unknown", "answers", "silent"}]
      BY <1>10, <1>1 DEF Fail, Abandon, Note
    <2>4. QED BY <1>1, <2>1, <2>2, <2>3, EndedReads, EndKeepsIInv
  <1>11. QED
    BY <1>3, <1>4, <1>5, <1>6, <1>7, <1>8, <1>9, <1>10 DEF Step, Advance

\* The tower switches while a clean read goes on: to the pack it wants.
LEMMA SwitchKeepsIInv == IInv /\ Switch => IInv'
  <1> SUFFICES ASSUME IInv, Switch PROVE IInv'
    OBVIOUS
  <1>1. /\ serves' = due /\ due # NoPack /\ due' = NoPack
        /\ UNCHANGED <<read, component, answering>>
    BY DEF Switch
  <1>2. TypeOK'
    BY <1>1 DEF IInv, TypeOK
  <1>3. ASSUME NEW c \in Callers PROVE Wanting(c)' /\ CleanRead(c)'
    <2>1. Wanting(c) /\ CleanRead(c)
      BY DEF IInv
    <2>2. Wanting(c)'
      BY <1>1, <2>1 DEF Wanting
    <2>3. CleanRead(c)'
      BY <1>1, <2>1 DEF CleanRead, Alone, OnlyOwnSelection, StaysNamed
    <2>4. QED BY <2>2, <2>3
  <1>4. QED BY <1>2, <1>3 DEF IInv

LEMMA NextKeepsIInv == IInv /\ [Next]_vars => IInv'
  <1> SUFFICES ASSUME IInv, [Next]_vars PROVE IInv'
    OBVIOUS
  <1>1. ASSUME NEW c \in Callers, AskOutOfRange(c) PROVE IInv'
    <2>1. Set(c, NoRead) /\ UNCHANGED <<serves, due, component, answering>>
      BY <1>1 DEF AskOutOfRange
    <2>2. QED BY <2>1, EndedReads, EndKeepsIInv DEF IInv, TypeOK
  <1>2. ASSUME NEW c \in Callers, Step(c) PROVE IInv'
    BY <1>2, ReadKeepsIInv
  <1>3. ASSUME NEW c \in Callers, NEW p \in Packs, Begin(c, p) PROVE IInv'
    BY <1>3, BeginKeepsIInv
  <1>4. CASE Switch
    BY <1>4, SwitchKeepsIInv
  <1>5. CASE UNCHANGED vars
    BY <1>5 DEF vars, IInv, TypeOK, Wanting, CleanRead, Alone,
                OnlyOwnSelection, StaysNamed
  <1>6. QED BY <1>1, <1>2, <1>3, <1>4, <1>5 DEF Next

THEOREM InductiveInvariant == Spec => []IInv
  BY InitIInv, NextKeepsIInv, PTL DEF Spec

-----------------------------------------------------------------------------
\* Every variable of PackRead keeps its type: the looks stay within the
\* settle window, whoever else selects and however the read ends.
THEOREM TypeCorrect == Spec => []TypeOK
  <1>1. IInv => TypeOK
    BY DEF IInv
  <1>2. QED BY <1>1, InductiveInvariant, PTL

\* Asking alone for the pack a tower at rest serves writes no selection.
THEOREM ServedIsNotWritten == Spec => []ServedNeedsNoWrite
  <1>1. IInv => ServedNeedsNoWrite
    BY DEF IInv, ServedNeedsNoWrite, CleanRead, OnlyOwnSelection
  <1>2. QED BY <1>1, InductiveInvariant, PTL

\* A clean read whose pack_id names the pack it wanted carries that pack's
\* values only: async_read_pack's check is enough for it.
THEOREM NamedIsWhole == Spec => PackIdTellsThePack
  <1>1. ASSUME IInv, [Next]_vars, NEW c \in Callers,
               Returns(c), read[c].clean, Named(c)
        PROVE  Whole(c)
    <2>1. read[c].at = "rest" /\ read'[c].at = "returned"
      BY <1>1 DEF Returns
    <2>2. ReadRest(c)
      <3>1. ASSUME NEW d \in Callers, Step(d), d # c PROVE FALSE
        <4>1. read'[c] = read[c]
          BY <3>1, <1>1
          DEF Step, Advance, Look, Select, LookAgain, LookedAgain, ReadTower, ReadPackId,
              ReadCells, ReadRest, Fail, Abandon, Raise, Set, IInv, TypeOK
        <4>2. QED BY <4>1, <2>1
      <3>2. Step(c) => ReadRest(c)
        BY <2>1, <1>1
        DEF Step, Advance, Look, Select, LookAgain, ReadTower, ReadPackId, ReadCells,
            Fail, Abandon, Raise, Set, NoRead, IInv, TypeOK
      <3>3. ~AskOutOfRange(c) /\ \A p \in Packs : ~Begin(c, p)
        BY <2>1 DEF AskOutOfRange, Begin, Ended
      <3>4. ASSUME NEW d \in Callers, d # c,
                   AskOutOfRange(d) \/ \E p \in Packs : Begin(d, p)
            PROVE  FALSE
        <4>1. AskOutOfRange(d) => read'[c].at = read[c].at
          BY <3>4, <1>1 DEF AskOutOfRange, Set, IInv, TypeOK
        <4>2. ASSUME NEW p \in Packs, Begin(d, p)
              PROVE  read'[c].at = read[c].at
          <5>1. read'[c] = [read[c] EXCEPT !.clean = FALSE]
            BY <3>4, <4>2 DEF Begin
          <5>2. QED BY <5>1, <1>1 DEF IInv, TypeOK
        <4>3. QED BY <3>4, <4>1, <4>2, <2>1
      <3>5. read' # read
        BY <2>1
      <3>6. QED BY <1>1, <3>1, <3>2, <3>3, <3>4, <3>5 DEF Next, Switch, vars
    <2>3. component'.id = read[c].id
          /\ component'.cells = read[c].cells \cup {serves}
      BY <2>2 DEF ReadRest
    <2>4. read[c].id = read[c].wants
      BY <2>3, <1>1 DEF Named
    <2>5. serves = read[c].wants /\ read[c].cells = {read[c].wants}
      BY <2>1, <2>4, <1>1 DEF IInv, CleanRead, StaysNamed
    <2>6. QED BY <2>3, <2>4, <2>5 DEF Whole
  <1>2. IInv /\ [Next]_vars =>
            [\A c \in Callers :
                Returns(c) /\ read[c].clean /\ Named(c) => Whole(c)]_vars
    BY <1>1
  <1>3. QED BY <1>2, InductiveInvariant, PTL DEF Spec, PackIdTellsThePack
=============================================================================
