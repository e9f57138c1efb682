--------------------------- MODULE TornReadProofs ---------------------------
(***************************************************************************)
(* Proofs about TornRead, for any totals, tolerance and bounds.            *)
(*                                                                         *)
(* IInv adds to the types what the correction relies on: a poll that is    *)
(* yet to end has left values behind, however often they were read anew    *)
(* since, each within a torn read of its counter at that time; and a       *)
(* total is never shown above its mark, since seeds only raise marks.      *)
(***************************************************************************)
EXTENDS TornRead, TLAPS

DueHasRead == due > 0 => values \in [Totals -> Counts]

ReadIsTorn(t) ==
    values[t] # None =>
        /\ readAt[t] \in Counts
        /\ values[t] <= readAt[t]
        /\ ~FarBelow(values[t], readAt[t])

MarkCovers(t) == corrected[t] <= highWater[t]

\* What NeverFarOff says of one total.
NearPolled(t) ==
    corrected[t] # None =>
        /\ corrected[t] >= polled[t]
        /\ ~FarBelow(polled[t], corrected[t])

IInv ==
    /\ TypeOK
    /\ DueHasRead
    /\ \A t \in Totals : ReadIsTorn(t) /\ MarkCovers(t) /\ NearPolled(t)

-----------------------------------------------------------------------------
(***************************************************************************)
(* The tolerance.                                                          *)
(***************************************************************************)

LEMMA Bounds ==
    /\ Scale \in Nat /\ Dip \in Nat /\ Scale - Dip \in Nat /\ Scale - Dip <= Scale
    /\ Counts \subseteq Nat /\ None \notin Counts
    /\ \A r \in Readings : r \in Int /\ (r # None => r \in Counts)
  BY TornReadAssumption DEF Counts, Readings, None

LEMMA CountsAreInts == \A c \in Counts : c \in Int
  BY DEF Counts

LEMMA ProductMonotone ==
    ASSUME NEW a \in Nat, NEW b \in Nat, NEW n \in Nat, a <= b
    PROVE  a * n \in Nat /\ b * n \in Nat /\ a * n <= b * n
  <1> DEFINE d == b - a
  <1>1. d \in Nat /\ b = a + d
    OBVIOUS
  <1>2. a * n \in Nat /\ d * n \in Nat
    OBVIOUS
  <1>3. b * n = a * n + d * n
    BY <1>1
  <1>4. QED BY <1>2, <1>3

\* A value is not far below itself.
LEMMA NotBelowItself ==
    ASSUME NEW v \in Counts
    PROVE  ~FarBelow(v, v)
  <1>1. v \in Nat
    BY Bounds
  <1>2. (Scale - Dip) * v <= Scale * v
    BY <1>1, Bounds, ProductMonotone
  <1>3. /\ (Scale - Dip) * v = v * (Scale - Dip) /\ Scale * v = v * Scale
        /\ Scale * v \in Nat /\ (Scale - Dip) * v \in Nat
    BY <1>1, Bounds
  <1>4. QED BY <1>2, <1>3 DEF FarBelow

\* What is too low for a mark, but not for the counter, tells that the mark
\* is above the counter.
LEMMA MarkAboveCounter ==
    ASSUME NEW v \in Counts, NEW mark \in Counts, NEW count \in Counts,
           FarBelow(v, mark), ~FarBelow(v, count)
    PROVE  mark > count
  <1>1. v \in Nat /\ mark \in Nat /\ count \in Nat
    BY Bounds
  <1>2. SUFFICES ASSUME mark <= count PROVE FALSE
    BY <1>1
  <1>3. /\ mark * (Scale - Dip) <= count * (Scale - Dip)
        /\ mark * (Scale - Dip) \in Nat /\ count * (Scale - Dip) \in Nat
    BY <1>1, <1>2, Bounds, ProductMonotone
  <1>4. v * Scale \in Nat
    BY <1>1, Bounds
  <1>5. QED BY <1>3, <1>4 DEF FarBelow

-----------------------------------------------------------------------------
(***************************************************************************)
(* The correction of one total.                                            *)
(***************************************************************************)
LEMMA CorrectedTotal ==
    ASSUME IInv, Correct, NEW t \in Totals
    PROVE  /\ values[t] \in Counts /\ polled'[t] = values[t]
           /\ highWater'[t] = corrected'[t]
           /\ \/ corrected'[t] = values[t] /\ Takes(t)
              \/ /\ corrected'[t] = highWater[t]
                 /\ highWater[t] \in Counts
                 /\ values[t] < highWater[t]
                 /\ ~FarBelow(values[t], highWater[t])
  <1>1. values[t] \in Counts /\ values[t] # None
    BY Bounds DEF IInv, DueHasRead, Correct, TypeOK
  <1>2. /\ highWater'[t] = IF Takes(t) THEN values[t] ELSE highWater[t]
        /\ corrected'[t] = highWater'[t]
        /\ polled'[t] = values[t]
    BY <1>1 DEF Correct
  <1>3. CASE Takes(t)
    BY <1>1, <1>2, <1>3
  <1>4. CASE ~Takes(t)
    <2>1. highWater[t] \in Counts
      BY <1>4, Bounds DEF Takes, IInv, TypeOK
    <2>2. highWater[t] # None
      BY <2>1, Bounds
    <2>3. ~(values[t] >= highWater[t]) /\ ~FarBelow(values[t], highWater[t])
      BY <1>4 DEF Takes
    <2>4. values[t] \in Int /\ highWater[t] \in Int
      BY <1>1, <2>1, CountsAreInts
    <2>5. values[t] < highWater[t]
      BY <2>3, <2>4
    <2>6. QED BY <1>1, <1>2, <1>4, <2>1, <2>3, <2>5
  <1>5. QED BY <1>3, <1>4

LEMMA CorrectKeepsIInv == IInv /\ Correct => IInv'
  <1> SUFFICES ASSUME IInv, Correct PROVE IInv'
    OBVIOUS
  <1>1. ASSUME NEW t \in Totals
        PROVE  /\ highWater'[t] \in Readings /\ corrected'[t] \in Readings
               /\ ReadIsTorn(t)' /\ MarkCovers(t)' /\ NearPolled(t)'
    <2>1. highWater'[t] = corrected'[t] /\ corrected'[t] \in Counts
      BY CorrectedTotal
    <2>2. corrected'[t] >= polled'[t] /\ ~FarBelow(polled'[t], corrected'[t])
      <3>1. CASE corrected'[t] = values[t]
        <4>1. values[t] \in Counts /\ polled'[t] = values[t]
          BY CorrectedTotal
        <4>2. values[t] \in Int /\ ~FarBelow(values[t], values[t])
          BY <4>1, CountsAreInts, NotBelowItself
        <4>3. values[t] >= values[t]
          BY <4>2
        <4>4. QED BY <3>1, <4>1, <4>2, <4>3 DEF FarBelow
      <3>2. CASE corrected'[t] # values[t]
        <4>1. /\ values[t] \in Counts /\ polled'[t] = values[t]
              /\ corrected'[t] = highWater[t] /\ highWater[t] \in Counts
              /\ values[t] < highWater[t]
              /\ ~FarBelow(values[t], highWater[t])
          BY <3>2, CorrectedTotal
        <4>2. values[t] \in Int /\ highWater[t] \in Int
          BY <4>1, CountsAreInts
        <4>3. highWater[t] >= values[t]
          BY <4>1, <4>2
        <4>4. QED BY <4>1, <4>3 DEF FarBelow
      <3>3. QED BY <3>1, <3>2
    <2>3. ReadIsTorn(t)'
      BY DEF IInv, Correct, ReadIsTorn, FarBelow
    <2>4. corrected'[t] \in Int
      BY <2>1, CountsAreInts
    <2>5. MarkCovers(t)'
      BY <2>1, <2>4 DEF MarkCovers
    <2>6. NearPolled(t)'
      BY <2>2 DEF NearPolled, FarBelow
    <2>7. QED BY <2>1, <2>3, <2>5, <2>6 DEF Readings
  <1>2. /\ highWater' \in [Totals -> Readings]
        /\ corrected' \in [Totals -> Readings]
    <2>1. /\ DOMAIN highWater' = Totals /\ DOMAIN corrected' = Totals
          /\ highWater' = [t \in Totals |-> highWater'[t]]
          /\ corrected' = [t \in Totals |-> corrected'[t]]
      BY DEF Correct
    <2>2. QED BY <1>1, <2>1
  <1>3. due' \in 0..MaxDue /\ DueHasRead'
    BY TornReadAssumption DEF IInv, TypeOK, Correct, DueHasRead
  <1>4. TypeOK'
    BY <1>2, <1>3 DEF IInv, TypeOK, Correct
  <1>5. QED BY <1>1, <1>3, <1>4 DEF IInv

-----------------------------------------------------------------------------
(***************************************************************************)
(* The other steps.                                                        *)
(***************************************************************************)
LEMMA ReadKeepsIInv ==
    ASSUME IInv, TakesValues, due' \in 0..MaxDue
    PROVE  IInv'
  <1>1. /\ values' \in [Totals -> Counts] /\ readAt' = counter
        /\ UNCHANGED <<counter, highWater, corrected, polled, saved>>
        /\ \A t \in Totals :
              values'[t] <= counter[t] /\ ~FarBelow(values'[t], counter[t])
    BY DEF TakesValues
  <1>2. TypeOK'
    BY <1>1 DEF IInv, TypeOK, Readings
  <1>3. ASSUME NEW t \in Totals
        PROVE  ReadIsTorn(t)' /\ MarkCovers(t)' /\ NearPolled(t)'
    BY <1>1 DEF IInv, TypeOK, ReadIsTorn, MarkCovers, NearPolled, FarBelow
  <1>4. QED BY <1>1, <1>2, <1>3 DEF IInv, DueHasRead

LEMMA SeedKeepsIInv ==
    ASSUME IInv, NEW s \in Totals, Seed(s)
    PROVE  IInv'
  <1>1. /\ highWater' \in [Totals -> Readings]
        /\ \A t \in Totals : highWater'[t] >= highWater[t]
        /\ UNCHANGED <<counter, values, readAt, due, corrected, polled, saved>>
    BY Bounds DEF Seed, IInv, TypeOK
  <1>2. TypeOK'
    BY <1>1 DEF IInv, TypeOK
  <1>3. ASSUME NEW t \in Totals
        PROVE  ReadIsTorn(t)' /\ MarkCovers(t)' /\ NearPolled(t)'
    <2>1. /\ corrected[t] \in Int /\ highWater[t] \in Int
          /\ highWater'[t] \in Int
      BY <1>1, Bounds DEF IInv, TypeOK
    <2>2. MarkCovers(t)'
      BY <1>1, <2>1 DEF IInv, MarkCovers
    <2>3. QED BY <1>1, <2>2 DEF IInv, ReadIsTorn, NearPolled, FarBelow
  <1>4. QED BY <1>1, <1>2, <1>3 DEF IInv, DueHasRead

LEMMA RestartKeepsIInv == IInv /\ Restart => IInv'
  <1> SUFFICES ASSUME IInv, Restart PROVE IInv'
    OBVIOUS
  <1>1. 0 \in 0..MaxDue /\ ~(0 > 0)
    BY TornReadAssumption
  <1>2. Unread \in [Totals -> Readings] /\ \A t \in Totals : Unread[t] = None
    BY DEF Unread, Readings
  <1>3. TypeOK'
    BY <1>1, <1>2 DEF Restart, IInv, TypeOK
  <1>4. ASSUME NEW t \in Totals
        PROVE  ReadIsTorn(t)' /\ MarkCovers(t)' /\ NearPolled(t)'
    BY <1>2 DEF Restart, ReadIsTorn, MarkCovers, NearPolled, None
  <1>5. QED BY <1>1, <1>3, <1>4 DEF IInv, DueHasRead, Restart

\* The counters, a poll that is lost, the host's store.
LEMMA RestKeepsIInv ==
    ASSUME IInv,
           counter' \in [Totals -> Counts], due' \in 0..MaxDue, due' <= due,
           saved' \in [Totals -> Readings],
           UNCHANGED <<values, readAt, highWater, corrected, polled>>
    PROVE  IInv'
  <1>1. TypeOK'
    BY DEF IInv, TypeOK
  <1>2. DueHasRead'
    BY TornReadAssumption DEF IInv, TypeOK, DueHasRead
  <1>3. \A t \in Totals : ReadIsTorn(t)' /\ MarkCovers(t)' /\ NearPolled(t)'
    BY DEF IInv, ReadIsTorn, MarkCovers, NearPolled, FarBelow
  <1>4. QED BY <1>1, <1>2, <1>3 DEF IInv

LEMMA InitIInv == Init => IInv
  <1> SUFFICES ASSUME Init PROVE IInv
    OBVIOUS
  <1>1. 0 \in 0..MaxDue /\ ~(0 > 0)
    BY TornReadAssumption
  <1>2. Unread \in [Totals -> Readings] /\ \A t \in Totals : Unread[t] = None
    BY DEF Unread, Readings
  <1>3. TypeOK
    BY <1>1, <1>2 DEF Init, TypeOK
  <1>4. ASSUME NEW t \in Totals
        PROVE  ReadIsTorn(t) /\ MarkCovers(t) /\ NearPolled(t)
    BY <1>2 DEF Init, ReadIsTorn, MarkCovers, NearPolled, None
  <1>5. QED BY <1>1, <1>3, <1>4 DEF IInv, DueHasRead, Init

LEMMA NextKeepsIInv == IInv /\ [Next]_vars => IInv'
  <1> SUFFICES ASSUME IInv, [Next]_vars PROVE IInv'
    OBVIOUS
  <1>0. /\ counter \in [Totals -> Counts] /\ due \in 0..MaxDue
        /\ saved \in [Totals -> Readings] /\ corrected \in [Totals -> Readings]
        /\ MaxDue \in Nat /\ MaxCount \in Nat
    BY TornReadAssumption DEF IInv, TypeOK
  <1>1. ASSUME NEW t \in Totals, Grow(t) PROVE IInv'
    <2>1. counter' \in [Totals -> Counts]
      BY <1>0, <1>1 DEF Grow, Counts
    <2>2. QED BY <1>0, <1>1, <2>1, RestKeepsIInv DEF Grow
  <1>2. ASSUME NEW t \in Totals, Reset(t) PROVE IInv'
    <2>1. counter' \in [Totals -> Counts]
      BY <1>0, <1>2 DEF Reset, Counts
    <2>2. QED BY <1>0, <1>2, <2>1, RestKeepsIInv DEF Reset
  <1>3. ASSUME NEW t \in Totals, Seed(t) PROVE IInv'
    BY <1>3, SeedKeepsIInv
  <1>4. CASE PollRead
    <2>1. due' \in 0..MaxDue
      BY <1>0, <1>4 DEF PollRead
    <2>2. QED BY <1>4, <2>1, ReadKeepsIInv DEF PollRead
  <1>5. CASE Refresh
    BY <1>0, <1>5, ReadKeepsIInv DEF Refresh
  <1>6. CASE PollLost
    <2>1. due' \in 0..MaxDue /\ due' <= due
      BY <1>0, <1>6 DEF PollLost
    <2>2. QED BY <1>0, <1>6, <2>1, RestKeepsIInv DEF PollLost
  <1>7. CASE Correct
    BY <1>7, CorrectKeepsIInv
  <1>8. CASE Save
    BY <1>0, <1>8, RestKeepsIInv DEF Save
  <1>9. CASE Restart
    BY <1>9, RestartKeepsIInv
  <1>10. CASE UNCHANGED vars
    BY <1>0, <1>10, RestKeepsIInv DEF vars
  <1>11. QED BY <1>1, <1>2, <1>3, <1>4, <1>5, <1>6, <1>7, <1>8, <1>9, <1>10 DEF Next

LEMMA InductiveInvariant == Spec => []IInv
  BY InitIInv, NextKeepsIInv, PTL DEF Spec

-----------------------------------------------------------------------------
(***************************************************************************)
(* The theorems.                                                           *)
(***************************************************************************)

\* The marks, the totals shown and the values keep their types.
THEOREM TypeCorrect == Spec => []TypeOK
  <1>1. IInv => TypeOK
    BY DEF IInv
  <1>2. QED BY <1>1, InductiveInvariant, PTL

\* Whatever the tolerance, what is shown is within a torn read of what was
\* polled, and a reset always shows.
THEOREM ShownNearPolled == Spec => []NeverFarOff
  <1>1. IInv => NeverFarOff
    BY DEF IInv, NearPolled, NeverFarOff
  <1>2. QED BY <1>1, InductiveInvariant, PTL

\* Torn reads alone never lower a total, whatever the tolerance and however
\* many polls overlap.
THEOREM TornReadsNeverLower == Spec => TearsNeverLower
  <1> DEFINE Falls(t) == corrected'[t] # None /\ corrected'[t] < corrected[t]
  <1>1. ASSUME IInv, [Next]_vars, NEW t \in Totals, Falls(t)
        PROVE  highWater[t] > readAt[t]
    <2>0. /\ corrected[t] \in Readings /\ highWater[t] \in Readings
          /\ corrected[t] <= highWater[t] /\ ReadIsTorn(t)
      BY <1>1 DEF IInv, TypeOK, MarkCovers
    <2>1. Correct
      <3>1. corrected'[t] # corrected[t]
        BY <1>1, <2>0, Bounds
      <3>2. ~Restart
        BY <1>1 DEF Restart, Unread
      <3>3. QED BY <1>1, <3>1, <3>2
            DEF Next, Grow, Reset, Seed, PollRead, Refresh, TakesValues, PollLost,
                Save, vars
    <2>2. /\ values[t] \in Counts
          /\ \/ corrected'[t] = values[t] /\ Takes(t)
             \/ corrected'[t] = highWater[t]
      BY <1>1, <2>1, CorrectedTotal
    <2>3. /\ corrected[t] \in Int /\ highWater[t] \in Int
          /\ values[t] \in Int /\ values[t] >= 0
      BY <2>0, <2>2, Bounds DEF Counts
    <2>4. corrected'[t] = values[t] /\ Takes(t) /\ values[t] < highWater[t]
      BY <1>1, <2>0, <2>2, <2>3
    <2>5. highWater[t] # None /\ ~(values[t] >= highWater[t])
      BY <2>3, <2>4 DEF None
    <2>6. highWater[t] \in Counts /\ FarBelow(values[t], highWater[t])
      BY <2>0, <2>4, <2>5 DEF Takes, Readings
    <2>7. readAt[t] \in Counts /\ ~FarBelow(values[t], readAt[t])
      BY <2>0, <2>2, Bounds DEF ReadIsTorn
    <2>8. QED BY <2>2, <2>6, <2>7, MarkAboveCounter
  <1>2. IInv /\ [Next]_vars =>
            [\A t \in Totals : Falls(t) => highWater[t] > readAt[t]]_vars
    BY <1>1
  <1>3. QED BY <1>2, InductiveInvariant, PTL DEF Spec, TearsNeverLower
=============================================================================
