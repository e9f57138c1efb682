---------------------------- MODULE SetupProofs -----------------------------
(***************************************************************************)
(* Proofs about Setup, for any callers and devices and any number of tries *)
(* at the log: it settles once, and implements SettledOnce.                *)
(*                                                                         *)
(* What carries both is where the lock is: only its holder, the first in   *)
(* the queue, is at a request, and there setup has not settled yet.        *)
(***************************************************************************)
EXTENDS Setup, SequenceTheorems, TLAPS

\* Only the holder of the lock asks, and only as long as nothing is settled.
HolderAsks ==
    \A c \in Callers : run[c].at \in Requests => Holds(c) /\ ~inverter.settled

\* A try at the log is left to whoever makes one, or may yet make one.
TriesLeft ==
    \A c \in Callers : run[c].at \in {"meter", "fault_log"}
                            => inverter.misses < FaultLogAttempts

IInv == TypeOK /\ HolderAsks /\ TriesLeft

-----------------------------------------------------------------------------
(***************************************************************************)
(* The queue.                                                              *)
(***************************************************************************)
LEMMA RemovedFrom ==
    ASSUME NEW S, NEW s \in Seq(S), NEW i \in 1..Len(s)
    PROVE  /\ RemoveAt(s, i) \in Seq(S)
           /\ Len(RemoveAt(s, i)) = Len(s) - 1
           /\ \A j \in 1..Len(s) - 1 :
                RemoveAt(s, i)[j] = IF j < i THEN s[j] ELSE s[j + 1]
  <1> DEFINE before == SubSeq(s, 1, i - 1)
             after == SubSeq(s, i + 1, Len(s))
  <1>1. /\ before \in Seq(S) /\ Len(before) = i - 1
        /\ \A j \in 1..i - 1 : before[j] = s[j]
    OBVIOUS
  <1>2. /\ after \in Seq(S) /\ Len(after) = Len(s) - i
        /\ \A j \in 1..Len(s) - i : after[j] = s[j + i]
    OBVIOUS
  <1>3. RemoveAt(s, i) = before \o after
    BY DEF RemoveAt
  <1> HIDE DEF before, after
  <1>4. /\ before \o after \in Seq(S) /\ Len(before \o after) = Len(s) - 1
        /\ \A j \in 1..Len(s) - 1 : (before \o after)[j] =
                IF j <= i - 1 THEN before[j] ELSE after[j - (i - 1)]
    <2>1. /\ before \o after \in Seq(S)
          /\ Len(before \o after) = Len(before) + Len(after)
          /\ \A j \in 1..Len(before) + Len(after) : (before \o after)[j] =
                IF j <= Len(before) THEN before[j] ELSE after[j - Len(before)]
      BY <1>1, <1>2, ConcatProperties
    <2>2. Len(before) + Len(after) = Len(s) - 1
      BY <1>1, <1>2
    <2>3. QED BY <1>1, <2>1, <2>2
  <1>5. ASSUME NEW j \in 1..Len(s) - 1
        PROVE  (before \o after)[j] = IF j < i THEN s[j] ELSE s[j + 1]
    <2>1. CASE j < i
      BY <1>1, <1>4, <2>1
    <2>2. CASE ~(j < i)
      <3>1. ~(j <= i - 1) /\ j - (i - 1) \in 1..Len(s) - i /\ j - (i - 1) + i = j + 1
        BY <2>2
      <3>2. QED BY <1>2, <1>4, <2>2, <3>1
    <2>3. QED BY <2>1, <2>2
  <1>6. QED BY <1>3, <1>4, <1>5

\* Who leaves the queue is no longer in it, and the others keep their order.
LEMMA LeftQueue ==
    ASSUME NEW S, NEW s \in Seq(S), IsInjective(s), NEW i \in DOMAIN s
    PROVE  LET t == RemoveAt(s, i)
           IN  /\ t \in Seq(S) /\ IsInjective(t)
               /\ ToSet(t) = ToSet(s) \ {s[i]}
               /\ \A c \in S \ {s[i]} : s # <<>> /\ Head(s) = c => t # <<>> /\ Head(t) = c
  <1> DEFINE t == RemoveAt(s, i)
  <1>1. /\ i \in 1..Len(s) /\ Len(s) \in Nat /\ DOMAIN s = 1..Len(s)
        /\ \A j, k \in 1..Len(s) : s[j] = s[k] => j = k
    BY DEF IsInjective
  <1>2. /\ t \in Seq(S) /\ Len(t) = Len(s) - 1
        /\ \A j \in 1..Len(s) - 1 : t[j] = IF j < i THEN s[j] ELSE s[j + 1]
    BY <1>1, RemovedFrom
  <1> HIDE DEF t
  <1>3. DOMAIN t = 1..Len(s) - 1
    BY <1>2
  <1>4. IsInjective(t)
    <2> SUFFICES ASSUME NEW j \in DOMAIN t, NEW k \in DOMAIN t, t[j] = t[k]
                 PROVE  j = k
      BY DEF IsInjective
    <2>1. /\ j \in 1..Len(s) /\ k \in 1..Len(s)
          /\ j + 1 \in 1..Len(s) /\ k + 1 \in 1..Len(s)
      BY <1>1, <1>3
    <2>2. /\ t[j] = IF j < i THEN s[j] ELSE s[j + 1]
          /\ t[k] = IF k < i THEN s[k] ELSE s[k + 1]
      BY <1>2, <1>3
    <2>3. (IF j < i THEN j ELSE j + 1) = (IF k < i THEN k ELSE k + 1)
      BY <1>1, <2>1, <2>2
    <2>4. QED BY <1>1, <2>1, <2>3
  <1>5. ToSet(t) = ToSet(s) \ {s[i]}
    <2>1. ASSUME NEW j \in DOMAIN t PROVE t[j] \in ToSet(s) \ {s[i]}
      <3>1. /\ j \in 1..Len(s) /\ j + 1 \in 1..Len(s)
            /\ t[j] = IF j < i THEN s[j] ELSE s[j + 1]
        BY <1>1, <1>2, <1>3
      <3>2. PICK k \in 1..Len(s) : t[j] = s[k] /\ k # i
        BY <1>1, <3>1
      <3>3. QED BY <1>1, <3>2 DEF ToSet
    <2>2. ASSUME NEW k \in DOMAIN s, k # i PROVE s[k] \in ToSet(t)
      <3>1. CASE k < i
        BY <1>1, <1>2, <1>3, <3>1 DEF ToSet
      <3>2. CASE k > i
        <4>1. k - 1 \in DOMAIN t /\ ~(k - 1 < i) /\ (k - 1) + 1 = k
          BY <1>1, <1>3, <3>2
        <4>2. t[k - 1] = s[k]
          BY <1>2, <1>3, <4>1
        <4>3. QED BY <4>1, <4>2 DEF ToSet
      <3>3. QED BY <1>1, <2>2, <3>1, <3>2
    <2>3. QED BY <2>1, <2>2 DEF ToSet
  <1>6. ASSUME NEW c \in S \ {s[i]}, s # <<>>, Head(s) = c
        PROVE  t # <<>> /\ Head(t) = c
    <2>1. s[1] = c /\ 1 # i
      BY <1>1, <1>6
    <2>2. 1 < i /\ 1 \in 1..Len(s) - 1
      BY <1>1, <2>1
    <2>3. t[1] = c
      BY <1>2, <2>1, <2>2
    <2>4. QED BY <1>2, <2>2, <2>3
  <1>7. QED BY <1>2, <1>4, <1>5, <1>6 DEF t

LEMMA JoinedQueue ==
    ASSUME NEW S, NEW s \in Seq(S), IsInjective(s), NEW c \in S \ ToSet(s)
    PROVE  LET t == Append(s, c)
           IN  /\ t \in Seq(S) /\ IsInjective(t)
               /\ ToSet(t) = ToSet(s) \cup {c}
               /\ \A o \in S : s # <<>> /\ Head(s) = o => t # <<>> /\ Head(t) = o
  <1> DEFINE t == Append(s, c)
  <1>1. /\ t \in Seq(S) /\ Len(t) = Len(s) + 1 /\ Len(s) \in Nat
        /\ t[Len(s) + 1] = c /\ \A j \in 1..Len(s) : t[j] = s[j]
        /\ DOMAIN s = 1..Len(s) /\ DOMAIN t = 1..Len(s) + 1
    OBVIOUS
  <1>2. \A j \in 1..Len(s) : s[j] # c
    BY <1>1 DEF ToSet
  <1> HIDE DEF t
  <1>3. IsInjective(t)
    BY <1>1, <1>2 DEF IsInjective
  <1>4. ToSet(t) = ToSet(s) \cup {c}
    BY <1>1 DEF ToSet
  <1>5. \A o \in S : s # <<>> /\ Head(s) = o => t # <<>> /\ Head(t) = o
    BY <1>1
  <1>6. QED BY <1>1, <1>3, <1>4, <1>5 DEF t

-----------------------------------------------------------------------------
(***************************************************************************)
(* What a step of setup comes to: the run goes on, settles, or ends.       *)
(***************************************************************************)
Calls == [at : Busy \cup {"away", "done", "raised", "cancelled"},
          detected : SUBSET InverterFlags]

\* The run goes on to another request.
GoesOn(c) ==
    /\ Holds(c) /\ ~inverter.settled
    /\ run[c].at \in Busy
    /\ inverter' \in Inverters /\ ~inverter'.settled
    /\ UNCHANGED queue
    /\ \E call \in Calls :
        /\ call.at \in Requests
        /\ call.at \in {"meter", "fault_log"} => inverter'.misses < FaultLogAttempts
        /\ run' = [run EXCEPT ![c] = call]

\* The run ends well.
Settles(c) ==
    /\ Holds(c) /\ ~inverter.settled
    /\ run[c].at \in Busy
    /\ inverter' \in Inverters /\ inverter'.settled
    /\ Leave(c, "done")

\* The caller leaves, and the inverter is as it was.
Leaves(c) ==
    /\ run[c].at \in Busy
    /\ UNCHANGED inverter
    /\ \E how \in {"done", "raised", "cancelled"} :
        /\ how = "done" => inverter.settled
        /\ Leave(c, how)

LEMMA KnownFlags ==
    /\ {"GEN", "X1", "X3", "HYBRID", "PV", "BAT_BTS", "EPS"} \subseteq InverterFlags
    /\ Tiers \subseteq InverterFlags
  <1>1. /\ "GEN" \in Gens /\ {"X1", "X3"} \subseteq Phases
        /\ {"HYBRID", "PV"} \subseteq Families
    BY DEF Gens, Phases, Families
  <1>2. {Gens, Phases, Families, {"EPS"}, Tiers} \subseteq Groups
    BY DEF Groups
  <1>3. \A g \in Groups : g \subseteq InverterFlags
    BY DEF InverterFlags
  <1>4. "BAT_BTS" \in InverterFlags
    BY DEF InverterFlags
  <1>5. /\ Gens \subseteq InverterFlags /\ Phases \subseteq InverterFlags
        /\ Families \subseteq InverterFlags /\ {"EPS"} \subseteq InverterFlags
        /\ Tiers \subseteq InverterFlags
    <2> HIDE DEF Gens, Phases, Families, Tiers, InverterFlags
    <2>1. QED BY <1>2, <1>3
  <1>6. QED BY <1>1, <1>4, <1>5

LEMMA BusyAt ==
    /\ Requests \subseteq Busy /\ "waiting" \in Busy /\ "waiting" \notin Requests
    /\ \A at \in {"away", "done", "raised", "cancelled"} :
        at \notin Busy /\ at \notin Requests
  BY DEF Busy, Requests

\* The queue as someone leaves it.
LEMMA QueueLeft ==
    ASSUME TypeOK, NEW c \in Callers, NEW how \in {"done", "raised", "cancelled"},
           Leave(c, how)
    PROVE  /\ run' \in [Callers -> Calls] /\ run'[c].at = how
           /\ \A o \in Callers \ {c} : run'[o] = run[o] /\ (Holds(o) => Holds(o)')
           /\ queue' \in Seq(Callers) /\ IsInjective(queue')
           /\ ToSet(queue') = {o \in Callers : run'[o].at \in Busy}
  <1> DEFINE call == [at |-> how, detected |-> {}]
  <1>1. PICK i \in DOMAIN queue : queue[i] = c /\ queue' = RemoveAt(queue, i)
    BY DEF Leave
  <1>2. run' = [run EXCEPT ![c] = call] /\ call \in Calls /\ call.at = how
    BY DEF Leave, Calls
  <1>3. /\ run \in [Callers -> Calls] /\ queue \in Seq(Callers)
        /\ IsInjective(queue)
        /\ ToSet(queue) = {o \in Callers : run[o].at \in Busy}
    BY DEF TypeOK, Calls
  <1> HIDE DEF call
  <1>4. /\ run' \in [Callers -> Calls] /\ run'[c].at = how
        /\ \A o \in Callers \ {c} : run'[o] = run[o]
    BY <1>2, <1>3
  <1>5. /\ queue' \in Seq(Callers) /\ IsInjective(queue')
        /\ ToSet(queue') = ToSet(queue) \ {c}
        /\ \A o \in Callers \ {c} :
            queue # <<>> /\ Head(queue) = o => queue' # <<>> /\ Head(queue') = o
    BY <1>1, <1>3, LeftQueue
  <1>6. how \notin Busy
    BY BusyAt
  <1>7. ToSet(queue') = {o \in Callers : run'[o].at \in Busy}
    BY <1>3, <1>4, <1>5, <1>6
  <1>8. QED BY <1>4, <1>5, <1>7 DEF Holds

LEMMA GoesOnKeeps ==
    ASSUME IInv, NEW c \in Callers, GoesOn(c), UNCHANGED <<device, calm>>
    PROVE  IInv'
  <1>1. PICK call \in Calls :
            /\ call.at \in Requests
            /\ call.at \in {"meter", "fault_log"} => inverter'.misses < FaultLogAttempts
            /\ run' = [run EXCEPT ![c] = call]
    BY DEF GoesOn
  <1>2. /\ run \in [Callers -> Calls] /\ queue \in Seq(Callers)
        /\ IsInjective(queue)
        /\ ToSet(queue) = {o \in Callers : run[o].at \in Busy}
    BY DEF IInv, TypeOK, Calls
  <1>3. /\ run' \in [Callers -> Calls] /\ run'[c] = call
        /\ \A o \in Callers \ {c} : run'[o] = run[o]
    BY <1>1, <1>2
  <1>4. \A o \in Callers : run'[o].at \in Busy <=> run[o].at \in Busy
    BY <1>1, <1>3, BusyAt DEF GoesOn
  <1>5. /\ Holds(c) /\ inverter' \in Inverters /\ ~inverter'.settled
        /\ queue' = queue
    BY DEF GoesOn
  <1>6. TypeOK'
    BY <1>2, <1>3, <1>4, <1>5 DEF IInv, TypeOK, Calls
  <1>7. \A o \in Callers \ {c} : run[o].at \notin Requests
    BY <1>5 DEF IInv, HolderAsks, Holds
  <1>8. HolderAsks'
    <2>1. Holds(c)' /\ ~inverter'.settled
      BY <1>5 DEF Holds
    <2>2. QED BY <1>3, <1>7, <2>1 DEF HolderAsks
  <1>9. TriesLeft'
    <2>1. {"meter", "fault_log"} \subseteq Requests
      BY DEF Requests
    <2>2. QED BY <1>1, <1>3, <1>7, <2>1 DEF TriesLeft
  <1>10. QED BY <1>6, <1>8, <1>9 DEF IInv

LEMMA SettlesKeeps ==
    ASSUME IInv, NEW c \in Callers, Settles(c), UNCHANGED <<device, calm>>
    PROVE  IInv'
  <1>1. /\ run' \in [Callers -> Calls] /\ run'[c].at = "done"
        /\ \A o \in Callers \ {c} : run'[o] = run[o]
        /\ queue' \in Seq(Callers) /\ IsInjective(queue')
        /\ ToSet(queue') = {o \in Callers : run'[o].at \in Busy}
    BY QueueLeft DEF IInv, Settles
  <1>2. Holds(c) /\ inverter' \in Inverters
    BY DEF Settles
  <1>3. TypeOK'
    BY <1>1, <1>2 DEF IInv, TypeOK, Calls
  <1>4. \A o \in Callers : run'[o].at \notin Requests
    BY <1>1, <1>2, BusyAt DEF IInv, HolderAsks, Holds
  <1>5. {"meter", "fault_log"} \subseteq Requests
    BY DEF Requests
  <1>6. QED BY <1>3, <1>4, <1>5 DEF IInv, HolderAsks, TriesLeft

LEMMA LeavesKeeps ==
    ASSUME IInv, NEW c \in Callers, Leaves(c), UNCHANGED <<device, calm>>
    PROVE  IInv'
  <1>1. PICK how \in {"done", "raised", "cancelled"} : Leave(c, how)
    BY DEF Leaves
  <1>2. /\ run' \in [Callers -> Calls] /\ run'[c].at = how
        /\ \A o \in Callers \ {c} : run'[o] = run[o] /\ (Holds(o) => Holds(o)')
        /\ queue' \in Seq(Callers) /\ IsInjective(queue')
        /\ ToSet(queue') = {o \in Callers : run'[o].at \in Busy}
    BY <1>1, QueueLeft DEF IInv
  <1>3. inverter' = inverter
    BY DEF Leaves
  <1>4. TypeOK'
    BY <1>2, <1>3 DEF IInv, TypeOK, Calls
  <1>5. run'[c].at \notin Requests /\ run'[c].at \notin {"meter", "fault_log"}
    BY <1>2, BusyAt
  <1>6. HolderAsks'
    BY <1>2, <1>3, <1>5 DEF IInv, HolderAsks
  <1>7. TriesLeft'
    BY <1>2, <1>3, <1>5 DEF IInv, TriesLeft
  <1>8. QED BY <1>4, <1>6, <1>7 DEF IInv

-----------------------------------------------------------------------------
(***************************************************************************)
(* Every request's answer, and every failure, comes to one of the three.   *)
(***************************************************************************)
AtWork(c) == Holds(c) /\ ~inverter.settled /\ run[c].at \in Busy

LEMMA AtRequest ==
    ASSUME IInv, NEW c \in Callers, NEW request \in Requests, At(c, request)
    PROVE  /\ AtWork(c) /\ inverter \in Inverters
           /\ run[c].detected \subseteq InverterFlags
  BY BusyAt DEF IInv, TypeOK, HolderAsks, At, AtWork

LEMMA AwaitGoesOn ==
    ASSUME NEW c \in Callers, AtWork(c), NEW i \in Inverters, ~i.settled,
           NEW request \in Requests,
           request \in {"meter", "fault_log"} => i.misses < FaultLogAttempts,
           Await(c, i, request)
    PROVE  GoesOn(c)
  <1> DEFINE call == [at |-> request, detected |-> {}]
  <1>1. call \in Calls /\ call.at = request
    BY BusyAt DEF Calls
  <1>2. /\ inverter' = i /\ run' = [run EXCEPT ![c] = call] /\ UNCHANGED queue
    BY DEF Await
  <1> HIDE DEF call
  <1>3. QED BY <1>1, <1>2 DEF GoesOn, AtWork

LEMMA KnowingGoesOn ==
    ASSUME NEW c \in Callers, AtWork(c), inverter \in Inverters,
           NEW request \in Requests \ {"meter", "fault_log"},
           NEW detected \in SUBSET InverterFlags,
           AwaitKnowing(c, detected, request)
    PROVE  GoesOn(c)
  <1> DEFINE call == [at |-> request, detected |-> detected]
  <1>1. call \in Calls /\ call.at = request
    BY BusyAt DEF Calls
  <1>2. /\ inverter' = inverter /\ run' = [run EXCEPT ![c] = call]
        /\ UNCHANGED queue
    BY DEF AwaitKnowing
  <1> HIDE DEF call
  <1>3. QED BY <1>1, <1>2 DEF GoesOn, AtWork

LEMMA SettleSettles ==
    ASSUME NEW c \in Callers, AtWork(c), NEW i \in Inverters, Settle(c, i)
    PROVE  Settles(c)
  <1>1. [i EXCEPT !.settled = TRUE] \in Inverters
    BY DEF Inverters
  <1>2. [i EXCEPT !.settled = TRUE].settled = TRUE
    BY DEF Inverters
  <1>3. QED BY <1>1, <1>2 DEF Settle, Settles, AtWork

LEMMA ListSettingsCases ==
    ASSUME NEW c \in Callers, AtWork(c), NEW i \in Inverters, ~i.settled,
           ListSettings(c, i)
    PROVE  GoesOn(c) \/ Settles(c)
  <1> DEFINE listed == [i EXCEPT
                !.settings = ComponentsFor(i.type, SETTING_COMPONENTS)]
  <1>1. ComponentsFor(i.type, SETTING_COMPONENTS) \in SUBSET SETTING_COMPONENTS
    BY DEF ComponentsFor
  <1>2. listed \in Inverters /\ ~listed.settled
    BY <1>1 DEF Inverters
  <1>3. Await(c, listed, "cutoff") \/ Settle(c, listed)
    BY DEF ListSettings
  <1> HIDE DEF listed
  <1>4. "cutoff" \in Requests \ {"meter", "fault_log"}
    BY DEF Requests
  <1>5. QED BY <1>2, <1>3, <1>4, AwaitGoesOn, SettleSettles

LEMMA ProbeLogCases ==
    ASSUME NEW c \in Callers, AtWork(c), NEW i \in Inverters, ~i.settled,
           i.misses < FaultLogAttempts, ProbeLog(c, i)
    PROVE  GoesOn(c) \/ Settles(c)
  <1>1. "fault_log" \in Requests
    BY DEF Requests
  <1>2. Await(c, i, "fault_log") \/ ListSettings(c, i)
    BY DEF ProbeLog
  <1>3. QED BY <1>1, <1>2, AwaitGoesOn, ListSettingsCases

LEMMA ListReadingsCases ==
    ASSUME NEW c \in Callers, AtWork(c), NEW i \in Inverters, ~i.settled,
           ListReadings(c, i)
    PROVE  GoesOn(c) \/ Settles(c)
  <1>1. ComponentsFor(i.type, READING_COMPONENTS) \in SUBSET READING_COMPONENTS
    BY DEF ComponentsFor
  <1>2. 0 \in 0..FaultLogAttempts /\ 0 < FaultLogAttempts
    BY SetupAssumption
  <1>3. /\ Listed(i) \in Inverters /\ ~Listed(i).settled /\ Listed(i).misses = 0
    BY <1>1, <1>2 DEF Listed, Inverters
  <1>4. Await(c, Listed(i), "meter") \/ ProbeLog(c, Listed(i))
    BY DEF ListReadings
  <1>5. "meter" \in Requests
    BY DEF Requests
  <1>6. QED BY <1>2, <1>3, <1>4, <1>5, AwaitGoesOn, ProbeLogCases

LEMMA DetectionCases ==
    ASSUME NEW c \in Callers, AtWork(c), inverter \in Inverters,
           NEW flags \in SUBSET InverterFlags,
           Unrecognized(c) \/ Detected(c, flags)
    PROVE  GoesOn(c)
  <1>1. "rating" \in Requests \ {"meter", "fault_log"}
    BY DEF Requests
  <1>2. CASE Unrecognized(c)
    <2>1. [inverter EXCEPT !.unrecognized = TRUE] \in Inverters
      BY DEF Inverters
    <2>2. ~[inverter EXCEPT !.unrecognized = TRUE].settled
      BY DEF Inverters, AtWork
    <2>3. QED BY <1>1, <1>2, <2>1, <2>2, AwaitGoesOn DEF Unrecognized
  <1>3. CASE Detected(c, flags)
    <2> DEFINE i == [inverter EXCEPT !.type = @ \cup flags, !.unrecognized = FALSE]
    <2>1. i \in Inverters /\ ~i.settled
      BY DEF Inverters, AtWork
    <2>2. Await(c, i, "rating")
      BY <1>3 DEF Detected
    <2> HIDE DEF i
    <2>3. QED BY <1>1, <2>1, <2>2, AwaitGoesOn
  <1>4. QED BY <1>2, <1>3

LEMMA AnsweredCases ==
    ASSUME IInv, NEW c \in Callers, Answered(c) \/ TowerSilent(c)
    PROVE  GoesOn(c) \/ Settles(c)
  <1>1. /\ {"phase", "battery", "strings", "tower", "tier", "rating", "eps",
            "meter", "fault_log", "cutoff"} = Requests
        /\ \A d \in SUBSET InverterFlags : \A e \in
              {{"GEN", "X1"}, {"GEN", "X3"}, {"HYBRID"}, {"PV"}, {"BAT_BTS"},
               {"EPS"}, {}} : d \cup e \in SUBSET InverterFlags
        /\ \A mask : PvTier(mask) \subseteq InverterFlags
        /\ \A mask : RaisedTier(mask) \subseteq InverterFlags
    BY KnownFlags DEF Requests, PvTier, RaisedTier, Declared
  <1>2. inverter \in Inverters /\ run[c].detected \subseteq InverterFlags
    BY DEF IInv, TypeOK
  <1>3. CASE PhaseAnswered(c)
    <2>1. AtWork(c)
      BY <1>1, <1>3, AtRequest DEF PhaseAnswered
    <2>2. {"GEN", "X1"} \in SUBSET InverterFlags /\ {"GEN", "X3"} \in SUBSET InverterFlags
      BY KnownFlags
    <2>3. CASE Unrecognized(c)
      BY <1>2, <2>1, <2>2, <2>3, DetectionCases
    <2>4. CASE AwaitKnowing(c, {"GEN", "X3"}, "battery")
      BY <1>1, <1>2, <2>1, <2>2, <2>4, KnowingGoesOn
    <2>5. CASE AwaitKnowing(c, {"GEN", "X1"}, "battery")
      BY <1>1, <1>2, <2>1, <2>2, <2>5, KnowingGoesOn
    <2>6. QED BY <1>3, <2>3, <2>4, <2>5 DEF PhaseAnswered
  <1>4. CASE BatteryAnswered(c)
    <2>1. AtWork(c)
      BY <1>1, <1>4, AtRequest DEF BatteryAnswered
    <2>2. /\ run[c].detected \cup {"HYBRID"} \in SUBSET InverterFlags
          /\ run[c].detected \cup {"PV"} \in SUBSET InverterFlags
      BY <1>2, KnownFlags
    <2>3. CASE Unrecognized(c)
      BY <1>2, <2>1, <2>2, <2>3, DetectionCases
    <2>4. CASE AwaitKnowing(c, run[c].detected \cup {"HYBRID"}, "strings")
      BY <1>1, <1>2, <2>1, <2>2, <2>4, KnowingGoesOn
    <2>5. CASE AwaitKnowing(c, run[c].detected \cup {"PV"}, "strings")
      BY <1>1, <1>2, <2>1, <2>2, <2>5, KnowingGoesOn
    <2>6. QED BY <1>4, <2>3, <2>4, <2>5 DEF BatteryAnswered
  <1>5. CASE StringsAnswered(c)
    <2> DEFINE known == run[c].detected \cup PvTier(device.mask["strings"])
    <2>1. AtWork(c)
      BY <1>1, <1>5, AtRequest DEF StringsAnswered
    <2>2. known \in SUBSET InverterFlags
      BY <1>1, <1>2
    <2>3. \/ Unrecognized(c)
          \/ AwaitKnowing(c, known, "tower")
          \/ Detected(c, known)
      BY <1>5 DEF StringsAnswered
    <2> HIDE DEF known
    <2>4. QED BY <1>1, <1>2, <2>1, <2>2, <2>3, DetectionCases, KnowingGoesOn
  <1>6. CASE TowerAnswered(c)
    <2> DEFINE flags == run[c].detected \cup
                    IF Says("tower") = "yes" THEN {"BAT_BTS"} ELSE {}
    <2>1. AtWork(c)
      BY <1>1, <1>6, AtRequest DEF TowerAnswered
    <2>2. flags \in SUBSET InverterFlags /\ Detected(c, flags)
      BY <1>2, <1>6, KnownFlags DEF TowerAnswered
    <2> HIDE DEF flags
    <2>3. QED BY <1>2, <2>1, <2>2, DetectionCases
  <1>7. CASE TowerSilent(c)
    <2>1. AtWork(c) /\ Detected(c, run[c].detected)
      BY <1>1, <1>7, AtRequest DEF TowerSilent
    <2>2. QED BY <1>2, <2>1, DetectionCases
  <1>8. CASE TierAnswered(c)
    <2> DEFINE type == RaiseTier(inverter.type, RaisedTier(device.mask["strings"]))
               i == [inverter EXCEPT !.type = type]
    <2>1. AtWork(c)
      BY <1>1, <1>8, AtRequest DEF TierAnswered
    <2>2. type \in SUBSET InverterFlags
      BY <1>1, <1>2 DEF RaiseTier, Inverters
    <2>3. Await(c, i, "rating")
      BY <1>8 DEF TierAnswered
    <2> HIDE DEF type
    <2>4. i \in Inverters /\ ~i.settled
      BY <1>2, <2>1, <2>2 DEF Inverters, AtWork
    <2> HIDE DEF i
    <2>5. QED BY <1>1, <2>1, <2>3, <2>4, AwaitGoesOn
  <1>9. CASE RatingAnswered(c)
    <2>1. AtWork(c)
      BY <1>1, <1>9, AtRequest DEF RatingAnswered
    <2>2. Await(c, inverter, "eps") \/ ListReadings(c, inverter)
      BY <1>9 DEF RatingAnswered
    <2>3. ~inverter.settled
      BY <2>1 DEF AtWork
    <2>4. QED BY <1>1, <1>2, <2>1, <2>2, <2>3, AwaitGoesOn, ListReadingsCases
  <1>10. CASE EpsAnswered(c)
    <2> DEFINE i == [inverter EXCEPT !.type = @ \cup {"EPS"}]
    <2>1. AtWork(c)
      BY <1>1, <1>10, AtRequest DEF EpsAnswered
    <2>2. ~inverter.settled /\ i \in Inverters /\ ~i.settled
      BY <1>2, <2>1, KnownFlags DEF Inverters, AtWork
    <2>3. ListReadings(c, i) \/ ListReadings(c, inverter)
      BY <1>10 DEF EpsAnswered
    <2> HIDE DEF i
    <2>4. QED BY <1>2, <2>1, <2>2, <2>3, ListReadingsCases
  <1>11. CASE MeterAnswered(c)
    <2> DEFINE i == [inverter EXCEPT !.readings = @ \ {"meter_energy"}]
    <2>1. At(c, "meter") /\ AtWork(c)
      BY <1>1, <1>11, AtRequest DEF MeterAnswered
    <2>2. ~inverter.settled /\ i \in Inverters /\ ~i.settled
      BY <1>2, <2>1 DEF Inverters, AtWork
    <2>3. ProbeLog(c, i) \/ ProbeLog(c, inverter)
      BY <1>11 DEF MeterAnswered
    <2>4. i.misses = inverter.misses
      BY <1>2 DEF Inverters
    <2> HIDE DEF i
    <2>5. inverter.misses < FaultLogAttempts
      BY <2>1 DEF IInv, TriesLeft, At
    <2>6. QED BY <1>2, <2>1, <2>2, <2>3, <2>4, <2>5, ProbeLogCases
  <1>12. CASE LogAnswered(c)
    <2> DEFINE i == [inverter EXCEPT !.hasFaultLog = TRUE]
    <2>1. AtWork(c)
      BY <1>1, <1>12, AtRequest DEF LogAnswered
    <2>2. i \in Inverters /\ ~i.settled
      BY <1>2, <2>1 DEF Inverters, AtWork
    <2>3. DropLog(inverter) \in Inverters /\ ~DropLog(inverter).settled
      BY <1>2, <2>1 DEF Inverters, DropLog, AtWork
    <2>4. ListSettings(c, i) \/ ListSettings(c, DropLog(inverter))
      BY <1>12 DEF LogAnswered
    <2> HIDE DEF i
    <2>5. QED BY <2>1, <2>2, <2>3, <2>4, ListSettingsCases
  <1>13. CASE CutoffAnswered(c)
    <2> DEFINE i == [inverter EXCEPT !.settings = @ \ {"battery_charge_cutoff"}]
    <2>1. AtWork(c)
      BY <1>1, <1>13, AtRequest DEF CutoffAnswered
    <2>2. i \in Inverters
      BY <1>2 DEF Inverters
    <2>3. Settle(c, i) \/ Settle(c, inverter)
      BY <1>13 DEF CutoffAnswered
    <2> HIDE DEF i
    <2>4. QED BY <1>2, <2>1, <2>2, <2>3, SettleSettles
  <1>14. QED
    BY <1>3, <1>4, <1>5, <1>6, <1>7, <1>8, <1>9, <1>10, <1>11, <1>12, <1>13
    DEF Answered

LEMMA LogMissedCases ==
    ASSUME IInv, NEW c \in Callers, LogMissed(c)
    PROVE  GoesOn(c) \/ Settles(c)
  <1> DEFINE missed == [inverter EXCEPT !.misses = @ + 1]
  <1>1. "fault_log" \in Requests
    BY DEF Requests
  <1>2. AtWork(c) /\ inverter \in Inverters
    BY <1>1, AtRequest DEF LogMissed
  <1>3. inverter.misses < FaultLogAttempts
    BY DEF IInv, TriesLeft, LogMissed, At
  <1>4. inverter.misses \in Nat /\ FaultLogAttempts \in Nat
    BY <1>2, SetupAssumption DEF Inverters
  <1>5. inverter.misses + 1 \in 0..FaultLogAttempts
    BY <1>3, <1>4
  <1>6. missed \in Inverters /\ ~missed.settled
    BY <1>2, <1>5 DEF Inverters, AtWork
  <1>7. \/ missed.misses < FaultLogAttempts /\ Await(c, missed, "fault_log")
        \/ ListSettings(c, DropLog(missed))
    BY DEF LogMissed
  <1> HIDE DEF missed
  <1>8. DropLog(missed) \in Inverters /\ ~DropLog(missed).settled
    BY <1>6 DEF Inverters, DropLog
  <1>9. QED BY <1>1, <1>2, <1>6, <1>7, <1>8, AwaitGoesOn, ListSettingsCases

LEMMA ProceedCases ==
    ASSUME IInv, NEW c \in Callers, Proceed(c)
    PROVE  GoesOn(c) \/ Leaves(c)
  <1>1. run[c].at \in Busy /\ Holds(c) /\ inverter \in Inverters
    BY BusyAt DEF Proceed, At, IInv, TypeOK
  <1>2. CASE inverter.settled /\ Leave(c, "done") /\ UNCHANGED inverter
    BY <1>1, <1>2 DEF Leaves
  <1>3. CASE ~inverter.settled /\ Await(c, inverter, FirstRequest(inverter.type))
    <2>1. FirstRequest(inverter.type) \in Requests \ {"meter", "fault_log"}
      BY DEF FirstRequest, Requests
    <2>2. QED BY <1>1, <1>3, <2>1, AwaitGoesOn DEF AtWork
  <1>4. QED BY <1>2, <1>3 DEF Proceed

LEMMA RunsCases ==
    ASSUME IInv, NEW c \in Callers, Runs(c)
    PROVE  /\ GoesOn(c) \/ Settles(c) \/ Leaves(c)
           /\ UNCHANGED <<device, calm>>
  <1>1. CASE Interrupted(c)
    <2>1. run[c].at \in Busy /\ Leave(c, "raised") /\ UNCHANGED inverter
      BY <1>1, BusyAt DEF Interrupted
    <2>2. QED BY <2>1 DEF Leaves, Runs
  <1>2. QED BY <1>1, AnsweredCases, LogMissedCases, ProceedCases DEF Runs

LEMMA GivesUpCases ==
    ASSUME IInv, NEW c \in Callers, GivesUp(c)
    PROVE  Leaves(c) /\ UNCHANGED <<device, calm>>
  BY DEF GivesUp, Cancel, Leaves

-----------------------------------------------------------------------------
(***************************************************************************)
(* The other steps, and the invariant.                                     *)
(***************************************************************************)
LEMMA AsksKeeps ==
    ASSUME IInv, NEW c \in Callers, Asks(c)
    PROVE  IInv'
  <1> DEFINE call == [run[c] EXCEPT !.at = "waiting"]
  <1>1. /\ run \in [Callers -> Calls] /\ queue \in Seq(Callers)
        /\ IsInjective(queue)
        /\ ToSet(queue) = {o \in Callers : run[o].at \in Busy}
    BY DEF IInv, TypeOK, Calls
  <1>2. call \in Calls /\ call.at = "waiting"
    BY <1>1, BusyAt DEF Calls
  <1>3. /\ run' = [run EXCEPT ![c] = call] /\ run[c].at \notin Busy
        /\ queue' = Append(queue, c) /\ UNCHANGED <<device, inverter, calm>>
    BY <1>1 DEF Asks, Call
  <1> HIDE DEF call
  <1>4. /\ run' \in [Callers -> Calls] /\ run'[c].at = "waiting"
        /\ \A o \in Callers \ {c} : run'[o] = run[o]
    BY <1>1, <1>2, <1>3
  <1>5. /\ queue' \in Seq(Callers) /\ IsInjective(queue')
        /\ ToSet(queue') = ToSet(queue) \cup {c}
        /\ \A o \in Callers : Holds(o) => Holds(o)'
    BY <1>1, <1>3, JoinedQueue DEF Holds
  <1>6. TypeOK'
    BY <1>1, <1>3, <1>4, <1>5, BusyAt DEF IInv, TypeOK, Calls
  <1>7. HolderAsks'
    BY <1>3, <1>4, <1>5, BusyAt DEF IInv, HolderAsks
  <1>8. TriesLeft'
    BY <1>3, <1>4 DEF IInv, TriesLeft
  <1>9. QED BY <1>6, <1>7, <1>8 DEF IInv

\* A new program has a new inverter, and nobody waits.
LEMMA Afresh ==
    ASSUME NEW type \in SUBSET InverterFlags, NEW stored \in BOOLEAN
    PROVE  /\ NewInverter(type, stored) \in Inverters
           /\ ~NewInverter(type, stored).settled
           /\ Away \in Calls /\ Away.at = "away"
  <1>1. 0 \in 0..FaultLogAttempts
    BY SetupAssumption
  <1>2. QED BY <1>1 DEF NewInverter, Inverters, Away, Calls

LEMMA NobodyWaits ==
    ASSUME NEW q, q = <<>>
    PROVE  q \in Seq(Callers) /\ IsInjective(q) /\ ToSet(q) = {}
  BY DEF IsInjective, ToSet

LEMMA InitIInv == Init => IInv
  <1> SUFFICES ASSUME Init PROVE IInv
    OBVIOUS
  <1>1. /\ device \in Devices /\ run = [c \in Callers |-> Away]
        /\ queue = <<>> /\ calm = FALSE
    BY DEF Init
  <1>2. PICK stored \in BOOLEAN : inverter = NewInverter(device.type, stored)
    BY DEF Init
  <1>3. device.type \in SUBSET InverterFlags
    BY <1>1, SetupAssumption
  <1>4. inverter \in Inverters /\ Away \in Calls /\ Away.at = "away"
    BY <1>2, <1>3, Afresh
  <1>5. \A c \in Callers : run[c] \in Calls /\ run[c].at = "away"
    BY <1>1, <1>4
  <1>6. TypeOK
    BY <1>1, <1>4, <1>5, NobodyWaits, BusyAt DEF TypeOK, Calls
  <1>7. QED BY <1>5, <1>6, BusyAt DEF IInv, HolderAsks, TriesLeft

LEMMA RestartKeeps ==
    ASSUME IInv, Restart
    PROVE  IInv' /\ ~inverter'.settled
  <1>1. /\ run' = [c \in Callers |-> Away] /\ queue' = <<>>
        /\ UNCHANGED <<device, calm>>
    BY DEF Restart
  <1>2. PICK stored \in BOOLEAN : inverter' = NewInverter(device.type, stored)
    BY DEF Restart, IInv, TypeOK, Inverters
  <1>3. device.type \in SUBSET InverterFlags
    BY SetupAssumption DEF IInv, TypeOK
  <1>4. /\ inverter' \in Inverters /\ ~inverter'.settled
        /\ Away \in Calls /\ Away.at = "away"
    BY <1>2, <1>3, Afresh
  <1>5. \A c \in Callers : run'[c] \in Calls /\ run'[c].at = "away"
    BY <1>1, <1>4
  <1>6. TypeOK'
    BY <1>1, <1>4, <1>5, NobodyWaits, BusyAt DEF IInv, TypeOK, Calls
  <1>7. QED BY <1>4, <1>5, <1>6, BusyAt DEF IInv, HolderAsks, TriesLeft

LEMMA NextKeepsIInv == IInv /\ [Next]_vars => IInv'
  <1> SUFFICES ASSUME IInv, [Next]_vars PROVE IInv'
    OBVIOUS
  <1>1. ASSUME NEW c \in Callers, Asks(c) PROVE IInv'
    BY <1>1, AsksKeeps
  <1>2. ASSUME NEW c \in Callers, Runs(c) PROVE IInv'
    BY <1>2, RunsCases, GoesOnKeeps, SettlesKeeps, LeavesKeeps
  <1>3. ASSUME NEW c \in Callers, GivesUp(c) PROVE IInv'
    BY <1>3, GivesUpCases, LeavesKeeps
  <1>4. CASE Restart
    BY <1>4, RestartKeeps
  <1>5. CASE UNCHANGED <<device, inverter, run, queue>> /\ calm' \in BOOLEAN
    BY <1>5 DEF IInv, TypeOK, HolderAsks, TriesLeft, Holds
  <1>6. CASE Heal
    BY <1>5, <1>6 DEF Heal
  <1>7. CASE UNCHANGED vars
    BY <1>5, <1>7 DEF vars, IInv, TypeOK
  <1>8. QED BY <1>1, <1>2, <1>3, <1>4, <1>6, <1>7 DEF Next

LEMMA InductiveInvariant == Spec => []IInv
  BY InitIInv, NextKeepsIInv, PTL DEF Spec

-----------------------------------------------------------------------------
(***************************************************************************)
(* The theorems.                                                           *)
(***************************************************************************)

\* The inverter, the runs and the queue keep their types: whoever waits is
\* in the queue, once.
THEOREM TypeCorrect == Spec => []TypeOK
  <1>1. IInv => TypeOK
    BY DEF IInv
  <1>2. QED BY <1>1, InductiveInvariant, PTL

\* Only the holder of the lock asks, and never once setup has settled.
THEOREM OnlyTheHolderAsks == Spec => []HolderAsks
  <1>1. IInv => HolderAsks
    BY DEF IInv
  <1>2. QED BY <1>1, InductiveInvariant, PTL

\* What a step does to what setup has settled.
LEMMA SettledMoves ==
    ASSUME IInv, [Next]_vars, inverter.settled
    PROVE  UNCHANGED inverter \/ ~inverter'.settled
  <1>1. ASSUME NEW c \in Callers, Asks(c) PROVE UNCHANGED inverter
    BY <1>1 DEF Asks, Call
  <1>2. ASSUME NEW c \in Callers, Runs(c) PROVE UNCHANGED inverter
    BY <1>2, RunsCases DEF GoesOn, Settles, Leaves
  <1>3. ASSUME NEW c \in Callers, GivesUp(c) PROVE UNCHANGED inverter
    BY <1>3 DEF GivesUp, Cancel
  <1>4. CASE Restart
    BY <1>4, RestartKeeps
  <1>5. QED BY <1>1, <1>2, <1>3, <1>4 DEF Next, Heal, vars

\* Once settled, no run of any caller edits the type or the lists again.
THEOREM SettlesForGood == Spec => SettledStays
  <1>1. IInv /\ [Next]_vars =>
            [inverter.settled /\ inverter'.settled =>
                /\ inverter'.type = inverter.type
                /\ inverter'.readings = inverter.readings
                /\ inverter'.settings = inverter.settings]_inverter
    BY SettledMoves
  <1>2. QED BY <1>1, InductiveInvariant, PTL DEF Spec, SettledStays

-----------------------------------------------------------------------------
(***************************************************************************)
(* The promise.                                                            *)
(***************************************************************************)
OthersSee == [c \in Callers |-> ToOthers(run[c].at)]

LEMMA OthersSeeMove ==
    ASSUME run \in [Callers -> Calls], NEW c \in Callers,
           run' \in [Callers -> Calls],
           \A o \in Callers \ {c} : run'[o] = run[o],
           NEW to, ToOthers(run'[c].at) = to
    PROVE  OthersSee' = [OthersSee EXCEPT ![c] = to]
  <1>1. OthersSee' = [o \in Callers |-> ToOthers(run'[o].at)]
    BY DEF OthersSee
  <1>2. [OthersSee EXCEPT ![c] = to] =
            [o \in Callers |-> IF o = c THEN to ELSE ToOthers(run[o].at)]
    BY DEF OthersSee
  <1>3. QED BY <1>1, <1>2

LEMMA Seen ==
    /\ \A at \in Busy : ToOthers(at) = "asking"
    /\ ToOthers("done") = "through"
    /\ \A at \in {"away", "raised", "cancelled"} : ToOthers(at) = "away"
  BY BusyAt DEF ToOthers

LEMMA GoesOnUnseen ==
    ASSUME IInv, NEW c \in Callers, GoesOn(c)
    PROVE  UNCHANGED <<SettledLists, OthersSee>>
  <1>1. PICK call \in Calls :
            call.at \in Requests /\ run' = [run EXCEPT ![c] = call]
    BY DEF GoesOn
  <1>2. run \in [Callers -> Calls]
    BY DEF IInv, TypeOK, Calls
  <1>3. /\ run' \in [Callers -> Calls] /\ run'[c].at = call.at
        /\ \A o \in Callers \ {c} : run'[o] = run[o]
    BY <1>1, <1>2
  <1>4. ToOthers(run'[c].at) = "asking" /\ OthersSee[c] = "asking"
    BY <1>1, <1>3, Seen, BusyAt DEF GoesOn, OthersSee
  <1>5. OthersSee' = [OthersSee EXCEPT ![c] = "asking"]
    BY <1>2, <1>3, <1>4, OthersSeeMove
  <1>6. OthersSee' = OthersSee
    BY <1>4, <1>5 DEF OthersSee
  <1>7. SettledLists' = SettledLists
    BY DEF GoesOn, SettledLists
  <1>8. QED BY <1>6, <1>7

LEMMA LeaveSeen ==
    ASSUME IInv, NEW c \in Callers, run[c].at \in Busy,
           NEW how \in {"done", "raised", "cancelled"}, Leave(c, how)
    PROVE  /\ OthersSee[c] = "asking"
           /\ OthersSee' = [OthersSee EXCEPT ![c] =
                    IF how = "done" THEN "through" ELSE "away"]
  <1>1. /\ run' \in [Callers -> Calls] /\ run'[c].at = how
        /\ \A o \in Callers \ {c} : run'[o] = run[o]
    BY QueueLeft DEF IInv
  <1>2. run \in [Callers -> Calls]
    BY DEF IInv, TypeOK, Calls
  <1>3. ToOthers(run'[c].at) = IF how = "done" THEN "through" ELSE "away"
    BY <1>1, Seen
  <1>4. QED BY <1>1, <1>2, <1>3, OthersSeeMove, Seen DEF OthersSee

LEMMA SettlesSeen ==
    ASSUME IInv, NEW c \in Callers, Settles(c)
    PROVE  Promise!GetThrough(c)
  <1> DEFINE l == [readings |-> inverter'.readings, settings |-> inverter'.settings]
  <1>1. SettledLists = {} /\ SettledLists' = {l}
    BY DEF Settles, SettledLists
  <1>2. l \in [readings : SUBSET READING_COMPONENTS,
               settings : SUBSET SETTING_COMPONENTS]
    BY DEF Settles, Inverters
  <1>3. /\ OthersSee[c] = "asking"
        /\ OthersSee' = [OthersSee EXCEPT ![c] = "through"]
    BY LeaveSeen DEF Settles
  <1> HIDE DEF l
  <1>4. QED BY <1>1, <1>2, <1>3 DEF Promise!GetThrough, OthersSee

LEMMA LeavesSeen ==
    ASSUME IInv, NEW c \in Callers, Leaves(c)
    PROVE  Promise!GetThrough(c) \/ Promise!Leave(c)
  <1>1. PICK how \in {"done", "raised", "cancelled"} :
            (how = "done" => inverter.settled) /\ Leave(c, how)
    BY DEF Leaves
  <1>2. /\ OthersSee[c] = "asking" /\ SettledLists' = SettledLists
        /\ OthersSee' = [OthersSee EXCEPT ![c] =
                IF how = "done" THEN "through" ELSE "away"]
    BY <1>1, LeaveSeen DEF Leaves, SettledLists
  <1>3. CASE how = "done"
    <2>1. SettledLists # {} /\ OthersSee' = [OthersSee EXCEPT ![c] = "through"]
      BY <1>1, <1>2, <1>3 DEF SettledLists
    <2>2. Promise!GetThrough(c)
      BY <1>2, <2>1 DEF Promise!GetThrough, OthersSee
    <2>3. QED BY <2>2
  <1>4. CASE how # "done"
    <2>1. OthersSee' = [OthersSee EXCEPT ![c] = "away"] /\ OthersSee[c] # "away"
      BY <1>2, <1>4
    <2>2. Promise!Leave(c)
      BY <1>2, <2>1 DEF Promise!Leave, OthersSee
    <2>3. QED BY <2>2
  <1>5. QED BY <1>3, <1>4

LEMMA AsksSeen ==
    ASSUME IInv, NEW c \in Callers, Asks(c)
    PROVE  Promise!Ask(c)
  <1>1. run \in [Callers -> Calls] /\ run[c].at \notin Busy
    BY DEF IInv, TypeOK, Calls, Asks, Call
  <1>2. /\ run' = [run EXCEPT ![c] = [run[c] EXCEPT !.at = "waiting"]]
        /\ UNCHANGED inverter
    BY <1>1 DEF Asks, Call
  <1>3. /\ [run[c] EXCEPT !.at = "waiting"] \in Calls
        /\ [run[c] EXCEPT !.at = "waiting"].at = "waiting"
    BY <1>1, BusyAt DEF Calls
  <1>4. /\ run' \in [Callers -> Calls] /\ run'[c].at = "waiting"
        /\ \A o \in Callers \ {c} : run'[o] = run[o]
    BY <1>1, <1>2, <1>3
  <1>5. ToOthers(run'[c].at) = "asking" /\ OthersSee[c] # "asking"
    BY <1>1, <1>4, Seen, BusyAt DEF OthersSee, ToOthers
  <1>6. OthersSee' = [OthersSee EXCEPT ![c] = "asking"]
    BY <1>1, <1>4, <1>5, OthersSeeMove
  <1>7. SettledLists' = SettledLists
    BY <1>2 DEF SettledLists
  <1>8. QED BY <1>5, <1>6, <1>7 DEF Promise!Ask, OthersSee

LEMMA NextPromise == IInv /\ [Next]_vars => [Promise!Next]_(Promise!vars)
  <1> SUFFICES ASSUME IInv, [Next]_vars PROVE [Promise!Next]_(Promise!vars)
    OBVIOUS
  <1>1. ASSUME NEW c \in Callers, Asks(c) PROVE Promise!Next
    BY <1>1, AsksSeen DEF Promise!Next
  <1>2. ASSUME NEW c \in Callers, GoesOn(c) PROVE UNCHANGED Promise!vars
    BY <1>2, GoesOnUnseen DEF Promise!vars, OthersSee
  <1>3. ASSUME NEW c \in Callers, Settles(c) \/ Leaves(c) PROVE Promise!Next
    BY <1>3, SettlesSeen, LeavesSeen DEF Promise!Next
  <1>4. ASSUME NEW c \in Callers, Runs(c) \/ GivesUp(c)
        PROVE  [Promise!Next]_(Promise!vars)
    BY <1>2, <1>3, <1>4, RunsCases, GivesUpCases
  <1>5. CASE Restart
    <2>1. run' = [c \in Callers |-> Away] /\ Away.at = "away"
      BY <1>5 DEF Restart, Away
    <2>2. OthersSee' = [c \in Callers |-> "away"]
      BY <2>1, Seen DEF OthersSee
    <2>3. SettledLists' = {}
      BY <1>5, RestartKeeps DEF SettledLists
    <2>4. Promise!Restart
      BY <2>2, <2>3 DEF Promise!Restart, OthersSee
    <2>5. QED BY <2>4 DEF Promise!Next
  <1>6. CASE UNCHANGED <<inverter, run>>
    BY <1>6 DEF Promise!vars, SettledLists
  <1>7. QED BY <1>1, <1>4, <1>5, <1>6 DEF Next, Heal, vars

LEMMA InitPromise == Init => Promise!Init
  <1> SUFFICES ASSUME Init PROVE Promise!Init
    OBVIOUS
  <1>1. run = [c \in Callers |-> Away] /\ Away.at = "away"
    BY DEF Init, Away
  <1>2. OthersSee = [c \in Callers |-> "away"]
    BY <1>1, Seen DEF OthersSee
  <1>3. ~inverter.settled
    BY DEF Init, NewInverter
  <1>4. QED BY <1>2, <1>3 DEF Promise!Init, SettledLists, OthersSee

\* To any callers and whatever they find on the line, setup is what
\* SettledOnce promises: the polls proved to need no more rely on it.
THEOREM SetupAsPromised == Spec => KeepsPromise
  <1>1. Spec => [][Promise!Next]_(Promise!vars)
    BY InductiveInvariant, NextPromise, PTL DEF Spec
  <1>2. QED BY <1>1, InitPromise, PTL DEF Spec, KeepsPromise, Promise!Spec
=============================================================================
