-------------------------- MODULE RegistersProofs ---------------------------
(***************************************************************************)
(* Proofs about Registers, for any parts, moments and writes: what a       *)
(* finished read holds is what the inverter meant while it was under way,  *)
(* at one moment where one request brings it, and register by register     *)
(* where the fault registers take two.                                     *)
(***************************************************************************)
EXTENDS Registers, TLAPS

\* The registers as the inverter writes them when it means m.
WordsOf(m) == InverterWords(part.name, m)

\* A register of the read is one of some moment of the read.
FromMoments(words) ==
    \A f \in DOMAIN words : \E m \in moments : words[f] = WordsOf(m)[f]

ReadSoFar ==
    /\ DOMAIN taken \subseteq Fields
    /\ FromMoments(taken)
    /\ reading = "reading" => meant \in moments
    /\ reading # "reading" \/ part.name # "state" => taken = Unread

\* What OneMoment says short of its conversions: the component's fields are
\* the inverter's registers at one moment of the read.
ReadAtOnce ==
    reading = "done" /\ part.name # "state" =>
        \E m \in moments : \A f \in Fields : values[f] = WordsOf(m)[f]

ReadInFull == reading = "done" => DOMAIN values = Fields /\ FromMoments(values)

IInv ==
    /\ part \in Parts
    /\ sent \subseteq part.asks
    /\ memory = WordsOf(meant)
    /\ reading \in {"idle", "reading", "done"}
    /\ ReadSoFar
    /\ ReadInFull
    /\ ReadAtOnce

-----------------------------------------------------------------------------
(***************************************************************************)
(* Registers and requests.                                                 *)
(***************************************************************************)

\* All parts but the state lie close enough for one request.
LEMMA OneRequest ==
    ASSUME NEW name \in Names, name # "state", NEW f \in FieldsOf(name)
    PROVE  RequestOf(name, f) = 0
  <1>1. CASE name = "fault_log"
    <2>1. f \in 1..10
      BY <1>1 DEF FieldsOf, EntriesRead
    <2>2. Offset(name, f) = 4 * (f - 1)
      BY <1>1 DEF Offset
    <2>3. QED BY <2>1, <2>2 DEF RequestOf, MaxSpan
  <1>2. CASE name # "fault_log"
    <2>1. f \in 1..6
      BY <1>2 DEF FieldsOf
    <2>2. Offset(name, f) = f - 1
      BY <1>2 DEF Offset
    <2>3. QED BY <2>1, <2>2 DEF RequestOf, MaxSpan
  <1>3. QED BY <1>1, <1>2

\* What hosts can ask for, part by part.
LEMMA AsksByName ==
    /\ Asks("state") = {} /\ Asks("fault_log") = {}
    /\ \A a \in Asks("feed_in") :
            a = <<a[1], a[2]>> /\ a[1] \in 0..2 /\ a[2] \in Int /\ a[2] \div 100 \in WordRange
    /\ \A a \in Asks("active_power") :
            a = <<a[1], a[2]>> /\ a[1] \in BOOLEAN /\ a[2] \in Int
    /\ \A a \in Asks("eps") :
            a \in 0..2
    /\ \A a \in Asks("passive_timeout") :
            a = <<a[1], a[2]>> /\ a[1] \in Int /\ a[2] \in 0..1
    /\ \A a \in Asks("passive_power") :
            /\ a = <<a[1], a[2], a[3]>>
            /\ a[1] \in Int32 /\ a[2] \in Int32 /\ a[3] \in Int32
    /\ \A a \in Asks("clock") :
            a \in Dates
  <1>1. Asks("state") = {} /\ Asks("fault_log") = {}
    BY DEF Asks
  <1>2. ASSUME NEW a \in Asks("feed_in")
        PROVE  a = <<a[1], a[2]>> /\ a[1] \in 0..2 /\ a[2] \in Int /\ a[2] \div 100 \in WordRange
    BY DEF Asks, FeedInAsks
  <1>3. ASSUME NEW a \in Asks("active_power")
        PROVE  a = <<a[1], a[2]>> /\ a[1] \in BOOLEAN /\ a[2] \in Int
    BY DEF Asks, ActivePowerAsks
  <1>4. ASSUME NEW a \in Asks("eps")
        PROVE  a \in 0..2
    BY DEF Asks, EpsAsks
  <1>5. ASSUME NEW a \in Asks("passive_timeout")
        PROVE  a = <<a[1], a[2]>> /\ a[1] \in Int /\ a[2] \in 0..1
    BY DEF Asks, PassiveTimeoutAsks
  <1>6. ASSUME NEW a \in Asks("passive_power")
        PROVE  /\ a = <<a[1], a[2], a[3]>>
               /\ a[1] \in Int32 /\ a[2] \in Int32 /\ a[3] \in Int32
    BY DEF Asks, PassivePowerAsks
  <1>7. ASSUME NEW a \in Asks("clock")
        PROVE  a \in Dates
    BY DEF Asks
  <1>. QED  BY <1>1, <1>2, <1>3, <1>4, <1>5, <1>6, <1>7

LEMMA NoDateIsNone == \A at \in Dates : at # NoDate
  <1>1. \A at \in Stamps : DOMAIN at = 1..6
    BY DEF Stamps
  <1>2. DOMAIN NoDate = {}
    BY DEF NoDate
  <1>. QED  BY <1>1, <1>2 DEF Dates

\* An accepted write puts there what the inverter would.
LEMMA WritesAsMeant ==
    ASSUME NEW p \in Parts, NEW ask \in p.asks
    PROVE  Words(p.name, ask) = InverterWords(p.name, ask)
  <1>1. ask \in Asks(p.name)
    BY PartAssumption
  <1>2. p.name # "state" /\ p.name # "fault_log"
    BY <1>1, AsksByName
  <1>3. ~(p.name = "clock" /\ ask = NoDate)
    BY <1>1, AsksByName, NoDateIsNone
  <1>. QED BY <1>2, <1>3 DEF InverterWords

LEMMA StepBrings ==
    /\ DOMAIN Brought = DOMAIN taken \cup NextFields
    /\ NextFields \subseteq Fields
    /\ \A f \in DOMAIN Brought :
        Brought[f] = IF f \in DOMAIN taken THEN taken[f] ELSE memory[f]
  BY DEF Brought, NextFields

\* What is taken and what the registers hold now are both of the read.
LEMMA BroughtFromMoments ==
    ASSUME IInv, reading = "reading"
    PROVE  /\ DOMAIN Brought \subseteq Fields
           /\ FromMoments(Brought)
           /\ part.name # "state" =>
                DOMAIN Brought = Fields
                /\ \A f \in Fields : Brought[f] = WordsOf(meant)[f]
  <1>1. DOMAIN Brought \subseteq Fields
    BY StepBrings DEF IInv, ReadSoFar
  <1>2. FromMoments(Brought)
    <2>1. ASSUME NEW f \in DOMAIN Brought
          PROVE  \E m \in moments : Brought[f] = WordsOf(m)[f]
      <3>1. CASE f \in DOMAIN taken
        BY <3>1, StepBrings DEF IInv, ReadSoFar, FromMoments
      <3>2. CASE f \notin DOMAIN taken
        <4>1. Brought[f] = memory[f]
          BY <3>2, StepBrings
        <4>2. memory = WordsOf(meant) /\ meant \in moments
          BY DEF IInv, ReadSoFar
        <4>3. QED BY <4>1, <4>2
      <3>3. QED BY <3>1, <3>2
    <2>2. QED BY <2>1 DEF FromMoments
  <1>3. ASSUME part.name # "state"
        PROVE  DOMAIN Brought = Fields
               /\ \A f \in Fields : Brought[f] = WordsOf(meant)[f]
    <2>1. DOMAIN taken = {}
      BY <1>3 DEF IInv, ReadSoFar, Unread
    <2>2. part.name \in Names
      BY PartAssumption DEF IInv
    <2>3. \A f \in Fields : RequestOf(part.name, f) = 0
      BY <1>3, <2>2, OneRequest DEF Fields
    <2>4. NextFields = Fields
      BY <2>1, <2>3 DEF NextFields
    <2>5. QED BY <2>1, <2>4, StepBrings DEF IInv
  <1>4. QED BY <1>1, <1>2, <1>3

-----------------------------------------------------------------------------
(***************************************************************************)
(* The steps.                                                              *)
(***************************************************************************)
LEMMA InitIInv == Init => IInv
  <1> SUFFICES ASSUME Init PROVE IInv
    OBVIOUS
  <1>1. DOMAIN taken = {} /\ taken = Unread /\ reading = "idle"
    BY DEF Init, Unread
  <1>2. ReadSoFar
    BY <1>1 DEF ReadSoFar, FromMoments
  <1>3. ReadInFull /\ ReadAtOnce
    BY <1>1 DEF ReadInFull, ReadAtOnce
  <1>4. QED BY <1>1, <1>2, <1>3 DEF Init, IInv, WordsOf

\* The inverter changes its mind, by itself or by a write: the moments of a
\* read under way gain one, those of a finished one stay.
LEMMA MeansKeepsIInv ==
    ASSUME IInv, NEW m, Means(m, InverterWords(part.name, m)),
           sent' \subseteq part.asks, UNCHANGED <<part, reading, taken, values>>
    PROVE  IInv'
  <1>1. \A n : WordsOf(n)' = WordsOf(n)
    BY DEF WordsOf
  <1>2. moments \subseteq moments' /\ (reading # "reading" => moments' = moments)
        /\ (reading = "reading" => m \in moments')
    BY DEF Means
  <1>3. meant' = m /\ memory' = WordsOf(m)
    BY DEF Means, WordsOf
  <1>4. ReadSoFar'
    <2>1. \A f \in DOMAIN taken' : \E n \in moments' : taken'[f] = (WordsOf(n)[f])'
      BY <1>1, <1>2 DEF IInv, ReadSoFar, FromMoments
    <2>2. QED BY <1>2, <1>3, <2>1 DEF IInv, ReadSoFar, FromMoments, Fields, Unread
  <1>5. ReadInFull'
    BY <1>1, <1>2 DEF IInv, ReadInFull, FromMoments, Fields
  <1>6. ReadAtOnce'
    BY <1>1, <1>2 DEF IInv, ReadAtOnce, Fields
  <1>7. QED BY <1>1, <1>3, <1>4, <1>5, <1>6 DEF IInv

LEMMA RequestKeepsIInv ==
    ASSUME IInv, RequestAnswered
    PROVE  IInv'
  <1>0. reading = "reading" /\ UNCHANGED <<part, meant, memory, sent, moments>>
    BY DEF RequestAnswered
  <1>1. \A n : WordsOf(n)' = WordsOf(n)
    BY <1>0 DEF WordsOf
  <1>2. /\ DOMAIN Brought \subseteq Fields
        /\ \A f \in DOMAIN Brought : \E m \in moments : Brought[f] = WordsOf(m)[f]
        /\ part.name # "state" =>
            DOMAIN Brought = Fields
            /\ \A f \in Fields : Brought[f] = WordsOf(meant)[f]
    BY <1>0, BroughtFromMoments DEF FromMoments
  <1>3. meant \in moments
    BY <1>0 DEF IInv, ReadSoFar
  <1>4. CASE DOMAIN Brought # Fields /\ taken' = Brought /\ UNCHANGED <<reading, values>>
    <2>1. part.name = "state"
      BY <1>2, <1>4
    <2>2. ReadSoFar'
      BY <1>0, <1>1, <1>2, <1>3, <1>4, <2>1 DEF ReadSoFar, FromMoments, Fields
    <2>3. ReadInFull' /\ ReadAtOnce'
      BY <1>0, <1>4 DEF ReadInFull, ReadAtOnce
    <2>4. QED BY <1>0, <1>1, <1>4, <2>2, <2>3 DEF IInv
  <1>5. CASE /\ DOMAIN Brought = Fields /\ taken' = Unread
             /\ reading' = "done" /\ values' = Brought
    <2>1. DOMAIN taken' = {}
      BY <1>5 DEF Unread
    <2>2. ReadSoFar'
      BY <1>0, <1>5, <2>1 DEF ReadSoFar, FromMoments, Unread
    <2>3. ReadInFull'
      BY <1>0, <1>1, <1>2, <1>5 DEF ReadInFull, FromMoments, Fields
    <2>4. ReadAtOnce'
      BY <1>0, <1>1, <1>2, <1>3, <1>5 DEF ReadAtOnce, Fields
    <2>5. QED BY <1>0, <1>1, <1>5, <2>2, <2>3, <2>4 DEF IInv
  <1>6. QED BY <1>4, <1>5 DEF RequestAnswered

LEMMA NextIInv == IInv /\ [Next]_vars => IInv'
  <1> SUFFICES ASSUME IInv, [Next]_vars PROVE IInv'
    OBVIOUS
  <1>1. CASE InverterMoves
    BY <1>1, MeansKeepsIInv DEF InverterMoves, IInv
  <1>2. ASSUME NEW ask \in part.asks, TakeWrite(ask)
        PROVE  IInv'
    <2>1. Words(part.name, ask) = InverterWords(part.name, ask)
      BY WritesAsMeant DEF IInv
    <2>2. Means(ask, InverterWords(part.name, ask))
      BY <1>2, <2>1 DEF TakeWrite
    <2>3. sent' \subseteq part.asks /\ UNCHANGED <<part, reading, taken, values>>
      BY <1>2 DEF TakeWrite, IInv
    <2>4. QED BY <2>2, <2>3, MeansKeepsIInv
  <1>3. ASSUME NEW ask \in part.asks, Send(ask) \/ LoseWrite(ask)
        PROVE  IInv'
    <2>1. sent' \subseteq part.asks
          /\ UNCHANGED <<part, meant, memory, reading, taken, values, moments>>
      BY <1>3 DEF Send, LoseWrite, IInv
    <2>2. QED
      BY <2>1 DEF IInv, ReadSoFar, ReadInFull, ReadAtOnce, FromMoments, WordsOf,
                  Fields, Unread
  <1>4. CASE BeginRead
    <2>1. taken = Unread /\ DOMAIN taken = {} /\ reading' = "reading"
          /\ moments' = {meant} /\ UNCHANGED <<part, meant, memory, sent, taken, values>>
      BY <1>4 DEF BeginRead, IInv, ReadSoFar, Unread
    <2>2. ReadSoFar'
      BY <2>1 DEF ReadSoFar, FromMoments, Unread
    <2>3. ReadInFull' /\ ReadAtOnce'
      BY <2>1 DEF ReadInFull, ReadAtOnce
    <2>4. QED BY <2>1, <2>2, <2>3 DEF IInv, WordsOf
  <1>5. CASE RequestAnswered
    BY <1>5, RequestKeepsIInv
  <1>6. CASE ReadFails
    <2>1. DOMAIN taken' = {} /\ taken' = Unread /\ reading' = "idle"
          /\ UNCHANGED <<part, meant, memory, sent, values>>
      BY <1>6 DEF ReadFails, Unread
    <2>2. ReadSoFar'
      BY <2>1 DEF ReadSoFar, FromMoments, Unread
    <2>3. ReadInFull' /\ ReadAtOnce'
      BY <2>1 DEF ReadInFull, ReadAtOnce
    <2>4. QED BY <2>1, <2>2, <2>3 DEF IInv, WordsOf
  <1>7. CASE UNCHANGED vars
    BY <1>7 DEF vars, IInv, ReadSoFar, ReadInFull, ReadAtOnce, FromMoments,
                WordsOf, Fields, Unread
  <1>8. QED BY <1>1, <1>2, <1>3, <1>4, <1>5, <1>6, <1>7 DEF Next

LEMMA InvIInv == Spec => []IInv
  BY InitIInv, NextIInv, PTL DEF Spec

-----------------------------------------------------------------------------
(***************************************************************************)
(* The theorems.                                                           *)
(***************************************************************************)

\* Every fault of the table has a bit that reports it.
LEMMA EveryFaultHasABit ==
    ASSUME NEW fault \in FAULTS
    PROVE  \E n \in FaultRegisters : \E bit \in Members(n) :
                IdOf(n, bit) = fault /\ bit \in Bits
  <1> DEFINE n == (fault - 1) \div 16 + 1
             bit == (fault - 1) % 16
  <1>1. fault \in Int /\ fault = 16 * (n - 1) + bit + 1 /\ bit \in Bits
    BY DEF FAULTS, Bits
  <1>2. n \in FaultRegisters
    BY DEF FAULTS, FaultRegisters
  <1> HIDE DEF n, bit
  <1>3. bit \in Members(n)
    <2>1. CASE n = 4
      <3>1. Members(n) = 0..6 \cup 8..13
        BY <2>1 DEF Members
      <3>2. QED BY <1>1, <2>1, <3>1 DEF FAULTS, Bits
    <2>2. CASE n = 5
      <3>1. Members(n) = 0..11
        BY <2>2 DEF Members
      <3>2. QED BY <1>1, <2>2, <3>1 DEF FAULTS, Bits
    <2>3. CASE n = 6
      <3>1. Members(n) = 0..12
        BY <2>3 DEF Members
      <3>2. QED BY <1>1, <2>3, <3>1 DEF FAULTS, Bits
    <2>4. CASE n = 7
      <3>1. Members(n) = 0..3 \cup 5..10 \cup 13..15
        BY <2>4 DEF Members
      <3>2. QED BY <1>1, <2>4, <3>1 DEF FAULTS, Bits
    <2>5. CASE n = 8
      <3>1. Members(n) = 0..5 \cup {8, 9, 11, 12}
        BY <2>5 DEF Members
      <3>2. QED BY <1>1, <2>5, <3>1 DEF FAULTS, Bits
    <2>6. CASE n = 11
      <3>1. Members(n) = 0..3 \cup 8..14
        BY <2>6 DEF Members
      <3>2. QED BY <1>1, <2>6, <3>1 DEF FAULTS, Bits
    <2>7. CASE n = 28
      <3>1. Members(n) = {8}
        BY <2>7 DEF Members
      <3>2. QED BY <1>1, <2>7, <3>1 DEF FAULTS, Bits
    <2>8. CASE n = 29
      <3>1. Members(n) = 0..4 \cup {15}
        BY <2>8 DEF Members
      <3>2. QED BY <1>1, <2>8, <3>1 DEF FAULTS, Bits
    <2>9. CASE n = 30
      <3>1. Members(n) = 0..2 \cup {15}
        BY <2>9 DEF Members
      <3>2. QED BY <1>1, <2>9, <3>1 DEF FAULTS, Bits
    <2>10. CASE n \notin {4, 5, 6, 7, 8, 11, 28, 29, 30}
      BY <1>1, <1>2, <2>10 DEF Members, FaultRegisters
    <2>11. QED BY <2>1, <2>2, <2>3, <2>4, <2>5, <2>6, <2>7, <2>8, <2>9, <2>10
  <1>4. QED BY <1>1, <1>2, <1>3 DEF IdOf

LEMMA RegularFaults == IInv => FaultsRegular
  <1> SUFFICES ASSUME IInv, reading = "done", part.name = "state", NEW fault \in FAULTS
               PROVE  /\ (\A m \in moments : fault \in m)
                            => fault \in ActiveFaults(values)
                      /\ fault \in ActiveFaults(values)
                            => \E m \in moments : fault \in m
    BY DEF FaultsRegular
  <1>1. ASSUME NEW n \in FaultRegisters
        PROVE  \E m \in moments : values[n] = {bit \in Bits : IdOf(n, bit) \in m}
    <2>1. Fields = FaultRegisters
      BY DEF Fields, FieldsOf
    <2>2. PICK m \in moments : values[n] = WordsOf(m)[n]
      BY <2>1 DEF IInv, ReadInFull, FromMoments
    <2>3. WordsOf(m)[n] = {bit \in Bits : IdOf(n, bit) \in m}
      BY DEF WordsOf, InverterWords
    <2>4. QED BY <2>2, <2>3
  <1>2. ASSUME \A m \in moments : fault \in m
        PROVE  fault \in ActiveFaults(values)
    <2>1. PICK n \in FaultRegisters : \E bit \in Members(n) :
                IdOf(n, bit) = fault /\ bit \in Bits
      BY EveryFaultHasABit
    <2>2. PICK bit \in Members(n) : IdOf(n, bit) = fault /\ bit \in Bits
      BY <2>1
    <2>3. bit \in values[n] \cap Members(n)
      BY <1>1, <1>2, <2>2
    <2>4. FaultsOf(n)[bit] = fault
      BY <2>2 DEF FaultsOf
    <2>5. QED BY <2>3, <2>4 DEF ActiveFaults
  <1>3. ASSUME fault \in ActiveFaults(values)
        PROVE  \E m \in moments : fault \in m
    <2>1. PICK n \in FaultRegisters :
            fault \in {FaultsOf(n)[bit] : bit \in values[n] \cap Members(n)}
      BY <1>3 DEF ActiveFaults
    <2>2. PICK bit \in values[n] \cap Members(n) : fault = FaultsOf(n)[bit]
      BY <2>1
    <2>3. fault = IdOf(n, bit)
      BY <2>2 DEF FaultsOf
    <2>4. QED BY <1>1, <2>2, <2>3
  <1>4. QED BY <1>2, <1>3

\* For any faults, at any moments: one active all through a read is
\* reported, and one reported was active during it
\* (InverterState.active_faults).
THEOREM FaultsReportedRegularly == Spec => []FaultsRegular
  BY InvIInv, RegularFaults, PTL

\* For any writes, by anyone and at any time: log, clock and settings are
\* never a mixture of two moments (Component.async_update, in one request).
THEOREM NothingReadInHalves == Spec => []ReadAtOnce
  <1>1. IInv => ReadAtOnce
    BY DEF IInv
  <1>2. QED BY <1>1, InvIInv, PTL

-----------------------------------------------------------------------------
(***************************************************************************)
(* What the inverter can mean, and the words it has for it.                *)
(***************************************************************************)
Accepted == {ask \in part.asks : Accepts(part.name, ask)}
Meanings == part.means \cup Accepted

LEMMA Meant ==
    ASSUME part \in Parts, NEW m \in Meanings
    PROVE  /\ part.name \in Names
           /\ part.name = "fault_log" => m \in Nat
           /\ part.name = "clock" => m \in Dates \cup {NoDate}
           /\ part.name \in Settings => m \in Asks(part.name) /\ Accepts(part.name, m)
  <1>1. /\ part.name \in Names /\ part.asks \subseteq Asks(part.name)
        /\ part.name = "fault_log" => part.means \subseteq Nat
        /\ part.name = "clock" => part.means \subseteq Dates \cup {NoDate}
        /\ part.name \in Settings =>
            \A ask \in part.means : ask \in Asks(part.name) /\ Accepts(part.name, ask)
    BY PartAssumption
  <1>2. m \in part.means \/ (m \in Asks(part.name) /\ Accepts(part.name, m))
    BY <1>1 DEF Meanings, Accepted
  <1>3. part.name = "fault_log" => m \in Nat
    BY <1>1, <1>2, AsksByName
  <1>4. part.name = "clock" => m \in Dates \cup {NoDate}
    BY <1>1, <1>2, AsksByName
  <1>5. part.name \in Settings => m \in Asks(part.name) /\ Accepts(part.name, m)
    BY <1>1, <1>2
  <1>. QED  BY <1>1, <1>3, <1>4, <1>5

LEMMA IntervalMembers ==
    ASSUME NEW low \in Int, NEW high \in Int
    PROVE  \A n : n \in low..high <=> n \in Int /\ low <= n /\ n <= high
  OBVIOUS

\* The provers would enumerate a long interval, so these stand for them.
LEMMA WordIs == \A w : w \in WordRange <=> w \in Int /\ 0 <= w /\ w <= 65535
  <1>1. WordLimit \in Int /\ WordLimit = 65536
    BY DEF WordLimit
  <1>2. 0 \in Int /\ (WordLimit - 1) \in Int
    BY <1>1
  <1>3. \A w : w \in WordRange <=> w \in Int /\ 0 <= w /\ w <= WordLimit - 1
    BY <1>2, IntervalMembers DEF WordRange
  <1>. QED  BY <1>1, <1>3

LEMMA Int32Is ==
    \A v : v \in Int32 <=> v \in Int /\ -2147483648 <= v /\ v <= 2147483647
  <1>1. WordLimit \in Int /\ WordLimit = 65536
    BY DEF WordLimit
  <1>2. ((-32768) * WordLimit) \in Int /\ (32767 * WordLimit + 65535) \in Int
    BY <1>1
  <1>3. \A v : v \in Int32 <=>
            v \in Int /\ (-32768) * WordLimit <= v /\ v <= 32767 * WordLimit + 65535
    BY <1>2, IntervalMembers DEF Int32
  <1>. QED  BY <1>1, <1>3

\* Two halves of an int32 are words, and make it again.
LEMMA Int32InWords ==
    ASSUME NEW v \in Int32
    PROVE  /\ HighWord(v) \in WordRange /\ LowWord(v) \in WordRange
           /\ Signed(HighWord(v), LowWord(v)) = v
  <1>1. v \in Int /\ -2147483648 <= v /\ v <= 2147483647
    BY Int32Is
  <1>2. v = 65536 * (v \div 65536) + (v % 65536) /\ v % 65536 \in Int
        /\ 0 <= v % 65536 /\ v % 65536 <= 65535
        /\ v \div 65536 \in Int /\ -32768 <= v \div 65536 /\ v \div 65536 <= 32767
    BY <1>1
  <1>3. CASE v \div 65536 >= 0
    <2>1. (v \div 65536) % 65536 = v \div 65536
      BY <1>2, <1>3
    <2>. QED  BY <1>1, <1>2, <1>3, <2>1, WordIs DEF HighWord, LowWord, Signed, WordLimit
  <1>4. CASE v \div 65536 < 0
    <2>1. ASSUME NEW q \in Int, -32768 <= q, q < 0 PROVE q % 65536 = q + 65536
      BY <2>1
    <2>2. (v \div 65536) % 65536 = v \div 65536 + 65536
      BY <1>2, <1>4, <2>1
    <2>. QED  BY <1>1, <1>2, <1>4, <2>2, WordIs DEF HighWord, LowWord, Signed, WordLimit
  <1>. QED  BY <1>2, <1>3, <1>4

\* A slot holds what two bytes to a word can, and shows it again.
LEMMA StampInWords ==
    ASSUME NEW at \in Stamps
    PROVE  /\ at = <<at[1], at[2], at[3], at[4], at[5], at[6]>>
           /\ 256 * (at[1] - 2000) + at[2] \in WordRange
           /\ 256 * at[3] + at[4] \in WordRange
           /\ 256 * at[5] + at[6] \in WordRange
           /\ 2000 + High(256 * (at[1] - 2000) + at[2]) = at[1]
           /\ Low(256 * (at[1] - 2000) + at[2]) = at[2]
           /\ High(256 * at[3] + at[4]) = at[3] /\ Low(256 * at[3] + at[4]) = at[4]
           /\ High(256 * at[5] + at[6]) = at[5] /\ Low(256 * at[5] + at[6]) = at[6]
  <1>1. at = <<at[1], at[2], at[3], at[4], at[5], at[6]>>
    BY DEF Stamps
  <1>2. /\ at[1] \in Int /\ 2000 <= at[1] /\ at[1] <= 2255
        /\ at[2] \in Int /\ 0 <= at[2] /\ at[2] <= 255
        /\ at[3] \in Int /\ 0 <= at[3] /\ at[3] <= 255
        /\ at[4] \in Int /\ 0 <= at[4] /\ at[4] <= 255
        /\ at[5] \in Int /\ 0 <= at[5] /\ at[5] <= 255
        /\ at[6] \in Int /\ 0 <= at[6] /\ at[6] <= 255
    BY DEF Stamps
  <1>3. ASSUME NEW a \in Int, 0 <= a, a <= 255, NEW b \in Int, 0 <= b, b <= 255
        PROVE  /\ 256 * a + b \in WordRange
               /\ High(256 * a + b) = a /\ Low(256 * a + b) = b
    BY <1>3, WordIs DEF High, Low
  <1>4. /\ at[1] - 2000 \in Int /\ 0 <= at[1] - 2000 /\ at[1] - 2000 <= 255
        /\ 2000 + (at[1] - 2000) = at[1]
    BY <1>2
  <1>5. /\ 256 * (at[1] - 2000) + at[2] \in WordRange
        /\ High(256 * (at[1] - 2000) + at[2]) = at[1] - 2000
        /\ Low(256 * (at[1] - 2000) + at[2]) = at[2]
    BY <1>2, <1>3, <1>4
  <1>6. /\ 256 * at[3] + at[4] \in WordRange
        /\ High(256 * at[3] + at[4]) = at[3] /\ Low(256 * at[3] + at[4]) = at[4]
    BY <1>2, <1>3
  <1>7. /\ 256 * at[5] + at[6] \in WordRange
        /\ High(256 * at[5] + at[6]) = at[5] /\ Low(256 * at[5] + at[6]) = at[6]
    BY <1>2, <1>3
  <1>. QED  BY <1>1, <1>4, <1>5, <1>6, <1>7

\* The inverter logs its events over and over.
LEMMA SomeEvent ==
    ASSUME NEW n \in Nat, n >= 1
    PROVE  /\ Event(n) \in [id : WordRange, at : Stamps, good : BOOLEAN]
           /\ Event(n).good <=> Event(n).id \in FAULTS /\ Date(Event(n).at) # NoDate
  <1>. DEFINE E == [id : WordRange, at : Stamps, good : BOOLEAN]
  <1>0. Events \in Seq(E) /\ Events # <<>>
    BY EventAssumption
  <1>. HIDE DEF E
  <1>1. Len(Events) \in Nat /\ Len(Events) >= 1 /\ DOMAIN Events = 1..Len(Events)
    BY <1>0
  <1>. DEFINE i == ((n - 1) % Len(Events)) + 1
  <1>2. i \in 1..Len(Events)
    <2>1. (n - 1) % Len(Events) \in 0..(Len(Events) - 1)
      BY <1>1
    <2>. QED  BY <1>1, <2>1
  <1>3. Event(n) = Events[i]
    BY DEF Event
  <1>. HIDE DEF i
  <1>4. Events[i] \in E
    BY <1>0, <1>1, <1>2
  <1>5. Events[i].good <=> Events[i].id \in FAULTS /\ Date(Events[i].at) # NoDate
    BY <1>1, <1>2, EventAssumption
  <1>. QED  BY <1>3, <1>4, <1>5 DEF E

\* The words of a setting or of the clock, name by name.
LEMMA WordsByName ==
    ASSUME NEW m
    PROVE  /\ part.name = "feed_in" => WordsOf(m) = <<m[1], m[2] \div 100>>
           /\ part.name = "active_power" =>
                WordsOf(m) = <<IF m[1] THEN 1 ELSE 0, HalfRounded(m[2])>>
           /\ part.name = "eps" => WordsOf(m) = <<m, 0>>
           /\ part.name = "passive_timeout" => WordsOf(m) = m
           /\ part.name = "passive_power" =>
                WordsOf(m) = <<HighWord(m[1]), LowWord(m[1]), HighWord(m[2]),
                               LowWord(m[2]), HighWord(m[3]), LowWord(m[3])>>
           /\ part.name = "clock" /\ m = NoDate => WordsOf(m) = <<0, 0, 0, 0, 0, 0>>
           /\ part.name = "clock" /\ m # NoDate =>
                WordsOf(m) = [m EXCEPT ![1] = m[1] % 100]
  <1>1. ASSUME part.name = "feed_in" PROVE WordsOf(m) = <<m[1], m[2] \div 100>>
    BY <1>1 DEF WordsOf, InverterWords, Words, FeedInWords
  <1>2. ASSUME part.name = "active_power"
        PROVE  WordsOf(m) = <<IF m[1] THEN 1 ELSE 0, HalfRounded(m[2])>>
    BY <1>2 DEF WordsOf, InverterWords, Words, ActivePowerWords
  <1>3. ASSUME part.name = "eps" PROVE WordsOf(m) = <<m, 0>>
    BY <1>3 DEF WordsOf, InverterWords, Words, EpsWords
  <1>4. ASSUME part.name = "passive_timeout" PROVE WordsOf(m) = m
    BY <1>4 DEF WordsOf, InverterWords, Words, PassiveTimeoutWords
  <1>5. ASSUME part.name = "passive_power"
        PROVE  WordsOf(m) = <<HighWord(m[1]), LowWord(m[1]), HighWord(m[2]),
                              LowWord(m[2]), HighWord(m[3]), LowWord(m[3])>>
    BY <1>5 DEF WordsOf, InverterWords, Words, PassivePowerWords
  <1>6. ASSUME part.name = "clock", m = NoDate
        PROVE  WordsOf(m) = <<0, 0, 0, 0, 0, 0>>
    BY <1>6 DEF WordsOf, InverterWords
  <1>7. ASSUME part.name = "clock", m # NoDate
        PROVE  WordsOf(m) = [m EXCEPT ![1] = m[1] % 100]
    BY <1>7 DEF WordsOf, InverterWords, Words, ClockWords
  <1>. QED  BY <1>1, <1>2, <1>3, <1>4, <1>5, <1>6, <1>7

\* A percentage in twentieths, rounded to tenths, and within a half of one.
LEMMA HalfRoundedIsClose ==
    ASSUME NEW k \in 0..FullPower
    PROVE  /\ HalfRounded(k) \in WordRange
           /\ HalfRounded(k) * 2 \in 0..FullPower
           /\ (HalfRounded(k) * 2 - k) \in -1..1
  <1>1. FullPower \in Int /\ FullPower = 2000 /\ 0 \in Int
    BY DEF FullPower
  <1>2. k \in Int /\ 0 <= k /\ k <= 2000
    BY <1>1, IntervalMembers
  <1>3. /\ HalfRounded(k) \in Int /\ 0 <= HalfRounded(k) /\ HalfRounded(k) * 2 <= 2000
        /\ (HalfRounded(k) * 2 - k) \in -1..1
    <2>1. CASE k % 4 = 1
      BY <1>2, <2>1 DEF HalfRounded
    <2>2. CASE k % 4 # 1
      BY <1>2, <2>2 DEF HalfRounded
    <2>. QED  BY <2>1, <2>2
  <1>4. HalfRounded(k) \in WordRange
    BY <1>3, WordIs
  <1>5. /\ HalfRounded(k) * 2 \in Int
        /\ 0 <= HalfRounded(k) * 2 /\ HalfRounded(k) * 2 <= FullPower
    BY <1>1, <1>3
  <1>6. 0 \in Int /\ FullPower \in Int
    BY <1>1
  <1>7. HalfRounded(k) * 2 \in 0..FullPower
    BY <1>5, <1>6, IntervalMembers
  <1>. QED  BY <1>3, <1>4, <1>7

\* A moment of this century, its year in two digits and back.
LEMMA DateInWords ==
    ASSUME NEW at \in Dates
    PROVE  LET words == [at EXCEPT ![1] = at[1] % 100]
           IN  words \in [1..6 -> WordRange] /\ Rtc(words) = at
  <1>. DEFINE words == [at EXCEPT ![1] = at[1] % 100]
  <1>1. /\ at \in Stamps /\ Date(at) # NoDate
        /\ at[1] \in Int /\ 2000 <= at[1] /\ at[1] < 2100
        /\ at[2] \in Int /\ 0 <= at[2] /\ at[2] <= 255
        /\ at[3] \in Int /\ 0 <= at[3] /\ at[3] <= 255
        /\ at[4] \in Int /\ 0 <= at[4] /\ at[4] <= 255
        /\ at[5] \in Int /\ 0 <= at[5] /\ at[5] <= 255
        /\ at[6] \in Int /\ 0 <= at[6] /\ at[6] <= 255
    BY DEF Dates, Stamps
  <1>2. at = <<at[1], at[2], at[3], at[4], at[5], at[6]>>
    BY <1>1, StampInWords
  <1>3. words = <<at[1] % 100, at[2], at[3], at[4], at[5], at[6]>>
    BY <1>2
  <1>4. /\ at[1] % 100 \in WordRange /\ at[2] \in WordRange /\ at[3] \in WordRange
        /\ at[4] \in WordRange /\ at[5] \in WordRange /\ at[6] \in WordRange
    BY <1>1, WordIs
  <1>5. words \in [1..6 -> WordRange]
    <2>. HIDE DEF words
    <2>. QED  BY <1>3, <1>4
  <1>6. 2000 + ((at[1] % 100) % 100) = at[1]
    BY <1>1
  <1>7. [words EXCEPT ![1] = 2000 + (words[1] % 100)] = at
    <2>1. words[1] = at[1] % 100
      BY <1>3
    <2>2. [words EXCEPT ![1] = at[1]] = <<at[1], at[2], at[3], at[4], at[5], at[6]>>
      <3>. HIDE DEF words
      <3>. QED  BY <1>3
    <2>. HIDE DEF words
    <2>. QED  BY <1>2, <1>6, <2>1, <2>2
  <1>8. Date(at) = at
    BY <1>1 DEF Date
  <1>. HIDE DEF words
  <1>. DEFINE shown == [words EXCEPT ![1] = 2000 + (words[1] % 100)]
  <1>9. Rtc(words) = Date(shown) /\ shown = at
    BY <1>7 DEF Rtc
  <1>. HIDE DEF shown
  <1>10. Rtc(words) = at
    BY <1>8, <1>9
  <1>. QED  BY <1>5, <1>10 DEF words

\* A slot of the log shows the event in it if it is good, and no other does.
LEMMA SlotShowsEvent ==
    ASSUME NEW e \in [id : WordRange, at : Stamps, good : BOOLEAN],
           e.good <=> e.id \in FAULTS /\ Date(e.at) # NoDate
    PROVE  /\ EventWords(e) \in [1..4 -> WordRange]
           /\ Entry(EventWords(e)) = IF e.good THEN <<e.id, e.at>> ELSE NoEntry
  <1>. DEFINE at == e.at
              w2 == 256 * (at[1] - 2000) + at[2]
              w3 == 256 * at[3] + at[4]
              w4 == 256 * at[5] + at[6]
              slot == EventWords(e)
  <1>1. e.id \in WordRange /\ at \in Stamps /\ e.good \in BOOLEAN
    OBVIOUS
  <1>2. slot = <<e.id, w2, w3, w4>>
    BY DEF EventWords
  <1>. HIDE DEF at
  <1>3. /\ at = <<at[1], at[2], at[3], at[4], at[5], at[6]>>
        /\ w2 \in WordRange /\ w3 \in WordRange /\ w4 \in WordRange
        /\ 2000 + High(w2) = at[1] /\ Low(w2) = at[2]
        /\ High(w3) = at[3] /\ Low(w3) = at[4]
        /\ High(w4) = at[5] /\ Low(w4) = at[6]
    BY <1>1, StampInWords
  <1>. HIDE DEF w2, w3, w4, slot
  <1>4. slot \in [1..4 -> WordRange]
    BY <1>1, <1>2, <1>3
  <1>5. slot[1] = e.id /\ slot[2] = w2 /\ slot[3] = w3 /\ slot[4] = w4
    BY <1>2
  <1>6. OccurredAt(slot) = Date(at)
    <2>1. OccurredAt(slot) = Date(<<2000 + High(w2), Low(w2), High(w3), Low(w3),
                                    High(w4), Low(w4)>>)
      BY <1>5 DEF OccurredAt
    <2>2. <<2000 + High(w2), Low(w2), High(w3), Low(w3), High(w4), Low(w4)>>
            = <<at[1], at[2], at[3], at[4], at[5], at[6]>>
      BY <1>3
    <2>3. <<2000 + High(w2), Low(w2), High(w3), Low(w3), High(w4), Low(w4)>> = at
      BY <1>3, <2>2
    <2>. QED  BY <2>1, <2>3
  <1>7. Date(at) # NoDate => Date(at) = at
    BY DEF Date
  <1>8. e.good <=> slot[1] \in FAULTS /\ OccurredAt(slot) # NoDate
    BY <1>5, <1>6 DEF at
  <1>9. CASE e.good
    <2>1. Entry(slot) = <<slot[1], OccurredAt(slot)>>
      BY <1>8, <1>9 DEF Entry
    <2>2. OccurredAt(slot) = at
      BY <1>6, <1>7, <1>8, <1>9
    <2>. QED  BY <1>4, <1>5, <1>9, <2>1, <2>2 DEF slot, at
  <1>10. CASE ~e.good
    <2>1. Entry(slot) = NoEntry
      BY <1>8, <1>10 DEF Entry
    <2>. QED  BY <1>4, <1>10, <2>1 DEF slot
  <1>. QED  BY <1>9, <1>10

LEMMA LogWords ==
    ASSUME part.name = "fault_log", NEW m \in Nat
    PROVE  /\ WordsOf(m) \in [1..EntriesRead -> [1..4 -> WordRange]]
           /\ Entries(WordsOf(m)) = Logged(m)
  <1>. DEFINE empty == <<0, 0, 0, 0>>
              slot(j) == IF j <= m THEN EventWords(Event(m - j + 1)) ELSE empty
              shows(j) == IF j <= m /\ Event(m - j + 1).good
                          THEN <<Event(m - j + 1).id, Event(m - j + 1).at>> ELSE NoEntry
  <1>1. WordsOf(m) = [j \in 1..EntriesRead |-> slot(j)]
    BY DEF WordsOf, InverterWords
  <1>2. empty \in [1..4 -> WordRange] /\ Entry(empty) = NoEntry
    <2>1. 0 \in WordRange /\ 0 \notin FAULTS
      BY WordIs DEF FAULTS
    <2>2. empty[1] = 0
      OBVIOUS
    <2>3. empty \in [1..4 -> WordRange]
      BY <2>1
    <2>. HIDE DEF empty
    <2>. QED  BY <2>1, <2>2, <2>3 DEF Entry
  <1>3. ASSUME NEW j \in 1..EntriesRead
        PROVE  slot(j) \in [1..4 -> WordRange] /\ Entry(slot(j)) = shows(j)
    <2>1. j \in Nat /\ j >= 1
      BY DEF EntriesRead
    <2>. HIDE DEF empty
    <2>2. CASE j <= m
      <3>1. m - j + 1 \in Nat /\ m - j + 1 >= 1
        BY <2>1, <2>2
      <3>. DEFINE e == Event(m - j + 1)
      <3>2. /\ e \in [id : WordRange, at : Stamps, good : BOOLEAN]
            /\ e.good <=> e.id \in FAULTS /\ Date(e.at) # NoDate
        BY <3>1, SomeEvent
      <3>3. slot(j) = EventWords(e) /\ shows(j) = IF e.good THEN <<e.id, e.at>> ELSE NoEntry
        BY <2>2
      <3>. HIDE DEF e, slot, shows
      <3>. QED  BY <3>2, <3>3, SlotShowsEvent
    <2>3. CASE ~(j <= m)
      <3>1. slot(j) = empty /\ shows(j) = NoEntry
        BY <2>3
      <3>. HIDE DEF slot, shows
      <3>. QED  BY <1>2, <3>1
    <2>. QED  BY <2>2, <2>3
  <1>4. Logged(m) = Filled([j \in 1..EntriesRead |-> shows(j)])
    BY DEF Logged
  <1>5. Entries(WordsOf(m)) = Filled([j \in 1..EntriesRead |-> Entry(WordsOf(m)[j])])
    BY DEF Entries
  <1>. HIDE DEF slot, shows, empty
  <1>6. \A j \in 1..EntriesRead : WordsOf(m)[j] = slot(j)
    BY <1>1
  <1>7. [j \in 1..EntriesRead |-> Entry(WordsOf(m)[j])] = [j \in 1..EntriesRead |-> shows(j)]
    BY <1>3, <1>6
  <1>. QED  BY <1>1, <1>3, <1>4, <1>5, <1>7

\* Whatever the inverter means has words, and its words say what it means.
LEMMA WordsSayIt ==
    ASSUME part \in Parts, NEW m \in Meanings
    PROVE  /\ WordsOf(m) \in [Fields -> WordSet]
           /\ part.name # "state" => Tells(part.name, WordsOf(m), m)
  <1>1. /\ part.name \in Names
        /\ part.name = "fault_log" => m \in Nat
        /\ part.name = "clock" => m \in Dates \cup {NoDate}
        /\ part.name \in Settings => m \in Asks(part.name) /\ Accepts(part.name, m)
    BY Meant
  <1>2. 0 \in WordRange /\ 1 \in WordRange /\ 2 \in WordRange
    BY WordIs
  <1>3. CASE part.name = "state"
    <2>1. Fields = FaultRegisters /\ WordSet = SUBSET Bits
      BY <1>3 DEF Fields, FieldsOf, WordSet
    <2>2. WordsOf(m) = [n \in FaultRegisters |-> {bit \in Bits : IdOf(n, bit) \in m}]
      BY <1>3 DEF WordsOf, InverterWords
    <2>. QED  BY <1>3, <2>1, <2>2
  <1>4. CASE part.name = "fault_log"
    <2>1. Fields = 1..EntriesRead /\ WordSet = [1..4 -> WordRange]
      BY <1>4 DEF Fields, FieldsOf, WordSet
    <2>2. Entries(WordsOf(m)) = Logged(m) /\ WordsOf(m) \in [1..EntriesRead -> [1..4 -> WordRange]]
      BY <1>1, <1>4, LogWords
    <2>3. Tells(part.name, WordsOf(m), m)
      BY <1>4, <2>2 DEF Tells
    <2>. QED  BY <2>1, <2>2, <2>3
  <1>5. CASE part.name = "clock"
    <2>1. Fields = 1..6 /\ WordSet = WordRange
      BY <1>5 DEF Fields, FieldsOf, WordSet
    <2>2. WordsOf(m) \in [1..6 -> WordRange] /\ Rtc(WordsOf(m)) = m
      <3>1. CASE m = NoDate
        <4>. DEFINE zeros == <<0, 0, 0, 0, 0, 0>>
        <4>1. WordsOf(m) = zeros
          BY <1>5, <3>1, WordsByName
        <4>2. zeros \in [1..6 -> WordRange] /\ zeros[2] = 0
          BY <1>2
        <4>. DEFINE shown == [zeros EXCEPT ![1] = 2000 + (zeros[1] % 100)]
        <4>3. Rtc(zeros) = Date(shown)
          BY DEF Rtc
        <4>4. shown[2] = 0
          OBVIOUS
        <4>. HIDE DEF zeros, shown
        <4>5. Date(shown) = NoDate
          BY <4>4 DEF Date
        <4>. QED  BY <3>1, <4>1, <4>2, <4>3, <4>5
      <3>2. CASE m # NoDate
        <4>1. WordsOf(m) = [m EXCEPT ![1] = m[1] % 100]
          BY <1>5, <3>2, WordsByName
        <4>2. m \in Dates
          BY <1>1, <1>5, <3>2
        <4>. QED  BY <4>1, <4>2, DateInWords
      <3>. QED  BY <3>1, <3>2
    <2>3. Tells(part.name, WordsOf(m), m)
      BY <1>5, <2>2 DEF Tells, Shown
    <2>. QED  BY <2>1, <2>2, <2>3
  <1>6. CASE part.name = "feed_in"
    <2>1. Fields = 1..2 /\ WordSet = WordRange
      BY <1>6 DEF Fields, FieldsOf, WordSet
    <2>2. /\ m = <<m[1], m[2]>> /\ m[1] \in 0..2 /\ m[2] \in Int
          /\ m[2] \div 100 \in WordRange
      BY <1>1, <1>6, AsksByName DEF Settings
    <2>3. m[2] % 100 = 0
      BY <1>1, <1>6 DEF Settings, Accepts, FeedInAccepts
    <2>4. WordsOf(m) = <<m[1], m[2] \div 100>>
      BY <1>6, WordsByName
    <2>5. WordsOf(m) \in [1..2 -> WordRange]
      BY <1>2, <2>2, <2>4
    <2>6. Shown("feed_in", WordsOf(m)) = <<m[1], (m[2] \div 100) * 100>>
      BY <2>4 DEF Shown, FeedInShown
    <2>7. (m[2] \div 100) * 100 = m[2]
      BY <2>2, <2>3
    <2>8. Shown("feed_in", WordsOf(m)) = m
      BY <2>2, <2>6, <2>7
    <2>9. Tells(part.name, WordsOf(m), m)
      BY <1>6, <2>8 DEF Tells
    <2>. QED  BY <2>1, <2>5, <2>9
  <1>7. CASE part.name = "active_power"
    <2>1. Fields = 1..2 /\ WordSet = WordRange
      BY <1>7 DEF Fields, FieldsOf, WordSet
    <2>2. m = <<m[1], m[2]>> /\ m[1] \in BOOLEAN /\ m[2] \in Int
      BY <1>1, <1>7, AsksByName DEF Settings
    <2>3. m[2] \in 0..FullPower
      BY <1>1, <1>7 DEF Settings, Accepts, ActivePowerAccepts
    <2>. DEFINE half == HalfRounded(m[2])
                enabled == IF m[1] THEN 1 ELSE 0
    <2>4. half \in WordRange /\ half * 2 \in 0..FullPower /\ (half * 2 - m[2]) \in -1..1
      BY <2>3, HalfRoundedIsClose
    <2>5. WordsOf(m) = <<enabled, half>>
      BY <1>7, WordsByName
    <2>6. enabled \in WordRange /\ (enabled = 1 <=> m[1])
      BY <1>2, <2>2
    <2>. HIDE DEF half, enabled
    <2>7. WordsOf(m) \in [1..2 -> WordRange]
      BY <2>4, <2>5, <2>6
    <2>. DEFINE shown == Shown("active_power", WordsOf(m))
    <2>8. shown = <<enabled = 1, half * 2>>
      BY <2>5 DEF Shown, ActivePowerShown
    <2>. HIDE DEF shown
    <2>9. shown[1] = (enabled = 1) /\ shown[2] = half * 2
      BY <2>8
    <2>10. shown[1] = m[1]
      BY <2>2, <2>6, <2>9
    <2>11. /\ shown[1] = m[1] /\ shown[2] \in 0..FullPower
           /\ (shown[2] - m[2]) \in -1..1
      BY <2>4, <2>9, <2>10, Zenon
    <2>12. Tells(part.name, WordsOf(m), m)
      BY <1>7, <2>11 DEF Tells, shown
    <2>. QED  BY <2>1, <2>7, <2>12
  <1>8. CASE part.name = "eps"
    <2>1. Fields = 1..2 /\ WordSet = WordRange
      BY <1>8 DEF Fields, FieldsOf, WordSet
    <2>2. m \in 0..2
      BY <1>1, <1>8, AsksByName DEF Settings
    <2>3. WordsOf(m) = <<m, 0>>
      BY <1>8, WordsByName
    <2>4. WordsOf(m) \in [1..2 -> WordRange]
      BY <1>2, <2>2, <2>3
    <2>5. Tells(part.name, WordsOf(m), m)
      BY <1>8, <2>3 DEF Tells, Shown, EpsShown
    <2>. QED  BY <2>1, <2>4, <2>5
  <1>9. CASE part.name = "passive_timeout"
    <2>1. Fields = 1..2 /\ WordSet = WordRange
      BY <1>9 DEF Fields, FieldsOf, WordSet
    <2>2. m = <<m[1], m[2]>> /\ m[2] \in 0..1
      BY <1>1, <1>9, AsksByName DEF Settings
    <2>3. m[1] \in WordRange
      BY <1>1, <1>9 DEF Settings, Accepts, PassiveTimeoutAccepts
    <2>4. WordsOf(m) = m
      BY <1>9, WordsByName
    <2>5. WordsOf(m) \in [1..2 -> WordRange]
      BY <1>2, <2>2, <2>3, <2>4
    <2>6. Tells(part.name, WordsOf(m), m)
      BY <1>9, <2>2, <2>4 DEF Tells, Shown, PassiveTimeoutShown
    <2>. QED  BY <2>1, <2>5, <2>6
  <1>10. CASE part.name = "passive_power"
    <2>1. Fields = 1..6 /\ WordSet = WordRange
      BY <1>10 DEF Fields, FieldsOf, WordSet
    <2>2. m = <<m[1], m[2], m[3]>> /\ m[1] \in Int32 /\ m[2] \in Int32 /\ m[3] \in Int32
      BY <1>1, <1>10, AsksByName DEF Settings
    <2>3. \A i \in 1..3 : /\ HighWord(m[i]) \in WordRange /\ LowWord(m[i]) \in WordRange
                         /\ Signed(HighWord(m[i]), LowWord(m[i])) = m[i]
      BY <2>2, Int32InWords
    <2>4. WordsOf(m) = <<HighWord(m[1]), LowWord(m[1]), HighWord(m[2]),
                         LowWord(m[2]), HighWord(m[3]), LowWord(m[3])>>
      BY <1>10, WordsByName
    <2>5. WordsOf(m) \in [1..6 -> WordRange]
      BY <2>3, <2>4
    <2>6. Shown("passive_power", WordsOf(m)) = <<m[1], m[2], m[3]>>
      <3>1. Shown("passive_power", WordsOf(m)) =
              <<Signed(HighWord(m[1]), LowWord(m[1])), Signed(HighWord(m[2]), LowWord(m[2])),
                Signed(HighWord(m[3]), LowWord(m[3]))>>
        BY <2>4 DEF Shown, PassivePowerShown
      <3>. QED  BY <2>3, <3>1
    <2>7. Tells(part.name, WordsOf(m), m)
      BY <1>10, <2>2, <2>6 DEF Tells
    <2>. QED  BY <2>1, <2>5, <2>7
  <1>. QED  BY <1>1, <1>3, <1>4, <1>5, <1>6, <1>7, <1>8, <1>9, <1>10 DEF Names, Settings

-----------------------------------------------------------------------------
(***************************************************************************)
(* What is meant is always something accepted, so all that is read of it   *)
(* has its words.                                                          *)
(***************************************************************************)
MeantInv ==
    /\ meant \in Meanings
    /\ moments \subseteq Meanings
    /\ sent \subseteq Accepted
    /\ values = Unread \/ values \in [Fields -> WordSet]

LEMMA SamePart ==
    ASSUME part' = part
    PROVE  /\ Meanings' = Meanings /\ Accepted' = Accepted
           /\ Fields' = Fields /\ WordSet' = WordSet
  <1>1. Accepted' = Accepted
    BY DEF Accepted
  <1>2. Meanings' = Meanings
    BY <1>1 DEF Meanings
  <1>3. Fields' = Fields
    BY DEF Fields
  <1>4. WordSet' = WordSet
    BY DEF WordSet
  <1>. QED  BY <1>1, <1>2, <1>3, <1>4

\* A register of a moment of the read is a word of its component.
LEMMA WordsFromMoments ==
    ASSUME part \in Parts, MeantInv, NEW words, DOMAIN words \subseteq Fields,
           FromMoments(words)
    PROVE  \A f \in DOMAIN words : words[f] \in WordSet
  <1>1. ASSUME NEW f \in DOMAIN words PROVE words[f] \in WordSet
    <2>1. PICK m \in moments : words[f] = WordsOf(m)[f]
      BY DEF FromMoments
    <2>2. m \in Meanings
      BY DEF MeantInv
    <2>3. WordsOf(m) \in [Fields -> WordSet]
      BY <2>2, WordsSayIt
    <2>. QED  BY <2>1, <2>3
  <1>. QED  BY <1>1

LEMMA MeansKeepsMeant ==
    ASSUME MeantInv, NEW m \in Meanings, NEW words, Means(m, words),
           sent' \subseteq sent, UNCHANGED <<part, values>>
    PROVE  MeantInv'
  <1>1. meant' = m /\ moments' \subseteq moments \cup {m}
    BY DEF Means
  <1>. QED  BY <1>1, SamePart DEF MeantInv, Unread

LEMMA InitMeant == Init => MeantInv
  BY DEF Init, MeantInv, Meanings

LEMMA NextMeant == IInv /\ MeantInv /\ [Next]_vars => MeantInv'
  <1>. SUFFICES ASSUME IInv, MeantInv, [Next]_vars PROVE MeantInv'
    OBVIOUS
  <1>0. part \in Parts
    BY DEF IInv
  <1>1. CASE InverterMoves
    <2>1. PICK m \in part.means : Means(m, InverterWords(part.name, m))
      BY <1>1 DEF InverterMoves
    <2>2. m \in Meanings
      BY DEF Meanings
    <2>3. sent' = sent /\ UNCHANGED <<part, values>>
      BY <1>1 DEF InverterMoves
    <2>. QED  BY <2>1, <2>2, <2>3, MeansKeepsMeant
  <1>2. ASSUME NEW ask \in part.asks, Send(ask) PROVE MeantInv'
    <2>1. ask \in Accepted /\ sent' = sent \cup {ask}
          /\ UNCHANGED <<part, meant, values, moments>>
      BY <1>2 DEF Send, Accepted
    <2>. QED  BY <2>1, SamePart DEF MeantInv, Unread
  <1>3. ASSUME NEW ask \in part.asks, TakeWrite(ask) PROVE MeantInv'
    <2>1. ask \in Meanings
      BY <1>3 DEF TakeWrite, MeantInv, Meanings
    <2>2. Means(ask, Words(part.name, ask)) /\ sent' \subseteq sent
          /\ UNCHANGED <<part, values>>
      BY <1>3 DEF TakeWrite
    <2>. QED  BY <2>1, <2>2, MeansKeepsMeant
  <1>4. ASSUME NEW ask \in part.asks, LoseWrite(ask) PROVE MeantInv'
    <2>1. sent' \subseteq sent /\ UNCHANGED <<part, meant, values, moments>>
      BY <1>4 DEF LoseWrite
    <2>. QED  BY <2>1, SamePart DEF MeantInv, Unread
  <1>5. CASE BeginRead
    <2>1. moments' = {meant} /\ UNCHANGED <<part, meant, sent, values>>
      BY <1>5 DEF BeginRead
    <2>. QED  BY <2>1, SamePart DEF MeantInv, Unread
  <1>6. CASE RequestAnswered
    <2>1. UNCHANGED <<part, meant, sent, moments>> /\ reading = "reading"
      BY <1>6 DEF RequestAnswered
    <2>2. DOMAIN Brought \subseteq Fields /\ FromMoments(Brought)
      BY <2>1, BroughtFromMoments
    <2>3. \A f \in DOMAIN Brought : Brought[f] \in WordSet
      BY <1>0, <2>2, WordsFromMoments
    <2>4. DOMAIN Brought = Fields => Brought \in [Fields -> WordSet]
      <3>1. Brought = [f \in DOMAIN Brought |-> Brought[f]]
        BY DEF Brought
      <3>. QED  BY <2>3, <3>1
    <2>5. values' = values \/ (values' = Brought /\ DOMAIN Brought = Fields)
      BY <1>6 DEF RequestAnswered
    <2>6. values' = Unread \/ values' \in [Fields -> WordSet]
      BY <2>4, <2>5 DEF MeantInv
    <2>. QED  BY <2>1, <2>6, SamePart DEF MeantInv, Unread
  <1>7. CASE ReadFails
    <2>1. moments' = {} /\ UNCHANGED <<part, meant, sent, values>>
      BY <1>7 DEF ReadFails
    <2>. QED  BY <2>1, SamePart DEF MeantInv, Unread
  <1>8. CASE UNCHANGED vars
    BY <1>8, SamePart DEF vars, MeantInv, Unread
  <1>. QED  BY <1>1, <1>2, <1>3, <1>4, <1>5, <1>6, <1>7, <1>8 DEF Next

LEMMA AlwaysMeant == Spec => []MeantInv
  BY InvIInv, InitMeant, NextMeant, PTL DEF Spec

\* Registers, writes and reads are of the component's shape and range,
\* whatever is written: no word is ever out of a register's.
THEOREM TypeCorrect == Spec => []TypeOK
  <1>1. ASSUME IInv, MeantInv PROVE TypeOK
    <2>1. part \in Parts /\ memory = WordsOf(meant) /\ meant \in Meanings
      BY <1>1 DEF IInv, MeantInv
    <2>2. memory \in [Fields -> WordSet]
      BY <2>1, WordsSayIt
    <2>3. DOMAIN taken \subseteq Fields /\ FromMoments(taken)
      BY <1>1 DEF IInv, ReadSoFar
    <2>4. \A f \in DOMAIN taken : taken[f] \in WordSet
      BY <1>1, <2>1, <2>3, WordsFromMoments
    <2>5. Meanings \subseteq part.means \cup part.asks /\ Accepted \subseteq part.asks
      BY DEF Meanings, Accepted
    <2>6. /\ meant \in part.means \cup part.asks /\ moments \subseteq part.means \cup part.asks
          /\ sent \subseteq part.asks
          /\ values = Unread \/ values \in [Fields -> WordSet]
      BY <1>1, <2>5 DEF MeantInv
    <2>7. reading \in {"idle", "reading", "done"}
      BY <1>1 DEF IInv
    <2>. QED  BY <2>1, <2>2, <2>3, <2>4, <2>6, <2>7 DEF TypeOK
  <1>. QED  BY <1>1, InvIInv, AlwaysMeant, PTL

\* A log, clock or setting that has been read tells what the inverter meant
\* at one moment of the read, through words and back: FaultLog.entries,
\* Identity.rtc and the settings, whoever writes and whatever is logged.
THEOREM ReadsTellOneMoment == Spec => []OneMoment
  <1>1. ASSUME IInv, MeantInv, reading = "done", part.name # "state"
        PROVE  \E m \in moments : Tells(part.name, values, m)
    <2>1. PICK m \in moments : \A f \in Fields : values[f] = WordsOf(m)[f]
      BY <1>1 DEF IInv, ReadAtOnce
    <2>2. part \in Parts /\ m \in Meanings
      BY <1>1 DEF IInv, MeantInv
    <2>3. WordsOf(m) \in [Fields -> WordSet] /\ Tells(part.name, WordsOf(m), m)
      BY <1>1, <2>2, WordsSayIt
    <2>4. values \in [Fields -> WordSet]
      <3>1. DOMAIN values = Fields /\ 1 \in Fields
        BY <1>1, <2>2, PartAssumption DEF IInv, ReadInFull, Fields, FieldsOf, EntriesRead
      <3>2. DOMAIN Unread = {}
        BY DEF Unread
      <3>. QED  BY <1>1, <3>1, <3>2 DEF MeantInv
    <2>5. values = WordsOf(m)
      BY <2>1, <2>3, <2>4
    <2>. QED  BY <2>3, <2>5
  <1>2. IInv /\ MeantInv => OneMoment
    BY <1>1 DEF OneMoment
  <1>. QED  BY <1>2, InvIInv, AlwaysMeant, PTL
=============================================================================
