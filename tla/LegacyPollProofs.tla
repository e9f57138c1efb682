-------------------------- MODULE LegacyPollProofs --------------------------
(***************************************************************************)
(* Proofs about LegacyPoll, for any callers and inverters: without a lock, *)
(* setup comes to one list, and a poll asks once for all it serves.        *)
(*                                                                         *)
(* What carries them is that setup ends in one way only: whoever runs it,  *)
(* and whoever ran it before, the type, the list and the groups it leaves  *)
(* are those of the true type.  So none of them changes once it is there,  *)
(* and a poll may look up a name long after it took it from the list.      *)
(***************************************************************************)
EXTENDS LegacyPoll, FiniteSetTheorems, TLAPS

Served == ServedBy(TrueType)
List == PollList(Served)
Group(p) == IF p \in Pooled(Served) THEN Present(p, Served) ELSE {}

\* Setup has left nothing, or all that is true.
SettlesOnce ==
    /\ type = IF done THEN TrueType ELSE InitialType(device)
    /\ polled = IF done THEN List ELSE NoList
    /\ \A p \in DOMAIN Pools : groups[p] = IF done THEN Group(p) ELSE {}

\* The components an entry of the list stands for.
StandsFor(entry) == IF entry \in DOMAIN Pools THEN Group(entry) ELSE {entry}

\* What has been asked for once all but todo of the list is read.
AskedSoFar(todo) ==
    [c \in Components |->
        IF \E d \in Named(List) \ Named(todo) : c \in StandsFor(List[d])
        THEN 1 ELSE 0]

NoneAsked == [c \in Components |-> 0]

\* A call has read some entries of the list and has the others before it,
\* from the time that setup is done.
Sound(q, settled) ==
    /\ \A c \in Named(q.todo) : settled /\ q.todo[c] = List[c]
    /\ q.pc \in {"polling", "reported"} => settled /\ q.asked = AskedSoFar(q.todo)
    /\ q.pc = "reported" => Named(q.todo) = {}
    /\ q.pc = "probing" => q.asked = NoneAsked /\ Probes(InitialType(device))

ReadsOn == \A c \in Callers : Sound(call[c], done)

IInv == TypeOK /\ SettlesOnce /\ ReadsOn

-----------------------------------------------------------------------------
(***************************************************************************)
(* The serial, and the type known from it.                                 *)
(***************************************************************************)

\* Each prefix stands at one place of the table.
LEMMA PrefixesDiffer ==
    ASSUME NEW i \in 1..15, NEW j \in 1..15, SerialPrefixes[i] = SerialPrefixes[j]
    PROVE  i = j
  <1>1. \/ i = 1 \/ i = 2 \/ i = 3 \/ i = 4 \/ i = 5 \/ i = 6 \/ i = 7 \/ i = 8
        \/ i = 9 \/ i = 10 \/ i = 11 \/ i = 12 \/ i = 13 \/ i = 14 \/ i = 15
    OBVIOUS
  <1>2. \/ j = 1 \/ j = 2 \/ j = 3 \/ j = 4 \/ j = 5 \/ j = 6 \/ j = 7 \/ j = 8
        \/ j = 9 \/ j = 10 \/ j = 11 \/ j = 12 \/ j = 13 \/ j = 14 \/ j = 15
    OBVIOUS
  <1>. QED  BY <1>1, <1>2 DEF SerialPrefixes

LEMMA TypeOfPrefix ==
    ASSUME NEW p \in Range(SerialPrefixes)
    PROVE  PrefixType(p) \subseteq InverterFlags
  <1>1. p \in {"SE1E", "SM1E", "ZE1E", "ZM1E", "SA1", "SA3", "SB1", "ZA3",
                "SC1", "SD1", "SF4", "SH1", "SJ2", "SL1", "SM1"}
    BY DEF Range, SerialPrefixes
  <1>2. {"HYBRID", "X1"} \cup {"PV", "X1"} \cup {"PV", "X3"} \subseteq InverterFlags
    BY DEF InverterFlags, Groups, Phases, Families
  <1>3. p \in {"SE1E", "SM1E", "ZE1E", "ZM1E"} => PrefixType(p) = {"HYBRID", "X1"}
    BY DEF PrefixType
  <1>4. p \in {"SA1", "SA3", "SB1", "ZA3"} => PrefixType(p) = {"PV", "X1"}
    BY DEF PrefixType
  <1>5. p \in {"SC1", "SD1", "SF4", "SH1", "SJ2", "SL1"} => PrefixType(p) = {"PV", "X3"}
    BY DEF PrefixType
  <1>6. p = "SM1" => PrefixType(p) = {"PV"}
    BY DEF PrefixType
  <1>. QED  BY <1>1, <1>2, <1>3, <1>4, <1>5, <1>6

\* The first prefix of the table that a serial starts with is the longest.
LEMMA FirstIsMostSpecific ==
    ASSUME NEW serial \in Serials
    PROVE  Identify(serial) =
             UNION {PrefixType(p) :
                      p \in {q \in serial : ~\E r \in serial : Continues(r, q)}}
  <1>. DEFINE found == {i \in DOMAIN SerialPrefixes : SerialPrefixes[i] \in serial}
              first == CHOOSE i \in found : \A j \in found : i <= j
              specific == {q \in serial : ~\E r \in serial : Continues(r, q)}
  <1>1. Identify(serial) = IF found = {} THEN {} ELSE PrefixType(SerialPrefixes[first])
    BY DEF Identify
  <1>2. DOMAIN SerialPrefixes = 1..15
    BY DEF SerialPrefixes
  <1>3. ASSUME serial = {} PROVE Identify(serial) = UNION {PrefixType(p) : p \in specific}
    BY <1>1, <1>3
  <1>4. ASSUME NEW p, specific = {p}, NEW i \in found, SerialPrefixes[i] = p,
               \A j \in found : i <= j
        PROVE  Identify(serial) = UNION {PrefixType(q) : q \in specific}
    <2>1. first \in found /\ first <= i /\ i <= first
      BY <1>4
    <2>2. first = i
      <3>1. first \in 1..15 /\ i \in 1..15
        BY <1>2, <2>1
      <3>. HIDE DEF found, first
      <3>. QED  BY <2>1, <3>1
    <2>3. Identify(serial) = PrefixType(p)
      BY <1>1, <1>4, <2>2
    <2>4. UNION {PrefixType(q) : q \in {p}} = PrefixType(p)
      OBVIOUS
    <2>. HIDE DEF specific
    <2>. QED  BY <1>4, <2>3, <2>4
  <1>5. ASSUME serial = {"SM1E", "SM1"}
        PROVE  Identify(serial) = UNION {PrefixType(p) : p \in specific}
    <2>1. specific = {"SM1E"}
      BY <1>5 DEF Continues
    <2>2. SerialPrefixes[2] = "SM1E" /\ SerialPrefixes[1] \notin serial
      BY <1>5 DEF SerialPrefixes
    <2>3. 2 \in found /\ \A j \in found : 2 <= j
      <3>1. 2 \in found
        BY <1>2, <1>5, <2>2
      <3>2. ASSUME NEW j \in found PROVE 2 <= j
        BY <1>2, <2>2
      <3>. QED  BY <3>1, <3>2
    <2>. HIDE DEF specific, found, first
    <2>. QED  BY <1>4, <2>1, <2>2, <2>3
  <1>6. ASSUME NEW p \in Range(SerialPrefixes), p # "SM1E", serial = {p}
        PROVE  Identify(serial) = UNION {PrefixType(q) : q \in specific}
    <2>1. specific = {p}
      BY <1>6 DEF Continues
    <2>2. PICK i \in 1..15 : SerialPrefixes[i] = p
      BY <1>2 DEF Range
    <2>3. i \in found /\ \A j \in found : i <= j
      <3>1. i \in found
        BY <1>2, <1>6, <2>2
      <3>2. ASSUME NEW j \in found PROVE j = i
        BY <1>2, <1>6, <2>2, PrefixesDiffer
      <3>. QED  BY <3>1, <3>2
    <2>. HIDE DEF specific, found, first
    <2>. QED  BY <1>4, <2>1, <2>2, <2>3
  <1>. QED  BY <1>3, <1>5, <1>6 DEF Serials

\* What setup starts from is what is known of the device.
LEMMA StartsFromKnown ==
    ASSUME NEW d \in Devices
    PROVE  /\ InitialType(d) = KnownType(d)
           /\ InitialType(d) \subseteq InverterFlags
  <1>1. d.serial \in Serials /\ d.given \subseteq InverterFlags
    BY LegacyAssumption
  <1>2. InitialType(d) = KnownType(d)
    BY <1>1, FirstIsMostSpecific DEF InitialType, KnownType
  <1>3. \A p \in d.serial : p \in Range(SerialPrefixes)
    BY <1>1 DEF Serials, Range, SerialPrefixes
  <1>4. KnownType(d) \subseteq InverterFlags
    BY <1>1, <1>3, TypeOfPrefix DEF KnownType
  <1>. QED  BY <1>2, <1>4

-----------------------------------------------------------------------------
(***************************************************************************)
(* The order of the components, and the list built along it.               *)
(***************************************************************************)
Nine == {"pv_common", "pv_single_phase", "pv_three_phase", "storage",
         "storage_three_phase", "storage_eps", "hybrid_pv_1", "hybrid_pv_2",
         "battery_settings"}

LEMMA TheComponents == Components = Nine
  <1>1. DOMAIN COMPONENTS = 1..9
    BY DEF COMPONENTS
  <1>2. Range(COMPONENTS) \subseteq Nine
    BY <1>1 DEF Range, COMPONENTS, Nine
  <1>3. /\ COMPONENTS[1] = "pv_common" /\ COMPONENTS[2] = "pv_single_phase"
        /\ COMPONENTS[3] = "pv_three_phase" /\ COMPONENTS[4] = "storage"
        /\ COMPONENTS[5] = "storage_three_phase" /\ COMPONENTS[6] = "storage_eps"
        /\ COMPONENTS[7] = "hybrid_pv_1" /\ COMPONENTS[8] = "hybrid_pv_2"
        /\ COMPONENTS[9] = "battery_settings"
    BY DEF COMPONENTS
  <1>4. \A i \in 1..9 : COMPONENTS[i] \in Range(COMPONENTS)
    BY <1>1 DEF Range
  <1>5. Nine \subseteq Range(COMPONENTS)
    BY <1>3, <1>4 DEF Nine
  <1>. QED  BY <1>2, <1>5 DEF Components

\* Each component stands at one place.
LEMMA PlacesDiffer ==
    ASSUME NEW i \in 1..9, NEW j \in 1..9, COMPONENTS[i] = COMPONENTS[j]
    PROVE  i = j
  <1>1. \/ i = 1 \/ i = 2 \/ i = 3 \/ i = 4 \/ i = 5 \/ i = 6 \/ i = 7 \/ i = 8 \/ i = 9
    OBVIOUS
  <1>2. \/ j = 1 \/ j = 2 \/ j = 3 \/ j = 4 \/ j = 5 \/ j = 6 \/ j = 7 \/ j = 8 \/ j = 9
    OBVIOUS
  <1>. QED  BY <1>1, <1>2 DEF COMPONENTS

\* Setup goes through them one after the other.
LEMMA OneOrder ==
    /\ \A c, d \in Components : Before(c, d) => ~Before(d, c)
    /\ \A c, d \in Components : c # d => Before(c, d) \/ Before(d, c)
  <1>1. DOMAIN COMPONENTS = 1..9
    BY DEF COMPONENTS
  <1>2. ASSUME NEW c \in Components, NEW d \in Components, Before(c, d), Before(d, c)
        PROVE  FALSE
    <2>1. PICK i, j \in 1..9 : COMPONENTS[i] = c /\ COMPONENTS[j] = d /\ i < j
      BY <1>1, <1>2 DEF Before
    <2>2. PICK k, l \in 1..9 : COMPONENTS[k] = d /\ COMPONENTS[l] = c /\ k < l
      BY <1>1, <1>2 DEF Before
    <2>3. i = l /\ j = k
      BY <2>1, <2>2, PlacesDiffer
    <2>. QED  BY <2>1, <2>2, <2>3
  <1>3. ASSUME NEW c \in Components, NEW d \in Components, c # d
        PROVE  Before(c, d) \/ Before(d, c)
    <2>1. PICK i \in 1..9 : COMPONENTS[i] = c
      BY <1>1 DEF Components, Range
    <2>2. PICK j \in 1..9 : COMPONENTS[j] = d
      BY <1>1 DEF Components, Range
    <2>3. i < j \/ j < i
      BY <1>3, <2>1, <2>2
    <2>. QED  BY <1>1, <2>1, <2>2, <2>3 DEF Before
  <1>. QED  BY <1>2, <1>3

LEMMA SomeFirst ==
    ASSUME NEW D, D \subseteq Components, D # {}
    PROVE  \E c \in D : ~\E d \in D : Before(d, c)
  <1>. DEFINE places == {i \in 1..9 : COMPONENTS[i] \in D}
  <1>1. DOMAIN COMPONENTS = 1..9
    BY DEF COMPONENTS
  <1>2. PICK i \in places : TRUE
    BY <1>1 DEF Components, Range
  <1>3. PICK k \in places : \A j \in places : k <= j
    <2>1. SUFFICES ASSUME \A k \in places : \E j \in places : j < k
                   PROVE  FALSE
      OBVIOUS
    <2>2. places \subseteq 1..9
      OBVIOUS
    <2>. HIDE DEF places
    <2>3. 1 \notin places
      BY <2>1, <2>2
    <2>4. 2 \notin places
      BY <2>1, <2>2, <2>3
    <2>5. 3 \notin places
      BY <2>1, <2>2, <2>3, <2>4
    <2>6. 4 \notin places
      BY <2>1, <2>2, <2>3, <2>4, <2>5
    <2>7. 5 \notin places
      BY <2>1, <2>2, <2>3, <2>4, <2>5, <2>6
    <2>8. 6 \notin places
      BY <2>1, <2>2, <2>3, <2>4, <2>5, <2>6, <2>7
    <2>9. 7 \notin places
      BY <2>1, <2>2, <2>3, <2>4, <2>5, <2>6, <2>7, <2>8
    <2>10. 8 \notin places
      BY <2>1, <2>2, <2>3, <2>4, <2>5, <2>6, <2>7, <2>8, <2>9
    <2>11. 9 \notin places
      BY <2>1, <2>2, <2>3, <2>4, <2>5, <2>6, <2>7, <2>8, <2>9, <2>10
    <2>. QED  BY <1>2, <2>2, <2>3, <2>4, <2>5, <2>6, <2>7, <2>8, <2>9, <2>10, <2>11
  <1>4. ASSUME NEW d \in D, Before(d, COMPONENTS[k]) PROVE FALSE
    <2>1. PICK l, j \in 1..9 : COMPONENTS[l] = d /\ COMPONENTS[j] = COMPONENTS[k] /\ l < j
      BY <1>1, <1>4 DEF Before
    <2>2. j = k
      BY <2>1, PlacesDiffer
    <2>3. l \in places
      BY <2>1
    <2>. QED  BY <1>3, <2>1, <2>2, <2>3
  <1>. QED  BY <1>3, <1>4

\* What a pool stands for: its members that are served, two or more of them.
LEMMA ThePools ==
    /\ DOMAIN Pools = {"storage_block", "pv_block"}
    /\ DOMAIN Pools \cap Components = {}
    /\ \A p \in DOMAIN Pools : Pools[p] \subseteq Components
    /\ \A p, q \in DOMAIN Pools : Pools[p] \cap Pools[q] # {} => p = q
    /\ None \notin Entries
  <1>1. DOMAIN Pools = {"storage_block", "pv_block"}
    BY DEF Pools
  <1>2. Pools["storage_block"] = {"storage", "storage_three_phase", "storage_eps"}
    BY DEF Pools
  <1>3. Pools["pv_block"] = {"pv_common", "pv_three_phase"}
    BY DEF Pools
  <1>4. Components \cap {"storage_block", "pv_block", "nothing"} = {}
    BY TheComponents DEF Nine
  <1>5. \A p \in DOMAIN Pools : Pools[p] \subseteq Components
    BY <1>1, <1>2, <1>3, TheComponents DEF Nine
  <1>6. ASSUME NEW p \in DOMAIN Pools, NEW q \in DOMAIN Pools, Pools[p] \cap Pools[q] # {}
        PROVE  p = q
    BY <1>1, <1>2, <1>3, <1>6
  <1>. QED  BY <1>1, <1>4, <1>5, <1>6 DEF None, Entries

LEMMA PooledHasMembers ==
    ASSUME NEW served, NEW p \in Pooled(served)
    PROVE  p \in DOMAIN Pools /\ Present(p, served) # {}
  <1>1. p \in DOMAIN Pools /\ Cardinality(Present(p, served)) >= 2
    BY DEF Pooled
  <1>2. Cardinality({}) = 0
    BY FS_EmptySet
  <1>. QED  BY <1>1, <1>2

LEMMA ServedAreComponents ==
    ASSUME NEW t
    PROVE  ServedBy(t) \subseteq Components
  BY DEF ServedBy

\* A served component stands behind one entry, that of its pool or its own.
LEMMA EntryStandsForMembers ==
    ASSUME NEW d \in Served
    PROVE  /\ Entry(d, Served) \in Entries
           /\ d \in StandsFor(Entry(d, Served))
           /\ StandsFor(Entry(d, Served)) \subseteq Served
           /\ \A c \in StandsFor(Entry(d, Served)) : Entry(c, Served) = Entry(d, Served)
  <1>1. d \in Components
    BY ServedAreComponents DEF Served
  <1>2. ASSUME NEW p \in Pooled(Served), d \in Pools[p]
        PROVE  /\ Entry(d, Served) = p
               /\ \A c \in Pools[p] : Entry(c, Served) = p
               /\ StandsFor(p) = Pools[p] \cap Served
    <2>1. p \in DOMAIN Pools
      BY PooledHasMembers
    <2>2. ASSUME NEW c \in Pools[p] PROVE Entry(c, Served) = p
      <3>1. \A q \in Pooled(Served) : c \in Pools[q] => q = p
        BY <2>1, <2>2, ThePools, PooledHasMembers
      <3>. QED  BY <2>2, <3>1 DEF Entry
    <2>3. StandsFor(p) = Pools[p] \cap Served
      BY <2>1 DEF StandsFor, Group, Present
    <2>. QED  BY <1>2, <2>2, <2>3
  <1>3. ASSUME ~\E p \in Pooled(Served) : d \in Pools[p]
        PROVE  Entry(d, Served) = d /\ StandsFor(d) = {d}
    BY <1>1, <1>3, ThePools DEF Entry, StandsFor
  <1>4. CASE \E p \in Pooled(Served) : d \in Pools[p]
    <2>1. PICK p \in Pooled(Served) : d \in Pools[p]
      BY <1>4
    <2>. QED  BY <1>2, <2>1, PooledHasMembers DEF Entries
  <1>5. CASE ~\E p \in Pooled(Served) : d \in Pools[p]
    BY <1>1, <1>3, <1>5 DEF Entries
  <1>. QED  BY <1>4, <1>5

LEMMA Listed ==
    /\ List \in Lists
    /\ \A d \in Named(List) : d \in Served /\ List[d] = Entry(d, Served)
    /\ \A d, e \in Named(List) : List[d] = List[e] => d = e
  <1>. DEFINE first(c) == c \in Served /\ ~\E d \in Served :
                            Before(d, c) /\ Entry(d, Served) = Entry(c, Served)
  <1>1. List = [c \in Components |-> IF first(c) THEN Entry(c, Served) ELSE None]
    BY DEF List, PollList
  <1>2. \A c \in Components : first(c) => Entry(c, Served) \in Entries
    BY EntryStandsForMembers
  <1>3. List \in Lists
    BY <1>1, <1>2 DEF Lists
  <1>4. \A d \in Named(List) : d \in Components /\ first(d) /\ List[d] = Entry(d, Served)
    BY <1>1 DEF Named
  <1>5. ASSUME NEW d \in Named(List), NEW e \in Named(List), List[d] = List[e], d # e
        PROVE  FALSE
    <2>1. Before(d, e) \/ Before(e, d)
      BY <1>4, <1>5, OneOrder
    <2>. QED  BY <1>4, <1>5, <2>1
  <1>. QED  BY <1>3, <1>4, <1>5

\* The list stands for every component that is served, and for each once.
LEMMA ListCoversServedOnce ==
    /\ \A d \in Named(List) : StandsFor(List[d]) # {} /\ StandsFor(List[d]) \subseteq Served
    /\ \A d, e \in Named(List) :
          StandsFor(List[d]) \cap StandsFor(List[e]) # {} => d = e
    /\ \A c \in Served : \E d \in Named(List) : c \in StandsFor(List[d])
  <1>1. ASSUME NEW d \in Named(List)
        PROVE  StandsFor(List[d]) # {} /\ StandsFor(List[d]) \subseteq Served
    BY Listed, EntryStandsForMembers
  <1>2. ASSUME NEW d \in Named(List), NEW e \in Named(List),
               NEW c \in StandsFor(List[d]), c \in StandsFor(List[e])
        PROVE  d = e
    <2>1. Entry(c, Served) = List[d] /\ Entry(c, Served) = List[e]
      BY <1>2, Listed, EntryStandsForMembers
    <2>. QED  BY <2>1, Listed
  <1>3. ASSUME NEW c \in Served
        PROVE  \E d \in Named(List) : c \in StandsFor(List[d])
    <2>. DEFINE D == {d \in Served : Entry(d, Served) = Entry(c, Served)}
    <2>1. D \subseteq Components /\ D # {}
      BY ServedAreComponents DEF Served
    <2>2. PICK d \in D : ~\E e \in D : Before(e, d)
      BY <2>1, SomeFirst
    <2>3. List[d] = Entry(c, Served)
      BY <2>1, <2>2 DEF List, PollList
    <2>4. Entry(c, Served) # None
      BY EntryStandsForMembers, ThePools
    <2>5. d \in Named(List)
      BY <2>1, <2>2, <2>3, <2>4 DEF Named
    <2>. QED  BY <2>3, <2>5, EntryStandsForMembers
  <1>. QED  BY <1>1, <1>2, <1>3

-----------------------------------------------------------------------------
(***************************************************************************)
(* The steps.                                                              *)
(***************************************************************************)

\* The inverter stays the same, and with it all that is true of it.
LEMMA SameDevice ==
    ASSUME device' = device
    PROVE  /\ TrueType' = TrueType
           /\ List' = List
           /\ \A p : Group(p)' = Group(p)
           /\ \A q, settled : Sound(q, settled)' <=> Sound(q, settled)
  <1>1. TrueType' = TrueType
    BY DEF TrueType, KnownType
  <1>2. Served' = Served
    BY <1>1 DEF Served
  <1>3. List' = List
    BY <1>2 DEF List
  <1>4. \A p : Group(p)' = Group(p)
    BY <1>2 DEF Group
  <1>5. \A e : StandsFor(e)' = StandsFor(e)
    BY <1>4 DEF StandsFor
  <1>6. \A todo : AskedSoFar(todo)' = AskedSoFar(todo)
    BY <1>3, <1>5 DEF AskedSoFar
  <1>7. InitialType(device)' = InitialType(device)
    OBVIOUS
  <1>8. \A q, settled : Sound(q, settled)' <=> Sound(q, settled)
    BY <1>3, <1>6, <1>7 DEF Sound
  <1>. QED  BY <1>1, <1>3, <1>4, <1>8

LEMMA TrueTypeTyped ==
    ASSUME device \in Devices
    PROVE  /\ TrueType \subseteq InverterFlags
           /\ TrueType = IF device.eps /\ Probes(InitialType(device))
                         THEN InitialType(device) \cup {"EPS"} ELSE InitialType(device)
  BY StartsFromKnown DEF TrueType, InverterFlags, Groups

\* While one call moves on, the others stay where they were.
LEMMA OneCallMoves ==
    ASSUME IInv, UNCHANGED device, done => done', NEW c \in Callers, NEW q \in Calls,
           Sound(q, done'), Resume(c, q)
    PROVE  call' \in [Callers -> Calls] /\ ReadsOn'
  <1>1. call' = [call EXCEPT ![c] = q] /\ call \in [Callers -> Calls]
    BY DEF IInv, TypeOK, Resume
  <1>2. ASSUME NEW d \in Callers PROVE Sound(call'[d], done')
    <2>1. CASE d = c
      BY <1>1, <2>1
    <2>2. CASE d # c
      <3>1. call'[d] = call[d] /\ Sound(call[d], done)
        BY <1>1, <2>2 DEF IInv, ReadsOn
      <3>. QED  BY <3>1 DEF Sound
    <2>. QED  BY <2>1, <2>2
  <1>3. \A d \in Callers : Sound(call[d], done)'
    BY <1>2, SameDevice
  <1>. QED  BY <1>1, <1>3 DEF ReadsOn

\* Behind setup a call has the whole list before it, or nothing more to do.
LEMMA ReadingStarts ==
    ASSUME NEW c \in Callers, NEW q \in Calls, q.asked = NoneAsked,
           device \in Devices, StartReading(c, q, List)
    PROVE  \E r \in Calls : Sound(r, TRUE) /\ Resume(c, r)
  <1>. DEFINE pc == CASE q.kind = "dump" -> "dumped"
                      [] q.kind = "poll" /\ List = NoList -> "reported"
                      [] OTHER -> "polling"
              todo == IF q.kind = "dump" THEN NoList ELSE List
              r == [q EXCEPT !.pc = pc, !.todo = todo]
  <1>1. Resume(c, r)
    BY DEF StartReading
  <1>2. q.kind = "dump" \/ q.kind = "poll"
    BY DEF Calls
  <1>3. NoList \in Lists /\ Named(NoList) = {}
    BY DEF NoList, Named, Lists
  <1>4. pc \in {"dumped", "reported", "polling"} /\ todo \in Lists
    BY <1>2, <1>3, Listed
  <1>5. /\ pc \in {"reported", "polling"} => todo = List
        /\ pc = "reported" => todo = NoList
        /\ todo # List => todo = NoList
    BY <1>2
  <1>6. r \in Calls /\ r.pc = pc /\ r.todo = todo /\ r.asked = NoneAsked
    <2>. DEFINE onPc == [q EXCEPT !.pc = pc]
    <2>. HIDE DEF pc, todo
    <2>1. onPc \in Calls /\ onPc.pc = pc /\ onPc.asked = NoneAsked
      BY <1>4 DEF Calls, Running
    <2>2. r = [onPc EXCEPT !.todo = todo]
      OBVIOUS
    <2>. HIDE DEF onPc, r
    <2>3. r \in Calls
      BY <1>4, <2>1, <2>2 DEF Calls
    <2>4. r.pc = pc /\ r.todo = todo /\ r.asked = NoneAsked
      BY <2>1, <2>2 DEF Calls
    <2>. QED  BY <2>3, <2>4
  <1>7. AskedSoFar(List) = NoneAsked
    BY DEF AskedSoFar, NoneAsked
  <1>8. Sound(r, TRUE)
    <2>. HIDE DEF r, pc, todo
    <2>. QED  BY <1>3, <1>4, <1>5, <1>6, <1>7 DEF Sound, Named
  <1>. HIDE DEF r
  <1>. QED  BY <1>1, <1>6, <1>8

\* A run of setup that ends with the true type leaves what any run leaves.
LEMMA SetupSettles ==
    ASSUME IInv, UNCHANGED device, NEW c \in Callers, NEW q \in Calls,
           q.asked = NoneAsked, EndSetup(c, q, TrueType)
    PROVE  IInv'
  <1>1. /\ type' = TrueType /\ polled' = List /\ done' = TRUE
        /\ groups' = [p \in DOMAIN Pools |->
                IF p \in Pooled(Served) THEN Present(p, Served) ELSE groups[p]]
        /\ StartReading(c, q, List)
    BY DEF EndSetup, Served, List
  <1>2. device \in Devices /\ TypeOK /\ SettlesOnce
    BY DEF IInv, TypeOK
  <1>3. \A p \in DOMAIN Pools : groups'[p] = Group(p)
    BY <1>1, <1>2 DEF SettlesOnce, Group
  <1>4. SettlesOnce'
    BY <1>1, <1>3, SameDevice DEF SettlesOnce
  <1>5. PICK r \in Calls : Sound(r, TRUE) /\ Resume(c, r)
    BY <1>1, <1>2, ReadingStarts
  <1>6. call' \in [Callers -> Calls] /\ ReadsOn'
    BY <1>1, <1>5, OneCallMoves
  <1>7. \A p \in DOMAIN Pools :
            groups'[p] \subseteq Pools[p] /\ (groups'[p] = {} \/ Cardinality(groups'[p]) >= 2)
    BY <1>3 DEF Group, Pooled, Present
  <1>8. TypeOK'
    BY <1>1, <1>2, <1>6, <1>7, TrueTypeTyped, Listed DEF TypeOK
  <1>. QED  BY <1>4, <1>6, <1>8 DEF IInv

\* A step that leaves what setup found alone moves one call.
LEMMA SetupStays ==
    ASSUME IInv, UNCHANGED <<device, type, groups, polled, done>>, NEW c \in Callers,
           NEW q \in Calls, Sound(q, done), Resume(c, q)
    PROVE  IInv'
  <1>1. call' \in [Callers -> Calls] /\ ReadsOn'
    BY OneCallMoves
  <1>2. TypeOK'
    BY <1>1 DEF IInv, TypeOK
  <1>3. SettlesOnce'
    BY SameDevice DEF IInv, SettlesOnce
  <1>. QED  BY <1>1, <1>2, <1>3 DEF IInv

LEMMA FreshCall ==
    ASSUME NEW kind \in {"poll", "dump"}
    PROVE  /\ NewCall(kind) \in Calls
           /\ NewCall(kind).asked = NoneAsked
           /\ NewCall(kind).todo = NoList
           /\ Named(NoList) = {}
  <1>1. NoList \in Lists /\ Named(NoList) = {}
    BY DEF NoList, Named, Lists
  <1>2. NoneAsked \in [Components -> Nat]
    BY DEF NoneAsked
  <1>3. NewCall(kind).asked = NoneAsked /\ NewCall(kind).todo = NoList
    BY DEF NewCall, NoneAsked
  <1>4. NewCall(kind) \in Calls
    <2>1. NewCall(kind) = [pc |-> "idle", kind |-> kind, todo |-> NoList, updated |-> {},
                           failed |-> {}, asked |-> NoneAsked]
      BY DEF NewCall, NoneAsked
    <2>. QED  BY <1>1, <1>2, <2>1 DEF Calls
  <1>. QED  BY <1>1, <1>3, <1>4

\* A read that has ended counts once for each member of its entry.
LEMMA ReadCounts ==
    ASSUME IInv, UNCHANGED <<device, type, groups, polled, done>>, NEW c \in Callers,
           NEW q \in Calls, Sound(q, done), q.pc = "polling", NEW k \in Named(q.todo),
           Advance(c, q, k)
    PROVE  IInv'
  <1>. DEFINE todo == [q.todo EXCEPT ![k] = None]
              asked == [d \in Components |->
                    IF d \in Members(q.todo[k]) THEN q.asked[d] + 1 ELSE q.asked[d]]
              pc == IF Named(q.todo) = {k} THEN "reported" ELSE q.pc
              r == [q EXCEPT !.todo = todo, !.asked = asked, !.pc = pc]
  <1>1. Resume(c, r)
    BY DEF Advance
  <1>2. /\ q.todo \in Lists /\ q.asked \in [Components -> Nat]
        /\ done /\ q.asked = AskedSoFar(q.todo)
        /\ \A d \in Named(q.todo) : q.todo[d] = List[d]
    BY DEF Sound, Calls
  <1>3. /\ todo \in Lists
        /\ Named(todo) = Named(q.todo) \ {k}
        /\ \A d \in Named(todo) : todo[d] = List[d]
    BY <1>2 DEF Named, Lists
  <1>4. Members(q.todo[k]) = StandsFor(List[k])
    BY <1>2 DEF IInv, SettlesOnce, Members, StandsFor
  <1>5. asked \in [Components -> Nat]
    BY <1>2
  <1>6. Named(q.todo) \subseteq Named(List)
    BY <1>2 DEF Named
  <1>7. asked = AskedSoFar(todo)
    <2>1. ASSUME NEW d \in Components PROVE asked[d] = AskedSoFar(todo)[d]
      <3>1. CASE d \in StandsFor(List[k])
        <4>1. \A e \in Named(List) : d \in StandsFor(List[e]) => e = k
          BY <1>6, <3>1, ListCoversServedOnce
        <4>2. q.asked[d] = 0
          BY <1>2, <4>1 DEF AskedSoFar
        <4>3. AskedSoFar(todo)[d] = 1
          BY <1>3, <1>6, <3>1 DEF AskedSoFar
        <4>. QED  BY <1>4, <3>1, <4>2, <4>3
      <3>2. CASE d \notin StandsFor(List[k])
        <4>1. AskedSoFar(todo)[d] = AskedSoFar(q.todo)[d]
          BY <1>3, <3>2 DEF AskedSoFar
        <4>. QED  BY <1>2, <1>4, <3>2, <4>1
      <3>. QED  BY <3>1, <3>2
    <2>2. AskedSoFar(todo) = [d \in Components |-> AskedSoFar(todo)[d]]
      BY DEF AskedSoFar
    <2>. HIDE DEF asked
    <2>3. asked = [d \in Components |-> asked[d]]
      BY <1>5
    <2>. QED  BY <2>1, <2>2, <2>3
  <1>8. r \in Calls /\ r.todo = todo /\ r.asked = asked /\ r.pc = pc
    <2>. HIDE DEF todo, asked
    <2>1. pc \in {"reported", "polling"}
      OBVIOUS
    <2>. HIDE DEF pc
    <2>. DEFINE onTodo == [q EXCEPT !.todo = todo]
                onAsked == [onTodo EXCEPT !.asked = asked]
    <2>2. onTodo \in Calls /\ onTodo.todo = todo
      BY <1>3 DEF Calls
    <2>. HIDE DEF onTodo
    <2>3. onAsked \in Calls /\ onAsked.todo = todo /\ onAsked.asked = asked
      BY <1>5, <2>2 DEF Calls
    <2>4. r = [onAsked EXCEPT !.pc = pc]
      BY DEF onTodo
    <2>. HIDE DEF onAsked, r
    <2>. QED  BY <2>1, <2>3, <2>4 DEF Calls, Running
  <1>9. pc = "reported" => Named(todo) = {}
    BY <1>3
  <1>10. pc \in {"reported", "polling"}
    OBVIOUS
  <1>11. Sound(r, done)
    <2>. HIDE DEF r, pc, todo, asked
    <2>. QED  BY <1>2, <1>3, <1>7, <1>8, <1>9, <1>10 DEF Sound
  <1>. HIDE DEF r
  <1>. QED  BY <1>1, <1>8, <1>11, SetupStays

\* A caller begins: behind setup, before a probe, or through it at once.
LEMMA BeginKeeps ==
    ASSUME IInv, UNCHANGED device, NEW c \in Callers, NEW kind \in {"poll", "dump"},
           Begin(c, kind)
    PROVE  IInv'
  <1>1. NewCall(kind) \in Calls /\ NewCall(kind).asked = NoneAsked
    BY FreshCall
  <1>2. device \in Devices /\ SettlesOnce
    BY DEF IInv, TypeOK
  <1>3. CASE done /\ StartReading(c, NewCall(kind), polled)
               /\ UNCHANGED <<type, groups, polled, done>>
    <2>1. StartReading(c, NewCall(kind), List)
      BY <1>2, <1>3 DEF SettlesOnce
    <2>2. PICK r \in Calls : Sound(r, TRUE) /\ Resume(c, r)
      BY <1>1, <1>2, <2>1, ReadingStarts
    <2>3. Sound(r, done)
      BY <1>3, <2>2 DEF Sound
    <2>. QED  BY <1>3, <2>2, <2>3, SetupStays
  <1>4. CASE ~done /\ Probes(type) /\ Resume(c, [NewCall(kind) EXCEPT !.pc = "probing"])
               /\ UNCHANGED <<type, groups, polled, done>>
    <2>. DEFINE q == NewCall(kind)
                r == [q EXCEPT !.pc = "probing"]
    <2>1. q.todo = NoList /\ Named(NoList) = {}
      BY FreshCall
    <2>2. q \in Calls /\ q.asked = NoneAsked
      BY <1>1
    <2>. HIDE DEF q
    <2>3. r \in Calls /\ r.pc = "probing" /\ r.asked = NoneAsked /\ r.todo = NoList
      BY <2>1, <2>2 DEF Calls, Running
    <2>4. Probes(InitialType(device))
      BY <1>2, <1>4 DEF SettlesOnce
    <2>5. Resume(c, r)
      BY <1>4 DEF q
    <2>. HIDE DEF r
    <2>6. Sound(r, done)
      BY <2>1, <2>3, <2>4 DEF Sound
    <2>. QED  BY <1>4, <2>3, <2>5, <2>6, SetupStays
  <1>5. CASE ~done /\ ~Probes(type) /\ EndSetup(c, NewCall(kind), type)
    <2>1. type = TrueType
      BY <1>2, <1>5, TrueTypeTyped DEF SettlesOnce
    <2>. QED  BY <1>1, <1>5, <2>1, SetupSettles
  <1>. QED  BY <1>3, <1>4, <1>5 DEF Begin

\* A probe that is answered or refused tells the true type, whatever another
\* caller's probe has made of it in between.
LEMMA ProbeKeeps ==
    ASSUME IInv, UNCHANGED device, NEW c \in Callers, ProbeAnswered(c) \/ ProbeRefused(c)
    PROVE  IInv'
  <1>1. device \in Devices /\ SettlesOnce /\ call[c] \in Calls /\ Sound(call[c], done)
    BY DEF IInv, TypeOK, ReadsOn
  <1>2. call[c].pc = "probing"
    BY DEF ProbeAnswered, ProbeRefused
  <1>3. call[c].asked = NoneAsked /\ Probes(InitialType(device))
    BY <1>1, <1>2 DEF Sound
  <1>4. CASE ProbeAnswered(c)
    <2>1. type \cup {"EPS"} = TrueType
      BY <1>1, <1>3, <1>4, TrueTypeTyped DEF SettlesOnce, ProbeAnswered
    <2>2. EndSetup(c, call[c], TrueType)
      BY <1>4, <2>1 DEF ProbeAnswered
    <2>. QED  BY <1>1, <1>3, <2>2, SetupSettles
  <1>5. CASE ProbeRefused(c)
    <2>1. type = TrueType
      BY <1>1, <1>5, TrueTypeTyped DEF SettlesOnce, ProbeRefused
    <2>2. EndSetup(c, call[c], TrueType)
      BY <1>5, <2>1 DEF ProbeRefused
    <2>. QED  BY <1>1, <1>3, <2>2, SetupSettles
  <1>. QED  BY <1>4, <1>5

\* An entry read or failed is the next of what the call has before it.
LEMMA EntryKeeps ==
    ASSUME IInv, UNCHANGED device, NEW c \in Callers, EntryAnswered(c) \/ EntryFailed(c)
    PROVE  IInv'
  <1>1. call[c] \in Calls /\ Sound(call[c], done) /\ call[c].pc = "polling"
    BY DEF IInv, TypeOK, ReadsOn, EntryAnswered, EntryFailed
  <1>2. UNCHANGED <<device, type, groups, polled, done>>
    BY DEF EntryAnswered, EntryFailed
  <1>3. \A k \in Named(call[c].todo) : call[c].todo[k] \in Entries
    BY <1>1 DEF Named, Calls, Lists
  <1>4. CASE EntryAnswered(c)
    <2>1. PICK k \in Components :
            /\ k \in Named(call[c].todo)
            /\ Advance(c, [call[c] EXCEPT !.updated = @ \cup {call[c].todo[k]}], k)
      BY <1>4 DEF EntryAnswered, InTurn
    <2>. DEFINE q == [call[c] EXCEPT !.updated = @ \cup {call[c].todo[k]}]
    <2>2. q \in Calls /\ q.pc = call[c].pc /\ q.todo = call[c].todo /\ q.asked = call[c].asked
      BY <1>1, <1>3, <2>1 DEF Calls
    <2>3. Advance(c, q, k)
      BY <2>1
    <2>. HIDE DEF q
    <2>4. Sound(q, done)
      BY <1>1, <2>2 DEF Sound
    <2>. QED  BY <1>1, <1>2, <2>1, <2>2, <2>3, <2>4, ReadCounts
  <1>5. CASE EntryFailed(c)
    <2>1. PICK k \in Components :
            /\ k \in Named(call[c].todo)
            /\ Advance(c, [call[c] EXCEPT !.failed = @ \cup {call[c].todo[k]}], k)
      BY <1>5 DEF EntryFailed, InTurn
    <2>. DEFINE q == [call[c] EXCEPT !.failed = @ \cup {call[c].todo[k]}]
    <2>2. q \in Calls /\ q.pc = call[c].pc /\ q.todo = call[c].todo /\ q.asked = call[c].asked
      BY <1>1, <1>3, <2>1 DEF Calls
    <2>3. Advance(c, q, k)
      BY <2>1
    <2>. HIDE DEF q
    <2>4. Sound(q, done)
      BY <1>1, <2>2 DEF Sound
    <2>. QED  BY <1>1, <1>2, <2>1, <2>2, <2>3, <2>4, ReadCounts
  <1>. QED  BY <1>4, <1>5

\* A call that ends early leaves all as it is for the others.
LEMMA EarlyEndKeeps ==
    ASSUME IInv, UNCHANGED device, NEW c \in Callers,
           ProbeFailed(c) \/ Cancel(c) \/ \E lost \in BOOLEAN : DeadLink(c, lost)
    PROVE  IInv'
  <1>1. call[c] \in Calls /\ Sound(call[c], done)
    BY DEF IInv, TypeOK, ReadsOn
  <1>2. PICK pc \in {"raised", "cancelled"} : Resume(c, [call[c] EXCEPT !.pc = pc])
    BY DEF ProbeFailed, Cancel, DeadLink, Raise
  <1>3. UNCHANGED <<device, type, groups, polled, done>>
    BY DEF ProbeFailed, Cancel, DeadLink
  <1>. DEFINE q == [call[c] EXCEPT !.pc = pc]
  <1>4. q \in Calls /\ q.pc = pc /\ q.todo = call[c].todo
    BY <1>1 DEF Calls, Running
  <1>5. Resume(c, q)
    BY <1>2
  <1>. HIDE DEF q
  <1>6. Sound(q, done)
    BY <1>1, <1>4 DEF Sound
  <1>. QED  BY <1>1, <1>3, <1>4, <1>5, <1>6, SetupStays

LEMMA StartsSound == Init => IInv
  <1>. SUFFICES ASSUME Init PROVE IInv
    OBVIOUS
  <1>. DEFINE q == NewCall("poll")
  <1>1. q \in Calls /\ q.todo = NoList /\ Named(NoList) = {}
    BY FreshCall
  <1>2. q.pc = "idle"
    BY DEF NewCall
  <1>3. call = [c \in Callers |-> q]
    BY DEF Init
  <1>. HIDE DEF q
  <1>4. Sound(q, done)
    BY <1>1, <1>2 DEF Sound
  <1>5. ReadsOn /\ call \in [Callers -> Calls]
    BY <1>1, <1>3, <1>4 DEF ReadsOn
  <1>6. SettlesOnce
    BY DEF Init, SettlesOnce
  <1>7. NoList \in Lists
    BY DEF NoList, Lists
  <1>8. TypeOK
    BY <1>5, <1>7, StartsFromKnown DEF Init, TypeOK
  <1>. QED  BY <1>5, <1>6, <1>8 DEF IInv

LEMMA StepsSound == IInv /\ [Next]_vars => IInv'
  <1>1. ASSUME IInv, UNCHANGED vars PROVE IInv'
    <2>1. device' = device /\ TypeOK' /\ SettlesOnce'
      BY <1>1, SameDevice DEF vars, IInv, TypeOK, SettlesOnce
    <2>2. ReadsOn'
      BY <1>1, SameDevice DEF vars, IInv, ReadsOn
    <2>. QED  BY <2>1, <2>2 DEF IInv
  <1>2. ASSUME IInv, Next PROVE IInv'
    <2>1. PICK c \in Callers :
            \/ \E kind \in {"poll", "dump"} : Begin(c, kind) /\ UNCHANGED device
            \/ Runs(c)
            \/ Cancel(c) /\ UNCHANGED device
      BY <1>2 DEF Next
    <2>2. CASE \E kind \in {"poll", "dump"} : Begin(c, kind) /\ UNCHANGED device
      BY <1>2, <2>2, BeginKeeps
    <2>3. CASE Runs(c)
      BY <1>2, <2>3, ProbeKeeps, EntryKeeps, EarlyEndKeeps DEF Runs
    <2>4. CASE Cancel(c) /\ UNCHANGED device
      BY <1>2, <2>4, EarlyEndKeeps
    <2>. QED  BY <2>1, <2>2, <2>3, <2>4
  <1>. QED  BY <1>1, <1>2

LEMMA AlwaysSound == Spec => []IInv
  BY StartsSound, StepsSound, PTL DEF Spec

-----------------------------------------------------------------------------
(***************************************************************************)
(* What follows.                                                           *)
(***************************************************************************)

\* The state is what the device's __init__, setup and poll make of it; a
\* pooled group that is there has two members or more (_pool).
THEOREM TypeCorrect == Spec => []TypeOK
  <1>1. IInv => TypeOK
    BY DEF IInv
  <1>. QED  BY <1>1, AlwaysSound, PTL

\* Runs of _async_setup that overlap, fail or are cancelled, in any number
\* and order, leave the list of the type that the device has.
THEOREM SetupSettlesOnTheTruth == Spec => []SettlesOnTheTruth
  <1>1. IInv => SettlesOnTheTruth
    BY DEF IInv, SettlesOnce, SettlesOnTheTruth, List, Served
  <1>. QED  BY <1>1, AlwaysSound, PTL

\* Each name in the list, or in what an overlapping poll took from it, is
\* found when its turn comes: _pool never takes a group away.
THEOREM EveryEntryIsFound == Spec => []EntriesFound
  <1>1. ASSUME IInv, NEW list \in {polled} \cup {call[c].todo : c \in Callers},
               NEW k \in Named(list)
        PROVE  Members(list[k]) # {}
    <2>1. done /\ k \in Named(List) /\ list[k] = List[k]
      <3>1. CASE list = polled
        <4>1. Named(NoList) = {}
          BY DEF Named, NoList
        <4>. QED  BY <1>1, <3>1, <4>1 DEF IInv, SettlesOnce
      <3>2. ASSUME NEW c \in Callers, list = call[c].todo
            PROVE  done /\ k \in Named(List) /\ list[k] = List[k]
        <4>1. Sound(call[c], done)
          BY <1>1 DEF IInv, ReadsOn
        <4>2. done /\ list[k] = List[k]
          BY <1>1, <3>2, <4>1 DEF Sound
        <4>. QED  BY <4>2 DEF Named
      <3>. QED  BY <1>1, <3>1, <3>2
    <2>2. Members(list[k]) = StandsFor(List[k])
      BY <1>1, <2>1 DEF IInv, SettlesOnce, Members, StandsFor
    <2>. QED  BY <2>1, <2>2, ListCoversServedOnce
  <1>2. IInv => EntriesFound
    BY <1>1 DEF EntriesFound
  <1>. QED  BY <1>2, AlwaysSound, PTL

\* A poll that reports has asked once for each component of the inverter,
\* by name or in a group, though setup ran again beneath it.
THEOREM EachServedIsReadOnce == Spec => []ReadsServedOnce
  <1>1. ASSUME IInv, NEW c \in Callers, call[c].pc = "reported"
        PROVE  call[c].asked = [d \in Components |-> IF d \in Served THEN 1 ELSE 0]
    <2>1. Sound(call[c], done)
      BY <1>1 DEF IInv, ReadsOn
    <2>2. call[c].asked = AskedSoFar(call[c].todo) /\ Named(call[c].todo) = {}
      BY <1>1, <2>1 DEF Sound
    <2>3. \A d \in Components :
            (\E e \in Named(List) \ Named(call[c].todo) : d \in StandsFor(List[e]))
                <=> d \in Served
      BY <2>2, ListCoversServedOnce
    <2>. QED  BY <2>2, <2>3 DEF AskedSoFar
  <1>2. IInv => ReadsServedOnce
    BY <1>1 DEF ReadsServedOnce, Served
  <1>. QED  BY <1>2, AlwaysSound, PTL
=============================================================================
