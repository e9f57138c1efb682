-------------------------- MODULE SetupTruthProofs --------------------------
(***************************************************************************)
(* Proofs about what Setup settles on, for any inverters, callers and      *)
(* number of tries at the log: the truth, whatever failed, was cancelled   *)
(* or overlapped before.                                                   *)
(*                                                                         *)
(* The type is what was told until the masks have said all they say, then  *)
(* bare, then true.  Whatever of this a failed run leaves behind, the next *)
(* run adds nothing that is not there already.                             *)
(***************************************************************************)
EXTENDS SetupProofs

Strings == device.mask["strings"]

\* The tower's flag depends on whether its mask was answered.
Same(t, s) == t \ {"BAT_BTS"} = s \ {"BAT_BTS"}

TowerTold(t) ==
    /\ "BAT_BTS" \in t => "BAT_BTS" \in device.type \/ Says("tower") = "yes"
    /\ "BAT_BTS" \in device.type => "BAT_BTS" \in t

TypeBare(t) == (Same(t, BareType) \/ Same(t, TrueType)) /\ TowerTold(t)
TypeTrue(t) == Same(t, TrueType) /\ TowerTold(t)
TypeSoFar(t) == t = device.type \/ TypeBare(t)

-----------------------------------------------------------------------------
(***************************************************************************)
(* Flags.                                                                  *)
(***************************************************************************)
LEMMA GroupFlags ==
    /\ Groups = {Gens, Phases, Families, {"EPS"}, {"DCB"}, {"PM"}, Tiers}
    /\ \A group \in Groups : "BAT_BTS" \notin group
  BY DEF Groups, Gens, Phases, Families, Tiers

\* The tower's flag filters nothing.
LEMMA SameMatches ==
    ASSUME NEW t, NEW s, Same(t, s), NEW mask
    PROVE  Matches(t, mask) <=> Matches(s, mask)
  <1>1. ASSUME NEW group \in Groups
        PROVE  t \cap mask \cap group = s \cap mask \cap group
    BY <1>1, GroupFlags DEF Same
  <1>2. QED BY <1>1 DEF Matches

LEMMA PvStringsMatch ==
    ASSUME NEW t
    PROVE  Matches(t, AppliesTo["pv_1_2"])
            <=> "GEN" \in t /\ ("PV" \in t \/ "HYBRID" \in t)
  <1>1. AppliesTo["pv_1_2"] = {"GEN", "PV", "HYBRID"}
    BY DEF AppliesTo, PvStrings, READING_COMPONENTS
  <1>2. QED BY <1>1, GroupFlags DEF Matches, Gens, Phases, Families, Tiers

LEMMA OffgridMatches ==
    ASSUME NEW t
    PROVE  Matches(t, AppliesTo["offgrid"] \ {"EPS"}) <=> "HYBRID" \in t
  <1>1. AppliesTo["offgrid"] \ {"EPS"} = {"HYBRID"}
    BY DEF AppliesTo, Offgrid, READING_COMPONENTS
  <1>2. QED BY <1>1, GroupFlags DEF Matches, Gens, Phases, Families, Tiers

LEMMA RankOfTiers ==
    /\ \A t : TierRank(t) \in 0..5 /\ TierRank(t) = TierRank(t \cap Tiers)
    /\ \A t : "MPPT10" \in t => TierRank(t) = 5
    /\ TierRank({}) = 0
  <1>1. ASSUME NEW t
        PROVE  TierRank(t) \in 0..5 /\ ("MPPT10" \in t => TierRank(t) = 5)
    BY DEF TierRank
  <1>2. ASSUME NEW t
        PROVE  TierRank(t) = TierRank(t \cap Tiers)
    <2>1. \A tier \in {"MPPT3", "MPPT4", "MPPT6", "MPPT8", "MPPT10"} :
            tier \in t \cap Tiers <=> tier \in t
      BY DEF Tiers
    <2>2. QED BY <2>1 DEF TierRank
  <1>3. TierRank({}) = 0
    BY DEF TierRank
  <1>4. QED BY <1>1, <1>2, <1>3

\* Of the tiers a set holds, the highest alone ranks as all of them.
LEMMA HighestRanks ==
    ASSUME NEW D \in SUBSET Tiers, NEW top \in D,
           \A other \in D : TierRank({other}) <= TierRank({top})
    PROVE  TierRank(D) = TierRank({top})
  <1>1. /\ TierRank({"MPPT3"}) = 1 /\ TierRank({"MPPT4"}) = 2
        /\ TierRank({"MPPT6"}) = 3 /\ TierRank({"MPPT8"}) = 4
        /\ TierRank({"MPPT10"}) = 5
    BY DEF TierRank
  <1>2. top \in {"MPPT3", "MPPT4", "MPPT6", "MPPT8", "MPPT10"}
    BY DEF Tiers
  <1>3. CASE top = "MPPT3"
    <2>1. \A tier \in {"MPPT4", "MPPT6", "MPPT8", "MPPT10"} : tier \notin D
      BY <1>1, <1>3
    <2>2. TierRank(D) = 1
      BY <1>3, <2>1 DEF TierRank
    <2>3. QED BY <1>1, <1>3, <2>2
  <1>4. CASE top = "MPPT4"
    <2>1. \A tier \in {"MPPT6", "MPPT8", "MPPT10"} : tier \notin D
      BY <1>1, <1>4
    <2>2. TierRank(D) = 2
      BY <1>4, <2>1 DEF TierRank
    <2>3. QED BY <1>1, <1>4, <2>2
  <1>5. CASE top = "MPPT6"
    <2>1. \A tier \in {"MPPT8", "MPPT10"} : tier \notin D
      BY <1>1, <1>5
    <2>2. TierRank(D) = 3
      BY <1>5, <2>1 DEF TierRank
    <2>3. QED BY <1>1, <1>5, <2>2
  <1>6. CASE top = "MPPT8"
    <2>1. \A tier \in {"MPPT10"} : tier \notin D
      BY <1>1, <1>6
    <2>2. TierRank(D) = 4
      BY <1>6, <2>1 DEF TierRank
    <2>3. QED BY <1>1, <1>6, <2>2
  <1>7. CASE top = "MPPT10"
    <2>1. TierRank(D) = 5
      BY <1>7 DEF TierRank
    <2>2. QED BY <1>1, <1>7, <2>1
  <1>8. QED BY <1>2, <1>3, <1>4, <1>5, <1>6, <1>7

LEMMA SomeHighest ==
    ASSUME NEW D \in SUBSET Tiers, D # {}
    PROVE  \E top \in D : \A other \in D : TierRank({other}) <= TierRank({top})
  <1>1. /\ TierRank({"MPPT3"}) = 1 /\ TierRank({"MPPT4"}) = 2
        /\ TierRank({"MPPT6"}) = 3 /\ TierRank({"MPPT8"}) = 4
        /\ TierRank({"MPPT10"}) = 5
    BY DEF TierRank
  <1>2. \A tier \in D : tier \in {"MPPT3", "MPPT4", "MPPT6", "MPPT8", "MPPT10"}
    BY DEF Tiers
  <1>3. CASE "MPPT10" \in D
    <2>1. \A other \in D : TierRank({other}) <= TierRank({"MPPT10"})
      BY <1>1, <1>2
    <2>2. QED BY <1>3, <2>1
  <1>4. CASE "MPPT10" \notin D /\ "MPPT8" \in D
    <2>1. \A other \in D : TierRank({other}) <= TierRank({"MPPT8"})
      BY <1>1, <1>2, <1>4
    <2>2. QED BY <1>4, <2>1
  <1>5. CASE (\A tier \in {"MPPT10", "MPPT8"} : tier \notin D) /\ "MPPT6" \in D
    <2>1. "MPPT6" \in D /\ \A other \in D : TierRank({other}) <= TierRank({"MPPT6"})
      BY <1>1, <1>2, <1>5
    <2>2. QED BY <2>1
  <1>6. CASE (\A tier \in {"MPPT10", "MPPT8", "MPPT6"} : tier \notin D) /\ "MPPT4" \in D
    <2>1. "MPPT4" \in D /\ \A other \in D : TierRank({other}) <= TierRank({"MPPT4"})
      BY <1>1, <1>2, <1>6
    <2>2. QED BY <2>1
  <1>7. CASE (\A tier \in {"MPPT10", "MPPT8", "MPPT6", "MPPT4"} : tier \notin D)
    <2>1. "MPPT3" \in D /\ \A other \in D : TierRank({other}) <= TierRank({"MPPT3"})
      BY <1>1, <1>2, <1>7
    <2>2. QED BY <2>1
  <1>8. QED BY <1>3, <1>4, <1>5, <1>6, <1>7

LEMMA TopTier ==
    ASSUME NEW mask
    PROVE  /\ TierRank(PvTier(mask)) = TierRank(Declared(mask))
           /\ PvTier(mask) \subseteq Tiers
  <1> DEFINE D == Declared(mask)
             P == PvTier(mask)
  <1>1. D \in SUBSET Tiers
    BY DEF Declared
  <1>2. P = {t \in D : \A other \in D : TierRank({other}) <= TierRank({t})}
    BY DEF PvTier
  <1> HIDE DEF D, P
  <1>3. P \in SUBSET Tiers
    BY <1>1, <1>2
  <1>4. CASE D = {}
    <2>1. P = {}
      BY <1>2, <1>4
    <2>2. QED BY <1>3, <1>4, <2>1 DEF D, P
  <1>5. CASE D # {}
    <2>1. PICK top \in D : \A other \in D : TierRank({other}) <= TierRank({top})
      BY <1>1, <1>5, SomeHighest
    <2>2. top \in P /\ \A other \in P : TierRank({other}) <= TierRank({top})
      BY <1>2, <2>1
    <2>3. TierRank(D) = TierRank({top})
      BY <1>1, <2>1, HighestRanks
    <2>4. TierRank(P) = TierRank({top})
      BY <1>3, <2>2, HighestRanks
    <2>5. QED BY <1>3, <2>3, <2>4 DEF D, P
  <1>6. QED BY <1>4, <1>5

-----------------------------------------------------------------------------
(***************************************************************************)
(* The type, as setup comes to know it.                                    *)
(***************************************************************************)
LEMMA BareCases ==
    /\ device.type \subseteq {"PM"} /\ Detectable
            => BareType = device.type \cup DetectedFlags
    /\ ~(device.type \subseteq {"PM"}) /\ MoreStrings
            => BareType = (device.type \ Tiers) \cup PvTier(Strings)
    /\ device.type \subseteq {"PM"} /\ ~Detectable => BareType = device.type
    /\ ~(device.type \subseteq {"PM"}) /\ ~MoreStrings => BareType = device.type
    /\ TrueType = BareType \/ TrueType = BareType \cup {"EPS"}
  BY DEF BareType, TrueType, Strings

\* A type without flags of its own is the one told.
LEMMA UnknownIsTold ==
    ASSUME NEW t, TypeSoFar(t), t \subseteq {"PM"}
    PROVE  t = device.type
  <1> SUFFICES ASSUME TypeBare(t) PROVE t = device.type
    BY DEF TypeSoFar
  <1>1. "GEN" \notin BareType
    BY BareCases DEF TypeBare, Same
  <1>2. BareType = device.type
    <2>1. "GEN" \in DetectedFlags
      BY DEF DetectedFlags
    <2>2. MoreStrings => "GEN" \in device.type
      BY PvStringsMatch DEF MoreStrings
    <2>3. "GEN" \notin Tiers
      BY DEF Tiers
    <2>4. QED BY <1>1, <2>1, <2>2, <2>3, BareCases
  <1>3. "BAT_BTS" \notin device.type
    BY DEF TypeBare, TowerTold
  <1>4. t \ {"BAT_BTS"} = t /\ device.type \ {"BAT_BTS"} = device.type
    BY <1>3
  <1>5. CASE Same(t, BareType)
    BY <1>2, <1>4, <1>5 DEF Same
  <1>6. CASE Same(t, TrueType)
    <2>1. "EPS" \notin TrueType
      BY <1>6 DEF Same
    <2>2. TrueType = BareType
      BY <2>1, BareCases
    <2>3. QED BY <1>2, <1>4, <1>6, <2>2 DEF Same
  <1>7. QED BY <1>5, <1>6 DEF TypeBare

LEMMA DetectedIsBare ==
    ASSUME NEW t, TypeSoFar(t), t \subseteq {"PM"}, Detectable,
           NEW tower \in SUBSET {"BAT_BTS"}, tower # {} => Says("tower") = "yes"
    PROVE  TypeBare(t \cup DetectedFlags \cup tower)
  <1>1. t = device.type
    BY UnknownIsTold
  <1>2. BareType = t \cup DetectedFlags
    BY <1>1, BareCases
  <1>3. "BAT_BTS" \notin DetectedFlags
    BY TopTier DEF DetectedFlags, Tiers
  <1>4. QED BY <1>1, <1>2, <1>3 DEF TypeBare, Same, TowerTold

LEMMA UnrecognizedIsBare ==
    ASSUME NEW t, TypeSoFar(t), t \subseteq {"PM"}, ~Detectable
    PROVE  TypeBare(t)
  <1>1. t = device.type
    BY UnknownIsTold
  <1>2. BareType = device.type
    BY <1>1, BareCases
  <1>3. QED BY <1>1, <1>2 DEF TypeBare, Same, TowerTold

\* Nobody asks for strings where the mask could add none.
LEMMA UnaskedIsBare ==
    ASSUME NEW t, TypeSoFar(t), ~(t \subseteq {"PM"}),
           "MPPT10" \in t \/ ~Matches(t, AppliesTo["pv_1_2"])
    PROVE  TypeBare(t)
  <1> SUFFICES ASSUME t = device.type PROVE TypeBare(t)
    BY DEF TypeSoFar
  <1>1. ~MoreStrings
    <2>1. "MPPT10" \in t => TierRank(t) = 5 /\ TierRank(Declared(Strings)) \in 0..5
      BY RankOfTiers
    <2>2. QED BY <2>1 DEF MoreStrings, Strings
  <1>2. BareType = t
    BY <1>1, BareCases
  <1>3. QED BY <1>2 DEF TypeBare, Same, TowerTold

\* The tiers of a bare type are those the mask could raise it to, or higher.
LEMMA BareHasTiers ==
    ASSUME Matches(BareType, AppliesTo["pv_1_2"])
    PROVE  TierRank(RaisedTier(Strings)) <= TierRank(BareType)
  <1>1. TierRank(RaisedTier(Strings)) = 0 \/ RaisedTier(Strings) = PvTier(Strings)
    BY RankOfTiers DEF RaisedTier
  <1>2. /\ TierRank(PvTier(Strings)) = TierRank(Declared(Strings))
        /\ PvTier(Strings) \cap Tiers = PvTier(Strings)
    BY TopTier
  <1>3. TierRank(BareType) = TierRank(BareType \cap Tiers) /\ TierRank(BareType) \in 0..5
        /\ TierRank(PvTier(Strings)) \in 0..5
    BY RankOfTiers
  <1>4. CASE device.type \subseteq {"PM"} /\ Detectable
    <2>1. BareType \cap Tiers = PvTier(Strings)
      BY <1>2, <1>4, BareCases DEF DetectedFlags, Strings, Tiers
    <2>2. QED BY <1>1, <1>3, <2>1
  <1>5. CASE device.type \subseteq {"PM"} /\ ~Detectable
    <2>1. BareType \subseteq {"PM"}
      BY <1>5, BareCases
    <2>2. QED BY <2>1, PvStringsMatch
  <1>6. CASE ~(device.type \subseteq {"PM"}) /\ MoreStrings
    <2>1. BareType \cap Tiers = PvTier(Strings)
      BY <1>2, <1>6, BareCases
    <2>2. QED BY <1>1, <1>3, <2>1
  <1>7. CASE ~(device.type \subseteq {"PM"}) /\ ~MoreStrings
    <2>1. BareType = device.type
      BY <1>7, BareCases
    <2>2. CASE Strings # AllBits /\ Usable(Strings)
      <3>1. ~(TierRank(Declared(Strings)) > TierRank(device.type))
        BY <1>7, <2>1, <2>2 DEF MoreStrings, Strings
      <3>2. QED BY <1>1, <1>2, <1>3, <2>1, <3>1
    <2>3. CASE ~(Strings # AllBits /\ Usable(Strings))
      <3>1. RaisedTier(Strings) = {}
        BY <2>3 DEF RaisedTier
      <3>2. QED BY <1>3, <3>1, RankOfTiers
    <2>4. QED BY <2>2, <2>3
  <1>8. QED BY <1>4, <1>5, <1>6, <1>7

LEMMA RaisedIsBare ==
    ASSUME NEW t, TypeSoFar(t), ~(t \subseteq {"PM"}),
           Matches(t, AppliesTo["pv_1_2"])
    PROVE  TypeBare(RaiseTier(t, RaisedTier(Strings)))
  <1>1. CASE TypeBare(t)
    <2>1. Matches(BareType, AppliesTo["pv_1_2"])
      <3>1. Matches(BareType, AppliesTo["pv_1_2"]) \/ Matches(TrueType, AppliesTo["pv_1_2"])
        BY <1>1, SameMatches DEF TypeBare
      <3>2. QED BY <3>1, PvStringsMatch, BareCases
    <2>2. t \cap Tiers = BareType \cap Tiers
      BY <1>1, BareCases DEF TypeBare, Same, Tiers
    <2>3. TierRank(t) = TierRank(BareType)
      BY <2>2, RankOfTiers
    <2>4. TierRank(t) \in 0..5 /\ TierRank(RaisedTier(Strings)) \in 0..5
      BY RankOfTiers
    <2>5. RaiseTier(t, RaisedTier(Strings)) = t
      BY <2>1, <2>3, <2>4, BareHasTiers DEF RaiseTier
    <2>6. QED BY <1>1, <2>5
  <1>2. CASE t = device.type
    <2>1. /\ TierRank(PvTier(Strings)) = TierRank(Declared(Strings))
          /\ PvTier(Strings) \subseteq Tiers
          /\ TierRank({}) = 0 /\ TierRank(t) \in 0..5
      BY TopTier, RankOfTiers
    <2>2. CASE MoreStrings
      <3>1. RaisedTier(Strings) = PvTier(Strings)
        BY <2>2 DEF MoreStrings, RaisedTier, Strings
      <3>2. RaiseTier(t, RaisedTier(Strings)) = BareType
        BY <1>2, <2>1, <2>2, <3>1, BareCases DEF MoreStrings, RaiseTier, Strings
      <3>3. "BAT_BTS" \notin Tiers
        BY DEF Tiers
      <3>4. "BAT_BTS" \in BareType <=> "BAT_BTS" \in device.type
        BY <1>2, <2>1, <2>2, <3>3, BareCases
      <3>5. QED BY <3>2, <3>4 DEF TypeBare, Same, TowerTold
    <2>3. CASE ~MoreStrings
      <3>1. BareType = t
        BY <1>2, <2>3, BareCases
      <3>2. ~(TierRank(RaisedTier(Strings)) > TierRank(t))
        BY <1>2, <2>1, <2>3 DEF MoreStrings, RaisedTier, Strings
      <3>3. RaiseTier(t, RaisedTier(Strings)) = t
        BY <3>2 DEF RaiseTier
      <3>4. QED BY <1>2, <3>1, <3>3 DEF TypeBare, Same, TowerTold
    <2>4. QED BY <2>2, <2>3
  <1>3. QED BY <1>1, <1>2 DEF TypeSoFar

\* The off-grid part is asked for where it is not known to be there.
LEMMA ProbedIsTrue ==
    ASSUME NEW t, TypeBare(t)
    PROVE  /\ ~AsksEps(t) => TypeTrue(t)
           /\ AsksEps(t) => TypeTrue(IF device.eps THEN t \cup {"EPS"} ELSE t)
  <1>1. AsksEps(t) <=> "EPS" \notin t /\ "HYBRID" \in t
    BY OffgridMatches DEF AsksEps
  <1>2. "HYBRID" \in t <=> "HYBRID" \in BareType
    BY BareCases DEF TypeBare, Same
  <1>3. CASE Same(t, TrueType)
    <2>1. device.eps /\ "HYBRID" \in t => "EPS" \in t
      BY <1>2, <1>3 DEF TrueType, Same
    <2>2. QED BY <1>1, <1>3, <2>1 DEF TypeBare, TypeTrue
  <1>4. CASE Same(t, BareType)
    <2>1. CASE device.eps /\ "HYBRID" \in BareType
      <3>1. TrueType = BareType \cup {"EPS"}
        BY <2>1 DEF TrueType
      <3>2. Same(t \cup {"EPS"}, TrueType) /\ TowerTold(t \cup {"EPS"})
        BY <1>4, <3>1 DEF Same, TypeBare, TowerTold
      <3>3. "EPS" \in t => t \cup {"EPS"} = t
        OBVIOUS
      <3>4. QED BY <1>1, <1>2, <2>1, <3>2, <3>3 DEF TypeTrue
    <2>2. CASE ~(device.eps /\ "HYBRID" \in BareType)
      <3>1. TrueType = BareType
        BY <2>2 DEF TrueType
      <3>2. TypeTrue(t)
        BY <1>4, <3>1 DEF TypeTrue, TypeBare
      <3>3. AsksEps(t) => ~device.eps
        BY <1>1, <1>2, <2>2
      <3>4. QED BY <3>2, <3>3
    <2>3. QED BY <2>1, <2>2
  <1>5. QED BY <1>3, <1>4 DEF TypeBare

-----------------------------------------------------------------------------
(***************************************************************************)
(* What a run knows at each of its requests, and what it settles.          *)
(***************************************************************************)
PhaseFlags == {"GEN"} \cup (IF Says("phase") = "yes" THEN {"X3"} ELSE {"X1"})
FamilyFlags == IF Says("battery") = "yes" THEN {"HYBRID"} ELSE {"PV"}

ServedReadings ==
    {c \in ComponentsFor(TrueType, READING_COMPONENTS) :
        c = "meter_energy" => Says("meter") # "no"}

ReadingsTrue(i) ==
    /\ i.readings = {c \in ServedReadings : c = "fault_log" => i.hasFaultLog}
    /\ device.log = "answers" /\ ~i.hasFaultLog
       /\ Matches(TrueType, AppliesTo["fault_log"])
            => i.misses = FaultLogAttempts

SettingsTrue(i) ==
    i.settings = {c \in ComponentsFor(TrueType, SETTING_COMPONENTS) :
                    c = "battery_charge_cutoff" => Says("config") = "yes"}

SettledTruth(i) == TypeTrue(i.type) /\ ReadingsTrue(i) /\ SettingsTrue(i)

Detecting == {"phase", "battery", "strings", "tower"}

Stage(at, detected, i) ==
    /\ at \in Detecting => i.type \subseteq {"PM"}
    /\ at \in Detecting \ {"phase"} => Says("phase") # "unknown"
    /\ at \in {"strings", "tower"} => Says("battery") # "unknown"
    /\ at = "battery" => detected = PhaseFlags
    /\ at = "strings" => detected = PhaseFlags \cup FamilyFlags
    /\ at = "tower" => Detectable /\ detected = DetectedFlags
    /\ at = "tier" => ~(i.type \subseteq {"PM"})
                      /\ Matches(i.type, AppliesTo["pv_1_2"])
    /\ at \in {"rating", "eps"} => TypeBare(i.type)
    /\ at = "eps" => AsksEps(i.type)
    /\ at \in {"meter", "fault_log", "cutoff"} => TypeTrue(i.type)
    /\ at = "meter" =>
            i.readings = ComponentsFor(TrueType, READING_COMPONENTS)
    /\ at = "fault_log" => i.readings = ServedReadings /\ ~i.hasFaultLog
    /\ at = "cutoff" => ReadingsTrue(i)
            /\ i.settings = ComponentsFor(TrueType, SETTING_COMPONENTS)

TruthInv ==
    /\ TypeSoFar(inverter.type)
    /\ inverter.settled => SettledTruth(inverter)
    /\ \A c \in Callers : run[c].at \in Requests
            => Stage(run[c].at, run[c].detected, inverter)

\* A step of c's run that keeps all this.
Truly(c) ==
    /\ TypeSoFar(inverter'.type)
    /\ inverter'.settled => SettledTruth(inverter')
    /\ \A o \in Callers \ {c} : run'[o] = run[o]
    /\ run'[c].at \in Requests => Stage(run'[c].at, run'[c].detected, inverter')

LEMMA TrueIsSoFar == \A t : TypeTrue(t) => TypeBare(t) /\ TypeSoFar(t)
  BY DEF TypeTrue, TypeBare, TypeSoFar

LEMMA SameLists ==
    ASSUME NEW t, TypeTrue(t), NEW names
    PROVE  ComponentsFor(t, names) = ComponentsFor(TrueType, names)
  BY SameMatches DEF TypeTrue, ComponentsFor

\* What was said of one device is as true after any step: it never changes.
LEMMA SameDevice ==
    ASSUME UNCHANGED device
    PROVE  /\ \A t : TypeSoFar(t) => TypeSoFar(t)'
           /\ \A i : SettledTruth(i) => SettledTruth(i)'
           /\ \A at, detected, i : Stage(at, detected, i) => Stage(at, detected, i)'
  <1>1. \A block : Says(block)' = Says(block)
    BY DEF Says
  <1>2. /\ Detectable' = Detectable /\ DetectedFlags' = DetectedFlags
        /\ MoreStrings' = MoreStrings
    BY <1>1 DEF Detectable, DetectedFlags, MoreStrings
  <1>3. BareType' = BareType
    BY <1>2 DEF BareType
  <1>4. TrueType' = TrueType
    BY <1>3 DEF TrueType
  <1>5. \A t : TowerTold(t)' = TowerTold(t)
    BY <1>1 DEF TowerTold
  <1>6. \A t : /\ TypeBare(t)' = TypeBare(t) /\ TypeTrue(t)' = TypeTrue(t)
               /\ TypeSoFar(t)' = TypeSoFar(t)
    BY <1>3, <1>4, <1>5 DEF TypeBare, TypeTrue, TypeSoFar, Same
  <1>7. ServedReadings' = ServedReadings
    BY <1>1, <1>4 DEF ServedReadings
  <1>8. \A i : ReadingsTrue(i)' = ReadingsTrue(i) /\ SettingsTrue(i)' = SettingsTrue(i)
    BY <1>1, <1>4, <1>7 DEF ReadingsTrue, SettingsTrue
  <1>9. \A i : SettledTruth(i)' = SettledTruth(i)
    BY <1>6, <1>8 DEF SettledTruth
  <1>10. PhaseFlags' = PhaseFlags /\ FamilyFlags' = FamilyFlags
    BY <1>1 DEF PhaseFlags, FamilyFlags
  <1>11. \A at, detected, i : Stage(at, detected, i)' = Stage(at, detected, i)
    BY <1>1, <1>2, <1>4, <1>6, <1>7, <1>8, <1>10 DEF Stage
  <1>12. QED BY <1>6, <1>9, <1>11

LEMMA TrulyKeeps ==
    ASSUME IInv, TruthInv, UNCHANGED device, NEW c \in Callers, Truly(c),
           \A o \in Callers \ {c} : run[o].at \in Requests => inverter' = inverter
    PROVE  TruthInv'
  <1>1. TypeSoFar(inverter.type)'
    BY SameDevice DEF Truly
  <1>2. (inverter.settled => SettledTruth(inverter))'
    BY SameDevice DEF Truly
  <1>3. ASSUME NEW o \in Callers, run'[o].at \in Requests
        PROVE  Stage(run'[o].at, run'[o].detected, inverter')
    <2>1. CASE o = c
      BY <1>3, <2>1 DEF Truly
    <2>2. CASE o # c
      BY <1>3, <2>2 DEF Truly, TruthInv
    <2>3. QED BY <2>1, <2>2
  <1>4. \A o \in Callers : run'[o].at \in Requests
            => Stage(run[o].at, run[o].detected, inverter)'
    BY <1>3, SameDevice
  <1>5. Requests' = Requests
    BY DEF Requests
  <1>6. QED BY <1>1, <1>2, <1>4, <1>5 DEF TruthInv

-----------------------------------------------------------------------------
(***************************************************************************)
(* The ways a run goes on.                                                 *)
(***************************************************************************)
LEMMA AwaitTruly ==
    ASSUME IInv, NEW c \in Callers, NEW i, NEW request \in Requests,
           Await(c, i, request), ~i.settled, TypeSoFar(i.type),
           Stage(request, {}, i)
    PROVE  Truly(c)
  <1>1. run \in [Callers -> Calls]
    BY DEF IInv, TypeOK, Calls
  <1>2. inverter' = i /\ run' = [run EXCEPT ![c] = [at |-> request, detected |-> {}]]
    BY DEF Await
  <1>3. /\ run'[c].at = request /\ run'[c].detected = {}
        /\ \A o \in Callers \ {c} : run'[o] = run[o]
    BY <1>1, <1>2
  <1>4. QED BY <1>2, <1>3 DEF Truly

LEMMA KnowingTruly ==
    ASSUME IInv, NEW c \in Callers, NEW detected, NEW request \in Requests,
           AwaitKnowing(c, detected, request), ~inverter.settled,
           TypeSoFar(inverter.type), Stage(request, detected, inverter)
    PROVE  Truly(c)
  <1>1. run \in [Callers -> Calls]
    BY DEF IInv, TypeOK, Calls
  <1>2. /\ inverter' = inverter
        /\ run' = [run EXCEPT ![c] = [at |-> request, detected |-> detected]]
    BY DEF AwaitKnowing
  <1>3. /\ run'[c].at = request /\ run'[c].detected = detected
        /\ \A o \in Callers \ {c} : run'[o] = run[o]
    BY <1>1, <1>2
  <1>4. QED BY <1>2, <1>3 DEF Truly

LEMMA SettleTruly ==
    ASSUME IInv, NEW c \in Callers, NEW i \in Inverters, Settle(c, i),
           SettledTruth(i)
    PROVE  Truly(c)
  <1>1. inverter' = [i EXCEPT !.settled = TRUE] /\ Leave(c, "done")
    BY DEF Settle
  <1>2. /\ inverter'.type = i.type /\ inverter'.readings = i.readings
        /\ inverter'.settings = i.settings /\ inverter'.misses = i.misses
        /\ inverter'.hasFaultLog = i.hasFaultLog
    BY <1>1 DEF Inverters
  <1>3. SettledTruth(inverter')
    BY <1>2 DEF SettledTruth, ReadingsTrue, SettingsTrue
  <1>4. TypeSoFar(inverter'.type)
    BY <1>3, TrueIsSoFar DEF SettledTruth
  <1>5. run'[c].at = "done" /\ \A o \in Callers \ {c} : run'[o] = run[o]
    BY <1>1, QueueLeft DEF IInv
  <1>6. QED BY <1>3, <1>4, <1>5, BusyAt DEF Truly

LEMMA ListSettingsTruly ==
    ASSUME IInv, NEW c \in Callers, NEW i \in Inverters, ~i.settled,
           ListSettings(c, i), TypeTrue(i.type), ReadingsTrue(i)
    PROVE  Truly(c)
  <1> DEFINE listed == [i EXCEPT
                !.settings = ComponentsFor(i.type, SETTING_COMPONENTS)]
  <1>1. ComponentsFor(i.type, SETTING_COMPONENTS) =
            ComponentsFor(TrueType, SETTING_COMPONENTS)
    BY SameLists
  <1>2. /\ listed \in Inverters /\ ~listed.settled /\ listed.type = i.type
        /\ listed.readings = i.readings /\ listed.hasFaultLog = i.hasFaultLog
        /\ listed.misses = i.misses
        /\ listed.settings = ComponentsFor(TrueType, SETTING_COMPONENTS)
    BY <1>1 DEF Inverters, ComponentsFor
  <1>3. IF "battery_charge_cutoff" \in listed.settings
        THEN Await(c, listed, "cutoff") ELSE Settle(c, listed)
    BY DEF ListSettings
  <1> HIDE DEF listed
  <1>4. TypeTrue(listed.type) /\ ReadingsTrue(listed) /\ TypeSoFar(listed.type)
    BY <1>2, TrueIsSoFar DEF ReadingsTrue
  <1>5. CASE "battery_charge_cutoff" \in listed.settings
    <2>1. Stage("cutoff", {}, listed) /\ "cutoff" \in Requests
      BY <1>2, <1>4 DEF Stage, Detecting, Requests
    <2>2. QED BY <1>2, <1>3, <1>4, <1>5, <2>1, AwaitTruly
  <1>6. CASE "battery_charge_cutoff" \notin listed.settings
    <2>1. SettledTruth(listed)
      BY <1>2, <1>4, <1>6 DEF SettledTruth, SettingsTrue
    <2>2. QED BY <1>2, <1>3, <1>6, <2>1, SettleTruly
  <1>7. QED BY <1>5, <1>6

LEMMA LogListed ==
    "fault_log" \in ServedReadings <=> Matches(TrueType, AppliesTo["fault_log"])
  BY DEF ServedReadings, ComponentsFor, READING_COMPONENTS

LEMMA ProbeLogTruly ==
    ASSUME IInv, NEW c \in Callers, NEW i \in Inverters, ~i.settled,
           ProbeLog(c, i), TypeTrue(i.type), i.readings = ServedReadings
    PROVE  Truly(c)
  <1>1. CASE ProbesLog(i)
    <2>1. Await(c, i, "fault_log") /\ "fault_log" \in Requests
      BY <1>1 DEF ProbeLog, Requests
    <2>2. Stage("fault_log", {}, i) /\ TypeSoFar(i.type)
      BY <1>1, TrueIsSoFar DEF Stage, Detecting, ProbesLog
    <2>3. QED BY <2>1, <2>2, AwaitTruly
  <1>2. CASE ~ProbesLog(i)
    <2>1. i.hasFaultLog \/ ~Matches(TrueType, AppliesTo["fault_log"])
      BY <1>2, LogListed DEF ProbesLog
    <2>2. ReadingsTrue(i)
      BY <2>1, LogListed DEF ReadingsTrue
    <2>3. QED BY <1>2, <2>2, ListSettingsTruly DEF ProbeLog
  <1>3. QED BY <1>1, <1>2

LEMMA ListReadingsTruly ==
    ASSUME IInv, NEW c \in Callers, NEW i \in Inverters, ~i.settled,
           ListReadings(c, i), TypeTrue(i.type)
    PROVE  Truly(c)
  <1>1. ComponentsFor(i.type, READING_COMPONENTS) =
            ComponentsFor(TrueType, READING_COMPONENTS)
    BY SameLists
  <1>2. 0 \in 0..FaultLogAttempts
    BY SetupAssumption
  <1>3. /\ Listed(i) \in Inverters /\ ~Listed(i).settled
        /\ Listed(i).type = i.type
        /\ Listed(i).readings = ComponentsFor(TrueType, READING_COMPONENTS)
    BY <1>1, <1>2 DEF Listed, Inverters, ComponentsFor
  <1>4. CASE "meter_energy" \in Listed(i).readings
    <2>1. Await(c, Listed(i), "meter") /\ "meter" \in Requests
      BY <1>4 DEF ListReadings, Requests
    <2>2. Stage("meter", {}, Listed(i)) /\ TypeSoFar(Listed(i).type)
      BY <1>3, TrueIsSoFar DEF Stage, Detecting
    <2>3. QED BY <1>3, <2>1, <2>2, AwaitTruly
  <1>5. CASE "meter_energy" \notin Listed(i).readings
    <2>1. ProbeLog(c, Listed(i))
      BY <1>5 DEF ListReadings
    <2>2. Listed(i).readings = ServedReadings
      BY <1>3, <1>5 DEF ServedReadings
    <2>3. QED BY <1>3, <2>1, <2>2, ProbeLogTruly
  <1>6. QED BY <1>4, <1>5

-----------------------------------------------------------------------------
(***************************************************************************)
(* Each answer.                                                            *)
(***************************************************************************)
LEMMA AtStage ==
    ASSUME IInv, TruthInv, NEW c \in Callers, NEW request \in Requests,
           At(c, request)
    PROVE  /\ Stage(request, run[c].detected, inverter)
           /\ ~inverter.settled /\ inverter \in Inverters
           /\ TypeSoFar(inverter.type)
  BY DEF IInv, TypeOK, HolderAsks, TruthInv, At

LEMMA NewType ==
    ASSUME NEW i \in Inverters, NEW t \in SUBSET InverterFlags
    PROVE  /\ [i EXCEPT !.type = t] \in Inverters
           /\ [i EXCEPT !.type = t].type = t
           /\ [i EXCEPT !.type = t].settled = i.settled
  BY DEF Inverters

\* A detection ends: with a type, or with none the masks could give.
LEMMA UnrecognizedTruly ==
    ASSUME IInv, NEW c \in Callers, inverter \in Inverters, ~inverter.settled,
           TypeSoFar(inverter.type), inverter.type \subseteq {"PM"},
           ~Detectable, Unrecognized(c)
    PROVE  Truly(c)
  <1> DEFINE i == [inverter EXCEPT !.unrecognized = TRUE]
  <1>1. i.type = inverter.type /\ ~i.settled
    BY DEF Inverters
  <1>2. Await(c, i, "rating") /\ "rating" \in Requests
    BY DEF Unrecognized, Requests
  <1> HIDE DEF i
  <1>3. TypeBare(i.type)
    BY <1>1, UnrecognizedIsBare
  <1>4. Stage("rating", {}, i)
    BY <1>3 DEF Stage, Detecting
  <1>5. QED BY <1>1, <1>2, <1>4, AwaitTruly

LEMMA DetectedTruly ==
    ASSUME IInv, NEW c \in Callers, inverter \in Inverters, ~inverter.settled,
           TypeSoFar(inverter.type), inverter.type \subseteq {"PM"},
           Detectable, NEW tower \in SUBSET {"BAT_BTS"},
           tower # {} => Says("tower") = "yes",
           Detected(c, DetectedFlags \cup tower)
    PROVE  Truly(c)
  <1> DEFINE i == [inverter EXCEPT !.type = @ \cup (DetectedFlags \cup tower),
                                   !.unrecognized = FALSE]
  <1>1. i.type = inverter.type \cup DetectedFlags \cup tower /\ ~i.settled
    BY DEF Inverters
  <1>2. Await(c, i, "rating") /\ "rating" \in Requests
    BY DEF Detected, Requests
  <1> HIDE DEF i
  <1>3. TypeBare(i.type)
    BY <1>1, DetectedIsBare
  <1>4. Stage("rating", {}, i) /\ TypeSoFar(i.type)
    BY <1>3 DEF Stage, Detecting, TypeSoFar
  <1>5. QED BY <1>1, <1>2, <1>4, AwaitTruly

LEMMA PhaseTruly ==
    ASSUME IInv, TruthInv, NEW c \in Callers, PhaseAnswered(c)
    PROVE  Truly(c)
  <1>1. "phase" \in Requests /\ "battery" \in Requests /\ At(c, "phase")
    BY DEF Requests, PhaseAnswered
  <1>2. /\ inverter.type \subseteq {"PM"} /\ ~inverter.settled
        /\ inverter \in Inverters /\ TypeSoFar(inverter.type)
    BY <1>1, AtStage DEF Stage, Detecting
  <1>3. CASE Says("phase") = "unknown" /\ Unrecognized(c)
    BY <1>2, <1>3, UnrecognizedTruly DEF Detectable
  <1>4. CASE Says("phase") # "unknown" /\ AwaitKnowing(c, PhaseFlags, "battery")
    <2>1. Stage("battery", PhaseFlags, inverter)
      BY <1>2, <1>4 DEF Stage, Detecting
    <2>2. QED BY <1>1, <1>2, <1>4, <2>1, KnowingTruly
  <1>5. /\ Says("phase") = "yes" => PhaseFlags = {"GEN", "X3"}
        /\ Says("phase") = "no" => PhaseFlags = {"GEN", "X1"}
    BY DEF PhaseFlags
  <1>6. QED BY <1>3, <1>4, <1>5 DEF PhaseAnswered

LEMMA BatteryTruly ==
    ASSUME IInv, TruthInv, NEW c \in Callers, BatteryAnswered(c)
    PROVE  Truly(c)
  <1>1. "battery" \in Requests /\ "strings" \in Requests /\ At(c, "battery")
    BY DEF Requests, BatteryAnswered
  <1>2. /\ inverter.type \subseteq {"PM"} /\ ~inverter.settled
        /\ inverter \in Inverters /\ TypeSoFar(inverter.type)
        /\ Says("phase") # "unknown" /\ run[c].detected = PhaseFlags
    BY <1>1, AtStage DEF Stage, Detecting
  <1>3. CASE Says("battery") = "unknown" /\ Unrecognized(c)
    BY <1>2, <1>3, UnrecognizedTruly DEF Detectable
  <1>4. CASE /\ Says("battery") # "unknown"
             /\ AwaitKnowing(c, PhaseFlags \cup FamilyFlags, "strings")
    <2>1. Stage("strings", PhaseFlags \cup FamilyFlags, inverter)
      BY <1>2, <1>4 DEF Stage, Detecting
    <2>2. QED BY <1>1, <1>2, <1>4, <2>1, KnowingTruly
  <1>5. /\ Says("battery") = "yes" => FamilyFlags = {"HYBRID"}
        /\ Says("battery") = "no" => FamilyFlags = {"PV"}
    BY DEF FamilyFlags
  <1>6. QED BY <1>2, <1>3, <1>4, <1>5 DEF BatteryAnswered

LEMMA StringsTruly ==
    ASSUME IInv, TruthInv, NEW c \in Callers, StringsAnswered(c)
    PROVE  Truly(c)
  <1> DEFINE known == run[c].detected \cup PvTier(Strings)
  <1>1. "strings" \in Requests /\ "tower" \in Requests /\ At(c, "strings")
    BY DEF Requests, StringsAnswered
  <1>2. /\ inverter.type \subseteq {"PM"} /\ ~inverter.settled
        /\ inverter \in Inverters /\ TypeSoFar(inverter.type)
        /\ Says("phase") # "unknown" /\ Says("battery") # "unknown"
        /\ run[c].detected = PhaseFlags \cup FamilyFlags
    BY <1>1, AtStage DEF Stage, Detecting
  <1>3. known = DetectedFlags /\ known \cup {} = known
    BY <1>2 DEF DetectedFlags, PhaseFlags, FamilyFlags, Strings
  <1>4. \/ ~Usable(Strings) /\ Unrecognized(c)
        \/ Usable(Strings) /\ AwaitKnowing(c, known, "tower")
        \/ Usable(Strings) /\ Detected(c, known)
    BY DEF StringsAnswered, Strings
  <1> HIDE DEF known
  <1>5. CASE ~Usable(Strings) /\ Unrecognized(c)
    BY <1>2, <1>5, UnrecognizedTruly DEF Detectable, Strings
  <1>6. CASE Usable(Strings) /\ AwaitKnowing(c, known, "tower")
    <2>1. Stage("tower", known, inverter)
      BY <1>2, <1>3, <1>6 DEF Stage, Detecting, Detectable, Strings
    <2>2. QED BY <1>1, <1>2, <1>6, <2>1, KnowingTruly
  <1>7. CASE Usable(Strings) /\ Detected(c, known)
    <2>1. Detectable
      BY <1>2, <1>7 DEF Detectable, Strings
    <2>2. Detected(c, DetectedFlags \cup {})
      BY <1>3, <1>7
    <2>3. QED BY <1>2, <2>1, <2>2, DetectedTruly
  <1>8. QED BY <1>4, <1>5, <1>6, <1>7

LEMMA TowerTruly ==
    ASSUME IInv, TruthInv, NEW c \in Callers, TowerAnswered(c) \/ TowerSilent(c)
    PROVE  Truly(c)
  <1>1. "tower" \in Requests /\ At(c, "tower")
    BY DEF Requests, TowerAnswered, TowerSilent
  <1>2. /\ inverter.type \subseteq {"PM"} /\ ~inverter.settled
        /\ inverter \in Inverters /\ TypeSoFar(inverter.type)
        /\ Detectable /\ run[c].detected = DetectedFlags
    BY <1>1, AtStage DEF Stage, Detecting
  <1>3. PICK tower \in SUBSET {"BAT_BTS"} :
            /\ tower # {} => Says("tower") = "yes"
            /\ Detected(c, DetectedFlags \cup tower)
    <2>1. CASE TowerAnswered(c)
      <3>1. Detected(c, DetectedFlags \cup
                IF Says("tower") = "yes" THEN {"BAT_BTS"} ELSE {})
        BY <1>2, <2>1 DEF TowerAnswered
      <3>2. CASE Says("tower") = "yes"
        BY <3>1, <3>2
      <3>3. CASE Says("tower") # "yes"
        BY <3>1, <3>3
      <3>4. QED BY <3>2, <3>3
    <2>2. CASE TowerSilent(c)
      <3>1. Detected(c, DetectedFlags) /\ DetectedFlags \cup {} = DetectedFlags
        BY <1>2, <2>2 DEF TowerSilent
      <3>2. QED BY <3>1
    <2>3. QED BY <2>1, <2>2
  <1>4. QED BY <1>2, <1>3, DetectedTruly

LEMMA TierTruly ==
    ASSUME IInv, TruthInv, NEW c \in Callers, TierAnswered(c)
    PROVE  Truly(c)
  <1> DEFINE t == RaiseTier(inverter.type, RaisedTier(Strings))
             i == [inverter EXCEPT !.type = t]
  <1>1. "tier" \in Requests /\ "rating" \in Requests /\ At(c, "tier")
    BY DEF Requests, TierAnswered
  <1>2. /\ ~(inverter.type \subseteq {"PM"}) /\ ~inverter.settled
        /\ Matches(inverter.type, AppliesTo["pv_1_2"])
        /\ inverter \in Inverters /\ TypeSoFar(inverter.type)
    BY <1>1, AtStage DEF Stage, Detecting
  <1>3. TypeBare(t)
    BY <1>2, RaisedIsBare
  <1>4. Await(c, i, "rating")
    BY DEF TierAnswered, Strings
  <1>5. i.type = t /\ ~i.settled
    BY <1>2 DEF Inverters
  <1> HIDE DEF t, i
  <1>6. Stage("rating", {}, i) /\ TypeSoFar(i.type)
    BY <1>3, <1>5 DEF Stage, Detecting, TypeSoFar
  <1>7. QED BY <1>1, <1>4, <1>5, <1>6, AwaitTruly

LEMMA RatingTruly ==
    ASSUME IInv, TruthInv, NEW c \in Callers, RatingAnswered(c)
    PROVE  Truly(c)
  <1>1. "rating" \in Requests /\ "eps" \in Requests /\ At(c, "rating")
    BY DEF Requests, RatingAnswered
  <1>2. /\ TypeBare(inverter.type) /\ ~inverter.settled
        /\ inverter \in Inverters /\ TypeSoFar(inverter.type)
    BY <1>1, AtStage DEF Stage, Detecting
  <1>3. CASE AsksEps(inverter.type) /\ Await(c, inverter, "eps")
    <2>1. Stage("eps", {}, inverter)
      BY <1>2, <1>3 DEF Stage, Detecting
    <2>2. QED BY <1>1, <1>2, <1>3, <2>1, AwaitTruly
  <1>4. CASE ~AsksEps(inverter.type) /\ ListReadings(c, inverter)
    BY <1>2, <1>4, ProbedIsTrue, ListReadingsTruly
  <1>5. QED BY <1>3, <1>4 DEF RatingAnswered

LEMMA EpsTruly ==
    ASSUME IInv, TruthInv, NEW c \in Callers, EpsAnswered(c)
    PROVE  Truly(c)
  <1> DEFINE t == inverter.type \cup {"EPS"}
             i == [inverter EXCEPT !.type = t]
  <1>1. "eps" \in Requests /\ At(c, "eps")
    BY DEF Requests, EpsAnswered
  <1>2. /\ TypeBare(inverter.type) /\ AsksEps(inverter.type)
        /\ ~inverter.settled /\ inverter \in Inverters
    BY <1>1, AtStage DEF Stage, Detecting
  <1>3. t \in SUBSET InverterFlags
    BY <1>2, KnownFlags DEF Inverters
  <1>4. i \in Inverters /\ i.type = t /\ ~i.settled
    BY <1>2, <1>3, NewType
  <1>5. ListReadings(c, IF device.eps THEN i ELSE inverter)
    BY DEF EpsAnswered
  <1>6. TypeTrue(IF device.eps THEN t ELSE inverter.type)
    BY <1>2, ProbedIsTrue
  <1> HIDE DEF t, i
  <1>7. CASE device.eps
    BY <1>4, <1>5, <1>6, <1>7, ListReadingsTruly
  <1>8. CASE ~device.eps
    BY <1>2, <1>5, <1>6, <1>8, ListReadingsTruly
  <1>9. QED BY <1>7, <1>8

LEMMA MeterTruly ==
    ASSUME IInv, TruthInv, NEW c \in Callers, MeterAnswered(c)
    PROVE  Truly(c)
  <1> DEFINE i == [inverter EXCEPT !.readings = @ \ {"meter_energy"}]
  <1>1. "meter" \in Requests /\ At(c, "meter")
    BY DEF Requests, MeterAnswered
  <1>2. /\ TypeTrue(inverter.type) /\ ~inverter.settled /\ inverter \in Inverters
        /\ inverter.readings = ComponentsFor(TrueType, READING_COMPONENTS)
    BY <1>1, AtStage DEF Stage, Detecting
  <1>3. /\ i \in Inverters /\ i.type = inverter.type /\ ~i.settled
        /\ i.readings = inverter.readings \ {"meter_energy"}
    BY <1>2 DEF Inverters
  <1>4. CASE Says("meter") = "no"
    <2>1. ProbeLog(c, i)
      BY <1>4 DEF MeterAnswered
    <2>2. i.readings = ServedReadings
      BY <1>2, <1>3, <1>4 DEF ServedReadings
    <2>3. QED BY <1>2, <1>3, <2>1, <2>2, ProbeLogTruly
  <1>5. CASE Says("meter") # "no"
    <2>1. ProbeLog(c, inverter)
      BY <1>5 DEF MeterAnswered
    <2>2. inverter.readings = ServedReadings
      BY <1>2, <1>5 DEF ServedReadings
    <2>3. QED BY <1>2, <2>1, <2>2, ProbeLogTruly
  <1>6. QED BY <1>4, <1>5

\* A log left off the list, with the reason the truth allows for.
LEMMA DropLogTruly ==
    ASSUME IInv, NEW c \in Callers, NEW i \in Inverters, ~i.settled,
           ListSettings(c, DropLog(i)), TypeTrue(i.type),
           i.readings = ServedReadings, ~i.hasFaultLog,
           device.log # "answers" \/ i.misses = FaultLogAttempts
    PROVE  Truly(c)
  <1>1. /\ DropLog(i) \in Inverters /\ ~DropLog(i).settled
        /\ DropLog(i).type = i.type /\ ~DropLog(i).hasFaultLog
        /\ DropLog(i).misses = i.misses
        /\ DropLog(i).readings = ServedReadings \ {"fault_log"}
    BY DEF DropLog, Inverters
  <1>2. ReadingsTrue(DropLog(i))
    BY <1>1 DEF ReadingsTrue
  <1>3. QED BY <1>1, <1>2, ListSettingsTruly

LEMMA LogTruly ==
    ASSUME IInv, TruthInv, NEW c \in Callers, LogAnswered(c) \/ LogMissed(c)
    PROVE  Truly(c)
  <1>1. "fault_log" \in Requests /\ At(c, "fault_log")
    BY DEF Requests, LogAnswered, LogMissed
  <1>2. /\ TypeTrue(inverter.type) /\ ~inverter.settled /\ inverter \in Inverters
        /\ inverter.readings = ServedReadings /\ ~inverter.hasFaultLog
        /\ inverter.misses < FaultLogAttempts
    BY <1>1, AtStage DEF Stage, Detecting, IInv, TriesLeft, At
  <1>3. CASE /\ device.log = "answers"
             /\ ListSettings(c, [inverter EXCEPT !.hasFaultLog = TRUE])
    <2> DEFINE i == [inverter EXCEPT !.hasFaultLog = TRUE]
    <2>1. /\ i \in Inverters /\ i.type = inverter.type /\ ~i.settled
          /\ i.readings = inverter.readings /\ i.hasFaultLog
      BY <1>2 DEF Inverters
    <2>2. ListSettings(c, i)
      BY <1>3
    <2> HIDE DEF i
    <2>3. ReadingsTrue(i)
      BY <1>2, <2>1 DEF ReadingsTrue
    <2>4. QED BY <1>2, <2>1, <2>2, <2>3, ListSettingsTruly
  <1>4. CASE device.log # "answers" /\ ListSettings(c, DropLog(inverter))
    BY <1>2, <1>4, DropLogTruly
  <1>5. CASE LogMissed(c)
    <2> DEFINE i == [inverter EXCEPT !.misses = @ + 1]
    <2>1. inverter.misses + 1 \in 0..FaultLogAttempts /\ inverter.misses \in Nat
      BY <1>2, SetupAssumption DEF Inverters
    <2>2. /\ i \in Inverters /\ i.type = inverter.type /\ ~i.settled
          /\ i.readings = ServedReadings /\ ~i.hasFaultLog
          /\ i.misses = inverter.misses + 1
      BY <1>2, <2>1 DEF Inverters
    <2>3. IF i.misses < FaultLogAttempts THEN Await(c, i, "fault_log")
          ELSE ListSettings(c, DropLog(i))
      BY <1>5 DEF LogMissed
    <2> HIDE DEF i
    <2>4. CASE i.misses < FaultLogAttempts
      <3>1. Stage("fault_log", {}, i) /\ TypeSoFar(i.type)
        BY <1>2, <2>2, TrueIsSoFar DEF Stage, Detecting
      <3>2. QED BY <1>1, <2>2, <2>3, <2>4, <3>1, AwaitTruly
    <2>5. CASE ~(i.misses < FaultLogAttempts)
      <3>1. i.misses = FaultLogAttempts
        BY <2>1, <2>2, <2>5, SetupAssumption
      <3>2. QED BY <1>2, <2>2, <2>3, <2>5, <3>1, DropLogTruly
    <2>6. QED BY <2>4, <2>5
  <1>6. QED BY <1>3, <1>4, <1>5 DEF LogAnswered

LEMMA CutoffTruly ==
    ASSUME IInv, TruthInv, NEW c \in Callers, CutoffAnswered(c)
    PROVE  Truly(c)
  <1> DEFINE i == [inverter EXCEPT !.settings = @ \ {"battery_charge_cutoff"}]
  <1>1. "cutoff" \in Requests /\ At(c, "cutoff")
    BY DEF Requests, CutoffAnswered
  <1>2. /\ TypeTrue(inverter.type) /\ ~inverter.settled /\ inverter \in Inverters
        /\ ReadingsTrue(inverter)
        /\ inverter.settings = ComponentsFor(TrueType, SETTING_COMPONENTS)
    BY <1>1, AtStage DEF Stage, Detecting
  <1>3. /\ i \in Inverters /\ i.type = inverter.type
        /\ i.readings = inverter.readings /\ i.misses = inverter.misses
        /\ i.hasFaultLog = inverter.hasFaultLog
        /\ i.settings = inverter.settings \ {"battery_charge_cutoff"}
    BY <1>2 DEF Inverters
  <1>4. Settle(c, IF Says("config") = "yes" THEN inverter ELSE i)
    BY DEF CutoffAnswered
  <1> HIDE DEF i
  <1>5. CASE Says("config") = "yes"
    <2>1. SettledTruth(inverter)
      BY <1>2, <1>5 DEF SettledTruth, SettingsTrue
    <2>2. QED BY <1>2, <1>4, <1>5, <2>1, SettleTruly
  <1>6. CASE Says("config") # "yes"
    <2>1. SettledTruth(i)
      BY <1>2, <1>3, <1>6 DEF SettledTruth, SettingsTrue, ReadingsTrue
    <2>2. QED BY <1>3, <1>4, <1>6, <2>1, SettleTruly
  <1>7. QED BY <1>5, <1>6

\* The caller leaves, and nothing else changes.
LEMMA LeaveTruly ==
    ASSUME IInv, TruthInv, NEW c \in Callers,
           NEW how \in {"done", "raised", "cancelled"},
           Leave(c, how), UNCHANGED inverter
    PROVE  Truly(c)
  <1>1. run'[c].at = how /\ \A o \in Callers \ {c} : run'[o] = run[o]
    BY QueueLeft DEF IInv
  <1>2. run'[c].at \notin Requests
    BY <1>1, BusyAt
  <1>3. QED BY <1>1, <1>2 DEF Truly, TruthInv

LEMMA ProceedTruly ==
    ASSUME IInv, TruthInv, NEW c \in Callers, Proceed(c)
    PROVE  Truly(c)
  <1> DEFINE t == inverter.type
             request == FirstRequest(t)
  <1>1. CASE Leave(c, "done") /\ UNCHANGED inverter
    BY <1>1, LeaveTruly
  <1>2. CASE ~inverter.settled /\ Await(c, inverter, request)
    <2>1. TypeSoFar(t)
      BY DEF TruthInv
    <2>2. {"phase", "tier", "rating"} \subseteq Requests
      BY DEF Requests
    <2>3. /\ t \subseteq {"PM"} => request = "phase"
          /\ ~(t \subseteq {"PM"}) =>
                \/ "MPPT10" \notin t /\ Matches(t, AppliesTo["pv_1_2"])
                   /\ request = "tier"
                \/ ("MPPT10" \in t \/ ~Matches(t, AppliesTo["pv_1_2"]))
                   /\ request = "rating"
      BY DEF FirstRequest
    <2> HIDE DEF request
    <2>4. CASE t \subseteq {"PM"}
      <3>1. Stage(request, {}, inverter) /\ request \in Requests
        BY <2>2, <2>3, <2>4 DEF Stage, Detecting
      <3>2. QED BY <1>2, <2>1, <3>1, AwaitTruly
    <2>5. CASE ~(t \subseteq {"PM"}) /\ request = "tier"
      <3>1. Matches(t, AppliesTo["pv_1_2"])
        BY <2>3, <2>5
      <3>2. Stage(request, {}, inverter) /\ request \in Requests
        BY <2>2, <2>5, <3>1 DEF Stage, Detecting
      <3>3. QED BY <1>2, <2>1, <3>2, AwaitTruly
    <2>6. CASE ~(t \subseteq {"PM"}) /\ request = "rating"
      <3>1. "MPPT10" \in t \/ ~Matches(t, AppliesTo["pv_1_2"])
        BY <2>3, <2>6
      <3>2. TypeBare(t)
        BY <2>1, <2>6, <3>1, UnaskedIsBare
      <3>3. Stage(request, {}, inverter) /\ request \in Requests
        BY <2>2, <2>6, <3>2 DEF Stage, Detecting
      <3>4. QED BY <1>2, <2>1, <3>3, AwaitTruly
    <2>7. QED BY <2>3, <2>4, <2>5, <2>6
  <1>3. QED BY <1>1, <1>2 DEF Proceed

-----------------------------------------------------------------------------
(***************************************************************************)
(* Every step, and the invariant.                                          *)
(***************************************************************************)
LEMMA RunsTruly ==
    ASSUME IInv, TruthInv, NEW c \in Callers, Runs(c)
    PROVE  Truly(c)
  <1>1. CASE Proceed(c) BY <1>1, ProceedTruly
  <1>2. CASE Answered(c)
    <2>1. CASE PhaseAnswered(c) BY <2>1, PhaseTruly
    <2>2. CASE BatteryAnswered(c) BY <2>2, BatteryTruly
    <2>3. CASE StringsAnswered(c) BY <2>3, StringsTruly
    <2>4. CASE TowerAnswered(c) BY <2>4, TowerTruly
    <2>5. CASE TierAnswered(c) BY <2>5, TierTruly
    <2>6. CASE RatingAnswered(c) BY <2>6, RatingTruly
    <2>7. CASE EpsAnswered(c) BY <2>7, EpsTruly
    <2>8. CASE MeterAnswered(c) BY <2>8, MeterTruly
    <2>9. CASE LogAnswered(c) BY <2>9, LogTruly
    <2>10. CASE CutoffAnswered(c) BY <2>10, CutoffTruly
    <2>11. QED BY <1>2, <2>1, <2>2, <2>3, <2>4, <2>5, <2>6, <2>7, <2>8, <2>9,
                  <2>10 DEF Answered
  <1>3. CASE TowerSilent(c) BY <1>3, TowerTruly
  <1>4. CASE LogMissed(c) BY <1>4, LogTruly
  <1>5. CASE Interrupted(c)
    BY <1>5, LeaveTruly DEF Interrupted
  <1>6. QED BY <1>1, <1>2, <1>3, <1>4, <1>5 DEF Runs

\* Whoever goes on holds the lock.
LEMMA RunsHolder ==
    ASSUME NEW c \in Callers, Runs(c)
    PROVE  Holds(c)
  BY DEF Runs, Proceed, Answered, PhaseAnswered, BatteryAnswered,
         StringsAnswered, TowerAnswered, TierAnswered, RatingAnswered,
         EpsAnswered, MeterAnswered, LogAnswered, CutoffAnswered,
         TowerSilent, LogMissed, Interrupted, At

LEMMA AsksTruly ==
    ASSUME IInv, TruthInv, NEW c \in Callers, Asks(c)
    PROVE  Truly(c) /\ UNCHANGED inverter
  <1>1. run \in [Callers -> Calls]
    BY DEF IInv, TypeOK, Calls
  <1>2. /\ run' = [run EXCEPT ![c] = [run[c] EXCEPT !.at = "waiting"]]
        /\ UNCHANGED inverter
    BY <1>1 DEF Asks, Call
  <1>3. [run[c] EXCEPT !.at = "waiting"].at = "waiting"
    BY <1>1 DEF Calls
  <1>4. run'[c].at = "waiting" /\ \A o \in Callers \ {c} : run'[o] = run[o]
    BY <1>1, <1>2, <1>3
  <1>5. QED BY <1>2, <1>4, BusyAt DEF Truly, TruthInv

LEMMA InitTruthInv == Init => TruthInv
  <1> SUFFICES ASSUME Init PROVE TruthInv
    OBVIOUS
  <1>1. inverter.type = device.type /\ ~inverter.settled
    BY DEF Init, NewInverter
  <1>2. \A c \in Callers : run[c].at = "away"
    BY DEF Init, Away
  <1>3. QED BY <1>1, <1>2, BusyAt DEF TruthInv, TypeSoFar

LEMMA RestartTruly ==
    ASSUME Restart
    PROVE  TruthInv'
  <1>1. /\ inverter'.type = device.type /\ ~inverter'.settled
        /\ device' = device
    BY DEF Restart, NewInverter
  <1>2. \A c \in Callers : run'[c].at = "away"
    BY DEF Restart, Away
  <1>3. "away" \notin Requests
    BY BusyAt
  <1>4. TypeSoFar(inverter.type)'
    BY <1>1 DEF TypeSoFar
  <1>5. \A c \in Callers : run'[c].at \notin Requests
    BY <1>2, <1>3
  <1>6. QED BY <1>1, <1>4, <1>5 DEF TruthInv, Requests

LEMMA NextKeepsTruth == IInv /\ TruthInv /\ [Next]_vars => TruthInv'
  <1> SUFFICES ASSUME IInv, TruthInv, [Next]_vars PROVE TruthInv'
    OBVIOUS
  <1>1. ASSUME NEW c \in Callers, Asks(c) PROVE TruthInv'
    <2>1. UNCHANGED device
      BY <1>1 DEF Asks
    <2>2. QED BY <1>1, <2>1, AsksTruly, TrulyKeeps
  <1>2. ASSUME NEW c \in Callers, Runs(c) PROVE TruthInv'
    <2>1. UNCHANGED device
      BY <1>2 DEF Runs
    <2>2. \A o \in Callers \ {c} : run[o].at \notin Requests
      BY <1>2, RunsHolder DEF IInv, HolderAsks, Holds
    <2>3. QED BY <1>2, <2>1, <2>2, RunsTruly, TrulyKeeps
  <1>3. ASSUME NEW c \in Callers, GivesUp(c) PROVE TruthInv'
    <2>1. UNCHANGED <<device, inverter>> /\ Leave(c, "cancelled")
      BY <1>3 DEF GivesUp, Cancel
    <2>2. QED BY <2>1, LeaveTruly, TrulyKeeps
  <1>4. CASE Restart
    BY <1>4, RestartTruly
  <1>5. CASE UNCHANGED <<device, inverter, run, queue>>
    <2>1. TypeSoFar(inverter.type)' /\ (inverter.settled => SettledTruth(inverter))'
      BY <1>5, SameDevice DEF TruthInv
    <2>2. ASSUME NEW c \in Callers, run'[c].at \in Requests
          PROVE  Stage(run'[c].at, run'[c].detected, inverter')
      BY <1>5, <2>2 DEF TruthInv
    <2>3. \A c \in Callers : run'[c].at \in Requests
            => Stage(run[c].at, run[c].detected, inverter)'
      BY <1>5, <2>2, SameDevice
    <2>4. Requests' = Requests
      BY DEF Requests
    <2>5. QED BY <2>1, <2>3, <2>4 DEF TruthInv
  <1>6. QED BY <1>1, <1>2, <1>3, <1>4, <1>5 DEF Next, Heal, vars

-----------------------------------------------------------------------------
(***************************************************************************)
(* The theorem.                                                            *)
(***************************************************************************)
LEMMA TruthIsServed ==
    ASSUME TypeOK, TruthInv
    PROVE  SettlesOnTheTruth
  <1> SUFFICES ASSUME inverter.settled PROVE SettlesOnTheTruth
    BY DEF SettlesOnTheTruth
  <1>1. TypeTrue(inverter.type) /\ ReadingsTrue(inverter) /\ SettingsTrue(inverter)
    BY DEF TruthInv, SettledTruth
  <1>2. \A c \in READING_COMPONENTS : c # "battery_charge_cutoff"
    BY DEF READING_COMPONENTS
  <1>3. \A c \in SETTING_COMPONENTS : c # "meter_energy" /\ c # "fault_log"
    BY DEF SETTING_COMPONENTS
  <1>4. \A c \in READING_COMPONENTS : Served(c) <=>
            /\ c = "meter_energy" => Says("meter") # "no"
            /\ c = "fault_log" => inverter.hasFaultLog
    <2>1. inverter.hasFaultLog \in BOOLEAN
      BY DEF TypeOK, Inverters
    <2>2. QED BY <1>2, <2>1 DEF Served
  <1>5. \A c \in SETTING_COMPONENTS : Served(c) <=>
            (c = "battery_charge_cutoff" => Says("config") = "yes")
    BY <1>3 DEF Served
  <1>6. inverter.readings = TrueList(READING_COMPONENTS)
    BY <1>1, <1>4 DEF ReadingsTrue, ServedReadings, TrueList, ComponentsFor
  <1>7. inverter.settings = TrueList(SETTING_COMPONENTS)
    BY <1>1, <1>5 DEF SettingsTrue, TrueList, ComponentsFor
  <1>8. QED BY <1>1, <1>6, <1>7 DEF SettlesOnTheTruth, TypeTrue, Same, TowerTold,
               ReadingsTrue

\* What the lists and the type settle on is what the inverter's masks say of
\* it, whichever runs failed, were cancelled or gave up before, at whichever
\* request: no run adds to what an earlier one left but what is true.
THEOREM SettlesTruly == Spec => []SettlesOnTheTruth
  <1>1. Init => IInv /\ TruthInv
    BY InitIInv, InitTruthInv
  <1>2. IInv /\ TruthInv /\ [Next]_vars => (IInv /\ TruthInv)'
    BY NextKeepsIInv, NextKeepsTruth
  <1>3. IInv /\ TruthInv => SettlesOnTheTruth
    BY TruthIsServed DEF IInv
  <1>4. QED BY <1>1, <1>2, <1>3, PTL DEF Spec

-----------------------------------------------------------------------------
(***************************************************************************)
(* The type as it grows.                                                   *)
(***************************************************************************)
\* Of a tier on, or of none.
LEMMA MaskedTiers ==
    ASSUME NEW c \in READING_COMPONENTS \cup SETTING_COMPONENTS
    PROVE  \/ AppliesTo[c] \cap Tiers = {}
           \/ \E rank \in 1..5 : AppliesTo[c] \cap Tiers = TiersFrom(rank)
  <1>1. /\ PvOrHybrid \cap Tiers = {} /\ PvStrings \cap Tiers = {}
        /\ {"X1", "X3", "HYBRID", "EPS", "GEN", "PM"} \cap Tiers = {}
    BY DEF PvOrHybrid, PvStrings, Tiers
  <1>2. \A rank : TiersFrom(rank) \subseteq Tiers
    BY DEF TiersFrom
  <1>3. CASE c \in {"pv_3", "pv_4", "pv_5_6", "pv_7_8", "pv_9_10"}
    <2>1. PICK rank \in 1..5 : AppliesTo[c] = PvStrings \cup TiersFrom(rank)
      BY <1>3 DEF AppliesTo, PvStringsFrom
    <2>2. AppliesTo[c] \cap Tiers = TiersFrom(rank)
      BY <1>1, <1>2, <2>1
    <2>3. QED BY <2>2
  <1>4. CASE c \notin {"pv_3", "pv_4", "pv_5_6", "pv_7_8", "pv_9_10"}
    <2>1. AppliesTo[c] \subseteq
            PvOrHybrid \cup PvStrings \cup {"X1", "X3", "HYBRID", "EPS", "GEN", "PM"}
      BY <1>4 DEF AppliesTo, PvStrings, Offgrid, OffgridSinglePhase,
                  OffgridThreePhase, Batteries1To2, Batteries3To8, Parallel
    <2>2. QED BY <1>1, <2>1
  <1>5. QED BY <1>3, <1>4

\* A set reaches a tier when it ranks as high.
LEMMA RankReaches ==
    ASSUME NEW t, NEW rank \in 1..5
    PROVE  t \cap TiersFrom(rank) # {} <=> TierRank(t) >= rank
  <1> DEFINE D == t \cap Tiers
  <1>1. D \in SUBSET Tiers /\ TierRank(t) = TierRank(D) /\ TierRank({}) = 0
    BY RankOfTiers
  <1>2. t \cap TiersFrom(rank) = {tier \in D : TierRank({tier}) >= rank}
    BY DEF TiersFrom
  <1> HIDE DEF D
  <1>3. CASE D = {}
    BY <1>1, <1>2, <1>3
  <1>4. CASE D # {}
    <2>1. PICK top \in D : \A other \in D : TierRank({other}) <= TierRank({top})
      BY <1>1, <1>4, SomeHighest
    <2>2. TierRank(D) = TierRank({top})
      BY <1>1, <2>1, HighestRanks
    <2>3. ASSUME NEW tier \in D, TierRank({tier}) >= rank
          PROVE  TierRank({top}) >= rank
      <3>1. TierRank({tier}) \in 0..5
        BY RankOfTiers
      <3>2. TierRank({top}) \in 0..5
        BY RankOfTiers
      <3>3. TierRank({tier}) <= TierRank({top})
        BY <2>1
      <3>4. QED BY <2>3, <3>1, <3>2, <3>3
    <2>4. QED BY <1>1, <1>2, <2>2, <2>3
  <1>5. QED BY <1>3, <1>4

LEMMA MoreFlagsMatch ==
    ASSUME NEW t, NEW s, t \subseteq s, NEW mask, Matches(t, mask)
    PROVE  Matches(s, mask)
  BY DEF Matches

LEMMA RaisedMatches ==
    ASSUME NEW t, NEW s, s = RaiseTier(t, RaisedTier(Strings)),
           NEW c \in READING_COMPONENTS \cup SETTING_COMPONENTS,
           Matches(t, AppliesTo[c])
    PROVE  Matches(s, AppliesTo[c])
  <1> DEFINE tier == RaisedTier(Strings)
  <1>1. tier \subseteq Tiers
    BY TopTier DEF RaisedTier
  <1> HIDE DEF tier
  <1>2. CASE TierRank(tier) > TierRank(t)
    <2>1. s = (t \ Tiers) \cup tier
      BY <1>2 DEF RaiseTier, tier
    <2>2. \A group \in Groups \ {Tiers} : group \cap Tiers = {}
      BY GroupFlags DEF Gens, Phases, Families, Tiers
    <2>3. ASSUME NEW group \in Groups \ {Tiers}
          PROVE  s \cap AppliesTo[c] \cap group = t \cap AppliesTo[c] \cap group
      BY <1>1, <2>1, <2>2
    <2>4. Tiers \in Groups
      BY GroupFlags
    <2>5. s \cap AppliesTo[c] \cap Tiers # {} \/ AppliesTo[c] \cap Tiers = {}
      <3>1. SUFFICES ASSUME AppliesTo[c] \cap Tiers # {}
                     PROVE  s \cap AppliesTo[c] \cap Tiers # {}
        OBVIOUS
      <3>2. PICK rank \in 1..5 : AppliesTo[c] \cap Tiers = TiersFrom(rank)
        BY <3>1, MaskedTiers
      <3>3. t \cap TiersFrom(rank) # {}
        BY <2>4, <3>1, <3>2 DEF Matches
      <3>4. TierRank(t) >= rank
        BY <3>3, RankReaches
      <3>5. TierRank(t) \in 0..5 /\ TierRank(tier) \in 0..5
        BY RankOfTiers
      <3>6. tier \cap TiersFrom(rank) # {}
        BY <1>2, <3>4, <3>5, RankReaches
      <3>7. QED BY <2>1, <3>2, <3>6
    <2>6. QED BY <2>3, <2>5 DEF Matches
  <1>3. CASE ~(TierRank(tier) > TierRank(t))
    BY <1>3 DEF RaiseTier, tier
  <1>4. QED BY <1>2, <1>3

\* The type keeps its flags, but for a tier another outranks.
Grows == inverter.type \subseteq inverter'.type
         \/ inverter'.type = RaiseTier(inverter.type, RaisedTier(Strings))

\* What applied to the type before applies to it after.
LEMMA GrowsLists ==
    ASSUME Grows, NEW names \in {READING_COMPONENTS, SETTING_COMPONENTS}
    PROVE  ComponentsFor(inverter.type, names) \subseteq
                ComponentsFor(inverter'.type, names)
  BY MoreFlagsMatch, RaisedMatches DEF Grows, ComponentsFor

LEMMA SettleType ==
    ASSUME NEW c \in Callers, NEW i \in Inverters, Settle(c, i)
    PROVE  inverter'.type = i.type
  BY DEF Settle, Inverters

LEMMA ListSettingsType ==
    ASSUME NEW c \in Callers, NEW i \in Inverters, ListSettings(c, i)
    PROVE  inverter'.type = i.type
  <1> DEFINE listed == [i EXCEPT
                !.settings = ComponentsFor(i.type, SETTING_COMPONENTS)]
  <1>1. listed \in Inverters /\ listed.type = i.type
    BY DEF Inverters, ComponentsFor
  <1>2. inverter' = listed \/ Settle(c, listed)
    BY DEF ListSettings, Await
  <1> HIDE DEF listed
  <1>3. QED BY <1>1, <1>2, SettleType

LEMMA ProbeLogType ==
    ASSUME NEW c \in Callers, NEW i \in Inverters, ProbeLog(c, i)
    PROVE  inverter'.type = i.type
  BY ListSettingsType DEF ProbeLog, Await

LEMMA ListReadingsType ==
    ASSUME NEW c \in Callers, NEW i \in Inverters, ListReadings(c, i)
    PROVE  inverter'.type = i.type
  <1>1. 0 \in 0..FaultLogAttempts
    BY SetupAssumption
  <1>2. Listed(i) \in Inverters /\ Listed(i).type = i.type
    BY <1>1 DEF Listed, Inverters, ComponentsFor
  <1>3. inverter' = Listed(i) \/ ProbeLog(c, Listed(i))
    BY DEF ListReadings, Await
  <1>4. QED BY <1>2, <1>3, ProbeLogType

LEMMA DropLogType ==
    ASSUME NEW c \in Callers, NEW i \in Inverters, ListSettings(c, DropLog(i))
    PROVE  inverter'.type = i.type
  <1>1. DropLog(i) \in Inverters /\ DropLog(i).type = i.type
    BY DEF DropLog, Inverters
  <1>2. QED BY <1>1, ListSettingsType

LEMMA RunsGrow ==
    ASSUME IInv, NEW c \in Callers, Runs(c)
    PROVE  Grows
  <1>1. inverter \in Inverters
    BY DEF IInv, TypeOK
  <1>2. ASSUME inverter' = inverter PROVE Grows
    BY <1>2 DEF Grows
  <1>3. ASSUME Unrecognized(c) PROVE Grows
    BY <1>1, <1>3 DEF Unrecognized, Await, Inverters, Grows
  <1>4. ASSUME NEW flags, Detected(c, flags) PROVE Grows
    BY <1>1, <1>4 DEF Detected, Await, Inverters, Grows
  <1>5. CASE Proceed(c) \/ Interrupted(c)
    BY <1>2, <1>5 DEF Proceed, Interrupted, Await
  <1>6. CASE PhaseAnswered(c)
    BY <1>2, <1>3, <1>6 DEF PhaseAnswered, AwaitKnowing
  <1>7. CASE BatteryAnswered(c)
    BY <1>2, <1>3, <1>7 DEF BatteryAnswered, AwaitKnowing
  <1>8. CASE StringsAnswered(c)
    BY <1>2, <1>3, <1>4, <1>8 DEF StringsAnswered, AwaitKnowing
  <1>9. CASE TowerAnswered(c) \/ TowerSilent(c)
    BY <1>4, <1>9 DEF TowerAnswered, TowerSilent
  <1>10. CASE TierAnswered(c)
    BY <1>1, <1>10 DEF TierAnswered, Await, Inverters, Grows, Strings
  <1>11. CASE RatingAnswered(c)
    BY <1>1, <1>2, <1>11, ListReadingsType DEF RatingAnswered, Await, Grows
  <1>12. CASE EpsAnswered(c)
    <2> DEFINE i == [inverter EXCEPT !.type = @ \cup {"EPS"}]
    <2>1. inverter.type \cup {"EPS"} \in SUBSET InverterFlags
      BY <1>1, KnownFlags DEF Inverters
    <2>2. i \in Inverters /\ i.type = inverter.type \cup {"EPS"}
      BY <1>1, <2>1, NewType
    <2>3. ListReadings(c, i) \/ ListReadings(c, inverter)
      BY <1>12 DEF EpsAnswered
    <2> HIDE DEF i
    <2>4. QED BY <1>1, <2>2, <2>3, ListReadingsType DEF Grows
  <1>13. CASE MeterAnswered(c)
    <2> DEFINE i == [inverter EXCEPT !.readings = @ \ {"meter_energy"}]
    <2>1. i \in Inverters /\ i.type = inverter.type
      BY <1>1 DEF Inverters
    <2>2. ProbeLog(c, i) \/ ProbeLog(c, inverter)
      BY <1>13 DEF MeterAnswered
    <2> HIDE DEF i
    <2>3. QED BY <1>1, <2>1, <2>2, ProbeLogType DEF Grows
  <1>14. CASE LogAnswered(c)
    <2> DEFINE i == [inverter EXCEPT !.hasFaultLog = TRUE]
    <2>1. i \in Inverters /\ i.type = inverter.type
      BY <1>1 DEF Inverters
    <2>2. ListSettings(c, i) \/ ListSettings(c, DropLog(inverter))
      BY <1>14 DEF LogAnswered
    <2> HIDE DEF i
    <2>3. QED BY <1>1, <2>1, <2>2, ListSettingsType, DropLogType DEF Grows
  <1>15. CASE LogMissed(c)
    <2> DEFINE i == [inverter EXCEPT !.misses = @ + 1]
    <2>1. inverter.misses < FaultLogAttempts
      BY <1>15, BusyAt DEF IInv, TriesLeft, LogMissed, At
    <2>2. inverter.misses + 1 \in 0..FaultLogAttempts
      BY <1>1, <2>1, SetupAssumption DEF Inverters
    <2>3. i \in Inverters /\ i.type = inverter.type
      BY <1>1, <2>2 DEF Inverters
    <2>4. inverter' = i \/ ListSettings(c, DropLog(i))
      BY <1>15 DEF LogMissed, Await
    <2> HIDE DEF i
    <2>5. QED BY <2>3, <2>4, DropLogType DEF Grows
  <1>16. CASE CutoffAnswered(c)
    <2> DEFINE i == [inverter EXCEPT !.settings = @ \ {"battery_charge_cutoff"}]
    <2>1. i \in Inverters /\ i.type = inverter.type
      BY <1>1 DEF Inverters
    <2>2. Settle(c, i) \/ Settle(c, inverter)
      BY <1>16 DEF CutoffAnswered
    <2> HIDE DEF i
    <2>3. QED BY <1>1, <2>1, <2>2, SettleType DEF Grows
  <1>17. QED BY <1>5, <1>6, <1>7, <1>8, <1>9, <1>10, <1>11, <1>12, <1>13, <1>14,
                <1>15, <1>16 DEF Runs, Answered

\* What a type applies to is expected until setup settles, except for what
\* only a mask can declare.
LEMMA SettlingDrops ==
    ASSUME IInv, Grows, device' = device, ~inverter.settled,
           inverter'.settled, SettlesOnTheTruth',
           NEW c \in Expected(inverter) \ Expected(inverter')
    PROVE  Denied(c, inverter')
  <1>1. /\ inverter'.readings = TrueList(READING_COMPONENTS)'
        /\ inverter'.settings = TrueList(SETTING_COMPONENTS)'
        /\ Same(inverter'.type, TrueType')
    BY DEF SettlesOnTheTruth, Same
  <1>2. \/ c \in ComponentsFor(inverter.type, READING_COMPONENTS)
        \/ c \in ComponentsFor(inverter.type, SETTING_COMPONENTS)
           /\ c # "battery_charge_cutoff"
    BY DEF Expected, DECLARED_COMPONENTS
  <1>3. \/ c \in ComponentsFor(inverter'.type, READING_COMPONENTS)
        \/ c \in ComponentsFor(inverter'.type, SETTING_COMPONENTS)
           /\ c # "battery_charge_cutoff"
    BY <1>2, GrowsLists
  <1>4. PICK names \in {READING_COMPONENTS, SETTING_COMPONENTS} :
            c \in names /\ Matches(TrueType', AppliesTo[c])
    BY <1>1, <1>3, SameMatches DEF ComponentsFor
  <1>5. c \notin TrueList(READING_COMPONENTS)'
        /\ c \notin TrueList(SETTING_COMPONENTS)'
    BY <1>1 DEF Expected
  <1>6. ~Served(c)'
    BY <1>4, <1>5 DEF TrueList, ComponentsFor
  <1>7. c # "battery_charge_cutoff"
    BY <1>3 DEF ComponentsFor, READING_COMPONENTS
  <1>8. CASE c = "meter_energy"
    BY <1>6, <1>8 DEF Served, Denied, Says
  <1>9. CASE c = "fault_log"
    <2>1. ~inverter'.hasFaultLog
      BY <1>6, <1>9 DEF Served
    <2>2. device.log = "answers" => inverter'.misses = FaultLogAttempts
      BY <1>4, <1>9, <2>1 DEF SettlesOnTheTruth
    <2>3. QED BY <1>9, <2>1, <2>2 DEF Denied
  <1>10. QED BY <1>6, <1>7, <1>8, <1>9 DEF Served

\* No step but a restart takes an expected component back, except the one
\* that settles setup, and that one only what the inverter denies: a type
\* only gains flags, or a tier that outranks its own, whose masks reach as
\* far, and the lists it settles on are the true ones.
THEOREM OnlyTheDeniedDropped == Spec => DropsOnlyTheDenied
  <1>1. ASSUME IInv, SettlesOnTheTruth', [Next]_vars, ~Restart,
               NEW c \in Expected(inverter) \ Expected(inverter')
        PROVE  /\ ~inverter.settled /\ inverter'.settled
               /\ Denied(c, inverter')
    <2>1. inverter' # inverter
      BY <1>1
    <2>2. PICK o \in Callers : Runs(o)
      BY <1>1, <2>1 DEF Next, Heal, vars, Asks, Call, GivesUp, Cancel
    <2>3. Grows /\ device' = device
      BY <1>1, <2>2, RunsGrow DEF Runs
    <2>4. ~inverter.settled
      BY <1>1, <2>1, <2>2, RunsCases DEF GoesOn, Settles, Leaves
    <2>5. inverter'.settled
      BY <1>1, <2>3, <2>4, GrowsLists DEF Expected
    <2>6. QED BY <1>1, <2>3, <2>4, <2>5, SettlingDrops
  <1>2. IInv /\ SettlesOnTheTruth' /\ [Next]_vars =>
            [ ~Restart =>
                \A c \in Expected(inverter) \ Expected(inverter') :
                    /\ ~inverter.settled /\ inverter'.settled
                    /\ Denied(c, inverter') ]_vars
    BY <1>1
  <1>3. QED BY <1>2, InductiveInvariant, SettlesTruly, PTL DEF Spec, DropsOnlyTheDenied
=============================================================================
