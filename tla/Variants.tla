------------------------------ MODULE Variants ------------------------------
(***************************************************************************)
(* Which inverter a component belongs to: the InverterType bitmask of      *)
(* src/sofar_modbus/variants.py as a set of flags, its matching rule, and  *)
(* the mask each component of src/sofar_modbus/modern declares.            *)
(***************************************************************************)
EXTENDS Naturals, Sequences, TLC

Gens == {"GEN", "GEN2", "GEN3", "GEN4"}
Phases == {"X1", "X3"}
Families == {"PV", "AC", "HYBRID", "MIC"}
Tiers == {"MPPT3", "MPPT4", "MPPT6", "MPPT8", "MPPT10"}

\* BAT_BTS belongs to no group, so as a mask it filters nothing.
Groups == {Gens, Phases, Families, {"EPS"}, {"DCB"}, {"PM"}, Tiers}
InverterFlags == (UNION Groups) \cup {"BAT_BTS"}

\* Within a group any flag of the mask will do; a group it names none of
\* matches anything.
Matches(inverter, mask) ==
    \A group \in Groups :
        inverter \cap mask \cap group # {} \/ mask \cap group = {}

\* The bit of a tier, as the flags are ordered; 0 for the first two strings.
TierRank(tiers) ==
    IF "MPPT10" \in tiers THEN 5
    ELSE IF "MPPT8" \in tiers THEN 4
    ELSE IF "MPPT6" \in tiers THEN 3
    ELSE IF "MPPT4" \in tiers THEN 2
    ELSE IF "MPPT3" \in tiers THEN 1
    ELSE 0

TiersFrom(rank) == {t \in Tiers : TierRank({t}) >= rank}

\* The masks, each named for the first components that declare it.
PvOrHybrid == {"PV", "HYBRID"}
Offgrid == {"HYBRID", "EPS"}
OffgridSinglePhase == {"X1", "HYBRID", "EPS"}
OffgridThreePhase == {"X3", "HYBRID", "EPS"}
Batteries1To2 == {"HYBRID"}
Batteries3To8 == {"GEN", "HYBRID"}
Parallel == {"X3", "PM"} \cup PvOrHybrid
PvStrings == {"GEN", "PV", "HYBRID"}
PvStringsFrom(tier) == PvStrings \cup TiersFrom(tier)

\* The code keeps them as lists in polling order, which nothing changes: what
\* setup decides is which of them are on.
READING_COMPONENTS ==
    {"state", "grid", "offgrid", "offgrid_single_phase",
     "offgrid_three_phase", "pv_1_2", "pv_3", "pv_4", "pv_5_6", "pv_7_8",
     "pv_9_10", "battery_1_2", "battery_3_8", "battery_totals", "energy",
     "meter_energy", "battery_energy", "fault_log"}

SETTING_COMPONENTS ==
    {"rtc_sync", "feed_in", "eps", "battery_active_control", "parallel",
     "battery_config_id", "battery_config", "battery_charge_cutoff",
     "remote", "active_power_control", "charger", "passive"}

\* A component's mask is its class's applies_to.
AppliesTo ==
    [c \in READING_COMPONENTS \cup SETTING_COMPONENTS |->
        CASE c \in {"state", "grid", "energy", "meter_energy", "fault_log",
                    "rtc_sync", "feed_in", "remote", "active_power_control"}
                -> PvOrHybrid
          [] c \in {"offgrid", "eps"} -> Offgrid
          [] c = "offgrid_single_phase" -> OffgridSinglePhase
          [] c = "offgrid_three_phase" -> OffgridThreePhase
          [] c = "battery_3_8" -> Batteries3To8
          [] c = "parallel" -> Parallel
          [] c = "pv_1_2" -> PvStrings
          [] c = "pv_3" -> PvStringsFrom(1)
          [] c = "pv_4" -> PvStringsFrom(2)
          [] c = "pv_5_6" -> PvStringsFrom(3)
          [] c = "pv_7_8" -> PvStringsFrom(4)
          [] c = "pv_9_10" -> PvStringsFrom(5)
          [] OTHER -> Batteries1To2]

\* The components among names the type applies to.
ComponentsFor(type, names) ==
    {c \in names : Matches(type, AppliesTo[c])}

\* The types the serial prefixes stand for; {} for an unrecognised serial.
SerialTypes ==
    {{}, {"HYBRID", "X3"}, {"PV", "X3", "GEN", "MPPT10"},
     {"HYBRID", "X3", "GEN", "BAT_BTS"}, {"HYBRID", "X3", "GEN"},
     {"HYBRID", "X1", "GEN"}, {"PV", "X1", "GEN"}, {"PV", "X3", "GEN"},
     {"PV", "X1"}, {"PV", "X3"}}
=============================================================================
