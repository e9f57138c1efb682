------------------------------- MODULE Masks --------------------------------
(***************************************************************************)
(* What a model says it serves (src/sofar_modbus/modern/masks.py): a block *)
(* of 64 addresses opens with its own mask, here the set of the offsets it *)
(* declares.  The empty mask stands for a refused one too: both are        *)
(* unusable, as a usable mask declares its own four registers.             *)
(***************************************************************************)
EXTENDS Variants

MASK_REGISTERS == 4
BLOCK_SIZE == 64
SelfBits == 0..MASK_REGISTERS - 1
AllBits == 0..BLOCK_SIZE - 1

\* The blocks setup asks about, with the offset it looks at in each.
Blocks == {"phase", "battery", "strings", "tower", "meter", "config"}
Offset ==
    "phase" :> 24 @@ "battery" :> 4 @@ "tower" :> 0
    @@ "meter" :> 8 @@ "config" :> 27

\* Polled only where their mask declares them.
DECLARED_COMPONENTS == {"battery_charge_cutoff"}

Usable(mask) == SelfBits \subseteq mask

Declares(mask, offset) ==
    CASE ~Usable(mask) -> "unknown"
      [] Usable(mask) /\ offset \in mask -> "yes"
      [] Usable(mask) /\ offset \notin mask -> "no"

\* The offsets of the voltages of PV strings 3 to 10, by the tier that
\* polls each.
StringsOf ==
    "MPPT3" :> {10} @@ "MPPT4" :> {13} @@ "MPPT6" :> {16, 19}
    @@ "MPPT8" :> {22, 25} @@ "MPPT10" :> {28, 31}

Declared(mask) == {t \in Tiers : StringsOf[t] \cap mask # {}}

\* The tier of the highest PV string a usable mask declares; {} for the
\* first two strings.
PvTier(mask) ==
    {t \in Declared(mask) :
        \A other \in Declared(mask) : TierRank({other}) <= TierRank({t})}

\* async_read_pv_tier: blocks that never answer can publish all ones.
RaisedTier(mask) ==
    IF Usable(mask) /\ mask # AllBits THEN PvTier(mask) ELSE {}
=============================================================================
