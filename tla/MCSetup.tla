------------------------------ MODULE MCSetup -------------------------------
(***************************************************************************)
(* Instances of Setup for TLC: inverters that differ in what they declare. *)
(***************************************************************************)
EXTENDS Setup

CONSTANTS one, two

\* A usable mask declares its own registers, and the offsets given.
Mask(offsets) == 0..3 \cup offsets
Refused == {}

\* A serial no one knows on a three-phase hybrid with a tower, four strings
\* and every optional part.
FullHybrid ==
    [type |-> {}, eps |-> TRUE, log |-> "answers", silent |-> {},
     mask |-> "phase" :> Mask({24}) @@ "battery" :> Mask({4})
              @@ "strings" :> Mask({10, 13}) @@ "tower" :> Mask({})
              @@ "meter" :> Mask({8}) @@ "config" :> Mask({27})]

\* The same hybrid, its parallel registers read.
ParallelHybrid == [FullHybrid EXCEPT !.type = {"PM"}]

\* A single-phase string inverter whose string mask is all ones, which no
\* mask of its own can deny.
AllOnes ==
    [FullHybrid EXCEPT !.eps = FALSE, !.log = "junk",
        !.mask["phase"] = Mask({}), !.mask["battery"] = Mask({}),
        !.mask["strings"] = AllBits, !.mask["meter"] = Mask({}),
        !.mask["config"] = Refused]

\* The same one with a serial that names it.
AllOnesNamed == [AllOnes EXCEPT !.type = {"PV", "X1", "GEN"}]

\* A model that publishes no usable mask of its batteries.
Mute == [FullHybrid EXCEPT !.mask["battery"] = Refused]

\* A named hybrid, its mask declaring six strings, its log silent.
NamedHybrid ==
    [FullHybrid EXCEPT !.type = {"HYBRID", "X3", "GEN", "BAT_BTS"},
        !.mask["strings"] = Mask({10, 13, 16}), !.silent = {"fault_log"}]

\* A host that names more strings than the mask declares.
Overstated ==
    [FullHybrid EXCEPT !.type = {"HYBRID", "X1", "GEN", "MPPT6"},
        !.eps = FALSE, !.mask["config"] = Mask({}), !.log = "refused"]

\* A hybrid without an off-grid block, which leaves it unanswered.
SilentOffgrid == [Overstated EXCEPT !.silent = {"eps"}]

\* A hybrid without a tower, whose block nobody answers for.
SilentTower ==
    [FullHybrid EXCEPT !.silent = {"tower", "fault_log"}, !.eps = FALSE]

\* The older serials carry no generation, so nobody asks for their strings.
OldSerial == [AllOnes EXCEPT !.type = {"PV", "X1"}, !.log = "answers"]

\* A serial that names ten strings.
TenStrings ==
    [AllOnes EXCEPT !.type = {"PV", "X3", "GEN", "MPPT10"}, !.log = "answers",
        !.mask["meter"] = Refused]

\* Every type a serial stands for, over the hybrid's masks.
Serials == {[FullHybrid EXCEPT !.type = t] : t \in SerialTypes}

MCDevices == {ParallelHybrid, AllOnes, AllOnesNamed, Mute, NamedHybrid,
              Overstated, SilentOffgrid, SilentTower, OldSerial,
              TenStrings} \cup Serials

MCCallers == {one, two}
=============================================================================
