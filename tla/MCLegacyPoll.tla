---------------------------- MODULE MCLegacyPoll ----------------------------
(***************************************************************************)
(* Instances of LegacyPoll for TLC: a serial for every prefix, with and    *)
(* without off-grid registers, and the types only a host can give.         *)
(***************************************************************************)
EXTENDS LegacyPoll

CONSTANTS one, two

Given == {{"AC", "X1"}, {"AC", "X3"}, {"HYBRID", "X3"}, {"HYBRID", "X1", "EPS"}}

MCDevices ==
    [serial : Serials, given : {{}}, eps : BOOLEAN]
    \cup [serial : {{}}, given : Given, eps : BOOLEAN]

MCCallers == {one, two}
=============================================================================
