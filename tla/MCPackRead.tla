----------------------------- MODULE MCPackRead -----------------------------
(***************************************************************************)
(* Instances of PackRead for TLC.                                          *)
(***************************************************************************)
EXTENDS PackRead

CONSTANTS one, two, first, second, outside

MCBoth == {one, two}
MCOne == {one}
MCPacks == {first, second}
MCOutOfRange == {outside}
=============================================================================
