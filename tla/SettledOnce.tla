---------------------------- MODULE SettledOnce ----------------------------
(***************************************************************************)
(* What the setup of SofarInverter (src/sofar_modbus/modern/device.py)     *)
(* promises those who wait for it, whatever it asks and however often it   *)
(* fails: nobody gets through before the component lists are settled, the  *)
(* first to get through settles them, and they stay what everyone found    *)
(* until the program restarts.  Setup implements this; a poll relies on    *)
(* nothing more.                                                           *)
(***************************************************************************)
CONSTANTS
    Callers,    \* those who need the inverter set up
    Lists       \* what setup can settle

VARIABLES
    lists,      \* what it settled: at most one of Lists
    caller      \* each caller: "away", "asking" or "through"

vars == <<lists, caller>>

Init ==
    /\ lists = {}
    /\ caller = [c \in Callers |-> "away"]

Ask(c) ==
    /\ caller[c] # "asking"
    /\ caller' = [caller EXCEPT ![c] = "asking"]
    /\ UNCHANGED lists

GetThrough(c) ==
    /\ caller[c] = "asking"
    /\ lists = {} => lists' \subseteq Lists /\ \E l \in lists' : lists' = {l}
    /\ lists # {} => lists' = lists
    /\ caller' = [caller EXCEPT ![c] = "through"]

\* Setup or what came after it failed, or the caller was cancelled.
Leave(c) ==
    /\ caller[c] # "away"
    /\ caller' = [caller EXCEPT ![c] = "away"]
    /\ UNCHANGED lists

Restart ==
    /\ lists' = {}
    /\ caller' = [c \in Callers |-> "away"]

Next ==
    \/ \E c \in Callers : Ask(c) \/ GetThrough(c) \/ Leave(c)
    \/ Restart

Spec == Init /\ [][Next]_vars
=============================================================================
