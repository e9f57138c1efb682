------------------------------- MODULE Faults -------------------------------
(***************************************************************************)
(* What the fault registers and the slots of the event log say             *)
(* (src/sofar_modbus/modern: enums.py, faults.py, inverter.py and          *)
(* fault_log.py): which fault a bit stands for, and which entry a slot     *)
(* holds.  A fault is its vendor id, a flags register the set of its bits, *)
(* any other register a number.                                            *)
(***************************************************************************)
EXTENDS Integers

-----------------------------------------------------------------------------
(***************************************************************************)
(* The state component's fault registers.                                  *)
(***************************************************************************)

\* 20, 21, 24 and 25 are reserved.
FaultRegisters == 1..19 \cup {22, 23} \cup 26..30
Bits == 0..15

\* The bits of a register that have a member, those of most registers all.
Members(n) ==
    CASE n = 4 -> 0..6 \cup 8..13
      [] n = 5 -> 0..11
      [] n = 6 -> 0..12
      [] n = 7 -> 0..3 \cup 5..10 \cup 13..15
      [] n = 8 -> 0..5 \cup {8, 9, 11, 12}
      [] n = 11 -> 0..3 \cup 8..14
      [] n = 28 -> {8}
      [] n = 29 -> 0..4 \cup {15}
      [] n = 30 -> 0..2 \cup {15}
      [] OTHER -> Bits

\* The id in a member's name: the vendor numbers bits through the registers.
IdOf(n, bit) == 16 * (n - 1) + bit + 1

\* Every fault there is; ids 464 and 480 are the vendor's filler.
FAULTS ==
    1..55 \cup 57..62 \cup 65..76 \cup 81..93 \cup 97..100 \cup 102..107
    \cup 110..118 \cup {121, 122, 124, 125} \cup 129..164 \cup 169..175
    \cup 177..304 \cup 337..368 \cup 401..432 \cup {441} \cup 449..453
    \cup 465..467

BugFaultsByBit(n) ==
    [bit \in Members(n) |->
        IdOf(CHOOSE m \in FaultRegisters :
                /\ bit \in Members(m)
                /\ \A k \in FaultRegisters : bit \in Members(k) => m <= k, bit)]

\* _REGISTER_FAULTS, looked up by the register and then the bit: bits of
\* two registers are equal as numbers.
FaultsOf(n) == [bit \in Members(n) |-> IdOf(n, bit)]

ActiveFaults(registers) ==
    FAULTS \cap UNION {{FaultsOf(n)[bit] : bit \in registers[n] \cap Members(n)} :
                            n \in FaultRegisters}

-----------------------------------------------------------------------------
(***************************************************************************)
(* Moments: year, month, day, hour, minute and second.                     *)
(***************************************************************************)
NoDate == <<>>

\* What a slot of the log can hold, a moment or not.
Stamps ==
    (2000..2255) \X (0..255) \X (0..255) \X (0..255) \X (0..255) \X (0..255)

Leap(year) == year % 4 = 0 /\ (year % 100 = 0 => year % 400 = 0)

DaysIn(year, month) ==
    CASE month = 2 -> IF Leap(year) THEN 29 ELSE 28
      [] month \in {4, 6, 9, 11} -> 30
      [] OTHER -> 31

\* The parts if they make a date: datetime's constructor raises otherwise.
Date(parts) ==
    IF /\ parts[2] \in 1..12
       /\ parts[3] \in 1..DaysIn(parts[1], parts[2])
       /\ parts[4] \in 0..23 /\ parts[5] \in 0..59 /\ parts[6] \in 0..59
    THEN parts ELSE NoDate

\* Identity.rtc: an unset clock reports parts that are none.
Rtc(words) == Date([words EXCEPT ![1] = 2000 + (@ % 100)])

-----------------------------------------------------------------------------
(***************************************************************************)
(* A slot of the event log: the id, and the moment two parts to a word.    *)
(***************************************************************************)
High(word) == word \div 256
Low(word) == word % 256

OccurredAt(slot) ==
    Date(<<2000 + High(slot[2]), Low(slot[2]), High(slot[3]), Low(slot[3]),
           High(slot[4]), Low(slot[4])>>)

NoEntry == <<>>

\* An unknown id or a bad date is no entry, an empty slot neither.
Entry(slot) ==
    IF slot[1] \in FAULTS /\ OccurredAt(slot) # NoDate
    THEN <<slot[1], OccurredAt(slot)>> ELSE NoEntry
=============================================================================
