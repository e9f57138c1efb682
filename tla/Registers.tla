----------------------------- MODULE Registers ------------------------------
(***************************************************************************)
(* The registers of one component of SofarInverter, read and written while *)
(* the inverter changes them (src/sofar_modbus/modern: inverter.py,        *)
(* fault_log.py, settings.py, device.py).                                  *)
(*                                                                         *)
(* A read takes as many requests as the component's span needs and its     *)
(* values together after the last one, so what it shows can be of several  *)
(* moments.  A setting is written as one block of registers, by anyone and *)
(* at any time; the inverter can take a write whose answer is lost, late   *)
(* or never.                                                               *)
(***************************************************************************)
EXTENDS Faults, Sequences, FiniteSets

CONSTANTS
    Parts,       \* the parts read and written; see PartAssumption
    Events,      \* what the inverter logs, over and over
    MaxSent      \* bound: writes on their way to the inverter

Settings == {"feed_in", "active_power", "eps", "passive_timeout", "passive_power"}
Names == {"state", "fault_log", "clock"} \cup Settings

-----------------------------------------------------------------------------
(***************************************************************************)
(* Fields, and the requests that read them.                                *)
(***************************************************************************)
MaxSpan == 48
BugEntriesRead == 16
EntriesRead == 10

FieldsOf(name) ==
    CASE name = "state" -> FaultRegisters
      [] name = "fault_log" -> 1..EntriesRead
      [] name \in {"clock", "passive_power"} -> 1..6
      [] OTHER -> 1..2

\* The fault registers stand in two rows, with other registers between.
FirstRow(n) == n
SecondRow(n) == n + 27

\* Where a field starts, from the component's first register on.
Offset(name, field) ==
    CASE name = "state" -> IF field <= 18 THEN FirstRow(field) ELSE SecondRow(field)
      [] name = "fault_log" -> 4 * (field - 1)
      [] OTHER -> field - 1

RequestOf(name, field) == Offset(name, field) \div MaxSpan

-----------------------------------------------------------------------------
(***************************************************************************)
(* Writes: what is accepted, and the words it puts into the registers.     *)
(***************************************************************************)
WordLimit == 65536
WordRange == 0..(WordLimit - 1)
Int32 == ((-32768) * WordLimit)..(32767 * WordLimit + 65535)

\* The moments a clock of two-digit years can have.
Dates == {at \in Stamps : at[1] < 2100 /\ Date(at) # NoDate}

\* What hosts can ask for, as far as registers hold it: a mode and watts, a
\* switch and twentieths of a percent, a mode, seconds and an action, watts
\* three times, a moment of this century.  Beyond it the library finds no
\* words to send, or, of a moment, only those of its last two digits.
FeedInAsks == {ask \in (0..2) \X Int : ask[2] \div 100 \in WordRange}
ActivePowerAsks == BOOLEAN \X Int
EpsAsks == 0..2
PassiveTimeoutAsks == Int \X (0..1)
PassivePowerAsks == Int32 \X Int32 \X Int32

Asks(name) ==
    CASE name = "feed_in" -> FeedInAsks
      [] name = "active_power" -> ActivePowerAsks
      [] name = "eps" -> EpsAsks
      [] name = "passive_timeout" -> PassiveTimeoutAsks
      [] name = "passive_power" -> PassivePowerAsks
      [] name = "clock" -> Dates
      [] OTHER -> {}

FullPower == 2000

FeedInAccepts(ask) == ask[2] % 100 = 0
ActivePowerAccepts(ask) == ask[2] \in 0..FullPower
PassiveTimeoutAccepts(ask) == ask[1] \in WordRange

\* What the methods check before they write; the others write what they get.
Accepts(name, ask) ==
    CASE name = "feed_in" -> FeedInAccepts(ask)
      [] name = "active_power" -> ActivePowerAccepts(ask)
      [] name = "passive_timeout" -> PassiveTimeoutAccepts(ask)
      [] OTHER -> TRUE

\* A part is its name, what the inverter can make of it by itself, and what
\* hosts ask to have written.  The inverter means by the state the ids of
\* its faults, by the log the number of events, by the clock the moment,
\* and by a setting what it was asked for.
ASSUME PartAssumption ==
    \A p \in Parts :
        /\ DOMAIN p = {"name", "means", "asks"}
        /\ p.name \in Names
        /\ p.asks \subseteq Asks(p.name)
        /\ p.name = "state" => p.means \subseteq SUBSET Nat
        /\ p.name = "fault_log" => p.means \subseteq Nat
        /\ p.name = "clock" => p.means \subseteq Dates \cup {NoDate}
        /\ p.name \in Settings =>
            \A m \in p.means : m \in Asks(p.name) /\ Accepts(p.name, m)

ASSUME MaxSentAssumption == MaxSent \in Nat

\* round(): a tie goes to the even neighbour.
HalfRounded(k) == IF k % 4 = 1 THEN k \div 2 ELSE (k + 1) \div 2

BugHighWord(value) == value \div WordLimit

\* An int32 in two words.
HighWord(value) == (value \div WordLimit) % WordLimit
LowWord(value) == value % WordLimit

FeedInWords(ask) == <<ask[1], ask[2] \div 100>>
ActivePowerWords(ask) == <<IF ask[1] THEN 1 ELSE 0, HalfRounded(ask[2])>>
EpsWords(mode) == <<mode, 0>>
PassiveTimeoutWords(ask) == ask
PassivePowerWords(ask) ==
    <<HighWord(ask[1]), LowWord(ask[1]), HighWord(ask[2]), LowWord(ask[2]),
      HighWord(ask[3]), LowWord(ask[3])>>

\* A seventh word has the inverter take the six, and is not read back.
ClockWords(at) == [at EXCEPT ![1] = @ % 100]

Words(name, ask) ==
    CASE name = "feed_in" -> FeedInWords(ask)
      [] name = "active_power" -> ActivePowerWords(ask)
      [] name = "eps" -> EpsWords(ask)
      [] name = "passive_timeout" -> PassiveTimeoutWords(ask)
      [] name = "passive_power" -> PassivePowerWords(ask)
      [] name = "clock" -> ClockWords(ask)

Signed(high, low) == (IF high >= 32768 THEN high - WordLimit ELSE high) * WordLimit + low

\* What the fields show a host of a setting or the clock.
FeedInShown(words) == <<words[1], words[2] * 100>>
ActivePowerShown(words) == <<words[1] = 1, words[2] * 2>>
EpsShown(words) == words[1]
PassiveTimeoutShown(words) == <<words[1], words[2]>>
PassivePowerShown(words) ==
    <<Signed(words[1], words[2]), Signed(words[3], words[4]),
      Signed(words[5], words[6])>>

Shown(name, words) ==
    CASE name = "feed_in" -> FeedInShown(words)
      [] name = "active_power" -> ActivePowerShown(words)
      [] name = "eps" -> EpsShown(words)
      [] name = "passive_timeout" -> PassiveTimeoutShown(words)
      [] name = "passive_power" -> PassivePowerShown(words)
      [] name = "clock" -> Rtc(words)

-----------------------------------------------------------------------------
(***************************************************************************)
(* What the inverter itself puts there.                                    *)
(***************************************************************************)
\* An event is good if it has a known fault and a moment that ever was.
ASSUME EventAssumption ==
    /\ Events \in Seq([id : WordRange, at : Stamps, good : BOOLEAN]) /\ Events # <<>>
    /\ \A i \in DOMAIN Events :
        Events[i].good <=> Events[i].id \in FAULTS /\ Date(Events[i].at) # NoDate

Event(n) == Events[((n - 1) % Len(Events)) + 1]

EventWords(event) ==
    <<event.id, 256 * (event.at[1] - 2000) + event.at[2],
      256 * event.at[3] + event.at[4], 256 * event.at[5] + event.at[6]>>

\* The log puts the newest event first, and a clock nobody set shows zeros.
InverterWords(name, meant) ==
    CASE name = "state" ->
            [n \in FaultRegisters |-> {bit \in Bits : IdOf(n, bit) \in meant}]
      [] name = "fault_log" ->
            [j \in 1..EntriesRead |->
                IF j <= meant THEN EventWords(Event(meant - j + 1))
                ELSE <<0, 0, 0, 0>>]
      [] name = "clock" /\ meant = NoDate -> <<0, 0, 0, 0, 0, 0>>
      [] OTHER -> Words(name, meant)

-----------------------------------------------------------------------------
VARIABLES
    part,        \* the part looked at; it never changes
    meant,       \* what the inverter means by it
    memory,      \* its registers
    sent,        \* writes the inverter may still take
    reading,     \* the host's read: "idle", "reading" or "done"
    taken,       \* the fields its requests have brought so far
    values,      \* the component's fields, as last read
    moments      \* history: what was meant while the read was under way

vars == <<part, meant, memory, sent, reading, taken, values, moments>>

Fields == FieldsOf(part.name)
Unread == <<>>

WordSet ==
    CASE part.name = "state" -> SUBSET Bits
      [] part.name = "fault_log" -> [1..4 -> WordRange]
      [] OTHER -> WordRange

TypeOK ==
    /\ part \in Parts
    /\ meant \in part.means \cup part.asks
    /\ memory \in [Fields -> WordSet]
    /\ sent \subseteq part.asks
    /\ reading \in {"idle", "reading", "done"}
    /\ DOMAIN taken \subseteq Fields
    /\ \A f \in DOMAIN taken : taken[f] \in WordSet
    /\ values = Unread \/ values \in [Fields -> WordSet]
    /\ moments \subseteq part.means \cup part.asks

Init ==
    /\ part \in Parts
    /\ meant \in part.means
    /\ memory = InverterWords(part.name, meant)
    /\ sent = {}
    /\ reading = "idle"
    /\ taken = Unread
    /\ values = Unread
    /\ moments = {}

\* The inverter now means something else, and the read in progress sees it.
Means(m, words) ==
    /\ meant' = m
    /\ memory' = words
    /\ moments' = IF reading = "reading" THEN moments \cup {m} ELSE moments

\* Faults come and go, events are logged, time passes.
InverterMoves ==
    /\ part.name \notin Settings
    /\ \E m \in part.means :
        /\ part.name = "fault_log" => m = meant + 1
        /\ Means(m, InverterWords(part.name, m))
    /\ UNCHANGED <<part, sent, reading, taken, values>>

\* A write is refused before it is sent, or goes out as one block.
Send(ask) ==
    /\ Accepts(part.name, ask)
    /\ Cardinality(sent) < MaxSent
    /\ sent' = sent \cup {ask}
    /\ UNCHANGED <<part, meant, memory, reading, taken, values, moments>>

\* Whether its answer comes back or not.
TakeWrite(ask) ==
    /\ ask \in sent
    /\ sent' = sent \ {ask}
    /\ Means(ask, Words(part.name, ask))
    /\ UNCHANGED <<part, reading, taken, values>>

LoseWrite(ask) ==
    /\ ask \in sent
    /\ sent' = sent \ {ask}
    /\ UNCHANGED <<part, meant, memory, reading, taken, values, moments>>

BeginRead ==
    /\ reading # "reading"
    /\ reading' = "reading"
    /\ moments' = {meant}
    /\ UNCHANGED <<part, meant, memory, sent, taken, values>>

\* The fields of the request next in turn.
NextFields ==
    {f \in Fields \ DOMAIN taken :
        \A g \in Fields \ DOMAIN taken :
            RequestOf(part.name, f) <= RequestOf(part.name, g)}

Brought == [f \in DOMAIN taken \cup NextFields |->
                IF f \in DOMAIN taken THEN taken[f] ELSE memory[f]]

RequestAnswered ==
    /\ reading = "reading"
    /\ \/ /\ DOMAIN Brought # Fields
          /\ taken' = Brought
          /\ UNCHANGED <<reading, values>>
       \/ /\ DOMAIN Brought = Fields
          /\ taken' = Unread
          /\ reading' = "done"
          /\ values' = Brought
    /\ UNCHANGED <<part, meant, memory, sent, moments>>

\* A request fails or the read is cancelled: the component keeps its values.
ReadFails ==
    /\ reading = "reading"
    /\ reading' = "idle"
    /\ taken' = Unread
    /\ moments' = {}
    /\ UNCHANGED <<part, meant, memory, sent, values>>

Next ==
    \/ InverterMoves
    \/ \E ask \in part.asks : Send(ask) \/ TakeWrite(ask) \/ LoseWrite(ask)
    \/ BeginRead
    \/ RequestAnswered
    \/ ReadFails

Spec == Init /\ [][Next]_vars

-----------------------------------------------------------------------------
(***************************************************************************)
(* Properties.                                                             *)
(***************************************************************************)

\* The fault registers lie too far apart for one request, so a read can miss
\* a fault that comes as another goes.  But a fault active all through the
\* read is reported, whichever register and bit it has, and one reported was
\* active at some moment of it.
FaultsRegular ==
    reading = "done" /\ part.name = "state" =>
        LET active == ActiveFaults(values)
        IN  \A fault \in FAULTS :
                /\ (\A m \in moments : fault \in m) => fault \in active
                /\ fault \in active => \E m \in moments : fault \in m

Filled(entries) == SelectSeq(entries, LAMBDA e : e # NoEntry)

\* The entries a log of n events shows: the newest first, those of a known
\* fault and a real date.
Entries(slots) ==
    Filled([j \in 1..EntriesRead |-> Entry(slots[j])])

Logged(n) ==
    Filled([j \in 1..EntriesRead |->
                IF j <= n /\ Event(n - j + 1).good
                THEN <<Event(n - j + 1).id, Event(n - j + 1).at>> ELSE NoEntry])

\* To within half a register's step, and never more than the full power.
Tells(name, words, m) ==
    CASE name = "fault_log" -> Entries(words) = Logged(m)
      [] name = "active_power" ->
            LET shown == Shown(name, words)
            IN  /\ shown[1] = m[1]
                /\ shown[2] \in 0..FullPower /\ (shown[2] - m[2]) \in -1..1
      [] OTHER -> Shown(name, words) = m

\* Log, clock and settings are read in one request and written in one, so a
\* read shows what the inverter meant at one moment of it: no entry twice or
\* left out as another is logged, no midnight half passed, no mode with the
\* value of another write, no value wrapped, rounded away or out of range.
OneMoment ==
    reading = "done" /\ part.name # "state" =>
        \E m \in moments : Tells(part.name, values, m)
=============================================================================
