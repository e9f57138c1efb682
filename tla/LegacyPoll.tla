----------------------------- MODULE LegacyPoll -----------------------------
(***************************************************************************)
(* SofarLegacyInverter (src/sofar_modbus/legacy): setup and poll of the    *)
(* older register map.                                                     *)
(*                                                                         *)
(* Setup takes no lock.  Callers that overlap the first poll each run it,  *)
(* and the one that ends later replaces the poll list and the pooled       *)
(* groups while the other's poll goes on over the old list, looking each   *)
(* name up as it comes to it.  One action is what runs between two awaits. *)
(***************************************************************************)
EXTENDS Variants, Functions, FiniteSets

CONSTANTS
    Callers,     \* tasks that poll the inverter or dump its registers
    Devices      \* the inverters it may be

-----------------------------------------------------------------------------
(***************************************************************************)
(* Types, and what is read of each.                                        *)
(***************************************************************************)

\* The prefixes in the order they are tried.
SerialPrefixes ==
    <<"SE1E", "SM1E", "ZE1E", "ZM1E", "SA1", "SA3", "SB1", "ZA3",
      "SC1", "SD1", "SF4", "SH1", "SJ2", "SL1", "SM1">>

PrefixType(prefix) ==
    CASE prefix \in {"SE1E", "SM1E", "ZE1E", "ZM1E"} -> {"HYBRID", "X1"}
      [] prefix \in {"SA1", "SA3", "SB1", "ZA3"} -> {"PV", "X1"}
      [] prefix \in {"SC1", "SD1", "SF4", "SH1", "SJ2", "SL1"} -> {"PV", "X3"}
      [] prefix = "SM1" -> {"PV"}

\* A serial is the set of the prefixes it starts with: SM1E goes on where
\* SM1 ends, and no other two go together.
Continues(longer, prefix) == longer = "SM1E" /\ prefix = "SM1"

Serials ==
    {{}, {"SM1E", "SM1"}} \cup {{p} : p \in Range(SerialPrefixes) \ {"SM1E"}}

Identify(serial) ==
    LET found == {i \in DOMAIN SerialPrefixes : SerialPrefixes[i] \in serial}
        first == CHOOSE i \in found : \A j \in found : i <= j
    IN  IF found = {} THEN {} ELSE PrefixType(SerialPrefixes[first])

InitialType(d) == IF d.given # {} THEN d.given ELSE Identify(d.serial)

\* What is known of a device: its serial, the type the host gives instead of
\* the serial's ({} for none), and whether it answers its off-grid registers.
ASSUME LegacyAssumption ==
    \A d \in Devices :
        /\ DOMAIN d = {"serial", "given", "eps"}
        /\ d.serial \in Serials
        /\ d.given \subseteq InverterFlags
        /\ d.eps \in BOOLEAN

\* In the order setup goes through them.
COMPONENTS ==
    <<"pv_common", "pv_single_phase", "pv_three_phase", "storage",
      "storage_three_phase", "storage_eps", "hybrid_pv_1", "hybrid_pv_2",
      "battery_settings">>

Components == Range(COMPONENTS)

Before(c, d) ==
    \E i, j \in DOMAIN COMPONENTS : COMPONENTS[i] = c /\ COMPONENTS[j] = d /\ i < j

\* The masks, each named for the first class that declares it.
PvCommon == {"PV"}
SinglePhasePv == {"X1", "PV"}
ThreePhasePv == {"X3", "PV"}
HybridPvString == {"HYBRID"}
Storage == {"AC", "HYBRID"}
StorageThreePhase == {"X3", "AC", "HYBRID"}
StorageEps == {"AC", "HYBRID", "EPS"}
AcBatterySettings == {"AC"}

LegacyAppliesTo ==
    [c \in Components |->
        CASE c = "pv_common" -> PvCommon
          [] c = "pv_single_phase" -> SinglePhasePv
          [] c = "pv_three_phase" -> ThreePhasePv
          [] c \in {"hybrid_pv_1", "hybrid_pv_2"} -> HybridPvString
          [] c = "storage" -> Storage
          [] c = "storage_three_phase" -> StorageThreePhase
          [] c = "storage_eps" -> StorageEps
          [] c = "battery_settings" -> AcBatterySettings]

ServedBy(t) == {c \in Components : Matches(t, LegacyAppliesTo[c])}

None == "nothing"

Pools ==
    [p \in {"storage_block", "pv_block"} |->
        IF p = "storage_block"
        THEN {"storage", "storage_three_phase", "storage_eps"}
        ELSE {"pv_common", "pv_three_phase"}]

Present(p, served) == Pools[p] \cap served

BugLonerPooled(served) == {p \in DOMAIN Pools : Present(p, served) # {}}

\* A lone member polls as itself.
Pooled(served) == {p \in DOMAIN Pools : Cardinality(Present(p, served)) >= 2}

Entry(c, served) ==
    IF \E p \in Pooled(served) : c \in Pools[p]
    THEN CHOOSE p \in Pooled(served) : c \in Pools[p] ELSE c

BugNoDedup(served) ==
    [c \in Components |-> IF c \in served THEN Entry(c, served) ELSE None]

\* A list names each entry once, at the place of its first member: a function
\* from the components to the entries named at their places, read in order.
PollList(served) ==
    [c \in Components |->
        IF c \in served /\ ~\E d \in served :
                Before(d, c) /\ Entry(d, served) = Entry(c, served)
        THEN Entry(c, served) ELSE None]

NoList == [c \in Components |-> None]
Named(list) == {c \in Components : list[c] # None}

-----------------------------------------------------------------------------
VARIABLES
    device,      \* the inverter on the line; it never changes
    type,        \* inverter_type
    groups,      \* the members of storage_block and pv_block, none at first
    polled,      \* the poll list
    done,        \* whether a run of setup has ended well
    call         \* each caller's call in progress, or its last one

vars == <<device, type, groups, polled, done, call>>

(***************************************************************************)
(* The locals of a call.  todo is what is left of its poll list; asked is  *)
(* history: how often each component was asked for.                        *)
(***************************************************************************)
NewCall(kind) ==
    [pc |-> "idle", kind |-> kind, todo |-> NoList, updated |-> {},
     failed |-> {}, asked |-> [c \in Components |-> 0]]

Running == {"probing", "polling"}
Entries == Components \cup DOMAIN Pools
Lists == [Components -> Entries \cup {None}]

Calls ==
    [pc : Running \cup {"idle", "raised", "cancelled", "reported", "dumped"},
     kind : {"poll", "dump"}, todo : Lists, updated : SUBSET Entries,
     failed : SUBSET Entries, asked : [Components -> Nat]]

\* A group has two members or more, or is not there.
TypeOK ==
    /\ device \in Devices
    /\ type \subseteq InverterFlags
    /\ DOMAIN groups = DOMAIN Pools
    /\ \A p \in DOMAIN Pools :
        groups[p] \subseteq Pools[p] /\ (groups[p] = {} \/ Cardinality(groups[p]) >= 2)
    /\ polled \in Lists
    /\ done \in BOOLEAN
    /\ call \in [Callers -> Calls]

Init ==
    /\ device \in Devices
    /\ type = InitialType(device)
    /\ groups = [p \in DOMAIN Pools |-> {}]
    /\ polled = NoList
    /\ done = FALSE
    /\ call = [c \in Callers |-> NewCall("poll")]

\* The types that may have off-grid registers are asked for them.
Probes(t) ==
    "EPS" \notin t /\ Matches(t, StorageEps \ {"EPS"})

Resume(c, q) == call' = [call EXCEPT ![c] = q]

\* Setup is behind the call: it polls the list as it is now, or dumps it.
StartReading(c, q, list) ==
    Resume(c, [q EXCEPT
        !.pc = CASE q.kind = "dump" -> "dumped"
                 [] q.kind = "poll" /\ list = NoList -> "reported"
                 [] OTHER -> "polling",
        !.todo = IF q.kind = "dump" THEN NoList ELSE list])

\* A run of setup ends, t the type it ends with: groups of two or more
\* members are built anew, and the list replaced.
EndSetup(c, q, t) ==
    LET served == ServedBy(t)
    IN  /\ type' = t
        /\ groups' = [p \in DOMAIN Pools |->
                IF p \in Pooled(served) THEN Present(p, served) ELSE groups[p]]
        /\ polled' = PollList(served)
        /\ done' = TRUE
        /\ StartReading(c, q, polled')

-----------------------------------------------------------------------------
(***************************************************************************)
(* A caller's steps.                                                       *)
(***************************************************************************)
Begin(c, kind) ==
    /\ call[c].pc \notin Running
    /\ \/ /\ done
          /\ StartReading(c, NewCall(kind), polled)
          /\ UNCHANGED <<type, groups, polled, done>>
       \/ /\ ~done /\ Probes(type)
          /\ Resume(c, [NewCall(kind) EXCEPT !.pc = "probing"])
          /\ UNCHANGED <<type, groups, polled, done>>
       \/ /\ ~done /\ ~Probes(type)
          /\ EndSetup(c, NewCall(kind), type)

ProbeAnswered(c) ==
    /\ call[c].pc = "probing"
    /\ device.eps
    /\ EndSetup(c, call[c], type \cup {"EPS"})

\* Refused: the type stays what it is, by another caller's probe too.
ProbeRefused(c) ==
    /\ call[c].pc = "probing"
    /\ ~device.eps
    /\ EndSetup(c, call[c], type)

Raise(c) == Resume(c, [call[c] EXCEPT !.pc = "raised"])

BugMissIsRefusal(c) ==
    /\ call[c].pc = "probing"
    /\ EndSetup(c, call[c], type)

BugFailureCleansUp(c) ==
    /\ call[c].pc = "probing"
    /\ Raise(c)
    /\ groups' = [p \in DOMAIN Pools |-> {}]
    /\ UNCHANGED <<type, polled, done>>

\* Any other failure ends the call, and the next one runs setup again.
ProbeFailed(c) ==
    /\ call[c].pc = "probing"
    /\ Raise(c)
    /\ UNCHANGED <<type, groups, polled, done>>

\* The name next in turn stands for the group of this moment.
Members(entry) == IF entry \in DOMAIN Pools THEN groups[entry] ELSE {entry}

\* The read next in turn, that of c's entry, has ended: the poll goes on or
\* reports.
Advance(caller, q, c) ==
    Resume(caller, [q EXCEPT
        !.todo = [@ EXCEPT ![c] = None],
        !.asked = [d \in Components |->
                    IF d \in Members(q.todo[c]) THEN @[d] + 1 ELSE @[d]],
        !.pc = IF Named(q.todo) = {c} THEN "reported" ELSE @])

InTurn(q, c) == c \in Named(q.todo) /\ ~\E d \in Named(q.todo) : Before(d, c)

EntryAnswered(caller) ==
    /\ call[caller].pc = "polling"
    /\ \E c \in Components :
        /\ InTurn(call[caller], c)
        /\ Advance(caller, [call[caller] EXCEPT
                !.updated = @ \cup {call[caller].todo[c]}], c)
    /\ UNCHANGED <<type, groups, polled, done>>

NothingYet(q) == q.updated = {} /\ q.failed = {}

\* The entry's members keep their values; a timeout before anything else
\* ends the poll, so one that goes on with nothing yet was a refusal.
EntryFailed(caller) ==
    /\ call[caller].pc = "polling"
    /\ \E c \in Components :
        /\ InTurn(call[caller], c)
        /\ Advance(caller, [call[caller] EXCEPT
                !.failed = @ \cup {call[caller].todo[c]}], c)
    /\ UNCHANGED <<type, groups, polled, done>>

\* A silent inverter, or a link that goes down under any read.
DeadLink(c, lost) ==
    /\ call[c].pc = "polling"
    /\ lost \/ NothingYet(call[c])
    /\ Raise(c)
    /\ UNCHANGED <<type, groups, polled, done>>

Cancel(c) ==
    /\ call[c].pc \in Running
    /\ Resume(c, [call[c] EXCEPT !.pc = "cancelled"])
    /\ UNCHANGED <<type, groups, polled, done>>

\* Every request ends, one way or another.
Runs(c) ==
    /\ \/ ProbeAnswered(c)
       \/ ProbeRefused(c)
       \/ ProbeFailed(c)
       \/ EntryAnswered(c)
       \/ EntryFailed(c)
       \/ \E lost \in BOOLEAN : DeadLink(c, lost)
    /\ UNCHANGED device

Next ==
    \E c \in Callers :
        \/ \E kind \in {"poll", "dump"} : Begin(c, kind) /\ UNCHANGED device
        \/ Runs(c)
        \/ Cancel(c) /\ UNCHANGED device

Spec == Init /\ [][Next]_vars

-----------------------------------------------------------------------------
(***************************************************************************)
(* Properties.                                                             *)
(***************************************************************************)

\* The type the device has: the host's word or the most specific prefix of
\* its serial, and off-grid registers where it answers them.
KnownType(d) ==
    LET specific == {p \in d.serial : ~\E q \in d.serial : Continues(q, p)}
    IN  IF d.given # {} THEN d.given ELSE UNION {PrefixType(p) : p \in specific}

TrueType ==
    LET known == KnownType(device)
    IN  IF device.eps /\ Probes(known) THEN known \cup {"EPS"} ELSE known

\* Whatever runs of setup overlapped, failed or were cancelled, and in
\* whichever order they ended, they leave the list of the true type: a
\* missed probe is no refusal, and no run undoes what another found.
SettlesOnTheTruth ==
    done => type = TrueType /\ polled = PollList(ServedBy(TrueType))

\* A name in a poll list is a component or a group that is there: a run of
\* setup never takes away a group that an overlapping poll still has to read.
EntriesFound ==
    \A list \in {polled} \cup {call[c].todo : c \in Callers} :
        \A c \in Named(list) : Members(list[c]) # {}

\* A poll that reports has asked for every component the inverter serves,
\* each of them once, pooled or not, though its groups were replaced midway.
ReadsServedOnce ==
    \A caller \in Callers :
        call[caller].pc = "reported" =>
            call[caller].asked =
                [c \in Components |-> IF c \in ServedBy(TrueType) THEN 1 ELSE 0]
=============================================================================
