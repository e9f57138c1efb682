----------------------------- MODULE TimedUnit -----------------------------
(***************************************************************************)
(* The TimedUnit of src/sofar_modbus/tuning.py: the wrapper every request  *)
(* of an inverter goes through.  It counts the block reads, the requests   *)
(* made while the link was down (which open it) and how many of those      *)
(* failed.  The counts are read before and after an await, so requests of  *)
(* overlapping polls interleave with the tuner that reads the counters.    *)
(*                                                                         *)
(* The code's counters only grow and LinkTuner, their one reader, works on *)
(* differences from its last snapshot; the model keeps the differences.    *)
(* Latency samples feed statistics only and are left out.                  *)
(***************************************************************************)
EXTENDS Integers

CONSTANTS
    MaxReads,     \* bound: block reads between two looks of the tuner
    MaxOpens,     \* bound: opening requests between two looks
    MaxOpening    \* bound: opening requests awaiting an answer at one time

ASSUME TimedUnitBounds ==
    /\ MaxReads \in Nat
    /\ MaxOpens \in Nat
    /\ MaxOpening \in Nat

VARIABLES
    connected,    \* whether the wrapped unit's link is open
    opening,      \* requests in flight that were made while it was down
    reads,        \* block reads made since the tuner last looked
    opens,        \* opening requests made since then
    failedOpens   \* opening requests that failed since then

unitVars == <<connected, opening, reads, opens, failedOpens>>

TimedUnitTypeOK ==
    /\ connected \in BOOLEAN
    /\ opening \in 0..MaxOpening
    /\ reads \in 0..MaxReads
    /\ opens \in 0..MaxOpens
    /\ failedOpens \in 0..(MaxOpens + MaxOpening)

TimedUnitInit ==
    /\ connected = FALSE
    /\ opening = 0
    /\ reads = 0
    /\ opens = 0
    /\ failedOpens = 0

\* A process that starts builds a new unit, over a link still to be opened.
NewUnit ==
    /\ connected' = FALSE
    /\ opening' = 0
    /\ reads' = 0
    /\ opens' = 0
    /\ failedOpens' = 0

(***************************************************************************)
(* A request up to its await: a block read is counted as such, any request *)
(* made while the link is down counts as one that opens it.                *)
(***************************************************************************)
CountRead(isRead) ==
    IF isRead THEN reads < MaxReads /\ reads' = reads + 1
              ELSE UNCHANGED reads

CountOpening ==
    IF connected
    THEN UNCHANGED <<opening, opens>>
    ELSE /\ opening < MaxOpening
         /\ opens < MaxOpens
         /\ opening' = opening + 1
         /\ opens' = opens + 1

BeginRequest(isRead) ==
    /\ CountRead(isRead)
    /\ CountOpening
    /\ UNCHANGED <<connected, failedOpens>>

(***************************************************************************)
(* A request after its await.  One that did not open the link changes no   *)
(* counter when it ends.  A cancelled one is no ModbusError: its open was  *)
(* counted, its failure never is.                                          *)
(***************************************************************************)
OpeningAnswered ==
    /\ opening > 0
    /\ opening' = opening - 1
    /\ UNCHANGED <<connected, reads, opens, failedOpens>>

OpeningFailed ==
    /\ opening > 0
    /\ failedOpens < MaxOpens + MaxOpening
    /\ opening' = opening - 1
    /\ failedOpens' = failedOpens + 1
    /\ UNCHANGED <<connected, reads, opens>>

OpeningCancelled ==
    /\ opening > 0
    /\ opening' = opening - 1
    /\ UNCHANGED <<connected, reads, opens, failedOpens>>

\* The connection underneath opens and drops on its own.
LinkChange ==
    /\ connected' = ~connected
    /\ UNCHANGED <<opening, reads, opens, failedOpens>>
=============================================================================
