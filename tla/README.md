# A TLA+ model of sofar-modbus

`sofar-modbus` reads Sofar solar inverters over Modbus. A host (typically Home
Assistant) builds a `SofarInverter` on a `ModbusUnit`, polls it every cycle and
listens to its components. The library decides what to read, tries again what
failed, and tunes the link to what its own traffic shows. Everything runs on one
asyncio event loop, so the code between two `await`s is atomic and everything
else interleaves: overlapping polls, an identity read beside them, requests in
flight, cancelled tasks, restarts with stored state. That is what is modelled
here. Paths below are relative to `src/sofar_modbus/` unless they start with
`README.md`, which is the repository's own.

## Inventory

| Part | State it keeps | Operations | Where it is modelled |
|---|---|---|---|
| `TimedUnit` (tuning.py) | counters `reads`, `opens`, `failed_opens`; a window of latencies | every Modbus request, counted around its await | `TimedUnit.tla`; statistics not modelled |
| `LinkTuner` (tuning.py) | frame gap, counts of crowded and quiet polls, patience, components that have answered, reads per poll, connect pause, failed opens | `observe`, `observe_failure`, `restore`, `tuning` | `LinkTuner.tla` |
| Polls of `SofarInverter` (modern/device.py) | the `UpdateReport` of each poll in progress, component lists | `async_update_readings`, `async_update_settings`, `async_update` | `TunedPoll.tla`, `PollContract.tla` |
| Identity (modern/device.py) | `_identity_pending` | `async_read_identity`, a late try in each poll | `TunedPoll.tla` |
| Setup (modern/device.py) | inverter type, component lists, `_settled`, `_unrecognized`, `_has_fault_log`, a lock | `async_ensure_setup` before every poll | `Setup.tla` |
| Masks (modern/masks.py) | none | type detection, string tier, is an address served | `Masks.tla` |
| Variants (variants.py, `applies_to` of each component) | none | `matches` | `Variants.tla` |
| Battery packs (modern/battery_pack.py, device.py) | the selection register in the tower, one shared component | `async_read_pack` | `PackRead.tla` |
| Torn-read correction (model.py) | high-water mark and corrected value per total | each update, `seed` | `TornRead.tla` |
| `SofarLegacyInverter` (legacy/) | type, pooled groups, poll list | `async_update`, setup without a lock, dumps | `LegacyPoll.tla` |
| Fault tables, event log (modern/enums.py, faults.py, fault_log.py) | none | lookups of bits and slots | `Faults.tla` |
| Reads and settings writes of a component (modern/settings.py, inverter.py) | the component's fields | one read in one or two requests; range checks, rounding, one write | `Registers.tla` |
| Other register declarations, enumerations | none | none | not modelled |
| Diagnostics (`async_read_raw`, `async_read_masks`, script/query.py) | none | sequential reads | not modelled |
| `modbus_connection` (external) | the connection | answers, fails or times out a request; runs `_async_setup` until it succeeds once; notifies listeners | as the environment of each module |

How they interact: a poll first awaits setup (one lock for all callers), reads
its components one by one through `TimedUnit`, retries once what failed,
perhaps tries the identity, then, without a further await, hands the outcome to
the tuner and fires the listeners of what was updated. The tuner reads the
counters of `TimedUnit` and sets the unit's gap and pause. A poll that raises
tells the tuner only that.

What is hard here, and what makes each part correct:

* **Interleaving.** A poll is observed while other polls' requests are in
  flight, and setup and identity are shared by all of them. Lists must be
  settled once and stay; each poll must keep its promise to its caller whatever
  the others do; failed opens must be counted once.
* **Partial failure and resumption.** Setup is a dozen requests, writes its
  results as it goes and resumes from them after a failure. It must come to
  what an undisturbed setup would.
* **Retries and timeouts.** A report filled over two passes must account for
  each component once; a dead inverter must not cost double; the tuner must
  hear of failures the retry hid; a missed answer is no verdict, silence is one
  only where the code says so.
* **Long sequences.** The tuner's counts, doubling patience and ladders must
  move on fresh evidence only, agree with the unit and fit the budget.
* **Torn and mixed reads.** A counter caught mid-update must not take a total
  back, yet a reset must show; what a read shows must have been so at some
  moment of it, whoever writes meanwhile.
* **Restart.** A stored tuning, total or fault-log flag must bring back what it
  stood for.
* **Termination.** Polls and calls end; the gap is given back on a calm line;
  setup settles on a calm line.

`PROJECT.json` lists the hazards one by one, at their lines, with the properties
that watch them.

## Modules

| Module | What it is |
|---|---|
| `Reports` | the vocabulary polls and tuner share: components, kinds of error, and which outcomes a poll can produce |
| `TimedUnit` | request counters around an await; at most a bounded number of requests in flight |
| `LinkTuner` | extends it with the tuner, a host that stores the tuning, and restarts |
| `LinkTunerProofs` | theorems about `LinkTuner` |
| `MCLinkTuner` | instances of it |
| `PollContract` | what a caller of a poll is promised, in four actions |
| `SettledOnce` | what setup promises whoever waits for it: settled once, for all |
| `TunedPoll` | the poll, await by await; implements `PollContract`, relies on `SettledOnce` |
| `TunedPollProofs` | theorems about `TunedPoll`: its invariants, and both refinements |
| `MCTunedPoll` | two installations of it |
| `Variants`, `Masks` | pure operators: matching and component masks; what a mask declares |
| `Setup` | setup, request by request, with its lock; implements `SettledOnce` |
| `SetupProofs` | theorems about `Setup`: its lock, and the promise it implements |
| `SetupTruthProofs` | theorems about `Setup`: what it settles on |
| `MCSetup` | instances of it: twenty kinds of inverter |
| `PackRead` | reading one battery pack of a tower, request by request, and the tower |
| `PackReadProofs`, `MCPackRead` | theorems about it, and instances of it |
| `TornRead` | energy totals: counters, reads, the correction as a listener, seeds, restarts |
| `TornReadProofs`, `MCTornRead` | theorems about it, and an instance of it |
| `LegacyPoll` | the legacy inverter: setup without a lock, pooled polls |
| `LegacyPollProofs`, `MCLegacyPoll` | theorems about it, and instances of it |
| `Faults` | pure operators: the fault a bit stands for, the entry a log slot holds |
| `Registers` | one component read in its requests, while the inverter and hosts change it |
| `RegistersProofs`, `MCRegisters` | theorems about it, and instances of it: every fault, a log that overflows, settings at their edges |

The modules meet in two places. `Setup` implements `SettledOnce`, and
`TunedPoll` relies on nothing else of setup: its steps seen from setup are those
of `SettledOnce` too, for any number of callers. And what `TunedPoll` tells the
tuner is a member of `Reports` (`TellsPlausible`), the set `LinkTuner` takes its
inputs from. So what is shown of the tuner holds behind these polls, and what is
shown of the polls holds behind that setup; each link is model-checked and
proved.

### TimedUnit and LinkTuner

One action per entry point. `Request`, `Answer` and `Failure` are the two halves
of `TimedUnit._timed`: `opens` counts before the await, `failed_opens` after it.
`Observe` is `observe()` with its four calls in their order: count the reads,
judge the gap (`ObserveSpacing` with `Widen`, `Narrow`, `CrowdedPoll` and
`QuietPoll`), judge the pause (`ObserveOpening`), remember what answered.
`ObserveFailure` is a poll that raised. `Save` stores `tuning`, `Restart` is a
new process that restores it.

The counters of `TimedUnit` are kept as what the tuner has not yet taken in,
which is all it ever looks at: `_count_reads` and `_observe_opening` use
differences. The ladders are constants in the module (`Steps`, `Delays`), sets of
natural numbers in which 0 is none. The reports a poll may
produce are those of `Reports`, which `TunedPoll` shows its polls to stay
within (`TellsPlausible`). A component the model does not serve is in none of
their updates, but its read can fail in any way: a reply to an earlier request or
a busy device has nothing to do with what was asked for, and the tuner counts
both whoever drew them (tuning.py:281, 302). What it leaves out is the silence of
components that have not answered, and that is what `OnlyTroubleWidens` says. Four variables are history, read by properties only:
the polls counted since the gap last moved, the failed opens not yet paid out,
the unanswered opens in a row, and whether the line ever showed trouble.

### TunedPoll and PollContract

Each caller's poll is a record of its locals. `SetUp` and `SetupFails` are the
wait for setup, opened up in `Setup`; `ReadAnswered`, `ReadFailed` and
`ConnectionLost` end the read in progress; `Advance` carries on to the next
await: the next component, the retry, the identity, or the end, where `Finish`
tells the tuner and fires the listeners in one step. `TryIdentity` is the late
try. `ReadIdentity` to `IdentityCancelled` are a host task in
`async_read_identity`. `Cancel` ends a poll at any await.

Errors are the kinds the code tells apart: a desynced reply, a busy device, a
timeout, any other refusal, and a lost connection, which never enters a report.

A *site* is one installation: who polls it, which errors its line gives and
which lists setup can settle for it. One run looks at several, `site` never
changing. The lists are settled by the first poll to get past setup and are
every later poll's.

`PollContract` knows nothing of awaits, passes or retries: `Call`, then one of
`Reported`, `Raised`, `Cancelled`; `Settle` is the moment the lists are. The
refinement mapping hides what a running poll has gathered: only a reported poll
has a report. `SettledOnce` sees of a poll only whether it waits for setup, is
past it, or neither.

### Setup, Masks, Variants

`inverter` is the record of the fields of `SofarInverter` that setup writes,
`run` where each caller is, `queue` the lock with its waiters. The requests of a
run are in the code's order, the skipped ones skipped: up to four masks to
detect an unknown type or one to raise the string tier of a known one, the
rating, the off-grid probe, the meter's mask, up to three tries at the fault
log, the charge cutoff's mask. Each has one action for its answer.
`Interrupted` is any failure the code lets through, `TowerSilent` and
`LogMissed` the two it does not (`TakenForAbsent`). An inverter can leave any of
these requests unanswered for good (`silent`): on a calm line those requests time
out and nothing else fails. `Expected` is `expected_components`, what a host lays
out entities for before and after setup; `DropsOnlyTheDenied` is what it may
lose of them. What is on the line is chosen at the start and
never changes, so a property can compare what setup settled with what an
undisturbed one would find (`TrueType`, `TrueList`).

A component list is the set of what is on it: its order is that of the
constants `READING_COMPONENTS` and `SETTING_COMPONENTS` in the code and nothing
changes it. The order in which components are polled is `TunedPoll`'s, whose
lists are sequences.

A mask is the set of offsets it declares; a refused mask is the empty set,
since both are unusable. `TierRank` orders the string tiers as their bits do.

### PackRead

`read` is each caller's `async_read_pack`: where it is, the pack it wants, the
looks it has made while settling, and which pack answered each request. `Look`,
`Select` and `LookAgain` are `async_select`; `ReadTower` to `ReadRest` the
component's update, whose values are taken together after the last request (a
failed component keeps its values, README.md:86), in order of address.
`ReadRest` also holds the comparison with `pack_id` and the note of it. `Fail`
and `Abandon` end a read at any await; a write may have been taken though its
answer never came. `Switch` is the tower's, which may ignore a selection, take
it as late as it likes, or take it after the read that made it has ended.
`component` is shared: it holds the last read's values, whoever asked.

What `pack_id` tells depends on what else is under way. A read is `clean` when
the tower was at rest as it began and no other read has been under way since.
For those the check is enough, however slow the tower: the block names its pack
before it gives the values, and once it names the one wanted the tower has no
other to switch to. For the others it is not (`packid`): a caller that reads
packs one after the other and goes on after a failure can be given one pack's
cells under another's number, and two callers all the more.

### TornRead

`PollRead` reads a component's totals, each possibly torn to a little below its
counter; `Correct` is `_correct_totals`, the listener that runs as that poll
ends. Between the two, other polls and dumps read the component again
(`PollRead`, `Refresh`) and polls are lost (`PollLost`), so the correction looks
at values newer than those of the poll that fired it. `Seed` raises a mark to
what the host stored, early or late; `Restart` forgets all but that. `Reset` is
a counter that starts over. A torn value is one the tolerance would hold: that
is what the code takes a torn read to be, and a value further off is
indistinguishable from a reset.

### LegacyPoll

`SofarLegacyInverter` runs its setup without a lock. A call is a poll or a
dump; `Begin` runs setup up to its one request, or all of it, `EndSetup` is what
follows: the type, the pooled groups and the poll list, replaced under whatever
poll is under way. `EntryAnswered` and `EntryFailed` end one read of the poll
list and look up the next name, group or component, as it then stands.

Setup goes through the components in one order, and a group stands in the list
where its first member would. So a poll list is a function from places to
entries, the place of an entry being its first component, and what is left of a
list is that function on fewer places. How often a call has asked each
component is history.

### Faults and Registers

`Registers` looks at one part of the inverter at a time, `part`, since parts
share no registers: the fault registers, the event log, the clock, or a setting.
`meant` is what the inverter means, `memory` the registers it puts that into,
and a read takes them in requests of at most `MaxSpan` registers
(`RequestAnswered`). Settings change by `TakeWrite`, which may come late or
although the answer was lost (`LoseWrite` is a write that never arrives).
`Accepts` and `Words` are the methods' checks, rounding and encoding, `Shown`
and `Entry` the decoding, each setting's in an operator of its own
(`FeedInWords` and the like). `Asks` is what hosts can ask for as far as registers
hold it: watts whose hundreds fit a word, 32-bit integers, a moment of 2000 to
2099. Beyond that the library that encodes finds no words and nothing is sent;
only a moment of another century is sent, as that of this one
(`year % 100`, modern/device.py:768), and left out. An event of the log is `good` if its id is a known fault and its
moment a date; the others are the slots that hold no entry. `moments` is history: all that was meant while the
read was under way, which is what a read can be compared with.

## Runs

| Run | Module | Result | What it shows |
|---|---|---|---|
| `gap` | MCLinkTuner | pass | the gap over every mix of reports, raised polls, reads, stores and restarts; a calm line gets it all back |
| `pause` | MCLinkTuner | pass | the pause with opening requests in flight while polls are observed |
| `opens` | MCLinkTuner | violation | unanswered opens that straddle a poll are forgotten (README.md:424) |
| `poll` | MCTunedPoll | pass | one caller's polls in full and two callers' polls overlapped, with an identity read: report, retry, tuner, contract, use of setup; every poll ends |
| `setup` | MCSetup | pass | setup settles on the truth, once, as promised, and drops only what the inverter denies; calls end, and a calm line gets it settled |
| `waits` | MCSetup | violation | an inverter silent at the off-grid registers it does not have is never set up (README.md:361) |
| `packs` | MCPackRead | pass | two callers' pack reads: a clean one can trust `pack_id`, and every one ends |
| `packid` | MCPackRead | violation | `pack_id` names the pack wanted and the values are another's (modern/device.py:715) |
| `totals` | MCTornRead | pass | whatever overlaps, a total stays within a torn read of what was polled, and falls only where its mark stood above the counter |
| `seed` | MCTornRead | violation | a stale total seeded late lets a torn read take back what a poll had read (README.md:176) |
| `legacy` | MCLegacyPoll | pass | overlapping, failed and cancelled setups without a lock come to the true list, and no poll loses a component to them |
| `registers` | MCRegisters | pass | faults, log, clock and settings read while they change: nothing steady is missed, nothing is mixed, wrapped or rounded away |

The properties, one sentence each, stand above their definitions. Every property
of a passing run has a mutant, a plausible slip in the code it is about (the
`Bug...` operators), that makes TLC find it violated.

Two more disagreements with the documentation, met while modelling and kept
without a run:

* README.md:417 says that the gap is "never wider" than the budget spread over
  the reads of a poll. The code compares the two only as it widens
  (tuning.py:310), so a gap taken while polls were small, or restored, outlives
  them. What does hold is `WideningFitsPoll`.
* README.md:420 says that "registers a model has never served are exempt". Only
  their silence is: a desync or a busy answer to a read of theirs widens the gap
  like any other (tuning.py:281, 302). What does hold is `OnlyTroubleWidens`.

Three observations that are no disagreement with the documentation, each
reproduced by TLC while the models were written: a first poll that fails after
setup's own reads leaves component lists in place that are not settled yet
(modern/device.py:446), which the next run replaces; a restart gives back the
patience that the stored gap implies, which can be less than the line had earned
(tuning.py:380); and a host's identity read that gives up after a poll's late
try has succeeded asks for the identity once more (modern/device.py:608), a
redundant read and no wrong one.

### Bounds, and why they are enough

* `LinkTuner`: two components, one of them never served, which is all the
  tuner tells apart; a ladder of four gaps with the code's ratios and a budget
  that fits the widest for one read a poll and cuts it short for two or three;
  quiet polls 1 with patience up to 4, so it doubles twice and is then capped,
  as 20 and 160 are in the code after three; crowded polls 2, so a count can be
  interrupted. For the pause: two delays, two failed opens to earn one, two
  opening requests in flight, so one can straddle an observed poll while
  another fails. Counts not yet taken in are capped by `MaxReads` and
  `MaxOpens`. `gap` records no opens and `pause` no gap: the two halves share
  only the order in which `observe` calls them. So `gap` checks of
  `CountersBelowThresholds` the polls' counts only; that of failed opens is
  proved (`CountersAlwaysBelow`).
* `TunedPoll`: two sites. `Alone` has one caller, three components, one of them
  never served, and all four errors; `Overlapping` two callers, two components
  and the two errors between which `_both_attempts` decides. Two passes, so each
  component is read at most twice (`asked` is capped at 3 to see a third); two
  identity tries for the code's three.
* `Setup`: two callers, since the lock hands on to one at a time; devices that
  differ in each answer setup branches on, and one for every type a serial can
  stand for; one silent at its off-grid registers, one at its tower and log.
  Failures, cancellations and restarts are not bounded.
* `PackRead`: two packs, the one wanted and another; two callers; two looks for
  the code's ten, so a wait can end early, late or not at all.
* `TornRead`: one total, since totals share only the read; a tolerance of a
  quarter for the code's hundredth and counts up to 8, so a mark has values that tear
  to it, values that pass for a reset, and values on the edge of both; two polls
  that have read and not ended, so one can overtake another.
* `LegacyPoll`: two callers, as an overlap needs; a serial for every prefix, with
  and without off-grid registers, and the types only a host can give. Nothing
  else is bounded.
* `Registers`: each of the 480 ids the fault registers can number by itself, and
  groups that share a bit, a request or a filler; fourteen events over ten slots,
  so the log overflows, four kinds of event among them; settings at and beyond
  each edge their checks and words have; two writes on their way, so they can
  pass each other.

### Fairness

* `LinkTuner`: the host keeps polling and not every poll raises (`WF` of
  `Observe`). `GapGivenBack` supposes in its own words that from some point on
  no poll shows trouble and no restart comes.
* `TunedPoll`: every request ends, by an answer or by the connection's timeout,
  and the event loop resumes who awaited it (`WF` of a caller's steps). Nothing
  is assumed of the host: that it polls, or reads the identity.
* `Setup`: the same, and the host calls again after a call ended. That the line
  is calm from some point on is a state (`calm`), reached or not; `CallEnds`
  does not need it.
* `PackRead`: the steps of a read happen, its requests end and its sleeps are
  over. Nothing is assumed of the tower; no read has to fail or be abandoned.
* `TornRead`, `LegacyPoll` and `Registers` state safety only: a read there ends
  because its requests do, which the others show.

## Proofs

`LinkTunerProofs` proves, for every set of components, ladder, budget, threshold
and bound that the named assumptions of `TimedUnit`, `Reports` and `LinkTuner`
allow, the type invariant and every safety and action property the runs `gap`
and `pause` check:

| Theorem | Property |
|---|---|
| `TypeCorrect` | `TypeOK` |
| `UnitAlwaysHoldsTuning` | `UnitHoldsTuning` |
| `CountersAlwaysBelow` | `CountersBelowThresholds` |
| `SilenceNeverWidens` | `OnlyTroubleWidens` |
| `PatienceAlwaysCoversGap` | `PatienceCoversGap` |
| `GapMovesOnlyOnEvidence` | `GapMovesOnEvidence` |
| `WideningAlwaysFits` | `WideningFitsPoll` |
| `PauseAlwaysEarned` | `PauseEarned` |

The inductive invariant `IInv` adds three conjuncts to the checked ones, each
there because a step needs it:

* `AnsweredServed`: nothing the model of inverter does not serve is ever in
  `answered`. Without it, a timeout of an absent block could count as crowding
  and `OnlyTroubleWidens` would not be inductive.
* `CountsSince`: quiet and crowded polls were all counted since the gap last
  moved. It turns the threshold tests of the code into the evidence that
  `GapMovesOnEvidence` speaks of.
* `FailuresUnspent`: the failed opens counted, and those in the unit's counter,
  are covered by failures not yet paid out. It is what `PauseEarned` needs when
  a failure arrives a poll after its open.

The proof that a step keeps `IInv` has one lemma per action; those of `observe`
rest on `WidenFacts`, `NarrowFacts`, `SpacingFacts` and `OpeningFacts`, which
say what each helper of the tuner leaves behind, and these on lemmas about the
ladder (`BackoffSteps`) and products (`ProductMonotone`).

`BackoffAssumption` is the one assumption that is arithmetic rather than a
choice of the caller: one rung further up the ladder doubles the patience, up to
its cap. It follows from the powers of two in `restore`, which the provers do
not know (`^` is opaque to them); TLC evaluates it for each instance.

`PackReadProofs` proves, for any callers, packs and settle window, the type
invariant (`TypeCorrect`), `ServedIsNotWritten` (`ServedNeedsNoWrite`) and
`NamedIsWhole` (`PackIdTellsThePack`). Its `IInv` says of a clean read that it
is the only one under way (`Alone`), that nothing is due but, once written, its
own selection (`OnlyOwnSelection`), and that from the answer that named the pack
wanted the tower stays on it (`StaysNamed`). Without the second, `Switch` could
take the tower off the pack between `pack_id` and the values, as it does in
`packid`. One lemma serves every step that stays in progress (`StepKeepsIInv`),
one every way a read ends (`EndKeepsIInv`), one its beginning.

`TunedPollProofs` proves, for any components, sites, callers and identity tries,
every invariant of the run `poll`:

| Theorem | Property |
|---|---|
| `TypeCorrect` | `TypeOK` |
| `ReportsAccount` | `ReportAccounts` |
| `RetriesOnlyTheLiving` | `RetryOnlyTheLiving` |
| `EveryFailureHeard` | `TunerHearsEveryFailure` |
| `TellingsPlausible` | `TellsPlausible` |
| `IdentityStaysOwed` | `IdentityOwed` |

Its `IInv` says of each poll by itself where it stands (`PollInv`): what it has
read, failed and still to read divide what it polls (`Divided`); in the first
pass each component was asked once (`FirstPass`), in the second the failures of
the first are what is asked twice (`SecondPass`); a poll that retries has an
answer from a component it does not ask again. `Heard` ties what the tuner knows
to the poll's end, `ReadsSettled` what is polled to what setup settled. Since
`Advance` moves a poll through several of these at once, one lemma says what any
poll that is `Ready` becomes, and each action only shows that it makes it so.

`TunedPollProofs` also proves `SetupUsedAsPromised` (`UsesSetupAsPromised`) and
`ContractKept` (`KeepsContract`): step by step, the polls implement
`SettledOnce` and `PollContract`. Every await maps to a stutter but the ones at
which a caller, a listener or the tuner sees something.

`SetupProofs` proves, for any callers, inverters and number of tries:

| Theorem | Property |
|---|---|
| `TypeCorrect` | `TypeOK` |
| `OnlyTheHolderAsks` | `HolderAsks`: at most one setup asks at a time |
| `SettlesForGood` | `SettledStays` |
| `SetupAsPromised` | `KeepsPromise` |

The type invariant says that the lock's queue names each caller under way
exactly once; `HolderAsks`, that only its head is past the wait and only while
nothing is settled. With the two, whoever settles found it unsettled, and whoever
waits behind finds it settled. `TriesLeft` bounds the tries at the fault log.
A step of setup is one of three things: it goes on, it settles, or its caller
leaves (`GoesOn`, `Settles`, `Leaves`); each action is shown to be one of them
and each of them to keep `IInv` and the promise.

`SetupTruthProofs` proves `SettlesTruly` (`SettlesOnTheTruth`) and
`OnlyTheDeniedDropped` (`DropsOnlyTheDenied`). The type moves one way: it is the one
told, then bare (all the masks say of it), then true (its off-grid part asked
for). `TruthInv` says that it is one of these at any time, whatever runs ended
where, and `Stage` what a run may rely on at each of its requests: at `rating`
that the type is bare, at `meter` that it is true, at `cutoff` that the readings
are the true ones. What makes a second run harmless is that each step, taken
again from where an earlier run stopped, comes to the same type: `UnknownIsTold`
(a type without flags was never detected), `RaisedIsBare` (the mask never raises
what it has raised), `ProbedIsTrue`. The tower's flag is apart throughout
(`Same`): it depends on whether its mask was answered. What is
expected before setup settles only grows (`GrowsLists`): the masks name no tier,
or every tier from one on (`MaskedTiers`), so a higher tier reaches all that a
lower one did. At the step that settles, the lists are the true ones
(`SettlesOnTheTruth`), which lack of the type's only what was denied
(`SettlingDrops`).

`TornReadProofs` proves, for any totals, tolerance and bounds, `TypeCorrect`
(`TypeOK`), `ShownNearPolled` (`NeverFarOff`) and `TornReadsNeverLower`
(`TearsNeverLower`). `IInv` adds that a poll yet to end has left values behind
however often they were read anew (`DueHasRead`), that these are within a torn
read of the counters of that moment (`ReadIsTorn`), and that no total is shown
above its mark (`MarkCovers`).

`LegacyPollProofs` proves, for any callers and inverters:

| Theorem | Property |
|---|---|
| `TypeCorrect` | `TypeOK` |
| `SetupSettlesOnTheTruth` | `SettlesOnTheTruth` |
| `EveryEntryIsFound` | `EntriesFound` |
| `EachServedIsReadOnce` | `ReadsServedOnce` |

Without a lock, what saves overlapping setups is that each comes to the same:
`IInv` adds that at any time setup has left either nothing or all that is true
(`SettlesOnce`), so a list replaced under a poll is replaced by itself. Of each
call it says that what it still has to read is part of the true list, and that
it has asked for exactly the members of the entries it has passed (`Sound`).
Three facts about the lists carry this: the serial's type is that of the longest
prefix (`FirstIsMostSpecific`), an entry, found by its name, stands for
the served members of its group (`EntryStandsForMembers`), and the entries
between them stand for each served component exactly once
(`ListCoversServedOnce`).

`RegistersProofs` proves, for any faults, events, writes and moments that
`PartAssumption` and `EventAssumption` allow:

| Theorem | Property |
|---|---|
| `TypeCorrect` | `TypeOK` |
| `FaultsReportedRegularly` | `FaultsRegular` |
| `ReadsTellOneMoment` | `OneMoment` |
| `NothingReadInHalves` | `ReadAtOnce`, of the registers themselves |

`ReadSoFar` strengthens the last: each register taken so far is that of some
moment of the read, and what must not be mixed comes in one request. From there
to `OneMoment` it takes the conversions. `WordsSayIt` says that whatever the
inverter can mean has its words, each of 16 bits, and that decoding them shows
it: rounding stays within half a unit (`HalfRoundedIsClose`), two words make up
each 32-bit integer, signs included (`Int32InWords`), a date survives its bytes
(`DateInWords`), a slot shows its event if that is good and nothing otherwise
(`SlotShowsEvent`), and the log its last ten in order (`LogWords`). `MeantInv`
says that the inverter only ever means such things. `EveryFaultHasABit` goes
through the table of known faults register by register.

The chain of modules is proved link by link: `SetupAsPromised`, then
`SetupUsedAsPromised`, then `ContractKept` towards the caller and
`TellingsPlausible` towards the tuner, whose theorems take over from there.

Only model-checked: liveness (`GapGivenBack`, `PollEnds`, `CallEnds`,
`SettlesWhenCalm`, `ReadEnds`), which is beyond the provers, and what the four
violation runs refute. Every invariant, action property and refinement of a
passing run is also a theorem.

## Plan

Done, in this order: the tuner with its proofs; the poll with its contract and
their refinement; setup, its promise and the use of it; the pack read; the torn
read; the legacy inverter; faults, log, clock and settings.

What could follow: the remaining settings that go through the library's
`Component.write` (parallel address, switch, charger mode), once its checks are
at hand.

## Not modelled, and why

Register addresses, scales and units other than those of `Registers`, value
names and fault texts are declarations without behaviour. Log messages, latencies and their statistics
influence nothing. `modbus_connection` is not in the repository: its requests
are the environment. A `GatewayTargetError`, an address or function refusal and
other protocol errors are told apart only where the code does. `async_detect`
reads the serial and the masks before the device exists for anyone else; its
outcome is one of the initial types of `Setup` and serials of `LegacyPoll`. The
parallel address, the switch and the charger mode are written by the external
`Component.write`, which also refuses words out of range; the I-V scan is one
command that leaves no state. `async_read_raw`, `async_read_masks` and
`script/query.py` read one thing after another and keep nothing. Errors that are no
`ModbusError` (a bug in a listener, say) are left out.
