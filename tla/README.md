# Vitalis, specified

TLA+ modules for the parts of `tpt-vitalis` where the order of events matters:
trading and gossip between agents (`vitalis-negotiate`), the copy limit and the
checkpoints (`vitalis-replicate`, `vitalis-defend`), the survival loop
(`vitalis-drive`) with its self-predictions (`vitalis-reflect`), the durable stores
(`vitalis-memory`), the bounded self-modification engine (`vitalis-adapt`), and the
barter scripts of the feral-scavenger example. Every module is translated from the
Rust source; `PROJECT.json` names, for each definition, the lines it stands for.

* Model-check: `tlc -workers 2 -config BarterFaults.cfg MCBarter` (the `runs` of
  `PROJECT.json` list the module of each `.cfg`).
* Prove: `tlapm BarterProofs.tla`, and likewise `TallyProofs`, `GossipProofs`,
  `CopyLimitProofs`, `CheckpointProofs`, `AdaptProofs`, `MemoryProofs`, `DriveProofs`.
  `BarterProofs` and `DriveProofs` take a few minutes each from nothing, the others less.

Contents: [inventory](#inventory), [modules](#modules), [runs](#runs),
[fairness](#fairness), [proofs](#proofs),
[where code and documents disagree](#where-code-and-documents-disagree),
[not modelled](#not-modelled), [plan](#plan).

## Inventory

The program is a Rust workspace of libraries (`src/crates/vitalis-*`), one
application (`src/apps/vitalis-drive`) and examples. There is no network code:
the negotiator's handlers take messages and return messages, and whoever calls
them moves these about. There is little threading: what is shared is shared
through an atomic or a mutex inside a library type.

| component | state | operations | interacts with |
|---|---|---|---|
| negotiate, trading (`negotiator.rs`, `message.rs`) | ledger, pending trades accepted and proposed (by nonce), pinned keys, direct reputation | `propose_offer`, `receive_offer`, `receive_accept`, `deliver`, `receive_settle`, `sweep_timeouts` | other negotiators by signed messages; the caller's cycle count |
| negotiate, gossip (same files) | hearsay pool by subject and original witness | `penalize`, `report_reputation`, `relay_reputation_report`, `receive_reputation_report`, `snapshot` | the same messages; the direct pool |
| replicate, copy limit (`policy.rs`) | one atomic counter | `authorize_copy`, `retire_copy` | threads that share the policy |
| replicate, checkpoints (`replicator.rs`, `format.rs`, `audit.rs`) | current checkpoint, append-only audit log | `capture`, `checkpoint_bytes`, `restore_state`, `shards`, `restore_from_shards`, `authorize_copy`, `migrate_to` | the Defender as signer and verifier; storage; another Replicator |
| replicate, shards (`shards.rs`) | none | `encode_shards`, `decode_shards` | called by the Replicator |
| defend, integrity (`integrity.rs`) | the signing key, the pinned key per agent | `seal`, `verify_checkpoint_for` | called by capture and restore |
| defend, classification (`classify.rs`, `signal.rs`) | none | `classify_signal` | called by the drive |
| drive (`loop_.rs`) | energy, throttle, last threat, the one-shot `replicated` flag, the stores | `new`, `run`, `replicate`, `verify_stored_checkpoint` | every other crate |
| metabolism (`throttle.rs`, `ledger.rs`, `lib.rs`) | resource ledger, throttle level | `compute_throttle`, `tick_energy`, `acquire`, `consume` | the drive |
| memory (`store.rs`, `state.rs`, `identity.rs`, `knowledge.rs`) | one database with a table per store; records in two schemas | `put`, `put_legacy_v1`, `save_raw`, `get`, `remove`, `ids`, `migrate`, each one transaction | redb; the drive's state store (in memory there) |
| reflect | bounded history, bounded queue of predictions, audit | `tick`, `calibration` | fed by the drive, acted on by nobody |
| adapt (feature `adapt`) | kill switch, proposal counter, audit | `verify`, `apply`, `rollback`, `trip_kill_switch` | off in the default build |
| sense | cycle counter; a simulated mesh behind one mutex | `poll`, `advertise`, `discover`, `leave` | the drive |
| feral-scavenger (`main.rs`) | its agents' | `run_scavenge`, `run_negotiate`, `run_gossip`, one after the other | negotiators, sense, replicate |
| core | none (types and traits) | | |

What is hard about each, and what makes it correct:

* **Trading.** Messages may be lost, reordered and delivered again; a Settle
  races the sweep that would score its trade as broken; one Offer goes to many
  and two may accept. Correct means: nothing is credited that was not debited
  for that receiver, nothing twice; a trade is scored once by each side; a
  binding is final; both ends agree on terms; nobody is blacklisted for one
  shortfall; a trade does not stay open for ever.
* **Gossip.** The relayer writes the envelope, the witness signs only what is
  inside; reports come late, again, and by several routes. Correct means: the
  pool holds under a witness only what that witness signed about that subject,
  the latest word wins, the discount is the distance, the subject has no say in it, and
  hearsay alone never blacklists.
* **Copy limit.** Load, test and add are three steps on a shared atomic, and the
  counter dies with the process while the copies do not.
* **Checkpoints.** Media lose and alter blobs and shards; the decoder does not
  notice altered shards; the key is pinned on first sight. Correct means: a node
  never holds anything but what was captured, sealed by the one key it trusts,
  and a migration is on both logs if the target went on with what it was sent, and on
  neither if it rejected it.
* **Drive.** A sensor or store error leaves `run` at any of several points, and a
  later `run` goes on with the state as it was left. Correct means: an agent
  never runs out of energy without having left a checkpoint, copies itself once,
  and every run returns.
* **Reflect.** Predictions wait in a bounded queue that drops from the front; a
  failure skips cycles, so a prediction's own cycle may never be sampled. Correct
  means: nothing is dropped unjudged, each is judged at the first chance, and a
  steady trend and a standing alarm are foretold right.
* **Memory.** Several callers share one database; each call is a transaction of
  several steps, any of which may fail, and the process may die between commit and
  answer. Records of an old schema and raw bytes lie under the same keys. Correct
  means: each call takes effect at one instant or not at all, what took effect
  outlives the process, no call undoes another's, and what is read is what its
  writer meant.
* **Adapt.** The kill switch and the counter are loaded before the counter is
  raised and the caller's hook run, and hooks fail half way. Correct means: the
  limit and the switch are overrun by no more than the threads already inside, and
  the log tells what is in force.

`PROJECT.json` lists the hazards one by one, each at its source line, with the
properties that watch it or the reason none does.

## Modules

| module | models | notes |
|---|---|---|
| `Reputation` | the direct pool (`ReputationRecord`), decay, the blacklist threshold, `fulfillment_ratio` | operators only, shared by the next two |
| `Barter` | the trading half of a mesh of Negotiators and its transport | one action per handler outcome |
| `Escrow` | what trading promises about resources | the abstract specification `Barter` implements |
| `Gossip` | the gossip half | |
| `CopyLimit` | `CopyLimitPolicy`, step by step per thread | |
| `Checkpoint` | Replicator, Defender seals and pins, audit, media | |
| `Reflect` | `Reflector::tick`: judge, record, predict energy and threat | operators only, used by `Drive` |
| `Drive` | the loop of `run`, `replicate`, `new` | composes `Reflect` |
| `Adapt` | `AdaptEngine`, step by step per thread | |
| `DurableStore` | what the stores promise their callers | the abstract specification `Memory` implements |
| `Memory` | the three stores over one database, step by step per caller | |
| `Scavenger` | `run_negotiate` and `run_gossip` of the example | scripts over `Barter` |
| `MC*` | values for the constants | |
| `*Proofs` | theorems about the module of that name | |
| `TallyProofs` | lemmas for the other proofs: induction over finite sets, sums, `Reputation` | no theorem about a state machine |

**Barter.** `balance`, `accepted`, `proposed`, `pins`, `reputation` are the
fields of each `Negotiator`. A handler that may take several ways out is several
actions with disjoint guards: `receive_offer` is `AcceptOffer` or `DeclineOffer`,
`receive_accept` is `BindAccept` or `IgnoreAccept`, `receive_settle` is
`CreditSettle` or `RejectSettle`. Each pins the sender's key, as `verify` does,
on every way out. `duties` is not in the crate: it is what the program around it
still has to hand to `deliver`, once for every trade it agreed to, in full or
short. `deliver` itself consults no pending trade, and neither does `Deliver`, so a
trade swept or bound to another since is still paid for; that a caller pays for a trade
nobody ever offered is left out.
`inbox` is the transport: `Redelivered` names the message types it may deliver
again, and any message may come late, out of order, or never. `transit`, `outcomes`,
`strikes` and `excused` are history. `excused` holds the nonces at which something
other than the handlers went wrong: a caller delivered short, a Settle came before
the Accept that binds its sender (`Premature`), or a cycle ended while something of
the trade was still to be received or delivered (`Underway`). `Blameless` says that
nobody is scored short at any other nonce. It is about two agents: with three, the
loser of a race for one Offer waits for a delivery that never comes and dings the
proposer, which the code does on purpose.
Quantities are naturals and weights multiples of `Unit`, which stands for 1.0;
with half-lives of whole cycles and powers of two the decay is exact, otherwise
it is the floor of the code's. Nonces are drawn without collision. Forged
messages are left out: every handler drops them before it changes anything but
the key pin of a new peer.

**Escrow.** Two variables: ledgers, and claims paid for and not collected. A
claim names its receiver, its payer and the nonce, and is collected at most once.
`Barter` implements it with the identity on `balance` and `transit`: `Deliver` is
`Pay`, `CreditSettle` is `Collect`, all else stutters. The definition of
`CreditSettle` removes the claim without testing that it is there; that it always
is, is what the refinement shows. `Next` names the claim a step pays by what the
step adds to `transit`, so that neither TLC nor the prover has to guess it.

**Gossip.** A trust score is abstracted to its *basis*, the set of agents whose
word went into it: the scorer's own (its record, or the default it presumes of a peer
it never met) and, claim by claim, those behind what it has heard and still counts.
An opinion signed again carries the cycle of the signing, as `report_reputation`
stamps it, so `MAX_REPORT_AGE_CYCLES` bounds the age of a report and not that of the
words in it.
`hearsay[a][s][o]` is what `a` holds about `s` from witness `o`. `sent` is every
message ever sent, any of which may arrive at any time, any number of times.
`MalformedRelay` gets one field of the envelope wrong: a subject, an origin or a
number of hops that is not the report's. `steps`, the real hand-offs, and `honest`,
whether every envelope on the way was right, are history carried in the message.

**CopyLimit.** `Load`, `Grant` and `Retire` are the atomic steps of
`authorize_copy` and `retire_copy`; the counter wraps at `Wrap` as `usize` does.
A Replicator's own `authorize_copy` takes `&mut self` and is one step in
`Checkpoint`; the policy inside is `Sync`, takes `&self`, and `policy()` hands
out a shared reference to it, which is what this module is about.

**Checkpoint.** Keys are named after the nodes that own them. A blob is agent,
payload and seal; `Damaged` is anything storage can make of it, except a new
signature. `Restored` is the whole effect of `restore_state`, whether it accepts or
not: the pin is set before the signature is looked at, so also by a blob that is
then rejected. `RestoreFromShards` returns the blob encoded if no damaged shard
is among those the decoder uses, and anything damage can make of it otherwise.
Agents' states are `Payload`s; serialisation, time and version are left out.

**Drive.** `pc` walks through one iteration: poll and throttle, classify, and for
an escape-worthy signal capture, store the checkpoint, store the shard count,
authorize; then reflect (`Reflection`, one `ReflectorTick`) and act. `SenseFails` and `StoreFails` are the `?`s.
`Crash` is process death; `Drive::new` reads nothing back and its store is in
memory, so a new life has nothing. Energy is an integer; fractions are percents.

**Reflect.** A reflector is a record of history, pending predictions and audit.
The regression line of `linreg` is kept as integers over a common denominator, so
that `Evaluate` compares exactly where the code compares floating-point numbers
with a band of at least `1e-9`; with whole energies a distance that is not zero is
far above that. A prediction also carries how many samples it rests on. The
likelihood of a threat is only ever compared with one half, so it is kept as that
comparison. The queue is popped from the front as long as the front is due (`Due`).

**Adapt.** A thread walks through `verify` and `apply`: `Begin` reads the kill
switch and asks the sandbox, `CheckLimit` and `OverLimit` load the counter, `Verified`
returns from a `verify` called for its own sake, `Count` adds, `Hook` and `Undo` run
the caller's closures, `Record` writes the log and returns. `Rollback` and
`RollbackFails` are `rollback`. A hook is one bit of effect; one that returns Err,
`rollback_fn` included, leaves the change in force or not (`Either`). Callers propose,
verify and roll back any change at any time, applied or not, permitted or not; the one
thing assumed of them, in the guards, is that no two threads work on one change at once.
`astray` is history: the changes on which a `rollback_fn` returned Err, or that were
refused while the log had them as applied, and on which no hook has returned Ok since.

**Memory.** A caller walks through one call: `Ask`, `BeginWrite` or `BeginRead`,
`OpenForWrite`, `OpenForRead` or `MissTable`, then `Change` and `Commit`, or `Get`,
then `Return`. `Fail` is every `?` on the way; `FailCommitted` is the one that comes
after the commit reached the disk. `view` is the database as an open transaction
sees it. redb is external and modelled as the crate relies on it: one write
transaction at a time, readers on a snapshot, durable at commit, nothing kept of a
transaction that is dropped. `Encode`, `Migrate` and `Decode` are the encodings: the
knowledge store writes version 2, an old record has its kind by name only and comes
back as the variant of that name or as an `Other`, raw bytes may not decode at all.
A name, a text and a payload are model values.

**DurableStore.** Records under keys, tables that were ever written, and what each
caller waits for or was answered. A write or a read takes effect in one step between
its `Ask` and its answer; a call the backend failed took effect or did not; a crash
forgets the calls and nothing else. `Memory` implements it with `Contents`, the
*decoded* database, for the records, and `Status` for the callers: a read has its
answer once its snapshot is taken, a write once it is committed.

**Scavenger.** `calls` counts the calls `main` has made; each is one action of
`Barter`, enabled when its turn has come, with `main` as the transport.

## Runs

Times are for two workers.

| run | instance | shows |
|---|---|---|
| `BarterFaults` (1.03M states) | 2 agents, 2 offers, 2 cycles, Accepts and Settles redelivered, short payment, ledgers too small for both trades | `TypeOK`, `OneOutcomePerTrade`, `TermsAgree`, `TwoStrikes`, `PendingCapped`, `Blameless` |
| `BarterBroadcast` (74k) | 3 agents, 1 offer, all transport faults, fairness | `MeshConserves`, `SingleBinding`, `ImplementsEscrow`, `TradesResolve` |
| `BarterReplay` | Offers redelivered too | `NothingMinted` is violated |
| `Gossip` (362k) | 3 agents, 1 subject, 2 messages, wrong envelopes, reports that go stale | `TypeOK`, `ClaimsAreSigned`, `OnlyOwnTradesBlacklist`, `HopsAreDistance`, `SubjectHasNoSay`, `FreshestKept` |
| `CopyLimitRace` | 4 threads, cap 3, 1 restart | `TypeOK`, `CountsCopies`, `OvershootBounded` |
| `CopyLimitCap` | 2 threads, cap 2 | `HardCap` is violated |
| `Checkpoints` (1.26M) | 2 nodes, 2 interchangeable payloads (symmetry), 1 blob, 1 shard set, 1 copy each, any damage | `TypeOK`, `HeldWasCaptured`, `OneSigner`, `MigrationsPaired` |
| `CheckpointPinned` | 1 node, 1 blob that may be damaged | `KnownGoodAccepted` is violated |
| `Drive` (11.9k) | 3 runs of up to 6 cycles, 2 lives, a cap of 2 copies, any failure; forecasts of 2 cycles from 3 samples | `TypeOK`, `ExhaustedHasCheckpoint`, `ReplicatedMeansStored`, `OneReplication`, `ForecastsKept`, `JudgedAtFirstChance`, `SteadyDrainForeseen`, `AlarmLearnt`, `RunReturns` |
| `Adapt` (81k) | 2 threads, 3 changes of which 1 is too large, a limit of 2 | `TypeOK`, `OvershootBounded`, `LateBounded`, `AuditMatches` |
| `Memory` (135k) | 2 callers, 3 calls on 2 stores, 1 backend failure, 1 crash | `TypeOK`, `NothingLost`, `ImplementsStore`, `CallsReturn` |
| `ScavengerBreach` (22) | the calls, quantities, timeout and half-life of the example | `BreachBlacklists` is violated |

Why the bounds are enough for the question each asks:

* *Barter.* Every property is about one trade, or about two trades of the same
  two agents (blacklisting takes two strikes, the cap takes one trade more than
  `MaxPending`); two nonces cover both. The race for an Offer takes a proposer
  and two accepters: three agents, one offer. A timeout of one cycle with two
  cycles puts messages before, at and after expiry. `InHorizon` opens a trade only
  while its timeout fits in `MaxCycle`, so that `TradesResolve` is not cut off by
  the bound.
  `Blameless` needs short and full deliveries, early Settles and a cycle that ends
  at every point of a trade, all of which two agents and two offers give.
* *Gossip.* A claim can go wrong by one witness, one relayer and one receiver, and
  claims about different subjects never meet: one subject, which may itself speak.
  Messages are never consumed, so two sent are enough for one to overtake, repeat or
  wrap the other. `MaxHops` is 2, so that the first relay reaches the cap and a wrong
  number passes it; `MaxAge` 1 and `MaxCycle` 2 let a report be fresh, old and stale.
  The proofs are for every cap, age and number of messages.
* *CopyLimit.* The overshoot is threads less one; four threads at a cap of three
  reach it.
* *Checkpoint.* The pin matters with two keys for one agent (two nodes); a blob
  of another agent comes from damage to its agent field. The decoder's choice of
  shards shows with 2+1: none lost, a data shard lost, the parity lost. Blobs are
  damaged in place, so one blob at a time takes every form there is. Payloads are
  only compared for equality, so they are symmetric.
* *Drive.* Cost 2 of 11 does not divide, so the last spend is clamped; six cycles
  reach exhaustion in one run; runs shorter than the kill cycle reach it by starving
  alone; three runs let an error be followed by a retry and a further run. Failures
  between a poll and its reflection leave gaps longer than the horizon of two, so that
  several forecasts fall due at once. The cap on copies is two, one more than the drive
  may make, so that it is the flag that holds them to one; where the cap would refuse
  (only at zero), `OneReplicationKept` covers it.
* *Adapt.* Two threads reach the excess of one attempt over the limit, and one late
  hook each; the limit of two leaves a third attempt to be refused. A change too large
  can be applied by nobody; of the two others either can be applied, proposed again and
  refused by the limit or the switch, and rolled back, while a thread works on the other.
* *Memory.* A call can go wrong by one other call beside it and one that reads what
  both left: two callers, three calls. The calls meet on one key of the state store
  and two of the knowledge store, in both schemas, undecodable bytes, a record under
  another's key, and an `Other` spelt like a variant. One failure and one crash, each
  at any step; what survives the one survives the next.
* *Scavenger.* The example's own values; its cycles go one at a time to the timeout.

`Drive`, `Memory` and `ScavengerBreach` do not check deadlock: a drive whose runs and
lives are used up, callers that have made their calls, and a script that has come to
its end have stopped. That no caller of `Memory` waits for ever is `CallsReturn`.

Each property of a passing run has a mutant in `PROJECT.json`: a plausible mistake
in the code (defined in the module next to what it replaces, under a comment
*Seeded fault*), under which the run finds the property violated. The modules'
own `Next` uses none of them.

## Fairness

* `Barter!FairSpec`: weak fairness of `Tick` and `SweepTimeouts` for each agent.
  The drive ends every cycle and calls `sweep_timeouts` in every cycle
  (`loop_.rs:420`). Nothing is assumed of the transport, of peers or of the
  callers that owe a delivery; `TradesResolve` holds on the sweep alone.
* `Drive!FairSpec`: weak fairness of `Step`. `run` is a loop in one thread with no
  wait in it. `Crash` and `Run` are not fair.
* `Memory!FairSpec`: weak fairness of `Proceed` for each caller: a thread inside a
  call goes on when it can. Nothing is assumed about whose turn it is when two wait
  for the write transaction; the calls of a behaviour are bounded, so a waiting one
  is not overtaken for ever. With an unbounded stream of writers `CallsReturn` would
  need redb's lock to be fair. `Ask`, `Fail`, `Crash` and `Reopen` are not fair.
* `Gossip`, `CopyLimit`, `Checkpoint`, `Adapt` and `Scavenger` state safety only.

## Proofs

For every value of the constants that meets the modules' assumptions (any number
of agents, nonces, threads, nodes and shards; any terms and endowments; any capacity,
cost, window and horizon). Every invariant, action property and refinement that a
passing run checks is stated by one of these:

| theorem | says | by |
|---|---|---|
| `BarterProofs!TypeCorrect` | `Spec => []TypeOK`; no ledger is ever below zero | one lemma per action; `Decay`, `FulfillmentRatio` and `RecordOutcome` have lemmas in `TallyProofs` |
| `BarterProofs!CapHolds` | `Spec => []PendingCapped` | one lemma for the step that adds to a book, one for those that do not |
| `BarterProofs!EndsAgree` | `Spec => []TermsAgree` | `TermsInv` |
| `BarterProofs!BindingFixed` | `Spec => SingleBinding` | `ProposedIssued`: what was not drawn yet is not proposed |
| `BarterProofs!OneOutcome` | `Spec => []OneOutcomePerTrade`, provided Offers are not redelivered | `OutcomeInv` |
| `BarterProofs!BlacklistedForTwo` | `Spec => []TwoStrikes`, same proviso | `StrikesInv`, and `TallyProofs!BlacklistedTwice` |
| `BarterProofs!EscrowImplemented` | `Spec => ImplementsEscrow`, same proviso | `EscrowInv` |
| `BarterProofs!EscrowConserves` | `ImplementsEscrow => []MeshConserves`, of whatever implements `Escrow` | `Books` |
| `BarterProofs!MeshConserved` | `Spec => []MeshConserves`, same proviso | the two before it |
| `BarterProofs!TradesAge` | no step starts the clock of an open trade again, and no sweep at its timeout leaves it open; same proviso | `OutcomeInv` |
| `BarterProofs!NobodyBlamedForNothing` | `Spec => []Blameless`, same proviso | `BlameInv` |
| `GossipProofs!TypeCorrect`, `ClaimsSigned`, `DistanceCounted`, `FreshestStays` | `TypeOK`, `ClaimsAreSigned`, `HopsAreDistance`, `FreshestKept` | `SentSigned` |
| `GossipProofs!GossipNeverBlacklists` | `OnlyOwnTradesBlacklist` | `DingsCover` |
| `GossipProofs!SubjectUnheard` | `SubjectHasNoSay` | `SubjectSilent` |
| `CopyLimitProofs!CounterTyped`, `NoLostUpdate`, `BoundedOvershoot` | the three invariants of `CopyLimitRace` | `RoomTaken` |
| `CopyLimitProofs!SoleCallerCapped` | one thread and no restart: the cap is hard | the same invariant |
| `CheckpointProofs!CheckpointsTyped`, `CapturedOnly`, `SignerFixed` | `TypeOK`, `HeldWasCaptured`, `OneSigner` | `SealsAreMade`, `HeardIsPinned` |
| `CheckpointProofs!BothEndsLog` | `Spec => MigrationsPaired` | the invariant of the three before it: what a node with a verifier accepts was sealed by `capture`, with the key it has pinned |
| `AdaptProofs!EngineTyped`, `RateLimited`, `KillTakesHold`, `LogTells` | the four invariants of the run `Adapt` | `RateKept`, `LateKept`, `Booked` |
| `MemoryProofs!TypeCorrect`, `NoWriteLost` | `TypeOK`, `NothingLost` | `CallsSound` |
| `MemoryProofs!WriterNeverLost` | the write lock is held by nobody but a call on its way to its commit | `WriterWorks` |
| `MemoryProofs!CallsAdvance` | a step of a call, or its failure, leaves it fewer steps to take and every other call as many | a rank of `pc` |
| `MemoryProofs!RoundTrip` | what is decoded of an encoded record is the record | by cases of the encoding |
| `MemoryProofs!StoreImplemented` | `Spec => ImplementsStore` | one lemma per step of `DurableStore` |
| `DriveProofs!LoopTypeCorrect`, `ExhaustedCheckpointed`, `ReplicatedStored`, `OneReplicationKept` | `LoopTypeOK`, `ExhaustedHasCheckpoint`, `ReplicatedMeansStored`, `OneReplication` | `Replicating`, `Foreseen` |
| `DriveProofs!TypeCorrect` | `TypeOK`, the reflector's part included | `Typed`, and the sign of what `Line` and `Band` compute |
| `DriveProofs!ThrottleMonotone` | less energy never throttles up, on either curve | the quotients compared |
| `DriveProofs!RunsShrink`, `RunsBounded` | each step leaves a run fewer steps to take; eight for each of `max_cycles` at most | `Counting`, a rank of `pc` and `cycle` |
| `DriveProofs!NoForecastDropped`, `JudgedFirst` | `ForecastsKept`, `JudgedAtFirstChance` | `InOrder` |
| `DriveProofs!DrainForecast` | `SteadyDrainForeseen` | `Steady` |
| `DriveProofs!AlarmsLearnt` | `AlarmLearnt` | `Alarmed` |

The inductive invariants, and why each is needed:

* `OutcomeInv`: that a trade was scored at most once says nothing about the next
  step. What makes it inductive is that a nonce is open at an agent, or on offer
  to it, only *before* its outcome; that it is never open in both books; and that
  nonces not drawn yet are nowhere. The proviso is real: with Offers redelivered a
  nonce may be on offer after its outcome (`BarterReplay`).
* `StrikesInv`: the failures weighed against a peer are at most one `Unit` for each
  trade it was struck at (`WithinDings`, which decay and every outcome keep). A trade
  is a new strike each time because it has one outcome (`OutcomeInv`). One strike
  then weighs at most `Unit`, and the threshold is above it.
* `EscrowInv`: nobody owes or writes to itself; whoever owes under a nonce, or has paid
  under it, can no longer come to owe, and whoever has paid does not owe, so that each
  side pays once; and a Settle at an agent that has not scored its trade carries a
  claim still in transit.
* `TermsInv`: to every nonce belong one owner and one pair of terms, and every Offer,
  Accept, Settle, pending trade and duty of that nonce tells of them. `TermsAgree`
  compares two books, but what will be in them is in the inbox.
* `BlameInv`: a case distinction over how far a trade has come that has not been
  excused. At each stage it says which message or duty is still there for the side
  that waits, so that a cycle cannot end without excusing the nonce, and a Settle
  in full is what arrives.
* `SentSigned`: a report in any envelope was signed by its witness, a message that was
  not relayed names itself rightly, and honest envelopes count right.
  `DingsCover`: as in `StrikesInv`, on the records of `Gossip`. `SubjectSilent`: not only
  the pools but every report signed of another owes nothing to its subject; the pool
  entries it is made from are of witnesses that signed them, and none is its subject.
* `RoomTaken`: counter plus threads past their test is at most cap plus threads
  less one. Each such thread may still add one; a thread that passes the test
  found the counter below the cap, and at most all the others are ahead of it.
* `SealsAreMade`: every seal, on a blob in storage, in hand, or inside a shard
  set, was made by `capture` or carries a key that nobody holds. Damage preserves
  it; from it, a seal that verifies is one that was made. `HeardIsPinned`: what a
  node has restored was sealed by the key it has pinned, and a pin is never
  changed once set.
* `RateKept`: the counter is the hooks run plus the threads about to run one, and
  counter plus threads past the test stay below the limit plus threads. `LateKept`:
  a thread that was late once is past its hook, and with the switch tripped `Begin`
  lets it come to no other. `Booked`: what a thread is about to log of a change that
  is not astray is so, and until it runs a hook the log is still right.
* `CallsSound` and `NothingLost` of `Memory`: `NothingLost` says what a write
  transaction holds relative to what is *now* committed. It is inductive because the
  one writer is the only one who commits; with it, a commit changes the decoded
  contents in exactly the one record `DurableStore` writes.
* `Replicating`: within `replicate` the flag is not set and each put is where the next
  step looks for it. `Foreseen`: past replication, a cycle whose spend leaves nothing
  has replicated. It is what makes `ExhaustedHasCheckpoint` survive `Act`.
* `InOrder`: the targets of the queue ascend strictly, the last is at most `Horizon`
  ahead of the last sample, and every sample kept is before every target waiting. The
  predictions that are due are then a prefix of the queue (`DuePrefix`, by the least
  index that is not due), so that popping from the front finds them all and what is
  left fits in `Horizon` places.

* `Books`: for each kind of resource, balances and open claims add up to what they did
  at the start, and the claims are finitely many. `Pay` takes from one balance what it
  adds to the claims; `Collect` gives back what a claim was worth. That `Escrow` is
  implemented is what makes these the only two steps, so conservation is proved of
  `Escrow`'s steps and holds of whatever implements it.
* `OutcomeInv`, again, for `TradesAge`: that the clock of a trade is not started again
  needs that a nonce being opened is open nowhere, and that no trade passes from one
  book to the other.
* `WriterWorks`: whoever holds the write lock is at a step of a write between
  `begin_write` and its end; each way out of a call, a failed one too, gives it back.
* `Counting`: the loop counter of a run under way is within its `max_cycles`. From it
  the rank, eight for each cycle left and the place within the cycle, stays natural.
* `Steady`: the forecasts made are at most as many as the polls reflected on. While
  they are equal nothing has failed in between, so the energy is `Drain`, a line cut
  off at zero; every sample lies on it, and every waiting forecast will be right. Once
  they differ they differ for ever, and the property says nothing. That a forecast
  from points on the line is right is arithmetic of the regression (`LineOnLine`: it
  is the line); from points past the cut, that the regression of a falling sequence
  falls (`LineFalls`, by Chebyshev's inequality for sums), and is cut off at zero.
* `Alarmed`: before the first threat nothing has been missed (`Quiet`). After it the
  last *k* samples carry one, and what was missed together with what waits without
  expecting a threat is at most the horizon and *k* (`Learning`); when *k* passes half
  of the window each further forecast expects it, and the sum stops growing.

The sums in these (`MapThenSumSet`, a fold that picks its elements by `CHOOSE`) and what
holds of them for every finite set are proved in `TallyProofs`: a property of the
subsets of a finite set is the family of those that have it, and a family that contains
the empty set, and with every set less an element the set, contains them all
(`SubsetInduction`, from the least size of a counterexample). From that follow the
existence and uniqueness of the fold, that sums are linear, what one changed term does
to them, and the inequality for sums of products that the regression needs.

What the theorems assume are the named assumptions on constants (`BarterAssumption`,
`WeightsAssumption`, `ReflectAssumption`, `MemoryAssumption`, `NamesAssumption` and the
like), which every run evaluates; they give constants their types, keep model values
apart, say that agents, nodes and threads are finitely many (sums over them would mean
nothing otherwise), and put the blacklist threshold above one
trade, as the code's constants do.

Six theorems about `Barter` (`OneOutcome`, `BlacklistedForTwo`, `EscrowImplemented`,
`MeshConserved`, `TradesAge`, `NobodyBlamedForNothing`) have a proviso: the transport
never delivers an *Offer* to one agent twice. Accepts and Settles may come any number of
times. It cannot be dropped from what is said of outcomes and of ledgers: in
`BarterReplay`, where it is not met, a trade is settled twice and the ledgers end with
more than they started with. The other three rest on a trade having one outcome.

Left to TLC alone is liveness (`TradesResolve`, `RunReturns`, `CallsReturn`), which
rests on fairness and ENABLED and is out of the prover's reach. What each of them needs
of safety is proved: a trade's clock runs on and the sweep that finds it expired closes
it (`TradesAge`); a run has fewer steps left after each one (`RunsShrink`); a call has
fewer steps left after each one, and nobody but a call that can go on holds the lock it
may wait for (`CallsAdvance`, `WriterNeverLost`). What is not proved is that the next
step is taken, which is the fairness assumed above. The runs that expect a violation
need no proof: TLC shows the behaviour.

## Where code and documents disagree

Shown by runs that TLC finds violated:

* **A replayed Settle can be credited again** (`BarterReplay`). The comment of
  `tests/barter.rs` and `docs/threat-model.md:29` say it cannot. It cannot on its
  own; if the *Offer* is delivered again first, the accepter reopens a nonce it
  has already settled (`negotiator.rs:489`).
* **The hard cap of copies is not hard** (`CopyLimitCap`): two threads test
  before either adds (`policy.rs:38-45`). `BoundedOvershoot` says by how much.
* **A rejected blob can shut out the good copy** (`CheckpointPinned`). The key of
  the first blob is pinned before the signature is verified
  (`integrity.rs:71-77`) and stays pinned when it is rejected; if the damage was in
  the key, the "known-good copy" of `docs/threat-model.md:25` is rejected too.
* **The feral-scavenger example panics in its third part** (`ScavengerBreach`). It
  asserts a blacklisting after one swept bargain (`main.rs:284`), which weighs 1.0;
  the threshold is 1.5 (`negotiator.rs:107-110`). `main` gets there (`main.rs:36`); the
  tests of the example run its other two parts.

Seen while modelling; the models do what the code does, and no run is spent on them:

* `negotiator.rs:71-72` says blacklisted peers are never bartered with;
  `receive_accept` (426-447) does not look.
* `message.rs:11-12` says `gives` is what the sender provides; an Accept copies the
  Offer's fields (497-501), and its `gives` is what the *receiver* provides.
* `negotiator.rs:449-451` accepts "if we can and will fulfil it"; `can_afford` (486)
  reserves nothing, so two acceptances may promise the same resource.
* `message.rs:34-36` says a report carries direct experience only;
  `report_reputation` signs the full snapshot (676), and relayed words may come
  back as fresh ones.
* `negotiator.rs:95-97` keeps one hearsay report below a trade of one's own, "so
  hearsay can move the number but never dominates it"; three of them weigh 1.05.
* A blacklisted peer's reports are dropped when it sends them (736) and folded when
  another relays them.
* The copy counter restarts at zero with the process, and retiring an older copy
  then wraps it (`policy.rs:50-52`).
* Every Defender makes a key of its own, so a node that restored another node's
  checkpoint (README.md:44, "reconstitutes on a different node") has that node's key
  pinned for the agent and rejects what it captures itself from then on
  (`integrity.rs:69-70`). First-use pinning asks for this; the README's migration
  does not expect it.
* `loop_.rs:28` says the agent replicates below `replicate_below`; that level only
  raises a warning (379). The checkpoint stored "durably" (288) goes to a store in
  memory (178). `last_threat` is never cleared (397), against the comment at 141 and
  against `sample.rs:38`, "the threat event observed this cycle": a calm cycle after
  a threat is given to REFLECT as a threatened one.
* `engine.rs:37` calls `max_proposals` the lifetime rate limit; the drive builds a new
  engine in every cycle (`loop_.rs:307-342`), so neither its limit nor a tripped
  switch outlives the cycle.
* `engine.rs:154` says `proposals_made` is how many changes have been applied; failed
  attempts count too (106).
* The log of `engine.rs` does not always tell what is in force. An undo that fails is
  ignored and logged as "rolled back" (113). A `rollback_fn` that returns Err after it
  undid the change leaves the last entry "applied" (126). An applied change that is
  proposed or verified again and refused, by the switch, the sandbox or the limit, is
  logged `applied = false` while it is in force (69-86). These are `astray`, the
  exceptions in `AuditMatches`.
* `store.rs:127` and `state.rs:43` load a key "if present", and return an error, not
  `None`, until the first write to their table: `open_table` in a read transaction
  does not create it. `contains` (`state.rs:62`) then fails as well. This is `NoTable`
  in `Memory`.
* `loop_.rs:355` *acquires* the absolute readings of every poll, so that the ledger
  grows by what there is in each cycle; nothing in the drive reads it or consumes.

## Not modelled

* Cryptography (`crypto.rs`): signatures are unforgeable, keys distinct.
* `os.rs`, `host.rs`: reading the host. `harden.rs`, `wasm.rs`: build flags, a
  wrapper of a wasm runtime. `main.rs` of the drive: the command line.
* The Reed-Solomon arithmetic and the length prefix of `shards.rs`: the decoder is
  modelled by which shards it uses and what damage to those does. Its bytes would be
  field arithmetic whose reference definition is the same arithmetic.
* The metabolism's resource ledger: additions and subtractions that refuse to go
  below zero, on a ledger nobody reads (see above). `can_consume` of the safety
  ceiling, a test of its arguments that nothing in the drive calls.
* The simulated mesh of sense: one map behind one mutex, each operation one step.
* Of reflect: peer outcomes (the drive supplies no peers), scores and the calibration
  summary, which nothing acts on.
* Of adapt: its use by the drive, with a new engine and hooks that do nothing.
* Of the example: `run_scavenge`, a printed loop, and what follows the assertion in
  `run_gossip`, which is not reached.
* Floating point: weights, energies and quantities are integers. Nonces do not collide.

## Plan

Written in this order, the most important behaviour first: `Reputation`, `Barter`,
`Escrow`, `Gossip`, `CopyLimit`, `Checkpoint`, `Reflect` and `Drive`, `Adapt`,
`DurableStore` and `Memory`, `Scavenger`; then the proofs, of types and counters first,
of the strengthened invariants and the two refinements after them, then of what is
summed and counted (`MeshConserves`, the reflector's forecasts) and
of the ranks behind the liveness properties. Left:

1. `Drive` with a negotiator: `sweep_timeouts` once a cycle, over trades that outlive
   a run. It would compose `Drive` and `Barter`, whose product is beyond TLC at the
   bounds above; `TradesResolve` assumes of the drive exactly that sweep.
2. `Drive` with the stores of `Memory` in place of its map, once the code has a durable
   store there.
3. `Shards` over a small field, if the decoder comes to check what it is given.
