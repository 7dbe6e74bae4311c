# A TLA+ model of EvalWitness

EvalWitness asks an LLM provider to score coding-agent trajectories, selects
among them, and records evidence of how it did so.  What makes it hard to get
right are two things.  One is a small concurrent core: worker goroutines that
spend a shared, hard budget on an unreliable provider, failure policies that
decide whether a result may be published, a run lifecycle that must close and
audit whatever happened, and a JSON-RPC server whose calls can be cancelled at
any moment.  The other is evidence that several processes leave in shared
directories, each of which may die or lose power half-way: caches, replay
fixtures, journals, reservations, seals, ledgers, worktrees.  This directory
models both and checks them with TLC; the most important results are proved with
TLAPS for every value of the parameters.

## Inventory

The repository is about 124,000 lines of Go (tests excluded).  Most of it is
static: schemas, canonical encodings, validation and statistics over recorded
artefacts.  The parts that keep state, run concurrently or survive failures:

| component | state | operations | interacts with | what must hold |
|---|---|---|---|---|
| run budget, `internal/mode/budget.go` | usage totals, active count, slot channel, deadline, state file | open or restore, `ReserveCall`, `Reserve`, `AcquireAttempt`, release | called by every provider attempt; state file outlives the process | limits hold over restarts, charges balance, no slot leaks |
| sweep, `internal/mode/pairwise.go`, `absolute.go` | failed map, results, sweep context, fatal error | sweep, recovery sweep, report | runs score calls on worker goroutines; caller cancels | all-or-nothing publication, one retry, termination |
| score call, `internal/mode/common.go` | cache, route limiter, observation log | lookup, reserve, attempt, extract, retry, store | budget, provider, cache, audit | one charge per call, one release per attempt, strict extraction |
| provider, `internal/provider` | per-request retry state | request, classify, back off | score call | bounded attempts, fatal classes not retried |
| cache, `internal/cache` | response files per route | get, set, clear | score call; other processes | a clear is atomic and complete, and spares what is newer |
| verification, `internal/verification` | plan, runtime, audit record, batch outcome | plan, authorise, execute, close | all entry points | audit says what happened, resources closed once |
| mcp server, `internal/mcp` | lifecycle state, seen ids, in-flight map, write error | read loop, dispatch, cancel, call goroutine, drain | tools run a verification each | one answer per request, cancellation, clean drain |
| capture and replay, `internal/replay` | candidate, target fixture | record, close, publish, replay | provider port; other captures of the path | the fixture always loads, acknowledged records stay |
| safety, `internal/safety` | files under an owned root | publish, publish exclusively, create the root | everything that stores evidence | nothing torn, one winner, one identity |
| inspection journal, `internal/relation`, session commands | event files, inspection record, receipt | record, correct, finalize | the owner's processes | the chain is intact, the receipt grounded and strict |
| held-out execution, `internal/stress` | reservations, seals | reserve, run the batch, seal, ledger | exclusive publication, verification | once only, inside the permit's window |
| review ledger, `internal/outcome` | assignments, batches, reveals, ledgers | assign, commit, break ties, reveal, resolve | reviewers and whoever assembles a ledger | labels precede the reveal, one outcome |
| Best-of-N, `cmd/evalwitness/bon*.go` | worktrees, artefacts, manifest, the user's repository | attempt, resume, select, apply | verification, git, the user | worktrees accounted for, what was produced is judged, no patch onto a tree found changed |

Hard behaviours: attempts in flight while the budget is near a limit; a crash
between a charge and its record; a state write that fails after the charge; a
sweep stopped by its own failure budget or by its caller while items wait; three
nested retry loops under two slot channels and one budget; a run whose cleanup or
audit fails after its work succeeded; a
cancellation racing the registration or the completion of a call; output that
breaks while calls run; two processes on one path, with a crash or a power loss
between any two system calls; a permit, a reservation or a repository checked
early and used late.  `PROJECT.json` lists each as a hazard at its line.

## Modules

`RunBudget` models `RunBudget` of `budget.go`.  A critical section under `b.mu`
is one step, because nothing but the mutex holder sees its intermediate states
and its last act, `persistLocked`, takes effect at one rename.  Waiting for a
slot, entering the lock, releasing and giving the slot back are separate steps,
because other goroutines run in between.  `Crash` drops memory and keeps the
file; `OpenRestored` is `NewPersistentRunBudget` on an existing file, with
`validateRestoredBudget` as its guard.  Every persist may fail, with the rollback
the code performs.  Input tokens, output tokens and cost are one function over
`Metric`; elapsed seconds in the file are informational and left out.  History
variables record what was ever granted, settled and reported in excess.

| TLA+ | Go |
|---|---|
| `ReserveCall`, `Reserve` | methods of the same name |
| `AcquireAttempt`, `WaitDone`, `WaitCancelled` | entry of `AcquireAttempt` and its `select` |
| `ReserveAttempt`, `RefuseAttempt` | `reserveAttemptLocked` to `persistLocked` in `AcquireAttempt` |
| `Release`, `ReleaseSlot` | the release closure; `sync.Once` is the `pc` guard |
| `Persist`, `PersistFails` | the two outcomes of `persistLocked` |

`AttemptQuota` is the abstract specification of what a budget promises to the
one who pays: counters of calls granted and requests sent, the set of open
requests and a late flag.  `RunBudget` implements it with `calls <- granted`,
`sent <- dispatched`, `open <- InFlight`, `late <- Late`; TLC checks this and
`BudgetRefinesQuota` proves it.  `ScoreCall` is composed with the budget through
this promise: it instantiates `AttemptQuota` and takes its actions.

`ScoreCall` models `Runner.Score` of `common.go` with the retry loop of
`provider/openai.go` and `Get`/`Set` of `cache/disk.go`.  A response is abstracted
to whether its evidence is strict; the cache maps a request key to the evidence
filed under it, and starts with anything an earlier version may have left there.
Provider errors are abstracted to what the loop tells apart: terminal, transport
(retried `TransportRetries` times, 3 in the code), retryable (`MaxRetries`).
Token and cost refusals, failed state writes and failed audit writes may happen
whenever their step runs.

| TLA+ | Go |
|---|---|
| `CacheHit`, `CacheMiss` | lookup loop, cost cap (`common.go` 299-362) |
| `ReserveCall`, `RefuseCall`, `acquireProviderSlot` | head of the extraction loop |
| `BeforeAttempt`, `RefuseAttempt`, `CompletionFails` | the two callbacks, as called by `openai.go` |
| `Respond`, `FailAttempt`, `RetryAttempt`, `BackoffDone` | body of the provider's loop |
| `Accept`, `RetryExtraction`, `FailExtraction` | tail of the extraction loop, `Cache.Set` |
| `GiveUp` | every `<-ctx.Done()` of the call |

`VerificationRun` models `Execute` and `ExecuteBatch`: the runtime slots of
`NewProductionService`, the errgroup with its limit, its context and the dispatch
interval, `closeRuntimeResources`, `writeRunAudit` and `closeRuntimeAudit`, in
the code's order.  `life` is the set of `Lifecycle` stages recorded as complete.
What an item does is a success or a failure.  The rows of a batch are written in
one step with any subset lost: nothing else touches the run between them.

`PairSweep` models `runPairSweep`, `recoverFailedPairs` and
`reportPairFailures`, with the callers' last steps.  Evaluating an item is
abstract: it succeeds, fails item-locally, fails fatally
(`isFatalPairError`) or returns the shutdown of the sweep.  The constant
`ChecksContext` tells `adaptivePairsConcurrent` and `evaluateTournamentRound`
(which look at `ctx.Err()` before returning) from `RunAbsoluteSelection` (which
does not).

`McpServer` models `server.go`.  A line of input is one step of the read loop; a
`tools/call` goroutine is spawned, registers itself, runs its tool, decides
whether it was cancelled and writes.  Lines that are rejected before an id is
accepted are one action.  Request ids are model values.

`McpService` composes the two: a call of a scoring tool becomes a run of
`VerificationRun`, whose context ends when the server cancels the call or drains,
and whose end lets the handler return.  The same runs may also be called
directly, which is how the command line uses them, batches included.

`CacheStore` models the response files between processes: `Set` down to the path
lookups of `PublishSensitive`, and `Clear` with its tombstones.  Within a process
`operationMu` orders them, so only processes interleave here.  A directory is a
number and `shelf` says which one bears the name `responses`, because a lookup
before a rename and a lookup after it find different directories.  `AtomicCache` is
what these system calls promise together: per route a set of readable responses,
to which a Set adds one and from which a Clear takes all at once; a Clear is told of
success only when nothing that was acknowledged before it began is readable.

`ReplayCapture` models `CapturingProvider`: opening (digest, open, copy), calls
that are answered and recorded, and the five stages of `Close`.  The file at the
path and the file the directory holds durably are two variables; `PowerLoss`
falls back from one to the other, and tears what was not synced.

`ExclusiveFile` is `PublishSensitiveExclusive` system call by system call, and
`WriteOnce` what it promises: one document per name, told only to its publisher,
kept once told.  `HeldOut` is built on that promise (it instantiates `WriteOnce`
and takes its actions for reservations and seals).  `CacheRoot` is
`CreateCacheRoot` with its lock file and marker; it implements `WriteOnce` too,
with the identity in the marker as the document.

`InspectionJournal` models the session commands over the event files;
`InspectionVerdict` holds the pure functions that turn assessments into the
receipt's status.  `HeldOut` models permits, reservations, batches and seals in
time.  `ReviewLedger` models the documents of the blinded review: the builders
are pure functions, so the state is the set of documents that exist, and anyone
may assemble a ledger from any of them; its actions are the builders with the
validation they and `Validate` perform.  In all three a digest is the value it
digests.

`BestOfN` models `runBon`, `runBonAttempts`, `runBonResume` and `finishBon`.  The
repository is the sequence of changes made since it was recorded, so the digest
comparison of `captureBonDestination` is `tree = <<>>`.  The errgroup is its
context and its first error.  A resumption up to `Execute` is one step: what it
compares is compared again before a patch is applied, except the artefacts,
whose second read by `git apply` is part of `ApplyPatch`.

| module | source | actions |
|---|---|---|
| `CacheStore` | `cache/clear.go`, `cache/disk.go`, `safety/cache_file.go` | `MakeDirectory` to `SyncEntry` are `Set`; `ListRoutes` to `ClearReturns` are `Clear` |
| `ReplayCapture` | `replay/replay.go` | `Wrap*` is `wrapCapture`; `Ask`, `Answer`, `Record*` are `Score`; `Close*` is `Close` |
| `ExclusiveFile`, `CacheRoot` | `safety/cache_file.go`, `safety/cache_root.go` | one per system call that others can see |
| `InspectionJournal` | `relation/pilot_inspection_journal.go`, `relation_inspection_journal_command.go` | `Record*` and `Finalize*` are the session commands |
| `HeldOut` | `stress/heldout_*.go` | `Reserve*`, `Load`, `Execute*`, `Seal*` |
| `ReviewLedger` | `outcome/review.go`, `resolution.go` | `AssignPrimary`, `AssignTieBreak`, `Commit`, `Reveal`, `BuildLedger` |
| `BestOfN` | `bon.go`, `bon_workspace.go`, `bon_manifest.go` | `StartAttempt` to `EndAttempts` are `runBonAttempts`; `WriteManifest`, `Resume`, `Select`, `CheckDestination`, `ApplyPatch` |

The modules named `...Proofs` hold the theorems.  `RunBudgetProofs`,
`PairSweepProofs`, `VerificationRunProofs` and `BestOfNProofs` are about the module
they are named after; `ScoringProofs` is about `ScoreCall`, `CacheStore` and their
composition in `MCScoring`, `McpServiceProofs` about `McpServer` and `McpService`,
`PublicationProofs` about `ExclusiveFile`, `CacheRoot` and `ReplayCapture`, and
`GovernanceProofs` about `HeldOut`, `ReviewLedger`, `InspectionJournal` and
`InspectionVerdict`.  The `MC` modules give constants their values for TLC.
`MCSweep`, `MCScoring` and `MCArtifacts` put several modules into one run: a
variable `part` says which one a behaviour belongs to, and the others' variables
stay at their initial values.

The definitions marked *Mutant* in a comment are not part of the specifications:
each is a plausible bug, named in `PROJECT.json` next to the property that finds
it when it replaces the real definition.

## Runs

| run | instance | shows |
|---|---|---|
| `budget` | 3 workers, 2 slots, 1 call, 3 attempts, reservations of 1 and 2 against an input limit of 3, 2 clock ticks, four kinds of report | accounting, concurrency, balance and deadline over crashes; refinement of `AttemptQuota` |
| `sweep` | selections of 3 and 5 items, 2 workers, failure budget 3; and 3 workers on 1 budget slot | small selections are published whole, no recorded error is lost, one retry, failures within one wave of the budget, fatal is final, every selection ends after boundedly many steps; every waiter for a slot leaves the wait |
| `sweep_partial` | 3 items, failure budget 2 | **violated**: a partial selection is published |
| `sweep_absolute` | 3 items, no context check | **violated**: a cancelled selection is published |
| `service` | 2 request ids, one of which becomes a run; and that run beside a paced batch of 3 items, 2 workers, 1 runtime slot | single answers, exact registry, no unexplained silence, finished work is answered, the drain leaves no run half-way and waits for none that waits for another; resources closed once, rows truthful, success whole, no dispatch after a stop; calls, server and runs end, runs after boundedly many steps |
| `mcp_lost_cancel` | 1 request id | **violated**: a cancellation is lost before registration |
| `score` | 2 scorers of one key, 2 workers, 1 attempt slot, 3 calls, 6 attempts, 1 provider retry, 1 extraction retry; and 2 setters, 2 clears, 2 routes, 1 death | slots, evidence, audit rows and headroom are exact, nobody waits in a circle, every call returns after boundedly many steps; the response files implement `AtomicCache`, a clear is complete and spares what is newer |
| `score_default_budget` | 2 scorers, 2 calls, 3 extraction retries | **violated**: the default call limit refuses a planned call |
| `verification_audit` | a batch and a single run | **violated**: the audit stage is complete though a row is missing |
| `artifacts` | 2 captures of one path with one call each, 2 clerks and 3 events, 3 publishers, 3 creators of a root, 2 runners with two permits of one partition, 2 packets with up to 4 batches and 2 ledgers, 2 attempts with a resumption beside the offline selection; all 729 answers to six assessments | what processes leave behind is whole, durable once acknowledged, decided once, and stands on what it claims to |
| `capture_race` | 2 captures | **violated**: a fixture's records are dropped by a concurrent append |
| `bon_retained` | 2 attempts side by side | **violated**: a worktree that could not be removed is not reported |

An invariant of a run whose name ends in `Sound`, `Exact` or `Truthful` may be a
conjunction of named parts, each stated and explained where it is defined, and
each with a mutant of its own in `PROJECT.json`:

| invariant | parts, beside the type invariants |
|---|---|
| `SweepSound` | `NoFailureSwallowed`, `OneRetry`, `FailuresBounded`, `NeverStuck` |
| `ServiceSound` | `AnsweredOnce`, `RegistryExact`, `ResourcesExact`, `RunsNeverStuck` |
| `ReportsTruthful` | `RowsTruthful`, `SuccessIsWhole` |
| `ScoringSound` | `AttemptHeadroom`, `RetriesBounded`, `NoCircularWait` |
| `ClearExact` | `ClearIsComplete`, `ClearSparesNewer` |
| `CaptureSound` | `TargetLoads`, `AcknowledgedSurvives` |
| `JournalSound` | `ChainIntact`, `RefusedOnlyByStrays`, `ReceiptIsGrounded` |
| `PublicationSound` | `EntryIsWhole`, `SuccessIsDurable` |
| `RootSound` | `OneIdentity`, `LeftoversHaveOwner` |
| `HeldOutSound` | `OneContenderSucceeds`, `ReservedInWindow`, `SealedInWindow`, `SealBindsStoredReceipt` |
| `ReviewSound` | `LabelsPrecedeReveal`, `LedgersAgree`, `ResolvedByVote` |
| `BonSound` | `WorktreesAccounted`, `JudgedAsProduced`, `PatchFollowsComparison` |

Termination is stated twice.  `SelectionEnds`, `RunsEnd` and `CallsReturn` say that a
selection, a run and a scoring call end under the fairness below; and, without
any fairness, `SweepAdvances`, `RunsAdvance` and `ScoresAdvance`, which they include,
that each step uses up one of a number of steps that was bounded from the start.
`NeverStuck`, `RunsNeverStuck` and `NoCircularWait` say that meanwhile there is
always somebody whose next step waits for nobody.  The action properties and these
invariants are what a proof can reach of termination.  `DecidedOnce` is
`PublishesOnce` of `ExclusiveFile` and `RootIsWrittenOnce` of `CacheRoot`.

Bounds.  Three workers and two slots are the least in which one waits while two
are in flight and a release frees a slot for the third; the limits lie below what
three workers would use, so every refusal happens.  The reports cover unobserved
usage, a report below and one above the reservation, a report without cost and a
rejected negative one.  `Horizon` bounds the clock only; attempts are bounded by
the budget's own limits.  In the sweeps the failure budget (8 in the code) is 2
or 3, on both sides of the number of items, because the recovery condition
compares the two; five items are more than the budget and one worker wave.  In
`score` the transport limit (2) exceeds the provider's retries (1), so the loop
is also left by its own bound; one attempt slot under two workers makes scorers
wait inside a provider call; three calls are one fewer than two scorers can ask
for, so a call is refused.  In `service` three items under two workers leave one
waiting when another fails, and the single runtime slot makes one run wait for
the other.  In `score` two responses of one route are what a clear could take
apart, two routes what it could leave half done, and two clears what can get in
each other's way.  In `artifacts` one crash, power loss or death is allowed per
part: each module's steps are few enough that one, at any moment, reaches every
leftover; a third publisher and creator meets the leftovers of two others.  Two
permits have adjoining windows, so one expires while the other is valid.  Three
events are a record, a correction and a further record.  One change of the
repository by its user, which may be taken back, happens at any moment.

Workers are a symmetry set in `budget`, and runners, packets and outcomes in
`artifacts`; neither has a liveness property, and no definition tells the members
apart.  Deadlock is checked in `score`, where only finished work may stop;
elsewhere a finished run, a full budget, a returned server and processes that
have exited really stop.

Fairness.  `RunBudget`: a provider attempt ends, because every request carries a
deadline; a goroutine past a blocking operation runs on; and Go serves blocked
channel senders in order, which is the strong fairness of `WaitDone`.  No crash,
clock tick or new request is assumed.  `PairSweep`: goroutines run and
evaluations end.  `McpServer`: call goroutines run and tools end, `Serve`
proceeds once its calls are over; the client is never assumed to send or to hang
up, and a broken output is not assumed to unblock a pending read.  `ScoreCall`:
an HTTP attempt ends (client timeout), a backoff elapses, and the senders blocked
on the limiter and on the attempt slots are served in order.  `VerificationRun`:
dispatch returns, because the budget's deadline bounds every scoring call, and
waiters on `runtimeSlots` are served in order.  Neither assumes that the caller
cancels or that the deadline comes.  `McpService` keeps both fairness conditions
and assumes neither a client line nor a direct call.  The modules of `artifacts`
and `CacheStore` state no fairness: every process of theirs may be killed.

## Findings

* `sweep_partial`: `runPairSweep` stops scheduling at `pairFailureBudget`
  failures (`pairwise.go:367`).  Items it had not started are in neither
  `failed` nor `out`; recovery retries only `failed`; if it succeeds the
  selection is published without them, against the comment at
  `pairwise.go:462`.
* `sweep_absolute`: `RunAbsoluteSelection` (`absolute.go:216`) returns a
  selection after its context was cancelled, with unscored trajectories at zero.
* `mcp_lost_cancel`: a cancellation handled between `go s.handleToolCall` and
  `registerInFlight` has no effect (`docs/spec.md:3226` says the call is
  cancelled).
* `score_default_budget`: `resolveLimits` (`service.go:261`) sets the default call
  limit to the planned calls, but each extraction retry reserves a further call
  (`common.go:374`).  One retried response then takes the call of another scorer,
  which fails over budget, against `docs/spec.md:4152` ("default to the
  conservative worst case").
* `verification_audit`: `closeRuntimeAudit` (`service.go:189`) turns the failed
  audit stage into a complete one when the sink closes, also after a run row
  could not be written.  The error is still returned; the lifecycle is wrong.
* `capture_race`: `Close` compares the target with what it was and then renames
  (`replay.go:569-572`).  Two appending captures can both pass the comparison;
  the second rename drops the first one's records although both return nil
  (`docs/spec.md:4383` says concurrent target mutation is rejected).
* `bon_retained`: `runBonAttempts` returns the first error of its errgroup
  (`bon.go:371`).  An attempt that fails later and cannot remove its worktree
  names the path in an error nobody sees (`docs/spec.md:4004`, `:4644`).

The documented contract of `bon --apply` is not met either, in two windows.
`docs/spec.md:4008` says that "any conflict, concurrent destination change, artifact
mismatch, abstention, tie, or cleanup error fails closed".  `BestOfN` states the two
promises as `DestinationChangeFailsClosed` and `ArtifactMismatchFailsClosed`, and
neither holds of `BonSpec` (two attempts, one resumption beside the offline selection
and one change by the user are enough for TLC to refute each in 15 states); they have
no run of their own.

* Destination: `applyBonDiff` compares the repository once
  (`bon_workspace.go:269-275`) and then runs `git apply` three times; only the index
  is looked at again, afterwards.  In the counterexample `CheckDestination` passes,
  `UserEdits` changes the tree, and `ApplyPatch` puts the winner on top and ends
  "applied".  `git apply` refuses what conflicts, so an edit is not overwritten, but
  one that does not conflict, and the patch of a second process, go unnoticed.
* Artefact: a resumption compares the digests when it reads the manifest
  (`bon_manifest.go:148`), an offline run never; `git apply` is then given the path
  of the diff (`bon_workspace.go:276-283`).  In the counterexample the diffs to judge
  are in memory when `AlterArtifact` changes the later winner's file; `Select` and
  `CheckDestination` pass, `ApplyPatch` applies the altered diff and ends "applied".

What `BonSound` says is therefore less than the document: a change made *before*
the comparison stops the patch (`PatchFollowsComparison`), and the diffs that are
*judged* are those the attempts produced (`JudgedAsProduced`).

## Proofs

`RunBudgetProofs` proves, for every finite set of workers, all limits,
reservations and reports that satisfy `BudgetAssumption`:

* `TypeCorrect`: `Spec => []TypeOK`.
* `AccountingIsDurable`: `Spec => []DurableAccounting`.  The invariant alone is
  not inductive: a limit is respected by the next grant only because memory and
  history agree while the process is up, and a restart restores only what the
  file says.  `AccountingInv` adds both, and that a file exists once the process
  is up; the rollback lemmas show that charging and rolling back is the identity.
* `ConcurrencyIsExact`: `Spec => []ConcurrencyExact`.  `ConcurrencyInv` adds that
  no worker is inside an attempt while the process is down and that the peak on
  disk is bounded, which restoring needs.
* `OverrunIsReported`: `Spec => []OverrunOnlyByReports`, inductive given types.
* `ChargesAreBalanced`: `Spec => []ChargesBalance`.  The reservations in flight are
  counted as the set of pairs of a worker and a unit it reserved, so that their
  sum is a cardinality and needs no induction over workers.  `BalanceInv` adds that
  nobody is in flight while the process is down, and that nothing is settled before
  a first state file exists: a start that finds no file begins at zero.
* `DeadlineIsFromFirstStart`: `Spec => DeadlineSurvivesRestart`, from `StartInv`:
  the file's start is the first start, and an open budget counts from it.
* `BudgetRefinesQuota`: `Spec => Quota!Spec`.  Each step of the budget maps to a
  step of the quota or to a stutter, given the first four invariants above: that
  usage in memory equals what was granted bounds the counters, the exact slot count
  leaves room for a worker that holds a slot and is not yet in flight, and
  `StartInv` makes the deadline check the quota's.

`ScoringProofs` proves, for every finite set of scorers and all keys, slots,
retries and limits of `ScoreAssumption`:

* `EvidenceIsStrict`, `EvidenceFailureIsEarned`, `AuditIsComplete`: the invariants
  of these names' properties, from one inductive invariant `IInv` with a part per
  scorer.  It adds what the properties leave out: an outcome only when done, an
  open attempt exactly when in flight, `extractionAttempt` equal to the answers
  rejected so far, and one row missing exactly while an attempt is in flight.
* `CacheStaysStrict`: the action property, since only `Accept` writes the cache.
* `SlotsAreExact`: the limiter counts the scorers inside a provider call; each
  step adds or removes at most the scorer that takes it.
* `ScoringIsSound`: of the composed `ScoringSpec`, all of `ScoringSound`, of which
  `AttemptHeadroom` is the hard part.  `Headroom` counts the tries that granted
  calls may still make as a set of pairs of a scorer and a number: the attempts
  sent and the tries to come never exceed the calls granted times the tries of one
  call.  A retry after an error moves one try from the second to the first, a
  scorer that is done gives its rest up.  `RetriesBounded` follows from `IInv` and a
  count of what each round has sent.  `NoCircularWait` follows from exact slots: with
  every attempt slot taken somebody is on the wire, with every worker slot taken
  somebody holds one, and whoever holds one waits at most for an attempt slot.
* `RetriesEnd`: `ScoresAdvance`.  `StepsLeft` is the lexicographic order of the two
  loops written as a number: an extraction retry outweighs all the steps of the
  provider's loop that it starts again.

and, for any number of Sets, Clears and routes and any number of deaths:

* `ClearIsExact`, `StoreRefinesCache`: from `StoreInv`, which says where a
  directory can be (on the shelf of one route, or in a grave, or gone), what a Set
  has looked up as long as its route was not cleared since, whose tombstone is
  still there, and that what a Clear found stored is readable only in the routes
  it has still to clear.  In the refinement the rename of an entry is what puts a
  response there, and the rename of its directory what takes all of a route; a
  lookup, a return and a death map to their abstract counterparts, and the removal
  of a tombstone, half-done ones included, to a stutter.

`PublicationProofs` proves, for any set of publishers and any number of power
cuts, `ExclusiveInvariant`, `ExclusiveSound` and `ExclusiveRefinesWriteOnce`.  The
invariant adds to the two properties that what is durable is visible, and that
whoever links has a synced file: without the first a power cut could bring back an
older entry, without the second a linked entry could be torn.  The refinement maps
the entry to the register's value and the acknowledged publishers to its claims; a
power cut that loses an entry nobody was told of is the register's forgetting.

It proves, for any set of creators, `CacheRootInvariant`, `CacheRootAgreement` and
`CacheRootIsSound`.  `LockInv` is what makes agreement inductive: at most one
creator is behind the lock, and it writes only where it saw no marker after it had
the lock.  From the same invariant `CacheRootRefinesWriteOnce`: the marker is a
write-once register, decided by its publication, and every creator that returns is
told what was decided.

And it proves, for any number of captures, calls, crashes and power losses,
`CaptureInvariant`, `CaptureIsSound` and `AppendsKeepRecords`.  `FileOK` is kept of
both files, the visible one and the durable one, since a power loss makes one the
other: each loads, and one that a capture renamed is its whole, synced candidate.
`CaptureOK` says that a candidate holds the key of every acknowledged call and, for
a capture that appends, those of the file it copied.  `AppendKeepsRecords` carries
the premise that the file the capture copied has the digest it took.  The proof
asks for it, and it is not idle: `wrapCapture` digests the target
(`replay.go:464`) and then opens it (`:470`) without comparing the two.  With three
captures, two renames in between and one later can make the digest match again at
`Close` although the copy lacks records of the target; with the two captures of
the `artifacts` run this cannot happen.

`GovernanceProofs` proves about held-out execution, for any runners, permits,
partitions and power losses, `HeldOutInvariant` and `CampaignIsSound`.  `JobOK`
says that the time a runner has noted lies in the window of its permit and that
the receipt it holds is stored, unless a power loss took it; `ReceiptOK` and
`SealOK` say the same of the documents.

About the review, for any packets, outcomes, invited reviewers and documents,
`ReviewInvariant` and `ReviewIsSound`: every document was built from documents that
exist, at a time not after its own, and documents are only ever added
(`DocumentsStay`), so a later batch of a reviewer cannot change a ledger.

About the inspection journal, for any clerks, targets, assessments and crashes,
`JournalInvariant` and `InspectionIsSound`.  A load sees a prefix of the journal;
the invariant says that what a clerk is about to link was built from such a prefix,
and that a finalized record and a receipt are grounded in one that was ready.
Linking refuses an existing sequence number, which keeps the chain intact though
the prefix is stale.  `VerdictIsStrict` proves the pure part, `CombineStatuses`, for
any finite set of answered targets, where the run `artifacts` tries six;
`ReceiptStaysStrict` is the run's own invariant.  `ArtifactsAreDecidedOnce` takes the
two refinements of `WriteOnce` to the composition that the run checks.

`PairSweepProofs` proves, for any finite selection, any number of workers and any
failure budget, `SweepIsSound` and `SmallSelectionsAreWhole` (for callers that
re-check their context; `PairSweepAbsolute` shows they need it) and
`FatalEndsTheRun`.  `SweepInv` has four parts that the properties need: `TaskInv`
ties the goroutines to the sets of items, `FatalInv` says a fatal error has
stopped the sweep, `CountInv` counts the failures that may still come (failures
and running items together never exceed the budget by a worker wave), and
`CoverInv` says where an item without a result is: it has a goroutine, or there is
a reason not to publish.  `SelectionsEnd` and `SelectionsAreShort` prove that every
step leaves fewer and that a selection of n items takes 4 n + 4 at most, for any
caller: an item takes two steps per sweep, a recovery retries only what failed, and
there is one recovery.

`VerificationRunProofs` proves, for any number of runs, items, workers and
runtimes, `RunReportsAreTruthful`, `RunStopsDispatching`,
`RunResourcesAreExact`, `RunsGoOn` and `RunsComeToAnEnd`.  `StageInv` says what has been recorded of a run at each
place it can be: nothing before it closes its runtime, rows only after it, and
while the sink is closed each row is lost or says the item's status.
`ResourceInv` adds that the slots taken are the runs that open or dispatch, and how
often each run's runtime and sink have been closed at each place.  `RunsGoOn` needs
both: a run that waits for a slot finds them all held, a holder opens or
dispatches, and a run that dispatches has an item that is over its wait or, with
nothing under way, a least one that `group.Go` has room for.  `StepsOf` counts the
items in four sets that only shrink.

`McpServiceProofs` proves, for any set of request ids, `ServerIsExact` and
`SilenceIsExplained`.  The three invariants of the server need `OutstandingInv`:
a call that is at work is unanswered, and only the client marks an entry of the
in-flight map as cancelled.  It then proves of the composition, for any ids, runs,
items, workers and runtimes, `ServiceIsSound`, `PaidWorkIsAnswered`,
`DrainIsComplete`, `ServiceKeepsPromises` and `ServiceAdvances`.  The invariants of server and runs
are kept by each other's steps; `CouplingInv` ties them together: a run under the
server is under way only while its call's handler runs, and one that ended without
an error has an answer or a call that will give one, unless the output broke.
`DrainInv` adds that the end of the input reaches the context of every run, also of
a call that registers later.  Every step of the service is a step of one run or
moves no run at all (`ServiceEffect`), which is why the runs' action properties
carry over.  The effect lemmas (`LoopEffect`, `CallEffect`) say how little
a step of the server changes of a call.

`BestOfNProofs` proves, for any number of attempts and resuming processes,
`BestOfNIsSound`.  `AttemptInv` accounts for each worktree, `ManifestInv` says
that nothing is judged before every attempt is over, and `ChoiceInv` that a
process about to patch was, at every change made since its comparison, between
that comparison and `git apply`.  The theorem does not say that the patch lies on
the recorded repository, nor that it is the diff that was judged: neither is true,
see the findings.

Assumptions.  Those of the budget are `BudgetAssumption`: amounts reserved are
natural numbers (checked by `AcquireAttempt` at its entry), limits are natural
numbers, and a report always carries both token counts.  `CaptureAssumption` and
`OriginalAssumption` say that there is a key to ask for and that the file found at
the path, if there is one, is nobody's candidate and a fixture that loads.  Over a
file that does not load, `wrapCapture` refuses to append, and a capture that
overwrites replaces it without having copied it; such a start is not modelled, since
`TargetLoads` would speak of a file the code did not write.  `JournalAssumption` wants a target to inspect, since
a packet has criteria; `HeldOutAssumption` only keeps the mark for "no document"
apart from documents.  `AttemptHeadroom` has a premise of its own: the call limit is
positive (zero means no limit) and the attempt limit at least calls times tries, as
`resolveLimits` computes it.  Every module with an assumption is extended by the
module of a run, so TLC evaluates it.

Only model-checked: liveness (`WaiterServed`, `CallsResolved`, `ServeEnds`, and of
`SelectionEnds`, `RunsEnd` and `CallsReturn` the part under fairness), because TLAPS
does not reason about fairness and `ENABLED`; and the runs that expect a violation,
which are counterexamples.  Every invariant and every safety property of the other
runs is a theorem.  `SmallPublishedComplete` and `SweepSound` are proved for callers
that re-check their context, and the properties of `MCSweep` and `MCArtifacts` of the
modules these put side by side, except `ReceiptIsStrict` and `DecidedOnce`, which are
proved of the composition.  No module declares a `RECURSIVE` operator.

## Not modelled

The repository is far larger than its behaviour: most of its lines are schemas,
canonical encodings, validation of static documents and statistics.  They keep no
state between calls, their arithmetic is floating point or hashing, and a model
of them would repeat their code.  `PROJECT.json` gives the reason for each.

* Statistics and scores (`sprt`, `verifier`, `reliance`, `stats`, `calibration`
  and the like): floating point, no state.  A version on integers would be another
  algorithm.
* Documents (`capsule`, `claim`, `lineage`, `protocol`, `registry`, most of
  `relation`, `stress`, `outcome` and `replay/bundle.go`): pure functions of their
  input.  Where such documents meet time, rivals or crashes they are modelled.
* `study` and `conformance`: single transitions or comparisons of values the
  caller holds; each property of them would restate a guard.
* Power loss under the run budget's state file, whose directory is not synced, and
  two processes on one such file: listed as hazards with the reason.
* Two compositions are left at their interface.  `HeldOut` takes the actions of
  `WriteOnce` and `ScoreCall` those of `AttemptQuota`; that `ExclusiveFile` and
  `RunBudget` implement these is proved, but the modules are not put together into
  one state machine, whose failures would be those of the parts.
