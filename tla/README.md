# Formal models of Nova Voice

Nova Voice is a household voice agent: satellites stream audio to a server
(Iridium), which transcribes, interprets and answers, keeps durable goals, plans
and records in a SQLite store, and may hand reasoning work to a companion device
(the owner's phone).  This directory holds TLA+ models of the parts of the
server whose correctness depends on interleavings, lapsing leases, restarts,
cancellations and late messages, the TLC runs that check them, and theorems checked by TLAPS.

## Inventory

| Component | Code (`src/src/nova_voice/`) | State | Operations | What must be right |
|---|---|---|---|---|
| Durable plan engine | `durable/runner.py`, `store.py`, `models.py` | goal, plan, steps, executions, each with a revision | `run`, `resolve_step`, `cancel`, `expire`; lease / mark / complete; terminate | one lease holder, dependency order, retry budget, successes kept, verdicts true, cancel final |
| Companion job ledger | `companion/jobs.py`, `ledger.py` | `CompanionJobRecord`: status, attempts, lease | offer, accept, progress, complete, reject, ... ; sweep, reconcile, fall back | one owner, no late result, final is final, a live lease is kept |
| Companion approvals | `companion/approvals.py` | `CompanionApprovalRecord` | propose, decide, expire, execute, recover | no run without a yes, first answer stands, one run |
| Companion callbacks | `companion/callbacks.py` | `CompanionCallbackRecord` | request, execute, deliverable, recover | one run per call, an answer reaches only the attempt that asked |
| Companion session and router | `companion/session.py`, `router.py`, `dispatch.py`, `routed.py` | live session, futures per attempt, breaker | register, offer, await, cancel, tool calls | a late frame resolves nothing, supersede, breaker |
| Companion helpers | `companion/protocol.py`, `auth.py`, `retention.py`, ... | none of their own | validation, signatures, redaction | - |
| Turn arbitration, election | `audio/arbitration.py`, `election.py` | claims per scope with a deadline; candidate groups | acquire, extend, release; elect | one satellite has the floor |
| Audio runtime | `audio/runtime.py` | phase and owner per scope, prefetch tasks, speech slots | process a segment, continue, abandon, interrupt, speak | a later turn may only replace an earlier one that has not acted |
| Audio signal code | rest of `audio/` | per-satellite pipelines | segmenting, endpointing, echo | - |
| Satellite playback | `satellites/playback.py`, `client.py` | stream, pending chunks, room registry | emit, finish, cancel, abandon; register | nothing is played after a cancel, chunks in order |
| Turn machine, sessions | `turns.py`, `sessions.py` | stage, cancellation phase, goal clocks | stage moves, bind, finished, request | a call that must not be interrupted is not |
| Voice service, API | `service.py`, `api.py`, `config.py` | turn lock, controller of the turn that holds it, worker and latest turn of a satellite socket | handle a turn, invoke a wave; schedule a turn; HTTP / websocket handlers | turns of a satellite run in order and end |
| Owner features | `proactive.py`, `commitments.py`, `research.py`, ... | one or two records each | revision-checked writes | no duplicate record |
| Providers, inference, interpretation | `providers/`, `inference/`, `interpretation/` | external services | calls | - |
| Training, model switching | `training/`, `llm_switch.py`, ... | snapshot and acknowledgement files | enter, leave, sync | - |
| Evaluation, telemetry, satellite apps, ops | `evaluation/`, `src/satellites`, `src/ops` | - | - | - |

How they interact: the durable store is the shared state.  Every writer reads a
record, awaits, and saves it under the revision it read; only the store's own
transactions (`BEGIN IMMEDIATE`) touch several records at once.  The companion
session delivers frames of the device to the ledger, the API's reconnect handler
calls `reconcile`, the administration API calls `terminate_plan`.

A spoken turn passes through five parts on one event loop.  The worker of the
satellite's socket (`api.py`, `schedule_turn`) takes a segment through the gate, the
election and a claim of the acoustic scope, and asks the runtime whether the turn
before may be replaced; the runtime keeps one phase per scope and asks the
cancellation controller of the turn that holds the service's turn lock.  The
turn's own task waits for a prefetch, transcribes, takes the lock, runs waves of
provider calls, speaks, and waits for the satellite to confirm.  Where a step is
routed to the phone, `CompanionRouter` offers it to the live session and waits on
two futures of the attempt, which the receive loop of the session's socket
resolves.

`DurablePlanRunner`, the ledger's transitions, the approval gate and the
callback ledger are complete components with tests, but at this commit only
`reconcile` (`api.py:732-745`) and `terminate_plan` (`api.py:1655`, `1686`) are
wired into the running server.  The models let every operation be called
concurrently, as their interfaces and docs promise.

What is hard: two callers between read and save; a listing that is stale when it
is acted on; leases that lapse while their holder works; crashes between a side
effect and its record; frames that arrive late, twice or for a superseded
attempt; verdicts derived from one read and written after another; a task that is
cancelled at an await that swallows the cancellation, or before its `try` began;
a session, claim or phase that has passed to somebody else during an await.
`PROJECT.json` lists those that matter most at the line where they bite.

## Modules

| Module | Models | Actions |
|---|---|---|
| `LeasedWork` | what the engine promises about one unit of work: exclusive claims, a budget, done is final | `Claim`, `Release`, `Finish` |
| `DurablePlan` | one plan, its store and the concurrent calls of `DurablePlanRunner.run` | one per await of `run` (`ReadPlan`, `ListSteps`, `Prepare`, `GatherDone`, `RefreshSteps`, `RefreshPlan`, `SetPlanState`), one per await of `_execute_step` (`AcquireExecution`, `MarkExecutionRunning`, `ExecutorReturns`, `CompleteExecution`), `ResolveStep`, `TerminatePlan`, `LeaseExpires`, `TimerDue`, `Crash` |
| `DurablePlan_proofs` | theorems about `DurablePlan` | |
| `JobOwnership` | what a job promises about who works on it: one attempt at a time, every offer a new one; `CompanionJobs` implements it and `CompanionCallbacks` is built on it | `Offer`, `Lose` |
| `CompanionJobs` | one job and the ledger's concurrent callers | `Call`/`Decide` an operation, `Get`, `Save`, `Conflict`; `Frame`, `OfferJob`, `Cancel`, `FallBack`, `SettleLocally`, `Sweep`, `Reconcile`; `Tick` |
| `CompanionJobs_proofs` | theorems about `CompanionJobs` | |
| `CompanionApprovals` | one approval and the gate's concurrent callers | `Propose`, `Decide`, `ExpireLapsed`, `Execute`, `Write`, `WriteConflict`, `StartMutation`, `EndMutation`, `Retry`, `Restart` |
| `CompanionApprovals_proofs` | theorems about `CompanionApprovals` | |
| `CompanionCallbacks` | one tool call and the ledger's concurrent callers, with the job changing hands | `Request`, `Create`; `Execute`, `Claim`, `StartTool`, `ToolEnds`; `Reload`, `Save`; `ReadOwner`, `Deliver`; `Restart`, `Requeue`; `OwnerChanges` (a step of `JobOwnership`) |
| `CompanionCallbacks_proofs` | theorems about `CompanionCallbacks` | |
| `CompanionSession` | the router's turns over the only live session: attempts and their futures, superseding sessions, deadlines, cancellation, breaker, the route `both` | `Register`, `Release`; the phone's frames `HandleAccept`, `HandleReject`, `HandleResult`, `HandleFailed`, `DispatchToolCall`, with `ToolEnds`; a turn's `Start`, `StartIneligible`, `OfferFromArm`, `Deliver`, `Sent`, `SendFails`, `AcceptReturns`, `AcceptTimesOut`, `ResultReturns`, `ResultTimesOut`, `Tell`, `LocalEnds`, `RunBothReturns`, `Cancel`; `Resume` |
| `CompanionSession_proofs` | theorems about `CompanionSession` | |
| `VoiceTurns` | the composition of gate, scheduling, phase, turn lock and cancellation controller for the spoken turns of a scope | worker: `Heard`, `Loses`, `Acquire`, `Schedule`, `Continue`, `Refuse`, `Replace`, `Interrupt`; turn: `Start`, `PrefetchEnds`, `Transcribe`, `Abandon`, `AbandonEnds`, `Lock`, `BeginWave`, `BeginMemory`, `CallReturns`, `Handled`, `HandleRaises`, `Spoken`, `SpeakEnds`, `Confirmed`, `Leave`; claims: `Lapse`, `Extend`; `Disconnect` |
| `VoiceTurns_proofs` | theorems about `VoiceTurns` | |
| `MC...` | the small instances | |

Definitions named `...Late`, `...Early`, `..._any` and the like, commented
"Mutant", are plausible bugs of the definition that follows them; putting one in
its place must violate the property `PROJECT.json` pairs it with.

### Abstractions

* **Revisions.**  `DurablePlan` keeps the revision of a step, because two runs
  prepare from listings of different age.  In the companion modules a revision
  matters only through the comparison in `save`: `fresh` says that it still holds
  and every write clears it for all others.
* **Time.**  In `DurablePlan` a lease is live or lapsed and a timer due or not.
  `run` computes `now` before the transaction that uses it; a slightly older
  `now` sees a lease as live for longer, which is the same as the lease lapsing
  after the transaction, so the comparison is made in the transaction.  In
  `CompanionJobs` leases are renewed, and a clock counts to `MaxTime`.
* **Tokens.**  A lease token is fresh at each acquisition; the model draws the
  next number.
* **Goal and plan.**  They are written together with one status, so `plan` stands
  for both.
* **Data.**  Reasons, results, arguments, summaries, progress fractions, audit
  rows and failure codes are left out, and so are invalid signatures, which raise
  before the record is touched.
* **Cancellation.**  In the durable and ledger modules a cancelled asyncio task is
  a caller that never takes its next step: no `except` of that code catches
  `CancelledError`, and the safety properties ask nobody to move.
  `CompanionSession` and `VoiceTurns` model cancellation at each await, with the
  `except` and `finally` clauses that run.
* **The job of a tool call.**  `CompanionCallbacks` numbers the attempts of the job
  in the order they are offered and keeps only the current one (`owner`): an
  attempt that lost the job never owns it again.  That is `JobOwnership`, whose
  steps `OwnerChanges` takes, and `CompanionJobs` is proved to implement it.
  A call id belongs to the attempt that made it up (`companion/reference.py`).
  Nothing in the server calls `deliverable` yet, so `ReadOwner` stands for the
  caller it is written for: one that delivers the answer of a recorded call and
  reads the current attempt first, at any time before.
* **Outcomes of an attempt** (`CompanionSession`).  A result is ok, failed (the phone
  said so) or lost (a deadline or the end of the session).  There is one workload
  and one breaker; tier, locality and advertised workloads may refuse an offer at
  any time (`StartIneligible`).  A tool call whose task was cancelled counts as
  ended.  Personal calls and approval questions wait on futures of their own
  and are left out.
* **A scope** (`VoiceTurns`).  Each satellite connects once, with its turns
  numbered in the order it hears them.  The election is any verdict, so what is
  shown does not rest on it.  A claim's deadline may pass at any time.  The calls
  of a wave are told apart by what their policy permits: `anytime` or not.
  Speech is the time it takes.  Typed turns take no claim and are left out.
* **Step reads.**  `resolve_step` reads and saves with the revision it read: it
  takes effect only when nothing touched the step in between, so one action.

## Runs

| Run | Instance | Shows |
|---|---|---|
| `durable_plan` | 2 workers; two parallel-safe steps, one with 2 attempts, and a compensation that shares a resource; cancel at any time | `TypeOK`, `WavesDisjoint`, `SatisfiedPlanIsDone`, `CompensatesOnlyFailed`, `InFlightIsReady`, `SuccessIsRecorded`, `SuccessKept`, `LeasedWorkSpec` |
| `durable_plan_live` | 2 workers; timer, question and tool with 2 attempts, each after the one before; 1 crash; fairness | `OneLeaseHolder`, `DependenciesDone`, `CallsWithinBudget`, `InFlightSettles`, `DoneIsReported` |
| `durable_plan_crash` | as before, 1 attempt per step (the default) | `LapsedLeaseIsReclaimed` is violated |
| `durable_plan_cancel` | as `durable_plan` | `TerminationIsFinal` is violated |
| `companion_jobs` | 2 callers, 2 attempts on 2 sessions, lease 1, deadline and clock 3, 2 tries | `TypeOK`, `OneOwner`, `WritesAreTransitions`, `ResultFromOwner`, `SettledIsFinal`, `LiveLeaseKept`, `OwnershipSpec` |
| `companion_jobs_fallback` | the same | `FallbackIsOneWay` is violated |
| `companion_jobs_reconcile` | the same | `ReconcileLeavesOthers` is violated |
| `companion_approvals` | 3 callers, 2 restarts | `TypeOK`, `OnlyApprovedRuns`, `RunningIsVisible`, `FirstAnswerStands` |
| `companion_approvals_once` | 3 callers, no restart | `RunsOnce` is violated |
| `companion_callbacks` | 3 callers, 2 attempts, 2 restarts | `TypeOK`, `OneExecutor`, `CallsRunOnce`, `SupersededIsWorthless`, `OutcomeKept` |
| `companion_session` | 2 turns (one prefers the phone and may get 1 tool call, one runs on both), 2 sessions, budget of 2 failures, 1 tool call at a time | `TypeOK`, `WaiterIsReachable`, `LocalRunsAlone`, `AnsweredIsComplete`, `GivenUpIsTold`, `DroppedStaysDropped` |
| `voice_turns` | 3 turns of one satellite, 1 of another, 2 waves per turn; fairness | `TypeOK`, `FloorExclusive`, `SatelliteInOrder`, `NothingCutShort`, `EveryTurnEnds` |

**Bounds and why they are enough.**  Every conflict in this code is between two
parties (two lease holders, reader and writer, sweep and frame), so two workers
or callers produce it; approvals and tool calls have three so that a decided race meets a
third call.  Two attempts are one superseded and one current.  A retry budget of two
distinguishes the last attempt from an earlier one, and one crash suffices for a
lease without a holder; `MaxCrashes` and `MaxRestarts` bound how often it
happens, `Endings` how a plan may be ended from outside, `MaxTime` the clock:
with a lease of one tick and three ticks, a lease can lapse, be renewed and lapse
again before the deadline.  The proofs need none of these bounds.  Callers and
workers are interchangeable, and swapping both attempts together with their
sessions maps behaviours to behaviours, so the symmetry sets are sound; the
liveness runs use none.

In `companion_session` two sessions are one superseded and one current; a third
would only supersede again.  Two turns are what it takes for their failures to
reach the budget of two together, and one of each kind meets both ways of falling
back (`companion_only`, which differs in the last step alone, is covered by the
proofs).  In `voice_turns` three turns of one satellite are one that is cancelled or
goes on, one that replaces or follows it, and one that comes while that one still
waits; the fourth, of another satellite, takes the floor when a claim lapses and
competes for the turn lock.  Two waves tell a turn that acts from one that has
acted.  `MaxSessions` and `MaxWaves` bound the counters.

**Deadlock.**  The durable liveness runs and the approval runs switch the check
off: a plan that is final, or an approval that is settled with the restarts used
up, really has nothing left to do.  So do `companion_session` and `voice_turns`,
where every turn may be over and every session closed.

**Fairness.**  `FairSpec` assumes that somebody keeps calling `run` for a plan
that is not final, that asyncio schedules every coroutine, that an executor
answers or raises, that leases lapse and timers come due.  Nobody has to answer a
question and no worker has to crash.  Nothing is claimed about the liveness of
companion jobs: no timer in the code calls `sweep`.

`FairSpec` of `VoiceTurns` assumes that the event loop runs some task as long as one
can run (weak fairness of the disjunction of `Advance` over all turns).  Every wait
in `Advance` has a deadline of its own in the code: the election window, speech
recognition, provider timeouts, synthesis; speaker recognition, which an abandoned
turn awaits as well (`AbandonEnds`), is a computation that ends; a wait for an
earlier turn or for the lock has no deadline and is a guard.  Nobody has to speak, to confirm a response or to
disconnect, and no claim has to lapse.  Weak fairness of the disjunction is
enough because no turn can step for ever: places only move forward and waves run
out.  Nothing is claimed about liveness in `CompanionSession`; its timers may fire at
any time, so its safety does not depend on how long they are.

## What the violated runs show

* `durable_plan_crash`: `PlanStepRecord.max_attempts` defaults to 1, and
  `acquire_execution` counts a reclaim as an attempt.  After a crash between the
  lease and the completion the step is refused to everyone and stays in flight,
  where `docs/DURABLE-AGENT.md` promises that a later worker reclaims it.
* `durable_plan_cancel`: `set_plan_state` writes a verdict without looking at what
  the plan has become; a cancel between `_set_plan_state`'s reads and its write is
  overwritten.
* `companion_jobs_fallback`: an attempt offered between `fall_back`'s read and its
  write is not ended by the fallback and can complete or reject the job later.
* `companion_jobs_reconcile`: the forced reclaim does not look at the owner again.
* `companion_approvals_once`: `_write` swallows the conflict, so the loser of the
  claim runs the mutation as well.  The stored idempotency key lets an executor
  that honours it collapse the duplicate.

Other behaviour met while modelling, with no run of its own: a compensation can
run for a source with retries left that then succeeds (see the comment of
`CompensatesOnlyFailed`), and a stale worker may reclaim such a source while its
compensation is in flight, which then could not be chosen again (why
`InFlightIsReady` and `CompensatesOnlyFailed` leave that case out); two concurrent runs may execute steps with a common
resource together, because waves are disjoint only within one run, and so may the next run
beside the coroutines a gather left behind when it raised (`WavesDisjoint` is about
the coroutines of one run, including those); a stale worker
can lease a step that was cancelled; `sweep` raises on a job falling back past its
deadline; `jobs.fail` does not ask whether the attempt is current;
`complete` and `fail` without an attempt leave the last attempt open, so its
later rejection reopens the job; a crash inside `recover_interrupted` leaves an
approval that looks un-run; an approval executed twice may end as failed after it
was recorded as executed; the mark of a superseded tool call may be overwritten by
the answer of its tool, or not be written at all when the two writes collide, and
`deliverable` returns `None` all the same (it decides again from the attempts the
next time, so nothing is delivered).

Disagreements between the code and its docs or comments that the last two modules
brought out, also with no run of their own:

* **Replaced turns that go on.**  A turn cancelled while it waits for its prefetch
  swallows the cancellation (`runtime.py:1334`) and goes on, and so does one that
  awaits a single call it was asked to stop (`service.py:2353`); the turn that
  replaces it contains its words, so the request is handled twice.  `schedule_turn`
  says that only requests without effects so far are merged (`api.py:3208`).
* **Effects of an earlier wave.**  `TurnCancellationController.request` looks only
  at the calls running now: a strict action that ended in an earlier wave followed
  by an interruptible one counts as interruptible, and the merged turn repeats it.
* **Whose phase it is.**  The phase belongs to the scope, so once claims have lapsed a
  turn of another satellite decides whether a continuation is accepted, and
  `requested` is set on whatever turn holds the lock.
* **Refused, but shortened.**  A refused cancellation still sets `requested`, and the
  waves the turn has left are dropped.  A memory mutation does not look at it.
* **Cascading cancel.**  Cancelling a follow-up cancels the turn it awaits
  (`gather` passes it on, `api.py:3215`), whose words the merged turn does not have.
* **A claim without a release.**  `arbitration.py:30-34` says that every path releases
  the claim in a `finally`; a turn cancelled before `run_turn` begins has none, and its
  claim stays listed until its deadline.
* **No deadline for the confirmation.**  A turn waits for `playback_finished` until
  the socket closes (`api.py:3145`); `playback_cancelled` does not end the wait.
* **The speech slot.**  Two turns that pass `await interrupt_speech` together both
  take the slot of the scope and the first loses its cancel event
  (`runtime.py:2117`; `docs/OWNER-ACCEPTANCE-TESTS.md:49`).
* **A silent phone never trips the breaker.**  An acceptance that times out is counted
  as a rejection (`router.py:521`), although the breaker is there so that a failing
  phone does not add its timeout to every turn (`router.py:699`, `docs/COMPANION-ROLLBACK.md:22`).
* **`both` does not always await both.**  `_run_both` says so (`router.py:575`); a
  local arm that raises, or a cancelled turn, leaves the companion arm running.
* **Interrupted sends.**  A cancellation while an offer is being sent leaves the
  attempt listed until its session ends, and the phone is not told; a cancellation at
  the wait for acceptance does not end tool calls (`session.py:617-635`).

## Proofs

`DurablePlan_proofs` holds for every number of workers, every plan that satisfies
the assumptions of `DurablePlan` (dependencies refer to earlier steps, budgets are
positive), and every number of crashes and lapses.  `TypeCorrect` comes first.
The properties are not inductive alone: that a call budget holds needs that every
coroutine about to call the executor holds a lease not yet used; that order is
kept needs that successes are never taken back, which needs that no stale
coroutine still holds the current token.  `IInv` collects these links between
step, execution, coroutine and call count, `InductiveStep` proves it action by
action, and `Invariance` yields `LeaseExclusion`, `DependencyOrder`,
`RecordsAgree` and `CallBudget`.  `SuccessIsKept` and `Implementation` (the
refinement of `LeasedWork`) are step properties under `IInv`;
`SatisfiedIsDone` and `WavesAreDisjoint` add an invariant of their own.

Two more theorems are about what a worker may still do with a listing that is stale.
`RecordChanges` lists what a step can do to the records of one unit of work, and
`RecordFacts` what follows of each kind.  `CompensationIsEarned` uses that a failed
source whose only attempt is spent (`FailedForGood`) stays failed (`FailedStays`),
because nothing can lease, prepare or terminate it again; `CompensationEarned` says
that the source of a compensation somebody is about to execute, or has executed,
failed, and `EarnedStep` that this lasts from the listing on.  `InFlightStaysReady`
joins this with dependency order and with `InFlightIsLeased` (a step record in flight
has an execution in flight) into all the conditions of `Ready`.

`CompanionApprovals_proofs` holds for every number of callers and restarts.  Its
`IInv` says what a caller that still holds the current revision knows
(`Knows`), that a claim which lost its race saw the record leave "approved"
(`Visible`), and that a recovery puts the record back before anyone else is
active (`Alone`).  From it follow `ApprovalFirst`, `Visibility`, and, through
`StatusMoves`, `AnswersStand` (no answer overturned, nothing settled made
executable again).

`RunsOnceUnlessClaimLost` says why `RunsOnce` fails, and that it fails for nothing
else: if no caller takes the step in which `_write` swallows the conflict of a claim
(`ClaimLost`), the mutation runs once for every start.  Its invariant adds `Sole` (one
executor, and the record says so) and `Paid` (whoever is still to run the mutation
has a restart to pay for it).

`CompanionJobs_proofs` holds for every number of callers, sessions, attempts and
retries, and any deadline and lease.  `Good` says what is true of the record after
every write: `OneOwner`, and that only offered attempts are open and none in a
record that is final.  `OperationMoves` shows that whatever operation writes, the
write is one of four kinds of move (an attempt is offered, the owner keeps the job,
the job is requeued, the job ends), `MoveIsGood` that each keeps `Good`, and
`Computed` that a caller whose revision holds saves a move of the current record
and not of the one it has seen in the past.  The safety properties of the run follow.

`Implementation` maps the record to `JobOwnership`: the number of attempts, and the
place of the open one among them (`OwningAttempt`).  An offer appends an attempt to a
job with none open, every other move keeps the attempts and at most closes the open one
(`PromiseStep`).  `LostIsLost` is the property of `JobOwnership` the other ledger needs.

Two theorems give the violated runs of this module their exact reach.  `ClosedIsLeft`:
once a job that fell back or ended has no attempt open, no device gets at it any
more, so `FallbackIsOneWay` fails only for an attempt that was left open.
`ReconcileUnlessHandedOver`: `ReconcileLeavesOthers` holds in every behaviour in which
the job does not change hands while a reconciliation is between its listing and its
write (`Undisturbed`: until then the job is still with the session it was listed for).

`CompanionCallbacks_proofs` holds for every number of callers, attempts and
restarts.  That two executors exclude each other needs `Knows`: a fresh claim is of
a pending call, which nobody runs, and a fresh requeue of an interrupted one that
nobody has taken up since the restart.  That only worthless calls are superseded
needs `Worthless`: a delivery that has read another owner than the asker will never
see the asker own the job again.  `OutcomeStays` follows from the same invariant.
That the job changes hands by steps of `JobOwnership` alone is how this module is
built; that the job ledger keeps to them is `Implementation`, and that a lost attempt
stays lost is `LostIsLost`, both theorems of `CompanionJobs_proofs`.

`CompanionSession_proofs` holds for every number of turns and sessions, any routes,
tool calls and failure budget.  `SessionInv` has three parts for each turn:
`AttemptGood` (a listed attempt belongs to the current session and is open),
`TurnGood` (how far the local run and the answer may be for a place of the companion
arm) and `Tied` (what the place of the arm says about the attempt: in particular
that an attempt a turn waits for is listed or resolved).  The properties are about
`Tied` and are not inductive alone, because what resolves an attempt depends on
whether it is listed.  A step touches one turn, or ends the current session for all of
them, and one lemma covers each kind.  `DroppedStaysDropped` is a step property
under `SessionInv`.

Two more theorems say that a turn is answered once and can be answered.
`SessionAnsweredOnce`: an arm only comes nearer to its end (`StepsLeft`), and what an
arm or the turn ended with is never replaced (`Onward`).  `SessionCanAnswer`: a
started turn without an answer has an arm that is under way, a local run, or arms
whose results it has only to look at.  With timers that do go off this is the
argument that every turn is answered; the timers themselves are not proved about.

`VoiceTurns_proofs` holds for every number of turns, satellites and waves.
`FloorExclusive` needs `Floor`: that a live claim is the listed one, and that a turn in
progress has a claim that was not released unless a newer turn of its satellite has
taken over.  That in turn needs `Order`: a worker takes one segment at a time, and a
turn whose processing has begun has only finished turns before it.  `VoiceInv` joins
them with the type invariant, which also says that only the turn that is handled
has calls.  `Shape` and `ClaimsKept` reduce the actions to what they may do
to places and claims.

The argument behind `EveryTurnEnds` is proved up to its use of fairness.
`VoiceOnlyForward`: a step of the loop brings one turn nearer to its end (`Distance`,
then the waves it has left) and moves none back, so the loop cannot step for ever.
`VoiceNobodyStuck`: while a turn has not ended, some turn can go on, or a response of
its satellite waits to be confirmed; turns wait for earlier turns of their satellite
and for one lock, and the holder of the lock and the earliest turn wait for nobody.

Only model-checked: the liveness properties `InFlightSettles`, `DoneIsReported` and
`EveryTurnEnds`, because the prover handles neither fairness nor `ENABLED` here.  Every
other property of a passing run is a theorem.  The properties the violated runs
refute cannot be proved; `RunsOnceUnlessClaimLost`, `ClosedIsLeft` and
`ReconcileUnlessHandedOver` prove what is left of three of them.

## Not modelled, and the plan

Of the modelled components:

* durable plan engine: audit rows, pruning, backup and restore, migrations of the
  store; creation of a plan bundle;
* companion: the redaction of finished jobs (`companion/retention.py` clears
  `result_ref`), telemetry, heartbeats, progress stages, personal calls and
  approval questions of a session (`request_approval` has no caller at this commit),
  the eligibility table, the contents of messages;
* voice turns: audio data, the election itself, the speech slot and announcements,
  conversation windows, typed turns, a satellite that reconnects, frame queues and
  acknowledgements, which actions of a plan are ready, allowed or duplicates,
  interpretation and rendering, the stage machine (a trace for the operator).

Components without a module: the playback stream and room router of the
satellites, owner features on the durable store (one or two revision-checked
records each), providers, speech inference and interpretation, training and model
switching, evaluation and telemetry, the satellite applications, deployment.
Hazards seen there: two selections within the granularity of a file's
modification time look like one (`llm_switch.py:87`), two considerations race to create
one intervention (`proactive.py:130`).
Most of their code is calls of external services, numeric or textual transformation of
one utterance, wiring or measurement: it has no states whose order could be
wrong, and its bulk is why the models stand for a small part of the repository's
lines.

What would come next:

1. `Playback`: the stream's locks, `emit`, `finish`, `cancel` and `abandon`, and the
   registry of rooms.
2. The speech slot and typed turns in `VoiceTurns`, with a satellite that reconnects.
3. `LlmRouteWatcher`: selections, acknowledgements and training mode across two
   processes.
