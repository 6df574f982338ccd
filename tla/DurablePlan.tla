---------------------------- MODULE DurablePlan ----------------------------
(***************************************************************************)
(* One durable plan, its SQLite store (durable/store.py) and the runs of   *)
(* DurablePlanRunner (durable/runner.py) that advance it concurrently.     *)
(*                                                                         *)
(* A worker is one call of DurablePlanRunner.run: a process may hold       *)
(* several, and nothing in the code depends on which process holds which.  *)
(* Every store method is one BEGIN IMMEDIATE transaction, hence one        *)
(* action; everything a run computes between two awaits is part of the     *)
(* action that read the state it computes from.                            *)
(*                                                                         *)
(* Abstractions.  The clock is seen only through comparisons: `live` says  *)
(* that lease_expires_at is still ahead and `due` holds the timers whose   *)
(* not_before has passed.  A goal is always written with its plan, in one  *)
(* transaction and with one status, so `plan` stands for both.             *)
(* PlanStepRecord.attempt always equals the attempt of its execution and   *)
(* exec[s].attempt stands for both.  Reasons, results and audit entries    *)
(* are left out.                                                           *)
(***************************************************************************)
EXTENDS Integers, FiniteSets

CONSTANTS
  Workers,       \* concurrent calls of DurablePlanRunner.run
  NumSteps,      \* steps are numbered by PlanStepRecord.order
  Kind,          \* PlanStepRecord.kind
  Deps,          \* PlanStepRecord.depends_on
  Resources,     \* the resource set a step locks
  ParallelSafe,  \* steps with parallel_safe = True
  MaxAttempts,   \* PlanStepRecord.max_attempts
  Source,        \* compensates_step_id, 0 when no such step exists
  Endings,       \* how the plan may be ended from outside
  MaxCrashes     \* bound: how many workers may die

Steps == 1..NumSteps

ExecutableKinds == {"tool", "verification", "retry", "compensation"}
ClockKinds == {"wait", "timer"}
ExternalKinds == {"question", "approval", "event"}

ASSUME NumStepsAssumption == NumSteps \in Nat \ {0}
ASSUME KindAssumption ==
  Kind \in [Steps -> ExecutableKinds \cup ClockKinds \cup ExternalKinds]
\* create_plan_bundle: dependencies must refer to earlier steps.
ASSUME DepsAssumption ==
  /\ Deps \in [Steps -> SUBSET Steps]
  /\ \A s \in Steps : \A d \in Deps[s] : d < s
ASSUME BudgetAssumption ==
  /\ MaxAttempts \in [Steps -> Nat \ {0}]
  /\ Endings \subseteq {"cancelled", "expired"}
  /\ MaxCrashes \in Nat
ASSUME SourceAssumption == Source \in [Steps -> 0..NumSteps]

Success == {"satisfied", "compensated"}
Terminal == Success \cup {"blocked", "cancelled", "expired", "failed"}
StepStates ==
  Terminal \cup {"pending", "leased", "running", "waiting", "paused"}
PlanStates ==
  {"planned", "active", "satisfied", "paused", "blocked", "cancelled",
   "expired", "failed"}
FinalPlanStates == {"satisfied", "cancelled", "expired", "failed"}
InFlight == {"leased", "running"}

VARIABLES
  plan,     \* status of the PlanRecord and of its GoalRecord
  step,     \* PlanStepRecord: status and optimistic revision
  exec,     \* the ExecutionRecord of each step ("none" before the first)
  due,      \* timer and wait steps whose not_before has passed
  run,      \* where each worker is in the loop of `run`, and its locals
  task,     \* the _execute_step coroutines of each worker
  calls,    \* history: executor.execute invocations per step
  crashes   \* how many workers have died

vars == <<plan, step, exec, due, run, task, calls, crashes>>

NoTask == [at |-> "none", token |-> 0, outcome |-> "none"]
NoTasks == [s \in Steps |-> NoTask]
IdleRun == [pc |-> "top", todo |-> {}, advanced |-> FALSE, verdict |-> "active"]

Init ==
  /\ plan = "planned"
  /\ step = [s \in Steps |-> [status |-> "pending", rev |-> 1]]
  /\ exec = [s \in Steps |->
               [status |-> "none", attempt |-> 0, token |-> 0, live |-> FALSE]]
  /\ due = {}
  /\ run = [w \in Workers |-> IdleRun]
  /\ task = [w \in Workers |-> NoTasks]
  /\ calls = [s \in Steps |-> 0]
  /\ crashes = 0

-----------------------------------------------------------------------------
(* The pure parts of the runner, evaluated on the listed step records.      *)

DepsDone(s) == \A d \in Deps[s] : step[d].status \in Success
DepFailed(s) == \E d \in Deps[s] : step[d].status \in Terminal \ Success

(* _prepare_non_tool_steps moves step s to status `to`.                     *)
Prepares(s, to) ==
  /\ step[s].status \in {"pending", "waiting", "paused"}
  /\ to # step[s].status
  /\ \/ to = "blocked" /\ DepFailed(s) /\ Kind[s] # "compensation"
     \/ /\ DepsDone(s)
        /\ \/ Kind[s] \in ClockKinds /\ s \in due /\ to = "satisfied"
           \/ Kind[s] \in ClockKinds /\ s \notin due /\ to = "waiting"
           \/ Kind[s] \in ExternalKinds /\ to = "paused"
           \/ Kind[s] = "compensation" /\ Source[s] = 0 /\ to = "blocked"
           \/ /\ Kind[s] = "compensation" /\ Source[s] \in Steps
              /\ step[Source[s]].status \in Success
              /\ to = "cancelled"

Preparations ==
  {x \in [step : Steps, to : StepStates, rev : {step[s].rev : s \in Steps}] :
     Prepares(x.step, x.to) /\ x.rev = step[x.step].rev}

(* Mutant: ready steps without waiting for their dependencies.              *)
ReadyTooEarly ==
  {s \in Steps :
     /\ step[s].status \in {"pending"} \cup InFlight
     /\ Kind[s] \in ExecutableKinds
     /\ Kind[s] = "compensation" =>
          Source[s] \in Steps /\ step[Source[s]].status = "failed"}

(* Mutant: a step in flight is left to the worker that has it.              *)
ReadyIfPending ==
  {s \in Steps :
     /\ step[s].status = "pending"
     /\ Kind[s] \in ExecutableKinds
     /\ DepsDone(s)
     /\ Kind[s] = "compensation" =>
          Source[s] \in Steps /\ step[Source[s]].status = "failed"}

(* _ready_steps *)
Ready ==
  {s \in Steps :
     /\ step[s].status \in {"pending"} \cup InFlight
     /\ Kind[s] \in ExecutableKinds
     /\ DepsDone(s)
     /\ Kind[s] = "compensation" =>
          Source[s] \in Steps /\ step[Source[s]].status = "failed"}

Compatible(m, s) ==
  {m, s} \subseteq ParallelSafe /\ Resources[m] \cap Resources[s] = {}

(* Mutant: everything ready is gathered.                                    *)
WaveOfAll(wave, ready) == wave = ready

(* _next_wave picks greedily in step order: a ready step joins the wave iff *)
(* it is compatible with every earlier member.                              *)
IsWave(wave, ready) ==
  /\ wave \subseteq ready
  /\ \A s \in ready : s \in wave <=> \A m \in wave : m < s => Compatible(m, s)

(* Mutant: one success is taken for all.                                    *)
VerdictAny ==
  IF \E s \in Steps : step[s].status \in Success THEN "satisfied" ELSE "active"

(* Mutant: the plan takes over a step status.                               *)
VerdictOfSteps ==
  IF \A s \in Steps : step[s].status \in Success \cup {"cancelled"}
  THEN "compensated" ELSE "active"

(* The status _set_plan_state derives from the refreshed steps.             *)
Verdict ==
  LET required == {s \in Steps : ~(/\ Kind[s] = "compensation"
                                   /\ step[s].status = "cancelled")}
      some(status) == \E s \in Steps : step[s].status = status
  IN IF required # {} /\ \A s \in required : step[s].status \in Success
     THEN "satisfied"
     ELSE IF some("blocked") THEN "blocked"
     ELSE IF /\ some("failed")
             /\ ~\E s \in required :
                   Kind[s] = "compensation" /\ step[s].status = "pending"
     THEN "failed"
     ELSE IF some("paused") \/ some("waiting") THEN "paused"
     ELSE "active"

-----------------------------------------------------------------------------
(* The loop of DurablePlanRunner.run.                                       *)

Become(w, new) == run' = [run EXCEPT ![w] = new]
Goto(w, label) == Become(w, [run[w] EXCEPT !.pc = label])
SetStep(s, status) ==
  step' = [step EXCEPT ![s] = [status |-> status, rev |-> step[s].rev + 1]]

(* Head of the loop: read the plan; a final plan makes run return.          *)
ReadPlan(w) ==
  /\ run[w].pc = "top"
  /\ plan \notin FinalPlanStates
  /\ Goto(w, "list")
  /\ UNCHANGED <<plan, step, exec, due, task, calls, crashes>>

(* List the steps and decide, from that snapshot alone, what comes next:    *)
(* the writes of _prepare_non_tool_steps, a wave of executions, or the      *)
(* refresh that settles the plan.                                           *)
ListSteps(w) ==
  /\ run[w].pc = "list"
  /\ \/ /\ Preparations # {}
        /\ Become(w, [run[w] EXCEPT !.pc = "prepare", !.todo = Preparations])
        /\ UNCHANGED task
     \/ /\ Preparations = {} /\ Ready # {}
        /\ \E wave \in SUBSET Ready :
             /\ IsWave(wave, Ready)
             /\ task' = [task EXCEPT ![w] =
                  [s \in Steps |-> IF s \in wave
                                   THEN [NoTask EXCEPT !.at = "acquire"]
                                   ELSE NoTask]]
        /\ Become(w, [run[w] EXCEPT !.pc = "gather", !.advanced = FALSE])
     \/ /\ Preparations = {} /\ Ready = {}
        /\ Goto(w, "refresh")
        /\ UNCHANGED task
  /\ UNCHANGED <<plan, step, exec, due, calls, crashes>>

(* _save_step for the next remaining write, in any order: the listing is    *)
(* ordered by creation time and id.  A record that changed since it was     *)
(* listed raises ConcurrentRecordUpdate out of run.                         *)
Prepare(w) ==
  /\ run[w].pc = "prepare"
  /\ \E x \in run[w].todo :
       /\ \/ /\ step[x.step].rev = x.rev
             /\ SetStep(x.step, x.to)
             /\ IF run[w].todo = {x} THEN Become(w, IdleRun)
                ELSE Become(w, [run[w] EXCEPT !.todo = @ \ {x}])
          \/ /\ step[x.step].rev # x.rev
             /\ Become(w, IdleRun)
             /\ UNCHANGED step
  /\ UNCHANGED <<plan, exec, due, task, calls, crashes>>

(* asyncio.gather returned: loop again when some execution made progress.   *)
GatherDone(w) ==
  /\ run[w].pc = "gather"
  /\ task[w] = NoTasks
  /\ IF run[w].advanced THEN Become(w, IdleRun) ELSE Goto(w, "refresh")
  /\ UNCHANGED <<plan, step, exec, due, task, calls, crashes>>

(* gather raised, so run raised; its other coroutines ran on to their end.  *)
GatherRaised(w) ==
  /\ run[w].pc = "raised"
  /\ task[w] = NoTasks
  /\ Become(w, IdleRun)
  /\ UNCHANGED <<plan, step, exec, due, task, calls, crashes>>

RefreshSteps(w) ==
  /\ run[w].pc = "refresh"
  /\ Become(w, [run[w] EXCEPT !.pc = "refreshPlan", !.verdict = Verdict])
  /\ UNCHANGED <<plan, step, exec, due, task, calls, crashes>>

(* Mutant: only the first verdict of a plan is written.                     *)
RefreshPlanOnce(w) ==
  /\ run[w].pc = "refreshPlan"
  /\ IF plan # "planned" THEN Become(w, IdleRun) ELSE Goto(w, "settle")
  /\ UNCHANGED <<plan, step, exec, due, task, calls, crashes>>

(* The plan is re-read only to see whether its status would change.         *)
RefreshPlan(w) ==
  /\ run[w].pc = "refreshPlan"
  /\ IF plan = run[w].verdict THEN Become(w, IdleRun) ELSE Goto(w, "settle")
  /\ UNCHANGED <<plan, step, exec, due, task, calls, crashes>>

(* set_plan_state overwrites the plan and its goal unconditionally.         *)
SetPlanState(w) ==
  /\ run[w].pc = "settle"
  /\ plan' = run[w].verdict
  /\ Become(w, IdleRun)
  /\ UNCHANGED <<step, exec, due, task, calls, crashes>>

-----------------------------------------------------------------------------
(* _execute_step: one coroutine per step of a wave.                         *)

TaskTo(w, s, new) == task' = [task EXCEPT ![w] = [@ EXCEPT ![s] = new]]

(* LeaseUnavailable ends this coroutine and makes gather, and run, raise.   *)
Raise(w, s) ==
  /\ TaskTo(w, s, NoTask)
  /\ Goto(w, "raised")

(* Mutants of the refusals: one attempt too many, a success leased again,   *)
(* a live lease stolen, a lapsed lease never reclaimed.                     *)
RefusedLate(s) ==
  \/ exec[s].status = "succeeded"
  \/ exec[s].status \in InFlight /\ exec[s].live
  \/ exec[s].attempt > MaxAttempts[s]
RefusedUnlessBusy(s) ==
  \/ exec[s].status \in InFlight /\ exec[s].live
  \/ exec[s].attempt + 1 > MaxAttempts[s]
RefusedUnlessDone(s) ==
  \/ exec[s].status = "succeeded"
  \/ exec[s].attempt + 1 > MaxAttempts[s]
RefusedWhileInFlight(s) ==
  \/ exec[s].status \in {"succeeded"} \cup InFlight
  \/ exec[s].attempt + 1 > MaxAttempts[s]

(* What acquire_execution looks at: the execution, never the step's status. *)
LeaseRefused(s) ==
  \/ exec[s].status = "succeeded"
  \/ exec[s].status \in InFlight /\ exec[s].live
  \/ exec[s].attempt + 1 > MaxAttempts[s]

AcquireRefused(w, s) ==
  /\ task[w][s].at = "acquire"
  /\ LeaseRefused(s)
  /\ TaskTo(w, s, NoTask)
  /\ UNCHANGED <<plan, step, exec, due, run, calls, crashes>>

(* Mutant: a reclaim keeps the token of the lapsed lease.                   *)
AcquireSameToken(w, s) ==
  /\ task[w][s].at = "acquire"
  /\ ~LeaseRefused(s)
  /\ exec' = [exec EXCEPT ![s] =
       [status |-> "leased", attempt |-> @.attempt + 1,
        token |-> 1, live |-> TRUE]]
  /\ TaskTo(w, s, [at |-> "mark", token |-> 1, outcome |-> "none"])
  /\ SetStep(s, "leased")
  /\ UNCHANGED <<plan, due, run, calls, crashes>>

(* A first lease inserts the execution, a later one reclaims it; either     *)
(* way the attempt is counted and a fresh lease token drawn.                *)
AcquireExecution(w, s) ==
  /\ task[w][s].at = "acquire"
  /\ ~LeaseRefused(s)
  /\ LET token == exec[s].token + 1
     IN /\ exec' = [exec EXCEPT ![s] =
             [status |-> "leased", attempt |-> @.attempt + 1,
              token |-> token, live |-> TRUE]]
        /\ TaskTo(w, s, [at |-> "mark", token |-> token, outcome |-> "none"])
  /\ SetStep(s, "leased")
  /\ UNCHANGED <<plan, due, run, calls, crashes>>

OwnsLease(w, s) == exec[s].token = task[w][s].token

(* mark_execution_running, and the call of the executor that follows it     *)
(* with no await in between.                                                *)
MarkExecutionRunning(w, s) ==
  /\ task[w][s].at = "mark"
  /\ \/ /\ OwnsLease(w, s) /\ exec[s].live
        /\ exec' = [exec EXCEPT ![s] = [@ EXCEPT !.status = "running"]]
        /\ SetStep(s, "running")
        /\ TaskTo(w, s, [task[w][s] EXCEPT !.at = "execute"])
        /\ calls' = [calls EXCEPT ![s] = @ + 1]
        /\ UNCHANGED run
     \/ /\ ~(OwnsLease(w, s) /\ exec[s].live)
        /\ Raise(w, s)
        /\ UNCHANGED <<exec, step, calls>>
  /\ UNCHANGED <<plan, due, crashes>>

(* The executor answers; an exception counts as a retryable failure.        *)
ExecutorReturns(w, s) ==
  /\ task[w][s].at = "execute"
  /\ \E outcome \in {"success", "retryable", "fatal"} :
       TaskTo(w, s, [task[w][s] EXCEPT !.at = "complete", !.outcome = outcome])
  /\ UNCHANGED <<plan, step, exec, due, run, calls, crashes>>

(* The step status complete_execution derives from the outcome.             *)
CompletedStatus(s, outcome) ==
  IF outcome = "success"
  THEN IF Kind[s] = "compensation" THEN "compensated" ELSE "satisfied"
  ELSE IF outcome = "retryable" /\ exec[s].attempt < MaxAttempts[s]
  THEN "pending" ELSE "failed"

(* complete_execution needs the current token, not a live lease, and        *)
(* overwrites whatever status the step has meanwhile.                       *)
CompleteExecution(w, s) ==
  /\ task[w][s].at = "complete"
  /\ \/ /\ OwnsLease(w, s)
        /\ \/ exec[s].status = "succeeded" /\ UNCHANGED <<exec, step>>
           \/ /\ exec[s].status # "succeeded"
              /\ exec' = [exec EXCEPT ![s] = [@ EXCEPT !.status =
                   IF task[w][s].outcome = "success" THEN "succeeded" ELSE "failed"]]
              /\ SetStep(s, CompletedStatus(s, task[w][s].outcome))
        /\ TaskTo(w, s, NoTask)
        /\ Become(w, [run[w] EXCEPT !.advanced = (run[w].pc = "gather")])
     \/ /\ ~OwnsLease(w, s)
        /\ Raise(w, s)
        /\ UNCHANGED <<exec, step>>
  /\ UNCHANGED <<plan, due, calls, crashes>>

-----------------------------------------------------------------------------
(* Everybody else.                                                          *)

(* resolve_step: an answer, a decision or an event settles a paused step.   *)
(* Its read and its revision-checked write are one action: the write takes  *)
(* effect only when nothing touched the step in between.                    *)
ResolveStep(s) ==
  /\ Kind[s] \in ExternalKinds
  /\ step[s].status \in {"paused", "waiting"}
  /\ \E status \in {"satisfied", "failed"} : SetStep(s, status)
  /\ UNCHANGED <<plan, exec, due, run, task, calls, crashes>>

(* Mutant: a cancel or an expiry also rewrites finished steps.              *)
TerminateAll ==
  /\ plan' \in Endings
  /\ step' = [s \in Steps |-> [status |-> plan', rev |-> step[s].rev + 1]]
  /\ UNCHANGED <<exec, due, run, task, calls, crashes>>

(* terminate_plan, from the administration API or from cancel and expire.   *)
TerminatePlan ==
  /\ plan' \in Endings
  /\ step' = [s \in Steps |->
       IF step[s].status \in Terminal \ {"blocked"} THEN step[s]
       ELSE [status |-> plan', rev |-> step[s].rev + 1]]
  /\ UNCHANGED <<exec, due, run, task, calls, crashes>>

HoldsLease(w, s) ==
  task[w][s].at \in {"mark", "execute", "complete"} /\ OwnsLease(w, s)

(* lease_expires_at passes.                                                 *)
LeaseExpires(s) ==
  /\ exec[s].status \in InFlight /\ exec[s].live
  /\ exec' = [exec EXCEPT ![s] = [@ EXCEPT !.live = FALSE]]
  /\ UNCHANGED <<plan, step, due, run, task, calls, crashes>>

(* not_before passes.                                                       *)
TimerDue(s) ==
  /\ Kind[s] \in ClockKinds /\ s \notin due
  /\ due' = due \cup {s}
  /\ UNCHANGED <<plan, step, exec, run, task, calls, crashes>>

(* The process of a worker dies; another call of run may take its place.    *)
Crash(w) ==
  /\ crashes < MaxCrashes
  /\ run[w].pc # "top"
  /\ Become(w, IdleRun)
  /\ task' = [task EXCEPT ![w] = NoTasks]
  /\ crashes' = crashes + 1
  /\ UNCHANGED <<plan, step, exec, due, calls>>

-----------------------------------------------------------------------------
RunStep(w) ==
  \/ ReadPlan(w) \/ ListSteps(w) \/ Prepare(w) \/ GatherDone(w)
  \/ GatherRaised(w) \/ RefreshSteps(w) \/ RefreshPlan(w) \/ SetPlanState(w)

TaskStep(w, s) ==
  \/ AcquireRefused(w, s) \/ AcquireExecution(w, s)
  \/ MarkExecutionRunning(w, s) \/ ExecutorReturns(w, s)
  \/ CompleteExecution(w, s)

Next ==
  \/ \E w \in Workers : RunStep(w) \/ Crash(w)
  \/ \E w \in Workers, s \in Steps : TaskStep(w, s)
  \/ \E s \in Steps : ResolveStep(s) \/ LeaseExpires(s) \/ TimerDue(s)
  \/ TerminatePlan

Spec == Init /\ [][Next]_vars

(* What the liveness properties rest on: someone keeps calling run for a    *)
(* plan that is not final, asyncio schedules every coroutine, an executor   *)
(* answers or raises, and time passes.  Nobody has to answer a question.    *)
Fairness ==
  /\ \A w \in Workers : WF_vars(RunStep(w))
  /\ \A w \in Workers, s \in Steps : WF_vars(TaskStep(w, s))
  /\ \A s \in Steps : WF_vars(LeaseExpires(s)) /\ WF_vars(TimerDue(s))

FairSpec == Spec /\ Fairness

-----------------------------------------------------------------------------
StepRecord == [status : StepStates, rev : Nat \ {0}]
ExecutionRecord ==
  [status : {"none", "leased", "running", "succeeded", "failed"},
   attempt : Nat, token : Nat, live : BOOLEAN]
RunLocals ==
  [pc : {"top", "list", "prepare", "gather", "raised", "refresh",
         "refreshPlan", "settle"},
   todo : SUBSET [step : Steps, to : StepStates, rev : Nat \ {0}],
   advanced : BOOLEAN,
   verdict : PlanStates]
TaskLocals ==
  [at : {"none", "acquire", "mark", "execute", "complete"},
   token : Nat, outcome : {"none", "success", "retryable", "fatal"}]

(* Every variable has the shape of the records and locals it stands for,    *)
(* through every lifecycle write of the store and every step of a run.      *)
TypeOK ==
  /\ plan \in PlanStates
  /\ step \in [Steps -> StepRecord]
  /\ exec \in [Steps -> ExecutionRecord]
  /\ due \subseteq Steps
  /\ run \in [Workers -> RunLocals]
  /\ task \in [Workers -> [Steps -> TaskLocals]]
  /\ calls \in [Steps -> Nat]
  /\ crashes \in Nat

(* However leases lapse and are reclaimed, at most one coroutine holds the  *)
(* token of a step's execution: at most one may record its result.          *)
OneLeaseHolder ==
  \A s \in Steps : \A v, w \in Workers :
    HoldsLease(v, s) /\ HoldsLease(w, s) => v = w

(* Waves are chosen from a listing that may be stale by the time a lease is *)
(* granted; still no step is executed before what it depends on succeeded.  *)
DependenciesDone ==
  \A s \in Steps :
    exec[s].status # "none" \/ (\E w \in Workers : task[w][s].at # "none")
      => DepsDone(s)

(* The step a user sees as done is one whose execution recorded success,    *)
(* and a recorded success is never hidden by a cancel, an expiry or a stale *)
(* worker.                                                                  *)
SuccessIsRecorded ==
  \A s \in Steps : Kind[s] \in ExecutableKinds =>
    (step[s].status \in Success <=> exec[s].status = "succeeded")

(* However often workers die or lose leases, the provider is never called   *)
(* more often for one idempotency key than the step's retry budget.         *)
CallsWithinBudget == \A s \in Steps : calls[s] <= MaxAttempts[s]

(* A satisfied plan, although derived from listed steps and written later,  *)
(* has no work left: every step but a compensation has succeeded.           *)
SatisfiedPlanIsDone ==
  plan = "satisfied" =>
    \A s \in Steps : Kind[s] # "compensation" => step[s].status \in Success

(* One call of run executes two steps at once only when both are parallel   *)
(* safe and lock disjoint resources, also after it raised.                  *)
WavesDisjoint ==
  \A w \in Workers : \A s, t \in Steps :
    s # t /\ task[w][s].at # "none" /\ task[w][t].at # "none"
      => Compatible(s, t)

(* A compensation is executed only for failed work.  (For a source that has *)
(* retries left a stale worker may reclaim the failed execution: then the   *)
(* compensation can run for a step that succeeds after all.)                *)
CompensatesOnlyFailed ==
  \A s \in Steps :
    /\ Kind[s] = "compensation" /\ Source[s] \in Steps
    /\ MaxAttempts[Source[s]] = 1 /\ exec[s].status # "none"
    => step[Source[s]].status = "failed"

(* Work whose worker may have died is never lost from sight: whoever lists  *)
(* the steps next finds every step in flight ready, whatever else happened  *)
(* to its dependencies or to the step it compensates.  (Again not for a     *)
(* compensation whose source has retries left: reclaimed, the source takes  *)
(* the compensation out of the ready set while it is in flight.)            *)
InFlightIsReady ==
  \A s \in Steps :
    /\ step[s].status \in InFlight
    /\ Kind[s] = "compensation" /\ Source[s] \in Steps => MaxAttempts[Source[s]] = 1
    => s \in Ready

(* Successful work survives: no retry, sibling failure, cancel, expiry or   *)
(* late completion takes a success back or replays it.                      *)
SuccessKept ==
  [][\A s \in Steps :
       /\ step[s].status \in Success => step'[s] = step[s]
       /\ exec[s].status = "succeeded" =>
            exec'[s].attempt = exec[s].attempt /\ calls'[s] = calls[s]]_vars

(* The lease of the last permitted attempt lapsed before a result came.     *)
OutOfAttempts(s) ==
  exec[s].attempt = MaxAttempts[s] /\ ~exec[s].live

(* A step whose worker died or lost its lease is taken up again and settled *)
(* unless the plan became final or the lapsed attempt was its last one.     *)
InFlightSettles ==
  \A s \in Steps :
    step[s].status \in InFlight ~>
      \/ step[s].status \notin InFlight \/ plan \in FinalPlanStates
      \/ OutOfAttempts(s)

(* The contract as documented: when a process dies, a later worker reclaims *)
(* the expired lease, so that no step of an open plan stays in flight.      *)
LapsedLeaseIsReclaimed ==
  \A s \in Steps :
    step[s].status \in InFlight ~>
      step[s].status \notin InFlight \/ plan \in FinalPlanStates

(* A plan all of whose steps succeeded is eventually reported final, even   *)
(* though several runs derive and write its status from stale listings.     *)
DoneIsReported ==
  (\A s \in Steps : step[s].status \in Success) ~> plan \in FinalPlanStates

(* Once cancelled or expired, a plan and its goal stay so.                  *)
TerminationIsFinal ==
  [][(plan \in {"cancelled", "expired"}) => plan' \in {"cancelled", "expired"}]_vars

-----------------------------------------------------------------------------
(* The engine implements LeasedWork: while a lease is live nobody else gets *)
(* one, leases never exceed the retry budget and done work stays done.      *)
ClaimState ==
  [s \in Steps |->
     IF exec[s].status = "succeeded" THEN "done"
     ELSE IF exec[s].status \in InFlight /\ exec[s].live THEN "claimed"
     ELSE "open"]
Claims == [s \in Steps |-> exec[s].attempt]

Promise == INSTANCE LeasedWork WITH
  Work <- Steps, Budget <- MaxAttempts, state <- ClaimState, claims <- Claims
LeasedWorkSpec == Promise!Spec
=============================================================================
