------------------------ MODULE DurablePlan_proofs ------------------------
(***************************************************************************)
(* Theorems about DurablePlan for any plan, any number of workers, any     *)
(* retry budget and any number of crashes.                                 *)
(***************************************************************************)
EXTENDS DurablePlan, TLAPS

(* The status and label names the actions write are of their types.         *)
LEMMA Constants ==
  /\ {"pending", "leased", "running", "cancelled", "expired", "failed",
      "satisfied", "compensated"} \subseteq StepStates
  /\ {"cancelled", "expired", "active"} \subseteq PlanStates
  /\ Verdict \in PlanStates
  /\ IdleRun \in RunLocals
  /\ NoTask \in TaskLocals
  /\ NoTasks \in [Steps -> TaskLocals]
BY DEF StepStates, Terminal, Success, PlanStates, Verdict, IdleRun, NoTask,
   NoTasks, RunLocals, TaskLocals

(* Replacing the locals of one worker, one coroutine or one step record by  *)
(* well-typed ones keeps the types.                                         *)
LEMMA BecomeType ==
  ASSUME run \in [Workers -> RunLocals], NEW w \in Workers,
         NEW new \in RunLocals, Become(w, new)
  PROVE  run' \in [Workers -> RunLocals]
BY DEF Become

LEMMA GotoType ==
  ASSUME run \in [Workers -> RunLocals], NEW w \in Workers,
         NEW label \in {"top", "list", "prepare", "gather", "raised", "refresh",
                        "refreshPlan", "settle"},
         Goto(w, label)
  PROVE  run' \in [Workers -> RunLocals]
BY DEF Goto, Become, RunLocals

LEMMA TaskToType ==
  ASSUME task \in [Workers -> [Steps -> TaskLocals]], NEW w \in Workers,
         NEW s \in Steps, NEW new \in TaskLocals, TaskTo(w, s, new)
  PROVE  task' \in [Workers -> [Steps -> TaskLocals]]
BY DEF TaskTo

LEMMA SetStepType ==
  ASSUME step \in [Steps -> StepRecord], NEW s \in Steps,
         NEW status \in StepStates, SetStep(s, status)
  PROVE  step' \in [Steps -> StepRecord]
<1>1. [status |-> status, rev |-> step[s].rev + 1] \in StepRecord
  BY DEF StepRecord
<1>2. QED BY <1>1 DEF SetStep

LEMMA TaskType ==
  ASSUME TypeOK, NEW w \in Workers, NEW s \in Steps
  PROVE  task[w][s] \in TaskLocals
BY DEF TypeOK

LEMMA ListStepsType ==
  ASSUME TypeOK, NEW w \in Workers, ListSteps(w)
  PROVE  TypeOK'
<1>1. Preparations \in SUBSET [step : Steps, to : StepStates, rev : Nat \ {0}]
  BY DEF Preparations, TypeOK, StepRecord
<1>2. /\ [run[w] EXCEPT !.pc = "prepare", !.todo = Preparations] \in RunLocals
      /\ [run[w] EXCEPT !.pc = "gather", !.advanced = FALSE] \in RunLocals
  BY <1>1 DEF TypeOK, RunLocals
<1>3. run' \in [Workers -> RunLocals]
  BY <1>2, BecomeType, GotoType DEF ListSteps, TypeOK
<1>4. [NoTask EXCEPT !.at = "acquire"] \in TaskLocals
  BY DEF NoTask, TaskLocals
<1>5. task' \in [Workers -> [Steps -> TaskLocals]]
  <2>1. ASSUME NEW wave
        PROVE  [s \in Steps |-> IF s \in wave THEN [NoTask EXCEPT !.at = "acquire"]
                                ELSE NoTask] \in [Steps -> TaskLocals]
    BY <1>4, Constants
  <2>2. CASE UNCHANGED task
    BY <2>2 DEF TypeOK
  <2>3. ASSUME NEW wave,
               task' = [task EXCEPT ![w] =
                 [s \in Steps |-> IF s \in wave THEN [NoTask EXCEPT !.at = "acquire"]
                                  ELSE NoTask]]
        PROVE  task' \in [Workers -> [Steps -> TaskLocals]]
    BY <2>1, <2>3 DEF TypeOK
  <2>4. QED BY <2>2, <2>3 DEF ListSteps
<1>6. QED BY <1>3, <1>5 DEF ListSteps, TypeOK

LEMMA PrepareType ==
  ASSUME TypeOK, NEW w \in Workers, Prepare(w)
  PROVE  TypeOK'
<1>1. PICK x \in run[w].todo :
        /\ \/ /\ SetStep(x.step, x.to)
              /\ IF run[w].todo = {x} THEN Become(w, IdleRun)
                 ELSE Become(w, [run[w] EXCEPT !.todo = @ \ {x}])
           \/ Become(w, IdleRun) /\ UNCHANGED step
  BY DEF Prepare
<1>2. x.step \in Steps /\ x.to \in StepStates
  BY DEF TypeOK, RunLocals
<1>3. [run[w] EXCEPT !.todo = @ \ {x}] \in RunLocals
  BY DEF TypeOK, RunLocals
<1>4. run' \in [Workers -> RunLocals]
  BY <1>1, <1>3, BecomeType, Constants DEF TypeOK
<1>5. step' \in [Steps -> StepRecord]
  BY <1>1, <1>2, SetStepType DEF TypeOK
<1>6. QED BY <1>4, <1>5 DEF Prepare, TypeOK

LEMMA AcquireType ==
  ASSUME TypeOK, NEW w \in Workers, NEW s \in Steps, AcquireExecution(w, s)
  PROVE  TypeOK'
<1>1. [at |-> "mark", token |-> exec[s].token + 1, outcome |-> "none"] \in TaskLocals
  BY DEF TaskLocals, TypeOK, ExecutionRecord
<1>2. [status |-> "leased", attempt |-> exec[s].attempt + 1,
       token |-> exec[s].token + 1, live |-> TRUE] \in ExecutionRecord
  BY DEF TypeOK, ExecutionRecord
<1>3. exec' \in [Steps -> ExecutionRecord]
  BY <1>2 DEF AcquireExecution, TypeOK
<1>4. task' \in [Workers -> [Steps -> TaskLocals]]
  BY <1>1, TaskToType DEF AcquireExecution, TypeOK
<1>5. step' \in [Steps -> StepRecord]
  BY SetStepType, Constants DEF AcquireExecution, TypeOK
<1>6. QED BY <1>3, <1>4, <1>5 DEF AcquireExecution, TypeOK

LEMMA MarkType ==
  ASSUME TypeOK, NEW w \in Workers, NEW s \in Steps, MarkExecutionRunning(w, s)
  PROVE  TypeOK'
<1>1. [task[w][s] EXCEPT !.at = "execute"] \in TaskLocals
  BY TaskType DEF TaskLocals
<1>2. task' \in [Workers -> [Steps -> TaskLocals]]
  BY <1>1, TaskToType, Constants DEF MarkExecutionRunning, Raise, TypeOK
<1>3. step' \in [Steps -> StepRecord]
  BY SetStepType, Constants DEF MarkExecutionRunning, TypeOK
<1>4. exec' \in [Steps -> ExecutionRecord]
  BY DEF MarkExecutionRunning, TypeOK, ExecutionRecord
<1>5. run' \in [Workers -> RunLocals]
  BY GotoType DEF MarkExecutionRunning, Raise, TypeOK
<1>6. QED BY <1>2, <1>3, <1>4, <1>5 DEF MarkExecutionRunning, TypeOK

LEMMA ReturnType ==
  ASSUME TypeOK, NEW w \in Workers, NEW s \in Steps, ExecutorReturns(w, s)
  PROVE  TypeOK'
<1>1. ASSUME NEW outcome \in {"success", "retryable", "fatal"}
      PROVE  [task[w][s] EXCEPT !.at = "complete", !.outcome = outcome] \in TaskLocals
  BY TaskType DEF TaskLocals
<1>2. task' \in [Workers -> [Steps -> TaskLocals]]
  BY <1>1, TaskToType DEF ExecutorReturns, TypeOK
<1>3. QED BY <1>2 DEF ExecutorReturns, TypeOK

LEMMA CompleteType ==
  ASSUME TypeOK, NEW w \in Workers, NEW s \in Steps, CompleteExecution(w, s)
  PROVE  TypeOK'
<1>1. task' \in [Workers -> [Steps -> TaskLocals]]
  BY TaskToType, Constants DEF CompleteExecution, Raise, TypeOK
<1>2. CompletedStatus(s, task[w][s].outcome) \in StepStates
  BY Constants DEF CompletedStatus
<1>3. step' \in [Steps -> StepRecord]
  BY <1>2, SetStepType DEF CompleteExecution, TypeOK
<1>4. exec' \in [Steps -> ExecutionRecord]
  BY DEF CompleteExecution, TypeOK, ExecutionRecord
<1>5. [run[w] EXCEPT !.advanced = (run[w].pc = "gather")] \in RunLocals
  BY DEF TypeOK, RunLocals
<1>6. run' \in [Workers -> RunLocals]
  BY <1>5, BecomeType, GotoType DEF CompleteExecution, Raise, TypeOK
<1>7. QED BY <1>1, <1>3, <1>4, <1>6 DEF CompleteExecution, TypeOK

LEMMA TypeStep ==
  ASSUME TypeOK, [Next]_vars
  PROVE  TypeOK'
<1>1. ASSUME NEW w \in Workers, ReadPlan(w) PROVE TypeOK'
  BY <1>1, GotoType DEF ReadPlan, TypeOK
<1>2. ASSUME NEW w \in Workers, GatherDone(w) PROVE TypeOK'
  BY <1>2, BecomeType, GotoType, Constants DEF GatherDone, TypeOK
<1>3. ASSUME NEW w \in Workers, GatherRaised(w) PROVE TypeOK'
  BY <1>3, BecomeType, Constants DEF GatherRaised, TypeOK
<1>4. ASSUME NEW w \in Workers, RefreshSteps(w) PROVE TypeOK'
  <2>1. [run[w] EXCEPT !.pc = "refreshPlan", !.verdict = Verdict] \in RunLocals
      BY Constants DEF TypeOK, RunLocals
  <2>2. QED BY <1>4, <2>1, BecomeType DEF RefreshSteps, TypeOK
<1>5. ASSUME NEW w \in Workers, RefreshPlan(w) PROVE TypeOK'
  BY <1>5, BecomeType, GotoType, Constants DEF RefreshPlan, TypeOK
<1>6. ASSUME NEW w \in Workers, SetPlanState(w) PROVE TypeOK'
  BY <1>6, BecomeType, Constants DEF SetPlanState, TypeOK, RunLocals
<1>7. ASSUME NEW w \in Workers, NEW s \in Steps, AcquireRefused(w, s) PROVE TypeOK'
  BY <1>7, TaskToType, Constants DEF AcquireRefused, TypeOK
<1>8. ASSUME NEW s \in Steps, ResolveStep(s) PROVE TypeOK'
  BY <1>8, SetStepType, Constants DEF ResolveStep, TypeOK
<1>9. CASE TerminatePlan
  <2>1. plan' \in PlanStates /\ plan' \in StepStates
      BY <1>9, BudgetAssumption, Constants DEF TerminatePlan
  <2>2. step' \in [Steps -> StepRecord]
      BY <1>9, <2>1 DEF TerminatePlan, TypeOK, StepRecord
  <2>3. QED BY <1>9, <2>1, <2>2 DEF TerminatePlan, TypeOK
<1>10. ASSUME NEW s \in Steps, LeaseExpires(s) PROVE TypeOK'
  BY <1>10 DEF LeaseExpires, TypeOK, ExecutionRecord
<1>11. ASSUME NEW s \in Steps, TimerDue(s) PROVE TypeOK'
  BY <1>11 DEF TimerDue, TypeOK
<1>12. ASSUME NEW w \in Workers, Crash(w) PROVE TypeOK'
  BY <1>12, BecomeType, Constants DEF Crash, TypeOK
<1>13. CASE UNCHANGED vars
  BY <1>13 DEF vars, TypeOK
<1>14. QED
  BY <1>1, <1>2, <1>3, <1>4, <1>5, <1>6, <1>7, <1>8, <1>9, <1>10, <1>11, <1>12,
     <1>13, ListStepsType, PrepareType, AcquireType, MarkType, ReturnType,
     CompleteType DEF Next, RunStep, TaskStep

(* The records, leases and locals keep their types through every write.     *)
THEOREM TypeCorrect == Spec => []TypeOK
<1>1. Init => TypeOK
  BY NumStepsAssumption, Constants DEF Init, TypeOK, StepRecord, ExecutionRecord,
     PlanStates
<1>2. TypeOK /\ [Next]_vars => TypeOK'
  BY TypeStep
<1>3. QED BY <1>1, <1>2, PTL DEF Spec

-----------------------------------------------------------------------------
(* The inductive invariant.  Tokens grow with attempts, so a lapsed holder  *)
(* can never pass for the current one; the current holder's execution is    *)
(* still in flight; and a listed step that was not saved since is still in  *)
(* the state _prepare_non_tool_steps saw it in.                             *)

Held == {"mark", "execute", "complete"}

ExecutionShape ==
  \A s \in Steps :
    /\ exec[s].token = exec[s].attempt
    /\ exec[s].attempt <= MaxAttempts[s]
    /\ exec[s].status = "none" <=> exec[s].attempt = 0

TaskShape ==
  \A w \in Workers, s \in Steps :
    /\ task[w][s].at # "none" => Kind[s] \in ExecutableKinds
    /\ task[w][s].at \in Held => task[w][s].token \in 1..exec[s].token

HolderInFlight ==
  \A w \in Workers, s \in Steps :
    HoldsLease(w, s) => exec[s].status \in InFlight

(* What _prepare_non_tool_steps writes.                                     *)
PreparedStates == {"blocked", "satisfied", "waiting", "paused", "cancelled"}

TodoFresh ==
  \A w \in Workers : \A x \in run[w].todo :
    /\ x.rev <= step[x.step].rev
    /\ x.rev = step[x.step].rev =>
         step[x.step].status \in {"pending", "waiting", "paused"}
    /\ x.to \in PreparedStates
    /\ x.to = "satisfied" => Kind[x.step] \in ClockKinds

BudgetSpent ==
  \A s \in Steps :
    /\ calls[s] <= exec[s].attempt
    /\ \A w \in Workers :
         task[w][s].at = "mark" /\ OwnsLease(w, s) => calls[s] < exec[s].attempt

IInv ==
  /\ TypeOK /\ ExecutionShape /\ TaskShape /\ OneLeaseHolder /\ HolderInFlight
  /\ DependenciesDone /\ SuccessIsRecorded /\ TodoFresh /\ BudgetSpent

-----------------------------------------------------------------------------
(* Steps that touch no record, lease or coroutine.                          *)
LEMMA RunOnly ==
  ASSUME IInv, TypeOK', UNCHANGED <<step, exec, task, calls>>,
         \A v \in Workers : run'[v].todo \subseteq run[v].todo
  PROVE  IInv'
<1>1. ExecutionShape' /\ TaskShape' /\ BudgetSpent' /\ SuccessIsRecorded'
  BY DEF IInv, ExecutionShape, TaskShape, BudgetSpent, SuccessIsRecorded, OwnsLease
<1>2. OneLeaseHolder' /\ HolderInFlight'
  BY DEF IInv, OneLeaseHolder, HolderInFlight, HoldsLease, OwnsLease
<1>3. DependenciesDone'
  BY DEF IInv, DependenciesDone, DepsDone
<1>4. TodoFresh'
  BY DEF IInv, TodoFresh
<1>5. QED BY <1>1, <1>2, <1>3, <1>4 DEF IInv

LEMMA ListStepsInv ==
  ASSUME IInv, TypeOK', NEW w \in Workers, ListSteps(w)
  PROVE  IInv'
<1>1. /\ UNCHANGED <<step, exec, calls>>
      /\ TypeOK
  BY DEF ListSteps, IInv
<1>2. \A v \in Workers, s \in Steps :
        \/ task'[v][s] = task[v][s]
        \/ task'[v][s].at = "none"
        \/ task'[v][s].at = "acquire" /\ s \in Ready
  <2>1. CASE UNCHANGED task
    BY <2>1
  <2>2. ASSUME NEW wave \in SUBSET Ready,
               task' = [task EXCEPT ![w] =
                 [s \in Steps |-> IF s \in wave THEN [NoTask EXCEPT !.at = "acquire"]
                                  ELSE NoTask]]
        PROVE  \A v \in Workers, s \in Steps :
                 \/ task'[v][s] = task[v][s]
                 \/ task'[v][s].at = "none"
                 \/ task'[v][s].at = "acquire" /\ s \in Ready
    BY <1>1, <2>2 DEF TypeOK, NoTask
  <2>3. QED BY <2>1, <2>2 DEF ListSteps
<1>3. ExecutionShape' /\ SuccessIsRecorded'
  BY <1>1 DEF IInv, ExecutionShape, SuccessIsRecorded
<1>4. TaskShape'
  BY <1>1, <1>2 DEF IInv, TaskShape, Ready, Held
<1>5. OneLeaseHolder' /\ HolderInFlight' /\ BudgetSpent'
  BY <1>1, <1>2 DEF IInv, OneLeaseHolder, HolderInFlight, BudgetSpent, HoldsLease,
     OwnsLease
<1>6. DependenciesDone'
  BY <1>1, <1>2 DEF IInv, DependenciesDone, DepsDone, Ready
<1>7. TodoFresh'
  <2>1. \A v \in Workers :
          run'[v].todo = run[v].todo \/ run'[v].todo = Preparations
    <3>1. /\ [run[w] EXCEPT !.pc = "prepare", !.todo = Preparations].todo = Preparations
          /\ [run[w] EXCEPT !.pc = "gather", !.advanced = FALSE].todo = run[w].todo
          /\ [run[w] EXCEPT !.pc = "refresh"].todo = run[w].todo
      BY <1>1 DEF TypeOK, RunLocals
    <3>2. PICK new : Become(w, new) /\ new.todo \in {run[w].todo, Preparations}
      BY <3>1 DEF ListSteps, Goto
    <3>3. QED BY <1>1, <3>2 DEF Become, TypeOK
  <2>2. \A x \in Preparations :
          /\ x.rev = step[x.step].rev
          /\ step[x.step].status \in {"pending", "waiting", "paused"}
          /\ x.to \in PreparedStates
          /\ x.to = "satisfied" => Kind[x.step] \in ClockKinds
          /\ x.step \in Steps
    BY DEF Preparations, Prepares, PreparedStates
  <2>3. QED BY <1>1, <2>1, <2>2 DEF IInv, TodoFresh, TypeOK, StepRecord
<1>8. QED BY <1>3, <1>4, <1>5, <1>6, <1>7 DEF IInv

(* A write bumps the revision, which makes every listing of the step stale. *)
LEMMA TodoKept ==
  ASSUME IInv, \A v \in Workers : run'[v].todo \subseteq run[v].todo,
         \A s \in Steps : step'[s] = step[s] \/ step'[s].rev = step[s].rev + 1
  PROVE  TodoFresh'
<1> SUFFICES ASSUME NEW v \in Workers, NEW y \in run'[v].todo
             PROVE  /\ y.rev <= step'[y.step].rev
                    /\ y.rev = step'[y.step].rev =>
                         step'[y.step].status \in {"pending", "waiting", "paused"}
                    /\ y.to \in PreparedStates
                    /\ y.to = "satisfied" => Kind[y.step] \in ClockKinds
  BY DEF TodoFresh
<1>1. y \in run[v].todo /\ y.step \in Steps /\ y.rev \in Nat
  BY DEF IInv, TypeOK, RunLocals
<1>2. /\ y.rev <= step[y.step].rev
      /\ y.rev = step[y.step].rev =>
           step[y.step].status \in {"pending", "waiting", "paused"}
      /\ y.to \in PreparedStates
      /\ y.to = "satisfied" => Kind[y.step] \in ClockKinds
  BY <1>1 DEF IInv, TodoFresh
<1>3. step[y.step].rev \in Nat
  BY <1>1 DEF IInv, TypeOK, StepRecord
<1>4. QED BY <1>1, <1>2, <1>3

(* Dependencies once done stay done while successes are kept.               *)
LEMMA DepsKept ==
  ASSUME \A s \in Steps : step[s].status \in Success => step'[s] = step[s]
  PROVE  \A s \in Steps : DepsDone(s) => DepsDone(s)'
BY DepsAssumption DEF DepsDone

(* What TaskTo and SetStep change, and what they leave alone.               *)
LEMMA TaskToFacts ==
  ASSUME TypeOK, NEW w \in Workers, NEW s \in Steps, NEW new, TaskTo(w, s, new)
  PROVE  /\ task'[w][s] = new
         /\ \A v \in Workers, r \in Steps :
              v # w \/ r # s => task'[v][r] = task[v][r]
BY DEF TaskTo, TypeOK

LEMMA SetStepFacts ==
  ASSUME TypeOK, NEW s \in Steps, NEW status, SetStep(s, status)
  PROVE  /\ step'[s].status = status
         /\ step'[s].rev = step[s].rev + 1
         /\ \A r \in Steps : r # s => step'[r] = step[r]
BY DEF SetStep, TypeOK

LEMMA GotoTodo ==
  ASSUME TypeOK, NEW w \in Workers, NEW label, Goto(w, label)
  PROVE  \A v \in Workers : run'[v].todo = run[v].todo
<1>1. [run[w] EXCEPT !.pc = label].todo = run[w].todo
  BY DEF TypeOK, RunLocals
<1>2. QED BY <1>1 DEF Goto, Become, TypeOK

LEMMA PrepareInv ==
  ASSUME IInv, TypeOK', NEW w \in Workers, Prepare(w)
  PROVE  IInv'
<1>0. TypeOK
  BY DEF IInv
<1>1. PICK x \in run[w].todo :
        \/ /\ step[x.step].rev = x.rev
           /\ SetStep(x.step, x.to)
           /\ \/ Become(w, IdleRun)
              \/ Become(w, [run[w] EXCEPT !.todo = @ \ {x}])
        \/ Become(w, IdleRun) /\ UNCHANGED step
  BY DEF Prepare
<1>2. UNCHANGED <<exec, task, calls>>
  BY DEF Prepare
<1>3. x.step \in Steps
  BY <1>0 DEF TypeOK, RunLocals
<1>4. \A v \in Workers : run'[v].todo \subseteq run[v].todo
  <2>1. [run[w] EXCEPT !.todo = @ \ {x}].todo \subseteq run[w].todo
    BY <1>0 DEF TypeOK, RunLocals
  <2>2. IdleRun.todo = {}
    BY DEF IdleRun
  <2>3. QED BY <1>0, <1>1, <2>1, <2>2 DEF Become, TypeOK
<1>5. CASE UNCHANGED step
  BY <1>2, <1>4, <1>5, RunOnly
<1>6. CASE step[x.step].rev = x.rev /\ SetStep(x.step, x.to)
  <2>1. /\ step[x.step].status \in {"pending", "waiting", "paused"}
        /\ x.to \in PreparedStates
        /\ x.to = "satisfied" => Kind[x.step] \in ClockKinds
    BY <1>6 DEF IInv, TodoFresh
  <2>2. /\ step'[x.step].status = x.to
        /\ step'[x.step].rev = step[x.step].rev + 1
        /\ \A s \in Steps : s # x.step => step'[s] = step[s]
    BY <1>0, <1>3, <1>6 DEF SetStep, TypeOK
  <2>3. \A s \in Steps : step[s].status \in Success => step'[s] = step[s]
    BY <2>1, <2>2 DEF Success
  <2>4. ExecutionShape' /\ TaskShape' /\ BudgetSpent'
    BY <1>2 DEF IInv, ExecutionShape, TaskShape, BudgetSpent, OwnsLease
  <2>5. OneLeaseHolder' /\ HolderInFlight'
    BY <1>2 DEF IInv, OneLeaseHolder, HolderInFlight, HoldsLease, OwnsLease
  <2>6. DependenciesDone'
    BY <1>2, <2>3, DepsKept DEF IInv, DependenciesDone
  <2>7. SuccessIsRecorded'
    BY <1>2, <1>3, <2>1, <2>2 DEF IInv, SuccessIsRecorded, Success, ExecutableKinds,
       ClockKinds, PreparedStates
  <2>8. TodoFresh'
    BY <1>0, <1>4, <2>2, TodoKept
  <2>9. QED BY <2>4, <2>5, <2>6, <2>7, <2>8 DEF IInv
<1>7. QED BY <1>1, <1>5, <1>6

(* A coroutine that ends holds nothing any more.                            *)
LEMMA TaskEndsInv ==
  ASSUME IInv, TypeOK', UNCHANGED <<step, exec, calls>>,
         \A v \in Workers : run'[v].todo \subseteq run[v].todo,
         \A v \in Workers, s \in Steps :
           task'[v][s] = task[v][s] \/ task'[v][s].at = "none"
  PROVE  IInv'
<1>1. ExecutionShape' /\ TaskShape' /\ BudgetSpent' /\ SuccessIsRecorded'
  BY DEF IInv, ExecutionShape, TaskShape, BudgetSpent, SuccessIsRecorded, OwnsLease,
     Held
<1>2. OneLeaseHolder' /\ HolderInFlight'
  BY DEF IInv, OneLeaseHolder, HolderInFlight, HoldsLease, OwnsLease
<1>3. DependenciesDone'
  BY DEF IInv, DependenciesDone, DepsDone
<1>4. TodoFresh'
  BY DEF IInv, TodoFresh
<1>5. QED BY <1>1, <1>2, <1>3, <1>4 DEF IInv

LEMMA AcquireInv ==
  ASSUME IInv, TypeOK', NEW w \in Workers, NEW s \in Steps, AcquireExecution(w, s)
  PROVE  IInv'
<1>0. TypeOK
  BY DEF IInv
<1>1. /\ task[w][s].at = "acquire" /\ ~LeaseRefused(s)
      /\ UNCHANGED <<run, calls>>
  BY DEF AcquireExecution
<1>2. /\ task'[w][s] = [at |-> "mark", token |-> exec[s].token + 1, outcome |-> "none"]
      /\ \A v \in Workers, r \in Steps : v # w \/ r # s => task'[v][r] = task[v][r]
  BY <1>0, TaskToFacts DEF AcquireExecution
<1>3. /\ step'[s].status = "leased" /\ step'[s].rev = step[s].rev + 1
      /\ \A r \in Steps : r # s => step'[r] = step[r]
  BY <1>0, SetStepFacts DEF AcquireExecution
<1>4. /\ exec'[s].status = "leased" /\ exec'[s].attempt = exec[s].attempt + 1
      /\ exec'[s].token = exec[s].token + 1
      /\ \A r \in Steps : r # s => exec'[r] = exec[r]
  BY <1>0 DEF AcquireExecution, TypeOK
<1>5. /\ exec[s].attempt \in Nat /\ exec[s].token \in Nat /\ MaxAttempts[s] \in Nat
      /\ calls[s] \in Nat
  BY <1>0, BudgetAssumption DEF TypeOK, ExecutionRecord
<1>6. step[s].status \notin Success /\ Kind[s] \in ExecutableKinds
  BY <1>1 DEF IInv, TaskShape, SuccessIsRecorded, LeaseRefused
<1>7. \A r \in Steps : step[r].status \in Success => step'[r] = step[r]
  BY <1>3, <1>6
<1>8. ExecutionShape'
  <2> SUFFICES ASSUME NEW r \in Steps
               PROVE  /\ exec'[r].token = exec'[r].attempt
                      /\ exec'[r].attempt <= MaxAttempts[r]
                      /\ exec'[r].status = "none" <=> exec'[r].attempt = 0
    BY DEF ExecutionShape
  <2>1. CASE r = s
    BY <1>1, <1>4, <1>5, <2>1 DEF IInv, ExecutionShape, LeaseRefused
  <2>2. CASE r # s
    BY <1>4, <2>2 DEF IInv, ExecutionShape
  <2>3. QED BY <2>1, <2>2
<1>9. TaskShape'
  <2> SUFFICES ASSUME NEW v \in Workers, NEW r \in Steps
               PROVE  /\ task'[v][r].at # "none" => Kind[r] \in ExecutableKinds
                      /\ task'[v][r].at \in Held => task'[v][r].token \in 1..exec'[r].token
    BY DEF TaskShape
  <2>1. CASE v = w /\ r = s
    BY <1>2, <1>4, <1>5, <1>6, <2>1
  <2>2. CASE ~(v = w /\ r = s)
    BY <1>2, <1>4, <1>5, <2>2 DEF IInv, TaskShape
  <2>3. QED BY <2>1, <2>2
(* Every other token of this execution is an older one.                     *)
<1>10. \A v \in Workers : HoldsLease(v, s)' => v = w
  <2> SUFFICES ASSUME NEW v \in Workers, HoldsLease(v, s)', v # w PROVE FALSE
    OBVIOUS
  <2>1. task[v][s].at \in Held /\ task[v][s].token = exec[s].token + 1
    BY <1>2, <1>4 DEF HoldsLease, OwnsLease, Held
  <2>2. task[v][s].token \in 1..exec[s].token
    BY <2>1 DEF IInv, TaskShape
  <2>3. QED BY <1>5, <2>1, <2>2
<1>11. \A v \in Workers, r \in Steps : r # s => (HoldsLease(v, r)' <=> HoldsLease(v, r))
  BY <1>2, <1>4 DEF HoldsLease, OwnsLease
<1>12. OneLeaseHolder' /\ HolderInFlight'
  BY <1>4, <1>10, <1>11 DEF IInv, OneLeaseHolder, HolderInFlight, InFlight
<1>13. DependenciesDone'
  BY <1>1, <1>2, <1>4, <1>7, DepsKept DEF IInv, DependenciesDone
<1>14. SuccessIsRecorded'
  BY <1>3, <1>4 DEF IInv, SuccessIsRecorded, Success
<1>15. TodoFresh'
  BY <1>1, <1>3, TodoKept
<1>16. BudgetSpent'
  <2> SUFFICES ASSUME NEW r \in Steps
               PROVE  /\ calls'[r] <= exec'[r].attempt
                      /\ \A v \in Workers :
                           task'[v][r].at = "mark" /\ OwnsLease(v, r)' =>
                             calls'[r] < exec'[r].attempt
    BY DEF BudgetSpent
  <2>1. CASE r = s
    BY <1>1, <1>4, <1>5, <2>1 DEF IInv, BudgetSpent
  <2>2. CASE r # s
    BY <1>1, <1>2, <1>4, <2>2 DEF IInv, BudgetSpent, OwnsLease
  <2>3. QED BY <2>1, <2>2
<1>17. QED BY <1>8, <1>9, <1>12, <1>13, <1>14, <1>15, <1>16 DEF IInv

LEMMA MarkInv ==
  ASSUME IInv, TypeOK', NEW w \in Workers, NEW s \in Steps, MarkExecutionRunning(w, s)
  PROVE  IInv'
<1>0. TypeOK
  BY DEF IInv
<1>1. CASE Raise(w, s) /\ UNCHANGED <<exec, step, calls>>
  <2>1. \A v \in Workers : run'[v].todo \subseteq run[v].todo
    BY <1>0, <1>1, GotoTodo DEF Raise
  <2>2. \A v \in Workers, r \in Steps :
          task'[v][r] = task[v][r] \/ task'[v][r].at = "none"
    BY <1>0, <1>1, TaskToFacts DEF Raise, NoTask
  <2>3. QED BY <1>1, <2>1, <2>2, TaskEndsInv
<1>2. CASE /\ OwnsLease(w, s) /\ exec[s].live
           /\ exec' = [exec EXCEPT ![s] = [@ EXCEPT !.status = "running"]]
           /\ SetStep(s, "running")
           /\ TaskTo(w, s, [task[w][s] EXCEPT !.at = "execute"])
           /\ calls' = [calls EXCEPT ![s] = @ + 1]
           /\ UNCHANGED run
  <2>1. task[w][s].at = "mark" /\ task[w][s] \in TaskLocals
    BY <1>0, TaskType DEF MarkExecutionRunning
  <2>2. /\ task'[w][s].at = "execute" /\ task'[w][s].token = task[w][s].token
        /\ \A v \in Workers, r \in Steps : v # w \/ r # s => task'[v][r] = task[v][r]
    BY <1>0, <1>2, <2>1, TaskToFacts DEF TaskLocals
  <2>3. /\ step'[s].status = "running" /\ step'[s].rev = step[s].rev + 1
        /\ \A r \in Steps : r # s => step'[r] = step[r]
    BY <1>0, <1>2, SetStepFacts
  <2>4. /\ exec'[s].status = "running" /\ exec'[s].attempt = exec[s].attempt
        /\ exec'[s].token = exec[s].token
        /\ \A r \in Steps : r # s => exec'[r] = exec[r]
    BY <1>0, <1>2 DEF TypeOK, ExecutionRecord
  <2>5. /\ calls'[s] = calls[s] + 1 /\ calls[s] \in Nat /\ exec[s].attempt \in Nat
        /\ \A r \in Steps : r # s => calls'[r] = calls[r]
    BY <1>0, <1>2 DEF TypeOK, ExecutionRecord
  <2>6. HoldsLease(w, s) /\ exec[s].status \in InFlight
    BY <1>2, <2>1 DEF IInv, HolderInFlight, HoldsLease
  <2>7. step[s].status \notin Success /\ Kind[s] \in ExecutableKinds
    BY <2>1, <2>6 DEF IInv, SuccessIsRecorded, TaskShape, InFlight
  <2>8. \A r \in Steps : step[r].status \in Success => step'[r] = step[r]
    BY <2>3, <2>7
  <2>9. \A v \in Workers, r \in Steps : HoldsLease(v, r)' <=> HoldsLease(v, r)
    BY <2>1, <2>2, <2>4 DEF HoldsLease, OwnsLease
  <2>10. ExecutionShape'
    BY <2>4, <2>6 DEF IInv, ExecutionShape, InFlight
  <2>11. TaskShape'
    BY <2>1, <2>2, <2>4 DEF IInv, TaskShape, Held
  <2>12. OneLeaseHolder' /\ HolderInFlight'
    BY <2>4, <2>9 DEF IInv, OneLeaseHolder, HolderInFlight, InFlight
  <2>13. DependenciesDone'
    BY <2>1, <2>2, <2>4, <2>6, <2>8, DepsKept DEF IInv, DependenciesDone
  <2>14. SuccessIsRecorded'
    BY <2>3, <2>4, <2>7 DEF IInv, SuccessIsRecorded, Success
  <2>15. TodoFresh'
    BY <1>2, <2>3, TodoKept
  <2>16. BudgetSpent'
    <3> SUFFICES ASSUME NEW r \in Steps
                 PROVE  /\ calls'[r] <= exec'[r].attempt
                        /\ \A v \in Workers :
                             task'[v][r].at = "mark" /\ OwnsLease(v, r)' =>
                               calls'[r] < exec'[r].attempt
      BY DEF BudgetSpent
    <3>1. CASE r = s
      <4>1. calls[s] < exec[s].attempt
        BY <1>2, <2>1 DEF IInv, BudgetSpent
      <4>2. ASSUME NEW v \in Workers, task'[v][r].at = "mark", OwnsLease(v, r)'
            PROVE  FALSE
        <5>1. HoldsLease(v, s)
          BY <2>9, <3>1, <4>2 DEF HoldsLease
        <5>2. v = w
          BY <2>6, <5>1 DEF IInv, OneLeaseHolder
        <5>3. QED BY <2>2, <3>1, <4>2, <5>2
      <4>3. QED BY <2>4, <2>5, <3>1, <4>1, <4>2
    <3>2. CASE r # s
      BY <2>2, <2>4, <2>5, <3>2 DEF IInv, BudgetSpent, OwnsLease
    <3>3. QED BY <3>1, <3>2
  <2>17. QED BY <2>10, <2>11, <2>12, <2>13, <2>14, <2>15, <2>16 DEF IInv
<1>3. QED BY <1>1, <1>2 DEF MarkExecutionRunning

LEMMA ReturnInv ==
  ASSUME IInv, TypeOK', NEW w \in Workers, NEW s \in Steps, ExecutorReturns(w, s)
  PROVE  IInv'
<1>0. TypeOK /\ UNCHANGED <<step, exec, calls, run>> /\ task[w][s].at = "execute"
  BY DEF IInv, ExecutorReturns
<1>1. PICK outcome \in {"success", "retryable", "fatal"} :
        TaskTo(w, s, [task[w][s] EXCEPT !.at = "complete", !.outcome = outcome])
  BY DEF ExecutorReturns
<1>2. task[w][s] \in TaskLocals
  BY <1>0, TaskType
<1>3. /\ task'[w][s].at = "complete" /\ task'[w][s].token = task[w][s].token
      /\ \A v \in Workers, r \in Steps : v # w \/ r # s => task'[v][r] = task[v][r]
  <2> DEFINE new == [task[w][s] EXCEPT !.at = "complete", !.outcome = outcome]
  <2>1. new.at = "complete" /\ new.token = task[w][s].token
    BY <1>2 DEF TaskLocals
  <2>2. TaskTo(w, s, new)
    BY <1>1
  <2> HIDE DEF new
  <2>3. /\ task'[w][s] = new
        /\ \A v \in Workers, r \in Steps : v # w \/ r # s => task'[v][r] = task[v][r]
    BY <1>0, <2>2, TaskToFacts
  <2>4. QED BY <2>1, <2>3
<1>4. \A v \in Workers, r \in Steps : HoldsLease(v, r)' <=> HoldsLease(v, r)
  BY <1>0, <1>3 DEF HoldsLease, OwnsLease
<1>5. ExecutionShape' /\ SuccessIsRecorded'
  BY <1>0 DEF IInv, ExecutionShape, SuccessIsRecorded
<1>6. TaskShape'
  BY <1>0, <1>3 DEF IInv, TaskShape, Held
<1>7. OneLeaseHolder' /\ HolderInFlight'
  BY <1>0, <1>4 DEF IInv, OneLeaseHolder, HolderInFlight
<1>8. DependenciesDone'
  BY <1>0, <1>3 DEF IInv, DependenciesDone, DepsDone
<1>9. TodoFresh'
  BY <1>0 DEF IInv, TodoFresh
<1>10. BudgetSpent'
  BY <1>0, <1>3 DEF IInv, BudgetSpent, OwnsLease
<1>11. QED BY <1>5, <1>6, <1>7, <1>8, <1>9, <1>10 DEF IInv

LEMMA CompleteInv ==
  ASSUME IInv, TypeOK', NEW w \in Workers, NEW s \in Steps, CompleteExecution(w, s)
  PROVE  IInv'
<1>0. /\ TypeOK /\ UNCHANGED calls
      /\ task[w][s].at = "complete" /\ task[w][s] \in TaskLocals
  BY TaskType DEF IInv, CompleteExecution
<1>1. TaskTo(w, s, NoTask)
  BY DEF CompleteExecution, Raise
<1>2. /\ task'[w][s].at = "none"
      /\ \A v \in Workers, r \in Steps : v # w \/ r # s => task'[v][r] = task[v][r]
  BY <1>0, <1>1, TaskToFacts DEF NoTask
<1>3. \A v \in Workers : run'[v].todo = run[v].todo
  <2>1. CASE Goto(w, "raised")
    BY <1>0, <2>1, GotoTodo
  <2>2. CASE Become(w, [run[w] EXCEPT !.advanced = (run[w].pc = "gather")])
    <3>1. [run[w] EXCEPT !.advanced = (run[w].pc = "gather")].todo = run[w].todo
      BY <1>0 DEF TypeOK, RunLocals
    <3>2. QED BY <1>0, <2>2, <3>1 DEF Become, TypeOK
  <2>3. QED BY <2>1, <2>2 DEF CompleteExecution, Raise
<1>4. CASE UNCHANGED <<exec, step>>
  <2>1. /\ \A v \in Workers : run'[v].todo \subseteq run[v].todo
        /\ \A v \in Workers, r \in Steps :
             task'[v][r] = task[v][r] \/ task'[v][r].at = "none"
    BY <1>2, <1>3
  <2>2. QED BY <1>0, <1>4, <2>1, TaskEndsInv
<1>5. CASE /\ OwnsLease(w, s) /\ exec[s].status # "succeeded"
           /\ exec' = [exec EXCEPT ![s] = [@ EXCEPT !.status =
                IF task[w][s].outcome = "success" THEN "succeeded" ELSE "failed"]]
           /\ SetStep(s, CompletedStatus(s, task[w][s].outcome))
  <2>1. HoldsLease(w, s) /\ exec[s].status \in InFlight
    BY <1>0, <1>5 DEF IInv, HolderInFlight, HoldsLease
  <2>2. /\ exec'[s].status = (IF task[w][s].outcome = "success" THEN "succeeded"
                              ELSE "failed")
        /\ exec'[s].attempt = exec[s].attempt /\ exec'[s].token = exec[s].token
        /\ \A r \in Steps : r # s => exec'[r] = exec[r]
    BY <1>0, <1>5 DEF TypeOK, ExecutionRecord
  <2>3. /\ step'[s].status = CompletedStatus(s, task[w][s].outcome)
        /\ step'[s].rev = step[s].rev + 1
        /\ \A r \in Steps : r # s => step'[r] = step[r]
    BY <1>0, <1>5, SetStepFacts
  <2>4. step[s].status \notin Success /\ Kind[s] \in ExecutableKinds
    BY <1>0, <1>5 DEF IInv, SuccessIsRecorded, TaskShape
  <2>5. \A r \in Steps : step[r].status \in Success => step'[r] = step[r]
    BY <2>3, <2>4
  (* The completing coroutine was the only holder.                          *)
  <2>6. \A v \in Workers : ~HoldsLease(v, s)'
    <3>1. \A v \in Workers : HoldsLease(v, s) => v = w
      BY <2>1 DEF IInv, OneLeaseHolder
    <3>2. QED BY <1>2, <2>2, <3>1 DEF HoldsLease, OwnsLease
  <2>7. \A v \in Workers, r \in Steps : r # s => (HoldsLease(v, r)' <=> HoldsLease(v, r))
    BY <1>2, <2>2 DEF HoldsLease, OwnsLease
  <2>8. ExecutionShape'
    BY <2>1, <2>2 DEF IInv, ExecutionShape, InFlight
  <2>9. TaskShape'
    BY <1>2, <2>2 DEF IInv, TaskShape, Held
  <2>10. OneLeaseHolder' /\ HolderInFlight'
    BY <2>2, <2>6, <2>7 DEF IInv, OneLeaseHolder, HolderInFlight
  <2>11. DependenciesDone'
    BY <1>2, <2>1, <2>2, <2>5, DepsKept DEF IInv, DependenciesDone, InFlight
  <2>12. SuccessIsRecorded'
    <3>1. CompletedStatus(s, task[w][s].outcome) \in Success
            <=> task[w][s].outcome = "success"
      BY DEF CompletedStatus, Success
    <3>2. QED BY <2>2, <2>3, <3>1 DEF IInv, SuccessIsRecorded
  <2>13. TodoFresh'
    BY <1>3, <2>3, TodoKept
  <2>14. BudgetSpent'
    BY <1>0, <1>2, <2>2 DEF IInv, BudgetSpent, OwnsLease
  <2>15. QED BY <2>8, <2>9, <2>10, <2>11, <2>12, <2>13, <2>14 DEF IInv
<1>6. QED BY <1>4, <1>5 DEF CompleteExecution

(* Writes to step records from outside: they touch no successful step and   *)
(* make no executable step successful.                                      *)
LEMMA OutsideWriteInv ==
  ASSUME IInv, TypeOK', UNCHANGED <<exec, task, calls, run>>,
         \A s \in Steps : step'[s] = step[s] \/ step'[s].rev = step[s].rev + 1,
         \A s \in Steps : step[s].status \in Success => step'[s] = step[s],
         \A s \in Steps : Kind[s] \in ExecutableKinds /\ step'[s].status \in Success
           => step[s].status \in Success
  PROVE  IInv'
<1>1. ExecutionShape' /\ TaskShape' /\ BudgetSpent'
  BY DEF IInv, ExecutionShape, TaskShape, BudgetSpent, OwnsLease
<1>2. OneLeaseHolder' /\ HolderInFlight'
  BY DEF IInv, OneLeaseHolder, HolderInFlight, HoldsLease, OwnsLease
<1>3. DependenciesDone'
  BY DepsKept DEF IInv, DependenciesDone
<1>4. SuccessIsRecorded'
  BY DEF IInv, SuccessIsRecorded
<1>5. TodoFresh'
  BY TodoKept
<1>6. QED BY <1>1, <1>2, <1>3, <1>4, <1>5 DEF IInv

LEMMA ResolveInv ==
  ASSUME IInv, TypeOK', NEW s \in Steps, ResolveStep(s)
  PROVE  IInv'
<1>1. PICK status : SetStep(s, status)
  BY DEF ResolveStep
<1>2. /\ step'[s].rev = step[s].rev + 1
      /\ \A r \in Steps : r # s => step'[r] = step[r]
  BY <1>1, SetStepFacts DEF IInv
<1>3. /\ step[s].status \notin Success /\ Kind[s] \notin ExecutableKinds
      /\ UNCHANGED <<exec, task, calls, run>>
  BY DEF ResolveStep, Success, ExternalKinds, ExecutableKinds
<1>4. QED BY <1>2, <1>3, OutsideWriteInv

LEMMA TerminateInv ==
  ASSUME IInv, TypeOK', TerminatePlan
  PROVE  IInv'
<1>1. plan' \in {"cancelled", "expired"} /\ UNCHANGED <<exec, task, calls, run>>
  BY BudgetAssumption DEF TerminatePlan
<1>2. \A s \in Steps :
        step'[s] = IF step[s].status \in Terminal \ {"blocked"} THEN step[s]
                   ELSE [status |-> plan', rev |-> step[s].rev + 1]
  BY DEF TerminatePlan
<1>3. ASSUME NEW s \in Steps
      PROVE  \/ step'[s] = step[s]
             \/ step'[s].rev = step[s].rev + 1 /\ step'[s].status = plan'
  <2>1. CASE step[s].status \in Terminal \ {"blocked"}
    BY <1>2, <2>1
  <2>2. CASE step[s].status \notin Terminal \ {"blocked"}
    <3>1. step'[s] = [status |-> plan', rev |-> step[s].rev + 1]
      BY <1>2, <2>2
    <3>2. QED BY <3>1
  <2>3. QED BY <2>1, <2>2
<1>4. \A s \in Steps : step[s].status \in Success => step'[s] = step[s]
  BY <1>2 DEF Terminal, Success
<1>5. \A s \in Steps : step'[s].status \in Success => step[s].status \in Success
  BY <1>1, <1>3 DEF Success
<1>6. QED BY <1>1, <1>3, <1>4, <1>5, OutsideWriteInv

LEMMA ExpireInv ==
  ASSUME IInv, TypeOK', NEW s \in Steps, LeaseExpires(s)
  PROVE  IInv'
<1>1. /\ \A r \in Steps : /\ exec'[r].status = exec[r].status
                          /\ exec'[r].attempt = exec[r].attempt
                          /\ exec'[r].token = exec[r].token
      /\ UNCHANGED <<step, task, run, calls>>
  BY DEF LeaseExpires, IInv, TypeOK, ExecutionRecord
<1>2. ExecutionShape' /\ TaskShape' /\ BudgetSpent' /\ SuccessIsRecorded'
  BY <1>1 DEF IInv, ExecutionShape, TaskShape, BudgetSpent, SuccessIsRecorded,
     OwnsLease
<1>3. OneLeaseHolder' /\ HolderInFlight'
  BY <1>1 DEF IInv, OneLeaseHolder, HolderInFlight, HoldsLease, OwnsLease
<1>4. DependenciesDone' /\ TodoFresh'
  BY <1>1 DEF IInv, DependenciesDone, DepsDone, TodoFresh
<1>5. QED BY <1>2, <1>3, <1>4 DEF IInv

LEMMA CrashInv ==
  ASSUME IInv, TypeOK', NEW w \in Workers, Crash(w)
  PROVE  IInv'
<1>1. /\ UNCHANGED <<step, exec, calls>> /\ TypeOK
      /\ Become(w, IdleRun) /\ task' = [task EXCEPT ![w] = NoTasks]
  BY DEF Crash, IInv
<1>2. \A v \in Workers : run'[v].todo \subseteq run[v].todo
  BY <1>1 DEF Become, IdleRun, TypeOK
<1>3. \A v \in Workers, s \in Steps :
        task'[v][s] = task[v][s] \/ task'[v][s].at = "none"
  BY <1>1 DEF NoTasks, NoTask, TypeOK
<1>4. QED BY <1>1, <1>2, <1>3, TaskEndsInv

LEMMA RefusedInv ==
  ASSUME IInv, TypeOK', NEW w \in Workers, NEW s \in Steps, AcquireRefused(w, s)
  PROVE  IInv'
<1>1. UNCHANGED <<step, exec, calls, run>>
  BY DEF AcquireRefused
<1>2. \A v \in Workers, r \in Steps :
        task'[v][r] = task[v][r] \/ task'[v][r].at = "none"
  BY TaskToFacts DEF AcquireRefused, NoTask, IInv
<1>3. QED BY <1>1, <1>2, TaskEndsInv

(* Every step of the system preserves the inductive invariant.              *)
LEMMA InductiveStep ==
  ASSUME IInv, [Next]_vars
  PROVE  IInv'
<1>0. TypeOK /\ TypeOK'
  BY TypeStep DEF IInv
<1>1. CASE /\ UNCHANGED <<step, exec, task, calls>>
           /\ \A v \in Workers : run'[v].todo \subseteq run[v].todo
  BY <1>0, <1>1, RunOnly
<1>2. ASSUME NEW w \in Workers,
             \/ Goto(w, "list") \/ Goto(w, "refresh") \/ Goto(w, "settle")
             \/ Become(w, IdleRun)
             \/ Become(w, [run[w] EXCEPT !.pc = "refreshPlan", !.verdict = Verdict])
      PROVE  \A v \in Workers : run'[v].todo \subseteq run[v].todo
  <2>1. [run[w] EXCEPT !.pc = "refreshPlan", !.verdict = Verdict].todo = run[w].todo
    BY <1>0 DEF TypeOK, RunLocals
  <2>2. IdleRun.todo = {}
    BY DEF IdleRun
  <2>3. CASE Goto(w, "list") \/ Goto(w, "refresh") \/ Goto(w, "settle")
    BY <1>0, <2>3, GotoTodo
  <2>4. CASE \/ Become(w, IdleRun)
             \/ Become(w, [run[w] EXCEPT !.pc = "refreshPlan", !.verdict = Verdict])
    BY <1>0, <2>1, <2>2, <2>4 DEF Become, TypeOK
  <2>5. QED BY <1>2, <2>3, <2>4
<1>3. ASSUME NEW w \in Workers,
             \/ ReadPlan(w) \/ GatherDone(w) \/ GatherRaised(w) \/ RefreshSteps(w)
             \/ RefreshPlan(w) \/ SetPlanState(w)
      PROVE  IInv'
  <2>1. UNCHANGED <<step, exec, task, calls>>
    BY <1>3 DEF ReadPlan, GatherDone, GatherRaised, RefreshSteps, RefreshPlan,
       SetPlanState
  <2>2. \/ Goto(w, "list") \/ Goto(w, "refresh") \/ Goto(w, "settle")
        \/ Become(w, IdleRun)
        \/ Become(w, [run[w] EXCEPT !.pc = "refreshPlan", !.verdict = Verdict])
    BY <1>3 DEF ReadPlan, GatherDone, GatherRaised, RefreshSteps, RefreshPlan,
       SetPlanState
  <2>3. QED BY <1>1, <1>2, <2>1, <2>2
<1>4. ASSUME NEW s \in Steps, TimerDue(s) PROVE IInv'
  BY <1>1, <1>4 DEF TimerDue
<1>5. CASE UNCHANGED vars
  BY <1>1, <1>5 DEF vars
<1>6. QED
  BY <1>0, <1>3, <1>4, <1>5, ListStepsInv, PrepareInv, RefusedInv, AcquireInv, MarkInv,
     ReturnInv, CompleteInv, ResolveInv, TerminateInv, ExpireInv, CrashInv
     DEF Next, RunStep, TaskStep

THEOREM Invariance == Spec => []IInv
<1>1. Init => IInv
  <2> SUFFICES ASSUME Init PROVE IInv
    OBVIOUS
  <2>1. TypeOK
    BY NumStepsAssumption, Constants DEF Init, TypeOK, StepRecord, ExecutionRecord,
       PlanStates
  <2>2. ExecutionShape /\ TaskShape /\ HolderInFlight /\ OneLeaseHolder
    BY BudgetAssumption DEF Init, ExecutionShape, TaskShape, HolderInFlight,
       OneLeaseHolder, HoldsLease, NoTasks, NoTask, Held
  <2>3. DependenciesDone /\ SuccessIsRecorded /\ TodoFresh /\ BudgetSpent
    BY DEF Init, DependenciesDone, SuccessIsRecorded, TodoFresh, BudgetSpent, NoTasks,
       NoTask, IdleRun, Success
  <2>4. QED BY <2>1, <2>2, <2>3 DEF IInv
<1>2. IInv /\ [Next]_vars => IInv'
  BY InductiveStep
<1>3. QED BY <1>1, <1>2, PTL DEF Spec

-----------------------------------------------------------------------------
(* At most one coroutine ever holds the token of an execution: the lease    *)
(* protocol of acquire_execution excludes two recorders of one result.      *)
THEOREM LeaseExclusion == Spec => []OneLeaseHolder
<1>1. IInv => OneLeaseHolder
  BY DEF IInv
<1>2. QED BY <1>1, Invariance, PTL

(* No step is leased or executed before everything it depends on succeeded, *)
(* although waves are chosen from listings that may be stale.               *)
THEOREM DependencyOrder == Spec => []DependenciesDone
<1>1. IInv => DependenciesDone
  BY DEF IInv
<1>2. QED BY <1>1, Invariance, PTL

(* The step record says success exactly when the execution recorded it, in  *)
(* spite of cancels, expiries and stale workers writing step records.       *)
THEOREM RecordsAgree == Spec => []SuccessIsRecorded
<1>1. IInv => SuccessIsRecorded
  BY DEF IInv
<1>2. QED BY <1>1, Invariance, PTL

(* Executor calls for an idempotency key never exceed the retry budget.     *)
THEOREM CallBudget == Spec => []CallsWithinBudget
<1>1. ASSUME IInv PROVE CallsWithinBudget
  <2> SUFFICES ASSUME NEW s \in Steps PROVE calls[s] <= MaxAttempts[s]
    BY DEF CallsWithinBudget
  <2>1. calls[s] <= exec[s].attempt
    BY <1>1 DEF IInv, BudgetSpent
  <2>2. exec[s].attempt <= MaxAttempts[s]
    BY <1>1 DEF IInv, ExecutionShape
  <2>3. calls[s] \in Nat /\ exec[s].attempt \in Nat /\ MaxAttempts[s] \in Nat
    BY <1>1, BudgetAssumption DEF IInv, TypeOK, ExecutionRecord
  <2>4. QED BY <2>1, <2>2, <2>3
<1>2. QED BY <1>1, Invariance, PTL

-----------------------------------------------------------------------------
(* The only four changes of an execution record: a grant, a start, a result *)
(* and the lapse of a lease.                                                *)
Granted(s) ==
  /\ ~LeaseRefused(s)
  /\ exec' = [exec EXCEPT ![s] = [status |-> "leased", attempt |-> @.attempt + 1,
                                  token |-> @.token + 1, live |-> TRUE]]
Started(s) ==
  /\ exec[s].status \in InFlight /\ exec[s].live
  /\ exec' = [exec EXCEPT ![s] = [@ EXCEPT !.status = "running"]]
Recorded(s) ==
  /\ exec[s].status \in InFlight
  /\ \E status \in {"succeeded", "failed"} :
       exec' = [exec EXCEPT ![s] = [@ EXCEPT !.status = status]]
Lapsed(s) ==
  /\ exec[s].status \in InFlight /\ exec[s].live
  /\ exec' = [exec EXCEPT ![s] = [@ EXCEPT !.live = FALSE]]

LEMMA ExecutionChanges ==
  ASSUME IInv, [Next]_vars
  PROVE  \/ UNCHANGED exec
         \/ \E s \in Steps : Granted(s) \/ Started(s) \/ Recorded(s) \/ Lapsed(s)
<1>1. ASSUME NEW w \in Workers, NEW s \in Steps, AcquireExecution(w, s)
      PROVE  Granted(s)
  BY <1>1 DEF AcquireExecution, Granted, IInv, TypeOK
<1>2. ASSUME NEW w \in Workers, NEW s \in Steps, MarkExecutionRunning(w, s)
      PROVE  UNCHANGED exec \/ Started(s)
  BY <1>2 DEF MarkExecutionRunning, Started, IInv, HolderInFlight, HoldsLease
<1>3. ASSUME NEW w \in Workers, NEW s \in Steps, CompleteExecution(w, s)
      PROVE  UNCHANGED exec \/ Recorded(s)
  <2>1. CASE UNCHANGED exec
    BY <2>1
  <2>2. CASE /\ OwnsLease(w, s)
             /\ exec' = [exec EXCEPT ![s] = [@ EXCEPT !.status =
                  IF task[w][s].outcome = "success" THEN "succeeded" ELSE "failed"]]
    <3>1. exec[s].status \in InFlight
      BY <1>3, <2>2 DEF CompleteExecution, IInv, HolderInFlight, HoldsLease
    <3>2. QED BY <2>2, <3>1 DEF Recorded
  <2>3. QED BY <1>3, <2>1, <2>2 DEF CompleteExecution
<1>4. ASSUME NEW s \in Steps, LeaseExpires(s) PROVE Lapsed(s)
  BY <1>4 DEF LeaseExpires, Lapsed
<1>5. ASSUME NEW w \in Workers, RunStep(w) \/ Crash(w) PROVE UNCHANGED exec
  BY <1>5 DEF RunStep, Crash, ReadPlan, ListSteps, Prepare, GatherDone, GatherRaised,
     RefreshSteps, RefreshPlan, SetPlanState
<1>6. ASSUME NEW w \in Workers, NEW s \in Steps,
             AcquireRefused(w, s) \/ ExecutorReturns(w, s)
      PROVE  UNCHANGED exec
  BY <1>6 DEF AcquireRefused, ExecutorReturns
<1>7. ASSUME NEW s \in Steps, ResolveStep(s) \/ TimerDue(s) \/ TerminatePlan
      PROVE  UNCHANGED exec
  BY <1>7 DEF ResolveStep, TimerDue, TerminatePlan
<1>8. CASE UNCHANGED vars
  BY <1>8 DEF vars
<1>9. CASE TerminatePlan
  BY <1>9 DEF TerminatePlan
<1>10. QED BY <1>1, <1>2, <1>3, <1>4, <1>5, <1>6, <1>7, <1>8, <1>9 DEF Next, TaskStep

LEMMA SuccessKeptStep ==
  ASSUME IInv, [Next]_vars, NEW s \in Steps
  PROVE  /\ step[s].status \in Success => step'[s] = step[s]
         /\ exec[s].status = "succeeded" =>
              exec'[s].attempt = exec[s].attempt /\ calls'[s] = calls[s]
<1>0. TypeOK /\ SuccessIsRecorded /\ TaskShape /\ HolderInFlight /\ TodoFresh
  BY DEF IInv
<1>1. exec[s].status = "succeeded" => exec'[s].attempt = exec[s].attempt
  <2>1. ASSUME exec[s].status = "succeeded", NEW r \in Steps,
               Granted(r) \/ Started(r) \/ Recorded(r) \/ Lapsed(r)
        PROVE  exec'[s] = exec[s]
    <3>1. r # s
      BY <2>1 DEF Granted, Started, Recorded, Lapsed, LeaseRefused, InFlight
    <3>2. QED BY <1>0, <2>1, <3>1 DEF Granted, Started, Recorded, Lapsed, TypeOK
  <2>2. QED BY <2>1, ExecutionChanges
<1>2. ASSUME NEW w \in Workers, NEW r \in Steps, MarkExecutionRunning(w, r)
      PROVE  /\ step[s].status \in Success => step'[s] = step[s]
             /\ exec[s].status = "succeeded" => calls'[s] = calls[s]
  <2>1. CASE OwnsLease(w, r) /\ exec[r].live
    <3>1. exec[r].status \in InFlight /\ Kind[r] \in ExecutableKinds
      BY <1>0, <1>2, <2>1 DEF MarkExecutionRunning, HolderInFlight, HoldsLease, TaskShape
    <3>2. step[r].status \notin Success /\ exec[r].status # "succeeded"
      BY <1>0, <3>1 DEF SuccessIsRecorded, InFlight
    <3>3. calls' = [calls EXCEPT ![r] = @ + 1] /\ SetStep(r, "running")
      BY <1>2, <2>1 DEF MarkExecutionRunning
    <3>4. \A q \in Steps : q # r => step'[q] = step[q]
      BY <1>0, <3>3, SetStepFacts
    <3>5. QED BY <1>0, <3>2, <3>3, <3>4 DEF TypeOK
  <2>2. CASE ~(OwnsLease(w, r) /\ exec[r].live)
    BY <1>2, <2>2 DEF MarkExecutionRunning
  <2>3. QED BY <2>1, <2>2
<1>3. ASSUME NEW w \in Workers, NEW r \in Steps, AcquireExecution(w, r)
      PROVE  step[s].status \in Success => step'[s] = step[s]
  <2>1. step[r].status \notin Success
    BY <1>0, <1>3 DEF AcquireExecution, LeaseRefused, SuccessIsRecorded, TaskShape
  <2>2. \A q \in Steps : q # r => step'[q] = step[q]
    BY <1>0, <1>3, SetStepFacts DEF AcquireExecution
  <2>3. QED BY <2>1, <2>2
<1>4. ASSUME NEW w \in Workers, NEW r \in Steps, CompleteExecution(w, r)
      PROVE  step[s].status \in Success => step'[s] = step[s]
  <2>1. CASE UNCHANGED step
    BY <2>1
  <2>2. CASE /\ exec[r].status # "succeeded"
             /\ SetStep(r, CompletedStatus(r, task[w][r].outcome))
    <3>1. step[r].status \notin Success
      BY <1>0, <1>4, <2>2 DEF CompleteExecution, SuccessIsRecorded, TaskShape
    <3>2. \A q \in Steps : q # r => step'[q] = step[q]
      BY <1>0, <2>2, SetStepFacts
    <3>3. QED BY <3>1, <3>2
  <2>3. QED BY <1>4, <2>1, <2>2 DEF CompleteExecution
<1>5. ASSUME NEW w \in Workers, Prepare(w)
      PROVE  step[s].status \in Success => step'[s] = step[s]
  <2>1. CASE UNCHANGED step
    BY <2>1
  <2>2. ASSUME NEW x \in run[w].todo, step[x.step].rev = x.rev, SetStep(x.step, x.to)
        PROVE  step[s].status \in Success => step'[s] = step[s]
    <3>1. step[x.step].status \notin Success /\ x.step \in Steps
      BY <1>0, <2>2 DEF TodoFresh, Success, TypeOK, RunLocals
    <3>2. \A q \in Steps : q # x.step => step'[q] = step[q]
      BY <1>0, <2>2, <3>1, SetStepFacts
    <3>3. QED BY <3>1, <3>2
  <2>3. QED BY <1>5, <2>1, <2>2 DEF Prepare
<1>6. ASSUME NEW r \in Steps, ResolveStep(r)
      PROVE  step[s].status \in Success => step'[s] = step[s]
  <2>1. step[r].status \notin Success
    BY <1>6 DEF ResolveStep, Success
  <2>2. \A q \in Steps : q # r => step'[q] = step[q]
    BY <1>0, <1>6, SetStepFacts DEF ResolveStep
  <2>3. QED BY <2>1, <2>2
<1>7. CASE TerminatePlan
  BY <1>1, <1>7 DEF TerminatePlan, Terminal, Success
<1>8. ASSUME \/ \E w \in Workers :
                  \/ ReadPlan(w) \/ ListSteps(w) \/ GatherDone(w) \/ GatherRaised(w)
                  \/ RefreshSteps(w) \/ RefreshPlan(w) \/ SetPlanState(w) \/ Crash(w)
             \/ \E w \in Workers, r \in Steps :
                  AcquireRefused(w, r) \/ ExecutorReturns(w, r)
             \/ \E r \in Steps : LeaseExpires(r) \/ TimerDue(r)
             \/ UNCHANGED vars
      PROVE  UNCHANGED <<step, calls>>
  BY <1>8 DEF ReadPlan, ListSteps, GatherDone, GatherRaised, RefreshSteps, RefreshPlan,
     SetPlanState, Crash, AcquireRefused, ExecutorReturns, LeaseExpires, TimerDue, vars
<1>9. UNCHANGED calls \/ \E w \in Workers, r \in Steps : MarkExecutionRunning(w, r)
  BY <1>8 DEF Next, RunStep, TaskStep, AcquireExecution, CompleteExecution, Prepare,
     ResolveStep, TerminatePlan
<1>10. step[s].status \in Success => step'[s] = step[s]
  BY <1>2, <1>3, <1>4, <1>5, <1>6, <1>7, <1>8 DEF Next, RunStep, TaskStep
<1>11. exec[s].status = "succeeded" => calls'[s] = calls[s]
  BY <1>2, <1>9
<1>12. QED BY <1>1, <1>10, <1>11

(* A success is never taken back and never replayed.                        *)
THEOREM SuccessIsKept == Spec => SuccessKept
<1>1. IInv /\ [Next]_vars =>
        [\A s \in Steps :
           /\ step[s].status \in Success => step'[s] = step[s]
           /\ exec[s].status = "succeeded" =>
                exec'[s].attempt = exec[s].attempt /\ calls'[s] = calls[s]]_vars
  BY SuccessKeptStep
<1>2. QED BY <1>1, Invariance, PTL DEF Spec, SuccessKept

-----------------------------------------------------------------------------
(* Each change of an execution record is a step of the abstract promise or  *)
(* leaves claims alone.                                                     *)
State(s) ==
  IF exec[s].status = "succeeded" THEN "done"
  ELSE IF exec[s].status \in InFlight /\ exec[s].live THEN "claimed"
  ELSE "open"

LEMMA ClaimMoves ==
  ASSUME NEW s \in Steps, \A r \in Steps : r # s => exec'[r] = exec[r]
  PROVE  /\ ClaimState' = [ClaimState EXCEPT ![s] = State(s)']
         /\ Claims' = [Claims EXCEPT ![s] = exec'[s].attempt]
BY DEF ClaimState, Claims, State

LEMMA PromiseStep ==
  ASSUME IInv, [Next]_vars
  PROVE  [Promise!Next]_(Promise!vars)
<1>0. TypeOK /\ ExecutionShape
  BY DEF IInv
<1>1. CASE UNCHANGED exec
  BY <1>1 DEF Promise!vars, ClaimState, Claims
<1>2. ASSUME NEW s \in Steps, Granted(s) \/ Started(s) \/ Recorded(s) \/ Lapsed(s)
      PROVE  [Promise!Next]_(Promise!vars)
  <2>0. /\ exec[s] \in ExecutionRecord /\ MaxAttempts[s] \in Nat
        /\ exec[s].status \in InFlight => exec[s].attempt > 0
    BY <1>0, BudgetAssumption DEF TypeOK, ExecutionShape, ExecutionRecord, InFlight
  <2>1. \A r \in Steps : r # s => exec'[r] = exec[r]
    BY <1>0, <1>2 DEF Granted, Started, Recorded, Lapsed, TypeOK
  <2>2. /\ ClaimState' = [ClaimState EXCEPT ![s] = State(s)']
        /\ Claims' = [Claims EXCEPT ![s] = exec'[s].attempt]
    BY <2>1, ClaimMoves
  <2>3. ClaimState[s] = State(s) /\ Claims[s] = exec[s].attempt
    BY DEF ClaimState, Claims, State
  <2>4. State(s)' = State(s) /\ exec'[s].attempt = exec[s].attempt
          => UNCHANGED <<ClaimState, Claims>>
    BY <2>1 DEF ClaimState, Claims, State
  <2>5. CASE Granted(s)
    <3>1. exec'[s] = [status |-> "leased", attempt |-> exec[s].attempt + 1,
                      token |-> exec[s].token + 1, live |-> TRUE]
      BY <1>0, <2>5 DEF Granted, TypeOK
    <3>2. State(s) = "open" /\ State(s)' = "claimed" /\ Claims[s] < MaxAttempts[s]
      BY <2>0, <2>3, <2>5, <3>1 DEF Granted, LeaseRefused, State, InFlight, ExecutionRecord
    <3>3. Promise!Claim(s)
      BY <2>2, <2>3, <3>1, <3>2 DEF Promise!Claim
    <3>4. QED BY <3>3 DEF Promise!Next
  <2>6. CASE Started(s)
    <3>1. /\ exec'[s].status = "running" /\ exec'[s].live = exec[s].live
          /\ exec'[s].attempt = exec[s].attempt
      BY <1>0, <2>0, <2>6 DEF Started, TypeOK, ExecutionRecord
    <3>2. State(s)' = State(s)
      BY <2>6, <3>1 DEF Started, State, InFlight
    <3>3. QED BY <2>4, <3>1, <3>2 DEF Promise!vars
  <2>7. CASE Recorded(s)
    <3>1. /\ exec'[s].status \in {"succeeded", "failed"}
          /\ exec'[s].live = exec[s].live /\ exec'[s].attempt = exec[s].attempt
      BY <1>0, <2>0, <2>7 DEF Recorded, TypeOK, ExecutionRecord
    <3>2. UNCHANGED Claims
      BY <2>1, <3>1 DEF Claims
    <3>3. State(s) \in {"claimed", "open"}
      BY <2>7 DEF Recorded, State, InFlight
    <3>4. CASE exec'[s].status = "succeeded"
      <4>1. State(s)' = "done"
        BY <3>4 DEF State
      <4>2. Claims[s] > 0
        BY <2>0, <2>3, <2>7 DEF Recorded
      <4>3. Promise!Finish(s)
        BY <2>2, <2>3, <3>2, <3>3, <4>1, <4>2 DEF Promise!Finish
      <4>4. QED BY <4>3 DEF Promise!Next
    <3>5. CASE exec'[s].status = "failed"
      <4>1. State(s)' = "open"
        BY <3>5 DEF State, InFlight
      <4>2. CASE State(s) = "claimed"
        <5>1. Promise!Release(s)
          BY <2>2, <2>3, <3>2, <4>1, <4>2 DEF Promise!Release
        <5>2. QED BY <5>1 DEF Promise!Next
      <4>3. CASE State(s) = "open"
        BY <2>4, <3>1, <4>1, <4>3 DEF Promise!vars
      <4>4. QED BY <3>3, <4>2, <4>3
    <3>6. QED BY <3>1, <3>4, <3>5
  <2>8. CASE Lapsed(s)
    <3>1. /\ exec'[s].status = exec[s].status /\ exec'[s].live = FALSE
          /\ exec'[s].attempt = exec[s].attempt
      BY <1>0, <2>0, <2>8 DEF Lapsed, TypeOK, ExecutionRecord
    <3>2. State(s) = "claimed" /\ State(s)' = "open"
      BY <2>8, <3>1 DEF Lapsed, State, InFlight
    <3>3. UNCHANGED Claims
      BY <2>1, <3>1 DEF Claims
    <3>4. Promise!Release(s)
      BY <2>2, <2>3, <3>2, <3>3 DEF Promise!Release
    <3>5. QED BY <3>4 DEF Promise!Next
  <2>9. QED BY <1>2, <2>5, <2>6, <2>7, <2>8
<1>3. QED BY <1>1, <1>2, ExecutionChanges

(* The store and the runs implement the promise of exclusive, bounded and   *)
(* irrevocable work.                                                        *)
THEOREM Implementation == Spec => LeasedWorkSpec
<1>1. Init => Promise!Init
  BY DEF Init, Promise!Init, ClaimState, Claims, InFlight
<1>2. IInv /\ [Next]_vars => [Promise!Next]_(Promise!vars)
  BY PromiseStep
<1>3. QED BY <1>1, <1>2, Invariance, PTL DEF Spec, LeasedWorkSpec, Promise!Spec

-----------------------------------------------------------------------------
(* A verdict is derived from one listing and written transactions later.    *)
(* It stays true meanwhile because successes are never taken back.          *)
WorkIsDone == \A s \in Steps : Kind[s] # "compensation" => step[s].status \in Success

VerdictHolds ==
  \A w \in Workers :
    run[w].pc \in {"refreshPlan", "settle"} /\ run[w].verdict = "satisfied"
      => WorkIsDone

LEMMA VerdictIsSound == Verdict = "satisfied" => WorkIsDone
BY DEF Verdict, WorkIsDone

LEMMA WorkStaysDone ==
  ASSUME IInv, [Next]_vars, WorkIsDone
  PROVE  WorkIsDone'
BY SuccessKeptStep DEF WorkIsDone

LEMMA VerdictStep ==
  ASSUME IInv, VerdictHolds, SatisfiedPlanIsDone, [Next]_vars
  PROVE  VerdictHolds' /\ SatisfiedPlanIsDone'
<1>0. TypeOK
  BY DEF IInv
<1>1. plan' = "satisfied" => plan = "satisfied" \/ WorkIsDone
  <2>1. ASSUME NEW w \in Workers, SetPlanState(w), plan' = "satisfied"
        PROVE  WorkIsDone
    BY <2>1 DEF SetPlanState, VerdictHolds
  <2>2. CASE TerminatePlan
    BY <2>2, BudgetAssumption DEF TerminatePlan
  <2>3. CASE UNCHANGED plan
    BY <2>3
  <2>4. UNCHANGED plan \/ TerminatePlan \/ \E w \in Workers : SetPlanState(w)
    BY DEF Next, vars, RunStep, TaskStep, ReadPlan, ListSteps, Prepare, GatherDone,
       GatherRaised, RefreshSteps, RefreshPlan, Crash, AcquireRefused,
       AcquireExecution, MarkExecutionRunning, ExecutorReturns, CompleteExecution,
       ResolveStep, LeaseExpires, TimerDue
  <2>5. QED BY <2>1, <2>2, <2>3, <2>4
<1>2. SatisfiedPlanIsDone'
  BY <1>1, WorkStaysDone DEF SatisfiedPlanIsDone, WorkIsDone
<1>3. ASSUME NEW w \in Workers, run'[w].pc \in {"refreshPlan", "settle"},
             run'[w].verdict = "satisfied"
      PROVE  WorkIsDone
  (* Every change of a worker's locals, by what it makes of pc and verdict. *)
  <2> DEFINE Moves(v) ==
        \/ Goto(v, "list") \/ Goto(v, "raised") \/ Goto(v, "refresh")
        \/ Goto(v, "settle") /\ run[v].pc = "refreshPlan"
        \/ Become(v, IdleRun)
        \/ Become(v, [run[v] EXCEPT !.pc = "prepare", !.todo = Preparations])
        \/ Become(v, [run[v] EXCEPT !.pc = "gather", !.advanced = FALSE])
        \/ \E x : /\ Become(v, [run[v] EXCEPT !.todo = @ \ {x}])
                  /\ run[v].pc = "prepare"
        \/ Become(v, [run[v] EXCEPT !.advanced = (run[v].pc = "gather")])
        \/ Become(v, [run[v] EXCEPT !.pc = "refreshPlan", !.verdict = Verdict])
  <2>1. UNCHANGED run \/ \E v \in Workers : Moves(v)
    BY DEF Next, vars, RunStep, TaskStep, ReadPlan, ListSteps, Prepare, GatherDone,
       GatherRaised, RefreshSteps, RefreshPlan, SetPlanState, Crash, AcquireRefused,
       AcquireExecution, MarkExecutionRunning, ExecutorReturns, CompleteExecution,
       ResolveStep, LeaseExpires, TimerDue, TerminatePlan, Raise
  <2>2. \A v \in Workers : run[v] \in RunLocals
    BY <1>0 DEF TypeOK
  <2>3. CASE run'[w] = run[w]
    BY <1>3, <2>3 DEF VerdictHolds
  <2>4. ASSUME NEW new, Become(w, new),
               \/ new.pc \in {"list", "raised", "refresh", "top", "prepare", "gather"}
               \/ /\ new.pc = "settle" /\ run[w].pc = "refreshPlan"
                  /\ new.verdict = run[w].verdict
               \/ new.pc = run[w].pc /\ new.verdict = run[w].verdict
               \/ new.verdict = Verdict
        PROVE  WorkIsDone
    <3>1. run'[w] = new
      BY <1>0, <2>4 DEF Become, TypeOK
    <3>2. QED BY <1>3, <2>4, <3>1, VerdictIsSound DEF VerdictHolds
  <2>5. ASSUME NEW v \in Workers, v # w, NEW new, Become(v, new)
        PROVE  run'[w] = run[w]
    BY <1>0, <2>5 DEF Become, TypeOK
  <2>6. /\ \A label \in {"list", "raised", "refresh"} :
             [run[w] EXCEPT !.pc = label].pc = label
        /\ [run[w] EXCEPT !.pc = "settle"].pc = "settle"
        /\ [run[w] EXCEPT !.pc = "settle"].verdict = run[w].verdict
        /\ IdleRun.pc = "top"
        /\ [run[w] EXCEPT !.pc = "prepare", !.todo = Preparations].pc = "prepare"
        /\ [run[w] EXCEPT !.pc = "gather", !.advanced = FALSE].pc = "gather"
        /\ \A x : [run[w] EXCEPT !.todo = @ \ {x}].pc = run[w].pc
        /\ [run[w] EXCEPT !.advanced = (run[w].pc = "gather")].pc = run[w].pc
        /\ [run[w] EXCEPT !.advanced = (run[w].pc = "gather")].verdict = run[w].verdict
        /\ [run[w] EXCEPT !.pc = "refreshPlan", !.verdict = Verdict].verdict = Verdict
    BY <2>2 DEF RunLocals, IdleRun
  <2>7. ASSUME NEW v \in Workers, v # w, Moves(v) PROVE WorkIsDone
    BY <2>3, <2>5, <2>7 DEF Goto
  <2>8. CASE UNCHANGED run
    BY <2>3, <2>8
  <2>9. CASE Moves(w)
    BY <2>4, <2>6, <2>9 DEF Goto
  <2> HIDE DEF Moves
  <2>10. QED BY <2>1, <2>7, <2>8, <2>9
<1>4. VerdictHolds'
  BY <1>3, WorkStaysDone DEF VerdictHolds
<1>5. QED BY <1>2, <1>4

(* A plan reported as satisfied has no work left, although its status was   *)
(* derived from an earlier listing of its steps.                            *)
THEOREM SatisfiedIsDone == Spec => []SatisfiedPlanIsDone
<1>1. Init => VerdictHolds /\ SatisfiedPlanIsDone
  BY DEF Init, VerdictHolds, SatisfiedPlanIsDone, IdleRun
<1>2. IInv /\ VerdictHolds /\ SatisfiedPlanIsDone /\ [Next]_vars
        => VerdictHolds' /\ SatisfiedPlanIsDone'
  BY VerdictStep
<1>3. QED BY <1>1, <1>2, Invariance, PTL DEF Spec

-----------------------------------------------------------------------------
(* Two members of one wave are compatible whatever order they were picked.  *)
LEMMA WaveMembers ==
  ASSUME NEW wave \in SUBSET Steps, NEW ready, IsWave(wave, ready),
         NEW s \in wave, NEW t \in wave, s # t
  PROVE  Compatible(s, t)
<1>1. CASE s < t
  BY <1>1 DEF IsWave
<1>2. CASE t < s
  <2>1. Compatible(t, s)
    BY <1>2 DEF IsWave
  <2>2. QED BY <2>1 DEF Compatible
<1>3. s < t \/ t < s
  BY NumStepsAssumption DEF Steps
<1>4. QED BY <1>1, <1>2, <1>3

LEMMA WaveStep ==
  ASSUME TypeOK, WavesDisjoint, [Next]_vars
  PROVE  WavesDisjoint'
<1>1. ASSUME \A w \in Workers, s \in Steps :
               task'[w][s].at # "none" => task[w][s].at # "none"
      PROVE  WavesDisjoint'
  BY <1>1 DEF WavesDisjoint, Compatible
<1>2. ASSUME NEW v \in Workers, NEW r \in Steps, TaskStep(v, r) PROVE WavesDisjoint'
  <2>1. task[v][r].at # "none" /\ \E new : TaskTo(v, r, new)
    BY <1>2 DEF TaskStep, AcquireRefused, AcquireExecution, MarkExecutionRunning,
       ExecutorReturns, CompleteExecution, Raise
  <2>2. \A w \in Workers, s \in Steps : w # v \/ s # r => task'[w][s] = task[w][s]
    BY <2>1, TaskToFacts
  <2>3. QED BY <1>1, <2>1, <2>2
<1>3. ASSUME NEW v \in Workers, ListSteps(v) PROVE WavesDisjoint'
  <2>1. CASE UNCHANGED task
    BY <1>1, <2>1
  <2>2. ASSUME NEW wave \in SUBSET Ready, IsWave(wave, Ready),
               task' = [task EXCEPT ![v] =
                 [s \in Steps |-> IF s \in wave THEN [NoTask EXCEPT !.at = "acquire"]
                                  ELSE NoTask]]
        PROVE  WavesDisjoint'
    <3>1. wave \in SUBSET Steps
      BY DEF Ready
    <3>2. \A w \in Workers : w # v => task'[w] = task[w]
      BY <2>2 DEF TypeOK
    <3>3. \A s \in Steps : task'[v][s].at # "none" => s \in wave
      BY <2>2 DEF TypeOK, NoTask
    <3>4. \A s, t \in wave : s # t => Compatible(s, t)
      BY <2>2, <3>1, WaveMembers
    <3>5. QED BY <3>2, <3>3, <3>4 DEF WavesDisjoint, Compatible
  <2>3. QED BY <1>3, <2>1, <2>2 DEF ListSteps
<1>4. ASSUME NEW v \in Workers, Crash(v) PROVE WavesDisjoint'
  <2>1. \A w \in Workers, s \in Steps :
          task'[w][s] = task[w][s] \/ task'[w][s].at = "none"
    BY <1>4 DEF Crash, NoTasks, NoTask, TypeOK
  <2>2. QED BY <1>1, <2>1
<1>5. ASSUME \/ \E v \in Workers :
                  \/ ReadPlan(v) \/ Prepare(v) \/ GatherDone(v) \/ GatherRaised(v)
                  \/ RefreshSteps(v) \/ RefreshPlan(v) \/ SetPlanState(v)
             \/ \E s \in Steps : ResolveStep(s) \/ LeaseExpires(s) \/ TimerDue(s)
             \/ TerminatePlan \/ UNCHANGED vars
      PROVE  WavesDisjoint'
  <2>1. UNCHANGED task
    BY <1>5 DEF ReadPlan, Prepare, GatherDone, GatherRaised, RefreshSteps, RefreshPlan,
       SetPlanState, ResolveStep, LeaseExpires, TimerDue, TerminatePlan, vars
  <2>2. QED BY <1>1, <2>1
<1>6. QED BY <1>2, <1>3, <1>4, <1>5 DEF Next, RunStep

(* Steps executed together by one run are parallel safe and disjoint.       *)
THEOREM WavesAreDisjoint == Spec => []WavesDisjoint
<1>1. Init => WavesDisjoint
  BY DEF Init, WavesDisjoint, NoTasks, NoTask
<1>2. TypeOK /\ WavesDisjoint /\ [Next]_vars => WavesDisjoint'
  BY WaveStep
<1>3. QED BY <1>1, <1>2, TypeCorrect, PTL DEF Spec

-----------------------------------------------------------------------------
(* The ways a step record and its execution change: together, when a lease  *)
(* is granted, started or settled; the execution alone, when a lease        *)
(* lapses; the step alone, when it is prepared, resolved or terminated.     *)
Leased(s) ==
  /\ Granted(s) /\ SetStep(s, "leased")
  /\ \E w \in Workers : task[w][s].at = "acquire"
Ran(s) == Started(s) /\ SetStep(s, "running")
Settled(s) ==
  /\ Recorded(s)
  /\ \E status \in {"satisfied", "compensated", "pending", "failed"} :
       /\ SetStep(s, status)
       /\ status = "failed" => exec'[s].status = "failed"
Prepared(s) ==
  /\ UNCHANGED exec
  /\ step[s].status \in {"pending", "waiting", "paused"}
  /\ \E status \in PreparedStates : SetStep(s, status)
Resolved(s) ==
  /\ UNCHANGED exec
  /\ Kind[s] \in ExternalKinds
  /\ step[s].status \in {"paused", "waiting"}
  /\ \E status \in {"satisfied", "failed"} : SetStep(s, status)
Terminated ==
  /\ UNCHANGED exec
  /\ \A s \in Steps :
       \/ step'[s] = step[s]
       \/ /\ step[s].status \notin Terminal \ {"blocked"}
          /\ step'[s].status \in {"cancelled", "expired"}

LEMMA RecordChanges ==
  ASSUME IInv, [Next]_vars
  PROVE  \/ UNCHANGED <<step, exec>>
         \/ \E s \in Steps :
              \/ Leased(s) \/ Ran(s) \/ Settled(s) \/ Prepared(s) \/ Resolved(s)
              \/ Lapsed(s) /\ UNCHANGED step
         \/ Terminated
<1>0. TypeOK
  BY DEF IInv
<1>1. ASSUME NEW w \in Workers, NEW s \in Steps, AcquireExecution(w, s)
      PROVE  Leased(s)
  BY <1>0, <1>1 DEF AcquireExecution, Leased, Granted, TypeOK
<1>2. ASSUME NEW w \in Workers, NEW s \in Steps, MarkExecutionRunning(w, s)
      PROVE  UNCHANGED <<step, exec>> \/ Ran(s)
  BY <1>2 DEF MarkExecutionRunning, Ran, Started, IInv, HolderInFlight, HoldsLease
<1>3. ASSUME NEW w \in Workers, NEW s \in Steps, CompleteExecution(w, s)
      PROVE  UNCHANGED <<step, exec>> \/ Settled(s)
  <2>1. CASE UNCHANGED <<exec, step>>
    BY <2>1
  <2>2. CASE /\ OwnsLease(w, s)
             /\ exec' = [exec EXCEPT ![s] = [@ EXCEPT !.status =
                  IF task[w][s].outcome = "success" THEN "succeeded" ELSE "failed"]]
             /\ SetStep(s, CompletedStatus(s, task[w][s].outcome))
    <3>1. exec[s].status \in InFlight
      BY <1>3, <2>2 DEF CompleteExecution, IInv, HolderInFlight, HoldsLease
    <3>2. Recorded(s)
      BY <2>2, <3>1 DEF Recorded
    <3>3. exec'[s].status =
            IF task[w][s].outcome = "success" THEN "succeeded" ELSE "failed"
      BY <1>0, <2>2 DEF TypeOK, ExecutionRecord
    <3>4. /\ CompletedStatus(s, task[w][s].outcome)
               \in {"satisfied", "compensated", "pending", "failed"}
          /\ CompletedStatus(s, task[w][s].outcome) = "failed"
               => task[w][s].outcome # "success"
      BY DEF CompletedStatus
    <3>5. QED BY <2>2, <3>2, <3>3, <3>4 DEF Settled
  <2>3. QED BY <1>3, <2>1, <2>2 DEF CompleteExecution
<1>4. ASSUME NEW s \in Steps, LeaseExpires(s) PROVE Lapsed(s) /\ UNCHANGED step
  BY <1>4 DEF LeaseExpires, Lapsed
<1>5. ASSUME NEW w \in Workers, Prepare(w)
      PROVE  UNCHANGED <<step, exec>> \/ \E s \in Steps : Prepared(s)
  <2>1. CASE UNCHANGED step
    BY <1>5, <2>1 DEF Prepare
  <2>2. ASSUME NEW x \in run[w].todo, step[x.step].rev = x.rev, SetStep(x.step, x.to)
        PROVE  x.step \in Steps /\ Prepared(x.step)
    <3>1. x.step \in Steps
      BY <1>0, <2>2 DEF TypeOK, RunLocals
    <3>2. /\ step[x.step].status \in {"pending", "waiting", "paused"}
          /\ x.to \in PreparedStates
      BY <2>2 DEF IInv, TodoFresh
    <3>3. QED BY <1>5, <2>2, <3>1, <3>2 DEF Prepare, Prepared
  <2>3. QED BY <1>5, <2>1, <2>2 DEF Prepare
<1>6. ASSUME NEW s \in Steps, ResolveStep(s) PROVE Resolved(s)
  BY <1>6 DEF ResolveStep, Resolved
<1>7. CASE TerminatePlan
  <2>1. plan' \in {"cancelled", "expired"} /\ UNCHANGED exec
    BY <1>7, BudgetAssumption DEF TerminatePlan
  <2>2. \A s \in Steps :
          step'[s] = IF step[s].status \in Terminal \ {"blocked"} THEN step[s]
                     ELSE [status |-> plan', rev |-> step[s].rev + 1]
    BY <1>7 DEF TerminatePlan
  <2>3. ASSUME NEW s \in Steps, step[s].status \notin Terminal \ {"blocked"}
        PROVE  step'[s].status = plan'
    <3>1. step'[s] = [status |-> plan', rev |-> step[s].rev + 1]
      BY <2>2, <2>3
    <3>2. QED BY <3>1
  <2>4. QED BY <2>1, <2>2, <2>3 DEF Terminated
<1>8. ASSUME NEW w \in Workers, RunStep(w) \/ Crash(w), ~Prepare(w)
      PROVE  UNCHANGED <<step, exec>>
  BY <1>8 DEF RunStep, Crash, ReadPlan, ListSteps, GatherDone, GatherRaised,
     RefreshSteps, RefreshPlan, SetPlanState
<1>9. ASSUME NEW w \in Workers, NEW s \in Steps,
             AcquireRefused(w, s) \/ ExecutorReturns(w, s)
      PROVE  UNCHANGED <<step, exec>>
  BY <1>9 DEF AcquireRefused, ExecutorReturns
<1>10. ASSUME NEW s \in Steps, TimerDue(s) PROVE UNCHANGED <<step, exec>>
  BY <1>10 DEF TimerDue
<1>11. CASE UNCHANGED vars
  BY <1>11 DEF vars
<1>12. QED
  BY <1>1, <1>2, <1>3, <1>4, <1>5, <1>6, <1>7, <1>8, <1>9, <1>10, <1>11
     DEF Next, TaskStep

(* What each of these changes means for the step it is about.               *)
LEMMA RecordFacts ==
  ASSUME IInv, NEW s \in Steps,
         Leased(s) \/ Ran(s) \/ Settled(s) \/ Prepared(s) \/ Resolved(s)
  PROVE  /\ \A r \in Steps : r # s => step'[r] = step[r] /\ exec'[r] = exec[r]
         /\ Leased(s) => /\ exec'[s].status = "leased" /\ step'[s].status = "leased"
                         /\ exec[s].attempt + 1 <= MaxAttempts[s]
         /\ Ran(s) => /\ exec'[s].status = "running" /\ step'[s].status = "running"
                      /\ exec[s].status \in InFlight
         /\ Settled(s) =>
              /\ exec[s].status \in InFlight
              /\ step'[s].status \in {"satisfied", "compensated", "pending", "failed"}
              /\ step'[s].status = "failed" => exec'[s].status = "failed"
         /\ Prepared(s) => step'[s].status \in PreparedStates /\ exec'[s] = exec[s]
         /\ Resolved(s) => step'[s].status \in {"satisfied", "failed"}
                            /\ exec'[s] = exec[s]
<1>0. TypeOK /\ exec[s].attempt \in Nat /\ MaxAttempts[s] \in Nat
  BY BudgetAssumption DEF IInv, TypeOK, ExecutionRecord
<1>1. PICK status : SetStep(s, status)
  BY DEF Leased, Ran, Settled, Prepared, Resolved
<1>2. \A r \in Steps : r # s => step'[r] = step[r] /\ exec'[r] = exec[r]
  BY <1>0, <1>1, SetStepFacts DEF Leased, Ran, Settled, Prepared, Resolved, Granted,
     Started, Recorded, TypeOK
<1>3. ASSUME Leased(s)
      PROVE  /\ exec'[s].status = "leased" /\ step'[s].status = "leased"
             /\ exec[s].attempt + 1 <= MaxAttempts[s]
  BY <1>0, <1>3, SetStepFacts DEF Leased, Granted, LeaseRefused, TypeOK
<1>4. ASSUME Ran(s)
      PROVE  /\ exec'[s].status = "running" /\ step'[s].status = "running"
             /\ exec[s].status \in InFlight
  BY <1>0, <1>4, SetStepFacts DEF Ran, Started, TypeOK, ExecutionRecord
<1>5. ASSUME Settled(s)
      PROVE  /\ exec[s].status \in InFlight
             /\ step'[s].status \in {"satisfied", "compensated", "pending", "failed"}
             /\ step'[s].status = "failed" => exec'[s].status = "failed"
  BY <1>0, <1>5, SetStepFacts DEF Settled, Recorded
<1>6. ASSUME Prepared(s)
      PROVE  step'[s].status \in PreparedStates /\ exec'[s] = exec[s]
  BY <1>0, <1>6, SetStepFacts DEF Prepared
<1>7. ASSUME Resolved(s)
      PROVE  step'[s].status \in {"satisfied", "failed"} /\ exec'[s] = exec[s]
  BY <1>0, <1>7, SetStepFacts DEF Resolved
<1>8. QED BY <1>2, <1>3, <1>4, <1>5, <1>6, <1>7

-----------------------------------------------------------------------------
(* Why a compensation is executed only for failed work.  A single-attempt   *)
(* step that failed has spent its budget: nothing can lease, start, settle, *)
(* prepare, resolve or terminate it again, so the failure a run saw when it *)
(* listed the compensation is still there whenever the compensation runs.   *)
FailedForGood ==
  \A s \in Steps :
    MaxAttempts[s] = 1 /\ Kind[s] \in ExecutableKinds /\ step[s].status = "failed"
      => exec[s].status = "failed"

Touched(s) == exec[s].status # "none" \/ \E w \in Workers : task[w][s].at # "none"

CompensationEarned ==
  \A s \in Steps : Touched(s) =>
    /\ Kind[s] \in ExecutableKinds
    /\ Kind[s] = "compensation" =>
         /\ Source[s] \in Steps
         /\ MaxAttempts[Source[s]] = 1 => step[Source[s]].status = "failed"

(* The step record says "in flight" only while the execution is.            *)
InFlightIsLeased ==
  \A s \in Steps : step[s].status \in InFlight => exec[s].status \in InFlight

(* A lease out of a single attempt comes before any failure.                *)
LEMMA FailedIsSpent ==
  ASSUME IInv, FailedForGood, NEW s \in Steps, MaxAttempts[s] = 1,
         Kind[s] \in ExecutableKinds, step[s].status = "failed"
  PROVE  /\ exec[s].status = "failed" /\ exec[s].attempt = 1
         /\ LeaseRefused(s)
<1>1. exec[s].status = "failed"
  BY DEF FailedForGood
<1>2. exec[s].attempt \in Nat /\ exec[s].attempt # 0 /\ exec[s].attempt <= 1
  BY <1>1 DEF IInv, TypeOK, ExecutionRecord, ExecutionShape
<1>3. QED BY <1>1, <1>2 DEF LeaseRefused

LEMMA FailedStays ==
  ASSUME IInv, FailedForGood, CompensationEarned, [Next]_vars, NEW s \in Steps,
         MaxAttempts[s] = 1, step[s].status = "failed"
  PROVE  step'[s] = step[s] /\ exec'[s].status = exec[s].status
<1>1. ~LeaseRefused(s) => Kind[s] \notin ExecutableKinds
  BY FailedIsSpent
<1>2. exec[s].status \notin InFlight
  <2>1. exec[s].status # "none" => Kind[s] \in ExecutableKinds
    BY DEF CompensationEarned, Touched
  <2>2. QED BY <2>1, FailedIsSpent DEF InFlight
<1>3. ~Leased(s)
  <2>1. ASSUME Leased(s) PROVE FALSE
    <3>1. Kind[s] \in ExecutableKinds
      BY <2>1 DEF Leased, CompensationEarned, Touched
    <3>2. QED BY <1>1, <2>1, <3>1 DEF Leased, Granted
  <2>2. QED BY <2>1
<1>4. ~Ran(s) /\ ~Settled(s) /\ ~Lapsed(s)
  BY <1>2 DEF Ran, Started, Settled, Recorded, Lapsed
<1>5. ~Prepared(s) /\ ~Resolved(s)
  BY DEF Prepared, Resolved
<1>6. Terminated => step'[s] = step[s] /\ exec' = exec
  BY DEF Terminated, Terminal
<1>7. ASSUME NEW r \in Steps, r # s,
             \/ Leased(r) \/ Ran(r) \/ Settled(r) \/ Prepared(r) \/ Resolved(r)
      PROVE  step'[s] = step[s] /\ exec'[s] = exec[s]
  BY <1>7, RecordFacts
<1>8. ASSUME NEW r \in Steps, r # s, Lapsed(r), UNCHANGED step
      PROVE  step'[s] = step[s] /\ exec'[s] = exec[s]
  BY <1>8 DEF Lapsed, IInv, TypeOK
<1>9. QED BY <1>3, <1>4, <1>5, <1>6, <1>7, <1>8, RecordChanges

LEMMA FailedForGoodStep ==
  ASSUME IInv, FailedForGood, CompensationEarned, [Next]_vars
  PROVE  FailedForGood'
<1> SUFFICES ASSUME NEW s \in Steps, MaxAttempts[s] = 1, Kind[s] \in ExecutableKinds,
                    step'[s].status = "failed"
             PROVE  exec'[s].status = "failed"
  BY DEF FailedForGood
<1>1. CASE step[s].status = "failed"
  BY <1>1, FailedIsSpent, FailedStays
<1>2. CASE step[s].status # "failed"
  <2>1. CASE Terminated
    BY <1>2, <2>1 DEF Terminated
  <2>2. ASSUME NEW r \in Steps,
               Leased(r) \/ Ran(r) \/ Settled(r) \/ Prepared(r) \/ Resolved(r)
        PROVE  exec'[s].status = "failed"
    <3>1. r = s
      BY <1>2, <2>2, RecordFacts
    <3>2. ~Leased(s) /\ ~Ran(s) /\ ~Prepared(s)
      BY <2>2, <3>1, RecordFacts DEF PreparedStates
    <3>3. ~Resolved(s)
      BY DEF Resolved, ExternalKinds, ExecutableKinds
    <3>4. QED BY <2>2, <3>1, <3>2, <3>3, RecordFacts
  <2>3. QED BY <1>2, <2>1, <2>2, RecordChanges
<1>3. QED BY <1>1, <1>2

(* A coroutine comes into being only for a step that was ready then.        *)
LEMMA TouchedBefore ==
  ASSUME IInv, [Next]_vars, NEW s \in Steps, Touched(s)'
  PROVE  Touched(s) \/ s \in Ready
<1>0. TypeOK
  BY DEF IInv
<1>1. ASSUME NEW w \in Workers, ListSteps(w) PROVE Touched(s) \/ s \in Ready
  <2>1. CASE UNCHANGED task
    BY <1>1, <2>1 DEF ListSteps, Touched
  <2>2. ASSUME NEW wave \in SUBSET Ready,
               task' = [task EXCEPT ![w] =
                 [r \in Steps |-> IF r \in wave THEN [NoTask EXCEPT !.at = "acquire"]
                                  ELSE NoTask]]
        PROVE  Touched(s) \/ s \in Ready
    <3>1. \A v \in Workers : task'[v][s] = task[v][s] \/ task'[v][s].at = "none"
                               \/ s \in wave
      BY <1>0, <2>2 DEF TypeOK, NoTask
    <3>2. QED BY <1>1, <3>1 DEF ListSteps, Touched
  <2>3. QED BY <1>1, <2>1, <2>2 DEF ListSteps
<1>2. ASSUME NEW w \in Workers, NEW r \in Steps, TaskStep(w, r) PROVE Touched(s)
  <2>1. task[w][r].at # "none" /\ \E new : TaskTo(w, r, new)
    BY <1>2 DEF TaskStep, AcquireRefused, AcquireExecution, MarkExecutionRunning,
       ExecutorReturns, CompleteExecution, Raise
  <2>2. CASE r = s
    BY <2>1, <2>2 DEF Touched
  <2>3. CASE r # s
    <3>1. \A v \in Workers : task'[v][s] = task[v][s]
      BY <1>0, <2>1, <2>3, TaskToFacts
    <3>2. exec'[s] = exec[s]
      BY <1>0, <1>2, <2>3 DEF TaskStep, AcquireRefused, AcquireExecution,
         MarkExecutionRunning, ExecutorReturns, CompleteExecution, TypeOK
    <3>3. QED BY <3>1, <3>2 DEF Touched
  <2>4. QED BY <2>2, <2>3
<1>3. ASSUME NEW w \in Workers, Crash(w) PROVE Touched(s)
  <2>1. \A v \in Workers : task'[v][s] = task[v][s] \/ task'[v][s].at = "none"
    BY <1>0, <1>3 DEF Crash, NoTasks, NoTask, TypeOK
  <2>2. QED BY <1>3, <2>1 DEF Crash, Touched
<1>4. ASSUME NEW r \in Steps, LeaseExpires(r) PROVE Touched(s)
  <2>1. exec'[s].status = exec[s].status /\ UNCHANGED task
    BY <1>0, <1>4 DEF LeaseExpires, TypeOK, ExecutionRecord
  <2>2. QED BY <2>1 DEF Touched
<1>5. ASSUME \/ \E v \in Workers :
                  \/ ReadPlan(v) \/ Prepare(v) \/ GatherDone(v) \/ GatherRaised(v)
                  \/ RefreshSteps(v) \/ RefreshPlan(v) \/ SetPlanState(v)
             \/ \E r \in Steps : ResolveStep(r) \/ TimerDue(r)
             \/ TerminatePlan \/ UNCHANGED vars
      PROVE  Touched(s)
  <2>1. UNCHANGED <<task, exec>>
    BY <1>5 DEF ReadPlan, Prepare, GatherDone, GatherRaised, RefreshSteps, RefreshPlan,
       SetPlanState, ResolveStep, TimerDue, TerminatePlan, vars
  <2>2. QED BY <2>1 DEF Touched
<1>6. QED BY <1>1, <1>2, <1>3, <1>4, <1>5 DEF Next, RunStep

LEMMA EarnedStep ==
  ASSUME IInv, FailedForGood, CompensationEarned, [Next]_vars
  PROVE  CompensationEarned'
<1> SUFFICES ASSUME NEW s \in Steps, Touched(s)'
             PROVE  /\ Kind[s] \in ExecutableKinds
                    /\ Kind[s] = "compensation" =>
                         /\ Source[s] \in Steps
                         /\ MaxAttempts[Source[s]] = 1
                              => step'[Source[s]].status = "failed"
  BY DEF CompensationEarned
<1>1. /\ Kind[s] \in ExecutableKinds
      /\ Kind[s] = "compensation" =>
           /\ Source[s] \in Steps
           /\ MaxAttempts[Source[s]] = 1 => step[Source[s]].status = "failed"
  <2>1. CASE Touched(s)
    BY <2>1 DEF CompensationEarned
  <2>2. CASE s \in Ready
    BY <2>2 DEF Ready
  <2>3. QED BY <2>1, <2>2, TouchedBefore
<1>2. QED BY <1>1, FailedStays

(* A compensation is executed only for work that failed and cannot succeed  *)
(* any more, although it was chosen from a listing and leased later.        *)
THEOREM CompensationIsEarned == Spec => []CompensatesOnlyFailed
<1>1. Init => FailedForGood /\ CompensationEarned
  BY DEF Init, FailedForGood, CompensationEarned, Touched, NoTasks, NoTask
<1>2. IInv /\ FailedForGood /\ CompensationEarned /\ [Next]_vars
        => FailedForGood' /\ CompensationEarned'
  BY FailedForGoodStep, EarnedStep
<1>3. CompensationEarned => CompensatesOnlyFailed
  BY DEF CompensationEarned, CompensatesOnlyFailed, Touched
<1>4. QED BY <1>1, <1>2, <1>3, Invariance, PTL DEF Spec

LEMMA InFlightIsLeasedStep ==
  ASSUME IInv, InFlightIsLeased, [Next]_vars
  PROVE  InFlightIsLeased'
<1> SUFFICES ASSUME NEW s \in Steps, step'[s].status \in InFlight
             PROVE  exec'[s].status \in InFlight
  BY DEF InFlightIsLeased
<1>1. CASE Terminated
  BY <1>1 DEF Terminated, InFlight, InFlightIsLeased
<1>2. ASSUME NEW r \in Steps, Lapsed(r), UNCHANGED step
      PROVE  exec'[s].status \in InFlight
  <2>1. exec'[s].status = exec[s].status
    BY <1>2 DEF Lapsed, IInv, TypeOK, ExecutionRecord
  <2>2. QED BY <1>2, <2>1 DEF InFlightIsLeased
<1>3. ASSUME NEW r \in Steps, r # s,
             Leased(r) \/ Ran(r) \/ Settled(r) \/ Prepared(r) \/ Resolved(r)
      PROVE  exec'[s].status \in InFlight
  <2>1. step'[s] = step[s] /\ exec'[s] = exec[s]
    BY <1>3, RecordFacts
  <2>2. QED BY <2>1 DEF InFlightIsLeased
<1>4. CASE Leased(s) \/ Ran(s) \/ Settled(s) \/ Prepared(s) \/ Resolved(s)
  BY <1>4, RecordFacts DEF InFlight, PreparedStates
<1>5. QED BY <1>1, <1>2, <1>3, <1>4, RecordChanges DEF InFlightIsLeased

(* Work in flight stays in the ready set, where the next run to list the    *)
(* steps finds it and, once its lease lapsed, takes it over.                *)
THEOREM InFlightStaysReady == Spec => []InFlightIsReady
<1>1. Init => FailedForGood /\ CompensationEarned /\ InFlightIsLeased
  BY DEF Init, FailedForGood, CompensationEarned, InFlightIsLeased, Touched, NoTasks,
     NoTask, InFlight
<1>2. IInv /\ FailedForGood /\ CompensationEarned /\ InFlightIsLeased /\ [Next]_vars
        => FailedForGood' /\ CompensationEarned' /\ InFlightIsLeased'
  BY FailedForGoodStep, EarnedStep, InFlightIsLeasedStep
<1>3. ASSUME IInv, CompensationEarned, InFlightIsLeased PROVE InFlightIsReady
  <2> SUFFICES ASSUME NEW s \in Steps, step[s].status \in InFlight,
                      Kind[s] = "compensation" /\ Source[s] \in Steps
                        => MaxAttempts[Source[s]] = 1
               PROVE  s \in Ready
    BY DEF InFlightIsReady
  <2>1. exec[s].status # "none"
    BY <1>3 DEF InFlightIsLeased, InFlight
  <2>2. DepsDone(s)
    BY <1>3, <2>1 DEF IInv, DependenciesDone
  <2>3. /\ Kind[s] \in ExecutableKinds
        /\ Kind[s] = "compensation" =>
             Source[s] \in Steps /\ step[Source[s]].status = "failed"
    BY <1>3, <2>1 DEF CompensationEarned, Touched
  <2>4. QED BY <2>2, <2>3 DEF Ready
<1>4. QED BY <1>1, <1>2, <1>3, Invariance, PTL DEF Spec
=============================================================================
