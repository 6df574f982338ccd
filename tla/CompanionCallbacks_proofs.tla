--------------------- MODULE CompanionCallbacks_proofs ---------------------
(***************************************************************************)
(* The safety of one tool call for any number of callers, attempts and     *)
(* restarts.  IInv says what a caller knows of the record it is going to   *)
(* write: a fresh claim is of a pending call and a fresh requeue of an     *)
(* interrupted one that nobody runs, whoever holds a run finds it          *)
(* executing or superseded, and whoever is going to supersede a call has   *)
(* seen an owner that its asker cannot become again.                       *)
(***************************************************************************)
EXTENDS CompanionCallbacks, TLAPS

CallRecord == [at : Places, fresh : BOOLEAN, attempt : 0..offered, target : States]

Quiet == \A d \in Callers : ~Holds(d)

(* What the place of a caller says of its target, ...                       *)
Targets ==
  \A c \in Callers :
    /\ call[c].at = "claim" => call[c].target = "executing"
    /\ call[c].at = "requeue" => call[c].target = "pending"
    /\ call[c].at \in {"reload", "save"} => call[c].target \in Done \cup {"superseded"}
    /\ call[c].at \notin {"claim", "requeue", "reload", "save"} => call[c].target = "absent"
    /\ call[c].at = "create" => call[c].attempt # 0

(* ... of the record, ...                                                   *)
Knows ==
  \A c \in Callers :
    /\ call[c].at = "claim" /\ call[c].fresh => status = "pending"
    /\ call[c].at = "requeue" /\ call[c].fresh =>
         status = "executing" /\ Quiet /\ runs <= restarts
    /\ call[c].at = "start" => runs <= restarts
    /\ Holds(c) => status \in {"executing", "superseded"}
    /\ call[c].at \notin {"idle", "create"} => status # "absent"

(* ... and of the owner of the job.                                         *)
Lost(c) == \/ call[c].at = "deliver" /\ call[c].attempt # asker
           \/ call[c].at \in {"reload", "save"} /\ call[c].target = "superseded"
Worthless == \A c \in Callers : Lost(c) => asker # owner

Runs == runs <= restarts + 1 /\ (status \in {"absent", "pending"} => runs <= restarts)

IInv == TypeOK /\ OneExecutor /\ Targets /\ Knows /\ Worthless /\ Runs /\ SupersededIsWorthless

-----------------------------------------------------------------------------
LEMMA IdleFacts ==
  /\ Idle.at = "idle" /\ Idle.attempt = 0 /\ Idle.target = "absent" /\ ~Idle.fresh
  /\ TypeOK => Idle \in CallRecord
BY BoundAssumption DEF Idle, CallRecord, Places, States, TypeOK

(* One caller moves on, no record is written and the job stays as it is.    *)
LEMMA CallerMoves ==
  ASSUME IInv, NEW c \in Callers, NEW new \in CallRecord, CallTo(c, new),
         UNCHANGED <<status, asker, job, restarts>>,
         runs' = runs \/ (runs' = runs + 1 /\ call[c].at = "start"),
         new.at # "requeue", new.at # "start",
         new.at = "claim" => new.target = "executing" /\ (new.fresh => status = "pending"),
         new.at \in {"reload", "save"} => new.target \in Done \cup {"superseded"},
         new.at \notin {"claim", "reload", "save"} => new.target = "absent",
         new.at = "create" => new.attempt # 0,
         new.at = "run" \/ new.target \in Done => Holds(c),
         new.at \notin {"idle", "create"} => status # "absent",
         new.at = "deliver" => (new.attempt # asker => asker # owner),
         new.at \in {"reload", "save"} /\ new.target = "superseded" => asker # owner
  PROVE  IInv'
<1>1. /\ call' \in [Callers -> CallRecord] /\ call'[c] = new
      /\ \A d \in Callers \ {c} : call'[d] = call[d]
  BY DEF IInv, TypeOK, CallRecord, CallTo
<1>2. runs \in Nat /\ restarts \in Nat /\ runs' \in Nat
  BY BoundAssumption DEF IInv, TypeOK
<1>3. runs' # runs => Holds(c) /\ runs <= restarts /\ status \in {"executing", "superseded"}
  BY DEF IInv, Knows, Holds
<1>4. TypeOK'
  BY <1>1, <1>2 DEF IInv, TypeOK, CallRecord, job
<1>5. \A d \in Callers : Holds(d)' => Holds(d)
  BY <1>1 DEF Holds
<1>6. OneExecutor'
  BY <1>5 DEF IInv, OneExecutor
<1>7. Targets'
  BY <1>1 DEF IInv, Targets
<1>8. \A d \in Callers : call'[d].at = "start" => d # c /\ call[d].at = "start"
  BY <1>1
<1>9. runs' # runs => \A d \in Callers : call'[d].at # "start"
  BY <1>3, <1>8 DEF IInv, OneExecutor, Holds
<1>10. Quiet => Quiet'
  BY <1>5 DEF Quiet
<1>11. runs' # runs => ~Quiet
  BY <1>3 DEF Quiet
<1>12. Knows'
  <2> SUFFICES ASSUME NEW d \in Callers
               PROVE  /\ call'[d].at = "claim" /\ call'[d].fresh => status = "pending"
                      /\ call'[d].at = "requeue" /\ call'[d].fresh =>
                           status = "executing" /\ Quiet' /\ runs' <= restarts
                      /\ call'[d].at = "start" => runs' <= restarts
                      /\ Holds(d)' => status \in {"executing", "superseded"}
                      /\ call'[d].at \notin {"idle", "create"} => status # "absent"
    BY DEF Knows, job
  <2>1. call'[d].at = "claim" /\ call'[d].fresh => status = "pending"
    BY <1>1 DEF IInv, Knows
  <2>2. call'[d].at = "requeue" /\ call'[d].fresh =>
          status = "executing" /\ Quiet' /\ runs' <= restarts
    BY <1>1, <1>10, <1>11 DEF IInv, Knows
  <2>3. call'[d].at = "start" => runs' <= restarts
    BY <1>8, <1>9 DEF IInv, Knows
  <2>4. Holds(d)' => status \in {"executing", "superseded"}
    BY <1>5 DEF IInv, Knows
  <2>5. call'[d].at \notin {"idle", "create"} => status # "absent"
    BY <1>1 DEF IInv, Knows
  <2> QED
    BY <2>1, <2>2, <2>3, <2>4, <2>5
<1>13. Worthless'
  BY <1>1 DEF IInv, Worthless, Lost, job
<1>14. Runs'
  BY <1>2, <1>3 DEF IInv, Runs
<1>15. SupersededIsWorthless'
  BY DEF IInv, SupersededIsWorthless, job
<1> QED
  BY <1>4, <1>6, <1>7, <1>12, <1>13, <1>14, <1>15 DEF IInv

(* What a save leaves behind: the caller goes to at, the others are stale.  *)
LEMMA SavedFacts ==
  ASSUME IInv, NEW c \in Callers, NEW at \in {"idle", "start", "retry"},
         Saved(c, [Idle EXCEPT !.at = at]), UNCHANGED <<asker, job, runs, restarts>>
  PROVE  /\ status' = call[c].target
         /\ call' \in [Callers -> CallRecord]
         /\ call'[c].at = at /\ call'[c].target = "absent"
         /\ \A d \in Callers \ {c} :
              /\ call'[d].at = call[d].at /\ call'[d].target = call[d].target
              /\ call'[d].attempt = call[d].attempt
         /\ \A d \in Callers : ~call'[d].fresh
<1> DEFINE new == [Idle EXCEPT !.at = at]
<1>1. new \in CallRecord /\ new.at = at /\ new.target = "absent" /\ ~new.fresh
  BY IdleFacts DEF IInv, CallRecord, Places
<1> HIDE DEF new
<1>2. \A d \in Callers :
        LET s == [call[d] EXCEPT !.fresh = FALSE]
        IN s \in CallRecord /\ s.at = call[d].at /\ s.target = call[d].target
           /\ s.attempt = call[d].attempt /\ ~s.fresh
  BY DEF IInv, TypeOK, CallRecord
<1>3. /\ status' = call[c].target
      /\ call' = [d \in Callers |-> IF d = c THEN new ELSE [call[d] EXCEPT !.fresh = FALSE]]
  BY DEF Saved, new
<1> QED
  BY <1>1, <1>2, <1>3

LEMMA SaveInv ==
  ASSUME IInv, NEW c \in Callers, NEW at \in {"idle", "start", "retry"},
         Saved(c, [Idle EXCEPT !.at = at]), UNCHANGED <<asker, job, runs, restarts>>,
         \/ call[c].at = "claim" /\ call[c].fresh /\ at = "start"
         \/ call[c].at = "requeue" /\ call[c].fresh /\ at = "retry"
         \/ call[c].at = "save" /\ at = "idle"
  PROVE  IInv'
<1>1. /\ status' = call[c].target
      /\ call' \in [Callers -> CallRecord]
      /\ call'[c].at = at /\ call'[c].target = "absent"
      /\ \A d \in Callers \ {c} :
           /\ call'[d].at = call[d].at /\ call'[d].target = call[d].target
           /\ call'[d].attempt = call[d].attempt
      /\ \A d \in Callers : ~call'[d].fresh
  BY SavedFacts
<1>2. /\ status # "absent" /\ status' # "absent" /\ status' \in States
      /\ runs \in Nat /\ restarts \in Nat
  BY <1>1, BoundAssumption DEF IInv, TypeOK, Targets, Knows, Done, States
<1>3. TypeOK'
  BY <1>1, <1>2 DEF IInv, TypeOK, CallRecord, job
<1>4. Targets'
  BY <1>1 DEF IInv, Targets
<1>5. \A d \in Callers \ {c} : Holds(d)' <=> Holds(d)
  BY <1>1 DEF Holds
<1>6. Holds(c)' <=> at = "start"
  BY <1>1 DEF Holds, Done
<1>7. Worthless'
  BY <1>1 DEF IInv, Worthless, Lost, job
<1>8. CASE call[c].at = "claim" /\ call[c].fresh /\ at = "start"
  <2>1. status = "pending" /\ status' = "executing" /\ Quiet /\ runs <= restarts
    BY <1>1, <1>8 DEF IInv, Knows, Targets, Quiet, Runs
  <2>2. OneExecutor'
    BY <1>5, <2>1 DEF OneExecutor, Quiet
  <2>3. Knows'
    BY <1>1, <2>1, <1>5 DEF IInv, Knows, job
  <2> QED
    BY <1>3, <1>4, <1>7, <2>1, <2>2, <2>3 DEF IInv, Runs, SupersededIsWorthless
<1>9. CASE call[c].at = "requeue" /\ call[c].fresh /\ at = "retry"
  <2>1. status' = "pending" /\ Quiet /\ runs <= restarts
    BY <1>1, <1>9 DEF IInv, Knows, Targets
  <2>2. Quiet'
    BY <1>5, <1>6, <1>9, <2>1 DEF Quiet
  <2>3. OneExecutor'
    BY <2>2 DEF OneExecutor, Quiet
  <2>4. Knows'
    BY <1>1, <1>2, <2>1, <2>2 DEF IInv, Knows, Quiet, Holds
  <2> QED
    BY <1>3, <1>4, <1>7, <2>1, <2>3, <2>4 DEF IInv, Runs, SupersededIsWorthless
<1>10. CASE call[c].at = "save" /\ at = "idle"
  <2>1. OneExecutor'
    BY <1>5, <1>6, <1>10 DEF IInv, OneExecutor
  <2>2. status' \in Done \cup {"superseded"}
    BY <1>1, <1>10 DEF IInv, Targets
  <2>3. status' \in Done => Quiet'
    BY <1>1, <1>5, <1>6, <1>10 DEF IInv, OneExecutor, Quiet, Holds
  <2>4. Knows'
    BY <1>1, <1>2, <2>2, <2>3, <1>10 DEF IInv, Knows, Quiet, job
  <2>5. SupersededIsWorthless'
    BY <1>1, <1>10 DEF IInv, Worthless, Lost, SupersededIsWorthless, job, Done
  <2>6. Runs'
    BY <2>2 DEF IInv, Runs, Done
  <2> QED
    BY <1>3, <1>4, <1>7, <2>1, <2>4, <2>5, <2>6 DEF IInv
<1> QED
  BY <1>8, <1>9, <1>10

(* A caller gives up, or has nothing more to do.                            *)
LEMMA CallerStops ==
  ASSUME IInv, NEW c \in Callers, CallTo(c, Idle), UNCHANGED <<status, asker, job, runs, restarts>>
  PROVE  IInv'
BY IdleFacts, CallerMoves DEF IInv, Done

LEMMA OwnerInv == ASSUME IInv, OwnerChanges PROVE IInv'
<1>1. /\ offered' \in 0..MaxAttempts /\ owner' \in {0, offered'} /\ offered <= offered'
      /\ owner' = 0 \/ (owner' > offered)
      /\ UNCHANGED <<status, asker, call, runs, restarts>>
  BY BoundAssumption DEF IInv, TypeOK, OwnerChanges, Promise!Next, Promise!Offer,
     Promise!Lose
<1>2. TypeOK'
  <2>1. 0..offered \subseteq 0..offered'
    BY <1>1, BoundAssumption DEF IInv, TypeOK
  <2>2. call \in [Callers -> [at : Places, fresh : BOOLEAN, attempt : 0..offered', target : States]]
    BY <2>1 DEF IInv, TypeOK
  <2> QED
    BY <1>1, <2>1, <2>2 DEF IInv, TypeOK
<1>3. status # "absent" => asker # owner'
  BY <1>1, BoundAssumption DEF IInv, TypeOK
<1>4. Worthless'
  BY <1>1, <1>3 DEF IInv, Worthless, Lost, Knows
<1>5. SupersededIsWorthless'
  BY <1>1, <1>3 DEF SupersededIsWorthless
<1>6. OneExecutor' /\ Targets' /\ Knows' /\ Runs'
  BY <1>1 DEF IInv, OneExecutor, Targets, Knows, Runs, Quiet, Holds
<1> QED
  BY <1>2, <1>4, <1>5, <1>6 DEF IInv

LEMMA CreateInv == ASSUME IInv, NEW c \in Callers, Create(c) PROVE IInv'
<1>1. CASE status # "absent"
  BY <1>1, CallerStops DEF Create
<1>2. CASE status = "absent"
  <2>1. /\ call' = [call EXCEPT ![c] = Idle] /\ status' = "pending"
        /\ asker' = call[c].attempt /\ asker' \in 0..offered /\ asker' # 0
        /\ UNCHANGED <<owner, offered, runs, restarts>>
    BY <1>2 DEF IInv, TypeOK, Targets, Create, CallTo, job
  <2>2. \A d \in Callers : call[d].at \in {"idle", "create"} /\ call[d].target = "absent"
    BY <1>2 DEF IInv, Knows, Targets
  <2>3. /\ call' \in [Callers -> CallRecord]
        /\ \A d \in Callers : /\ call'[d].at \in {"idle", "create"} /\ call'[d].target = "absent"
                              /\ call'[d].at = "create" => call'[d].attempt # 0
    BY <2>1, <2>2, IdleFacts DEF IInv, TypeOK, CallRecord, Targets
  <2>4. TypeOK'
    BY <2>1, <2>3 DEF IInv, TypeOK, CallRecord, States
  <2>5. \A d \in Callers : ~Holds(d)'
    BY <2>3 DEF Holds, Done
  <2>6. OneExecutor' /\ Targets' /\ Knows' /\ Worthless'
    BY <2>1, <2>3, <2>5 DEF OneExecutor, Targets, Knows, Worthless, Lost
  <2> QED
    BY <1>2, <2>1, <2>4, <2>6 DEF IInv, Runs, SupersededIsWorthless
<1> QED
  BY <1>1, <1>2

LEMMA RestartInv == ASSUME IInv, NEW c \in Callers, Restart(c) PROVE IInv'
<1> DEFINE back == [Idle EXCEPT !.at = "requeue", !.fresh = TRUE, !.target = "pending"]
<1>1. /\ UNCHANGED <<status, asker, owner, offered, runs>> /\ restarts' = restarts + 1
      /\ restarts' \in 0..MaxRestarts /\ runs \in Nat /\ restarts \in Nat
      /\ call' = [d \in Callers |-> IF d = c /\ status = "executing" THEN back ELSE Idle]
  BY BoundAssumption DEF IInv, TypeOK, Restart, job
<1>2. back \in CallRecord /\ back.at = "requeue" /\ back.target = "pending"
  BY IdleFacts DEF IInv, CallRecord, Places, States
<1> HIDE DEF back
<1>3. /\ call' \in [Callers -> CallRecord]
      /\ \A d \in Callers :
           \/ call'[d].at = "idle" /\ call'[d].target = "absent"
           \/ status = "executing" /\ call'[d].at = "requeue" /\ call'[d].target = "pending"
  BY <1>1, <1>2, IdleFacts DEF IInv
<1>4. \A d \in Callers : ~Holds(d)'
  BY <1>3 DEF Holds, Done
<1>5. runs <= restarts'
  BY <1>1 DEF IInv, Runs
<1>6. TypeOK'
  BY <1>1, <1>3 DEF IInv, TypeOK, CallRecord
<1>7. OneExecutor' /\ Targets' /\ Worthless'
  BY <1>3, <1>4 DEF OneExecutor, Targets, Worthless, Lost
<1>8. Knows'
  BY <1>1, <1>3, <1>4, <1>5 DEF Knows, Quiet
<1>9. Runs' /\ SupersededIsWorthless'
  BY <1>1, <1>5 DEF IInv, Runs, SupersededIsWorthless
<1> QED
  BY <1>6, <1>7, <1>8, <1>9 DEF IInv

LEMMA InductiveStep == IInv /\ [Next]_vars => IInv'
<1> SUFFICES ASSUME IInv, [Next]_vars PROVE IInv'
  OBVIOUS
<1>t. TypeOK /\ Idle \in CallRecord /\ call \in [Callers -> CallRecord]
  BY IdleFacts DEF IInv, TypeOK, CallRecord
<1>1. ASSUME NEW c \in Callers, NEW a \in 1..offered, Request(c, a) PROVE IInv'
  <2> DEFINE new == [Idle EXCEPT !.at = "create", !.attempt = a]
  <2>1. a \in 0..offered /\ a # 0
    BY <1>t, BoundAssumption DEF TypeOK
  <2>2. new \in CallRecord /\ new.at = "create" /\ new.target = "absent" /\ new.attempt # 0
    BY <1>t, <2>1, IdleFacts DEF CallRecord, Places
  <2>3. CallTo(c, new) /\ UNCHANGED <<status, asker, job, runs, restarts>>
    BY <1>1 DEF Request
  <2> HIDE DEF new
  <2> QED
    BY <2>2, <2>3, CallerMoves DEF Done
<1>2. ASSUME NEW c \in Callers, Execute(c) PROVE IInv'
  <2> DEFINE new == [Idle EXCEPT !.at = "claim", !.fresh = TRUE, !.target = "executing"]
  <2>1. new \in CallRecord /\ new.at = "claim" /\ new.target = "executing"
    BY <1>t DEF CallRecord, Places, States
  <2>2. UNCHANGED <<status, asker, job, runs, restarts>> /\ status # "absent"
    BY <1>2 DEF Execute
  <2>3. (status = "pending" /\ CallTo(c, new)) \/ CallTo(c, Idle)
    BY <1>2 DEF Execute, ToClaim
  <2> HIDE DEF new
  <2>4. CASE status = "pending" /\ CallTo(c, new)
    BY <2>1, <2>2, <2>4, CallerMoves DEF Done
  <2> QED
    BY <2>2, <2>3, <2>4, CallerStops
<1>3. ASSUME NEW c \in Callers, Claim(c) PROVE IInv'
  BY <1>3, SaveInv, CallerStops DEF Claim
<1>4. ASSUME NEW c \in Callers, StartTool(c) PROVE IInv'
  <2> DEFINE new == [Idle EXCEPT !.at = "run"]
  <2>1. new \in CallRecord /\ new.at = "run" /\ new.target = "absent"
    BY <1>t, IdleFacts DEF CallRecord, Places
  <2>2. /\ CallTo(c, new) /\ UNCHANGED <<status, asker, job, restarts>>
        /\ call[c].at = "start" /\ runs' = runs + 1
    BY <1>4 DEF StartTool
  <2>3. Holds(c) /\ status # "absent"
    BY <2>2 DEF IInv, Holds, Knows
  <2> HIDE DEF new
  <2> QED
    BY <2>1, <2>2, <2>3, CallerMoves
<1>5. ASSUME NEW c \in Callers, ToolEnds(c) PROVE IInv'
  <2>1. PICK outcome \in Done : CallTo(c, [Idle EXCEPT !.at = "reload", !.target = outcome])
    BY <1>5 DEF ToolEnds
  <2> DEFINE new == [Idle EXCEPT !.at = "reload", !.target = outcome]
  <2>2. new \in CallRecord /\ new.at = "reload" /\ new.target = outcome
    BY <1>t DEF CallRecord, Places, States
  <2>3. CallTo(c, new) /\ UNCHANGED <<status, asker, job, runs, restarts>> /\ call[c].at = "run"
    BY <1>5, <2>1 DEF ToolEnds
  <2>4. Holds(c) /\ status # "absent" /\ outcome # "superseded"
    BY <2>3 DEF IInv, Holds, Knows, Done
  <2> HIDE DEF new
  <2> QED
    BY <2>2, <2>3, <2>4, CallerMoves
<1>6. ASSUME NEW c \in Callers, Reload(c) PROVE IInv'
  <2> DEFINE new == [call[c] EXCEPT !.at = "save", !.fresh = TRUE]
  <2>1. new \in CallRecord /\ new.at = "save" /\ new.target = call[c].target
    BY <1>t DEF CallRecord, Places
  <2>2. CallTo(c, new) /\ UNCHANGED <<status, asker, job, runs, restarts>> /\ call[c].at = "reload"
    BY <1>6 DEF Reload
  <2>3. /\ call[c].target \in Done \cup {"superseded"} /\ status # "absent"
        /\ call[c].target \in Done => Holds(c)
        /\ call[c].target = "superseded" => asker # owner
    BY <2>2 DEF IInv, Targets, Knows, Holds, Worthless, Lost
  <2> HIDE DEF new
  <2> QED
    BY <2>1, <2>2, <2>3, CallerMoves
<1>7. ASSUME NEW c \in Callers, Save(c) PROVE IInv'
  <2>1. Idle = [Idle EXCEPT !.at = "idle"]
    BY DEF Idle
  <2> QED
    BY <1>7, <2>1, SaveInv, CallerStops DEF Save
<1>8. ASSUME NEW c \in Callers, ReadOwner(c) PROVE IInv'
  <2> DEFINE new == [Idle EXCEPT !.at = "deliver", !.attempt = owner]
  <2>1. owner \in 0..offered
    BY <1>t, BoundAssumption DEF TypeOK
  <2>2. new \in CallRecord /\ new.at = "deliver" /\ new.target = "absent" /\ new.attempt = owner
    BY <1>t, <2>1, IdleFacts DEF CallRecord, Places
  <2>3. CallTo(c, new) /\ UNCHANGED <<status, asker, job, runs, restarts>> /\ status # "absent"
    BY <1>8 DEF ReadOwner
  <2> HIDE DEF new
  <2> QED
    BY <2>2, <2>3, CallerMoves DEF Done
<1>9. ASSUME NEW c \in Callers, Deliver(c) PROVE IInv'
  <2> DEFINE new == [Idle EXCEPT !.at = "reload", !.target = "superseded"]
  <2>1. new \in CallRecord /\ new.at = "reload" /\ new.target = "superseded"
    BY <1>t DEF CallRecord, Places, States
  <2>2. UNCHANGED <<status, asker, job, runs, restarts>> /\ call[c].at = "deliver"
    BY <1>9 DEF Deliver
  <2>3. (call[c].attempt # asker /\ CallTo(c, new)) \/ CallTo(c, Idle)
    BY <1>9 DEF Deliver
  <2>4. status # "absent" /\ (call[c].attempt # asker => asker # owner)
    BY <2>2 DEF IInv, Knows, Worthless, Lost
  <2> HIDE DEF new
  <2>5. CASE call[c].attempt # asker /\ CallTo(c, new)
    BY <2>1, <2>2, <2>4, <2>5, CallerMoves DEF Done
  <2> QED
    BY <2>2, <2>3, <2>5, CallerStops
<1>10. ASSUME NEW c \in Callers, Requeue(c) PROVE IInv'
  BY <1>10, SaveInv, CallerStops DEF Requeue
<1>11. ASSUME UNCHANGED vars PROVE IInv'
  BY <1>11 DEF IInv, TypeOK, OneExecutor, Targets, Knows, Worthless, Runs, Quiet, Holds, Lost,
     SupersededIsWorthless, vars, job
<1> QED
  BY <1>1, <1>2, <1>3, <1>4, <1>5, <1>6, <1>7, <1>8, <1>9, <1>10, <1>11,
     OwnerInv, CreateInv, RestartInv DEF Next, Step

(* The inductive invariant of the ledger of tool calls.                     *)
THEOREM Invariance == Spec => []IInv
<1>1. ASSUME Init PROVE IInv
  <2>1. \A c \in Callers : call[c].at = "idle" /\ call[c].target = "absent" /\ ~call[c].fresh
    BY <1>1, IdleFacts DEF Init
  <2>2. TypeOK
    BY <1>1, BoundAssumption DEF Init, TypeOK, Idle, Places, States
  <2>3. \A c \in Callers : ~Holds(c)
    BY <2>1 DEF Holds, Done
  <2> QED
    BY <1>1, <2>1, <2>2, <2>3
    DEF IInv, Init, OneExecutor, Targets, Knows, Worthless, Lost, Runs, SupersededIsWorthless
<1> QED
  BY <1>1, InductiveStep, PTL DEF Spec

(* The record, the job and the callers stay well formed.                    *)
THEOREM TypeCorrect == Spec => []TypeOK
<1>1. IInv => TypeOK
  BY DEF IInv
<1> QED
  BY <1>1, Invariance, PTL

(* At most one caller runs the tool or has its answer to record.            *)
THEOREM Exclusion == Spec => []OneExecutor
<1>1. IInv => OneExecutor
  BY DEF IInv
<1> QED
  BY <1>1, Invariance, PTL

(* The tool is called at most once for every start of the server.           *)
THEOREM AtMostOnce == Spec => []CallsRunOnce
<1>1. IInv => CallsRunOnce
  BY DEF IInv, Runs, CallsRunOnce
<1> QED
  BY <1>1, Invariance, PTL

(* Only a call whose asker has lost the job is superseded.                  *)
THEOREM OnlyWorthless == Spec => []SupersededIsWorthless
<1>1. IInv => SupersededIsWorthless
  BY DEF IInv
<1> QED
  BY <1>1, Invariance, PTL

(* Who changes the status of a call that exists, and to what.               *)
LEMMA StatusMoves ==
  ASSUME IInv, [Next]_vars, status # "absent", status' # status
  PROVE  \E c \in Callers :
           /\ status' = call[c].target
           /\ \/ call[c].at \in {"claim", "requeue"} /\ call[c].fresh
              \/ call[c].at = "save"
BY DEF Next, Step, OwnerChanges, Request, Create, Execute, ToClaim, Claim, StartTool, ToolEnds,
   Reload, Save, ReadOwner, Deliver, Restart, Requeue, Saved, vars

(* A call that was answered or superseded is never pending or running       *)
(* again, and an answer gives way only to the mark.                         *)
THEOREM OutcomeStays == Spec => OutcomeKept
<1>1. ASSUME IInv, [Next]_vars, status \in Done \cup {"superseded"}, status' # status
      PROVE  /\ status \in Done => status' = "superseded"
             /\ status = "superseded" => status' \in Done
  <2>1. PICK c \in Callers :
          /\ status' = call[c].target
          /\ \/ call[c].at \in {"claim", "requeue"} /\ call[c].fresh
             \/ call[c].at = "save"
    BY <1>1, StatusMoves DEF Done
  <2>2. call[c].at = "save" /\ call[c].target \in Done \cup {"superseded"}
    BY <1>1, <2>1 DEF IInv, Knows, Targets, Done
  <2>3. Holds(c) => status = "superseded"
    BY <1>1 DEF IInv, Knows, Done
  <2> QED
    BY <1>1, <2>1, <2>2, <2>3 DEF Holds, Done
<1>2. IInv /\ [Next]_vars =>
        [/\ status \in Done => status' \in {status, "superseded"}
         /\ status = "superseded" => status' \in Done \cup {status}]_vars
  BY <1>1
<1> QED
  BY <1>2, Invariance, PTL DEF Spec, OutcomeKept

=============================================================================
