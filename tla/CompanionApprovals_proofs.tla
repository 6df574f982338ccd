---------------------- MODULE CompanionApprovals_proofs ----------------------
(***************************************************************************)
(* The approval gate for any number of callers, answers and restarts.      *)
(* What makes the revision check enough is what a caller that still holds  *)
(* the current revision knows of the record: Knows ties the place it waits *)
(* at to the status it read.                                               *)
(***************************************************************************)
EXTENDS CompanionApprovals, TLAPS

CallRecord ==
  [at : {"idle", "start", "run", "retry"} \cup Writing,
   target : States, fresh : BOOLEAN]

Yes == Started \cup {"approved"}

(* Beyond the answer, nobody is past it while it is not a yes.              *)
Answered ==
  /\ status \notin Yes => runs = 0
  /\ \A c \in Callers : call[c].at \notin {"idle", "save"} => status \in Yes

(* What a caller is about to write fits the place it writes from.           *)
Targets ==
  \A c \in Callers :
    /\ call[c].at = "save" => call[c].target \in {"approved", "denied", "expired"}
    /\ call[c].at = "claim" => call[c].target = "executing"
    /\ call[c].at = "requeue" => call[c].target = "approved"
    /\ call[c].at = "settle" => call[c].target \in Settled

Knows ==
  \A c \in Callers : call[c].fresh =>
    /\ call[c].at = "save" => status = "pending"
    /\ call[c].at = "claim" => status = "approved"
    /\ call[c].at = "requeue" => status = "executing"

(* A claim that lost its race, and every execution, saw the record leave    *)
(* "approved", and only a recovery without live calls brings it back.       *)
Visible ==
  \A c \in Callers :
    Executing(c) \/ (call[c].at = "claim" /\ ~call[c].fresh) => status \in Started

(* Recovery runs alone until it has put the record back.                    *)
Alone ==
  \A c \in Callers : call[c].at = "requeue" =>
    /\ call[c].fresh
    /\ \A d \in Callers \ {c} : call[d].at = "idle"

IInv == TypeOK /\ Answered /\ Targets /\ Knows /\ Visible /\ Alone

-----------------------------------------------------------------------------
LEMMA CallToFacts ==
  ASSUME TypeOK, NEW c \in Callers, NEW new \in CallRecord, CallTo(c, new)
  PROVE  /\ call' \in [Callers -> CallRecord]
         /\ call'[c] = new
         /\ \A d \in Callers \ {c} : call'[d] = call[d]
  BY DEF TypeOK, CallTo, CallRecord

LEMMA WriteFacts ==
  ASSUME TypeOK, NEW c \in Callers, Write(c)
  PROVE  /\ call' \in [Callers -> CallRecord]
         /\ call'[c] = After(c)
         /\ \A d \in Callers \ {c} :
              /\ call'[d].at = call[d].at /\ call'[d].target = call[d].target
              /\ ~call'[d].fresh
<1>1. call \in [Callers -> CallRecord]
  BY DEF TypeOK, CallRecord
<1>2. After(c) \in CallRecord
  BY <1>1 DEF After, Idle, CallRecord, States, Writing
<1>3. \A d \in Callers : [call[d] EXCEPT !.fresh = FALSE] \in CallRecord
  BY <1>1 DEF CallRecord
<1>4. call' = [d \in Callers |-> IF d = c THEN After(c) ELSE [call[d] EXCEPT !.fresh = FALSE]]
  BY DEF Write
<1>5. \A d \in Callers \ {c} : call'[d] = [call[d] EXCEPT !.fresh = FALSE]
  BY <1>4
<1> QED
  BY <1>1, <1>2, <1>3, <1>4, <1>5 DEF CallRecord

(* A caller that only moves to another place, with nothing else changed.    *)
LEMMA MoveInv ==
  ASSUME IInv, NEW c \in Callers, NEW new \in CallRecord, CallTo(c, new),
         UNCHANGED <<status, late, restarts>>,
         runs' \in Nat, runs' # runs => status \in Yes,
         call[c].at # "requeue", new.at # "requeue",
         \A d \in Callers : call[d].at # "requeue" \/ new.at = "idle",
         new.at \notin {"idle", "save"} => status \in Yes,
         new.at = "save" => /\ new.target \in {"approved", "denied", "expired"}
                            /\ new.fresh => status = "pending",
         new.at = "claim" => /\ new.target = "executing"
                             /\ IF new.fresh THEN status = "approved" ELSE status \in Started,
         new.at = "settle" => new.target \in Settled,
         new.at \in {"start", "run", "settle"} => status \in Started
  PROVE  IInv'
<1>1. /\ call' \in [Callers -> CallRecord] /\ call'[c] = new
      /\ \A d \in Callers \ {c} : call'[d] = call[d]
  BY CallToFacts DEF IInv
<1>2. TypeOK'
  BY <1>1 DEF IInv, TypeOK, CallRecord
<1>3. Answered'
  BY <1>1 DEF IInv, Answered
<1>4. Targets'
  BY <1>1 DEF IInv, Targets
<1>5. Knows'
  BY <1>1 DEF IInv, Knows
<1>6. Visible'
  BY <1>1 DEF IInv, Visible, Executing
<1>7. Alone'
  BY <1>1 DEF IInv, Alone
<1> QED
  BY <1>2, <1>3, <1>4, <1>5, <1>6, <1>7 DEF IInv

LEMMA WriteInv ==
  ASSUME IInv, NEW c \in Callers, Write(c)
  PROVE  IInv'
<1>1. /\ call' \in [Callers -> CallRecord] /\ call'[c] = After(c)
      /\ \A d \in Callers \ {c} :
           /\ call'[d].at = call[d].at /\ call'[d].target = call[d].target
           /\ ~call'[d].fresh
  BY WriteFacts DEF IInv
<1>2. /\ call[c] \in CallRecord /\ call[c].at \in Writing /\ call[c].fresh
      /\ status' = call[c].target /\ UNCHANGED <<late, runs, restarts>>
  BY DEF IInv, TypeOK, CallRecord, Write
<1>3. /\ call'[c].at \in {"idle", "start", "retry"}
      /\ call'[c].at = "start" => call[c].at = "claim"
      /\ call'[c].at = "retry" => call[c].at = "requeue"
  BY <1>1, <1>2 DEF After, Idle, Writing
<1>4. TypeOK'
  BY <1>1, <1>2 DEF IInv, TypeOK, CallRecord
<1>5. CASE call[c].at = "save"
  <2>1. status = "pending" /\ status' \in {"approved", "denied", "expired"}
    BY <1>2, <1>5 DEF IInv, Knows, Targets
  <2>2. \A d \in Callers : call[d].at \in {"idle", "save"}
    BY <2>1 DEF IInv, Answered, Yes, Started, Settled
  <2>3. \A d \in Callers : call'[d].at \in {"idle", "save"}
    BY <1>1, <1>3, <1>5, <2>2
  <2>4. Answered'
    BY <1>2, <2>1, <2>3 DEF IInv, Answered, Yes, Started, Settled
  <2>5. Targets' /\ Knows' /\ Visible' /\ Alone'
    BY <1>1, <1>3, <1>5, <2>2, <2>3 DEF IInv, Targets, Knows, Visible, Alone, Executing
  <2> QED
    BY <1>4, <2>4, <2>5 DEF IInv
<1>6. CASE call[c].at = "claim"
  <2>1. status = "approved" /\ status' = "executing"
    BY <1>2, <1>6 DEF IInv, Knows, Targets
  <2>2. Answered'
    BY <2>1 DEF Answered, Yes, Started
  <2>3. Targets'
    BY <1>1, <1>3 DEF IInv, Targets
  <2>4. Visible'
    BY <2>1 DEF Visible, Started
  <2>5. \A d \in Callers : call[d].at # "requeue"
    BY <1>6 DEF IInv, Alone
  <2>6. Alone' /\ Knows'
    BY <1>1, <1>3, <2>5 DEF Alone, Knows
  <2> QED
    BY <1>4, <2>2, <2>3, <2>4, <2>6 DEF IInv
<1>7. CASE call[c].at = "requeue"
  <2>1. status = "executing" /\ status' = "approved"
    BY <1>2, <1>7 DEF IInv, Knows, Targets
  <2>2. \A d \in Callers \ {c} : call[d].at = "idle"
    BY <1>7 DEF IInv, Alone
  <2>3. \A d \in Callers \ {c} : call'[d].at = "idle"
    BY <1>1, <2>2
  <2>4. Answered'
    BY <2>1 DEF Answered, Yes
  <2>5. call'[c].at = "retry"
    BY <1>1, <1>7 DEF After, Idle
  <2>6. Targets' /\ Knows' /\ Visible' /\ Alone'
    BY <2>3, <2>5 DEF Targets, Knows, Visible, Alone, Executing
  <2> QED
    BY <1>4, <2>4, <2>6 DEF IInv
<1>8. CASE call[c].at = "settle"
  <2>1. status \in Started /\ status' \in Settled
    BY <1>2, <1>8 DEF IInv, Visible, Executing, Targets
  <2>2. Answered'
    BY <2>1 DEF Answered, Yes, Started
  <2>3. Targets'
    BY <1>1, <1>3 DEF IInv, Targets
  <2>4. Visible'
    BY <2>1 DEF Visible, Started
  <2>5. \A d \in Callers : call[d].at # "requeue"
    BY <1>8 DEF IInv, Alone
  <2>6. Alone' /\ Knows'
    BY <1>1, <1>3, <2>5 DEF Alone, Knows
  <2> QED
    BY <1>4, <2>2, <2>3, <2>4, <2>6 DEF IInv
<1> QED
  BY <1>2, <1>5, <1>6, <1>7, <1>8 DEF Writing

LEMMA InductiveStep == IInv /\ [Next]_vars => IInv'
<1> SUFFICES ASSUME IInv, [Next]_vars PROVE IInv'
  OBVIOUS
<1> USE DEF States, Started, Settled, Refused, Answers, Writing, Yes
<1>t. /\ TypeOK /\ call \in [Callers -> CallRecord] /\ runs \in Nat
      /\ Idle \in CallRecord
  BY DEF IInv, TypeOK, CallRecord, Idle
<1>q. ASSUME NEW c \in Callers, call[c].at \notin {"idle", "requeue"}
      PROVE  \A d \in Callers : call[d].at # "requeue"
  BY <1>q DEF IInv, Alone
<1>y. ASSUME status \in {"pending", "approved"}
      PROVE  \A d \in Callers : call[d].at # "requeue"
  BY <1>y DEF IInv, Alone, Knows
<1>1. ASSUME NEW c \in Callers, Propose(c) PROVE IInv'
  BY <1>1 DEF IInv, TypeOK, Answered, Targets, Knows, Visible, Alone, Executing, Propose
<1>2. ASSUME NEW c \in Callers, NEW target \in {"approved", "denied", "expired"},
             status = "pending", call[c].at = "idle", CallTo(c, At("save", target)),
             UNCHANGED <<status, late, runs, restarts>>
      PROVE  IInv'
  <2> DEFINE new == At("save", target)
  <2>1. /\ new \in CallRecord /\ new.at = "save" /\ new.target = target /\ new.fresh
    BY DEF At, CallRecord
  <2> HIDE DEF new
  <2> QED
    BY <1>2, <1>t, <1>y, <2>1, MoveInv DEF new
<1>3. ASSUME NEW c \in Callers, NEW answer \in Answers, Decide(c, answer) PROVE IInv'
  BY <1>2, <1>3 DEF Decide
<1>4. ASSUME NEW c \in Callers, ExpireLapsed(c) PROVE IInv'
  BY <1>2, <1>4 DEF ExpireLapsed
<1>5. ASSUME NEW c \in Callers, status = "approved", call[c].at \in {"idle", "retry"},
             CallTo(c, At("claim", "executing")), UNCHANGED <<status, late, runs, restarts>>
      PROVE  IInv'
  <2> DEFINE new == At("claim", "executing")
  <2>1. /\ new \in CallRecord /\ new.at = "claim" /\ new.target = "executing" /\ new.fresh
    BY DEF At, CallRecord
  <2> HIDE DEF new
  <2> QED
    BY <1>5, <1>t, <1>y, <2>1, MoveInv DEF new
<1>6. ASSUME NEW c \in Callers, Execute(c) PROVE IInv'
  BY <1>5, <1>6 DEF Execute
<1>7. ASSUME NEW c \in Callers, Retry(c) PROVE IInv'
  <2>1. CASE status = "approved"
    BY <1>5, <1>7, <2>1 DEF Retry
  <2>2. CASE status # "approved"
    BY <1>7, <1>t, <2>2, MoveInv DEF Retry, Idle
  <2> QED
    BY <2>1, <2>2
<1>8. ASSUME NEW c \in Callers, WriteConflict(c) PROVE IInv'
  <2>1. After(c) \in CallRecord /\ call[c].at # "requeue"
    BY <1>8, <1>t DEF After, Idle, CallRecord, WriteConflict, IInv, Alone
  <2>2. /\ After(c).at \in {"idle", "start"}
        /\ After(c).at = "start" => call[c].at = "claim" /\ ~call[c].fresh
    BY <1>8, <2>1 DEF After, Idle, WriteConflict
  <2>3. After(c).at = "start" => status \in Started
    BY <2>2 DEF IInv, Visible
  <2>4. CallTo(c, After(c)) /\ UNCHANGED <<status, late, runs, restarts>>
    BY <1>8 DEF WriteConflict
  <2>5. \A d \in Callers : call[d].at # "requeue" \/ After(c).at = "idle"
    BY <2>2, <1>q
  <2> HIDE DEF After
  <2> QED
    BY <1>t, <2>1, <2>2, <2>3, <2>4, <2>5, MoveInv
<1>9. ASSUME NEW c \in Callers, StartMutation(c) PROVE IInv'
  <2> DEFINE new == At("run", "absent")
  <2>1. new \in CallRecord /\ new.at = "run"
    BY DEF At, CallRecord
  <2>2. status \in Started /\ call[c].at = "start" /\ CallTo(c, new)
    BY <1>9 DEF StartMutation, IInv, Visible, Executing
  <2>3. \A d \in Callers : call[d].at # "requeue"
    BY <1>q, <2>2
  <2>4. UNCHANGED <<status, late, restarts>> /\ runs' \in Nat
    BY <1>9, <1>t DEF StartMutation
  <2> HIDE DEF new
  <2> QED
    BY <1>t, <2>1, <2>2, <2>3, <2>4, MoveInv
<1>10. ASSUME NEW c \in Callers, EndMutation(c) PROVE IInv'
  <2>1. PICK outcome \in Settled :
          CallTo(c, [call[c] EXCEPT !.at = "settle", !.target = outcome])
    BY <1>10 DEF EndMutation
  <2> DEFINE new == [call[c] EXCEPT !.at = "settle", !.target = outcome]
  <2>2. new \in CallRecord /\ new.at = "settle" /\ new.target = outcome
    BY <1>t DEF CallRecord
  <2>3. status \in Started /\ call[c].at = "run" /\ UNCHANGED <<status, late, runs, restarts>>
    BY <1>10 DEF EndMutation, IInv, Visible, Executing
  <2>4. \A d \in Callers : call[d].at # "requeue"
    BY <1>q, <2>3
  <2> HIDE DEF new
  <2> QED
    BY <1>t, <2>1, <2>2, <2>3, <2>4, MoveInv DEF new
<1>11. ASSUME NEW c \in Callers, Restart(c) PROVE IInv'
  <2>1. /\ call' = [d \in Callers |-> IF d = c /\ status = "executing"
                                     THEN At("requeue", "approved") ELSE Idle]
        /\ UNCHANGED <<status, late, runs>> /\ restarts' = restarts + 1
    BY <1>11 DEF Restart
  <2>2. At("requeue", "approved") \in CallRecord
    BY DEF At, CallRecord
  <2>3. TypeOK'
    BY <2>1, <2>2, <1>t DEF TypeOK, CallRecord
  <2>4. \A d \in Callers : call'[d].at = "idle" \/ (d = c /\ status = "executing" /\ call'[d] = At("requeue", "approved"))
    BY <2>1 DEF Idle
  <2>5. Answered' /\ Targets' /\ Knows' /\ Visible'
    BY <2>1, <2>4 DEF IInv, Answered, Targets, Knows, Visible, Executing, At
  <2>6. Alone'
    BY <2>4 DEF Alone, At
  <2> QED
    BY <2>3, <2>5, <2>6 DEF IInv
<1>12. ASSUME RespondByPasses \/ UNCHANGED vars PROVE IInv'
  BY <1>12 DEF IInv, TypeOK, Answered, Targets, Knows, Visible, Alone, Executing,
               RespondByPasses, vars
<1> QED
  BY <1>1, <1>3, <1>4, <1>6, <1>7, <1>8, <1>9, <1>10, <1>11, <1>12, WriteInv
  DEF Next, Step

(* The inductive invariant of the gate.                                     *)
THEOREM Invariance == Spec => []IInv
<1>1. ASSUME Init PROVE IInv
  <2>1. \A c \in Callers : call[c].at = "idle" /\ ~call[c].fresh
    BY <1>1 DEF Init, Idle
  <2>2. TypeOK
    BY <1>1 DEF Init, Idle, TypeOK, States, Started, Settled, Refused
  <2>3. Answered /\ Targets /\ Knows /\ Visible /\ Alone
    BY <1>1, <2>1 DEF Init, Answered, Targets, Knows, Visible, Alone, Executing
  <2> QED
    BY <2>2, <2>3 DEF IInv
<1> QED
  BY <1>1, InductiveStep, PTL DEF Spec

(* The records of the gate stay well formed.                                *)
THEOREM TypeCorrect == Spec => []TypeOK
<1>1. IInv => TypeOK
  BY DEF IInv
<1> QED
  BY <1>1, Invariance, PTL

(* No mutation is run, and none is about to be, without a yes.              *)
THEOREM ApprovalFirst == Spec => []OnlyApprovedRuns
<1>1. IInv => OnlyApprovedRuns
  BY DEF IInv, Answered, OnlyApprovedRuns, Yes
<1> QED
  BY <1>1, Invariance, PTL

(* While a mutation runs the record shows it.                               *)
THEOREM Visibility == Spec => []RunningIsVisible
<1>1. IInv => RunningIsVisible
  BY DEF IInv, Visible, RunningIsVisible
<1> QED
  BY <1>1, Invariance, PTL

(* The status only moves along the gate's own order.                        *)
LEMMA StatusMoves ==
  ASSUME IInv, [Next]_vars, status' # status
  PROVE  \/ status = "absent" /\ status' = "pending"
         \/ status = "pending" /\ status' \in {"approved", "denied", "expired"}
         \/ status = "approved" /\ status' = "executing"
         \/ status = "executing" /\ status' = "approved"
         \/ status \in Started /\ status' \in Settled
<1>1. PICK c \in Callers : Propose(c) \/ Write(c)
  BY DEF Next, Step, ExpireLapsed, Execute, Decide, WriteConflict, StartMutation,
         EndMutation, Retry, Restart, RespondByPasses, vars
<1>2. CASE Write(c)
  BY <1>2 DEF Write, Writing, IInv, Knows, Targets, Visible, Executing
<1> QED
  BY <1>1, <1>2 DEF Propose

(* No answer is ever overturned, and no settled mutation made executable    *)
(* again.                                                                   *)
THEOREM AnswersStand == Spec => FirstAnswerStands
<1>1. IInv /\ [Next]_vars =>
        [/\ status \notin {"absent", "pending"} =>
              /\ status' \notin {"absent", "pending"}
              /\ status' \in Refused <=> status \in Refused
              /\ status \in Refused => status' = status
         /\ status \in Settled => status' \in Settled]_vars
  BY StatusMoves DEF Refused, Started, Settled
<1> QED
  BY <1>1, Invariance, PTL DEF Spec, FirstAnswerStands
-----------------------------------------------------------------------------
(* What RunsOnce fails for.  The only way to a second run is a caller that   *)
(* lost the race for the claim and goes on, because _write swallows the      *)
(* conflict: without such a step the mutation runs once.                     *)
ClaimLost == \E c \in Callers : call[c].at = "claim" /\ WriteConflict(c)

(* One caller at most runs the mutation, and the record says so.             *)
Sole ==
  /\ \A c, d \in Callers : Executing(c) /\ Executing(d) => c = d
  /\ \A c \in Callers : Executing(c) => status = "executing"

(* A run that is yet to come is paid for by a restart.                       *)
Paid ==
  /\ status \notin Started => runs <= restarts
  /\ \A c \in Callers : call[c].at \in {"start", "requeue"} => runs <= restarts
  /\ runs <= restarts + 1

LEMMA OnceByMove ==
  ASSUME IInv, Sole, Paid, NEW c \in Callers, NEW new \in CallRecord, CallTo(c, new),
         UNCHANGED <<status, runs, restarts>>,
         new.at \in {"run", "settle"} => Executing(c),
         new.at \notin {"start", "requeue"}
  PROVE  Sole' /\ Paid'
<1>1. call'[c] = new /\ \A d \in Callers \ {c} : call'[d] = call[d]
  BY CallToFacts DEF IInv
<1>2. \A d \in Callers : Executing(d)' => Executing(d)
  BY <1>1 DEF Executing
<1> QED BY <1>1, <1>2 DEF Sole, Paid

LEMMA OnceByWrite ==
  ASSUME IInv, Sole, Paid, NEW c \in Callers, Write(c)
  PROVE  Sole' /\ Paid'
<1>1. /\ call'[c] = After(c) /\ \A d \in Callers \ {c} : call'[d].at = call[d].at
      /\ call[c].fresh /\ call[c].at \in Writing
      /\ status' = call[c].target /\ UNCHANGED <<runs, restarts>>
  BY WriteFacts DEF IInv, Write
<1>2. /\ call'[c].at \in {"idle", "start", "retry"}
      /\ call'[c].at = "start" => call[c].at = "claim"
  BY <1>1 DEF After, Idle, Writing
<1>3. CASE call[c].at = "save"
  <2>1. status = "pending" /\ status' \in {"approved", "denied", "expired"}
    BY <1>1, <1>3 DEF IInv, Knows, Targets
  <2>2. \A d \in Callers : ~Executing(d)'
    BY <1>1, <1>2, <1>3, <2>1 DEF Sole, Executing
  <2>3. runs <= restarts
    BY <2>1 DEF Paid, Started, Settled
  <2> QED BY <1>1, <2>2, <2>3 DEF Sole, Paid
<1>4. CASE call[c].at = "claim"
  <2>1. status = "approved" /\ status' = "executing"
    BY <1>1, <1>4 DEF IInv, Knows, Targets
  <2>2. \A d \in Callers : Executing(d)' => d = c
    BY <1>1, <2>1 DEF Sole, Executing
  <2>3. runs <= restarts
    BY <2>1 DEF Paid, Started, Settled
  <2> QED BY <1>1, <2>1, <2>2, <2>3 DEF Sole, Paid, Started
<1>5. CASE call[c].at = "requeue"
  <2>1. \A d \in Callers \ {c} : call[d].at = "idle"
    BY <1>5 DEF IInv, Alone
  <2>2. \A d \in Callers : ~Executing(d)'
    BY <1>1, <1>2, <1>5, <2>1 DEF Executing
  <2>3. runs <= restarts
    BY <1>5 DEF Paid
  <2> QED BY <1>1, <2>2, <2>3 DEF Sole, Paid
<1>6. CASE call[c].at = "settle"
  <2>1. status' \in Settled
    BY <1>1, <1>6 DEF IInv, Targets
  <2>2. \A d \in Callers : ~Executing(d)'
    BY <1>1, <1>2, <1>6 DEF Sole, Executing
  <2>3. \A d \in Callers : call'[d].at \in {"start", "requeue"} => call[d].at \in {"start", "requeue"}
    BY <1>1, <1>2, <1>6
  <2> QED BY <1>1, <2>1, <2>2, <2>3 DEF Sole, Paid, Started
<1> QED BY <1>1, <1>3, <1>4, <1>5, <1>6 DEF Writing

LEMMA OnceStep ==
  ASSUME IInv, Sole, Paid, [Next]_vars, ~ClaimLost
  PROVE  Sole' /\ Paid'
<1> USE DEF States, Started, Settled, Refused, Answers, Writing
<1>t. call \in [Callers -> CallRecord] /\ runs \in Nat /\ restarts \in Nat /\ Idle \in CallRecord
  BY DEF IInv, TypeOK, CallRecord, Idle
<1>1. ASSUME NEW c \in Callers, Propose(c) PROVE Sole' /\ Paid'
  BY <1>1 DEF Propose, Sole, Paid, Executing
<1>2. ASSUME NEW c \in Callers, NEW answer \in Answers, Decide(c, answer) PROVE Sole' /\ Paid'
  <2>1. PICK target \in {"approved", "denied", "expired"} : CallTo(c, At("save", target))
    BY <1>2 DEF Decide
  <2>2. At("save", target) \in CallRecord /\ At("save", target).at = "save"
    BY DEF At, CallRecord
  <2> QED BY <1>2, <2>1, <2>2, OnceByMove DEF Decide
<1>3. ASSUME NEW c \in Callers, ExpireLapsed(c) PROVE Sole' /\ Paid'
  <2>1. At("save", "expired") \in CallRecord /\ At("save", "expired").at = "save"
    BY DEF At, CallRecord
  <2> QED BY <1>3, <2>1, OnceByMove DEF ExpireLapsed
<1>4. ASSUME NEW c \in Callers, Execute(c) \/ Retry(c) PROVE Sole' /\ Paid'
  <2>1. At("claim", "executing") \in CallRecord /\ At("claim", "executing").at = "claim"
    BY DEF At, CallRecord
  <2>2. PICK new \in {At("claim", "executing"), Idle} : CallTo(c, new)
    BY <1>4 DEF Execute, Retry
  <2>i. Idle.at = "idle"
    BY DEF Idle
  <2>3. new \in CallRecord /\ new.at \in {"claim", "idle"}
    BY <1>t, <2>1, <2>2, <2>i, Zenon
  <2> QED BY <1>4, <2>2, <2>3, OnceByMove DEF Execute, Retry
<1>5. ASSUME NEW c \in Callers, WriteConflict(c) PROVE Sole' /\ Paid'
  <2>1. call[c].at \in {"save", "settle"}
    BY <1>5 DEF ClaimLost, WriteConflict, IInv, Alone
  <2>2. After(c) = Idle /\ Idle.at = "idle"
    BY <2>1 DEF After, Idle
  <2> QED BY <1>5, <1>t, <2>2, OnceByMove DEF WriteConflict
<1>6. ASSUME NEW c \in Callers, StartMutation(c) PROVE Sole' /\ Paid'
  <2>1. At("run", "absent") \in CallRecord /\ At("run", "absent").at = "run"
    BY DEF At, CallRecord
  <2>2. call'[c].at = "run" /\ \A d \in Callers \ {c} : call'[d] = call[d]
    BY <1>6, <1>t, <2>1, CallToFacts DEF StartMutation, IInv
  <2>3. /\ call[c].at = "start" /\ runs <= restarts /\ runs' = runs + 1
        /\ status = "executing" /\ UNCHANGED <<status, restarts>>
    BY <1>6 DEF StartMutation, Paid, Sole, Executing
  <2>4. \A d \in Callers : call'[d].at \notin {"start", "requeue"}
    BY <2>2, <2>3 DEF Sole, Executing, IInv, Alone
  <2>5. Sole'
    BY <2>2, <2>3 DEF Sole, Executing
  <2> QED BY <1>t, <2>3, <2>4, <2>5 DEF Paid
<1>7. ASSUME NEW c \in Callers, EndMutation(c) PROVE Sole' /\ Paid'
  <2>1. PICK outcome \in Settled :
          CallTo(c, [call[c] EXCEPT !.at = "settle", !.target = outcome])
    BY <1>7 DEF EndMutation
  <2> DEFINE new == [call[c] EXCEPT !.at = "settle", !.target = outcome]
  <2>2. new \in CallRecord /\ new.at = "settle"
    BY <1>t DEF CallRecord
  <2>3. call[c].at = "run" /\ UNCHANGED <<status, runs, restarts>>
    BY <1>7 DEF EndMutation
  <2> HIDE DEF new
  <2> QED BY <2>1, <2>2, <2>3, OnceByMove DEF new, Executing
<1>8. ASSUME NEW c \in Callers, Restart(c) PROVE Sole' /\ Paid'
  <2>1. \A d \in Callers : call'[d].at \in {"idle", "requeue"}
    BY <1>8 DEF Restart, Idle, At
  <2>2. runs' <= restarts'
    BY <1>8, <1>t DEF Restart, Paid
  <2>3. runs' <= restarts' + 1
    BY <1>8, <1>t, <2>2 DEF Restart
  <2> QED BY <2>1, <2>2, <2>3 DEF Sole, Paid, Executing
<1>9. ASSUME RespondByPasses \/ UNCHANGED vars PROVE Sole' /\ Paid'
  BY <1>9 DEF RespondByPasses, vars, Sole, Paid, Executing
<1> QED
  BY <1>1, <1>2, <1>3, <1>4, <1>5, <1>6, <1>7, <1>8, <1>9, OnceByWrite DEF Next, Step

(* As long as no caller goes on with a claim it lost (_write swallows the    *)
(* conflict), the executor is called once for every start of the server.     *)
THEOREM RunsOnceUnlessClaimLost == Spec /\ [][~ClaimLost]_vars => []RunsOnce
<1>1. ASSUME Init PROVE Sole /\ Paid
  BY <1>1 DEF Init, Idle, Sole, Paid, Executing
<1>2. IInv /\ Sole /\ Paid /\ [Next]_vars /\ [~ClaimLost]_vars => Sole' /\ Paid'
  <2>1. ASSUME IInv, Sole, Paid, UNCHANGED vars PROVE Sole' /\ Paid'
    BY <2>1 DEF vars, Sole, Paid, Executing
  <2> QED BY <2>1, OnceStep
<1>3. Paid => RunsOnce
  BY DEF Paid, RunsOnce
<1> QED
  BY <1>1, <1>2, <1>3, Invariance, PTL DEF Spec
=============================================================================
