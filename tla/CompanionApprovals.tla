------------------------- MODULE CompanionApprovals -------------------------
(***************************************************************************)
(* One mutation a companion proposed, from the question to the owner to    *)
(* its execution (companion/approvals.py).  Several callers use the gate   *)
(* at once; each reads the record, awaits, and saves what it computed      *)
(* under the store's revision check.                                       *)
(*                                                                         *)
(* Abstractions.  A revision is seen only through the comparison in save:  *)
(* `fresh` says that the revision a caller holds is still the stored one.  *)
(* Only decisions with a valid signature are modelled, the others raise    *)
(* before they touch the record.  The record is not pruned: its retention  *)
(* ends days after respond_by.                                             *)
(***************************************************************************)
EXTENDS Integers

CONSTANTS
  Callers,      \* concurrent users of the gate
  MaxRestarts   \* bound: how often the server restarts

ASSUME RestartAssumption == MaxRestarts \in Nat

VARIABLES
  status,    \* CompanionApprovalRecord.status, "absent" before propose
  call,      \* what each caller is in the middle of
  late,      \* respond_by has passed
  runs,      \* history: how often the mutation was handed to the executor
  restarts

vars == <<status, call, late, runs, restarts>>

Answers == {"approved", "denied"}
Refused == {"denied", "expired"}
Settled == {"executed", "failed"}
Started == Settled \cup {"executing"}
States == Started \cup Refused \cup {"absent", "pending", "approved"}

Idle == [at |-> "idle", target |-> "absent", fresh |-> FALSE]
(* A caller awaits the store at a point of its code, with the status it is  *)
(* about to save computed from a record that is current.                    *)
At(place, target) == [at |-> place, target |-> target, fresh |-> TRUE]

CallTo(c, new) == call' = [call EXCEPT ![c] = new]

Init ==
  /\ status = "absent"
  /\ call = [c \in Callers |-> Idle]
  /\ late = FALSE
  /\ runs = 0
  /\ restarts = 0

Propose(c) ==
  /\ call[c].at = "idle" /\ status = "absent"
  /\ status' = "pending"
  /\ UNCHANGED <<call, late, runs, restarts>>

(* Mutant: an answer is taken whatever was answered before.                 *)
DecideAgain(c, answer) ==
  /\ call[c].at = "idle" /\ status # "absent"
  /\ CallTo(c, At("save", IF late THEN "expired" ELSE answer))
  /\ UNCHANGED <<status, late, runs, restarts>>

(* A signed answer.  Only a pending proposal is written.                    *)
Decide(c, answer) ==
  /\ call[c].at = "idle" /\ status = "pending"
  /\ CallTo(c, At("save", IF late THEN "expired" ELSE answer))
  /\ UNCHANGED <<status, late, runs, restarts>>

(* expire_lapsed, for this record.                                          *)
ExpireLapsed(c) ==
  /\ call[c].at = "idle" /\ status = "pending" /\ late
  /\ CallTo(c, At("save", "expired"))
  /\ UNCHANGED <<status, late, runs, restarts>>

(* execute_approved reads the record.  A settled one is returned and any    *)
(* other but an approved one raises.                                        *)
Execute(c) ==
  /\ call[c].at = "idle" /\ status = "approved"
  /\ CallTo(c, At("claim", "executing"))
  /\ UNCHANGED <<status, late, runs, restarts>>

Writing == {"save", "claim", "requeue", "settle"}

(* Where a caller goes after its write.                                     *)
After(c) ==
  IF call[c].at \in {"save", "settle"} THEN Idle
  ELSE [Idle EXCEPT !.at = IF call[c].at = "claim" THEN "start" ELSE "retry"]

(* Mutant: the write does not look at the revision.                         *)
WriteOver(c) ==
  /\ call[c].at \in Writing
  /\ status' = call[c].target
  /\ call' = [d \in Callers |-> IF d = c THEN After(c) ELSE [call[d] EXCEPT !.fresh = FALSE]]
  /\ UNCHANGED <<late, runs, restarts>>

(* Mutant: the claim is recorded only after the mutation ran.               *)
WriteLater(c) ==
  /\ call[c].at \in Writing /\ call[c].fresh
  /\ IF call[c].at = "claim"
     THEN UNCHANGED status /\ CallTo(c, After(c))
     ELSE /\ status' = call[c].target
          /\ call' = [d \in Callers |->
                        IF d = c THEN After(c) ELSE [call[d] EXCEPT !.fresh = FALSE]]
  /\ UNCHANGED <<late, runs, restarts>>

Write(c) ==
  /\ call[c].at \in Writing /\ call[c].fresh
  /\ status' = call[c].target
  /\ call' = [d \in Callers |-> IF d = c THEN After(c) ELSE [call[d] EXCEPT !.fresh = FALSE]]
  /\ UNCHANGED <<late, runs, restarts>>

(* _write swallows ConcurrentRecordUpdate and returns the record as it is   *)
(* now; its callers go on as if the write had been theirs.                  *)
WriteConflict(c) ==
  /\ call[c].at \in Writing /\ ~call[c].fresh
  /\ CallTo(c, After(c))
  /\ UNCHANGED <<status, late, runs, restarts>>

(* The record is read again for its revision and the mutation handed to the *)
(* executor with no await in between.                                       *)
StartMutation(c) ==
  /\ call[c].at = "start"
  /\ CallTo(c, At("run", "absent"))
  /\ runs' = runs + 1
  /\ UNCHANGED <<status, late, restarts>>

(* Mutant: the status takes over the answer of the executor.                *)
EndMutationRaw(c) ==
  /\ call[c].at = "run"
  /\ \E outcome \in {"executed", "refused"} :
       CallTo(c, [call[c] EXCEPT !.at = "settle", !.target = outcome])
  /\ UNCHANGED <<status, late, runs, restarts>>

(* The executor returns or raises.                                          *)
EndMutation(c) ==
  /\ call[c].at = "run"
  /\ \E outcome \in Settled :
       CallTo(c, [call[c] EXCEPT !.at = "settle", !.target = outcome])
  /\ UNCHANGED <<status, late, runs, restarts>>

(* execute_approved on behalf of recover_interrupted.                       *)
Retry(c) ==
  /\ call[c].at = "retry"
  /\ CallTo(c, IF status = "approved" THEN At("claim", "executing") ELSE Idle)
  /\ UNCHANGED <<status, late, runs, restarts>>

(* The server dies and comes back; recover_interrupted, the first thing it  *)
(* does, lists an interrupted execution and puts it back to approved.       *)
Restart(c) ==
  /\ restarts < MaxRestarts /\ status # "absent"
  /\ restarts' = restarts + 1
  /\ call' = [d \in Callers |->
                IF d = c /\ status = "executing"
                THEN At("requeue", "approved") ELSE Idle]
  /\ UNCHANGED <<status, late, runs>>

RespondByPasses ==
  /\ ~late
  /\ late' = TRUE
  /\ UNCHANGED <<status, call, runs, restarts>>

Step(c) ==
  \/ Propose(c) \/ ExpireLapsed(c) \/ Execute(c)
  \/ \E answer \in Answers : Decide(c, answer)
  \/ Write(c) \/ WriteConflict(c) \/ StartMutation(c) \/ EndMutation(c)
  \/ Retry(c) \/ Restart(c)

Next == (\E c \in Callers : Step(c)) \/ RespondByPasses

Spec == Init /\ [][Next]_vars

-----------------------------------------------------------------------------
Executing(c) == call[c].at \in {"start", "run", "settle"}

(* Every status and place a caller waits at is one the gate knows.          *)
TypeOK ==
  /\ status \in States
  /\ call \in [Callers -> [at : {"idle", "start", "run", "retry"} \cup Writing,
                           target : States, fresh : BOOLEAN]]
  /\ late \in BOOLEAN /\ runs \in Nat /\ restarts \in Nat

(* An approval is not an execution: no mutation is run, and none is about   *)
(* to be, unless the owner's answer was yes, however answers, expiry,       *)
(* executions and restarts interleave.                                      *)
OnlyApprovedRuns ==
  status \notin Started \cup {"approved"} =>
    runs = 0 /\ \A c \in Callers : call[c].at \in {"idle", "save"}

(* While a mutation runs the record shows it, so that a crash leaves it     *)
(* visibly unfinished, never approved and looking un-run.                   *)
RunningIsVisible ==
  (\E c \in Callers : Executing(c)) => status \in Started

(* The first answer stands: no duplicate tap, late answer or expiry changes *)
(* a yes into a no or a no into a yes; and no second execution, late write  *)
(* or recovery makes an executed or failed mutation executable again.       *)
FirstAnswerStands ==
  [][/\ status \notin {"absent", "pending"} =>
          /\ status' \notin {"absent", "pending"}
          /\ status' \in Refused <=> status \in Refused
          /\ status \in Refused => status' = status
     /\ status \in Settled => status' \in Settled]_vars

(* An approved mutation is handed to the executor exactly once as long as   *)
(* the server does not crash.                                               *)
RunsOnce == runs <= restarts + 1
=============================================================================
