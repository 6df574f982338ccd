------------------------- MODULE CompanionCallbacks -------------------------
(***************************************************************************)
(* One tool call a durable job asked for (companion/callbacks.py), which   *)
(* outlives the socket it was asked on: the device asks again, the server  *)
(* restarts while the tool runs, and the job may change hands before the   *)
(* answer is there.  Each caller reads the record, awaits, and saves under *)
(* the store's revision check.                                             *)
(*                                                                         *)
(* Abstractions.  As in CompanionApprovals, a revision is seen only        *)
(* through the comparison in save: `fresh`.  Attempts of the job are       *)
(* numbered as they are offered, and the current one is all that is kept   *)
(* of the job.  A call id belongs to one attempt, the device derives it    *)
(* from the attempt (reference.py:169).  The record is not pruned while    *)
(* it is in use.  A cancelled caller never takes its next step.            *)
(***************************************************************************)
EXTENDS Integers

CONSTANTS
  Callers,       \* concurrent users of the ledger
  MaxAttempts,   \* bound: how often the job is offered
  MaxRestarts    \* bound: how often the server restarts

ASSUME BoundAssumption == MaxAttempts \in Nat /\ MaxRestarts \in Nat

VARIABLES
  status,    \* CompanionCallbackRecord.status, "absent" before the request
  asker,     \* its attempt_id, 0 before the request
  owner,     \* the job's current attempt, 0 when it has none
  offered,   \* how many attempts the job has had
  call,      \* what each caller is in the middle of
  runs,      \* history: how often the tool was called
  restarts

job == <<owner, offered>>
vars == <<status, asker, job, call, runs, restarts>>

Done == {"completed", "failed"}
States == Done \cup {"absent", "pending", "executing", "superseded"}

(* A caller awaits at a point of its code, holding a revision that is fresh *)
(* or not, an attempt, and the status it is going to write.                 *)
Idle == [at |-> "idle", fresh |-> FALSE, attempt |-> 0, target |-> "absent"]

CallTo(c, new) == call' = [call EXCEPT ![c] = new]

Init ==
  /\ status = "absent" /\ asker = 0
  /\ owner = 0 /\ offered = 0
  /\ call = [c \in Callers |-> Idle]
  /\ runs = 0 /\ restarts = 0

-----------------------------------------------------------------------------
(* The job is offered to the next attempt, or loses the current one: the    *)
(* part of CompanionJobs this ledger sees.                                  *)
Promise == INSTANCE JobOwnership

OwnerChanges ==
  /\ Promise!Next /\ offered' <= MaxAttempts
  /\ UNCHANGED <<status, asker, call, runs, restarts>>

(* request finds no record; the frame may be of an attempt that has ended.  *)
(* A request that finds one returns it.                                     *)
Request(c, a) ==
  /\ call[c].at = "idle" /\ status = "absent"
  /\ CallTo(c, [Idle EXCEPT !.at = "create", !.attempt = a])
  /\ UNCHANGED <<status, asker, job, runs, restarts>>

(* Mutant: the record does not say who asked.                               *)
CreateAnonymous(c) ==
  /\ call[c].at = "create"
  /\ CallTo(c, Idle)
  /\ status' = IF status = "absent" THEN "pending" ELSE status
  /\ UNCHANGED <<asker, job, runs, restarts>>

(* The id is a primary key: of two requests the second raises.              *)
Create(c) ==
  /\ call[c].at = "create"
  /\ CallTo(c, Idle)
  /\ IF status = "absent"
     THEN status' = "pending" /\ asker' = call[c].attempt
     ELSE UNCHANGED <<status, asker>>
  /\ UNCHANGED <<job, runs, restarts>>

(* Mutant: a call that is executing is taken up too.                        *)
ToClaimAlso(c) ==
  CallTo(c, IF status \in {"pending", "executing"}
            THEN [Idle EXCEPT !.at = "claim", !.fresh = TRUE, !.target = "executing"]
            ELSE Idle)

(* execute reads the record: any but a pending one is returned as it is.    *)
ToClaim(c) ==
  CallTo(c, IF status = "pending"
            THEN [Idle EXCEPT !.at = "claim", !.fresh = TRUE, !.target = "executing"]
            ELSE Idle)

(* execute, called on its own or by recover_interrupted.                    *)
Execute(c) ==
  /\ call[c].at \in {"idle", "retry"} /\ status # "absent"
  /\ ToClaim(c)
  /\ UNCHANGED <<status, asker, job, runs, restarts>>

(* A save succeeds: the caller goes on, all other revisions are outdated.   *)
Saved(c, new) ==
  /\ status' = call[c].target
  /\ call' = [d \in Callers |-> IF d = c THEN new ELSE [call[d] EXCEPT !.fresh = FALSE]]

(* Mutant: the conflict of a claim is swallowed.                            *)
ClaimAnyway(c) ==
  /\ call[c].at = "claim"
  /\ IF call[c].fresh THEN Saved(c, [Idle EXCEPT !.at = "start"])
     ELSE CallTo(c, [Idle EXCEPT !.at = "start"]) /\ UNCHANGED status
  /\ UNCHANGED <<asker, job, runs, restarts>>

(* _save raises a conflict to the caller of execute.                        *)
Claim(c) ==
  /\ call[c].at = "claim"
  /\ IF call[c].fresh THEN Saved(c, [Idle EXCEPT !.at = "start"])
     ELSE CallTo(c, Idle) /\ UNCHANGED status
  /\ UNCHANGED <<asker, job, runs, restarts>>

StartTool(c) ==
  /\ call[c].at = "start"
  /\ runs' = runs + 1
  /\ CallTo(c, [Idle EXCEPT !.at = "run"])
  /\ UNCHANGED <<status, asker, job, restarts>>

(* The tool answers, well or not, or raises.                                *)
ToolEnds(c) ==
  /\ call[c].at = "run"
  /\ \E outcome \in Done : CallTo(c, [Idle EXCEPT !.at = "reload", !.target = outcome])
  /\ UNCHANGED <<status, asker, job, runs, restarts>>

(* _reload_and_save writes against the revision as it is now, ...           *)
Reload(c) ==
  /\ call[c].at = "reload"
  /\ CallTo(c, [call[c] EXCEPT !.at = "save", !.fresh = TRUE])
  /\ UNCHANGED <<status, asker, job, runs, restarts>>

(* ... and swallows a conflict.                                             *)
Save(c) ==
  /\ call[c].at = "save"
  /\ IF call[c].fresh THEN Saved(c, Idle) ELSE CallTo(c, Idle) /\ UNCHANGED status
  /\ UNCHANGED <<asker, job, runs, restarts>>

(* The current attempt is looked up to deliver the answer of a call to it.  *)
ReadOwner(c) ==
  /\ call[c].at = "idle" /\ status # "absent"
  /\ CallTo(c, [Idle EXCEPT !.at = "deliver", !.attempt = owner])
  /\ UNCHANGED <<status, asker, job, runs, restarts>>

(* Mutant: an answer that is not there yet is discarded.                    *)
DeliverDone(c) ==
  /\ call[c].at = "deliver"
  /\ IF (call[c].attempt = asker /\ status \in Done) \/ status = "superseded"
     THEN CallTo(c, Idle)
     ELSE CallTo(c, [Idle EXCEPT !.at = "reload", !.target = "superseded"])
  /\ UNCHANGED <<status, asker, job, runs, restarts>>

(* deliverable: the attempt that asked gets the record; for any other one   *)
(* the call is to be marked superseded.                                     *)
Deliver(c) ==
  /\ call[c].at = "deliver"
  /\ IF call[c].attempt = asker \/ status = "superseded"
     THEN CallTo(c, Idle)
     ELSE CallTo(c, [Idle EXCEPT !.at = "reload", !.target = "superseded"])
  /\ UNCHANGED <<status, asker, job, runs, restarts>>

(* The server dies and comes back; recover_interrupted, the first thing it  *)
(* does, lists a call that was executing.                                   *)
Restart(c) ==
  /\ restarts < MaxRestarts
  /\ restarts' = restarts + 1
  /\ call' = [d \in Callers |->
       IF d = c /\ status = "executing"
       THEN [Idle EXCEPT !.at = "requeue", !.fresh = TRUE, !.target = "pending"] ELSE Idle]
  /\ UNCHANGED <<status, asker, job, runs>>

(* Mutant: the requeue ignores the revision.                                *)
RequeueAnyway(c) ==
  /\ call[c].at = "requeue"
  /\ Saved(c, [Idle EXCEPT !.at = "retry"])
  /\ UNCHANGED <<asker, job, runs, restarts>>

(* It puts the call back to pending; a conflict ends the recovery.          *)
Requeue(c) ==
  /\ call[c].at = "requeue"
  /\ IF call[c].fresh THEN Saved(c, [Idle EXCEPT !.at = "retry"])
     ELSE CallTo(c, Idle) /\ UNCHANGED status
  /\ UNCHANGED <<asker, job, runs, restarts>>

Step(c) ==
  \/ \E a \in 1..offered : Request(c, a)
  \/ Create(c) \/ Execute(c) \/ Claim(c) \/ StartTool(c) \/ ToolEnds(c)
  \/ Reload(c) \/ Save(c) \/ ReadOwner(c) \/ Deliver(c)
  \/ Restart(c) \/ Requeue(c)

Next == OwnerChanges \/ \E c \in Callers : Step(c)

Spec == Init /\ [][Next]_vars

-----------------------------------------------------------------------------
Places == {"idle", "create", "claim", "start", "run", "reload", "save", "deliver",
           "requeue", "retry"}

(* A caller of execute between its claim and the record of the answer.      *)
Holds(c) == call[c].at \in {"start", "run"} \/ call[c].target \in Done

(* The record, the job and the callers stay well formed; a record that      *)
(* exists names the attempt that asked.                                     *)
TypeOK ==
  /\ status \in States /\ asker \in 0..offered
  /\ status = "absent" <=> asker = 0
  /\ offered \in 0..MaxAttempts /\ owner \in {0, offered}
  /\ call \in [Callers -> [at : Places, fresh : BOOLEAN, attempt : 0..offered, target : States]]
  /\ runs \in Nat /\ restarts \in 0..MaxRestarts

(* Of the callers that re-ask, execute and recover at the same time, one at *)
(* most has the tool running or its answer to record.                       *)
OneExecutor == \A c, d \in Callers : Holds(c) /\ Holds(d) => c = d

(* A retry on either side does not run the tool twice: a call is run once,  *)
(* and again only for a restart, which hands it over with the same key.     *)
CallsRunOnce == runs <= restarts + 1

(* A call that was answered or superseded stays so: an answer is not lost   *)
(* or replaced by a re-ask, a late writer or a recovery, it can only be     *)
(* found to have come too late, and a call whose asker lost the job is not  *)
(* revived.  (An answer may still overwrite the mark.)                      *)
OutcomeKept ==
  [][/\ status \in Done => status' \in {status, "superseded"}
     /\ status = "superseded" => status' \in Done \cup {status}]_vars

(* Only calls whose asker has really lost the job are marked superseded,    *)
(* although the current attempt was read before the record.                 *)
SupersededIsWorthless == status = "superseded" => asker # owner
=============================================================================
