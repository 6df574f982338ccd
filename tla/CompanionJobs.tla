--------------------------- MODULE CompanionJobs ---------------------------
(***************************************************************************)
(* One durable companion job: the state machine of companion/jobs.py and   *)
(* the ledger (companion/ledger.py) through which any number of concurrent *)
(* callers read the record, compute a transition and save it under the     *)
(* store's revision check.                                                 *)
(*                                                                         *)
(* Callers stand for the frames of devices (possibly late, duplicated or   *)
(* out of order, always for an attempt that was offered), for the sweep,   *)
(* for the reconciliation of a reconnecting session and for Iridium taking *)
(* the work over.  Progress fractions, summaries, failure codes and the    *)
(* contents of checkpoints are left out; the write of a checkpoint stays,  *)
(* because every write makes concurrent ones fail.  A revision is seen     *)
(* only through the comparison in save: `fresh` says that it still holds.  *)
(***************************************************************************)
EXTENDS Integers, Sequences, SequencesExt

CONSTANTS
  Callers,             \* concurrent users of the ledger
  Sessions,
  Attempts,            \* ids of offers
  Nobody,              \* no session, no attempt
  SessionOf,           \* the session each attempt is offered to
  LeaseSeconds,        \* in clock ticks
  Deadline,            \* complete_deadline of the job
  MaxConflictRetries,
  MaxTime              \* bound of the clock

ASSUME IdAssumption ==
  /\ Nobody \notin Sessions \cup Attempts
  /\ {"none", "local"} \cap (Attempts \cup {Nobody}) = {}
  /\ SessionOf \in [Attempts -> Sessions]
ASSUME TimeAssumption ==
  /\ LeaseSeconds \in Nat \ {0} /\ Deadline \in Nat
  /\ MaxConflictRetries \in Nat \ {0} /\ MaxTime \in Nat

VARIABLES
  job,    \* the CompanionJobRecord
  call,   \* what each caller is in the middle of
  now     \* the clock

vars == <<job, call, now>>

Active == {"offered", "accepted", "running", "waiting_tool", "waiting_approval"}
TERMINAL == {"completed", "failed", "cancelled", "expired"}
States == Active \cup TERMINAL \cup {"queued", "falling_back"}

TRANSITIONS ==
  LET leave == {"falling_back", "cancelled", "expired"}
  IN [queued |-> leave \cup {"offered"},
      offered |-> leave \cup {"accepted"},
      accepted |-> leave \cup {"running"},
      running |-> leave \cup {"waiting_tool", "waiting_approval", "completed", "failed"},
      waiting_tool |-> leave \cup {"running", "failed"},
      waiting_approval |-> {"running", "failed", "cancelled", "expired"},
      falling_back |-> {"completed", "failed", "cancelled"},
      completed |-> {}, failed |-> {}, cancelled |-> {}, expired |-> {}]

NewJob ==
  [status |-> "queued",
   attempts |-> <<>>,      \* ids in the order they were offered
   open |-> {},            \* those whose ended_at is still None
   owner |-> Nobody, until |-> 0,   \* lease_owner, lease_expires_at
   local_fallback |-> FALSE,
   result |-> "none"]      \* result_ref, by who produced it

-----------------------------------------------------------------------------
(* jobs.py: a transition returns the record itself, raises or returns a new *)
(* record that the ledger writes.                                           *)
Same == [kind |-> "same", job |-> NewJob]
Illegal == [kind |-> "illegal", job |-> NewJob]
Write(r) == [kind |-> "write", job |-> r]

current_attempt(r) ==
  {a \in r.open : \E i \in DOMAIN r.attempts :
     r.attempts[i] = a /\ \A j \in DOMAIN r.attempts : j > i => r.attempts[j] \notin r.open}
owns(r, a) == a \in current_attempt(r)

lease_expired(r, t) == r.owner # Nobody /\ t >= r.until

(* _moved *)
Moved(r, target, new) ==
  CASE r.status = target -> Same
    [] r.status # target /\ target \notin TRANSITIONS[r.status] -> Illegal
    [] OTHER -> Write([new EXCEPT !.status = target])

EndAttempts(r, ids) == [r EXCEPT !.open = @ \ ids]
Released(r) == [r EXCEPT !.owner = Nobody, !.until = 0]

offer(r, a, t) ==
  CASE a \in ToSet(r.attempts) -> Same
    [] a \notin ToSet(r.attempts) /\ r.status # "queued" -> Illegal
    [] OTHER -> Write([r EXCEPT !.status = "offered",
                                !.attempts = Append(@, a), !.open = @ \cup {a},
                                !.owner = SessionOf[a], !.until = t + LeaseSeconds])

(* accept, start, await_tool, await_approval and resume                     *)
Advance(r, a, target) == IF owns(r, a) THEN Moved(r, target, r) ELSE Illegal

(* Mutant: the attempt stays open when the job goes back to the queue.      *)
RequeuedOpen(r) == [Released(r) EXCEPT !.status = "queued"]
Requeued(r) ==
  [Released(EndAttempts(r, current_attempt(r))) EXCEPT !.status = "queued"]

reject(r, a) == IF owns(r, a) THEN Write(Requeued(r)) ELSE Same

(* Mutant: progress renews a lease that was released.                       *)
progress_always(r, a, t) ==
  IF owns(r, a) THEN Write([r EXCEPT !.until = t + LeaseSeconds]) ELSE Same
progress(r, a, t) ==
  IF owns(r, a)
  THEN Write([r EXCEPT !.until = IF r.owner = Nobody THEN @ ELSE t + LeaseSeconds])
  ELSE Same

checkpoint(r, a) == IF owns(r, a) THEN Write(r) ELSE Same

(* Mutant: a result is taken from any attempt.                              *)
complete_any(r, a) ==
  Moved(r, "completed", [Released(EndAttempts(r, {a})) EXCEPT !.result = a])
complete(r, a) ==
  IF owns(r, a)
  THEN Moved(r, "completed", [Released(EndAttempts(r, {a})) EXCEPT !.result = a])
  ELSE Same

(* complete with attempt_id = None: Iridium finished the job.               *)
complete_locally(r) == Moved(r, "completed", [Released(r) EXCEPT !.result = "local"])

fall_back(r, a) ==
  Moved(r, "falling_back",
        [Released(EndAttempts(r, {a})) EXCEPT !.local_fallback = TRUE])

fail(r, a) == Moved(r, "failed", Released(EndAttempts(r, {a})))

(* Mutant: cancelling leaves the attempt of the device open.                *)
cancel_open(r) == Moved(r, "cancelled", Released(r))
cancel(r) == Moved(r, "cancelled", Released(EndAttempts(r, current_attempt(r))))
expire(r) == Moved(r, "expired", Released(EndAttempts(r, current_attempt(r))))

reclaim(r, moment) ==
  IF lease_expired(r, moment) /\ r.status \notin TERMINAL
  THEN Write(Requeued(r)) ELSE Same

(* What a caller hands to the ledger: the operation, the attempt or session *)
(* it is about and, for a sweep, the moment it started.                     *)
Op(name, who, moment) == [name |-> name, who |-> who, moment |-> moment]

FrameNames ==
  {"accept", "reject", "start", "await_tool", "await_approval", "progress",
   "checkpoint", "complete", "fail"}
Operations ==
  [name : FrameNames \cup {"offer", "fall_back"}, who : Attempts, moment : {0}]
  \cup [name : {"fall_back", "fail", "complete_locally", "cancel", "expire"},
        who : {Nobody}, moment : {0}]
  \cup [name : {"reclaim"}, who : {Nobody}, moment : 0..MaxTime]
  \cup [name : {"forget"}, who : Sessions, moment : {0}]

(* The outcome of operation o on record r at time t.                        *)
Outcome(o, r, t) ==
  CASE o.name = "offer" -> offer(r, o.who, t)
    [] o.name = "accept" -> Advance(r, o.who, "accepted")
    [] o.name = "reject" -> reject(r, o.who)
    [] o.name = "start" -> Advance(r, o.who, "running")
    [] o.name = "await_tool" -> Advance(r, o.who, "waiting_tool")
    [] o.name = "await_approval" -> Advance(r, o.who, "waiting_approval")
    [] o.name = "progress" -> progress(r, o.who, t)
    [] o.name = "checkpoint" -> checkpoint(r, o.who)
    [] o.name = "complete" -> complete(r, o.who)
    [] o.name = "complete_locally" -> complete_locally(r)
    [] o.name = "fall_back" -> fall_back(r, o.who)
    [] o.name = "fail" -> fail(r, o.who)
    [] o.name = "cancel" -> cancel(r)
    [] o.name = "expire" -> expire(r)
    [] o.name = "reclaim" -> reclaim(r, o.moment)
    \* reconcile forces the reclaim by asking at the end of the lease
    [] o.name = "forget" -> reclaim(r, r.until)

-----------------------------------------------------------------------------
(* ledger.py                                                                *)
NoOp == Op("cancel", Nobody, 0)
Idle == [at |-> "idle", op |-> NoOp, moved |-> NewJob, fresh |-> FALSE, tries |-> 0]
CallTo(c, new) == call' = [call EXCEPT ![c] = new]

Init ==
  /\ job = NewJob
  /\ call = [c \in Callers |-> Idle]
  /\ now = 0

(* apply reads the record and computes the move.  One that changes nothing  *)
(* returns, an illegal one raises: either way the call is over.             *)
Read(c, o, tries) ==
  /\ LET out == Outcome(o, job, now)
     IN IF out.kind = "write"
        THEN CallTo(c, [at |-> "save", op |-> o, moved |-> out.job, fresh |-> TRUE,
                        tries |-> tries])
        ELSE CallTo(c, Idle)
  /\ UNCHANGED <<job, now>>

(* The read of a retry, or the first one after the caller decided on its    *)
(* operation from an earlier read.                                          *)
Get(c) ==
  /\ call[c].at = "get"
  /\ Read(c, call[c].op, call[c].tries)

(* Mutant: the move is forced over whatever record is there now.            *)
SaveForced(c) ==
  /\ call[c].at = "save"
  /\ job' = call[c].moved
  /\ call' = [d \in Callers |-> IF d = c THEN Idle ELSE [call[d] EXCEPT !.fresh = FALSE]]
  /\ UNCHANGED now

(* The record is unchanged since it was read.                               *)
Save(c) ==
  /\ call[c].at = "save" /\ call[c].fresh
  /\ job' = call[c].moved
  /\ call' = [d \in Callers |-> IF d = c THEN Idle ELSE [call[d] EXCEPT !.fresh = FALSE]]
  /\ UNCHANGED now

(* ConcurrentRecordUpdate: recompute, or leave the job alone.               *)
Conflict(c) ==
  /\ call[c].at = "save" /\ ~call[c].fresh
  /\ IF call[c].tries + 1 < MaxConflictRetries
     THEN CallTo(c, [call[c] EXCEPT !.at = "get", !.tries = @ + 1])
     ELSE CallTo(c, Idle)
  /\ UNCHANGED <<job, now>>

-----------------------------------------------------------------------------
(* The callers.                                                             *)
Call(c, o) ==
  /\ call[c].at = "idle"
  /\ Read(c, o, 0)

Decide(c, o) ==
  /\ call[c].at = "idle"
  /\ CallTo(c, [Idle EXCEPT !.at = "get", !.op = o])
  /\ UNCHANGED <<job, now>>

(* The server offers the job under a new or a repeated attempt id.          *)
OfferJob(c, a) == Call(c, Op("offer", a, 0))

(* A device that was offered the job sends a frame, at any later time.      *)
Frame(c, a, name) == a \in ToSet(job.attempts) /\ Call(c, Op(name, a, 0))

Cancel(c) == Call(c, Op("cancel", Nobody, 0))

(* fall_back of the ledger names the attempt that was current when it read  *)
(* the job; a finished job is left alone.                                   *)
FallBack(c) ==
  /\ job.status \notin TERMINAL
  /\ IF current_attempt(job) = {}
     THEN Decide(c, Op("fall_back", Nobody, 0))
     ELSE \E a \in current_attempt(job) : Decide(c, Op("fall_back", a, 0))

(* Iridium settles the job itself; nothing asks whether it fell back first. *)
SettleLocally(c) ==
  Call(c, Op("complete_locally", Nobody, 0)) \/ Call(c, Op("fail", Nobody, 0))

(* sweep, for this job: expiry outranks reclaiming.                         *)
Sweep(c) ==
  /\ job.status \notin TERMINAL
  /\ \/ now >= Deadline /\ Decide(c, Op("expire", Nobody, 0))
     \/ /\ now < Deadline /\ lease_expired(job, now)
        /\ Decide(c, Op("reclaim", Nobody, now))

(* reconcile, for this job: session s reconnects without claiming it.       *)
Reconcile(c, s) ==
  /\ job.owner = s /\ job.status \notin TERMINAL
  /\ Decide(c, Op("forget", s, 0))

Tick ==
  /\ now < MaxTime
  /\ now' = now + 1
  /\ UNCHANGED <<job, call>>

Next ==
  \/ \E c \in Callers :
       \/ Get(c) \/ Save(c) \/ Conflict(c)
       \/ Cancel(c) \/ FallBack(c) \/ SettleLocally(c) \/ Sweep(c)
       \/ \E s \in Sessions : Reconcile(c, s)
       \/ \E a \in Attempts : OfferJob(c, a) \/ \E name \in FrameNames : Frame(c, a, name)
  \/ Tick

Spec == Init /\ [][Next]_vars

-----------------------------------------------------------------------------
Jobs ==
  [status : States, attempts : Seq(Attempts), open : SUBSET Attempts,
   owner : Sessions \cup {Nobody}, until : Nat, local_fallback : BOOLEAN,
   result : Attempts \cup {"none", "local"}]

(* validate_companion_job: no half-written lease, no attempt twice.         *)
Valid(r) ==
  /\ r.owner = Nobody <=> r.until = 0
  /\ IsInjective(r.attempts)

(* The job is a record its model would accept, and so is every record a     *)
(* caller is about to save, although model_copy never validates one.        *)
TypeOK ==
  /\ job \in Jobs /\ Valid(job)
  /\ \A c \in Callers : Valid(call[c].moved)
  /\ call \in [Callers -> [at : {"idle", "get", "save"}, op : Operations,
                           moved : Jobs, fresh : BOOLEAN, tries : Nat]]
  /\ now \in 0..MaxTime

(* No sequence of failures produces two owners: at most one attempt is      *)
(* open, a lease exists exactly while the job is with a device and is held  *)
(* by that attempt's session, and a queued job is nobody's.                 *)
OneOwner ==
  /\ \A a, b \in job.open : a = b
  /\ job.status \in Active <=> job.owner # Nobody
  /\ job.owner # Nobody => \E a \in job.open : job.owner = SessionOf[a]
  /\ job.status = "queued" => job.open = {}

(* Every write is a transition of jobs.py computed from the very record it  *)
(* replaces, however many callers computed theirs at the same time.         *)
WritesAreTransitions ==
  [][\E c \in Callers, t \in 0..now :
       call[c].at = "save" /\ Outcome(call[c].op, job, t) = Write(job')]_job

(* A late or duplicated result of a superseded attempt is never applied.    *)
ResultFromOwner ==
  [][job'.result # job.result /\ job'.result # "local" => owns(job, job'.result)]_job

(* A cancelled or expired job and a result delivered by a device are final: *)
(* no late frame, sweep, reconnect or fallback reopens them.                *)
SettledIsFinal ==
  [][(job.status \in {"cancelled", "expired"} \/ job.result \in Attempts) => FALSE]_job

(* A device that keeps proving it is alive keeps its job: a sweep that saw  *)
(* an expired lease does not take a renewed one.                            *)
LiveLeaseKept ==
  [][\A c \in Callers :
       call[c].at = "save" /\ call[c].op.name = "reclaim" /\ call'[c] = Idle
         => job' = job \/ lease_expired(job, now)]_vars

(* A job that has fallen back never returns to a phone and takes no result  *)
(* from one.                                                                *)
FallbackIsOneWay ==
  [][job.local_fallback => job'.status # "queued" /\ job'.result \notin Attempts]_job

(* Reconciling for one session does not disturb the work of another.        *)
ReconcileLeavesOthers ==
  [][\A c \in Callers :
       call[c].at = "save" /\ call[c].op.name = "forget" /\ job' # job
         /\ call'[c] = Idle => job.owner = call[c].op.who]_vars

-----------------------------------------------------------------------------
(* The ledger implements JobOwnership.  The owner is the place of the open  *)
(* attempt among those offered; that no other is open is part of what there *)
(* is to show.                                                              *)
OwningAttempt(r) ==
  IF r.open = {} THEN 0
  ELSE CHOOSE i \in DOMAIN r.attempts : r.attempts[i] \in r.open

Promise == INSTANCE JobOwnership WITH
  offered <- Len(job.attempts), owner <- OwningAttempt(job)
OwnershipSpec == Promise!Spec
=============================================================================
