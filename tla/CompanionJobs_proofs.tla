------------------------ MODULE CompanionJobs_proofs ------------------------
(***************************************************************************)
(* The safety of the ledger for any number of callers, sessions, attempts  *)
(* and retries.  Two facts carry the proofs: a caller that still holds the *)
(* current revision saves a transition of the current record (Computed),   *)
(* and every transition of a Good record gives a Good record (MoveIsGood). *)
(***************************************************************************)
EXTENDS CompanionJobs, TLAPS

Ids(r) == IsInjective(r.attempts) /\ r.open \subseteq ToSet(r.attempts)

(* What is true of the record after every write: beside OneOwner, that only *)
(* attempts which were offered are open, and that none is open in a record  *)
(* that is final.                                                           *)
Good(r) ==
  /\ r \in Jobs /\ Ids(r)
  /\ r.owner = Nobody <=> r.until = 0
  /\ \A a, b \in r.open : a = b
  /\ r.status \in Active <=> r.owner # Nobody
  /\ r.owner # Nobody => \E a \in r.open : r.owner = SessionOf[a]
  /\ r.status \in {"queued", "cancelled", "expired"} => r.open = {}
  /\ r.result \in Attempts => r.status = "completed" /\ r.open = {}

(* The kinds of write the transitions of jobs.py amount to.                 *)
Offers(r, n, a, t) ==
  /\ r.status = "queued" /\ n.status = "offered"
  /\ a \in Attempts /\ a \notin ToSet(r.attempts)
  /\ n.attempts = Append(r.attempts, a) /\ n.open = r.open \cup {a}
  /\ n.owner = SessionOf[a] /\ n.until = t + LeaseSeconds
  /\ n.result = r.result

Keeps(r, n, a) ==   \* the owner advances or touches the job
  /\ a \in r.open
  /\ n.status = r.status \/ (n.status \in Active /\ r.status \in Active)
  /\ n.attempts = r.attempts /\ n.open = r.open /\ n.owner = r.owner
  /\ n.until = 0 <=> r.until = 0
  /\ n.result = r.result

Requeues(r, n, a) ==
  /\ n.status = "queued" /\ n.open = {}
  /\ a \in r.open \/ (r.status \notin TERMINAL /\ r.owner # Nobody)
  /\ n.attempts = r.attempts /\ n.owner = Nobody /\ n.until = 0
  /\ n.result = r.result

Ends(r, n, a) ==
  /\ r.status \notin TERMINAL /\ n.status \in TERMINAL \cup {"falling_back"}
  /\ n.status \in {"cancelled", "expired"} => n.open = {}
  /\ n.open \subseteq r.open
  /\ n.attempts = r.attempts /\ n.owner = Nobody /\ n.until = 0
  /\ \/ n.result = r.result \/ n.result = "local"
     \/ a \in r.open /\ n.result = a /\ n.status = "completed" /\ n.open = {}

Moves(o, r, n, t) ==
  \/ Offers(r, n, o.who, t) \/ Keeps(r, n, o.who)
  \/ Requeues(r, n, o.who) \/ Ends(r, n, o.who)

-----------------------------------------------------------------------------
LEMMA CurrentIsOpen ==
  ASSUME NEW r, Good(r)
  PROVE  /\ current_attempt(r) = r.open
         /\ \A a : owns(r, a) <=> a \in r.open
<1>1. ASSUME NEW a \in r.open PROVE a \in current_attempt(r)
  <2>1. PICK i \in DOMAIN r.attempts : r.attempts[i] = a
    BY <1>1 DEF Good, Ids, ToSet
  <2>2. ASSUME NEW j \in DOMAIN r.attempts, j > i, r.attempts[j] \in r.open
        PROVE  FALSE
    <3>1. r.attempts[j] = r.attempts[i]
      BY <2>1, <2>2 DEF Good
    <3>2. j = i
      BY <3>1, <2>1, <2>2 DEF Good, Ids, IsInjective
    <3>3. i \in Int
      BY <2>1 DEF Good, Jobs
    <3> QED
      BY <3>2, <3>3, <2>2
  <2> QED
    BY <1>1, <2>1, <2>2 DEF current_attempt
<1>2. current_attempt(r) \subseteq r.open
  BY DEF current_attempt
<1> QED
  BY <1>1, <1>2 DEF owns

LEMMA MovedFacts ==
  ASSUME NEW r \in Jobs, NEW new \in Jobs, NEW target \in States, NEW n,
         Moved(r, target, new) = Write(n)
  PROVE  /\ n = [new EXCEPT !.status = target] /\ n \in Jobs
         /\ n.status = target /\ n.attempts = new.attempts /\ n.open = new.open
         /\ n.owner = new.owner /\ n.until = new.until /\ n.result = new.result
         /\ r.status # target /\ target \in TRANSITIONS[r.status]
<1>1. r.status # target /\ target \in TRANSITIONS[r.status]
  BY DEF Moved, Same, Illegal, Write
<1>2. n = [new EXCEPT !.status = target]
  BY <1>1 DEF Moved, Write
<1> QED
  BY <1>1, <1>2 DEF Jobs

LEMMA TransitionFacts ==
  ASSUME NEW s \in States, NEW target \in TRANSITIONS[s]
  PROVE  /\ s \notin TERMINAL
         /\ target \in Active => s \in Active \cup {"queued"}
         /\ target \in Active /\ s = "queued" => target = "offered"
  BY DEF States, Active, TERMINAL, TRANSITIONS

LEMMA ReleaseFacts ==
  ASSUME NEW r \in Jobs, NEW ids
  PROVE  LET n == Released(EndAttempts(r, ids))
         IN /\ n \in Jobs /\ n.attempts = r.attempts /\ n.open = r.open \ ids
            /\ n.owner = Nobody /\ n.until = 0 /\ n.result = r.result
            /\ n.status = r.status
<1>1. EndAttempts(r, ids) \in Jobs
  BY DEF EndAttempts, Jobs
<1> QED
  BY <1>1 DEF EndAttempts, Released, Jobs

LEMMA RequeueFacts ==
  ASSUME NEW r, Good(r)
  PROVE  LET n == Requeued(r)
         IN /\ n \in Jobs /\ n.attempts = r.attempts /\ n.open = {}
            /\ n.owner = Nobody /\ n.until = 0 /\ n.result = r.result
            /\ n.status = "queued"
<1> DEFINE m == Released(EndAttempts(r, current_attempt(r)))
<1>1. /\ m \in Jobs /\ m.attempts = r.attempts /\ m.open = r.open \ current_attempt(r)
      /\ m.owner = Nobody /\ m.until = 0 /\ m.result = r.result
  BY ReleaseFacts DEF Good
<1>2. m.open = {}
  BY <1>1, CurrentIsOpen
<1>3. Requeued(r) = [m EXCEPT !.status = "queued"]
  BY DEF Requeued
<1> HIDE DEF m
<1> QED
  BY <1>1, <1>2, <1>3 DEF Jobs, States

LEMMA AdvanceMoves ==
  ASSUME NEW r, Good(r), NEW a,
         NEW target \in {"accepted", "running", "waiting_tool", "waiting_approval"},
         NEW n, Advance(r, a, target) = Write(n)
  PROVE  n \in Jobs /\ Keeps(r, n, a)
<1>1. a \in r.open /\ Moved(r, target, r) = Write(n)
  BY CurrentIsOpen DEF Advance, Illegal, Write
<1>2. r \in Jobs /\ target \in States /\ r.status \in States
  BY DEF Good, Jobs, States, Active
<1>3. /\ n \in Jobs /\ n.status = target /\ n.attempts = r.attempts /\ n.open = r.open
      /\ n.owner = r.owner /\ n.until = r.until /\ n.result = r.result
      /\ target \in TRANSITIONS[r.status]
  BY <1>1, <1>2, MovedFacts
<1>4. r.status \in Active
  BY <1>2, <1>3, TransitionFacts DEF Active
<1> QED
  BY <1>1, <1>3, <1>4 DEF Keeps, Active

(* A move to a final status or to falling_back of a record that was         *)
(* released.                                                                *)
LEMMA EndMoves ==
  ASSUME NEW r, Good(r), NEW new \in Jobs, NEW a, NEW n,
         NEW target \in TERMINAL \cup {"falling_back"},
         Moved(r, target, new) = Write(n),
         new.attempts = r.attempts, new.open \subseteq r.open,
         new.owner = Nobody, new.until = 0,
         target \in {"cancelled", "expired"} => new.open = {},
         \/ new.result = r.result \/ new.result = "local"
         \/ a \in r.open /\ new.result = a /\ target = "completed" /\ new.open = {}
  PROVE  n \in Jobs /\ Ends(r, n, a)
<1>1. r \in Jobs /\ target \in States /\ r.status \in States
  BY DEF Good, Jobs, States, TERMINAL
<1>2. /\ n \in Jobs /\ n.status = target /\ n.attempts = new.attempts /\ n.open = new.open
      /\ n.owner = new.owner /\ n.until = new.until /\ n.result = new.result
      /\ target \in TRANSITIONS[r.status]
  BY <1>1, MovedFacts
<1>3. r.status \notin TERMINAL
  BY <1>1, <1>2, TransitionFacts
<1> QED
  BY <1>2, <1>3 DEF Ends

LEMMA OfferMoves ==
  ASSUME NEW r, Good(r), NEW a \in Attempts, NEW t \in Nat, NEW n,
         offer(r, a, t) = Write(n)
  PROVE  n \in Jobs /\ Offers(r, n, a, t)
<1>1. /\ a \notin ToSet(r.attempts) /\ r.status = "queued"
      /\ n = [r EXCEPT !.status = "offered", !.attempts = Append(@, a), !.open = @ \cup {a},
                       !.owner = SessionOf[a], !.until = t + LeaseSeconds]
  BY DEF offer, Same, Illegal, Write
<1>2. /\ r \in Jobs /\ SessionOf[a] \in Sessions /\ t + LeaseSeconds \in Nat
      /\ Append(r.attempts, a) \in Seq(Attempts)
  BY IdAssumption, TimeAssumption DEF Good, Jobs
<1>3. /\ n.status = "offered" /\ n.attempts = Append(r.attempts, a)
      /\ n.open = r.open \cup {a} /\ n.owner = SessionOf[a]
      /\ n.until = t + LeaseSeconds /\ n.result = r.result
      /\ n \in Jobs
  BY <1>1, <1>2 DEF Jobs, States, Active
<1> QED
  BY <1>1, <1>3 DEF Offers

LEMMA RequeueMoves ==
  ASSUME NEW r, Good(r), NEW a, NEW n, Write(Requeued(r)) = Write(n),
         a \in r.open \/ (r.status \notin TERMINAL /\ r.owner # Nobody)
  PROVE  n \in Jobs /\ Requeues(r, n, a)
<1>1. n = Requeued(r)
  BY DEF Write
<1> QED
  BY <1>1, RequeueFacts DEF Requeues

LEMMA TouchMoves ==
  ASSUME NEW r, Good(r), NEW a, NEW t \in Nat, NEW n,
         progress(r, a, t) = Write(n) \/ checkpoint(r, a) = Write(n)
  PROVE  n \in Jobs /\ Keeps(r, n, a)
<1>1. a \in r.open
  BY CurrentIsOpen DEF progress, checkpoint, Same, Write
<1>2. r \in Jobs /\ t + LeaseSeconds \in Nat /\ t + LeaseSeconds # 0 /\ r.until \in Nat
  BY TimeAssumption DEF Good, Jobs
<1>3. CASE checkpoint(r, a) = Write(n)
  <2>1. n = r
    BY <1>3, <1>1, CurrentIsOpen DEF checkpoint, Write
  <2> QED
    BY <1>1, <1>2, <2>1 DEF Keeps
<1>4. CASE progress(r, a, t) = Write(n)
  <2> DEFINE u == IF r.owner = Nobody THEN r.until ELSE t + LeaseSeconds
  <2>1. n = [r EXCEPT !.until = u]
    BY <1>4, <1>1, CurrentIsOpen DEF progress, Write
  <2>2. u \in Nat /\ (u = 0 <=> r.until = 0)
    BY <1>2 DEF Good
  <2> HIDE DEF u
  <2>3. /\ n \in Jobs /\ n.status = r.status /\ n.attempts = r.attempts
        /\ n.open = r.open /\ n.owner = r.owner /\ n.until = u /\ n.result = r.result
    BY <1>2, <2>1, <2>2 DEF Jobs
  <2> QED
    BY <1>1, <2>2, <2>3 DEF Keeps
<1> QED
  BY <1>3, <1>4

LEMMA CompleteMoves ==
  ASSUME NEW r, Good(r), NEW a \in Attempts, NEW n, complete(r, a) = Write(n)
  PROVE  n \in Jobs /\ Ends(r, n, a)
<1> DEFINE m == Released(EndAttempts(r, {a}))
           new == [m EXCEPT !.result = a]
<1>1. a \in r.open /\ Moved(r, "completed", new) = Write(n)
  BY CurrentIsOpen DEF complete, Same, Write
<1>2. /\ m \in Jobs /\ m.attempts = r.attempts /\ m.open = r.open \ {a}
      /\ m.owner = Nobody /\ m.until = 0
  BY ReleaseFacts DEF Good
<1> HIDE DEF m
<1>3. /\ new \in Jobs /\ new.attempts = r.attempts /\ new.open = r.open \ {a}
      /\ new.owner = Nobody /\ new.until = 0 /\ new.result = a
  BY <1>2 DEF Jobs
<1>4. new.open = {}
  BY <1>1, <1>3 DEF Good
<1> HIDE DEF new
<1> QED
  BY <1>1, <1>3, <1>4, EndMoves DEF TERMINAL

LEMMA LocalMoves ==
  ASSUME NEW r, Good(r), NEW n, NEW a, complete_locally(r) = Write(n)
  PROVE  n \in Jobs /\ Ends(r, n, a)
<1> DEFINE new == [Released(r) EXCEPT !.result = "local"]
<1>1. Moved(r, "completed", new) = Write(n)
  BY DEF complete_locally
<1>2. /\ new \in Jobs /\ new.attempts = r.attempts /\ new.open = r.open
      /\ new.owner = Nobody /\ new.until = 0 /\ new.result = "local"
  BY DEF Good, Jobs, Released
<1> HIDE DEF new
<1> QED
  BY <1>1, <1>2, EndMoves DEF TERMINAL

LEMMA FallBackMoves ==
  ASSUME NEW r, Good(r), NEW n, NEW a, fall_back(r, a) = Write(n)
  PROVE  n \in Jobs /\ Ends(r, n, a)
<1> DEFINE m == Released(EndAttempts(r, {a}))
           new == [m EXCEPT !.local_fallback = TRUE]
<1>1. Moved(r, "falling_back", new) = Write(n)
  BY DEF fall_back
<1>2. /\ m \in Jobs /\ m.attempts = r.attempts /\ m.open = r.open \ {a}
      /\ m.owner = Nobody /\ m.until = 0 /\ m.result = r.result
  BY ReleaseFacts DEF Good
<1> HIDE DEF m
<1>3. /\ new \in Jobs /\ new.attempts = r.attempts /\ new.open = r.open \ {a}
      /\ new.owner = Nobody /\ new.until = 0 /\ new.result = r.result
  BY <1>2 DEF Jobs
<1> HIDE DEF new
<1> QED
  BY <1>1, <1>3, EndMoves

LEMMA FailMoves ==
  ASSUME NEW r, Good(r), NEW n, NEW a, fail(r, a) = Write(n)
  PROVE  n \in Jobs /\ Ends(r, n, a)
<1> DEFINE new == Released(EndAttempts(r, {a}))
<1>1. Moved(r, "failed", new) = Write(n)
  BY DEF fail
<1>2. /\ new \in Jobs /\ new.attempts = r.attempts /\ new.open = r.open \ {a}
      /\ new.owner = Nobody /\ new.until = 0 /\ new.result = r.result
  BY ReleaseFacts DEF Good
<1> HIDE DEF new
<1> QED
  BY <1>1, <1>2, EndMoves DEF TERMINAL

LEMMA StopMoves ==
  ASSUME NEW r, Good(r), NEW n, NEW a, cancel(r) = Write(n) \/ expire(r) = Write(n)
  PROVE  n \in Jobs /\ Ends(r, n, a)
<1> DEFINE new == Released(EndAttempts(r, current_attempt(r)))
<1>1. PICK target \in {"cancelled", "expired"} : Moved(r, target, new) = Write(n)
  BY DEF cancel, expire
<1>2. /\ new \in Jobs /\ new.attempts = r.attempts /\ new.open = r.open \ current_attempt(r)
      /\ new.owner = Nobody /\ new.until = 0 /\ new.result = r.result
  BY ReleaseFacts DEF Good
<1>3. new.open = {}
  BY <1>2, CurrentIsOpen
<1> HIDE DEF new
<1> QED
  BY <1>1, <1>2, <1>3, EndMoves DEF TERMINAL

(* Every write an operation asks for is one of the four moves.              *)
LEMMA OperationMoves ==
  ASSUME NEW r, Good(r), NEW o \in Operations, NEW t \in Nat, NEW n,
         Outcome(o, r, t) = Write(n)
  PROVE  n \in Jobs /\ Moves(o, r, n, t)
<1> USE DEF Moves
<1>1. CASE o.name = "offer"
  <2>1. o.who \in Attempts /\ offer(r, o.who, t) = Write(n)
    BY <1>1 DEF Outcome, Operations, FrameNames
  <2> QED
    BY <2>1, OfferMoves
<1>2. CASE o.name \in {"accept", "start", "await_tool", "await_approval"}
  <2>1. PICK target \in {"accepted", "running", "waiting_tool", "waiting_approval"} :
          Advance(r, o.who, target) = Write(n)
    BY <1>2 DEF Outcome
  <2> QED
    BY <2>1, AdvanceMoves
<1>3. CASE o.name = "reject"
  <2>1. o.who \in r.open /\ Write(Requeued(r)) = Write(n)
    BY <1>3, CurrentIsOpen DEF Outcome, reject, Same, Write
  <2> QED
    BY <2>1, RequeueMoves
<1>4. CASE o.name \in {"reclaim", "forget"}
  <2>1. PICK moment : reclaim(r, moment) = Write(n)
    BY <1>4 DEF Outcome
  <2>2. /\ r.status \notin TERMINAL /\ r.owner # Nobody
        /\ Write(Requeued(r)) = Write(n)
    BY <2>1 DEF reclaim, lease_expired, Same, Write
  <2> QED
    BY <2>2, RequeueMoves
<1>5. CASE o.name \in {"progress", "checkpoint"}
  <2>1. progress(r, o.who, t) = Write(n) \/ checkpoint(r, o.who) = Write(n)
    BY <1>5 DEF Outcome
  <2> QED
    BY <2>1, TouchMoves
<1>6. CASE o.name = "complete"
  <2>1. o.who \in Attempts /\ complete(r, o.who) = Write(n)
    BY <1>6 DEF Outcome, Operations, FrameNames
  <2> QED
    BY <2>1, CompleteMoves
<1>7. CASE o.name = "complete_locally"
  <2>1. complete_locally(r) = Write(n)
    BY <1>7 DEF Outcome
  <2> QED
    BY <2>1, LocalMoves
<1>8. CASE o.name = "fall_back"
  <2>1. fall_back(r, o.who) = Write(n)
    BY <1>8 DEF Outcome
  <2> QED
    BY <2>1, FallBackMoves
<1>9. CASE o.name = "fail"
  <2>1. fail(r, o.who) = Write(n)
    BY <1>9 DEF Outcome
  <2> QED
    BY <2>1, FailMoves
<1>10. CASE o.name \in {"cancel", "expire"}
  <2>1. cancel(r) = Write(n) \/ expire(r) = Write(n)
    BY <1>10 DEF Outcome
  <2> QED
    BY <2>1, StopMoves
<1> QED
  BY <1>1, <1>2, <1>3, <1>4, <1>5, <1>6, <1>7, <1>8, <1>9, <1>10
  DEF Operations, FrameNames

LEMMA MoveIsGood ==
  ASSUME NEW r, Good(r), NEW n \in Jobs, NEW o, NEW t \in Nat, Moves(o, r, n, t)
  PROVE  Good(n)
<1>1. CASE Offers(r, n, o.who, t)
  <2> DEFINE a == o.who
  <2>1. r.open = {} /\ n.open = {a} /\ SessionOf[a] # Nobody /\ t + LeaseSeconds # 0
    BY <1>1, IdAssumption, TimeAssumption DEF Good, Offers, Jobs
  <2>2. r.attempts \in Seq(Attempts) /\ n.attempts = Append(r.attempts, a)
        /\ a \in Attempts /\ a \notin ToSet(r.attempts)
    BY <1>1 DEF Good, Jobs, Offers
  <2>3. DOMAIN n.attempts = DOMAIN r.attempts \cup {Len(r.attempts) + 1}
    BY <2>2
  <2>4. /\ n.attempts[Len(r.attempts) + 1] = a
        /\ \A i \in DOMAIN r.attempts : n.attempts[i] = r.attempts[i] /\ r.attempts[i] # a
    BY <2>2 DEF ToSet
  <2>5. IsInjective(n.attempts)
    BY <2>3, <2>4 DEF Good, Ids, IsInjective
  <2>6. a \in ToSet(n.attempts)
    BY <2>3, <2>4 DEF ToSet
  <2> QED
    BY <1>1, <2>1, <2>5, <2>6 DEF Offers, Good, Ids, Active
<1>2. CASE Keeps(r, n, o.who)
  BY <1>2 DEF Keeps, Good, Ids, Active
<1>3. CASE Requeues(r, n, o.who)
  <2>1. r.result \notin Attempts
    BY <1>3 DEF Requeues, Good, TERMINAL
  <2>2. n.status \notin Active /\ n.open = {} /\ n.owner = Nobody /\ n.until = 0
    BY <1>3 DEF Requeues, Active
  <2>3. Ids(n)
    BY <1>3 DEF Requeues, Good, Ids
  <2> QED
    BY <1>3, <2>1, <2>2, <2>3 DEF Requeues, Good
<1>4. CASE Ends(r, n, o.who)
  <2>1. r.result \notin Attempts /\ "local" \notin Attempts
    BY <1>4, IdAssumption DEF Ends, Good, TERMINAL
  <2>2. n.status \notin Active \cup {"queued"} /\ n.owner = Nobody /\ n.until = 0
    BY <1>4 DEF Ends, Active, TERMINAL
  <2>3. Ids(n) /\ \A a, b \in n.open : a = b
    BY <1>4 DEF Ends, Good, Ids
  <2>4. n.status \in {"queued", "cancelled", "expired"} => n.open = {}
    BY <1>4, <2>2 DEF Ends
  <2>5. n.result \in Attempts => n.status = "completed" /\ n.open = {}
    BY <1>4, <2>1 DEF Ends
  <2> QED
    BY <2>2, <2>3, <2>4, <2>5 DEF Good
<1> QED
  BY <1>1, <1>2, <1>3, <1>4 DEF Moves

-----------------------------------------------------------------------------
(* The ledger.                                                              *)

IsResult(out) == out = Same \/ out = Illegal \/ \E x : out = Write(x)

LEMMA MovedIsResult ==
  ASSUME NEW r, NEW target, NEW new
  PROVE  IsResult(Moved(r, target, new))
<1>1. CASE r.status = target
  BY <1>1 DEF Moved, IsResult
<1>2. CASE r.status # target /\ target \notin TRANSITIONS[r.status]
  BY <1>2 DEF Moved, IsResult
<1>3. CASE r.status # target /\ target \in TRANSITIONS[r.status]
  <2>1. Moved(r, target, new) = Write([new EXCEPT !.status = target])
    BY <1>3 DEF Moved
  <2> QED
    BY <2>1 DEF IsResult
<1> QED
  BY <1>1, <1>2, <1>3

LEMMA OutcomeIsResult ==
  ASSUME NEW r, NEW o \in Operations, NEW t
  PROVE  IsResult(Outcome(o, r, t))
<1> DEFINE out == Outcome(o, r, t)
<1>1. CASE o.name = "offer"
  <2>1. out = offer(r, o.who, t)
    BY <1>1 DEF Outcome
  <2>2. offer(r, o.who, t) = Same \/ offer(r, o.who, t) = Illegal
        \/ offer(r, o.who, t) =
             Write([r EXCEPT !.status = "offered", !.attempts = Append(@, o.who),
                             !.open = @ \cup {o.who}, !.owner = SessionOf[o.who],
                             !.until = t + LeaseSeconds])
    BY DEF offer
  <2> QED
    BY <2>1, <2>2 DEF IsResult
<1>2. CASE o.name \in {"accept", "start", "await_tool", "await_approval"}
  <2>1. PICK target : out = Advance(r, o.who, target)
    BY <1>2 DEF Outcome
  <2>2. out = Illegal \/ out = Moved(r, target, r)
    BY <2>1 DEF Advance
  <2> QED
    BY <2>2, MovedIsResult DEF IsResult
<1>3. CASE o.name \in {"reject", "reclaim", "forget"}
  <2>1. out = Same \/ out = Write(Requeued(r))
    BY <1>3 DEF Outcome, reject, reclaim
  <2> QED
    BY <2>1 DEF IsResult
<1>4. CASE o.name = "progress"
  <2>1. out = progress(r, o.who, t)
    BY <1>4 DEF Outcome
  <2> QED
    BY <2>1 DEF progress, IsResult
<1>5. CASE o.name = "checkpoint"
  <2>1. out = Same \/ out = Write(r)
    BY <1>5 DEF Outcome, checkpoint
  <2> QED
    BY <2>1 DEF IsResult
<1>6. CASE o.name \in {"complete", "complete_locally", "fall_back", "fail", "cancel", "expire"}
  <2>1. out = Same \/ \E target, new : out = Moved(r, target, new)
    BY <1>6 DEF Outcome, complete, complete_locally, fall_back, fail, cancel, expire
  <2> QED
    BY <2>1, MovedIsResult DEF IsResult
<1> QED
  BY <1>1, <1>2, <1>3, <1>4, <1>5, <1>6 DEF Operations, FrameNames

CallRecord ==
  [at : {"idle", "get", "save"}, op : Operations, moved : Jobs,
   fresh : BOOLEAN, tries : Nat]

(* A caller with the current revision saves a move of the current record.   *)
Computed ==
  \A c \in Callers : call[c].at = "save" /\ call[c].fresh =>
    \E t \in 0..now : Outcome(call[c].op, job, t) = Write(call[c].moved)

IInv ==
  /\ Good(job)
  /\ call \in [Callers -> CallRecord] /\ now \in 0..MaxTime
  /\ \A c \in Callers : Valid(call[c].moved) /\ call[c].op.moment <= now
  /\ Computed

LEMMA TimeFacts ==
  ASSUME IInv
  PROVE  now \in Nat /\ 0..now \subseteq Nat /\ now \in 0..now
  BY TimeAssumption DEF IInv

LEMMA GoodIsValid == ASSUME NEW r, Good(r) PROVE Valid(r) /\ r \in Jobs
  BY DEF Good, Ids, Valid

LEMMA NewJobIsGood == Good(NewJob)
<1>1. NewJob \in Jobs
  BY DEF NewJob, Jobs, States
<1>2. Ids(NewJob)
  BY DEF NewJob, Ids, IsInjective
<1> QED
  BY <1>1, <1>2, IdAssumption DEF Good, NewJob, Active

LEMMA IdleFacts == Idle \in CallRecord /\ Idle.at = "idle" /\ Valid(Idle.moved) /\ Idle.op.moment = 0
<1>1. NoOp \in Operations /\ NoOp.moment = 0
  BY DEF NoOp, Op, Operations
<1> QED
  BY <1>1, NewJobIsGood, GoodIsValid DEF Idle, CallRecord

(* A caller changes, the record and the clock do not.                       *)
LEMMA CallToInv ==
  ASSUME IInv, NEW c \in Callers, NEW new \in CallRecord, CallTo(c, new),
         UNCHANGED <<job, now>>, Valid(new.moved), new.op.moment <= now,
         new.at = "save" /\ new.fresh =>
           \E t \in 0..now : Outcome(new.op, job, t) = Write(new.moved)
  PROVE  IInv'
<1>1. /\ call' \in [Callers -> CallRecord] /\ call'[c] = new
      /\ \A d \in Callers \ {c} : call'[d] = call[d]
  BY DEF IInv, CallTo
<1>2. \A d \in Callers : Valid(call'[d].moved) /\ call'[d].op.moment <= now
  BY <1>1 DEF IInv
<1>3. Computed'
  <2> SUFFICES ASSUME NEW d \in Callers, call'[d].at = "save", call'[d].fresh
               PROVE  \E t \in 0..now : Outcome(call'[d].op, job, t) = Write(call'[d].moved)
    BY DEF Computed
  <2>1. CASE d = c
    BY <1>1, <2>1
  <2>2. CASE d # c
    BY <1>1, <2>2 DEF IInv, Computed
  <2> QED
    BY <2>1, <2>2
<1> QED
  BY <1>1, <1>2, <1>3 DEF IInv

LEMMA ReadInv ==
  ASSUME IInv, NEW c \in Callers, NEW o \in Operations, o.moment <= now,
         NEW tries \in Nat, Read(c, o, tries)
  PROVE  IInv'
<1> DEFINE out == Outcome(o, job, now)
<1>1. UNCHANGED <<job, now>>
  BY DEF Read
<1>2. CASE out.kind = "write"
  <2>1. PICK n : out = Write(n)
    BY <1>2, OutcomeIsResult DEF IsResult, Same, Illegal
  <2>2. n \in Jobs /\ Good(n)
    BY <2>1, OperationMoves, MoveIsGood, TimeFacts DEF IInv
  <2> DEFINE new == [at |-> "save", op |-> o, moved |-> n, fresh |-> TRUE, tries |-> tries]
  <2>3. out.job = n
    BY <2>1 DEF Write
  <2>4. CallTo(c, new)
    BY <1>2, <2>3 DEF Read
  <2>5. /\ new \in CallRecord /\ new.at = "save" /\ new.moved = n /\ new.op = o
    BY <2>2 DEF CallRecord
  <2>6. \E t \in 0..now : Outcome(o, job, t) = Write(n)
    BY <2>1, TimeFacts
  <2>7. Valid(n)
    BY <2>2, GoodIsValid
  <2> HIDE DEF new
  <2> QED
    BY <1>1, <2>4, <2>5, <2>6, <2>7, CallToInv
<1>3. CASE out.kind # "write"
  <2>1. CallTo(c, Idle)
    BY <1>3 DEF Read
  <2> QED
    BY <1>1, <2>1, IdleFacts, TimeFacts, CallToInv
<1> QED
  BY <1>2, <1>3

LEMMA DecideInv ==
  ASSUME IInv, NEW c \in Callers, NEW o \in Operations, o.moment <= now, Decide(c, o)
  PROVE  IInv'
<1> DEFINE new == [Idle EXCEPT !.at = "get", !.op = o]
<1>1. new \in CallRecord /\ new.at = "get" /\ new.moved = Idle.moved /\ new.op = o
  BY IdleFacts DEF CallRecord
<1>2. CallTo(c, new) /\ UNCHANGED <<job, now>>
  BY DEF Decide
<1> HIDE DEF new
<1> QED
  BY <1>1, <1>2, IdleFacts, CallToInv

(* A write replaces the record by a move of it.                             *)
LEMMA SaveMoves ==
  ASSUME IInv, NEW c \in Callers, Save(c)
  PROVE  \E t \in 0..now :
           /\ Outcome(call[c].op, job, t) = Write(job')
           /\ job' \in Jobs /\ Moves(call[c].op, job, job', t)
<1>1. PICK t \in 0..now : Outcome(call[c].op, job, t) = Write(job')
  BY DEF Save, IInv, Computed
<1>2. call[c].op \in Operations /\ t \in Nat
  BY TimeFacts DEF IInv, CallRecord
<1>3. job' \in Jobs /\ Moves(call[c].op, job, job', t)
  BY <1>1, <1>2, OperationMoves DEF IInv
<1> QED
  BY <1>1, <1>3

LEMMA SaveInv ==
  ASSUME IInv, NEW c \in Callers, Save(c)
  PROVE  IInv'
<1>1. Good(job')
  BY SaveMoves, MoveIsGood, TimeFacts DEF IInv
<1>2. \A d \in Callers :
        /\ [call[d] EXCEPT !.fresh = FALSE] \in CallRecord
        /\ [call[d] EXCEPT !.fresh = FALSE].moved = call[d].moved
        /\ [call[d] EXCEPT !.fresh = FALSE].op = call[d].op
        /\ [call[d] EXCEPT !.fresh = FALSE].fresh = FALSE
  BY DEF IInv, CallRecord
<1>3. call' = [d \in Callers |-> IF d = c THEN Idle ELSE [call[d] EXCEPT !.fresh = FALSE]]
      /\ UNCHANGED now
  BY DEF Save
<1>4. call' \in [Callers -> CallRecord]
  BY <1>2, <1>3, IdleFacts
<1>5. \A d \in Callers : Valid(call'[d].moved) /\ call'[d].op.moment <= now
  BY <1>2, <1>3, IdleFacts, TimeFacts DEF IInv
<1>6. \A d \in Callers : ~(call'[d].at = "save" /\ call'[d].fresh)
  BY <1>2, <1>3, IdleFacts
<1>7. Computed'
  BY <1>6 DEF Computed
<1> QED
  BY <1>1, <1>3, <1>4, <1>5, <1>7 DEF IInv

LEMMA ConflictInv ==
  ASSUME IInv, NEW c \in Callers, Conflict(c)
  PROVE  IInv'
<1> DEFINE new == [call[c] EXCEPT !.at = "get", !.tries = @ + 1]
<1>1. /\ new \in CallRecord /\ new.at = "get" /\ new.moved = call[c].moved
      /\ new.op = call[c].op
  <2>1. call[c] \in CallRecord
    BY DEF IInv
  <2>2. call[c].tries + 1 \in Nat
    BY <2>1 DEF CallRecord
  <2> QED
    BY <2>1, <2>2 DEF CallRecord
<1>2. (CallTo(c, new) \/ CallTo(c, Idle)) /\ UNCHANGED <<job, now>>
  BY DEF Conflict
<1>3. Valid(call[c].moved) /\ call[c].op.moment <= now
  BY DEF IInv
<1> HIDE DEF new
<1>4. CASE CallTo(c, new)
  BY <1>1, <1>2, <1>3, <1>4, CallToInv
<1>5. CASE CallTo(c, Idle)
  BY <1>2, <1>5, IdleFacts, TimeFacts, CallToInv
<1> QED
  BY <1>2, <1>4, <1>5

LEMMA TickInv ==
  ASSUME IInv, Tick \/ UNCHANGED vars
  PROVE  IInv'
<1>1. UNCHANGED <<job, call>> /\ now' \in 0..MaxTime /\ now <= now'
  BY TimeAssumption DEF IInv, Tick, vars
<1>2. \A c \in Callers : call[c].op.moment <= now'
  <2>1. \A c \in Callers : call[c].op.moment \in Int
    BY TimeAssumption DEF IInv, CallRecord, Operations
  <2> QED
    BY <1>1, <2>1, TimeAssumption DEF IInv
<1>3. 0..now \subseteq 0..now'
  BY <1>1, TimeAssumption DEF IInv
<1>4. Computed'
  BY <1>1, <1>3 DEF IInv, Computed
<1> QED
  BY <1>1, <1>2, <1>4 DEF IInv

LEMMA OpFacts ==
  ASSUME IInv
  PROVE  /\ \A a \in Attempts, name \in FrameNames \cup {"offer", "fall_back"} :
              /\ Op(name, a, 0) \in Operations
              /\ Op(name, a, 0).moment <= now
         /\ \A name \in {"fall_back", "fail", "complete_locally", "cancel", "expire"} :
              /\ Op(name, Nobody, 0) \in Operations
              /\ Op(name, Nobody, 0).moment <= now
         /\ Op("reclaim", Nobody, now) \in Operations
         /\ Op("reclaim", Nobody, now).moment <= now
         /\ \A s \in Sessions :
              /\ Op("forget", s, 0) \in Operations
              /\ Op("forget", s, 0).moment <= now
<1>1. now \in 0..MaxTime /\ now \in Nat /\ 0 <= now
  BY TimeFacts DEF IInv
<1>2. \A name, who, moment : Op(name, who, moment).moment = moment
  BY DEF Op
<1>3. \A a \in Attempts, name \in FrameNames \cup {"offer", "fall_back"} :
        Op(name, a, 0) \in Operations
  BY DEF Op, Operations
<1>4. \A name \in {"fall_back", "fail", "complete_locally", "cancel", "expire"} :
        Op(name, Nobody, 0) \in Operations
  BY DEF Op, Operations
<1>5. Op("reclaim", Nobody, now) \in Operations
  BY <1>1 DEF Op, Operations
<1>6. \A s \in Sessions : Op("forget", s, 0) \in Operations
  BY DEF Op, Operations
<1> QED
  BY <1>1, <1>2, <1>3, <1>4, <1>5, <1>6

LEMMA InductiveStep == IInv /\ [Next]_vars => IInv'
<1> SUFFICES ASSUME IInv, [Next]_vars PROVE IInv'
  OBVIOUS
<1>1. ASSUME NEW c \in Callers, Get(c) PROVE IInv'
  <2>1. call[c].op \in Operations /\ call[c].op.moment <= now /\ call[c].tries \in Nat
    BY DEF IInv, CallRecord
  <2> QED
    BY <1>1, <2>1, ReadInv DEF Get
<1>2. ASSUME NEW c \in Callers, NEW o \in Operations, o.moment <= now,
             Call(c, o) \/ Decide(c, o)
      PROVE  IInv'
  BY <1>2, ReadInv, DecideInv DEF Call
<1>3. ASSUME NEW c \in Callers, Cancel(c) PROVE IInv'
  BY <1>2, <1>3, OpFacts DEF Cancel
<1>4. ASSUME NEW c \in Callers, FallBack(c) PROVE IInv'
  <2>1. current_attempt(job) \subseteq Attempts
    BY DEF current_attempt, IInv, Good, Jobs
  <2> QED
    BY <1>2, <1>4, <2>1, OpFacts DEF FallBack
<1>5. ASSUME NEW c \in Callers, SettleLocally(c) PROVE IInv'
  BY <1>2, <1>5, OpFacts DEF SettleLocally
<1>6. ASSUME NEW c \in Callers, Sweep(c) PROVE IInv'
  BY <1>2, <1>6, OpFacts DEF Sweep
<1>7. ASSUME NEW c \in Callers, NEW s \in Sessions, Reconcile(c, s) PROVE IInv'
  BY <1>2, <1>7, OpFacts DEF Reconcile
<1>8. ASSUME NEW c \in Callers, NEW a \in Attempts, OfferJob(c, a) PROVE IInv'
  BY <1>2, <1>8, OpFacts DEF OfferJob
<1>9. ASSUME NEW c \in Callers, NEW a \in Attempts, NEW name \in FrameNames, Frame(c, a, name)
      PROVE  IInv'
  BY <1>2, <1>9, OpFacts DEF Frame
<1> QED
  BY <1>1, <1>3, <1>4, <1>5, <1>6, <1>7, <1>8, <1>9, SaveInv, ConflictInv, TickInv DEF Next

(* The inductive invariant of the ledger.                                   *)
THEOREM Invariance == Spec => []IInv
<1>1. ASSUME Init PROVE IInv
  <2>1. \A c \in Callers : call[c] = Idle
    BY <1>1 DEF Init
  <2>2. call \in [Callers -> CallRecord] /\ now \in 0..MaxTime /\ now = 0
    BY <1>1, IdleFacts, TimeAssumption DEF Init
  <2>3. Computed
    BY <2>1, IdleFacts DEF Computed
  <2> QED
    BY <1>1, <2>1, <2>2, <2>3, IdleFacts, NewJobIsGood DEF Init, IInv
<1> QED
  BY <1>1, InductiveStep, PTL DEF Spec

(* The job, and every record about to be saved, is one its model accepts.   *)
THEOREM TypeCorrect == Spec => []TypeOK
<1>1. IInv => TypeOK
  BY GoodIsValid DEF IInv, TypeOK, CallRecord
<1> QED
  BY <1>1, Invariance, PTL

(* At most one attempt is open, and a lease is held exactly by its session. *)
THEOREM Ownership == Spec => []OneOwner
<1>1. IInv => OneOwner
  BY DEF IInv, Good, OneOwner
<1> QED
  BY <1>1, Invariance, PTL

LEMMA JobChanges ==
  ASSUME IInv, [Next]_vars, job' # job
  PROVE  \E c \in Callers : Save(c)
  BY DEF Next, Get, Read, Conflict, Call, Decide, OfferJob, Frame, Cancel, FallBack,
         SettleLocally, Sweep, Reconcile, Tick, vars

(* Only transitions computed from the current record are ever written.      *)
THEOREM WritesFit == Spec => WritesAreTransitions
<1>1. IInv /\ [Next]_vars =>
        [\E c \in Callers, t \in 0..now :
           call[c].at = "save" /\ Outcome(call[c].op, job, t) = Write(job')]_job
  BY JobChanges, SaveMoves DEF Save
<1> QED
  BY <1>1, Invariance, PTL DEF Spec, WritesAreTransitions

LEMMA JobMoves ==
  ASSUME IInv, [Next]_vars, job' # job
  PROVE  \E o \in Operations, t \in Nat : Moves(o, job, job', t)
<1>1. PICK c \in Callers : Save(c)
  BY JobChanges
<1>2. PICK t \in 0..now : Moves(call[c].op, job, job', t)
  BY <1>1, SaveMoves
<1>3. call[c].op \in Operations /\ t \in Nat
  BY TimeFacts DEF IInv, CallRecord
<1> QED
  BY <1>2, <1>3

(* A result is taken from the attempt that owns the job, or from nobody.    *)
THEOREM ResultIsOwned == Spec => ResultFromOwner
<1>1. IInv /\ [Next]_vars =>
        [job'.result # job.result /\ job'.result # "local" => owns(job, job'.result)]_job
  BY JobMoves, CurrentIsOpen DEF IInv, Moves, Offers, Keeps, Requeues, Ends
<1> QED
  BY <1>1, Invariance, PTL DEF Spec, ResultFromOwner

(* Cancelled, expired and delivered jobs are never written again.           *)
THEOREM SettledIsKept == Spec => SettledIsFinal
<1>1. IInv /\ [Next]_vars =>
        [(job.status \in {"cancelled", "expired"} \/ job.result \in Attempts) => FALSE]_job
  <2> SUFFICES ASSUME IInv, [Next]_vars, job' # job,
                      job.status \in {"cancelled", "expired"} \/ job.result \in Attempts
               PROVE  FALSE
    OBVIOUS
  <2>1. job.open = {} /\ job.status \in TERMINAL /\ job.status # "queued"
    BY DEF IInv, Good, TERMINAL
  <2> QED
    BY <2>1, JobMoves DEF Moves, Offers, Keeps, Requeues, Ends
<1> QED
  BY <1>1, Invariance, PTL DEF Spec, SettledIsFinal

(* A sweep never takes a lease that is live when it writes.                 *)
THEOREM LeaseIsKept == Spec => LiveLeaseKept
<1>1. ASSUME IInv, [Next]_vars, NEW c \in Callers, call[c].at = "save",
             call[c].op.name = "reclaim", call'[c] = Idle, job' # job
      PROVE  lease_expired(job, now)
  <2>1. PICK d \in Callers : Save(d)
    BY <1>1, JobChanges
  <2>2. d = c
    <3>1. CASE d # c
      <4>1. call'[c].at = call[c].at
        BY <2>1, <3>1, <1>1 DEF Save, IInv, CallRecord
      <4> QED
        BY <1>1, <4>1, IdleFacts
    <3> QED
      BY <3>1
  <2>3. PICK t \in 0..now : Outcome(call[c].op, job, t) = Write(job')
    BY <1>1, <2>1, <2>2, SaveMoves
  <2>4. reclaim(job, call[c].op.moment) = Write(job')
    BY <1>1, <2>3 DEF Outcome
  <2>5. lease_expired(job, call[c].op.moment)
    BY <2>4 DEF reclaim, Same, Write
  <2>6. call[c].op.moment <= now /\ call[c].op.moment \in Int /\ now \in Int /\ job.until \in Int
    BY <1>1, TimeAssumption DEF IInv, CallRecord, Operations, Good, Jobs
  <2> QED
    BY <2>5, <2>6 DEF lease_expired
<1>2. IInv /\ [Next]_vars =>
        [\A c \in Callers :
           call[c].at = "save" /\ call[c].op.name = "reclaim" /\ call'[c] = Idle
             => job' = job \/ lease_expired(job, now)]_vars
  BY <1>1
<1> QED
  BY <1>2, Invariance, PTL DEF Spec, LiveLeaseKept

(* What FallbackIsOneWay fails for is an attempt left open when the job      *)
(* falls back: with none open, Iridium has the job to itself.               *)
Closed(r) == r.open = {} /\ r.status \in TERMINAL \cup {"falling_back"}
ClosedStays ==
  [][Closed(job) => /\ Closed(job')
                    /\ job'.attempts = job.attempts
                    /\ job'.result \in {job.result, "local"}]_job

(* A job that fell back or ended with no attempt open is never offered      *)
(* again, and no device adds a result to it: no late frame, sweep or        *)
(* reconnect gets at it.                                                    *)
THEOREM ClosedIsLeft == Spec => ClosedStays
<1>1. IInv /\ [Next]_vars =>
        [Closed(job) => /\ Closed(job')
                        /\ job'.attempts = job.attempts
                        /\ job'.result \in {job.result, "local"}]_job
  <2> SUFFICES ASSUME IInv, [Next]_vars, job' # job, Closed(job)
               PROVE  /\ Closed(job')
                      /\ job'.attempts = job.attempts
                      /\ job'.result \in {job.result, "local"}
    OBVIOUS
  <2>1. job.open = {} /\ job.owner = Nobody /\ job.status # "queued"
    BY DEF Closed, IInv, Good, TERMINAL, Active
  <2>2. PICK o \in Operations : Ends(job, job', o.who)
    BY <2>1, JobMoves DEF Moves, Offers, Keeps, Requeues
  <2> QED
    BY <2>1, <2>2 DEF Ends, Closed
<1> QED
  BY <1>1, Invariance, PTL DEF Spec, ClosedStays

(* What ReconcileLeavesOthers fails for: between the listing a             *)
(* reconciliation decides on and its write, another caller hands the job    *)
(* over.                                                                    *)
Forgetting(c) == call[c].at # "idle" /\ call[c].op.name = "forget"
HandedOver ==
  \E c \in Callers : \E d \in Callers \ {c} :
    Forgetting(c) /\ Save(d) /\ job'.owner # job.owner

Undisturbed == \A c \in Callers : Forgetting(c) => job.owner = call[c].op.who

LEMMA UndisturbedRead ==
  ASSUME IInv, Undisturbed, NEW c \in Callers, NEW o, NEW tries,
         Read(c, o, tries) \/ Decide(c, o),
         o.name = "forget" => job.owner = o.who
  PROVE  Undisturbed'
<1>1. PICK new : CallTo(c, new) /\ (new = Idle \/ new.op = o) /\ UNCHANGED job
  <2>1. CASE Read(c, o, tries)
    <3> DEFINE out == Outcome(o, job, now)
               saves == [at |-> "save", op |-> o, moved |-> out.job, fresh |-> TRUE,
                         tries |-> tries]
    <3>1. saves.op = o
      OBVIOUS
    <3>2. (CallTo(c, saves) \/ CallTo(c, Idle)) /\ UNCHANGED job
      BY <2>1 DEF Read
    <3> HIDE DEF saves
    <3> QED
      BY <3>1, <3>2
  <2>2. CASE Decide(c, o)
    <3> DEFINE decided == [Idle EXCEPT !.at = "get", !.op = o]
    <3>1. decided.op = o
      BY DEF Idle
    <3>2. CallTo(c, decided) /\ UNCHANGED job
      BY <2>2 DEF Decide
    <3> HIDE DEF decided
    <3> QED
      BY <3>1, <3>2
  <2> QED
    BY <2>1, <2>2
<1>2. call'[c] = new /\ \A d \in Callers \ {c} : call'[d] = call[d]
  BY <1>1 DEF IInv, CallTo
<1>3. ASSUME NEW d \in Callers, Forgetting(d)' PROVE job'.owner = call'[d].op.who
  <2>1. CASE d = c
    BY <1>1, <1>2, <1>3, <2>1, IdleFacts DEF Forgetting
  <2>2. CASE d # c
    BY <1>1, <1>2, <1>3, <2>2 DEF Undisturbed, Forgetting
  <2> QED
    BY <2>1, <2>2
<1> QED
  BY <1>3 DEF Undisturbed

LEMMA UndisturbedSave ==
  ASSUME IInv, Undisturbed, NEW d \in Callers, Save(d), ~HandedOver
  PROVE  Undisturbed'
<1>1. call'[d] = Idle
  BY DEF Save, IInv
<1>2. \A c \in Callers \ {d} : call'[c].at = call[c].at /\ call'[c].op = call[c].op
  BY DEF Save, IInv, CallRecord
<1>3. ASSUME NEW c \in Callers, Forgetting(c)' PROVE job'.owner = call'[c].op.who
  <2>1. c # d
    BY <1>1, <1>3, IdleFacts DEF Forgetting
  <2>2. Forgetting(c) /\ call'[c].op = call[c].op
    BY <1>2, <1>3, <2>1 DEF Forgetting
  <2> QED
    BY <2>1, <2>2 DEF Undisturbed, HandedOver
<1> QED
  BY <1>3 DEF Undisturbed

LEMMA UndisturbedStep ==
  ASSUME IInv, Undisturbed, [Next]_vars, ~HandedOver
  PROVE  Undisturbed'
<1>1. ASSUME NEW c \in Callers, Get(c) PROVE Undisturbed'
  <2>1. call[c].op.name = "forget" => job.owner = call[c].op.who
    BY <1>1 DEF Get, Undisturbed, Forgetting
  <2> QED
    BY <1>1, <2>1, UndisturbedRead DEF Get
<1>2. ASSUME NEW c \in Callers, NEW o, Call(c, o) \/ Decide(c, o),
             o.name = "forget" => job.owner = o.who
      PROVE  Undisturbed'
  BY <1>2, UndisturbedRead DEF Call
<1>3. \A name, who, moment : Op(name, who, moment).name = name /\ Op(name, who, moment).who = who
  BY DEF Op
<1>4. ASSUME NEW c \in Callers, Cancel(c) \/ FallBack(c) \/ SettleLocally(c) \/ Sweep(c)
      PROVE  Undisturbed'
  BY <1>2, <1>3, <1>4 DEF Cancel, FallBack, SettleLocally, Sweep
<1>5. ASSUME NEW c \in Callers, NEW s \in Sessions, Reconcile(c, s) PROVE Undisturbed'
  BY <1>2, <1>3, <1>5 DEF Reconcile
<1>6. ASSUME NEW c \in Callers, NEW a \in Attempts,
             OfferJob(c, a) \/ \E name \in FrameNames : Frame(c, a, name)
      PROVE  Undisturbed'
  BY <1>2, <1>3, <1>6 DEF OfferJob, Frame, FrameNames
<1>7. ASSUME NEW c \in Callers, Conflict(c) PROVE Undisturbed'
  <2>1. /\ UNCHANGED job
        /\ \/ call'[c] = Idle
           \/ call'[c].op = call[c].op /\ call[c].at # "idle"
        /\ \A d \in Callers \ {c} : call'[d] = call[d]
    BY <1>7 DEF Conflict, CallTo, IInv, CallRecord
  <2> QED
    BY <2>1, IdleFacts DEF Undisturbed, Forgetting
<1>8. CASE Tick \/ UNCHANGED vars
  BY <1>8 DEF Tick, vars, Undisturbed, Forgetting
<1> QED
  BY <1>1, <1>4, <1>5, <1>6, <1>7, <1>8, UndisturbedSave DEF Next

(* Reconciling for one session disturbs the work of another only if the job *)
(* changes hands while reconcile is under way: it decides on the owner it   *)
(* listed, and its forced reclaim does not ask again.                       *)
THEOREM ReconcileUnlessHandedOver ==
  Spec /\ [][~HandedOver]_vars => ReconcileLeavesOthers
<1>1. Init => Undisturbed
  BY IdleFacts DEF Init, Undisturbed, Forgetting
<1>2. IInv /\ Undisturbed /\ [Next]_vars /\ [~HandedOver]_vars => Undisturbed'
  <2>1. ASSUME Undisturbed, UNCHANGED vars PROVE Undisturbed'
    BY <2>1 DEF vars, Undisturbed, Forgetting
  <2> QED
    BY <2>1, UndisturbedStep
<1>3. ASSUME IInv, Undisturbed, [Next]_vars, NEW c \in Callers, call[c].at = "save",
             call[c].op.name = "forget"
      PROVE  job.owner = call[c].op.who
  BY <1>3 DEF Undisturbed, Forgetting
<1>4. IInv /\ Undisturbed /\ [Next]_vars =>
        [\A c \in Callers :
           call[c].at = "save" /\ call[c].op.name = "forget" /\ job' # job
             /\ call'[c] = Idle => job.owner = call[c].op.who]_vars
  BY <1>3
<1> QED
  BY <1>1, <1>2, <1>4, Invariance, PTL DEF Spec, ReconcileLeavesOthers

-----------------------------------------------------------------------------
(* The place of the only open attempt.                                      *)
LEMMA OwningAttemptFacts ==
  ASSUME NEW r, Good(r)
  PROVE  /\ r.open = {} => OwningAttempt(r) = 0
         /\ \A i \in DOMAIN r.attempts :
              r.attempts[i] \in r.open => OwningAttempt(r) = i
         /\ OwningAttempt(r) \in 0..Len(r.attempts)
         /\ r.open # {} => /\ OwningAttempt(r) \in DOMAIN r.attempts
                             /\ r.attempts[OwningAttempt(r)] \in r.open
<1>1. /\ r.attempts \in Seq(Attempts) /\ r.open \subseteq ToSet(r.attempts)
      /\ IsInjective(r.attempts) /\ \A a, b \in r.open : a = b
  BY DEF Good, Ids, Jobs
<1>2. ASSUME NEW i \in DOMAIN r.attempts, r.attempts[i] \in r.open
      PROVE  OwningAttempt(r) = i
  <2>1. \A j \in DOMAIN r.attempts : r.attempts[j] \in r.open => j = i
    BY <1>1, <1>2 DEF IsInjective
  <2> QED
    BY <1>2, <2>1 DEF OwningAttempt
<1>3. ASSUME r.open # {}
      PROVE  \E i \in DOMAIN r.attempts : r.attempts[i] \in r.open
  BY <1>1, <1>3 DEF ToSet
<1>4. r.open = {} => OwningAttempt(r) = 0
  BY DEF OwningAttempt
<1>5. r.open # {} => /\ OwningAttempt(r) \in DOMAIN r.attempts
                       /\ r.attempts[OwningAttempt(r)] \in r.open
  BY <1>2, <1>3
<1>6. DOMAIN r.attempts = 1..Len(r.attempts) /\ Len(r.attempts) \in Nat
  BY <1>1
<1>7. OwningAttempt(r) \in 0..Len(r.attempts)
  <2>1. CASE r.open = {}
    BY <1>4, <1>6, <2>1
  <2>2. CASE r.open # {}
    BY <1>5, <1>6, <2>2
  <2> QED
    BY <2>1, <2>2
<1> QED
  BY <1>2, <1>4, <1>5, <1>7

LEMMA PromiseStep ==
  ASSUME IInv, IInv', [Next]_vars
  PROVE  [Promise!Next]_(Promise!vars)
<1>1. CASE job' = job
  BY <1>1 DEF Promise!vars
<1>2. ASSUME NEW o \in Operations, NEW t \in Nat, Moves(o, job, job', t)
      PROVE  [Promise!Next]_(Promise!vars)
  <2>1. CASE Offers(job, job', o.who, t)
    <3>1. /\ job.open = {} /\ job'.open = {o.who}
          /\ job.attempts \in Seq(Attempts) /\ o.who \in Attempts
          /\ job'.attempts = Append(job.attempts, o.who)
      BY <2>1 DEF Offers, IInv, Good, Jobs
    <3>2. /\ Len(job'.attempts) = Len(job.attempts) + 1
          /\ Len(job.attempts) + 1 \in DOMAIN job'.attempts
          /\ job'.attempts[Len(job.attempts) + 1] \in job'.open
      BY <3>1
    <3>3. OwningAttempt(job') = Len(job.attempts) + 1
      BY <3>2, OwningAttemptFacts DEF IInv
    <3>4. OwningAttempt(job) = 0
      BY <3>1, OwningAttemptFacts DEF IInv
    <3> QED
      BY <3>2, <3>3, <3>4 DEF Promise!Next, Promise!Offer
  <2>2. ASSUME job'.attempts = job.attempts, job'.open \subseteq job.open
        PROVE  [Promise!Next]_(Promise!vars)
    <3>1. CASE job'.open = {}
      <4>1. OwningAttempt(job') = 0
        BY <3>1, OwningAttemptFacts DEF IInv
      <4>2. CASE OwningAttempt(job) = 0
        BY <2>2, <4>1, <4>2 DEF Promise!vars
      <4>3. CASE OwningAttempt(job) # 0
        BY <2>2, <4>1, <4>3 DEF Promise!Next, Promise!Lose
      <4> QED
        BY <4>2, <4>3
    <3>2. CASE job'.open # {}
      <4>1. /\ OwningAttempt(job') \in DOMAIN job'.attempts
            /\ job'.attempts[OwningAttempt(job')] \in job'.open
        BY <3>2, OwningAttemptFacts DEF IInv
      <4>2. OwningAttempt(job') = OwningAttempt(job)
        BY <2>2, <4>1, OwningAttemptFacts DEF IInv
      <4> QED
        BY <2>2, <4>2 DEF Promise!vars
    <3> QED
      BY <3>1, <3>2
  <2> QED
    BY <1>2, <2>1, <2>2 DEF Moves, Keeps, Requeues, Ends
<1> QED
  BY <1>1, <1>2, JobMoves

(* The ledger, with all its concurrent callers, implements the abstract job *)
(* that the ledger of tool calls is built on.                               *)
THEOREM Implementation == Spec => OwnershipSpec
<1>1. Init => Promise!Init
  BY DEF Init, NewJob, Promise!Init, OwningAttempt
<1>2. IInv /\ IInv' /\ [Next]_vars => [Promise!Next]_(Promise!vars)
  BY PromiseStep
<1> QED
  BY <1>1, <1>2, Invariance, PTL DEF Spec, OwnershipSpec, Promise!Spec

(* An attempt that lost the job, by whatever frame, sweep, reconnect or     *)
(* fallback, never owns it again.                                           *)
THEOREM LostIsLost == Spec => Promise!LostForGood
<1>1. ASSUME IInv, IInv', [Next]_vars, NEW a \in 1..Len(job.attempts), OwningAttempt(job) # a
      PROVE  OwningAttempt(job') # a
  <2>1. Len(job.attempts) \in Nat
    BY DEF IInv, Good, Jobs
  <2> QED
    BY <1>1, <2>1, PromiseStep DEF Promise!Next, Promise!Offer, Promise!Lose, Promise!vars
<1>2. IInv /\ IInv' /\ [Next]_vars =>
        [\A a \in 1..Len(job.attempts) :
           OwningAttempt(job) # a => OwningAttempt(job)' # a]_(Promise!vars)
  BY <1>1
<1> QED
  BY <1>2, Invariance, PTL DEF Spec, Promise!LostForGood
=============================================================================
