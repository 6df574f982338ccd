------------------------ MODULE CompanionSession_proofs ------------------------
(***************************************************************************)
(* Proofs about turns that ask the phone, for any number of turns, routes, *)
(* tool calls and sessions.                                                *)
(*                                                                         *)
(* Good(t) ties the attempt of a turn to the place of its companion arm:   *)
(* while the arm waits, an attempt that is not listed has an outcome, and  *)
(* one whose outcome is the loss of the session belongs to an earlier one. *)
(* A step touches one turn, or it ends the current session for all.        *)
(***************************************************************************)
EXTENDS CompanionSession, TLAPS

AttemptType ==
  [session : 0..MaxSessions, listed : BOOLEAN, known : BOOLEAN,
   accept : {"open", "yes", "no"}, result : {"open", "ok", "failed", "lost"},
   tools : 0..MaxInFlight, left : Nat]
TurnType ==
  [arm : Places,
   got : {"none", "value", "failed", "declined", "unsent", "cancelled", "interrupted"},
   local : {"off", "run", "value", "raised", "cancelled"},
   answer : {"none", "companion", "local", "nothing", "raised", "cancelled"},
   told : BOOLEAN]

Waiting == {"send", "accept", "result"}
CutOff == {"cancelled", "interrupted"}

(* The attempt by itself.                                                   *)
AttemptGood(a) ==
  /\ a \in AttemptType /\ a.session <= opened
  /\ a.known => a.session # 0
  /\ a.listed => /\ a.session = current /\ a.session # 0
                 /\ a.result = "open" /\ a.accept # "no"

(* The turn by itself.                                                      *)
TurnGood(t, r) ==
  /\ r \in TurnType
  /\ r.arm = "idle" => r = NotStarted
  /\ r.arm \notin {"tell", "ended"} => r.got = "none"
  /\ r.arm = "tell" => r.got \in {"declined", "failed", "cancelled"}
  /\ Mode[t] # "both" => /\ r.arm # "ended" => r.local = "off" /\ r.answer = "none"
                         /\ r.local # "off" => r.got \notin {"value"} \cup CutOff
                         /\ r.local = "run" => r.answer = "none"
  /\ Mode[t] # "both" /\ r.arm = "ended" /\ r.answer = "none" => r.local = "run"
  /\ Mode[t] = "both" => /\ r.got \notin CutOff
                         /\ r.arm # "idle" => r.local \in {"run", "value", "raised"}
  /\ r.answer \in {"companion", "local", "nothing"} =>
       r.arm = "ended" /\ r.local # "run" /\ r.got \notin CutOff

(* Both together.                                                           *)
Tied(a, r) ==
  /\ r.arm \in {"idle", "offer"} => a = NoAttempt
  /\ r.arm \in Waiting =>
       /\ a.session # 0
       /\ ~a.listed => a.result # "open"
       /\ ~a.listed /\ a.accept = "open" => a.result = "ok"
       /\ a.result = "lost" => a.session # current
  /\ r.arm \in {"tell", "ended"} /\ a.listed => r.got = "interrupted"
  /\ ~a.listed => a.tools = 0 \/ r.got \in {"unsent"} \cup CutOff
  /\ r.arm = "ended" /\ a.known /\ r.got \notin {"unsent", "interrupted"} =>
       r.told \/ PhoneEnded(a) \/ a.session # current

Good(t) == AttemptGood(attempt[t]) /\ TurnGood(t, turn[t]) /\ Tied(attempt[t], turn[t])

SessionsGood ==
  /\ opened \in 0..MaxSessions /\ current \in 0..opened /\ sockets \subseteq 1..opened
BreakerGood == failures \in 0..(FailureBudget - 1) /\ paused \in BOOLEAN
IsFcn == attempt = [t \in Turns |-> attempt[t]] /\ turn = [t \in Turns |-> turn[t]]

SessionInv == SessionsGood /\ BreakerGood /\ IsFcn /\ \A t \in Turns : Good(t)

-----------------------------------------------------------------------------
LEMMA CountBreaker == ASSUME BreakerGood, NEW got, Count(got) PROVE BreakerGood'
<1>1. failures' \in 0..(FailureBudget - 1)
  BY SessionAssumption DEF BreakerGood, Count
<1>2. paused' = TRUE \/ paused' = paused
  BY DEF Count
<1> QED BY <1>1, <1>2 DEF BreakerGood

(* A step of one turn leaves the others as they are.                        *)
LEMMA OneTurn ==
  ASSUME SessionInv, NEW t \in Turns, UNCHANGED sessionVars, BreakerGood',
         NEW a, attempt' = [attempt EXCEPT ![t] = a],
         NEW r, turn' = [turn EXCEPT ![t] = r],
         AttemptGood(a), TurnGood(t, r), Tied(a, r)
  PROVE  SessionInv'
<1>1. SessionsGood' /\ IsFcn'
  BY DEF SessionInv, SessionsGood, IsFcn, sessionVars
<1>2. current' = current /\ opened' = opened
  BY DEF sessionVars
<1>3. ASSUME NEW u \in Turns PROVE Good(u)'
  <2>1. CASE u = t
    <3>1. attempt'[t] = a /\ turn'[t] = r
      BY DEF SessionInv, IsFcn
    <3> QED BY <1>2, <2>1, <3>1 DEF Good, AttemptGood, Tied
  <2>2. CASE u # t
    <3>1. attempt'[u] = attempt[u] /\ turn'[u] = turn[u]
      BY <2>2 DEF SessionInv, IsFcn
    <3> QED BY <1>2, <3>1 DEF SessionInv, Good, AttemptGood, Tied
  <2> QED BY <2>1, <2>2
<1> QED BY <1>1, <1>3 DEF SessionInv

(* What the helpers do to an attempt.                                       *)
LEMMA AcceptFields ==
  ASSUME NEW a \in AttemptType, NEW verdict \in {"yes", "no"}
  PROVE  LET b == Accept(a, verdict) IN
         /\ b \in AttemptType
         /\ b.session = a.session /\ b.listed = a.listed /\ b.known = a.known
         /\ b.accept = IF a.accept = "open" THEN verdict ELSE a.accept
         /\ b.result = a.result /\ b.tools = a.tools
BY DEF Accept, AttemptType

LEMMA DropFields ==
  ASSUME NEW a \in AttemptType
  PROVE  LET b == Drop(a) IN
         /\ b \in AttemptType
         /\ b.session = a.session /\ ~b.listed /\ b.known = a.known
         /\ b.accept = a.accept /\ b.result = a.result /\ b.tools = a.tools
BY DEF Drop, AttemptType

LEMMA ResolveFields ==
  ASSUME NEW a \in AttemptType, NEW outcome \in {"ok", "failed", "lost"}
  PROVE  LET b == Resolve(a, outcome) IN
         /\ b \in AttemptType
         /\ b.session = a.session /\ b.listed = a.listed /\ b.known = a.known
         /\ b.accept = a.accept
         /\ b.result = IF a.result = "open" THEN outcome ELSE a.result
         /\ b.tools = 0
<1> DEFINE c == [a EXCEPT !.result = IF @ = "open" THEN outcome ELSE @]
<1>1. /\ c \in AttemptType /\ c.session = a.session /\ c.listed = a.listed /\ c.known = a.known
      /\ c.accept = a.accept /\ c.result = IF a.result = "open" THEN outcome ELSE a.result
  BY DEF AttemptType
<1>2. Resolve(a, outcome) = [c EXCEPT !.tools = 0]
  BY DEF Resolve, Retire
<1> HIDE DEF c
<1>3. 0 \in 0..MaxInFlight
  BY SessionAssumption
<1> QED BY <1>1, <1>2, <1>3 DEF AttemptType

LEMMA NoAttemptGood == ASSUME SessionsGood PROVE AttemptGood(NoAttempt)
BY SessionAssumption DEF SessionsGood, AttemptGood, AttemptType, NoAttempt

(* A frame of the phone, a tool call.                                       *)
LEMMA FrameStep == ASSUME SessionInv, NEW t \in Turns, Frame(t) PROVE SessionInv'
<1> DEFINE a == attempt[t]
           r == turn[t]
<1>0. /\ AttemptGood(a) /\ TurnGood(t, r) /\ Tied(a, r) /\ BreakerGood /\ SessionsGood
      /\ turn = [turn EXCEPT ![t] = r]
  BY DEF SessionInv, Good, IsFcn
<1>1. ASSUME HandleAccept(t) PROVE SessionInv'
  <2> DEFINE b == Accept(attempt[t], "yes")
  <2>1. /\ attempt' = [attempt EXCEPT ![t] = b] /\ UNCHANGED <<sessionVars, turn, breakerVars>>
    BY <1>1 DEF HandleAccept, AttemptTo
  <2>2. AttemptGood(b) /\ Tied(b, r)
    BY <1>0, <1>1, SessionAssumption DEF HandleAccept, Reads, Drop, Accept, Retire, Resolve, SessionsGood,
       NoAttempt, AttemptGood, AttemptType, TurnGood, TurnType, Tied, Waiting, CutOff, Places, PhoneEnded
  <2>3. turn' = [turn EXCEPT ![t] = r] /\ BreakerGood'
    BY <1>0, <2>1 DEF BreakerGood, breakerVars
  <2> HIDE DEF a, b, r
  <2>4. turn' = [turn EXCEPT ![t] = r] /\ TurnGood(t, r) /\ UNCHANGED sessionVars
    BY <1>0, <2>1, <2>3
  <2> QED BY <2>1, <2>2, <2>3, <2>4, OneTurn
<1>2. ASSUME HandleReject(t) PROVE SessionInv'
  <2> DEFINE b == Drop(Resolve(Accept(attempt[t], "no"), "failed"))
  <2>1. /\ attempt' = [attempt EXCEPT ![t] = b] /\ UNCHANGED <<sessionVars, turn, breakerVars>>
    BY <1>2 DEF HandleReject, AttemptTo
  <2>5. attempt[t] \in AttemptType /\ attempt[t].listed /\ attempt[t].known
    BY <1>0, <1>2 DEF AttemptGood, HandleReject, Reads
  <2>6. /\ b \in AttemptType /\ b.session = a.session /\ ~b.listed /\ b.known = a.known
        /\ b.accept = (IF a.accept = "open" THEN "no" ELSE a.accept)
        /\ b.result = (IF a.result = "open" THEN "failed" ELSE a.result) /\ b.tools = 0
    <3> DEFINE x == Accept(attempt[t], "no")
               y == Resolve(x, "failed")
    <3>1. x \in AttemptType /\ x.session = a.session /\ x.known = a.known /\ x.result = a.result
          /\ x.accept = (IF a.accept = "open" THEN "no" ELSE a.accept)
      BY <2>5, AcceptFields
    <3> HIDE DEF x
    <3>2. y \in AttemptType /\ y.session = x.session /\ y.known = x.known /\ y.accept = x.accept
          /\ y.result = (IF x.result = "open" THEN "failed" ELSE x.result) /\ y.tools = 0
      BY <3>1, ResolveFields
    <3>3. b = Drop(y)
      BY DEF x
    <3> HIDE DEF y
    <3>4. /\ Drop(y) \in AttemptType /\ Drop(y).session = y.session /\ ~Drop(y).listed
          /\ Drop(y).known = y.known /\ Drop(y).accept = y.accept
          /\ Drop(y).result = y.result /\ Drop(y).tools = y.tools
      BY <3>2, DropFields
    <3> HIDE DEF b
    <3> QED BY <3>1, <3>2, <3>3, <3>4
  <2>2. AttemptGood(b) /\ Tied(b, r)
    <3> HIDE DEF b
    <3> QED BY <1>0, <2>5, <2>6 DEF NoAttempt, AttemptGood, TurnGood, Tied, Waiting, PhoneEnded
  <2>3. turn' = [turn EXCEPT ![t] = r] /\ BreakerGood'
    BY <1>0, <2>1 DEF BreakerGood, breakerVars
  <2> HIDE DEF a, b, r
  <2>4. turn' = [turn EXCEPT ![t] = r] /\ TurnGood(t, r) /\ UNCHANGED sessionVars
    BY <1>0, <2>1, <2>3
  <2> QED BY <2>1, <2>2, <2>3, <2>4, OneTurn
<1>3. ASSUME HandleResult(t) PROVE SessionInv'
  <2> DEFINE b == Drop(Resolve(attempt[t], "ok"))
  <2>1. /\ attempt' = [attempt EXCEPT ![t] = b] /\ UNCHANGED <<sessionVars, turn, breakerVars>>
    BY <1>3 DEF HandleResult, AttemptTo
  <2>5. attempt[t] \in AttemptType /\ attempt[t].listed /\ attempt[t].known
    BY <1>0, <1>3 DEF AttemptGood, HandleResult, Reads
  <2>6. /\ b \in AttemptType /\ b.session = a.session /\ ~b.listed /\ b.known = a.known
        /\ b.accept = a.accept
        /\ b.result = (IF a.result = "open" THEN "ok" ELSE a.result) /\ b.tools = 0
    <3> DEFINE x == attempt[t]
               y == Resolve(x, "ok")
    <3>1. x \in AttemptType /\ x.session = a.session /\ x.known = a.known /\ x.result = a.result
          /\ x.accept = a.accept
      BY <2>5, AcceptFields
    <3> HIDE DEF x
    <3>2. y \in AttemptType /\ y.session = x.session /\ y.known = x.known /\ y.accept = x.accept
          /\ y.result = (IF x.result = "open" THEN "ok" ELSE x.result) /\ y.tools = 0
      BY <3>1, ResolveFields
    <3>3. b = Drop(y)
      BY DEF x
    <3> HIDE DEF y
    <3>4. /\ Drop(y) \in AttemptType /\ Drop(y).session = y.session /\ ~Drop(y).listed
          /\ Drop(y).known = y.known /\ Drop(y).accept = y.accept
          /\ Drop(y).result = y.result /\ Drop(y).tools = y.tools
      BY <3>2, DropFields
    <3> HIDE DEF b
    <3> QED BY <3>1, <3>2, <3>3, <3>4
  <2>2. AttemptGood(b) /\ Tied(b, r)
    <3> HIDE DEF b
    <3> QED BY <1>0, <2>5, <2>6 DEF NoAttempt, AttemptGood, TurnGood, Tied, Waiting, PhoneEnded
  <2>3. turn' = [turn EXCEPT ![t] = r] /\ BreakerGood'
    BY <1>0, <2>1 DEF BreakerGood, breakerVars
  <2> HIDE DEF a, b, r
  <2>4. turn' = [turn EXCEPT ![t] = r] /\ TurnGood(t, r) /\ UNCHANGED sessionVars
    BY <1>0, <2>1, <2>3
  <2> QED BY <2>1, <2>2, <2>3, <2>4, OneTurn
<1>4. ASSUME HandleFailed(t) PROVE SessionInv'
  <2> DEFINE b == Drop(Resolve(Accept(attempt[t], "no"), "failed"))
  <2>1. /\ attempt' = [attempt EXCEPT ![t] = b] /\ UNCHANGED <<sessionVars, turn, breakerVars>>
    BY <1>4 DEF HandleFailed, AttemptTo
  <2>5. attempt[t] \in AttemptType /\ attempt[t].listed /\ attempt[t].known
    BY <1>0, <1>4 DEF AttemptGood, HandleFailed, Reads
  <2>6. /\ b \in AttemptType /\ b.session = a.session /\ ~b.listed /\ b.known = a.known
        /\ b.accept = (IF a.accept = "open" THEN "no" ELSE a.accept)
        /\ b.result = (IF a.result = "open" THEN "failed" ELSE a.result) /\ b.tools = 0
    <3> DEFINE x == Accept(attempt[t], "no")
               y == Resolve(x, "failed")
    <3>1. x \in AttemptType /\ x.session = a.session /\ x.known = a.known /\ x.result = a.result
          /\ x.accept = (IF a.accept = "open" THEN "no" ELSE a.accept)
      BY <2>5, AcceptFields
    <3> HIDE DEF x
    <3>2. y \in AttemptType /\ y.session = x.session /\ y.known = x.known /\ y.accept = x.accept
          /\ y.result = (IF x.result = "open" THEN "failed" ELSE x.result) /\ y.tools = 0
      BY <3>1, ResolveFields
    <3>3. b = Drop(y)
      BY DEF x
    <3> HIDE DEF y
    <3>4. /\ Drop(y) \in AttemptType /\ Drop(y).session = y.session /\ ~Drop(y).listed
          /\ Drop(y).known = y.known /\ Drop(y).accept = y.accept
          /\ Drop(y).result = y.result /\ Drop(y).tools = y.tools
      BY <3>2, DropFields
    <3> HIDE DEF b
    <3> QED BY <3>1, <3>2, <3>3, <3>4
  <2>2. AttemptGood(b) /\ Tied(b, r)
    <3> HIDE DEF b
    <3> QED BY <1>0, <2>5, <2>6 DEF NoAttempt, AttemptGood, TurnGood, Tied, Waiting, PhoneEnded
  <2>3. turn' = [turn EXCEPT ![t] = r] /\ BreakerGood'
    BY <1>0, <2>1 DEF BreakerGood, breakerVars
  <2> HIDE DEF a, b, r
  <2>4. turn' = [turn EXCEPT ![t] = r] /\ TurnGood(t, r) /\ UNCHANGED sessionVars
    BY <1>0, <2>1, <2>3
  <2> QED BY <2>1, <2>2, <2>3, <2>4, OneTurn
<1>5. ASSUME DispatchToolCall(t) PROVE SessionInv'
  <2> DEFINE b == [attempt[t] EXCEPT !.left = @ - 1, !.tools = @ + 1]
  <2>1. /\ attempt' = [attempt EXCEPT ![t] = b] /\ UNCHANGED <<sessionVars, turn, breakerVars>>
    BY <1>5 DEF DispatchToolCall, AttemptTo
  <2>6. /\ b \in AttemptType /\ b.session = a.session /\ b.listed /\ b.known
        /\ b.accept = a.accept /\ b.result = a.result /\ a.listed
    <3>1. /\ a \in AttemptType /\ a.listed /\ a.known
          /\ a.left - 1 \in Nat /\ a.tools + 1 \in 0..MaxInFlight
      BY <1>0, <1>5, SessionAssumption DEF AttemptGood, AttemptType, DispatchToolCall, Reads
    <3> QED BY <3>1 DEF AttemptType
  <2>2. AttemptGood(b) /\ Tied(b, r)
    <3> HIDE DEF b
    <3> QED BY <1>0, <2>6 DEF NoAttempt, AttemptGood, TurnGood, Tied, Waiting, PhoneEnded
  <2>3. turn' = [turn EXCEPT ![t] = r] /\ BreakerGood'
    BY <1>0, <2>1 DEF BreakerGood, breakerVars
  <2> HIDE DEF a, b, r
  <2>4. turn' = [turn EXCEPT ![t] = r] /\ TurnGood(t, r) /\ UNCHANGED sessionVars
    BY <1>0, <2>1, <2>3
  <2> QED BY <2>1, <2>2, <2>3, <2>4, OneTurn
<1>6. ASSUME ToolEnds(t) PROVE SessionInv'
  <2> DEFINE b == [attempt[t] EXCEPT !.tools = @ - 1]
  <2>1. /\ attempt' = [attempt EXCEPT ![t] = b] /\ UNCHANGED <<sessionVars, turn, breakerVars>>
    BY <1>6 DEF ToolEnds, AttemptTo
  <2>2. AttemptGood(b) /\ Tied(b, r)
    BY <1>0, <1>6, SessionAssumption DEF ToolEnds, Reads, Drop, Accept, Retire, Resolve, SessionsGood,
       NoAttempt, AttemptGood, AttemptType, TurnGood, TurnType, Tied, Waiting, CutOff, Places, PhoneEnded
  <2>3. turn' = [turn EXCEPT ![t] = r] /\ BreakerGood'
    BY <1>0, <2>1 DEF BreakerGood, breakerVars
  <2> HIDE DEF a, b, r
  <2>4. turn' = [turn EXCEPT ![t] = r] /\ TurnGood(t, r) /\ UNCHANGED sessionVars
    BY <1>0, <2>1, <2>3
  <2> QED BY <2>1, <2>2, <2>3, <2>4, OneTurn
<1>7. ASSUME Deliver(t) PROVE SessionInv'
  <2> DEFINE b == [attempt[t] EXCEPT !.known = TRUE]
  <2>1. /\ attempt' = [attempt EXCEPT ![t] = b] /\ UNCHANGED <<sessionVars, turn, breakerVars>>
    BY <1>7 DEF Deliver, AttemptTo
  <2>2. AttemptGood(b) /\ Tied(b, r)
    BY <1>0, <1>7, SessionAssumption DEF Deliver, Reads, Drop, Accept, Retire, Resolve, SessionsGood,
       NoAttempt, AttemptGood, AttemptType, TurnGood, TurnType, Tied, Waiting, CutOff, Places, PhoneEnded
  <2>3. turn' = [turn EXCEPT ![t] = r] /\ BreakerGood'
    BY <1>0, <2>1 DEF BreakerGood, breakerVars
  <2> HIDE DEF a, b, r
  <2>4. turn' = [turn EXCEPT ![t] = r] /\ TurnGood(t, r) /\ UNCHANGED sessionVars
    BY <1>0, <2>1, <2>3
  <2> QED BY <2>1, <2>2, <2>3, <2>4, OneTurn
<1> QED BY <1>1, <1>2, <1>3, <1>4, <1>5, <1>6, <1>7 DEF Frame

-----------------------------------------------------------------------------
(* The end of a companion arm.                                              *)
Ends == {"value", "failed", "declined", "unsent", "cancelled", "interrupted"}

LEMMA ArmEndedGood ==
  ASSUME NEW t \in Turns, NEW r, TurnGood(t, r), r.arm \notin {"idle", "ended"}, NEW got \in Ends,
         Mode[t] = "both" => got \notin CutOff
  PROVE  LET e == ArmEnded(t, r, got) IN
         TurnGood(t, e) /\ e.arm = "ended" /\ e.got = got /\ e.told = r.told
<1> DEFINE d == [r EXCEPT !.arm = "ended", !.got = got]
           e == ArmEnded(t, r, got)
<1>1. /\ r \in TurnType /\ r.answer \notin {"companion", "local", "nothing"}
      /\ Mode[t] # "both" => r.local = "off" /\ r.answer = "none"
  BY DEF TurnGood
<1>2. /\ d \in TurnType /\ d.arm = "ended" /\ d.got = got /\ d.told = r.told
      /\ d.local = r.local /\ d.answer = r.answer
  BY <1>1 DEF TurnType, Ends, Places
<1>3. e = IF Mode[t] = "both" THEN d
          ELSE IF got = "value" THEN [d EXCEPT !.answer = "companion"]
          ELSE IF got \in {"cancelled", "interrupted"} THEN [d EXCEPT !.answer = "cancelled"]
          ELSE IF Mode[t] = "companion_only" THEN [d EXCEPT !.answer = "nothing"]
          ELSE [d EXCEPT !.local = "run"]
  BY DEF ArmEnded, FallBack
<1> HIDE DEF d, e
<1>4. /\ e \in TurnType /\ e.arm = "ended" /\ e.got = got /\ e.told = r.told
      /\ Mode[t] = "both" => e.local = r.local /\ e.answer = r.answer
      /\ Mode[t] # "both" =>
           \/ got = "value" /\ e.local = "off" /\ e.answer = "companion"
           \/ got \in CutOff /\ e.local = "off" /\ e.answer = "cancelled"
           \/ got \notin {"value"} \cup CutOff /\ e.local = "off" /\ e.answer = "nothing"
           \/ got \notin {"value"} \cup CutOff /\ e.local = "run" /\ e.answer = "none"
  <2>1. CASE Mode[t] = "both" BY <1>2, <1>3, <2>1
  <2>2. CASE Mode[t] # "both" BY <1>1, <1>2, <1>3, <2>2 DEF TurnType, CutOff
  <2> QED BY <2>1, <2>2
<1>5. TurnGood(t, e)
  BY <1>1, <1>4 DEF TurnGood, CutOff
<1> QED BY <1>4, <1>5 DEF e

LEMMA EndStep ==
  ASSUME SessionInv, NEW t \in Turns, UNCHANGED sessionVars,
         NEW r, TurnGood(t, r), r.arm \notin {"idle", "ended"}, NEW got \in Ends, Count(got),
         Mode[t] = "both" => got \notin CutOff,
         turn' = [turn EXCEPT ![t] = ArmEnded(t, r, got)],
         NEW b, attempt' = [attempt EXCEPT ![t] = b], AttemptGood(b),
         b.listed => got = "interrupted",
         ~b.listed => b.tools = 0 \/ got \in {"unsent"} \cup CutOff,
         b.known /\ got \notin {"unsent", "interrupted"} =>
           r.told \/ PhoneEnded(b) \/ b.session # current
  PROVE  SessionInv'
<1> DEFINE e == ArmEnded(t, r, got)
<1>1. TurnGood(t, e) /\ e.arm = "ended" /\ e.got = got /\ e.told = r.told
  BY ArmEndedGood
<1>2. BreakerGood'
  BY CountBreaker DEF SessionInv
<1> HIDE DEF e
<1>3. Tied(b, e)
  BY <1>1 DEF Tied, Waiting
<1>4. turn' = [turn EXCEPT ![t] = e]
  BY DEF e
<1> QED BY <1>1, <1>2, <1>3, <1>4, OneTurn

-----------------------------------------------------------------------------
(* The attempt of a new offer.                                              *)
OfferedGood(b) == AttemptGood(b) /\ b.session # 0 /\ b.listed /\ b.result = "open"

LEMMA OfferedAttempt ==
  ASSUME SessionInv, NEW t \in Turns, current # 0
  PROVE  OfferedGood([NoAttempt EXCEPT !.session = current, !.listed = TRUE, !.left = Callbacks[t]])
<1> DEFINE b == [NoAttempt EXCEPT !.session = current, !.listed = TRUE, !.left = Callbacks[t]]
<1>1. /\ current \in 0..MaxSessions /\ current <= opened /\ Callbacks[t] \in Nat
  BY SessionAssumption DEF SessionInv, SessionsGood
<1>2. NoAttempt \in AttemptType /\ NoAttempt.result = "open" /\ NoAttempt.accept = "open"
  BY SessionAssumption DEF NoAttempt, AttemptType
<1>3. /\ b \in AttemptType /\ b.session = current /\ b.listed /\ b.result = "open"
      /\ b.accept = "open"
  BY <1>1, <1>2 DEF AttemptType
<1> HIDE DEF b
<1>4. OfferedGood(b)
  BY <1>1, <1>3 DEF OfferedGood, AttemptGood
<1> QED BY <1>4 DEF b

LEMMA AdvanceStep == ASSUME SessionInv, NEW t \in Turns, Advance(t) PROVE SessionInv'
<1> DEFINE a == attempt[t]
           r == turn[t]
<1>0. /\ AttemptGood(a) /\ TurnGood(t, r) /\ Tied(a, r) /\ BreakerGood /\ SessionsGood
      /\ attempt = [attempt EXCEPT ![t] = a] /\ a \in AttemptType /\ r \in TurnType
  BY DEF SessionInv, Good, IsFcn, AttemptGood, TurnGood
<1>1. ASSUME OfferFromArm(t) PROVE SessionInv'
  <2>1. CASE current # 0 /\ OfferTo(t, turn[t]) /\ UNCHANGED breakerVars
    <3> DEFINE b == [NoAttempt EXCEPT !.session = current, !.listed = TRUE, !.left = Callbacks[t]]
               q == [r EXCEPT !.arm = "send"]
    <3>1. /\ attempt' = [attempt EXCEPT ![t] = b] /\ turn' = [turn EXCEPT ![t] = q]
          /\ UNCHANGED sessionVars /\ BreakerGood' /\ r.arm = "offer"
      BY <1>0, <1>1, <2>1 DEF OfferFromArm, OfferTo, AttemptTo, Become, BreakerGood, breakerVars
    <3>2. AttemptGood(b) /\ b.session # 0 /\ b.listed /\ b.result = "open"
      <4>1. OfferedGood(b) BY <2>1, <1>0, OfferedAttempt DEF SessionInv
      <4> QED BY <4>1 DEF OfferedGood
    <3>3. /\ q \in TurnType /\ q.arm = "send" /\ q.got = r.got /\ q.local = r.local
          /\ q.answer = r.answer
      BY <1>0 DEF TurnType, Places
    <3> HIDE DEF b, q
    <3>4. TurnGood(t, q)
      BY <1>0, <3>1, <3>3 DEF TurnGood, CutOff
    <3>5. Tied(b, q)
      BY <3>2, <3>3 DEF Tied, Waiting
    <3> QED BY <3>1, <3>2, <3>4, <3>5, OneTurn
  <2>2. CASE current = 0 /\ EndArm(t, "declined") /\ UNCHANGED attempt
    <3>1. /\ r.arm = "offer" /\ a = NoAttempt /\ UNCHANGED sessionVars
          /\ turn' = [turn EXCEPT ![t] = ArmEnded(t, r, "declined")] /\ Count("declined")
          /\ attempt' = [attempt EXCEPT ![t] = a]
      BY <1>0, <1>1, <2>2 DEF OfferFromArm, EndArm, Become, Tied
    <3>2. ~a.listed /\ a.tools = 0 /\ ~a.known
      BY <3>1 DEF NoAttempt
    <3> HIDE DEF a, r
    <3> QED BY <1>0, <3>1, <3>2, EndStep DEF Ends, CutOff
  <2> QED BY <1>1, <2>1, <2>2 DEF OfferFromArm
<1>2. ASSUME Sent(t) PROVE SessionInv'
  <2> DEFINE q == [r EXCEPT !.arm = "accept"]
  <2>1. /\ attempt' = [attempt EXCEPT ![t] = a] /\ turn' = [turn EXCEPT ![t] = q]
        /\ UNCHANGED sessionVars /\ BreakerGood' /\ r.arm = "send"
    BY <1>0, <1>2 DEF Sent, Become, BreakerGood, breakerVars
  <2>2. q \in TurnType /\ q.arm = "accept" /\ q.got = r.got /\ q.local = r.local /\ q.answer = r.answer
    BY <1>0 DEF TurnType, Places
  <2> HIDE DEF a, q, r
  <2>3. TurnGood(t, q)
    BY <1>0, <2>1, <2>2 DEF TurnGood, CutOff
  <2>4. Tied(a, q)
    BY <1>0, <2>1, <2>2 DEF Tied, Waiting, TurnGood
  <2> QED BY <1>0, <2>1, <2>3, <2>4, OneTurn
<1>3. ASSUME SendFails(t) PROVE SessionInv'
  <2> DEFINE b == Drop(a)
  <2>1. /\ attempt' = [attempt EXCEPT ![t] = b] /\ r.arm = "send" /\ Count("unsent")
        /\ turn' = [turn EXCEPT ![t] = ArmEnded(t, r, "unsent")] /\ UNCHANGED sessionVars
    BY <1>3 DEF SendFails, AttemptTo, EndArm, Become
  <2>2. b \in AttemptType /\ b.session = a.session /\ ~b.listed /\ b.known = a.known
    BY <1>0, DropFields
  <2> HIDE DEF a, b, r
  <2>3. AttemptGood(b)
    BY <1>0, <2>2 DEF AttemptGood
  <2> QED BY <1>0, <2>1, <2>2, <2>3, EndStep DEF Ends, CutOff
<1>4. ASSUME AcceptReturns(t) PROVE SessionInv'
  <2>1. CASE a.accept = "yes" /\ Become(t, [turn[t] EXCEPT !.arm = "result"]) /\ UNCHANGED breakerVars
    <3> DEFINE q == [r EXCEPT !.arm = "result"]
    <3>1. /\ attempt' = [attempt EXCEPT ![t] = a] /\ turn' = [turn EXCEPT ![t] = q]
          /\ UNCHANGED sessionVars /\ BreakerGood' /\ r.arm = "accept"
      BY <1>0, <1>4, <2>1 DEF AcceptReturns, Become, BreakerGood, breakerVars
    <3>2. q \in TurnType /\ q.arm = "result" /\ q.got = r.got /\ q.local = r.local /\ q.answer = r.answer
      BY <1>0 DEF TurnType, Places
    <3> HIDE DEF a, q, r
    <3>3. TurnGood(t, q)
      BY <1>0, <3>1, <3>2 DEF TurnGood, CutOff
    <3>4. Tied(a, q)
      BY <1>0, <3>1, <3>2 DEF Tied, Waiting, TurnGood
    <3> QED BY <1>0, <3>1, <3>3, <3>4, OneTurn
  <2>2. CASE a.accept = "no" /\ EndArm(t, "declined")
    <3>1. /\ attempt' = [attempt EXCEPT ![t] = a] /\ r.arm = "accept" /\ Count("declined")
          /\ turn' = [turn EXCEPT ![t] = ArmEnded(t, r, "declined")] /\ UNCHANGED sessionVars
      BY <1>0, <1>4, <2>2 DEF AcceptReturns, EndArm, Become
    <3>2. ~a.listed /\ a.tools = 0 /\ (PhoneEnded(a) \/ a.session # current)
      BY <1>0, <2>2, <3>1 DEF AttemptGood, AttemptType, TurnGood, Tied, Waiting, CutOff, PhoneEnded
    <3> HIDE DEF a, r
    <3> QED BY <1>0, <3>1, <3>2, EndStep DEF Ends, CutOff
  <2> QED BY <1>4, <2>1, <2>2 DEF AcceptReturns
<1>5. ASSUME AcceptTimesOut(t) PROVE SessionInv'
  <2> DEFINE d == Drop(a)
             b == Resolve(d, "lost")
             q == [r EXCEPT !.arm = "tell", !.got = "declined"]
  <2>1. /\ attempt' = [attempt EXCEPT ![t] = b] /\ turn' = [turn EXCEPT ![t] = q]
        /\ UNCHANGED sessionVars /\ BreakerGood' /\ r.arm = "accept"
    BY <1>0, <1>5 DEF AcceptTimesOut, AttemptTo, GiveUp, Become, BreakerGood, breakerVars
  <2>2. d \in AttemptType /\ d.session = a.session /\ ~d.listed /\ d.known = a.known
    BY <1>0, DropFields
  <2> HIDE DEF d
  <2>3. b \in AttemptType /\ b.session = a.session /\ ~b.listed /\ b.known = a.known /\ b.tools = 0
    BY <2>2, ResolveFields
  <2>4. q \in TurnType /\ q.arm = "tell" /\ q.got = "declined" /\ q.local = r.local /\ q.answer = r.answer
    BY <1>0 DEF TurnType, Places
  <2> HIDE DEF a, b, q, r
  <2>5. AttemptGood(b) /\ TurnGood(t, q) /\ Tied(b, q)
    BY <1>0, <2>1, <2>3, <2>4 DEF AttemptGood, TurnGood, Tied, Waiting, CutOff
  <2> QED BY <2>1, <2>5, OneTurn
<1>6. ASSUME ResultReturns(t) PROVE SessionInv'
  <2>1. PICK got \in {"value", "failed"} : EndArm(t, got)
    BY <1>6 DEF ResultReturns
  <2>2. /\ attempt' = [attempt EXCEPT ![t] = a] /\ r.arm = "result" /\ Count(got)
        /\ turn' = [turn EXCEPT ![t] = ArmEnded(t, r, got)] /\ UNCHANGED sessionVars
        /\ a.result # "open"
    BY <1>0, <1>6, <2>1 DEF ResultReturns, EndArm, Become
  <2>3. ~a.listed /\ a.tools = 0 /\ (PhoneEnded(a) \/ a.session # current)
    BY <1>0, <2>2 DEF AttemptGood, AttemptType, TurnGood, Tied, Waiting, CutOff, PhoneEnded
  <2> HIDE DEF a, r
  <2> QED BY <1>0, <2>1, <2>2, <2>3, EndStep DEF Ends, CutOff
<1>7. ASSUME ResultTimesOut(t) PROVE SessionInv'
  <2> DEFINE d == Drop(a)
             b == Retire(d)
             q == [r EXCEPT !.arm = "tell", !.got = "failed"]
  <2>1. /\ attempt' = [attempt EXCEPT ![t] = b] /\ turn' = [turn EXCEPT ![t] = q]
        /\ UNCHANGED sessionVars /\ BreakerGood' /\ r.arm = "result"
    BY <1>0, <1>7 DEF ResultTimesOut, AttemptTo, GiveUp, Become, BreakerGood, breakerVars
  <2>2. d \in AttemptType /\ d.session = a.session /\ ~d.listed /\ d.known = a.known
    BY <1>0, DropFields
  <2> HIDE DEF d
  <2>3. b \in AttemptType /\ b.session = a.session /\ ~b.listed /\ b.known = a.known /\ b.tools = 0
    BY <2>2, SessionAssumption DEF Retire, AttemptType
  <2>4. q \in TurnType /\ q.arm = "tell" /\ q.got = "failed" /\ q.local = r.local /\ q.answer = r.answer
    BY <1>0 DEF TurnType, Places
  <2> HIDE DEF a, b, q, r
  <2>5. AttemptGood(b) /\ TurnGood(t, q) /\ Tied(b, q)
    BY <1>0, <2>1, <2>3, <2>4 DEF AttemptGood, TurnGood, Tied, Waiting, CutOff
  <2> QED BY <2>1, <2>5, OneTurn
<1>8. ASSUME Tell(t) PROVE SessionInv'
  <2> DEFINE q == [r EXCEPT !.told = TRUE]
  <2>1. /\ attempt' = [attempt EXCEPT ![t] = a] /\ r.arm = "tell" /\ Count(r.got)
        /\ turn' = [turn EXCEPT ![t] = ArmEnded(t, q, r.got)] /\ UNCHANGED sessionVars
    BY <1>0, <1>8 DEF Tell, Become
  <2>2. /\ q \in TurnType /\ q.told /\ q.arm = "tell" /\ q.got = r.got /\ q.local = r.local
        /\ q.answer = r.answer
    BY <1>0, <2>1 DEF TurnType
  <2> HIDE DEF a, q, r
  <2>3. /\ r.got \in {"declined", "failed", "cancelled"} /\ ~a.listed
        /\ (Mode[t] = "both" => r.got \notin CutOff) /\ TurnGood(t, q)
        /\ a.tools = 0 \/ r.got \in {"unsent"} \cup CutOff
    BY <1>0, <2>1, <2>2 DEF TurnGood, Tied
  <2> QED BY <1>0, <2>1, <2>2, <2>3, EndStep DEF Ends
<1> QED BY <1>1, <1>2, <1>3, <1>4, <1>5, <1>6, <1>7, <1>8 DEF Advance

-----------------------------------------------------------------------------
LEMMA StartStep ==
  ASSUME SessionInv, NEW t \in Turns, Start(t) \/ StartIneligible(t) PROVE SessionInv'
<1> DEFINE a == attempt[t]
           n == NotStarted
<1>0. /\ AttemptGood(a) /\ TurnGood(t, turn[t]) /\ Tied(a, turn[t]) /\ BreakerGood /\ SessionsGood
      /\ attempt = [attempt EXCEPT ![t] = a] /\ turn[t] = n
  BY DEF SessionInv, Good, IsFcn, Start, StartIneligible
<1>1. /\ n \in TurnType /\ n.arm = "idle" /\ n.got = "none" /\ n.local = "off" /\ n.answer = "none"
      /\ a = NoAttempt
  BY <1>0 DEF NotStarted, TurnType, Places, Tied
<1>2. BreakerGood' /\ UNCHANGED sessionVars
  BY <1>0 DEF Start, StartIneligible, BreakerGood, breakerVars
<1>3. ASSUME Start(t), Mode[t] = "both" PROVE SessionInv'
  <2> DEFINE q == [n EXCEPT !.arm = "offer", !.local = "run"]
  <2>1. attempt' = [attempt EXCEPT ![t] = a] /\ turn' = [turn EXCEPT ![t] = q]
    BY <1>0, <1>3 DEF Start, Become
  <2>2. q \in TurnType /\ q.arm = "offer" /\ q.got = "none" /\ q.local = "run" /\ q.answer = "none"
    BY <1>1 DEF TurnType, Places
  <2>3. ~a.listed /\ a.tools = 0
    BY <1>1 DEF NoAttempt
  <2> HIDE DEF q
  <2>4. TurnGood(t, q) /\ Tied(a, q)
    BY <1>1, <1>3, <2>2, <2>3 DEF TurnGood, Tied, Waiting, CutOff
  <2> HIDE DEF a
  <2> QED BY <1>0, <1>2, <2>1, <2>4, OneTurn
<1>4. ASSUME Start(t), Mode[t] # "both" PROVE SessionInv'
  <2> DEFINE b == [NoAttempt EXCEPT !.session = current, !.listed = TRUE, !.left = Callbacks[t]]
             q == [n EXCEPT !.arm = "send"]
  <2>1. attempt' = [attempt EXCEPT ![t] = b] /\ turn' = [turn EXCEPT ![t] = q] /\ current # 0
    BY <1>4 DEF Start, OfferTo, Become, AttemptTo
  <2>2. OfferedGood(b)
    BY <2>1, OfferedAttempt
  <2>3. q \in TurnType /\ q.arm = "send" /\ q.got = "none" /\ q.local = "off" /\ q.answer = "none"
    BY <1>1 DEF TurnType, Places
  <2> HIDE DEF b, q
  <2>4. AttemptGood(b) /\ TurnGood(t, q) /\ Tied(b, q)
    BY <1>4, <2>2, <2>3 DEF OfferedGood, TurnGood, Tied, Waiting, CutOff
  <2> QED BY <1>2, <2>1, <2>4, OneTurn
<1>5. ASSUME StartIneligible(t) PROVE SessionInv'
  <2> DEFINE d == [n EXCEPT !.arm = "ended"]
             q == FallBack(t, d)
  <2>1. attempt' = [attempt EXCEPT ![t] = a] /\ turn' = [turn EXCEPT ![t] = q]
    BY <1>0, <1>5 DEF StartIneligible, Become
  <2>2. d \in TurnType /\ d.arm = "ended" /\ d.got = "none" /\ d.local = "off" /\ d.answer = "none"
    BY <1>1 DEF TurnType, Places
  <2>3. q = IF Mode[t] = "companion_only" THEN [d EXCEPT !.answer = "nothing"]
            ELSE [d EXCEPT !.local = "run"]
    BY DEF FallBack
  <2> HIDE DEF d, q
  <2>4. /\ q \in TurnType /\ q.arm = "ended" /\ q.got = "none"
        /\ \/ Mode[t] = "companion_only" /\ q.local = "off" /\ q.answer = "nothing"
           \/ q.local = "run" /\ q.answer = "none"
    BY <2>2, <2>3 DEF TurnType
  <2>5. ~a.listed /\ a.tools = 0 /\ ~a.known
    BY <1>1 DEF NoAttempt
  <2>6. TurnGood(t, q) /\ Tied(a, q)
    BY <2>4, <2>5 DEF TurnGood, Tied, Waiting, CutOff
  <2> HIDE DEF a
  <2> QED BY <1>0, <1>2, <2>1, <2>6, OneTurn
<1> QED BY <1>3, <1>4, <1>5

(* The local run, the answer under both and a cancellation of the turn.     *)
LEMMA TurnStep ==
  ASSUME SessionInv, NEW t \in Turns, LocalEnds(t) \/ RunBothReturns(t) \/ Cancel(t)
  PROVE  SessionInv'
<1> DEFINE a == attempt[t]
           r == turn[t]
<1>0. /\ AttemptGood(a) /\ TurnGood(t, r) /\ Tied(a, r) /\ BreakerGood /\ SessionsGood
      /\ attempt = [attempt EXCEPT ![t] = a] /\ a \in AttemptType /\ r \in TurnType
      /\ UNCHANGED sessionVars
  BY DEF SessionInv, Good, IsFcn, AttemptGood, TurnGood, LocalEnds, RunBothReturns, Cancel,
     GiveUp
<1>1. ASSUME NEW q \in TurnType, turn' = [turn EXCEPT ![t] = q], UNCHANGED <<attempt, breakerVars>>,
             q.arm = r.arm, q.got = r.got, q.told = r.told,
             TurnGood(t, q), r.arm # "idle"
      PROVE  SessionInv'
  <2>1. Tied(a, q)
    BY <1>0, <1>1 DEF Tied
  <2>2. attempt' = [attempt EXCEPT ![t] = a] /\ BreakerGood'
    BY <1>0, <1>1 DEF BreakerGood, breakerVars
  <2> HIDE DEF a, r
  <2> QED BY <1>0, <1>1, <2>1, <2>2, OneTurn
<1>2. r.arm = "idle" => r.local = "off" /\ r.answer = "none" /\ r = NotStarted
  BY <1>0 DEF TurnGood, NotStarted
<1>3. ASSUME LocalEnds(t) PROVE SessionInv'
  <2>1. PICK end \in {"value", "raised"} :
          turn' = [turn EXCEPT ![t] = [turn[t] EXCEPT
            !.local = end,
            !.answer = IF Mode[t] = "both" THEN @
                       ELSE IF end = "value" THEN "local" ELSE "raised"]]
    BY <1>3 DEF LocalEnds, Become
  <2> DEFINE q == [r EXCEPT
            !.local = end,
            !.answer = IF Mode[t] = "both" THEN @
                       ELSE IF end = "value" THEN "local" ELSE "raised"]
  <2>2. /\ turn' = [turn EXCEPT ![t] = q] /\ UNCHANGED <<attempt, breakerVars>>
        /\ r.local = "run" /\ r.arm # "idle"
    BY <1>2, <1>3, <2>1 DEF LocalEnds
  <2>3. /\ q \in TurnType /\ q.arm = r.arm /\ q.got = r.got /\ q.told = r.told
        /\ q.local = end
        /\ q.answer = (IF Mode[t] = "both" THEN r.answer
                       ELSE IF end = "value" THEN "local" ELSE "raised")
    BY <1>0 DEF TurnType
  <2> HIDE DEF q, r
  <2>4. TurnGood(t, q)
    BY <1>0, <2>2, <2>3 DEF TurnGood, CutOff
  <2> QED BY <1>1, <2>2, <2>3, <2>4
<1>4. ASSUME RunBothReturns(t) PROVE SessionInv'
  <2>1. PICK answer \in {"raised", "local", "companion"} :
          /\ turn' = [turn EXCEPT ![t] = [turn[t] EXCEPT !.answer = answer]]
          /\ answer = "raised" \/ (r.local = "value" /\ r.arm = "ended")
    BY <1>4 DEF RunBothReturns, Become
  <2> DEFINE q == [r EXCEPT !.answer = answer]
  <2>2. /\ turn' = [turn EXCEPT ![t] = q] /\ UNCHANGED <<attempt, breakerVars>>
        /\ Mode[t] = "both" /\ r.local \in {"raised", "value"} /\ r.arm # "idle"
    BY <1>2, <1>4, <2>1 DEF RunBothReturns
  <2>3. /\ q \in TurnType /\ q.arm = r.arm /\ q.got = r.got /\ q.told = r.told
        /\ q.local = r.local /\ q.answer = answer
    BY <1>0 DEF TurnType
  <2> HIDE DEF q, r
  <2>4. TurnGood(t, q)
    BY <1>0, <2>1, <2>2, <2>3 DEF TurnGood, CutOff
  <2> QED BY <1>1, <2>2, <2>3, <2>4
<1>5. ASSUME Cancel(t) PROVE SessionInv'
  <2>0. r.arm # "idle" /\ r.answer = "none"
    BY <1>0, <1>5 DEF Cancel, TurnGood
  <2>1. CASE /\ Mode[t] = "both"
             /\ Become(t, [turn[t] EXCEPT !.answer = "cancelled"])
             /\ UNCHANGED <<sessionVars, attempt, breakerVars>>
    <3> DEFINE q == [r EXCEPT !.answer = "cancelled"]
    <3>1. /\ turn' = [turn EXCEPT ![t] = q] /\ UNCHANGED <<attempt, breakerVars>>
      BY <2>1 DEF Become
    <3>2. /\ q \in TurnType /\ q.arm = r.arm /\ q.got = r.got /\ q.told = r.told
          /\ q.local = r.local /\ q.answer = "cancelled"
      BY <1>0 DEF TurnType
    <3> HIDE DEF q, r
    <3>3. TurnGood(t, q)
      BY <1>0, <2>0, <2>1, <3>2 DEF TurnGood, CutOff
    <3> QED BY <1>1, <2>0, <3>1, <3>2, <3>3
  <2>2. CASE r.arm \in {"send", "tell"} /\ Mode[t] # "both" /\ EndArm(t, "interrupted") /\ UNCHANGED attempt
    <3>1. /\ attempt' = [attempt EXCEPT ![t] = a] /\ Count("interrupted")
          /\ turn' = [turn EXCEPT ![t] = ArmEnded(t, r, "interrupted")]
      BY <1>0, <2>2 DEF EndArm, Become
    <3> HIDE DEF a, r
    <3> QED BY <1>0, <2>2, <3>1, EndStep DEF Ends, CutOff
  <2>3. CASE /\ Mode[t] # "both"
             /\ \/ r.arm = "accept" /\ AttemptTo(t, Drop(attempt[t]))
                \/ r.arm = "result" /\ AttemptTo(t, Retire(Drop(attempt[t])))
             /\ GiveUp(t, "cancelled")
    <3> DEFINE d == Drop(a)
               e == Retire(d)
               q == [r EXCEPT !.arm = "tell", !.got = "cancelled"]
    <3>1. PICK b \in {d, e} : attempt' = [attempt EXCEPT ![t] = b]
      BY <2>3 DEF AttemptTo
    <3>2. /\ turn' = [turn EXCEPT ![t] = q] /\ UNCHANGED sessionVars /\ BreakerGood'
          /\ r.arm \in {"accept", "result"}
      BY <1>0, <2>3 DEF GiveUp, Become, BreakerGood, breakerVars
    <3>3. d \in AttemptType /\ d.session = a.session /\ ~d.listed /\ d.known = a.known
      BY <1>0, DropFields
    <3> HIDE DEF d
    <3>4. e \in AttemptType /\ e.session = a.session /\ ~e.listed /\ e.known = a.known
      BY <3>3, SessionAssumption DEF Retire, AttemptType
    <3>5. b \in AttemptType /\ b.session = a.session /\ ~b.listed /\ b.known = a.known
      BY <3>1, <3>3, <3>4
    <3>6. q \in TurnType /\ q.arm = "tell" /\ q.got = "cancelled" /\ q.local = r.local /\ q.answer = r.answer
      BY <1>0 DEF TurnType, Places
    <3> HIDE DEF a, q, r, e
    <3>7. AttemptGood(b) /\ TurnGood(t, q) /\ Tied(b, q)
      BY <1>0, <2>3, <3>2, <3>5, <3>6 DEF AttemptGood, TurnGood, Tied, Waiting, CutOff
    <3> QED BY <3>1, <3>2, <3>7, OneTurn
  <2>4. CASE /\ r.local = "run" /\ Mode[t] # "both"
             /\ Become(t, [turn[t] EXCEPT !.local = "cancelled", !.answer = "cancelled"])
             /\ UNCHANGED <<sessionVars, attempt, breakerVars>>
    <3> DEFINE q == [r EXCEPT !.local = "cancelled", !.answer = "cancelled"]
    <3>1. /\ turn' = [turn EXCEPT ![t] = q] /\ UNCHANGED <<attempt, breakerVars>>
      BY <2>4 DEF Become
    <3>2. /\ q \in TurnType /\ q.arm = r.arm /\ q.got = r.got /\ q.told = r.told
          /\ q.local = "cancelled" /\ q.answer = "cancelled"
      BY <1>0 DEF TurnType
    <3> HIDE DEF q, r
    <3>3. TurnGood(t, q)
      BY <1>0, <2>4, <3>2 DEF TurnGood, CutOff
    <3> QED BY <1>1, <2>0, <3>1, <3>2, <3>3
  <2> QED BY <1>5, <2>1, <2>2, <2>3, <2>4 DEF Cancel
<1> QED BY <1>3, <1>4, <1>5

-----------------------------------------------------------------------------
(* A session that is abandoned resolves what waits for it.                  *)
LEMMA AbandonStep ==
  ASSUME SessionInv, NEW s, Abandon(s),
         \/ s = current /\ current' # current /\ (current' = 0 \/ opened < current')
         \/ s # current /\ current' = current,
         opened <= opened', SessionsGood', UNCHANGED <<turn, breakerVars>>
  PROVE  SessionInv'
<1>1. IsFcn' /\ BreakerGood'
  BY DEF SessionInv, Abandon, IsFcn, BreakerGood, breakerVars
<1>2. ASSUME NEW t \in Turns PROVE Good(t)'
  <2> DEFINE a == attempt[t]
             r == turn[t]
             x == Accept(a, "no")
             y == Resolve(x, "lost")
  <2>0. /\ AttemptGood(a) /\ TurnGood(t, r) /\ Tied(a, r) /\ SessionsGood /\ a \in AttemptType
        /\ a.session \in Int /\ opened \in Int /\ opened' \in Int /\ current \in Int
        /\ current' \in Int /\ turn'[t] = turn[t]
    BY DEF SessionInv, Good, AttemptGood, AttemptType, SessionsGood
  <2>1. attempt'[t] = IF a.listed /\ a.session = s THEN Drop(y) ELSE a
    BY DEF Abandon
  <2>2. TurnGood(t, turn[t])'
    BY <2>0 DEF TurnGood
  <2>3. CASE a.listed /\ a.session = s
    <3>1. x \in AttemptType /\ x.session = a.session /\ x.result = a.result
          /\ x.known = a.known /\ x.accept = (IF a.accept = "open" THEN "no" ELSE a.accept)
      BY <2>0, AcceptFields
    <3>2. attempt'[t] = Drop(y)
      BY <2>1, <2>3
    <3> HIDE DEF x
    <3>3. /\ y \in AttemptType /\ y.session = x.session /\ y.tools = 0 /\ y.accept = x.accept
          /\ y.result = (IF x.result = "open" THEN "lost" ELSE x.result)
      BY <3>1, ResolveFields
    <3> HIDE DEF y
    <3>4. /\ Drop(y) \in AttemptType /\ Drop(y).session = y.session /\ ~Drop(y).listed
          /\ Drop(y).accept = y.accept /\ Drop(y).result = y.result /\ Drop(y).tools = y.tools
      BY <3>3, DropFields
    <3>5. /\ attempt'[t] \in AttemptType /\ attempt'[t].session = a.session
          /\ ~attempt'[t].listed /\ attempt'[t].tools = 0
          /\ attempt'[t].accept # "open" /\ attempt'[t].result = "lost"
      BY <2>0, <2>3, <3>1, <3>2, <3>3, <3>4 DEF AttemptGood
    <3>6. a.session = current /\ a.session # 0 /\ a.session <= opened /\ current' # current
      BY <2>0, <2>3 DEF AttemptGood
    <3>7. r.arm \notin {"idle", "offer"}
      BY <2>0, <2>3 DEF Tied, NoAttempt
    <3>8. /\ attempt'[t].session <= opened' /\ attempt'[t].session # 0
          /\ attempt'[t].session # current'
      BY <2>0, <3>5, <3>6
    <3>9. AttemptGood(attempt[t])'
      BY <3>5, <3>8 DEF AttemptGood, AttemptType
    <3>10. Tied(attempt[t], turn[t])'
      BY <2>0, <3>5, <3>7, <3>8 DEF Tied, Waiting
    <3> QED BY <2>2, <3>9, <3>10 DEF Good
  <2>4. CASE a.listed /\ a.session # s
    <3>1. current' = current /\ attempt'[t] = attempt[t]
      BY <2>0, <2>1, <2>4 DEF AttemptGood
    <3>2. AttemptGood(attempt[t])'
      BY <2>0, <3>1 DEF AttemptGood, AttemptType
    <3>3. Tied(attempt[t], turn[t])'
      BY <2>0, <3>1 DEF Tied, PhoneEnded
    <3> QED BY <2>2, <3>2, <3>3 DEF Good
  <2>5. CASE ~a.listed
    <3>1. attempt'[t] = attempt[t]
      BY <2>1, <2>5
    <3>2. a.session # 0 /\ a.session # current => a.session # current'
      BY <2>0 DEF AttemptGood
    <3>3. a.session <= opened' /\ (a.known => a.session # 0)
      BY <2>0 DEF AttemptGood
    <3>4. AttemptGood(attempt[t])'
      BY <2>0, <2>5, <3>1, <3>3 DEF AttemptGood, AttemptType
    <3>5. Tied(attempt[t], turn[t])'
      BY <2>0, <2>5, <3>1, <3>2, <3>3 DEF Tied, PhoneEnded
    <3> QED BY <2>2, <3>4, <3>5 DEF Good
  <2> QED BY <2>3, <2>4, <2>5
<1> QED BY <1>1, <1>2 DEF SessionInv

LEMMA RegisterStep == ASSUME SessionInv, Register PROVE SessionInv'
<1>1. /\ opened \in 0..MaxSessions /\ current \in 0..opened /\ opened < MaxSessions
      /\ sockets \subseteq 1..opened /\ MaxSessions \in Nat
  BY SessionAssumption DEF SessionInv, SessionsGood, Register
<1>2. opened' = opened + 1 /\ current' = opened + 1 /\ sockets' = sockets \cup {opened + 1}
  BY DEF Register
<1>3. SessionsGood'
  <2>1. opened' \in 0..MaxSessions /\ current' \in 0..opened' /\ opened + 1 \in 1..opened'
    BY <1>1, <1>2
  <2>2. 1..opened \subseteq 1..opened'
    BY <1>1, <1>2
  <2> QED BY <1>1, <1>2, <2>1, <2>2 DEF SessionsGood
<1>4. current' # current /\ opened < current' /\ opened <= opened'
  BY <1>1, <1>2
<1> QED BY <1>3, <1>4, AbandonStep DEF Register

LEMMA ReleaseStep == ASSUME SessionInv, NEW s \in sockets, Release(s) PROVE SessionInv'
<1>1. /\ opened \in 0..MaxSessions /\ current \in 0..opened /\ sockets \subseteq 1..opened
      /\ MaxSessions \in Nat
  BY SessionAssumption DEF SessionInv, SessionsGood
<1>2. /\ opened' = opened /\ sockets' = sockets \ {s}
      /\ current' = (IF current = s THEN 0 ELSE current)
  BY DEF Release
<1>3. s # 0 /\ opened <= opened'
  BY <1>1, <1>2
<1>4. SessionsGood'
  BY <1>1, <1>2 DEF SessionsGood
<1>5. \/ s = current /\ current' # current /\ current' = 0
      \/ s # current /\ current' = current
  BY <1>2, <1>3
<1> QED BY <1>3, <1>4, <1>5, AbandonStep DEF Release

LEMMA StutterStep == ASSUME SessionInv, UNCHANGED vars PROVE SessionInv'
BY DEF SessionInv, SessionsGood, BreakerGood, IsFcn, Good, AttemptGood, TurnGood, Tied,
       vars

LEMMA ResumeStep == ASSUME SessionInv, Resume PROVE SessionInv'
<1>1. UNCHANGED sessionVars /\ UNCHANGED <<attempt, turn, failures>> /\ paused' = FALSE
  BY DEF Resume
<1>2. BreakerGood'
  BY <1>1 DEF SessionInv, BreakerGood
<1>3. SessionsGood' /\ IsFcn'
  BY <1>1 DEF SessionInv, SessionsGood, IsFcn, sessionVars
<1>4. \A t \in Turns : Good(t)'
  BY <1>1 DEF SessionInv, Good, AttemptGood, TurnGood, Tied, sessionVars
<1> QED BY <1>2, <1>3, <1>4 DEF SessionInv

LEMMA InitSessionInv == ASSUME Init PROVE SessionInv
<1>1. SessionsGood
  BY SessionAssumption DEF Init, SessionsGood
<1>2. BreakerGood /\ IsFcn
  <2>1. 0 \in 0..(FailureBudget - 1)
    BY SessionAssumption
  <2>2. failures = 0 /\ paused = FALSE
    BY DEF Init
  <2>3. attempt = [t \in Turns |-> NoAttempt] /\ turn = [t \in Turns |-> NotStarted]
    BY DEF Init
  <2>4. IsFcn
    BY <2>3, Zenon DEF IsFcn
  <2> QED BY <2>1, <2>2, <2>4 DEF BreakerGood
<1>3. ASSUME NEW t \in Turns PROVE Good(t)
  <2>1. attempt[t] = NoAttempt /\ turn[t] = NotStarted
    BY DEF Init
  <2>2. AttemptGood(NoAttempt)
    BY <1>1, NoAttemptGood
  <2>3. TurnGood(t, NotStarted)
    BY DEF TurnGood, TurnType, NotStarted, Places, CutOff
  <2>4. Tied(NoAttempt, NotStarted)
    BY DEF Tied, NoAttempt, NotStarted, Waiting
  <2> QED BY <2>1, <2>2, <2>3, <2>4 DEF Good
<1> QED BY <1>1, <1>2, <1>3 DEF SessionInv

LEMMA NextSessionInv == ASSUME SessionInv, [Next]_vars PROVE SessionInv'
<1>1. CASE Register BY <1>1, RegisterStep
<1>2. CASE Resume BY <1>2, ResumeStep
<1>3. ASSUME NEW s \in sockets, Release(s) PROVE SessionInv'
  BY <1>3, ReleaseStep
<1>4. ASSUME NEW t \in Turns, Start(t) \/ StartIneligible(t) PROVE SessionInv'
  BY <1>4, StartStep
<1>5. ASSUME NEW t \in Turns, Frame(t) PROVE SessionInv'
  BY <1>5, FrameStep
<1>6. ASSUME NEW t \in Turns, Advance(t) PROVE SessionInv'
  BY <1>6, AdvanceStep
<1>7. ASSUME NEW t \in Turns, LocalEnds(t) \/ RunBothReturns(t) \/ Cancel(t) PROVE SessionInv'
  BY <1>7, TurnStep
<1>8. CASE UNCHANGED vars BY <1>8, StutterStep
<1> QED BY <1>1, <1>2, <1>3, <1>4, <1>5, <1>6, <1>7, <1>8 DEF Next

(* The attempts, arms and sessions always fit together as Good says: the    *)
(* invariant of session.py and router.py that the theorems below rest on.   *)
THEOREM SessionInvariance == Spec => []SessionInv
<1>1. Init => SessionInv
  BY InitSessionInv
<1>2. SessionInv /\ [Next]_vars => SessionInv'
  BY NextSessionInv
<1> QED BY <1>1, <1>2, PTL DEF Spec

-----------------------------------------------------------------------------
(* What the invariant says of one turn.                                     *)
LEMMA GoodTurn ==
  ASSUME SessionInv, NEW t \in Turns
  PROVE  AttemptGood(attempt[t]) /\ TurnGood(t, turn[t]) /\ Tied(attempt[t], turn[t])
BY DEF SessionInv, Good

(* Every attempt and turn is in a state the code has a name for, and no     *)
(* attempt runs more tool calls at once than max_concurrent_callbacks.      *)
THEOREM SessionTypeCorrect == Spec => []TypeOK
<1>1. ASSUME SessionInv PROVE TypeOK
  <2>1. \A t \in Turns : attempt[t] \in AttemptType /\ turn[t] \in TurnType
    BY <1>1, GoodTurn DEF AttemptGood, TurnGood
  <2>2. attempt \in [Turns -> AttemptType] /\ turn \in [Turns -> TurnType]
    BY <1>1, <2>1 DEF SessionInv, IsFcn
  <2> QED BY <1>1, <2>2 DEF TypeOK, SessionInv, SessionsGood, BreakerGood, AttemptType, TurnType
<1> QED BY <1>1, SessionInvariance, PTL

(* Nothing waits on a session that is gone: what offer and await_result     *)
(* still wait for is listed in the current session.                         *)
THEOREM SessionWaiters == Spec => []WaiterIsReachable
<1>1. ASSUME SessionInv PROVE WaiterIsReachable
  BY <1>1, GoodTurn DEF WaiterIsReachable, AttemptGood, Tied, Waiting
<1> QED BY <1>1, SessionInvariance, PTL

(* router.run starts the local run of a turn only when the phone can no     *)
(* longer answer or call tools for it, unless the route says both.          *)
THEOREM SessionNoHedge == Spec => []LocalRunsAlone
<1>1. ASSUME SessionInv PROVE LocalRunsAlone
  <2>1. ASSUME NEW t \in Turns, Mode[t] # "both", turn[t].local # "off"
        PROVE  /\ ~attempt[t].listed /\ turn[t].got # "value"
               /\ attempt[t].tools = 0 \/ turn[t].got = "unsent"
    <3>1. AttemptGood(attempt[t]) /\ TurnGood(t, turn[t]) /\ Tied(attempt[t], turn[t])
      BY <1>1, GoodTurn
    <3>2. turn[t].arm = "ended" /\ turn[t].got \notin {"value"} \cup CutOff
      BY <2>1, <3>1 DEF TurnGood
    <3> QED BY <3>1, <3>2 DEF Tied, CutOff
  <2> QED BY <2>1 DEF LocalRunsAlone
<1> QED BY <1>1, SessionInvariance, PTL

(* An answered turn has no open attempt, no tool call and no arm left.      *)
THEOREM SessionAnswered == Spec => []AnsweredIsComplete
<1>1. ASSUME SessionInv PROVE AnsweredIsComplete
  <2>1. ASSUME NEW t \in Turns, turn[t].answer \in {"companion", "local", "nothing"}
        PROVE  /\ turn[t].arm = "ended" /\ turn[t].local # "run" /\ ~attempt[t].listed
               /\ attempt[t].tools = 0 \/ turn[t].got = "unsent"
    <3>1. TurnGood(t, turn[t]) /\ Tied(attempt[t], turn[t])
      BY <1>1, GoodTurn
    <3>2. turn[t].arm = "ended" /\ turn[t].local # "run" /\ turn[t].got \notin CutOff
      BY <2>1, <3>1 DEF TurnGood
    <3> QED BY <3>1, <3>2 DEF Tied, CutOff
  <2> QED BY <2>1 DEF AnsweredIsComplete
<1> QED BY <1>1, SessionInvariance, PTL

(* A phone that has an offer nobody waits for was told (_cancel_quietly),   *)
(* ended the attempt itself or has lost its session.                        *)
THEOREM SessionToldOff == Spec => []GivenUpIsTold
<1>1. ASSUME SessionInv PROVE GivenUpIsTold
  BY <1>1, GoodTurn DEF GivenUpIsTold, Tied
<1> QED BY <1>1, SessionInvariance, PTL

-----------------------------------------------------------------------------
(* An attempt that was dropped.                                             *)
Late(t) == turn[t].arm # "idle" /\ attempt[t].session # 0 /\ ~attempt[t].listed
Kept(a, b) ==
  b.result = a.result /\ b.accept = a.accept /\ b.tools <= a.tools /\ ~b.listed
AllKept == \A t \in Turns : Late(t) => Kept(attempt[t], attempt'[t])

LEMMA LateAttempt ==
  ASSUME SessionInv, NEW t \in Turns, Late(t)
  PROVE  /\ attempt[t] \in AttemptType /\ attempt[t].tools \in Nat /\ ~attempt[t].listed
         /\ turn[t].arm \notin {"idle", "offer"}
         /\ turn[t].arm \in Waiting => attempt[t].result # "open" /\ attempt[t].tools = 0
<1>1. AttemptGood(attempt[t]) /\ TurnGood(t, turn[t]) /\ Tied(attempt[t], turn[t])
  BY GoodTurn
<1>2. attempt[t] \in AttemptType /\ attempt[t].tools \in Nat /\ ~attempt[t].listed
  BY <1>1, SessionAssumption DEF AttemptGood, AttemptType, Late
<1>3. turn[t].arm \notin {"idle", "offer"}
  BY <1>1 DEF Late, Tied, NoAttempt
<1>4. turn[t].arm \in Waiting => attempt[t].result # "open" /\ attempt[t].tools = 0
  BY <1>1, <1>2 DEF Tied, TurnGood, Waiting, CutOff
<1> QED BY <1>2, <1>3, <1>4

LEMMA KeptByTurn ==
  ASSUME SessionInv, NEW t \in Turns, NEW b, attempt' = [attempt EXCEPT ![t] = b],
         Late(t) => Kept(attempt[t], b)
  PROVE  AllKept
<1>1. ASSUME NEW u \in Turns, Late(u) PROVE Kept(attempt[u], attempt'[u])
  <2>1. CASE u = t
    BY <1>1, <2>1 DEF SessionInv, IsFcn
  <2>2. CASE u # t
    <3>1. attempt'[u] = attempt[u]
      BY <2>2 DEF SessionInv, IsFcn
    <3> QED BY <1>1, <3>1, LateAttempt DEF Kept
  <2> QED BY <2>1, <2>2
<1> QED BY <1>1 DEF AllKept

LEMMA KeptUnchanged == ASSUME SessionInv, UNCHANGED attempt PROVE AllKept
BY LateAttempt DEF AllKept, Kept

LEMMA KeptByAbandon == ASSUME SessionInv, NEW s, Abandon(s) PROVE AllKept
<1>1. ASSUME NEW t \in Turns, Late(t) PROVE Kept(attempt[t], attempt'[t])
  <2>1. attempt'[t] = attempt[t]
    BY <1>1 DEF Abandon, Late
  <2> QED BY <1>1, <2>1, LateAttempt DEF Kept
<1> QED BY <1>1 DEF AllKept

LEMMA KeptByFrame == ASSUME SessionInv, NEW t \in Turns, Frame(t) PROVE AllKept
<1> DEFINE a == attempt[t]
<1>1. ASSUME NEW b, AttemptTo(t, b), a.listed PROVE AllKept
  BY <1>1, KeptByTurn DEF Late, AttemptTo
<1>2. CASE \/ HandleAccept(t) \/ HandleReject(t) \/ HandleResult(t) \/ HandleFailed(t)
           \/ DispatchToolCall(t)
  BY <1>1, <1>2 DEF HandleAccept, HandleReject, HandleResult, HandleFailed, DispatchToolCall
<1>3. CASE ToolEnds(t)
  <2> DEFINE b == [a EXCEPT !.tools = @ - 1]
  <2>1. attempt' = [attempt EXCEPT ![t] = b]
    BY <1>3 DEF ToolEnds, AttemptTo
  <2>2. Late(t) => Kept(a, b)
    BY LateAttempt DEF Kept, AttemptType
  <2> HIDE DEF b
  <2> QED BY <2>1, <2>2, KeptByTurn
<1>4. CASE Deliver(t)
  <2> DEFINE b == [a EXCEPT !.known = TRUE]
  <2>1. attempt' = [attempt EXCEPT ![t] = b]
    BY <1>4 DEF Deliver, AttemptTo
  <2>2. Late(t) => Kept(a, b)
    BY LateAttempt DEF Kept, AttemptType
  <2> HIDE DEF b
  <2> QED BY <2>1, <2>2, KeptByTurn
<1> QED BY <1>2, <1>3, <1>4 DEF Frame

(* A turn that drops its own attempt, with or without a new outcome.        *)
LEMMA KeptByDrop ==
  ASSUME SessionInv, NEW t \in Turns, turn[t].arm \in Waiting,
         \/ AttemptTo(t, Drop(attempt[t]))
         \/ AttemptTo(t, Retire(Drop(attempt[t])))
         \/ AttemptTo(t, Resolve(Drop(attempt[t]), "lost"))
  PROVE  AllKept
<1> DEFINE a == attempt[t]
           d == Drop(a)
           e == Retire(d)
           f == Resolve(d, "lost")
<1>1. PICK b \in {d, e, f} : attempt' = [attempt EXCEPT ![t] = b]
  BY DEF AttemptTo
<1>2. ASSUME Late(t) PROVE Kept(a, b)
  <2>1. a \in AttemptType /\ ~a.listed /\ a.result # "open" /\ a.tools = 0
    BY <1>2, LateAttempt
  <2>2. /\ d \in AttemptType /\ ~d.listed /\ d.result = a.result /\ d.accept = a.accept
        /\ d.tools = 0
    BY <2>1, DropFields
  <2> HIDE DEF a, d
  <2>3. ~e.listed /\ e.result = a.result /\ e.accept = a.accept /\ e.tools = 0
    BY <2>2 DEF Retire, AttemptType
  <2>4. ~f.listed /\ f.result = a.result /\ f.accept = a.accept /\ f.tools = 0
    BY <2>1, <2>2, ResolveFields
  <2> HIDE DEF e, f
  <2> QED BY <1>1, <2>1, <2>2, <2>3, <2>4 DEF Kept
<1> HIDE DEF a, d, e, f
<1> QED BY <1>1, <1>2, KeptByTurn DEF a

LEMMA KeptByOffer ==
  ASSUME SessionInv, NEW t \in Turns, Start(t) \/ StartIneligible(t) \/ OfferFromArm(t)
  PROVE  AllKept
<1>1. ~Late(t)
  BY LateAttempt DEF Start, StartIneligible, OfferFromArm, NotStarted, Late
<1>2. UNCHANGED attempt \/ \E b : attempt' = [attempt EXCEPT ![t] = b]
  BY DEF Start, StartIneligible, OfferFromArm, OfferTo, AttemptTo
<1> QED BY <1>1, <1>2, KeptByTurn, KeptUnchanged

LEMMA KeptByStep == ASSUME SessionInv, [Next]_vars PROVE AllKept
<1>1. CASE Register \/ \E s \in sockets : Release(s)
  BY <1>1, KeptByAbandon DEF Register, Release
<1>2. CASE Resume \/ UNCHANGED vars
  BY <1>2, KeptUnchanged DEF Resume, vars
<1>3. ASSUME NEW t \in Turns, Start(t) \/ StartIneligible(t) \/ OfferFromArm(t) PROVE AllKept
  BY <1>3, KeptByOffer
<1>4. ASSUME NEW t \in Turns, Frame(t) PROVE AllKept
  BY <1>4, KeptByFrame
<1>5. ASSUME NEW t \in Turns,
             \/ Sent(t) \/ AcceptReturns(t) \/ ResultReturns(t) \/ Tell(t)
             \/ LocalEnds(t) \/ RunBothReturns(t)
      PROVE  AllKept
  BY <1>5, KeptUnchanged DEF Sent, AcceptReturns, ResultReturns, Tell, LocalEnds, RunBothReturns
<1>6. ASSUME NEW t \in Turns, SendFails(t) \/ AcceptTimesOut(t) \/ ResultTimesOut(t)
      PROVE  AllKept
  BY <1>6, KeptByDrop DEF SendFails, AcceptTimesOut, ResultTimesOut, Waiting
<1>7. ASSUME NEW t \in Turns, Cancel(t) PROVE AllKept
  BY <1>7, KeptByDrop, KeptUnchanged DEF Cancel, Waiting
<1> QED BY <1>1, <1>2, <1>3, <1>4, <1>5, <1>6, <1>7 DEF Next, Advance

(* A late frame changes nothing: the handlers of session.py look only at    *)
(* listed attempts, and _resolve keeps the first outcome.                   *)
THEOREM SessionDropped == Spec => DroppedStaysDropped
<1>1. SessionInv /\ [Next]_vars =>
        [\A t \in Turns : turn[t].arm # "idle" /\ attempt[t].session # 0 /\ ~attempt[t].listed =>
           /\ attempt'[t].result = attempt[t].result /\ attempt'[t].accept = attempt[t].accept
           /\ attempt'[t].tools <= attempt[t].tools /\ ~attempt'[t].listed]_vars
  BY KeptByStep DEF AllKept, Late, Kept
<1> QED BY <1>1, SessionInvariance, PTL DEF Spec, DroppedStaysDropped

-----------------------------------------------------------------------------
(* The steps the companion arm of a turn may still take.                    *)
StepsLeft(arm) ==
  CASE arm = "idle" -> 6 [] arm = "offer" -> 5 [] arm = "send" -> 4 [] arm = "accept" -> 3
    [] arm = "result" -> 2 [] arm = "tell" -> 1 [] arm = "ended" -> 0

(* A turn that was r may become n: its arm only comes nearer to its end,    *)
(* what an arm ended with stays, and so does the answer.                    *)
Onward(r, n) ==
  /\ n.arm # r.arm => StepsLeft(n.arm) < StepsLeft(r.arm)
  /\ r.arm = "ended" => n.got = r.got
  /\ r.local \notin {"off", "run"} => n.local = r.local
  /\ r.local = "run" => n.local # "off"
  /\ r.answer # "none" => n.answer = r.answer
AllOnward == \A t \in Turns : Onward(turn[t], turn'[t])
AnsweredOnce == [][AllOnward]_vars

LEMMA OnwardByTurn ==
  ASSUME SessionInv, NEW t \in Turns, NEW q, Become(t, q), Onward(turn[t], q)
  PROVE  AllOnward
<1>1. ASSUME NEW u \in Turns PROVE Onward(turn[u], turn'[u])
  <2>1. CASE u = t
    <3>1. turn'[u] = q
      BY <2>1 DEF SessionInv, IsFcn, Become
    <3> QED BY <2>1, <3>1
  <2>2. CASE u # t
    <3>1. turn'[u] = turn[u]
      BY <2>2 DEF SessionInv, IsFcn, Become
    <3> QED BY <3>1 DEF Onward
  <2> QED BY <2>1, <2>2
<1> QED BY <1>1 DEF AllOnward

(* The companion arm ends: the turn is answered now, or its local run is    *)
(* started, and neither had happened before.                                *)
LEMMA OnwardByEnd ==
  ASSUME NEW t \in Turns, NEW r \in TurnType, TurnGood(t, r), r.arm \notin {"idle", "ended"},
         NEW told \in BOOLEAN, NEW got \in Ends
  PROVE  Onward(r, ArmEnded(t, [r EXCEPT !.told = told], got))
<1> DEFINE q == [r EXCEPT !.told = told]
           d == [q EXCEPT !.arm = "ended", !.got = got]
           e == ArmEnded(t, q, got)
<1>1. /\ d \in TurnType /\ d.arm = "ended" /\ d.got = got
      /\ d.local = r.local /\ d.answer = r.answer
  BY DEF TurnType, Ends, Places
<1>2. e = IF Mode[t] = "both" THEN d
          ELSE IF got = "value" THEN [d EXCEPT !.answer = "companion"]
          ELSE IF got \in {"cancelled", "interrupted"} THEN [d EXCEPT !.answer = "cancelled"]
          ELSE IF Mode[t] = "companion_only" THEN [d EXCEPT !.answer = "nothing"]
          ELSE [d EXCEPT !.local = "run"]
  BY DEF ArmEnded, FallBack
<1> HIDE DEF q, d, e
<1>3. e.arm = "ended" /\ (Mode[t] = "both" => e.local = r.local /\ e.answer = r.answer)
  BY <1>1, <1>2 DEF TurnType
<1>4. Mode[t] # "both" => r.local = "off" /\ r.answer = "none"
  BY DEF TurnGood
<1>5. StepsLeft("ended") < StepsLeft(r.arm)
  BY DEF StepsLeft, TurnType, Places
<1> QED BY <1>3, <1>4, <1>5 DEF Onward, e, q

LEMMA OnwardByArm ==
  ASSUME SessionInv, NEW t \in Turns, Advance(t)
  PROVE  AllOnward
<1> DEFINE r == turn[t]
<1>0. r \in TurnType /\ TurnGood(t, r) /\ r = [r EXCEPT !.told = r.told] /\ r.told \in BOOLEAN
  <2>1. TurnGood(t, r)
    BY DEF SessionInv, Good
  <2> QED BY <2>1 DEF TurnGood, TurnType
<1>1. ASSUME NEW arm \in Places, StepsLeft(arm) < StepsLeft(r.arm), r.arm # "ended",
             NEW got, Become(t, [r EXCEPT !.arm = arm, !.got = got])
      PROVE  AllOnward
  <2> DEFINE q == [r EXCEPT !.arm = arm, !.got = got]
  <2>1. q.arm = arm /\ q.local = r.local /\ q.answer = r.answer
    BY <1>0 DEF TurnType
  <2>2. Onward(r, q)
    BY <1>1, <2>1 DEF Onward
  <2> HIDE DEF q
  <2> QED BY <1>1, <2>2, OnwardByTurn DEF q
<1>2. ASSUME NEW got \in Ends, EndArm(t, got), r.arm \notin {"idle", "ended"} PROVE AllOnward
  <2>1. Onward(r, ArmEnded(t, [r EXCEPT !.told = r.told], got))
    BY <1>0, <1>2, OnwardByEnd
  <2>2. Onward(r, ArmEnded(t, r, got))
    BY <1>0, <2>1
  <2> QED BY <1>2, <2>2, OnwardByTurn DEF EndArm
<1>3. ASSUME NEW arm \in Places, StepsLeft(arm) < StepsLeft(r.arm), r.arm # "ended",
             Become(t, [r EXCEPT !.arm = arm])
      PROVE  AllOnward
  <2>1. [r EXCEPT !.arm = arm] = [r EXCEPT !.arm = arm, !.got = r.got]
    BY <1>0 DEF TurnType
  <2> QED BY <1>1, <1>3, <2>1
<1>4. /\ StepsLeft("send") < StepsLeft("offer") /\ StepsLeft("accept") < StepsLeft("send")
      /\ StepsLeft("result") < StepsLeft("accept")
      /\ StepsLeft("tell") < StepsLeft("accept") /\ StepsLeft("tell") < StepsLeft("result")
      /\ {"send", "accept", "result", "tell"} \subseteq Places
      /\ {"value", "failed", "declined", "unsent"} \subseteq Ends
  BY DEF StepsLeft, Places, Ends
<1>5. CASE OfferFromArm(t)
  BY <1>2, <1>3, <1>4, <1>5 DEF OfferFromArm, OfferTo
<1>6. CASE Sent(t)
  BY <1>3, <1>4, <1>6 DEF Sent
<1>7. CASE SendFails(t)
  BY <1>2, <1>4, <1>7 DEF SendFails
<1>8. CASE AcceptReturns(t)
  BY <1>2, <1>3, <1>4, <1>8 DEF AcceptReturns
<1>9. CASE ResultReturns(t)
  BY <1>2, <1>4, <1>9 DEF ResultReturns
<1>10. CASE AcceptTimesOut(t) \/ ResultTimesOut(t)
  BY <1>1, <1>4, <1>10 DEF AcceptTimesOut, ResultTimesOut, GiveUp
<1>11. CASE Tell(t)
  <2>1. r.arm = "tell" /\ r.got \in Ends
    BY <1>0, <1>11 DEF Tell, TurnGood, Ends
  <2>2. Onward(r, ArmEnded(t, [r EXCEPT !.told = TRUE], r.got))
    BY <1>0, <2>1, OnwardByEnd
  <2> QED BY <1>11, <2>2, OnwardByTurn DEF Tell
<1> QED BY <1>5, <1>6, <1>7, <1>8, <1>9, <1>10, <1>11 DEF Advance

LEMMA OnwardByOther ==
  ASSUME SessionInv, NEW t \in Turns,
         Start(t) \/ StartIneligible(t) \/ LocalEnds(t) \/ RunBothReturns(t) \/ Cancel(t)
  PROVE  AllOnward
<1> DEFINE r == turn[t]
<1>0. r \in TurnType /\ TurnGood(t, r) /\ r = [r EXCEPT !.told = r.told] /\ r.told \in BOOLEAN
  <2>1. TurnGood(t, r)
    BY DEF SessionInv, Good
  <2> QED BY <2>1 DEF TurnGood, TurnType
<1>1. ASSUME NEW q, Become(t, q), r = NotStarted, q.arm \in {"offer", "send", "ended"}
      PROVE  AllOnward
  <2>1. Onward(r, q)
    BY <1>1 DEF Onward, NotStarted, StepsLeft
  <2> QED BY <1>1, <2>1, OnwardByTurn
<1>2. CASE Start(t) \/ StartIneligible(t)
  <2> DEFINE both == [NotStarted EXCEPT !.arm = "offer", !.local = "run"]
             sent == [NotStarted EXCEPT !.arm = "send"]
             over == FallBack(t, [NotStarted EXCEPT !.arm = "ended"])
  <2>1. both.arm = "offer" /\ sent.arm = "send" /\ over.arm = "ended"
    BY DEF NotStarted, FallBack
  <2>2. r = NotStarted /\ (Become(t, both) \/ Become(t, sent) \/ Become(t, over))
    BY <1>2 DEF Start, StartIneligible, OfferTo
  <2> HIDE DEF both, sent, over
  <2> QED BY <1>1, <2>1, <2>2
<1>3. ASSUME NEW local, NEW answer, Become(t, [r EXCEPT !.local = local, !.answer = answer]),
             r.answer # "none" => answer = r.answer,
             local = r.local \/ (r.local = "run" /\ local # "off")
      PROVE  AllOnward
  <2> DEFINE q == [r EXCEPT !.local = local, !.answer = answer]
  <2>1. q.arm = r.arm /\ q.got = r.got /\ q.local = local /\ q.answer = answer
    BY <1>0 DEF TurnType
  <2>2. Onward(r, q)
    BY <1>3, <2>1 DEF Onward
  <2> HIDE DEF q
  <2> QED BY <1>3, <2>2, OnwardByTurn DEF q
<1>4. CASE LocalEnds(t)
  <2>1. PICK end \in {"value", "raised"} :
          Become(t, [r EXCEPT !.local = end,
                              !.answer = IF Mode[t] = "both" THEN r.answer
                                         ELSE IF end = "value" THEN "local" ELSE "raised"])
    BY <1>4 DEF LocalEnds
  <2>2. r.local = "run" /\ (Mode[t] # "both" => r.answer = "none")
    BY <1>0, <1>4 DEF LocalEnds, TurnGood
  <2> QED BY <1>3, <2>1, <2>2
<1>5. ASSUME NEW answer, Become(t, [r EXCEPT !.answer = answer]), r.answer = "none"
      PROVE  AllOnward
  <2>1. [r EXCEPT !.answer = answer] = [r EXCEPT !.local = r.local, !.answer = answer]
    BY <1>0 DEF TurnType
  <2> QED BY <1>3, <1>5, <2>1
<1>6. CASE RunBothReturns(t)
  BY <1>5, <1>6 DEF RunBothReturns
<1>7. CASE Cancel(t)
  <2>1. CASE Mode[t] = "both"
    BY <1>5, <1>7, <2>1 DEF Cancel
  <2>2. CASE r.arm \in {"send", "tell"} /\ EndArm(t, "interrupted")
    <3>1. Onward(r, ArmEnded(t, [r EXCEPT !.told = r.told], "interrupted"))
      BY <1>0, <2>2, OnwardByEnd DEF Ends
    <3>2. Onward(r, ArmEnded(t, r, "interrupted"))
      BY <1>0, <3>1
    <3> QED BY <2>2, <3>2, OnwardByTurn DEF EndArm
  <2>3. CASE r.arm \in {"accept", "result"} /\ GiveUp(t, "cancelled")
    <3> DEFINE q == [r EXCEPT !.arm = "tell", !.got = "cancelled"]
    <3>1. q.arm = "tell" /\ q.local = r.local /\ q.answer = r.answer
      BY <1>0 DEF TurnType
    <3>2. Onward(r, q)
      BY <2>3, <3>1 DEF Onward, StepsLeft
    <3> HIDE DEF q
    <3> QED BY <2>3, <3>2, OnwardByTurn DEF GiveUp, q
  <2>4. CASE /\ r.local = "run" /\ r.answer = "none"
             /\ Become(t, [r EXCEPT !.local = "cancelled", !.answer = "cancelled"])
    BY <1>3, <2>4
  <2> QED BY <1>7, <2>1, <2>2, <2>3, <2>4 DEF Cancel
<1> QED BY <1>2, <1>4, <1>6, <1>7

(* A turn is answered once: its arm runs through offer, acceptance and      *)
(* result without ever turning back, and no late end of an arm, timer or    *)
(* cancellation changes what a finished arm or the turn ended with.         *)
THEOREM SessionAnsweredOnce == Spec => AnsweredOnce
<1>1. ASSUME SessionInv, [Next]_vars PROVE AllOnward
  <2>1. ASSUME UNCHANGED turn PROVE AllOnward
    BY <2>1 DEF AllOnward, Onward
  <2>2. ASSUME NEW t \in Turns, Frame(t) PROVE UNCHANGED turn
    BY <2>2 DEF Frame, HandleAccept, HandleReject, HandleResult, HandleFailed,
                DispatchToolCall, ToolEnds, Deliver
  <2>3. CASE Register \/ Resume \/ (\E s \in sockets : Release(s)) \/ UNCHANGED vars
    BY <2>1, <2>3 DEF Register, Resume, Release, vars
  <2> QED BY <1>1, <2>1, <2>2, <2>3, OnwardByArm, OnwardByOther DEF Next
<1> QED BY <1>1, SessionInvariance, PTL DEF Spec, AnsweredOnce

(* A started turn without an answer has a step of its own to take: an arm   *)
(* whose every await ends by a frame, a failure or a timer, a local run, or *)
(* the look at two arms that have ended.                                    *)
CanAnswer ==
  \A t \in Turns : turn[t] # NotStarted /\ turn[t].answer = "none" =>
    \/ turn[t].arm \in {"offer", "send", "accept", "result", "tell"}
    \/ turn[t].local = "run"
    \/ /\ Mode[t] = "both"
       /\ turn[t].local = "raised" \/ (turn[t].local = "value" /\ turn[t].arm = "ended")

(* No sequence of lost frames, timeouts, superseded sessions and            *)
(* cancellations leaves a turn unanswered with nothing left to do.          *)
THEOREM SessionCanAnswer == Spec => []CanAnswer
<1>1. ASSUME SessionInv PROVE CanAnswer
  <2>1. \A t \in Turns : TurnGood(t, turn[t])
    BY <1>1 DEF SessionInv, Good
  <2> QED BY <2>1 DEF CanAnswer, TurnGood, TurnType, Places
<1> QED BY <1>1, SessionInvariance, PTL
=============================================================================
