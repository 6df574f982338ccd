-------------------------- MODULE CompanionSession --------------------------
(***************************************************************************)
(* Turns that ask the phone (companion/router.py) over its only live       *)
(* session (companion/session.py): offer, acceptance, tool calls, result,  *)
(* deadlines, a newer session that supersedes the old one, and the local   *)
(* run a turn falls back to.  Handlers of frames and timers run between    *)
(* any two awaits of a turn.                                               *)
(*                                                                         *)
(* Abstractions.  An outcome is ok, failed (the phone said so) or lost (a  *)
(* deadline or the end of the session).  There is one workload, hence one  *)
(* breaker, and one offer for a turn.  Tier, locality and advertised       *)
(* workloads may refuse an offer at any time.  A tool call whose task was  *)
(* cancelled counts as ended.  Personal calls and approval questions wait  *)
(* on futures of their own and are left out, as are counters and timings.  *)
(***************************************************************************)
EXTENDS Integers

CONSTANTS
  Turns,
  Mode,          \* Mode[t]: the route of the workload of turn t
  Callbacks,     \* Callbacks[t]: tool calls the phone may make for turn t
  MaxInFlight,   \* max_concurrent_callbacks
  FailureBudget, \* failures in a row that pause the workload
  MaxSessions    \* bound: how often a phone registers

RouteModes == {"companion_preferred", "companion_only", "both"}

ASSUME SessionAssumption ==
  /\ Mode \in [Turns -> RouteModes]
  /\ Callbacks \in [Turns -> Nat]
  /\ MaxInFlight \in Nat /\ FailureBudget \in Nat \ {0} /\ MaxSessions \in Nat

VARIABLES
  current,    \* number of the current session, 0 when there is none
  opened,     \* sessions registered so far
  sockets,    \* sessions whose receive loop still runs
  attempt,    \* attempt[t]: the _Attempt of turn t
  turn,       \* turn[t]: where the turn, its companion arm and its local run are
  failures,   \* WorkloadCounters.consecutive_failures
  paused      \* paused_until lies ahead

vars == <<current, opened, sockets, attempt, turn, failures, paused>>
sessionVars == <<current, opened, sockets>>
breakerVars == <<failures, paused>>

NoAttempt ==
  [session |-> 0, listed |-> FALSE, known |-> FALSE, accept |-> "open",
   result |-> "open", tools |-> 0, left |-> 0]

(* `arm` is where the companion arm is and `got` what it ends with, `told`  *)
(* that a JobCancel was sent.                                               *)
NotStarted ==
  [arm |-> "idle", got |-> "none", local |-> "off", answer |-> "none", told |-> FALSE]

Init ==
  /\ current = 0 /\ opened = 0 /\ sockets = {}
  /\ attempt = [t \in Turns |-> NoAttempt]
  /\ turn = [t \in Turns |-> NotStarted]
  /\ failures = 0 /\ paused = FALSE

Become(t, new) == turn' = [turn EXCEPT ![t] = new]
AttemptTo(t, new) == attempt' = [attempt EXCEPT ![t] = new]

-----------------------------------------------------------------------------
(* Attempts.                                                                *)

Drop(a) == [a EXCEPT !.listed = FALSE]
Accept(a, verdict) == [a EXCEPT !.accept = IF @ = "open" THEN verdict ELSE @]
(* _retire: a tool call of an attempt nobody reads is cancelled.  (The flag *)
(* `cancelled` is set only when the attempt is unlisted in the same breath.) *)
Retire(a) == [a EXCEPT !.tools = 0]
(* _resolve: the first outcome stands.                                      *)
Resolve(a, outcome) == Retire([a EXCEPT !.result = IF @ = "open" THEN outcome ELSE @])

(* _abandon, for every attempt listed in session s.                         *)
Abandon(s) ==
  attempt' = [t \in Turns |->
    IF attempt[t].listed /\ attempt[t].session = s
    THEN Drop(Resolve(Accept(attempt[t], "no"), "lost"))
    ELSE attempt[t]]

(* Mutant: a newer session leaves the attempts of the old one waiting.      *)
RegisterBeside ==
  /\ opened < MaxSessions
  /\ opened' = opened + 1 /\ current' = opened'
  /\ sockets' = sockets \cup {current'}
  /\ UNCHANGED <<attempt, turn, breakerVars>>

(* A phone says hello; the session it replaces is abandoned, its socket     *)
(* stays until its next frame.                                              *)
Register ==
  /\ opened < MaxSessions
  /\ opened' = opened + 1 /\ current' = opened'
  /\ sockets' = sockets \cup {current'}
  /\ Abandon(current)
  /\ UNCHANGED <<turn, breakerVars>>

(* The receive loop of session s ends and releases it.                      *)
Release(s) ==
  /\ s \in sockets
  /\ sockets' = sockets \ {s}
  /\ current' = IF current = s THEN 0 ELSE current
  /\ Abandon(s)
  /\ UNCHANGED <<opened, turn, breakerVars>>

(* A frame of the phone about the attempt of turn t, read by the loop of    *)
(* the session it was offered in.  The handlers ignore an attempt that is   *)
(* not listed any more, and the loop of a superseded session stops.         *)
Reads(t) ==
  /\ attempt[t].known
  /\ attempt[t].session = current
  /\ attempt[t].session \in sockets

HandleAccept(t) ==
  /\ Reads(t) /\ attempt[t].listed /\ attempt[t].accept = "open"
  /\ AttemptTo(t, Accept(attempt[t], "yes"))
  /\ UNCHANGED <<sessionVars, turn, breakerVars>>

HandleReject(t) ==
  /\ Reads(t) /\ attempt[t].listed /\ attempt[t].accept = "open"
  /\ AttemptTo(t, Drop(Resolve(Accept(attempt[t], "no"), "failed")))
  /\ UNCHANGED <<sessionVars, turn, breakerVars>>

(* Mutant: a result is taken for an attempt that was given up.              *)
HandleLateResult(t) ==
  /\ Reads(t)
  /\ AttemptTo(t, Drop(Resolve(attempt[t], "ok")))
  /\ UNCHANGED <<sessionVars, turn, breakerVars>>

(* A result that overtakes the acceptance leaves `accept` open.             *)
HandleResult(t) ==
  /\ Reads(t) /\ attempt[t].listed
  /\ AttemptTo(t, Drop(Resolve(attempt[t], "ok")))
  /\ UNCHANGED <<sessionVars, turn, breakerVars>>

HandleFailed(t) ==
  /\ Reads(t) /\ attempt[t].listed
  /\ AttemptTo(t, Drop(Resolve(Accept(attempt[t], "no"), "failed")))
  /\ UNCHANGED <<sessionVars, turn, breakerVars>>

DispatchToolCall(t) ==
  /\ Reads(t) /\ attempt[t].listed
  /\ attempt[t].left > 0 /\ attempt[t].tools < MaxInFlight
  /\ AttemptTo(t, [attempt[t] EXCEPT !.left = @ - 1, !.tools = @ + 1])
  /\ UNCHANGED <<sessionVars, turn, breakerVars>>

(* _run_tool_call answers, fails or runs into its deadline.                 *)
ToolEnds(t) ==
  /\ attempt[t].tools > 0
  /\ AttemptTo(t, [attempt[t] EXCEPT !.tools = @ - 1])
  /\ UNCHANGED <<sessionVars, turn, breakerVars>>

-----------------------------------------------------------------------------
(* Turns.                                                                   *)

(* A run without an answer of the phone: the local one, or none.            *)
FallBack(t, r) ==
  IF Mode[t] = "companion_only" THEN [r EXCEPT !.answer = "nothing"]
  ELSE [r EXCEPT !.local = "run"]

(* The turn after its companion arm has ended with `got`; under `both` that *)
(* arm is a task of its own, which the turn looks at later.                 *)
ArmEnded(t, r, got) ==
  LET ended == [r EXCEPT !.arm = "ended", !.got = got]
  IN IF Mode[t] = "both" THEN ended
     ELSE IF got = "value" THEN [ended EXCEPT !.answer = "companion"]
     ELSE IF got \in {"cancelled", "interrupted"} THEN [ended EXCEPT !.answer = "cancelled"]
     ELSE FallBack(t, ended)

(* Mutant: the count goes on after the pause.                               *)
CountOn(got) ==
  /\ failures' = IF got = "failed" THEN failures + 1
                 ELSE IF got = "value" THEN 0 ELSE failures
  /\ paused' = (paused \/ (got = "failed" /\ failures + 1 >= FailureBudget))

(* _record_failure, or the reset after a result that could be used.         *)
Count(got) ==
  IF got = "failed"
  THEN IF failures + 1 >= FailureBudget
       THEN failures' = 0 /\ paused' = TRUE
       ELSE failures' = failures + 1 /\ UNCHANGED paused
  ELSE /\ failures' = IF got = "value" THEN 0 ELSE failures
       /\ UNCHANGED paused

EndArm(t, got) == Become(t, ArmEnded(t, turn[t], got)) /\ Count(got)

(* offer lists the attempt before its first await.                          *)
OfferTo(t, r) ==
  /\ AttemptTo(t, [NoAttempt EXCEPT !.session = current, !.listed = TRUE,
                                    !.left = Callbacks[t]])
  /\ Become(t, [r EXCEPT !.arm = "send"])

Start(t) ==
  /\ turn[t] = NotStarted /\ current # 0 /\ ~paused
  /\ IF Mode[t] = "both"
     THEN Become(t, [NotStarted EXCEPT !.arm = "offer", !.local = "run"]) /\ UNCHANGED attempt
     ELSE OfferTo(t, NotStarted)
  /\ UNCHANGED <<sessionVars, breakerVars>>

StartIneligible(t) ==
  /\ turn[t] = NotStarted
  /\ Become(t, FallBack(t, [NotStarted EXCEPT !.arm = "ended"]))
  /\ UNCHANGED <<sessionVars, attempt, breakerVars>>

(* The task of the companion arm runs for the first time.                   *)
OfferFromArm(t) ==
  /\ turn[t].arm = "offer"
  /\ \/ current # 0 /\ OfferTo(t, turn[t]) /\ UNCHANGED breakerVars
     \/ current = 0 /\ EndArm(t, "declined") /\ UNCHANGED attempt
  /\ UNCHANGED sessionVars

(* The phone has the offer; session.send may still be awaited.              *)
Deliver(t) ==
  /\ turn[t].arm = "send" /\ ~attempt[t].known /\ attempt[t].session \in sockets
  /\ AttemptTo(t, [attempt[t] EXCEPT !.known = TRUE])
  /\ UNCHANGED <<sessionVars, turn, breakerVars>>

Sent(t) ==
  /\ turn[t].arm = "send" /\ attempt[t].known
  /\ Become(t, [turn[t] EXCEPT !.arm = "accept"])
  /\ UNCHANGED <<sessionVars, attempt, breakerVars>>

SendFails(t) ==
  /\ turn[t].arm = "send"
  /\ AttemptTo(t, Drop(attempt[t]))
  /\ EndArm(t, "unsent")
  /\ UNCHANGED sessionVars

AcceptReturns(t) ==
  /\ turn[t].arm = "accept"
  /\ \/ /\ attempt[t].accept = "yes"
        /\ Become(t, [turn[t] EXCEPT !.arm = "result"])
        /\ UNCHANGED breakerVars
     \/ attempt[t].accept = "no" /\ EndArm(t, "declined")
  /\ UNCHANGED <<sessionVars, attempt>>

(* The arm has given up and tells the phone before it ends with `got`.      *)
GiveUp(t, got) ==
  /\ Become(t, [turn[t] EXCEPT !.arm = "tell", !.got = got])
  /\ UNCHANGED <<sessionVars, breakerVars>>

(* Mutant: the timer only unlists the attempt.                              *)
AcceptTimesOutQuietly(t) ==
  /\ turn[t].arm = "accept"
  /\ AttemptTo(t, Drop(attempt[t]))
  /\ GiveUp(t, "declined")

(* The timer wins even over an acceptance that was taken in the same tick.  *)
AcceptTimesOut(t) ==
  /\ turn[t].arm = "accept"
  /\ AttemptTo(t, Resolve(Drop(attempt[t]), "lost"))
  /\ GiveUp(t, "declined")

(* A result that does not parse counts as a failure.                        *)
ResultReturns(t) ==
  /\ turn[t].arm = "result" /\ attempt[t].result # "open"
  /\ \/ attempt[t].result = "ok" /\ EndArm(t, "value")
     \/ EndArm(t, "failed")
  /\ UNCHANGED <<sessionVars, attempt>>

ResultTimesOut(t) ==
  /\ turn[t].arm = "result"
  /\ AttemptTo(t, Retire(Drop(attempt[t])))
  /\ GiveUp(t, "failed")

(* Mutant: the JobCancel is left out.                                       *)
TellNothing(t) ==
  /\ turn[t].arm = "tell"
  /\ EndArm(t, turn[t].got)
  /\ UNCHANGED <<sessionVars, attempt>>

(* _cancel_quietly returns.                                                 *)
Tell(t) ==
  /\ turn[t].arm = "tell"
  /\ Become(t, ArmEnded(t, [turn[t] EXCEPT !.told = TRUE], turn[t].got))
  /\ Count(turn[t].got)
  /\ UNCHANGED <<sessionVars, attempt>>

LocalEnds(t) ==
  /\ turn[t].local = "run"
  /\ \E end \in {"value", "raised"} :
       Become(t, [turn[t] EXCEPT
         !.local = end,
         !.answer = IF Mode[t] = "both" THEN @
                    ELSE IF end = "value" THEN "local" ELSE "raised"])
  /\ UNCHANGED <<sessionVars, attempt, breakerVars>>

(* Mutant: the first arm that succeeds ends the turn.                       *)
FirstArmAnswers(t) ==
  /\ Mode[t] = "both" /\ turn[t].answer = "none"
  /\ \/ turn[t].local = "raised" /\ Become(t, [turn[t] EXCEPT !.answer = "raised"])
     \/ turn[t].local = "value" /\ Become(t, [turn[t] EXCEPT !.answer = "local"])
     \/ turn[t].got = "value" /\ Become(t, [turn[t] EXCEPT !.answer = "companion"])
  /\ UNCHANGED <<sessionVars, attempt, breakerVars>>

(* _run_both: an error of the local arm ends the turn at once, an answer    *)
(* waits for both arms.  Which of two answers came first is left open.      *)
RunBothReturns(t) ==
  /\ Mode[t] = "both" /\ turn[t].answer = "none"
  /\ \/ /\ turn[t].local = "raised"
        /\ Become(t, [turn[t] EXCEPT !.answer = "raised"])
     \/ /\ turn[t].local = "value" /\ turn[t].arm = "ended"
        /\ \E winner \in {"local"} \cup (IF turn[t].got = "value" THEN {"companion"} ELSE {}) :
             Become(t, [turn[t] EXCEPT !.answer = winner])
  /\ UNCHANGED <<sessionVars, attempt, breakerVars>>

(* The task of the turn is cancelled at the await it is at.  A cancellation *)
(* while a frame is being sent leaves offer and _cancel_quietly at once;    *)
(* under `both` it does not reach the arms.                                 *)
Cancel(t) ==
  /\ turn[t] # NotStarted /\ turn[t].answer = "none"
  /\ \/ /\ Mode[t] = "both"
        /\ Become(t, [turn[t] EXCEPT !.answer = "cancelled"])
        /\ UNCHANGED <<sessionVars, attempt, breakerVars>>
     \/ /\ turn[t].arm \in {"send", "tell"} /\ Mode[t] # "both"
        /\ EndArm(t, "interrupted")
        /\ UNCHANGED <<sessionVars, attempt>>
     \/ /\ turn[t].arm = "accept" /\ Mode[t] # "both"
        /\ AttemptTo(t, Drop(attempt[t]))
        /\ GiveUp(t, "cancelled")
     \/ /\ turn[t].arm = "result" /\ Mode[t] # "both"
        /\ AttemptTo(t, Retire(Drop(attempt[t])))
        /\ GiveUp(t, "cancelled")
     \/ /\ turn[t].local = "run" /\ Mode[t] # "both"
        /\ Become(t, [turn[t] EXCEPT !.local = "cancelled", !.answer = "cancelled"])
        /\ UNCHANGED <<sessionVars, attempt, breakerVars>>

(* The pause of the circuit breaker ends.                                   *)
Resume ==
  /\ paused
  /\ paused' = FALSE
  /\ UNCHANGED <<sessionVars, attempt, turn, failures>>

Frame(t) ==
  \/ HandleAccept(t) \/ HandleReject(t) \/ HandleResult(t) \/ HandleFailed(t)
  \/ DispatchToolCall(t) \/ ToolEnds(t) \/ Deliver(t)

(* What a started turn does by itself.                                      *)
Advance(t) ==
  \/ OfferFromArm(t) \/ Sent(t) \/ SendFails(t)
  \/ AcceptReturns(t) \/ AcceptTimesOut(t)
  \/ ResultReturns(t) \/ ResultTimesOut(t) \/ Tell(t)

Next ==
  \/ Register \/ Resume
  \/ \E s \in sockets : Release(s)
  \/ \E t \in Turns :
       \/ Start(t) \/ StartIneligible(t) \/ Frame(t) \/ Advance(t)
       \/ LocalEnds(t) \/ RunBothReturns(t) \/ Cancel(t)

Spec == Init /\ [][Next]_vars

-----------------------------------------------------------------------------
Places == {"idle", "offer", "send", "accept", "result", "tell", "ended"}
PhoneEnded(a) == a.result \in {"ok", "failed"}

(* Every attempt and turn is in a state the code has a name for, and no     *)
(* attempt makes more tool calls than it was offered.                       *)
TypeOK ==
  /\ opened \in 0..MaxSessions /\ current \in 0..opened /\ sockets \subseteq 1..opened
  /\ attempt \in [Turns -> [session : 0..MaxSessions, listed : BOOLEAN, known : BOOLEAN,
                            accept : {"open", "yes", "no"},
                            result : {"open", "ok", "failed", "lost"}, tools : 0..MaxInFlight, left : Nat]]
  /\ turn \in [Turns -> [arm : Places,
                         got : {"none", "value", "failed", "declined", "unsent",
                                "cancelled", "interrupted"},
                         local : {"off", "run", "value", "raised", "cancelled"},
                         answer : {"none", "companion", "local", "nothing", "raised",
                                   "cancelled"},
                         told : BOOLEAN]]
  /\ failures \in 0..(FailureBudget - 1) /\ paused \in BOOLEAN

(* Nothing waits on a session that is gone: an attempt whose acceptance or  *)
(* result a turn still waits for is listed in the current session, whose    *)
(* frames, end or replacement resolve it.  (A result that overtook the      *)
(* acceptance is the exception, the turn then waits for its timer.)         *)
WaiterIsReachable ==
  \A t \in Turns : LET a == attempt[t] IN
    /\ a.listed => a.session = current
    /\ turn[t].arm \in {"send", "accept"} /\ a.accept = "open" => a.listed \/ a.result = "ok"
    /\ turn[t].arm = "result" /\ a.result = "open" => a.listed

(* No eager hedge: unless the route says both, the local run starts only    *)
(* when the phone can no longer answer or call tools for this turn, and not *)
(* after it answered.  (An offer whose send raised may have tools running.) *)
LocalRunsAlone ==
  \A t \in Turns : Mode[t] # "both" /\ turn[t].local # "off" =>
    /\ ~attempt[t].listed /\ turn[t].got # "value"
    /\ attempt[t].tools = 0 \/ turn[t].got = "unsent"

(* A turn that was answered has left nothing behind: both arms have ended,  *)
(* and no attempt is open or tool running for it.                           *)
AnsweredIsComplete ==
  \A t \in Turns : turn[t].answer \in {"companion", "local", "nothing"} =>
    /\ turn[t].arm = "ended" /\ turn[t].local # "run"
    /\ ~attempt[t].listed
    /\ attempt[t].tools = 0 \/ turn[t].got = "unsent"

(* A phone that has an offer nobody waits for any more ended the attempt    *)
(* itself, was told to stop or lost its session, so that a job is not done  *)
(* twice.  (Not if the send of a frame failed or was interrupted.)          *)
GivenUpIsTold ==
  \A t \in Turns :
    /\ turn[t].arm = "ended" /\ attempt[t].known
    /\ turn[t].got \notin {"unsent", "interrupted"}
    => turn[t].told \/ PhoneEnded(attempt[t]) \/ attempt[t].session # current

(* A late frame changes nothing: an attempt that was given up, abandoned or *)
(* answered keeps its outcome and starts no tool.                           *)
DroppedStaysDropped ==
  [][\A t \in Turns : turn[t].arm # "idle" /\ attempt[t].session # 0 /\ ~attempt[t].listed =>
       /\ attempt'[t].result = attempt[t].result /\ attempt'[t].accept = attempt[t].accept
       /\ attempt'[t].tools <= attempt[t].tools /\ ~attempt'[t].listed]_vars
=============================================================================
