----------------------------- MODULE VoiceTurns -----------------------------
(***************************************************************************)
(* Spoken turns of the satellites that share one acoustic scope: the turn  *)
(* gate (audio/arbitration.py), the scheduling of a satellite's turns      *)
(* (schedule_turn in api.py), the phase of the scope (audio/runtime.py),   *)
(* the turn lock (service.py) and the cancellation controller (turns.py).  *)
(* All of it is one event loop: a step runs up to an await of one task.    *)
(*                                                                         *)
(* Abstractions.  A satellite connects once.  The election is any verdict. *)
(* A deadline of a claim may pass at any time.  The calls of one wave are  *)
(* told apart by what their policy permits.  Speech is the time it takes.  *)
(* Typed turns, which take no claim, are left out.                         *)
(***************************************************************************)
EXTENDS Integers

CONSTANTS
  Turns,     \* numbered in the order a satellite hears them
  Source,    \* Source[t]: the satellite turn t is heard by
  MaxWaves   \* bound: waves of provider calls of one turn

ASSUME VoiceAssumption ==
  /\ Turns \subseteq Nat \ {0}
  /\ DOMAIN Source = Turns
  /\ MaxWaves \in Nat

VARIABLES
  at,        \* at[t]: where turn t is
  claim,     \* claim[t]: its TurnClaim; lapsed means past its deadline
  gate,      \* the turn whose claim is listed in _claims, or 0
  owner,     \* _processing_owners: the turn that set the phase last, or 0
  phase,     \* _processing_phases
  work,      \* work[t]: its TurnCancellationController and remaining waves
  connected  \* satellites whose socket is open

vars == <<at, claim, gate, owner, phase, work, connected>>
gateVars == <<claim, gate>>
phaseVars == <<owner, phase>>

Satellites == {Source[t] : t \in Turns}

(* In the worker of the satellite; a task that has not run yet; run_turn.   *)
InWorker == {"elect", "decide", "replace", "interrupt"}
Processing == {"prefetch", "think", "abandon", "lock", "handle", "speak"}
Running == Processing \cup {"confirm"}
Tasks == Running \cup {"ready", "follow", "leave"}
Over == {"dropped", "done"}
Places == {"silent"} \cup InWorker \cup Tasks \cup Over

Safeties == {"anytime", "strict"}
NoWork == [calls |-> {}, acted |-> FALSE, requested |-> FALSE, waves |-> 0]

Init ==
  /\ at = [t \in Turns |-> "silent"]
  /\ claim = [t \in Turns |-> "none"] /\ gate = 0
  /\ owner = 0 /\ phase = "idle"
  /\ work = [t \in Turns |-> NoWork]
  /\ connected = Satellites

Go(t, place) == at' = [at EXCEPT ![t] = place]

(* Mutant: a follow-up waits for the latest turn, which it is by then.      *)
EarlierOrSelf(t) == {u \in Turns : u <= t /\ Source[u] = Source[t] /\ at[u] \in Tasks}

(* Unfinished turns of the satellite of t before it.  The last of them is   *)
(* latest_turn; each of the others is awaited by the next.                  *)
Earlier(t) == {u \in Turns : u < t /\ Source[u] = Source[t] /\ at[u] \in Tasks}

-----------------------------------------------------------------------------
(* The gate.                                                                *)

GateIsLive == gate # 0 /\ claim[gate] = "live"
Gated(t) == GateIsLive /\ Source[gate] # Source[t]

(* release, for every turn in S: only the current claim is unlisted.        *)
ReleaseAll(S) ==
  /\ claim' = [t \in Turns |-> IF t \in S THEN "released" ELSE claim[t]]
  /\ gate' = IF gate \in S THEN 0 ELSE gate

(* The deadline passes; the claim stays listed until somebody looks.        *)
Lapse(t) ==
  /\ claim[t] = "live"
  /\ claim' = [claim EXCEPT ![t] = "lapsed"]
  /\ UNCHANGED <<at, gate, phaseVars, work, connected>>

(* extend_for_playback, when it makes a difference: a claim past its        *)
(* deadline that is still listed is live again.                             *)
Extend(t) ==
  /\ at[t] = "speak" /\ gate = t /\ claim[t] = "lapsed"
  /\ claim' = [claim EXCEPT ![t] = "live"]
  /\ UNCHANGED <<at, gate, phaseVars, work, connected>>

-----------------------------------------------------------------------------
(* The end of turns.                                                        *)

(* Mutant: the turn that ends stays the owner of the phase.                 *)
LeavePhase(S) ==
  /\ ReleaseAll(S)
  /\ UNCHANGED phaseVars

(* The finally clauses of run_turn, process_pending and handle for turns S. *)
Finish(S) ==
  /\ ReleaseAll(S)
  /\ owner' = IF owner \in S THEN 0 ELSE owner
  /\ phase' = IF owner \in S THEN "idle" ELSE phase

Ends(t) ==
  /\ Go(t, "done")
  /\ Finish({t})
  /\ work' = [work EXCEPT ![t] = NoWork]

(* Where a cancelled task goes.  A turn whose run_turn has not begun has no *)
(* finally, waiting for a prefetch swallows the cancellation, and a         *)
(* follow-up first sees the end of the turn it waits for.                   *)
CutTo(place) ==
  CASE place \in {"decide", "replace", "interrupt", "ready"} -> "done"
    [] place = "elect" -> "dropped"
    [] place \in {"follow", "leave"} -> "leave"
    [] place = "prefetch" -> "think"
    [] place \in Running \ {"prefetch"} -> "done"
    [] OTHER -> place

(* Task.cancel on the turns of S, whose controllers are as in w.  A turn of *)
(* `kept` awaits one call by itself and was asked to stop: invoke swallows  *)
(* the cancellation and the turn goes on.                                   *)
CutPlaces(S, kept) ==
  [t \in Turns |-> IF t \in S \ kept THEN CutTo(at[t]) ELSE at[t]]
Cut(S, kept, w) ==
  LET gone == {t \in S \ kept : at[t] \in Running \ {"prefetch"}}
  IN /\ Finish(gone)
     /\ work' = [t \in Turns |->
          CASE t \in gone -> NoWork
            [] t \in kept -> [w[t] EXCEPT !.calls = {}]
            [] OTHER -> w[t]]

(* Mutant: one call that permits it is enough.                              *)
PermitsAny(t) ==
  IF work[t].calls # {} THEN "anytime" \in work[t].calls ELSE ~work[t].acted
(* TurnCancellationController.request accepts.                              *)
Permits(t) ==
  IF work[t].calls # {} THEN work[t].calls \subseteq {"anytime"} ELSE ~work[t].acted

(* The turn that holds the turn lock, and with it the controller.           *)
Holder == {t \in Turns : at[t] = "handle"}

(* request: the turn is asked to stop in any case, calls that permit it are *)
(* cancelled.                                                               *)
Interrupted == {t \in Holder : work[t].calls # {} /\ Permits(t)}
Asked ==
  [t \in Turns |->
     IF t \in Holder
     THEN [work[t] EXCEPT !.requested = TRUE, !.calls = IF t \in Interrupted THEN {} ELSE @]
     ELSE work[t]]

-----------------------------------------------------------------------------
(* The worker of a satellite: ingest and schedule_turn.                     *)

(* A segment is complete.  The worker takes one at a time.                  *)
Heard(t) ==
  /\ at[t] = "silent" /\ Source[t] \in connected
  /\ \A u \in Turns : u < t /\ Source[u] = Source[t] => at[u] \notin InWorker \cup {"silent"}
  /\ Go(t, IF Gated(t) THEN "dropped" ELSE "elect")
  /\ gate' = IF GateIsLive THEN gate ELSE 0
  /\ UNCHANGED <<claim, phaseVars, work, connected>>

Loses(t) ==
  /\ at[t] = "elect"
  /\ Go(t, "dropped")
  /\ UNCHANGED <<gateVars, phaseVars, work, connected>>

Claims(t) ==
  /\ claim' = [u \in Turns |-> IF u = t THEN "live"
                              ELSE IF u = gate /\ claim[u] = "live" THEN "released"
                              ELSE claim[u]]
  /\ gate' = t

(* Mutant: the claim of another satellite is not looked at again.           *)
AcquireAnyway(t) ==
  /\ at[t] = "elect"
  /\ Go(t, "decide") /\ Claims(t)
  /\ UNCHANGED <<phaseVars, work, connected>>

(* The segment was elected; another satellite may have the scope by now.    *)
Acquire(t) ==
  /\ at[t] = "elect"
  /\ \/ Gated(t) /\ Go(t, "dropped") /\ UNCHANGED gateVars
     \/ ~Gated(t) /\ Go(t, "decide") /\ Claims(t)
  /\ UNCHANGED <<phaseVars, work, connected>>

(* request_turn_continuation.                                               *)
Accepted == phase = "before" /\ \A h \in Holder : Permits(h)
AfterRequest == IF phase = "before" THEN Asked ELSE work

Schedule(t) ==
  /\ at[t] = "decide" /\ Earlier(t) = {}
  /\ Go(t, "ready")
  /\ UNCHANGED <<gateVars, phaseVars, work, connected>>

(* The turn that is under way is cancelled, to be replaced by both.         *)
Continue(t) ==
  /\ at[t] = "decide" /\ Earlier(t) # {} /\ Accepted
  /\ \E kept \in SUBSET (Interrupted \cap Earlier(t)) :
       /\ Cut(Earlier(t), kept, AfterRequest)
       /\ at' = [CutPlaces(Earlier(t), kept) EXCEPT ![t] = "replace"]
  /\ UNCHANGED connected

(* Refused: interrupt_speech is awaited next.                               *)
Refuse(t) ==
  /\ at[t] = "decide" /\ Earlier(t) # {} /\ ~Accepted
  /\ Go(t, "interrupt")
  /\ work' = AfterRequest
  /\ UNCHANGED <<gateVars, phaseVars, connected>>

(* Mutant: the cancelled turn is not awaited.                               *)
ReplaceAtOnce(t) ==
  /\ at[t] = "replace"
  /\ Go(t, "ready")
  /\ UNCHANGED <<gateVars, phaseVars, work, connected>>

Replace(t) ==
  /\ at[t] = "replace" /\ Earlier(t) = {}
  /\ Go(t, "ready")
  /\ UNCHANGED <<gateVars, phaseVars, work, connected>>

Interrupt(t) ==
  /\ at[t] = "interrupt"
  /\ Go(t, "follow")
  /\ UNCHANGED <<gateVars, phaseVars, work, connected>>

-----------------------------------------------------------------------------
(* The task of a turn.                                                      *)

(* process_pending begins; there may be a prefetch to wait for.             *)
Start(t) ==
  /\ \/ at[t] = "ready"
     \/ at[t] = "follow" /\ Earlier(t) = {}
  /\ \E place \in {"prefetch", "think"} : Go(t, place)
  /\ owner' = t /\ phase' = "before"
  /\ UNCHANGED <<gateVars, work, connected>>

PrefetchEnds(t) ==
  /\ at[t] = "prefetch"
  /\ Go(t, "think")
  /\ UNCHANGED <<gateVars, phaseVars, work, connected>>

(* Transcribed: to be handled, or ignored, or it only stops the speech.     *)
Transcribe(t) ==
  /\ at[t] = "think"
  /\ \/ Go(t, "lock") /\ UNCHANGED <<gateVars, phaseVars, work>>
     \/ Ends(t)
  /\ UNCHANGED connected

(* "Never mind": the turn that is handled is asked to stop.  The speaker is *)
(* resolved and interrupt_speech awaited next.                              *)
Abandon(t) ==
  /\ at[t] = "think" /\ Holder # {}
  /\ Go(t, "abandon")
  /\ work' = Asked
  /\ UNCHANGED <<gateVars, phaseVars, connected>>

AbandonEnds(t) ==
  /\ at[t] = "abandon"
  /\ Ends(t)
  /\ UNCHANGED connected

(* service.handle has the lock and sets up its controller.                  *)
Lock(t) ==
  /\ at[t] = "lock" /\ Holder = {}
  /\ Go(t, "handle")
  /\ work' = [work EXCEPT ![t] = [NoWork EXCEPT !.waves = MaxWaves]]
  /\ UNCHANGED <<gateVars, phaseVars, connected>>

(* bind_provider for the calls of a wave.                                   *)
Calling(t, wave) ==
  [work[t] EXCEPT !.calls = wave, !.acted = TRUE, !.waves = work[t].waves - 1]

(* The next wave of provider calls.                                         *)
BeginWave(t) ==
  /\ at[t] = "handle" /\ work[t].calls = {} /\ work[t].waves > 0 /\ ~work[t].requested
  /\ \E wave \in SUBSET Safeties \ {{}} :
       work' = [work EXCEPT ![t] = Calling(t, wave)]
  /\ UNCHANGED <<at, gateVars, phaseVars, connected>>

(* begin_non_cancellable_side_effect does not look at the request.          *)
BeginMemory(t) ==
  /\ at[t] = "handle" /\ work[t].calls = {} /\ work[t].waves > 0
  /\ work' = [work EXCEPT ![t] = Calling(t, {"strict"})]
  /\ UNCHANGED <<at, gateVars, phaseVars, connected>>

CallReturns(t) ==
  /\ \E safety \in work[t].calls :
       work' = [work EXCEPT ![t].calls = @ \ {safety}]
  /\ UNCHANGED <<at, gateVars, phaseVars, connected>>

Handled(t) ==
  /\ at[t] = "handle" /\ work[t].calls = {}
  /\ Go(t, "speak")
  /\ phase' = IF owner = t THEN "after" ELSE phase
  /\ work' = [work EXCEPT ![t] = NoWork]
  /\ UNCHANGED <<gateVars, owner, connected>>

HandleRaises(t) ==
  /\ at[t] = "handle" /\ work[t].calls = {}
  /\ Ends(t)
  /\ UNCHANGED connected

(* The response was sent; its renderer has not confirmed it.                *)
Spoken(t) ==
  /\ at[t] = "speak"
  /\ Go(t, "confirm")
  /\ owner' = IF owner = t THEN 0 ELSE owner
  /\ phase' = IF owner = t THEN "idle" ELSE phase
  /\ UNCHANGED <<gateVars, work, connected>>

(* Nothing was audible, the speech was cancelled, or synthesis failed.      *)
SpeakEnds(t) ==
  /\ at[t] = "speak"
  /\ Ends(t)
  /\ UNCHANGED connected

(* The control frame playback_finished.                                     *)
Confirmed(t) ==
  /\ at[t] = "confirm"
  /\ Ends(t)
  /\ UNCHANGED connected

Leave(t) ==
  /\ at[t] = "leave" /\ Earlier(t) = {}
  /\ Go(t, "done")
  /\ UNCHANGED <<gateVars, phaseVars, work, connected>>

(* The socket closes: the worker is cancelled and cancels its turns.        *)
Disconnect(s) ==
  /\ s \in connected
  /\ connected' = connected \ {s}
  /\ LET mine == {t \in Turns : Source[t] = s}
         single == {t \in mine : work[t].requested /\ work[t].calls # {}}
     IN \E kept \in SUBSET single :
          Cut(mine, kept, work) /\ at' = CutPlaces(mine, kept)

-----------------------------------------------------------------------------
(* What the program does by itself, with deadlines on every wait: election, *)
(* speech recognition, providers and synthesis.                             *)
Advance(t) ==
  \/ Loses(t) \/ Acquire(t) \/ Schedule(t) \/ Continue(t) \/ Refuse(t)
  \/ Replace(t) \/ Interrupt(t) \/ Start(t) \/ PrefetchEnds(t) \/ Transcribe(t)
  \/ AbandonEnds(t) \/ Lock(t)
  \/ CallReturns(t) \/ Handled(t) \/ HandleRaises(t)
  \/ Spoken(t) \/ SpeakEnds(t) \/ Leave(t)

Begin(t) == BeginWave(t) \/ BeginMemory(t) \/ Abandon(t)

Next ==
  \/ \E t \in Turns :
       Heard(t) \/ Advance(t) \/ Begin(t) \/ Confirmed(t) \/ Lapse(t) \/ Extend(t)
  \/ \E s \in Satellites : Disconnect(s)

Spec == Init /\ [][Next]_vars
(* The loop runs some task while one can run.                               *)
Fairness == WF_vars(\E t \in Turns : Advance(t))
FairSpec == Spec /\ Fairness

-----------------------------------------------------------------------------
InProgress(t) == at[t] \notin {"silent", "elect"} \cup Over

(* Every turn is in a state the code has a name for; only the turn being    *)
(* handled has calls, the gate holds an unreleased claim, and the phase     *)
(* belongs to a turn that is being processed.                               *)
TypeOK ==
  /\ at \in [Turns -> Places]
  /\ claim \in [Turns -> {"none", "live", "lapsed", "released"}]
  /\ gate \in Turns \cup {0} /\ (gate # 0 => claim[gate] \in {"live", "lapsed"})
  /\ owner \in Turns \cup {0} /\ (owner # 0 => at[owner] \in Processing)
  /\ phase \in {"idle", "before", "after"} /\ (phase = "idle" <=> owner = 0)
  /\ work \in [Turns -> [calls : SUBSET Safeties, acted : BOOLEAN, requested : BOOLEAN,
                         waves : 0..MaxWaves]]
  /\ \A t \in Turns : work[t] # NoWork => at[t] = "handle"
  /\ connected \subseteq Satellites

(* One satellite has the floor: turns of two satellites are in progress     *)
(* together only if the claim of one of them ran out.                       *)
FloorExclusive ==
  \A t, u \in Turns : InProgress(t) /\ InProgress(u) /\ Source[t] # Source[u] =>
    \E v \in Turns : Source[v] \in {Source[t], Source[u]} /\ claim[v] = "lapsed"

(* The turns of one satellite run one after the other, in the order they    *)
(* were heard, whatever was merged, refused, cancelled or swallowed.        *)
SatelliteInOrder ==
  \A t, u \in Turns : Source[t] = Source[u] /\ u < t /\ at[t] \in Running =>
    ~InProgress(u)

(* A call that does not permit it is never cut short by someone who speaks  *)
(* on or gives up: while the satellite is connected, the turn stays at the  *)
(* call, and a request to stop leaves the call alone.                       *)
NothingCutShort ==
  [][\A t \in Turns : ~(work[t].calls \subseteq {"anytime"}) /\ Source[t] \in connected' =>
       /\ at'[t] = "handle"
       /\ work'[t].requested # work[t].requested => work'[t].calls = work[t].calls]_vars

(* Nobody waits for ever: in the end every segment that was heard has been  *)
(* dropped or its turn has ended, unless a response of its satellite is     *)
(* never confirmed.                                                         *)
EveryTurnEnds ==
  <>[](\A t \in Turns : at[t] \notin {"silent"} \cup Over =>
         \E u \in Turns : Source[u] = Source[t] /\ at[u] = "confirm")
=============================================================================
