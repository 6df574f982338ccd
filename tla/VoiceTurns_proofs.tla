-------------------------- MODULE VoiceTurns_proofs --------------------------
(***************************************************************************)
(* Proofs about spoken turns, for any number of satellites and turns.      *)
(*                                                                         *)
(* The floor rests on the order of the turns of one satellite: an own      *)
(* newer turn takes the claim over, and because it runs only after the     *)
(* older one, releasing it can never leave the older one without a claim.  *)
(* Shape says what any step may do to the places of the turns; the order   *)
(* and, with ClaimsKept, the floor follow from it alone.                   *)
(***************************************************************************)
EXTENDS VoiceTurns, WellFoundedInduction, TLAPS

Work == [calls : SUBSET Safeties, acted : BOOLEAN, requested : BOOLEAN, waves : 0..MaxWaves]
Begun == Running \cup {"ready"}
InWorkerOrSilent == InWorker \cup {"silent"}

(* The worker of a satellite takes one segment at a time, in order.         *)
WorkerInOrder ==
  \A t, u \in Turns : Source[t] = Source[u] /\ u < t /\ at[t] # "silent" =>
    at[u] \notin InWorkerOrSilent

(* A turn begins when those before it are over.                             *)
BegunInOrder ==
  \A t, u \in Turns : Source[t] = Source[u] /\ u < t /\ at[t] \in Begun => at[u] \in Over

(* A live claim is listed.                                                  *)
LiveIsListed == \A t \in Turns : claim[t] = "live" => gate = t

(* A turn in progress has a claim, or a newer turn of its satellite has.    *)
FloorHeld ==
  \A t \in Turns : InProgress(t) =>
    /\ claim[t] # "none"
    /\ claim[t] = "released" =>
         \E v \in Turns : Source[v] = Source[t] /\ t < v /\ claim[v] \in {"live", "lapsed"}

(* What a step may do to the places.                                        *)
Shape ==
  \A t \in Turns :
    /\ at[t] = "silent" /\ at'[t] # "silent" =>
         \A u \in Turns : u < t /\ Source[u] = Source[t] => at[u] \notin InWorkerOrSilent
    /\ at[t] # "silent" => at'[t] # "silent"
    /\ at[t] \notin InWorkerOrSilent => at'[t] \notin InWorkerOrSilent
    /\ at[t] \in Over => at'[t] \in Over
    /\ at'[t] \in Begun => at[t] \in Begun \/ (at[t] # "silent" /\ Earlier(t) = {})

(* What a step other than an acquisition may do to the claims.              *)
ClaimsKept ==
  /\ \A t \in Turns :
       \/ claim'[t] = claim[t]
       \/ claim[t] = "live" /\ claim'[t] = "lapsed"
       \/ claim[t] = "lapsed" /\ claim'[t] = "live"
       \/ claim'[t] = "released" /\ at[t] \in Running /\ at'[t] \in Over
  /\ LiveIsListed'

-----------------------------------------------------------------------------
LEMMA NoWorkType == NoWork \in Work
BY VoiceAssumption DEF NoWork, Work, Safeties

(* What a request does to the controllers.                                  *)
LEMMA AskedType ==
  ASSUME TypeOK
  PROVE  /\ Asked \in [Turns -> Work]
         /\ \A t \in Turns : at[t] # "handle" => Asked[t] = work[t]
<1>1. work \in [Turns -> Work] BY DEF TypeOK, Work
<1> QED BY <1>1 DEF Asked, Work, Holder

(* A cancellation keeps the types.                                          *)
LEMMA CutType ==
  ASSUME TypeOK, NEW S \in SUBSET Turns, NEW kept \in SUBSET Turns,
         kept \subseteq Holder, NEW w \in [Turns -> Work],
         \A t \in Turns : at[t] # "handle" => w[t] = work[t],
         Cut(S, kept, w), NEW c \in Turns \cup {0}, NEW p \in Places,
         c # 0 => at[c] \in InWorker,
         at' = IF c = 0 THEN CutPlaces(S, kept) ELSE [CutPlaces(S, kept) EXCEPT ![c] = p],
         connected' \in SUBSET Satellites
  PROVE  TypeOK'
<1> DEFINE gone == {t \in S \ kept : at[t] \in Running \ {"prefetch"}}
<1>1. /\ at \in [Turns -> Places]
      /\ claim \in [Turns -> {"none", "live", "lapsed", "released"}]
      /\ gate \in Turns \cup {0} /\ (gate # 0 => claim[gate] \in {"live", "lapsed"})
      /\ owner \in Turns \cup {0} /\ (owner # 0 => at[owner] \in Processing)
      /\ phase \in {"idle", "before", "after"} /\ (phase = "idle" <=> owner = 0)
      /\ work \in [Turns -> Work]
      /\ \A t \in Turns : work[t] # NoWork => at[t] = "handle"
      /\ 0 \notin Turns
  BY VoiceAssumption DEF TypeOK, Work
<1>2. /\ claim' = [t \in Turns |-> IF t \in gone THEN "released" ELSE claim[t]]
      /\ gate' = IF gate \in gone THEN 0 ELSE gate
      /\ owner' = IF owner \in gone THEN 0 ELSE owner
      /\ phase' = IF owner \in gone THEN "idle" ELSE phase
      /\ work' = [t \in Turns |->
           CASE t \in gone -> NoWork
             [] t \in kept -> [w[t] EXCEPT !.calls = {}]
             [] OTHER -> w[t]]
  BY DEF Cut, Finish, ReleaseAll
<1>3. /\ at' \in [Turns -> Places]
      /\ \A t \in Turns : t # c => at'[t] = IF t \in S \ kept THEN CutTo(at[t]) ELSE at[t]
  BY <1>1 DEF CutPlaces, CutTo, Places, InWorker, Tasks, Running, Processing, Over
<1>4. claim' \in [Turns -> {"none", "live", "lapsed", "released"}]
  BY <1>1, <1>2
<1>5. gate' \in Turns \cup {0} /\ (gate' # 0 => claim'[gate'] \in {"live", "lapsed"})
  BY <1>1, <1>2
<1>6. owner' \in Turns \cup {0} /\ (owner' # 0 => at'[owner'] \in Processing)
  <2>1. owner' \in Turns \cup {0}
    BY <1>1, <1>2
  <2>2. ASSUME owner' # 0 PROVE at'[owner'] \in Processing
    <3>1. owner' = owner /\ owner \in Turns /\ owner \notin gone /\ at[owner] \in Processing
      BY <1>1, <1>2, <2>2
    <3>2. owner # c
      BY <1>1, <3>1 DEF Processing, InWorker
    <3>3. CASE owner \in S \ kept
      <4>1. at[owner] = "prefetch" BY <3>1, <3>3 DEF Running
      <4> QED BY <1>3, <3>1, <3>2, <3>3, <4>1 DEF CutTo, Running, Processing
    <3>4. CASE owner \notin S \ kept
      BY <1>3, <3>1, <3>2, <3>4
    <3> QED BY <3>3, <3>4
  <2> QED BY <2>1, <2>2
<1>7. phase' \in {"idle", "before", "after"} /\ (phase' = "idle" <=> owner' = 0)
  <2>1. owner \in gone => owner # 0
    BY <1>1
  <2> QED BY <1>1, <1>2, <2>1
<1>8. work' \in [Turns -> Work]
  BY <1>2, NoWorkType DEF Work
<1>9. ASSUME NEW t \in Turns, work'[t] # NoWork PROVE at'[t] = "handle"
  <2>1. t \notin gone
    BY <1>2, <1>9
  <2>2. at[t] = "handle"
    <3>1. CASE t \in kept
      BY <3>1 DEF Holder
    <3>2. CASE t \notin kept
      <4>1. work'[t] = w[t] BY <1>2, <2>1, <3>2
      <4> QED BY <1>1, <1>9, <4>1
    <3> QED BY <3>1, <3>2
  <2>3. t \notin S \ kept /\ t # c
    BY <1>1, <2>1, <2>2 DEF Running, Processing, InWorker
  <2> QED BY <1>3, <2>2, <2>3
<1> QED
  BY <1>3, <1>4, <1>5, <1>6, <1>7, <1>8, <1>9 DEF TypeOK, Work
-----------------------------------------------------------------------------
LEMMA InitType == ASSUME Init PROVE TypeOK
BY NoWorkType DEF Init, TypeOK, Places, Work

(* The steps that end one turn keep the types.                              *)
LEMMA EndsType ==
  ASSUME TypeOK, NEW t \in Turns, at[t] \in Running,
         at' = [at EXCEPT ![t] = "done"], Finish({t}),
         NEW w \in [Turns -> Work], \A u \in Turns : at[u] # "handle" => w[u] = work[u],
         work' = [w EXCEPT ![t] = NoWork], UNCHANGED connected
  PROVE  TypeOK'
<1>1. /\ at' \in [Turns -> Places] /\ claim' \in [Turns -> {"none", "live", "lapsed", "released"}]
      /\ gate' \in Turns \cup {0} /\ (gate' # 0 => claim'[gate'] \in {"live", "lapsed"})
  BY VoiceAssumption DEF TypeOK, Places, Over, Finish, ReleaseAll
<1>2. /\ owner' \in Turns \cup {0} /\ (owner' # 0 => at'[owner'] \in Processing)
      /\ phase' \in {"idle", "before", "after"} /\ (phase' = "idle" <=> owner' = 0)
  BY VoiceAssumption DEF TypeOK, Finish
<1>3. work' \in [Turns -> Work]
  BY NoWorkType
<1>4. \A u \in Turns : work'[u] # NoWork => at'[u] = "handle"
  BY DEF TypeOK
<1> QED
  BY <1>1, <1>2, <1>3, <1>4 DEF TypeOK, Work

LEMMA TypeStep == ASSUME TypeOK, [Next]_vars PROVE TypeOK'
<1> USE VoiceAssumption
<1>0. work \in [Turns -> Work] /\ NoWork \in Work
  BY NoWorkType DEF TypeOK, Work
<1>1. CASE UNCHANGED vars
  BY <1>1 DEF TypeOK, vars, Satellites
<1>2. ASSUME NEW t \in Turns, Loses(t) PROVE TypeOK'
  BY <1>2 DEF TypeOK, Loses, Go, Work, NoWork, Safeties, Places, InWorker, Tasks, Running, Processing, Over, gateVars, phaseVars
<1>3. ASSUME NEW t \in Turns, Acquire(t) PROVE TypeOK'
  BY <1>3 DEF TypeOK, Acquire, Go, Work, NoWork, Safeties, Places, InWorker, Tasks, Running, Processing, Over, gateVars, phaseVars, Gated, GateIsLive, Claims
<1>4. ASSUME NEW t \in Turns, Schedule(t) PROVE TypeOK'
  BY <1>4 DEF TypeOK, Schedule, Go, Work, NoWork, Safeties, Places, InWorker, Tasks, Running, Processing, Over, gateVars, phaseVars
<1>5. ASSUME NEW t \in Turns, Refuse(t) PROVE TypeOK'
  <2>1. /\ AfterRequest \in [Turns -> Work]
        /\ \A u \in Turns : at[u] # "handle" => AfterRequest[u] = work[u]
    BY <1>0, AskedType DEF AfterRequest
  <2> QED BY <1>5, <2>1 DEF TypeOK, Refuse, Go, Work, Places, InWorker, Processing, gateVars, phaseVars
<1>6. ASSUME NEW t \in Turns, Replace(t) PROVE TypeOK'
  BY <1>6 DEF TypeOK, Replace, Go, Work, NoWork, Safeties, Places, InWorker, Tasks, Running, Processing, Over, gateVars, phaseVars
<1>7. ASSUME NEW t \in Turns, Interrupt(t) PROVE TypeOK'
  BY <1>7 DEF TypeOK, Interrupt, Go, Work, NoWork, Safeties, Places, InWorker, Tasks, Running, Processing, Over, gateVars, phaseVars
<1>8. ASSUME NEW t \in Turns, Start(t) PROVE TypeOK'
  BY <1>8 DEF TypeOK, Start, Go, Work, NoWork, Safeties, Places, InWorker, Tasks, Running, Processing, Over, gateVars, phaseVars
<1>9. ASSUME NEW t \in Turns, PrefetchEnds(t) PROVE TypeOK'
  BY <1>9 DEF TypeOK, PrefetchEnds, Go, Work, NoWork, Safeties, Places, InWorker, Tasks, Running, Processing, Over, gateVars, phaseVars
<1>10. ASSUME NEW t \in Turns, Transcribe(t) PROVE TypeOK'
  <2>1. CASE Go(t, "lock") /\ UNCHANGED <<gateVars, phaseVars, work>>
    BY <1>10, <2>1 DEF TypeOK, Transcribe, Go, Places, Tasks, Running, Processing, gateVars, phaseVars
  <2>2. CASE Ends(t)
    BY <1>10, <1>0, <2>2, EndsType DEF Transcribe, Ends, Go, Running, Processing
  <2> QED BY <1>10, <2>1, <2>2 DEF Transcribe
<1>11. ASSUME NEW t \in Turns, Lock(t) PROVE TypeOK'
  <2>1. [NoWork EXCEPT !.waves = MaxWaves] \in Work
    BY <1>0 DEF Work
  <2>2. /\ at' = [at EXCEPT ![t] = "handle"]
        /\ work' = [work EXCEPT ![t] = [NoWork EXCEPT !.waves = MaxWaves]]
        /\ UNCHANGED <<claim, gate, owner, phase, connected>>
        /\ at[t] = "lock" /\ "handle" \in Places /\ "handle" \in Processing
    BY <1>11 DEF Lock, Go, gateVars, phaseVars, Places, Tasks, Running, Processing
  <2>3. work' \in [Turns -> Work]
    BY <1>0, <2>1, <2>2
  <2>4. \A u \in Turns : work'[u] # NoWork => at'[u] = "handle"
    BY <2>2 DEF TypeOK
  <2> QED BY <2>2, <2>3, <2>4 DEF TypeOK, Work
<1>12. ASSUME NEW t \in Turns, CallReturns(t) PROVE TypeOK'
  <2>1. PICK safety \in work[t].calls : work' = [work EXCEPT ![t].calls = @ \ {safety}]
    BY <1>12 DEF CallReturns
  <2>2. work[t] # NoWork /\ at[t] = "handle"
    BY <2>1 DEF TypeOK, NoWork
  <2>3. [work[t] EXCEPT !.calls = @ \ {safety}] \in Work
    BY <1>0 DEF Work
  <2>4. work' \in [Turns -> Work]
    BY <1>0, <2>1, <2>3
  <2>5. \A u \in Turns : work'[u] # NoWork => at[u] = "handle"
    BY <2>1, <2>2 DEF TypeOK
  <2> QED BY <1>12, <2>4, <2>5 DEF TypeOK, CallReturns, Work, gateVars, phaseVars
<1>13. ASSUME NEW t \in Turns, Handled(t) PROVE TypeOK'
  <2>1. /\ at' = [at EXCEPT ![t] = "speak"] /\ at[t] = "handle"
        /\ phase' = IF owner = t THEN "after" ELSE phase
        /\ work' = [work EXCEPT ![t] = NoWork]
        /\ UNCHANGED <<claim, gate, owner, connected>>
        /\ "speak" \in Places /\ "speak" \in Processing
    BY <1>13 DEF Handled, Go, gateVars, Places, Tasks, Running, Processing
  <2>2. work' \in [Turns -> Work]
    BY <1>0, <2>1
  <2>3. \A u \in Turns : work'[u] # NoWork => at'[u] = "handle"
    BY <1>0, <2>1 DEF TypeOK
  <2>4. phase' \in {"idle", "before", "after"} /\ (phase' = "idle" <=> owner' = 0)
    BY <2>1 DEF TypeOK
  <2>5. at' \in [Turns -> Places] /\ (owner' # 0 => at'[owner'] \in Processing)
    BY <2>1 DEF TypeOK
  <2> QED BY <2>1, <2>2, <2>3, <2>4, <2>5 DEF TypeOK, Work
<1>14. ASSUME NEW t \in Turns, HandleRaises(t) PROVE TypeOK'
  BY <1>14, <1>0, EndsType DEF HandleRaises, Ends, Go, Running, Processing
<1>15. ASSUME NEW t \in Turns, Spoken(t) PROVE TypeOK'
  BY <1>15 DEF TypeOK, Spoken, Go, Work, NoWork, Safeties, Places, InWorker, Tasks, Running, Processing, Over, gateVars, phaseVars
<1>16. ASSUME NEW t \in Turns, SpeakEnds(t) PROVE TypeOK'
  BY <1>16, <1>0, EndsType DEF SpeakEnds, Ends, Go, Running, Processing
<1>17. ASSUME NEW t \in Turns, Leave(t) PROVE TypeOK'
  BY <1>17 DEF TypeOK, Leave, Go, Work, NoWork, Safeties, Places, InWorker, Tasks, Running, Processing, Over, gateVars, phaseVars
<1>18. ASSUME NEW t \in Turns, BeginWave(t) PROVE TypeOK'
  <2>1. PICK wave \in SUBSET Safeties :
          work' = [work EXCEPT ![t] = Calling(t, wave)]
    BY <1>18 DEF BeginWave
  <2> DEFINE new == Calling(t, wave)
  <2>2. new \in Work
    <3>1. work[t] \in Work /\ work[t].waves > 0
      BY <1>18, <1>0 DEF BeginWave
    <3>2. work[t].waves - 1 \in 0..MaxWaves
      BY <3>1 DEF Work
    <3> QED BY <3>1, <3>2 DEF Work, Safeties, Calling
  <2>3. work' \in [Turns -> Work]
    BY <1>0, <2>1, <2>2
  <2>4. \A u \in Turns : work'[u] # NoWork => at[u] = "handle"
    BY <1>18, <2>1 DEF TypeOK, BeginWave
  <2> QED BY <1>18, <2>3, <2>4 DEF TypeOK, BeginWave, Work, gateVars, phaseVars
<1>19. ASSUME NEW t \in Turns, BeginMemory(t) PROVE TypeOK'
  <2> DEFINE new == Calling(t, {"strict"})
  <2>1. work' = [work EXCEPT ![t] = new]
    BY <1>19 DEF BeginMemory
  <2>2. new \in Work
    <3>1. work[t] \in Work /\ work[t].waves > 0
      BY <1>19, <1>0 DEF BeginMemory
    <3>2. work[t].waves - 1 \in 0..MaxWaves
      BY <3>1 DEF Work
    <3> QED BY <3>1, <3>2 DEF Work, Safeties, Calling
  <2>3. work' \in [Turns -> Work]
    BY <1>0, <2>1, <2>2
  <2>4. \A u \in Turns : work'[u] # NoWork => at[u] = "handle"
    BY <1>19, <2>1 DEF TypeOK, BeginMemory
  <2> QED BY <1>19, <2>3, <2>4 DEF TypeOK, BeginMemory, Work, gateVars, phaseVars
<1>20. ASSUME NEW t \in Turns, Abandon(t) PROVE TypeOK'
  <2>1. Asked \in [Turns -> Work] /\ \A u \in Turns : at[u] # "handle" => Asked[u] = work[u]
    BY AskedType
  <2> QED BY <1>20, <2>1 DEF TypeOK, Abandon, Go, Work, Places, Tasks, Running, Processing, gateVars, phaseVars
<1>21. ASSUME NEW t \in Turns, Confirmed(t) PROVE TypeOK'
  BY <1>21, <1>0, EndsType DEF Confirmed, Ends, Go, Running, Processing
<1>22. ASSUME NEW t \in Turns, Lapse(t) PROVE TypeOK'
  BY <1>22 DEF TypeOK, Lapse, Go, Work, NoWork, Safeties, Places, InWorker, Tasks, Running, Processing, Over, gateVars, phaseVars
<1>23. ASSUME NEW t \in Turns, Extend(t) PROVE TypeOK'
  BY <1>23 DEF TypeOK, Extend, Go, Work, NoWork, Safeties, Places, InWorker, Tasks, Running, Processing, Over, gateVars, phaseVars
<1>24. ASSUME NEW t \in Turns, Heard(t) PROVE TypeOK'
  BY <1>24 DEF TypeOK, Heard, Go, Work, NoWork, Safeties, Places, InWorker, Tasks, Running, Processing, Over, gateVars, phaseVars, Gated, GateIsLive
<1>25. ASSUME NEW t \in Turns, Continue(t) PROVE TypeOK'
  <2>1. PICK kept \in SUBSET (Interrupted \cap Earlier(t)) :
          /\ Cut(Earlier(t), kept, AfterRequest)
          /\ at' = [CutPlaces(Earlier(t), kept) EXCEPT ![t] = "replace"]
    BY <1>25 DEF Continue
  <2>2. /\ AfterRequest \in [Turns -> Work]
        /\ \A u \in Turns : at[u] # "handle" => AfterRequest[u] = work[u]
    BY <1>0, AskedType DEF AfterRequest
  <2>3. /\ Earlier(t) \in SUBSET Turns /\ kept \in SUBSET Turns /\ kept \subseteq Holder
        /\ t # 0 /\ t \in Turns \cup {0} /\ at[t] \in InWorker /\ "replace" \in Places
        /\ connected' \in SUBSET Satellites
    BY <1>25 DEF TypeOK, Continue, Earlier, Interrupted, InWorker, Places
  <2> QED BY <2>1, <2>2, <2>3, CutType
<1>26. ASSUME NEW s \in Satellites, Disconnect(s) PROVE TypeOK'
  <2> DEFINE mine == {t \in Turns : Source[t] = s}
             single == {t \in mine : work[t].requested /\ work[t].calls # {}}
  <2>1. PICK kept \in SUBSET single : Cut(mine, kept, work) /\ at' = CutPlaces(mine, kept)
    BY <1>26 DEF Disconnect
  <2>2. kept \subseteq Holder
    BY DEF TypeOK, NoWork, Holder
  <2>3. /\ mine \in SUBSET Turns /\ kept \in SUBSET Turns /\ "done" \in Places
        /\ connected' \in SUBSET Satellites
    BY <1>26 DEF TypeOK, Disconnect, Places, Over
  <2> HIDE DEF mine, single
  <2>4. /\ 0 \in Turns \cup {0} /\ (0 # 0 => at[0] \in InWorker)
        /\ at' = IF 0 = 0 THEN CutPlaces(mine, kept)
                 ELSE [CutPlaces(mine, kept) EXCEPT ![0] = "done"]
    BY <2>1
  <2> QED BY <1>0, <2>1, <2>2, <2>3, <2>4, CutType
<1>27. ASSUME NEW t \in Turns, AbandonEnds(t) PROVE TypeOK'
  BY <1>27, <1>0, EndsType DEF AbandonEnds, Ends, Go, Running, Processing
<1> QED
  BY <1>1, <1>2, <1>3, <1>4, <1>5, <1>6, <1>7, <1>8, <1>9, <1>10, <1>11, <1>12, <1>13, <1>14, <1>15, <1>16, <1>17, <1>18, <1>19, <1>20, <1>21, <1>22, <1>23, <1>24, <1>25, <1>26, <1>27
     DEF Next, Advance, Begin
-----------------------------------------------------------------------------
(* Turns that are cancelled, while a turn in the worker may go on.          *)
LEMMA CutShape ==
  ASSUME TypeOK, NEW S \in SUBSET Turns, NEW kept \in SUBSET Turns, NEW c \in Turns \cup {0},
         c # 0 => at[c] = "decide",
         at' = IF c = 0 THEN CutPlaces(S, kept)
               ELSE [CutPlaces(S, kept) EXCEPT ![c] = "replace"]
  PROVE  Shape /\ \A t \in Turns : InProgress(t)' => InProgress(t)
<1>1. /\ \A t \in Turns : at[t] \in Places
      /\ \A t \in Turns : t # c => at'[t] = at[t] \/ at'[t] = CutTo(at[t])
      /\ c # 0 => c \in Turns /\ at'[c] = "replace"
  BY VoiceAssumption DEF TypeOK, CutPlaces
<1>2. \A place \in Places :
        /\ place # "silent" => CutTo(place) # "silent"
        /\ place = "silent" => CutTo(place) = "silent"
        /\ place \notin InWorkerOrSilent => CutTo(place) \notin InWorkerOrSilent
        /\ place \in Over => CutTo(place) = place
        /\ CutTo(place) \in Begun => place \in Begun
        /\ CutTo(place) \notin {"silent", "elect"} \cup Over =>
             place \notin {"silent", "elect"} \cup Over
  BY DEF CutTo, InWorker, Running, Processing, Begun, InWorkerOrSilent, Over, Places, Tasks
<1>3. ASSUME NEW t \in Turns, t # c
      PROVE  /\ at[t] = "silent" => at'[t] = "silent"
             /\ at[t] # "silent" => at'[t] # "silent"
             /\ at[t] \notin InWorkerOrSilent => at'[t] \notin InWorkerOrSilent
             /\ at[t] \in Over => at'[t] \in Over
             /\ at'[t] \in Begun => at[t] \in Begun
             /\ InProgress(t)' => InProgress(t)
  BY <1>1, <1>2, <1>3 DEF InProgress
<1>4. c # 0 => /\ at[c] # "silent" /\ at'[c] # "silent" /\ at[c] \in InWorkerOrSilent
               /\ at[c] \notin Over /\ at'[c] \notin Begun /\ InProgress(c)
  BY <1>1 DEF InWorker, Running, Processing, Begun, InWorkerOrSilent, Over, Places, Tasks, InProgress
<1>5. ASSUME NEW t \in Turns
      PROVE  /\ at[t] = "silent" => at'[t] = "silent"
             /\ at[t] # "silent" => at'[t] # "silent"
             /\ at[t] \notin InWorkerOrSilent => at'[t] \notin InWorkerOrSilent
             /\ at[t] \in Over => at'[t] \in Over
             /\ at'[t] \in Begun => at[t] \in Begun
             /\ InProgress(t)' => InProgress(t)
  <2>1. CASE t = c
    <3>1. c # 0 BY VoiceAssumption, <2>1
    <3> QED BY <1>4, <2>1, <3>1
  <2>2. CASE t # c
    BY <1>3, <2>2
  <2> QED BY <2>1, <2>2
<1> QED
  BY <1>5 DEF Shape

(* The steps that leave the places as they are.                             *)
LEMMA StayShape ==
  ASSUME TypeOK, UNCHANGED at
  PROVE  Shape /\ \A t \in Turns : InProgress(t)' => InProgress(t)
BY DEF TypeOK, Shape, InProgress

Moves ==
  /\ Shape
  /\ (\A t \in Turns : InProgress(t)' => InProgress(t)) \/ (\E t \in Turns : Acquire(t))

LEMMA MovesStep == ASSUME TypeOK, [Next]_vars PROVE Moves
<1>1. CASE UNCHANGED vars
  BY <1>1, StayShape DEF vars, Moves
<1>2. ASSUME NEW t \in Turns, Loses(t) PROVE Moves
  BY <1>2 DEF TypeOK, Moves, Shape, InProgress, Loses, Go, InWorker, Running, Processing, Begun, InWorkerOrSilent, Over, Places, Tasks
<1>3. ASSUME NEW t \in Turns, Schedule(t) PROVE Moves
  BY <1>3 DEF TypeOK, Moves, Shape, InProgress, Schedule, Go, InWorker, Running, Processing, Begun, InWorkerOrSilent, Over, Places, Tasks
<1>4. ASSUME NEW t \in Turns, Refuse(t) PROVE Moves
  BY <1>4 DEF TypeOK, Moves, Shape, InProgress, Refuse, Go, InWorker, Running, Processing, Begun, InWorkerOrSilent, Over, Places, Tasks
<1>5. ASSUME NEW t \in Turns, Replace(t) PROVE Moves
  BY <1>5 DEF TypeOK, Moves, Shape, InProgress, Replace, Go, InWorker, Running, Processing, Begun, InWorkerOrSilent, Over, Places, Tasks
<1>6. ASSUME NEW t \in Turns, Interrupt(t) PROVE Moves
  BY <1>6 DEF TypeOK, Moves, Shape, InProgress, Interrupt, Go, InWorker, Running, Processing, Begun, InWorkerOrSilent, Over, Places, Tasks
<1>7. ASSUME NEW t \in Turns, Start(t) PROVE Moves
  BY <1>7 DEF TypeOK, Moves, Shape, InProgress, Start, Go, InWorker, Running, Processing, Begun, InWorkerOrSilent, Over, Places, Tasks
<1>8. ASSUME NEW t \in Turns, PrefetchEnds(t) PROVE Moves
  BY <1>8 DEF TypeOK, Moves, Shape, InProgress, PrefetchEnds, Go, InWorker, Running, Processing, Begun, InWorkerOrSilent, Over, Places, Tasks
<1>9. ASSUME NEW t \in Turns, Transcribe(t) PROVE Moves
  BY <1>9 DEF TypeOK, Moves, Shape, InProgress, Transcribe, Go, Ends, InWorker, Running, Processing, Begun, InWorkerOrSilent, Over, Places, Tasks
<1>10. ASSUME NEW t \in Turns, Lock(t) PROVE Moves
  BY <1>10 DEF TypeOK, Moves, Shape, InProgress, Lock, Go, InWorker, Running, Processing, Begun, InWorkerOrSilent, Over, Places, Tasks
<1>11. ASSUME NEW t \in Turns, Handled(t) PROVE Moves
  BY <1>11 DEF TypeOK, Moves, Shape, InProgress, Handled, Go, InWorker, Running, Processing, Begun, InWorkerOrSilent, Over, Places, Tasks
<1>12. ASSUME NEW t \in Turns, HandleRaises(t) PROVE Moves
  BY <1>12 DEF TypeOK, Moves, Shape, InProgress, HandleRaises, Go, Ends, InWorker, Running, Processing, Begun, InWorkerOrSilent, Over, Places, Tasks
<1>13. ASSUME NEW t \in Turns, Spoken(t) PROVE Moves
  BY <1>13 DEF TypeOK, Moves, Shape, InProgress, Spoken, Go, InWorker, Running, Processing, Begun, InWorkerOrSilent, Over, Places, Tasks
<1>14. ASSUME NEW t \in Turns, SpeakEnds(t) PROVE Moves
  BY <1>14 DEF TypeOK, Moves, Shape, InProgress, SpeakEnds, Go, Ends, InWorker, Running, Processing, Begun, InWorkerOrSilent, Over, Places, Tasks
<1>15. ASSUME NEW t \in Turns, Leave(t) PROVE Moves
  BY <1>15 DEF TypeOK, Moves, Shape, InProgress, Leave, Go, InWorker, Running, Processing, Begun, InWorkerOrSilent, Over, Places, Tasks
<1>16. ASSUME NEW t \in Turns, Abandon(t) PROVE Moves
  BY <1>16 DEF TypeOK, Moves, Shape, InProgress, Abandon, Go, InWorker, Running, Processing, Begun, InWorkerOrSilent, Over, Places, Tasks
<1>17. ASSUME NEW t \in Turns, Confirmed(t) PROVE Moves
  BY <1>17 DEF TypeOK, Moves, Shape, InProgress, Confirmed, Go, Ends, InWorker, Running, Processing, Begun, InWorkerOrSilent, Over, Places, Tasks
<1>18. ASSUME NEW t \in Turns, CallReturns(t) \/ BeginWave(t) \/ BeginMemory(t) \/ Lapse(t) \/ Extend(t) PROVE Moves
  BY <1>18, StayShape DEF Moves, CallReturns, BeginWave, BeginMemory, Lapse, Extend
<1>19. ASSUME NEW t \in Turns, Acquire(t) PROVE Moves
  BY <1>19 DEF TypeOK, Moves, Shape, Acquire, Go, InWorker, Running, Processing, Begun, InWorkerOrSilent, Over, Places, Tasks
<1>20. ASSUME NEW t \in Turns, Heard(t) PROVE Moves
  BY <1>20 DEF TypeOK, Moves, Shape, InProgress, Heard, Go, InWorker, Running, Processing, Begun, InWorkerOrSilent, Over, Places, Tasks
<1>21. ASSUME NEW t \in Turns, Continue(t) PROVE Moves
  <2>1. PICK kept \in SUBSET (Interrupted \cap Earlier(t)) :
          at' = [CutPlaces(Earlier(t), kept) EXCEPT ![t] = "replace"]
    BY <1>21 DEF Continue
  <2>2. /\ t # 0 /\ t \in Turns \cup {0} /\ at[t] = "decide"
        /\ Earlier(t) \in SUBSET Turns /\ kept \in SUBSET Turns
    BY VoiceAssumption, <1>21 DEF Continue, Earlier
  <2> QED BY <2>1, <2>2, CutShape DEF Moves
<1>22. ASSUME NEW s \in Satellites, Disconnect(s) PROVE Moves
  <2>1. PICK S \in SUBSET Turns, kept \in SUBSET Turns : at' = CutPlaces(S, kept)
    BY <1>22 DEF Disconnect
  <2>2. /\ 0 \in Turns \cup {0} /\ (0 # 0 => at[0] = "decide")
        /\ at' = IF 0 = 0 THEN CutPlaces(S, kept)
                 ELSE [CutPlaces(S, kept) EXCEPT ![0] = "replace"]
    BY <2>1
  <2> QED BY <2>2, CutShape DEF Moves
<1>23. ASSUME NEW t \in Turns, AbandonEnds(t) PROVE Moves
  BY <1>23 DEF TypeOK, Moves, Shape, InProgress, AbandonEnds, Go, Ends, InWorker, Running, Processing, Begun, InWorkerOrSilent, Over, Places, Tasks
<1> QED
  BY <1>1, <1>2, <1>3, <1>4, <1>5, <1>6, <1>7, <1>8, <1>9, <1>10, <1>11, <1>12, <1>13, <1>14, <1>15, <1>16, <1>17, <1>18, <1>19, <1>20, <1>21, <1>22, <1>23
     DEF Next, Advance, Begin
-----------------------------------------------------------------------------
(* Claims are kept when they are not touched, and when turns end.           *)
LEMMA SameClaims == ASSUME LiveIsListed, UNCHANGED gateVars PROVE ClaimsKept
BY DEF LiveIsListed, ClaimsKept, gateVars

LEMMA ReleasedClaims ==
  ASSUME TypeOK, LiveIsListed, NEW S \in SUBSET Turns, Finish(S),
         \A t \in S : at[t] \in Running /\ at'[t] \in Over
  PROVE  ClaimsKept
<1>1. /\ claim' = [t \in Turns |-> IF t \in S THEN "released" ELSE claim[t]]
      /\ gate' = IF gate \in S THEN 0 ELSE gate
  BY DEF Finish, ReleaseAll
<1>2. \A t \in Turns : claim'[t] = claim[t] \/ (claim'[t] = "released" /\ t \in S)
  BY <1>1
<1>3. LiveIsListed'
  BY <1>1 DEF LiveIsListed
<1> QED BY <1>2, <1>3 DEF ClaimsKept

(* A cancellation releases the claims of the turns it ends.                 *)
LEMMA CutClaims ==
  ASSUME TypeOK, LiveIsListed, NEW S \in SUBSET Turns, NEW kept, NEW w, Cut(S, kept, w),
         NEW c \in Turns \cup {0}, c # 0 => at[c] \in InWorker, NEW p,
         at' = IF c = 0 THEN CutPlaces(S, kept) ELSE [CutPlaces(S, kept) EXCEPT ![c] = p]
  PROVE  ClaimsKept
<1> DEFINE gone == {t \in S \ kept : at[t] \in Running \ {"prefetch"}}
<1>1. Finish(gone)
  BY DEF Cut
<1>2. ASSUME NEW t \in gone PROVE at[t] \in Running /\ at'[t] \in Over
  <2>1. t \in Turns /\ t \in S \ kept /\ at[t] \in Running \ {"prefetch"} /\ t # c
    BY VoiceAssumption DEF Running, Processing, InWorker
  <2>2. at'[t] = CutTo(at[t])
    BY <2>1 DEF CutPlaces
  <2> QED BY <2>1, <2>2 DEF CutTo, Running, Processing, Over
<1>3. gone \in SUBSET Turns
  OBVIOUS
<1> HIDE DEF gone
<1> QED BY <1>1, <1>2, <1>3, ReleasedClaims

LEMMA ClaimsStep ==
  ASSUME TypeOK, LiveIsListed, [Next]_vars
  PROVE  ClaimsKept \/ \E t \in Turns : Acquire(t)
<1>1. CASE UNCHANGED vars
  BY <1>1, SameClaims DEF vars, gateVars
<1>2. ASSUME NEW t \in Turns, 
             \/ Loses(t) \/ Schedule(t) \/ Refuse(t) \/ Replace(t) \/ Interrupt(t)
             \/ Start(t) \/ PrefetchEnds(t) \/ Lock(t) \/ Handled(t) \/ Spoken(t)
             \/ Leave(t) \/ CallReturns(t) \/ BeginWave(t) \/ BeginMemory(t) \/ Abandon(t)
      PROVE  ClaimsKept
  BY <1>2, SameClaims DEF Loses, Schedule, Refuse, Replace, Interrupt, Start, PrefetchEnds, Lock, Handled, Spoken, Leave, CallReturns, BeginWave, BeginMemory, Abandon
<1>3. ASSUME NEW t \in Turns, HandleRaises(t) PROVE ClaimsKept
  <2>1. Finish({t}) /\ at[t] \in Running /\ at'[t] \in Over
    BY <1>3 DEF TypeOK, HandleRaises, Ends, Go, Running, Processing, Over
  <2> QED BY <2>1, ReleasedClaims
<1>4. ASSUME NEW t \in Turns, SpeakEnds(t) PROVE ClaimsKept
  <2>1. Finish({t}) /\ at[t] \in Running /\ at'[t] \in Over
    BY <1>4 DEF TypeOK, SpeakEnds, Ends, Go, Running, Processing, Over
  <2> QED BY <2>1, ReleasedClaims
<1>5. ASSUME NEW t \in Turns, Confirmed(t) PROVE ClaimsKept
  <2>1. Finish({t}) /\ at[t] \in Running /\ at'[t] \in Over
    BY <1>5 DEF TypeOK, Confirmed, Ends, Go, Running, Processing, Over
  <2> QED BY <2>1, ReleasedClaims
<1>6. ASSUME NEW t \in Turns, AbandonEnds(t) PROVE ClaimsKept
  <2>1. Finish({t}) /\ at[t] \in Running /\ at'[t] \in Over
    BY <1>6 DEF TypeOK, AbandonEnds, Ends, Go, Running, Processing, Over
  <2> QED BY <2>1, ReleasedClaims
<1>7. ASSUME NEW t \in Turns, Transcribe(t) PROVE ClaimsKept
  <2>1. CASE Ends(t)
    <3>1. Finish({t}) /\ at[t] \in Running /\ at'[t] \in Over
      BY <1>7, <2>1 DEF TypeOK, Transcribe, Ends, Go, Running, Processing, Over
    <3> QED BY <3>1, ReleasedClaims
  <2>2. CASE UNCHANGED gateVars
    BY <2>2, SameClaims
  <2> QED BY <1>7, <2>1, <2>2 DEF Transcribe
<1>8. ASSUME NEW t \in Turns, Lapse(t) \/ Extend(t) PROVE ClaimsKept
  BY <1>8 DEF TypeOK, LiveIsListed, ClaimsKept, Lapse, Extend
<1>9. ASSUME NEW t \in Turns, Heard(t) PROVE ClaimsKept
  BY <1>9 DEF TypeOK, LiveIsListed, ClaimsKept, Heard, GateIsLive
<1>10. ASSUME NEW t \in Turns, Continue(t) PROVE ClaimsKept
  <2>1. PICK kept \in SUBSET (Interrupted \cap Earlier(t)) :
          /\ Cut(Earlier(t), kept, AfterRequest)
          /\ at' = [CutPlaces(Earlier(t), kept) EXCEPT ![t] = "replace"]
    BY <1>10 DEF Continue
  <2>2. t # 0 /\ t \in Turns \cup {0} /\ at[t] \in InWorker /\ Earlier(t) \in SUBSET Turns
    BY VoiceAssumption, <1>10 DEF Continue, Earlier, InWorker
  <2> QED BY <2>1, <2>2, CutClaims
<1>11. ASSUME NEW s \in Satellites, Disconnect(s) PROVE ClaimsKept
  <2>1. PICK S \in SUBSET Turns, kept \in SUBSET Turns :
          Cut(S, kept, work) /\ at' = CutPlaces(S, kept)
    BY <1>11 DEF Disconnect
  <2>2. /\ 0 \in Turns \cup {0} /\ (0 # 0 => at[0] \in InWorker)
        /\ at' = IF 0 = 0 THEN CutPlaces(S, kept)
                 ELSE [CutPlaces(S, kept) EXCEPT ![0] = "done"]
    BY <2>1
  <2> QED BY <2>1, <2>2, CutClaims
<1> QED
  BY <1>1, <1>2, <1>3, <1>4, <1>5, <1>6, <1>7, <1>8, <1>9, <1>10, <1>11
     DEF Next, Advance, Begin

-----------------------------------------------------------------------------
(* The order of the turns of a satellite.                                   *)
Order == WorkerInOrder /\ BegunInOrder

LEMMA OrderStep == ASSUME TypeOK, Order, [Next]_vars PROVE Order'
<1>1. Shape
  BY MovesStep DEF Moves
<1>2. WorkerInOrder'
  <2>1. ASSUME NEW t \in Turns, NEW u \in Turns, Source[t] = Source[u], u < t, at'[t] # "silent"
        PROVE  at'[u] \notin InWorkerOrSilent
    <3>1. at[u] \notin InWorkerOrSilent
      BY <1>1, <2>1 DEF Order, WorkerInOrder, Shape
    <3> QED BY <1>1, <3>1 DEF Shape
  <2> QED BY <2>1 DEF WorkerInOrder
<1>3. BegunInOrder'
  <2>1. ASSUME NEW t \in Turns, NEW u \in Turns, Source[t] = Source[u], u < t, at'[t] \in Begun
        PROVE  at'[u] \in Over
    <3>1. at[t] \in Begun \/ (at[t] # "silent" /\ Earlier(t) = {})
      BY <1>1, <2>1 DEF Shape
    <3>2. CASE at[t] \in Begun
      BY <1>1, <2>1, <3>2 DEF Order, BegunInOrder, Shape
    <3>3. CASE at[t] # "silent" /\ Earlier(t) = {}
      <4>1. at[u] \notin InWorkerOrSilent /\ at[u] \notin Tasks
        BY <2>1, <3>3 DEF Order, WorkerInOrder, Earlier
      <4>2. at[u] \in Over
        BY <4>1 DEF TypeOK, Places, InWorkerOrSilent
      <4> QED BY <1>1, <4>2 DEF Shape
    <3> QED BY <3>1, <3>2, <3>3
  <2> QED BY <2>1 DEF BegunInOrder
<1> QED BY <1>2, <1>3 DEF Order

-----------------------------------------------------------------------------
(* The floor.                                                               *)
Floor == LiveIsListed /\ FloorHeld

LEMMA AcquireFloor ==
  ASSUME TypeOK, Order, Floor, NEW t \in Turns, Acquire(t) PROVE Floor'
<1> USE VoiceAssumption
<1>1. CASE at' = [at EXCEPT ![t] = "dropped"] /\ UNCHANGED gateVars
  BY <1>1 DEF TypeOK, Floor, LiveIsListed, FloorHeld, InProgress, Over, gateVars
<1>2. CASE ~Gated(t) /\ at' = [at EXCEPT ![t] = "decide"] /\ Claims(t)
  <2>1. /\ \A u \in Turns : u # t => claim'[u] = IF u = gate /\ claim[u] = "live" THEN "released" ELSE claim[u]
        /\ claim'[t] = "live" /\ gate' = t /\ at[t] = "elect"
    BY <1>2 DEF Claims, Acquire
  <2>2. \A u \in Turns : u # t => claim'[u] # "live"
    BY <2>1 DEF Floor, LiveIsListed
  <2>3. LiveIsListed'
    BY <2>1, <2>2 DEF LiveIsListed
  <2>4. ASSUME NEW u \in Turns, InProgress(u)'
        PROVE  /\ claim'[u] # "none"
               /\ claim'[u] = "released" =>
                    \E v \in Turns : Source[v] = Source[u] /\ u < v /\ claim'[v] \in {"live", "lapsed"}
    <3>1. CASE u = t
      BY <2>1, <3>1
    <3>2. CASE u # t
      <4>1. InProgress(u)
        BY <1>2, <2>4, <3>2 DEF TypeOK, InProgress
      <4>2. claim[u] # "none" /\ claim'[u] # "none"
        BY <2>1, <3>2, <4>1 DEF Floor, FloorHeld
      <4>3. ASSUME claim'[u] = "released"
            PROVE  \E v \in Turns : Source[v] = Source[u] /\ u < v /\ claim'[v] \in {"live", "lapsed"}
        <5>1. ASSUME Source[u] = Source[t] PROVE u < t
          <6>1. ~(t < u)
            BY <2>1, <4>1, <5>1 DEF Order, WorkerInOrder, InWorkerOrSilent, InWorker, InProgress
          <6> QED BY <3>2, <6>1
        <5>2. CASE claim[u] = "live" /\ u = gate
          <6>1. Source[u] = Source[t]
            BY <1>2, <5>2 DEF Gated, GateIsLive
          <6> QED BY <2>1, <5>1, <6>1
        <5>3. CASE claim[u] = "released"
          <6>1. PICK v \in Turns : Source[v] = Source[u] /\ u < v /\ claim[v] \in {"live", "lapsed"}
            BY <4>1, <5>3 DEF Floor, FloorHeld
          <6>2. CASE v = t
            BY <2>1, <6>1, <6>2
          <6>3. CASE v # t /\ claim[v] = "live" /\ v = gate
            <7>1. Source[v] = Source[t]
              BY <1>2, <6>3 DEF Gated, GateIsLive
            <7> QED BY <2>1, <5>1, <6>1, <7>1
          <6>4. CASE v # t /\ claim'[v] = claim[v]
            BY <6>1, <6>4
          <6> QED BY <2>1, <6>1, <6>2, <6>3, <6>4
        <5> QED BY <2>1, <3>2, <4>3, <5>2, <5>3
      <4> QED BY <4>2, <4>3
    <3> QED BY <3>1, <3>2
  <2> QED BY <2>3, <2>4 DEF Floor, FloorHeld
<1> QED BY <1>1, <1>2 DEF Acquire, Go

LEMMA FloorStep == ASSUME TypeOK, Order, Floor, [Next]_vars PROVE Floor'
<1>1. CASE \E t \in Turns : Acquire(t)
  BY <1>1, AcquireFloor
<1>2. CASE ~\E t \in Turns : Acquire(t)
  <2>1. ClaimsKept /\ Shape /\ \A t \in Turns : InProgress(t)' => InProgress(t)
    BY <1>2, ClaimsStep, MovesStep DEF Floor, Moves
  <2>2. ASSUME NEW t \in Turns, InProgress(t)'
        PROVE  /\ claim'[t] # "none"
               /\ claim'[t] = "released" =>
                    \E v \in Turns : Source[v] = Source[t] /\ t < v /\ claim'[v] \in {"live", "lapsed"}
    <3>1. InProgress(t) /\ claim[t] # "none"
      BY <2>1, <2>2 DEF Floor, FloorHeld
    <3>2. claim'[t] # "none"
      BY <2>1, <3>1 DEF ClaimsKept
    <3>3. ASSUME claim'[t] = "released"
          PROVE  \E v \in Turns : Source[v] = Source[t] /\ t < v /\ claim'[v] \in {"live", "lapsed"}
      <4>1. claim[t] = "released"
        <5>1. at'[t] \notin Over
          BY <2>2 DEF InProgress
        <5> QED BY <2>1, <3>3, <5>1 DEF ClaimsKept
      <4>2. PICK v \in Turns : Source[v] = Source[t] /\ t < v /\ claim[v] \in {"live", "lapsed"}
        BY <3>1, <4>1 DEF Floor, FloorHeld
      <4>3. at[v] \notin Running
        BY <3>1, <4>2 DEF Order, BegunInOrder, Begun, InProgress
      <4>4. claim'[v] \in {"live", "lapsed"}
        BY <2>1, <4>2, <4>3 DEF ClaimsKept
      <4> QED BY <4>2, <4>4
    <3> QED BY <3>2, <3>3
  <2> QED BY <2>1, <2>2 DEF Floor, FloorHeld, ClaimsKept
<1> QED BY <1>1, <1>2

-----------------------------------------------------------------------------
(* The inductive invariant.                                                 *)
VoiceInv == TypeOK /\ Order /\ Floor

LEMMA InitVoiceInv == ASSUME Init PROVE VoiceInv
<1>1. Order
  BY DEF Init, Order, WorkerInOrder, BegunInOrder, Begun, Running, Processing
<1>2. Floor
  BY DEF Init, Floor, LiveIsListed, FloorHeld, InProgress
<1> QED BY <1>1, <1>2, InitType DEF VoiceInv

(* The worker order of a satellite (schedule_turn), the floor of a scope     *)
(* (ConversationArbiter) and the cancellation controller of a turn stay in   *)
(* step: the invariant the theorems below rest on.                           *)
THEOREM VoiceInvariance == Spec => []VoiceInv
<1>1. VoiceInv /\ [Next]_vars => VoiceInv'
  BY TypeStep, OrderStep, FloorStep DEF VoiceInv
<1> QED
  BY <1>1, InitVoiceInv, PTL DEF Spec

(* The states of turns, claims and controllers are well formed.             *)
THEOREM VoiceTypeCorrect == Spec => []TypeOK
<1>1. VoiceInv => TypeOK
  BY DEF VoiceInv
<1> QED
  BY <1>1, VoiceInvariance, PTL

(* The turns of one satellite run one after the other.                      *)
THEOREM VoiceInOrder == Spec => []SatelliteInOrder
<1>1. VoiceInv => SatelliteInOrder
  BY DEF VoiceInv, Order, BegunInOrder, Begun, SatelliteInOrder, InProgress
<1> QED
  BY <1>1, VoiceInvariance, PTL

(* One satellite has the floor, unless a claim ran out.                     *)
THEOREM VoiceFloor == Spec => []FloorExclusive
<1>1. ASSUME VoiceInv PROVE FloorExclusive
  <2> SUFFICES ASSUME NEW t \in Turns, NEW u \in Turns, InProgress(t), InProgress(u),
                      Source[t] # Source[u],
                      \A v \in Turns : Source[v] \in {Source[t], Source[u]} => claim[v] # "lapsed"
               PROVE  FALSE
    BY DEF FloorExclusive
  <2>1. ASSUME NEW x \in {t, u} PROVE Source[gate] = Source[x]
    <3>1. x \in Turns /\ InProgress(x) /\ claim[x] \in {"live", "released"}
      BY <1>1 DEF VoiceInv, TypeOK, Floor, FloorHeld
    <3>2. CASE claim[x] = "live"
      BY <1>1, <3>1, <3>2 DEF VoiceInv, Floor, LiveIsListed
    <3>3. CASE claim[x] = "released"
      <4>1. PICK v \in Turns : Source[v] = Source[x] /\ claim[v] \in {"live", "lapsed"}
        BY <1>1, <3>1, <3>3 DEF VoiceInv, Floor, FloorHeld
      <4>2. claim[v] = "live"
        BY <4>1
      <4> QED BY <1>1, <4>1, <4>2 DEF VoiceInv, Floor, LiveIsListed
    <3> QED BY <3>1, <3>2, <3>3
  <2> QED BY <2>1
<1> QED
  BY <1>1, VoiceInvariance, PTL
-----------------------------------------------------------------------------
(* Calls are not cut short.                                                 *)
AtCall(t) == ~(work[t].calls \subseteq {"anytime"})
Spared(t) ==
  /\ at'[t] = "handle"
  /\ work'[t].requested # work[t].requested => work'[t].calls = work[t].calls

(* A request leaves a turn alone whose call does not permit it.             *)
LEMMA AskedSpares ==
  ASSUME TypeOK, NEW t \in Turns, AtCall(t)
  PROVE  at[t] = "handle" /\ Asked[t].calls = work[t].calls /\ ~Permits(t)
<1>1. work[t] # NoWork /\ at[t] = "handle"
  BY DEF AtCall, TypeOK, NoWork
<1>2. ~Permits(t)
  BY DEF AtCall, Permits
<1>3. work[t] \in Work
  BY DEF TypeOK, Work
<1> QED BY <1>1, <1>2, <1>3 DEF Asked, Interrupted, Work

LEMMA SparedStep ==
  ASSUME TypeOK, [Next]_vars, NEW x \in Turns, AtCall(x), Source[x] \in connected'
  PROVE  Spared(x)
<1>0. at[x] = "handle" /\ Asked[x].calls = work[x].calls /\ ~Permits(x) /\ work[x].calls # {}
  BY AskedSpares DEF AtCall
<1>1. CASE UNCHANGED vars
  BY <1>0, <1>1 DEF vars, Spared
<1>2. ASSUME NEW t \in Turns, 
             \/ Loses(t) \/ Acquire(t) \/ Schedule(t) \/ Replace(t) \/ Interrupt(t)
             \/ Start(t) \/ PrefetchEnds(t) \/ Lapse(t) \/ Extend(t) \/ Heard(t)
             \/ Leave(t) \/ Spoken(t)
      PROVE  Spared(x)
  BY <1>0, <1>2 DEF TypeOK, Spared, Go, Loses, Acquire, Schedule, Replace, Interrupt, Start, PrefetchEnds, Lapse, Extend, Heard, Leave, Spoken, gateVars, phaseVars
<1>3. ASSUME NEW t \in Turns,
             \/ Transcribe(t) \/ SpeakEnds(t) \/ Confirmed(t) \/ HandleRaises(t) \/ Handled(t)
             \/ AbandonEnds(t)
      PROVE  Spared(x)
  BY <1>0, <1>3 DEF TypeOK, Spared, Go, Ends, Transcribe, SpeakEnds, Confirmed, HandleRaises, Handled, AbandonEnds
<1>4. ASSUME NEW t \in Turns, Lock(t) \/ BeginWave(t) \/ BeginMemory(t) PROVE Spared(x)
  BY <1>0, <1>4 DEF TypeOK, Spared, Go, Lock, BeginWave, BeginMemory
<1>5. ASSUME NEW t \in Turns, CallReturns(t) PROVE Spared(x)
  <2>1. PICK safety : work' = [work EXCEPT ![t].calls = @ \ {safety}]
    BY <1>5 DEF CallReturns
  <2>2. at' = at
    BY <1>5 DEF CallReturns
  <2>3. work'[x].requested = work[x].requested
    BY <2>1 DEF TypeOK
  <2> QED BY <1>0, <2>2, <2>3 DEF Spared
<1>6. ASSUME NEW t \in Turns, Abandon(t) PROVE Spared(x)
  BY <1>0, <1>6 DEF TypeOK, Spared, Go, Abandon
<1>7. ASSUME NEW t \in Turns, Refuse(t) PROVE Spared(x)
  BY <1>0, <1>7 DEF TypeOK, Spared, Go, Refuse, AfterRequest
<1>8. ASSUME NEW t \in Turns, Continue(t) PROVE Spared(x)
  <2>1. x \in Holder
    BY <1>0 DEF Holder
  <2> QED BY <1>0, <1>8, <2>1 DEF Continue, Accepted
<1>9. ASSUME NEW s \in Satellites, Disconnect(s) PROVE Spared(x)
  <2> DEFINE mine == {t \in Turns : Source[t] = s}
             single == {t \in mine : work[t].requested /\ work[t].calls # {}}
  <2>1. PICK kept \in SUBSET single : Cut(mine, kept, work) /\ at' = CutPlaces(mine, kept)
    BY <1>9 DEF Disconnect
  <2>2. x \notin mine /\ x \notin kept
    BY <1>9 DEF Disconnect
  <2>3. at'[x] = at[x] /\ work'[x] = work[x]
    BY <2>1, <2>2 DEF Cut, CutPlaces
  <2> QED BY <1>0, <2>3 DEF Spared
<1> QED
  BY <1>1, <1>2, <1>3, <1>4, <1>5, <1>6, <1>7, <1>8, <1>9 DEF Next, Advance, Begin

(* A provider call that does not permit it is not cut short.                *)
THEOREM VoiceNothingCutShort == Spec => NothingCutShort
<1>1. ASSUME TypeOK, [Next]_vars
      PROVE  \A t \in Turns : ~(work[t].calls \subseteq {"anytime"}) /\ Source[t] \in connected' =>
               /\ at'[t] = "handle"
               /\ work'[t].requested # work[t].requested => work'[t].calls = work[t].calls
  BY <1>1, SparedStep DEF AtCall, Spared
<1> QED
  BY <1>1, VoiceTypeCorrect, PTL DEF Spec, NothingCutShort
-----------------------------------------------------------------------------
(* Why turns end.  EveryTurnEnds itself needs fairness and is checked by     *)
(* TLC; the two facts its argument rests on hold without: no step takes a    *)
(* turn back, and as long as a turn has not ended some turn can go on.       *)

(* How far the end of a turn is.                                             *)
Distance(place) ==
  CASE place = "silent" -> 14
    [] place = "elect" -> 13
    [] place = "decide" -> 12
    [] place \in {"replace", "interrupt"} -> 11
    [] place \in {"ready", "follow"} -> 10
    [] place = "prefetch" -> 9
    [] place = "think" -> 8
    [] place = "abandon" -> 7
    [] place = "lock" -> 6
    [] place = "handle" -> 5
    [] place = "speak" -> 4
    [] place = "confirm" -> 3
    [] place = "leave" -> 2
    [] place \in Over -> 0

Nearer(t) == Distance(at'[t]) < Distance(at[t])

Stays(t) ==
  at'[t] = at[t] /\ work'[t].waves = work[t].waves /\ work'[t].calls = work[t].calls

(* Nearer to the end, or with fewer waves, or with fewer calls of its wave.  *)
MovesOn(t) ==
  \/ Nearer(t)
  \/ at'[t] = at[t] /\ work'[t].waves < work[t].waves
  \/ /\ at'[t] = at[t] /\ work'[t].waves = work[t].waves
     /\ work'[t].calls \subseteq work[t].calls /\ work'[t].calls # work[t].calls

(* Every step of a turn brings it nearer to its end, and no step of another  *)
(* turn, of the gate or of a socket takes it back: waits are entered once.   *)
OnlyForward ==
  [][/\ \A t \in Turns : MovesOn(t) \/ Stays(t)
     /\ \A t \in Turns : Advance(t) \/ Begin(t) => MovesOn(t)]_vars

(* The turn waits for nobody, or what it waits for has happened.             *)
CanGoOn(t) ==
  \/ at[t] \in {"elect", "decide", "interrupt", "ready", "prefetch", "think", "abandon",
               "handle", "speak"}
  \/ at[t] = "lock" /\ Holder = {}
  \/ at[t] \in {"replace", "follow", "leave"} /\ Earlier(t) = {}

(* Turns of a satellite wait for earlier ones and turns of all satellites    *)
(* for one lock, but not in a circle: while a turn is unfinished some turn   *)
(* can go on, or a response of its satellite has not been confirmed.         *)
NobodyIsStuck ==
  \A t \in Turns : at[t] \notin {"silent"} \cup Over =>
    \/ \E u \in Turns : Source[u] = Source[t] /\ at[u] = "confirm"
    \/ \E u \in Turns : CanGoOn(u)

(* A step of t alone that changes nothing of the others.                     *)
LEMMA OwnStep ==
  ASSUME TypeOK, NEW t \in Turns, NEW p \in Places, NEW w \in Work,
         at' = [at EXCEPT ![t] = p], work' = [work EXCEPT ![t] = w],
         \/ Distance(p) < Distance(at[t])
         \/ p = at[t] /\ w.waves < work[t].waves
         \/ /\ p = at[t] /\ w.waves = work[t].waves
            /\ w.calls \subseteq work[t].calls /\ w.calls # work[t].calls
  PROVE  MovesOn(t) /\ \A u \in Turns : u # t => Stays(u)
<1>1. at'[t] = p /\ work'[t] = w
  BY DEF TypeOK
<1>2. \A u \in Turns : u # t => at'[u] = at[u] /\ work'[u] = work[u]
  BY DEF TypeOK
<1> QED BY <1>1, <1>2 DEF MovesOn, Nearer, Stays

(* The same for a step that leaves the controllers alone.                    *)
LEMMA PlaceStep ==
  ASSUME TypeOK, NEW t \in Turns, NEW p \in Places,
         at' = [at EXCEPT ![t] = p], UNCHANGED work, Distance(p) < Distance(at[t])
  PROVE  MovesOn(t) /\ \A u \in Turns : u # t => Stays(u)
BY DEF TypeOK, MovesOn, Nearer, Stays

(* A request asks the turn that is handled to stop and may end its calls.    *)
LEMMA AskedForward ==
  ASSUME TypeOK, NEW u \in Turns
  PROVE  Asked[u].waves = work[u].waves /\ Asked[u].calls \in {work[u].calls, {}}
<1>1. work[u] \in Work BY DEF TypeOK, Work
<1> QED BY <1>1 DEF Asked, Work

(* Where a cancelled turn goes is nearer to its end.                         *)
LEMMA CutNearer ==
  ASSUME NEW p \in Places PROVE CutTo(p) = p \/ Distance(CutTo(p)) < Distance(p)
BY DEF CutTo, Distance, Places, InWorker, Tasks, Running, Processing, Over

(* A cancellation brings the turns it is meant for nearer to their end.      *)
LEMMA CutForward ==
  ASSUME TypeOK, NEW S \in SUBSET Turns, NEW kept \in SUBSET Turns, kept \subseteq S, NEW w \in [Turns -> Work],
         \A u \in Turns : w[u].waves = work[u].waves /\ w[u].calls \in {work[u].calls, {}},
         Cut(S, kept, w), NEW u \in Turns, at'[u] = CutPlaces(S, kept)[u]
  PROVE  MovesOn(u) \/ Stays(u)
<1> DEFINE gone == {t \in S \ kept : at[t] \in Running \ {"prefetch"}}
<1>1. work' = [t \in Turns |-> CASE t \in gone -> NoWork
                                 [] t \in kept -> [w[t] EXCEPT !.calls = {}]
                                 [] OTHER -> w[t]]
  BY DEF Cut
<1>2. at[u] \in Places /\ w[u] \in Work /\ work[u] \in Work
  BY DEF TypeOK, Work
<1>3. CASE u \in S \ kept
  <2>1. at'[u] = CutTo(at[u])
    BY <1>3 DEF CutPlaces
  <2>2. CASE Distance(CutTo(at[u])) < Distance(at[u])
    BY <2>1, <2>2 DEF MovesOn, Nearer
  <2>3. CASE CutTo(at[u]) = at[u]
    <3>1. u \notin gone
      BY <2>3 DEF CutTo, Running, Processing
    <3>2. work'[u] = w[u]
      BY <1>1, <1>3, <3>1
    <3> QED BY <2>1, <2>3, <3>2 DEF MovesOn, Stays
  <2> QED BY <1>2, <2>2, <2>3, CutNearer
<1>4. CASE u \notin S \ kept
  <2>1. at'[u] = at[u] /\ u \notin gone
    BY <1>4 DEF CutPlaces
  <2>2. work'[u].waves = w[u].waves /\ work'[u].calls \in {w[u].calls, {}}
    BY <1>1, <1>2, <2>1 DEF Work
  <2> QED BY <2>1, <2>2 DEF MovesOn, Stays
<1> QED BY <1>3, <1>4

(* A step of a turn brings it nearer to its end and takes no other back.     *)
LEMMA AdvanceForward ==
  ASSUME TypeOK, NEW t \in Turns, Advance(t) \/ Begin(t)
  PROVE  MovesOn(t) /\ \A u \in Turns : u # t => MovesOn(u) \/ Stays(u)
<1>0. work[t] \in Work /\ NoWork \in Work
  BY NoWorkType DEF TypeOK, Work
<1>1. CASE Loses(t)
  <2>1. "dropped" \in Places /\ Distance("dropped") < Distance(at[t])
    BY <1>1 DEF Loses, Distance, Places, InWorker, Tasks, Running, Processing, Over
  <2> QED BY <1>1, <2>1, PlaceStep DEF Loses, Go
<1>2. CASE Schedule(t)
  <2>1. "ready" \in Places /\ Distance("ready") < Distance(at[t])
    BY <1>2 DEF Schedule, Distance, Places, InWorker, Tasks, Running, Processing, Over
  <2> QED BY <1>2, <2>1, PlaceStep DEF Schedule, Go
<1>3. CASE Replace(t)
  <2>1. "ready" \in Places /\ Distance("ready") < Distance(at[t])
    BY <1>3 DEF Replace, Distance, Places, InWorker, Tasks, Running, Processing, Over
  <2> QED BY <1>3, <2>1, PlaceStep DEF Replace, Go
<1>4. CASE Interrupt(t)
  <2>1. "follow" \in Places /\ Distance("follow") < Distance(at[t])
    BY <1>4 DEF Interrupt, Distance, Places, InWorker, Tasks, Running, Processing, Over
  <2> QED BY <1>4, <2>1, PlaceStep DEF Interrupt, Go
<1>5. CASE PrefetchEnds(t)
  <2>1. "think" \in Places /\ Distance("think") < Distance(at[t])
    BY <1>5 DEF PrefetchEnds, Distance, Places, InWorker, Tasks, Running, Processing, Over
  <2> QED BY <1>5, <2>1, PlaceStep DEF PrefetchEnds, Go
<1>6. CASE Spoken(t)
  <2>1. "confirm" \in Places /\ Distance("confirm") < Distance(at[t])
    BY <1>6 DEF Spoken, Distance, Places, InWorker, Tasks, Running, Processing, Over
  <2> QED BY <1>6, <2>1, PlaceStep DEF Spoken, Go
<1>7. CASE Leave(t)
  <2>1. "done" \in Places /\ Distance("done") < Distance(at[t])
    BY <1>7 DEF Leave, Distance, Places, InWorker, Tasks, Running, Processing, Over
  <2> QED BY <1>7, <2>1, PlaceStep DEF Leave, Go
<1>8. CASE Acquire(t)
  <2>1. PICK p \in {"dropped", "decide"} : at' = [at EXCEPT ![t] = p]
    BY <1>8 DEF Acquire, Go
  <2>2. p \in Places /\ Distance(p) < Distance(at[t])
    BY <1>8 DEF Acquire, Distance, Places, InWorker, Tasks, Running, Processing, Over
  <2> QED BY <1>8, <2>1, <2>2, PlaceStep DEF Acquire
<1>9. CASE Start(t)
  <2>1. PICK p \in {"prefetch", "think"} : at' = [at EXCEPT ![t] = p]
    BY <1>9 DEF Start, Go
  <2>2. p \in Places /\ Distance(p) < Distance(at[t])
    BY <1>9 DEF Start, Distance, Places, InWorker, Tasks, Running, Processing, Over
  <2> QED BY <1>9, <2>1, <2>2, PlaceStep DEF Start
<1>10. CASE Lock(t)
  <2>1. "handle" \in Places /\ Distance("handle") < Distance(at[t])
    BY <1>10 DEF Lock, Distance, Places, InWorker, Tasks, Running, Processing, Over
  <2>2. [NoWork EXCEPT !.waves = MaxWaves] \in Work
    BY <1>0, VoiceAssumption DEF Work
  <2> QED BY <1>10, <2>1, <2>2, OwnStep DEF Lock, Go
<1>11. CASE Handled(t)
  <2>1. "speak" \in Places /\ Distance("speak") < Distance(at[t])
    BY <1>11 DEF Handled, Distance, Places, InWorker, Tasks, Running, Processing, Over
  <2> QED BY <1>0, <1>11, <2>1, OwnStep DEF Handled, Go
<1>12. CASE HandleRaises(t)
  <2>1. "done" \in Places /\ Distance("done") < Distance(at[t])
    BY <1>12 DEF HandleRaises, Distance, Places, InWorker, Tasks, Running, Processing, Over
  <2> QED BY <1>0, <1>12, <2>1, OwnStep DEF HandleRaises, Ends, Go
<1>13. CASE SpeakEnds(t)
  <2>1. "done" \in Places /\ Distance("done") < Distance(at[t])
    BY <1>13 DEF SpeakEnds, Distance, Places, InWorker, Tasks, Running, Processing, Over
  <2> QED BY <1>0, <1>13, <2>1, OwnStep DEF SpeakEnds, Ends, Go
<1>14. CASE Transcribe(t)
  <2>1. PICK p \in {"lock", "done"} :
          /\ at' = [at EXCEPT ![t] = p]
          /\ UNCHANGED work \/ work' = [work EXCEPT ![t] = NoWork]
    BY <1>14 DEF Transcribe, Ends, Go
  <2>2. p \in Places /\ Distance(p) < Distance(at[t])
    BY <1>14 DEF Transcribe, Distance, Places, InWorker, Tasks, Running, Processing, Over
  <2> QED BY <1>0, <2>1, <2>2, OwnStep, PlaceStep
<1>15. CASE CallReturns(t)
  <2>1. PICK safety \in work[t].calls : work' = [work EXCEPT ![t].calls = @ \ {safety}]
    BY <1>15 DEF CallReturns
  <2>2. at' = [at EXCEPT ![t] = at[t]] /\ at[t] \in Places
    BY <1>15 DEF CallReturns, TypeOK
  <2>3. PICK new \in Work : /\ new = [work[t] EXCEPT !.calls = @ \ {safety}]
                           /\ work' = [work EXCEPT ![t] = new]
    BY <1>0, <2>1 DEF Work
  <2>4. new.waves = work[t].waves /\ new.calls \subseteq work[t].calls /\ new.calls # work[t].calls
    BY <1>0, <2>1, <2>3 DEF Work
  <2> QED BY <2>2, <2>3, <2>4, OwnStep
<1>16. CASE BeginWave(t) \/ BeginMemory(t)
  <2>1. PICK wave \in SUBSET Safeties : work' = [work EXCEPT ![t] = Calling(t, wave)]
    BY <1>16 DEF BeginWave, BeginMemory, Safeties
  <2>2. at' = [at EXCEPT ![t] = at[t]] /\ at[t] \in Places /\ work[t].waves > 0
    BY <1>16 DEF BeginWave, BeginMemory, TypeOK
  <2>3. Calling(t, wave) \in Work /\ Calling(t, wave).waves < work[t].waves
    <3>1. work[t].waves \in 1..MaxWaves
      BY <1>0, <2>2, VoiceAssumption DEF Work
    <3>2. work[t].waves - 1 \in 0..MaxWaves /\ work[t].waves - 1 < work[t].waves
      BY <3>1, VoiceAssumption
    <3> QED BY <1>0, <3>2 DEF Calling, Work
  <2> QED BY <2>1, <2>2, <2>3, OwnStep
<1>17. CASE Refuse(t)
  <2>1. at' = [at EXCEPT ![t] = "interrupt"] /\ at[t] = "decide" /\ work' = AfterRequest
    BY <1>17 DEF Refuse, Go
  <2>2. MovesOn(t)
    <3>1. at'[t] = "interrupt"
      BY <2>1 DEF TypeOK
    <3>2. Distance("interrupt") = 11 /\ Distance("decide") = 12
      BY DEF Distance, Over
    <3> QED BY <2>1, <3>1, <3>2 DEF MovesOn, Nearer
  <2>3. \A u \in Turns : u # t => MovesOn(u) \/ Stays(u)
    BY <2>1, AskedForward DEF TypeOK, AfterRequest, MovesOn, Stays
  <2> QED BY <2>2, <2>3
<1>18. CASE Abandon(t)
  <2>1. at' = [at EXCEPT ![t] = "abandon"] /\ at[t] = "think" /\ work' = Asked
    BY <1>18 DEF Abandon, Go
  <2>2. MovesOn(t)
    BY <2>1 DEF TypeOK, MovesOn, Nearer, Distance, Over
  <2>3. \A u \in Turns : u # t => at'[u] = at[u] /\ work'[u] = Asked[u]
    BY <2>1, AskedType DEF TypeOK
  <2>4. \A u \in Turns : u # t => MovesOn(u) \/ Stays(u)
    BY <2>3, AskedForward DEF MovesOn, Stays
  <2> QED BY <2>2, <2>4
<1>19. CASE Continue(t)
  <2>1. PICK kept \in SUBSET (Interrupted \cap Earlier(t)) :
          /\ Cut(Earlier(t), kept, AfterRequest)
          /\ at' = [CutPlaces(Earlier(t), kept) EXCEPT ![t] = "replace"]
    BY <1>19 DEF Continue
  <2>2. at[t] = "decide" /\ Earlier(t) \in SUBSET Turns /\ kept \in SUBSET Turns /\ kept \subseteq Earlier(t)
    BY <1>19 DEF Continue, Earlier
  <2>3. /\ AfterRequest \in [Turns -> Work]
        /\ \A u \in Turns : /\ AfterRequest[u].waves = work[u].waves
                            /\ AfterRequest[u].calls \in {work[u].calls, {}}
    BY AskedType, AskedForward DEF AfterRequest, TypeOK, Work
  <2>4. MovesOn(t)
    <3>1. at'[t] = "replace"
      BY <2>1 DEF CutPlaces
    <3>2. Distance("replace") = 11 /\ Distance("decide") = 12
      BY DEF Distance, Over
    <3> QED BY <2>2, <3>1, <3>2 DEF MovesOn, Nearer
  <2>5. ASSUME NEW u \in Turns, u # t PROVE MovesOn(u) \/ Stays(u)
    <3>1. at'[u] = CutPlaces(Earlier(t), kept)[u]
      BY <2>1, <2>5
    <3> QED BY <2>1, <2>2, <2>3, <3>1, CutForward
  <2> QED BY <2>4, <2>5
<1>20. CASE AbandonEnds(t)
  <2>1. "done" \in Places /\ Distance("done") < Distance(at[t])
    BY <1>20 DEF AbandonEnds, Distance, Places, InWorker, Tasks, Running, Processing, Over
  <2> QED BY <1>0, <1>20, <2>1, OwnStep DEF AbandonEnds, Ends, Go
<1> QED
  BY <1>1, <1>2, <1>3, <1>4, <1>5, <1>6, <1>7, <1>8, <1>9, <1>10, <1>11,
     <1>12, <1>13, <1>14, <1>15, <1>16, <1>17, <1>18, <1>19, <1>20 DEF Advance, Begin

LEMMA ForwardStep ==
  ASSUME TypeOK, [Next]_vars PROVE \A u \in Turns : MovesOn(u) \/ Stays(u)
<1>1. CASE UNCHANGED vars
  BY <1>1 DEF vars, Stays
<1>2. ASSUME NEW t \in Turns, Advance(t) \/ Begin(t)
      PROVE  \A u \in Turns : MovesOn(u) \/ Stays(u)
  BY <1>2, AdvanceForward
<1>3. ASSUME NEW t \in Turns, Heard(t) PROVE \A u \in Turns : MovesOn(u) \/ Stays(u)
  <2>1. PICK p \in {"dropped", "elect"} : at' = [at EXCEPT ![t] = p]
    BY <1>3 DEF Heard, Go
  <2>2. p \in Places /\ Distance(p) < Distance(at[t])
    BY <1>3 DEF Heard, Distance, Places, InWorker, Tasks, Running, Processing, Over
  <2> QED BY <1>3, <2>1, <2>2, PlaceStep DEF Heard
<1>4. ASSUME NEW t \in Turns, Confirmed(t) PROVE \A u \in Turns : MovesOn(u) \/ Stays(u)
  <2>1. "done" \in Places /\ Distance("done") < Distance(at[t])
    BY <1>4 DEF Confirmed, Distance, Places, InWorker, Tasks, Running, Processing, Over
  <2> QED BY <1>4, <2>1, OwnStep, NoWorkType DEF Confirmed, Ends, Go
<1>5. ASSUME NEW t \in Turns, Lapse(t) \/ Extend(t) PROVE \A u \in Turns : MovesOn(u) \/ Stays(u)
  BY <1>5 DEF Lapse, Extend, Stays
<1>6. ASSUME NEW s \in Satellites, Disconnect(s) PROVE \A u \in Turns : MovesOn(u) \/ Stays(u)
  <2>1. PICK S \in SUBSET Turns, kept \in SUBSET Turns :
          kept \subseteq S /\ Cut(S, kept, work) /\ at' = CutPlaces(S, kept)
    BY <1>6 DEF Disconnect
  <2>2. work \in [Turns -> Work]
    BY DEF TypeOK, Work
  <2> QED BY <2>1, <2>2, CutForward
<1> QED
  BY <1>1, <1>2, <1>3, <1>4, <1>5, <1>6 DEF Next

(* The measure of a turn (its place, the waves it has left, the calls of its *)
(* wave) never grows, and shrinks with every step the turn makes.            *)
THEOREM VoiceOnlyForward == Spec => OnlyForward
<1>1. ASSUME TypeOK, [Next]_vars
      PROVE  /\ \A t \in Turns : MovesOn(t) \/ Stays(t)
             /\ \A t \in Turns : Advance(t) \/ Begin(t) => MovesOn(t)
  BY <1>1, ForwardStep, AdvanceForward
<1> QED
  BY <1>1, VoiceTypeCorrect, PTL DEF Spec, OnlyForward

(* A set of turns has an earliest one.                                       *)
LEMMA Earliest ==
  ASSUME NEW S \in SUBSET Turns, S # {} PROVE \E t \in S : \A u \in S : t <= u
<1>1. S \subseteq Nat
  BY VoiceAssumption
<1>2. PICK t \in S : \A u \in S : ~(<<u, t>> \in OpToRel(<, Nat))
  BY <1>1, NatLessThanWellFounded, WFMin
<1>3. ASSUME NEW u \in S PROVE t <= u
  <2>1. u \in Nat /\ t \in Nat
    BY <1>1
  <2>2. <<u, t>> \in Nat \X Nat /\ <<u, t>>[1] = u /\ <<u, t>>[2] = t
    BY <2>1
  <2>3. ~(u < t)
    BY <1>2, <2>2 DEF OpToRel
  <2> QED BY <2>1, <2>3
<1> QED BY <1>3

(* Turns of one satellite wait for earlier ones and all turns for one lock,  *)
(* but never in a circle.                                                    *)
THEOREM VoiceNobodyStuck == Spec => []NobodyIsStuck
<1>1. ASSUME TypeOK PROVE NobodyIsStuck
  <2> SUFFICES ASSUME NEW t \in Turns, at[t] \notin {"silent"} \cup Over,
                      \A u \in Turns : Source[u] = Source[t] => at[u] # "confirm"
               PROVE  \E u \in Turns : CanGoOn(u)
    BY DEF NobodyIsStuck
  <2>1. ASSUME Holder # {} PROVE \E u \in Turns : CanGoOn(u)
    BY <2>1 DEF Holder, CanGoOn
  <2>2. CASE Earlier(t) = {}
    <3>1. at[t] = "lock" /\ Holder = {} => CanGoOn(t)
      BY DEF CanGoOn
    <3>2. at[t] \in Places \ {"confirm"}
      BY <1>1 DEF TypeOK
    <3>3. at[t] # "lock" => CanGoOn(t)
      BY <2>2, <3>2 DEF CanGoOn, Places, InWorker, Tasks, Running, Processing, Over
    <3> QED BY <2>1, <3>1, <3>3
  <2>3. CASE Earlier(t) # {}
    <3>1. PICK u \in Earlier(t) : \A v \in Earlier(t) : u <= v
      BY <2>3, Earliest DEF Earlier
    <3>2. u \in Turns /\ u < t /\ Source[u] = Source[t] /\ at[u] \in Tasks /\ at[u] # "confirm"
      BY <3>1 DEF Earlier
    <3>3. Earlier(u) = {}
      <4>1. ASSUME NEW v \in Earlier(u) PROVE FALSE
        <5>1. v \in Turns /\ v < u /\ Source[v] = Source[u] /\ at[v] \in Tasks
          BY DEF Earlier
        <5>2. u \in Nat /\ v \in Nat /\ t \in Nat
          BY <3>2, <5>1, VoiceAssumption
        <5>3. v < t
          BY <3>2, <5>1, <5>2
        <5>4. v \in Earlier(t)
          BY <3>2, <5>1, <5>3 DEF Earlier
        <5> QED BY <3>1, <5>1, <5>2, <5>4
      <4> QED BY <4>1
    <3> QED BY <2>1, <3>2, <3>3 DEF CanGoOn, Tasks, Running, Processing
  <2> QED BY <2>2, <2>3
<1> QED
  BY <1>1, VoiceTypeCorrect, PTL
=============================================================================
