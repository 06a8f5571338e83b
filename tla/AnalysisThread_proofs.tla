------------------------ MODULE AnalysisThread_proofs ------------------------
(***************************************************************************)
(* For any hold, keepalive, sleeps, presses and setting back of the clock: *)
(* the types, that silence changes nothing of the detection, and that what *)
(* is published is what is sent.                                           *)
(***************************************************************************)
EXTENDS AnalysisThread, TLAPS

(* The ages are negative only after the clock was set back. *)
ClockInv == ~clockSet => sinceLoud >= 0 /\ sinceSent >= 0

(* A tick that found sound, or the hold not over, says so up to its end.    *)
SoundInv == pc = "cadence" => awake \/ sinceLoud < Hold

(* But for a tick that found sound, up to its Publish, there is nothing to  *)
(* latch that is not latched and nothing to publish that is not published.  *)
LatchInv ==
  /\ pc = "prepare" => ~detected
  /\ ~(pc \in {"cadence", "publish"} /\ (awake \/ sinceLoud < Hold))
     /\ pc # "stopped" =>
       /\ Detect => latchedSpeaker = leader
       /\ detectValue = IF latchedSpeaker = 1 THEN 1 ELSE 0

(* What the loop believes it sent is what it published and what the client  *)
(* holds.                                                                   *)
SentInv ==
  lastSent # None /\ pc \notin {"flush", "close", "stopped"} =>
    /\ lastSent = detectValue
    /\ PublishedIsSent

IInv == TypeOK /\ ClockInv /\ SoundInv /\ LatchInv /\ SentInv

-----------------------------------------------------------------------------
LEMMA InitInv == Init => IInv
<1> SUFFICES ASSUME Init PROVE IInv
  OBVIOUS
<1> USE DEF Init
<1>1. FlagsTypeOK
  BY DEF FlagsTypeOK
<1>2. AgesTypeOK /\ ClockInv
  BY AnalysisAssumption DEF AgesTypeOK, ClockInv
<1>3. ValuesTypeOK
  BY DEF ValuesTypeOK, Speakers, None, Create
<1>4. SoundInv /\ LatchInv /\ SentInv
  BY DEF SoundInv, LatchInv, SentInv, Detect, None
<1> QED
  BY <1>1, <1>2, <1>3, <1>4 DEF IInv, TypeOK

LEMMA FlagsStep ==
  ASSUME IInv, Next
  PROVE  FlagsTypeOK'
<1> USE DEF IInv, TypeOK, FlagsTypeOK, vars, runnerVars, soundVars, scoreVars,
      gateVars, cellVars, regVars, userVars, clientVars, vtsVars, loopVars,
      RegisterFirst, MayWrite, StillRequested, Pump, WriteCreate, WriteValue,
      Cell!Put, Cell!Send, Cell!SendOther, Cell!Done, Cell!LinkUp, Cell!LinkDown
<1>1. CASE Prepare \/ Service \/ Sleep
  BY <1>1 DEF Prepare, Service, Sleep
<1>2. CASE GateAndHarvest
  <2>1. awake' \in BOOLEAN
    BY <1>2 DEF GateAndHarvest, IsAwake
  <2>2. {detected, result}' \subseteq BOOLEAN
    BY <1>2 DEF GateAndHarvest, Harvest
  <2>3. pc' \in {"cadence", "publish"}
    BY <1>2 DEF GateAndHarvest
  <2>4. UNCHANGED <<link, stopping, modelReady, failed, inFlight, clockSet,
                    valueDirty, button, registerRequested, registering, hasParam>>
    BY <1>2 DEF GateAndHarvest
  <2> QED
    BY <2>1, <2>2, <2>3, <2>4
<1>3. CASE Cadence \/ Publish
  BY <1>3 DEF Cadence, Publish
<1>4. CASE LeaveZero \/ Flush \/ Close
  BY <1>4 DEF LeaveZero, Flush, Close
<1>5. CASE StopThread \/ PressRegister \/ ClockSetBack \/ InferenceEnds
  BY <1>5 DEF StopThread, PressRegister, ClockSetBack, InferenceEnds
<1>6. CASE LinkUp \/ LinkLost \/ WriteArrives \/ RegisterAnswered
  BY <1>6 DEF LinkUp, LinkLost, WriteArrives, RegisterAnswered
<1> QED
  BY <1>1, <1>2, <1>3, <1>4, <1>5, <1>6 DEF Next, Thread, Environment

LEMMA AgesStep ==
  ASSUME IInv, Next
  PROVE  (AgesTypeOK /\ ClockInv)'
<1> USE AnalysisAssumption
    DEF IInv, TypeOK, FlagsTypeOK, AgesTypeOK, ClockInv, vars, runnerVars,
      soundVars, scoreVars, gateVars, userVars, clientVars, loopVars
<1>1. CASE Sleep
  BY <1>1 DEF Sleep, Lesser
<1>2. CASE GateAndHarvest
  BY <1>2 DEF GateAndHarvest
<1>3. CASE Publish
  BY <1>3 DEF Publish
<1>4. CASE ClockSetBack
  BY <1>4 DEF ClockSetBack
<1>5. CASE PressRegister
  BY <1>5 DEF PressRegister
<1>6. CASE Prepare \/ Service \/ Cadence \/ LeaveZero \/ Flush \/ Close
  BY <1>6 DEF Prepare, Service, Cadence, LeaveZero, Flush, Close
<1>7. CASE \/ StopThread \/ InferenceEnds \/ LinkUp \/ LinkLost
           \/ WriteArrives \/ RegisterAnswered
  BY <1>7 DEF StopThread, InferenceEnds, LinkUp, LinkLost, WriteArrives,
              RegisterAnswered
<1> QED
  BY <1>1, <1>2, <1>3, <1>4, <1>5, <1>6, <1>7 DEF Next, Thread, Environment

LEMMA ValuesStep ==
  ASSUME IInv, Next
  PROVE  ValuesTypeOK'
<1> USE DEF IInv, TypeOK, FlagsTypeOK, ValuesTypeOK, Speakers, None, Create,
      vars, runnerVars, soundVars, scoreVars, gateVars, cellVars, regVars,
      userVars, clientVars, vtsVars, loopVars, Pump, WriteCreate, WriteValue,
      Cell!Put, Cell!Send, Cell!SendOther, Cell!Done, Cell!LinkUp, Cell!LinkDown
<1>1. CASE Prepare \/ Service \/ Sleep
  BY <1>1 DEF Prepare, Service, Sleep
<1>2. CASE GateAndHarvest
  BY <1>2 DEF GateAndHarvest, Harvest
<1>3. CASE Cadence \/ Publish
  BY <1>3 DEF Cadence, Publish, Speaker
<1>4. CASE LeaveZero \/ Flush \/ Close
  BY <1>4 DEF LeaveZero, Flush, Close
<1>5. CASE StopThread \/ PressRegister \/ ClockSetBack \/ InferenceEnds
  BY <1>5 DEF StopThread, PressRegister, ClockSetBack, InferenceEnds
<1>6. CASE LinkUp \/ LinkLost \/ WriteArrives \/ RegisterAnswered
  BY <1>6 DEF LinkUp, LinkLost, WriteArrives, RegisterAnswered
<1> QED
  BY <1>1, <1>2, <1>3, <1>4, <1>5, <1>6 DEF Next, Thread, Environment

(* What is latched: only a tick with sound has something new, until its     *)
(* Publish; a failure only takes the detection away.                        *)
LEMMA LatchStep ==
  ASSUME IInv, Next
  PROVE  (SoundInv /\ LatchInv)'
<1> USE AnalysisAssumption
    DEF IInv, TypeOK, FlagsTypeOK, AgesTypeOK, ValuesTypeOK, SoundInv, LatchInv,
      Detect, vars, runnerVars, soundVars, scoreVars, gateVars, userVars,
      clientVars, loopVars
<1>1. CASE Prepare \/ Service
  BY <1>1 DEF Prepare, Service
<1>2. CASE Sleep
  BY <1>2 DEF Sleep
<1>3. CASE GateAndHarvest
  BY <1>3 DEF GateAndHarvest, IsAwake, ShouldEvaluate, HarvestNow
<1>4. CASE Cadence
  BY <1>4 DEF Cadence
<1>5. CASE Publish
  BY <1>5 DEF Publish, Speaker
<1>6. CASE LeaveZero \/ Flush \/ Close
  BY <1>6 DEF LeaveZero, Flush, Close
<1>7. CASE StopThread \/ PressRegister \/ ClockSetBack \/ InferenceEnds
  BY <1>7 DEF StopThread, PressRegister, ClockSetBack, InferenceEnds
<1>8. CASE LinkUp \/ LinkLost
  <2>1. UNCHANGED <<pc, runnerVars, loopVars>>
    BY <1>8 DEF LinkUp, LinkLost
  <2> QED
    BY <2>1
<1>9. CASE WriteArrives \/ RegisterAnswered
  BY <1>9 DEF WriteArrives, RegisterAnswered
<1> QED
  BY <1>1, <1>2, <1>3, <1>4, <1>5, <1>6, <1>7, <1>8, <1>9 DEF Next, Thread, Environment

(* What is sent: the cell changes with the belief, in Publish; the client   *)
(* only moves the value from the cell to its write.                         *)
LEMMA SentStep ==
  ASSUME IInv, Next
  PROVE  SentInv'
<1> USE DEF IInv, SentInv, PublishedIsSent, runnerVars, soundVars, scoreVars,
      gateVars, cellVars, regVars, userVars, clientVars, vtsVars, loopVars,
      Pump, WriteCreate, WriteValue, Cell!Put, Cell!Send, Cell!SendOther,
      Cell!Done, Cell!LinkUp, Cell!LinkDown
<1>1. CASE Prepare \/ Service \/ Sleep
  BY <1>1 DEF Prepare, Service, Sleep
<1>2. CASE GateAndHarvest \/ Cadence
  BY <1>2 DEF GateAndHarvest, Cadence
<1>3. CASE Publish
  BY <1>3 DEF Publish, ShouldSend
<1>4. CASE LeaveZero \/ Flush \/ Close
  BY <1>4 DEF LeaveZero, Flush, Close
<1>5. CASE StopThread \/ PressRegister \/ ClockSetBack \/ InferenceEnds
  BY <1>5 DEF StopThread, PressRegister, ClockSetBack, InferenceEnds
<1>6. CASE LinkUp \/ LinkLost \/ WriteArrives \/ RegisterAnswered
  BY <1>6 DEF LinkUp, LinkLost, WriteArrives, RegisterAnswered
<1> QED
  BY <1>1, <1>2, <1>3, <1>4, <1>5, <1>6 DEF Next, Thread, Environment

LEMMA StepInv == IInv /\ [Next]_vars => IInv'
<1>1. IInv /\ Next => IInv'
  BY FlagsStep, AgesStep, ValuesStep, LatchStep, SentStep DEF IInv, TypeOK
<1>2. IInv /\ UNCHANGED vars => IInv'
  BY DEF IInv, TypeOK, FlagsTypeOK, AgesTypeOK, ValuesTypeOK, ClockInv, SoundInv,
         LatchInv, SentInv, PublishedIsSent, Detect, vars, runnerVars, soundVars, scoreVars, gateVars,
         cellVars, regVars, userVars, clientVars, vtsVars, loopVars
<1> QED
  BY <1>1, <1>2

(* The invariant of the loop. *)
THEOREM InductiveInvariant == Spec => []IInv
BY InitInv, StepInv, PTL DEF Spec

(* The types hold for any hold, keepalive and bounds. *)
THEOREM TypeCorrect == Spec => []TypeOK
<1>1. IInv => TypeOK
  BY DEF IInv
<1> QED
  BY <1>1, InductiveInvariant, PTL

(* The published value is the client's, to be written or written last, for  *)
(* any keepalive, sleeps and setting back of the clock.                     *)
THEOREM SentAsPublished == Spec => []PublishedIsSent
<1>1. IInv => PublishedIsSent
  BY DEF IInv, SentInv, PublishedIsSent
<1> QED
  BY <1>1, InductiveInvariant, PTL

(* A step in silence, its end included, changes nothing of the detection.   *)
LEMMA SilentStep ==
  ASSUME IInv, Next, Silent, Silent', pc' # "stopped"
  PROVE  UNCHANGED <<detected, leader, latchedSpeaker, detectValue>>
<1> USE DEF Silent, scoreVars, loopVars
<1>1. CASE GateAndHarvest
  <2>1. ~ShouldEvaluate
    BY <1>1, AnalysisAssumption DEF ShouldEvaluate
  <2> QED
    BY <1>1, <2>1 DEF GateAndHarvest, HarvestNow
<1>2. CASE Publish
  BY <1>2, AnalysisAssumption
     DEF Publish, Speaker, IInv, TypeOK, FlagsTypeOK, AgesTypeOK, LatchInv
<1>3. CASE Prepare \/ Service \/ Cadence \/ Sleep \/ LeaveZero \/ Flush \/ Close
  BY <1>3 DEF Prepare, Service, Cadence, Sleep, LeaveZero, Flush, Close
<1>4. CASE Environment
  BY <1>4 DEF Environment, StopThread, PressRegister, ClockSetBack,
              InferenceEnds, LinkUp, LinkLost, WriteArrives, RegisterAnswered
<1> QED
  BY <1>1, <1>2, <1>3, <1>4 DEF Next, Thread

(* From no sound for longer than the hold until there is sound again, the   *)
(* detection, the speaker and the value are held.                           *)
THEOREM HeldThroughSilence == Spec => SilenceHolds
<1>1. IInv /\ [Next]_vars =>
        [Silent /\ Silent' /\ pc' # "stopped" =>
           UNCHANGED <<detected, leader, latchedSpeaker, detectValue>>]_vars
  BY SilentStep
<1> QED
  BY <1>1, InductiveInvariant, PTL DEF Spec, SilenceHolds
=============================================================================
