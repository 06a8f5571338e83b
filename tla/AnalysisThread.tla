---------------------------- MODULE AnalysisThread ----------------------------
(***************************************************************************)
(* AnalysisThread.h with GatingLogic.hpp: one tick of the analysis loop    *)
(* decides whether there is sound, harvests scores, filters and latches    *)
(* them, and hands the value to the VTube Studio (VTS) client.  Between    *)
(* its steps inferences complete or fail, the link and VTS do as they      *)
(* like, the user asks for the parameter to be created, the wall clock is  *)
(* set, and the owner asks the thread to stop.                             *)
(*                                                                         *)
(* The runner is the slot OnnxRunner implements, and the client does what  *)
(* ValueCell lets it, which VTubeStudioClient implements.  Loudness is a   *)
(* level relative to the adaptive noise floor, a smoothed score a level    *)
(* relative to the two thresholds, and which speaker scores higher; times  *)
(* are ages in units of a tick.                                            *)
(***************************************************************************)
EXTENDS Integers

CONSTANTS Hold,       \* holdMs
          Keepalive,  \* sendKeepaliveMs
          MaxSleep,   \* bound: longest time from one tick to the next
          MaxBack,    \* bound: how far the clock is set back, once
          MaxPresses  \* bound: presses of the Register button

ASSUME AnalysisAssumption ==
  /\ {Hold, Keepalive, MaxSleep} \subseteq Nat \ {0}
  /\ {MaxBack, MaxPresses} \subseteq Nat

Speakers == {0, 1}   \* baji, ru
None     == -1
Create   == 2        \* in flight: the request that creates the parameter

VARIABLES
  pc,                          \* where in the tick the thread is
  stopping,                    \* threadShouldExit()
  modelReady, failed,          \* the runner was prepared; it has failed
  inFlight, result,            \* an inference runs; one waits to be harvested
  awake, sinceLoud,            \* silenceGate
  leader, detected,            \* scoreFilter and detectHysteresis
  latchedSpeaker, detectValue,
  lastSent, sinceSent,         \* silenceGate's sending half
  clockSet,                    \* the clock has been set back
  pendingValue, valueDirty,    \* the client's cell,
  written, inWrite,            \* the value it wrote last, the write in flight,
  link,                        \* "down" before the first connection, "up", "lost"
  button,                      \* AnalysisThread::registerRequested
  registerRequested, registering, \* the client's
  presses,
  hasParam, shown              \* VTS has the parameter; the value it
                               \* shows, 0 without it

runnerVars == <<modelReady, failed, inFlight, result>>
soundVars  == <<awake, sinceLoud>>
scoreVars  == <<leader, detected>>
gateVars   == <<lastSent, sinceSent, clockSet>>
cellVars   == <<pendingValue, valueDirty, written, inWrite, link>>
regVars    == <<registerRequested, registering>>
userVars   == <<button, presses>>
clientVars == <<cellVars, regVars>>
vtsVars    == <<hasParam, shown>>
loopVars   == <<soundVars, scoreVars, latchedSpeaker, detectValue>>
vars == <<pc, stopping, runnerVars, loopVars, gateVars, clientVars, userVars,
          vtsVars>>

Cell == INSTANCE ValueCell WITH
          Values <- Speakers, value <- pendingValue, dirty <- valueDirty,
          sent <- written, busy <- inWrite # None, up <- link = "up"

Init ==
  /\ pc = "prepare" /\ stopping = FALSE
  /\ modelReady = FALSE /\ failed = FALSE /\ inFlight = FALSE /\ result = FALSE
  /\ awake = FALSE /\ sinceLoud = Hold
  /\ leader = 0 /\ detected = FALSE
  /\ latchedSpeaker = None /\ detectValue = 0
  /\ lastSent = None /\ sinceSent = Keepalive /\ clockSet = FALSE
  /\ inWrite = None /\ link = "down"
  /\ pendingValue = 0 /\ valueDirty = FALSE /\ written = None
  /\ button = FALSE /\ presses = 0
  /\ registerRequested = FALSE /\ registering = FALSE
  /\ hasParam \in BOOLEAN /\ shown \in IF hasParam THEN Speakers ELSE {0}

Lesser(a, b) == IF a <= b THEN a ELSE b

-----------------------------------------------------------------------------
(* The thread. *)

Prepare ==
  /\ pc = "prepare"
  /\ modelReady' \in BOOLEAN
  /\ failed' = ~modelReady'
  /\ pc' = IF stopping THEN "stopped" ELSE "service"
  /\ UNCHANGED <<stopping, inFlight, result, loopVars, gateVars, clientVars,
                 userVars, vtsVars>>

(* pump(): a register request goes first, then the cell if it is dirty.     *)
RegisterFirst == registerRequested /\ ~registering
MayWrite      == link = "up" /\ inWrite = None /\ (RegisterFirst \/ valueDirty)

WriteCreate ==
  /\ RegisterFirst
  /\ inWrite' = Create /\ UNCHANGED link
  /\ Cell!SendOther
  /\ registering' = TRUE

WriteValue ==
  /\ ~RegisterFirst
  /\ inWrite' = pendingValue /\ UNCHANGED link
  /\ Cell!Send
  /\ UNCHANGED registering

Pump ==
  \/ WriteCreate
  \/ WriteValue
  \/ ~MayWrite /\ UNCHANGED <<cellVars, registering>>

(* What pump() leaves of the request. *)
StillRequested == registerRequested /\ ~(MayWrite /\ RegisterFirst)

(* pump(), then the Register button. *)
Service ==
  /\ pc = "service"
  /\ ~stopping
  /\ pc' = "evaluate"
  /\ Pump
  /\ registerRequested' = (StillRequested \/ button)
  /\ button' = FALSE
  /\ UNCHANGED <<stopping, runnerVars, loopVars, gateVars, presses, vtsVars>>

(* shouldEvaluate(): awake is hysteretic, and outlasts the sound by Hold.   *)
IsAwake(level) == IF awake THEN level # "quiet" ELSE level = "loud"
ShouldEvaluate == awake' \/ sinceLoud' < Hold

(* An exponential average moves towards the raw score.  A harvest can take  *)
(* the confidence, the higher of the two speakers' averages, anywhere and   *)
(* the lead to either speaker.                                              *)
Harvest ==
  /\ leader' \in Speakers
  /\ \E confidence \in {"low", "mid", "high"} :
       detected' = IF detected THEN confidence # "low" ELSE confidence = "high"

(* Mutant: harvest whether there is sound or not.                           *)
HarvestAlways == result
HarvestNow    == result /\ ShouldEvaluate

GateAndHarvest ==
  /\ pc = "evaluate"
  /\ \E level \in {"quiet", "between", "loud"} : awake' = IsAwake(level)
  /\ sinceLoud' = IF awake' THEN 0 ELSE sinceLoud
  /\ IF HarvestNow THEN Harvest /\ result' = FALSE
                   ELSE UNCHANGED <<scoreVars, result>>
  /\ pc' = IF ShouldEvaluate THEN "cadence" ELSE "publish"
  /\ UNCHANGED <<stopping, modelReady, failed, inFlight, latchedSpeaker,
                 detectValue, gateVars, clientVars, userVars, vtsVars>>

(* If a window is due and the runner free, kick() gives up a result that    *)
(* came in since.                                                           *)
Cadence ==
  /\ pc = "cadence"
  /\ pc' = "publish"
  /\ \/ /\ modelReady /\ ~failed /\ ~inFlight
        /\ inFlight' = TRUE /\ result' = FALSE
     \/ UNCHANGED <<inFlight, result>>
  /\ UNCHANGED <<stopping, modelReady, failed, loopVars, gateVars, clientVars,
                 userVars, vtsVars>>

Detect == detected /\ modelReady /\ ~failed

Speaker == IF latchedSpeaker' = 1 THEN 1 ELSE 0

(* Mutants: no keepalive; keepalives only.                                  *)
NoKeepalive   == FALSE
KeepaliveDue  == sinceSent >= Keepalive
KeepaliveOnly == KeepaliveDue
ShouldSend    == Speaker # lastSent \/ KeepaliveDue

(* Latch the speaker, publish the value, and send it when it changed or is  *)
(* due again.                                                               *)
Publish ==
  /\ pc = "publish"
  /\ pc' = "sleep"
  /\ latchedSpeaker' = IF Detect THEN leader ELSE latchedSpeaker
  /\ detectValue' = Speaker
  /\ UNCHANGED <<inWrite, link>>
  /\ IF ShouldSend
     THEN lastSent' = Speaker /\ sinceSent' = 0 /\ Cell!Put(Speaker)
     ELSE UNCHANGED <<lastSent, sinceSent, cellVars>>
  /\ UNCHANGED <<stopping, runnerVars, soundVars, scoreVars, clockSet, regVars,
                 userVars, vtsVars>>

Sleep ==
  /\ pc = "sleep"
  /\ pc' = "service"
  /\ \E d \in 1 .. MaxSleep :
       /\ sinceLoud' = Lesser(sinceLoud + d, Hold)
       /\ sinceSent' = Lesser(sinceSent + d, Keepalive)
  /\ UNCHANGED <<stopping, runnerVars, awake, scoreVars, latchedSpeaker,
                 detectValue, lastSent, clockSet, clientVars, userVars, vtsVars>>

(* "Clean shutdown: try to leave the parameter at 0, then close."           *)
LeaveZero ==
  /\ pc = "service"
  /\ stopping
  /\ pc' = "flush"
  /\ UNCHANGED <<inWrite, link>>
  /\ Cell!Put(0)
  /\ UNCHANGED <<stopping, runnerVars, loopVars, gateVars, regVars, userVars,
                 vtsVars>>

Flush ==
  /\ pc = "flush"
  /\ pc' = "close"
  /\ Pump
  /\ registerRequested' = StillRequested
  /\ UNCHANGED <<stopping, runnerVars, loopVars, gateVars, userVars, vtsVars>>

(* disconnect() cuts off what is still being written. *)
Close ==
  /\ pc = "close"
  /\ pc' = "stopped"
  /\ inWrite' = None /\ link' = "lost"
  /\ Cell!LinkDown
  /\ registering' = FALSE
  /\ detectValue' = 0 /\ latchedSpeaker' = None
  /\ UNCHANGED <<stopping, runnerVars, soundVars, scoreVars, gateVars,
                 registerRequested, userVars, vtsVars>>

Thread ==
  \/ Prepare \/ Service \/ GateAndHarvest \/ Cadence
  \/ Publish \/ Sleep \/ LeaveZero \/ Flush \/ Close

-----------------------------------------------------------------------------
(* The others. *)

StopThread ==
  /\ ~stopping
  /\ stopping' = TRUE
  /\ UNCHANGED <<pc, runnerVars, loopVars, gateVars, clientVars, userVars,
                 vtsVars>>

(* requestVtsRegister(), on the message thread. *)
PressRegister ==
  /\ presses < MaxPresses
  /\ presses' = presses + 1
  /\ button' = TRUE
  /\ UNCHANGED <<pc, stopping, runnerVars, loopVars, gateVars, clientVars, vtsVars>>

(* currentTimeMillis(), read once a tick, is the wall clock. *)
ClockSetBack ==
  /\ pc = "service"
  /\ ~clockSet
  /\ clockSet' = TRUE
  /\ \E d \in 1 .. MaxBack : sinceLoud' = sinceLoud - d /\ sinceSent' = sinceSent - d
  /\ UNCHANGED <<pc, stopping, runnerVars, awake, scoreVars, latchedSpeaker,
                 detectValue, lastSent, clientVars, userVars, vtsVars>>

InferenceEnds ==
  /\ inFlight
  /\ inFlight' = FALSE
  /\ \/ result' = TRUE /\ UNCHANGED failed
     \/ failed' = TRUE /\ UNCHANGED result
  /\ UNCHANGED <<pc, stopping, modelReady, loopVars, gateVars, clientVars,
                 userVars, vtsVars>>

Running == pc \notin {"prepare", "stopped"}

(* The link comes up once; after a drop the client does not connect again.  *)
(* VTS may have forgotten the parameter.                                    *)
LinkUp ==
  /\ Running /\ link = "down"
  /\ link' = "up" /\ UNCHANGED inWrite
  /\ Cell!LinkUp
  /\ UNCHANGED <<pc, stopping, runnerVars, loopVars, gateVars, regVars, userVars,
                 vtsVars>>

LinkLost ==
  /\ link = "up"
  /\ link' = "lost" /\ inWrite' = None
  /\ Cell!LinkDown
  /\ registering' = FALSE
  /\ hasParam' \in {hasParam, FALSE}
  /\ shown' = IF hasParam' THEN shown ELSE 0
  /\ UNCHANGED <<pc, stopping, runnerVars, loopVars, gateVars, registerRequested,
                 userVars>>

(* A write arrives.  VTS refuses the value of a parameter it does not have, *)
(* and may refuse to create it; a new one shows 0.                          *)
WriteArrives ==
  /\ inWrite # None
  /\ \/ /\ inWrite = Create
        /\ hasParam' = TRUE
        /\ shown' \in {shown, 0}
     \/ inWrite = Create /\ UNCHANGED vtsVars
     \/ /\ inWrite \in Speakers
        /\ shown' = IF hasParam THEN inWrite ELSE shown
        /\ UNCHANGED hasParam
  /\ inWrite' = None /\ UNCHANGED link
  /\ Cell!Done
  /\ UNCHANGED <<pc, stopping, runnerVars, loopVars, gateVars, regVars, userVars>>

(* An answer ends the wait for the parameter: it may be the refusal of a    *)
(* value sent before the request.                                           *)
RegisterAnswered ==
  /\ registering
  /\ registering' = FALSE
  /\ UNCHANGED <<pc, stopping, runnerVars, loopVars, gateVars, cellVars,
                 registerRequested, userVars, vtsVars>>

Environment ==
  \/ StopThread \/ PressRegister \/ ClockSetBack \/ InferenceEnds
  \/ LinkUp \/ LinkLost \/ WriteArrives \/ RegisterAnswered

Next == Thread \/ Environment

Spec == Init /\ [][Next]_vars

(* The thread is scheduled, and a write completes. *)
FairSpec == Spec /\ WF_vars(Thread) /\ WF_vars(WriteArrives)

-----------------------------------------------------------------------------
FlagsTypeOK ==
  /\ pc \in {"prepare", "service", "evaluate", "cadence", "publish", "sleep",
             "flush", "close", "stopped"}
  /\ link \in {"down", "up", "lost"}
  /\ {stopping, modelReady, failed, inFlight, result, awake, detected, clockSet,
      valueDirty, button, registerRequested, registering, hasParam} \subseteq BOOLEAN

AgesTypeOK ==
  /\ sinceLoud \in -MaxBack .. Hold /\ sinceSent \in -MaxBack .. Keepalive
  /\ presses \in 0 .. MaxPresses

ValuesTypeOK ==
  /\ {leader, detectValue, pendingValue, shown} \subseteq Speakers
  /\ {latchedSpeaker, lastSent, written} \subseteq Speakers \cup {None}
  /\ inWrite \in Speakers \cup {Create, None}

(* Type invariant. *)
TypeOK == FlagsTypeOK /\ AgesTypeOK /\ ValuesTypeOK

(* Silence: no sound for longer than the hold, and the tick, if one is      *)
(* under way, has seen so.                                                  *)
Silent == ~awake /\ sinceLoud = Hold /\ pc # "cadence"

(* "On silence ... holding the last result keeps silence from flipping      *)
(* detection" (GatingLogic.hpp:7-9): results that come in during silence,   *)
(* failures and sends notwithstanding, the detection, the speaker and the   *)
(* value stay what they were until there is sound again.                    *)
SilenceHolds ==
  [][Silent /\ Silent' /\ pc' # "stopped" =>
       UNCHANGED <<detected, leader, latchedSpeaker, detectValue>>]_vars

(* shouldSend() decides by what the loop believes it sent (lastSent,        *)
(* GatingLogic.hpp:81-90), which the client is never asked to confirm: from *)
(* the first tick to the shutdown, the published value, however often it    *)
(* changed while the link was down or a write under way, is the one in the  *)
(* client's cell, and it is to be written or was written last.              *)
PublishedIsSent ==
  lastSent # None /\ pc \notin {"flush", "close", "stopped"} =>
    /\ pendingValue = detectValue
    /\ valueDirty \/ written = detectValue

(* "A keepalive ... also covers a dropped fire-and-forget send"             *)
(* (GatingLogic.hpp:79-80): once the value stays v and VTS, connected, has  *)
(* the parameter, VTS comes to show v and goes on doing so, also if it      *)
(* refused v before the parameter was created.                              *)
VtsShowsValue ==
  \A v \in Speakers :
    <>[](Running /\ detectValue = v /\ link = "up" /\ hasParam)
      => <>[](shown = v)
=============================================================================
