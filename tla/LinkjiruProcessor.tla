-------------------------- MODULE LinkjiruProcessor --------------------------
(***************************************************************************)
(* PluginProcessor.cpp: the life of the analysis session.  The "Analysis   *)
(* Active" parameter is the source of truth; it changes on any thread, and *)
(* an asynchronous update on the message thread starts or stops the        *)
(* session to match it.  The host prepares and releases the plugin, and    *)
(* destroys it, on the message thread.                                     *)
(*                                                                         *)
(* The steps of a handler interleave with parameter changes.  JUCE's       *)
(* AsyncUpdater and message queue are external: triggering an update that  *)
(* is pending adds nothing, and the pending flag is cleared before the     *)
(* handler runs.  The audio the session reads is SharedRingBuffer's.       *)
(***************************************************************************)
CONSTANTS Rates,        \* sample rates of the host
          DefaultRate,  \* currentSampleRate before prepareToPlay (44100)
          NoSession

ASSUME ProcessorAssumption == DefaultRate \in Rates /\ NoSession \notin Rates

VARIABLES
  param,                  \* analysisParam
  updatePending,          \* a triggered asynchronous update has not run
  restartPending,
  analysisRunning,
  session,                \* analysisThread: NoSession, or the rate it resamples from
  ortRuntimeInitialized, ortRuntimeReady,
  currentSampleRate,
  pc,                     \* where the message thread is
  restarting,             \* stopAnalysis() was called for a restart
  notifying,              \* a host thread has set param, not yet told the listener
  active,                 \* the host has prepared the plugin
  owed,                   \* history: a restart was asked for, no session ended since
  released                \* history: releaseResources() since the last update

ortVars  == <<ortRuntimeInitialized, ortRuntimeReady>>
hostVars == <<currentSampleRate, active>>
vars == <<param, updatePending, restartPending, analysisRunning, session,
          ortVars, pc, restarting, notifying, hostVars, owed, released>>

Init ==
  /\ param = FALSE /\ updatePending = FALSE /\ restartPending = FALSE
  /\ analysisRunning = FALSE /\ session = NoSession
  /\ ortRuntimeInitialized = FALSE /\ ortRuntimeReady = FALSE
  /\ currentSampleRate = DefaultRate
  /\ pc = "idle" /\ restarting = FALSE /\ notifying = FALSE /\ active = FALSE
  /\ owed = FALSE /\ released = FALSE

-----------------------------------------------------------------------------
(* Parameter changes: host automation and a restored state on a host        *)
(* thread, in two steps; the editor's buttons on the message thread.        *)

(* Mutant: no update when the session already is as the parameter wants.    *)
TriggersIfDifferent == updatePending \/ param # analysisRunning
Triggers            == TRUE

(* Mutant: the destructor removes the listener last. *)
ListeningToTheEnd == pc # "gone"
Listening         == pc \notin {"removed", "cancelled", "gone"}

SetParameter(v) ==
  /\ pc # "gone"
  /\ ~notifying
  /\ param' = v
  /\ notifying' = TRUE
  /\ UNCHANGED <<updatePending, restartPending, analysisRunning, session,
                 ortVars, pc, restarting, hostVars, owed, released>>

ParameterValueChanged ==
  /\ notifying
  /\ notifying' = FALSE
  /\ updatePending' = IF Listening THEN Triggers ELSE updatePending
  /\ UNCHANGED <<param, restartPending, analysisRunning, session, ortVars, pc,
                 restarting, hostVars, owed, released>>

SetAnalysisActive(v) ==
  /\ pc = "idle"
  /\ param' = v
  /\ updatePending' = TRUE
  /\ UNCHANGED <<restartPending, analysisRunning, session, ortVars, pc,
                 restarting, notifying, hostVars, owed, released>>

RequestRestart ==
  /\ pc = "idle"
  /\ restartPending' = TRUE
  /\ updatePending' = TRUE
  /\ owed' = TRUE
  /\ UNCHANGED <<param, analysisRunning, session, ortVars, pc, restarting,
                 notifying, hostVars, released>>

-----------------------------------------------------------------------------
(* handleAsyncUpdate() on the message thread. *)

(* Mutant: a restart is only taken when analysis is to be on.               *)
RestartTakenIfOn == restartPending /\ param
RestartTaken     == restartPending

HandleAsyncUpdate ==
  /\ pc = "idle"
  /\ updatePending
  /\ updatePending' = FALSE
  /\ restartPending' = FALSE
  /\ restarting' = RestartTaken
  /\ pc' = IF RestartTaken THEN "stop" ELSE "reconcile"
  /\ released' = FALSE
  /\ UNCHANGED <<param, analysisRunning, session, ortVars, notifying, hostVars,
                 owed>>

Reconcile ==
  /\ pc = "reconcile"
  /\ \/ param /\ ~analysisRunning /\ pc' = "start"
     \/ ~param /\ analysisRunning /\ pc' = "stop"
     \/ (param <=> analysisRunning) /\ pc' = "idle"
  /\ UNCHANGED <<param, updatePending, restartPending, analysisRunning, session,
                 ortVars, restarting, notifying, hostVars, owed, released>>

(* stopAnalysis(): the thread is stopped and destroyed, then the flag. *)
StopThread ==
  /\ pc = "stop"
  /\ session' = NoSession
  /\ owed' = FALSE
  /\ pc' = "stopped"
  /\ UNCHANGED <<param, updatePending, restartPending, analysisRunning, ortVars,
                 restarting, notifying, hostVars, released>>

StoppedRunning ==
  /\ pc = "stopped"
  /\ analysisRunning' = FALSE
  /\ restarting' = FALSE
  /\ pc' = IF restarting /\ param THEN "start" ELSE "idle"
  /\ UNCHANGED <<param, updatePending, restartPending, session, ortVars,
                 notifying, hostVars, owed, released>>

(* startAnalysis(): claim the flag, ... *)
StartAnalysis ==
  /\ pc = "start"
  /\ analysisRunning' = TRUE
  /\ pc' = IF analysisRunning THEN "idle" ELSE "load"
  /\ UNCHANGED <<param, updatePending, restartPending, session, ortVars,
                 restarting, notifying, hostVars, owed, released>>

(* ... the first time, load ONNX Runtime, which may fail, ... *)
LoadRuntime ==
  /\ ortRuntimeInitialized' = TRUE
  /\ IF ortRuntimeInitialized THEN UNCHANGED ortRuntimeReady
                              ELSE ortRuntimeReady' \in BOOLEAN

Loaded == ortRuntimeReady'

(* Mutant: the flag stays up. *)
GaveUpRunning == TRUE
GaveUp        == FALSE

PrepareRuntime ==
  /\ pc = "load"
  /\ LoadRuntime
  /\ pc' = IF Loaded THEN "create" ELSE "idle"
  /\ analysisRunning' = IF Loaded THEN analysisRunning ELSE GaveUp
  /\ UNCHANGED <<param, updatePending, restartPending, session, restarting,
                 notifying, hostVars, owed, released>>

(* ... and build the session for the host's rate. *)
StartThread ==
  /\ pc = "create"
  /\ session' = currentSampleRate
  /\ pc' = "idle"
  /\ UNCHANGED <<param, updatePending, restartPending, analysisRunning, ortVars,
                 restarting, notifying, hostVars, owed, released>>

(* The destructor: removeListener(), cancelPendingUpdate(), and the session *)
(* is destroyed.  A host thread may be at the parameter all the while,      *)
(* which lives longer than the processor.                                   *)
CancelPendingUpdate ==
  /\ pc = "removed"
  /\ pc' = "cancelled"
  /\ updatePending' = FALSE
  /\ UNCHANGED <<param, restartPending, analysisRunning, session, ortVars,
                 restarting, notifying, hostVars, owed, released>>

DestroySession ==
  /\ pc = "cancelled"
  /\ pc' = "gone"
  /\ session' = NoSession
  /\ owed' = FALSE
  /\ UNCHANGED <<param, updatePending, restartPending, analysisRunning, ortVars,
                 restarting, notifying, hostVars, released>>

MessageThread ==
  \/ HandleAsyncUpdate \/ Reconcile \/ StopThread \/ StoppedRunning
  \/ StartAnalysis \/ PrepareRuntime \/ StartThread
  \/ CancelPendingUpdate \/ DestroySession

-----------------------------------------------------------------------------
(* The host. *)

PrepareToPlay(rate) ==
  /\ pc = "idle" /\ ~active
  /\ active' = TRUE
  /\ currentSampleRate' = rate
  /\ UNCHANGED <<param, updatePending, restartPending, analysisRunning, session,
                 ortVars, pc, restarting, notifying, owed, released>>

(* releaseResources() stops the session like stopAnalysis(). *)
ReleaseResources ==
  /\ pc = "idle" /\ active
  /\ active' = FALSE
  /\ released' = TRUE
  /\ restarting' = FALSE
  /\ pc' = "stop"
  /\ UNCHANGED <<param, updatePending, restartPending, analysisRunning, session,
                 ortVars, notifying, currentSampleRate, owed>>

BenchmarkInference ==
  /\ pc = "idle"
  /\ LoadRuntime
  /\ UNCHANGED <<param, updatePending, restartPending, analysisRunning, session,
                 pc, restarting, notifying, hostVars, owed, released>>

(* The host destroys the plugin. *)
RemoveListener ==
  /\ pc = "idle"
  /\ pc' = "removed"
  /\ UNCHANGED <<param, updatePending, restartPending, analysisRunning, session,
                 ortVars, restarting, notifying, hostVars, owed, released>>

Host ==
  \/ \E v \in BOOLEAN : SetParameter(v) \/ SetAnalysisActive(v)
  \/ ParameterValueChanged \/ RequestRestart
  \/ \E rate \in Rates : PrepareToPlay(rate)
  \/ ReleaseResources \/ BenchmarkInference \/ RemoveListener

Next == MessageThread \/ Host

Spec == Init /\ [][Next]_vars

(* The message thread finishes its handlers; an update that is pending gets *)
(* its turn in the message queue; a thread that set the parameter goes on.  *)
Fairness ==
  /\ WF_vars(MessageThread) /\ SF_vars(HandleAsyncUpdate)
  /\ WF_vars(ParameterValueChanged)

-----------------------------------------------------------------------------
(* Type invariant, and what startAnalysis() has at each of its steps. *)
TypeOK ==
  /\ {param, updatePending, restartPending, analysisRunning,
      ortRuntimeInitialized, ortRuntimeReady, restarting, notifying, active,
      owed, released} \subseteq BOOLEAN
  /\ session \in Rates \cup {NoSession}
  /\ currentSampleRate \in Rates
  /\ pc \in {"idle", "reconcile", "stop", "stopped", "start", "load", "create",
             "removed", "cancelled", "gone"}
  /\ pc \in {"load", "create"} => analysisRunning /\ session = NoSession
  /\ pc = "create" => ortRuntimeReady

(* Nothing is pending or under way. *)
Quiet == pc = "idle" /\ ~updatePending /\ ~notifying

Unloadable == ortRuntimeInitialized /\ ~ortRuntimeReady

(* Reconciliation (PluginProcessor.h:87-90): whatever the order in which    *)
(* parameter changes, restarts and handlers met, once all is quiet the      *)
(* session is as the parameter says, unless the runtime cannot be loaded or *)
(* the host released the plugin since.                                      *)
QuietMatchesParameter ==
  Quiet /\ ~released /\ ~Unloadable => (analysisRunning <=> param)

(* A restart is never lost (PluginProcessor.h:89-90): the update that finds *)
(* it pending ends the session there was, whatever came in between.         *)
RestartServed == Quiet => ~owed /\ ~restartPending

(* The flag the audio thread reads and the session (PluginProcessor.h:78-85)*)
(* : a session exists only under the flag, and between two handlers the     *)
(* flag is up only with a session.                                          *)
SessionUnderFlag ==
  /\ session # NoSession => analysisRunning
  /\ pc = "idle" => (analysisRunning <=> session # NoSession)

(* Teardown (PluginProcessor.cpp:106-111): "no reconcile can fire after we  *)
(* start tearing down", also when a host thread changes the parameter       *)
(* between two steps of the destructor.                                     *)
NoUpdateAfterTeardown ==
  /\ pc \in {"cancelled", "gone"} => ~updatePending
  /\ pc = "gone" => session = NoSession

(* A restart that is asked for does end the session, or the plugin goes.    *)
RestartHappens == restartPending ~> (session = NoSession)

(* PluginProcessor.h:50-51, "Analysis on/off is exposed as the automatable  *)
(* 'Analysis Active' parameter": in a plugin that the host has prepared,    *)
(* with nothing pending, the session is what the parameter says.            *)
ParameterHonoured ==
  active /\ Quiet /\ ~Unloadable => (analysisRunning <=> param)

(* AnalysisThread.h:28, the session's rate is the "rate of the samples in   *)
(* the host ring" while the host processes audio.                           *)
SessionAtHostRate == active /\ session # NoSession => session = currentSampleRate
=============================================================================
