----------------------- MODULE LinkjiruProcessor_proofs -----------------------
(***************************************************************************)
(* The safety of the analysis session, for every set of sample rates.      *)
(* The invariants of the runs speak of quiet states; the strengthening     *)
(* says what each step of a handler knows of the parameter when no later   *)
(* update is on its way.                                                   *)
(***************************************************************************)
EXTENDS LinkjiruProcessor, TLAPS

Settled == ~updatePending /\ ~notifying

(* What the message thread is doing agrees with the parameter, unless an    *)
(* update is on its way that will correct it.                               *)
Reconciling ==
  /\ Settled /\ ~released /\ ~Unloadable =>
       /\ pc = "idle" => (analysisRunning <=> param)
       /\ pc \in {"stop", "stopped"} /\ ~restarting => ~param
       /\ pc \in {"start", "load", "create"} => param
  /\ restarting => pc \in {"stop", "stopped"}

(* Where a restart that is owed stands. *)
RestartOnItsWay ==
  Listening =>
    /\ restartPending => updatePending
    /\ owed => restartPending \/ (pc = "stop" /\ restarting)

(* The flag and the session at every step, not only between two handlers.   *)
FlagAndSession ==
  /\ SessionUnderFlag
  /\ pc = "reconcile" => (analysisRunning <=> session # NoSession)
  /\ pc = "start" => ~analysisRunning
  /\ pc \in {"stopped", "gone"} => session = NoSession
  /\ pc \in {"cancelled", "gone"} => ~updatePending

IInv == TypeOK /\ Reconciling /\ RestartOnItsWay /\ FlagAndSession

-----------------------------------------------------------------------------
(* The steps of a handler on the message thread keep the invariant.         *)
LEMMA MessageThreadStep ==
  ASSUME IInv, MessageThread
  PROVE  IInv'
PROOF
<1> USE ProcessorAssumption DEF IInv, Listening
<1>1. CASE HandleAsyncUpdate
  BY <1>1 DEF HandleAsyncUpdate, RestartTaken, TypeOK, Reconciling, Settled,
              Unloadable, RestartOnItsWay, FlagAndSession, SessionUnderFlag,
              ortVars, hostVars
<1>2. CASE Reconcile
  BY <1>2 DEF Reconcile, TypeOK, Reconciling, Settled, Unloadable,
              RestartOnItsWay, FlagAndSession, SessionUnderFlag, ortVars, hostVars
<1>3. CASE StopThread
  BY <1>3 DEF StopThread, TypeOK, Reconciling, Settled, Unloadable,
              RestartOnItsWay, FlagAndSession, SessionUnderFlag, ortVars, hostVars
<1>4. CASE StoppedRunning
  BY <1>4 DEF StoppedRunning, TypeOK, Reconciling, Settled, Unloadable,
              RestartOnItsWay, FlagAndSession, SessionUnderFlag, ortVars, hostVars
<1>5. CASE StartAnalysis
  BY <1>5 DEF StartAnalysis, TypeOK, Reconciling, Settled, Unloadable,
              RestartOnItsWay, FlagAndSession, SessionUnderFlag, ortVars, hostVars
<1>6. CASE PrepareRuntime
  BY <1>6 DEF PrepareRuntime, LoadRuntime, Loaded, GaveUp, TypeOK, Reconciling,
              Settled, Unloadable, RestartOnItsWay, FlagAndSession,
              SessionUnderFlag, hostVars
<1>7. CASE StartThread
  BY <1>7 DEF StartThread, TypeOK, Reconciling, Settled, Unloadable,
              RestartOnItsWay, FlagAndSession, SessionUnderFlag, ortVars, hostVars
<1>8. CASE CancelPendingUpdate
  BY <1>8 DEF CancelPendingUpdate, TypeOK, Reconciling, Settled, Unloadable,
              RestartOnItsWay, FlagAndSession, SessionUnderFlag, ortVars, hostVars
<1>9. CASE DestroySession
  BY <1>9 DEF DestroySession, TypeOK, Reconciling, Settled, Unloadable,
              RestartOnItsWay, FlagAndSession, SessionUnderFlag, ortVars, hostVars
<1> QED
  BY <1>1, <1>2, <1>3, <1>4, <1>5, <1>6, <1>7, <1>8, <1>9 DEF MessageThread

(* So do the parameter changes, the restarts and what the host does.        *)
LEMMA HostStep ==
  ASSUME IInv, Host
  PROVE  IInv'
PROOF
<1> USE ProcessorAssumption DEF IInv, Listening
<1>1. ASSUME NEW v \in BOOLEAN, SetParameter(v)
      PROVE  IInv'
  BY <1>1 DEF SetParameter, TypeOK, Reconciling, Settled, Unloadable,
              RestartOnItsWay, FlagAndSession, SessionUnderFlag, ortVars, hostVars
<1>2. ASSUME NEW v \in BOOLEAN, SetAnalysisActive(v)
      PROVE  IInv'
  BY <1>2 DEF SetAnalysisActive, TypeOK, Reconciling, Settled, Unloadable,
              RestartOnItsWay, FlagAndSession, SessionUnderFlag, ortVars, hostVars
<1>3. CASE ParameterValueChanged
  <2>1. /\ UNCHANGED <<param, restartPending, analysisRunning, session, ortVars,
                      pc, restarting, hostVars, owed, released>>
        /\ notifying' = FALSE
        /\ Listening => updatePending' = TRUE
        /\ ~Listening => updatePending' = updatePending
    BY <1>3 DEF ParameterValueChanged, Triggers
  <2> USE DEF ortVars, hostVars
  <2>2. TypeOK'
    BY <2>1 DEF TypeOK
  <2>3. Reconciling'
    BY <2>1 DEF Reconciling, Settled, Unloadable
  <2>4. RestartOnItsWay'
    BY <2>1 DEF RestartOnItsWay
  <2>5. FlagAndSession'
    BY <2>1 DEF FlagAndSession, SessionUnderFlag
  <2> QED
    BY <2>2, <2>3, <2>4, <2>5
<1>4. CASE RequestRestart
  BY <1>4 DEF RequestRestart, TypeOK, Reconciling, Settled, Unloadable,
              RestartOnItsWay, FlagAndSession, SessionUnderFlag, ortVars, hostVars
<1>5. ASSUME NEW rate \in Rates, PrepareToPlay(rate)
      PROVE  IInv'
  BY <1>5 DEF PrepareToPlay, TypeOK, Reconciling, Settled, Unloadable,
              RestartOnItsWay, FlagAndSession, SessionUnderFlag, ortVars
<1>6. CASE ReleaseResources
  BY <1>6 DEF ReleaseResources, TypeOK, Reconciling, Settled, Unloadable,
              RestartOnItsWay, FlagAndSession, SessionUnderFlag, ortVars
<1>7. CASE BenchmarkInference
  BY <1>7 DEF BenchmarkInference, LoadRuntime, TypeOK, Reconciling, Settled,
              Unloadable, RestartOnItsWay, FlagAndSession, SessionUnderFlag,
              hostVars
<1>8. CASE RemoveListener
  BY <1>8 DEF RemoveListener, TypeOK, Reconciling, Settled, Unloadable,
              RestartOnItsWay, FlagAndSession, SessionUnderFlag, ortVars, hostVars
<1> QED
  BY <1>1, <1>2, <1>3, <1>4, <1>5, <1>6, <1>7, <1>8 DEF Host

(* The strengthening is an invariant of the session's life.                 *)
THEOREM InductiveInvariant == Spec => []IInv
PROOF
<1>1. Init => IInv
  BY ProcessorAssumption
     DEF Init, IInv, TypeOK, Reconciling, Settled, Unloadable, RestartOnItsWay,
         Listening, FlagAndSession, SessionUnderFlag
<1>2. IInv /\ [Next]_vars => IInv'
  <2> SUFFICES ASSUME IInv, [Next]_vars PROVE IInv'
    OBVIOUS
  <2>1. CASE Next
    BY <2>1, MessageThreadStep, HostStep DEF Next
  <2>2. CASE UNCHANGED vars
    BY <2>2 DEF vars, ortVars, hostVars, IInv, TypeOK, Reconciling, Settled,
                Unloadable, RestartOnItsWay, Listening, FlagAndSession,
                SessionUnderFlag
  <2> QED
    BY <2>1, <2>2
<1> QED
  BY <1>1, <1>2, PTL DEF Spec

(* Type correctness, and startAnalysis() step by step.                      *)
THEOREM TypeCorrect == Spec => []TypeOK
PROOF
<1>1. IInv => TypeOK
  BY DEF IInv
<1> QED
  BY <1>1, InductiveInvariant, PTL

(* Once all is quiet, analysis runs exactly when the parameter says so:     *)
(* PluginProcessor.cpp:394-417 loses no change, whichever thread made it.   *)
THEOREM ParameterReconciled == Spec => []QuietMatchesParameter
PROOF
<1>1. IInv => QuietMatchesParameter
  BY DEF IInv, Reconciling, Settled, Quiet, QuietMatchesParameter
<1> QED
  BY <1>1, InductiveInvariant, PTL

(* No restart is lost: PluginProcessor.cpp:379-383 and 398-406.             *)
THEOREM RestartsServed == Spec => []RestartServed
PROOF
<1>1. IInv => RestartServed
  BY DEF IInv, RestartOnItsWay, Listening, Quiet, RestartServed
<1> QED
  BY <1>1, InductiveInvariant, PTL

(* The flag the audio thread goes by covers the life of the session:        *)
(* PluginProcessor.cpp:317-358 and 166-175.                                 *)
THEOREM FlagCoversSession == Spec => []SessionUnderFlag
PROOF
<1>1. IInv => SessionUnderFlag
  BY DEF IInv, FlagAndSession
<1> QED
  BY <1>1, InductiveInvariant, PTL

(* Whatever a host thread does to the parameter while the destructor runs,  *)
(* no update is pending once it has cancelled one, and at its end no session*)
(* is left: PluginProcessor.cpp:104-112.                                    *)
THEOREM CleanTeardown == Spec => []NoUpdateAfterTeardown
PROOF
<1>1. IInv => NoUpdateAfterTeardown
  BY DEF IInv, FlagAndSession, NoUpdateAfterTeardown
<1> QED
  BY <1>1, InductiveInvariant, PTL
=============================================================================
