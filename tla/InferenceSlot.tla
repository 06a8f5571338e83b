---------------------------- MODULE InferenceSlot ----------------------------
(***************************************************************************)
(* What OnnxRunner promises the analysis loop, without threads or atomics: *)
(* a slot for one inference at a time, whose result is handed over whole   *)
(* and at most once, and which nothing is asked of after a failure.        *)
(***************************************************************************)
EXTENDS Integers

CONSTANTS Classes,   \* the classes the model scores
          MaxRuns    \* bound: inferences started

VARIABLES started,   \* inferences started so far
          inFlight,  \* the one in flight, 0 if none
          result,    \* the one whose result waits, 0 if none
          fed,       \* class -> inference whose score the loop used last
          failed     \* an inference failed, or the session could not be built

slotVars == <<started, inFlight, result, fed, failed>>

Init ==
  /\ started = 0 /\ inFlight = 0 /\ result = 0
  /\ fed = [c \in Classes |-> 0]
  /\ failed = FALSE

Start ==
  /\ ~failed /\ inFlight = 0 /\ result = 0
  /\ started < MaxRuns
  /\ started' = started + 1
  /\ inFlight' = started + 1
  /\ UNCHANGED <<result, fed, failed>>

Complete ==
  /\ inFlight # 0
  /\ result' = inFlight
  /\ inFlight' = 0
  /\ UNCHANGED <<started, fed, failed>>

Fail ==
  /\ inFlight # 0 \/ ~failed
  /\ failed' = TRUE
  /\ inFlight' = 0
  /\ UNCHANGED <<started, result, fed>>

Harvest ==
  /\ result # 0
  /\ fed' = [c \in Classes |-> result]
  /\ result' = 0
  /\ UNCHANGED <<started, inFlight, failed>>

(* The loop makes room for the next inference: a result nobody harvested    *)
(* is given up.                                                             *)
Discard ==
  /\ result # 0 /\ inFlight = 0 /\ ~failed
  /\ result' = 0
  /\ UNCHANGED <<started, inFlight, fed, failed>>

Next == Start \/ Complete \/ Fail \/ Harvest \/ Discard

Spec == Init /\ [][Next]_slotVars
=============================================================================
