----------------------------- MODULE OnnxRunner -----------------------------
(***************************************************************************)
(* OnnxRunner.hpp: the asynchronous inference runner, with the part of the *)
(* analysis loop that calls it (AnalysisThread.h:132-164), paced by the    *)
(* CadenceGate.  Two threads share the runner: the analysis thread         *)
(* (prepare, tryHarvest, kick, destructor) and the ONNX Runtime thread     *)
(* that runs the inference and onComplete.  Each load or store of one of   *)
(* the runner's atomics is a step.                                         *)
(*                                                                         *)
(* A window, an output and a score are abstracted to the number of the     *)
(* inference they belong to.  Whether there is sound is AnalysisThread's.  *)
(***************************************************************************)
EXTENDS Integers, FiniteSets, CadenceGate

CONSTANTS NumClasses,  \* modelNumClasses
          MaxRuns,     \* bound: inferences there are samples for
          MaxCount,    \* bound: samples ever in the model ring
          MaxPolls     \* waits of 5 ms the destructor makes (200)

ASSUME RunnerAssumption ==
  /\ NumClasses \in Nat \ {0}
  /\ MaxRuns \in Nat /\ MaxCount \in Nat
  /\ HopSamples > 0 /\ RequireFullWindow
  /\ MaxCount < WindowSamples + MaxRuns * HopSamples
  /\ MaxPolls \in Nat \ {0}

Classes == 1 .. NumClasses
Runs    == 1 .. MaxRuns

VARIABLES ready, running, resultReady, hardFailed, \* the last three atomic
          inputBuf, outputBuf, classScore,
          pc,          \* where the analysis thread is
          at,          \* next class tryHarvest copies
          raw, fed,    \* the loop's raw scores, and those its filter got last
          kicks,       \* inferences RunAsync accepted
          polls,       \* waits the destructor made
          modelCount,  \* write count of the model ring
          dropped,     \* droppedWindows
          job, stored, \* per inference: where ORT is, classes it has stored
          late         \* history: a result came in since the last tryHarvest()

flagVars  == <<ready, running, resultReady, hardFailed>>
dataVars  == <<inputBuf, outputBuf, classScore>>
scoreVars == <<at, raw, fed>>
paceVars  == <<modelCount, dropped, nextAt>>
countVars == <<kicks, polls, paceVars>>
loopVars  == <<pc, scoreVars, countVars>>
ortVars   == <<job, stored, late>>
vars      == <<flagVars, dataVars, loopVars, ortVars>>

Init ==
  /\ ready = FALSE /\ running = FALSE
  /\ resultReady = FALSE /\ hardFailed = FALSE
  /\ inputBuf = 0 /\ outputBuf = 0
  /\ classScore = [c \in Classes |-> 0]
  /\ pc = "prepare" /\ at = 1
  /\ raw = [c \in Classes |-> 0] /\ fed = [c \in Classes |-> 0]
  /\ kicks = 0 /\ polls = 0
  /\ modelCount = 0 /\ dropped = 0 /\ GateInit
  /\ job = [r \in Runs |-> "none"]
  /\ stored = [r \in Runs |-> 0]
  /\ late = FALSE

-----------------------------------------------------------------------------
(* The analysis thread. *)

Goto(label) == pc' = label

(* prepare(): blocking; builds the session and warms it up, or fails. *)
Prepare ==
  /\ pc = "prepare"
  /\ \/ ready' = TRUE /\ UNCHANGED hardFailed
     \/ hardFailed' = TRUE /\ UNCHANGED ready
  /\ Goto("tick")
  /\ UNCHANGED <<running, resultReady, dataVars, scoreVars, countVars,
                 ortVars>>

(* Mutant: results are looked for only when no run is in flight.            *)
FreshWhenIdle == resultReady /\ ~running
Fresh         == resultReady

(* tryHarvest(): the compare-exchange, then one load per class. *)
TryHarvest ==
  /\ pc = "tick"
  /\ resultReady' = (resultReady /\ ~Fresh)
  /\ at' = 1
  /\ late' = FALSE
  /\ Goto(IF Fresh THEN "copy" ELSE "cadence")
  /\ UNCHANGED <<ready, running, hardFailed, dataVars, raw, fed, countVars,
                 job, stored>>

CopyScore ==
  /\ pc = "copy"
  /\ at \in Classes
  /\ raw' = [raw EXCEPT ![at] = classScore[at]]
  /\ at' = at + 1
  /\ UNCHANGED <<flagVars, dataVars, pc, fed, countVars, ortVars>>

(* The loop low-passes the scores and updates the hysteresis with them. *)
FeedFilter ==
  /\ pc = "copy"
  /\ at \notin Classes
  /\ fed' = raw
  /\ Goto("cadence")
  /\ UNCHANGED <<flagVars, dataVars, at, raw, countVars, ortVars>>

(* Mutants: a failed runner still counts as ready; a run in flight goes     *)
(* unnoticed, in the loop and in kick().                                    *)
HealthyOnceReady == ready
Healthy          == ready /\ ~hardFailed
NeverBusy        == FALSE
Busy             == running

(* If a window is due, kick it when the runner is healthy and free: two     *)
(* loads, of hardFailed and then of running, and ORT may go on in between.  *)
(* Else, with the GPU still busy, the window is counted as dropped; the     *)
(* flag is read again for that, and the run may have ended by then.         *)
Cadence ==
  /\ pc = "cadence"
  /\ Poll(modelCount)
  /\ \/ ~Evaluate(modelCount) /\ Goto("tick")
     \/ Evaluate(modelCount) /\ Healthy /\ Goto("free?")
     \/ Evaluate(modelCount) /\ ~Healthy /\ Goto("drop")
  /\ UNCHANGED <<flagVars, dataVars, scoreVars, kicks, polls, modelCount,
                 dropped, ortVars>>

TestFree ==
  /\ pc = "free?"
  /\ Goto(IF Busy THEN "drop" ELSE "kick")
  /\ UNCHANGED <<flagVars, dataVars, scoreVars, countVars, ortVars>>

CountDropped ==
  /\ pc = "drop"
  /\ dropped' = IF Busy THEN dropped + 1 ELSE dropped
  /\ Goto("tick")
  /\ UNCHANGED <<flagVars, dataVars, scoreVars, kicks, polls, modelCount,
                 nextAt, ortVars>>

(* resampleHostInput(), at the head of a tick, appends what the audio       *)
(* thread has left.                                                         *)
Resample ==
  /\ pc = "tick"
  /\ modelCount' \in modelCount + 1 .. MaxCount
  /\ UNCHANGED <<flagVars, dataVars, pc, scoreVars, kicks, polls, dropped,
                 nextAt, ortVars>>

(* kick(): the guard and the input, the two flags, then RunAsync.  The      *)
(* guard's loads and the copy are one step: TestFree has seen running down, *)
(* and with no run in flight nobody else touches the flags or the input.    *)
KickGuard ==
  /\ pc = "kick"
  /\ IF Healthy /\ ~Busy
     THEN Goto("clear") /\ inputBuf' = kicks + 1
     ELSE Goto("tick") /\ UNCHANGED inputBuf
  /\ UNCHANGED <<flagVars, outputBuf, classScore, scoreVars, countVars,
                 ortVars>>

ClearResult ==
  /\ pc = "clear"
  /\ resultReady' = FALSE
  /\ Goto("arm")
  /\ UNCHANGED <<ready, running, hardFailed, dataVars, scoreVars, countVars,
                 ortVars>>

SetRunning ==
  /\ pc = "arm"
  /\ running' = TRUE
  /\ Goto("submit")
  /\ UNCHANGED <<ready, resultReady, hardFailed, dataVars, scoreVars,
                 countVars, ortVars>>

RunAsync ==
  /\ pc = "submit"
  /\ \/ /\ kicks' = kicks + 1
        /\ job' = [job EXCEPT ![kicks + 1] = "computing"]
        /\ Goto("tick")
        /\ UNCHANGED running
     \/ /\ running' = FALSE
        /\ Goto("threw")
        /\ UNCHANGED <<kicks, job>>
  /\ UNCHANGED <<ready, resultReady, hardFailed, dataVars, scoreVars, polls,
                 paceVars, stored, late>>

RunAsyncThrew ==
  /\ pc = "threw"
  /\ hardFailed' = TRUE
  /\ Goto("tick")
  /\ UNCHANGED <<ready, running, resultReady, dataVars, scoreVars, countVars,
                 ortVars>>

(* The loop ends between two ticks, or right after prepare, and the runner  *)
(* is destroyed: wait while a run is in flight, but not for ever.           *)
Stop ==
  /\ pc = "tick"
  /\ Goto("destroy")
  /\ UNCHANGED <<flagVars, dataVars, scoreVars, countVars, ortVars>>

MayWait == running /\ polls < MaxPolls

Destroy ==
  /\ pc = "destroy"
  /\ IF MayWait
     THEN polls' = polls + 1 /\ UNCHANGED pc
     ELSE Goto("gone") /\ UNCHANGED polls
  /\ UNCHANGED <<flagVars, dataVars, scoreVars, kicks, paceVars, ortVars>>

AnalysisThread ==
  \/ Prepare \/ Resample \/ TryHarvest \/ CopyScore \/ FeedFilter
  \/ Cadence \/ TestFree \/ CountDropped
  \/ KickGuard \/ ClearResult \/ SetRunning \/ RunAsync \/ RunAsyncThrew
  \/ Stop \/ Destroy

-----------------------------------------------------------------------------
(* The ONNX Runtime thread: a run reads inputBuf and writes outputBuf, or   *)
(* fails; then onComplete publishes, in the order After gives.              *)

(* Mutants: the slot is freed before the result is raised; a failure that   *)
(* leaves running set.                                                      *)
AfterFreedEarly ==
  [scores |-> "free", free |-> "raise", raise |-> "done",
   failed |-> "failFree", failFree |-> "done"]
AfterFailedBusy ==
  [scores |-> "raise", raise |-> "free", free |-> "done",
   failed |-> "done", failFree |-> "done"]
After ==
  [scores |-> "raise", raise |-> "free", free |-> "done",
   failed |-> "failFree", failFree |-> "done"]

Step(r) == job' = [job EXCEPT ![r] = After[@]]

Infer(r) ==
  /\ job[r] = "computing"
  /\ \/ outputBuf' = inputBuf /\ job' = [job EXCEPT ![r] = "scores"]
     \/ UNCHANGED outputBuf /\ job' = [job EXCEPT ![r] = "failed"]
  /\ UNCHANGED <<flagVars, inputBuf, classScore, loopVars, stored, late>>

StoreScore(r) ==
  /\ job[r] = "scores"
  /\ stored[r] + 1 \in Classes
  /\ classScore' = [classScore EXCEPT ![stored[r] + 1] = outputBuf]
  /\ stored' = [stored EXCEPT ![r] = @ + 1]
  /\ UNCHANGED <<flagVars, inputBuf, outputBuf, loopVars, job, late>>

(* The latency and the inference count, which nothing else depends on. *)
CountInference(r) ==
  /\ job[r] = "scores"
  /\ stored[r] + 1 \notin Classes
  /\ Step(r)
  /\ UNCHANGED <<flagVars, dataVars, loopVars, stored, late>>

RaiseResult(r) ==
  /\ job[r] = "raise"
  /\ resultReady' = TRUE
  /\ late' = TRUE
  /\ Step(r)
  /\ UNCHANGED <<ready, running, hardFailed, dataVars, loopVars, stored>>

RaiseFailure(r) ==
  /\ job[r] = "failed"
  /\ hardFailed' = TRUE
  /\ Step(r)
  /\ UNCHANGED <<ready, running, resultReady, dataVars, loopVars, stored,
                 late>>

ClearRunning(r) ==
  /\ job[r] \in {"free", "failFree"}
  /\ running' = FALSE
  /\ Step(r)
  /\ UNCHANGED <<ready, resultReady, hardFailed, dataVars, loopVars, stored,
                 late>>

OrtThread(r) ==
  \/ Infer(r) \/ StoreScore(r) \/ CountInference(r)
  \/ RaiseResult(r) \/ RaiseFailure(r) \/ ClearRunning(r)

-----------------------------------------------------------------------------
Next == AnalysisThread \/ \E r \in Runs : OrtThread(r)

Spec == Init /\ [][Next]_vars

(* ORT finishes what it was given; nothing obliges the loop to go on. *)
FairSpec == Spec /\ \A r \in Runs : WF_vars(OrtThread(r))

-----------------------------------------------------------------------------
Active == {r \in Runs : job[r] \notin {"none", "done"}}

(* Type invariant. *)
TypeOK ==
  /\ {ready, running, resultReady, hardFailed} \subseteq BOOLEAN
  /\ inputBuf \in 0 .. MaxRuns /\ outputBuf \in 0 .. MaxRuns
  /\ {classScore, raw, fed} \subseteq [Classes -> 0 .. MaxRuns]
  /\ pc \in {"prepare", "tick", "copy", "cadence", "free?", "drop", "kick",
             "clear", "arm", "submit", "threw", "destroy", "gone"}
  /\ at \in 1 .. NumClasses + 1
  /\ kicks \in 0 .. MaxRuns
  /\ polls \in 0 .. MaxPolls
  /\ modelCount \in 0 .. MaxCount
  /\ dropped \in 0 .. MaxRuns
  /\ nextAt \in 0 .. MaxCount + HopSamples
  /\ job \in [Runs -> {"none", "computing", "done"} \cup DOMAIN After]
  /\ stored \in [Runs -> 0 .. NumClasses]
  /\ late \in BOOLEAN

(* The buffers ORT holds pointers to (OnnxRunner.hpp:243-245): there is at  *)
(* most one run, the input is not rewritten while it computes, and its      *)
(* output stands until onComplete has copied all of it.                     *)
BuffersStable ==
  /\ Cardinality(Active) <= 1
  /\ \A r \in Runs :
       /\ job[r] = "computing" => inputBuf = r
       /\ job[r] = "scores"    => outputBuf = r

(* Pacing (CadenceGate.h:16-22): a window of silence padding is never       *)
(* evaluated, and each inference, or window counted as dropped, stands for  *)
(* a hop of samples of its own.                                             *)
PacedByHop ==
  kicks + dropped > 0 =>
    WindowSamples + (kicks + dropped - 1) * HopSamples <= modelCount

(* The destructor's purpose (OnnxRunner.hpp:44-46): unless it gave up after *)
(* its last wait, the runner's memory goes only when ORT is done with it.   *)
NoUseAfterFree == pc = "gone" /\ polls < MaxPolls => Active = {}

(* running is up only while ONNX Runtime has a run to end, whose completion *)
(* clears it, or is being given one (OnnxRunner.hpp:128-139, 205-225): left *)
(* up by anything else, it would keep the loop from kicking for ever.       *)
SlotNeverStuck == running => pc = "submit" \/ Active # {}

(* kick() starts by clearing resultReady (OnnxRunner.hpp:126): a result it  *)
(* throws away came in after this tick's tryHarvest() had looked for one    *)
(* (AnalysisThread.h:137), so none waits from one tick to the next and is   *)
(* lost all the same.                                                       *)
OnlyLateResultLost == pc = "clear" /\ resultReady => late

(* When kick() repeats the loop's tests (AnalysisThread.h:155,              *)
(* OnnxRunner.hpp:112) it can refuse for one reason only: the run that was  *)
(* in flight failed between the loop's two loads.  That window is neither   *)
(* inferred nor counted as dropped.                                         *)
KickMeetsNoRun == pc = "kick" => ready /\ ~running

(* A run in flight ends, be it by failing (OnnxRunner.hpp:205-211), so the  *)
(* flag cannot keep the loop from kicking for ever.                         *)
RunEnds == running /\ Active # {} ~> ~running

(* The runner implements InferenceSlot: the scores handed over are all of   *)
(* one inference, the one that completed last, each result at most once,    *)
(* and after a failure, which is sticky (OnnxRunner.hpp:28-29), nothing is  *)
(* started.                                                                 *)
Holding    == resultReady \/ pc = "copy"
Computing  == \E r \in Runs : job[r] \in {"computing", "scores", "raise", "failed"}

Slot == INSTANCE InferenceSlot WITH
          started  <- kicks,
          inFlight <- IF Computing THEN kicks ELSE 0,
          result   <- IF Holding THEN kicks ELSE 0,
          failed   <- hardFailed

ImplementsSlot == Slot!Spec
=============================================================================
