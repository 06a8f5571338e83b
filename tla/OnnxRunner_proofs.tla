--------------------------- MODULE OnnxRunner_proofs ---------------------------
(***************************************************************************)
(* For every number of classes, of waits, any window and hop: the two      *)
(* threads never meet in the runner's buffers, inferences are paced by     *)
(* their samples, and the runner implements InferenceSlot.                 *)
(***************************************************************************)
EXTENDS OnnxRunner, FiniteSetTheorems, TLAPS

(* Runs go one after the other; the flag says just that one is under way.   *)
RunInv ==
  /\ \A r \in Runs : r > kicks => job[r] = "none" /\ stored[r] = 0
  /\ \A r \in Runs : r < kicks => job[r] = "done"
  /\ \A r \in Runs : r = kicks => job[r] # "none"
  /\ running <=> pc = "submit" \/ \E r \in Runs : job[r] \notin {"none", "done"}
  /\ pc = "submit" => \A r \in Runs : job[r] \in {"none", "done"}

(* Once the loop has seen running down it stays so, and from kick()'s own   *)
(* guard on so does hardFailed: only a run in flight raises the flags, and  *)
(* there is none.  A result that waits past the harvest came in after it.   *)
KickInv ==
  /\ pc = "prepare" => kicks = 0 /\ ~hardFailed
  /\ pc \in {"kick", "clear", "arm", "threw"} => ~running
  /\ pc \in {"clear", "arm", "submit", "threw"} => ~hardFailed
  /\ pc \in {"free?", "kick"} => ready
  /\ pc \in {"copy", "cadence", "free?", "drop", "kick", "clear"} =>
       (resultReady => late)
  /\ pc \in {"clear", "arm", "submit"} => inputBuf = kicks + 1
  /\ pc \in {"arm", "submit", "threw"} => ~resultReady
  /\ pc = "gone" /\ polls < MaxPolls => ~running

(* Whose numbers the buffers hold, on the way from input to the loop.       *)
DataInv ==
  /\ \A r \in Runs :
       /\ job[r] = "computing" => inputBuf = r /\ stored[r] = 0
       /\ job[r] = "scores" =>
            /\ outputBuf = r
            /\ \A c \in Classes : c <= stored[r] => classScore[c] = r
       /\ job[r] = "raise" => \A c \in Classes : classScore[c] = r
  /\ Holding =>
       /\ kicks \in Runs /\ job[kicks] \in {"free", "done"}
       /\ \A c \in Classes : classScore[c] = kicks
  /\ pc = "copy" =>
       ~resultReady /\ \A c \in Classes : c < at => raw[c] = kicks

(* A window that is due and neither kicked nor dropped yet counts as well.  *)
Due     == pc \in {"free?", "drop", "kick", "clear", "arm", "submit"}
Counted == kicks + dropped + IF Due THEN 1 ELSE 0

Paced(n, count, next) ==
  n > 0 => /\ WindowSamples + (n - 1) * HopSamples <= count
           /\ WindowSamples + n * HopSamples <= next

PaceInv == Paced(Counted, modelCount, nextAt)

IInv == TypeOK /\ RunInv /\ KickInv /\ DataInv /\ PaceInv

-----------------------------------------------------------------------------
(* Arithmetic of the pacing. *)

LEMMA Monotone ==
  ASSUME NEW a \in Int, NEW b \in Int, NEW c \in Nat, a <= b
  PROVE  a * c <= b * c
  OBVIOUS

LEMMA OneMore ==
  ASSUME NEW n \in Nat, NEW c \in Nat
  PROVE  n * c \in Nat /\ (n + 1) * c = n * c + c
  OBVIOUS

LEMMA Sum ==
  ASSUME NEW a \in Nat, NEW b \in Nat, NEW C
  PROVE  a + b + (IF C THEN 1 ELSE 0) \in Nat
  OBVIOUS

LEMMA PacedDown ==
  ASSUME NEW n \in Nat, NEW count \in Nat, NEW next \in Nat,
         Paced(n + 1, count, next)
  PROVE  Paced(n, count, next)
PROOF
<1>1. HopSamples \in Nat /\ WindowSamples \in Nat
  BY CadenceAssumption
<1>2. ASSUME n > 0
      PROVE  /\ n * HopSamples \in Nat
             /\ (n - 1) * HopSamples \in Int
             /\ (n - 1) * HopSamples <= n * HopSamples
             /\ n * HopSamples <= (n + 1) * HopSamples
             /\ (n + 1) * HopSamples \in Int
  BY <1>1, <1>2, Monotone, OneMore
<1>3. (n + 1) - 1 = n
  OBVIOUS
<1> QED
  BY <1>1, <1>2, <1>3 DEF Paced

(* The bounds of the model leave room for each window that is due. *)
LEMMA Room ==
  ASSUME NEW n \in Nat, NEW count \in 0 .. MaxCount, NEW next \in Nat,
         Paced(n, count, next)
  PROVE  n <= MaxRuns
PROOF
<1> USE RunnerAssumption, CadenceAssumption
<1> SUFFICES ASSUME n > MaxRuns PROVE FALSE
  OBVIOUS
<1>1. MaxRuns * HopSamples <= (n - 1) * HopSamples
  BY Monotone
<1>2. MaxRuns * HopSamples \in Int /\ (n - 1) * HopSamples \in Int
  OBVIOUS
<1>3. WindowSamples + (n - 1) * HopSamples <= MaxCount
  BY <1>2 DEF Paced
<1> QED
  BY <1>1, <1>2, <1>3

-----------------------------------------------------------------------------
LEMMA InitInv == Init => IInv
PROOF
<1> SUFFICES ASSUME Init PROVE IInv
  OBVIOUS
<1> USE RunnerAssumption, CadenceAssumption DEF Init, GateInit
<1>1. TypeOK
  <2>1. /\ job \in [Runs -> {"none", "computing", "done"} \cup DOMAIN After]
        /\ stored \in [Runs -> 0 .. NumClasses]
    OBVIOUS
  <2>2. {classScore, raw, fed} \subseteq [Classes -> 0 .. MaxRuns]
    OBVIOUS
  <2>3. 0 \in 0 .. MaxRuns /\ 0 \in 0 .. MaxPolls /\ 0 \in 0 .. MaxCount
        /\ 0 \in 0 .. MaxCount + HopSamples /\ 1 \in 1 .. NumClasses + 1
    OBVIOUS
  <2> HIDE RunnerAssumption, CadenceAssumption
  <2> QED
    BY <2>1, <2>2, <2>3 DEF TypeOK
<1>2. RunInv /\ KickInv
  BY DEF RunInv, KickInv, Runs
<1>3. DataInv
  BY DEF DataInv, Holding, Runs
<1>4. PaceInv
  BY DEF PaceInv, Paced, Counted, Due
<1> QED
  BY <1>1, <1>2, <1>3, <1>4 DEF IInv

(* What is counted, while a window is due: one more than before it.         *)
LEMMA CountedNat ==
  ASSUME TypeOK
  PROVE  /\ Counted \in Nat /\ modelCount \in Nat /\ nextAt \in Nat
         /\ Due => Counted = kicks + dropped + 1
         /\ ~Due => Counted = kicks + dropped
  BY RunnerAssumption, CadenceAssumption DEF TypeOK, Counted

LEMMA DueHasRoom ==
  ASSUME IInv, Due
  PROVE  kicks + dropped + 1 <= MaxRuns
PROOF
<1>1. Counted \in Nat /\ modelCount \in 0 .. MaxCount /\ nextAt \in Nat
  BY CountedNat DEF IInv, TypeOK
<1> QED
  BY <1>1, CountedNat, Room DEF IInv, PaceInv

LEMMA PaceStep ==
  ASSUME IInv, TypeOK', Next
  PROVE  PaceInv'
PROOF
<1> USE DEF IInv, PaceInv
<1>1. /\ Counted \in Nat /\ Counted' \in Nat
      /\ modelCount \in Nat /\ modelCount' \in Nat
      /\ nextAt \in Nat /\ nextAt' \in Nat
      /\ kicks \in Nat /\ dropped \in Nat
  <2>1. /\ kicks \in Nat /\ dropped \in Nat /\ modelCount \in Nat
        /\ nextAt \in Nat
    BY RunnerAssumption, CadenceAssumption DEF TypeOK
  <2>2. /\ kicks' \in Nat /\ dropped' \in Nat /\ modelCount' \in Nat
        /\ nextAt' \in Nat
    BY RunnerAssumption, CadenceAssumption DEF TypeOK
  <2>3. Counted \in Nat
    BY <2>1 DEF Counted
  <2>4. Counted' \in Nat
    BY <2>2, Sum DEF Counted
  <2> QED
    BY <2>1, <2>2, <2>3, <2>4
<1>2. CASE Counted' = Counted /\ modelCount' >= modelCount /\ nextAt' = nextAt
  BY <1>1, <1>2, RunnerAssumption, CadenceAssumption DEF Paced
<1>3. CASE Counted = Counted' + 1 /\ UNCHANGED <<modelCount, nextAt>>
  BY <1>1, <1>3, PacedDown
<1>4. CASE Cadence
  <2>1. CASE ~Evaluate(modelCount)
    BY <1>4, <2>1, <1>2 DEF Cadence, Poll, Counted, Due, Goto
  <2>2. CASE Evaluate(modelCount)
    <3>1. modelCount' = modelCount /\ nextAt' = modelCount + HopSamples
      BY <1>4, <2>2, RunnerAssumption DEF Cadence, Poll, Reschedule
    <3>2. Counted' = Counted + 1
      BY <1>4, <2>2, <1>1 DEF Cadence, Counted, Due, Goto
    <3>3. WindowSamples <= modelCount /\ nextAt <= modelCount
      BY <2>2, <1>1, RunnerAssumption, CadenceAssumption DEF Evaluate, WarmingUp
    <3>4. /\ Counted * HopSamples \in Nat
          /\ (Counted + 1) * HopSamples = Counted * HopSamples + HopSamples
          /\ HopSamples \in Nat /\ WindowSamples \in Nat
      BY <1>1, OneMore, CadenceAssumption
    <3>5. WindowSamples + Counted * HopSamples <= modelCount
      <4>1. CASE Counted = 0
        BY <4>1, <3>3, <1>1, <3>4
      <4>2. CASE Counted > 0
        BY <4>2, <3>3, <3>4, <1>1 DEF Paced
      <4> QED
        BY <4>1, <4>2, <1>1
    <3>6. WindowSamples + (Counted + 1) * HopSamples <= modelCount + HopSamples
      BY <3>4, <3>5, <1>1
    <3>7. Paced(Counted + 1, modelCount, modelCount + HopSamples)
      <4>1. (Counted + 1) - 1 = Counted
        BY <1>1
      <4> QED
        BY <3>5, <3>6, <4>1 DEF Paced
    <3> QED
      BY <3>1, <3>2, <3>7
  <2> QED
    BY <2>1, <2>2
<1>5. CASE CountDropped \/ KickGuard \/ RunAsync
  <2>1. UNCHANGED <<modelCount, nextAt>>
    BY <1>5 DEF CountDropped, KickGuard, RunAsync, countVars, paceVars
  <2>2. Counted' = Counted \/ Counted = Counted' + 1
    BY <1>5, <1>1 DEF CountDropped, KickGuard, RunAsync, countVars, paceVars,
                      Counted, Due, Goto
  <2> QED
    BY <2>1, <2>2, <1>1, <1>2, <1>3
<1>6. CASE Resample
  BY <1>6, <1>1, <1>2 DEF Resample, Counted, Due
<1>7. CASE \/ Prepare \/ TryHarvest \/ CopyScore \/ FeedFilter \/ TestFree
           \/ ClearResult \/ SetRunning \/ RunAsyncThrew \/ Stop \/ Destroy
  BY <1>7, <1>1, <1>2 DEF Prepare, TryHarvest, CopyScore, FeedFilter,
       TestFree, ClearResult, SetRunning, RunAsyncThrew, Stop, Destroy, Counted, Due,
       Goto, countVars, paceVars
<1>8. CASE \E r \in Runs : OrtThread(r)
  BY <1>8, <1>1, <1>2 DEF OrtThread, Infer, StoreScore, CountInference,
       RaiseResult, RaiseFailure, ClearRunning, Counted, Due, loopVars,
       countVars, paceVars
<1> QED
  BY <1>4, <1>5, <1>6, <1>7, <1>8 DEF Next, AnalysisThread

-----------------------------------------------------------------------------
(* Type correctness.  The counters have room because a window is due.       *)
LEMMA NextClass ==
  ASSUME NEW n \in Classes
  PROVE  n + 1 \in 1 .. NumClasses + 1
  BY RunnerAssumption DEF Classes

LEMMA CounterTypes ==
  ASSUME IInv, Next
  PROVE  /\ inputBuf' \in 0 .. MaxRuns /\ kicks' \in 0 .. MaxRuns
         /\ dropped' \in 0 .. MaxRuns
         /\ modelCount' \in 0 .. MaxCount /\ nextAt' \in 0 .. MaxCount + HopSamples
         /\ at' \in 1 .. NumClasses + 1 /\ polls' \in 0 .. MaxPolls
PROOF
<1> USE RunnerAssumption, CadenceAssumption DEF IInv, TypeOK
<1>1. CASE Resample \/ Cadence \/ Destroy
  BY <1>1 DEF Resample, Cadence, Poll, Reschedule, Destroy, MayWait, flagVars,
              dataVars, scoreVars, paceVars, countVars
<1>2. CASE CountDropped \/ KickGuard \/ RunAsync
  BY <1>2, DueHasRoom DEF CountDropped, KickGuard, RunAsync, Due, flagVars,
              dataVars, scoreVars, paceVars, countVars
<1>3. CASE TryHarvest
  BY <1>3 DEF TryHarvest, flagVars, dataVars, countVars, paceVars
<1>6. CASE CopyScore
  <2>1. at' \in 1 .. NumClasses + 1
    BY <1>6, NextClass DEF CopyScore
  <2> QED
    BY <1>6, <2>1 DEF CopyScore, flagVars, dataVars, countVars, paceVars
<1>5. CASE \/ Prepare \/ FeedFilter \/ TestFree \/ ClearResult \/ SetRunning
           \/ RunAsyncThrew \/ Stop
  BY <1>5 DEF Prepare, FeedFilter, TestFree, ClearResult, SetRunning, RunAsyncThrew,
              Stop, flagVars, dataVars, scoreVars, paceVars, countVars
<1>4. CASE \E r \in Runs : OrtThread(r)
  BY <1>4 DEF OrtThread, Infer, StoreScore, CountInference, RaiseResult,
              RaiseFailure, ClearRunning, dataVars, loopVars, scoreVars,
              paceVars, countVars
<1> QED
  BY <1>1, <1>2, <1>3, <1>4, <1>5, <1>6 DEF Next, AnalysisThread

LEMMA FlagTypes ==
  ASSUME IInv, Next
  PROVE  /\ {ready, running, resultReady, hardFailed}' \subseteq BOOLEAN
         /\ late' \in BOOLEAN
         /\ pc' \in {"prepare", "tick", "copy", "cadence", "free?", "drop",
                     "kick", "clear", "arm", "submit", "threw", "destroy", "gone"}
PROOF
<1> USE DEF IInv, TypeOK, Goto, flagVars, loopVars, ortVars
<1>1. CASE AnalysisThread
  BY <1>1 DEF AnalysisThread, Prepare, Resample, TryHarvest, CopyScore,
       FeedFilter, Cadence, TestFree, CountDropped, KickGuard, ClearResult,
       SetRunning, RunAsync, RunAsyncThrew, Stop, Destroy
<1>2. CASE \E r \in Runs : OrtThread(r)
  BY <1>2 DEF OrtThread, Infer, StoreScore, CountInference, RaiseResult,
       RaiseFailure, ClearRunning
<1> QED
  BY <1>1, <1>2 DEF Next

LEMMA ArrayTypes ==
  ASSUME IInv, Next
  PROVE  /\ outputBuf' \in 0 .. MaxRuns
         /\ classScore' \in [Classes -> 0 .. MaxRuns]
         /\ raw' \in [Classes -> 0 .. MaxRuns] /\ fed' \in [Classes -> 0 .. MaxRuns]
         /\ job' \in [Runs -> {"none", "computing", "done"} \cup DOMAIN After]
         /\ stored' \in [Runs -> 0 .. NumClasses]
PROOF
<1> USE RunnerAssumption DEF IInv, TypeOK
<1>1. CASE CopyScore
  BY <1>1 DEF CopyScore, flagVars, dataVars, countVars, ortVars
<1>2. CASE RunAsync
  <2>1. kicks + 1 \in Runs
    BY <1>2, DueHasRoom DEF RunAsync, Due, Runs
  <2> QED
    BY <1>2, <2>1 DEF RunAsync, dataVars, scoreVars
<1>3. CASE \/ Prepare \/ Resample \/ TryHarvest \/ FeedFilter \/ Cadence
           \/ TestFree \/ CountDropped \/ KickGuard \/ ClearResult \/ SetRunning
           \/ RunAsyncThrew \/ Stop \/ Destroy
  BY <1>3 DEF Prepare, Resample, TryHarvest, FeedFilter, Cadence, TestFree,
       CountDropped, KickGuard, ClearResult, SetRunning, RunAsyncThrew, Stop, Destroy,
       dataVars, scoreVars, ortVars
<1>4. ASSUME NEW r \in Runs, OrtThread(r)
      PROVE  /\ outputBuf' \in 0 .. MaxRuns
             /\ classScore' \in [Classes -> 0 .. MaxRuns]
             /\ job' \in [Runs -> {"none", "computing", "done"} \cup DOMAIN After]
             /\ stored' \in [Runs -> 0 .. NumClasses]
  <2>1. CASE Infer(r)
    BY <2>1 DEF Infer, After
  <2>2. CASE StoreScore(r)
    <3>1. /\ stored[r] + 1 \in Classes
          /\ classScore' = [classScore EXCEPT ![stored[r] + 1] = outputBuf]
          /\ stored' = [stored EXCEPT ![r] = @ + 1]
          /\ UNCHANGED <<outputBuf, job>>
      BY <2>2 DEF StoreScore
    <3>2. classScore' \in [Classes -> 0 .. MaxRuns]
      BY <3>1
    <3>3. stored' \in [Runs -> 0 .. NumClasses]
      <4>1. stored[r] + 1 \in 0 .. NumClasses
        <5>1. \A c \in Classes : c \in 0 .. NumClasses
          BY DEF Classes
        <5> QED
          BY <3>1, <5>1
      <4>2. stored \in [Runs -> 0 .. NumClasses]
        OBVIOUS
      <4> HIDE DEF IInv, TypeOK
      <4> QED
        BY <3>1, <4>1, <4>2
    <3> QED
      BY <3>1, <3>2, <3>3
  <2>3. CASE CountInference(r) \/ RaiseResult(r) \/ RaiseFailure(r) \/ ClearRunning(r)
    BY <2>3 DEF CountInference, RaiseResult, RaiseFailure, ClearRunning, Step,
                After, dataVars
  <2> QED
    BY <1>4, <2>1, <2>2, <2>3 DEF OrtThread
<1>5. CASE \E r \in Runs : OrtThread(r)
  BY <1>4, <1>5 DEF OrtThread, Infer, StoreScore, CountInference, RaiseResult,
       RaiseFailure, ClearRunning, loopVars, scoreVars
<1> QED
  BY <1>1, <1>2, <1>3, <1>5 DEF Next, AnalysisThread

LEMMA TypeStep ==
  ASSUME IInv, Next
  PROVE  TypeOK'
  BY CounterTypes, FlagTypes, ArrayTypes DEF TypeOK

-----------------------------------------------------------------------------
(* One run after the other, seen by both threads.                           *)
LEMMA RunStep ==
  ASSUME IInv, Next
  PROVE  RunInv'
PROOF
<1> USE DEF IInv, TypeOK, RunInv, KickInv, Goto, flagVars, countVars, ortVars, loopVars
<1>1. CASE RunAsync
  <2>1. kicks + 1 \in Runs /\ kicks \in Nat
    BY <1>1, DueHasRoom, RunnerAssumption DEF RunAsync, Due, Runs
  <2>2. CASE UNCHANGED <<kicks, job>>
    BY <1>1, <2>1, <2>2 DEF RunAsync
  <2>3. CASE kicks' = kicks + 1 /\ job' = [job EXCEPT ![kicks + 1] = "computing"]
    <3>1. \A r \in Runs : r \in Int
      BY DEF Runs
    <3>2. /\ pc = "submit" /\ pc' = "tick" /\ running /\ running' = running
          /\ stored' = stored /\ job \in [Runs -> {"none", "computing", "done"} \cup DOMAIN After]
      BY <1>1, <2>1, <2>3 DEF RunAsync
    <3>3. \A r \in Runs : job'[r] = IF r = kicks + 1 THEN "computing" ELSE job[r]
      BY <2>3, <3>2
    <3>4. \A r \in Runs : r < kicks + 1 => job[r] = "done"
      BY <2>1, <3>1, <3>2
    <3> HIDE DEF TypeOK, KickInv
    <3> QED
      BY <2>1, <2>3, <3>1, <3>2, <3>3, <3>4
  <2> QED
    BY <1>1, <2>2, <2>3 DEF RunAsync
<1>2. CASE SetRunning
  BY <1>2 DEF SetRunning
<1>3. CASE \/ Prepare \/ Resample \/ TryHarvest \/ CopyScore \/ FeedFilter
           \/ Cadence \/ TestFree \/ CountDropped \/ KickGuard \/ ClearResult
           \/ RunAsyncThrew \/ Stop \/ Destroy
  BY <1>3 DEF Prepare, Resample, TryHarvest, CopyScore, FeedFilter, Cadence,
       TestFree, CountDropped, KickGuard, ClearResult, RunAsyncThrew, Stop,
       Destroy
<1>4. ASSUME NEW r \in Runs, OrtThread(r)
      PROVE  RunInv'
  <2>1. job[r] \notin {"none", "done"} /\ r = kicks
    <3>1. job[r] \notin {"none", "done"}
      BY <1>4 DEF OrtThread, Infer, StoreScore, CountInference, RaiseResult,
           RaiseFailure, ClearRunning
    <3> QED
      BY <3>1 DEF Runs
  <2>2. CASE ClearRunning(r)
    <3>1. \A q \in Runs : job'[q] = IF q = r THEN "done" ELSE job[q]
      BY <2>1, <2>2 DEF ClearRunning, Step, After
    <3>2. /\ ~running' /\ UNCHANGED <<pc, kicks, stored>>
          /\ \A q \in Runs : q # r => job[q] \in {"none", "done"}
          /\ pc # "submit"
      BY <2>1, <2>2 DEF ClearRunning, Runs
    <3> QED
      BY <2>1, <3>1, <3>2 DEF Runs
  <2>3. CASE StoreScore(r)
    BY <2>1, <2>3 DEF StoreScore, Runs
  <2>4. CASE Infer(r)
    BY <2>1, <2>4 DEF Infer, Runs
  <2>5. CASE CountInference(r) \/ RaiseResult(r) \/ RaiseFailure(r)
    <3>1. /\ job' = [job EXCEPT ![r] = After[job[r]]]
          /\ job[r] \in {"scores", "raise", "failed"}
          /\ UNCHANGED <<pc, kicks, running, stored>>
      BY <2>5 DEF CountInference, RaiseResult, RaiseFailure, Step
    <3>2. After[job[r]] \notin {"none", "done"}
      BY <3>1 DEF After
    <3> QED
      BY <2>1, <3>1, <3>2 DEF Runs
  <2> QED
    BY <1>4, <2>2, <2>3, <2>4, <2>5 DEF OrtThread
<1> QED
  BY <1>1, <1>2, <1>3, <1>4 DEF Next, AnalysisThread

(* kick() against the ONNX Runtime thread.                                  *)
LEMMA KickStep ==
  ASSUME IInv, Next
  PROVE  KickInv'
PROOF
<1> USE DEF IInv, TypeOK, RunInv, KickInv, Goto, flagVars, dataVars, countVars,
            scoreVars, loopVars
<1>1. CASE \/ Prepare \/ Resample \/ CopyScore \/ FeedFilter
           \/ Cadence \/ TestFree \/ CountDropped
  BY <1>1 DEF Prepare, Resample, CopyScore, FeedFilter, Cadence, TestFree,
       CountDropped, Healthy, Busy, ortVars
<1>2. CASE \/ KickGuard \/ ClearResult \/ SetRunning \/ RunAsync
           \/ RunAsyncThrew \/ Stop
  BY <1>2 DEF KickGuard, ClearResult, SetRunning, RunAsync, RunAsyncThrew,
       Stop, Healthy, Busy, ortVars
<1>3. CASE Destroy
  BY <1>3, RunnerAssumption DEF Destroy, MayWait, ortVars
<1>5. CASE TryHarvest
  <2>1. ~resultReady' /\ pc' \in {"copy", "cadence"}
    BY <1>5 DEF TryHarvest, Fresh
  <2> QED
    BY <1>5, <2>1 DEF TryHarvest
<1>4. ASSUME NEW r \in Runs, OrtThread(r)
      PROVE  KickInv'
  <2>1. job[r] \notin {"none", "done"} /\ running
    BY <1>4 DEF OrtThread, Infer, StoreScore, CountInference, RaiseResult,
         RaiseFailure, ClearRunning
  <2>2. pc # "submit"
    BY <2>1
  <2>3. UNCHANGED <<pc, kicks, inputBuf, polls>>
    BY <1>4 DEF OrtThread, Infer, StoreScore, CountInference, RaiseResult,
         RaiseFailure, ClearRunning
  <2>4. pc \notin {"prepare", "kick", "clear", "arm", "submit", "threw"}
    <3>1. kicks \in Runs
      BY <2>1, RunnerAssumption DEF Runs
    <3> QED
      BY <2>1, <2>2, <3>1, RunnerAssumption DEF Runs
  <2>5. running' => running
    BY <2>1
  <2>6. /\ UNCHANGED ready
        /\ late' \/ UNCHANGED <<resultReady, late>>
    BY <1>4 DEF OrtThread, Infer, StoreScore, CountInference, RaiseResult,
         RaiseFailure, ClearRunning
  <2> QED
    BY <2>3, <2>4, <2>5, <2>6
<1> QED
  BY <1>1, <1>2, <1>3, <1>4, <1>5 DEF Next, AnalysisThread

(* The run under way is the last one started, and nothing waits for the     *)
(* loop while it has not published.                                         *)
LEMMA UnderWay ==
  ASSUME IInv, NEW r \in Runs, job[r] \notin {"none", "done"}
  PROVE  /\ r = kicks /\ running /\ pc # "submit"
         /\ job[r] # "free" => ~Holding
PROOF
<1>1. r \in Int /\ kicks \in Int
  BY RunnerAssumption DEF Runs, IInv, TypeOK
<1>2. r = kicks /\ running /\ pc # "submit"
  BY <1>1 DEF IInv, RunInv
<1> QED
  BY <1>2 DEF IInv, DataInv

(* From the input to the loop, the numbers are those of the run.            *)
LEMMA DataStep ==
  ASSUME IInv, Next
  PROVE  DataInv'
PROOF
<1> USE DEF IInv, DataInv, Holding, Goto
<1>1. CASE CopyScore
  <2>1. /\ raw \in [Classes -> 0 .. MaxRuns] /\ at \in Classes /\ at' = at + 1
        /\ raw' = [raw EXCEPT ![at] = classScore[at]]
    BY <1>1 DEF CopyScore, TypeOK
  <2>2. \A c \in Classes : c < at + 1 => c < at \/ c = at
    BY <2>1 DEF Classes
  <2>3. \A c \in Classes : c < at' => raw'[c] = kicks
    BY <1>1, <2>1, <2>2 DEF CopyScore
  <2> QED
    BY <1>1, <2>3 DEF CopyScore, flagVars, dataVars, countVars, ortVars
<1>2. CASE TryHarvest
  <2>1. at' = 1 /\ \A c \in Classes : ~(c < 1)
    BY <1>2 DEF TryHarvest, Classes
  <2> QED
    BY <1>2, <2>1 DEF TryHarvest, Fresh, dataVars, countVars, ortVars
<1>3. CASE RunAsync
  <2>1. kicks + 1 \in Runs /\ job \in [Runs -> {"none", "computing", "done"} \cup DOMAIN After]
    BY <1>3, DueHasRoom, RunnerAssumption DEF RunAsync, Due, Runs, TypeOK
  <2>2. stored[kicks + 1] = 0 /\ inputBuf = kicks + 1 /\ ~resultReady
    BY <1>3, <2>1, RunnerAssumption DEF RunAsync, RunInv, KickInv, TypeOK
  <2>3. CASE UNCHANGED <<kicks, job>>
    BY <1>3, <2>2, <2>3 DEF RunAsync, dataVars, scoreVars
  <2>4. CASE kicks' = kicks + 1 /\ job' = [job EXCEPT ![kicks + 1] = "computing"]
    <3>1. \A r \in Runs : job'[r] = IF r = kicks + 1 THEN "computing" ELSE job[r]
      BY <2>1, <2>4
    <3>2. pc' \in {"tick", "threw"} /\ ~resultReady' /\ UNCHANGED <<dataVars, stored>>
      BY <1>3, <2>2 DEF RunAsync
    <3> QED
      BY <2>2, <3>1, <3>2 DEF dataVars
  <2> QED
    BY <1>3, <2>3, <2>4 DEF RunAsync
<1>4. CASE KickGuard
  <2>1. \A r \in Runs : job[r] # "computing"
    BY <1>4, UnderWay DEF KickGuard, KickInv
  <2> QED
    BY <1>4, <2>1 DEF KickGuard, flagVars, scoreVars, countVars, ortVars
<1>5. CASE \/ Prepare \/ Resample \/ FeedFilter \/ Cadence \/ TestFree
           \/ CountDropped \/ ClearResult \/ SetRunning \/ RunAsyncThrew \/ Stop \/ Destroy
  BY <1>5 DEF Prepare, Resample, FeedFilter, Cadence, TestFree, CountDropped,
       ClearResult, SetRunning, RunAsyncThrew, Stop, Destroy, flagVars, dataVars, scoreVars,
       countVars, ortVars
<1>6. ASSUME NEW r \in Runs, OrtThread(r)
      PROVE  DataInv'
  <2>1. /\ job[r] \notin {"none", "done"} /\ r = kicks
        /\ job[r] # "free" => ~Holding
        /\ \A q \in Runs : q # r => job[q] \in {"none", "done"}
    <3>1. job[r] \notin {"none", "done"}
      BY <1>6 DEF OrtThread, Infer, StoreScore, CountInference, RaiseResult,
           RaiseFailure, ClearRunning
    <3> QED
      BY <3>1, UnderWay
  <2>2. /\ job \in [Runs -> {"none", "computing", "done"} \cup DOMAIN After]
        /\ stored \in [Runs -> 0 .. NumClasses]
        /\ classScore \in [Classes -> 0 .. MaxRuns]
    BY DEF TypeOK
  <2>3. CASE Infer(r)
    <3>1. \A c \in Classes : ~(c <= 0)
      BY DEF Classes
    <3> QED
      BY <2>1, <2>2, <2>3, <3>1 DEF Infer, flagVars, loopVars, scoreVars, countVars
  <2>4. CASE StoreScore(r)
    <3>1. \A c \in Classes : c <= stored[r] + 1 => c <= stored[r] \/ c = stored[r] + 1
      BY <2>2 DEF Classes
    <3> QED
      BY <2>1, <2>2, <2>4, <3>1 DEF StoreScore, flagVars, loopVars, scoreVars, countVars
  <2>5. CASE CountInference(r)
    <3>1. \A c \in Classes : c <= stored[r]
      BY <2>2, <2>5, RunnerAssumption DEF CountInference, Classes
    <3> QED
      BY <2>1, <2>2, <2>5, <3>1 DEF CountInference, Step, After, flagVars,
           dataVars, loopVars, scoreVars, countVars
  <2>6. CASE RaiseResult(r)
    BY <2>1, <2>2, <2>6 DEF RaiseResult, Step, After, dataVars, loopVars,
         scoreVars, countVars
  <2>7. CASE RaiseFailure(r) \/ ClearRunning(r)
    BY <2>1, <2>2, <2>7 DEF RaiseFailure, ClearRunning, Step, After, dataVars,
         loopVars, scoreVars, countVars
  <2> QED
    BY <1>6, <2>3, <2>4, <2>5, <2>6, <2>7 DEF OrtThread
<1> QED
  BY <1>1, <1>2, <1>3, <1>4, <1>5, <1>6 DEF Next, AnalysisThread

LEMMA Stutter ==
  ASSUME IInv, UNCHANGED vars
  PROVE  IInv'
PROOF
<1> USE DEF IInv, vars, flagVars, dataVars, loopVars, scoreVars, countVars,
            paceVars, ortVars
<1>1. TypeOK'
  BY DEF TypeOK
<1>2. RunInv' /\ KickInv' /\ DataInv'
  BY DEF RunInv, KickInv, DataInv, Holding
<1>3. PaceInv'
  BY DEF PaceInv, Counted, Due
<1> QED
  BY <1>1, <1>2, <1>3

(* The inductive invariant of the two threads, at every step of either.     *)
THEOREM InductiveInvariant == Spec => []IInv
PROOF
<1>1. ASSUME IInv, [Next]_vars PROVE IInv'
  BY <1>1, TypeStep, RunStep, KickStep, DataStep, PaceStep, Stutter DEF IInv
<1> QED
  BY InitInv, <1>1, PTL DEF Spec

-----------------------------------------------------------------------------
(* The variables keep their types, the counters their bounds.               *)
THEOREM TypeCorrect == Spec => []TypeOK
PROOF
<1>1. IInv => TypeOK
  BY DEF IInv
<1> QED
  BY InductiveInvariant, <1>1, PTL

(* ORT's input stands while it computes, its output until it is copied, and *)
(* there is one run at a time.                                              *)
THEOREM BuffersKept == Spec => []BuffersStable
PROOF
<1>1. ASSUME IInv PROVE BuffersStable
  <2>1. Active = {} \/ Active = {kicks}
    BY <1>1, UnderWay DEF Active
  <2>2. Cardinality(Active) <= 1
    BY <2>1, FS_EmptySet, FS_Singleton
  <2> QED
    BY <1>1, <2>2 DEF BuffersStable, IInv, DataInv
<1> QED
  BY InductiveInvariant, <1>1, PTL

(* Each inference, and each window dropped, has a hop of its own samples.   *)
THEOREM Pacing == Spec => []PacedByHop
PROOF
<1>1. ASSUME IInv PROVE PacedByHop
  <2>1. /\ kicks + dropped \in Nat /\ modelCount \in Nat /\ nextAt \in Nat
        /\ Counted = kicks + dropped + 1 \/ Counted = kicks + dropped
    BY <1>1, CountedNat, RunnerAssumption, CadenceAssumption DEF IInv, TypeOK
  <2>2. Paced(kicks + dropped, modelCount, nextAt)
    BY <1>1, <2>1, PacedDown DEF IInv, PaceInv
  <2>3. (kicks + dropped) - 1 = kicks + dropped - 1
    BY <1>1, RunnerAssumption DEF IInv, TypeOK
  <2> QED
    BY <2>2, <2>3 DEF Paced, PacedByHop
<1> QED
  BY InductiveInvariant, <1>1, PTL

(* The runner is gone only when ORT is done with it, unless it gave up.     *)
THEOREM MemoryOutlivesRun == Spec => []NoUseAfterFree
PROOF
<1>1. ASSUME IInv PROVE NoUseAfterFree
  BY <1>1, UnderWay DEF NoUseAfterFree, Active, IInv, KickInv
<1> QED
  BY InductiveInvariant, <1>1, PTL

(* Nothing but a run to be ended, or one being submitted, holds running up. *)
THEOREM FlagHasRun == Spec => []SlotNeverStuck
PROOF
<1>1. ASSUME IInv PROVE SlotNeverStuck
  BY <1>1 DEF SlotNeverStuck, Active, IInv, RunInv
<1> QED
  BY InductiveInvariant, <1>1, PTL

(* A result kick() throws away came in after the tick's harvest.            *)
THEOREM HarvestedInTime == Spec => []OnlyLateResultLost
PROOF
<1>1. ASSUME IInv PROVE OnlyLateResultLost
  BY <1>1 DEF OnlyLateResultLost, IInv, KickInv
<1> QED
  BY InductiveInvariant, <1>1, PTL

(* kick() never meets a run in flight; it refuses for a failure only.       *)
THEOREM RefusedForFailure == Spec => []KickMeetsNoRun
PROOF
<1>1. ASSUME IInv PROVE KickMeetsNoRun
  BY <1>1 DEF KickMeetsNoRun, IInv, KickInv
<1> QED
  BY InductiveInvariant, <1>1, PTL

-----------------------------------------------------------------------------
(* The refinement.  Each step of either thread is one of the slot's, or     *)
(* does not concern it.                                                     *)

LEMMA NothingUnderWay ==
  ASSUME IInv, pc \in {"clear", "arm", "submit", "threw", "prepare"}
  PROVE  ~Computing /\ ~hardFailed
PROOF
<1>1. pc # "prepare" => \A r \in Runs : job[r] \in {"none", "done"}
  BY UnderWay DEF IInv, KickInv
<1>2. pc = "prepare" => \A r \in Runs : job[r] = "none"
  BY RunnerAssumption DEF IInv, KickInv, RunInv, Runs
<1> QED
  BY <1>1, <1>2 DEF Computing, IInv, KickInv

LEMMA LoopRefines ==
  ASSUME IInv, AnalysisThread
  PROVE  [Slot!Next]_(Slot!slotVars)
PROOF
<1> USE DEF Slot!Next, Slot!slotVars, Goto
<1>1. CASE Prepare
  <2>1. ~Computing /\ ~Computing' /\ ~hardFailed
    BY <1>1, NothingUnderWay DEF Prepare, ortVars, Computing
  <2>2. Holding' = Holding /\ UNCHANGED <<kicks, fed>>
    BY <1>1 DEF Prepare, Holding, scoreVars, countVars
  <2>3. CASE hardFailed' = TRUE
    BY <1>1, <2>1, <2>2, <2>3 DEF Slot!Fail
  <2> QED
    BY <1>1, <2>1, <2>2, <2>3 DEF Prepare
<1>2. CASE FeedFilter
  <2>1. /\ raw = [c \in Classes |-> kicks]
        /\ ~resultReady /\ kicks # 0
    <3>1. \A c \in Classes : raw[c] = kicks
      <4>1. \A c \in Classes : c < at
        BY <1>2, RunnerAssumption DEF FeedFilter, Classes, IInv, TypeOK
      <4> QED
        BY <1>2, <4>1 DEF FeedFilter, IInv, DataInv
    <3>2. raw \in [Classes -> 0 .. MaxRuns]
      BY DEF IInv, TypeOK
    <3>3. ~resultReady /\ kicks \in Runs
      BY <1>2 DEF FeedFilter, IInv, DataInv, Holding
    <3> QED
      BY <3>1, <3>2, <3>3, RunnerAssumption DEF Runs
  <2>2. Holding /\ ~Holding' /\ fed' = raw /\ UNCHANGED <<kicks, hardFailed, job>>
    BY <1>2, <2>1 DEF FeedFilter, Holding, flagVars, countVars, ortVars
  <2>3. Computing' <=> Computing
    BY <2>2 DEF Computing
  <2> QED
    BY <2>1, <2>2, <2>3 DEF Slot!Harvest
<1>3. CASE ClearResult
  <2>1. ~Computing /\ ~Computing' /\ ~hardFailed
    BY <1>3, NothingUnderWay DEF ClearResult, ortVars, Computing
  <2>2. ~Holding' /\ UNCHANGED <<kicks, fed, hardFailed>>
    BY <1>3 DEF ClearResult, Holding, scoreVars, countVars
  <2>3. CASE Holding /\ kicks # 0
    BY <2>1, <2>2, <2>3 DEF Slot!Discard
  <2>4. CASE ~Holding \/ kicks = 0
    BY <2>1, <2>2, <2>4
  <2> QED
    BY <2>3, <2>4
<1>4. CASE RunAsync
  <2>1. ~Computing /\ ~hardFailed /\ ~Holding
    BY <1>4, NothingUnderWay DEF RunAsync, Holding, IInv, KickInv
  <2>2. ~Holding' /\ UNCHANGED <<fed, hardFailed>>
    BY <1>4, <2>1 DEF RunAsync, Holding, scoreVars
  <2>3. CASE UNCHANGED <<kicks, job>>
    BY <2>1, <2>2, <2>3 DEF Computing
  <2>4. CASE kicks' = kicks + 1 /\ job' = [job EXCEPT ![kicks + 1] = "computing"]
    <3>1. kicks + 1 \in Runs /\ kicks \in Nat /\ kicks < MaxRuns
      BY <1>4, DueHasRoom, RunnerAssumption DEF RunAsync, Due, Runs, IInv, TypeOK
    <3>2. job'[kicks + 1] = "computing"
      BY <2>4, <3>1 DEF IInv, TypeOK
    <3>3. Computing'
      BY <3>1, <3>2 DEF Computing
    <3> QED
      BY <2>1, <2>2, <2>4, <3>1, <3>3 DEF Slot!Start
  <2> QED
    BY <1>4, <2>3, <2>4 DEF RunAsync
<1>5. CASE RunAsyncThrew
  <2>1. ~Computing /\ ~Computing' /\ ~hardFailed
    BY <1>5, NothingUnderWay DEF RunAsyncThrew, ortVars, Computing
  <2>2. Holding' = Holding /\ UNCHANGED <<kicks, fed>> /\ hardFailed' = TRUE
    BY <1>5 DEF RunAsyncThrew, Holding, scoreVars, countVars
  <2> QED
    BY <2>1, <2>2 DEF Slot!Fail
<1>6. CASE \/ Resample \/ TryHarvest \/ CopyScore \/ Cadence \/ TestFree
           \/ CountDropped \/ KickGuard \/ SetRunning \/ Stop \/ Destroy
  <2>1. UNCHANGED <<job, kicks, fed, hardFailed>>
    BY <1>6 DEF Resample, TryHarvest, CopyScore, Cadence, TestFree,
         CountDropped, KickGuard, SetRunning, Stop, Destroy, flagVars,
         scoreVars, countVars, ortVars
  <2>2. Holding' <=> Holding
    <3>1. CASE TryHarvest
      <4>1. /\ pc = "tick" /\ resultReady' = FALSE
            /\ pc' = IF resultReady THEN "copy" ELSE "cadence"
        BY <3>1 DEF TryHarvest, Fresh
      <4> QED
        BY <4>1 DEF Holding
    <3>2. CASE \/ Resample \/ CopyScore \/ Cadence \/ TestFree \/ CountDropped
               \/ KickGuard \/ SetRunning \/ Stop \/ Destroy
      BY <3>2 DEF Resample, CopyScore, Cadence, TestFree, CountDropped,
           KickGuard, SetRunning, Stop, Destroy, Holding, flagVars
    <3> QED
      BY <1>6, <3>1, <3>2
  <2>3. Computing' <=> Computing
    BY <2>1 DEF Computing
  <2> QED
    BY <2>1, <2>2, <2>3
<1> QED
  BY <1>1, <1>2, <1>3, <1>4, <1>5, <1>6 DEF AnalysisThread

LEMMA OrtRefines ==
  ASSUME IInv, NEW r \in Runs, OrtThread(r)
  PROVE  [Slot!Next]_(Slot!slotVars)
PROOF
<1> USE DEF Slot!Next, Slot!slotVars
<1>1. job[r] \notin {"none", "done"}
  BY DEF OrtThread, Infer, StoreScore, CountInference, RaiseResult,
     RaiseFailure, ClearRunning
<1>2. /\ r = kicks /\ kicks # 0 /\ job[r] # "free" => ~Holding
      /\ \A q \in Runs : q # r => job[q] \in {"none", "done"}
  BY <1>1, UnderWay DEF Runs
<1>3. UNCHANGED <<kicks, fed, pc>>
  BY DEF OrtThread, Infer, StoreScore, CountInference, RaiseResult,
     RaiseFailure, ClearRunning, loopVars, scoreVars, countVars
<1>4. job \in [Runs -> {"none", "computing", "done"} \cup DOMAIN After]
  BY DEF IInv, TypeOK
<1>5. Computing <=> job[r] \in {"computing", "scores", "raise", "failed"}
  BY <1>2 DEF Computing
<1>6. CASE Infer(r) \/ StoreScore(r) \/ CountInference(r)
  <2>1. /\ job'[r] \in {"computing", "scores", "raise", "failed"}
        /\ UNCHANGED <<resultReady, hardFailed>>
    BY <1>4, <1>6 DEF Infer, StoreScore, CountInference, Step, After, flagVars
  <2>2. Computing /\ Computing'
    BY <1>5, <1>6, <2>1 DEF Infer, StoreScore, CountInference, Computing
  <2>3. Holding' <=> Holding
    BY <2>1, <1>3 DEF Holding
  <2> QED
    BY <2>1, <2>2, <2>3, <1>3
<1>7. CASE RaiseResult(r) \/ RaiseFailure(r) \/ ClearRunning(r)
  <2>1. \A q \in Runs : job'[q] = IF q = r THEN After[job[r]] ELSE job[q]
    BY <1>4, <1>7 DEF RaiseResult, RaiseFailure, ClearRunning, Step
  <2>2. ~Computing'
    BY <1>2, <1>7, <2>1 DEF RaiseResult, RaiseFailure, ClearRunning, After,
                            Computing
  <2>3. CASE RaiseResult(r)
    <3>1. Computing /\ Holding' /\ UNCHANGED hardFailed
      BY <2>3, <1>5 DEF RaiseResult, Holding
    <3> QED
      BY <3>1, <2>2, <1>2, <1>3 DEF Slot!Complete
  <2>4. CASE RaiseFailure(r)
    <3>1. Computing /\ (Holding' <=> Holding) /\ hardFailed' = TRUE
      BY <2>4, <1>3, <1>5 DEF RaiseFailure, Holding
    <3> QED
      BY <3>1, <2>2, <1>2, <1>3 DEF Slot!Fail
  <2>5. CASE ClearRunning(r)
    <3>1. ~Computing /\ (Holding' <=> Holding) /\ UNCHANGED hardFailed
      BY <2>5, <1>3, <1>5 DEF ClearRunning, Holding
    <3> QED
      BY <3>1, <2>2, <1>3
  <2> QED
    BY <1>7, <2>3, <2>4, <2>5
<1> QED
  BY <1>6, <1>7 DEF OrtThread

(* The runner, with all its atomics and threads, implements InferenceSlot:  *)
(* scores are handed over whole, of one inference, the last, and at most    *)
(* once, and after a failure nothing is started.                            *)
THEOREM SlotImplemented == Spec => ImplementsSlot
PROOF
<1>1. Init => Slot!Init
  BY DEF Init, Slot!Init, Holding, Computing, Runs
<1>2. ASSUME IInv, [Next]_vars PROVE [Slot!Next]_(Slot!slotVars)
  <2>1. CASE UNCHANGED vars
    BY <2>1 DEF vars, flagVars, dataVars, loopVars, scoreVars, countVars,
                ortVars, Slot!slotVars, Holding, Computing
  <2> QED
    BY <1>2, <2>1, LoopRefines, OrtRefines DEF Next
<1> QED
  BY <1>1, <1>2, InductiveInvariant, PTL DEF Spec, ImplementsSlot, Slot!Spec
=============================================================================
