---------------------------- MODULE Training_proofs ----------------------------
(***************************************************************************)
(* For any schedule, numbers of checkpoints and scores, and however often  *)
(* the training is killed and started again: checkpoints hold what their   *)
(* names say, a resume.pt that was written can be resumed from, the best   *)
(* it lists are there, and the last ones do not pile up.                   *)
(***************************************************************************)
EXTENDS Training, SequenceTheorems, FiniteSetTheorems, TLAPS

BeforeSave == {"epoch", "train", "save", "saving"}
AfterSave  == {"prune", "saving_best", "drop", "save_resume", "saving_resume"}

(* A list of checkpoints, newest first. *)
Falling(l) == \A i, j \in DOMAIN l : i < j => l[j] < l[i]

TypeInv ==
  /\ lastFile \in [1 .. Epochs -> Int]
  /\ bestFile \in [Checkpoints -> Int]
  /\ resume.last \in Seq(1 .. Epochs)
  /\ pc \in {"down", "done"} \cup BeforeSave \cup AfterSave
  /\ epoch \in 1 .. Epochs + 1
  /\ trained \in Nat
  /\ last \in Seq(1 .. Epochs)
  /\ restored \in BOOLEAN /\ overwritten \in BOOLEAN

FilesInv ==
  /\ \A e \in 1 .. Epochs : lastFile[e] > 0 => lastFile[e] = e
  /\ \A c \in Checkpoints : bestFile[c] > 0 => bestFile[c] = c[2]

(* The weights have been trained for the epochs that train() is through. *)
WeightsInv ==
  /\ pc \in {"epoch", "train"} => trained = epoch - 1
  /\ pc \in {"train", "save", "saving"} \cup AfterSave => epoch <= Epochs
  /\ pc \in {"save", "saving"} \cup AfterSave => trained = epoch
  /\ pc = "done" => trained = Epochs
  /\ pc = "down" => epoch = 1 /\ trained = 0 /\ last = << >>

ListInv ==
  /\ Falling(last)
  /\ pc \in BeforeSave => \A i \in DOMAIN last : last[i] < epoch
  /\ pc \in AfterSave =>
       /\ last # << >> /\ last[1] = epoch
       /\ lastFile[epoch] = epoch

ResumeInv ==
  resume.state = "whole" =>
    /\ Falling(resume.last)
    /\ resume.last # << >>
    /\ resume.epoch = resume.last[1] + 1
    /\ ~overwritten => /\ lastFile[resume.last[1]] = resume.last[1]
                       /\ pc # "down" => epoch = resume.epoch

IInv == TypeInv /\ FilesInv /\ WeightsInv /\ ListInv /\ ResumeInv

-----------------------------------------------------------------------------
LEMMA EpochsPositive == Epochs \in Nat /\ Epochs >= 1
<1>1. Pairs[Len(Pairs)] \in Nat \X Int
  BY TrainingAssumption
<1> QED
  BY <1>1, TrainingAssumption DEF Epochs

LEMMA First ==
  ASSUME NEW S, NEW s \in Seq(S), s # << >>
  PROVE  s[1] \in S /\ 1 \in DOMAIN s /\ Len(s) >= 1 /\ Head(s) = s[1]
<1>1. Len(s) \in Nat /\ Len(s) # 0
  BY EmptySeq
<1> QED
  BY <1>1

LEMMA Element ==
  ASSUME NEW S, NEW s \in Seq(S), NEW i \in DOMAIN s
  PROVE  s[i] \in S /\ i \in 1 .. Len(s)
  OBVIOUS

LEMMA AllButLast ==
  ASSUME NEW S, NEW s \in Seq(S), Len(s) >= 2
  PROVE  LET t == SubSeq(s, 1, Len(s) - 1)
         IN  /\ t \in Seq(S) /\ Len(t) = Len(s) - 1
             /\ \A i \in 1 .. Len(s) - 1 : t[i] = s[i]
<1> DEFINE n == Len(s)  t == SubSeq(s, 1, n - 1)
<1>1. n \in Nat /\ n >= 2 /\ DOMAIN s = 1 .. n
  OBVIOUS
<1>2. \A i \in 1 .. n - 1 : s[i] \in S
  BY <1>1, Element
<1>3. n - 1 \in Int /\ 1 <= n - 1 /\ (n - 1) - 1 + 1 = n - 1
  BY <1>1
<1>4. /\ t \in Seq(S)
      /\ Len(t) = IF 1 <= n - 1 THEN (n - 1) - 1 + 1 ELSE 0
      /\ \A i \in 1 .. (n - 1) - 1 + 1 : t[i] = s[1 + i - 1]
  BY <1>2, <1>3, SubSeqProperties
<1>5. \A i \in 1 .. n - 1 : 1 + i - 1 = i
  BY <1>1
<1> HIDE DEF t, n
<1>6. Len(t) = n - 1 /\ \A i \in 1 .. n - 1 : t[i] = s[i]
  BY <1>3, <1>4, <1>5
<1> QED
  BY <1>4, <1>6 DEF t, n

LEMMA InitInv == Init => IInv
<1> SUFFICES ASSUME Init PROVE IInv
  OBVIOUS
<1> USE DEF Init, NoResume, Missing
<1>1. TypeInv
  <2>1. lastFile \in [1 .. Epochs -> Int] /\ bestFile \in [Checkpoints -> Int]
    OBVIOUS
  <2>2. resume.last \in Seq(1 .. Epochs)
    OBVIOUS
  <2>3. epoch \in 1 .. Epochs + 1 /\ trained \in Nat
    BY EpochsPositive
  <2>4. last \in Seq(1 .. Epochs)
    OBVIOUS
  <2>6. pc \in {"down", "done"} \cup BeforeSave \cup AfterSave
    OBVIOUS
  <2>7. restored \in BOOLEAN /\ overwritten \in BOOLEAN
    OBVIOUS
  <2> QED
    BY <2>1, <2>2, <2>3, <2>4, <2>6, <2>7 DEF TypeInv
<1>2. FilesInv
  BY DEF FilesInv
<1>3. WeightsInv /\ ListInv /\ ResumeInv
  BY DEF WeightsInv, ListInv, ResumeInv, Falling, BeforeSave, AfterSave
<1> QED
  BY <1>1, <1>2, <1>3 DEF IInv

LEMMA StartFreshInv == IInv /\ StartFresh => IInv'
<1> SUFFICES ASSUME IInv, StartFresh PROVE IInv'
  OBVIOUS
<1> USE DEF IInv, StartFresh, files
<1>1. TypeInv'
  BY DEF TypeInv, BeforeSave, AfterSave
<1>2. FilesInv'
  BY DEF FilesInv
<1>3. WeightsInv'
  BY DEF WeightsInv, BeforeSave, AfterSave
<1>5. ListInv'
  BY DEF WeightsInv, ListInv, BeforeSave, AfterSave
<1>4. ResumeInv'
  BY DEF ResumeInv
<1> QED
  BY <1>1, <1>2, <1>3, <1>4, <1>5

LEMMA ExitInv == IInv /\ Exit => IInv'
<1> SUFFICES ASSUME IInv, Exit PROVE IInv'
  OBVIOUS
<1> USE DEF IInv, Exit, files, history
<1>1. TypeInv'
  <2>1. UNCHANGED <<lastFile, bestFile, resume, overwritten>>
    OBVIOUS
  <2>2. epoch' \in 1 .. Epochs + 1
    BY EpochsPositive
  <2>3. last' \in Seq(1 .. Epochs)
    OBVIOUS
  <2>5. pc' \in {"down", "done"} \cup BeforeSave \cup AfterSave
    OBVIOUS
  <2> QED
    BY <2>1, <2>2, <2>3, <2>5 DEF TypeInv
<1>2. FilesInv'
  BY DEF FilesInv
<1>3. WeightsInv'
  BY DEF WeightsInv, AfterSave
<1>5. ListInv'
  BY DEF ListInv, Falling, BeforeSave, AfterSave
<1>4. ResumeInv'
  BY DEF ResumeInv
<1> QED
  BY <1>1, <1>2, <1>3, <1>4, <1>5

LEMMA RestoreInv == IInv /\ Restore => IInv'
<1> SUFFICES ASSUME IInv, Restore PROVE IInv'
  OBVIOUS
<1> USE DEF IInv, files
<1>0. /\ resume.state = "whole" /\ resume.last \in Seq(1 .. Epochs)
      /\ resume.last # << >> /\ Falling(resume.last)
      /\ resume.epoch = resume.last[1] + 1 /\ resume.last[1] \in 1 .. Epochs
      /\ lastFile[resume.last[1]] = resume.last[1]
  <2>1. resume.state = "whole" /\ resume.last # << >>
    BY DEF Restore, ResumeInv
  <2>2. resume.last \in Seq(1 .. Epochs) /\ resume.last[1] \in 1 .. Epochs
    BY <2>1, First DEF TypeInv
  <2>3. lastFile[Head(resume.last)] > 0 /\ Head(resume.last) = resume.last[1]
    BY <2>1, <2>2 DEF Restore, Loads
  <2>4. lastFile[resume.last[1]] = resume.last[1]
    BY <2>2, <2>3 DEF FilesInv
  <2> QED
    BY <2>1, <2>2, <2>4 DEF ResumeInv
<1>1. /\ UNCHANGED <<lastFile, bestFile, resume, overwritten>>
      /\ pc' = "epoch" /\ epoch' = resume.epoch /\ trained' = resume.last[1]
      /\ last' = resume.last /\ restored' = TRUE
  BY <1>0 DEF Restore
<1>2. TypeInv'
  <2>1. epoch' \in 1 .. Epochs + 1 /\ trained' \in Nat
    BY <1>0, <1>1, EpochsPositive
  <2> QED
    BY <1>0, <1>1, <2>1 DEF TypeInv, BeforeSave
<1>3. FilesInv'
  BY <1>1 DEF FilesInv
<1>4. WeightsInv'
  BY <1>0, <1>1, EpochsPositive DEF WeightsInv, AfterSave
<1>5. ListInv'
  <2>1. \A i \in DOMAIN resume.last : resume.last[i] < resume.epoch
    <3>1. ASSUME NEW i \in DOMAIN resume.last
          PROVE  resume.last[i] < resume.epoch
      <4>1. /\ i \in 1 .. Len(resume.last) /\ 1 \in DOMAIN resume.last
            /\ resume.last[i] \in 1 .. Epochs
        <5>1. 1 \in DOMAIN resume.last
          BY <1>0, First
        <5>2. i \in 1 .. Len(resume.last) /\ resume.last[i] \in 1 .. Epochs
          BY <1>0, Element
        <5> QED
          BY <5>1, <5>2
      <4>2. i = 1 \/ resume.last[i] < resume.last[1]
        BY <1>0, <4>1 DEF Falling
      <4> QED
        BY <1>0, <4>1, <4>2
    <3> QED
      BY <3>1
  <2> QED
    BY <1>0, <1>1, <2>1 DEF ListInv, AfterSave
<1>6. ResumeInv'
  BY <1>0, <1>1 DEF ResumeInv
<1> QED
  BY <1>2, <1>3, <1>4, <1>5, <1>6

(* The steps that change neither file nor list. *)
LEMMA QuietInv ==
  ASSUME IInv, UNCHANGED <<lastFile, bestFile, resume, epoch, last, restored,
                           overwritten>>,
         trained' \in Nat, WeightsInv',
         \/ pc \in BeforeSave /\ pc' \in BeforeSave \cup {"done"}
         \/ pc \in AfterSave /\ pc' \in AfterSave
         \/ pc' = pc
  PROVE  IInv'
<1> USE DEF IInv
<1>1. TypeInv'
  BY DEF TypeInv
<1>2. FilesInv'
  BY DEF FilesInv
<1>3. ListInv'
  BY DEF ListInv, BeforeSave, AfterSave
<1>4. ResumeInv'
  BY DEF ResumeInv, BeforeSave, AfterSave
<1> QED
  BY <1>1, <1>2, <1>3, <1>4

LEMMA TrainInv == IInv /\ Train => IInv'
<1> SUFFICES ASSUME IInv, Train PROVE IInv'
  OBVIOUS
<1> USE DEF IInv, files, history
<1>0. epoch \in 1 .. Epochs + 1 /\ trained \in Nat /\ WeightsInv
  BY DEF TypeInv
<1>1. CASE BeginEpoch
  <2>1. WeightsInv'
    BY <1>0, <1>1, EpochsPositive DEF BeginEpoch, WeightsInv, AfterSave
  <2> QED
    BY <1>0, <1>1, <2>1, QuietInv DEF BeginEpoch, BeforeSave
<1>2. CASE TrainBatch
  <2>1. WeightsInv'
    BY <1>0, <1>2 DEF TrainBatch, WeightsInv
  <2> QED
    BY <1>0, <1>2, <2>1, QuietInv DEF TrainBatch
<1>3. ASSUME NEW s \in Scores, Evaluate(s)
      PROVE  IInv'
  <2>1. WeightsInv'
    BY <1>0, <1>3 DEF Evaluate, WeightsInv, AfterSave
  <2>2. trained' \in Nat
    BY <1>0, <1>3 DEF Evaluate
  <2> QED
    BY <1>3, <2>1, <2>2, QuietInv DEF Evaluate, BeforeSave
<1> QED
  BY <1>1, <1>2, <1>3 DEF Train

LEMMA OtherInv ==
  ASSUME IInv, RestoreFails \/ NotBest \/ UNCHANGED trainVars
  PROVE  IInv'
<1> USE DEF IInv, files, memory, history, trainVars
<1>0. UNCHANGED <<lastFile, bestFile, resume, epoch, trained, last, restored,
                  overwritten>>
  BY DEF RestoreFails, NotBest
<1>1. \/ pc' = pc
      \/ pc \in AfterSave /\ pc' \in AfterSave
  BY DEF RestoreFails, NotBest, AfterSave
<1>2. WeightsInv'
  BY <1>0, <1>1 DEF WeightsInv, AfterSave
<1>3. trained' \in Nat
  BY <1>0 DEF TypeInv
<1> QED
  BY <1>0, <1>1, <1>2, <1>3, QuietInv

LEMMA BeginSaveInv == IInv /\ BeginSave => IInv'
<1> SUFFICES ASSUME IInv, BeginSave PROVE IInv'
  OBVIOUS
<1> USE DEF IInv, memory, history
<1>1. /\ pc = "save" /\ pc' = "saving" /\ epoch \in 1 .. Epochs
      /\ lastFile' = [lastFile EXCEPT ![epoch] = Partial]
      /\ UNCHANGED <<bestFile, resume, epoch, trained, last, restored, overwritten>>
  BY EpochsPositive DEF BeginSave, TypeInv, WeightsInv
<1>2. TypeInv'
  BY <1>1 DEF TypeInv, BeforeSave, Partial
<1>3. FilesInv'
  BY <1>1 DEF FilesInv, TypeInv, Partial
<1>4. WeightsInv'
  BY <1>1 DEF WeightsInv, AfterSave
<1>5. ListInv'
  BY <1>1 DEF ListInv, BeforeSave, AfterSave
<1>6. ResumeInv'
  <2>1. SUFFICES ASSUME resume.state = "whole", ~overwritten
                 PROVE  lastFile'[resume.last[1]] = resume.last[1]
    BY <1>1 DEF ResumeInv
  <2>2. /\ resume.last[1] \in 1 .. Epochs /\ lastFile[resume.last[1]] = resume.last[1]
        /\ epoch = resume.last[1] + 1
    BY <1>1, <2>1, First DEF ResumeInv, TypeInv
  <2> QED
    BY <1>1, <2>2 DEF TypeInv
<1> QED
  BY <1>2, <1>3, <1>4, <1>5, <1>6

LEMMA EndSaveInv == IInv /\ EndSave => IInv'
<1> SUFFICES ASSUME IInv, EndSave PROVE IInv'
  OBVIOUS
<1> USE DEF IInv, history
<1>1. /\ pc = "saving" /\ pc' = "prune" /\ epoch \in 1 .. Epochs /\ trained = epoch
      /\ lastFile' = [lastFile EXCEPT ![epoch] = epoch]
      /\ last' = <<epoch>> \o last
      /\ last \in Seq(1 .. Epochs)
      /\ UNCHANGED <<bestFile, resume, epoch, trained, restored, overwritten>>
  BY EpochsPositive DEF EndSave, TypeInv, WeightsInv
<1>2. /\ last' \in Seq(1 .. Epochs) /\ Len(last') = Len(last) + 1
      /\ last'[1] = epoch /\ \A i \in 1 .. Len(last) : last'[i + 1] = last[i]
  BY <1>1
<1>3. TypeInv'
  BY <1>1, <1>2 DEF TypeInv, AfterSave
<1>4. FilesInv'
  BY <1>1 DEF FilesInv, TypeInv
<1>5. WeightsInv'
  BY <1>1 DEF WeightsInv, AfterSave
<1>6. Falling(last')
  <2>1. SUFFICES ASSUME NEW i \in 1 .. Len(last'), NEW j \in 1 .. Len(last'), i < j
                 PROVE  last'[j] < last'[i]
    BY <1>2 DEF Falling
  <2>2. j - 1 \in 1 .. Len(last) /\ last'[j] = last[j - 1]
    <3>1. Len(last) \in Nat /\ j - 1 \in 1 .. Len(last) /\ (j - 1) + 1 = j
      BY <1>1, <1>2, <2>1
    <3> QED
      BY <1>2, <3>1
  <2>3. CASE i = 1
    BY <1>1, <1>2, <2>2, <2>3 DEF ListInv, BeforeSave
  <2>4. CASE i # 1
    <3>1. i - 1 \in 1 .. Len(last) /\ (i - 1) + 1 = i /\ i - 1 < j - 1
      BY <1>1, <1>2, <2>1, <2>4
    <3>2. last'[i] = last[i - 1]
      BY <1>2, <3>1
    <3>3. last[j - 1] < last[i - 1]
      BY <1>1, <2>2, <3>1 DEF ListInv, Falling
    <3> QED
      BY <2>2, <3>2, <3>3
  <2> QED
    BY <2>3, <2>4
<1>7. ListInv'
  <2>1. last' # << >>
    BY <1>1, <1>2
  <2>2. lastFile'[epoch] = epoch
    BY <1>1 DEF TypeInv
  <2> QED
    BY <1>1, <1>2, <1>6, <2>1, <2>2 DEF ListInv, BeforeSave
<1>8. ResumeInv'
  <2>1. SUFFICES ASSUME resume.state = "whole", ~overwritten
                 PROVE  lastFile'[resume.last[1]] = resume.last[1]
    BY <1>1 DEF ResumeInv
  <2>2. /\ resume.last[1] \in 1 .. Epochs /\ lastFile[resume.last[1]] = resume.last[1]
    BY <1>1, <2>1, First DEF ResumeInv, TypeInv
  <2> QED
    BY <1>1, <2>2 DEF TypeInv
<1> QED
  BY <1>3, <1>4, <1>5, <1>7, <1>8

(* What is pruned is two epochs old or older: neither the checkpoint just    *)
(* saved nor the one resume.pt names first.                                 *)
LEMMA PruneInv == IInv /\ Prune => IInv'
<1> SUFFICES ASSUME IInv, Prune PROVE IInv'
  OBVIOUS
<1> USE DEF IInv, history
<1> DEFINE n == Len(last)
<1>1. /\ pc = "prune" /\ pc' = "prune" /\ epoch \in 1 .. Epochs /\ trained = epoch
      /\ last \in Seq(1 .. Epochs) /\ n \in Nat /\ n >= 3
      /\ last[1] = epoch /\ lastFile[epoch] = epoch /\ Falling(last)
      /\ lastFile' = [lastFile EXCEPT ![last[n]] = Missing]
      /\ last' = SubSeq(last, 1, n - 1)
      /\ UNCHANGED <<bestFile, resume, epoch, trained, restored, overwritten>>
  <2>1. /\ pc = "prune" /\ pc' = "prune" /\ Len(last) > KeepLast
        /\ lastFile' = [lastFile EXCEPT ![last[n]] = Missing]
        /\ last' = SubSeq(last, 1, n - 1)
        /\ UNCHANGED <<bestFile, resume, epoch, trained, restored, overwritten>>
    BY DEF Prune, Excess, Removed
  <2>2. epoch \in 1 .. Epochs /\ trained = epoch
    BY <2>1, EpochsPositive DEF TypeInv, WeightsInv, AfterSave
  <2>3. last \in Seq(1 .. Epochs)
    BY DEF TypeInv
  <2>4. n \in Nat /\ n >= 3
    BY <2>1, <2>3, TrainingAssumption
  <2>5. last[1] = epoch /\ lastFile[epoch] = epoch /\ Falling(last)
    BY <2>1 DEF ListInv, AfterSave
  <2> QED
    BY <2>1, <2>2, <2>3, <2>4, <2>5
<1>2. last[n] \in 1 .. Epochs /\ last[n] < epoch - 1
  <2>1. 1 \in DOMAIN last /\ 2 \in DOMAIN last /\ n \in DOMAIN last
    BY <1>1
  <2>2. last[2] < last[1] /\ last[n] < last[2]
    BY <1>1, <2>1 DEF Falling
  <2>3. last[2] \in 1 .. Epochs /\ last[n] \in 1 .. Epochs
    BY <1>1, <2>1, Element
  <2> QED
    BY <1>1, <2>2, <2>3
<1>3. /\ last' \in Seq(1 .. Epochs) /\ Len(last') = n - 1
      /\ \A i \in 1 .. n - 1 : last'[i] = last[i]
  <2>1. Len(last) >= 2
    BY <1>1
  <2> QED
    BY <1>1, <2>1, AllButLast
<1>4. TypeInv'
  <2>1. lastFile' \in [1 .. Epochs -> Int]
    <3>1. lastFile \in [1 .. Epochs -> Int] /\ Missing \in Int
      BY DEF TypeInv, Missing
    <3> HIDE DEF n, Missing
    <3> QED
      BY <1>1, <3>1
  <2>2. pc' = pc /\ last' \in Seq(1 .. Epochs)
    BY <1>1, <1>3
  <2> HIDE DEF n
  <2> QED
    BY <1>1, <2>1, <2>2 DEF TypeInv
<1>5. FilesInv'
  <2>1. ASSUME NEW e \in 1 .. Epochs, lastFile'[e] > 0 PROVE lastFile'[e] = e
    <3>1. lastFile \in [1 .. Epochs -> Int] /\ Missing \in Int /\ ~(Missing > 0)
      BY DEF TypeInv, Missing
    <3>2. lastFile'[e] = lastFile[e]
      <4> HIDE DEF n, Missing
      <4> QED
        BY <1>1, <2>1, <3>1
    <3> QED
      BY <2>1, <3>2 DEF FilesInv
  <2> QED
    BY <1>1, <2>1 DEF FilesInv
<1>6. WeightsInv'
  BY <1>1 DEF WeightsInv, AfterSave
<1>7. ListInv'
  <2>1. Falling(last')
    <3>1. \A i \in DOMAIN last' : i \in DOMAIN last /\ last'[i] = last[i]
      BY <1>1, <1>3
    <3> QED
      BY <1>1, <3>1 DEF Falling
  <2>2. last' # << >> /\ last'[1] = epoch
    <3>1. 1 \in 1 .. n - 1 /\ n - 1 # 0
      BY <1>1
    <3>2. Len(last') # 0
      BY <1>3, <3>1
    <3>3. last'[1] = last[1]
      BY <1>3, <3>1
    <3> QED
      BY <1>1, <3>2, <3>3
  <2>3. lastFile'[epoch] = epoch
    BY <1>1, <1>2 DEF TypeInv
  <2> QED
    BY <1>1, <2>1, <2>2, <2>3 DEF ListInv, BeforeSave
<1>8. ResumeInv'
  <2>1. SUFFICES ASSUME resume.state = "whole", ~overwritten
                 PROVE  lastFile'[resume.last[1]] = resume.last[1]
    BY <1>1 DEF ResumeInv
  <2>2. /\ resume.last[1] \in 1 .. Epochs /\ lastFile[resume.last[1]] = resume.last[1]
        /\ epoch = resume.last[1] + 1
    BY <1>1, <2>1, First DEF ResumeInv, TypeInv
  <2>3. resume.last[1] # last[n]
    BY <1>1, <1>2, <2>2
  <2>4. lastFile'[resume.last[1]] = lastFile[resume.last[1]]
    <3>1. lastFile' = [lastFile EXCEPT ![last[n]] = Missing]
      BY <1>1
    <3> HIDE DEF n, Missing
    <3> QED
      BY <2>2, <2>3, <3>1 DEF TypeInv
  <2> QED
    BY <1>1, <2>2, <2>4
<1> QED
  BY <1>4, <1>5, <1>6, <1>7, <1>8

LEMMA BestInv ==
  ASSUME IInv, BeginBest \/ EndBest \/ DropWorst
  PROVE  IInv'
<1> USE DEF IInv, memory, history
<1>1. /\ pc \in AfterSave /\ pc' \in AfterSave
      /\ UNCHANGED <<lastFile, resume, epoch, trained, last, restored, overwritten>>
  BY DEF BeginBest, EndBest, DropWorst, AfterSave
<1>2. trained = epoch
  BY <1>1 DEF WeightsInv
<1>3. \/ bestFile' = [bestFile EXCEPT ![Candidate] = Partial]
      \/ bestFile' = [bestFile EXCEPT ![Candidate] = epoch]
      \/ bestFile' = [bestFile EXCEPT ![worst] = Missing]
  BY <1>2 DEF BeginBest, EndBest, DropWorst
<1>4. TypeInv'
  BY <1>1, <1>3 DEF TypeInv, Partial, Missing
<1>5. FilesInv'
  <2>1. Candidate[2] = epoch
    BY DEF Candidate
  <2>2. ASSUME NEW c \in Checkpoints, bestFile'[c] > 0
        PROVE  bestFile'[c] = c[2]
    <3>1. bestFile'[c] = bestFile[c] \/ (c = Candidate /\ bestFile'[c] = epoch)
      BY <1>3, <2>2 DEF TypeInv, Partial, Missing
    <3> QED
      BY <2>1, <2>2, <3>1 DEF FilesInv
  <2> QED
    BY <1>1, <2>2 DEF FilesInv
<1>6. WeightsInv' /\ ResumeInv'
  BY <1>1 DEF WeightsInv, ResumeInv, AfterSave
<1>7. ListInv'
  BY <1>1 DEF ListInv, AfterSave, BeforeSave
<1> QED
  BY <1>4, <1>5, <1>6, <1>7

LEMMA BeginResumeInv == IInv /\ BeginResume => IInv'
<1> SUFFICES ASSUME IInv, BeginResume PROVE IInv'
  OBVIOUS
<1> USE DEF IInv, memory, history
<1>1. /\ pc = "save_resume" /\ pc' = "saving_resume"
      /\ resume'.state = "partial" /\ resume'.last = << >>
      /\ UNCHANGED <<lastFile, bestFile, epoch, trained, last, restored, overwritten>>
  BY DEF BeginResume, NoResume
<1>2. TypeInv'
  BY <1>1 DEF TypeInv, AfterSave
<1>3. FilesInv' /\ WeightsInv' /\ ResumeInv'
  BY <1>1 DEF FilesInv, WeightsInv, ResumeInv, AfterSave
<1>4. ListInv'
  BY <1>1 DEF ListInv, AfterSave, BeforeSave
<1> QED
  BY <1>2, <1>3, <1>4

LEMMA EndResumeInv == IInv /\ EndResume => IInv'
<1> SUFFICES ASSUME IInv, EndResume PROVE IInv'
  OBVIOUS
<1> USE DEF IInv, NextEpoch
<1>1. /\ pc = "saving_resume" /\ pc' = "epoch" /\ epoch' = epoch + 1
      /\ epoch \in 1 .. Epochs /\ trained = epoch
      /\ last \in Seq(1 .. Epochs) /\ last # << >> /\ Falling(last)
      /\ last[1] = epoch /\ lastFile[epoch] = epoch
      /\ UNCHANGED <<lastFile, bestFile, trained, last, restored>>
  <2>1. /\ pc = "saving_resume" /\ pc' = "epoch" /\ epoch' = epoch + 1
        /\ UNCHANGED <<lastFile, bestFile, trained, last, restored>>
    BY DEF EndResume
  <2>2. epoch \in 1 .. Epochs /\ trained = epoch
    BY <2>1, EpochsPositive DEF TypeInv, WeightsInv, AfterSave
  <2>3. /\ last \in Seq(1 .. Epochs) /\ last # << >> /\ Falling(last)
        /\ last[1] = epoch /\ lastFile[epoch] = epoch
    BY <2>1 DEF TypeInv, ListInv, AfterSave
  <2> QED
    BY <2>1, <2>2, <2>3
<1>2. resume'.epoch = epoch + 1 /\ resume'.last = last
  BY DEF EndResume
<1>3. overwritten' \in BOOLEAN
  BY DEF EndResume
<1>4. TypeInv'
  <2>1. epoch' \in 1 .. Epochs + 1 /\ pc' \in BeforeSave
    BY <1>1, EpochsPositive DEF BeforeSave
  <2>2. resume'.last \in Seq(1 .. Epochs) /\ last' \in Seq(1 .. Epochs)
    BY <1>1, <1>2
  <2> QED
    BY <1>1, <1>3, <2>1, <2>2 DEF TypeInv
<1>5. FilesInv' /\ WeightsInv'
  BY <1>1, EpochsPositive DEF FilesInv, WeightsInv, AfterSave
<1>6. ListInv'
  <2>1. ASSUME NEW i \in DOMAIN last
        PROVE  last[i] < epoch + 1
    <3>1. i \in 1 .. Len(last) /\ last[i] \in 1 .. Epochs
      BY <1>1, Element
    <3>2. 1 \in DOMAIN last
      BY <1>1, First
    <3>3. i = 1 \/ last[i] < last[1]
      BY <1>1, <3>1, <3>2 DEF Falling
    <3> QED
      BY <1>1, <3>1, <3>3
  <2> QED
    BY <1>1, <2>1 DEF ListInv, AfterSave
<1>7. ResumeInv'
  BY <1>1, <1>2 DEF ResumeInv
<1> QED
  BY <1>4, <1>5, <1>6, <1>7

-----------------------------------------------------------------------------
(* What kills, restarts and restores cannot break. *)
THEOREM InductiveInvariant == Spec => []IInv
<1>1. IInv /\ [Next]_trainVars => IInv'
  BY StartFreshInv, RestoreInv, ExitInv, TrainInv, OtherInv, BeginSaveInv,
     EndSaveInv, PruneInv, BestInv, BeginResumeInv, EndResumeInv
     DEF Next, Save, Best
<1> QED
  BY InitInv, <1>1, PTL DEF Spec

(* Every checkpoint holds weights trained for exactly the epochs in its      *)
(* name, and a training that ended has trained them all (trainer.py:237-243,*)
(* 276-277).                                                                *)
THEOREM LineageKept == Spec => []EpochLineage
<1>1. IInv => EpochLineage
  BY DEF IInv, FilesInv, WeightsInv, EpochLineage
<1> QED
  BY <1>1, InductiveInvariant, PTL

(* A whole resume.pt can be resumed from (trainer.py:157-160, 183-193).      *)
THEOREM ResumeKept == Spec => []ResumeLoadable
<1>1. IInv => ResumeLoadable
  <2> SUFFICES ASSUME IInv, resume.state = "whole", ~overwritten
               PROVE  /\ resume.last # << >>
                      /\ Head(resume.last) = resume.epoch - 1
                      /\ lastFile[Head(resume.last)] = resume.epoch - 1
    BY DEF ResumeLoadable
  <2>1. /\ resume.last # << >> /\ resume.epoch = resume.last[1] + 1
        /\ lastFile[resume.last[1]] = resume.last[1]
    BY DEF IInv, ResumeInv
  <2>2. resume.last[1] \in 1 .. Epochs /\ Head(resume.last) = resume.last[1]
    BY <2>1, First DEF IInv, TypeInv
  <2> QED
    BY <2>1, <2>2
<1> QED
  BY <1>1, InductiveInvariant, PTL
-----------------------------------------------------------------------------
(* The heap of the best checkpoints, and the files that belong to it.       *)

(* Of any of its checkpoints, one has the highest score: what CHOOSE needs. *)
Ranked(h) ==
  \A S \in SUBSET h : S # {} => \E c \in S : \A d \in S : d[1] <= c[1]

Heap(h) ==
  /\ h \subseteq Checkpoints /\ IsFiniteSet(h) /\ Cardinality(h) <= KeepBest
  /\ Ranked(h)

(* Only the file of the worst of a full heap may be gone. *)
Good(h) ==
  \A d \in h :
    bestFile[d] > 0 \/ (d = WorstOf(h) /\ Cardinality(h) >= KeepBest)

HeapInv ==
  /\ Heap(best) /\ Heap(resume.best)
  /\ \A d \in best :
       d[2] <= epoch /\ (pc \in BeforeSave \cup {"prune"} => d[2] < epoch)
  /\ resume.state = "whole" => \A d \in resume.best : d[2] < resume.epoch
  /\ pc = "down" => best = {}
  /\ score \in Scores \cup {0}
  /\ pc \in {"save", "saving"} \cup AfterSave => score \in Scores

(* What a kill leaves of the heap, and what the heap in memory has become:  *)
(* a checkpoint is only dropped for a better one that is whole.             *)
SurvivalInv ==
  /\ pc \in {"saving_best", "drop"} => worst \notin best
  /\ ~(overwritten /\ restored) =>
       /\ pc \in BeforeSave \cup {"prune", "save_resume", "saving_resume"} =>
            Good(best)
       /\ pc = "saving_best" => \A d \in best \ {Candidate} : bestFile[d] > 0
       /\ pc = "drop" => \A d \in best : bestFile[d] > 0
  /\ resume.state = "whole" /\ ~overwritten =>
       /\ Good(resume.best)
       /\ pc \in BeforeSave \cup {"prune"} => best = resume.best
       /\ pc \in {"saving_best", "drop"} =>
            \/ worst = None
            \/ worst = WorstOf(resume.best) /\ Cardinality(resume.best) >= KeepBest

LEMMA RankedSmaller ==
  ASSUME NEW h, Ranked(h), NEW g \in SUBSET h
  PROVE  Ranked(g)
BY DEF Ranked

LEMMA RankedLarger ==
  ASSUME NEW h \in SUBSET Checkpoints, Ranked(h), NEW x \in Checkpoints
  PROVE  Ranked(h \cup {x})
<1> SUFFICES ASSUME NEW S \in SUBSET (h \cup {x}), S # {}
             PROVE  \E c \in S : \A d \in S : d[1] <= c[1]
  BY DEF Ranked
<1>1. \A c \in h \cup {x} : c[1] \in Int
  BY TrainingAssumption DEF Checkpoints
<1>2. CASE S \ {x} = {}
  <2>1. S = {x}
    BY <1>2
  <2>2. x[1] <= x[1]
    BY <1>1
  <2> QED
    BY <2>1, <2>2
<1>3. CASE S \ {x} # {}
  <2>1. S \ {x} \in SUBSET h
    OBVIOUS
  <2>2. PICK c \in S \ {x} : \A d \in S \ {x} : d[1] <= c[1]
    BY <1>3, <2>1 DEF Ranked
  <2>3. CASE x[1] <= c[1]
    BY <2>2, <2>3
  <2>4. CASE ~(x[1] <= c[1])
    <3>1. \A d \in S : d[1] <= x[1]
      <4>1. ASSUME NEW d \in S PROVE d[1] <= x[1]
        <5>1. d[1] \in Int /\ c[1] \in Int /\ x[1] \in Int
          BY <1>1
        <5>2. d = x \/ d[1] <= c[1]
          BY <2>2
        <5> QED
          BY <2>4, <5>1, <5>2
      <4> QED
        BY <4>1
    <3> QED
      BY <2>4, <3>1, <2>2
  <2> QED
    BY <2>3, <2>4
<1> QED
  BY <1>2, <1>3

LEMMA Worst ==
  ASSUME NEW h, Ranked(h), h # {}
  PROVE  WorstOf(h) \in h /\ \A d \in h : d[1] <= WorstOf(h)[1]
<1>1. \E c \in h : \A d \in h : d[1] <= c[1]
  BY DEF Ranked
<1> QED
  BY <1>1 DEF WorstOf

LEMMA EmptyHeap == Heap({})
<1>1. IsFiniteSet({}) /\ Cardinality({}) = 0
  BY FS_EmptySet
<1>2. KeepBest \in Nat
  BY TrainingAssumption
<1>3. Ranked({})
  BY DEF Ranked
<1> QED
  BY <1>1, <1>2, <1>3 DEF Heap

LEMMA HeapAdd ==
  ASSUME NEW h, Heap(h), Cardinality(h) < KeepBest, NEW x \in Checkpoints
  PROVE  Heap(h \cup {x})
<1>1. Cardinality(h) \in Nat
  BY FS_CardinalityType DEF Heap
<1>2. IsFiniteSet(h \cup {x}) /\ Cardinality(h \cup {x}) <= Cardinality(h) + 1
  <2>1. IsFiniteSet(h)
    BY DEF Heap
  <2>2. /\ IsFiniteSet(h \cup {x})
        /\ Cardinality(h \cup {x}) =
             IF x \in h THEN Cardinality(h) ELSE Cardinality(h) + 1
    BY <2>1, FS_AddElement
  <2> QED
    BY <1>1, <2>2
<1>3. Cardinality(h \cup {x}) \in Nat
  BY <1>2, FS_CardinalityType
<1>4. Cardinality(h \cup {x}) <= KeepBest
  BY <1>1, <1>2, <1>3, TrainingAssumption
<1>5. Ranked(h \cup {x})
  BY RankedLarger DEF Heap
<1> QED
  BY <1>2, <1>4, <1>5 DEF Heap

LEMMA HeapReplace ==
  ASSUME NEW h, Heap(h), NEW w \in h, NEW x \in Checkpoints
  PROVE  Heap((h \ {w}) \cup {x})
<1> DEFINE g == h \ {w}
<1>1. /\ IsFiniteSet(g) /\ Cardinality(g) = Cardinality(h) - 1
      /\ Cardinality(h) \in Nat
  BY FS_RemoveElement, FS_CardinalityType DEF Heap
<1>2. Cardinality(g) \in Nat
  BY <1>1, FS_CardinalityType
<1>3. Heap(g) /\ Cardinality(g) < KeepBest
  BY <1>1, <1>2, RankedSmaller, TrainingAssumption DEF Heap
<1> HIDE DEF g
<1>4. Heap(g \cup {x})
  BY <1>3, HeapAdd
<1> QED
  BY <1>4 DEF g

(* The candidate is of this epoch, which is later than those of the heap.   *)
LEMMA CandidateNew ==
  ASSUME IInv, HeapInv, pc \in AfterSave
  PROVE  /\ Candidate \in Checkpoints /\ Candidate[1] = score
         /\ Candidate[2] = epoch
         /\ pc = "prune" => Candidate \notin best
<1>1. epoch \in 1 .. Epochs /\ score \in Scores
  BY EpochsPositive DEF IInv, TypeInv, WeightsInv, HeapInv
<1>2. Candidate \in Checkpoints /\ Candidate[1] = score /\ Candidate[2] = epoch
  BY <1>1 DEF Candidate, Checkpoints
<1>3. pc = "prune" => Candidate \notin best
  BY <1>1, <1>2 DEF HeapInv
<1> QED
  BY <1>2, <1>3

(* What save_best() does, with the cases apart. *)
LEMMA BeginBestCases ==
  ASSUME IInv, HeapInv, BeginBest
  PROVE  /\ pc = "prune" /\ pc' = "saving_best"
         /\ Candidate' = Candidate
         /\ bestFile' = [bestFile EXCEPT ![Candidate] = Partial]
         /\ UNCHANGED <<lastFile, resume, epoch, trained, score, last, restored,
                        overwritten>>
         /\ \/ /\ Cardinality(best) < KeepBest
               /\ best' = best \cup {Candidate} /\ worst' = None
            \/ /\ Cardinality(best) >= KeepBest
               /\ best # {} /\ WorstOf(best) \in best
               /\ score < WorstOf(best)[1]
               /\ best' = (best \ {WorstOf(best)}) \cup {Candidate}
               /\ worst' = WorstOf(best)
<1>1. ASSUME Cardinality(best) >= KeepBest, best = {}
      PROVE  FALSE
  <2>1. Cardinality(best) = 0
    BY <1>1, FS_EmptySet
  <2>2. KeepBest \in Nat /\ KeepBest >= 2
    BY TrainingAssumption
  <2> QED
    BY <1>1, <2>1, <2>2
<1>2. Cardinality(best) >= KeepBest => WorstOf(best) \in best
  BY <1>1, Worst DEF HeapInv, Heap
<1>3. Candidate' = Candidate
  BY DEF BeginBest, Candidate
<1> QED
  BY <1>1, <1>2, <1>3 DEF BeginBest, history

LEMMA HeapStep ==
  ASSUME IInv, HeapInv, Next
  PROVE  HeapInv'
<1> USE DEF memory, history, files
<1>0. /\ epoch \in 1 .. Epochs + 1 /\ Epochs \in Nat
      /\ \A d \in best : d[2] \in Int
      /\ \A d \in best : d[2] <= epoch
  BY EpochsPositive DEF IInv, TypeInv, HeapInv, Heap, Checkpoints
<1>1. CASE StartFresh \/ RestoreFails
  BY <1>1 DEF StartFresh, RestoreFails, HeapInv, BeforeSave, AfterSave
<1>2. CASE Restore
  <2>1. /\ best' = resume.best /\ epoch' = resume.epoch /\ pc' = "epoch"
        /\ resume.state = "whole" /\ UNCHANGED <<resume, score>>
    BY <1>2 DEF Restore
  <2>2. \A d \in resume.best : d[2] < resume.epoch /\ d[2] \in Int
    BY <2>1 DEF HeapInv, Heap, Checkpoints
  <2>3. resume.epoch \in Int
    <3>1. IInv'
      BY <1>2, RestoreInv
    <3> QED
      BY <2>1, <3>1 DEF IInv, TypeInv
  <2>4. \A d \in resume.best : d[2] <= resume.epoch
    BY <2>2, <2>3
  <2> QED
    BY <2>1, <2>2, <2>4 DEF HeapInv, AfterSave
<1>3. CASE Exit
  BY <1>3, EmptyHeap DEF Exit, HeapInv, AfterSave
<1>4. CASE BeginEpoch \/ TrainBatch
  BY <1>4 DEF BeginEpoch, TrainBatch, HeapInv, BeforeSave, AfterSave
<1>5. ASSUME NEW s \in Scores, Evaluate(s)
      PROVE  HeapInv'
  BY <1>5 DEF Evaluate, HeapInv, BeforeSave, AfterSave
<1>6. CASE Save
  BY <1>6 DEF Save, BeginSave, EndSave, Prune, HeapInv, BeforeSave, AfterSave
<1>7. CASE BeginBest
  <2>1. Candidate \in Checkpoints /\ Candidate[2] = epoch
    BY <1>7, CandidateNew DEF BeginBest, AfterSave
  <2>2. Heap(best')
    BY <1>7, <2>1, BeginBestCases, HeapAdd, HeapReplace DEF HeapInv
  <2>3. \A d \in best' : d[2] <= epoch
    BY <1>0, <1>7, <2>1, BeginBestCases
  <2>4. pc' = "saving_best" /\ UNCHANGED <<resume, epoch, score>> /\ pc = "prune"
    BY <1>7, BeginBestCases
  <2> QED
    BY <2>2, <2>3, <2>4 DEF HeapInv, BeforeSave, AfterSave
<1>8. CASE NotBest \/ EndBest \/ DropWorst
  BY <1>8 DEF NotBest, EndBest, DropWorst, HeapInv, BeforeSave, AfterSave
<1>9. CASE BeginResume
  BY <1>9, EmptyHeap DEF BeginResume, NoResume, HeapInv, BeforeSave, AfterSave
<1>10. CASE EndResume
  <2>1. /\ resume'.best = best /\ resume'.epoch = epoch + 1 /\ epoch' = epoch + 1
        /\ pc' = "epoch" /\ UNCHANGED <<best, score>>
    BY <1>10 DEF EndResume, NextEpoch
  <2>2. \A d \in best : d[2] < epoch + 1 /\ d[2] <= epoch + 1
    BY <1>0
  <2> QED
    BY <2>1, <2>2 DEF HeapInv, AfterSave
<1> QED
  BY <1>1, <1>2, <1>3, <1>4, <1>5, <1>6, <1>7, <1>8, <1>9, <1>10
     DEF Next, Train, Best

(* The steps that leave the heap and its files alone. *)
LEMMA SurvivalQuiet ==
  ASSUME IInv, SurvivalInv,
         UNCHANGED <<bestFile, resume, best, overwritten, restored>>,
         \/ pc' = "down"
         \/ UNCHANGED <<pc, worst, score, epoch>>
         \/ pc \in BeforeSave /\ pc' \in BeforeSave \cup {"prune", "done"}
         \/ pc = "prune" /\ pc' \in {"prune", "save_resume"}
  PROVE  SurvivalInv'
BY DEF SurvivalInv, Good, Candidate, BeforeSave

LEMMA BeginBestSurvival ==
  ASSUME IInv, HeapInv, SurvivalInv, BeginBest
  PROVE  SurvivalInv'
<1>1. /\ Candidate \in Checkpoints /\ Candidate \notin best
      /\ pc = "prune" /\ pc' = "saving_best" /\ Candidate' = Candidate
      /\ bestFile' = [bestFile EXCEPT ![Candidate] = Partial]
      /\ UNCHANGED <<resume, restored, overwritten>>
  BY BeginBestCases, CandidateNew DEF AfterSave
<1>2. best \subseteq Checkpoints /\ bestFile \in [Checkpoints -> Int]
  BY DEF HeapInv, Heap, IInv, TypeInv
<1>3. \A d \in best : bestFile'[d] = bestFile[d]
  BY <1>1, <1>2
<1>4. worst' \notin best'
  <2>1. None \notin Checkpoints
    BY DEF None, Checkpoints
  <2> QED
    BY <1>1, <1>2, <2>1, BeginBestCases
<1>5. ~(overwritten /\ restored) => \A d \in best' \ {Candidate} : bestFile'[d] > 0
  <2>1. SUFFICES ASSUME ~(overwritten /\ restored), NEW d \in best' \ {Candidate}
                 PROVE  bestFile'[d] > 0
    OBVIOUS
  <2>2. d \in best /\ (d # WorstOf(best) \/ Cardinality(best) < KeepBest)
    BY <2>1, BeginBestCases
  <2>3. Good(best)
    BY <1>1, <2>1 DEF SurvivalInv
  <2>4. Cardinality(best) \in Nat /\ KeepBest \in Nat
    BY FS_CardinalityType, TrainingAssumption DEF HeapInv, Heap
  <2>5. bestFile[d] > 0
    BY <2>2, <2>3, <2>4 DEF Good
  <2> QED
    BY <1>3, <2>2, <2>5
<1>6. resume.state = "whole" /\ ~overwritten =>
        /\ best = resume.best /\ Good(resume.best)'
        /\ \/ worst' = None
           \/ worst' = WorstOf(resume.best) /\ Cardinality(resume.best) >= KeepBest
  <2>1. SUFFICES ASSUME resume.state = "whole", ~overwritten
                 PROVE  /\ best = resume.best /\ Good(resume.best)'
                        /\ \/ worst' = None
                           \/ /\ worst' = WorstOf(resume.best)
                              /\ Cardinality(resume.best) >= KeepBest
    OBVIOUS
  <2>2. best = resume.best /\ Good(resume.best)
    BY <1>1, <2>1 DEF SurvivalInv
  <2>3. Good(resume.best)'
    BY <1>1, <1>3, <2>2 DEF Good
  <2> QED
    BY <2>2, <2>3, BeginBestCases
<1> QED
  BY <1>1, <1>4, <1>5, <1>6 DEF SurvivalInv, BeforeSave

LEMMA EndBestSurvival ==
  ASSUME IInv, HeapInv, SurvivalInv, EndBest
  PROVE  SurvivalInv'
<1>1. /\ pc = "saving_best" /\ pc' = IF worst = None THEN "save_resume" ELSE "drop"
      /\ bestFile' = [bestFile EXCEPT ![Candidate] = trained]
      /\ UNCHANGED <<resume, best, worst, restored, overwritten>>
      /\ Candidate' = Candidate
  BY DEF EndBest, memory, history, Candidate
<1>2. trained > 0 /\ Candidate \in Checkpoints
  BY <1>1, CandidateNew, EpochsPositive DEF AfterSave, IInv, WeightsInv, TypeInv
<1>3. best \subseteq Checkpoints /\ resume.best \subseteq Checkpoints
      /\ bestFile \in [Checkpoints -> Int]
  BY DEF HeapInv, Heap, IInv, TypeInv
<1>4. \A d \in Checkpoints :
        bestFile'[d] = bestFile[d] \/ (d = Candidate /\ bestFile'[d] > 0)
  BY <1>1, <1>2, <1>3
<1>5. ~(overwritten /\ restored) => \A d \in best : bestFile'[d] > 0
  BY <1>1, <1>2, <1>3, <1>4 DEF SurvivalInv
<1>6. resume.state = "whole" /\ ~overwritten => Good(resume.best)'
  <2>1. resume.state = "whole" /\ ~overwritten => Good(resume.best)
    BY DEF SurvivalInv
  <2>2. Good(resume.best) => Good(resume.best)'
    BY <1>1, <1>3, <1>4 DEF Good
  <2> QED
    BY <2>1, <2>2
<1>7. worst \notin best
  BY <1>1 DEF SurvivalInv
<1>8. resume.state = "whole" /\ ~overwritten /\ worst # None =>
        worst = WorstOf(resume.best) /\ Cardinality(resume.best) >= KeepBest
  BY <1>1 DEF SurvivalInv
<1> QED
  BY <1>1, <1>5, <1>6, <1>7, <1>8 DEF SurvivalInv, Good, BeforeSave

LEMMA DropWorstSurvival ==
  ASSUME IInv, HeapInv, SurvivalInv, DropWorst
  PROVE  SurvivalInv'
<1>1. /\ pc = "drop" /\ pc' = "save_resume"
      /\ bestFile' = [bestFile EXCEPT ![worst] = Missing]
      /\ UNCHANGED <<resume, best, restored, overwritten>>
  BY DEF DropWorst, history
<1>2. best \subseteq Checkpoints /\ resume.best \subseteq Checkpoints
      /\ bestFile \in [Checkpoints -> Int]
  BY DEF HeapInv, Heap, IInv, TypeInv
<1>3. \A d \in Checkpoints : d # worst => bestFile'[d] = bestFile[d]
  BY <1>1, <1>2
<1>4. ~(overwritten /\ restored) => \A d \in best : bestFile'[d] > 0
  BY <1>1, <1>2, <1>3 DEF SurvivalInv
<1>5. resume.state = "whole" /\ ~overwritten => Good(resume.best)'
  <2>1. SUFFICES ASSUME resume.state = "whole", ~overwritten,
                        NEW d \in resume.best
                 PROVE  \/ bestFile'[d] > 0
                        \/ /\ d = WorstOf(resume.best)
                           /\ Cardinality(resume.best) >= KeepBest
    BY <1>1 DEF Good
  <2>2. CASE d # worst
    BY <1>2, <1>3, <2>1, <2>2 DEF SurvivalInv, Good
  <2>3. CASE d = worst
    <3>1. worst # None
      BY <1>2, <2>1, <2>3 DEF None, Checkpoints
    <3> QED
      BY <1>1, <2>1, <2>3, <3>1 DEF SurvivalInv
  <2> QED
    BY <2>2, <2>3
<1> QED
  BY <1>1, <1>4, <1>5 DEF SurvivalInv, Good, BeforeSave

LEMMA SurvivalStep ==
  ASSUME IInv, HeapInv, SurvivalInv, Next
  PROVE  SurvivalInv'
<1> USE DEF memory, history, files
<1>1. CASE StartFresh
  <2>1. /\ pc' = "epoch" /\ best' = {} /\ restored' = FALSE
        /\ overwritten' = (resume'.state = "whole")
    BY <1>1 DEF StartFresh, HeapInv
  <2> QED
    BY <2>1 DEF SurvivalInv, Good
<1>2. CASE Restore
  <2>1. /\ pc' = "epoch" /\ best' = resume.best /\ restored' = TRUE
        /\ UNCHANGED <<bestFile, resume, overwritten>> /\ resume.state = "whole"
    BY <1>2 DEF Restore
  <2> QED
    BY <2>1 DEF SurvivalInv, Good
<1>3. CASE RestoreFails \/ NotBest
  BY <1>3, SurvivalQuiet DEF RestoreFails, NotBest
<1>4. CASE Exit
  <2>1. pc' = "down" /\ UNCHANGED <<bestFile, resume, overwritten>>
    BY <1>4 DEF Exit
  <2> QED
    BY <2>1 DEF SurvivalInv, Good, BeforeSave
<1>5. CASE BeginEpoch \/ TrainBatch
  BY <1>5, SurvivalQuiet DEF BeginEpoch, TrainBatch, BeforeSave
<1>6. ASSUME NEW s \in Scores, Evaluate(s)
      PROVE  SurvivalInv'
  BY <1>6, SurvivalQuiet DEF Evaluate, BeforeSave
<1>7. CASE Save
  BY <1>7, SurvivalQuiet DEF Save, BeginSave, EndSave, Prune, BeforeSave
<1>8. CASE BeginBest
  BY <1>8, BeginBestSurvival
<1>9. CASE EndBest
  BY <1>9, EndBestSurvival
<1>10. CASE DropWorst
  BY <1>10, DropWorstSurvival
<1>11. CASE BeginResume
  <2>1. /\ pc = "save_resume" /\ pc' = "saving_resume" /\ resume'.state = "partial"
        /\ UNCHANGED <<bestFile, best, overwritten, restored>>
    BY <1>11 DEF BeginResume, NoResume
  <2> QED
    BY <2>1 DEF SurvivalInv, Good, BeforeSave
<1>12. CASE EndResume
  <2>1. /\ pc = "saving_resume" /\ pc' = "epoch" /\ resume'.best = best
        /\ overwritten' = (overwritten /\ restored)
        /\ UNCHANGED <<bestFile, best, restored>>
    BY <1>12 DEF EndResume
  <2>2. ~(overwritten /\ restored) => Good(best)
    BY <2>1 DEF SurvivalInv
  <2> QED
    BY <2>1, <2>2 DEF SurvivalInv, Good
<1> QED
  BY <1>1, <1>2, <1>3, <1>4, <1>5, <1>6, <1>7, <1>8, <1>9, <1>10, <1>11, <1>12
     DEF Next, Train, Best

LEMMA SurvivalInvariant == Spec => [](IInv /\ HeapInv /\ SurvivalInv)
<1>1. Init => HeapInv /\ SurvivalInv
  <2> SUFFICES ASSUME Init PROVE HeapInv /\ SurvivalInv
    OBVIOUS
  <2>1. /\ best = {} /\ resume.best = {} /\ resume.state = "missing"
        /\ pc = "down" /\ score = 0
    BY DEF Init, NoResume
  <2> QED
    BY <2>1, EmptyHeap DEF HeapInv, SurvivalInv, BeforeSave, AfterSave
<1>2. IInv /\ HeapInv /\ SurvivalInv /\ [Next]_trainVars
        => HeapInv' /\ SurvivalInv'
  <2>1. ASSUME HeapInv, SurvivalInv, UNCHANGED trainVars
        PROVE  HeapInv' /\ SurvivalInv'
    BY <2>1 DEF trainVars, files, memory, history, HeapInv, SurvivalInv, Good,
                Candidate
  <2> QED
    BY <2>1, HeapStep, SurvivalStep
<1> QED
  BY <1>1, <1>2, InductiveInvariant, PTL DEF Spec

(* However often a training is killed, of the checkpoints that resume.pt    *)
(* knows one as good as the best is whole (trainer.py:169-181).             *)
THEOREM BestKept == Spec => []BestSurvives
<1>1. IInv /\ HeapInv /\ SurvivalInv => BestSurvives
  <2> SUFFICES ASSUME HeapInv, SurvivalInv, resume.state = "whole",
                      ~overwritten, NEW d \in resume.best
               PROVE  \E c \in Checkpoints : bestFile[c] > 0 /\ c[1] <= d[1]
    BY DEF BestSurvives
  <2> DEFINE h == resume.best
  <2>1. Good(h) /\ Heap(h)
    BY DEF SurvivalInv, HeapInv
  <2>2. \A c \in h : c \in Checkpoints /\ c[1] \in Int
    BY <2>1, TrainingAssumption DEF Heap, Checkpoints
  <2>3. CASE bestFile[d] > 0
    <3>1. d[1] <= d[1]
      BY <2>2
    <3> QED
      BY <2>2, <2>3, <3>1
  <2>4. CASE ~(bestFile[d] > 0)
    <3>1. d = WorstOf(h) /\ Cardinality(h) >= KeepBest
      BY <2>1, <2>4 DEF Good
    <3>2. h # {d}
      <4>1. KeepBest \in Nat /\ KeepBest >= 2
        BY TrainingAssumption
      <4>2. Cardinality({d}) = 1
        BY FS_Singleton
      <4> QED
        BY <3>1, <4>1, <4>2
    <3>3. PICK c \in h : c # d
      BY <3>2
    <3>4. bestFile[c] > 0
      BY <2>1, <3>1, <3>3 DEF Good
    <3>5. c[1] <= d[1]
      BY <2>1, <3>1, Worst DEF Heap
    <3> QED
      BY <2>2, <3>4, <3>5
  <2> QED
    BY <2>3, <2>4
<1> QED
  BY <1>1, SurvivalInvariant, PTL

-----------------------------------------------------------------------------
(* The files of the last checkpoints are those of a list and one more. *)

Present   == {e \in 1 .. Epochs : lastFile[e] # Missing}
Listed(l) == {l[i] : i \in DOMAIN l}

BoundInv ==
  /\ Len(last) <= KeepLast + 1 /\ Len(resume.last) <= KeepLast
  /\ pc \in BeforeSave \cup {"done"} \cup (AfterSave \ {"prune"}) =>
       Len(last) <= KeepLast
  /\ fresh \in Nat
  /\ fresh = 0 => resume.state = "missing" /\ pc = "down" /\ Present = {}
  /\ fresh <= 1 =>
       /\ ~overwritten
       /\ pc \in BeforeSave \cup {"done"} => Present \subseteq Listed(last) \cup {epoch}
       /\ pc \in AfterSave => Present \subseteq Listed(last)
       /\ pc = "down" => Cardinality(Present) <= KeepLast + 1
       /\ resume.state = "whole" =>
            Present \subseteq Listed(resume.last) \cup {resume.epoch}

LEMMA ListedBound ==
  ASSUME NEW l \in Seq(1 .. Epochs)
  PROVE  /\ IsFiniteSet(Listed(l)) /\ Cardinality(Listed(l)) \in Nat
         /\ Cardinality(Listed(l)) <= Len(l)
<1> DEFINE f == [i \in 1 .. Len(l) |-> l[i]]
<1>1. Len(l) \in Nat /\ DOMAIN l = 1 .. Len(l)
  OBVIOUS
<1>2. f \in Surjection(1 .. Len(l), Listed(l))
  BY <1>1 DEF Surjection, Listed
<1>3. IsFiniteSet(1 .. Len(l)) /\ Cardinality(1 .. Len(l)) = Len(l)
  <2>1. /\ IsFiniteSet(1 .. Len(l))
        /\ Cardinality(1 .. Len(l)) = IF 1 > Len(l) THEN 0 ELSE Len(l) - 1 + 1
    BY <1>1, FS_Interval
  <2> QED
    BY <1>1, <2>1
<1> HIDE DEF f
<1>4. IsFiniteSet(Listed(l)) /\ Cardinality(Listed(l)) <= Cardinality(1 .. Len(l))
  BY <1>2, <1>3, FS_Surjection
<1> QED
  BY <1>3, <1>4, FS_CardinalityType

LEMMA FewFiles ==
  ASSUME NEW l \in Seq(1 .. Epochs), NEW S, NEW x, Len(l) <= KeepLast,
         S \subseteq Listed(l) \cup {x}
  PROVE  Cardinality(S) <= KeepLast + 1
<1>1. /\ IsFiniteSet(Listed(l)) /\ Cardinality(Listed(l)) \in Nat
      /\ Cardinality(Listed(l)) <= Len(l)
  BY ListedBound
<1>2. /\ IsFiniteSet(Listed(l) \cup {x})
      /\ Cardinality(Listed(l) \cup {x}) <= Cardinality(Listed(l)) + 1
  <2>1. /\ IsFiniteSet(Listed(l) \cup {x})
        /\ Cardinality(Listed(l) \cup {x}) =
             IF x \in Listed(l) THEN Cardinality(Listed(l))
                                ELSE Cardinality(Listed(l)) + 1
    BY <1>1, FS_AddElement
  <2> QED
    BY <1>1, <2>1
<1>3. IsFiniteSet(S) /\ Cardinality(S) <= Cardinality(Listed(l) \cup {x})
  BY <1>2, FS_Subset
<1>4. /\ Cardinality(S) \in Nat /\ Cardinality(Listed(l) \cup {x}) \in Nat
      /\ Len(l) \in Nat /\ KeepLast \in Nat
  BY <1>2, <1>3, FS_CardinalityType, TrainingAssumption
<1> QED
  BY <1>1, <1>2, <1>3, <1>4

LEMMA BoundGivesLast == IInv /\ BoundInv => LastBounded
<1> SUFFICES ASSUME IInv, BoundInv, fresh <= 1
             PROVE  Cardinality(Present) <= KeepLast + 1
  BY DEF LastBounded, Present
<1>1. last \in Seq(1 .. Epochs)
  BY DEF IInv, TypeInv
<1>2. CASE pc = "down"
  BY <1>2 DEF BoundInv
<1>3. CASE pc \in BeforeSave
  BY <1>1, <1>3, FewFiles DEF BoundInv
<1>4. CASE pc \in AfterSave
  <2>1. Present \subseteq Listed(last)
    BY <1>4 DEF BoundInv
  <2>2. /\ IsFiniteSet(Listed(last)) /\ Cardinality(Listed(last)) \in Nat
        /\ Cardinality(Listed(last)) <= Len(last)
    BY <1>1, ListedBound
  <2>3. IsFiniteSet(Present) /\ Cardinality(Present) <= Cardinality(Listed(last))
    BY <2>1, <2>2, FS_Subset
  <2>4. /\ Cardinality(Present) \in Nat /\ Len(last) \in Nat /\ KeepLast \in Nat
        /\ Len(last) <= KeepLast + 1
    BY <1>1, <2>3, FS_CardinalityType, TrainingAssumption DEF BoundInv
  <2> QED
    BY <2>2, <2>3, <2>4
<1>5. CASE pc = "done"
  BY <1>1, <1>5, FewFiles DEF BoundInv
<1> QED
  BY <1>2, <1>3, <1>4, <1>5 DEF IInv, TypeInv

(* The steps that change no list and no file of the last checkpoints. *)
LEMMA BoundQuiet ==
  ASSUME IInv, BoundInv,
         UNCHANGED <<lastFile, resume, epoch, last, overwritten, fresh>>,
         \/ pc' = pc
         \/ pc \in BeforeSave /\ pc' \in BeforeSave \cup {"done"}
         \/ pc = "prune" /\ Len(last) <= KeepLast /\ pc' \in AfterSave
         \/ pc \in AfterSave \ {"prune"} /\ pc' \in AfterSave
  PROVE  BoundInv'
<1>1. Present' = Present
  BY DEF Present
<1> QED
  BY <1>1 DEF BoundInv, Listed, BeforeSave, AfterSave

LEMMA BoundEndSave ==
  ASSUME IInv, BoundInv, EndSave
  PROVE  BoundInv'
<1>1. /\ pc = "saving" /\ pc' = "prune" /\ epoch \in 1 .. Epochs
      /\ lastFile' = [lastFile EXCEPT ![epoch] = trained]
      /\ last' = <<epoch>> \o last
      /\ last \in Seq(1 .. Epochs)
      /\ UNCHANGED <<resume, overwritten, fresh, epoch>>
  BY EpochsPositive DEF EndSave, history, IInv, TypeInv, WeightsInv
<1>2. /\ Len(last') = Len(last) + 1 /\ Len(last) \in Nat /\ KeepLast \in Nat
      /\ last' \in Seq(1 .. Epochs)
      /\ last'[1] = epoch /\ \A i \in 1 .. Len(last) : last'[i + 1] = last[i]
  BY <1>1, TrainingAssumption
<1>3. Listed(last) \cup {epoch} \subseteq Listed(last')
  <2>1. 1 \in DOMAIN last' /\ \A i \in DOMAIN last : i + 1 \in DOMAIN last'
    BY <1>1, <1>2
  <2>2. epoch \in Listed(last')
    BY <1>2, <2>1 DEF Listed
  <2>3. ASSUME NEW i \in DOMAIN last PROVE last[i] \in Listed(last')
    <3>1. i + 1 \in DOMAIN last' /\ last'[i + 1] = last[i]
      BY <1>1, <1>2, <2>1
    <3> QED
      BY <3>1 DEF Listed
  <2> QED
    BY <2>2, <2>3 DEF Listed
<1>4. Present' \subseteq Present \cup {epoch}
  BY <1>1 DEF Present, IInv, TypeInv
<1>5. Len(last') <= KeepLast + 1
  BY <1>1, <1>2 DEF BoundInv, BeforeSave
<1>6. fresh <= 1 => Present' \subseteq Listed(last')
  BY <1>1, <1>3, <1>4 DEF BoundInv, BeforeSave
<1>7. fresh <= 1 /\ resume.state = "whole" =>
        Present' \subseteq Listed(resume.last) \cup {resume.epoch}
  <2>1. fresh <= 1 /\ resume.state = "whole" => epoch = resume.epoch
    BY <1>1 DEF BoundInv, IInv, ResumeInv
  <2> QED
    BY <1>4, <2>1 DEF BoundInv
<1>8. fresh # 0
  BY <1>1 DEF BoundInv
<1> QED
  BY <1>1, <1>5, <1>6, <1>7, <1>8 DEF BoundInv, BeforeSave, Listed

LEMMA BoundPrune ==
  ASSUME IInv, BoundInv, Prune
  PROVE  BoundInv'
<1> DEFINE n == Len(last)
<1>1. /\ pc = "prune" /\ pc' = "prune"
      /\ lastFile' = [lastFile EXCEPT ![last[n]] = Missing]
      /\ last' = SubSeq(last, 1, n - 1)
      /\ last \in Seq(1 .. Epochs) /\ n \in Nat /\ KeepLast \in Nat /\ n > KeepLast
      /\ UNCHANGED <<resume, overwritten, fresh, epoch>>
  BY TrainingAssumption DEF Prune, Excess, Removed, history, IInv, TypeInv
<1>2. /\ last' \in Seq(1 .. Epochs) /\ Len(last') = n - 1
      /\ \A i \in 1 .. n - 1 : last'[i] = last[i]
  <2>1. n >= 2
    BY <1>1, TrainingAssumption
  <2> QED
    BY <1>1, <2>1, AllButLast
<1>3. last[n] \in 1 .. Epochs /\ DOMAIN last = 1 .. n /\ DOMAIN last' = 1 .. n - 1
  <2>1. DOMAIN last = 1 .. n /\ DOMAIN last' = 1 .. n - 1
    BY <1>1, <1>2
  <2>2. n \in DOMAIN last
    BY <1>1, <2>1, TrainingAssumption
  <2> QED
    BY <1>1, <2>1, <2>2, Element
<1>4. Present' = Present \ {last[n]}
  BY <1>1, <1>3 DEF Present, IInv, TypeInv
<1>5. Listed(last) \ {last[n]} \subseteq Listed(last')
  <2>1. SUFFICES ASSUME NEW i \in 1 .. n, last[i] # last[n]
                 PROVE  last[i] \in Listed(last')
    BY <1>3 DEF Listed
  <2>2. i \in 1 .. n - 1
    BY <1>1, <2>1
  <2>3. last'[i] = last[i]
    BY <1>2, <2>2
  <2> QED
    BY <1>3, <2>2, <2>3 DEF Listed
<1>6. Len(last') <= KeepLast + 1
  BY <1>1, <1>2 DEF BoundInv
<1> QED
  BY <1>1, <1>4, <1>5, <1>6 DEF BoundInv, BeforeSave, AfterSave, Listed

LEMMA BoundStep ==
  ASSUME IInv, BoundInv, Next
  PROVE  BoundInv'
<1> USE DEF memory, history, files
<1>0. fresh \in Nat /\ KeepLast \in Nat /\ last \in Seq(1 .. Epochs)
  BY TrainingAssumption DEF BoundInv, IInv, TypeInv
<1>1. CASE StartFresh
  <2>1. /\ pc = "down" /\ pc' = "epoch" /\ fresh' = fresh + 1
        /\ overwritten' = (resume.state = "whole")
        /\ UNCHANGED <<lastFile, resume, epoch, last>> /\ last = << >>
    BY <1>1 DEF StartFresh, IInv, WeightsInv
  <2>2. Present' = Present
    BY <2>1 DEF Present
  <2>3. Len(last) <= KeepLast
    BY <1>0, <2>1
  <2>4. fresh' <= 1 => fresh = 0
    BY <1>0, <2>1
  <2>5. fresh' \in Nat /\ fresh' # 0
    BY <1>0, <2>1
  <2>6. Len(last') <= KeepLast /\ Len(last') <= KeepLast + 1
    BY <1>0, <2>1, <2>3
  <2> QED
    BY <2>1, <2>2, <2>4, <2>5, <2>6 DEF BoundInv, BeforeSave, AfterSave, Listed
<1>2. CASE Restore
  <2>1. /\ pc' = "epoch" /\ epoch' = resume.epoch /\ last' = resume.last
        /\ resume.state = "whole"
        /\ UNCHANGED <<lastFile, resume, overwritten, fresh>>
    BY <1>2 DEF Restore
  <2>2. Present' = Present
    BY <2>1 DEF Present
  <2>3. Len(resume.last) \in Nat
    BY DEF IInv, TypeInv
  <2>4. Len(resume.last) <= KeepLast + 1
    BY <1>0, <2>3 DEF BoundInv
  <2> QED
    BY <2>1, <2>2, <2>4 DEF BoundInv, BeforeSave, AfterSave, Listed
<1>3. CASE RestoreFails
  BY <1>3, BoundQuiet DEF RestoreFails
<1>4. CASE Exit
  <2>1. /\ pc' = "down" /\ last' = << >> /\ fresh # 0
        /\ UNCHANGED <<lastFile, resume, overwritten, fresh>>
    BY <1>4 DEF Exit, BoundInv
  <2>2. Present' = Present
    BY <2>1 DEF Present
  <2>3. fresh <= 1 => Cardinality(Present) <= KeepLast + 1
    BY BoundGivesLast DEF LastBounded, Present
  <2>4. Len(last') = 0 /\ Len(last') <= KeepLast + 1
    BY <1>0, <2>1
  <2> QED
    BY <2>1, <2>2, <2>3, <2>4 DEF BoundInv, BeforeSave, AfterSave, Listed
<1>5. CASE BeginEpoch \/ TrainBatch
  BY <1>5, BoundQuiet DEF BeginEpoch, TrainBatch, BeforeSave
<1>6. ASSUME NEW s \in Scores, Evaluate(s)
      PROVE  BoundInv'
  BY <1>6, BoundQuiet DEF Evaluate, BeforeSave
<1>7. CASE BeginSave
  <2>1. /\ pc = "save" /\ pc' = "saving" /\ epoch \in 1 .. Epochs
        /\ lastFile' = [lastFile EXCEPT ![epoch] = Partial]
        /\ UNCHANGED <<resume, epoch, last, overwritten, fresh>>
    BY <1>7, EpochsPositive DEF BeginSave, IInv, TypeInv, WeightsInv
  <2>2. Present' \subseteq Present \cup {epoch}
    BY <2>1 DEF Present, IInv, TypeInv
  <2>3. fresh <= 1 /\ resume.state = "whole" => epoch = resume.epoch
    BY <2>1 DEF BoundInv, IInv, ResumeInv
  <2>4. fresh # 0
    BY <2>1 DEF BoundInv
  <2> QED
    BY <2>1, <2>2, <2>3, <2>4 DEF BoundInv, BeforeSave, AfterSave, Listed
<1>8. CASE EndSave
  BY <1>8, BoundEndSave
<1>9. CASE Prune
  BY <1>9, BoundPrune
<1>10. CASE BeginBest \/ NotBest
  <2>1. Len(last) <= KeepLast
    BY <1>0, <1>10 DEF BeginBest, NotBest, Excess
  <2> QED
    BY <1>10, <2>1, BoundQuiet DEF BeginBest, NotBest, AfterSave
<1>11. CASE EndBest \/ DropWorst
  BY <1>11, BoundQuiet DEF EndBest, DropWorst, AfterSave
<1>12. CASE BeginResume
  <2>1. /\ pc = "save_resume" /\ pc' = "saving_resume"
        /\ resume'.state = "partial" /\ resume'.last = << >>
        /\ UNCHANGED <<lastFile, epoch, last, overwritten, fresh>>
    BY <1>12 DEF BeginResume, NoResume
  <2>2. Present' = Present
    BY <2>1 DEF Present
  <2>3. Len(resume'.last) <= KeepLast
    BY <1>0, <2>1
  <2> QED
    BY <2>1, <2>2, <2>3 DEF BoundInv, BeforeSave, AfterSave, Listed
<1>13. CASE EndResume
  <2>1. /\ pc = "saving_resume" /\ pc' = "epoch" /\ resume'.last = last
        /\ overwritten' = (overwritten /\ restored)
        /\ UNCHANGED <<lastFile, last, fresh>>
    BY <1>13 DEF EndResume
  <2>2. Present' = Present
    BY <2>1 DEF Present
  <2>3. fresh <= 1 => Present \subseteq Listed(last)
    BY <2>1 DEF BoundInv, AfterSave
  <2>4. Len(last) <= KeepLast
    BY <2>1 DEF BoundInv, AfterSave
  <2>5. fresh # 0
    BY <2>1 DEF BoundInv
  <2>6. fresh <= 1 => ~overwritten'
    BY <2>1 DEF BoundInv
  <2>7. /\ Len(last') <= KeepLast /\ Len(last') <= KeepLast + 1
        /\ Len(resume'.last) <= KeepLast
    BY <1>0, <2>1, <2>4
  <2>8. fresh <= 1 =>
          /\ Present' \subseteq Listed(last') \cup {epoch'}
          /\ Present' \subseteq Listed(resume'.last) \cup {resume'.epoch}
    BY <2>1, <2>2, <2>3
  <2> QED
    BY <1>0, <2>1, <2>5, <2>6, <2>7, <2>8 DEF BoundInv, BeforeSave, AfterSave
<1> QED
  BY <1>1, <1>2, <1>3, <1>4, <1>5, <1>6, <1>7, <1>8, <1>9, <1>10, <1>11, <1>12,
     <1>13 DEF Next, Train, Save, Best

LEMMA BoundInvariant == Spec => [](IInv /\ BoundInv)
<1>1. Init => BoundInv
  <2> SUFFICES ASSUME Init PROVE BoundInv
    OBVIOUS
  <2>1. /\ last = << >> /\ resume.last = << >> /\ resume.state = "missing"
        /\ pc = "down" /\ fresh = 0 /\ overwritten = FALSE
    BY DEF Init, NoResume
  <2>2. Present = {}
    BY DEF Init, Present
  <2>3. KeepLast \in Nat /\ Cardinality(Present) = 0
    BY <2>2, FS_EmptySet, TrainingAssumption
  <2>4. Len(last) = 0 /\ Len(resume.last) = 0
    BY <2>1
  <2> QED
    BY <2>1, <2>2, <2>3, <2>4 DEF BoundInv, BeforeSave, AfterSave
<1>2. IInv /\ BoundInv /\ [Next]_trainVars => BoundInv'
  <2>1. ASSUME BoundInv, UNCHANGED trainVars
        PROVE  BoundInv'
    BY <2>1 DEF trainVars, files, memory, history, BoundInv, Present, Listed
  <2> QED
    BY <2>1, BoundStep
<1> QED
  BY <1>1, <1>2, InductiveInvariant, PTL DEF Spec

(* Kills and restores leave at most one last checkpoint over what is kept   *)
(* (trainer.py:129, 157-160).                                               *)
THEOREM LastKeptBounded == Spec => []LastBounded
BY BoundInvariant, BoundGivesLast, PTL

-----------------------------------------------------------------------------
(* The rest of the types. *)

RestInv ==
  /\ lastFile \in [1 .. Epochs -> Contents]
  /\ bestFile \in [Checkpoints -> Contents]
  /\ resume.state \in {"missing", "partial", "whole"}
  /\ resume.epoch \in 1 .. Epochs + 1
  /\ resume.state # "whole" => resume.last = << >>
  /\ step \in 0 .. Batches
  /\ lr \in Int \X Int
  /\ worst \in Checkpoints \cup {None}
  /\ fresh \in 0 .. starts /\ starts \in 0 .. MaxStarts

LEMMA IntProduct ==
  ASSUME NEW a \in Int, NEW b \in Int
  PROVE  a * b \in Int
OBVIOUS

LEMMA LrType ==
  ASSUME NEW e \in Int, NEW s \in Int
  PROVE  CalcLr(e, s) \in Int \X Int
<1> DEFINE i  == Index(e)
           lo == IF i = 1 THEN <<0, 0>> ELSE Pairs[i - 1]
           hi == Pairs[i]
<1>1. i \in DOMAIN Pairs /\ i - 1 \in DOMAIN Pairs
  BY TrainingAssumption DEF Index
<1>2. hi \in Int \X Int /\ lo \in Int \X Int
  <2>1. \A k \in DOMAIN Pairs : Pairs[k] \in Nat \X Int
    BY TrainingAssumption
  <2> QED
    BY <1>1, <2>1
<1>3. lo[1] \in Int /\ lo[2] \in Int /\ hi[1] \in Int /\ hi[2] \in Int
  BY <1>2
<1> HIDE DEF lo, hi, i
<1>4. Batches \in Int
  BY TrainingAssumption
<1>5. (hi[1] - lo[1]) * Batches \in Int /\ lo[2] * (hi[1] - lo[1]) \in Int
      /\ (e - lo[1]) * Batches \in Int
  <2>1. hi[1] - lo[1] \in Int /\ e - lo[1] \in Int
    BY <1>3
  <2> QED
    BY <1>3, <1>4, <2>1, IntProduct
<1>6. lo[2] * (hi[1] - lo[1]) * Batches \in Int
  BY <1>4, <1>5, IntProduct
<1>7. ((e - lo[1]) * Batches + s) * (hi[2] - lo[2]) \in Int
  <2>1. (e - lo[1]) * Batches + s \in Int /\ hi[2] - lo[2] \in Int
    BY <1>3, <1>5
  <2> QED
    BY <2>1, IntProduct
<1>8. << lo[2] * (hi[1] - lo[1]) * Batches
           + ((e - lo[1]) * Batches + s) * (hi[2] - lo[2]),
         (hi[1] - lo[1]) * Batches >> \in Int \X Int
  <2> DEFINE p == lo[2] * (hi[1] - lo[1]) * Batches
             q == ((e - lo[1]) * Batches + s) * (hi[2] - lo[2])
             d == (hi[1] - lo[1]) * Batches
  <2>1. p \in Int /\ q \in Int /\ d \in Int
    BY <1>5, <1>6, <1>7
  <2> HIDE DEF p, q, d
  <2>2. <<p + q, d>> \in Int \X Int
    BY <2>1
  <2> QED
    BY <2>2 DEF p, q, d
<1> QED
  BY <1>8 DEF CalcLr, lo, hi, i

LEMMA RestStep ==
  ASSUME IInv, HeapInv, RestInv, Next
  PROVE  RestInv'
<1> USE DEF memory, history, files, RestInv
<1>0. /\ Batches \in Nat /\ MaxStarts \in Nat /\ Epochs \in Nat /\ Epochs >= 1
      /\ epoch \in 1 .. Epochs + 1
      /\ starts \in Nat /\ fresh \in Nat
  BY TrainingAssumption, EpochsPositive DEF IInv, TypeInv
<1>1. CASE StartFresh
  BY <1>0, <1>1, SMTT(20) DEF StartFresh
<1>2. CASE Restore \/ RestoreFails
  BY <1>0, <1>2, SMTT(20) DEF Restore, RestoreFails
<1>3. CASE Exit
  BY <1>0, <1>3 DEF Exit
<1>4. CASE BeginEpoch
  BY <1>0, <1>4 DEF BeginEpoch
<1>5. CASE TrainBatch
  <2>1. /\ lr' = CalcLr(epoch, step) /\ step' = step + 1 /\ step < Batches
        /\ UNCHANGED <<lastFile, bestFile, resume, worst, fresh, starts>>
    BY <1>5 DEF TrainBatch
  <2>2. lr' \in Int \X Int
    BY <1>0, <2>1, LrType
  <2>3. step' \in 0 .. Batches
    BY <1>0, <2>1
  <2> QED
    BY <2>1, <2>2, <2>3
<1>6. ASSUME NEW s \in Scores, Evaluate(s)
      PROVE  RestInv'
  BY <1>6 DEF Evaluate
<1>7. CASE Save
  <2>1. trained \in Contents \/ pc # "saving"
    BY <1>0 DEF IInv, WeightsInv, Contents
  <2>2. lastFile' \in [1 .. Epochs -> Contents]
    BY <1>7, <2>1 DEF Save, BeginSave, EndSave, Prune, Removed, Contents
  <2> QED
    BY <1>7, <2>2 DEF Save, BeginSave, EndSave, Prune
<1>8. CASE BeginBest
  <2>1. bestFile' \in [Checkpoints -> Contents]
    BY <1>8, BeginBestCases DEF Contents
  <2>2. worst' \in Checkpoints \cup {None}
    BY <1>8, BeginBestCases DEF HeapInv, Heap
  <2> QED
    BY <1>8, <2>1, <2>2 DEF BeginBest
<1>9. CASE EndBest
  <2>1. trained \in Contents
    BY <1>0, <1>9 DEF EndBest, IInv, WeightsInv, AfterSave, Contents
  <2> QED
    BY <1>9, <2>1 DEF EndBest
<1>10. CASE NotBest \/ DropWorst
  BY <1>10 DEF NotBest, DropWorst, Contents
<1>11. CASE BeginResume
  BY <1>0, <1>11 DEF BeginResume, NoResume
<1>12. CASE EndResume
  <2>1. epoch <= Epochs
    BY <1>12 DEF EndResume, IInv, WeightsInv, AfterSave
  <2>2. resume'.state = "whole" /\ resume'.epoch = epoch + 1
    BY <1>12 DEF EndResume, NextEpoch
  <2> QED
    BY <1>0, <1>12, <2>1, <2>2 DEF EndResume
<1> QED
  BY <1>1, <1>2, <1>3, <1>4, <1>5, <1>6, <1>7, <1>8, <1>9, <1>10, <1>11, <1>12
     DEF Next, Train, Best

LEMMA RestInvariant == Spec => []RestInv
<1>1. Init => RestInv
  <2> SUFFICES ASSUME Init PROVE RestInv
    OBVIOUS
  <2>1. /\ resume.state = "missing" /\ resume.epoch = 1 /\ resume.last = << >>
        /\ step = 0 /\ lr = <<0, 1>> /\ worst = None /\ fresh = 0 /\ starts = 0
    BY DEF Init, NoResume
  <2>2. /\ lastFile \in [1 .. Epochs -> Contents]
        /\ bestFile \in [Checkpoints -> Contents]
    BY DEF Init, Contents
  <2>3. Batches \in Nat /\ MaxStarts \in Nat
    BY TrainingAssumption
  <2> QED
    BY <2>1, <2>2, <2>3, EpochsPositive DEF RestInv
<1>2. IInv /\ HeapInv /\ RestInv /\ [Next]_trainVars => RestInv'
  <2>1. ASSUME RestInv, UNCHANGED trainVars
        PROVE  RestInv'
    BY <2>1 DEF trainVars, files, memory, history, RestInv
  <2> QED
    BY <2>1, RestStep
<1> QED
  BY <1>1, <1>2, SurvivalInvariant, PTL DEF Spec

(* The types, the lengths of the lists and the sizes of the heaps.          *)
THEOREM TypeCorrect == Spec => []TypeOK
<1>1. ASSUME IInv, HeapInv, BoundInv, RestInv
      PROVE  TypeOK
  <2> USE <1>1
  <2>1. \A l \in {last, resume.last} : l \in Seq(1 .. Epochs) /\ Len(l) <= KeepLast + 1
    <3>1. Len(resume.last) \in Nat /\ KeepLast \in Nat
      BY TrainingAssumption DEF IInv, TypeInv
    <3> QED
      BY <3>1 DEF IInv, TypeInv, BoundInv
  <2>2. Falling(last) /\ Falling(resume.last)
    BY DEF IInv, ListInv, ResumeInv, RestInv, Falling
  <2>3. \A l \in {last, resume.last} : \A i, j \in DOMAIN l : l[i] = l[j] => i = j
    <3>1. SUFFICES ASSUME NEW l \in {last, resume.last},
                          NEW i \in DOMAIN l, NEW j \in DOMAIN l, l[i] = l[j]
                   PROVE  i = j
      OBVIOUS
    <3>2. l \in Seq(1 .. Epochs) /\ Falling(l)
      BY <2>1, <2>2
    <3>3. i \in 1 .. Len(l) /\ j \in 1 .. Len(l) /\ l[i] \in 1 .. Epochs
      BY <3>2, Element
    <3>4. ~(i < j) /\ ~(j < i)
      BY <3>1, <3>2, <3>3 DEF Falling
    <3> QED
      BY <3>3, <3>4
  <2>4. trained \in 0 .. Epochs
    BY EpochsPositive DEF IInv, WeightsInv, TypeInv, BeforeSave, AfterSave
  <2>5. /\ epoch \in 1 .. Epochs + 1
        /\ restored \in BOOLEAN /\ overwritten \in BOOLEAN
        /\ pc \in {"down", "done"} \cup BeforeSave \cup AfterSave
    BY DEF IInv, TypeInv
  <2>6. /\ \A h \in {best, resume.best} :
             h \subseteq Checkpoints /\ Cardinality(h) <= KeepBest
        /\ score \in Scores \cup {0}
    BY DEF HeapInv, Heap
  <2> QED
    BY <2>1, <2>3, <2>4, <2>5, <2>6 DEF TypeOK, RestInv, BeforeSave, AfterSave
<1> QED
  BY <1>1, SurvivalInvariant, BoundInvariant, RestInvariant, PTL
==============================================================================
