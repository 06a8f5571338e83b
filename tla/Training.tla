------------------------------- MODULE Training -------------------------------
(***************************************************************************)
(* nn_model/trainer.py and scripts/train.py: a process trains epoch after  *)
(* epoch and leaves checkpoints behind.  It may be killed at any step and  *)
(* started again, afresh or with --restore.                                *)
(*                                                                         *)
(* The files outlive the process.  torch.save() takes two steps: the file  *)
(* is truncated, then whole.  The weights are abstracted to the number of  *)
(* epochs they have been trained, which is also what a checkpoint holds.   *)
(***************************************************************************)
EXTENDS Integers, Sequences, FiniteSets

CONSTANTS Pairs,      \* epoch_lr: sorted <<epoch, lr>>, of increasing epochs
          Batches,    \* len(train_loader)
          KeepLast, KeepBest,
          Scores,     \* losses an evaluation may find
          MaxStarts   \* bound: starts of the process

Epochs == Pairs[Len(Pairs)][1]

(* With one checkpoint of a kind, which the code accepts and the script does *)
(* not ask for, the only copy is at risk whenever it is replaced.           *)
ASSUME TrainingAssumption ==
  /\ Pairs \in Seq(Nat \X Int) /\ Len(Pairs) > 1 /\ Epochs > 0
  /\ Batches \in Nat \ {0}
  /\ KeepLast \in Nat /\ KeepLast >= 2
  /\ KeepBest \in Nat /\ KeepBest >= 2
  /\ Scores \subseteq Int /\ Scores # {}
  /\ MaxStarts \in Nat

VARIABLES
  lastFile,    \* last_ep{e}.pt: epochs its weights were trained, or
  bestFile,    \* best_ep{e}_s{score}.pt: the same      Missing, or Partial
  resume,      \* resume.pt
  pc,          \* where train() is, "down" when there is no process
  epoch, step, \* loop variables
  trained,     \* the weights
  lr,          \* the optimizer's rate, a fraction <<numerator, denominator>>
  score,       \* avg_eval_loss
  last, best,  \* CheckpointManager's list of epochs and heap of <<score, epoch>>
  worst,       \* what save_best() replaces
  restored,    \* the process was started with --restore
  fresh,       \* history: number of starts without --restore
  starts,      \* history: number of starts
  overwritten  \* history: a fresh run may have written over resume.pt's files

files     == <<lastFile, bestFile, resume>>
memory    == <<epoch, step, trained, lr, score, last, best, worst, restored>>
history   == <<fresh, starts, overwritten>>
trainVars == <<files, pc, memory, history>>

Missing == 0
Partial == -1

Checkpoints == Scores \X (1 .. Epochs)   \* of the best
None        == <<0, 0>>

NoResume == [state |-> "missing", epoch |-> 1, last |-> << >>, best |-> {}]

Init ==
  /\ lastFile = [e \in 1 .. Epochs |-> Missing]
  /\ bestFile = [c \in Checkpoints |-> Missing]
  /\ resume = NoResume
  /\ pc = "down"
  /\ epoch = 1 /\ step = 0 /\ trained = 0 /\ lr = <<0, 1>> /\ score = 0
  /\ last = << >> /\ best = {} /\ worst = None /\ restored = FALSE
  /\ fresh = 0 /\ starts = 0 /\ overwritten = FALSE

-----------------------------------------------------------------------------
(* Starting. *)

StartFresh ==
  /\ pc = "down" /\ starts < MaxStarts
  /\ pc' = "epoch"
  /\ fresh' = fresh + 1 /\ starts' = starts + 1
  /\ overwritten' = (resume.state = "whole")
  /\ restored' = FALSE
  /\ UNCHANGED <<files, epoch, step, trained, lr, score, last, best, worst>>

(* load(): resume.pt, then the newest checkpoint it lists. *)
Loads == resume.last # << >> => lastFile[Head(resume.last)] > 0

Restore ==
  /\ pc = "down" /\ starts < MaxStarts
  /\ resume.state = "whole" /\ Loads
  /\ pc' = "epoch"
  /\ epoch' = resume.epoch
  /\ trained' = IF resume.last = << >> THEN 0 ELSE lastFile[Head(resume.last)]
  /\ last' = resume.last /\ best' = resume.best
  /\ restored' = TRUE
  /\ starts' = starts + 1
  /\ UNCHANGED <<files, step, lr, score, worst, fresh, overwritten>>

(* Either file missing or partial, torch.load() raises and the process ends. *)
RestoreFails ==
  /\ pc = "down" /\ starts < MaxStarts
  /\ resume.state # "whole" \/ ~Loads
  /\ starts' = starts + 1
  /\ UNCHANGED <<files, pc, memory, fresh, overwritten>>

(* Killed, or at its end. *)
Exit ==
  /\ pc # "down"
  /\ pc' = "down"
  /\ epoch' = 1 /\ step' = 0 /\ trained' = 0 /\ lr' = <<0, 1>> /\ score' = 0
  /\ last' = << >> /\ best' = {} /\ worst' = None /\ restored' = FALSE
  /\ UNCHANGED <<files, history>>

-----------------------------------------------------------------------------
(* An epoch. *)

BeginEpoch ==
  /\ pc = "epoch"
  /\ pc' = IF epoch <= Epochs THEN "train" ELSE "done"
  /\ step' = 0
  /\ UNCHANGED <<files, epoch, trained, lr, score, last, best, worst, restored,
                 history>>

(* _calc_lr() at `step` of Batches.  range(0, len(pairs), -1) is empty, so    *)
(* the index stays at the last pair.                                        *)
Index(e) == Len(Pairs)

CalcLr(e, s) ==
  LET i  == Index(e)
      lo == IF i = 1 THEN <<0, 0>> ELSE Pairs[i - 1]
      hi == Pairs[i]
  IN  << lo[2] * (hi[1] - lo[1]) * Batches
           + ((e - lo[1]) * Batches + s) * (hi[2] - lo[2]),
         (hi[1] - lo[1]) * Batches >>

TrainBatch ==
  /\ pc = "train" /\ step < Batches
  /\ lr' = CalcLr(epoch, step)
  /\ step' = step + 1
  /\ UNCHANGED <<files, pc, epoch, trained, score, last, best, worst, restored,
                 history>>

Evaluate(s) ==
  /\ pc = "train" /\ step = Batches
  /\ trained' = trained + 1
  /\ score' = s
  /\ pc' = "save"
  /\ UNCHANGED <<files, epoch, step, lr, last, best, worst, restored, history>>

-----------------------------------------------------------------------------
(* save(). *)

BeginSave ==
  /\ pc = "save"
  /\ lastFile' = [lastFile EXCEPT ![epoch] = Partial]
  /\ pc' = "saving"
  /\ UNCHANGED <<bestFile, resume, memory, history>>

EndSave ==
  /\ pc = "saving"
  /\ lastFile' = [lastFile EXCEPT ![epoch] = trained]
  /\ last' = <<epoch>> \o last
  /\ pc' = "prune"
  /\ UNCHANGED <<bestFile, resume, epoch, step, trained, lr, score, best, worst,
                 restored, history>>

(* Mutants: one checkpoint too few is kept; the pruned file stays.          *)
ExcessFull(l) == Len(l) >= KeepLast
Excess(l)     == Len(l) > KeepLast

StaysOnDisk(f, e) == f
Removed(f, e)     == [f EXCEPT ![e] = Missing]

Prune ==
  /\ pc = "prune" /\ Excess(last)
  /\ lastFile' = Removed(lastFile, last[Len(last)])
  /\ last' = SubSeq(last, 1, Len(last) - 1)
  /\ UNCHANGED <<bestFile, resume, pc, epoch, step, trained, lr, score, best,
                 worst, restored, history>>

(* save_best().  best[0], the highest score, and among equals the path that  *)
(* comes first: some one of them, for a heap always the same.               *)
(* Mutant: scores are not negated in the heap.                              *)
BestOf(h)  == CHOOSE c \in h : \A d \in h : c[1] <= d[1]
WorstOf(h) == CHOOSE c \in h : \A d \in h : d[1] <= c[1]

Candidate == <<score, epoch>>

BeginBest ==
  /\ pc = "prune" /\ ~Excess(last)
  /\ \/ /\ Cardinality(best) < KeepBest
        /\ best' = best \cup {Candidate}
        /\ worst' = None
     \/ /\ Cardinality(best) >= KeepBest
        /\ score < WorstOf(best)[1]
        /\ best' = (best \ {WorstOf(best)}) \cup {Candidate}
        /\ worst' = WorstOf(best)
  /\ bestFile' = [bestFile EXCEPT ![Candidate] = Partial]
  /\ pc' = "saving_best"
  /\ UNCHANGED <<lastFile, resume, epoch, step, trained, lr, score, last,
                 restored, history>>

NotBest ==
  /\ pc = "prune" /\ ~Excess(last)
  /\ Cardinality(best) >= KeepBest
  /\ score >= WorstOf(best)[1]
  /\ pc' = "save_resume"
  /\ UNCHANGED <<files, memory, history>>

EndBest ==
  /\ pc = "saving_best"
  /\ bestFile' = [bestFile EXCEPT ![Candidate] = trained]
  /\ pc' = IF worst = None THEN "save_resume" ELSE "drop"
  /\ UNCHANGED <<lastFile, resume, memory, history>>

DropWorst ==
  /\ pc = "drop"
  /\ bestFile' = [bestFile EXCEPT ![worst] = Missing]
  /\ worst' = None
  /\ pc' = "save_resume"
  /\ UNCHANGED <<lastFile, resume, epoch, step, trained, lr, score, last, best,
                 restored, history>>

-----------------------------------------------------------------------------
(* save_resume(epoch + 1), and on to the next epoch. *)

BeginResume ==
  /\ pc = "save_resume"
  /\ resume' = [NoResume EXCEPT !.state = "partial"]
  /\ pc' = "saving_resume"
  /\ UNCHANGED <<lastFile, bestFile, memory, history>>

(* Mutant: the epoch that was just trained.                                 *)
SameEpoch(e) == e
NextEpoch(e) == e + 1

EndResume ==
  /\ pc = "saving_resume"
  /\ resume' = [state |-> "whole", epoch |-> NextEpoch(epoch),
                last |-> last, best |-> best]
  /\ overwritten' = (overwritten /\ restored)
  /\ epoch' = epoch + 1
  /\ pc' = "epoch"
  /\ UNCHANGED <<lastFile, bestFile, step, trained, lr, score, last, best, worst,
                 restored, fresh, starts>>

Save  == BeginSave \/ EndSave \/ Prune
Best  == BeginBest \/ NotBest \/ EndBest \/ DropWorst
Train == BeginEpoch \/ TrainBatch \/ \E s \in Scores : Evaluate(s)

Next ==
  \/ StartFresh \/ Restore \/ RestoreFails \/ Exit
  \/ Train \/ Save \/ Best
  \/ BeginResume \/ EndResume

Spec == Init /\ [][Next]_trainVars

-----------------------------------------------------------------------------
Contents == {Missing, Partial} \cup 1 .. Epochs

(* A list has no epoch twice and at most one more than is kept. *)
TypeOK ==
  /\ lastFile \in [1 .. Epochs -> Contents]
  /\ bestFile \in [Checkpoints -> Contents]
  /\ resume.state \in {"missing", "partial", "whole"}
  /\ resume.epoch \in 1 .. Epochs + 1
  /\ \A l \in {last, resume.last} :
       /\ l \in Seq(1 .. Epochs) /\ Len(l) <= KeepLast + 1
       /\ \A i, j \in DOMAIN l : l[i] = l[j] => i = j
  /\ \A h \in {best, resume.best} :
       h \subseteq Checkpoints /\ Cardinality(h) <= KeepBest
  /\ pc \in {"down", "epoch", "train", "save", "saving", "prune", "saving_best",
             "drop", "save_resume", "saving_resume", "done"}
  /\ epoch \in 1 .. Epochs + 1 /\ step \in 0 .. Batches
  /\ trained \in 0 .. Epochs
  /\ lr \in Int \X Int /\ score \in Scores \cup {0}
  /\ worst \in Checkpoints \cup {None}
  /\ restored \in BOOLEAN /\ overwritten \in BOOLEAN
  /\ fresh \in 0 .. starts /\ starts \in 0 .. MaxStarts

(* Over any kills and restarts, every checkpoint holds weights trained for   *)
(* exactly the epochs in its name, and a training that ended has trained    *)
(* them all: no epoch is lost and none is trained twice (trainer.py:237-243,*)
(* 276-277).                                                                *)
EpochLineage ==
  /\ \A e \in 1 .. Epochs : lastFile[e] > 0 => lastFile[e] = e
  /\ \A c \in Checkpoints : bestFile[c] > 0 => bestFile[c] = c[2]
  /\ pc = "done" => trained = Epochs

(* A whole resume.pt can be resumed from, whatever step of the following     *)
(* epoch the process was killed at: the checkpoint it names first is there, *)
(* whole, and of the epoch before (trainer.py:157-160, 183-193).  Not when  *)
(* the files were given to a run started without --restore.                 *)
ResumeLoadable ==
  resume.state = "whole" /\ ~overwritten =>
    /\ resume.last # << >>
    /\ Head(resume.last) = resume.epoch - 1
    /\ lastFile[Head(resume.last)] = resume.epoch - 1

(* The best weights survive: there is a whole checkpoint as good as the best *)
(* that resume.pt knows (trainer.py:169-181), although a kill before the     *)
(* next resume.pt leaves it naming a file that was removed.                 *)
BestSurvives ==
  resume.state = "whole" /\ ~overwritten =>
    \A d \in resume.best :
      \E c \in Checkpoints : bestFile[c] > 0 /\ c[1] <= d[1]

(* Kills and restores do not leave last checkpoints behind: never more than  *)
(* one over what is to be kept (trainer.py:129, "Number of last checkpoints  *)
(* to keep").  Of best checkpoints they may.                                *)
LastBounded ==
  fresh <= 1 =>
    Cardinality({e \in 1 .. Epochs : lastFile[e] # Missing}) <= KeepLast + 1

(* The learning rate at the beginning of an epoch that has a pair is the     *)
(* pair's (trainer.py:75, 84; train.py:54-55).                              *)
LrHonoursPairs ==
  pc = "train" /\ step = 1 =>
    \A i \in DOMAIN Pairs :
      Pairs[i][1] = epoch => lr[1] = Pairs[i][2] * lr[2]
=============================================================================
