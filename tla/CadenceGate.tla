----------------------------- MODULE CadenceGate -----------------------------
(***************************************************************************)
(* CadenceGate.h: paces evaluations against the write count of the model   *)
(* ring.  A decision only: the caller owns the samples.  Left out is the   *)
(* skipped flag of the decision, which the loop does not look at.          *)
(***************************************************************************)
EXTENDS Integers

CONSTANTS WindowSamples,      \* samples per evaluation
          HopSamples,         \* new samples between evaluations, 0: every tick
          RequireFullWindow

ASSUME CadenceAssumption ==
  /\ WindowSamples \in Nat \ {0}
  /\ HopSamples \in Nat
  /\ RequireFullWindow \in BOOLEAN

VARIABLE nextAt   \* write count the next evaluation is due at

GateInit == nextAt = 0

WarmingUp(writeCount) == RequireFullWindow /\ writeCount < WindowSamples

(* poll()'s decision: evaluate on this tick. *)
Evaluate(writeCount) ==
  /\ ~WarmingUp(writeCount)
  /\ HopSamples = 0 \/ writeCount >= nextAt

(* SkipToLatest: one hop past the head.  Mutant: a hop after the last one   *)
(* that was due, which works a backlog off window by window.                *)
CatchUp(writeCount)    == nextAt + HopSamples
Reschedule(writeCount) == writeCount + HopSamples

(* poll()'s effect.  Continuous evaluation keeps no state. *)
Poll(writeCount) ==
  nextAt' = IF Evaluate(writeCount) /\ HopSamples > 0
            THEN Reschedule(writeCount)
            ELSE nextAt
=============================================================================
