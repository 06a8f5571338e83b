----------------------------- MODULE PolyphaseFir -----------------------------
(***************************************************************************)
(* PolyphaseFir.hpp: one stage of the resampler, as a record and the steps *)
(* its methods take on it.  process() pushes the samples of a block into   *)
(* the mirrored history and pulls an output whenever the newest sample it  *)
(* needs is there; history, phase and positions carry over to the next     *)
(* block.                                                                  *)
(*                                                                         *)
(* A sample is its position in the stream since reset().  The coefficients *)
(* and the dot product are arithmetic and left out: what matters is which  *)
(* samples meet which phase's coefficients.                                *)
(***************************************************************************)
EXTENDS Integers

CONSTANT Taps   \* tapsPerPhase

ASSUME TapsAssumption == Taps \in Nat \ {0}

Silence == -1

(* Mutant: room for the ratio's share of a block and nothing more.          *)
CapTight(u, d, maxInput) == (maxInput * u) \div d
Cap(u, d, maxInput)      == (maxInput * u) \div d + 2

(* A stage after design(): L, M, the size of its output, its history and    *)
(* positions; then what is left of the current block and how many outputs   *)
(* it gave, and a count of all outputs, which the code does not keep.       *)
Designed(u, d, maxInput) ==
  [up |-> u, down |-> d, cap |-> Cap(u, d, maxInput),
   history |-> [i \in 0 .. 2 * Taps - 1 |-> Silence],
   histWrite |-> 0, phase |-> 0, inNeeded |-> 0, pushed |-> 0,
   left |-> 0, outCount |-> 0, outs |-> 0]

(* process() is called with n samples.  Mutant: it forgets the position.    *)
CalledAfresh(f, n) ==
  [f EXCEPT !.left = n, !.outCount = 0, !.phase = 0, !.inNeeded = 0, !.pushed = 0]
Called(f, n) == [f EXCEPT !.left = n, !.outCount = 0]

Full(f)     == f.outCount >= f.cap
Starved(f)  == f.pushed <= f.inNeeded
Finished(f) == Full(f) \/ (Starved(f) /\ f.left = 0)

(* pushHistory().  Mutant: the sample is written once.                      *)
WrittenOnce(w) == {w}
Mirrored(w)    == {w, w + Taps}

Newest(f) == IF f.histWrite = 0 THEN Taps - 1 ELSE f.histWrite - 1

Pushed(f) ==
  [f EXCEPT
     !.histWrite = Newest(f),
     !.history = [i \in 0 .. 2 * Taps - 1 |->
                    IF i \in Mirrored(Newest(f)) THEN f.pushed
                                                 ELSE f.history[i]],
     !.pushed = f.pushed + 1,
     !.left = f.left - 1]

(* An output, and on to the position of the next.  Mutant: the next output  *)
(* starts on a whole sample.                                                *)
PhaseDropped(p, u) == 0
Phase(p, u)        == p % u

Pulled(f) ==
  [f EXCEPT
     !.outCount = f.outCount + 1,
     !.outs = f.outs + 1,
     !.inNeeded = f.inNeeded + (f.phase + f.down) \div f.up,
     !.phase = Phase(f.phase + f.down, f.up)]

(* The next step of process(), until it is finished. *)
Stepped(f) == IF Starved(f) THEN Pushed(f) ELSE Pulled(f)

-----------------------------------------------------------------------------
(* Whenever an output is pulled, the Taps slots from histWrite on hold the  *)
(* newest samples, newest first, beginning with the one the output needs    *)
(* (PolyphaseFir.hpp:102-105, 115).                                         *)
Aligned(f) ==
  ~Starved(f) =>
    /\ f.pushed = f.inNeeded + 1
    /\ \A k \in 0 .. Taps - 1 :
         f.history[f.histWrite + k] =
           IF f.inNeeded >= k THEN f.inNeeded - k ELSE Silence

(* The next output lies at outs * M / L of the stream.                      *)
OnTime(f) == f.inNeeded * f.up + f.phase = f.outs * f.down
=============================================================================
