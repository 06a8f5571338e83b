------------------------------ MODULE Resampler ------------------------------
(***************************************************************************)
(* Resampler.hpp: the cascade of stages from the host's rate to the        *)
(* model's, and the passage of a block through it.  One thread uses it, so *)
(* steps interleave with nothing; blocks of any size follow one another,   *)
(* and prepare() may rebuild the cascade between two of them.              *)
(***************************************************************************)
EXTENDS PolyphaseFir, Sequences, FiniteSetsExt

CONSTANTS Target,     \* target sample rate
          MaxInput,   \* maxInput
          HostRates,  \* rates of the host
          MaxFed      \* bound: host samples between two prepare()

(* A block holds more than one sample, and no host is slower than half the  *)
(* target ("headroom for any host rate down to targetSampleRate / 2").      *)
ASSUME ResamplerAssumption ==
  /\ Target \in Nat \ {0}
  /\ MaxInput \in Nat /\ MaxInput >= 2
  /\ HostRates \subseteq {rate \in Nat : 2 * rate >= Target}
  /\ MaxFed \in Nat

VARIABLES hostRate,
          stages,     \* sequence of stages; none is bypass
          inRate,     \* prepare(): the rate left to convert, 0 outside it
          stageMax,   \* prepare(): the largest block the next stage gets
          at,         \* the stage processing the block, 0 between two blocks
          fed,        \* history: host samples taken since prepare()
          given       \* history: samples returned since prepare()

design == <<inRate, stageMax>>
resamplerVars == <<hostRate, stages, design, at, fed, given>>

Idle == at = 0 /\ inRate = 0

(* Until prepare() is called the resampler passes everything through. *)
ResamplerInit ==
  /\ hostRate = Target
  /\ stages = <<>>
  /\ inRate = 0 /\ stageMax = MaxInput
  /\ at = 0 /\ fed = 0 /\ given = 0

Prepare(rate) ==
  /\ Idle
  /\ hostRate' = rate
  /\ stages' = <<>>
  /\ inRate' = IF rate = Target THEN 0 ELSE rate
  /\ stageMax' = MaxInput
  /\ fed' = 0 /\ given' = 0
  /\ UNCHANGED at

(* prepare() goes on: halve while the rate is more than twice the target, *)
Halves(rate) == rate > 2 * Target

DesignHalving ==
  /\ Halves(inRate)
  /\ stages' = Append(stages, Designed(1, 2, stageMax))
  /\ inRate' = inRate \div 2
  /\ stageMax' = stageMax \div 2 + 2
  /\ UNCHANGED <<hostRate, at, fed, given>>

(* then convert what remains. *)
Divisors(a, b) == {d \in 1 .. b : a % d = 0 /\ b % d = 0}
Gcd(a, b)      == Max(Divisors(a, b))

DesignLast ==
  /\ inRate > 0 /\ ~Halves(inRate)
  /\ LET g == Gcd(Target, inRate)
     IN  stages' = Append(stages,
                          Designed(Target \div g, inRate \div g, stageMax))
  /\ inRate' = 0
  /\ UNCHANGED <<hostRate, stageMax, at, fed, given>>

(* process(): at the target rate the block is returned as it is ... *)
Bypass(n) ==
  /\ Idle /\ stages = <<>>
  /\ fed + n <= MaxFed
  /\ fed' = fed + n /\ given' = given + n
  /\ UNCHANGED <<hostRate, stages, design, at>>

(* ... else it goes to the first stage, *)
Process(n) ==
  /\ Idle /\ stages # <<>>
  /\ fed + n <= MaxFed
  /\ fed' = fed + n
  /\ at' = 1
  /\ stages' = [stages EXCEPT ![1] = Called(@, n)]
  /\ UNCHANGED <<hostRate, design, given>>

StageStep ==
  /\ at > 0 /\ ~Finished(stages[at])
  /\ stages' = [stages EXCEPT ![at] = Stepped(@)]
  /\ UNCHANGED <<hostRate, design, at, fed, given>>

(* from a stage to the next, *)
NextStage ==
  /\ at > 0 /\ Finished(stages[at])
  /\ at < Len(stages)
  /\ stages' = [stages EXCEPT ![at + 1] = Called(@, stages[at].outCount)]
  /\ at' = at + 1
  /\ UNCHANGED <<hostRate, design, fed, given>>

(* and from the last into finalOut, as far as that reaches. *)
Room     == 2 * MaxInput
Copied   == Min({stages[at].outCount, Room})

Deliver ==
  /\ at > 0 /\ Finished(stages[at])
  /\ at = Len(stages)
  /\ given' = given + Copied
  /\ at' = 0
  /\ UNCHANGED <<hostRate, stages, design, fed>>

ResamplerNext ==
  \/ \E rate \in HostRates : Prepare(rate)
  \/ DesignHalving \/ DesignLast
  \/ \E n \in 0 .. MaxInput : Bypass(n) \/ Process(n)
  \/ StageStep \/ NextStage \/ Deliver

ResamplerSpec == ResamplerInit /\ [][ResamplerNext]_resamplerVars

-----------------------------------------------------------------------------
(* A block is seen by each stage as if there were no blocks                 *)
(* (PolyphaseFir.hpp:22-25, "block boundaries are seamless"): each output   *)
(* multiplies the newest samples in order, whichever blocks they came in.   *)
TapsAligned == \A i \in DOMAIN stages : Aligned(stages[i])

(* Over any blocks the positions of the outputs do not drift.               *)
NoDrift == \A i \in DOMAIN stages : OnTime(stages[i])

(* Room (PolyphaseFir.hpp:49-50, 77; Resampler.hpp:32-34, 61, 90): no stage *)
(* ends a block for want of it, so none drops a sample or leaves an output  *)
(* unpulled, and all that the last one gave fits finalOut.                  *)
NothingDropped ==
  \A i \in DOMAIN stages :
    /\ ~Full(stages[i])
    /\ i # at => stages[i].left = 0 /\ Starved(stages[i])
    /\ i = Len(stages) => stages[i].outCount <= Room

(* The rate (Resampler.hpp:10-19): between two blocks the samples returned  *)
(* are those taken at the ratio of the rates, less than one ahead for each  *)
(* stage, and never behind.  For rates the halvings divide: of an odd rate  *)
(* one half is lost, Resampler.hpp:60.                                      *)
RateKept ==
  Idle =>
    /\ fed * Target <= given * hostRate
    /\ stages # <<>> => (given - Len(stages)) * hostRate < fed * Target
    /\ stages = <<>> => given = fed
=============================================================================
