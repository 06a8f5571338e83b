-------------------------- MODULE TestSamplePlayback --------------------------
(***************************************************************************)
(* PluginProcessor.cpp:190-315: the bundled test samples.  The editor      *)
(* commands, through the atomic samplePlaying, what the audio thread       *)
(* streams in place of the live input; the audio thread takes the command  *)
(* at the start of a block and withdraws it when the sample is over.       *)
(*                                                                         *)
(* The audio itself, and its way into the host ring, are left out: see     *)
(* SharedRingBuffer.                                                       *)
(***************************************************************************)
EXTENDS Integers

CONSTANTS Samples,    \* 0 baji, 1 ru
          Length,     \* frames of each sample
          MaxBlock    \* most frames a block consumes

ASSUME PlaybackAssumption ==
  /\ Samples \subseteq Nat
  /\ Length \in [Samples -> Nat \ {0}]
  /\ MaxBlock \in Nat \ {0}

None == -1

VARIABLES samplePlaying,     \* the command: a sample or None
          currentlyPlaying,  \* what the audio thread streams
          samplePos,         \* its read position
          block              \* whether the audio thread is inside a block

audioVars    == <<currentlyPlaying, samplePos, block>>
playbackVars == <<samplePlaying, audioVars>>

PlaybackInit ==
  /\ samplePlaying = None /\ currentlyPlaying = None
  /\ samplePos = 0 /\ block = "between"

PlaySample(which) ==
  /\ samplePlaying' = which
  /\ UNCHANGED audioVars

(* Mutant: only the end of a sample resets the position.                    *)
PositionKept     == samplePos
PositionForBlock == IF samplePlaying = currentlyPlaying THEN samplePos ELSE 0

(* processBlock() up to the call of streamTestSample(). *)
BeginBlock ==
  /\ block = "between"
  /\ currentlyPlaying' = samplePlaying
  /\ samplePos' = PositionForBlock
  /\ block' = IF samplePlaying = None THEN "between" ELSE "stream"
  /\ UNCHANGED samplePlaying

Over(pos) == pos >= Length[currentlyPlaying]

(* Mutant: the end of the sample does not withdraw the command.             *)
CommandKept  == samplePlaying
CommandAtEnd == None

(* A block consumes as many frames as it has at 48 kHz; at another rate     *)
(* what the interpolator took, which can be none.                           *)
StreamTestSample(consumed) ==
  /\ block = "stream"
  /\ block' = "between"
  /\ \/ /\ ~Over(samplePos + consumed)
        /\ samplePos' = samplePos + consumed
        /\ UNCHANGED <<samplePlaying, currentlyPlaying>>
     \/ /\ Over(samplePos + consumed)
        /\ samplePlaying' = CommandAtEnd
        /\ currentlyPlaying' = None
        /\ samplePos' = 0

PlayCommand == \E which \in Samples \cup {None} : PlaySample(which)
AudioThread == BeginBlock \/ \E n \in 0 .. MaxBlock : StreamTestSample(n)

PlaybackNext == PlayCommand \/ AudioThread

PlaybackSpec == PlaybackInit /\ [][PlaybackNext]_playbackVars

-----------------------------------------------------------------------------
(* Type invariant. *)
PlaybackTypeOK ==
  /\ {samplePlaying, currentlyPlaying} \subseteq Samples \cup {None}
  /\ samplePos \in Nat
  /\ block \in {"between", "stream"}
  /\ block = "stream" => currentlyPlaying # None

(* PluginProcessor.h:107-112 and the reads at PluginProcessor.cpp:256-275:  *)
(* the position is inside the sample being streamed, also when a command    *)
(* switches from the longer sample to the shorter one.                      *)
PositionInSample ==
  IF currentlyPlaying = None THEN samplePos = 0
                             ELSE samplePos < Length[currentlyPlaying]
=============================================================================
