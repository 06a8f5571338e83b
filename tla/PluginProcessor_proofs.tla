------------------------ MODULE PluginProcessor_proofs ------------------------
(***************************************************************************)
(* The playback of the test samples, for samples of every length and       *)
(* blocks of every size; then the processor as a whole, which behaves as   *)
(* each of its halves does on its own, so that what is proved of a half    *)
(* holds of the whole.                                                     *)
(***************************************************************************)
EXTENDS PluginProcessor, LinkjiruProcessor_proofs

(* The position in the sample needs the types of what is being streamed.    *)
PlaybackInv == PlaybackTypeOK /\ PositionInSample

(* A block: the command is taken, or the sample goes on or ends.            *)
LEMMA AudioThreadStep ==
  ASSUME PlaybackInv, AudioThread
  PROVE  PlaybackInv'
PROOF
<1> USE PlaybackAssumption DEF PlaybackInv, PlaybackTypeOK, PositionInSample, None
<1>1. CASE BeginBlock
  <2>1. \A s \in Samples : s \in Nat /\ Length[s] \in Nat /\ Length[s] > 0
    OBVIOUS
  <2>2. CASE samplePlaying = currentlyPlaying
    BY <1>1, <2>2 DEF BeginBlock, PositionForBlock
  <2>3. CASE samplePlaying # currentlyPlaying
    BY <1>1, <2>1, <2>3 DEF BeginBlock, PositionForBlock
  <2> QED
    BY <2>2, <2>3
<1>2. ASSUME NEW n \in 0 .. MaxBlock, StreamTestSample(n)
      PROVE  PlaybackInv'
  <2>1. CASE Over(samplePos + n)
    BY <1>2, <2>1 DEF StreamTestSample, CommandAtEnd
  <2>2. CASE ~Over(samplePos + n)
    <3>1. currentlyPlaying \in Samples /\ Length[currentlyPlaying] \in Nat
      BY <1>2 DEF StreamTestSample
    <3>2. samplePos + n \in Nat /\ samplePos + n < Length[currentlyPlaying]
      BY <2>2, <3>1 DEF Over
    <3> QED
      BY <1>2, <2>2, <3>1, <3>2 DEF StreamTestSample
  <2> QED
    BY <2>1, <2>2
<1> QED
  BY <1>1, <1>2 DEF AudioThread

(* The types and the position are kept by every step.                       *)
LEMMA PlaybackInvariant == PlaybackSpec => []PlaybackInv
PROOF
<1>1. PlaybackInit => PlaybackInv
  BY DEF PlaybackInit, PlaybackInv, PlaybackTypeOK, PositionInSample, None
<1>2. PlaybackInv /\ [PlaybackNext]_playbackVars => PlaybackInv'
  <2> SUFFICES ASSUME PlaybackInv, [PlaybackNext]_playbackVars PROVE PlaybackInv'
    OBVIOUS
  <2>1. ASSUME NEW which \in Samples \cup {None}, PlaySample(which)
        PROVE  PlaybackInv'
    BY <2>1 DEF PlaySample, audioVars, PlaybackInv, PlaybackTypeOK, PositionInSample
  <2>2. CASE AudioThread
    BY <2>2, AudioThreadStep
  <2>3. CASE UNCHANGED playbackVars
    BY <2>3 DEF playbackVars, audioVars, PlaybackInv, PlaybackTypeOK, PositionInSample
  <2> QED
    BY <2>1, <2>2, <2>3 DEF PlaybackNext, PlayCommand
<1> QED
  BY <1>1, <1>2, PTL DEF PlaybackSpec

(* Type correctness: a block streams a sample there is.                     *)
THEOREM PlaybackTypeCorrect == PlaybackSpec => []PlaybackTypeOK
PROOF
<1>1. PlaybackInv => PlaybackTypeOK
  BY DEF PlaybackInv
<1> QED
  BY <1>1, PlaybackInvariant, PTL

(* streamTestSample() never reads outside the sample, whatever the commands *)
(* and the block sizes (PluginProcessor.cpp:204-210 and 307-314).           *)
THEOREM PositionStaysInside == PlaybackSpec => []PositionInSample
PROOF
<1>1. PlaybackInv => PositionInSample
  BY DEF PlaybackInv
<1> QED
  BY <1>1, PlaybackInvariant, PTL

-----------------------------------------------------------------------------
(* A step of the processor is a step of the session or leaves it alone.     *)
THEOREM ImplementsSession == PluginSpec => Spec
PROOF
<1>1. PluginInit => Init
  BY DEF PluginInit
<1>2. [PluginNext]_pluginVars => [Next]_vars
  BY DEF PluginNext, pluginVars, SessionStep, ProcessBlock, PlayButton, Next
<1> QED
  BY <1>1, <1>2, PTL DEF PluginSpec, Spec

(* A step of the processor is a step of the playback or leaves it alone.    *)
THEOREM ImplementsPlayback == PluginSpec => PlaybackSpec
PROOF
<1>1. PluginInit => PlaybackInit
  BY DEF PluginInit
<1>2. [PluginNext]_pluginVars => [PlaybackNext]_playbackVars
  BY DEF PluginNext, pluginVars, SessionStep, ProcessBlock, PlayButton,
         PlaybackNext
<1> QED
  BY <1>1, <1>2, PTL DEF PluginSpec, PlaybackSpec

(* Whatever the host, the editor, the handlers and the audio thread do, in  *)
(* any order: the session is reconciled with the parameter, restarts are    *)
(* served, and the sample is read inside its bounds.                        *)
THEOREM PluginCorrect ==
  PluginSpec => [](QuietMatchesParameter /\ RestartServed /\ PositionInSample)
PROOF
<1> QED
  BY ImplementsSession, ImplementsPlayback, ParameterReconciled, RestartsServed,
     PositionStaysInside, PTL
=============================================================================
