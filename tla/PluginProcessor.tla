--------------------------- MODULE PluginProcessor ---------------------------
(***************************************************************************)
(* PluginProcessor.cpp as a whole: the analysis session and the playback   *)
(* of test samples in one processor, under one host.  The host calls       *)
(* processBlock() between prepareToPlay() and releaseResources(), never    *)
(* during either; the editor's buttons run on the message thread, between  *)
(* two of its handlers.                                                    *)
(***************************************************************************)
EXTENDS LinkjiruProcessor, TestSamplePlayback

pluginVars == <<vars, playbackVars>>

PluginInit == Init /\ PlaybackInit

(* The host's calls wait for the block being processed; handlers do not. *)
SessionStep ==
  /\ MessageThread \/ Host
  /\ active' # active \/ ~Listening' => block = "between"
  /\ UNCHANGED playbackVars

ProcessBlock == active /\ Listening /\ AudioThread /\ UNCHANGED vars

PlayButton == pc = "idle" /\ PlayCommand /\ UNCHANGED vars

PluginNext == SessionStep \/ ProcessBlock \/ PlayButton

PluginSpec == PluginInit /\ [][PluginNext]_pluginVars

(* The host calls processBlock() for ever while the plugin is active, and   *)
(* blocks do consume frames.                                                *)
PlaybackFairness ==
  /\ WF_playbackVars(ProcessBlock)
  /\ SF_playbackVars(ProcessBlock /\ samplePos' # samplePos)

FairPluginSpec == PluginSpec /\ Fairness /\ PlaybackFairness

-----------------------------------------------------------------------------
(* A sample replaces the live input "while playing" (PluginProcessor.h:     *)
(* 115-117): it ends, and the input is the host's again, unless the host    *)
(* stops processing or destroys the plugin.                                 *)
SampleEnds ==
  \A s \in Samples : samplePlaying = s ~> samplePlaying # s \/ ~active \/ ~Listening
=============================================================================
