-------------------------- MODULE MCPluginProcessor --------------------------
(* Two samples whose lengths are no multiple of a block, the second longer. *)
EXTENDS PluginProcessor

MCSamples == {0, 1}
MCLength  == [s \in MCSamples |-> IF s = 0 THEN 3 ELSE 5]
=============================================================================
