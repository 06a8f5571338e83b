------------------------------ MODULE MCTraining ------------------------------
(* The schedule of scripts/train.py:55 in small: four epochs, falling. *)
EXTENDS Training
FallingPairs == <<<<1, 100>>, <<2, 10>>, <<4, 1>>>>
=============================================================================
