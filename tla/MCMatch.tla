------------------------------ MODULE MCMatch ------------------------------
(* Four voiceprints and every cosine at, just under and just over each       *)
(* threshold: one tick is 0.05, so reject, accept and margin are 7, 9 and 2, *)
(* as config.py sets them.                                                   *)
EXTENDS Match

MinusOne == -20
=============================================================================
