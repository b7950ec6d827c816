------------------------------- MODULE MCAttempt -------------------------------
(* Values of the constants of Attempt for TLC.                              *)
EXTENDS Attempt, TLC

CONSTANTS w1, w2, image, reference

Setting(checker, closed, flagged, provider, local) ==
    [checker |-> checker, closed |-> closed, flagged |-> flagged,
     provider |-> provider, local |-> local]

(* Both engines, both stores, every checker; the age check fails closed and *)
(* open.                                                                    *)
MCSettings == {Setting("insightface", TRUE, FALSE, "comfyui", FALSE),
               Setting("insightface", TRUE, FALSE, "mock", TRUE),
               Setting("insightface", FALSE, FALSE, "mock", FALSE),
               Setting("mock", TRUE, TRUE, "mock", TRUE),
               Setting("mock", TRUE, FALSE, "comfyui", TRUE),
               Setting("none", TRUE, FALSE, "mock", TRUE)}

MCClosed == {Setting("insightface", TRUE, FALSE, "comfyui", FALSE)}

Symmetry == Permutations(Workers)
=============================================================================
