-------------------------- MODULE MCAdaptivePolicy --------------------------
(* One scene, and enough outcomes beyond the sample to reach either cap and *)
(* to come back from it.                                                    *)
EXTENDS AdaptivePolicy
=============================================================================
