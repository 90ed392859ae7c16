------------------------- MODULE MCChallengeEngine --------------------------
(* Answers on both sides of every boundary: the slider drawn at 60 takes    *)
(* 55..65, the puzzle drawn at 50 takes 46..54.  So 45 and 55 are one too   *)
(* far for the puzzle (and 55 the last for the slider), 66 for the slider.  *)
EXTENDS ChallengeEngine, TLC

CONSTANTS p1, p2

MCAnswers ==
    [shape : {"number"}, x : {45, 46, 54, 55, 65, 66}]
      \cup {[shape |-> "object", x |-> 65], [shape |-> "bare object"], [shape |-> "other"],
            [shape |-> "list", ids |-> <<p1>>], [shape |-> "list", ids |-> <<p1, p1>>]}

Symmetry == Permutations(Callers)
=============================================================================
