--------------------------- MODULE MCCaptchaFlow ----------------------------
(* Ids for one session with two renderings of it, or for two sessions one  *)
(* of which gets a token; two handlers race; one backend redeems.  Two of  *)
(* the five seeded sessions, whose ids every client can guess.             *)
EXTENDS CaptchaFlow, TLC

CONSTANTS p1, seed0, seed4

MCAnswers == {[shape |-> "number", x |-> 60], [shape |-> "list", ids |-> <<p1>>]}

MCSeeded == [sid \in {seed0, seed4} |->
               [type |-> "slider", status |-> IF sid = seed0 THEN "passed" ELSE "expired"]]

Symmetry == Permutations(Handlers) \cup Permutations(Ids)
=============================================================================
