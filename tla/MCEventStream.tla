--------------------------- MODULE MCEventStream ----------------------------
(* Two publishers, three events of two apps; one client takes everything    *)
(* from now on, the other replays one app.  Channels of two overflow, and   *)
(* the buffer of two has to be cut.                                         *)
EXTENDS EventStream, TLC

CONSTANTS s1, s2, a1

MCQuery ==
    [s \in Streams |->
        IF s = s1 THEN [filter |-> [type |-> Unset, app |-> Unset], replay |-> FALSE]
                  ELSE [filter |-> [type |-> Unset, app |-> a1], replay |-> TRUE]]

Symmetry == Permutations(Publishers)
=============================================================================
