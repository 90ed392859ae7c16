-------------------------- MODULE MCSMSProtection ---------------------------
(* Two checks race for one mutex: two phones behind one IP, with and        *)
(* without a fingerprint.  Half-second clock units, so that a wait can be   *)
(* off by less than a second.                                               *)
EXTENDS SMSProtection, TLC

Symmetry == Permutations(Checks) \cup Permutations(Phones)
=============================================================================
