---------------------------- MODULE MCRateLimit -----------------------------
(* Two requests, each of its own server, one of which is ahead; the window, *)
(* shortened by lag and skew, still holds more times than the limit and its *)
(* overrun together.                                                        *)
EXTENDS RateLimit

CONSTANTS r1, v1, v2

MCServerOf == [r \in Requests |-> IF r = r1 THEN v1 ELSE v2]

MCSkew == [s \in Servers |-> IF s = v1 THEN 0 ELSE 1]
=============================================================================
