----------------------------- MODULE MCClients ------------------------------
(* Two calls of each SDK, so that one runs while the other does; a widget   *)
(* submits twice and is clicked once more than it has targets; a page and a *)
(* sheet may call a third time.                                             *)
EXTENDS Clients
=============================================================================
