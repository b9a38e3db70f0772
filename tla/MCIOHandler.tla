---------------------------- MODULE MCIOHandler ----------------------------
(* Instances of IOHandler for TLC: the cfg files give the constants.       *)
EXTENDS IOHandler
=============================================================================
