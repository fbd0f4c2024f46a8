---------------------------- MODULE MCEapSession -----------------------------
(* A small EAP server for TLC.                                             *)
EXTENDS EapSession, TLC

MCWants == {<<>>, <<"TTLS", "TLS">>, <<"PEAP", "MD5">>}
Symmetry == Permutations(Rounds)
=============================================================================
