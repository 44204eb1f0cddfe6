---------------------------- MODULE MCHandshake ----------------------------
(* Model-checking instance of Handshake.                                   *)
EXTENDS Handshake

CONSTANTS c1, c2, s1, s2, salt1, salt2

MCClientRandoms == {c1, c2}
MCServerRandoms == {s1, s2}
MCSalts == {salt1, salt2}
=============================================================================
