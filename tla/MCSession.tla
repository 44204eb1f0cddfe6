----------------------------- MODULE MCSession -----------------------------
(* Model-checking instance of Session.                                     *)
EXTENDS Session

CONSTANTS c1, s1, s2, salt1

MCClientRandoms == {c1}
MCServerRandoms == {s1, s2}
MCSalts == {salt1}
=============================================================================
