---------------------------- MODULE MCPlaylistLib ----------------------------
(* Model-checking instance of PlaylistLib.                                 *)
EXTENDS PlaylistLib
=============================================================================
