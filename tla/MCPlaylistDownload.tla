------------------------ MODULE MCPlaylistDownload -------------------------
(* Model-checking instance of PlaylistDownload.                            *)
EXTENDS PlaylistDownload

(* Fragments of 3 and 8 bytes reach the 10-byte gzip header boundary both  *)
(* inside a fragment (8 + 3) and after several short ones (3 + 3 + 3 + 3). *)
MCFragLens == {3, 8}
MCMaxResponse == 12
=============================================================================
