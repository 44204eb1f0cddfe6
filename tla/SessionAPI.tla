----------------------------- MODULE SessionAPI -----------------------------
(***************************************************************************)
(* What the session API of lib/despotify.h promises a client that holds    *)
(* one session handle, without the handshake inside it: a handle is        *)
(* closed, open, authenticated, or busy in a blocking call of              *)
(* despotify_authenticate, or the process has died.  A failed              *)
(* authenticate leaves a message for despotify_get_error, which hands it   *)
(* over once and clears it; a fresh session has no message.  Session is    *)
(* shown to implement it.                                                  *)
(***************************************************************************)
CONSTANTS
  Errors,        \* the messages a failed authenticate may leave
  None,          \* no message (NULL)
  NoSessionMsg   \* despotify_get_error's answer without a session

VARIABLES
  handle,  \* "closed", "open", "authed", "busy" or "dead"
  err,     \* the message despotify_get_error would return, or None
  ret      \* what the latest despotify_get_error returned

vars == <<handle, err, ret>>

Usable == {"open", "authed"}

Init ==
  /\ handle = "closed"
  /\ err = None
  /\ ret = None

(* A new session: no message yet.                                          *)
Open ==
  /\ handle = "closed"
  /\ handle' = "open"
  /\ err' = None
  /\ UNCHANGED ret

(* An authenticate call starts.                                            *)
Begin ==
  /\ handle \in Usable
  /\ handle' = "busy"
  /\ UNCHANGED <<err, ret>>

(* The call returns TRUE; the message of an earlier failure stays.         *)
LoginOk ==
  /\ handle = "busy"
  /\ handle' = "authed"
  /\ UNCHANGED <<err, ret>>

(* The call returns FALSE and leaves a message.                            *)
LoginFail ==
  /\ handle = "busy"
  /\ handle' = "open"
  /\ err' \in Errors
  /\ UNCHANGED ret

(* despotify_change_user: the session is replaced by a fresh one, which    *)
(* is being authenticated.                                                 *)
Replace ==
  /\ handle \in Usable
  /\ handle' = "busy"
  /\ err' = None
  /\ UNCHANGED ret

(* despotify_get_error hands the message over and clears it.               *)
GetError ==
  /\ handle \in Usable \cup {"closed"}
  /\ ret' = IF handle = "closed" THEN NoSessionMsg ELSE err
  /\ err' = None
  /\ UNCHANGED handle

(* The session is freed.                                                   *)
Close ==
  /\ handle \in Usable
  /\ handle' = "closed"
  /\ err' = None
  /\ UNCHANGED ret

(* The process ends (an assert, exit or panic).                            *)
Die ==
  /\ handle # "dead"
  /\ handle' = "dead"
  /\ UNCHANGED ret

Next ==
  \/ Open \/ Begin \/ LoginOk \/ LoginFail \/ Replace \/ GetError \/ Close
  \/ Die

Spec == Init /\ [][Next]_vars

=============================================================================
