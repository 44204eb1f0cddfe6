------------------------------ MODULE Session ------------------------------
(***************************************************************************)
(* The session lifecycle of lib/despotify.c as a client drives it:         *)
(* despotify_new_session, despotify_authenticate (whose steps are those of *)
(* Handshake, instantiated over the same variables), despotify_get_error,  *)
(* despotify_free / despotify_close, and the despotify_change_user macro   *)
(* of lib/despotify.h.  The client makes up to MaxCalls calls, one at a    *)
(* time, in any order the API allows; it checks what despotify_new_session *)
(* returns and stops using a session it has freed, except inside           *)
(* despotify_change_user, which does neither.                              *)
(*                                                                         *)
(* despotify_session objects live in a heap (objs) indexed by address;    *)
(* each records whether it is live or freed and whether its inner SESSION  *)
(* was allocated.  The Handshake variables are the fields of the current   *)
(* object's SESSION and its last_error.                                    *)
(***************************************************************************)
EXTENDS Naturals, Sequences, FiniteSets

CONSTANTS
  ClientRandoms, ServerRandoms, Salts, PadLens, AssertsEnabled,
  MaxCalls   \* calls the client makes

ASSUME MaxCalls \in Nat

VARIABLES
  pc, crand, idx, got, padlen, keys, lastError,   \* as in Handshake
  objs,   \* despotify_session objects by address: [state, inner]
  cur,    \* the client's despotify_session *, or Nil
  ret,    \* what the latest despotify_get_error returned
  keyed,  \* key_init has run in the current call of despotify_authenticate
  calls   \* calls the client has made

vars == <<pc, crand, idx, got, padlen, keys, lastError, objs, cur, ret, keyed,
          calls>>

HS == INSTANCE Handshake

Nil == 0

(* despotify_get_error's answer for a NULL session.                        *)
NoSessionMsg == "Could not allocate memory for a new despotify_session/session."

(* The outcomes of despotify_new_session: malloc fails, session_init_client *)
(* fails, or both succeed.                                                 *)
Outcomes == {"nomem", "noinit", "ok"}

(* No call of the client is in progress (the API is called from one        *)
(* thread and despotify_authenticate blocks until it returns).             *)
Idle == pc \in {"idle", "failed", "authenticated"}

(* The process has ended inside a call.                                    *)
Ended == pc \in {"aborted", "exited"}

Call == calls < MaxCalls /\ calls' = calls + 1

(* The objects despotify_new_session leaves on the heap for an outcome.    *)
NewObj(o) == IF o = "nomem" THEN <<>> ELSE <<[state |-> "live", inner |-> o = "ok"]>>

(* despotify_new_session, the heap being h: malloc and memset of the      *)
(* despotify_session, then session_init_client for the inner SESSION (a    *)
(* fresh client random, no keys).  Either failure returns NULL; when      *)
(* session_init_client fails the despotify_session already allocated is   *)
(* not freed.                                                              *)
NewSession(h, o) ==
  /\ objs' = h \o NewObj(o)
  /\ cur' = IF o = "ok" THEN Len(h) + 1 ELSE Nil
  /\ lastError' = HS!None
  /\ crand' \in ClientRandoms
  /\ idx' = 1 /\ got' = [f \in DOMAIN got |-> HS!None] /\ padlen' = 0
  /\ keys' = HS!NoKeys
  /\ keyed' = FALSE

(* The client asks for a session while it holds none.                      *)
ClientNewSession ==
  /\ Call
  /\ Idle /\ cur = Nil
  /\ \E o \in Outcomes : NewSession(objs, o)
  /\ pc' = "idle"
  /\ UNCHANGED ret

(* despotify_authenticate is entered: session_auth_set, then the steps of  *)
(* Handshake from session_connect on.  The fields of the previous exchange *)
(* stay in the SESSION until they are read again.                          *)
Authenticate ==
  /\ Call
  /\ Idle /\ cur # Nil
  /\ pc' = "connect"
  /\ idx' = 1
  /\ keyed' = FALSE
  /\ UNCHANGED <<crand, got, padlen, keys, lastError, objs, cur, ret>>

(* One step of despotify_authenticate.                                    *)
AuthStep ==
  /\ \/ HS!Connect \/ HS!SendClientInitialPacket \/ HS!ReadStatus
     \/ HS!ReadField \/ HS!ReadPadLen \/ HS!ReadPaddingAndKeyInit \/ HS!DoAuth
  /\ keyed' = (keyed \/ pc' = "auth")
  /\ UNCHANGED <<objs, cur, ret, calls>>

(* Mutant: last_error is returned but not cleared.                         *)
GetErrorNoClear ==
  /\ Call
  /\ Idle
  /\ ret' = IF cur = Nil THEN NoSessionMsg ELSE lastError
  /\ UNCHANGED <<pc, crand, idx, got, padlen, keys, lastError, objs, cur,
                 keyed>>

(* despotify_get_error: the fixed message for NULL; otherwise last_error,  *)
(* which is then cleared.                                                  *)
GetError ==
  /\ Call
  /\ Idle
  /\ IF cur = Nil
       THEN ret' = NoSessionMsg /\ UNCHANGED lastError
       ELSE ret' = lastError /\ lastError' = HS!None
  /\ UNCHANGED <<pc, crand, idx, got, padlen, keys, objs, cur, keyed>>

(* Mutant: the object is freed but the pointer to it is kept.              *)
FreeKeepsPointer ==
  /\ Call
  /\ Idle /\ cur # Nil
  /\ objs' = [objs EXCEPT ![cur].state = "freed"]
  /\ UNCHANGED <<pc, crand, idx, got, padlen, keys, lastError, ret, keyed, cur>>

(* despotify_free (or despotify_close, which disconnects first): the inner *)
(* SESSION and the object are freed; the client drops its pointer.         *)
Free ==
  /\ Call
  /\ Idle /\ cur # Nil
  /\ objs' = [objs EXCEPT ![cur].state = "freed"]
  /\ cur' = Nil
  /\ UNCHANGED <<pc, crand, idx, got, padlen, keys, lastError, ret, keyed>>

(* despotify_change_user: despotify_close, despotify_new_session into the  *)
(* same variable, and despotify_authenticate on its result, unchecked:     *)
(* with NULL the assert at its entry aborts the process.                   *)
ChangeUser ==
  /\ Call
  /\ Idle /\ cur # Nil
  /\ \E o \in Outcomes :
       /\ NewSession([objs EXCEPT ![cur].state = "freed"], o)
       /\ pc' = IF o = "ok" THEN "connect" ELSE "aborted"
  /\ UNCHANGED ret

(* Any other entry point of the API (search, playlists, playback): each    *)
(* is panic("... not implemented!"), which aborts the process.              *)
NotImplemented ==
  /\ Call
  /\ Idle
  /\ pc' = "aborted"
  /\ UNCHANGED <<crand, idx, got, padlen, keys, lastError, objs, cur, ret, keyed>>

Init ==
  /\ pc = "idle"
  /\ crand \in ClientRandoms
  /\ idx = 1
  /\ got = [f \in {HS!Fields[i] : i \in 1..Len(HS!Fields)} |-> HS!None]
  /\ padlen = 0
  /\ keys = HS!NoKeys
  /\ lastError = HS!None
  /\ objs = <<>>
  /\ cur = Nil
  /\ ret = HS!None
  /\ keyed = FALSE
  /\ calls = 0

(* The client has made its calls, or the process has ended.                *)
Finished == (Ended \/ (Idle /\ calls = MaxCalls)) /\ UNCHANGED vars

Next ==
  \/ ClientNewSession \/ Authenticate \/ AuthStep \/ GetError \/ Free
  \/ ChangeUser \/ NotImplemented \/ Finished

(* A blocking read or write returns: the server answers or closes.  The   *)
(* client is not obliged to make any call.                                 *)
Spec == Init /\ [][Next]_vars /\ WF_vars(AuthStep)

-----------------------------------------------------------------------------
(* Properties.                                                             *)

TypeOK ==
  /\ objs \in Seq([state : {"live", "freed"}, inner : BOOLEAN])
  /\ cur \in 0..Len(objs)
  /\ cur # Nil => objs[cur].state = "live" /\ objs[cur].inner
  /\ ret \in HS!Errors \cup {HS!None, NoSessionMsg}
  /\ lastError \in HS!Errors \cup {HS!None}
  /\ idx \in 1..Len(HS!Fields)
  /\ keyed \in BOOLEAN
  /\ calls \in 0..MaxCalls

(* The keys key_init installed in this call of despotify_authenticate are *)
(* the spec's key schedule over the fields of this call's server packet   *)
(* (Handshake's KeysMatchReference), also when the SESSION still holds    *)
(* the fields and keys of an earlier call, or of the session that         *)
(* despotify_change_user closed.                                          *)
KeysMatchReference == keyed => HS!KeysMatchReference

(* The message a failed despotify_authenticate leaves in last_error says  *)
(* whether it failed before key derivation (connection, key exchange) or  *)
(* after it (do_auth), whatever keys an earlier call left in the SESSION. *)
FailureClassified ==
  pc = "failed" /\ lastError # HS!None =>
    (keyed <=> lastError = "Authentication failed.")

(* The client's view of its handle: busy while despotify_authenticate runs. *)
ApiHandle ==
  CASE Ended                 -> "dead"
    [] cur = Nil             -> "closed"
    [] ~Idle                 -> "busy"
    [] pc = "authenticated"  -> "authed"
    [] OTHER                 -> "open"

Api == INSTANCE SessionAPI WITH
         handle <- ApiHandle,
         err <- IF cur = Nil THEN HS!None ELSE lastError,
         ret <- ret,
         Errors <- HS!Errors, None <- HS!None, NoSessionMsg <- NoSessionMsg

(* The session lifecycle, with the handshake and despotify_change_user     *)
(* inside it, implements the API's promise: a failed authenticate always   *)
(* leaves a message, a successful one and every intermediate handshake     *)
(* step leave the message alone, despotify_get_error hands a message over  *)
(* once, and a fresh session (also the one despotify_change_user makes)    *)
(* starts without one.                                                     *)
ImplementsSessionAPI == Api!Spec

====
