----------------------------- MODULE Handshake -----------------------------
(***************************************************************************)
(* despotify_authenticate (lib/despotify.c) and the key exchange it runs   *)
(* (lib/keyexchange.c): connect, send the client's initial packet, read    *)
(* the server's initial packet field by field, derive the session keys in  *)
(* key_init, authenticate.                                                 *)
(*                                                                         *)
(* The socket is blocking: every block_read returns either the bytes asked *)
(* for or fewer (the server closed the connection), and the model chooses  *)
(* which, together with the value the server sent.  Byte strings are       *)
(* abstracted to model values; SHA1-HMAC is a free constructor, so two     *)
(* digests are equal exactly when they hash the same key and message.      *)
(* session_connect, auth_generate_auth_hash and do_auth are not in the     *)
(* repository and are modelled from spec.md.                               *)
(***************************************************************************)
EXTENDS Naturals, Sequences, FiniteSets

CONSTANTS
  ClientRandoms,   \* values of client_random_16
  ServerRandoms,   \* values of server_random_16 the server may send
  Salts,           \* values of the salt the server may send
  PadLens,         \* values of the server's padding length byte
  AssertsEnabled   \* the build keeps assert() (no NDEBUG)

ASSUME ClientRandoms # {} /\ ServerRandoms # {} /\ Salts # {}
ASSUME PadLens \subseteq 0..255 /\ AssertsEnabled \in BOOLEAN

(* The fields read_server_initial_packet reads after the status bytes,    *)
(* each with a block_read whose short count ends the exchange.            *)
Fields == <<"server_random_16", "puzzle_denominator", "username_len",
            "username", "remote_pub_key", "random_256", "salt">>

(* What the server may put in each field: the values the keys depend on   *)
(* and, for the DH public key, whether DH_compute_key accepts it.          *)
FieldValues(f) ==
  CASE f = "server_random_16" -> ServerRandoms
    [] f = "salt"             -> Salts
    [] f = "remote_pub_key"   -> {"pub_ok", "pub_bad"}
    [] OTHER                  -> {"bytes"}

None == "none"

(* The key fields of a fresh SESSION, before key_init has written them.   *)
NoKeys == [hmac |-> <<>>, send |-> <<>>, recv |-> <<>>, sendIV |-> 0, recvIV |-> 0]

Errors == {"Could not sessionect to server.", "Key exchange failed.",
           "Authentication failed."}

VARIABLES
  pc,        \* where despotify_authenticate is
  crand,     \* session->client_random_16
  idx,       \* the next field of Fields to read
  got,       \* the value read into each field, or None
  padlen,    \* the padding length read_server_initial_packet reads
  keys,      \* the key_init results: key_hmac, keys, IVs, or NoKeys
  lastError  \* session->last_error, or None

vars == <<pc, crand, idx, got, padlen, keys, lastError>>

(* A return FALSE from despotify_authenticate with last_error set.        *)
Fail(msg) ==
  /\ pc' = "failed"
  /\ lastError' = msg

-----------------------------------------------------------------------------
(* The key schedule of key_init.                                           *)

Hmac(key, msg) == <<"sha1_hmac", key, msg>>

(* The 96-byte DH shared secret DH_compute_key derives from the server's  *)
(* public value, and the credential hash auth_generate_auth_hash derives  *)
(* from the salt.                                                          *)
SharedKey(pub) == <<"dh", pub>>
AuthHash(salt) == <<"auth_hash", salt>>

(* The five HMAC rounds of key_init: the last byte of message is the round *)
(* number, and each digest overwrites the first 20 bytes of message for   *)
(* the next round.  The message is a record: its first 20 bytes (head),   *)
(* the two randoms and the round byte.                                    *)
(* Mutant: a round hashes the original message instead of chaining.       *)
RECURSIVE HmacRoundsNoChain(_, _, _, _)
HmacRoundsNoChain(i, key, message, out) ==
  IF i > 5 THEN out
  ELSE LET m == [message EXCEPT !.round = i]
       IN HmacRoundsNoChain(i + 1, key, m, Append(out, Hmac(key, m)))

RECURSIVE HmacRounds(_, _, _, _)
HmacRounds(i, key, message, out) ==
  IF i > 5 THEN out
  ELSE LET m == [message EXCEPT !.round = i]
           d == Hmac(key, m)
       IN HmacRounds(i + 1, key, [m EXCEPT !.head = d], Append(out, d))

(* hmac_output as 100 bytes: byte k is byte k % 20 of digest k \div 20.   *)
OutputBytes(out) == [k \in 1..100 |-> <<out[(k - 1) \div 20 + 1], (k - 1) % 20>>]

(* key_init from the DH secret on: memcpy of hmac_output into key_hmac,   *)
(* key_send and key_recv, shn_key, and both IVs set to 0.                  *)
KeyInit(shared, auth, c, s) ==
  LET out == OutputBytes(HmacRounds(1, shared,
                [head |-> auth, crand |-> c, srand |-> s, round |-> 0], <<>>))
  IN [hmac |-> SubSeq(out, 1, 20),
      send |-> SubSeq(out, 21, 52),
      recv |-> SubSeq(out, 53, 84),
      sendIV |-> 0, recvIV |-> 0]

-----------------------------------------------------------------------------
(* despotify_authenticate, step by step.                                   *)

(* session_connect: the TCP connection is made, or not.                   *)
Connect ==
  /\ pc = "connect"
  /\ \/ pc' = "send" /\ UNCHANGED lastError
     \/ Fail("Could not sessionect to server.")
  /\ UNCHANGED <<crand, idx, got, padlen, keys>>

(* send_client_initial_packet: sock_send of the whole packet; a closed    *)
(* connection or a short write fails the key exchange.                    *)
SendClientInitialPacket ==
  /\ pc = "send"
  /\ \/ pc' = "status" /\ UNCHANGED lastError
     \/ Fail("Key exchange failed.")
  /\ UNCHANGED <<crand, idx, got, padlen, keys>>

(* The status and substatus bytes: a short read or a non-zero status ends  *)
(* the exchange (after reading and printing the upgrade URL when the       *)
(* substatus is 1, which changes no state).                               *)
ReadStatus ==
  /\ pc = "status"
  /\ \/ pc' = "fields" /\ UNCHANGED lastError
     \/ Fail("Key exchange failed.")
  /\ UNCHANGED <<crand, idx, got, padlen, keys>>

(* One of the fixed fields: a full read stores the server's value, a      *)
(* short read ends the exchange.                                          *)
ReadField ==
  /\ pc = "fields"
  /\ LET f == Fields[idx] IN
       \/ \E v \in FieldValues(f) :
            /\ got' = [got EXCEPT ![f] = v]
            /\ IF idx = Len(Fields) THEN pc' = "padlen" /\ UNCHANGED idx
                                    ELSE idx' = idx + 1 /\ UNCHANGED pc
            /\ UNCHANGED lastError
       \/ Fail("Key exchange failed.") /\ UNCHANGED <<idx, got>>
  /\ UNCHANGED <<crand, padlen, keys>>

(* The padding length byte: assert (padlen > 0) aborts the process on 0   *)
(* unless built with NDEBUG, where padlen-- wraps the unsigned char round *)
(* to 255.                                                                 *)
ReadPadLen ==
  /\ pc = "padlen"
  /\ \/ /\ \E v \in PadLens :
             IF v = 0 /\ AssertsEnabled
               THEN pc' = "aborted" /\ UNCHANGED padlen
               ELSE pc' = "padding" /\ padlen' = (v + 255) % 256
        /\ UNCHANGED lastError
     \/ Fail("Key exchange failed.") /\ UNCHANGED padlen
  /\ UNCHANGED <<crand, idx, got, keys>>

(* The padding itself; do_key_exchange then returns 0 and                 *)
(* despotify_authenticate computes the auth hash and runs key_init, which  *)
(* exits the process when DH_compute_key rejects the server's public key. *)
ReadPaddingAndKeyInit ==
  /\ pc = "padding"
  /\ \/ /\ IF got["remote_pub_key"] = "pub_bad"
             THEN pc' = "exited" /\ UNCHANGED keys
             ELSE /\ pc' = "auth"
                  /\ keys' = KeyInit(SharedKey(got["remote_pub_key"]),
                                     AuthHash(got["salt"]), crand,
                                     got["server_random_16"])
        /\ UNCHANGED lastError
     \/ padlen > 0 /\ Fail("Key exchange failed.") /\ UNCHANGED keys
  /\ UNCHANGED <<crand, idx, got, padlen>>

(* Mutant: a do_auth failure reported as a key exchange failure.          *)
DoAuthWrongMessage ==
  /\ pc = "auth"
  /\ \/ pc' = "authenticated" /\ UNCHANGED lastError
     \/ Fail("Key exchange failed.")
  /\ UNCHANGED <<crand, idx, got, padlen, keys>>

(* do_auth: the authentication packet keyed with key_hmac is accepted, or *)
(* not.                                                                    *)
DoAuth ==
  /\ pc = "auth"
  /\ \/ pc' = "authenticated" /\ UNCHANGED lastError
     \/ Fail("Authentication failed.")
  /\ UNCHANGED <<crand, idx, got, padlen, keys>>

Terminal == {"failed", "authenticated", "aborted", "exited"}

(* despotify_authenticate has returned, or the process has ended.         *)
Done == pc \in Terminal /\ UNCHANGED vars

Init ==
  /\ pc = "connect"
  /\ crand \in ClientRandoms
  /\ idx = 1
  /\ got = [f \in {Fields[i] : i \in 1..Len(Fields)} |-> None]
  /\ padlen = 0
  /\ keys = NoKeys
  /\ lastError = None

Next ==
  \/ Connect \/ SendClientInitialPacket \/ ReadStatus \/ ReadField
  \/ ReadPadLen \/ ReadPaddingAndKeyInit \/ DoAuth \/ Done

(* Each blocking read or write returns: the server answers or closes.     *)
Spec == Init /\ [][Next]_vars /\ WF_vars(Next)

-----------------------------------------------------------------------------
(* Properties.                                                             *)

(* spec.md 4.1 step 4, the reference key schedule: message i is the       *)
(* credential hash (round 1) or digest i-1, then both randoms and the      *)
(* round number i; the five digests are concatenated and sliced into       *)
(* [0:20) MAC key, [20:52) send key and [52:84) receive key.               *)
RECURSIVE SpecDigest(_, _, _, _, _)
SpecDigest(i, shared, auth, c, s) ==
  Hmac(shared, [head |-> IF i = 1 THEN auth
                                  ELSE SpecDigest(i - 1, shared, auth, c, s),
                crand |-> c, srand |-> s, round |-> i])

SpecKeys(shared, auth, c, s) ==
  LET ByteAt(p) == <<SpecDigest(p \div 20 + 1, shared, auth, c, s), p % 20>>
  IN [hmac |-> [k \in 1..20 |-> ByteAt(k - 1)],
      send |-> [k \in 1..32 |-> ByteAt(19 + k)],
      recv |-> [k \in 1..32 |-> ByteAt(51 + k)],
      sendIV |-> 0, recvIV |-> 0]

TypeOK ==
  /\ pc \in {"connect", "send", "status", "fields", "padlen", "padding",
             "auth"} \cup Terminal
  /\ crand \in ClientRandoms
  /\ idx \in 1..Len(Fields)
  /\ \A i \in 1..Len(Fields) : got[Fields[i]] \in FieldValues(Fields[i]) \cup {None}
  /\ padlen \in 0..255
  /\ DOMAIN keys = {"hmac", "send", "recv", "sendIV", "recvIV"}
  /\ lastError \in Errors \cup {None}

(* Session keys are installed only from a complete server packet, and they *)
(* are exactly the spec's key schedule over the values the server sent in  *)
(* it, with both keystream counters at 0: key_init's in-place loop over    *)
(* message[] and its memcpy offsets agree with the reference, and no short *)
(* read lets the exchange go on with a field it did not receive.           *)
KeysMatchReference ==
  keys # NoKeys =>
    /\ \A i \in 1..Len(Fields) : got[Fields[i]] # None
    /\ keys = SpecKeys(SharedKey(got["remote_pub_key"]), AuthHash(got["salt"]),
                       crand, got["server_random_16"])

(* spec.md 4.1 failure semantics: a failure before key derivation is a     *)
(* connection failure and one after it an authentication failure; the      *)
(* message despotify_authenticate leaves in last_error says which.         *)
FailureClassified ==
  pc = "failed" => (keys # NoKeys <=> lastError = "Authentication failed.")

(* spec.md 7: a malformed or rejected server packet is a HandshakeError    *)
(* returned to the caller; only a failed key agreement may end the         *)
(* process.  read_server_initial_packet's assert (padlen > 0) does not     *)
(* return: it aborts.                                                      *)
NoAbortOnMalformedPacket == pc # "aborted"

=============================================================================
