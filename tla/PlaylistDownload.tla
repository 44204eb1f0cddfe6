-------------------------- MODULE PlaylistDownload --------------------------
(***************************************************************************)
(* The curses client's playlist downloader (clients/despotify/             *)
(* ui-playlist.c) running on top of the channel multiplexer.               *)
(*                                                                         *)
(* Two threads share it.  The event thread runs gui_playlists_download:    *)
(* as an EV_RUN step (the switch on e->state) while the event is busy,     *)
(* and as an EV_MSG step for every message taken off the message queue.    *)
(* The network thread runs the multiplexer's pump, which invokes           *)
(* gui_playlist_channel_callback for each sub-message of the request's     *)
(* channel; on END or ERROR the callback posts a message to the event      *)
(* thread, which parses the response and frees the request context.        *)
(*                                                                         *)
(* The multiplexer (channel.c, commands.c) is not in the repository: its   *)
(* actions follow spec.md section 4.3 (callback, then total_data_len       *)
(* advances, then the channel is released on a terminal state).  So do     *)
(* the XML parsers playlist_create_from_xml and                            *)
(* playlist_track_update_from_gzxml, abstracted to their effect on the     *)
(* playlist flags and track count.  The downloader issues one request at   *)
(* a time, so one channel slot and one request context suffice.            *)
(***************************************************************************)
EXTENDS Integers, Sequences, FiniteSets, SequencesExt

CONSTANTS
  NumPlaylists,   \* playlists in the server's list-of-lists reply
  TrackCounts,    \* track counts a playlist reply may carry
  FragLens,       \* sizes of the DATA fragments the server sends
  MaxResponse,    \* bound: bytes the server sends on one channel
  MaxErrors,      \* bound: ERROR replies the server sends in a run
  CanDisconnect   \* whether the connection may be torn down

ASSUME NumPlaylists \in Nat \ {0}
ASSUME TrackCounts \subseteq Nat /\ TrackCounts # {}
ASSUME FragLens \subseteq Nat \ {0} /\ FragLens # {}
ASSUME MaxResponse \in Nat /\ MaxErrors \in Nat /\ CanDisconnect \in BOOLEAN

(* Literal constants of ui-playlist.c. *)
GzipHeaderLen == 10     \* "skip a minimal gzip header"
BrowseMax == 128        \* if (p->num_tracks < 128) memcpy(...)
XmlHead == -1           \* the 51-byte "<?xml ...?>\n<playlist>\n" prefix,
                        \* kept as one position before the payload

Flags == {"LOADED", "ERROR", "TRACKS_LOADED", "TRACKS_ERROR"}
MsgKinds == {"SESSIONPTR", "LIST_OK", "LIST_ERROR", "TRACKS_OK",
             "TRACKS_ERROR", "BROWSE_OK", "BROWSE_ERROR", "NET_ERROR"}
ReqKinds == {"list", "tracks", "browse"}

VARIABLES
  estate,     \* e->state of the downloader event: 0..3
  status,     \* event_mark_busy / event_mark_idle / event_mark_done
  session,    \* the static SESSION pointer is set (MSG_GUI_SESSIONPTR)
  msgs,       \* the event message queue (event_msg_post)
  req,        \* the live struct reqcontext, or NoReq
  chan,       \* the request's channel: state and total_data_len
  connected,  \* the transport is up
  playlists,  \* *playlist_root(): flags and num_tracks of each playlist
  errorsLeft  \* ERROR replies the server may still send

vars == <<estate, status, session, msgs, req, chan, connected, playlists,
          errorsLeft>>

NoReq == [kind |-> "none", pl |-> 0, resp |-> <<>>, sent |-> 0, init |-> 0]
FreeChan == [state |-> "free", total |-> 0]

(* The byte positions [from, to) of a channel's payload stream. *)
Bytes(from, to) == [i \in 1..(to - from) |-> from + i - 1]

-----------------------------------------------------------------------------
(* Request contexts and the commands that open their channels.             *)

(* malloc of a struct reqcontext; response = buffer_init() plus the XML    *)
(* prefix for getplaylist requests, track_id_list for browse requests.     *)
NewReq(kind, pl, sent, init) ==
  [kind |-> kind, pl |-> pl,
   resp |-> IF kind = "browse" THEN <<>> ELSE <<XmlHead>>,
   sent |-> sent, init |-> init]

(* cmd_getplaylist / cmd_browse over open_channel: the command is written  *)
(* and the channel registered when the transport is up, else it fails.     *)
OpenChannel == chan' = [state |-> "open", total |-> 0]

(* The failure branch shared by cases 1, 2 and 3: free the request,        *)
(* post MSG_APP_NET_ERROR and event_mark_done.                             *)
CommandFailed ==
  /\ req' = NoReq
  /\ msgs' = Append(msgs, "NET_ERROR")
  /\ status' = "done"

-----------------------------------------------------------------------------
(* EV_RUN steps: the switch (e->state) of gui_playlists_download.          *)

(* case 0: wait for the session pointer, else fall through to case 1.     *)
RunWaitSession ==
  /\ status = "busy" /\ estate = 0 /\ ~session
  /\ status' = "idle"
  /\ UNCHANGED <<estate, session, msgs, req, chan, connected, playlists,
                 errorsLeft>>

(* case 1 (and case 0 falling through): request the list of playlists     *)
(* with the all-zero PLAYLIST_LIST_PLAYLISTS id.                          *)
RunListPlaylists ==
  /\ status = "busy"
  /\ \/ estate = 1
     \/ estate = 0 /\ session
  /\ IF connected
       THEN /\ req' = NewReq("list", 0, 0, 0)
            /\ OpenChannel
            /\ estate' = 2
            /\ status' = "idle"
            /\ UNCHANGED msgs
       ELSE /\ estate' = 1
            /\ CommandFailed
            /\ UNCHANGED chan
  /\ UNCHANGED <<session, connected, playlists, errorsLeft>>

(* Neither loaded nor failed: the loop condition of case 2.               *)
TracksPending(p) == p.flags \cap {"LOADED", "ERROR"} = {}

(* case 2: request the track list of the first playlist not yet loaded,   *)
(* or move on to case 3 when there is none.                               *)
RunLoadTracks ==
  /\ status = "busy" /\ estate = 2
  /\ LET i == SelectInSeq(playlists, TracksPending) IN
       IF i = 0
         THEN /\ estate' = 3
              /\ UNCHANGED <<status, msgs, req, chan>>
         ELSE IF connected
           THEN /\ req' = NewReq("tracks", i, 0, 0)
                /\ OpenChannel
                /\ status' = "idle"
                /\ UNCHANGED <<estate, msgs>>
           ELSE CommandFailed /\ UNCHANGED <<estate, chan>>
  /\ UNCHANGED <<session, connected, playlists, errorsLeft>>

(* Neither track meta data loaded nor the playlist failed: case 3's test. *)
MetaPending(p) == p.flags \cap {"TRACKS_LOADED", "ERROR"} = {}
NeedsBrowse(p) == MetaPending(p) /\ p.ntracks # 0

(* The entries of track_id_list the copy loop of case 3 fills in: only     *)
(* indexes below 128 are copied.                                           *)
CopiedIds(n) == IF n < BrowseMax THEN n ELSE BrowseMax

(* case 3: the search loop marks pending empty playlists before the first *)
(* playlist to browse as TRACKS_LOADED, then browses that playlist with   *)
(* a track_id_list of which only the first 128 entries are filled in.     *)
RunBrowseTracks ==
  /\ status = "busy" /\ estate = 3
  /\ LET i == SelectInSeq(playlists, NeedsBrowse)
         last == IF i = 0 THEN Len(playlists) ELSE i - 1
         marked == [j \in 1..Len(playlists) |->
                      IF j <= last /\ MetaPending(playlists[j])
                        THEN [playlists[j] EXCEPT
                                !.flags = @ \cup {"TRACKS_LOADED"}]
                        ELSE playlists[j]]
     IN /\ playlists' = marked
        /\ IF i = 0
             THEN /\ status' = "done"
                  /\ UNCHANGED <<msgs, req, chan>>
             ELSE LET n == playlists[i].ntracks IN
                  IF connected
                    THEN /\ req' = NewReq("browse", i, n, CopiedIds(n))
                         /\ OpenChannel
                         /\ status' = "idle"
                         /\ UNCHANGED msgs
                    ELSE CommandFailed /\ UNCHANGED chan
  /\ UNCHANGED <<estate, session, connected, errorsLeft>>

-----------------------------------------------------------------------------
(* EV_MSG steps: the MSG_CLASS_GUI switch of gui_playlists_download.       *)
(* Every branch but MSG_GUI_SESSIONPTR frees the request context.          *)

(* MSG_GUI_SESSIONPTR: remember the session and wake up from case 0.      *)
OnSessionPtr ==
  /\ session' = TRUE
  /\ IF estate = 0 THEN estate' = 1 /\ status' = "busy"
                   ELSE UNCHANGED <<estate, status>>
  /\ UNCHANGED <<req, playlists>>

(* MSG_GUI_PLAYLIST_LIST_OK / _TRACKS_OK: playlist_create_from_xml builds  *)
(* the list of playlists, or loads one playlist's track ids and marks it   *)
(* PLAYLIST_LOADED.                                                        *)
OnListOk ==
  /\ playlists' = [i \in 1..NumPlaylists |-> [flags |-> {}, ntracks |-> 0]]
  /\ req' = NoReq /\ status' = "busy"
  /\ UNCHANGED <<estate, session>>

(* Mutant: the parsed track count is one too many. *)
OnTracksOkCountsOneMore ==
  /\ \E n \in TrackCounts :
       playlists' = [playlists EXCEPT ![req.pl] =
                       [flags |-> @.flags \cup {"LOADED"}, ntracks |-> n + 1]]
  /\ req' = NoReq /\ status' = "busy"
  /\ UNCHANGED <<estate, session>>

OnTracksOk ==
  /\ \E n \in TrackCounts :
       playlists' = [playlists EXCEPT ![req.pl] =
                       [flags |-> @.flags \cup {"LOADED"}, ntracks |-> n]]
  /\ req' = NoReq /\ status' = "busy"
  /\ UNCHANGED <<estate, session>>

(* MSG_GUI_PLAYLIST_LIST_ERROR: retry the list from case 1 after a delay. *)
(* Mutant: the error path forgets to free the request context. *)
OnListErrorLeaks ==
  /\ estate' = 1 /\ status' = "busy"
  /\ UNCHANGED <<req, session, playlists>>

OnListError ==
  /\ req' = NoReq /\ estate' = 1 /\ status' = "busy"
  /\ UNCHANGED <<session, playlists>>

(* MSG_GUI_PLAYLIST_TRACKS_ERROR / _BROWSE_ERROR: flag the playlist and    *)
(* retry after a delay.                                                    *)
OnRequestError(flag) ==
  /\ playlists' = [playlists EXCEPT ![req.pl].flags = @ \cup {flag}]
  /\ req' = NoReq /\ status' = "busy"
  /\ UNCHANGED <<estate, session>>

(* MSG_GUI_PLAYLIST_BROWSE_OK: playlist_track_update_from_gzxml stores the *)
(* track meta data and sets PLAYLIST_TRACKS_LOADED.                        *)
(* Mutant: the meta data update does not set PLAYLIST_TRACKS_LOADED. *)
OnBrowseOkKeepsFlags ==
  /\ req' = NoReq /\ status' = "busy"
  /\ UNCHANGED <<estate, session, playlists>>

OnBrowseOk ==
  /\ playlists' = [playlists EXCEPT ![req.pl].flags = @ \cup {"TRACKS_LOADED"}]
  /\ req' = NoReq /\ status' = "busy"
  /\ UNCHANGED <<estate, session>>

(* Take the next message off the queue and run the handler's EV_MSG path. *)
(* MSG_APP_NET_ERROR is for other handlers: this one ignores it.           *)
HandleMsg ==
  /\ msgs # <<>>
  /\ msgs' = Tail(msgs)
  /\ CASE Head(msgs) = "SESSIONPTR"   -> OnSessionPtr
       [] Head(msgs) = "LIST_OK"      -> OnListOk
       [] Head(msgs) = "TRACKS_OK"    -> OnTracksOk
       [] Head(msgs) = "BROWSE_OK"    -> OnBrowseOk
       [] Head(msgs) = "LIST_ERROR"   -> OnListError
       [] Head(msgs) = "TRACKS_ERROR" -> OnRequestError("ERROR")
       [] Head(msgs) = "BROWSE_ERROR" -> OnRequestError("TRACKS_ERROR")
       [] Head(msgs) = "NET_ERROR"    -> UNCHANGED <<estate, status, session,
                                                    req, playlists>>
  /\ UNCHANGED <<chan, connected, errorsLeft>>

-----------------------------------------------------------------------------
(* The network thread: pump delivers the server's sub-messages for the     *)
(* request's channel to gui_playlist_channel_callback.                     *)

(* CHANNEL_DATA branch of the callback: a browse response skips whatever   *)
(* is left of the 10-byte gzip header, given the bytes the channel had     *)
(* received before this fragment; everything else is appended.            *)
(* Mutant: the header skip ignores the bytes already received. *)
DataCallbackIgnoresTotal(r, total, len) ==
  LET skip == IF r.kind = "browse" /\ total < GzipHeaderLen
                THEN IF GzipHeaderLen < len THEN GzipHeaderLen ELSE len
                ELSE 0
  IN [r EXCEPT !.resp = @ \o Bytes(total + skip, total + len)]

DataCallback(r, total, len) ==
  LET skip == IF r.kind = "browse" /\ total < GzipHeaderLen
                THEN IF GzipHeaderLen - total < len THEN GzipHeaderLen - total
                                                    ELSE len
                ELSE 0
  IN [r EXCEPT !.resp = @ \o Bytes(total + skip, total + len)]

(* CHANNEL_END / CHANNEL_ERROR branches: the message posted for the        *)
(* request, chosen by track_id_list, then by playlist == NULL.             *)
OutcomeMsg(r, ok) ==
  CASE r.kind = "browse" -> IF ok THEN "BROWSE_OK" ELSE "BROWSE_ERROR"
    [] r.kind = "list"   -> IF ok THEN "LIST_OK" ELSE "LIST_ERROR"
    [] r.kind = "tracks" -> IF ok THEN "TRACKS_OK" ELSE "TRACKS_ERROR"

(* pump: a DATA sub-message; total_data_len advances after the callback.   *)
PumpData ==
  /\ connected /\ chan.state \in {"open", "data"}
  /\ \E len \in FragLens :
       /\ chan.total + len <= MaxResponse
       /\ req' = DataCallback(req, chan.total, len)
       /\ chan' = [state |-> "data", total |-> chan.total + len]
  /\ UNCHANGED <<estate, status, session, msgs, connected, playlists,
                 errorsLeft>>

(* pump: an END or ERROR sub-message; the callback posts the outcome and   *)
(* the channel is released.                                                *)
PumpTerminal(ok) ==
  /\ connected /\ chan.state \in {"open", "data"}
  /\ msgs' = Append(msgs, OutcomeMsg(req, ok))
  /\ chan' = FreeChan
  /\ UNCHANGED <<estate, status, session, req, connected, playlists>>

PumpEnd == PumpTerminal(TRUE) /\ UNCHANGED errorsLeft

PumpError ==
  /\ errorsLeft > 0
  /\ PumpTerminal(FALSE)
  /\ errorsLeft' = errorsLeft - 1

(* Session teardown: the transport closes and every open channel gets one  *)
(* synthetic ERROR (spec.md section 5).                                    *)
Disconnect ==
  /\ CanDisconnect /\ connected
  /\ connected' = FALSE
  /\ IF chan.state # "free"
       THEN msgs' = Append(msgs, OutcomeMsg(req, FALSE)) /\ chan' = FreeChan
       ELSE UNCHANGED <<msgs, chan>>
  /\ UNCHANGED <<estate, status, session, req, playlists, errorsLeft>>

-----------------------------------------------------------------------------
Init ==
  /\ estate = 0
  /\ status = "busy"
  /\ session = FALSE
  /\ msgs = <<"SESSIONPTR">>
  /\ req = NoReq
  /\ chan = FreeChan
  /\ connected = TRUE
  /\ playlists = <<>>
  /\ errorsLeft = MaxErrors

(* The downloader is done and its messages are drained: nothing is left   *)
(* to happen.                                                              *)
Finished ==
  /\ status = "done" /\ msgs = <<>> /\ chan.state = "free"
  /\ UNCHANGED vars

Next ==
  \/ RunWaitSession \/ RunListPlaylists \/ RunLoadTracks \/ RunBrowseTracks
  \/ HandleMsg
  \/ PumpData \/ PumpEnd \/ PumpError \/ Disconnect
  \/ Finished

(* The event loop runs a busy event and dispatches queued messages; the    *)
(* server answers every request it received (there is no timeout in the    *)
(* code).  ERROR replies and disconnects are not forced.                   *)
Fairness ==
  /\ WF_vars(RunWaitSession \/ RunListPlaylists \/ RunLoadTracks
             \/ RunBrowseTracks)
  /\ WF_vars(HandleMsg)
  /\ WF_vars(PumpEnd)

Spec == Init /\ [][Next]_vars /\ Fairness

-----------------------------------------------------------------------------
(* Properties.                                                             *)

PlaylistRec == [flags : SUBSET Flags, ntracks : TrackCounts \cup {0}]
Positions == {XmlHead} \cup (0..MaxResponse)

TypeOK ==
  /\ estate \in 0..3
  /\ status \in {"busy", "idle", "done"}
  /\ session \in BOOLEAN
  /\ msgs \in Seq(MsgKinds)
  /\ req \in [kind : ReqKinds \cup {"none"}, pl : 0..NumPlaylists,
              resp : Seq(Positions), sent : Nat, init : Nat]
  /\ chan \in [state : {"free", "open", "data"}, total : 0..MaxResponse]
  /\ connected \in BOOLEAN
  /\ playlists \in Seq(PlaylistRec)
  /\ errorsLeft \in 0..MaxErrors

(* While a request's channel is open, the response buffer the callback     *)
(* builds is exactly the payload received so far: the XML prefix and every *)
(* byte for a getplaylist request, every byte but the first 10 for a       *)
(* browse request, however the server split the payload into fragments.   *)
(* This is the header stripping of gui_playlist_channel_callback, which    *)
(* depends on total_data_len being the bytes before the fragment.          *)
ResponseIsPayload ==
  chan.state # "free" =>
    req.resp = IF req.kind = "browse"
                 THEN Bytes(IF chan.total < GzipHeaderLen THEN chan.total
                                                          ELSE GzipHeaderLen,
                            chan.total)
                 ELSE <<XmlHead>> \o Bytes(0, chan.total)

(* Outcome messages waiting in the queue. *)
Outcomes == SelectSeq(msgs, LAMBDA m : m \notin {"SESSIONPTR", "NET_ERROR"})

(* Every live request context is settled exactly once: it is owned either  *)
(* by an open channel or by exactly one queued END/ERROR message of its    *)
(* own kind, and none of these exists without a live context.  A second   *)
(* message would make the handler free the context twice; none would      *)
(* leave the downloader idle for ever.  It spans the callback posting from *)
(* the network thread, teardown, and the handler freeing on the event      *)
(* thread.                                                                 *)
RequestSettledOnce ==
  IF req = NoReq
    THEN chan.state = "free" /\ Outcomes = <<>>
    ELSE \/ chan.state # "free" /\ Outcomes = <<>>
         \/ chan.state = "free" /\ Outcomes \in
                {<<OutcomeMsg(req, TRUE)>>, <<OutcomeMsg(req, FALSE)>>}

(* A browse request only sends track ids that case 3 copied into           *)
(* track_id_list: cmd_browse is passed p->num_tracks ids, but only the     *)
(* first 128 were filled in.                                               *)
BrowseIdsInitialized == req.kind = "browse" => req.sent <= req.init

(* spec.md 4.4: a browse failure is a sticky per-playlist error flag, not  *)
(* an unbounded retry: a playlist flagged PLAYLIST_TRACKS_ERROR is never   *)
(* browsed again.                                                          *)
BrowseErrorSticky ==
  req.kind = "browse" => "TRACKS_ERROR" \notin playlists[req.pl].flags

(* Settled: loaded, or given up on, at both stages of the download.        *)
AllSettled ==
  \A i \in 1..Len(playlists) :
    /\ ~TracksPending(playlists[i])
    /\ ~MetaPending(playlists[i])

(* The downloader eventually finishes; unless the connection was lost, it  *)
(* finishes with the list, every playlist and its track meta data loaded   *)
(* or flagged as failed.                                                   *)
DownloadCompletes ==
  <>(status = "done" /\ (connected => Len(playlists) > 0 /\ AllSettled))

=============================================================================
