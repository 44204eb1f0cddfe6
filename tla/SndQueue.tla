------------------------------ MODULE SndQueue ------------------------------
(***************************************************************************)
(* The sound FIFO of lib/sndqueue.c between two threads.                   *)
(*                                                                         *)
(* The audio thread (the consumer) runs ov_open_callbacks and then         *)
(* audio_play, which calls pcm_read over and over; the Vorbis layer calls  *)
(* snd_read_and_dequeue_callback from both.  The network side (the         *)
(* producer: the client's download of the track) answers each call of the  *)
(* audio_request callback with snd_ioctl pushes and the snd_mark_* calls.  *)
(* The client is not in the repository: it is modelled as every order of   *)
(* those calls the header allows, one download answered at a time.         *)
(*                                                                         *)
(* Every section that holds fifo->lock or session->lock is one action; the *)
(* consumer's pthread_cond_wait is where it gives fifo->lock up.  The FIFO *)
(* is a heap of oggBUFF records with next pointers, so that a freed buffer *)
(* or a dangling fifo->end is visible.  Audio bytes are stream positions:  *)
(* a buffer holds the positions [from, from + length).                     *)
(***************************************************************************)
EXTENDS Naturals, Sequences, FiniteSets

CONSTANTS
  Chunks,        \* lengths of the data fragments the client pushes
  MaxPushes,     \* data fragments in the stream before SND_CMD_END
  ReadSizes,     \* size * nmemb the Vorbis layer asks the callback for
  Threshold,     \* pcm_read's 10 * 160 * 1024 / 8 bytes, scaled down
  Spurious,      \* pthread_cond_wait may return without a signal
  CallbackFirst, \* the client calls snd_set_data_callback before snd_start
  OpenFails,     \* ov_open_callbacks or audio_context_new may fail
  DestroyAnyTime \* snd_destroy may be called while the sound thread runs

ASSUME Chunks \subseteq Nat \ {0} /\ ReadSizes \subseteq Nat \ {0}
ASSUME MaxPushes \in Nat /\ Threshold \in Nat /\ Spurious \in BOOLEAN
ASSUME CallbackFirst \in BOOLEAN /\ OpenFails \in BOOLEAN
ASSUME DestroyAnyTime \in BOOLEAN

(* The replay-gain header snd_ioctl drops at the start of each stream.     *)
HeaderLen == 167

Nil == 0

VARIABLES
  heap,      \* oggBUFF records by address: next, cmd, from, length, consumed
  freed,     \* addresses passed to DSFYfree
  start,     \* session->fifo->start
  end,       \* session->fifo->end
  totbytes,  \* session->fifo->totbytes
  dlstate,   \* session->dlstate
  cbSet,     \* session->audio_request has been set
  cpc,       \* where the audio thread is
  signalled, \* pthread_cond_signal has woken the waiting consumer
  rawTell,   \* ov_raw_tell: bytes the callback has returned to Vorbis
  decoded,   \* the position intervals returned to Vorbis, in order
  reqs,      \* audio_request calls the client has not yet finished
  pushes,    \* data fragments pushed so far
  pushed,    \* stream bytes pushed so far
  ended,     \* the client has pushed SND_CMD_END
  answered,  \* a fragment has been pushed since the last snd_mark_idle
  actx,      \* session->actx: audio_context_new has succeeded
  destroyed  \* snd_destroy has freed the session and its FIFO

vars == <<heap, freed, start, end, totbytes, dlstate, cbSet, cpc, signalled,
          rawTell, decoded, reqs, pushes, pushed, ended, answered, actx,
          destroyed>>

Addrs == DOMAIN heap

(* The buffers reached from fifo->start by next pointers, in order.        *)
RECURSIVE ChainFrom(_, _)
ChainFrom(p, n) ==
  IF p = Nil \/ n = 0 THEN <<>> ELSE <<p>> \o ChainFrom(heap[p].next, n - 1)

Queue == ChainFrom(start, Cardinality(Addrs))

-----------------------------------------------------------------------------
(* Mutant: the dropped header is cut from the end of the fragment.        *)
PushKeepsHead(cmd, from, length) ==
  LET a    == Cardinality(Addrs) + 1
      drop == totbytes < HeaderLen /\ length > HeaderLen
      b    == [next |-> Nil, cmd |-> cmd, consumed |-> 0, from |-> from,
               length |-> IF drop THEN length - HeaderLen ELSE length]
  IN /\ heap' = [x \in Addrs \cup {a} |->
                   IF x = a THEN b
                   ELSE IF x = end THEN [heap[x] EXCEPT !.next = a]
                   ELSE heap[x]]
     /\ end' = a
     /\ start' = IF start = Nil THEN a ELSE start
     /\ totbytes' = totbytes + b.length
     /\ signalled' = (cpc = "wait")

(* snd_ioctl: malloc a buffer, drop the first 167 bytes when the FIFO has  *)
(* counted fewer than 167 bytes and the fragment is longer, link it in,    *)
(* add its length to totbytes, and signal fifo->cs after unlocking.        *)
Push(cmd, from, length) ==
  LET a    == Cardinality(Addrs) + 1
      drop == totbytes < HeaderLen /\ length > HeaderLen
      b    == [next |-> Nil, cmd |-> cmd, consumed |-> 0,
               from |-> IF drop THEN from + HeaderLen ELSE from,
               length |-> IF drop THEN length - HeaderLen ELSE length]
  IN /\ heap' = [x \in Addrs \cup {a} |->
                   IF x = a THEN b
                   ELSE IF x = end THEN [heap[x] EXCEPT !.next = a]
                   ELSE heap[x]]
     /\ end' = a
     /\ start' = IF start = Nil THEN a ELSE start
     /\ totbytes' = totbytes + b.length
     /\ signalled' = (cpc = "wait")

UnlinkKeepsStart(b) ==
  /\ start' = start
  /\ end' = IF b = end THEN Nil ELSE end
  /\ freed' = freed \cup {b}

(* The buffer at fifo->start taken out of the list and freed.              *)
Unlink(b) ==
  /\ start' = heap[b].next
  /\ end' = IF b = end THEN Nil ELSE end
  /\ freed' = freed \cup {b}

(* snd_reset: totbytes to 0 and dlstate to DL_IDLE for the next song.     *)
SndReset ==
  /\ totbytes' = 0
  /\ dlstate' = "IDLE"

(* The buffers on the list from fifo->start.                               *)
QueuedBuffers == {Queue[i] : i \in 1..Len(Queue)}

(* snd_stop, the default audio_end: with an audio context audio_stop ends  *)
(* the audio thread; every buffer still queued is freed, start and end are *)
(* cleared, and snd_reset sets totbytes to 0 and dlstate to DL_IDLE.       *)
(* Without an audio context (inside ov_open_callbacks) the thread goes on  *)
(* and the callback returns snd_stop's uninitialised ret to Vorbis.        *)
SndStop ==
  /\ freed' = freed \cup QueuedBuffers
  /\ start' = Nil
  /\ end' = Nil
  /\ SndReset
  /\ cpc' = IF actx THEN "stopped" ELSE "pcm"

(* Mutant: the copy is not clamped to what is left of the buffer.         *)
CopyLenUnclamped(remaining, ptrsize) == ptrsize

(* The bytes one call copies out: what remains of the buffer, at most      *)
(* ptrsize.                                                                *)
CopyLen(remaining, ptrsize) ==
  IF remaining < ptrsize THEN remaining ELSE ptrsize

(* The body of snd_read_and_dequeue_callback from b = fifo->start on, with *)
(* fifo->lock held: SND_CMD_END unlinks the buffer and calls audio_end,    *)
(* which is snd_stop; data is copied out up to ptrsize and the buffer      *)
(* unlinked once it is used up.  A NULL fifo->start is dereferenced.       *)
ProcessHead ==
  LET b == start IN
  \/ /\ b = Nil
     /\ cpc' = "crashed"
     /\ UNCHANGED <<heap, freed, start, end, totbytes, dlstate, rawTell, decoded>>
  \/ /\ b # Nil
     /\ heap[b].cmd = "END"
     /\ SndStop
     /\ UNCHANGED <<heap, rawTell, decoded>>
  \/ /\ b # Nil
     /\ heap[b].cmd = "DATA"
     /\ \E ptrsize \in ReadSizes :
          LET r   == heap[b].length - heap[b].consumed
              len == CopyLen(r, ptrsize)
              at  == heap[b].from + heap[b].consumed
          IN /\ heap' = [heap EXCEPT ![b].consumed = @ + len]
             /\ decoded' = Append(decoded, <<at, at + len>>)
             /\ rawTell' = rawTell + len
             /\ IF heap[b].consumed + len = heap[b].length
                  THEN Unlink(b)
                  ELSE UNCHANGED <<start, end, freed>>
     /\ cpc' = "pcm"
     /\ UNCHANGED <<totbytes, dlstate>>

-----------------------------------------------------------------------------
(* The audio thread.                                                       *)

(* snd_read_and_dequeue_callback up to its wait: with fifo->lock held, a   *)
(* non-empty FIFO is processed at once; an empty one takes session->lock,  *)
(* calls audio_request if it is set and dlstate is DL_IDLE (leaving        *)
(* dlstate as it is), and waits on fifo->cs, giving fifo->lock up.         *)
Dequeue ==
  /\ cpc = "read"
  /\ \/ /\ start # Nil
        /\ ProcessHead
        /\ UNCHANGED <<signalled, reqs>>
     \/ /\ start = Nil
        /\ reqs' = IF cbSet /\ dlstate = "IDLE" THEN reqs + 1 ELSE reqs
        /\ cpc' = "wait"
        /\ signalled' = FALSE
        /\ UNCHANGED <<heap, freed, start, end, totbytes, dlstate, rawTell, decoded>>
  /\ UNCHANGED <<cbSet, pushes, pushed, ended, answered, actx, destroyed>>

(* pthread_cond_wait returns, after a signal or spuriously, with           *)
(* fifo->lock held again; the callback goes on to process fifo->start      *)
(* without looking at it again.                                            *)
Wake ==
  /\ cpc = "wait"
  /\ signalled \/ Spurious
  /\ signalled' = FALSE
  /\ ProcessHead
  /\ UNCHANGED <<cbSet, reqs, pushes, pushed, ended, answered, actx, destroyed>>

(* ov_open_callbacks returns to snd_thread once the dequeue callback has   *)
(* returned (the Vorbis headers are taken to be in the first fragment).    *)
(* A non-zero result (not Vorbis, bad header) ends the thread; otherwise   *)
(* ov_info and audio_context_new, whose failure also ends the thread, and  *)
(* audio_play, which goes on to call pcm_read.                             *)
OpenReturns ==
  /\ cpc = "pcm" /\ ~actx
  /\ \/ OpenFails /\ cpc' = "exited" /\ UNCHANGED actx
     \/ actx' = TRUE /\ UNCHANGED cpc
  /\ UNCHANGED <<heap, freed, start, end, totbytes, dlstate, cbSet, signalled,
                 rawTell, decoded, reqs, pushes, pushed, ended, answered,
                 destroyed>>

(* pcm_read: when the stream has not ended and less than the threshold is  *)
(* buffered beyond ov_raw_tell, take session->lock, call audio_request if  *)
(* it is set and dlstate is DL_IDLE and set DL_DOWNLOADING; then ov_read,  *)
(* which calls the dequeue callback.                                       *)
PcmRead ==
  /\ cpc = "pcm" /\ actx
  /\ IF /\ dlstate # "END"
        /\ totbytes < rawTell + Threshold
        /\ cbSet /\ dlstate = "IDLE"
       THEN reqs' = reqs + 1 /\ dlstate' = "DOWNLOADING"
       ELSE UNCHANGED <<reqs, dlstate>>
  /\ cpc' = "read"
  /\ UNCHANGED <<heap, freed, start, end, totbytes, cbSet, signalled, rawTell,
                 decoded, pushes, pushed, ended, answered, actx, destroyed>>

-----------------------------------------------------------------------------
(* The client: the network thread's answers to audio_request.              *)

(* snd_set_data_callback, which the client calls after snd_start.          *)
SetDataCallback ==
  /\ ~cbSet
  /\ cbSet' = TRUE
  /\ UNCHANGED <<heap, freed, start, end, totbytes, dlstate, cpc, signalled,
                 rawTell, decoded, reqs, pushes, pushed, ended, answered>>

(* A fragment of the requested data, pushed with snd_ioctl.                *)
PushData ==
  /\ reqs > 0 /\ pushes < MaxPushes
  /\ \E len \in Chunks :
       /\ Push("DATA", pushed, len)
       /\ pushed' = pushed + len
  /\ pushes' = pushes + 1
  /\ answered' = TRUE
  /\ UNCHANGED <<freed, dlstate, cbSet, cpc, rawTell, decoded, reqs, ended>>

(* snd_mark_dlding: data is on its way.                                    *)
SndMarkDlding ==
  /\ reqs > 0
  /\ dlstate' = "DOWNLOADING"
  /\ UNCHANGED <<heap, freed, start, end, totbytes, cbSet, cpc, signalled,
                 rawTell, decoded, reqs, pushes, pushed, ended, answered>>

(* snd_mark_idle: a request has been answered with at least one fragment;  *)
(* it signals nobody.                                                      *)
SndMarkIdle ==
  /\ reqs > 0 /\ answered
  /\ reqs' = reqs - 1
  /\ answered' = FALSE
  /\ dlstate' = "IDLE"
  /\ UNCHANGED <<heap, freed, start, end, totbytes, cbSet, cpc, signalled,
                 rawTell, decoded, pushes, pushed, ended>>

(* The last of the track: snd_ioctl(SND_CMD_END) with no data.             *)
PushEnd ==
  /\ reqs > 0 /\ pushes = MaxPushes /\ ~ended
  /\ Push("END", pushed, 0)
  /\ ended' = TRUE
  /\ UNCHANGED <<freed, dlstate, cbSet, cpc, rawTell, decoded, reqs, pushes,
                 pushed, answered>>

(* snd_mark_end: the download of the track is over.                        *)
SndMarkEnd ==
  /\ ended /\ reqs > 0
  /\ dlstate' = "END"
  /\ reqs' = 0
  /\ UNCHANGED <<heap, freed, start, end, totbytes, cbSet, cpc, signalled,
                 rawTell, decoded, pushes, pushed, ended, answered>>

(* Mutant: the loop frees the buffer at fifo->start only.                 *)
DestroyFreesHead ==
  IF start = Nil THEN freed ELSE freed \cup {start}

(* The buffers snd_destroy's loop frees: the list from fifo->start.        *)
DestroyFrees == freed \cup QueuedBuffers

(* snd_destroy: audio_context_free when there is an audio context, which   *)
(* stops the audio thread if it is between two calls of pcm_read (the      *)
(* audio driver is not in the repository; a thread inside the dequeue      *)
(* callback is not interrupted); then, under fifo->lock, every buffer from *)
(* fifo->start is freed (fifo->end is left as it was), and the FIFO, its   *)
(* lock and condition variable and the session are freed.  Unless          *)
(* DestroyAnyTime, the client calls it only once the thread has stopped or *)
(* exited.                                                                 *)
SndDestroy ==
  /\ ~destroyed
  /\ DestroyAnyTime \/ cpc \in {"stopped", "exited"}
  /\ destroyed' = TRUE
  /\ freed' = DestroyFrees
  /\ start' = Nil
  /\ cpc' = IF actx /\ cpc = "pcm" THEN "exited" ELSE cpc
  /\ UNCHANGED <<heap, end, totbytes, dlstate, cbSet, signalled, rawTell,
                 decoded, reqs, pushes, pushed, ended, answered, actx>>

-----------------------------------------------------------------------------
(* snd_init and snd_start: an empty FIFO, DL_IDLE, the data callback set  *)
(* already or not yet; the new thread's ov_open_callbacks calls the        *)
(* dequeue callback first.                                                 *)
Init ==
  /\ heap = <<>>
  /\ freed = {}
  /\ start = Nil /\ end = Nil
  /\ totbytes = 0
  /\ dlstate = "IDLE"
  /\ cbSet = CallbackFirst
  /\ cpc = "read"
  /\ signalled = FALSE
  /\ rawTell = 0
  /\ decoded = <<>>
  /\ reqs = 0 /\ pushes = 0 /\ pushed = 0 /\ ended = FALSE
  /\ answered = FALSE
  /\ actx = FALSE
  /\ destroyed = FALSE

Consumer == Dequeue \/ Wake \/ OpenReturns \/ PcmRead

(* The client makes no call on a destroyed session, and none of its calls  *)
(* touches the audio context.                                              *)
Client ==
  /\ ~destroyed
  /\ \/ SetDataCallback \/ PushData \/ SndMarkDlding \/ SndMarkIdle
     \/ PushEnd \/ SndMarkEnd
  /\ UNCHANGED <<actx, destroyed>>

Next == Consumer \/ Client \/ SndDestroy

(* Both threads are scheduled; the client answers every request it has     *)
(* been given.  It need not ever call snd_destroy.                         *)
Spec == Init /\ [][Next]_vars /\ WF_vars(Consumer) /\ WF_vars(Client)

-----------------------------------------------------------------------------
(* Properties.                                                             *)

TypeOK ==
  /\ \A a \in Addrs :
       /\ heap[a].next \in Addrs \cup {Nil}
       /\ heap[a].cmd \in {"DATA", "END"}
       /\ heap[a].consumed \in 0..heap[a].length
  /\ freed \subseteq Addrs
  /\ start \in Addrs \cup {Nil} /\ end \in Addrs \cup {Nil}
  /\ totbytes \in Nat /\ rawTell \in Nat
  /\ dlstate \in {"IDLE", "DOWNLOADING", "END"}
  /\ cpc \in {"read", "wait", "pcm", "stopped", "exited", "crashed"}
  /\ cbSet \in BOOLEAN /\ signalled \in BOOLEAN /\ ended \in BOOLEAN
  /\ reqs \in Nat /\ pushes \in 0..MaxPushes /\ pushed \in Nat
  /\ answered \in BOOLEAN /\ actx \in BOOLEAN /\ destroyed \in BOOLEAN

AbsQueue ==
  [i \in 1..Len(Queue) |->
     LET b == heap[Queue[i]] IN
     [cmd |-> b.cmd, from |-> b.from + b.consumed,
      length |-> b.length - b.consumed]]

(* The reader has stopped: the SND_CMD_END buffer has been consumed, or    *)
(* the sound thread has exited without reaching it.                        *)
ReaderGone == cpc = "exited" \/ \E a \in freed : heap[a].cmd = "END"

Fifo == INSTANCE StreamFifo WITH
          q <- AbsQueue, decoded <- decoded, stopped <- ReaderGone

(* The linked list, the two locks and the condition wait implement a       *)
(* plain FIFO: every step of snd_ioctl appends one entry, every step of    *)
(* the dequeue callback takes a prefix of the head entry or stops at       *)
(* SND_CMD_END, and no other step changes what the reader will get.        *)
FifoRefinement == Fifo!Spec

(* The Vorbis layer reads the stream exactly once, in order, from the end  *)
(* of the 167-byte header snd_ioctl drops: each interval the dequeue       *)
(* callback returns starts where the previous one ended.                   *)
PlaysStreamInOrder ==
  \A i \in 1..Len(decoded) :
    decoded[i][1] = IF i = 1 THEN HeaderLen ELSE decoded[i - 1][2]

(* The dequeue callback never takes a buffer from an empty FIFO: after     *)
(* pthread_cond_wait returns, fifo->start is not NULL.                     *)
NoDequeueFromEmpty == cpc # "crashed"

(* One download at a time: audio_request is not called again while an     *)
(* earlier call has not been answered (the comment in pcm_read: the state  *)
(* must become DL_DOWNLOADING once audio_request has been called).         *)
OneDownloadAtATime == reqs <= 1

(* snd_destroy releases every oggBUFF ever allocated: together with the    *)
(* dequeue callback's unlinks and snd_stop's loop, no buffer is left       *)
(* allocated once the session is gone, whether the thread reached the end  *)
(* of the track or exited early with data still queued.                    *)
DestroyReleasesAll == destroyed => freed = Addrs

(* Once snd_destroy has freed the session and its FIFO, the sound thread   *)
(* no longer runs code that uses them (its comment: "This will stop any    *)
(* playing sound too"): it has stopped at the end of the track or exited.  *)
NoUseAfterDestroy == destroyed => cpc \in {"stopped", "exited"}

(* The track is played to its end: the dequeue callback eventually reaches *)
(* SND_CMD_END and calls audio_end.                                        *)
StreamPlaysToEnd == <>(cpc = "stopped")

=============================================================================
