----------------------------- MODULE StreamFifo -----------------------------
(***************************************************************************)
(* What the sound FIFO promises its reader, without pointers, locks or     *)
(* threads: a queue of entries, each a run of stream positions or the end  *)
(* marker.  The producer appends; the reader takes a prefix of the data    *)
(* entry at the head, or reaches the end marker and stops, discarding the  *)
(* rest.  The reader may also give up before the end, and once it has      *)
(* stopped the owner may discard what is left.  SndQueue is shown to       *)
(* implement it.                                                           *)
(***************************************************************************)
EXTENDS Naturals, Sequences

VARIABLES
  q,        \* the queued entries: [cmd, from, length]
  decoded,  \* the intervals of positions handed to the reader, in order
  stopped   \* the reader has reached the end marker

vars == <<q, decoded, stopped>>

Entry ==
  [cmd : {"DATA"}, from : Nat, length : Nat \ {0}] \cup
  [cmd : {"END"}, from : Nat, length : {0}]

Init ==
  /\ q = <<>>
  /\ decoded = <<>>
  /\ stopped = FALSE

(* One entry is appended at the tail.                                      *)
Put ==
  /\ Len(q') = Len(q) + 1
  /\ SubSeq(q', 1, Len(q)) = q
  /\ q'[Len(q')] \in Entry
  /\ UNCHANGED <<decoded, stopped>>

(* The reader takes the first n positions of the head entry.               *)
Take ==
  /\ ~stopped
  /\ q # <<>>
  /\ Head(q).cmd = "DATA"
  /\ \E n \in 1..Head(q).length :
       /\ decoded' = Append(decoded, <<Head(q).from, Head(q).from + n>>)
       /\ q' = IF n = Head(q).length
                 THEN Tail(q)
                 ELSE [q EXCEPT ![1].from = @ + n, ![1].length = @ - n]
  /\ UNCHANGED stopped

(* The reader reaches the end marker: it stops and the queue is emptied.   *)
TakeEnd ==
  /\ ~stopped
  /\ q # <<>>
  /\ Head(q).cmd = "END"
  /\ stopped' = TRUE
  /\ q' = <<>>
  /\ UNCHANGED decoded

(* The reader gives up before the end marker; the queue stays as it is.   *)
Abandon ==
  /\ ~stopped
  /\ stopped' = TRUE
  /\ UNCHANGED <<q, decoded>>

(* With the reader gone, the owner discards the queue.                     *)
Discard ==
  /\ stopped
  /\ q' = <<>>
  /\ UNCHANGED <<decoded, stopped>>

Next == Put \/ Take \/ TakeEnd \/ Abandon \/ Discard

Spec == Init /\ [][Next]_vars

=============================================================================
