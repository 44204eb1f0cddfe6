----------------------------- MODULE PlaylistLib -----------------------------
(***************************************************************************)
(* The list building of lib/playlist.c: playlist_new, the two branches of  *)
(* playlist_parse_playlist (a list of playlists, or the tracks of one),    *)
(* playlist_parse_searchlist with parse_tracks, and playlist_free, called  *)
(* by a client in any order on the playlist it owns.                       *)
(*                                                                         *)
(* The XML is abstracted to the number of ids or <track> elements it       *)
(* holds; names, titles and hex ids to the number of the parse that wrote  *)
(* them (gen), 0 for a node calloc left zeroed.  Playlists and tracks live *)
(* in two heaps of records indexed by address, so that what is freed,      *)
(* leaked or left on a list is visible.                                    *)
(***************************************************************************)
EXTENDS Naturals, Sequences, FiniteSets

CONSTANTS
  Items,     \* numbers of ids or <track> elements a response may hold
  MaxCalls   \* calls the client makes

ASSUME Items \subseteq Nat /\ MaxCalls \in Nat

Nil == 0

VARIABLES
  P,       \* struct playlist by address: next, tracks, num_tracks, gen, tgen
  T,       \* struct track by address: next, gen
  freedP,  \* playlists passed to free
  freedT,  \* tracks passed to free
  root,    \* the client's struct playlist *, or Nil
  gen,     \* parses so far
  calls,   \* calls the client has made
  A,       \* struct album by address: next, tracks, gen
  art      \* the client's struct artist: albums, num_albums, gen

vars == <<P, T, freedP, freedT, root, gen, calls, A, art>>

(* The addresses of the list that starts at a, following next.             *)
RECURSIVE Chain(_, _, _)
Chain(H, a, n) ==
  IF a = Nil \/ n = 0 THEN <<>> ELSE <<a>> \o Chain(H, H[a].next, n - 1)

PlaylistChain == Chain(P, root, Cardinality(DOMAIN P))

TrackChain(p) == Chain(T, P[p].tracks, Cardinality(DOMAIN T))

AlbumChain == Chain(A, art.albums, Cardinality(DOMAIN A))

Elems(s) == {s[i] : i \in 1..Len(s)}

(* Mutant: the last node of a new chain is linked one past the end.       *)
NewChainPastEnd(k, m, g, last) ==
  [x \in k + 1..k + m |-> [next |-> x + 1, gen |-> g]]

(* k + 1 .. k + m as a calloc'd chain whose last next is last.             *)
NewChain(k, m, g, last) ==
  [x \in k + 1..k + m |-> [next |-> IF x < k + m THEN x + 1 ELSE last, gen |-> g]]

(* Two heaps joined: the old records, changed by upd, and the new ones.    *)
Extend(H, upd, new) ==
  [x \in DOMAIN H \cup DOMAIN new |-> IF x \in DOMAIN new THEN new[x] ELSE upd[x]]

Call == calls < MaxCalls /\ calls' = calls + 1

-----------------------------------------------------------------------------
(* playlist_new: a zeroed struct playlist.                                 *)
PlaylistNew ==
  /\ Call
  /\ root = Nil
  /\ LET a == Cardinality(DOMAIN P) + 1 IN
       /\ P' = Extend(P, P, [x \in {a} |->
                 [next |-> Nil, tracks |-> Nil, num |-> 0, gen |-> 0, tgen |-> 0]])
       /\ root' = a
  /\ UNCHANGED <<T, freedP, freedT, gen, A, art>>

(* playlist_parse_playlist on a response with no <items>: it returns      *)
(* false before touching pl (the parsed document is not freed).           *)
ParsePlaylistNoItems ==
  /\ Call
  /\ root # Nil
  /\ UNCHANGED <<P, T, freedP, freedT, root, gen, A, art>>

(* playlist_parse_playlist with list_of_lists: the first id goes into pl,  *)
(* each further id into a calloc'd playlist linked after the previous one. *)
(* The name and author are written into pl whatever the count; with one   *)
(* id or none, pl->next is left as it was.                                *)
ParsePlaylistLists ==
  /\ Call
  /\ root # Nil
  /\ \E n \in Items :
       LET g == gen + 1
           k == Cardinality(DOMAIN P)
           new == [x \in k + 1..k + n - 1 |->
                     [next |-> IF x < k + n - 1 THEN x + 1 ELSE Nil,
                      tracks |-> Nil, num |-> 0, gen |-> g, tgen |-> 0]]
       IN /\ gen' = g
          /\ P' = Extend(P, [P EXCEPT ![root].gen = g,
                                      ![root].next = IF n > 1 THEN k + 1 ELSE @],
                         new)
  /\ UNCHANGED <<T, freedP, freedT, root, A, art>>

(* Mutant: the list is extended only from the second missing track on.   *)
AppendedOneShort(C, n) == IF n > Len(C) + 1 THEN n - Len(C) - 1 ELSE 0

(* The tracks parse_tracks calloc's and links after the last node of C    *)
(* for n <track> elements: one for each element left when t is NULL.      *)
Appended(C, n) == IF n > Len(C) THEN n - Len(C) ELSE 0

(* playlist_parse_playlist without list_of_lists, on a playlist p of the   *)
(* client's list: a new track is calloc'd and made p->tracks before the    *)
(* ids are read, one track per id; num_tracks is the count of ids.         *)
ParsePlaylistTracks ==
  /\ Call
  /\ \E p \in Elems(PlaylistChain), n \in Items :
       LET g == gen + 1
           k == Cardinality(DOMAIN T)
           m == IF n = 0 THEN 1 ELSE n
       IN /\ gen' = g
          /\ T' = Extend(T, T, NewChain(k, m, IF n = 0 THEN 0 ELSE g, Nil))
          /\ P' = [P EXCEPT ![p].tracks = k + 1, ![p].num = n, ![p].tgen = g,
                            ![p].gen = g]
  /\ UNCHANGED <<freedP, freedT, root, A, art>>

(* playlist_parse_searchlist: a zeroed first track if pl has none, then    *)
(* parse_tracks over the existing list, calloc'ing and linking a track     *)
(* only when the list runs out; num_tracks is the count of <track>s.       *)
ParseSearchlist ==
  /\ Call
  /\ root # Nil
  /\ \E n \in Items :
       LET g  == gen + 1
           k  == Cardinality(DOMAIN T)
           T0 == IF P[root].tracks = Nil THEN NewChain(k, 1, 0, Nil) ELSE <<>>
           k0 == k + Cardinality(DOMAIN T0)
           C  == IF P[root].tracks = Nil THEN <<k + 1>> ELSE TrackChain(root)
           m  == Appended(C, n)
           upd == [x \in DOMAIN T \cup DOMAIN T0 |->
                     LET r == IF x \in DOMAIN T0 THEN T0[x] ELSE T[x]
                         i == IF x \in Elems(C) THEN CHOOSE j \in 1..Len(C) : C[j] = x ELSE 0
                     IN [r EXCEPT !.gen  = IF i # 0 /\ i <= n THEN g ELSE @,
                                  !.next = IF i = Len(C) /\ m > 0 THEN k0 + 1 ELSE @]]
       IN /\ gen' = g
          /\ T' = Extend(upd, upd, NewChain(k0, m, g, Nil))
          /\ P' = [P EXCEPT ![root].tracks = C[1], ![root].num = n, ![root].tgen = g]
  /\ UNCHANGED <<freedP, freedT, root, A, art>>

(* The tracks playlist_free releases: every track of every playlist.       *)
FreedTracks(ps) == UNION {Elems(TrackChain(p)) : p \in ps}

(* playlist_free: every playlist on the list from pl and every track on    *)
(* each one's list is freed; the client's pointer is then dead.            *)
PlaylistFree ==
  /\ Call
  /\ root # Nil
  /\ freedP' = freedP \cup Elems(PlaylistChain)
  /\ freedT' = freedT \cup FreedTracks(Elems(PlaylistChain))
  /\ root' = Nil
  /\ UNCHANGED <<P, T, gen, A, art>>

(* playlist_parse_artist on the client's artist, for n <album>s whose     *)
(* disc lookup yields m <track>s: a first album is calloc'd before the    *)
(* loop and made a->albums, then one per further album; inside the loop   *)
(* each album gets a calloc'd track and parse_tracks over it.  The lookup *)
(* ezxml_get(xalb, "discs", 0, "disc"-1) passes a pointer before a string *)
(* literal and no terminator, so what it finds is undefined: any m, or     *)
(* none.  num_albums counts the <album>s; an album's track count is not    *)
(* stored.                                                                 *)
ParseArtist ==
  /\ Call
  /\ \E n, m \in Items :
       LET g  == gen + 1
           ka == Cardinality(DOMAIN A)
           kt == Cardinality(DOMAIN T)
           na == IF n = 0 THEN 1 ELSE n
           w  == IF m = 0 THEN 1 ELSE m
       IN /\ gen' = g
          /\ A' = Extend(A, A, [x \in ka + 1..ka + na |->
                   [next   |-> IF x < ka + na THEN x + 1 ELSE Nil,
                    tracks |-> IF n = 0 THEN Nil ELSE kt + (x - ka - 1) * w + 1,
                    gen    |-> IF n = 0 THEN 0 ELSE g]])
          /\ T' = Extend(T, T, [x \in kt + 1..kt + n * w |->
                   [next |-> IF (x - kt) % w = 0 THEN Nil ELSE x + 1,
                    gen  |-> IF m = 0 THEN 0 ELSE g]])
          /\ art' = [albums |-> ka + 1, num |-> n, gen |-> g]
  /\ UNCHANGED <<P, freedP, freedT, root>>

Init ==
  /\ P = <<>> /\ T = <<>>
  /\ freedP = {} /\ freedT = {}
  /\ root = Nil
  /\ gen = 0
  /\ calls = 0
  /\ A = <<>>
  /\ art = [albums |-> Nil, num |-> 0, gen |-> 0]

(* The client has made all its calls.                                      *)
Finished == calls = MaxCalls /\ UNCHANGED vars

Next ==
  \/ PlaylistNew \/ ParsePlaylistNoItems \/ ParsePlaylistLists \/ ParsePlaylistTracks
  \/ ParseSearchlist \/ ParseArtist \/ PlaylistFree \/ Finished

Spec == Init /\ [][Next]_vars

-----------------------------------------------------------------------------
(* Properties.                                                             *)

Reachable == Elems(PlaylistChain)

TypeOK ==
  /\ \A a \in DOMAIN P :
       /\ P[a].next \in DOMAIN P \cup {Nil} /\ P[a].tracks \in DOMAIN T \cup {Nil}
       /\ P[a].num \in Nat /\ P[a].gen \in 0..gen /\ P[a].tgen \in 0..gen
  /\ \A a \in DOMAIN T : T[a].next \in DOMAIN T \cup {Nil} /\ T[a].gen \in 0..gen
  /\ freedP \subseteq DOMAIN P /\ freedT \subseteq DOMAIN T
  /\ root \in DOMAIN P \cup {Nil}
  /\ calls \in 0..MaxCalls
  /\ \A a \in DOMAIN A :
       A[a].next \in DOMAIN A \cup {Nil} /\ A[a].tracks \in DOMAIN T \cup {Nil}
  /\ art.albums \in DOMAIN A \cup {Nil} /\ art.num \in Nat

(* A reader that follows tracks->next num_tracks times, or albums->next   *)
(* num_albums times, never reaches NULL: parse_tracks extends a list it    *)
(* reuses when the new result is longer, whether that list came from an    *)
(* earlier search, from playlist_parse_playlist (with its zeroed first     *)
(* track) or is the zeroed track playlist_parse_searchlist calloc's.       *)
ChainCoversCount ==
  /\ \A p \in Reachable : Len(TrackChain(p)) >= P[p].num
  /\ Len(AlbumChain) >= art.num

=============================================================================
