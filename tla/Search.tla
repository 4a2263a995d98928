--------------------------------- MODULE Search ---------------------------------
(***************************************************************************)
(* SearchMoviesViewController and ApiManager.searchMovies.                 *)
(*                                                                         *)
(* The main thread clears the list at every edit of the text field and     *)
(* reloads the table when told to; URLSession's serial delegate queue      *)
(* appends the pages of the replies to the same Swift array.  Nothing      *)
(* orders the two, so an append is two steps here and every access of the  *)
(* main thread in between is a data race.                                  *)
(***************************************************************************)
EXTENDS Integers, Sequences

CONSTANTS
    MaxEdits,   \* bound: how often the user edits the text field
    MaxPage     \* bound: the movies of one reply

ASSUME MaxEditsAssumption == MaxEdits \in Nat

ASSUME MaxPageAssumption == MaxPage \in Nat

VARIABLES
    movies,     \* the array that both threads write
    rows,       \* the number of rows the table asked for last
    hidden,     \* the placeholder image is hidden
    edits,      \* edits made; the request of the nth edit is n
    inflight,   \* requests not answered yet
    append,     \* the append the delegate queue is executing
    reloads,    \* reload blocks posted to the main queue
    main,       \* what the main thread is executing
    crashed     \* the process was killed by a trap

\* Observation only, read by no action: whether the list was cleared since the
\* table was last reloaded, and whether an edit ever overtook a request.
VARIABLES cleared, overtook

shared == <<movies, append>>
table  == <<rows, hidden, reloads, main>>
observed == <<cleared, overtook>>
vars == <<shared, table, edits, inflight, crashed, observed>>

Edits == 1..MaxEdits

\* A movie is the request it answers and its place in the reply.
Movie == [request : Edits, place : 1..MaxPage]

Page(r, n) == [i \in 1..n |-> [request |-> r, place |-> i]]

\* append(contentsOf:) loads the array, and stores it with the page added.
NoAppend == [request |-> 0, page |-> <<>>, loaded |-> <<>>]

LoadedFor(r, n) == [request |-> r, page |-> Page(r, n), loaded |-> movies]

Appending == append.request # 0

Running == ~crashed

Idle == Running /\ main = "idle"

(***************************************************************************)
(* The main thread.                                                        *)
(***************************************************************************)
\* Mutant: the old results stay until the new ones arrive.
EditKeeping(valid) ==
    /\ Idle /\ edits < MaxEdits
    /\ edits' = edits + 1
    /\ inflight' = IF valid THEN inflight \cup {edits + 1} ELSE inflight
    /\ overtook' = (overtook \/ inflight # {} \/ Appending)
    /\ UNCHANGED <<shared, table, crashed, cleared>>

\* searchMovies, the text not being empty: the list is cleared before the URL
\* is known to be valid, and the table is not reloaded.
Edit(valid) ==
    /\ Idle /\ edits < MaxEdits
    /\ movies' = <<>>
    /\ edits' = edits + 1
    /\ inflight' = IF valid THEN inflight \cup {edits + 1} ELSE inflight
    /\ cleared' = TRUE
    /\ overtook' = (overtook \/ inflight # {} \/ Appending)
    /\ UNCHANGED <<append, table, crashed>>

\* Mutant: the placeholder looks at the table, which is about to change.
ReloadBeginsBehind ==
    /\ Idle /\ reloads > 0
    /\ reloads' = reloads - 1
    /\ hidden' = (hidden \/ rows > 0)
    /\ main' = "reloading"
    /\ UNCHANGED <<shared, rows, edits, inflight, crashed, observed>>

\* Mutant: a reload nobody posted.
ReloadBeginsUnasked ==
    /\ Idle
    /\ reloads' = reloads - 1
    /\ hidden' = (hidden \/ movies # <<>>)
    /\ main' = "reloading"
    /\ UNCHANGED <<shared, rows, edits, inflight, crashed, observed>>

\* The block posted for a reply: first the placeholder ...
ReloadBegins ==
    /\ Idle /\ reloads > 0
    /\ reloads' = reloads - 1
    /\ hidden' = (hidden \/ movies # <<>>)
    /\ main' = "reloading"
    /\ UNCHANGED <<shared, rows, edits, inflight, crashed, observed>>

\* ... then reloadData, which asks for the number of rows.
ReloadEnds ==
    /\ Running /\ main = "reloading"
    /\ rows' = Len(movies)
    /\ main' = "idle"
    /\ cleared' = FALSE
    /\ UNCHANGED <<shared, hidden, reloads, edits, inflight, crashed, overtook>>

\* cellForRowAt, or didSelectRowAt, for a row the table believes to have:
\* movies[indexPath.row] traps when the list is shorter.  A row that exists
\* changes nothing here.
RowOutOfRange ==
    /\ Idle
    /\ rows > Len(movies)
    /\ crashed' = TRUE
    /\ UNCHANGED <<shared, table, edits, inflight, observed>>

(***************************************************************************)
(* URLSession and its delegate queue.                                      *)
(***************************************************************************)
\* Mutant: the reply is delivered again.
ReplyBeginsTwice(r, n) ==
    /\ Running /\ ~Appending
    /\ r \in inflight
    /\ append' = LoadedFor(r, n)
    /\ UNCHANGED <<movies, table, edits, inflight, crashed, observed>>

\* A reply that decodes: n movies.
ReplyBegins(r, n) ==
    /\ Running /\ ~Appending
    /\ r \in inflight
    /\ inflight' = inflight \ {r}
    /\ append' = LoadedFor(r, n)
    /\ UNCHANGED <<movies, table, edits, crashed, observed>>

\* Mutant: the page replaces the list.
ReplyReplaces ==
    /\ Running /\ Appending
    /\ movies' = append.page
    /\ append' = NoAppend
    /\ reloads' = reloads + 1
    /\ UNCHANGED <<rows, hidden, main, edits, inflight, crashed, observed>>

\* Mutant: no reload is posted.
ReplyUnseen ==
    /\ Running /\ Appending
    /\ movies' = append.loaded \o append.page
    /\ append' = NoAppend
    /\ UNCHANGED <<table, edits, inflight, crashed, observed>>

\* The page is in: on top of the list as it was loaded, or, when the main
\* thread cleared it meanwhile, of the list as it is now.
ReplyEnds ==
    /\ Running /\ Appending
    /\ \E list \in {append.loaded, movies} : movies' = list \o append.page
    /\ append' = NoAppend
    /\ reloads' = reloads + 1
    /\ UNCHANGED <<rows, hidden, main, edits, inflight, crashed, observed>>

\* No data, or data that does not decode: nobody is called back.
ReplyLost(r) ==
    /\ Running
    /\ r \in inflight
    /\ inflight' = inflight \ {r}
    /\ UNCHANGED <<shared, table, edits, crashed, observed>>

\* The main thread clears or reads the array while the delegate queue stores
\* it: the buffer may be freed under the reader.
Collision ==
    /\ Running /\ Appending
    /\ main = "reloading" \/ reloads > 0 \/ rows > 0 \/ edits < MaxEdits
    /\ crashed' = TRUE
    /\ UNCHANGED <<shared, table, edits, inflight, observed>>

Init ==
    /\ movies = <<>> /\ rows = 0 /\ hidden = FALSE
    /\ edits = 0 /\ inflight = {} /\ append = NoAppend
    /\ reloads = 0 /\ main = "idle" /\ crashed = FALSE
    /\ cleared = FALSE /\ overtook = FALSE

Replies == \E r \in Edits : \E n \in 0..MaxPage : ReplyBegins(r, n)

Next ==
    \/ \E valid \in BOOLEAN : Edit(valid)
    \/ ReloadBegins \/ ReloadEnds \/ RowOutOfRange
    \/ Replies \/ ReplyEnds \/ (\E r \in Edits : ReplyLost(r))
    \/ Collision

Spec == Init /\ [][Next]_vars

\* The main queue and the delegate queue run what they were given.
FairSpec ==
    Spec /\ WF_vars(ReloadBegins) /\ WF_vars(ReloadEnds) /\ WF_vars(ReplyEnds)

(***************************************************************************)
(* Properties.                                                             *)
(***************************************************************************)
\* Every variable keeps its type.
TypeOK ==
    /\ movies \in Seq(Movie)
    /\ rows \in Nat /\ hidden \in BOOLEAN /\ reloads \in Nat
    /\ main \in {"idle", "reloading"}
    /\ edits \in 0..MaxEdits /\ inflight \subseteq Edits
    /\ append \in [request : 0..MaxEdits, page : Seq(Movie), loaded : Seq(Movie)]
    /\ crashed \in BOOLEAN /\ cleared \in BOOLEAN /\ overtook \in BOOLEAN

\* The table never counts on a movie that is not there, except from an edit,
\* which clears the list without reloading, to the next reload: only then can
\* movies[indexPath.row] trap.
RowsCovered == rows <= Len(movies) \/ cleared

\* The list is made of whole replies: no movie twice, and none without the one
\* before it in its reply, whatever was cleared or brought back by a race.
WholeReplies ==
    \A i \in DOMAIN movies :
        /\ \A j \in DOMAIN movies : movies[i] = movies[j] => i = j
        /\ movies[i].place > 1 =>
             i > 1 /\ movies[i - 1] = [movies[i] EXCEPT !.place = @ - 1]

\* As long as no edit overtakes a request, the list answers the latest edit.
FreshList == ~overtook => \A i \in DOMAIN movies : movies[i].request = edits

\* When nothing is under way any more, rows on display and the placeholder
\* image do not show together.
PlaceholderGone ==
    rows > 0 /\ reloads = 0 /\ main = "idle" /\ ~Appending => hidden

\* The user stops typing at some point: then the table ends up showing the
\* list, unless the process died or the latest edit got no reply at all.
TableSettles ==
    <>[](crashed \/ rows = Len(movies) \/ (cleared /\ movies = <<>>))
================================================================================
