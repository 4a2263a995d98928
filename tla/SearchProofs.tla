------------------------------ MODULE SearchProofs ------------------------------
(***************************************************************************)
(* For any number of edits and any size of reply: the table outruns the    *)
(* list only after an edit, and no rows are left beside the placeholder.   *)
(***************************************************************************)
EXTENDS Search, SequenceTheorems, TLAPS

\* What a running append has loaded is what was there when the table was last
\* reloaded, if no edit came since; and it is still there unless one came.
AppendBase ==
    Appending => /\ movies \in {append.loaded, <<>>}
                 /\ rows <= Len(append.loaded) \/ cleared

\* A reload that found the list empty and will not find it so any more has
\* another one behind it.
AnotherReload ==
    main = "reloading" /\ movies # <<>> => hidden \/ reloads > 0

\* Rows beside the placeholder are about to be reloaded.
PlaceholderGoing ==
    rows > 0 => hidden \/ reloads > 0 \/ main = "reloading" \/ Appending

IndInv == TypeOK /\ RowsCovered /\ AppendBase /\ AnotherReload /\ PlaceholderGoing

LEMMA PageType ==
    ASSUME NEW r \in Edits, NEW n \in 0..MaxPage
    PROVE  Page(r, n) \in Seq(Movie)
<1>1. n \in Nat
    BY MaxPageAssumption
<1>2. \A i \in 1..n : [request |-> r, place |-> i] \in Movie
    BY <1>1, MaxPageAssumption DEF Movie
<1> QED
    BY <1>1, <1>2 DEF Page

LEMMA NoAppendType ==
    /\ NoAppend \in [request : 0..MaxEdits, page : Seq(Movie), loaded : Seq(Movie)]
    /\ NoAppend.request = 0
BY MaxEditsAssumption DEF NoAppend

LEMMA InitIndInv == Init => IndInv
<1> SUFFICES ASSUME Init PROVE IndInv
    OBVIOUS
<1>1. ~Appending
    BY NoAppendType DEF Init, Appending
<1>2. movies \in Seq(Movie) /\ rows \in Nat /\ reloads \in Nat
    BY EmptySeq DEF Init
<1>3. append \in [request : 0..MaxEdits, page : Seq(Movie), loaded : Seq(Movie)]
    BY NoAppendType DEF Init
<1>4. edits \in 0..MaxEdits /\ inflight \subseteq Edits
    BY MaxEditsAssumption DEF Init
<1>5. TypeOK
    BY <1>2, <1>3, <1>4, Zenon DEF Init, TypeOK
<1> QED
    BY <1>1, <1>5 DEF Init, IndInv, RowsCovered, AppendBase, AnotherReload, PlaceholderGoing

LEMMA NextIndInv == IndInv /\ [Next]_vars => IndInv'
<1> SUFFICES ASSUME IndInv, [Next]_vars PROVE IndInv'
    OBVIOUS
<1> USE DEF IndInv, Running, Idle
<1>1. ASSUME NEW valid \in BOOLEAN, Edit(valid) PROVE IndInv'
  <2>1. TypeOK'
      BY <1>1, MaxEditsAssumption DEF Edit, TypeOK, Edits, shared, table
  <2>2. RowsCovered' /\ AppendBase' /\ AnotherReload' /\ PlaceholderGoing'
      BY <1>1 DEF Edit, RowsCovered, AppendBase, AnotherReload, PlaceholderGoing,
          Appending, table
  <2> QED
      BY <2>1, <2>2
<1>2. CASE ReloadBegins
  <2>1. TypeOK'
      BY <1>2 DEF ReloadBegins, TypeOK, shared, observed
  <2>2. RowsCovered' /\ AppendBase' /\ AnotherReload' /\ PlaceholderGoing'
      BY <1>2 DEF ReloadBegins, TypeOK, RowsCovered, AppendBase, AnotherReload,
          PlaceholderGoing, Appending, shared, observed
  <2> QED
      BY <2>1, <2>2
<1>3. CASE ReloadEnds
  <2>1. Len(movies) \in Nat /\ (Len(movies) > 0 => movies # <<>>)
      BY DEF TypeOK
  <2>2. TypeOK'
      BY <1>3, <2>1 DEF ReloadEnds, TypeOK, shared
  <2>3. RowsCovered' /\ AppendBase' /\ AnotherReload' /\ PlaceholderGoing'
    <3>1. Appending => Len(movies) <= Len(append.loaded)
        BY DEF AppendBase, TypeOK
    <3> QED
        BY <1>3, <2>1, <3>1 DEF ReloadEnds, TypeOK, RowsCovered, AppendBase,
            AnotherReload, PlaceholderGoing, Appending, shared
  <2> QED
      BY <2>2, <2>3
<1>4. CASE RowOutOfRange \/ Collision \/ UNCHANGED vars
  <2>1. UNCHANGED <<shared, table, edits, inflight, observed>> /\ crashed' \in BOOLEAN
      BY <1>4 DEF RowOutOfRange, Collision, vars, TypeOK
  <2> QED
      BY <2>1 DEF TypeOK, RowsCovered, AppendBase, AnotherReload, PlaceholderGoing,
          Appending, shared, table, observed
<1>5. ASSUME NEW r \in Edits, NEW n \in 0..MaxPage, ReplyBegins(r, n) PROVE IndInv'
  <2>1. append' = [request |-> r, page |-> Page(r, n), loaded |-> movies]
      BY <1>5 DEF ReplyBegins, LoadedFor
  <2>2. TypeOK'
      BY <1>5, <2>1, PageType, MaxEditsAssumption
         DEF ReplyBegins, TypeOK, Edits, table, observed
  <2>3. RowsCovered' /\ AppendBase' /\ AnotherReload' /\ PlaceholderGoing'
      BY <1>5, <2>1 DEF ReplyBegins, RowsCovered, AppendBase, AnotherReload,
          PlaceholderGoing, Appending, table, observed
  <2> QED
      BY <2>2, <2>3
<1>6. CASE ReplyEnds
  <2>1. PICK list \in {append.loaded, movies} : movies' = list \o append.page
      BY <1>6 DEF ReplyEnds
  <2>2. list \in Seq(Movie) /\ append.page \in Seq(Movie)
      BY DEF TypeOK
  <2>3. movies' \in Seq(Movie) /\ Len(movies') >= Len(list)
      BY <2>1, <2>2
  <2>4. rows <= Len(list) \/ cleared
      BY <1>6 DEF ReplyEnds, RowsCovered, AppendBase
  <2>5. ~Appending' /\ reloads' > 0
      BY <1>6, NoAppendType DEF ReplyEnds, Appending, TypeOK
  <2>6. TypeOK'
      BY <1>6, <2>3, NoAppendType DEF ReplyEnds, TypeOK, observed
  <2>7. RowsCovered'
      BY <1>6, <2>2, <2>3, <2>4 DEF ReplyEnds, RowsCovered, TypeOK, observed
  <2>8. AppendBase' /\ AnotherReload' /\ PlaceholderGoing'
      BY <2>5 DEF AppendBase, AnotherReload, PlaceholderGoing
  <2> QED
      BY <2>6, <2>7, <2>8
<1>7. ASSUME NEW r \in Edits, ReplyLost(r) PROVE IndInv'
    BY <1>7 DEF ReplyLost, TypeOK, RowsCovered, AppendBase, AnotherReload,
        PlaceholderGoing, Appending, shared, table, observed
<1> QED
    BY <1>1, <1>2, <1>3, <1>4, <1>5, <1>6, <1>7 DEF Next, Replies

LEMMA InductiveInvariant == Spec => []IndInv
BY InitIndInv, NextIndInv, PTL DEF Spec

\* The list, the table and the append under way keep their types.
THEOREM TypeCorrect == Spec => []TypeOK
<1>1. IndInv => TypeOK
    BY DEF IndInv
<1> QED
    BY <1>1, InductiveInvariant, PTL

\* movies[indexPath.row] can trap only between an edit and the next reload,
\* however edits, reloads and appends interleave.
THEOREM RowsCorrect == Spec => []RowsCovered
<1>1. IndInv => RowsCovered
    BY DEF IndInv
<1> QED
    BY <1>1, InductiveInvariant, PTL

\* Although the placeholder and the rows are decided by two reads of a list
\* that grows in between, they do not stay on the screen together.
THEOREM PlaceholderCorrect == Spec => []PlaceholderGone
<1>1. IndInv => PlaceholderGone
    BY DEF IndInv, PlaceholderGoing, PlaceholderGone, TypeOK
<1> QED
    BY <1>1, InductiveInvariant, PTL

(***************************************************************************)
(* Whose movies are on the list, and that they come as whole replies.      *)
(***************************************************************************)
\* The movie before b in its reply.
Follows(a, b) == a = [b EXCEPT !.place = @ - 1]

\* WholeReplies of any list.
Whole(list) ==
    \A i \in DOMAIN list :
        /\ \A j \in DOMAIN list : list[i] = list[j] => i = j
        /\ list[i].place > 1 =>
             i > 1 /\ Follows(list[i - 1], list[i])

AllOf(list, request) == \A i \in DOMAIN list : list[i].request = request

\* While no edit overtakes a request there is only that of the latest edit, on
\* its way or being appended, and everything that was appended answers it.
FreshInv ==
    ~overtook => /\ inflight \subseteq {edits}
                 /\ AllOf(movies, edits)
                 /\ Appending => /\ inflight = {}
                                 /\ AllOf(append.page, edits)
                                 /\ AllOf(append.loaded, edits)

\* A list of replies that are over: none of them is appended again.
Over(list) ==
    Whole(list) /\ \A i \in DOMAIN list :
        /\ list[i].request \notin inflight
        /\ list[i].request # append.request
        /\ list[i].request <= edits

\* The list, and the one a running append has loaded, which a race can bring
\* back, are made of replies that are over; the running one is a page of its own.
WholeInv ==
    /\ inflight \subseteq 1..edits /\ append.request \in 0..edits
    /\ append.request \notin inflight
    /\ Appending => \E n \in 0..MaxPage : append.page = Page(append.request, n)
    /\ Over(movies) /\ (Appending => Over(append.loaded))

LEMMA RequestsOf ==
    ASSUME NEW list \in Seq(Movie), NEW i \in DOMAIN list
    PROVE  list[i].request \in Nat /\ list[i].request # 0
<1>1. list[i] \in Movie
    OBVIOUS
<1>2. \A m \in Movie : m.request \in Edits
    BY DEF Movie
<1> QED
    BY <1>1, <1>2, MaxEditsAssumption DEF Edits

LEMMA PageOf ==
    ASSUME NEW r \in Edits, NEW n \in 0..MaxPage
    PROVE  AllOf(Page(r, n), r) /\ Len(Page(r, n)) = n /\ Page(r, n) \in Seq(Movie)
<1>1. n \in Nat
    BY MaxPageAssumption
<1>2. DOMAIN Page(r, n) = 1..n /\ \A i \in 1..n : Page(r, n)[i].request = r
    BY DEF Page
<1> QED
    BY <1>1, <1>2, PageType DEF AllOf

\* A reply appended to a list without movies of it leaves a list of replies.
LEMMA AppendedWhole ==
    ASSUME NEW list \in Seq(Movie), Whole(list), NEW r \in Edits, NEW n \in 0..MaxPage,
           \A i \in DOMAIN list : list[i].request # r
    PROVE  /\ Whole(list \o Page(r, n))
           /\ \A i \in DOMAIN (list \o Page(r, n)) :
                  \/ (list \o Page(r, n))[i].request = r
                  \/ \E j \in DOMAIN list : (list \o Page(r, n))[i] = list[j]
<1> DEFINE all == list \o Page(r, n)
           L == Len(list)
<1>1. L \in Nat /\ DOMAIN list = 1..L /\ n \in Nat
    BY MaxPageAssumption
<1>2. Page(r, n) \in Seq(Movie) /\ Len(Page(r, n)) = n
    BY PageOf
<1>3. DOMAIN all = 1..(L + n)
  <2>1. all \in Seq(Movie) /\ Len(all) = L + n
      BY <1>1, <1>2, ConcatProperties
  <2> QED
      BY <2>1
<1>4. \A i \in 1..L : all[i] = list[i]
    BY <1>1, <1>2
<1>5. \A i \in (L + 1)..(L + n) : all[i] = [request |-> r, place |-> i - L]
  <2>1. \A i \in (L + 1)..(L + n) : all[i] = Page(r, n)[i - L]
      BY <1>1, <1>2
  <2>2. \A i \in (L + 1)..(L + n) : i - L \in 1..n
      BY <1>1
  <2> QED
      BY <2>1, <2>2 DEF Page
<1>6. \A i \in 1..L : list[i].request # r
    BY <1>1
<1> HIDE DEF all, L
<1>7. ASSUME NEW i \in DOMAIN all, NEW j \in DOMAIN all, all[i] = all[j] PROVE i = j
  <2>1. CASE i \in 1..L /\ j \in 1..L
      BY <1>1, <1>4, <1>7, <2>1 DEF Whole
  <2>2. CASE i \notin 1..L /\ j \notin 1..L
    <3>1. i \in (L + 1)..(L + n) /\ j \in (L + 1)..(L + n)
        BY <1>1, <1>3, <2>2
    <3>2. i - L = j - L
      <4>1. /\ all[i] = [request |-> r, place |-> i - L]
            /\ all[j] = [request |-> r, place |-> j - L]
          BY <1>5, <3>1
      <4>2. [request |-> r, place |-> i - L] = [request |-> r, place |-> j - L]
          BY <1>7, <4>1
      <4> QED
          BY <4>2
    <3> QED
        BY <1>1, <3>1, <3>2
  <2>3. CASE i \in 1..L /\ j \notin 1..L
    <3>1. j \in (L + 1)..(L + n)
        BY <1>1, <1>3, <2>3
    <3>2. all[j] = [request |-> r, place |-> j - L]
        BY <1>5, <3>1
    <3> QED
        BY <1>4, <1>6, <1>7, <2>3, <3>2
  <2>4. CASE i \notin 1..L /\ j \in 1..L
    <3>1. i \in (L + 1)..(L + n)
        BY <1>1, <1>3, <2>4
    <3>2. all[i] = [request |-> r, place |-> i - L]
        BY <1>5, <3>1
    <3>3. list[j] = [request |-> r, place |-> i - L]
        BY <1>4, <1>7, <2>4, <3>2
    <3>4. list[j].request = r
        BY <3>3
    <3> QED
        BY <1>6, <2>4, <3>4
  <2> QED
      BY <2>1, <2>2, <2>3, <2>4
<1>8. ASSUME NEW i \in DOMAIN all, all[i].place > 1
      PROVE  i > 1 /\ Follows(all[i - 1], all[i])
  <2>1. CASE i \in 1..L
    <3>1. i > 1 /\ Follows(list[i - 1], list[i])
        BY <1>1, <1>4, <1>8, <2>1 DEF Whole
    <3>2. i - 1 \in 1..L
        BY <1>1, <2>1, <3>1
    <3> QED
        BY <1>4, <2>1, <3>1, <3>2
  <2>2. CASE i \notin 1..L
    <3>1. i \in (L + 1)..(L + n)
        BY <1>1, <1>3, <2>2
    <3>2. all[i] = [request |-> r, place |-> i - L]
        BY <1>5, <3>1
    <3>6. [request |-> r, place |-> i - L].place > 1
        BY <1>8, <3>2
    <3>3. i - 1 \in (L + 1)..(L + n) /\ i > 1 /\ (i - 1) - L = (i - L) - 1
        BY <1>1, <3>1, <3>6
    <3>4. all[i - 1] = [request |-> r, place |-> (i - 1) - L]
        BY <1>5, <3>3
    <3>5. Follows([request |-> r, place |-> (i - L) - 1], [request |-> r, place |-> i - L])
        BY DEF Follows
    <3> QED
        BY <3>2, <3>3, <3>4, <3>5
  <2> QED
      BY <2>1, <2>2
<1>9. \A i \in DOMAIN all : all[i].request = r \/ \E j \in DOMAIN list : all[i] = list[j]
  <2> SUFFICES ASSUME NEW i \in DOMAIN all
               PROVE  all[i].request = r \/ \E j \in DOMAIN list : all[i] = list[j]
      OBVIOUS
  <2>1. i \in 1..L \/ i \in (L + 1)..(L + n)
      BY <1>1, <1>3
  <2>2. CASE i \in 1..L
      BY <1>1, <1>4, <2>2
  <2>3. CASE i \in (L + 1)..(L + n)
    <3>1. all[i] = [request |-> r, place |-> i - L]
        BY <1>5, <2>3
    <3> QED
        BY <3>1
  <2> QED
      BY <2>1, <2>2, <2>3
<1>10. Whole(all)
    BY <1>7, <1>8 DEF Whole
<1> QED
    BY <1>9, <1>10 DEF all

LEMMA InitFreshWhole == Init => FreshInv /\ WholeInv
<1> SUFFICES ASSUME Init PROVE FreshInv /\ WholeInv
    OBVIOUS
<1>1. append.request = 0 /\ ~Appending
    BY DEF Init, NoAppend, Appending
<1>2. movies = <<>> /\ inflight = {} /\ edits = 0
    BY DEF Init
<1>3. FreshInv
    BY <1>1, <1>2 DEF FreshInv, AllOf
<1>4. Over(movies)
    BY <1>2 DEF Over, Whole
<1> QED
    BY <1>1, <1>2, <1>3, <1>4 DEF WholeInv

LEMMA NextFresh == TypeOK /\ FreshInv /\ [Next]_vars => FreshInv'
<1> SUFFICES ASSUME TypeOK, FreshInv, [Next]_vars, ~overtook' PROVE FreshInv'
    BY DEF FreshInv
<1>1. ASSUME NEW valid \in BOOLEAN, Edit(valid) PROVE FreshInv'
  <2>1. inflight = {} /\ ~Appending
      BY <1>1 DEF Edit, TypeOK
  <2>2. movies' = <<>> /\ inflight' \subseteq {edits'} /\ append' = append
      BY <1>1, <2>1 DEF Edit
  <2> QED
      BY <2>1, <2>2 DEF FreshInv, AllOf, Appending
<1>2. CASE ReloadBegins \/ ReloadEnds \/ RowOutOfRange \/ Collision \/ UNCHANGED vars
  <2>1. UNCHANGED <<movies, append, inflight, edits, overtook>>
      BY <1>2 DEF ReloadBegins, ReloadEnds, RowOutOfRange, Collision, vars, shared, observed
  <2> QED
      BY <2>1 DEF FreshInv, AllOf, Appending
<1>3. ASSUME NEW r \in Edits, NEW n \in 0..MaxPage, ReplyBegins(r, n) PROVE FreshInv'
  <2>1. /\ append' = [request |-> r, page |-> Page(r, n), loaded |-> movies]
        /\ UNCHANGED <<movies, edits, overtook>>
        /\ r \in inflight /\ inflight' = inflight \ {r}
      BY <1>3 DEF ReplyBegins, LoadedFor, observed
  <2>2. r = edits /\ inflight' = {} /\ AllOf(movies, edits)
      BY <2>1 DEF FreshInv
  <2>3. AllOf(Page(r, n), r)
      BY PageOf
  <2>4. append'.page = Page(r, n) /\ append'.loaded = movies
      BY <2>1
  <2> QED
      BY <2>1, <2>2, <2>3, <2>4 DEF FreshInv, AllOf
<1>4. CASE ReplyEnds
  <2>1. /\ Appending /\ append' = NoAppend
        /\ UNCHANGED <<inflight, edits, overtook>>
      BY <1>4 DEF ReplyEnds, observed
  <2>2. PICK list \in {append.loaded, movies} : movies' = list \o append.page
      BY <1>4 DEF ReplyEnds
  <2>3. /\ list \in Seq(Movie) /\ append.page \in Seq(Movie)
        /\ AllOf(list, edits) /\ AllOf(append.page, edits) /\ inflight = {}
      BY <2>1 DEF TypeOK, FreshInv
  <2>4. AllOf(list \o append.page, edits)
      BY <2>3 DEF AllOf
  <2> QED
      BY <2>1, <2>2, <2>3, <2>4, NoAppendType DEF FreshInv, AllOf, Appending
<1>5. ASSUME NEW r \in Edits, ReplyLost(r) PROVE FreshInv'
    BY <1>5 DEF ReplyLost, FreshInv, AllOf, Appending, shared, observed
<1> QED
    BY <1>1, <1>2, <1>3, <1>4, <1>5 DEF Next, Replies

LEMMA NextWhole == TypeOK /\ AppendBase /\ WholeInv /\ [Next]_vars => WholeInv'
<1> SUFFICES ASSUME TypeOK, AppendBase, WholeInv, [Next]_vars PROVE WholeInv'
    OBVIOUS
<1>1. ASSUME NEW valid \in BOOLEAN, Edit(valid) PROVE WholeInv'
  <2>1. /\ movies' = <<>> /\ append' = append /\ edits' = edits + 1
        /\ inflight' \subseteq inflight \cup {edits + 1}
      BY <1>1 DEF Edit
  <2>2. edits \in Nat /\ (Appending' <=> Appending)
      BY <2>1, MaxEditsAssumption DEF TypeOK, Appending
  <2>3. inflight' \subseteq 1..edits' /\ append'.request \in 0..edits'
      BY <2>1, <2>2 DEF WholeInv
  <2>4. append'.request \notin inflight'
      BY <2>1, <2>2 DEF WholeInv
  <2>5. Over(movies)'
      BY <2>1 DEF Over, Whole
  <2>6. Appending => Over(append.loaded)'
    <3> SUFFICES ASSUME Appending PROVE Over(append.loaded)'
        OBVIOUS
    <3>1. Over(append.loaded) /\ append.loaded \in Seq(Movie)
        BY DEF WholeInv, TypeOK
    <3>2. \A i \in DOMAIN append.loaded : append.loaded[i].request \in Nat
        BY <3>1, RequestsOf
    <3> QED
        BY <2>1, <2>2, <3>1, <3>2 DEF Over
  <2> QED
      BY <2>1, <2>2, <2>3, <2>4, <2>5, <2>6 DEF WholeInv
<1>2. CASE ReloadBegins \/ ReloadEnds \/ RowOutOfRange \/ Collision \/ UNCHANGED vars
  <2>1. UNCHANGED <<movies, append, inflight, edits>>
      BY <1>2 DEF ReloadBegins, ReloadEnds, RowOutOfRange, Collision, vars, shared, observed
  <2> QED
      BY <2>1 DEF WholeInv, Over, Whole, Appending
<1>3. ASSUME NEW r \in Edits, NEW n \in 0..MaxPage, ReplyBegins(r, n) PROVE WholeInv'
  <2>1. /\ append' = [request |-> r, page |-> Page(r, n), loaded |-> movies]
        /\ UNCHANGED <<movies, edits>>
        /\ r \in inflight /\ inflight' = inflight \ {r}
      BY <1>3 DEF ReplyBegins, LoadedFor
  <2>2. append'.request = r /\ append'.page = Page(r, n) /\ append'.loaded = movies
      BY <2>1
  <2>3. Over(movies)'
      BY <2>1, <2>2 DEF WholeInv, Over
  <2>4. Over(append.loaded)'
      BY <2>1, <2>2, <2>3 DEF Over
  <2> QED
      BY <2>1, <2>2, <2>3, <2>4 DEF WholeInv
<1>4. CASE ReplyEnds
  <2>1. Appending /\ append' = NoAppend /\ UNCHANGED <<inflight, edits>>
      BY <1>4 DEF ReplyEnds
  <2>2. PICK list \in {append.loaded, movies} : movies' = list \o append.page
      BY <1>4 DEF ReplyEnds
  <2>3. PICK n \in 0..MaxPage : append.page = Page(append.request, n)
      BY <2>1 DEF WholeInv
  <2>4. append.request \in Edits /\ append.request \notin inflight /\ append.request <= edits
      BY <2>1, MaxEditsAssumption DEF WholeInv, Appending, TypeOK, Edits
  <2>5. list \in Seq(Movie) /\ Over(list)
      BY <2>1 DEF TypeOK, WholeInv
  <2>6. /\ Whole(list \o Page(append.request, n))
        /\ \A i \in DOMAIN (list \o Page(append.request, n)) :
               \/ (list \o Page(append.request, n))[i].request = append.request
               \/ \E j \in DOMAIN list : (list \o Page(append.request, n))[i] = list[j]
    <3>1. Whole(list) /\ \A i \in DOMAIN list : list[i].request # append.request
        BY <2>5 DEF Over
    <3> QED
        BY <2>4, <2>5, <3>1, AppendedWhole
  <2>7. \A i \in DOMAIN movies' : movies'[i].request \notin inflight /\ movies'[i].request <= edits
      BY <2>2, <2>3, <2>4, <2>5, <2>6 DEF Over
  <2>8. movies' \in Seq(Movie)
      BY <2>2, <2>5 DEF TypeOK
  <2>9. \A i \in DOMAIN movies' : movies'[i].request # 0
      BY <2>8, RequestsOf
  <2>10. Over(movies)'
      BY <2>1, <2>2, <2>3, <2>6, <2>7, <2>9, NoAppendType DEF Over
  <2>11. ~Appending' /\ append'.request = 0 /\ 0 \notin inflight
      BY <2>1, NoAppendType DEF Appending, WholeInv
  <2>12. 0 \in 0..edits /\ inflight \subseteq 1..edits
      BY MaxEditsAssumption DEF TypeOK, WholeInv
  <2> QED
      BY <2>1, <2>10, <2>11, <2>12 DEF WholeInv
<1>5. ASSUME NEW r \in Edits, ReplyLost(r) PROVE WholeInv'
  <2>1. inflight' \subseteq inflight /\ UNCHANGED <<movies, append, edits>>
      BY <1>5 DEF ReplyLost, shared
  <2> QED
      BY <2>1 DEF WholeInv, Over, Appending
<1> QED
    BY <1>1, <1>2, <1>3, <1>4, <1>5 DEF Next, Replies

LEMMA FreshAndWhole == Spec => [](FreshInv /\ WholeInv)
<1>1. IndInv => TypeOK /\ AppendBase
    BY DEF IndInv
<1>2. IndInv /\ FreshInv /\ WholeInv /\ [Next]_vars => FreshInv' /\ WholeInv'
    BY <1>1, NextFresh, NextWhole
<1> QED
    BY <1>2, InitFreshWhole, InductiveInvariant, PTL DEF Spec

\* As long as no edit overtakes a request, every movie of the list answers the
\* latest edit, whatever the race between the clear and the append brings back.
THEOREM FreshCorrect == Spec => []FreshList
<1>1. FreshInv => FreshList
    BY DEF FreshInv, FreshList, AllOf
<1> QED
    BY <1>1, FreshAndWhole, PTL

\* The race undoes a clear but never tears, doubles or reorders a reply.
THEOREM WholeCorrect == Spec => []WholeReplies
<1>1. WholeInv => WholeReplies
    BY DEF WholeInv, WholeReplies, Over, Whole, Follows
<1> QED
    BY <1>1, FreshAndWhole, PTL

(***************************************************************************)
(* The safety half of TableSettles.                                        *)
(***************************************************************************)
\* A table that differs from the list is about to be reloaded, unless an edit
\* cleared the list, which nothing was appended to since.
ReloadComing ==
    rows = Len(movies) \/ (cleared /\ movies = <<>>) \/ reloads > 0 \/ main = "reloading"

LEMMA NextReloadComing == TypeOK /\ ReloadComing /\ [Next]_vars => ReloadComing'
<1> SUFFICES ASSUME TypeOK, ReloadComing, [Next]_vars PROVE ReloadComing'
    OBVIOUS
<1>1. ASSUME NEW valid \in BOOLEAN, Edit(valid) PROVE ReloadComing'
    BY <1>1 DEF Edit, ReloadComing
<1>2. CASE ReloadBegins \/ ReloadEnds
    BY <1>2 DEF ReloadBegins, ReloadEnds, ReloadComing, shared
<1>3. CASE ReplyEnds
    BY <1>3 DEF ReplyEnds, ReloadComing, TypeOK
<1>4. CASE \/ Replies \/ RowOutOfRange \/ Collision \/ UNCHANGED vars
           \/ \E r \in Edits : ReplyLost(r)
  <2>1. UNCHANGED <<movies, rows, cleared, reloads, main>>
      BY <1>4 DEF Replies, ReplyBegins, ReplyLost, RowOutOfRange, Collision, vars,
          shared, table, observed
  <2> QED
      BY <2>1 DEF ReloadComing
<1> QED
    BY <1>1, <1>2, <1>3, <1>4 DEF Next

\* However edits, replies and reloads interleave and whichever replies are lost,
\* what the delegate queue appended without the table knowing has its reload
\* under way: TableSettles needs the main queue to run, and nothing else.
THEOREM ReloadsCome == Spec => []ReloadComing
<1>1. Init => ReloadComing
    BY DEF Init, ReloadComing
<1>2. IndInv => TypeOK
    BY DEF IndInv
<1> QED
    BY <1>1, <1>2, NextReloadComing, InductiveInvariant, PTL DEF Spec
=============================================================================
