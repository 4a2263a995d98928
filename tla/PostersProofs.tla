----------------------------- MODULE PostersProofs -----------------------------
(***************************************************************************)
(* For any list, any number of cells, screens and requests, answered in    *)
(* any order: rows exist, cells end up with their own poster unless one    *)
(* came late, and a detail screen is about the movie tapped.               *)
(***************************************************************************)
EXTENDS Posters, SequenceTheorems, TLAPS

\* Nothing counts on a row before the list is in; it is filled once.
FilledOnce ==
    /\ listing = "asked" => movies = <<>>
    /\ listing # "done" => rows = 0 /\ screens = <<>> /\ \A c \in Cells : row[c] = 0

\* A detail screen remembers the row of its movie, which stays there.
RowsStay ==
    \A i \in DOMAIN screens :
        screens[i].row <= Len(movies) /\ screens[i].id = movies[screens[i].row]

\* The requests of the cells are numbered in the order they were made.
Numbered ==
    /\ \A f \in fetches : f.n <= fetched /\ f.n # newest[f.cell]
    /\ \A f, g \in fetches : f.n = g.n => f = g
    /\ \A c \in Cells : newest[c] <= fetched

Ahead(f) == f.n > newest[f.cell]

\* The last request of a cell, unless answered, is for the movie on its labels.
LabelIsLast ==
    \A f \in fetches :
        Ahead(f) /\ (\A g \in fetches : g.cell = f.cell => g.n <= f.n)
            => label[f.cell] = f.movie

\* Once it is answered, the image is of that movie, or none.
ImageIsLast ==
    \A c \in Cells \ late :
        (\A f \in fetches : f.cell = c => ~Ahead(f)) => image[c] \in {label[c], NoMovie}

CellsInv == Numbered /\ LabelIsLast /\ ImageIsLast

ScreensInv == FilledOnce /\ RowsExist /\ RowsStay /\ DetailIsTapped /\ PageIsOfScreen

IndInv == TypeOK /\ CellsInv /\ ScreensInv

LEMMA InitIndInv == Init => IndInv
<1> SUFFICES ASSUME Init PROVE IndInv
    OBVIOUS
<1> USE DEF Init
<1>1. TypeOK
  <2>1. movies \in Seq(Movies) /\ screens \in Seq(Screen) /\ Len(movies) = 0 /\ Len(screens) = 0
      BY EmptySeq
  <2>2. NoMovie \in Shown
      BY DEF Shown
  <2> QED
      BY <2>1, <2>2, BoundsAssumption DEF TypeOK
<1>2. CellsInv
    BY BoundsAssumption DEF CellsInv, Numbered, LabelIsLast, ImageIsLast
<1>3. ScreensInv
    BY DEF ScreensInv, FilledOnce, RowsExist, RowsStay, DetailIsTapped, PageIsOfScreen
<1> QED
    BY <1>1, <1>2, <1>3 DEF IndInv

-----------------------------------------------------------------------------
(***************************************************************************)
(* The cells' part of a step.                                              *)
(***************************************************************************)
\* What other steps leave of the cells is enough.
LEMMA CellsKept ==
    CellsInv /\ UNCHANGED <<label, image, fetches, fetched, newest, late>> => CellsInv'
BY DEF CellsInv, Numbered, LabelIsLast, ImageIsLast, Ahead

\* A cell that is updated waits for the poster of its new movie.
LEMMA UpdateCells ==
    ASSUME TypeOK, CellsInv, NEW c \in Cells, NEW m \in Movies, Update(c, m),
           UNCHANGED <<image, newest, late>>
    PROVE  CellsInv'
<1>0. PICK new : new = [n |-> fetched + 1, cell |-> c, movie |-> m]
    OBVIOUS
<1>1. /\ fetches' = fetches \cup {new} /\ fetched' = fetched + 1
      /\ new.n = fetched + 1 /\ new.cell = c /\ new.movie = m
    BY <1>0 DEF Update
<1>2. fetched \in Nat /\ newest \in [Cells -> Nat] /\ label' = [label EXCEPT ![c] = m]
    BY BoundsAssumption DEF TypeOK, Update
<1>3. \A f \in fetches : f.n \in Nat /\ f.cell \in Cells /\ f.n <= fetched
    BY BoundsAssumption DEF TypeOK, Fetch, Fetches, CellsInv, Numbered
<1>4. Numbered'
    BY <1>1, <1>2, <1>3 DEF CellsInv, Numbered
<1>5. LabelIsLast'
  <2> SUFFICES ASSUME NEW f \in fetches', Ahead(f)',
                      \A g \in fetches' : g.cell = f.cell => g.n <= f.n
               PROVE  label'[f.cell] = f.movie
      BY DEF LabelIsLast
  <2>1. CASE f = new
      BY <1>1, <1>2, <2>1 DEF TypeOK
  <2>2. CASE f # new
    <3>1. f \in fetches
        BY <1>1, <2>2
    <3>2. f.cell = c => fetched + 1 <= f.n
        BY <1>1
    <3>3. f.cell # c
        BY <1>2, <1>3, <3>1, <3>2
    <3> QED
        BY <1>1, <1>2, <1>3, <3>1, <3>3 DEF CellsInv, LabelIsLast, Ahead, TypeOK
  <2> QED
      BY <2>1, <2>2
<1>6. ImageIsLast'
  <2> SUFFICES ASSUME NEW d \in Cells \ late,
                      \A f \in fetches' : f.cell = d => ~Ahead(f)'
               PROVE  image[d] \in {label'[d], NoMovie}
      BY DEF ImageIsLast
  <2>1. Ahead(new)'
      BY <1>1, <1>2 DEF Ahead, CellsInv, Numbered
  <2>2. d # c
      BY <1>1, <2>1
  <2> QED
      BY <1>1, <1>2, <2>2 DEF CellsInv, ImageIsLast, Ahead, TypeOK
<1> QED
    BY <1>4, <1>5, <1>6 DEF CellsInv

\* An answer that is not late is of the last request of its cell, or there is
\* a later one to come.
LEMMA ArrivesCells ==
    ASSUME TypeOK, CellsInv, PosterArrives
    PROVE  TypeOK' /\ CellsInv'
<1>1. PICK f \in fetches :
          /\ fetches' = fetches \ {f}
          /\ \E poster \in {f.movie, NoMovie} : image' = [image EXCEPT ![f.cell] = poster]
          /\ newest' = [newest EXCEPT ![f.cell] = IF f.n > @ THEN f.n ELSE @]
          /\ late' = IF f.n < newest[f.cell] THEN late \cup {f.cell} ELSE late
    BY DEF PosterArrives
<1>2. PICK poster \in {f.movie, NoMovie} : image' = [image EXCEPT ![f.cell] = poster]
    BY <1>1
<1>3. UNCHANGED <<label, fetched>>
    BY DEF PosterArrives
<1>4. \A g \in fetches : /\ g.n \in 1..MaxFetches /\ g.n \in Nat
                         /\ g.cell \in Cells /\ g.movie \in Movies
    BY BoundsAssumption DEF TypeOK, Fetch, Fetches
<1>5. newest \in [Cells -> Nat] /\ newest \in [Cells -> 0..MaxFetches] /\ image \in [Cells -> Shown]
    BY BoundsAssumption DEF TypeOK
<1>6. \A c \in Cells : newest'[c] = IF c = f.cell /\ f.n > newest[c] THEN f.n ELSE newest[c]
    BY <1>1, <1>4, <1>5
<1>7. TypeOK'
  <2>1. newest' \in [Cells -> 0..MaxFetches]
      BY <1>1, <1>4, <1>5, BoundsAssumption
  <2>2. image' \in [Cells -> Shown] /\ late' \subseteq Cells /\ fetches' \subseteq Fetch
      BY <1>1, <1>2, <1>4, <1>5 DEF TypeOK, Shown
  <2> QED
      BY <2>1, <2>2 DEF PosterArrives, TypeOK, list, detail, imdb
<1>8. Numbered'
    BY <1>1, <1>3, <1>4, <1>5, <1>6 DEF CellsInv, Numbered
<1>9. LabelIsLast'
  <2> SUFFICES ASSUME NEW g \in fetches', Ahead(g)',
                      \A h \in fetches' : h.cell = g.cell => h.n <= g.n
               PROVE  label[g.cell] = g.movie
      BY <1>3 DEF LabelIsLast
  <2>1. g \in fetches /\ Ahead(g)
      BY <1>1, <1>4, <1>5, <1>6 DEF Ahead
  <2>2. f.cell = g.cell => f.n <= g.n
      BY <1>1, <1>4, <1>5, <1>6 DEF Ahead
  <2> QED
      BY <1>1, <2>1, <2>2 DEF CellsInv, LabelIsLast
<1>10. ImageIsLast'
  <2> SUFFICES ASSUME NEW c \in Cells \ late',
                      \A g \in fetches' : g.cell = c => ~Ahead(g)'
               PROVE  image'[c] \in {label[c], NoMovie}
      BY <1>3 DEF ImageIsLast
  <2>1. CASE c = f.cell
    <3>1. Ahead(f)
        BY <1>1, <1>4, <1>5, <2>1 DEF Ahead, CellsInv, Numbered
    <3>2. \A g \in fetches : g.cell = f.cell => g.n <= f.n
        BY <1>1, <1>4, <1>5, <1>6, <2>1, <3>1 DEF Ahead
    <3>3. label[c] = f.movie
        BY <2>1, <3>1, <3>2 DEF CellsInv, LabelIsLast
    <3> QED
        BY <1>2, <1>5, <2>1, <3>3
  <2>2. CASE c # f.cell
    <3>1. c \in Cells \ late /\ image'[c] = image[c]
        BY <1>1, <1>2, <1>5, <2>2
    <3>2. \A g \in fetches : g.cell = c => ~Ahead(g)
        BY <1>1, <1>4, <1>6, <2>2 DEF Ahead
    <3> QED
        BY <3>1, <3>2 DEF CellsInv, ImageIsLast
  <2> QED
      BY <2>1, <2>2
<1> QED
    BY <1>7, <1>8, <1>9, <1>10 DEF CellsInv

-----------------------------------------------------------------------------
(***************************************************************************)
(* The list's and the screens' part of a step.                             *)
(***************************************************************************)
LEMMA ScreensKept ==
    ScreensInv /\ UNCHANGED <<list, row, screens, front, safari>> => ScreensInv'
BY DEF ScreensInv, FilledOnce, RowsExist, RowsStay, DetailIsTapped, PageIsOfScreen, list

LEMMA ScreenTypes ==
    ASSUME TypeOK, NEW i \in DOMAIN screens
    PROVE  /\ screens[i] \in Screen /\ screens[i].id \in Movies
           /\ screens[i].row \in 1..MaxRows /\ screens[i].row \in Nat
<1>1. screens[i] \in Screen
    BY DEF TypeOK
<1> QED
    BY <1>1, BoundsAssumption DEF Screen

LEMMA ListSteps ==
    ASSUME IndInv, ListAnswered \/ ReloadData \/ ListLost
    PROVE  IndInv'
<1>1. UNCHANGED <<label, image, fetches, fetched, newest, late, detail, imdb>>
    BY DEF ListAnswered, ReloadData, ListLost, cells
<1>2. CellsInv'
    BY <1>1, CellsKept DEF IndInv
<1>3. TypeOK /\ ScreensInv
    BY DEF IndInv
<1>4. CASE ListAnswered
  <2>1. PICK n \in 0..MaxRows : \E page \in [1..n -> Movies] : movies' = movies \o page
      BY <1>4 DEF ListAnswered
  <2>2. PICK page \in [1..n -> Movies] : movies' = movies \o page
      BY <2>1
  <2>3. page \in Seq(Movies) /\ Len(page) = n /\ n \in Nat
      BY BoundsAssumption
  <2>4. movies = <<>> /\ rows = 0 /\ screens = <<>> /\ \A c \in Cells : row[c] = 0
      BY <1>3, <1>4 DEF ListAnswered, ScreensInv, FilledOnce
  <2>5. movies' \in Seq(Movies) /\ Len(movies') = n
      BY <2>2, <2>3, <2>4
  <2>6. TypeOK'
      BY <1>1, <1>3, <1>4, <2>5 DEF ListAnswered, TypeOK, cells, detail, imdb
  <2>7. ScreensInv'
      BY <1>1, <1>3, <1>4, <2>3, <2>4, <2>5 DEF ListAnswered, ScreensInv, FilledOnce, RowsExist,
          RowsStay, DetailIsTapped, PageIsOfScreen, cells, detail, imdb
  <2> QED
      BY <1>2, <2>6, <2>7 DEF IndInv
<1>5. CASE ReloadData
  <2>1. Len(movies) \in Nat /\ screens = <<>>
      BY <1>3, <1>5 DEF ReloadData, TypeOK, ScreensInv, FilledOnce
  <2>2. TypeOK'
      BY <1>1, <1>3, <1>5, <2>1, BoundsAssumption DEF ReloadData, TypeOK, detail, imdb
  <2>3. ScreensInv'
      BY <1>1, <1>3, <1>5, <2>1 DEF ReloadData, ScreensInv, FilledOnce, RowsExist,
          RowsStay, DetailIsTapped, PageIsOfScreen, detail, imdb
  <2> QED
      BY <1>2, <2>2, <2>3 DEF IndInv
<1>6. CASE ListLost
  <2>1. TypeOK'
      BY <1>3, <1>6 DEF ListLost, TypeOK, cells, detail, imdb
  <2>2. ScreensInv'
      BY <1>3, <1>6 DEF ListLost, ScreensInv, FilledOnce, RowsExist,
          RowsStay, DetailIsTapped, PageIsOfScreen, cells, detail, imdb
  <2> QED
      BY <1>2, <2>1, <2>2 DEF IndInv
<1> QED
    BY <1>4, <1>5, <1>6

LEMMA CellSteps ==
    ASSUME IndInv, CellForRow \/ ScrolledOut \/ PosterArrives
    PROVE  IndInv'
<1>1. TypeOK /\ CellsInv /\ ScreensInv
    BY DEF IndInv
<1>2. CASE CellForRow
  <2>1. PICK r \in 1..rows, c \in Cells : row' = [row EXCEPT ![c] = r] /\ Update(c, movies[r])
      BY <1>2 DEF CellForRow
  <2>2. rows \in Nat /\ rows <= Len(movies) /\ Len(movies) \in Nat /\ Len(movies) <= MaxRows
      BY <1>1 DEF TypeOK, ScreensInv, RowsExist
  <2>3. r \in 1..Len(movies) /\ movies[r] \in Movies /\ r \in 0..MaxRows /\ rows # 0
      BY <1>1, <2>2, BoundsAssumption DEF TypeOK
  <2>4. CellsInv'
      BY <1>1, <1>2, <2>1, <2>3, UpdateCells DEF CellForRow
  <2>5. fetched' \in 0..MaxFetches /\ fetched' \in Fetches
      BY <1>1, <1>2, <2>1, BoundsAssumption DEF CellForRow, Update, TypeOK, Fetches
  <2>6. TypeOK'
    <3>1. row' \in [Cells -> 0..MaxRows] /\ label' \in [Cells -> Shown]
        BY <1>1, <2>1, <2>3 DEF TypeOK, Update, Shown
    <3>2. fetches' \subseteq Fetch
        BY <1>1, <2>1, <2>3, <2>5 DEF TypeOK, Update, Fetch
    <3> QED
        BY <1>1, <1>2, <2>5, <3>1, <3>2 DEF CellForRow, TypeOK, list, detail, imdb
  <2>7. ScreensInv'
    <3>1. listing = "done"
        BY <1>1, <2>3 DEF ScreensInv, FilledOnce
    <3>2. \A d \in Cells : row'[d] <= Len(movies)
        BY <1>1, <2>1, <2>2, <2>3 DEF TypeOK, ScreensInv, RowsExist
    <3> QED
        BY <1>1, <1>2, <3>1, <3>2 DEF CellForRow, ScreensInv, FilledOnce, RowsExist,
            RowsStay, DetailIsTapped, PageIsOfScreen, list, detail, imdb
  <2> QED
      BY <2>4, <2>6, <2>7 DEF IndInv
<1>3. CASE ScrolledOut
  <2>1. PICK c \in Cells : row' = [row EXCEPT ![c] = 0]
      BY <1>3 DEF ScrolledOut
  <2>2. CellsInv'
      BY <1>1, <1>3, CellsKept DEF ScrolledOut
  <2>3. TypeOK'
      BY <1>1, <1>3, <2>1, BoundsAssumption DEF ScrolledOut, TypeOK, list, detail, imdb
  <2>4. \A d \in Cells : row'[d] = row[d] \/ row'[d] = 0
      BY <1>1, <2>1 DEF TypeOK
  <2>5. Len(movies) \in Nat
      BY <1>1 DEF TypeOK
  <2>6. ScreensInv'
      BY <1>1, <1>3, <2>4, <2>5 DEF ScrolledOut, ScreensInv, FilledOnce, RowsExist,
          RowsStay, DetailIsTapped, PageIsOfScreen, list, detail, imdb
  <2> QED
      BY <2>2, <2>3, <2>6 DEF IndInv
<1>4. CASE PosterArrives
  <2>1. TypeOK' /\ CellsInv'
      BY <1>1, <1>4, ArrivesCells
  <2>2. ScreensInv'
      BY <1>1, <1>4, ScreensKept DEF PosterArrives, detail, imdb
  <2> QED
      BY <2>1, <2>2 DEF IndInv
<1> QED
    BY <1>2, <1>3, <1>4

LEMMA SelectStep ==
    ASSUME IndInv, DidSelectRow
    PROVE  IndInv'
<1>1. TypeOK /\ CellsInv /\ ScreensInv
    BY DEF IndInv
<1>2. PICK c \in Cells :
          /\ row[c] # 0
          /\ screens' = Append(screens, [row |-> row[c], id |-> movies[row[c]],
                                         texts |-> NoMovie, poster |-> NoMovie])
    BY DEF DidSelectRow
<1> DEFINE new == [row |-> row[c], id |-> movies[row[c]], texts |-> NoMovie, poster |-> NoMovie]
<1>3. row[c] \in 1..MaxRows /\ row[c] \in 1..Len(movies) /\ row[c] <= Len(movies)
    BY <1>1, <1>2, BoundsAssumption DEF TypeOK, ScreensInv, RowsExist
<1>4. new \in Screen
    BY <1>1, <1>3 DEF Screen, Shown, TypeOK
<1>5. /\ screens' \in Seq(Screen) /\ Len(screens') = Len(screens) + 1
      /\ screens'[Len(screens')] = new
      /\ \A i \in 1..Len(screens) : screens'[i] = screens[i]
      /\ DOMAIN screens' = 1..Len(screens') /\ DOMAIN screens = 1..Len(screens)
      /\ Len(screens) \in Nat
    BY <1>1, <1>2, <1>4 DEF TypeOK
<1>6. CellsInv'
    BY <1>1, CellsKept DEF DidSelectRow, cells
<1>7. TypeOK'
  <2>1. previews \subseteq 1..Len(screens) /\ front' = Len(screens) + 1
      BY <1>1, <1>5 DEF DidSelectRow, TypeOK
  <2>2. previews' = previews \cup {front'}
      BY DEF DidSelectRow
  <2>3. Len(screens') = Len(screens) + 1 /\ Len(screens) \in Nat
      BY <1>5
  <2>4. 1..Len(screens') = 1..Len(screens) \cup {front'}
      BY <2>1, <2>3
  <2>5. front' \in 0..Len(screens') /\ previews' \subseteq 1..Len(screens')
    <3>1. front' \in 0..Len(screens')
        BY <2>1, <2>3
    <3>2. previews' \subseteq 1..Len(screens')
        BY <2>1, <2>2, <2>4
    <3> QED
        BY <3>1, <3>2
  <2>6. Len(screens') <= MaxScreens
      BY <1>1, <1>5, BoundsAssumption DEF DidSelectRow
  <2> QED
      BY <1>1, <1>5, <2>5, <2>6 DEF DidSelectRow, TypeOK, list, cells, imdb
<1>8. listing = "done"
    BY <1>1, <1>2 DEF ScreensInv, FilledOnce
<1>9. safari = NoMovie
    BY <1>1 DEF DidSelectRow, ScreensInv, PageIsOfScreen
<1>10. \A i \in DOMAIN screens' :
           /\ screens'[i].row <= Len(movies) /\ screens'[i].id = movies[screens'[i].row]
           /\ screens'[i].texts \in {screens'[i].id, NoMovie}
           /\ screens'[i].poster \in {screens'[i].texts, NoMovie}
  <2> TAKE i \in DOMAIN screens'
  <2>1. CASE i = Len(screens')
      BY <1>3, <1>5, <2>1
  <2>2. CASE i # Len(screens')
    <3>1. i \in DOMAIN screens /\ screens'[i] = screens[i]
        BY <1>5, <2>2
    <3> QED
        BY <1>1, <3>1 DEF ScreensInv, RowsStay, DetailIsTapped
  <2> QED
      BY <2>1, <2>2
<1>11. ScreensInv'
    BY <1>1, <1>8, <1>9, <1>10 DEF DidSelectRow, ScreensInv, FilledOnce, RowsExist,
        RowsStay, DetailIsTapped, PageIsOfScreen, list, cells, imdb
<1> QED
    BY <1>6, <1>7, <1>11 DEF IndInv

LEMMA PreviewStep ==
    ASSUME IndInv, NEW i \in 1..MaxScreens, PreviewArrives(i)
    PROVE  IndInv'
<1>1. TypeOK /\ CellsInv /\ ScreensInv
    BY DEF IndInv
<1>2. PICK poster \in {screens[i].id, NoMovie} :
          screens' = [screens EXCEPT ![i] =
              [row |-> @.row, id |-> @.id, texts |-> movies[@.row], poster |-> poster]]
    BY DEF PreviewArrives
<1>3. i \in DOMAIN screens
    BY <1>1 DEF PreviewArrives, TypeOK
<1>4. screens[i] \in Screen /\ movies[screens[i].row] = screens[i].id /\ screens[i].id \in Movies
    BY <1>1, <1>3, ScreenTypes DEF ScreensInv, RowsStay
<1>5. screens' = [screens EXCEPT ![i] =
                     [row |-> screens[i].row, id |-> screens[i].id,
                      texts |-> screens[i].id, poster |-> poster]]
    BY <1>2, <1>4
<1>6. [row |-> screens[i].row, id |-> screens[i].id,
       texts |-> screens[i].id, poster |-> poster] \in Screen
    BY <1>4 DEF Screen, Shown
<1>7. /\ screens' \in Seq(Screen) /\ Len(screens') = Len(screens)
      /\ DOMAIN screens' = DOMAIN screens
    BY <1>1, <1>3, <1>5, <1>6 DEF TypeOK
<1>8. CellsInv'
    BY <1>1, CellsKept DEF PreviewArrives, cells
<1>9. TypeOK'
    BY <1>1, <1>7 DEF PreviewArrives, TypeOK, list, cells, imdb
<1>10. \A j \in DOMAIN screens' :
           /\ screens'[j].row = screens[j].row /\ screens'[j].id = screens[j].id
           /\ screens'[j].texts \in {screens'[j].id, NoMovie}
           /\ screens'[j].poster \in {screens'[j].texts, NoMovie}
  <2> TAKE j \in DOMAIN screens'
  <2>1. CASE j = i
      BY <1>3, <1>5, <1>7, <2>1
  <2>2. CASE j # i
      BY <1>1, <1>5, <1>7, <2>2 DEF ScreensInv, DetailIsTapped
  <2> QED
      BY <2>1, <2>2
<1>11. front # 0 => front \in DOMAIN screens'
    BY <1>1, <1>7 DEF TypeOK
<1>12. screens # <<>>
    BY <1>3
<1>13. ScreensInv'
    BY <1>1, <1>7, <1>10, <1>11, <1>12 DEF PreviewArrives, ScreensInv, FilledOnce, RowsExist,
        RowsStay, DetailIsTapped, PageIsOfScreen, list, cells, imdb
<1> QED
    BY <1>8, <1>9, <1>13 DEF IndInv

LEMMA PageSteps ==
    ASSUME IndInv,
           \/ OnBack \/ OpenIMDBLink \/ SafariDone
           \/ \E i \in 1..MaxScreens : LookupArrives(i)
    PROVE  IndInv'
<1>1. TypeOK /\ CellsInv /\ ScreensInv
    BY DEF IndInv
<1>2. UNCHANGED <<list, cells, screens, previews>>
    BY DEF OnBack, OpenIMDBLink, SafariDone, LookupArrives, detail
<1>3. CellsInv'
    BY <1>1, <1>2, CellsKept DEF cells
<1>4. front' \in 0..Len(screens) /\ looked' \in 0..MaxLookups
  <2>1. front' = front \/ front' = 0
      BY DEF OnBack, OpenIMDBLink, SafariDone, LookupArrives, detail
  <2>2. looked' = looked \/ (looked < MaxLookups /\ looked' = looked + 1)
      BY DEF OnBack, OpenIMDBLink, SafariDone, LookupArrives, imdb
  <2>3. Len(screens) \in Nat /\ front \in 0..Len(screens) /\ looked \in 0..MaxLookups
      BY <1>1 DEF TypeOK
  <2> QED
      BY <2>1, <2>2, <2>3, BoundsAssumption
<1>5. lookups' \in [1..MaxScreens -> Nat]
  <2>1. \A j \in 1..MaxScreens : lookups[j] \in Nat
      BY <1>1 DEF TypeOK
  <2>2. CASE OpenIMDBLink
    <3>1. front \in 1..MaxScreens
        BY <1>1, <2>2, BoundsAssumption DEF OpenIMDBLink, TypeOK
    <3> QED
        BY <1>1, <2>1, <2>2, <3>1 DEF OpenIMDBLink, TypeOK
  <2>3. CASE \E i \in 1..MaxScreens : LookupArrives(i)
      BY <1>1, <2>1, <2>3 DEF LookupArrives, TypeOK
  <2> QED
      BY <1>1, <2>2, <2>3 DEF OnBack, SafariDone, TypeOK, imdb
<1>6. safari' \in Shown /\ PageIsOfScreen'
  <2>1. CASE OnBack
      BY <1>1, <2>1 DEF OnBack, TypeOK, PageIsOfScreen, imdb
  <2>2. CASE OpenIMDBLink
      BY <1>1, <2>2 DEF OpenIMDBLink, TypeOK, PageIsOfScreen, ScreensInv, detail
  <2>3. CASE SafariDone
      BY <1>1, <2>3 DEF SafariDone, PageIsOfScreen, Shown
  <2>4. ASSUME NEW i \in 1..MaxScreens, LookupArrives(i)
        PROVE  safari' \in Shown /\ PageIsOfScreen'
    <3>1. CASE UNCHANGED safari
        BY <1>1, <2>4, <3>1 DEF LookupArrives, TypeOK, PageIsOfScreen, ScreensInv, detail
    <3>2. CASE front = i /\ safari' = screens[i].id
      <4>1. i # 0 /\ i \in DOMAIN screens
          BY <1>1, <3>2 DEF TypeOK
      <4>2. screens[i].id \in Shown
          BY <1>1, <4>1, ScreenTypes DEF Shown
      <4> QED
          BY <2>4, <3>2, <4>1, <4>2 DEF LookupArrives, PageIsOfScreen, detail
    <3> QED
        BY <2>4, <3>1, <3>2 DEF LookupArrives
  <2> QED
      BY <2>1, <2>2, <2>3, <2>4
<1>7. TypeOK'
    BY <1>1, <1>2, <1>4, <1>5, <1>6 DEF TypeOK, list, cells
<1>8. ScreensInv'
    BY <1>1, <1>2, <1>6 DEF ScreensInv, FilledOnce, RowsExist, RowsStay, DetailIsTapped,
        list, cells
<1> QED
    BY <1>3, <1>7, <1>8 DEF IndInv

LEMMA NextIndInv == IndInv /\ [Next]_vars => IndInv'
<1> SUFFICES ASSUME IndInv, [Next]_vars PROVE IndInv'
    OBVIOUS
<1>1. CASE UNCHANGED vars
  <2>1. TypeOK'
      BY <1>1 DEF IndInv, TypeOK, vars, list, cells, detail, imdb
  <2>2. CellsInv' /\ ScreensInv'
      BY <1>1, CellsKept, ScreensKept DEF IndInv, vars, cells, detail, imdb
  <2> QED
      BY <2>1, <2>2 DEF IndInv
<1> QED
    BY <1>1, ListSteps, CellSteps, SelectStep, PreviewStep, PageSteps DEF Next

LEMMA InductiveInvariant == Spec => []IndInv
BY InitIndInv, NextIndInv, PTL DEF Spec

-----------------------------------------------------------------------------
\* The list, the cells, the screens and the lookups keep their types.
THEOREM TypeCorrect == Spec => []TypeOK
<1>1. IndInv => TypeOK
    BY DEF IndInv
<1> QED
    BY <1>1, InductiveInvariant, PTL

\* movies[indexPath.row] never traps in HomeViewController.
THEOREM RowsCorrect == Spec => []RowsExist
<1>1. IndInv => RowsExist
    BY DEF IndInv, ScreensInv
<1> QED
    BY <1>1, InductiveInvariant, PTL

\* A reused cell ends up with its own poster, or none, unless one came late.
THEOREM PostersOwn == Spec => []PosterIsOwn
<1>1. IndInv => PosterIsOwn
    BY DEF IndInv, CellsInv, ImageIsLast, PosterIsOwn
<1> QED
    BY <1>1, InductiveInvariant, PTL

\* A detail screen filled by row is filled with the movie tapped.
THEOREM DetailCorrect == Spec => []DetailIsTapped
<1>1. IndInv => DetailIsTapped
    BY DEF IndInv, ScreensInv
<1> QED
    BY <1>1, InductiveInvariant, PTL

\* The IMDb page in front is that of the screen under it.
THEOREM PageCorrect == Spec => []PageIsOfScreen
<1>1. IndInv => PageIsOfScreen
    BY DEF IndInv, ScreensInv
<1> QED
    BY <1>1, InductiveInvariant, PTL

-----------------------------------------------------------------------------
(***************************************************************************)
(* The safety half of DetailFills.                                         *)
(***************************************************************************)
\* A detail screen without texts has its poster, which brings them, under way.
EmptyAwaited == \A i \in DOMAIN screens : screens[i].texts = NoMovie => i \in previews

LEMMA NextEmptyAwaited == IndInv /\ EmptyAwaited /\ [Next]_vars => EmptyAwaited'
<1> SUFFICES ASSUME IndInv, EmptyAwaited, [Next]_vars PROVE EmptyAwaited'
    OBVIOUS
<1>1. TypeOK /\ ScreensInv
    BY DEF IndInv
<1>2. CASE DidSelectRow
  <2>1. PICK new \in Screen : screens' = Append(screens, new)
    <3>1. PICK c \in Cells :
              /\ row[c] # 0
              /\ screens' = Append(screens, [row |-> row[c], id |-> movies[row[c]],
                                             texts |-> NoMovie, poster |-> NoMovie])
        BY <1>2 DEF DidSelectRow
    <3>2. row[c] \in 1..MaxRows /\ row[c] \in 1..Len(movies)
        BY <1>1, <3>1, BoundsAssumption DEF TypeOK, ScreensInv, RowsExist
    <3> QED
        BY <1>1, <3>1, <3>2 DEF Screen, Shown, TypeOK
  <2>2. /\ DOMAIN screens' = DOMAIN screens \cup {Len(screens')}
        /\ \A i \in DOMAIN screens : screens'[i] = screens[i]
      BY <1>1, <2>1 DEF TypeOK
  <2>3. previews' = previews \cup {Len(screens')}
      BY <1>2 DEF DidSelectRow
  <2> QED
      BY <2>2, <2>3 DEF EmptyAwaited
<1>3. ASSUME NEW i \in 1..MaxScreens, PreviewArrives(i) PROVE EmptyAwaited'
  <2>1. PICK poster \in {screens[i].id, NoMovie} :
            screens' = [screens EXCEPT ![i] =
                [row |-> @.row, id |-> @.id, texts |-> movies[@.row], poster |-> poster]]
      BY <1>3 DEF PreviewArrives
  <2>2. i \in DOMAIN screens
      BY <1>1, <1>3 DEF PreviewArrives, TypeOK
  <2>3. movies[screens[i].row] \in Movies
      BY <1>1, <2>2, ScreenTypes DEF ScreensInv, RowsStay
  <2>4. screens'[i].texts # NoMovie
      BY <2>1, <2>2, <2>3, NoMovieAssumption
  <2>5. /\ DOMAIN screens' = DOMAIN screens
        /\ \A j \in DOMAIN screens : j # i => screens'[j] = screens[j]
      BY <2>1
  <2>6. previews' = previews \ {i}
      BY <1>3 DEF PreviewArrives
  <2> QED
      BY <2>4, <2>5, <2>6 DEF EmptyAwaited
<1>4. CASE ~DidSelectRow /\ ~\E i \in 1..MaxScreens : PreviewArrives(i)
  <2>1. UNCHANGED <<screens, previews>>
      BY <1>4 DEF Next, ListAnswered, ReloadData, ListLost, CellForRow, ScrolledOut,
          PosterArrives, OnBack, OpenIMDBLink, LookupArrives, SafariDone, vars, detail
  <2> QED
      BY <2>1 DEF EmptyAwaited
<1> QED
    BY <1>2, <1>3, <1>4

\* For any numbers of rows, cells and screens, opened and left in any order, a
\* detail screen that shows nothing waits for a poster that fills it, the one
\* that cannot be had included: DetailFills needs the data task to end, and
\* nothing else.
THEOREM EmptyScreensAwaited == Spec => []EmptyAwaited
<1>1. Init => EmptyAwaited
    BY DEF Init, EmptyAwaited
<1> QED
    BY <1>1, NextEmptyAwaited, InductiveInvariant, PTL DEF Spec
=============================================================================
