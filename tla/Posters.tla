-------------------------------- MODULE Posters --------------------------------
(***************************************************************************)
(* HomeViewController, its table of MovieTableViewCells, the detail screen *)
(* MovieViewController, and the two requests of ApiManager they make:      *)
(* getMoviePoster and openInSafari.                                        *)
(*                                                                         *)
(* No request is cancelled, so a poster arrives at a cell that may have    *)
(* been reused, and at a detail screen that may have been left, whose      *)
(* texts are looked up in the list only then.  URLSession answers in any   *)
(* order; an answer and the block it posts to the main queue are one step, *)
(* which is the block, since the answer alone touches nothing here.        *)
(***************************************************************************)
EXTENDS Integers, Sequences

CONSTANTS
    Movies, NoMovie,
    Cells,
    \* Bounds: rows of the list, poster requests of cells, detail screens
    \* opened, and taps on their IMDb button.
    MaxRows, MaxFetches, MaxScreens, MaxLookups

ASSUME NoMovieAssumption == NoMovie \notin Movies

ASSUME BoundsAssumption ==
    /\ MaxRows \in Nat
    /\ MaxFetches \in Nat
    /\ MaxScreens \in Nat
    /\ MaxLookups \in Nat

VARIABLES
    \* HomeViewController: the request of viewDidLoad, the list it fills, and
    \* the rows the table counts on
    listing, movies, rows,
    \* MovieTableViewCell: the row a cell is in (0: none), the movie its labels
    \* name, the movie whose poster it shows; and the requests for its posters
    row, label, image, fetches, fetched,
    \* the detail screens opened so far, the last one in front or left; those
    \* whose poster is under way
    screens, front, previews,
    \* the IMDb lookups under way for each of them, and the page in front
    lookups, looked, safari

\* Observation only, read by no action: the last answer each cell received,
\* and the cells one of whose answers came behind a later one.
VARIABLES newest, late

list   == <<listing, movies, rows>>
cells  == <<row, label, image, fetches, fetched, newest, late>>
detail == <<screens, front, previews>>
imdb   == <<lookups, looked, safari>>
vars   == <<list, cells, detail, imdb>>

Shown == Movies \cup {NoMovie}

Fetches == 1..MaxFetches

\* A request of a cell: its number, and the movie whose poster is wanted.
Fetch == [n : Fetches, cell : Cells, movie : Movies]

\* A detail screen: the row tapped, the movie of its IMDBMovieID, and the
\* movies its texts and its poster are of.
Screen == [row : 1..MaxRows, id : Movies, texts : Shown, poster : Shown]

-----------------------------------------------------------------------------
(***************************************************************************)
(* The list.                                                               *)
(***************************************************************************)
\* searchMovies called back, on the delegate queue.
ListAnswered ==
    /\ listing = "asked"
    /\ listing' = "posted"
    /\ \E n \in 0..MaxRows : \E page \in [1..n -> Movies] : movies' = movies \o page
    /\ UNCHANGED <<rows, cells, detail, imdb>>

\* Mutant: the table counts on one row more than the list has.
ReloadDataBehind ==
    /\ listing = "posted"
    /\ listing' = "done"
    /\ rows' = Len(movies) + 1
    /\ row' = [c \in Cells |-> 0]
    /\ UNCHANGED <<movies, label, image, fetches, fetched, newest, late, detail, imdb>>

\* The block it posted: every cell goes back to the pool.
ReloadData ==
    /\ listing = "posted"
    /\ listing' = "done"
    /\ rows' = Len(movies)
    /\ row' = [c \in Cells |-> 0]
    /\ UNCHANGED <<movies, label, image, fetches, fetched, newest, late, detail, imdb>>

\* No data, or data that does not decode: searchMovies calls nobody.
ListLost ==
    /\ listing = "asked"
    /\ listing' = "done"
    /\ UNCHANGED <<movies, rows, cells, detail, imdb>>

-----------------------------------------------------------------------------
(***************************************************************************)
(* The cells.                                                              *)
(***************************************************************************)
\* Mutant: a movie whose poster the cell already shows is not fetched again.
UpdateSparing(c, movie) ==
    /\ label' = [label EXCEPT ![c] = movie]
    /\ IF image[c] = movie
       THEN UNCHANGED <<fetches, fetched>>
       ELSE /\ fetched' = fetched + 1
            /\ fetches' = fetches \cup {[n |-> fetched', cell |-> c, movie |-> movie]}

\* MovieTableViewCell.update: the labels at once, the poster when it comes;
\* until then the cell keeps the image it had.
Update(c, movie) ==
    /\ label' = [label EXCEPT ![c] = movie]
    /\ fetched' = fetched + 1
    /\ fetches' = fetches \cup {[n |-> fetched', cell |-> c, movie |-> movie]}

\* cellForRowAt, for a row that scrolls in: a cell out of the pool is reused.
CellForRow ==
    /\ fetched < MaxFetches
    /\ front = 0
    /\ \E r \in 1..rows, c \in Cells :
           /\ row[c] = 0 /\ \A d \in Cells : row[d] # r
           /\ row' = [row EXCEPT ![c] = r]
           /\ Update(c, movies[r])
    /\ UNCHANGED <<list, image, newest, late, detail, imdb>>

ScrolledOut ==
    /\ front = 0
    /\ \E c \in Cells : row[c] # 0 /\ row' = [row EXCEPT ![c] = 0]
    /\ UNCHANGED <<list, label, image, fetches, fetched, newest, late, detail, imdb>>

\* getMoviePoster's completion: the poster, or nil when it cannot be had; the
\* cell takes it whatever it shows by now.
PosterArrives ==
    /\ \E f \in fetches :
           /\ fetches' = fetches \ {f}
           /\ \E poster \in {f.movie, NoMovie} : image' = [image EXCEPT ![f.cell] = poster]
           /\ newest' = [newest EXCEPT ![f.cell] = IF f.n > @ THEN f.n ELSE @]
           /\ late' = IF f.n < newest[f.cell] THEN late \cup {f.cell} ELSE late
    /\ UNCHANGED <<list, row, label, fetched, detail, imdb>>

-----------------------------------------------------------------------------
(***************************************************************************)
(* The detail screen.                                                      *)
(***************************************************************************)
\* didSelectRowAt: the poster is asked for before the screen is pushed.
DidSelectRow ==
    /\ Len(screens) < MaxScreens
    /\ front = 0
    /\ \E c \in Cells :
           /\ row[c] # 0
           /\ screens' = Append(screens, [row |-> row[c], id |-> movies[row[c]],
                                          texts |-> NoMovie, poster |-> NoMovie])
    /\ front' = Len(screens')
    /\ previews' = previews \cup {front'}
    /\ UNCHANGED <<list, cells, imdb>>

\* Mutant: nobody is called back when the poster cannot be had.
PreviewDropped(i) ==
    /\ i \in previews
    /\ previews' = previews \ {i}
    /\ \/ screens' = screens
       \/ screens' = [screens EXCEPT ![i] =
              [row |-> @.row, id |-> @.id, texts |-> movies[@.row], poster |-> @.id]]
    /\ UNCHANGED <<list, cells, front, imdb>>

\* Its completion fills the screen it was made for, left or not, with the movie
\* that is in that row of the list now.
PreviewArrives(i) ==
    /\ i \in previews
    /\ previews' = previews \ {i}
    /\ \E poster \in {screens[i].id, NoMovie} :
           screens' = [screens EXCEPT ![i] =
               [row |-> @.row, id |-> @.id, texts |-> movies[@.row], poster |-> poster]]
    /\ UNCHANGED <<list, cells, front, imdb>>

\* Mutant: going back loads the list anew, as viewWillAppear could.
OnBackReloading ==
    /\ front # 0 /\ safari = NoMovie
    /\ front' = 0
    /\ movies' \in [1..Len(movies) -> Movies]
    /\ UNCHANGED <<listing, rows, cells, screens, previews, imdb>>

OnBack ==
    /\ front # 0 /\ safari = NoMovie
    /\ front' = 0
    /\ UNCHANGED <<list, cells, screens, previews, imdb>>

\* openIMDBlinkActionBtn, which nothing disables while a lookup runs.
OpenIMDBLink ==
    /\ looked < MaxLookups
    /\ front # 0 /\ safari = NoMovie
    /\ looked' = looked + 1
    /\ lookups' = [lookups EXCEPT ![front] = @ + 1]
    /\ UNCHANGED <<list, cells, detail, safari>>

\* Mutant: the page is presented by whatever is in front.
LookupArrivesAnywhere(i) ==
    /\ lookups[i] > 0
    /\ lookups' = [lookups EXCEPT ![i] = @ - 1]
    /\ safari' = screens[i].id
    /\ UNCHANGED <<list, cells, detail, looked>>

\* Mutant: a lookup can be answered again.
LookupArrivesAgain(i) ==
    /\ i \in 1..looked
    /\ i \in DOMAIN screens
    /\ lookups' = [lookups EXCEPT ![i] = @ - 1]
    /\ \/ UNCHANGED safari
       \/ front = i /\ safari = NoMovie /\ safari' = screens[i].id
    /\ UNCHANGED <<list, cells, detail, looked>>

\* openInSafari's completion presents the page, which UIKit refuses to a screen
\* that is not in front or already presents one; or there is no completion,
\* when the lookup failed.
LookupArrives(i) ==
    /\ lookups[i] > 0
    /\ lookups' = [lookups EXCEPT ![i] = @ - 1]
    /\ \/ UNCHANGED safari
       \/ front = i /\ safari = NoMovie /\ safari' = screens[i].id
    /\ UNCHANGED <<list, cells, detail, looked>>

SafariDone ==
    /\ safari # NoMovie
    /\ safari' = NoMovie
    /\ UNCHANGED <<list, cells, detail, lookups, looked>>

Init ==
    /\ listing = "asked" /\ movies = <<>> /\ rows = 0
    /\ row = [c \in Cells |-> 0]
    /\ label = [c \in Cells |-> NoMovie] /\ image = [c \in Cells |-> NoMovie]
    /\ fetches = {} /\ fetched = 0
    /\ screens = <<>> /\ front = 0 /\ previews = {}
    /\ lookups = [i \in 1..MaxScreens |-> 0] /\ looked = 0 /\ safari = NoMovie
    /\ newest = [c \in Cells |-> 0] /\ late = {}

Next ==
    \/ ListAnswered \/ ReloadData \/ ListLost
    \/ CellForRow \/ ScrolledOut \/ PosterArrives
    \/ DidSelectRow \/ (\E i \in 1..MaxScreens : PreviewArrives(i)) \/ OnBack
    \/ OpenIMDBLink \/ (\E i \in 1..MaxScreens : LookupArrives(i)) \/ SafariDone

Spec == Init /\ [][Next]_vars

\* A data task always ends, with an answer, an error or a timeout.
FairSpec == Spec /\ \A i \in 1..MaxScreens : WF_vars(PreviewArrives(i))

-----------------------------------------------------------------------------
(***************************************************************************)
(* Properties.                                                             *)
(***************************************************************************)
\* Every variable keeps its type.
TypeOK ==
    /\ listing \in {"asked", "posted", "done"}
    /\ movies \in Seq(Movies) /\ Len(movies) <= MaxRows /\ rows \in Nat
    /\ row \in [Cells -> 0..MaxRows]
    /\ label \in [Cells -> Shown] /\ image \in [Cells -> Shown]
    /\ fetches \subseteq Fetch /\ fetched \in 0..MaxFetches
    /\ screens \in Seq(Screen) /\ Len(screens) <= MaxScreens
    /\ front \in 0..Len(screens) /\ previews \subseteq 1..Len(screens)
    /\ lookups \in [1..MaxScreens -> Nat] /\ looked \in 0..MaxLookups
    /\ safari \in Shown
    /\ newest \in [Cells -> 0..MaxFetches] /\ late \subseteq Cells

\* Every row that cellForRowAt, didSelectRowAt and the completions of posters
\* look up exists: movies[indexPath.row] does not trap.
RowsExist ==
    /\ rows <= Len(movies)
    /\ \A c \in Cells : row[c] <= Len(movies)
    /\ \A i \in DOMAIN screens : screens[i].row <= Len(movies)

\* Although a cell keeps its old image until the new one comes and nothing is
\* cancelled, a cell that waits for no poster shows that of the movie its labels
\* name, or none, unless an answer came to it behind a later one.
PosterIsOwn ==
    \A c \in Cells \ late :
        (\A f \in fetches : f.cell # c) => image[c] \in {label[c], NoMovie}

\* The texts, the poster and the IMDb page of a detail screen are of the movie
\* tapped, although they are looked up by row when the poster comes.
DetailIsTapped ==
    \A i \in DOMAIN screens :
        /\ screens[i].texts \in {screens[i].id, NoMovie}
        /\ screens[i].poster \in {screens[i].texts, NoMovie}

\* A page in front belongs to the detail screen under it: a lookup answered
\* after its screen was left shows nothing.
PageIsOfScreen == safari # NoMovie => front # 0 /\ safari = screens[front].id

\* A detail screen does not stay empty: its texts wait for the poster, and
\* getMoviePoster calls back even when there is none.
DetailFills ==
    \A i \in 1..MaxScreens :
        i \in previews ~> (i \in DOMAIN screens /\ screens[i].texts # NoMovie)
================================================================================
