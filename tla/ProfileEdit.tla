------------------------------ MODULE ProfileEdit ------------------------------
(***************************************************************************)
(* ProfileInformationViewController, opened from Profile by one signed-in  *)
(* user whose document exists, with UserManager.updateUser and             *)
(* uploadImage and StorageManager.uploadProfileImage behind it.            *)
(*                                                                         *)
(* Every opening makes a new controller.  A controller that was popped     *)
(* lives on as long as the pop is animated or a closure that captured it   *)
(* strongly waits; a handler that captured it weakly finds it or does not. *)
(***************************************************************************)
EXTENDS Integers, SequencesExt

CONSTANTS
    MaxOpens,   \* bound: how often the screen is opened
    MaxTyped,   \* bound: how often the user types something new
    MaxPicks,   \* bound: how many photos the user picks
    MaxPending, \* bound: taps wait while this much is unfinished
    Faults      \* what the environment may do: a subset of FaultKinds

FaultKinds == {"restart", "request", "write", "upload", "keychain"}

ASSUME BoundsAssumption ==
    MaxOpens \in Nat /\ MaxTyped \in Nat /\ MaxPicks \in Nat /\ MaxPending \in Nat

ASSUME FaultsAssumption == Faults \subseteq FaultKinds

\* Texts and photos are numbered in the order the user makes them.
Blank == 0
Texts == Blank..(MaxTyped + 1)      \* 1 is what registration saved

NoImage     == -1                   \* nil
Placeholder == 0                    \* placeholder-person
Photos == NoImage..(MaxPicks + 1)   \* 1 is what registration uploaded

VARIABLES
    doc,        \* server: the user's document
    writes,     \* phone: writes accepted by Firestore, oldest first
    uploads,    \* uploads in flight
    top,        \* the opening on screen, 0 when Profile is
    leaving,    \* the opening whose pop is being animated, or 0
    opened,     \* openings so far
    info,       \* the controller of each opening
    picking,    \* the image picker covers the screen
    loads,      \* openings waiting for getDocument
    fetches,    \* the photo each opening is downloading, or NoImage
    renewals,   \* openings waiting for updateCurrentUser, oldest first
    spinner,    \* activityView: the opening whose overlay it is, or 0
    typed, picks

\* Observation only, read by no action.  "loaded": the openings that got their
\* texts; "hasty": the user submitted something while something earlier was
\* still on its way, or on a screen that did not show the document yet;
\* "updated": the text of the last "Profile info updated.", or Blank;
\* "refused": the openings that had a save refused by the server.
VARIABLES loaded, hasty, updated, refused

server   == <<doc, writes>>
screens  == <<top, leaving, opened, picking>>
pending  == <<loads, fetches, renewals>>
counters == <<typed, picks>>
observed == <<loaded, hasty, updated, refused>>
vars == <<server, uploads, screens, info, pending, spinner, counters, observed>>

Openings == 1..MaxOpens
Nobody == 0

\* text: names and about; url: the photo profilePicturePath leads to; ref:
\* there is a photoReference.
Document == [text : Texts, url : Photos, ref : BOOLEAN]

Controller == [text : Texts, image : Photos, picked : Photos, covered : Nat]

\* updateData with the texts, updateData with profilePicturePath alone, and
\* savePhotoReferenceForUser.
Write ==
    [op : {"text"}, value : Texts, owner : 0..MaxOpens]
        \cup [op : {"url", "ref"}, value : Photos, owner : 0..MaxOpens]

\* "own" is uploadImage, which captures the controller, "ref" is
\* uploadProfileImage, which does not.
Upload == [kind : {"own", "ref"}, image : Photos, owner : 0..MaxOpens]

Effect(d, w) ==
    IF w.op = "text" THEN [d EXCEPT !.text = w.value]
    ELSE [d EXCEPT !.url = w.value, !.ref = @ \/ w.op = "ref"]

Latest(ops, otherwise) ==
    LET at == {k \in DOMAIN writes : writes[k].op \in ops}
    IN  IF at = {} THEN otherwise
        ELSE writes[CHOOSE k \in at : \A j \in at : j <= k].value

\* What getDocument sees: the server's document under the phone's own writes.
Seen == [text |-> Latest({"text"}, doc.text),
         url  |-> Latest({"url", "ref"}, doc.url),
         ref  |-> doc.ref \/ \E k \in DOMAIN writes : writes[k].op = "ref"]

Alive(i) ==
    \/ i \in {top, leaving}
    \/ \E k \in DOMAIN uploads : uploads[k].kind = "own" /\ uploads[k].owner = i
    \/ \E k \in DOMAIN writes : writes[k].owner = i

(***************************************************************************)
(* Taps.  An overlay over the screen swallows all but the back button.     *)
(***************************************************************************)
Tap ==
    /\ top # Nobody /\ ~picking /\ info[top].covered = 0
    /\ Len(renewals) + Len(uploads) + Len(writes) < MaxPending

\* The screen shows the document or something newer, and of what was submitted
\* before only writes of other openings are on their way.
Ready ==
    /\ top \in loaded /\ fetches[top] = NoImage /\ info[top].covered = 0
    /\ renewals = <<>> /\ uploads = <<>>
    /\ info[top].text >= Seen.text /\ info[top].image >= Seen.url

\* ProfileViewController.profileInfoClick, viewDidLoad, loadUserData
Open ==
    /\ top = Nobody /\ leaving = Nobody /\ opened < MaxOpens
    /\ opened' = opened + 1
    /\ top' = opened'
    /\ loads' = loads \cup {opened'}
    /\ UNCHANGED <<server, uploads, leaving, info, picking, fetches, renewals,
                   spinner, counters, observed>>

Type ==
    /\ Tap /\ typed < MaxTyped
    /\ typed' = typed + 1
    /\ info' = [info EXCEPT ![top].text = typed' + 1]
    /\ UNCHANGED <<server, uploads, screens, pending, spinner, picks, observed>>

\* openImagePicker, Camera
ChooseCamera ==
    /\ Tap /\ picks < MaxPicks
    /\ picking' = TRUE
    /\ UNCHANGED <<server, uploads, top, leaving, opened, info, pending, spinner,
                   counters, observed>>

\* openImagePicker, Photo library: the image on display goes to Storage before
\* the user has picked anything.
ChooseLibrary ==
    /\ Tap /\ picks < MaxPicks
    /\ picking' = TRUE
    /\ LET image == info[top].image
       IN  uploads' = IF image = NoImage THEN uploads
             ELSE Append(uploads, [kind |-> "ref", image |-> image, owner |-> Nobody])
    /\ hasty' = (hasty \/ ~Ready)
    /\ UNCHANGED <<server, top, leaving, opened, info, pending, spinner, counters,
                   loaded, updated, refused>>

\* didFinishPickingMediaWithInfo: the overlay that is shown around updateUser
\* is gone at once, and activityView with it.
Picked ==
    /\ picking /\ picks < MaxPicks
    /\ picking' = FALSE
    /\ picks' = picks + 1
    /\ info' = [info EXCEPT ![top].image = picks' + 1, ![top].picked = picks' + 1]
    /\ renewals' = Append(renewals, top)
    /\ spinner' = Nobody
    /\ hasty' = (hasty \/ ~Ready)
    /\ UNCHANGED <<server, uploads, top, leaving, opened, loads, fetches, typed,
                   loaded, updated, refused>>

\* imagePickerControllerDidCancel
PickCancelled ==
    /\ picking
    /\ picking' = FALSE
    /\ UNCHANGED <<server, uploads, top, leaving, opened, info, pending, spinner,
                   counters, observed>>

\* Mutant: setupProfileImage is forgotten.
UpdateAccountBare ==
    /\ Tap
    /\ renewals' = Append(renewals, top)
    /\ top' = Nobody /\ leaving' = top
    /\ hasty' = (hasty \/ ~Ready)
    /\ updated' = info[top].text
    /\ UNCHANGED <<server, uploads, opened, info, picking, loads, fetches, spinner,
                   counters, loaded, refused>>

\* updateAccount: updateUser, then setupProfileImage -- whose other branches
\* change nothing --, "Profile info updated." and the pop.
UpdateAccount ==
    /\ Tap
    /\ renewals' = Append(renewals, top)
    /\ info' = [info EXCEPT ![top].picked =
                  IF info[top].image # NoImage THEN info[top].image ELSE @]
    /\ top' = Nobody /\ leaving' = top
    /\ hasty' = (hasty \/ ~Ready)
    /\ updated' = info[top].text
    /\ UNCHANGED <<server, uploads, opened, picking, loads, fetches, spinner,
                   counters, loaded, refused>>

\* onBack
Back ==
    /\ top # Nobody /\ ~picking
    /\ top' = Nobody /\ leaving' = top
    /\ UNCHANGED <<server, uploads, opened, info, picking, pending, spinner, counters,
                   observed>>

Left ==
    /\ leaving # Nobody
    /\ leaving' = Nobody
    /\ UNCHANGED <<server, uploads, top, opened, info, picking, pending, spinner,
                   counters, observed>>

(***************************************************************************)
(* Completion handlers, on the main thread.                                *)
(***************************************************************************)
\* loadUserData's completion: the texts, and the photo, which setImageFrom
\* replaces by nil until it is there; or an alert.
Loaded(i) ==
    /\ i \in loads
    /\ loads' = loads \ {i}
    /\ \/ LET photo == IF Seen.ref THEN Seen.url ELSE NoImage IN
          IF Alive(i)
            THEN /\ info' = [info EXCEPT
                       ![i].text = Seen.text,
                       ![i].image = IF photo = NoImage THEN Placeholder ELSE NoImage]
                 /\ fetches' = [fetches EXCEPT ![i] = photo]
                 /\ loaded' = loaded \cup {i}
            ELSE UNCHANGED <<info, fetches, loaded>>
       \/ "request" \in Faults /\ UNCHANGED <<info, fetches, loaded>>
    /\ UNCHANGED <<server, uploads, screens, renewals, spinner, counters, hasty, updated, refused>>

\* The photo is there, or it never comes.
Fetched(i) ==
    /\ fetches[i] # NoImage
    /\ fetches' = [fetches EXCEPT ![i] = NoImage]
    /\ \/ info' = [info EXCEPT ![i].image = fetches[i]]
       \/ "request" \in Faults /\ UNCHANGED info
    /\ UNCHANGED <<server, uploads, screens, loads, renewals, spinner, counters,
                   observed>>

\* updateUser's completion: saveUserPhoto, then saveUser with the texts of now;
\* or an alert, when the keychain refused the user.
Renewed ==
    /\ renewals # <<>>
    /\ renewals' = Tail(renewals)
    /\ LET i == Head(renewals) IN
         \/ /\ Alive(i)
            /\ uploads' = Append(uploads,
                  [kind |-> "own", owner |-> i,
                   image |-> IF info[i].picked = NoImage THEN Placeholder
                                                         ELSE info[i].picked])
            /\ info' = [info EXCEPT ![i].covered = @ + 1]
            /\ spinner' = i
            /\ writes' = Append(writes,
                  [op |-> "text", value |-> info[i].text, owner |-> i])
         \/ /\ ~Alive(i) \/ "keychain" \in Faults
            /\ UNCHANGED <<uploads, info, spinner, writes>>
    /\ UNCHANGED <<doc, screens, loads, fetches, counters, observed>>

\* uploadImage's and uploadProfileImage's completions, in any order.
Uploaded(k) ==
    /\ k \in DOMAIN uploads
    /\ uploads' = RemoveAt(uploads, k)
    /\ LET u == uploads[k] IN
         \/ writes' = Append(writes, [op |-> IF u.kind = "own" THEN "url" ELSE "ref",
                                      value |-> u.image, owner |-> u.owner])
         \/ "upload" \in Faults /\ UNCHANGED writes
    /\ UNCHANGED <<doc, screens, info, pending, spinner, counters, observed>>

\* Mutant: the overlay stays.
AcknowledgeCovered ==
    /\ writes # <<>>
    /\ doc' = Effect(doc, Head(writes))
    /\ writes' = Tail(writes)
    /\ UNCHANGED <<uploads, screens, info, pending, spinner, counters, observed>>

\* Mutant: activityView is not set to nil.
AcknowledgeHolding ==
    /\ writes # <<>>
    /\ doc' = Effect(doc, Head(writes))
    /\ writes' = Tail(writes)
    /\ IF Head(writes).op = "text" /\ Head(writes).owner # Nobody /\ spinner # Nobody
         THEN info' = [info EXCEPT ![spinner].covered = @ - 1]
         ELSE UNCHANGED info
    /\ UNCHANGED <<spinner, uploads, screens, pending, counters, observed>>

\* The server took the oldest write.  saveUser's completion removes whatever
\* overlay activityView is.
Acknowledge ==
    /\ writes # <<>>
    /\ doc' = Effect(doc, Head(writes))
    /\ writes' = Tail(writes)
    /\ IF Head(writes).op = "text" /\ Head(writes).owner # Nobody /\ spinner # Nobody
         THEN /\ info' = [info EXCEPT ![spinner].covered = @ - 1]
              /\ spinner' = Nobody
         ELSE UNCHANGED <<info, spinner>>
    /\ UNCHANGED <<uploads, screens, pending, counters, observed>>

\* The server refused it: an alert, or nothing.
Refuse ==
    /\ "write" \in Faults
    /\ writes # <<>>
    /\ writes' = Tail(writes)
    /\ refused' = IF Head(writes).op = "text"
                    THEN refused \cup ({Head(writes).owner} \cap Openings) ELSE refused
    /\ UNCHANGED <<doc, uploads, screens, info, pending, spinner, counters, loaded,
                   hasty, updated>>

Fresh == [text |-> Blank, image |-> Placeholder, picked |-> NoImage, covered |-> 0]

Restart ==
    /\ "restart" \in Faults
    /\ writes' = [k \in DOMAIN writes |-> [writes[k] EXCEPT !.owner = Nobody]]
    /\ uploads' = <<>> /\ loads' = {} /\ renewals' = <<>>
    /\ fetches' = [i \in Openings |-> NoImage]
    /\ top' = Nobody /\ leaving' = Nobody /\ picking' = FALSE
    /\ spinner' = Nobody
    /\ UNCHANGED <<doc, opened, info, counters, observed>>

\* Registration left a document, with a photo or without.
Init ==
    /\ doc \in {[text |-> 1, url |-> NoImage, ref |-> FALSE],
                [text |-> 1, url |-> Placeholder, ref |-> TRUE],
                [text |-> 1, url |-> 1, ref |-> TRUE]}
    /\ writes = <<>> /\ uploads = <<>>
    /\ top = Nobody /\ leaving = Nobody /\ opened = 0 /\ picking = FALSE
    /\ info = [i \in Openings |-> Fresh]
    /\ loads = {} /\ fetches = [i \in Openings |-> NoImage] /\ renewals = <<>>
    /\ spinner = Nobody
    /\ typed = 0 /\ picks = 0
    /\ loaded = {} /\ hasty = FALSE /\ updated = Blank
    /\ refused = {}

Next ==
    \/ Open \/ Type \/ ChooseCamera \/ ChooseLibrary \/ Picked \/ PickCancelled
    \/ UpdateAccount \/ Back \/ Left
    \/ (\E i \in Openings : Loaded(i) \/ Fetched(i))
    \/ Renewed \/ (\E k \in DOMAIN uploads : Uploaded(k))
    \/ Acknowledge \/ Refuse \/ Restart

Spec == Init /\ [][Next]_vars

(***************************************************************************)
(* Properties.                                                             *)
(***************************************************************************)
\* Every variable keeps its type.
TypeOK ==
    /\ doc \in Document /\ writes \in Seq(Write) /\ uploads \in Seq(Upload)
    /\ top \in 0..MaxOpens /\ leaving \in 0..MaxOpens /\ opened \in 0..MaxOpens
    /\ info \in [Openings -> Controller] /\ picking \in BOOLEAN
    /\ loads \subseteq Openings /\ fetches \in [Openings -> Photos]
    /\ renewals \in Seq(Openings) /\ spinner \in 0..MaxOpens
    /\ typed \in 0..MaxTyped /\ picks \in 0..MaxPicks
    /\ loaded \subseteq Openings /\ hasty \in BOOLEAN /\ updated \in Texts
    /\ refused \subseteq Openings

\* For a user who lets things arrive before submitting, the document never
\* goes back to an older text or an older photo, nor to none: not by replies
\* that are late, lost or out of order, nor by reopening the screen.
EditsMoveOn ==
    [][ ~hasty' => doc'.text >= doc.text /\ doc'.url >= doc.url ]_vars

\* For such a user, an overlay is over the screen only while a save is under
\* way, although all screens share one activityView; unless a save of this
\* screen was refused, after which saveUser leaves the overlay where it is.
CoverLifts ==
    ~hasty /\ top # Nobody /\ top \notin refused /\ info[top].covered > 0
        => \E k \in DOMAIN writes : writes[k].op = "text"

(***************************************************************************)
(* What the screen tells its user, or its reader, and does not keep.       *)
(***************************************************************************)
Quiet == renewals = <<>> /\ uploads = <<>> /\ writes = <<>>

\* "Profile info updated.": when nothing is left to do, the text is in the
\* document, or a later one.
UpdatedIsTrue == Quiet => doc.text >= updated
================================================================================
