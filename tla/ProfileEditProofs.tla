--------------------------- MODULE ProfileEditProofs ---------------------------
(***************************************************************************)
(* For any number of openings, edits, photos and faults: the screens and   *)
(* what they wait for keep their types, and for a user who lets things     *)
(* arrive the document only moves on, and the one overlay the screens      *)
(* share lies over a screen only during its save.                          *)
(***************************************************************************)
EXTENDS ProfileEdit, SequenceTheorems, WellFoundedInduction, TLAPS

(***************************************************************************)
(* Types.                                                                  *)
(***************************************************************************)
\* The picker is over a screen; every controller at work was opened; and the
\* overlay activityView remembers still lies over its screen.
Anchored ==
    /\ picking => top # Nobody
    /\ top <= opened /\ leaving <= opened /\ spinner <= opened
    /\ spinner # Nobody => info[spinner].covered > 0
    /\ \A i \in Openings : i > opened => info[i].covered = 0
    /\ \A k \in DOMAIN renewals : renewals[k] <= opened

TypeInv == TypeOK /\ Anchored

\* Some number of a finite set of numbers is the largest.
LEMMA Largest ==
    ASSUME NEW n \in Nat, NEW S \in SUBSET (1..n), S # {}
    PROVE  \E k \in S : \A j \in S : j <= k
<1> DEFINE T == {n - k : k \in S}
<1>1. \A k \in S : n - k \in Nat
    OBVIOUS
<1>2. T \subseteq Nat /\ T # {}
    BY <1>1
<1>3. PICK m \in T : \A y \in T : <<y, m>> \notin OpToRel(<, Nat)
    BY <1>2, WFMin, NatLessThanWellFounded
<1>4. \A y \in T : ~(y < m)
    BY <1>2, <1>3 DEF OpToRel
<1>5. PICK k \in S : m = n - k
    OBVIOUS
<1>6. \A j \in S : ~(n - j < n - k)
    BY <1>4, <1>5
<1> QED
    BY <1>6

LEMMA ConstantTypes ==
    /\ 0 \in Texts /\ 1 \in Texts /\ \A n \in 0..MaxTyped : n + 1 \in Texts
    /\ NoImage \in Photos /\ Placeholder \in Photos /\ 1 \in Photos
    /\ \A n \in 0..MaxPicks : n + 1 \in Photos
    /\ Nobody \in 0..MaxOpens /\ Openings \subseteq 0..MaxOpens
BY BoundsAssumption DEF Texts, Photos, NoImage, Placeholder, Blank, Nobody, Openings

\* What is shown of the document is the last write of its kind.
LEMMA LatestIsLast ==
    ASSUME writes \in Seq(Write), NEW ops, NEW now
    PROVE  \/ Latest(ops, now) = now /\ \A k \in DOMAIN writes : writes[k].op \notin ops
           \/ \E k \in DOMAIN writes :
                  /\ writes[k].op \in ops /\ Latest(ops, now) = writes[k].value
                  /\ \A j \in DOMAIN writes : writes[j].op \in ops => j <= k
<1> DEFINE at == {k \in DOMAIN writes : writes[k].op \in ops}
<1>1. at \in SUBSET (1..Len(writes)) /\ Len(writes) \in Nat
    OBVIOUS
<1>2. CASE at = {}
    BY <1>2 DEF Latest
<1>3. CASE at # {}
  <2>1. \E k \in at : \A j \in at : j <= k
      BY <1>1, <1>3, Largest
  <2>2. PICK k \in at : /\ k = CHOOSE l \in at : \A j \in at : j <= l
                        /\ \A j \in at : j <= k
      BY <2>1
  <2>3. Latest(ops, now) = writes[k].value
      BY <1>3, <2>2 DEF Latest
  <2> QED
      BY <2>2, <2>3
<1> QED
    BY <1>2, <1>3

LEMMA SeenType == TypeOK => Seen \in Document
<1> SUFFICES ASSUME TypeOK PROVE Seen \in Document
    OBVIOUS
<1>1. writes \in Seq(Write) /\ doc.text \in Texts /\ doc.url \in Photos /\ doc.ref \in BOOLEAN
    BY DEF TypeOK, Document
<1>2. \A w \in Write : /\ w.op = "text" => w.value \in Texts
                       /\ w.op \in {"url", "ref"} => w.value \in Photos
    BY DEF Write
<1>3. \A k \in DOMAIN writes : writes[k] \in Write
    BY <1>1
<1>4. Latest({"text"}, doc.text) \in Texts
    BY <1>1, <1>2, <1>3, LatestIsLast
<1>5. Latest({"url", "ref"}, doc.url) \in Photos
    BY <1>1, <1>2, <1>3, LatestIsLast
<1> QED
    BY <1>1, <1>4, <1>5 DEF Seen, Document

LEMMA InitType == Init => TypeInv
<1> SUFFICES ASSUME Init PROVE TypeInv
    OBVIOUS
<1>1. Fresh \in Controller /\ Fresh.covered = 0
    BY ConstantTypes DEF Fresh, Controller, Blank, Placeholder
<1>2. /\ [text |-> 1, url |-> NoImage, ref |-> FALSE] \in Document
      /\ [text |-> 1, url |-> Placeholder, ref |-> TRUE] \in Document
      /\ [text |-> 1, url |-> 1, ref |-> TRUE] \in Document
    BY ConstantTypes DEF Document
<1>3. TypeOK
  <2>1. doc \in Document
      BY <1>2 DEF Init
  <2>2. info \in [Openings -> Controller] /\ fetches \in [Openings -> Photos]
      BY <1>1, ConstantTypes DEF Init
  <2>3. /\ writes \in Seq(Write) /\ uploads \in Seq(Upload) /\ renewals \in Seq(Openings)
        /\ loads \subseteq Openings /\ loaded \subseteq Openings /\ refused \subseteq Openings
      BY DEF Init
  <2>4. /\ top \in 0..MaxOpens /\ leaving \in 0..MaxOpens /\ opened \in 0..MaxOpens
        /\ spinner \in 0..MaxOpens /\ typed \in 0..MaxTyped /\ picks \in 0..MaxPicks
      BY BoundsAssumption DEF Init, Nobody
  <2>5. picking \in BOOLEAN /\ hasty \in BOOLEAN /\ updated \in Texts
      BY ConstantTypes DEF Init, Blank
  <2> QED
      BY <2>1, <2>2, <2>3, <2>4, <2>5 DEF TypeOK
<1>4. Anchored
    BY <1>1 DEF Init, Anchored, Nobody
<1> QED
    BY <1>3, <1>4 DEF TypeInv

\* A new text, image or picked photo is all that changes of a controller.
Restyled(new, old) == \A i \in Openings : new[i].covered = old[i].covered

LEMMA SameAnchor ==
    ASSUME Anchored, TypeOK, info' \in [Openings -> Controller], Restyled(info', info),
           UNCHANGED <<opened, spinner>>,
           picking' => top' # Nobody, top' <= opened, leaving' <= opened,
           renewals' = renewals
    PROVE  Anchored'
<1>1. spinner # Nobody => spinner \in Openings
    BY DEF TypeOK, Nobody, Openings
<1> QED
    BY <1>1 DEF Anchored, Restyled

LEMMA TapType ==
    ASSUME TypeInv, top # Nobody
    PROVE  top \in Openings /\ info[top] \in Controller /\ top <= opened
BY DEF TypeInv, Anchored, TypeOK, Nobody, Openings

LEMMA TapSteps ==
    ASSUME TypeInv, Type \/ ChooseCamera \/ ChooseLibrary \/ Picked \/ PickCancelled \/ UpdateAccount
    PROVE  TypeInv'
<1> USE DEF TypeInv
<1>1. CASE Type
  <2>1. top \in Openings /\ info[top] \in Controller /\ top <= opened
      BY <1>1, TapType DEF Type, Tap
  <2>2. typed' \in 0..MaxTyped /\ typed' + 1 \in Texts
    <3>1. typed < MaxTyped /\ typed' = typed + 1
        BY <1>1 DEF Type
    <3>2. typed \in 0..MaxTyped /\ MaxTyped \in Nat
        BY BoundsAssumption DEF TypeOK
    <3>3. typed' \in 0..MaxTyped
        BY <3>1, <3>2
    <3> QED
        BY <3>3, ConstantTypes
  <2>3. info' = [info EXCEPT ![top].text = typed' + 1]
      BY <1>1 DEF Type
  <2>4. info' \in [Openings -> Controller] /\ Restyled(info', info)
      BY <2>1, <2>2, <2>3 DEF TypeOK, Controller, Restyled
  <2>5. TypeOK'
      BY <1>1, <2>2, <2>4 DEF Type, TypeOK, server, screens, pending, observed
  <2>6. Anchored'
      BY <1>1, <2>4, SameAnchor DEF Type, Anchored, screens, pending
  <2> QED
      BY <2>5, <2>6
<1>2. CASE ChooseCamera
  <2>1. top \in Openings /\ top <= opened
      BY <1>2, TapType DEF ChooseCamera, Tap
  <2>2. TypeOK'
      BY <1>2 DEF ChooseCamera, TypeOK, server, pending, counters, observed
  <2>3. Anchored'
      BY <1>2, <2>1 DEF ChooseCamera, Tap, Anchored, pending
  <2> QED
      BY <2>2, <2>3
<1>3. CASE ChooseLibrary
  <2>1. top \in Openings /\ info[top] \in Controller /\ top <= opened
      BY <1>3, TapType DEF ChooseLibrary, Tap
  <2>2. info[top].image \in Photos
      BY <2>1 DEF Controller
  <2>3. [kind |-> "ref", image |-> info[top].image, owner |-> Nobody] \in Upload
      BY <2>2, ConstantTypes DEF Upload
  <2>4. uploads' \in Seq(Upload)
      BY <1>3, <2>3 DEF ChooseLibrary, TypeOK
  <2>5. hasty' \in BOOLEAN
      BY <1>3, Zenon DEF ChooseLibrary
  <2>6. TypeOK'
      BY <1>3, <2>4, <2>5 DEF ChooseLibrary, TypeOK, server, pending, counters
  <2>7. Anchored'
      BY <1>3, <2>1 DEF ChooseLibrary, Tap, Anchored, pending
  <2> QED
      BY <2>6, <2>7
<1>4. CASE Picked
  <2>1. top \in Openings /\ info[top] \in Controller /\ top <= opened
      BY <1>4, TapType DEF Picked, Anchored
  <2>2. picks' \in 0..MaxPicks /\ picks' + 1 \in Photos
    <3>1. picks < MaxPicks /\ picks' = picks + 1
        BY <1>4 DEF Picked
    <3>2. picks \in 0..MaxPicks /\ MaxPicks \in Nat
        BY BoundsAssumption DEF TypeOK
    <3>3. picks' \in 0..MaxPicks
        BY <3>1, <3>2
    <3> QED
        BY <3>3, ConstantTypes
  <2>3. info' = [info EXCEPT ![top].image = picks' + 1, ![top].picked = picks' + 1]
      BY <1>4 DEF Picked
  <2>4. info' \in [Openings -> Controller] /\ Restyled(info', info)
      BY <2>1, <2>2, <2>3 DEF TypeOK, Controller, Restyled
  <2>5. renewals' = Append(renewals, top) /\ renewals' \in Seq(Openings)
      BY <1>4, <2>1 DEF Picked, TypeOK
  <2>6. \A k \in DOMAIN renewals' : renewals'[k] <= opened
      BY <2>1, <2>5 DEF Anchored, TypeOK
  <2>7. hasty' \in BOOLEAN
      BY <1>4, Zenon DEF Picked
  <2>8. TypeOK'
      BY <1>4, <2>2, <2>4, <2>5, <2>7, ConstantTypes DEF Picked, TypeOK, server
  <2>9. spinner' = Nobody /\ picking' = FALSE /\ UNCHANGED <<top, leaving, opened>>
      BY <1>4 DEF Picked
  <2>10. spinner' <= opened
      BY <2>9 DEF TypeOK, Nobody
  <2>11. Anchored'
      BY <2>1, <2>4, <2>6, <2>9, <2>10 DEF Anchored, Restyled
  <2> QED
      BY <2>8, <2>11
<1>5. CASE PickCancelled
    BY <1>5 DEF PickCancelled, TypeOK, Anchored, server, pending, counters, observed
<1>6. CASE UpdateAccount
  <2>1. top \in Openings /\ info[top] \in Controller /\ top <= opened
      BY <1>6, TapType DEF UpdateAccount, Tap
  <2>2. PICK p \in Photos : info' = [info EXCEPT ![top].picked = p]
    <3>1. CASE info[top].image # NoImage
        BY <1>6, <2>1, <3>1 DEF UpdateAccount, Controller
    <3>2. CASE info[top].image = NoImage
        BY <1>6, <2>1, <3>2 DEF UpdateAccount, Controller
    <3> QED
        BY <3>1, <3>2
  <2>3. info' \in [Openings -> Controller] /\ Restyled(info', info)
      BY <2>1, <2>2 DEF TypeOK, Controller, Restyled
  <2>4. renewals' = Append(renewals, top) /\ renewals' \in Seq(Openings)
      BY <1>6, <2>1 DEF UpdateAccount, TypeOK
  <2>5. \A k \in DOMAIN renewals' : renewals'[k] <= opened
      BY <2>1, <2>4 DEF Anchored, TypeOK
  <2>6. hasty' \in BOOLEAN
      BY <1>6, Zenon DEF UpdateAccount
  <2>7. updated' \in Texts /\ top' = Nobody /\ leaving' = top
      BY <1>6, <2>1 DEF UpdateAccount, Controller
  <2>8. TypeOK'
      BY <1>6, <2>3, <2>4, <2>6, <2>7, ConstantTypes DEF UpdateAccount, TypeOK, server, counters
  <2>9. spinner # Nobody => spinner \in Openings
      BY DEF TypeOK, Nobody, Openings
  <2>10. Anchored'
      BY <1>6, <2>1, <2>3, <2>5, <2>7, <2>9 DEF UpdateAccount, Tap, Anchored, Restyled, TypeOK, Nobody
  <2> QED
      BY <2>8, <2>10
<1> QED
    BY <1>1, <1>2, <1>3, <1>4, <1>5, <1>6

LEMMA OtherSteps ==
    ASSUME TypeInv, Open \/ Back \/ Left
    PROVE  TypeInv'
<1> USE DEF TypeInv
<1>1. CASE Open
  <2>1. opened' = opened + 1 /\ top' = opened' /\ opened' \in Openings /\ opened \in 0..MaxOpens
      BY <1>1, BoundsAssumption DEF Open, TypeOK, Openings
  <2>2. loads' \subseteq Openings
      BY <1>1, <2>1 DEF Open, TypeOK
  <2>3. TypeOK'
      BY <1>1, <2>1, <2>2, ConstantTypes DEF Open, TypeOK, server, counters, observed
  <2>4. \A n \in Nat : n <= opened => n <= opened'
      BY <2>1
  <2>5. leaving <= opened' /\ spinner <= opened'
      BY <2>1, <2>4 DEF Anchored, TypeOK
  <2>6. \A i \in Openings : i > opened' => i > opened
      BY <2>1 DEF Openings
  <2>7. \A k \in DOMAIN renewals : renewals[k] <= opened'
    <3>1. \A k \in DOMAIN renewals : renewals[k] \in Openings
        BY DEF TypeOK
    <3> QED
        BY <2>4, <3>1 DEF Anchored, Openings
  <2>8. /\ UNCHANGED <<leaving, info, renewals, spinner>>
        /\ top' <= opened' /\ top' # Nobody
      BY <1>1, <2>1 DEF Open, Openings, pending, Nobody
  <2> QED
      BY <2>3, <2>5, <2>6, <2>7, <2>8 DEF Anchored
<1>2. CASE Back
  <2>1. /\ top' = 0 /\ leaving' = top /\ ~picking
        /\ UNCHANGED <<opened, info, picking, renewals, spinner>>
      BY <1>2 DEF Back, pending, Nobody
  <2>2. TypeOK'
      BY <1>2, ConstantTypes DEF Back, TypeOK, server, pending, counters, observed
  <2>3. top' <= opened
      BY <2>1 DEF TypeOK
  <2> QED
      BY <2>1, <2>2, <2>3 DEF Anchored
<1>3. CASE Left
    BY <1>3, ConstantTypes DEF Left, TypeOK, Anchored, server, pending, counters, observed, Nobody
<1> QED
    BY <1>1, <1>2, <1>3

LEMMA LookupSteps ==
    ASSUME TypeInv, NEW i \in Openings, Loaded(i) \/ Fetched(i)
    PROVE  TypeInv'
<1> USE DEF TypeInv
<1>1. CASE Loaded(i)
  <2>1. i \in loads /\ loads' \subseteq Openings
      BY <1>1 DEF Loaded, TypeOK
  <2>2. /\ info' \in [Openings -> Controller] /\ Restyled(info', info)
        /\ fetches' \in [Openings -> Photos] /\ loaded' \subseteq Openings
    <3>1. CASE UNCHANGED <<info, fetches, loaded>>
        BY <3>1 DEF TypeOK, Restyled
    <3>2. CASE ~UNCHANGED <<info, fetches, loaded>>
      <4>1. PICK photo \in Photos, text \in Texts, image \in Photos :
               /\ info' = [info EXCEPT ![i].text = text, ![i].image = image]
               /\ fetches' = [fetches EXCEPT ![i] = photo]
               /\ loaded' = loaded \cup {i}
        <5>1. Seen.text \in Texts /\ Seen.url \in Photos
            BY SeenType DEF Document
        <5>2. (IF Seen.ref THEN Seen.url ELSE NoImage) \in Photos
            BY <5>1, ConstantTypes
        <5> QED
            BY <1>1, <3>2, <5>1, <5>2, ConstantTypes, Zenon DEF Loaded
      <4> QED
          BY <4>1 DEF TypeOK, Controller, Restyled
    <3> QED
        BY <3>1, <3>2
  <2>3. TypeOK'
      BY <1>1, <2>1, <2>2 DEF Loaded, TypeOK, server, screens, counters
  <2>4. Anchored'
      BY <1>1, <2>2, SameAnchor DEF Loaded, Anchored, screens
  <2> QED
      BY <2>3, <2>4
<1>2. CASE Fetched(i)
  <2>1. fetches' \in [Openings -> Photos]
      BY <1>2, ConstantTypes DEF Fetched, TypeOK
  <2>2. info' \in [Openings -> Controller] /\ Restyled(info', info)
    <3>1. CASE UNCHANGED info
        BY <3>1 DEF TypeOK, Restyled
    <3>2. CASE info' = [info EXCEPT ![i].image = fetches[i]]
        BY <3>2 DEF TypeOK, Controller, Restyled
    <3> QED
        BY <1>2, <3>1, <3>2 DEF Fetched
  <2>3. TypeOK'
      BY <1>2, <2>1, <2>2 DEF Fetched, TypeOK, server, screens, counters, observed
  <2>4. Anchored'
      BY <1>2, <2>2, SameAnchor DEF Fetched, Anchored, screens
  <2> QED
      BY <2>3, <2>4
<1> QED
    BY <1>1, <1>2

\* The renewal of the controller i is over: it saves, or is gone or refused.
LEMMA RenewedWay ==
    ASSUME TypeInv, Renewed, NEW i, i = Head(renewals)
    PROVE  /\ i \in Openings /\ i <= opened
           /\ renewals # <<>> /\ renewals' = Tail(renewals)
           /\ UNCHANGED <<doc, screens, loads, fetches, counters, observed>>
           /\ \/ /\ Alive(i)
                 /\ \E image \in Photos :
                        /\ image = (IF info[i].picked = NoImage THEN Placeholder
                                                                ELSE info[i].picked)
                        /\ uploads' = Append(uploads,
                               [kind |-> "own", owner |-> i, image |-> image])
                 /\ info' = [info EXCEPT ![i].covered = @ + 1]
                 /\ spinner' = i
                 /\ writes' = Append(writes,
                       [op |-> "text", value |-> info[i].text, owner |-> i])
              \/ UNCHANGED <<uploads, info, spinner, writes>>
<1>1. renewals # <<>> /\ renewals' = Tail(renewals)
    BY DEF Renewed
<1>2. i \in Openings /\ i <= opened
    BY <1>1 DEF TypeInv, TypeOK, Anchored
<1>3. info[i].picked \in Photos
    BY <1>2 DEF TypeInv, TypeOK, Controller
<1>4. (IF info[i].picked = NoImage THEN Placeholder ELSE info[i].picked) \in Photos
    BY <1>3, ConstantTypes
<1> QED
    BY <1>1, <1>2, <1>4, Zenon DEF Renewed

LEMMA RenewedStep == ASSUME TypeInv, Renewed PROVE TypeInv'
<1> USE DEF TypeInv
<1> DEFINE i == Head(renewals)
<1>1. /\ i \in Openings /\ i <= opened
      /\ renewals # <<>> /\ renewals' = Tail(renewals)
      /\ UNCHANGED <<doc, screens, loads, fetches, counters, observed>>
    BY RenewedWay
<1>2. renewals' \in Seq(Openings)
    BY <1>1 DEF TypeOK
<1>3. \A k \in DOMAIN renewals' : renewals'[k] <= opened
  <2>1. \A k \in DOMAIN renewals' : k + 1 \in DOMAIN renewals /\ renewals'[k] = renewals[k + 1]
      BY <1>1 DEF TypeOK
  <2> QED
      BY <2>1 DEF Anchored
<1>4. CASE UNCHANGED <<uploads, info, spinner, writes>>
    BY <1>1, <1>2, <1>3, <1>4 DEF TypeOK, Anchored, screens, counters, observed
<1>5. CASE ~UNCHANGED <<uploads, info, spinner, writes>>
  <2>1. PICK image \in Photos :
           uploads' = Append(uploads, [kind |-> "own", owner |-> i, image |-> image])
      BY <1>5, RenewedWay
  <2>2. /\ info' = [info EXCEPT ![i].covered = @ + 1] /\ spinner' = i
        /\ writes' = Append(writes, [op |-> "text", value |-> info[i].text, owner |-> i])
      BY <1>5, RenewedWay
  <2>3. [kind |-> "own", owner |-> i, image |-> image] \in Upload
      BY <1>1, ConstantTypes DEF Upload
  <2>4. [op |-> "text", value |-> info[i].text, owner |-> i] \in Write
      BY <1>1, ConstantTypes DEF Write, TypeOK, Controller
  <2>5. uploads' \in Seq(Upload) /\ writes' \in Seq(Write)
      BY <2>1, <2>2, <2>3, <2>4 DEF TypeOK
  <2>6. /\ info' \in [Openings -> Controller] /\ info'[i].covered = info[i].covered + 1
        /\ \A j \in Openings : j # i => info'[j].covered = info[j].covered
        /\ info[i].covered \in Nat
    <3>1. info[i] \in Controller /\ info \in [Openings -> Controller]
        BY <1>1 DEF TypeOK
    <3>2. info[i].covered \in Nat
        BY <3>1 DEF Controller
    <3>3. [info[i] EXCEPT !.covered = @ + 1] \in Controller
        BY <3>1, <3>2 DEF Controller
    <3> QED
        BY <1>1, <2>2, <3>1, <3>2, <3>3
  <2>7. spinner' \in 0..MaxOpens
      BY <1>1, <2>2, ConstantTypes
  <2>8. TypeOK'
      BY <1>1, <1>2, <2>5, <2>6, <2>7 DEF TypeOK, screens, counters, observed
  <2>9. opened \in Nat /\ i \in Nat
      BY <1>1 DEF TypeOK, Openings
  <2>10. Anchored'
      BY <1>1, <1>3, <2>2, <2>6, <2>9 DEF Anchored, screens
  <2> QED
      BY <2>8, <2>10
<1> QED
    BY <1>4, <1>5

\* RemoveAt keeps the others.
LEMMA RemoveAtType ==
    ASSUME NEW S, NEW s \in Seq(S), NEW k \in DOMAIN s
    PROVE  RemoveAt(s, k) \in Seq(S) /\ Len(RemoveAt(s, k)) = Len(s) - 1
<1> DEFINE a == SubSeq(s, 1, k - 1)
           b == SubSeq(s, k + 1, Len(s))
<1>1. a \in Seq(S) /\ Len(a) = k - 1
    OBVIOUS
<1>2. b \in Seq(S) /\ Len(b) = Len(s) - k
    OBVIOUS
<1>3. RemoveAt(s, k) = a \o b
    BY DEF RemoveAt
<1>4. k \in Nat /\ Len(s) \in Nat /\ (k - 1) + (Len(s) - k) = Len(s) - 1
    OBVIOUS
<1> HIDE DEF a, b
<1>5. a \o b \in Seq(S) /\ Len(a \o b) = Len(a) + Len(b)
    BY <1>1, <1>2, ConcatProperties
<1> QED
    BY <1>1, <1>2, <1>3, <1>4, <1>5

LEMMA UploadedStep == ASSUME TypeInv, NEW k, Uploaded(k) PROVE TypeInv'
<1> USE DEF TypeInv
<1>1. /\ k \in DOMAIN uploads /\ uploads' = RemoveAt(uploads, k)
      /\ UNCHANGED <<doc, screens, info, pending, spinner, counters, observed>>
    BY DEF Uploaded
<1>2. uploads \in Seq(Upload) /\ uploads[k] \in Upload
    BY <1>1 DEF TypeOK
<1>3. uploads' \in Seq(Upload)
    BY <1>1, <1>2, RemoveAtType
<1>4. \A op \in {"url", "ref"} :
          [op |-> op, value |-> uploads[k].image, owner |-> uploads[k].owner] \in Write
    BY <1>2 DEF Upload, Write
<1>5. writes' \in Seq(Write)
  <2>1. CASE UNCHANGED writes
      BY <2>1 DEF TypeOK
  <2>2. CASE ~UNCHANGED writes
    <3>1. PICK op \in {"url", "ref"} :
             writes' = Append(writes, [op |-> op, value |-> uploads[k].image,
                                       owner |-> uploads[k].owner])
        BY <2>2, Zenon DEF Uploaded
    <3> QED
        BY <1>4, <3>1 DEF TypeOK
  <2> QED
      BY <2>1, <2>2
<1>6. TypeOK'
    BY <1>1, <1>3, <1>5 DEF TypeOK, screens, pending, counters, observed
<1>7. Anchored'
    BY <1>1 DEF Anchored, screens, pending
<1> QED
    BY <1>6, <1>7

LEMMA EffectType ==
    ASSUME NEW d \in Document, NEW w \in Write
    PROVE  /\ Effect(d, w) \in Document
           /\ Effect(d, w).text = IF w.op = "text" THEN w.value ELSE d.text
           /\ Effect(d, w).url = IF w.op = "text" THEN d.url ELSE w.value
<1>1. CASE w.op = "text"
  <2>1. w.value \in Texts
      BY <1>1 DEF Write
  <2> QED
      BY <1>1, <2>1 DEF Effect, Document
<1>2. CASE w.op # "text"
  <2>1. w.value \in Photos
      BY <1>2 DEF Write
  <2>2. (d.ref \/ w.op = "ref") \in BOOLEAN
      OBVIOUS
  <2>3. Effect(d, w) = [d EXCEPT !.url = w.value, !.ref = (d.ref \/ w.op = "ref")]
      BY <1>2, Zenon DEF Effect
  <2> QED
      BY <1>2, <2>1, <2>2, <2>3 DEF Document
<1> QED
    BY <1>1, <1>2

\* The overlay lifts, or none of those the completion knows of does.
LEMMA AcknowledgeWay ==
    ASSUME TypeInv, Acknowledge, NEW w, w = Head(writes)
    PROVE  /\ writes # <<>> /\ w \in Write /\ writes' = Tail(writes)
           /\ doc' = Effect(doc, w)
           /\ UNCHANGED <<uploads, screens, pending, counters, observed>>
           /\ IF w.op = "text" /\ w.owner # Nobody /\ spinner # Nobody
                THEN /\ info' = [info EXCEPT ![spinner].covered = @ - 1]
                     /\ spinner' = Nobody
                ELSE UNCHANGED <<info, spinner>>
BY DEF Acknowledge, TypeInv, TypeOK

LEMMA AcknowledgeStep == ASSUME TypeInv, Acknowledge PROVE TypeInv'
<1> USE DEF TypeInv
<1> DEFINE w == Head(writes)
<1>1. /\ writes # <<>> /\ w \in Write /\ writes' = Tail(writes)
      /\ doc' = Effect(doc, w)
      /\ UNCHANGED <<uploads, screens, pending, counters, observed>>
    BY AcknowledgeWay
<1>2. doc' \in Document /\ writes' \in Seq(Write)
    BY <1>1, EffectType DEF TypeOK
<1>3. CASE UNCHANGED <<info, spinner>>
    BY <1>1, <1>2, <1>3 DEF TypeOK, Anchored, screens, pending, counters, observed
<1>4. CASE ~UNCHANGED <<info, spinner>>
  <2>1. spinner # Nobody /\ spinner' = Nobody /\ info' = [info EXCEPT ![spinner].covered = @ - 1]
      BY <1>4, AcknowledgeWay
  <2>2. spinner \in Openings
      BY <2>1 DEF TypeOK, Nobody, Openings
  <2>3. info[spinner] \in Controller /\ info[spinner].covered > 0 /\ info \in [Openings -> Controller]
      BY <2>1, <2>2 DEF TypeOK, Anchored
  <2>4. info[spinner].covered - 1 \in Nat
      BY <2>3 DEF Controller
  <2>5. [info[spinner] EXCEPT !.covered = @ - 1] \in Controller
      BY <2>3, <2>4 DEF Controller
  <2>6. info' \in [Openings -> Controller]
      BY <2>1, <2>2, <2>3, <2>5
  <2>7. \A j \in Openings : j # spinner => info'[j].covered = info[j].covered
      BY <2>1, <2>2, <2>3
  <2>8. TypeOK'
      BY <1>1, <1>2, <2>1, <2>6, ConstantTypes DEF TypeOK, screens, pending, counters, observed
  <2>9. spinner' <= opened /\ spinner <= opened
      BY <2>1 DEF TypeOK, Nobody, Anchored
  <2>10. Anchored'
      BY <1>1, <2>1, <2>2, <2>7, <2>9 DEF Anchored, TypeOK, Openings, screens, pending
  <2> QED
      BY <2>8, <2>10
<1> QED
    BY <1>3, <1>4

LEMMA RefuseStep == ASSUME TypeInv, Refuse PROVE TypeInv'
<1> USE DEF TypeInv
<1>1. writes' \in Seq(Write)
    BY DEF Refuse, TypeOK
<1>2. refused' \subseteq Openings
    BY DEF Refuse, TypeOK
<1>3. TypeOK'
    BY <1>1, <1>2 DEF Refuse, TypeOK, screens, pending, counters
<1>4. Anchored'
    BY DEF Refuse, Anchored, screens, pending
<1> QED
    BY <1>3, <1>4

LEMMA RestartStep == ASSUME TypeInv, Restart PROVE TypeInv'
<1> USE DEF TypeInv
<1>1. writes' = [k \in DOMAIN writes |-> [writes[k] EXCEPT !.owner = Nobody]]
    BY DEF Restart
<1>2. \A v \in Write : [v EXCEPT !.owner = Nobody] \in Write
    BY ConstantTypes DEF Write
<1>3. writes' \in Seq(Write)
    BY <1>1, <1>2 DEF TypeOK
<1>4. /\ uploads' = <<>> /\ loads' = {} /\ renewals' = <<>>
      /\ fetches' = [i \in Openings |-> NoImage]
      /\ top' = Nobody /\ leaving' = Nobody /\ picking' = FALSE /\ spinner' = Nobody
      /\ UNCHANGED <<doc, opened, info, counters, observed>>
    BY DEF Restart
<1>5. fetches' \in [Openings -> Photos] /\ renewals' \in Seq(Openings) /\ uploads' \in Seq(Upload)
    BY <1>4, ConstantTypes
<1>6. TypeOK'
    BY <1>3, <1>4, <1>5, ConstantTypes DEF TypeOK, counters, observed
<1>7. Anchored'
    BY <1>4 DEF Anchored, TypeOK, Nobody
<1> QED
    BY <1>6, <1>7

LEMMA NextType == TypeInv /\ [Next]_vars => TypeInv'
<1> SUFFICES ASSUME TypeInv, [Next]_vars PROVE TypeInv'
    OBVIOUS
<1>1. CASE UNCHANGED vars
    BY <1>1 DEF TypeInv, TypeOK, Anchored, vars, server, screens, pending, counters, observed
<1>2. CASE Next
    BY <1>2, TapSteps, OtherSteps, LookupSteps, RenewedStep, UploadedStep,
       AcknowledgeStep, RefuseStep, RestartStep DEF Next
<1> QED
    BY <1>1, <1>2

LEMMA TypeInvariant == Spec => []TypeInv
BY InitType, NextType, PTL DEF Spec

\* The document, the screens and all they wait for keep their types; that the
\* overlays are never less than none rests on activityView being over its screen.
THEOREM TypeCorrect == Spec => []TypeOK
<1>1. TypeInv => TypeOK
    BY DEF TypeInv
<1> QED
    BY <1>1, TypeInvariant, PTL

-----------------------------------------------------------------------------
(***************************************************************************)
(* The user who lets things arrive: nothing is older than what it follows. *)
(***************************************************************************)
TextOps == {"text"}
PhotoOps == {"url", "ref"}

\* Nothing on a screen or on its way is newer than what the user made last,
MadeScreen(i) ==
    /\ info[i].text <= typed + 1 /\ info[i].image <= picks + 1
    /\ info[i].picked <= picks + 1 /\ fetches[i] <= picks + 1

MadeWrites ==
    /\ doc.text <= typed + 1 /\ doc.url <= picks + 1
    /\ \A k \in DOMAIN writes :
           /\ writes[k].op = "text" => writes[k].value <= typed + 1
           /\ writes[k].op # "text" => writes[k].value <= picks + 1
    /\ \A k \in DOMAIN uploads : uploads[k].image <= picks + 1

\* and a screen that was given the document does not ask for it again.
AskedOnce == loads \cap loaded = {} /\ \A i \in loads \cup loaded : i <= opened

Made == (\A i \in Openings : MadeScreen(i)) /\ MadeWrites /\ AskedOnce

\* Of the writes s, those of the kinds ops lead on from what the document has
\* now, and end at v or before.
Rising(s, ops, now) ==
    /\ \A k \in DOMAIN s : s[k].op \in ops => now <= s[k].value
    /\ \A j, k \in DOMAIN s :
           s[j].op \in ops /\ s[k].op \in ops /\ j <= k => s[j].value <= s[k].value

Below(s, ops, now, v) ==
    now <= v /\ \A k \in DOMAIN s : s[k].op \in ops => s[k].value <= v

\* The photo a save of the controller i uploads.
Sends(i) == IF info[i].picked = NoImage THEN Placeholder ELSE info[i].picked

\* What is submitted, or uploaded, is newer than all that is on its way.
OneAtATime == Len(renewals) + Len(uploads) <= 1

Moving ==
    /\ Rising(writes, TextOps, doc.text)
    /\ Rising(writes, PhotoOps, doc.url)
    /\ \A k \in DOMAIN renewals :
           /\ renewals[k] \notin loads
           /\ Below(writes, TextOps, doc.text, info[renewals[k]].text)
           /\ Below(writes, PhotoOps, doc.url, Sends(renewals[k]))
    /\ \A k \in DOMAIN uploads : Below(writes, PhotoOps, doc.url, uploads[k].image)

\* A screen is covered once, by the overlay activityView remembers, while the
\* text it saved is on its way; and not while a save is still to begin.
OwnText(i) == \E k \in DOMAIN writes : writes[k].op = "text" /\ writes[k].owner = i

Lifting ==
    /\ \A k \in DOMAIN renewals :
           /\ info[renewals[k]].covered = 0
           /\ top # Nobody => info[top].covered = 0
    /\ top # Nobody /\ info[top].covered > 0 =>
           info[top].covered = 1 /\ (top \in refused \/ (spinner = top /\ OwnText(top)))

Patient == OneAtATime /\ Moving /\ Lifting

PatientInv == Made /\ (~hasty => Patient)

LEMMA Numbers ==
    /\ Texts \subseteq Int /\ Photos \subseteq Int
    /\ \A w \in Write : w.value \in Int /\ w.op \in TextOps \cup PhotoOps
    /\ \A p \in Photos : NoImage <= p
BY BoundsAssumption DEF Texts, Photos, Write, Blank, NoImage, TextOps, PhotoOps

LEMMA TailOf ==
    ASSUME NEW S, NEW s \in Seq(S), s # <<>>
    PROVE  /\ Head(s) = s[1] /\ 1 \in DOMAIN s /\ Head(s) \in S
           /\ \A k \in DOMAIN Tail(s) : k + 1 \in DOMAIN s /\ Tail(s)[k] = s[k + 1]
           /\ Tail(s) \in Seq(S) /\ Len(Tail(s)) = Len(s) - 1
           /\ \A k \in DOMAIN s : k # 1 => k - 1 \in DOMAIN Tail(s) /\ Tail(s)[k - 1] = s[k]
OBVIOUS

LEMMA AppendOf ==
    ASSUME NEW S, NEW s \in Seq(S), NEW w \in S
    PROVE  /\ Append(s, w) \in Seq(S) /\ Len(Append(s, w)) = Len(s) + 1
           /\ DOMAIN s \subseteq DOMAIN Append(s, w)
           /\ \A k \in DOMAIN s : Append(s, w)[k] = s[k] /\ k < Len(s) + 1
           /\ Append(s, w)[Len(s) + 1] = w
           /\ DOMAIN Append(s, w) = DOMAIN s \cup {Len(s) + 1}
OBVIOUS

LEMMA RemoveAtOf ==
    ASSUME NEW S, NEW s \in Seq(S), NEW k \in DOMAIN s
    PROVE  \A j \in DOMAIN RemoveAt(s, k) : \E i \in DOMAIN s : RemoveAt(s, k)[j] = s[i]
<1> DEFINE a == SubSeq(s, 1, k - 1)
           b == SubSeq(s, k + 1, Len(s))
<1>1. a \in Seq(S) /\ Len(a) = k - 1 /\ \A j \in 1..(k - 1) : a[j] = s[j] /\ j \in DOMAIN s
    OBVIOUS
<1>2. /\ b \in Seq(S) /\ Len(b) = Len(s) - k
      /\ \A j \in 1..(Len(s) - k) : b[j] = s[j + k] /\ j + k \in DOMAIN s
    OBVIOUS
<1>3. RemoveAt(s, k) = a \o b
    BY DEF RemoveAt
<1>4. k \in Nat /\ Len(s) \in Nat
    OBVIOUS
<1> HIDE DEF a, b
<1>5. /\ Len(a \o b) = Len(a) + Len(b) /\ a \o b \in Seq(S)
      /\ \A j \in 1..(Len(a) + Len(b)) :
             (a \o b)[j] = IF j <= Len(a) THEN a[j] ELSE b[j - Len(a)]
    BY <1>1, <1>2, ConcatProperties
<1> SUFFICES ASSUME NEW j \in DOMAIN (a \o b)
             PROVE  \E i \in DOMAIN s : (a \o b)[j] = s[i]
    BY <1>3
<1>6. j \in 1..(Len(a) + Len(b))
    BY <1>5
<1>7. CASE j <= Len(a)
  <2>1. j \in 1..(k - 1)
      BY <1>1, <1>4, <1>6, <1>7
  <2> QED
      BY <1>1, <1>5, <1>6, <1>7, <2>1
<1>8. CASE ~(j <= Len(a))
  <2>1. j - Len(a) \in 1..(Len(s) - k)
    <3>1. Len(a) \in Nat /\ Len(b) \in Nat /\ Len(b) = Len(s) - k
        BY <1>1, <1>2
    <3>2. j - Len(a) \in 1..Len(b)
        BY <1>6, <1>8, <3>1
    <3> QED
        BY <3>1, <3>2
  <2> QED
      BY <1>2, <1>5, <1>6, <1>8, <2>1
<1> QED
    BY <1>7, <1>8

LEMMA RisingAppend ==
    ASSUME NEW s \in Seq(Write), NEW w \in Write, NEW ops, NEW now \in Int,
           Rising(s, ops, now), w.op \in ops => Below(s, ops, now, w.value)
    PROVE  Rising(Append(s, w), ops, now)
<1>1. \A k \in DOMAIN Append(s, w) :
          \/ k \in DOMAIN s /\ Append(s, w)[k] = s[k] /\ k < Len(s) + 1
          \/ k = Len(s) + 1 /\ Append(s, w)[k] = w
    BY AppendOf
<1>2. Len(s) \in Nat /\ w.value \in Int
    BY Numbers
<1> SUFFICES ASSUME NEW k \in DOMAIN Append(s, w), Append(s, w)[k].op \in ops
             PROVE  /\ now <= Append(s, w)[k].value
                    /\ \A j \in DOMAIN Append(s, w) :
                           Append(s, w)[j].op \in ops /\ j <= k
                               => Append(s, w)[j].value <= Append(s, w)[k].value
    BY DEF Rising
<1>3. CASE k \in DOMAIN s /\ Append(s, w)[k] = s[k] /\ k < Len(s) + 1
  <2>1. \A j \in DOMAIN Append(s, w) : j <= k => j \in DOMAIN s /\ Append(s, w)[j] = s[j]
      BY <1>1, <1>2, <1>3
  <2> QED
      BY <1>3, <2>1 DEF Rising
<1>4. CASE k = Len(s) + 1 /\ Append(s, w)[k] = w
  <2>1. Below(s, ops, now, w.value)
      BY <1>4
  <2>2. now <= w.value /\ w.value <= w.value
      BY <1>2, <2>1 DEF Below
  <2> QED
      BY <1>1, <1>4, <2>1, <2>2 DEF Below
<1> QED
    BY <1>1, <1>3, <1>4

LEMMA BelowAppend ==
    ASSUME NEW s \in Seq(Write), NEW w \in Write, NEW ops, NEW now, NEW v,
           Below(s, ops, now, v), w.op \in ops => w.value <= v
    PROVE  Below(Append(s, w), ops, now, v)
BY AppendOf DEF Below

\* The document after the write w.
Then(w, ops, now) == IF w.op \in ops THEN w.value ELSE now

LEMMA RisingTail ==
    ASSUME NEW s \in Seq(Write), s # <<>>, NEW ops, NEW now \in Int, Rising(s, ops, now)
    PROVE  /\ Rising(Tail(s), ops, now) /\ Rising(Tail(s), ops, Then(Head(s), ops, now))
           /\ now <= Then(Head(s), ops, now)
<1>1. /\ \A k \in DOMAIN Tail(s) : k + 1 \in DOMAIN s /\ Tail(s)[k] = s[k + 1] /\ 1 <= k + 1
      /\ 1 \in DOMAIN s /\ Head(s) = s[1]
      /\ \A j, k \in DOMAIN Tail(s) : j <= k => j + 1 <= k + 1
    BY TailOf
<1>2. Rising(Tail(s), ops, now)
    BY <1>1 DEF Rising
<1>3. CASE Head(s).op \in ops
  <2>1. Then(Head(s), ops, now) = s[1].value /\ s[1].op \in ops
      BY <1>1, <1>3 DEF Then
  <2>2. \A k \in DOMAIN Tail(s) : Tail(s)[k].op \in ops => s[1].value <= Tail(s)[k].value
      BY <1>1, <2>1 DEF Rising
  <2>3. Rising(Tail(s), ops, s[1].value)
      BY <1>2, <2>2 DEF Rising
  <2>4. now <= s[1].value
      BY <1>1, <2>1 DEF Rising
  <2> QED
      BY <1>2, <2>1, <2>3, <2>4
<1>4. CASE Head(s).op \notin ops
    BY <1>2, <1>4 DEF Then
<1> QED
    BY <1>3, <1>4

LEMMA BelowTail ==
    ASSUME NEW s \in Seq(Write), s # <<>>, NEW ops, NEW now, NEW v, Below(s, ops, now, v)
    PROVE  Below(Tail(s), ops, now, v) /\ Below(Tail(s), ops, Then(Head(s), ops, now), v)
<1>1. /\ \A k \in DOMAIN Tail(s) : k + 1 \in DOMAIN s /\ Tail(s)[k] = s[k + 1]
      /\ 1 \in DOMAIN s /\ Head(s) = s[1]
    BY TailOf
<1> QED
    BY <1>1 DEF Below, Then

LEMMA ShownIsLast ==
    ASSUME writes \in Seq(Write), NEW ops, NEW now \in Int, Rising(writes, ops, now),
           NEW v \in Int, Latest(ops, now) <= v
    PROVE  Below(writes, ops, now, v)
<1>0. \A k \in DOMAIN writes : writes[k].value \in Int
  <2>1. \A k \in DOMAIN writes : writes[k] \in Write
      OBVIOUS
  <2> QED
      BY <2>1, Numbers
<1>1. CASE Latest(ops, now) = now /\ \A k \in DOMAIN writes : writes[k].op \notin ops
    BY <1>1 DEF Below
<1>2. ASSUME NEW k \in DOMAIN writes, writes[k].op \in ops, Latest(ops, now) = writes[k].value,
             \A j \in DOMAIN writes : writes[j].op \in ops => j <= k
      PROVE  Below(writes, ops, now, v)
  <2>1. now <= writes[k].value
      BY <1>2 DEF Rising
  <2>2. \A j \in DOMAIN writes : writes[j].op \in ops => writes[j].value <= writes[k].value
      BY <1>2 DEF Rising
  <2> QED
      BY <1>0, <1>2, <2>1, <2>2 DEF Below
<1> QED
    BY <1>1, <1>2, LatestIsLast

\* Ready: whatever is on the screen is not older than what is on its way.
LEMMA ReadyShows ==
    ASSUME TypeInv, Moving, Ready, top # Nobody
    PROVE  /\ Below(writes, TextOps, doc.text, info[top].text)
           /\ Below(writes, PhotoOps, doc.url, info[top].image)
           /\ renewals = <<>> /\ uploads = <<>> /\ top \in loaded
           /\ info[top].covered = 0 /\ fetches[top] = NoImage
<1>1. /\ info[top].text \in Int /\ info[top].image \in Int
      /\ doc.text \in Int /\ doc.url \in Int /\ writes \in Seq(Write)
    BY TapType, Numbers DEF TypeInv, TypeOK, Controller, Document
<1>2. /\ Latest(TextOps, doc.text) <= info[top].text
      /\ Latest(PhotoOps, doc.url) <= info[top].image
  <2>1. Seen.text = Latest(TextOps, doc.text) /\ Seen.url = Latest(PhotoOps, doc.url)
      BY DEF Seen, TextOps, PhotoOps
  <2>2. Seen.text \in Int /\ Seen.url \in Int
      BY SeenType, Numbers DEF TypeInv, Document
  <2> QED
      BY <1>1, <2>1, <2>2 DEF Ready
<1>3. Rising(writes, TextOps, doc.text) /\ Rising(writes, PhotoOps, doc.url)
    BY DEF Moving
<1> QED
    BY <1>1, <1>2, <1>3, ShownIsLast DEF Ready

-----------------------------------------------------------------------------
LEMMA ValueTypes ==
    ASSUME TypeInv
    PROVE  /\ typed \in Nat /\ picks \in Nat /\ opened \in Nat
           /\ doc.text \in Int /\ doc.url \in Int
           /\ \A i \in Openings : /\ info[i].text \in Int /\ info[i].image \in Int
                                  /\ info[i].picked \in Photos /\ fetches[i] \in Photos
                                  /\ info[i].picked \in Int /\ fetches[i] \in Int
                                  /\ info[i].covered \in Nat
           /\ \A k \in DOMAIN writes : writes[k] \in Write /\ writes[k].value \in Int
           /\ \A k \in DOMAIN uploads : uploads[k].image \in Photos /\ uploads[k].image \in Int
<1> USE DEF TypeInv
<1>1. typed \in Nat /\ picks \in Nat /\ opened \in Nat /\ doc.text \in Int /\ doc.url \in Int
  <2>1. typed \in Nat /\ picks \in Nat /\ opened \in Nat
      BY BoundsAssumption DEF TypeOK
  <2>2. doc.text \in Texts /\ doc.url \in Photos
      BY DEF TypeOK, Document
  <2> QED
      BY <2>1, <2>2, Numbers
<1>2. \A c \in Controller : /\ c.text \in Int /\ c.image \in Int /\ c.picked \in Photos
                            /\ c.picked \in Int /\ c.covered \in Nat
    BY Numbers DEF Controller
<1>3. \A i \in Openings : info[i] \in Controller /\ fetches[i] \in Photos /\ fetches[i] \in Int
    BY Numbers DEF TypeOK
<1>4. \A k \in DOMAIN writes : writes[k] \in Write /\ writes[k].value \in Int
  <2>1. \A k \in DOMAIN writes : writes[k] \in Write
      BY DEF TypeOK
  <2> QED
      BY <2>1, Numbers
<1>5. \A k \in DOMAIN uploads : uploads[k].image \in Photos /\ uploads[k].image \in Int
  <2>1. \A k \in DOMAIN uploads : uploads[k] \in Upload
      BY DEF TypeOK
  <2> QED
      BY <2>1, Numbers DEF Upload
<1> QED
    BY <1>1, <1>2, <1>3, <1>4, <1>5

LEMMA RenewalTypes == TypeInv => \A k \in DOMAIN renewals : renewals[k] \in Openings
<1> SUFFICES ASSUME TypeInv PROVE \A k \in DOMAIN renewals : renewals[k] \in Openings
    OBVIOUS
<1>1. renewals \in Seq(Openings)
    BY DEF TypeInv, TypeOK
<1> QED
    BY <1>1

LEMMA InitPatient == Init => PatientInv
<1> SUFFICES ASSUME Init PROVE PatientInv
    OBVIOUS
<1>1. TypeInv /\ \A i \in Openings : info[i] = Fresh /\ fetches[i] = NoImage
    BY InitType DEF Init
<1>2. \A i \in Openings : MadeScreen(i)
    BY <1>1 DEF Init, MadeScreen, Fresh, NoImage, Placeholder, Blank
<1>3. writes = <<>> /\ uploads = <<>> /\ renewals = <<>> /\ loads = {} /\ loaded = {} /\ top = Nobody
    BY DEF Init
<1>4. doc.text <= typed + 1 /\ doc.url <= picks + 1
    BY DEF Init, NoImage, Placeholder
<1>5. Made
    BY <1>2, <1>3, <1>4 DEF Made, MadeWrites, AskedOnce
<1>6. OneAtATime /\ Moving /\ Lifting
    BY <1>3 DEF OneAtATime, Moving, Lifting, Rising
<1> QED
    BY <1>5, <1>6 DEF PatientInv, Patient

\* Newer texts or photos leave the older ones older.
LEMMA MadeMore ==
    ASSUME TypeInv, Made, typed' \in {typed, typed + 1}, picks' \in {picks, picks + 1},
           UNCHANGED <<doc, writes, uploads, fetches, loads, loaded, opened>>,
           NEW i \in Openings, \A j \in Openings \ {i} : info'[j] = info[j],
           info'[i].text \in {info[i].text, typed' + 1},
           info'[i].image \in {info[i].image, picks' + 1},
           info'[i].picked \in {info[i].picked, picks' + 1}
    PROVE  Made'
<1>1. \A n \in Int : /\ n <= typed + 1 => n <= typed' + 1
                     /\ n <= picks + 1 => n <= picks' + 1
    BY ValueTypes
<1>2. MadeWrites'
    BY <1>1, ValueTypes DEF Made, MadeWrites
<1>3. \A j \in Openings : MadeScreen(j)
    BY DEF Made
<1>4. typed' + 1 <= typed' + 1 /\ picks' + 1 <= picks' + 1
    BY ValueTypes
<1>5. ASSUME NEW j \in Openings PROVE MadeScreen(j)'
  <2>1. CASE j # i
      BY <1>1, <1>3, <2>1, ValueTypes DEF MadeScreen
  <2>2. CASE j = i
      BY <1>1, <1>3, <1>4, <2>2, ValueTypes DEF MadeScreen
  <2> QED
      BY <2>1, <2>2
<1>6. AskedOnce'
    BY DEF Made, AskedOnce
<1> QED
    BY <1>2, <1>5, <1>6 DEF Made

LEMMA MadeTaps ==
    ASSUME TypeInv, Made, Type \/ ChooseCamera \/ ChooseLibrary \/ Picked \/ PickCancelled \/ UpdateAccount
    PROVE  Made'
<1> USE DEF TypeInv
<1>1. CASE Type
  <2>1. top \in Openings /\ info[top] \in Controller
      BY <1>1, TapType DEF Type, Tap
  <2>2. typed' = typed + 1 /\ info' = [info EXCEPT ![top].text = typed' + 1] /\ picks' = picks
      BY <1>1 DEF Type
  <2>3. /\ \A j \in Openings \ {top} : info'[j] = info[j]
        /\ info'[top].text = typed' + 1 /\ info'[top].image = info[top].image
        /\ info'[top].picked = info[top].picked
      BY <2>1, <2>2 DEF TypeOK, Controller
  <2>4. UNCHANGED <<doc, writes, uploads, fetches, loads, loaded, opened>>
      BY <1>1 DEF Type, server, pending, observed, screens
  <2> QED
      BY <2>1, <2>2, <2>3, <2>4, MadeMore
<1>2. CASE ChooseCamera \/ PickCancelled
    BY <1>2 DEF ChooseCamera, PickCancelled, Made, MadeScreen, MadeWrites, AskedOnce, server,
       pending, counters, observed
<1>3. CASE ChooseLibrary
  <2>1. top \in Openings /\ info[top] \in Controller
      BY <1>3, TapType DEF ChooseLibrary, Tap
  <2>2. UNCHANGED <<server, opened, info, pending, counters, loaded>>
      BY <1>3 DEF ChooseLibrary
  <2>3. \A k \in DOMAIN uploads' : uploads'[k].image <= picks + 1
    <3>1. CASE uploads' = uploads
        BY <3>1 DEF Made, MadeWrites
    <3>2. CASE uploads' # uploads
      <4>1. [kind |-> "ref", image |-> info[top].image, owner |-> Nobody] \in Upload
          BY <2>1, ConstantTypes DEF Upload, Controller
      <4>2. uploads' = Append(uploads, [kind |-> "ref", image |-> info[top].image, owner |-> Nobody])
          BY <1>3, <3>2 DEF ChooseLibrary
      <4>3. info[top].image <= picks + 1
          BY <2>1 DEF Made, MadeScreen
      <4> QED
          BY <4>1, <4>2, <4>3, AppendOf DEF TypeOK, Made, MadeWrites
    <3> QED
        BY <3>1, <3>2
  <2> QED
      BY <2>2, <2>3 DEF Made, MadeScreen, MadeWrites, AskedOnce, server, pending, counters
<1>4. CASE Picked
  <2>1. top \in Openings /\ info[top] \in Controller
      BY <1>4, TapType DEF Picked, Anchored
  <2>2. picks' = picks + 1 /\ typed' = typed
        /\ info' = [info EXCEPT ![top].image = picks' + 1, ![top].picked = picks' + 1]
      BY <1>4 DEF Picked
  <2>3. /\ \A j \in Openings \ {top} : info'[j] = info[j]
        /\ info'[top].text = info[top].text /\ info'[top].image = picks' + 1
        /\ info'[top].picked = picks' + 1
      BY <2>1, <2>2 DEF TypeOK, Controller
  <2>4. UNCHANGED <<doc, writes, uploads, fetches, loads, loaded, opened>>
      BY <1>4 DEF Picked, server
  <2> QED
      BY <2>1, <2>2, <2>3, <2>4, MadeMore
<1>5. CASE UpdateAccount
  <2>1. top \in Openings /\ info[top] \in Controller
      BY <1>5, TapType DEF UpdateAccount, Tap
  <2>2. PICK p : /\ info' = [info EXCEPT ![top].picked = p]
                 /\ p \in {info[top].image, info[top].picked}
    <3>1. CASE info[top].image # NoImage
        BY <1>5, <2>1, <3>1 DEF UpdateAccount
    <3>2. CASE info[top].image = NoImage
        BY <1>5, <2>1, <3>2 DEF UpdateAccount
    <3> QED
        BY <3>1, <3>2
  <2>3. p <= picks + 1 /\ p \in Photos
      BY <2>1, <2>2 DEF Made, MadeScreen, Controller
  <2>4. \A j \in Openings : /\ info'[j].text = info[j].text /\ info'[j].image = info[j].image
                            /\ info'[j].picked \in {info[j].picked, p}
      BY <2>1, <2>2, <2>3 DEF TypeOK, Controller
  <2>5. UNCHANGED <<server, uploads, opened, loads, fetches, counters, loaded>>
      BY <1>5 DEF UpdateAccount
  <2> QED
      BY <2>3, <2>4, <2>5 DEF Made, MadeScreen, MadeWrites, AskedOnce, server, counters
<1> QED
    BY <1>1, <1>2, <1>3, <1>4, <1>5

LEMMA SeenMade == ASSUME TypeInv, Made PROVE Seen.text <= typed + 1 /\ Seen.url <= picks + 1
<1>1. writes \in Seq(Write)
    BY DEF TypeInv, TypeOK
<1>2. Latest({"text"}, doc.text) <= typed + 1
    BY <1>1, LatestIsLast DEF Made, MadeWrites
<1>3. Latest({"url", "ref"}, doc.url) <= picks + 1
    BY <1>1, LatestIsLast DEF Made, MadeWrites
<1> QED
    BY <1>2, <1>3 DEF Seen

LEMMA MadeOthers == ASSUME TypeInv, Made, Open \/ Back \/ Left PROVE Made'
<1>1. CASE Open
  <2>1. opened' = opened + 1 /\ loads' = loads \cup {opened'} /\ opened \in Nat
      BY <1>1, ValueTypes DEF Open
  <2>2. UNCHANGED <<server, uploads, info, fetches, counters, loaded>>
      BY <1>1 DEF Open, observed
  <2>3. \A i \in loads \cup loaded : i \in Openings /\ i <= opened
      BY DEF Made, AskedOnce, TypeInv, TypeOK
  <2>4. \A i \in Openings : i <= opened => i <= opened' /\ i # opened'
      BY <2>1 DEF Openings
  <2>5. opened' <= opened'
      BY <2>1
  <2>6. AskedOnce'
      BY <2>1, <2>2, <2>3, <2>4, <2>5 DEF Made, AskedOnce
  <2> QED
      BY <2>2, <2>6 DEF Made, MadeScreen, MadeWrites, server, counters
<1>2. CASE Back \/ Left
    BY <1>2 DEF Back, Left, Made, MadeScreen, MadeWrites, AskedOnce, server, pending,
       counters, observed
<1> QED
    BY <1>1, <1>2

LEMMA MadeLookups ==
    ASSUME TypeInv, Made, NEW i \in Openings, Loaded(i) \/ Fetched(i)
    PROVE  Made'
<1>1. /\ UNCHANGED <<server, uploads, screens, renewals, spinner, counters, hasty>>
      /\ loads' \subseteq loads /\ loaded' \cup loads' \subseteq loaded \cup loads
      /\ loads' \cap loaded' = {}
    BY DEF Loaded, Fetched, pending, observed, Made, AskedOnce
<1>2. \A j \in Openings : MadeScreen(j)
    BY DEF Made
<1>3. \A j \in Openings : j # i => info'[j] = info[j] /\ fetches'[j] = fetches[j]
    BY DEF Loaded, Fetched, TypeInv, TypeOK
<1>4. MadeScreen(i)'
  <2>1. CASE UNCHANGED <<info, fetches>>
      BY <1>1, <1>2, <2>1 DEF MadeScreen, counters
  <2>2. CASE Loaded(i) /\ ~UNCHANGED <<info, fetches>>
    <3>1. PICK photo \in Photos, image \in Photos :
             /\ info' = [info EXCEPT ![i].text = Seen.text, ![i].image = image]
             /\ fetches' = [fetches EXCEPT ![i] = photo]
             /\ photo = (IF Seen.ref THEN Seen.url ELSE NoImage)
             /\ image = (IF photo = NoImage THEN Placeholder ELSE NoImage)
      <4>1. Seen.url \in Photos
          BY SeenType DEF TypeInv, Document
      <4>2. (IF Seen.ref THEN Seen.url ELSE NoImage) \in Photos
          BY <4>1, ConstantTypes
      <4> QED
          BY <2>2, <4>2, ConstantTypes, Zenon DEF Loaded
    <3>2. info[i] \in Controller /\ Seen.text <= typed + 1 /\ Seen.url <= picks + 1
        BY SeenMade DEF TypeInv, TypeOK
    <3>3. photo <= picks + 1 /\ image <= picks + 1
        BY <3>1, <3>2, ValueTypes DEF NoImage, Placeholder
    <3>4. /\ info'[i].text = Seen.text /\ info'[i].image = image
          /\ info'[i].picked = info[i].picked /\ fetches'[i] = photo
        BY <3>1, <3>2 DEF TypeInv, TypeOK, Controller
    <3> QED
        BY <1>1, <1>2, <3>2, <3>3, <3>4 DEF MadeScreen, counters
  <2>3. CASE Fetched(i) /\ ~UNCHANGED <<info, fetches>>
    <3>1. fetches' = [fetches EXCEPT ![i] = NoImage] /\ info[i] \in Controller
        BY <2>3 DEF Fetched, TypeInv, TypeOK
    <3>2. info' = info \/ info' = [info EXCEPT ![i].image = fetches[i]]
        BY <2>3 DEF Fetched
    <3>3. /\ info'[i].text = info[i].text /\ info'[i].picked = info[i].picked
          /\ info'[i].image \in {info[i].image, fetches[i]} /\ fetches'[i] = NoImage
        BY <3>1, <3>2 DEF TypeInv, TypeOK, Controller
    <3>4. NoImage <= picks + 1
        BY ValueTypes DEF NoImage
    <3> QED
        BY <1>1, <1>2, <3>3, <3>4 DEF MadeScreen, counters
  <2> QED
      BY <2>1, <2>2, <2>3
<1>5. \A j \in Openings : MadeScreen(j)'
    BY <1>1, <1>2, <1>3, <1>4 DEF MadeScreen, counters
<1> QED
    BY <1>1, <1>5 DEF Made, MadeWrites, AskedOnce, server, counters, screens

LEMMA MadeSaves ==
    ASSUME TypeInv, Made, Renewed \/ (\E k \in DOMAIN uploads : Uploaded(k))
    PROVE  Made'
<1>1. CASE Renewed
  <2> DEFINE i == Head(renewals)
  <2>1. i \in Openings /\ UNCHANGED <<doc, screens, loads, fetches, counters, observed>>
      BY <1>1, RenewedWay
  <2>2. CASE UNCHANGED <<uploads, info, spinner, writes>>
      BY <2>1, <2>2 DEF Made, MadeScreen, MadeWrites, AskedOnce, screens, counters, observed
  <2>3. CASE ~UNCHANGED <<uploads, info, spinner, writes>>
    <3>1. PICK image \in Photos :
             /\ image = (IF info[i].picked = NoImage THEN Placeholder ELSE info[i].picked)
             /\ uploads' = Append(uploads, [kind |-> "own", owner |-> i, image |-> image])
        BY <1>1, <2>3, RenewedWay
    <3>2. /\ info' = [info EXCEPT ![i].covered = @ + 1]
          /\ writes' = Append(writes, [op |-> "text", value |-> info[i].text, owner |-> i])
        BY <1>1, <2>3, RenewedWay
    <3>3. [kind |-> "own", owner |-> i, image |-> image] \in Upload
        BY <2>1, ConstantTypes DEF Upload
    <3>4. [op |-> "text", value |-> info[i].text, owner |-> i] \in Write
        BY <2>1, ConstantTypes DEF Write, TypeInv, TypeOK, Controller
    <3>5. info[i].text <= typed + 1 /\ image <= picks + 1
        BY <2>1, <3>1, ValueTypes DEF Made, MadeScreen, Placeholder
    <3>6. \A j \in Openings : /\ info'[j].text = info[j].text /\ info'[j].image = info[j].image
                              /\ info'[j].picked = info[j].picked
        BY <2>1, <3>2 DEF TypeInv, TypeOK, Controller
    <3>7. \A k \in DOMAIN uploads' : uploads'[k].image <= picks + 1
      <4>1. \A k \in DOMAIN uploads' :
                \/ k \in DOMAIN uploads /\ uploads'[k] = uploads[k]
                \/ uploads'[k] = [kind |-> "own", owner |-> i, image |-> image]
          BY <3>1, <3>3, AppendOf DEF TypeInv, TypeOK
      <4> QED
          BY <3>5, <4>1 DEF Made, MadeWrites
    <3>8. \A k \in DOMAIN writes' :
              /\ writes'[k].op = "text" => writes'[k].value <= typed + 1
              /\ writes'[k].op # "text" => writes'[k].value <= picks + 1
      <4>1. \A k \in DOMAIN writes' :
                \/ k \in DOMAIN writes /\ writes'[k] = writes[k]
                \/ writes'[k] = [op |-> "text", value |-> info[i].text, owner |-> i]
          BY <3>2, <3>4, AppendOf DEF TypeInv, TypeOK
      <4> QED
          BY <3>5, <4>1 DEF Made, MadeWrites
    <3> QED
        BY <2>1, <3>6, <3>7, <3>8 DEF Made, MadeScreen, MadeWrites, AskedOnce, screens,
           counters, observed
  <2> QED
      BY <2>2, <2>3
<1>2. ASSUME NEW k \in DOMAIN uploads, Uploaded(k) PROVE Made'
  <2>1. /\ uploads' = RemoveAt(uploads, k) /\ uploads \in Seq(Upload) /\ writes \in Seq(Write)
        /\ UNCHANGED <<doc, screens, info, pending, spinner, counters, observed>>
      BY <1>2 DEF Uploaded, TypeInv, TypeOK
  <2>2. \A j \in DOMAIN uploads' : uploads'[j].image <= picks + 1
      BY <2>1, RemoveAtOf DEF Made, MadeWrites
  <2>3. \A j \in DOMAIN writes' :
            /\ writes'[j].op = "text" => writes'[j].value <= typed + 1
            /\ writes'[j].op # "text" => writes'[j].value <= picks + 1
    <3>1. CASE UNCHANGED writes
        BY <3>1 DEF Made, MadeWrites
    <3>2. CASE ~UNCHANGED writes
      <4>1. PICK op \in {"url", "ref"} :
               writes' = Append(writes, [op |-> op, value |-> uploads[k].image,
                                         owner |-> uploads[k].owner])
          BY <1>2, <3>2, Zenon DEF Uploaded
      <4>2. uploads[k] \in Upload /\ uploads[k].image <= picks + 1
          BY <2>1 DEF Made, MadeWrites
      <4>3. [op |-> op, value |-> uploads[k].image, owner |-> uploads[k].owner] \in Write
          BY <4>2 DEF Upload, Write
      <4> QED
          BY <2>1, <4>1, <4>2, <4>3, AppendOf DEF Made, MadeWrites
    <3> QED
        BY <3>1, <3>2
  <2> QED
      BY <2>1, <2>2, <2>3 DEF Made, MadeScreen, MadeWrites, AskedOnce, screens, pending,
         counters, observed
<1> QED
    BY <1>1, <1>2

LEMMA MadeServer == ASSUME TypeInv, Made, Acknowledge \/ Refuse \/ Restart PROVE Made'
<1>1. CASE Acknowledge
  <2> DEFINE w == Head(writes)
  <2>1. /\ writes # <<>> /\ w \in Write /\ writes' = Tail(writes) /\ doc' = Effect(doc, w)
        /\ UNCHANGED <<uploads, screens, pending, counters, observed>>
        /\ writes \in Seq(Write) /\ doc \in Document
      BY <1>1, AcknowledgeWay DEF TypeInv, TypeOK
  <2>2. w = writes[1] /\ 1 \in DOMAIN writes
        /\ \A k \in DOMAIN writes' : k + 1 \in DOMAIN writes /\ writes'[k] = writes[k + 1]
      BY <2>1, TailOf
  <2>3. /\ doc'.text = IF w.op = "text" THEN w.value ELSE doc.text
        /\ doc'.url = IF w.op = "text" THEN doc.url ELSE w.value
      BY <2>1, EffectType
  <2>4. MadeWrites'
      BY <2>1, <2>2, <2>3 DEF Made, MadeWrites, counters
  <2>5. \A j \in Openings : /\ info'[j].text = info[j].text /\ info'[j].image = info[j].image
                            /\ info'[j].picked = info[j].picked
    <3>1. CASE UNCHANGED info
        BY <3>1
    <3>2. CASE ~UNCHANGED info
      <4>1. spinner # Nobody /\ info' = [info EXCEPT ![spinner].covered = @ - 1]
          BY <1>1, <3>2, AcknowledgeWay
      <4> QED
          BY <4>1 DEF TypeInv, TypeOK, Controller
    <3> QED
        BY <3>1, <3>2
  <2> QED
      BY <2>1, <2>4, <2>5 DEF Made, MadeScreen, AskedOnce, screens, pending, counters, observed
<1>2. CASE Refuse
  <2>1. /\ writes # <<>> /\ writes' = Tail(writes) /\ writes \in Seq(Write)
        /\ UNCHANGED <<doc, uploads, screens, info, pending, counters, loaded>>
      BY <1>2 DEF Refuse, TypeInv, TypeOK
  <2>2. \A k \in DOMAIN writes' : k + 1 \in DOMAIN writes /\ writes'[k] = writes[k + 1]
      BY <2>1, TailOf
  <2> QED
      BY <2>1, <2>2 DEF Made, MadeScreen, MadeWrites, AskedOnce, screens, pending, counters
<1>3. CASE Restart
  <2>1. /\ writes' = [k \in DOMAIN writes |-> [writes[k] EXCEPT !.owner = Nobody]]
        /\ uploads' = <<>> /\ loads' = {} /\ fetches' = [i \in Openings |-> NoImage]
        /\ UNCHANGED <<doc, opened, info, counters, observed>>
      BY <1>3 DEF Restart
  <2>2. \A k \in DOMAIN writes : /\ writes[k] \in Write
                                 /\ writes'[k].op = writes[k].op /\ writes'[k].value = writes[k].value
    <3>1. \A k \in DOMAIN writes : writes[k] \in Write
        BY ValueTypes
    <3>2. \A w \in Write : /\ [w EXCEPT !.owner = Nobody].op = w.op
                            /\ [w EXCEPT !.owner = Nobody].value = w.value
        BY DEF Write
    <3>3. \A k \in DOMAIN writes : writes'[k] = [writes[k] EXCEPT !.owner = Nobody]
        BY <2>1
    <3> QED
        BY <3>1, <3>2, <3>3
  <2>3. MadeWrites'
      BY <2>1, <2>2 DEF Made, MadeWrites, counters
  <2>4. NoImage <= picks + 1
      BY ValueTypes DEF NoImage
  <2> QED
      BY <2>1, <2>3, <2>4 DEF Made, MadeScreen, AskedOnce, counters, observed
<1> QED
    BY <1>1, <1>2, <1>3

LEMMA MadeStep == TypeInv /\ Made /\ [Next]_vars => Made'
<1> SUFFICES ASSUME TypeInv, Made, [Next]_vars PROVE Made'
    OBVIOUS
<1>1. CASE UNCHANGED vars
    BY <1>1 DEF Made, MadeScreen, MadeWrites, AskedOnce, vars, server, screens, pending,
       counters, observed
<1>2. CASE Next
    BY <1>2, MadeTaps, MadeOthers, MadeLookups, MadeSaves, MadeServer DEF Next
<1> QED
    BY <1>1, <1>2

-----------------------------------------------------------------------------
\* Steps that submit nothing: a renewal's controller keeps its photo, and its
\* text gets newer at most.
LEMMA PatientKept ==
    ASSUME TypeInv, TypeInv', Patient, UNCHANGED <<doc, writes, uploads, renewals, spinner, refused>>,
           \A i \in Openings : info'[i].covered = info[i].covered,
           top' # Nobody => top' = top \/ info[top'].covered = 0,
           \A k \in DOMAIN renewals :
               LET i == renewals[k] IN
               i \notin loads' /\ info'[i].picked = info[i].picked /\ info[i].text <= info'[i].text
    PROVE  Patient'
<1>1. \A k \in DOMAIN renewals : renewals[k] \in Openings
    BY RenewalTypes
<1>2. OneAtATime'
    BY DEF Patient, OneAtATime
<1>3. ASSUME NEW k \in DOMAIN renewals, NEW i, i = renewals[k]
      PROVE  /\ i \notin loads' /\ Below(writes, TextOps, doc.text, info'[i].text)
             /\ Below(writes, PhotoOps, doc.url, Sends(i)')
  <2>1. Below(writes, TextOps, doc.text, info[i].text) /\ Below(writes, PhotoOps, doc.url, Sends(i))
      BY <1>3 DEF Patient, Moving
  <2>2. Sends(i)' = Sends(i)
      BY <1>3 DEF Sends
  <2>3. info[i].text \in Int /\ info'[i].text \in Int /\ info[i].text <= info'[i].text
    <3>1. info[i] \in Controller /\ info'[i] \in Controller
        BY <1>1, <1>3 DEF TypeInv, TypeOK
    <3> QED
        BY <1>3, <3>1, Numbers DEF Controller
  <2>4. Below(writes, TextOps, doc.text, info'[i].text)
      BY <2>1, <2>3, ValueTypes DEF Below
  <2> QED
      BY <1>3, <2>1, <2>2, <2>4
<1>4. Moving'
    BY <1>3 DEF Patient, Moving
<1>5. top # Nobody => top \in Openings
    BY DEF TypeInv, TypeOK, Nobody, Openings
<1>6. top' # Nobody => top' \in Openings
    BY DEF TypeInv, TypeOK, Nobody, Openings
<1>7. top' # Nobody => info'[top'].covered = info[top'].covered
    BY <1>6
<1>8. \A k \in DOMAIN renewals : info'[renewals[k]].covered = 0
    BY <1>1 DEF Patient, Lifting
<1>9. Lifting'
    BY <1>5, <1>7, <1>8 DEF Patient, Lifting, OwnText
<1> QED
    BY <1>2, <1>4, <1>9 DEF Patient

LEMMA PatientQuiet ==
    ASSUME TypeInv, TypeInv', Made, Patient,
           Type \/ ChooseCamera \/ PickCancelled \/ Open \/ Back \/ Left
    PROVE  Patient'
<1>0. \A k \in DOMAIN renewals : /\ renewals[k] \in Openings /\ renewals[k] <= opened
                                 /\ renewals[k] \notin loads
                                 /\ info[renewals[k]].text \in Int
                                 /\ info[renewals[k]].text <= info[renewals[k]].text
  <2>1. \A k \in DOMAIN renewals : renewals[k] \in Openings
      BY RenewalTypes
  <2>2. \A i \in Openings : info[i].text \in Int /\ info[i].text <= info[i].text
    <3>1. \A i \in Openings : info[i].text \in Int
        BY ValueTypes
    <3>2. \A n \in Int : n <= n
        OBVIOUS
    <3> QED
        BY <3>1, <3>2
  <2> QED
      BY <2>1, <2>2 DEF Patient, Moving, TypeInv, Anchored
<1>1. CASE Type
  <2>1. top \in Openings /\ info[top] \in Controller
      BY <1>1, TapType DEF Type, Tap
  <2>2. /\ UNCHANGED <<server, uploads, screens, pending, spinner, picks, observed>>
        /\ typed' = typed + 1 /\ info' = [info EXCEPT ![top].text = typed' + 1]
      BY <1>1 DEF Type
  <2>3. info[top].text <= typed' + 1
      BY <2>1, <2>2, ValueTypes DEF Made, MadeScreen
  <2>4. \A i \in Openings : /\ info'[i].covered = info[i].covered
                            /\ info'[i].picked = info[i].picked
                            /\ info'[i].text = IF i = top THEN typed' + 1 ELSE info[i].text
      BY <2>1, <2>2 DEF TypeInv, TypeOK, Controller
  <2>5. \A k \in DOMAIN renewals : info[renewals[k]].text <= info'[renewals[k]].text
      BY <1>0, <2>3, <2>4
  <2> QED
      BY <1>0, <2>2, <2>4, <2>5, PatientKept DEF server, screens, pending, observed
<1>2. CASE ChooseCamera \/ PickCancelled
    BY <1>0, <1>2, PatientKept DEF ChooseCamera, PickCancelled, server, pending, observed
<1>3. CASE Back \/ Left
    BY <1>0, <1>3, PatientKept DEF Back, Left, server, pending, observed
<1>4. CASE Open
  <2>1. /\ opened' = opened + 1 /\ top' = opened' /\ loads' = loads \cup {opened'}
        /\ UNCHANGED <<server, uploads, info, renewals, spinner, observed>>
      BY <1>4 DEF Open
  <2>2. opened' > opened /\ opened' \in Openings /\ opened \in Nat
      BY <1>4, <2>1, BoundsAssumption DEF Open, Openings, TypeInv, TypeOK
  <2>3. info[top'].covered = 0
      BY <2>1, <2>2 DEF TypeInv, Anchored
  <2>4. \A n \in Openings : n <= opened => n # opened'
      BY <2>2 DEF Openings
  <2>5. \A k \in DOMAIN renewals : renewals[k] \notin loads'
      BY <1>0, <2>1, <2>4
  <2> QED
      BY <1>0, <2>1, <2>3, <2>5, PatientKept DEF server, observed
<1> QED
    BY <1>1, <1>2, <1>3, <1>4

LEMMA PatientLookups ==
    ASSUME TypeInv, TypeInv', Patient, NEW i \in Openings, Loaded(i) \/ Fetched(i)
    PROVE  Patient'
<1>0. \A k \in DOMAIN renewals : /\ renewals[k] \in Openings /\ renewals[k] \notin loads
                                 /\ info[renewals[k]].text \in Int
    BY RenewalTypes, ValueTypes DEF Patient, Moving
<1>1. /\ UNCHANGED <<server, uploads, screens, renewals, spinner, refused>>
      /\ loads' \subseteq loads
    BY DEF Loaded, Fetched, pending, observed
<1>2. /\ \A j \in Openings : info'[j].covered = info[j].covered
      /\ \A k \in DOMAIN renewals : LET j == renewals[k] IN
             info'[j].picked = info[j].picked /\ info[j].text <= info'[j].text
  <2>1. CASE Loaded(i)
    <3>1. i \in loads
        BY <2>1 DEF Loaded
    <3>2. \A j \in Openings : /\ info'[j].covered = info[j].covered
                              /\ j # i => info'[j] = info[j]
      <4>1. CASE UNCHANGED info
          BY <4>1
      <4>2. CASE ~UNCHANGED info
        <5>1. PICK text, image : info' = [info EXCEPT ![i].text = text, ![i].image = image]
            BY <2>1, <4>2 DEF Loaded
        <5> QED
            BY <5>1 DEF TypeInv, TypeOK, Controller
      <4> QED
          BY <4>1, <4>2
    <3>3. \A n \in Int : n <= n
        OBVIOUS
    <3> QED
        BY <1>0, <3>1, <3>2, <3>3
  <2>2. CASE Fetched(i)
    <3>1. info' = info \/ info' = [info EXCEPT ![i].image = fetches[i]]
        BY <2>2 DEF Fetched
    <3>2. \A j \in Openings : /\ info'[j].covered = info[j].covered
                              /\ info'[j].picked = info[j].picked /\ info'[j].text = info[j].text
      <4>1. CASE info' = info
          BY <4>1
      <4>2. CASE info' = [info EXCEPT ![i].image = fetches[i]]
        <5>1. info[i] \in Controller /\ info \in [Openings -> Controller]
            BY DEF TypeInv, TypeOK
        <5>2. \A j \in Openings : j # i => info'[j] = info[j]
            BY <4>2, <5>1
        <5>3. info'[i] = [info[i] EXCEPT !.image = fetches[i]]
            BY <4>2, <5>1
        <5> QED
            BY <5>1, <5>2, <5>3 DEF Controller
      <4> QED
          BY <3>1, <4>1, <4>2
    <3>3. \A n \in Int : n <= n
        OBVIOUS
    <3> QED
        BY <1>0, <3>2, <3>3
  <2> QED
      BY <2>1, <2>2
<1> QED
    BY <1>0, <1>1, <1>2, PatientKept DEF server, screens

\* A save or a photo of a user who waits is the one thing on its way.
LEMMA PatientSubmitted ==
    ASSUME TypeInv, Made, Patient, Ready, NEW i \in Openings, i = top, top' \in {top, Nobody},
           renewals' = Append(renewals, top), UNCHANGED <<doc, writes, uploads, loads>>,
           \A j \in Openings : info'[j].covered = info[j].covered,
           info'[i].text = info[i].text, Below(writes, PhotoOps, doc.url, Sends(i)')
    PROVE  Patient'
<1>1. /\ Below(writes, TextOps, doc.text, info[top].text)
      /\ renewals = <<>> /\ uploads = <<>> /\ top \in loaded /\ info[top].covered = 0
    BY ReadyShows DEF Patient, Nobody, Openings
<1>2. /\ Len(renewals') + Len(uploads') <= 1
      /\ \A k \in DOMAIN renewals' : renewals'[k] = top
    BY <1>1
<1>3. top \notin loads
    BY <1>1 DEF Made, AskedOnce
<1>4. uploads' = <<>>
    BY <1>1
<1>5. Moving'
  <2>1. Below(writes, TextOps, doc.text, info'[i].text) /\ i \notin loads
      BY <1>1, <1>3
  <2>2. \A k \in DOMAIN renewals' : renewals'[k] = i
      BY <1>2
  <2> QED
      BY <1>4, <2>1, <2>2 DEF Patient, Moving
<1>6. info'[i].covered = 0 /\ (top' # Nobody => info'[top'].covered = 0)
    BY <1>1
<1>7. Lifting'
    BY <1>2, <1>6 DEF Lifting
<1> QED
    BY <1>2, <1>5, <1>7 DEF Patient, OneAtATime

LEMMA PatientSubmits ==
    ASSUME TypeInv, TypeInv', Made, Patient, ~hasty', ChooseLibrary \/ Picked \/ UpdateAccount
    PROVE  Patient'
<1>1. CASE ChooseLibrary
  <2>1. top # Nobody /\ top \in Openings /\ Ready
      BY <1>1, TapType DEF ChooseLibrary, Tap
  <2>2. /\ Below(writes, PhotoOps, doc.url, info[top].image)
        /\ renewals = <<>> /\ uploads = <<>>
      BY <2>1, ReadyShows DEF Patient
  <2>3. UNCHANGED <<server, top, info, pending, spinner, refused>>
      BY <1>1 DEF ChooseLibrary
  <2>4. /\ Len(uploads') <= 1
        /\ \A k \in DOMAIN uploads' : uploads'[k].image = info[top].image
    <3>1. CASE uploads' = uploads
        BY <2>2, <3>1
    <3>2. CASE uploads' # uploads
      <4>1. uploads' = Append(<<>>, [kind |-> "ref", image |-> info[top].image, owner |-> Nobody])
          BY <1>1, <2>2, <3>2 DEF ChooseLibrary
      <4>2. uploads' = <<[kind |-> "ref", image |-> info[top].image, owner |-> Nobody]>>
          BY <4>1
      <4> QED
          BY <4>2
    <3> QED
        BY <3>1, <3>2
  <2>5. OneAtATime'
    <3>1. Len(uploads') \in Nat /\ renewals' = <<>>
        BY <2>2, <2>3 DEF TypeInv, TypeOK, pending
    <3> QED
        BY <2>4, <3>1 DEF OneAtATime
  <2>6. Moving'
      BY <2>2, <2>3, <2>4 DEF Patient, Moving, server, pending
  <2>7. Lifting'
      BY <2>2, <2>3 DEF Patient, Lifting, OwnText, server, pending
  <2> QED
      BY <2>5, <2>6, <2>7 DEF Patient
<1>2. CASE Picked
  <2> PICK here : here = top
      OBVIOUS
  <2>1. top # Nobody /\ top \in Openings /\ Ready /\ info[top] \in Controller
      BY <1>2, TapType DEF Picked, TypeInv, Anchored
  <2>2. /\ picks' = picks + 1 /\ renewals' = Append(renewals, top)
        /\ info' = [info EXCEPT ![top].image = picks' + 1, ![top].picked = picks' + 1]
        /\ UNCHANGED <<doc, writes, uploads, top, loads>>
      BY <1>2 DEF Picked, server
  <2>3. /\ \A i \in Openings : info'[i].covered = info[i].covered
        /\ info'[top].text = info[top].text /\ info'[top].picked = picks' + 1
      BY <2>1, <2>2 DEF TypeInv, TypeOK, Controller
  <2>4. Sends(here)' = picks' + 1 /\ \A n \in Int : n <= picks + 1 => n <= picks' + 1
      BY <2>2, <2>3, ValueTypes DEF Sends, NoImage
  <2>5. Below(writes, PhotoOps, doc.url, Sends(here)')
    <3>1. \A k \in DOMAIN writes : writes[k].op \in PhotoOps => writes[k].value <= picks + 1
        BY DEF Made, MadeWrites, PhotoOps
    <3> QED
        BY <2>4, <3>1, ValueTypes DEF Below, Made, MadeWrites
  <2> QED
      BY <2>1, <2>2, <2>3, <2>5, PatientSubmitted
<1>3. CASE UpdateAccount
  <2> PICK here : here = top
      OBVIOUS
  <2>1. top # Nobody /\ top \in Openings /\ Ready /\ info[top] \in Controller
      BY <1>3, TapType DEF UpdateAccount, Tap
  <2>2. /\ renewals' = Append(renewals, top) /\ top' = Nobody
        /\ UNCHANGED <<doc, writes, uploads, loads>>
      BY <1>3 DEF UpdateAccount, server
  <2>3. Below(writes, PhotoOps, doc.url, info[top].image)
      BY <2>1, ReadyShows DEF Patient
  <2>4. PICK p : /\ info' = [info EXCEPT ![top].picked = p]
                 /\ info[top].image # NoImage => p = info[top].image
                 /\ info[top].image = NoImage => p = info[top].picked
    <3>1. CASE info[top].image # NoImage
        BY <1>3, <2>1, <3>1 DEF UpdateAccount
    <3>2. CASE info[top].image = NoImage
        BY <1>3, <2>1, <3>2 DEF UpdateAccount
    <3> QED
        BY <3>1, <3>2
  <2>5. /\ \A i \in Openings : info'[i].covered = info[i].covered
        /\ info'[top].text = info[top].text /\ info'[top].picked = p
      BY <2>1, <2>4 DEF TypeInv, TypeOK, Controller
  <2>6. Below(writes, PhotoOps, doc.url, Sends(here)')
    <3>1. CASE info[top].image # NoImage
        BY <2>3, <2>4, <2>5, <3>1 DEF Sends
    <3>2. CASE info[top].image = NoImage
      <4>1. Sends(here)' \in Photos
          BY <2>1, <2>4, <2>5, <3>2, ConstantTypes DEF Sends, Controller
      <4>2. NoImage <= Sends(here)' /\ Sends(here)' \in Int /\ NoImage \in Int
        <5>1. \A v \in Photos : NoImage <= v /\ v \in Int
            BY Numbers
        <5> QED
            BY <4>1, <5>1, ConstantTypes
      <4> HIDE DEF NoImage
      <4>3. Below(writes, PhotoOps, doc.url, NoImage)
          BY <2>3, <3>2
      <4> QED
          BY <4>2, <4>3, ValueTypes DEF Below
    <3> QED
        BY <3>1, <3>2
  <2> QED
      BY <2>1, <2>2, <2>5, <2>6, PatientSubmitted
<1> QED
    BY <1>1, <1>2, <1>3

LEMMA PatientRenewed ==
    ASSUME TypeInv, Patient, Renewed
    PROVE  Patient'
<1> PICK i : i = Head(renewals)
    OBVIOUS
<1>1. /\ i \in Openings /\ renewals # <<>> /\ renewals' = Tail(renewals)
      /\ UNCHANGED <<doc, screens, loads, fetches, counters, observed>>
    BY RenewedWay
<1>2. renewals \in Seq(Openings) /\ uploads \in Seq(Upload) /\ writes \in Seq(Write)
    BY DEF TypeInv, TypeOK
<1>3. renewals' = <<>> /\ uploads = <<>> /\ i = renewals[1] /\ 1 \in DOMAIN renewals
    BY <1>1, <1>2 DEF Patient, OneAtATime
<1>4. CASE UNCHANGED <<uploads, info, spinner, writes>>
  <2>1. OneAtATime'
      BY <1>3, <1>4 DEF OneAtATime
  <2>2. Moving'
      BY <1>1, <1>3, <1>4 DEF Patient, Moving
  <2>3. Lifting'
      BY <1>1, <1>3, <1>4 DEF Patient, Lifting, OwnText, screens, observed
  <2> QED
      BY <2>1, <2>2, <2>3 DEF Patient
<1>5. CASE ~UNCHANGED <<uploads, info, spinner, writes>>
  <2>1. PICK image \in Photos :
           /\ image = (IF info[i].picked = NoImage THEN Placeholder ELSE info[i].picked)
           /\ uploads' = Append(uploads, [kind |-> "own", owner |-> i, image |-> image])
      BY <1>5, RenewedWay
  <2>2. PICK w : w = [op |-> "text", value |-> info[i].text, owner |-> i]
      OBVIOUS
  <2>3. /\ info' = [info EXCEPT ![i].covered = @ + 1] /\ spinner' = i
        /\ writes' = Append(writes, w)
      BY <1>5, <2>2, RenewedWay
  <2>4. w \in Write /\ w.op = "text" /\ w.value = info[i].text /\ w.owner = i
      BY <1>1, <2>2, ConstantTypes DEF Write, TypeInv, TypeOK, Controller
  <2>5. uploads' = <<[kind |-> "own", owner |-> i, image |-> image]>>
      BY <1>3, <2>1
  <2>6. OneAtATime'
      BY <1>3, <2>5 DEF OneAtATime
  <2>7. Below(writes, TextOps, doc.text, w.value) /\ Below(writes, PhotoOps, doc.url, image)
      BY <1>3, <2>1, <2>4 DEF Patient, Moving, Sends
  <2>8. /\ Rising(writes', TextOps, doc.text) /\ Rising(writes', PhotoOps, doc.url)
        /\ Below(writes', PhotoOps, doc.url, image)
    <3>1. w.op \in TextOps /\ w.op \notin PhotoOps
        BY <2>4 DEF TextOps, PhotoOps
    <3>2. Rising(writes, TextOps, doc.text) /\ Rising(writes, PhotoOps, doc.url)
        BY DEF Patient, Moving
    <3>3. doc.text \in Int /\ doc.url \in Int
        BY ValueTypes
    <3>4. Rising(writes', TextOps, doc.text)
        BY <1>2, <2>3, <2>4, <2>7, <3>2, <3>3, RisingAppend
    <3>5. Rising(writes', PhotoOps, doc.url)
        BY <1>2, <2>3, <2>4, <3>1, <3>2, <3>3, RisingAppend
    <3>6. Below(writes', PhotoOps, doc.url, image)
        BY <1>2, <2>3, <2>4, <2>7, <3>1, BelowAppend
    <3> QED
        BY <3>4, <3>5, <3>6
  <2>9. Moving'
      BY <1>1, <1>3, <2>5, <2>8 DEF Moving
  <2>10. /\ info'[i].covered = info[i].covered + 1 /\ info[i].covered = 0
         /\ \A j \in Openings : j # i => info'[j].covered = info[j].covered
      BY <1>1, <1>3, <2>3 DEF Patient, Lifting, TypeInv, TypeOK, Controller
  <2>11. top # Nobody => top \in Openings /\ info[top].covered = 0 /\ top' = top
      BY <1>1, <1>3 DEF Patient, Lifting, screens, TypeInv, TypeOK, Nobody, Openings
  <2>12. OwnText(i)'
      BY <1>2, <2>3, <2>4, AppendOf DEF OwnText
  <2>13. ASSUME top' # Nobody, info'[top'].covered > 0
         PROVE  info'[top'].covered = 1 /\ spinner' = top' /\ OwnText(top)'
    <3>1. top' = top /\ top = i
        BY <1>1, <2>10, <2>11, <2>13 DEF screens
    <3> QED
        BY <2>3, <2>10, <2>12, <3>1 DEF OwnText
  <2>14. Lifting'
      BY <1>3, <2>13 DEF Lifting
  <2> QED
      BY <2>6, <2>9, <2>14 DEF Patient
<1> QED
    BY <1>4, <1>5

LEMMA PatientUploaded ==
    ASSUME TypeInv, Patient, NEW k \in DOMAIN uploads, Uploaded(k)
    PROVE  Patient'
<1>1. /\ uploads' = RemoveAt(uploads, k) /\ uploads \in Seq(Upload) /\ writes \in Seq(Write)
      /\ UNCHANGED <<doc, screens, info, pending, spinner, counters, observed>>
    BY DEF Uploaded, TypeInv, TypeOK
<1>2. Len(uploads') = Len(uploads) - 1 /\ uploads' \in Seq(Upload) /\ renewals \in Seq(Openings)
    BY <1>1, RemoveAtType DEF TypeInv, TypeOK
<1>3. renewals = <<>> /\ renewals' = <<>> /\ uploads' = <<>>
    BY <1>1, <1>2 DEF Patient, OneAtATime, pending
<1>4. OneAtATime'
    BY <1>3 DEF OneAtATime
<1>5. CASE UNCHANGED writes
  <2>1. Moving'
      BY <1>1, <1>3, <1>5 DEF Patient, Moving
  <2>2. Lifting'
      BY <1>1, <1>3, <1>5 DEF Patient, Lifting, OwnText, screens, observed
  <2> QED
      BY <1>4, <2>1, <2>2 DEF Patient
<1>6. CASE ~UNCHANGED writes
  <2>1. PICK op \in {"url", "ref"} :
           writes' = Append(writes, [op |-> op, value |-> uploads[k].image,
                                     owner |-> uploads[k].owner])
      BY <1>6, Zenon DEF Uploaded
  <2>2. PICK w : w = [op |-> op, value |-> uploads[k].image, owner |-> uploads[k].owner]
      OBVIOUS
  <2>3. w \in Write /\ w.op \notin TextOps /\ w.value = uploads[k].image /\ writes' = Append(writes, w)
    <3>1. uploads[k] \in Upload
        BY <1>1
    <3> QED
        BY <2>1, <2>2, <3>1 DEF Upload, Write, TextOps
  <2>4. Below(writes, PhotoOps, doc.url, w.value)
      BY <2>3 DEF Patient, Moving
  <2>5. doc.text \in Int /\ doc.url \in Int
      BY ValueTypes
  <2>6. Rising(writes, TextOps, doc.text) /\ Rising(writes, PhotoOps, doc.url)
      BY DEF Patient, Moving
  <2>7. Rising(writes', TextOps, doc.text)
      BY <1>1, <2>3, <2>5, <2>6, RisingAppend
  <2>8. Rising(writes', PhotoOps, doc.url)
      BY <1>1, <2>3, <2>4, <2>5, <2>6, RisingAppend
  <2>9. Moving'
      BY <1>1, <1>3, <2>7, <2>8 DEF Moving
  <2>10. \A i : OwnText(i) => OwnText(i)'
      BY <1>1, <2>3, AppendOf DEF OwnText
  <2>11. Lifting'
      BY <1>1, <1>3, <2>10 DEF Patient, Lifting, OwnText, screens, observed
  <2> QED
      BY <1>4, <2>9, <2>11 DEF Patient
<1> QED
    BY <1>5, <1>6

\* The oldest write leaves the queue, taken or refused.
LEMMA PatientTaken ==
    ASSUME TypeInv, Patient, writes # <<>>, writes' = Tail(writes), NEW w, w = Head(writes),
           UNCHANGED <<uploads, renewals, loads>>,
           \/ UNCHANGED doc
           \/ doc'.text = Then(w, TextOps, doc.text) /\ doc'.url = Then(w, PhotoOps, doc.url),
           \A i \in Openings : info'[i].text = info[i].text /\ info'[i].picked = info[i].picked
    PROVE  OneAtATime' /\ Moving'
<1>1. writes \in Seq(Write) /\ doc.text \in Int /\ doc.url \in Int
    BY ValueTypes DEF TypeInv, TypeOK
<1>2. Rising(writes', TextOps, doc'.text) /\ Rising(writes', PhotoOps, doc'.url)
    BY <1>1, RisingTail DEF Patient, Moving
<1>3. \A v : /\ Below(writes, TextOps, doc.text, v) => Below(writes', TextOps, doc'.text, v)
             /\ Below(writes, PhotoOps, doc.url, v) => Below(writes', PhotoOps, doc'.url, v)
    BY <1>1, BelowTail
<1>4. ASSUME NEW k \in DOMAIN renewals, NEW i, i = renewals[k]
      PROVE  /\ i \notin loads /\ Below(writes', TextOps, doc'.text, info'[i].text)
             /\ Below(writes', PhotoOps, doc'.url, Sends(i)')
  <2>1. i \in Openings
      BY <1>4 DEF TypeInv, TypeOK
  <2>2. Sends(i)' = Sends(i)
      BY <2>1 DEF Sends
  <2>3. Below(writes, TextOps, doc.text, info[i].text) /\ Below(writes, PhotoOps, doc.url, Sends(i))
      BY <1>4 DEF Patient, Moving
  <2> QED
      BY <1>3, <1>4, <2>1, <2>2, <2>3 DEF Patient, Moving
<1>5. \A k \in DOMAIN uploads' : Below(writes', PhotoOps, doc'.url, uploads'[k].image)
    BY <1>3 DEF Patient, Moving
<1>6. Moving'
    BY <1>2, <1>4, <1>5 DEF Moving
<1> QED
    BY <1>6 DEF Patient, OneAtATime

\* The text of an opening is still on its way, if the write that left was not it.
LEMMA OwnTextTail ==
    ASSUME writes \in Seq(Write), writes # <<>>, writes' = Tail(writes), NEW i, OwnText(i),
           ~(Head(writes).op = "text" /\ Head(writes).owner = i)
    PROVE  OwnText(i)'
<1>1. PICK k \in DOMAIN writes : writes[k].op = "text" /\ writes[k].owner = i
    BY DEF OwnText
<1>2. Head(writes) = writes[1]
      /\ \A j \in DOMAIN writes : j # 1 => j - 1 \in DOMAIN writes' /\ writes'[j - 1] = writes[j]
    BY TailOf
<1>3. k - 1 \in DOMAIN writes' /\ writes'[k - 1] = writes[k]
    BY <1>1, <1>2
<1> QED
    BY <1>1, <1>3 DEF OwnText

LEMMA PatientAcknowledged ==
    ASSUME TypeInv, Patient, Acknowledge
    PROVE  Patient' /\ doc.text <= doc'.text /\ doc.url <= doc'.url
<1> PICK w : w = Head(writes)
    OBVIOUS
<1>1. /\ writes # <<>> /\ w \in Write /\ writes' = Tail(writes) /\ doc' = Effect(doc, w)
      /\ UNCHANGED <<uploads, screens, pending, counters, observed>>
    BY AcknowledgeWay
<1>2. /\ doc \in Document /\ writes \in Seq(Write) /\ doc.text \in Int /\ doc.url \in Int
      /\ info \in [Openings -> Controller]
    BY ValueTypes DEF TypeInv, TypeOK
<1>3. doc'.text = Then(w, TextOps, doc.text) /\ doc'.url = Then(w, PhotoOps, doc.url)
  <2>1. w.op \in {"text", "url", "ref"}
      BY <1>1 DEF Write
  <2> QED
      BY <1>1, <1>2, <2>1, EffectType DEF Then, TextOps, PhotoOps
<1>4. \/ UNCHANGED <<info, spinner>> /\ ~(w.op = "text" /\ w.owner # Nobody /\ spinner # Nobody)
      \/ /\ spinner \in Openings /\ spinner # Nobody /\ spinner' = Nobody
         /\ info' = [info EXCEPT ![spinner].covered = @ - 1]
    BY AcknowledgeWay DEF TypeInv, TypeOK, Nobody, Openings
<1>5. \A i \in Openings : info'[i].text = info[i].text /\ info'[i].picked = info[i].picked
    BY <1>2, <1>4 DEF Controller
<1>6. OneAtATime' /\ Moving'
    BY <1>1, <1>3, <1>5, PatientTaken DEF pending
<1>7. doc.text <= doc'.text /\ doc.url <= doc'.url
    BY <1>1, <1>2, <1>3, RisingTail DEF Patient, Moving
<1>8. Lifting'
  <2>1. \A k \in DOMAIN renewals : renewals[k] \in Openings
      BY DEF TypeInv, TypeOK
  <2>2. top' = top /\ renewals' = renewals /\ refused' = refused /\ (top # Nobody => top \in Openings)
      BY <1>1 DEF screens, pending, observed, TypeInv, TypeOK, Nobody, Openings
  <2>3. CASE UNCHANGED <<info, spinner>> /\ ~(w.op = "text" /\ w.owner # Nobody /\ spinner # Nobody)
    <3>1. ASSUME top # Nobody, spinner = top, OwnText(top) PROVE OwnText(top)'
      <4>1. PICK i : i = top
          OBVIOUS
      <4>2. OwnText(i)'
          BY <1>1, <1>2, <2>3, <3>1, <4>1, OwnTextTail
      <4> QED
          BY <2>2, <4>1, <4>2 DEF OwnText
    <3> QED
        BY <2>2, <2>3, <3>1 DEF Patient, Lifting
  <2>4. CASE /\ spinner \in Openings /\ spinner # Nobody /\ spinner' = Nobody
             /\ info' = [info EXCEPT ![spinner].covered = @ - 1]
    <3>1. info[spinner].covered > 0 /\ info[spinner].covered \in Nat
        BY <2>4, ValueTypes DEF TypeInv, Anchored
    <3>2. /\ info'[spinner].covered = info[spinner].covered - 1
          /\ \A i \in Openings : i # spinner => info'[i].covered = info[i].covered
        BY <1>2, <2>4, <3>1 DEF Controller
    <3>3. \A i \in Openings : info[i].covered = 0 => info'[i].covered = 0
        BY <3>1, <3>2
    <3>4. ASSUME top # Nobody, info'[top].covered > 0
          PROVE  info'[top].covered = 1 /\ top \in refused
      <4>1. info[top].covered > 0
          BY <2>2, <3>3, <3>4, ValueTypes
      <4>2. info[top].covered = 1 /\ (top \in refused \/ spinner = top)
          BY <3>4, <4>1 DEF Patient, Lifting
      <4>3. top # spinner
          BY <3>2, <3>4, <4>2
      <4> QED
          BY <2>2, <3>2, <3>4, <4>2, <4>3
    <3> QED
        BY <2>1, <2>2, <3>3, <3>4 DEF Patient, Lifting
  <2> QED
      BY <1>4, <2>3, <2>4
<1> QED
    BY <1>6, <1>7, <1>8 DEF Patient

LEMMA PatientRefused == ASSUME TypeInv, Patient, Refuse PROVE Patient'
<1>1. /\ writes # <<>> /\ writes' = Tail(writes) /\ writes \in Seq(Write)
      /\ UNCHANGED <<doc, uploads, screens, info, pending, spinner>>
    BY DEF Refuse, TypeInv, TypeOK
<1>2. OneAtATime' /\ Moving'
    BY <1>1, PatientTaken DEF pending
<1>3. refused' = IF Head(writes).op = "text"
                   THEN refused \cup ({Head(writes).owner} \cap Openings) ELSE refused
    BY DEF Refuse
<1>4. top' = top /\ (top # Nobody => top \in Openings)
    BY <1>1 DEF screens, TypeInv, TypeOK, Nobody, Openings
<1>5. ASSUME top # Nobody, spinner = top, OwnText(top), top \notin refused'
      PROVE  OwnText(top)'
  <2>1. PICK i : i = top
      OBVIOUS
  <2>2. ~(Head(writes).op = "text" /\ Head(writes).owner = i)
      BY <1>3, <1>4, <1>5, <2>1
  <2>3. OwnText(i)'
      BY <1>1, <1>5, <2>1, <2>2, OwnTextTail
  <2> QED
      BY <1>4, <2>1, <2>3 DEF OwnText
<1>6. Lifting'
    BY <1>1, <1>3, <1>4, <1>5 DEF Patient, Lifting, pending
<1> QED
    BY <1>2, <1>6 DEF Patient

LEMMA PatientRestarted == ASSUME TypeInv, Patient, Restart PROVE Patient'
<1>1. /\ writes' = [k \in DOMAIN writes |-> [writes[k] EXCEPT !.owner = Nobody]]
      /\ uploads' = <<>> /\ renewals' = <<>> /\ top' = Nobody /\ doc' = doc
    BY DEF Restart
<1>2. /\ DOMAIN writes' = DOMAIN writes
      /\ \A k \in DOMAIN writes : writes'[k].op = writes[k].op /\ writes'[k].value = writes[k].value
  <2>1. \A k \in DOMAIN writes : writes[k] \in Write
      BY ValueTypes
  <2>2. \A w \in Write : /\ [w EXCEPT !.owner = Nobody].op = w.op
                          /\ [w EXCEPT !.owner = Nobody].value = w.value
      BY DEF Write
  <2>3. \A k \in DOMAIN writes : writes'[k] = [writes[k] EXCEPT !.owner = Nobody]
      BY <1>1
  <2> QED
      BY <1>1, <2>1, <2>2, <2>3
<1>3. Rising(writes', TextOps, doc.text) /\ Rising(writes', PhotoOps, doc.url)
    BY <1>2 DEF Patient, Moving, Rising
<1>4. Moving' /\ Lifting' /\ OneAtATime'
    BY <1>1, <1>3 DEF Moving, Lifting, OneAtATime
<1> QED
    BY <1>4 DEF Patient

LEMMA PatientStep ==
    TypeInv /\ TypeInv' /\ Made /\ Patient /\ ~hasty' /\ [Next]_vars => Patient'
<1> SUFFICES ASSUME TypeInv, TypeInv', Made, Patient, ~hasty', [Next]_vars PROVE Patient'
    OBVIOUS
<1>1. CASE UNCHANGED vars
    BY <1>1 DEF Patient, OneAtATime, Moving, Lifting, Rising, Below, Sends, OwnText, vars,
       server, screens, pending, counters, observed
<1>2. CASE Next
    BY <1>2, PatientQuiet, PatientSubmits, PatientLookups, PatientRenewed, PatientUploaded,
       PatientAcknowledged, PatientRefused, PatientRestarted DEF Next
<1> QED
    BY <1>1, <1>2

\* Once hasty, always hasty.
LEMMA HastyStays == TypeInv /\ [Next]_vars /\ hasty => hasty'
<1> SUFFICES ASSUME TypeInv, [Next]_vars, hasty PROVE hasty'
    OBVIOUS
<1>1. CASE UNCHANGED vars
    BY <1>1 DEF vars, observed
<1>2. CASE ChooseLibrary \/ Picked \/ UpdateAccount
    BY <1>2, Zenon DEF ChooseLibrary, Picked, UpdateAccount
<1>3. CASE Next /\ ~(ChooseLibrary \/ Picked \/ UpdateAccount)
    BY <1>3 DEF Next, Open, Type, ChooseCamera, PickCancelled, Back, Left, Loaded, Fetched,
       Renewed, Uploaded, Acknowledge, Refuse, Restart, observed
<1> QED
    BY <1>1, <1>2, <1>3

LEMMA NextPatient == TypeInv /\ TypeInv' /\ PatientInv /\ [Next]_vars => PatientInv'
BY MadeStep, PatientStep, HastyStays DEF PatientInv

LEMMA PatientInvariant == Spec => []PatientInv
BY InitPatient, TypeInvariant, NextPatient, PTL DEF Spec

\* For a user who lets things arrive, no overlay outlives its save, although
\* all screens share one activityView: what covers the screen is the overlay it
\* holds, and the text that overlay waits for is still on its way.
THEOREM CoverCorrect == Spec => []CoverLifts
<1>1. TypeInv /\ PatientInv => CoverLifts
    BY DEF PatientInv, Patient, Lifting, OwnText, CoverLifts
<1> QED
    BY <1>1, TypeInvariant, PatientInvariant, PTL

\* For such a user the document only moves on, to newer texts and photos: what
\* updateUser's and uploadImage's closures write when they run is not older than
\* anything before it in Firestore's queue.
THEOREM EditsCorrect == Spec => EditsMoveOn
<1>1. TypeInv /\ TypeInv' /\ PatientInv /\ [Next]_vars
        => [~hasty' => doc'.text >= doc.text /\ doc'.url >= doc.url]_vars
  <2> SUFFICES ASSUME TypeInv, PatientInv, [Next]_vars, ~hasty', ~UNCHANGED vars
               PROVE  doc'.text >= doc.text /\ doc'.url >= doc.url
      OBVIOUS
  <2>1. doc.text \in Int /\ doc.url \in Int
      BY ValueTypes
  <2>2. CASE UNCHANGED doc
      BY <2>1, <2>2
  <2>3. CASE Acknowledge
    <3>1. Patient
        BY <2>3, HastyStays DEF PatientInv
    <3>2. doc' \in Document
        BY <2>3, AcknowledgeStep DEF TypeInv, TypeOK
    <3>3. doc'.text \in Int /\ doc'.url \in Int
        BY <3>2, Numbers DEF Document
    <3> QED
        BY <2>1, <2>3, <3>1, <3>3, PatientAcknowledged
  <2>4. Acknowledge \/ UNCHANGED doc
      BY DEF Next, Open, Type, ChooseCamera, ChooseLibrary, Picked, PickCancelled, UpdateAccount,
         Back, Left, Loaded, Fetched, Renewed, Uploaded, Refuse, Restart, server, vars
  <2> QED
      BY <2>2, <2>3, <2>4
<1> QED
    BY <1>1, TypeInvariant, PatientInvariant, PTL DEF Spec, EditsMoveOn
=============================================================================
