--------------------------- MODULE RegistrationProofs ---------------------------
(***************************************************************************)
(* What registration, sign-in and the back button do to the users'         *)
(* documents, for any numbers of users, slots and addresses, any bound     *)
(* MaxPending and any set of faults.                                       *)
(*                                                                         *)
(* Everything that is under way and can still change something -- a        *)
(* request, a handler in the main queue, a write of the Firestore client   *)
(* -- carries a stage, a user and the screen it was started from.  The     *)
(* inductive invariant says of each what Good says of those three.         *)
(***************************************************************************)
EXTENDS AccountProofs

Elems(q) == {q[i] : i \in DOMAIN q}

(***************************************************************************)
(* Stages.  A registration is "create" until the server has answered,      *)
(* "answered" until the answer is processed, "created" until the document  *)
(* is saved, and "saved" until the verification screen is shown.           *)
(***************************************************************************)
Registrations == {"create", "answered", "created", "saved"}

Stages == Registrations \cup CallKinds \cup HandlerKinds \cup WriteOps \cup {"entered"}

CallStage(c) ==
    IF c.k = "create" /\ c.answer \in {"verified", "unverified"} THEN "answered" ELSE c.k

HandlerStage(h) ==
    IF h.k = "create" THEN "created" ELSE IF h.k = "signIn" THEN "entered" ELSE h.k

WriteStage(w) == IF w.op = "save" THEN "created" ELSE w.op

WriteUser(w) == IF w.op = "photo" THEN w.photo ELSE w.doc

\* The screen a stage is started from.
Home(stage) ==
    IF stage \in Registrations THEN "Register"
    ELSE IF stage \in {"signIn", "entered", "get", "missing"} THEN "Welcome"
    ELSE "Verify"

Owned(stage, w) == OnScreen(w) => w \in DOMAIN path /\ path[w] = Home(stage)

AtRegister(w) == w = Gone \/ (w = Len(path) /\ Top = "Register")

(***************************************************************************)
(* Users.                                                                  *)
(***************************************************************************)
Born(u) == u \in Uids => accounts[u].status # "absent"

\* A reload for u is in flight, or its handler may still delete the account.
Reloading(u) ==
    \/ \E s \in Slots : calls[s].k \in {"back", "continue"} /\ calls[s].uid = u
    \/ \E h \in Elems(mainQ) : h.k = "back" /\ h.uid = u

\* Nothing on its way can end the session of u.
Newcomer(u) ==
    /\ u \in Uids /\ Live(u)
    /\ deleting[u] = "no" /\ u \notin erased /\ ~Reloading(u)

\* A document with the profile of u was saved, whatever became of it.
Recorded(u) == u \in Uids /\ (docs[u].profile \/ u \in erased)

(***************************************************************************)
(* The invariant.                                                          *)
(***************************************************************************)
Good(stage, u, w) ==
    /\ Owned(stage, w)
    /\ stage # "photo" => Born(u)
    /\ stage = "delete" => u \in erased
    /\ ~astray =>
         /\ stage \in Registrations => AtRegister(w)
         /\ stage \in Registrations \ {"create"} /\ w # Gone => Newcomer(u)
         /\ stage \in {"created", "saved"} /\ w # Gone => session = u
         /\ stage \in {"back", "continue"} /\ OnScreen(w) => session \in {NoUid, u}
         /\ stage = "signIn" /\ OnScreen(w) => Top = "Welcome"
         /\ stage \in {"saved", "photo"} => Recorded(u)

GoodCall(c)    == Good(CallStage(c), c.uid, c.owner)
GoodHandler(h) == Good(HandlerStage(h), h.uid, h.owner)
GoodWrite(w)   == Good(WriteStage(w), WriteUser(w), w.owner)

CallsGood    == \A s \in Slots : GoodCall(calls[s])
HandlersGood == \A h \in Elems(mainQ) : GoodHandler(h)
WritesGood   == \A u \in Users : \A w \in Elems(writes[u]) : GoodWrite(w)

Outer == {"Main", "SplashIn", "SplashOut", "SplashOver"}

\* The stacks there are: the tab bar and what was put over it, a bare
\* verification screen, or the screens from Welcome on.
Shape ==
    \/ \A i \in DOMAIN path : path[i] \in Outer
    \/ path = <<"Verify">>
    \/ \A i \in DOMAIN path : /\ i = 1 => path[i] = "Welcome"
                              /\ i = 2 => path[i] = "Register"
                              /\ i > 2 => path[i] \in {"Verify", "Info"}

People ==
    /\ Born(session)
    /\ \A u \in Uids : deleting[u] # "no" \/ u \in erased => Born(u)

RegCall(c)    == c.k = "create"
RegHandler(h) == h.k \in {"create", "saved"}
RegWrite(w)   == w.op = "save"

NoCall    == \A s \in Slots : ~RegCall(calls[s])
NoHandler == \A i \in DOMAIN mainQ : ~RegHandler(mainQ[i])
NoWrite   == \A u \in Users : \A i \in DOMAIN writes[u] : ~RegWrite(writes[u][i])

OneCall == \A s, t \in Slots : RegCall(calls[s]) /\ RegCall(calls[t]) => s = t

OneHandler ==
    \A i, j \in DOMAIN mainQ : RegHandler(mainQ[i]) /\ RegHandler(mainQ[j]) => i = j

OneWrite ==
    \A u, v \in Users : \A i \in DOMAIN writes[u], j \in DOMAIN writes[v] :
        RegWrite(writes[u][i]) /\ RegWrite(writes[v][j]) => u = v /\ i = j

\* At most one registration is unfinished.
OneRegistration ==
    /\ OneCall /\ OneHandler /\ OneWrite
    /\ NoCall \/ (NoHandler /\ NoWrite)
    /\ NoHandler \/ NoWrite

\* A photo is on its way, or referred to, only if there was a profile first.
Photos ==
    /\ \A u \in uploads : Recorded(u)
    /\ \A u \in Uids : docs[u].photo \in Uids => Recorded(docs[u].photo)

\* Behind the save of the document of one of "gone" its deletion is queued.
Followed(q, gone) ==
    \A i \in DOMAIN q :
        RegWrite(q[i]) /\ q[i].doc \in gone
        => \E j \in DOMAIN q : i < j /\ q[j] = Delete(q[i].doc)

Ordered(queues, gone) ==
    /\ queues[NoUid] = <<>>
    /\ \A u \in Uids : \A w \in Elems(queues[u]) : w.doc = u
    /\ \A u \in Users : Followed(queues[u], gone)

InfoVerified == OnPath("Info") => session = NoUid \/ VerifiedOrGone(session)

Steady == OneRegistration /\ Photos /\ Ordered(writes, erased) /\ InfoVerified

RegInv ==
    /\ Shape /\ People
    /\ CallsGood /\ HandlersGood /\ WritesGood
    /\ ~astray => Steady

(***************************************************************************)
(* Sequences and their elements.                                           *)
(***************************************************************************)
LEMMA ElemsAppend ==
    ASSUME NEW S, NEW q \in Seq(S), NEW x \in S
    PROVE  Elems(Append(q, x)) = Elems(q) \cup {x}
<1>1. /\ DOMAIN Append(q, x) = DOMAIN q \cup {Len(q) + 1}
      /\ \A i \in DOMAIN q : Append(q, x)[i] = q[i]
      /\ Append(q, x)[Len(q) + 1] = x
    OBVIOUS
<1> QED
    BY <1>1 DEF Elems

LEMMA TailPositions ==
    ASSUME NEW S, NEW q \in Seq(S), q # <<>>
    PROVE  /\ Tail(q) \in Seq(S) /\ Head(q) = q[1] /\ 1 \in DOMAIN q
           /\ \A i \in DOMAIN Tail(q) : i \in Nat /\ i + 1 \in DOMAIN q /\ Tail(q)[i] = q[i + 1]
           /\ \A i \in DOMAIN q : i = 1 \/ (i - 1 \in DOMAIN Tail(q) /\ Tail(q)[i - 1] = q[i])
OBVIOUS

LEMMA ElemsTail ==
    ASSUME NEW S, NEW q \in Seq(S), q # <<>>
    PROVE  Head(q) \in Elems(q) /\ Elems(Tail(q)) \subseteq Elems(q)
BY TailPositions DEF Elems

\* An element whose owner changed was an element before.
LEMMA ElemsReownedHandlers ==
    ASSUME NEW q \in Seq(Handlers), NEW change \in Changes, NEW h \in Elems(Reowned(q, change))
    PROVE  \E g \in Elems(q) : /\ g \in Handlers
                               /\ h.k = g.k /\ h.uid = g.uid /\ h.owner = change[g.owner]
<1>1. PICK i \in DOMAIN q : h = [q[i] EXCEPT !.owner = change[@]]
    BY DEF Elems, Reowned
<1>2. q[i] \in Handlers /\ q[i] \in Elems(q)
    BY DEF Elems
<1> QED
    BY <1>1, <1>2 DEF Handlers

LEMMA ElemsReownedWrites ==
    ASSUME NEW q \in Seq(Write), NEW change \in Changes, NEW w \in Elems(Reowned(q, change))
    PROVE  \E g \in Elems(q) : /\ g \in Write
                               /\ w.op = g.op /\ w.doc = g.doc /\ w.photo = g.photo
                               /\ w.owner = change[g.owner]
<1>1. PICK i \in DOMAIN q : w = [q[i] EXCEPT !.owner = change[@]]
    BY DEF Elems, Reowned
<1>2. q[i] \in Write /\ q[i] \in Elems(q)
    BY DEF Elems
<1> QED
    BY <1>1, <1>2 DEF Write

(***************************************************************************)
(* The stack of screens.                                                   *)
(***************************************************************************)
PathType == path \in Seq(Screens) \ {<<>>}

LEMMA PathFacts ==
    ASSUME PathType
    PROVE  /\ Len(path) \in Nat \ {0} /\ DOMAIN path = 1..Len(path)
           /\ Top \in Screens /\ \A i \in DOMAIN path : path[i] \in Screens
BY DEF PathType, Top

LEMMA WelcomeIsRoot == PathType /\ Shape /\ Top = "Welcome" => path = <<"Welcome">> /\ Len(path) = 1
<1> SUFFICES ASSUME PathType, Shape, Top = "Welcome"
             PROVE  path = <<"Welcome">> /\ Len(path) = 1
    OBVIOUS
<1>1. Len(path) = 1
    BY PathFacts DEF Shape, Top, Outer
<1> QED
    BY <1>1 DEF Top, PathType

LEMMA RegisterIsSecond ==
    PathType /\ Shape /\ Top = "Register"
    => Len(path) = 2 /\ path[1] = "Welcome" /\ path[2] = "Register"
BY PathFacts DEF Shape, Top, Outer

\* Over a verification screen there are only such screens and WelcomeInfo.
LEMMA VerifyNearTop ==
    PathType /\ Shape /\ (\E i \in DOMAIN path : path[i] \in {"Verify", "Info"})
    => Top \in {"Verify", "Info"}
<1> SUFFICES ASSUME PathType, Shape,
                    NEW i \in DOMAIN path, path[i] \in {"Verify", "Info"}
             PROVE  Top \in {"Verify", "Info"}
    OBVIOUS
<1>1. ~\A j \in DOMAIN path : path[j] \in Outer
    BY DEF Outer
<1>2. CASE path = <<"Verify">>
    BY <1>2 DEF Top
<1>3. CASE \A j \in DOMAIN path : /\ j = 1 => path[j] = "Welcome"
                                  /\ j = 2 => path[j] = "Register"
                                  /\ j > 2 => path[j] \in {"Verify", "Info"}
  <2>1. Len(path) \in DOMAIN path /\ i > 2 /\ Len(path) >= i
      BY <1>3, PathFacts
  <2> QED
      BY <1>3, <2>1 DEF Top
<1> QED
    BY <1>1, <1>2, <1>3 DEF Shape

\* Nothing on the tab bar, or on a Splash, waits for an answer.
LEMMA OuterOwnsNothing ==
    PathType /\ Shape /\ Top \in Outer => \A i \in DOMAIN path : path[i] \in Outer
<1> SUFFICES ASSUME PathType, Shape, Top \in Outer
             PROVE  \A i \in DOMAIN path : path[i] \in Outer
    OBVIOUS
<1>1. Len(path) \in DOMAIN path /\ Len(path) \in Nat \ {0}
    BY PathFacts
<1>2. path # <<"Verify">>
    BY DEF Top, Outer
<1> QED
    BY <1>1, <1>2 DEF Shape, Top, Outer

(***************************************************************************)
(* Carrying what is Good over a step in which what happens to a controller *)
(* is "change".                                                            *)
(***************************************************************************)
Carries(change, kinds) ==
    \A k \in kinds, u \in Users, w \in Owners, v \in Owners :
        v = change[w] /\ Good(k, u, w) => Good(k, u, v)'

\* What most steps only add to.
Grows ==
    /\ astray => astray'
    /\ erased \subseteq erased'
    /\ \A u \in Uids : (Born(u) => Born(u)') /\ (Recorded(u) => Recorded(u)')

\* The screens that own something and stay in front stay where they are.
ScreensKept(change) ==
    \A w \in Owners : OnScreen(change[w]) =>
        /\ change[w] = w
        /\ w \in DOMAIN path /\ path[w] \notin Outer => w \in DOMAIN path' /\ path'[w] = path[w]

\* A registration under way loses its screen, or nothing it depends on changes.
RegistrationKept(change) ==
    ~astray' => \A w \in Owners : AtRegister(w) =>
        \/ change[w] = Gone
        \/ /\ change[w] = w /\ UNCHANGED path
           /\ session' = session \/ ~Newcomer(session)
           /\ \A u \in Uids : Newcomer(u) => Newcomer(u)'

LEMMA Carrying ==
    ASSUME NEW change \in Changes, NEW kinds \in SUBSET Stages, Grows, ScreensKept(change),
           \/ session' \in {session, NoUid} \/ astray'
           \/ \A i \in DOMAIN path : path[i] # "Verify",
           kinds \cap Registrations = {} \/ RegistrationKept(change),
           \/ "signIn" \notin kinds
           \/ \A w \in Owners : OnScreen(change[w]) /\ Top = "Welcome" => Top' = "Welcome"
    PROVE  Carries(change, kinds)
<1> SUFFICES ASSUME NEW k \in kinds, NEW u \in Users, NEW w \in Owners, NEW v \in Owners,
                    v = change[w], Good(k, u, w)
             PROVE  Good(k, u, v)'
    BY DEF Carries
<1>1. Home(k) \notin Outer
    BY DEF Home, Outer
<1>2. OnScreen(v) => v = w /\ OnScreen(w)
    BY DEF ScreensKept
<1>3. Owned(k, v)'
  <2> SUFFICES ASSUME OnScreen(v) PROVE v \in DOMAIN path' /\ path'[v] = Home(k)
      BY DEF Owned
  <2>1. w \in DOMAIN path /\ path[w] = Home(k)
      BY <1>2 DEF Good, Owned
  <2> QED
      BY <1>1, <1>2, <2>1 DEF ScreensKept
<1>4. k # "photo" => Born(u)'
    BY DEF Good, Grows, Born
<1>5. k = "delete" => u \in erased'
    BY DEF Good, Grows
<1>6. ASSUME ~astray'
      PROVE  /\ k \in Registrations => AtRegister(v)'
             /\ k \in Registrations \ {"create"} /\ v # Gone => Newcomer(u)'
             /\ k \in {"created", "saved"} /\ v # Gone => session' = u
  <2>a. v = Gone => AtRegister(v)'
      BY DEF AtRegister
  <2> SUFFICES ASSUME k \in Registrations, v # Gone
               PROVE  /\ AtRegister(v)'
                      /\ k # "create" => Newcomer(u)'
                      /\ k \in {"created", "saved"} => session' = u
      BY <2>a DEF Registrations
  <2>1. ~astray /\ AtRegister(w)
      BY <1>6 DEF Good, Grows
  <2>2. /\ v = w /\ UNCHANGED path
        /\ session' = session \/ ~Newcomer(session)
        /\ \A x \in Uids : Newcomer(x) => Newcomer(x)'
      BY <1>6, <2>1 DEF RegistrationKept
  <2>3. AtRegister(v)'
      BY <2>1, <2>2 DEF AtRegister, Top
  <2>4. k # "create" => Newcomer(u)
      BY <2>1, <2>2 DEF Good
  <2>5. k # "create" => Newcomer(u)'
      BY <2>2, <2>4 DEF Newcomer
  <2>6. k \in {"created", "saved"} => session' = u
      BY <2>1, <2>2, <2>4 DEF Good
  <2> QED
      BY <2>3, <2>5, <2>6
<1>7. ASSUME ~astray', k \in {"back", "continue"}, OnScreen(v)
      PROVE  session' \in {NoUid, u}
  <2>1. session \in {NoUid, u} /\ w \in DOMAIN path /\ path[w] = "Verify"
      BY <1>2, <1>7 DEF Good, Grows, Owned, Home, Registrations
  <2> QED
      BY <1>7, <2>1
<1>8. ASSUME ~astray', k = "signIn", OnScreen(v)
      PROVE  Top' = "Welcome"
    BY <1>2, <1>8 DEF Good, Grows
<1>9. ASSUME ~astray', k \in {"saved", "photo"}
      PROVE  Recorded(u)'
  <2>1. Recorded(u) /\ u \in Uids
      BY <1>9 DEF Good, Grows, Recorded
  <2> QED
      BY <2>1 DEF Grows
<1> QED
    BY <1>3, <1>4, <1>5, <1>6, <1>7, <1>8, <1>9 DEF Good

(***************************************************************************)
(* From the stages to the requests, handlers and writes.                   *)
(***************************************************************************)
LEMMA CallFacts ==
    ASSUME NEW c \in Call
    PROVE  CallStage(c) \in Stages /\ c.uid \in Users /\ c.owner \in Owners
BY DEF Call, CallStage, Stages, Registrations

LEMMA HandlerFacts ==
    ASSUME NEW h \in Handlers
    PROVE  /\ HandlerStage(h) \in Stages
           /\ h.uid \in Uids /\ h.uid \in Users /\ h.owner \in Owners
BY DEF Handlers, HandlerStage, Stages, Registrations, Users

LEMMA WriteFacts ==
    ASSUME NEW w \in Write
    PROVE  /\ WriteStage(w) \in Stages /\ WriteUser(w) \in Users
           /\ w.doc \in Uids /\ w.owner \in Owners
BY DEF Write, WriteStage, WriteUser, Stages, Registrations, Users

LEMMA ElemTypes ==
    ASSUME TypeOK
    PROVE  /\ \A s \in Slots : calls[s] \in Call
           /\ \A h \in Elems(mainQ) : h \in Handlers
           /\ \A u \in Users : \A w \in Elems(writes[u]) : w \in Write
BY TypeParts DEF CallsType, Elems

LEMMA AsBeforeIsIdentity == AsBefore \in Changes /\ \A w \in Owners : AsBefore[w] = w
BY ChangeTypes DEF AsBefore

LEMMA CallsCarried ==
    ASSUME TypeOK, CallsGood, NEW change \in Changes, NEW kinds, Carries(change, kinds),
           \A s \in Slots : CallStage(calls[s]) \in kinds,
           calls' = CallsReowned(change)
    PROVE  CallsGood'
<1> SUFFICES ASSUME NEW s \in Slots PROVE GoodCall(calls[s])'
    BY DEF CallsGood
<1>1. calls[s] \in Call /\ GoodCall(calls[s])
    BY ElemTypes DEF CallsGood
<1>2. calls'[s] = [calls[s] EXCEPT !.owner = change[@]]
    BY DEF CallsReowned
<1>3. /\ calls'[s].k = calls[s].k /\ calls'[s].answer = calls[s].answer
      /\ calls'[s].uid = calls[s].uid /\ calls'[s].owner = change[calls[s].owner]
    BY <1>1, <1>2 DEF Call
<1>4. CallStage(calls'[s]) = CallStage(calls[s])
    BY <1>3 DEF CallStage
<1>5. PICK k, u, w, v :
        /\ k = CallStage(calls[s]) /\ u = calls[s].uid
        /\ w = calls[s].owner /\ v = calls'[s].owner
    OBVIOUS
<1>6. k \in kinds /\ u \in Users /\ w \in Owners /\ v \in Owners /\ v = change[w] /\ Good(k, u, w)
    BY <1>1, <1>3, <1>5, CallFacts DEF GoodCall, Changes
<1>7. Good(k, u, v)'
    BY <1>6 DEF Carries
<1> QED
    BY <1>3, <1>4, <1>5, <1>7 DEF GoodCall

\* Requests left alone are carried, those that are new are Good.
LEMMA CallsKept ==
    ASSUME TypeOK, CallsGood, NEW kinds, Carries(AsBefore, kinds),
           \A s \in Slots : \/ CallStage(calls[s]) \in kinds /\ calls'[s] = calls[s]
                            \/ \E c \in Call : calls'[s] = c /\ GoodCall(c)'
    PROVE  CallsGood'
<1> SUFFICES ASSUME NEW s \in Slots PROVE GoodCall(calls[s])'
    BY DEF CallsGood
<1>1. CASE \E c \in Call : calls'[s] = c /\ GoodCall(c)'
    BY <1>1
<1>2. CASE CallStage(calls[s]) \in kinds /\ calls'[s] = calls[s]
  <2>1. PICK c \in Call : c = calls[s] /\ GoodCall(c)
      BY ElemTypes DEF CallsGood
  <2>2. AsBefore[c.owner] = c.owner /\ c.owner \in Owners /\ c.uid \in Users
      BY <2>1, AsBeforeIsIdentity, CallFacts
  <2>3. Good(CallStage(c), c.uid, c.owner)'
      BY <1>2, <2>1, <2>2 DEF Carries, GoodCall
  <2> QED
      BY <1>2, <2>1, <2>3 DEF GoodCall
<1> QED
    BY <1>1, <1>2

LEMMA HandlersCarried ==
    ASSUME TypeOK, HandlersGood, NEW change \in Changes, NEW kinds, Carries(change, kinds),
           NEW q \in Seq(Handlers), Elems(q) \subseteq Elems(mainQ),
           \A h \in Elems(q) : HandlerStage(h) \in kinds,
           mainQ' = Reowned(q, change)
    PROVE  HandlersGood'
<1> SUFFICES ASSUME NEW h \in Elems(mainQ') PROVE GoodHandler(h)'
    BY DEF HandlersGood, Elems
<1>1. PICK g \in Elems(q) : /\ g \in Handlers
                            /\ h.k = g.k /\ h.uid = g.uid /\ h.owner = change[g.owner]
    BY ElemsReownedHandlers
<1>2. GoodHandler(g) /\ g.uid \in Users /\ g.owner \in Owners /\ h.owner \in Owners
    BY <1>1, HandlerFacts DEF HandlersGood, Changes
<1>3. HandlerStage(h) = HandlerStage(g)
    BY <1>1 DEF HandlerStage
<1>4. Good(HandlerStage(g), g.uid, h.owner)'
    BY <1>1, <1>2 DEF Carries, GoodHandler
<1> QED
    BY <1>1, <1>3, <1>4 DEF GoodHandler

LEMMA HandlersKept ==
    ASSUME TypeOK, HandlersGood, NEW kinds, Carries(AsBefore, kinds),
           \A h \in Elems(mainQ') : \/ HandlerStage(h) \in kinds /\ h \in Elems(mainQ)
                                    \/ GoodHandler(h)'
    PROVE  HandlersGood'
<1> SUFFICES ASSUME NEW h \in Elems(mainQ'), HandlerStage(h) \in kinds, h \in Elems(mainQ)
             PROVE  GoodHandler(h)'
    BY DEF HandlersGood, Elems
<1>1. h \in Handlers /\ GoodHandler(h) /\ AsBefore[h.owner] = h.owner
    BY ElemTypes, AsBeforeIsIdentity, HandlerFacts DEF HandlersGood
<1> QED
    BY <1>1, HandlerFacts DEF Carries, GoodHandler

LEMMA WritesCarried ==
    ASSUME TypeOK, WritesGood, NEW change \in Changes, NEW kinds, Carries(change, kinds),
           \A u \in Users : \A w \in Elems(writes[u]) : WriteStage(w) \in kinds,
           \A u \in Users : \A w \in Elems(writes'[u]) :
               w \in Elems(Reowned(writes[u], change)) \/ GoodWrite(w)'
    PROVE  WritesGood'
<1> SUFFICES ASSUME NEW u \in Users, NEW w \in Elems(Reowned(writes[u], change))
             PROVE  GoodWrite(w)'
    BY DEF WritesGood, Elems
<1>1. writes[u] \in Seq(Write)
    BY TypeParts
<1>2. PICK g \in Elems(writes[u]) : /\ g \in Write
                                    /\ w.op = g.op /\ w.doc = g.doc /\ w.photo = g.photo
                                    /\ w.owner = change[g.owner]
    BY <1>1, ElemsReownedWrites
<1>3. GoodWrite(g) /\ WriteUser(g) \in Users /\ g.owner \in Owners /\ w.owner \in Owners
    BY <1>2, WriteFacts DEF WritesGood, Changes
<1>4. WriteStage(w) = WriteStage(g) /\ WriteUser(w) = WriteUser(g)
    BY <1>2 DEF WriteStage, WriteUser
<1>5. Good(WriteStage(g), WriteUser(g), w.owner)'
    BY <1>2, <1>3 DEF Carries, GoodWrite
<1> QED
    BY <1>4, <1>5 DEF GoodWrite

LEMMA WritesKept ==
    ASSUME TypeOK, WritesGood, NEW kinds, Carries(AsBefore, kinds),
           \A u \in Users : \A w \in Elems(writes'[u]) :
               \/ WriteStage(w) \in kinds /\ w \in Elems(writes[u])
               \/ GoodWrite(w)'
    PROVE  WritesGood'
<1> SUFFICES ASSUME NEW u \in Users, NEW w \in Elems(writes[u]), WriteStage(w) \in kinds
             PROVE  GoodWrite(w)'
    BY DEF WritesGood, Elems
<1>1. w \in Write /\ GoodWrite(w) /\ AsBefore[w.owner] = w.owner
    BY ElemTypes, AsBeforeIsIdentity, WriteFacts DEF WritesGood
<1> QED
    BY <1>1, WriteFacts DEF Carries, GoodWrite

(***************************************************************************)
(* At most one registration is unfinished: what the steps do to that.      *)
(***************************************************************************)
NoNewCall == \A s \in Slots : RegCall(calls'[s]) => RegCall(calls[s])

\* The main queue, shifted by n, has no registration that was not there.
NoNewHandler ==
    \E n \in {0, 1} : \A i \in DOMAIN mainQ' :
        RegHandler(mainQ'[i]) => i + n \in DOMAIN mainQ /\ RegHandler(mainQ[i + n])

NoNewWrite ==
    \A u \in Users : \E n \in {0, 1} : \A i \in DOMAIN writes'[u] :
        RegWrite(writes'[u][i]) => i + n \in DOMAIN writes[u] /\ RegWrite(writes[u][i + n])

LEMMA FewerCalls == NoNewCall => (OneCall => OneCall') /\ (NoCall => NoCall')
BY DEF NoNewCall, OneCall, NoCall

LEMMA FewerHandlers ==
    ASSUME TypeOK, TypeOK', NoNewHandler
    PROVE  (OneHandler => OneHandler') /\ (NoHandler => NoHandler')
<1>1. DOMAIN mainQ \subseteq Nat /\ DOMAIN mainQ' \subseteq Nat
    BY TypeParts, TypeOK, TypeOK' DEF TypeOK, MainThreadType
<1>2. PICK n \in {0, 1} : \A i \in DOMAIN mainQ' :
        RegHandler(mainQ'[i]) => i + n \in DOMAIN mainQ /\ RegHandler(mainQ[i + n])
    BY DEF NoNewHandler
<1>3. OneHandler => OneHandler'
  <2> SUFFICES ASSUME OneHandler, NEW i \in DOMAIN mainQ', NEW j \in DOMAIN mainQ',
                      RegHandler(mainQ'[i]), RegHandler(mainQ'[j])
               PROVE  i = j
      BY DEF OneHandler
  <2>1. i + n = j + n
      BY <1>2 DEF OneHandler
  <2> QED
      BY <1>1, <2>1
<1> QED
    BY <1>2, <1>3 DEF NoHandler

LEMMA FewerWrites ==
    ASSUME TypeOK, TypeOK', NoNewWrite
    PROVE  (OneWrite => OneWrite') /\ (NoWrite => NoWrite')
<1>1. ASSUME NEW u \in Users PROVE DOMAIN writes'[u] \subseteq Nat
  <2>1. writes'[u] \in Seq(Write)
      BY DEF TypeOK, StoreType
  <2> QED
      BY <2>1
<1>2. OneWrite => OneWrite'
  <2> SUFFICES ASSUME OneWrite, NEW u \in Users, NEW v \in Users,
                      NEW i \in DOMAIN writes'[u], NEW j \in DOMAIN writes'[v],
                      RegWrite(writes'[u][i]), RegWrite(writes'[v][j])
               PROVE  u = v /\ i = j
      BY DEF OneWrite
  <2>1. PICK n \in {0, 1} : \A l \in DOMAIN writes'[u] :
          RegWrite(writes'[u][l]) => l + n \in DOMAIN writes[u] /\ RegWrite(writes[u][l + n])
      BY DEF NoNewWrite
  <2>2. PICK m \in {0, 1} : \A l \in DOMAIN writes'[v] :
          RegWrite(writes'[v][l]) => l + m \in DOMAIN writes[v] /\ RegWrite(writes[v][l + m])
      BY DEF NoNewWrite
  <2>3. u = v
      BY <2>1, <2>2 DEF OneWrite
  <2>4. i + n = j + n
      BY <2>1, <2>3 DEF OneWrite
  <2> QED
      BY <1>1, <2>3, <2>4
<1> QED
    BY <1>2 DEF NoWrite, NoNewWrite

LEMMA FewerRegistrations ==
    ASSUME TypeOK, TypeOK', OneRegistration, NoNewCall, NoNewHandler, NoNewWrite
    PROVE  OneRegistration'
BY FewerCalls, FewerHandlers, FewerWrites DEF OneRegistration

LEMMA ReownedCallsNew ==
    ASSUME TypeOK, NEW change \in Changes, calls' = CallsReowned(change)
    PROVE  NoNewCall
BY ElemTypes DEF NoNewCall, CallsReowned, RegCall, Call

LEMMA ReownedHandlersNew ==
    ASSUME NEW change \in Changes, NEW q \in Seq(Handlers)
    PROVE  /\ DOMAIN Reowned(q, change) = DOMAIN q
           /\ \A i \in DOMAIN q : RegHandler(Reowned(q, change)[i]) <=> RegHandler(q[i])
<1>1. DOMAIN Reowned(q, change) = DOMAIN q
    BY DEF Reowned
<1>2. ASSUME NEW i \in DOMAIN q PROVE Reowned(q, change)[i].k = q[i].k
  <2>1. q[i] \in Handlers
      OBVIOUS
  <2>2. Reowned(q, change)[i] = [q[i] EXCEPT !.owner = change[@]]
      BY DEF Reowned
  <2> QED
      BY <2>1, <2>2 DEF Handlers
<1> QED
    BY <1>1, <1>2 DEF RegHandler

LEMMA ReownedWritesNew ==
    ASSUME NEW change \in Changes, NEW q \in Seq(Write)
    PROVE  /\ DOMAIN Reowned(q, change) = DOMAIN q
           /\ \A i \in DOMAIN q : RegWrite(Reowned(q, change)[i]) <=> RegWrite(q[i])
<1>1. DOMAIN Reowned(q, change) = DOMAIN q
    BY DEF Reowned
<1>2. ASSUME NEW i \in DOMAIN q PROVE Reowned(q, change)[i].op = q[i].op
  <2>1. q[i] \in Write
      OBVIOUS
  <2>2. Reowned(q, change)[i] = [q[i] EXCEPT !.owner = change[@]]
      BY DEF Reowned
  <2> QED
      BY <2>1, <2>2 DEF Write
<1> QED
    BY <1>1, <1>2 DEF RegWrite

\* A queue that is shorter, longer by what is no registration, or reowned.
LEMMA HandlerQueues ==
    ASSUME TypeOK
    PROVE  /\ UNCHANGED mainQ => NoNewHandler
           /\ mainQ' = <<>> => NoNewHandler
           /\ mainQ # <<>> /\ mainQ' = Rest => NoNewHandler
           /\ \A h \in Handlers : ~RegHandler(h) /\ Post(h) => NoNewHandler
           /\ \A change \in Changes : mainQ' = Reowned(mainQ, change) => NoNewHandler
           /\ \A change \in Changes :
                  mainQ # <<>> /\ mainQ' = Reowned(Rest, change) => NoNewHandler
<1>1. mainQ \in Seq(Handlers) /\ \A i \in DOMAIN mainQ : i \in Nat /\ i + 0 = i
    BY TypeParts
<1>2. UNCHANGED mainQ => NoNewHandler
    BY <1>1 DEF NoNewHandler
<1>3. mainQ' = <<>> => NoNewHandler
    BY DEF NoNewHandler
<1>4. mainQ # <<>> => \A i \in DOMAIN Rest : i + 1 \in DOMAIN mainQ /\ Rest[i] = mainQ[i + 1]
    BY <1>1, TailPositions DEF Rest
<1>5. mainQ # <<>> /\ mainQ' = Rest => NoNewHandler
    BY <1>4 DEF NoNewHandler
<1>6. ASSUME NEW h \in Handlers, ~RegHandler(h), Post(h) PROVE NoNewHandler
  <2>1. \A i \in DOMAIN mainQ' : mainQ'[i] = h \/ (i \in DOMAIN mainQ /\ mainQ'[i] = mainQ[i])
      BY <1>1, <1>6 DEF Post
  <2> QED
      BY <1>1, <1>6, <2>1 DEF NoNewHandler
<1>7. ASSUME NEW change \in Changes, mainQ' = Reowned(mainQ, change) PROVE NoNewHandler
    BY <1>1, <1>7, ReownedHandlersNew DEF NoNewHandler
<1>8. ASSUME NEW change \in Changes, mainQ # <<>>, mainQ' = Reowned(Rest, change)
      PROVE  NoNewHandler
  <2>1. Rest \in Seq(Handlers)
      BY <1>1, <1>8, QueueTypes
  <2> QED
      BY <1>4, <1>8, <2>1, ReownedHandlersNew DEF NoNewHandler
<1> QED
    BY <1>2, <1>3, <1>5, <1>6, <1>7, <1>8

LEMMA WriteQueues ==
    ASSUME TypeOK
    PROVE  /\ UNCHANGED writes => NoNewWrite
           /\ \A change \in Changes : writes' = WritesReowned(change) => NoNewWrite
           /\ \A s \in Users : writes[s] # <<>> /\ writes' = [writes EXCEPT ![s] = Tail(@)]
                  => NoNewWrite
           /\ \A s \in Users, w \in Write : ~RegWrite(w) /\ writes' = [writes EXCEPT ![s] = Append(@, w)]
                  => NoNewWrite
<1>1. /\ writes \in [Users -> Seq(Write)]
      /\ \A u \in Users : \A i \in DOMAIN writes[u] : i \in Nat /\ i + 0 = i
    BY TypeParts
<1>2. UNCHANGED writes => NoNewWrite
    BY <1>1 DEF NoNewWrite
<1>3. ASSUME NEW change \in Changes, writes' = WritesReowned(change) PROVE NoNewWrite
    BY <1>1, <1>3, ReownedWritesNew DEF NoNewWrite, WritesReowned
<1>4. ASSUME NEW s \in Users, writes[s] # <<>>, writes' = [writes EXCEPT ![s] = Tail(@)]
      PROVE  NoNewWrite
  <2>1. /\ writes'[s] = Tail(writes[s])
        /\ \A u \in Users \ {s} : writes'[u] = writes[u]
      BY <1>1, <1>4
  <2>2. \A i \in DOMAIN Tail(writes[s]) :
          i + 1 \in DOMAIN writes[s] /\ Tail(writes[s])[i] = writes[s][i + 1]
      BY <1>1, <1>4, TailPositions
  <2> QED
      BY <1>1, <2>1, <2>2 DEF NoNewWrite
<1>5. ASSUME NEW s \in Users, NEW w \in Write, ~RegWrite(w),
             writes' = [writes EXCEPT ![s] = Append(@, w)]
      PROVE  NoNewWrite
  <2>1. /\ writes'[s] = Append(writes[s], w)
        /\ \A u \in Users \ {s} : writes'[u] = writes[u]
      BY <1>1, <1>5
  <2>2. \A i \in DOMAIN Append(writes[s], w) :
          \/ i \in DOMAIN writes[s] /\ Append(writes[s], w)[i] = writes[s][i]
          \/ Append(writes[s], w)[i] = w
      BY <1>1
  <2> QED
      BY <1>1, <1>5, <2>1, <2>2 DEF NoNewWrite
<1> QED
    BY <1>2, <1>3, <1>4, <1>5

\* A deletion queued is no registration.
LEMMA DeleteIsNew ==
    ASSUME TypeOK, NEW s \in Uids, NEW change \in Changes,
           \/ writes' = [writes EXCEPT ![s] = Enqueued(@, Delete(s))]
           \/ writes' = [WritesReowned(change) EXCEPT ![s] = Enqueued(@, Delete(s))]
    PROVE  NoNewWrite
<1>1. PICK base \in [Users -> Seq(Write)] :
        /\ writes' = [base EXCEPT ![s] = Enqueued(@, Delete(s))]
        /\ \A u \in Users : \A i \in DOMAIN base[u] :
               RegWrite(base[u][i]) => i \in DOMAIN writes[u] /\ RegWrite(writes[u][i])
  <2>1. writes \in [Users -> Seq(Write)] /\ WritesReowned(change) \in [Users -> Seq(Write)]
      BY TypeParts, WritesReownedType
  <2>2. \A u \in Users : \A i \in DOMAIN WritesReowned(change)[u] :
           RegWrite(WritesReowned(change)[u][i]) => i \in DOMAIN writes[u] /\ RegWrite(writes[u][i])
      BY <2>1, ReownedWritesNew DEF WritesReowned
  <2> QED
      BY <2>1, <2>2
<1>2. /\ writes'[s] = Enqueued(base[s], Delete(s))
      /\ \A u \in Users \ {s} : writes'[u] = base[u]
    BY <1>1 DEF Users
<1>3. \A i \in DOMAIN writes'[s] :
        RegWrite(writes'[s][i]) => i \in DOMAIN base[s] /\ RegWrite(base[s][i])
  <2>1. base[s] \in Seq(Write) /\ Delete(s) \in Write /\ ~RegWrite(Delete(s))
      BY <1>1 DEF Users, Delete, Write, WriteOps, Owners, Gone, RegWrite
  <2>2. \A i \in DOMAIN Append(base[s], Delete(s)) :
          \/ i \in DOMAIN base[s] /\ Append(base[s], Delete(s))[i] = base[s][i]
          \/ Append(base[s], Delete(s))[i] = Delete(s)
      BY <2>1
  <2> QED
      BY <1>2, <2>1, <2>2 DEF Enqueued
<1>4. ASSUME NEW u \in Users, NEW i \in DOMAIN writes'[u], RegWrite(writes'[u][i])
      PROVE  i \in DOMAIN writes[u] /\ RegWrite(writes[u][i])
    BY <1>1, <1>2, <1>3, <1>4
<1>5. \A u \in Users : \A i \in DOMAIN writes[u] : i + 0 = i
    BY TypeParts
<1> QED
    BY <1>4, <1>5 DEF NoNewWrite

(***************************************************************************)
(* Every queue holds its own user's writes, deletions behind saves.        *)
(***************************************************************************)
LEMMA FollowedTail ==
    ASSUME NEW q \in Seq(Write), q # <<>>, NEW gone, Followed(q, gone)
    PROVE  Followed(Tail(q), gone)
<1> SUFFICES ASSUME NEW i \in DOMAIN Tail(q), RegWrite(Tail(q)[i]), Tail(q)[i].doc \in gone
             PROVE  \E j \in DOMAIN Tail(q) : i < j /\ Tail(q)[j] = Delete(Tail(q)[i].doc)
    BY DEF Followed
<1>1. i \in Nat /\ i + 1 \in DOMAIN q /\ Tail(q)[i] = q[i + 1]
    BY TailPositions
<1>2. PICK j \in DOMAIN q : i + 1 < j /\ q[j] = Delete(q[i + 1].doc)
    BY <1>1 DEF Followed
<1>3. j \in Nat /\ j # 1 /\ i < j - 1
    BY <1>1, <1>2
<1>4. j - 1 \in DOMAIN Tail(q) /\ Tail(q)[j - 1] = q[j]
    BY <1>3, TailPositions
<1> QED
    BY <1>1, <1>2, <1>3, <1>4

LEMMA FollowedAppend ==
    ASSUME NEW q \in Seq(Write), NEW w \in Write, NEW gone, Followed(q, gone),
           RegWrite(w) => w.doc \notin gone
    PROVE  Followed(Append(q, w), gone)
<1>1. /\ DOMAIN q \subseteq DOMAIN Append(q, w)
      /\ \A i \in DOMAIN q : Append(q, w)[i] = q[i]
      /\ \A i \in DOMAIN Append(q, w) : i \in DOMAIN q \/ Append(q, w)[i] = w
    OBVIOUS
<1> QED
    BY <1>1 DEF Followed

\* A deletion stays that deletion: nobody waits for it.
LEMMA DeleteReowned ==
    ASSUME NEW q \in Seq(Write), NEW change \in Changes, change[Gone] = Gone,
           NEW i \in DOMAIN q, NEW u \in Uids, q[i] = Delete(u)
    PROVE  Reowned(q, change)[i] = Delete(u)
<1>1. Reowned(q, change)[i] = [Delete(u) EXCEPT !.owner = change[@]]
    BY DEF Reowned
<1> QED
    BY <1>1 DEF Delete

LEMMA FollowedReowned ==
    ASSUME NEW q \in Seq(Write), NEW change \in Changes, change[Gone] = Gone,
           NEW gone \in SUBSET Uids, Followed(q, gone)
    PROVE  Followed(Reowned(q, change), gone)
<1> SUFFICES ASSUME NEW i \in DOMAIN q, RegWrite(Reowned(q, change)[i]),
                    Reowned(q, change)[i].doc \in gone
             PROVE  \E j \in DOMAIN q :
                        i < j /\ Reowned(q, change)[j] = Delete(Reowned(q, change)[i].doc)
    BY ReownedWritesNew DEF Followed
<1>1. Reowned(q, change)[i].doc = q[i].doc
  <2>1. q[i] \in Write /\ Reowned(q, change)[i] = [q[i] EXCEPT !.owner = change[@]]
      BY DEF Reowned
  <2> QED
      BY <2>1 DEF Write
<1>2. PICK j \in DOMAIN q : i < j /\ q[j] = Delete(q[i].doc)
    BY <1>1, ReownedWritesNew DEF Followed
<1>3. Reowned(q, change)[j] = Delete(q[i].doc)
    BY <1>1, <1>2, DeleteReowned
<1> QED
    BY <1>1, <1>2, <1>3

LEMMA EnqueuedDelete ==
    ASSUME NEW q \in Seq(Write), NEW u \in Uids
    PROVE  LET r == Enqueued(q, Delete(u)) IN
           /\ r \in Seq(Write) /\ Len(r) \in DOMAIN r /\ r[Len(r)] = Delete(u)
           /\ \A i \in DOMAIN r : r[i] = Delete(u) \/ (i \in DOMAIN q /\ r[i] = q[i])
           /\ \A i \in DOMAIN q : i \in DOMAIN r /\ r[i] = q[i]
<1>1. Delete(u) \in Write
    BY DEF Delete, Write, WriteOps, Users, Owners, Gone
<1>2. CASE Enqueued(q, Delete(u)) = q
  <2>1. q # <<>> /\ q[Len(q)] = Delete(u)
    <3>1. q # Append(q, Delete(u))
      <4>1. Len(Append(q, Delete(u))) = Len(q) + 1 /\ Len(q) \in Nat
          BY <1>1
      <4> QED
          BY <4>1
    <3> QED
        BY <1>2, <3>1 DEF Enqueued
  <2> QED
      BY <1>2, <2>1
<1>3. CASE Enqueued(q, Delete(u)) = Append(q, Delete(u))
    BY <1>1, <1>3
<1> QED
    BY <1>2, <1>3 DEF Enqueued

LEMMA FollowedDelete ==
    ASSUME NEW q \in Seq(Write), NEW u \in Uids, NEW gone, \A w \in Elems(q) : w.doc = u
    PROVE  Followed(Enqueued(q, Delete(u)), gone \cup {u})
<1> DEFINE r == Enqueued(q, Delete(u))
<1>1. ~RegWrite(Delete(u))
    BY DEF RegWrite, Delete
<1>2. /\ r \in Seq(Write) /\ Len(r) \in DOMAIN r /\ r[Len(r)] = Delete(u)
      /\ \A i \in DOMAIN r : r[i] = Delete(u) \/ (i \in DOMAIN q /\ r[i] = q[i])
    BY EnqueuedDelete
<1> HIDE DEF r
<1> SUFFICES ASSUME NEW i \in DOMAIN r, RegWrite(r[i])
             PROVE  \E j \in DOMAIN r : i < j /\ r[j] = Delete(r[i].doc)
    BY DEF Followed, r
<1>3. r[i].doc = u
    BY <1>1, <1>2 DEF Elems
<1>4. i # Len(r)
    BY <1>1, <1>2
<1>5. i < Len(r)
    BY <1>2, <1>4
<1> QED
    BY <1>2, <1>3, <1>5

LEMMA OrderedReowned ==
    ASSUME writes \in [Users -> Seq(Write)], NEW change \in Changes, change[Gone] = Gone,
           NEW gone \in SUBSET Uids, Ordered(writes, gone)
    PROVE  Ordered(WritesReowned(change), gone)
<1>1. \A u \in Users : WritesReowned(change)[u] = Reowned(writes[u], change)
    BY DEF WritesReowned
<1>2. WritesReowned(change)[NoUid] = <<>>
  <2>1. writes[NoUid] = <<>> /\ NoUid \in Users
      BY DEF Ordered, Users
  <2>2. Reowned(<<>>, change) = <<>>
      BY DEF Reowned
  <2> QED
      BY <1>1, <2>1, <2>2
<1>3. ASSUME NEW u \in Uids, NEW w \in Elems(Reowned(writes[u], change)) PROVE w.doc = u
  <2>1. writes[u] \in Seq(Write)
      BY DEF Users
  <2>2. PICK g \in Elems(writes[u]) : w.doc = g.doc
      BY <2>1, ElemsReownedWrites
  <2> QED
      BY <2>2 DEF Ordered
<1>4. ASSUME NEW u \in Users PROVE Followed(Reowned(writes[u], change), gone)
    BY FollowedReowned DEF Ordered
<1> QED
    BY <1>1, <1>2, <1>3, <1>4 DEF Ordered, Users

\* One queue changes; the others hold nothing of its user.
LEMMA OrderedChange ==
    ASSUME NEW queues \in [Users -> Seq(Write)], NEW gone, Ordered(queues, gone),
           NEW u \in Uids, NEW q \in Seq(Write), NEW more,
           gone \subseteq more, more \subseteq gone \cup {u},
           \A w \in Elems(q) : w.doc = u, Followed(q, more)
    PROVE  Ordered([queues EXCEPT ![u] = q], more)
<1> DEFINE new == [queues EXCEPT ![u] = q]
<1>1. /\ new[u] = q /\ u # NoUid
      /\ \A v \in Users : v # u => new[v] = queues[v]
    BY NoUidAssumption DEF Users
<1> HIDE DEF new
<1>2. new[NoUid] = <<>>
    BY <1>1 DEF Ordered, Users
<1>3. \A v \in Uids : \A w \in Elems(new[v]) : w.doc = v
    BY <1>1 DEF Ordered, Users
<1>4. ASSUME NEW v \in Users, v # u PROVE Followed(queues[v], more)
  <2>1. Followed(queues[v], gone)
      BY DEF Ordered
  <2>2. \A i \in DOMAIN queues[v] : queues[v][i].doc # u
    <3>1. CASE v = NoUid
        BY <3>1 DEF Ordered
    <3>2. CASE v \in Uids
        BY <1>4, <3>2 DEF Ordered, Elems
    <3> QED
        BY <3>1, <3>2 DEF Users
  <2> QED
      BY <2>1, <2>2 DEF Followed
<1>5. \A v \in Users : Followed(new[v], more)
    BY <1>1, <1>4
<1> QED
    BY <1>2, <1>3, <1>5 DEF Ordered, new

LEMMA OrderedTail ==
    ASSUME NEW queues \in [Users -> Seq(Write)], NEW gone, Ordered(queues, gone),
           NEW u \in Users, queues[u] # <<>>
    PROVE  Ordered([queues EXCEPT ![u] = Tail(@)], gone)
<1>1. u \in Uids
    BY DEF Ordered, Users
<1>2. Tail(queues[u]) \in Seq(Write) /\ \A w \in Elems(Tail(queues[u])) : w.doc = u
    BY <1>1, ElemsTail DEF Ordered
<1>3. Followed(Tail(queues[u]), gone)
    BY FollowedTail DEF Ordered
<1> QED
    BY <1>1, <1>2, <1>3, OrderedChange

LEMMA OrderedAppend ==
    ASSUME NEW queues \in [Users -> Seq(Write)], NEW gone, Ordered(queues, gone),
           NEW u \in Uids, NEW w \in Write, w.doc = u, RegWrite(w) => u \notin gone
    PROVE  Ordered([queues EXCEPT ![u] = Append(@, w)], gone)
<1>1. queues[u] \in Seq(Write) /\ Append(queues[u], w) \in Seq(Write)
    BY DEF Users
<1>2. \A x \in Elems(Append(queues[u], w)) : x.doc = u
    BY <1>1, ElemsAppend DEF Ordered
<1>3. Followed(Append(queues[u], w), gone)
    BY <1>1, FollowedAppend DEF Ordered, Users
<1> QED
    BY <1>1, <1>2, <1>3, OrderedChange

LEMMA OrderedDelete ==
    ASSUME NEW queues \in [Users -> Seq(Write)], NEW gone, Ordered(queues, gone),
           NEW u \in Uids
    PROVE  Ordered([queues EXCEPT ![u] = Enqueued(@, Delete(u))], gone \cup {u})
<1> DEFINE r == Enqueued(queues[u], Delete(u))
<1>1. queues[u] \in Seq(Write) /\ \A w \in Elems(queues[u]) : w.doc = u
    BY DEF Ordered, Users
<1>2. r \in Seq(Write) /\ \A w \in Elems(r) : w.doc = u
  <2>1. Delete(u).doc = u
      BY DEF Delete
  <2> QED
      BY <1>1, <2>1, EnqueuedDelete DEF Elems
<1>3. Followed(r, gone \cup {u})
    BY <1>1, FollowedDelete
<1> HIDE DEF r
<1>4. Ordered([queues EXCEPT ![u] = r], gone \cup {u})
  <2>1. PICK more : more = gone \cup {u}
      OBVIOUS
  <2>2. gone \subseteq more /\ more \subseteq gone \cup {u}
      BY <2>1
  <2>3. Ordered([queues EXCEPT ![u] = r], more)
      BY <1>2, <1>3, <2>1, <2>2, OrderedChange
  <2> QED
      BY <2>1, <2>3
<1> QED
    BY <1>4 DEF r

(***************************************************************************)
(* Steps that move the user from screen to screen.                         *)
(***************************************************************************)
LEMMA AsBeforeReowned ==
    ASSUME TypeOK
    PROVE  /\ CallsReowned(AsBefore) = calls
           /\ \A q \in Seq(Handlers) : Reowned(q, AsBefore) = q
           /\ WritesReowned(AsBefore) = writes
<1>1. ASSUME NEW s \in Slots PROVE [calls[s] EXCEPT !.owner = AsBefore[@]] = calls[s]
  <2>1. calls[s] \in Call
      BY ElemTypes
  <2> QED
      BY <2>1, AsBeforeIsIdentity, CallFacts DEF Call
<1>2. ASSUME NEW q \in Seq(Handlers) PROVE Reowned(q, AsBefore) = q
  <2>1. ASSUME NEW i \in DOMAIN q PROVE [q[i] EXCEPT !.owner = AsBefore[@]] = q[i]
    <3>1. q[i] \in Handlers
        OBVIOUS
    <3> QED
        BY <3>1, AsBeforeIsIdentity, HandlerFacts DEF Handlers
  <2> QED
      BY <2>1 DEF Reowned
<1>3. ASSUME NEW q \in Seq(Write) PROVE Reowned(q, AsBefore) = q
  <2>1. ASSUME NEW i \in DOMAIN q PROVE [q[i] EXCEPT !.owner = AsBefore[@]] = q[i]
    <3>1. q[i] \in Write
        OBVIOUS
    <3> QED
        BY <3>1, AsBeforeIsIdentity, WriteFacts DEF Write
  <2> QED
      BY <2>1 DEF Reowned
<1>4. CallsReowned(AsBefore) = calls
    BY <1>1, TypeParts DEF CallsReowned, CallsType
<1>5. WritesReowned(AsBefore) = writes
    BY <1>3, TypeParts DEF WritesReowned
<1> QED
    BY <1>2, <1>4, <1>5

\* No handler and no write is at the stage of a sign-in request.
Unrequested == Stages \ {"signIn"}

LEMMA NotSignIn ==
    /\ \A h \in Handlers : HandlerStage(h) \in Unrequested
    /\ \A w \in Write : WriteStage(w) \in Unrequested
BY DEF Unrequested, Handlers, HandlerStage, Write, WriteStage, WriteOps, Stages, Registrations

LEMMA InfoKept ==
    ASSUME InfoVerified, session \in Users, session' \in {session, NoUid},
           OnPath("Info")' => OnPath("Info"),
           \A u \in Uids : VerifiedOrGone(u) => VerifiedOrGone(u)'
    PROVE  InfoVerified'
<1> SUFFICES ASSUME OnPath("Info")', session' # NoUid PROVE VerifiedOrGone(session)'
    BY DEF InfoVerified
<1>1. session' = session /\ session \in Uids
    BY DEF Users
<1>2. VerifiedOrGone(session)
    BY <1>1 DEF InfoVerified
<1> QED
    BY <1>1, <1>2 DEF VerifiedOrGone

LEMMA MovedStep ==
    ASSUME TypeOK, TypeOK', RegInv, NEW change \in Changes, change[Gone] = Gone,
           \/ mainQ' = Reowned(mainQ, change)
           \/ mainQ # <<>> /\ mainQ' = Reowned(Rest, change),
           calls' = CallsReowned(change), writes' = WritesReowned(change),
           UNCHANGED <<docs, uploads, erased, accounts, deleting, astray>>,
           session' \in {session, NoUid},
           Shape', (OnPath("Info")' => OnPath("Info")) \/ (~astray' => InfoVerified'),
           CallsGood', Carries(change, Unrequested)
    PROVE  RegInv'
<1>1. People'
    BY NoUidAssumption DEF RegInv, People, Born
<1>2. HandlersGood'
  <2>1. mainQ \in Seq(Handlers) /\ HandlersGood /\ \A h \in Elems(mainQ) : HandlerStage(h) \in Unrequested
      BY TypeParts, ElemTypes, NotSignIn DEF RegInv
  <2>2. CASE mainQ' = Reowned(mainQ, change)
      BY <2>1, <2>2, HandlersCarried
  <2>3. CASE mainQ # <<>> /\ mainQ' = Reowned(Rest, change)
    <3>1. Rest \in Seq(Handlers) /\ Elems(Rest) \subseteq Elems(mainQ)
        BY <2>1, <2>3, QueueTypes, ElemsTail DEF Rest
    <3> QED
        BY <2>1, <2>3, <3>1, HandlersCarried
  <2> QED
      BY <2>2, <2>3
<1>3. WritesGood'
  <2>1. \A u \in Users : writes'[u] = Reowned(writes[u], change)
      BY DEF WritesReowned
  <2> QED
      BY <2>1, ElemTypes, NotSignIn, WritesCarried DEF RegInv
<1>4. ASSUME ~astray' PROVE Steady'
  <2>1. Steady
      BY <1>4 DEF RegInv
  <2>2. OneRegistration'
      BY <2>1, FewerRegistrations, ReownedCallsNew, HandlerQueues, WriteQueues DEF Steady
  <2>3. Photos'
      BY <2>1 DEF Steady, Photos, Recorded
  <2>4. Ordered(writes', erased')
      BY <2>1, OrderedReowned, TypeParts DEF Steady
  <2>5. InfoVerified'
      BY <1>4, <2>1, InfoKept, TypeParts DEF Steady, VerifiedOrGone
  <2> QED
      BY <2>2, <2>3, <2>4, <2>5 DEF Steady
<1> QED
    BY <1>1, <1>2, <1>3, <1>4 DEF RegInv

LEMMA GrowsWithout ==
    ASSUME UNCHANGED <<accounts, docs>>, astray => astray', erased \subseteq erased'
    PROVE  Grows
BY DEF Grows, Born, Recorded

\* Away from the registration screen, no registration has a screen.
LEMMA Away == Top # "Register" => \A w \in Owners : AtRegister(w) => w = Gone
BY DEF AtRegister

LEMMA ChangesOfGone ==
    ASSUME PathType
    PROVE  AfterPop[Gone] = Gone /\ AfterCover[Gone] = Gone /\ AsBefore[Gone] = Gone
BY PathFacts DEF AfterPop, AfterCover, AsBefore, Owners, Gone, Covered, OnScreen

LEMMA PopKeeps ==
    ASSUME PathType, path' = Popped, CanPop
    PROVE  /\ DOMAIN path' = 1..(Len(path) - 1)
           /\ \A i \in 1..(Len(path) - 1) : path'[i] = path[i]
<1>1. Len(path) \in Nat /\ path' = SubSeq(path, 1, Len(path) - 1)
    BY PathFacts DEF Popped
<1> QED
    BY <1>1, SubSeqProperties DEF PathType

LEMMA PopCarries ==
    ASSUME PathType, Shape, path' = Popped, Grows, session' \in {session, NoUid},
           CanPop \/ Top # "Register"
    PROVE  Carries(AfterPop, Stages)
<1>1. \A w \in Owners : AfterPop[w] = IF CanPop /\ w = Len(path) THEN Gone ELSE w
    BY DEF AfterPop
<1>2. CanPop => /\ DOMAIN path' = 1..(Len(path) - 1)
                /\ \A i \in 1..(Len(path) - 1) : path'[i] = path[i]
    BY PopKeeps
<1>3. ~CanPop => path' = path
    BY DEF Popped
<1>4. ScreensKept(AfterPop)
  <2> SUFFICES ASSUME NEW w \in Owners, OnScreen(AfterPop[w])
               PROVE  /\ AfterPop[w] = w
                      /\ w \in DOMAIN path => w \in DOMAIN path' /\ path'[w] = path[w]
      BY DEF ScreensKept
  <2>1. AfterPop[w] = w /\ ~(CanPop /\ w = Len(path))
      BY <1>1 DEF OnScreen, Gone
  <2> QED
      BY <1>2, <1>3, <2>1, PathFacts
<1>5. RegistrationKept(AfterPop)
  <2> SUFFICES ASSUME NEW w \in Owners, AtRegister(w) PROVE AfterPop[w] = Gone
      BY DEF RegistrationKept
  <2> QED
      BY <1>1 DEF AtRegister
<1>6. Top = "Welcome" => Top' = "Welcome"
  <2>1. Top = "Welcome" => ~CanPop
    <3>1. Top = "Welcome" => Len(path) = 1
        BY WelcomeIsRoot
    <3>2. Len(path) = 1 => ~(Len(path) > 1)
        OBVIOUS
    <3> QED
        BY <3>1, <3>2, Zenon DEF CanPop
  <2> QED
      BY <1>3, <2>1 DEF Top
<1> QED
    BY <1>4, <1>5, <1>6, Carrying, ChangeTypes

LEMMA PopShape ==
    ASSUME PathType, Shape, path' = Popped
    PROVE  Shape' /\ (OnPath("Info")' => OnPath("Info"))
<1>1. CASE CanPop
  <2>2. DOMAIN path' \subseteq DOMAIN path /\ \A i \in DOMAIN path' : path'[i] = path[i]
      BY <1>1, PopKeeps, PathFacts
  <2>3. path # <<"Verify">>
      BY <1>1 DEF CanPop, HasNavigation
  <2> QED
      BY <2>2, <2>3 DEF Shape, OnPath
<1>2. CASE ~CanPop
    BY <1>2 DEF Popped, Shape, OnPath
<1> QED
    BY <1>1, <1>2

LEMMA CoverCarries ==
    ASSUME PathType, path' = <<"Main">>, Grows, session' \in {session, NoUid}, Top # "Register"
    PROVE  Carries(AfterCover, Stages)
<1>1. \A w \in Owners : ~OnScreen(AfterCover[w])
    BY DEF AfterCover, OnScreen, Covered
<1>2. AfterCover[Gone] = Gone
    BY ChangesOfGone
<1>3. ScreensKept(AfterCover) /\ RegistrationKept(AfterCover)
    BY <1>1, <1>2, Away DEF ScreensKept, RegistrationKept
<1> QED
    BY <1>1, <1>3, Carrying, ChangeTypes

\* A screen on top of what is not a screen of Welcome or of Register.
LEMMA AppendCarries ==
    ASSUME PathType, NEW screen, path' = Append(path, screen), Grows,
           session' \in {session, NoUid}, Top \notin {"Register", "Welcome"}
    PROVE  Carries(AsBefore, Stages)
<1>1. DOMAIN path \subseteq DOMAIN path' /\ \A i \in DOMAIN path : path'[i] = path[i]
    BY DEF PathType
<1>2. ScreensKept(AsBefore) /\ RegistrationKept(AsBefore)
    BY <1>1, Away, AsBeforeIsIdentity DEF ScreensKept, RegistrationKept
<1> QED
    BY <1>2, Carrying, ChangeTypes

\* Whatever comes after a Splash, or after the tab bar.
LEMMA OuterCarries ==
    ASSUME PathType, Shape, Top \in Outer, Grows, session' \in {session, NoUid}
    PROVE  Carries(AsBefore, Stages)
<1>1. ScreensKept(AsBefore)
    BY OuterOwnsNothing, AsBeforeIsIdentity DEF ScreensKept
<1>2. Top \notin {"Register", "Welcome"}
    BY DEF Outer
<1>3. RegistrationKept(AsBefore)
    BY <1>2, Away, AsBeforeIsIdentity DEF RegistrationKept
<1> QED
    BY <1>1, <1>2, <1>3, Carrying, ChangeTypes

\* The path stays, and so do the newcomers.
LEMMA StillCarries ==
    ASSUME Grows, UNCHANGED path,
           session' = session \/ (session' = NoUid /\ ~Newcomer(session)),
           (\A u \in Uids : Newcomer(u) => Newcomer(u)') \/ Top # "Register"
    PROVE  Carries(AsBefore, Stages)
<1>1. ScreensKept(AsBefore)
    BY AsBeforeIsIdentity DEF ScreensKept
<1>2. RegistrationKept(AsBefore)
    BY Away, AsBeforeIsIdentity DEF RegistrationKept
<1>3. Top' = Top
    BY DEF Top
<1> QED
    BY <1>1, <1>2, <1>3, Carrying, ChangeTypes

LEMMA MovedCarried ==
    ASSUME TypeOK, TypeOK', RegInv, NEW change \in Changes, change[Gone] = Gone,
           \/ mainQ' = Reowned(mainQ, change)
           \/ mainQ # <<>> /\ mainQ' = Reowned(Rest, change),
           calls' = CallsReowned(change), writes' = WritesReowned(change),
           UNCHANGED <<docs, uploads, erased, accounts, deleting, astray>>,
           session' \in {session, NoUid},
           Shape', (OnPath("Info")' => OnPath("Info")) \/ (~astray' => InfoVerified'),
           Carries(change, Stages)
    PROVE  RegInv'
<1>1. CallsGood'
    BY CallsCarried, ElemTypes, CallFacts DEF RegInv
<1>2. Carries(change, Unrequested)
    BY DEF Carries, Unrequested
<1> QED
    BY <1>1, <1>2, MovedStep

\* The same when no controller goes: the queues are as they were.
LEMMA MovedOnly ==
    ASSUME TypeOK, TypeOK', RegInv,
           UNCHANGED mainQ \/ (mainQ # <<>> /\ mainQ' = Rest),
           UNCHANGED <<calls, writes, docs, uploads, erased, accounts, deleting, astray>>,
           session' \in {session, NoUid},
           Shape', (OnPath("Info")' => OnPath("Info")) \/ (~astray' => InfoVerified'),
           Carries(AsBefore, Stages)
    PROVE  RegInv'
<1>1. /\ calls' = CallsReowned(AsBefore) /\ writes' = WritesReowned(AsBefore)
      /\ mainQ' = Reowned(mainQ, AsBefore) \/ (mainQ # <<>> /\ mainQ' = Reowned(Rest, AsBefore))
    BY AsBeforeReowned, TypeParts, QueueTypes
<1>2. AsBefore[Gone] = Gone /\ AsBefore \in Changes
    BY AsBeforeIsIdentity DEF Owners
<1> QED
    BY <1>1, <1>2, MovedCarried

LEMMA MainShape ==
    ASSUME path' = <<"Main">>
    PROVE  Shape' /\ ~OnPath("Info")'
BY DEF Shape, OnPath, Outer

LEMMA PresentMainRegInv ==
    ASSUME TypeOK, TypeOK', RegInv, Top # "Register",
           PresentMain(mainQ) \/ (mainQ # <<>> /\ PresentMain(Rest)),
           UNCHANGED <<docs, uploads, erased, accounts, deleting, astray, session>>
    PROVE  RegInv'
<1>1. PathType /\ path' = <<"Main">>
    BY TypeParts DEF PathType, PresentMain
<1>2. Carries(AfterCover, Stages)
    BY <1>1, CoverCarries, GrowsWithout
<1>3. AfterCover \in Changes /\ AfterCover[Gone] = Gone
    BY <1>1, ChangeTypes, ChangesOfGone
<1> QED
    BY <1>1, <1>2, <1>3, MainShape, MovedCarried DEF PresentMain

LEMMA BackRegInv == ASSUME IndInv, IndInv', RegInv, Back PROVE RegInv'
<1>1. TypeOK /\ TypeOK' /\ PathType /\ Shape
    BY TypeParts DEF IndInv, PathType, RegInv
<1>2. Carries(AfterPop, Stages)
    BY <1>1, PopCarries, GrowsWithout DEF Back, observed
<1>3. AfterPop \in Changes /\ AfterPop[Gone] = Gone
    BY <1>1, ChangeTypes, ChangesOfGone
<1> QED
    BY <1>1, <1>2, <1>3, PopShape, MovedCarried DEF Back, observed

LEMMA StartButtonRegInv == ASSUME IndInv, IndInv', RegInv, StartButtonAction PROVE RegInv'
BY PresentMainRegInv DEF StartButtonAction, IndInv, observed

\* Whatever is put over the tab bar leads nowhere near a registration.
LEMMA OverMain ==
    ASSUME PathType, Shape, Top = "Main", NEW screen \in {"SplashIn", "SplashOut"},
           path' = Append(path, screen)
    PROVE  Shape' /\ ~OnPath("Info")'
<1>1. \A i \in DOMAIN path : path[i] \in Outer
    BY OuterOwnsNothing DEF Outer
<1>2. \A i \in DOMAIN path' : path'[i] = screen \/ (i \in DOMAIN path /\ path'[i] = path[i])
    BY DEF PathType
<1>3. \A i \in DOMAIN path' : path'[i] \in Outer
    BY <1>1, <1>2 DEF Outer
<1> QED
    BY <1>3 DEF Shape, OnPath, Outer

LEMMA LogOutRegInv == ASSUME IndInv, IndInv', RegInv, LogOut PROVE RegInv'
<1>1. TypeOK /\ TypeOK' /\ PathType /\ Shape
    BY TypeParts DEF IndInv, PathType, RegInv
<1>2. path' = Append(path, "SplashOut")
    BY DEF LogOut, BackToLogin
<1>3. Shape' /\ ~OnPath("Info")'
    BY <1>1, <1>2, OverMain DEF LogOut
<1>4. Carries(AsBefore, Stages)
    BY <1>1, OuterCarries, GrowsWithout DEF LogOut, Outer, storeVars, observed
<1> QED
    BY <1>1, <1>3, <1>4, MovedOnly DEF LogOut, storeVars, observed

LEMMA CreateAccountRegInv ==
    ASSUME IndInv, IndInv', RegInv, CreateAccountAction PROVE RegInv'
<1>1. TypeOK /\ TypeOK' /\ PathType /\ Shape /\ CallsGood
    BY TypeParts DEF IndInv, PathType, RegInv
<1>2. path = <<"Welcome">> /\ Len(path) = 1 /\ Top = "Welcome"
    BY <1>1, WelcomeIsRoot DEF CreateAccountAction, AtWelcome
<1>3. DOMAIN path' = 1..2 /\ path'[1] = "Welcome" /\ path'[2] = "Register"
  <2>1. path[1] = "Welcome"
      BY <1>2
  <2>2. path' = Append(path, "Register")
      BY <2>1 DEF CreateAccountAction, Pushed, HasNavigation
  <2> QED
      BY <1>1, <1>2, <2>1, <2>2 DEF PathType
<1>4. Shape' /\ (OnPath("Info")' => OnPath("Info"))
    BY <1>3 DEF Shape, OnPath
<1>5. Carries(AsBefore, Unrequested)
  <2>1. ScreensKept(AsBefore)
      BY <1>2, <1>3, AsBeforeIsIdentity DEF ScreensKept
  <2>2. RegistrationKept(AsBefore)
      BY <1>2, Away, AsBeforeIsIdentity DEF RegistrationKept
  <2> QED
      BY <2>1, <2>2, Carrying, ChangeTypes, GrowsWithout
         DEF CreateAccountAction, authVars, storeVars, observed, Unrequested
<1>6. CallsGood'
  <2> SUFFICES ASSUME NEW s \in Slots, CallStage(calls[s]) = "signIn" PROVE GoodCall(calls[s])'
    <3>1. \A s \in Slots : CallStage(calls[s]) \in Unrequested \/ CallStage(calls[s]) = "signIn"
        BY <1>1, ElemTypes, CallFacts DEF Unrequested
    <3>2. UNCHANGED calls
        BY DEF CreateAccountAction, authVars
    <3> QED
        BY <1>1, <1>5, <3>1, <3>2, ElemTypes, CallsKept
  <2>1. PICK c \in Call : c = calls[s] /\ c = calls'[s]
      BY <1>1, ElemTypes DEF CreateAccountAction, authVars
  <2>2. ~OnScreen(c.owner)
    <3>1. c.k = "signIn"
        BY <2>1 DEF CallStage
    <3>2. c.owner # 1
        BY <1>2, <2>1, <3>1 DEF CreateAccountAction, AtWelcome, Pending
    <3>3. OnScreen(c.owner) => c.owner \in DOMAIN path
        BY <1>1, <2>1 DEF CallsGood, GoodCall, Good, Owned
    <3> QED
        BY <1>2, <3>2, <3>3
  <2>3. Born(c.uid)'
      BY <1>1, <2>1 DEF CallsGood, GoodCall, Good, Born, CreateAccountAction, authVars
  <2>4. CallStage(c) = "signIn"
      BY <2>1
  <2>5. Good("signIn", c.uid, c.owner)'
      BY <2>2, <2>3 DEF Good, Owned, Registrations
  <2> QED
      BY <2>1, <2>4, <2>5 DEF GoodCall
<1>7. /\ calls' = CallsReowned(AsBefore) /\ writes' = WritesReowned(AsBefore)
      /\ mainQ' = Reowned(mainQ, AsBefore)
    BY <1>1, AsBeforeReowned, TypeParts DEF CreateAccountAction, authVars, storeVars
<1>8. AsBefore[Gone] = Gone /\ AsBefore \in Changes
    BY AsBeforeIsIdentity DEF Owners
<1> QED
    BY <1>1, <1>4, <1>5, <1>6, <1>7, <1>8, MovedStep
       DEF CreateAccountAction, authVars, storeVars, observed

(***************************************************************************)
(* Steps that start a request, and steps of the servers.                   *)
(***************************************************************************)
\* What keeps an account living, unerased and undisturbed.
LEMMA NewcomersKept ==
    ASSUME \A u \in Uids : Live(u) => Live(u)', UNCHANGED <<deleting, erased>>,
           \A u \in Uids : Reloading(u)' => Reloading(u)
    PROVE  \A u \in Uids : Newcomer(u) => Newcomer(u)'
BY DEF Newcomer

LEMMA SteadyButOne ==
    ASSUME TypeOK, Steady, UNCHANGED <<path, accounts, session, storeVars, erased>>,
           OneRegistration'
    PROVE  Steady'
BY DEF Steady, Photos, Recorded, storeVars, InfoVerified, OnPath, VerifiedOrGone

\* A request started for a user there is, at the screen on top, which is
\* the first registration if it is one.
LEMMA StartRegInv ==
    ASSUME IndInv, IndInv', RegInv, NEW r \in Call, Start(r),
           UNCHANGED <<path, mainQ, accounts, session, cached, deleting, storeVars, erased>>,
           astray => astray', GoodCall(r)',
           RegCall(r) /\ ~astray' => NoCall /\ NoHandler /\ NoWrite,
           r.k \in {"back", "continue"} => Top # "Register"
    PROVE  RegInv'
<1>1. TypeOK /\ TypeOK' /\ CallsGood /\ HandlersGood /\ WritesGood
    BY DEF IndInv, RegInv
<1>2. PICK s \in Slots : calls[s] = Idle /\ calls' = [calls EXCEPT ![s] = r]
    BY DEF Start
<1>3. calls'[s] = r /\ \A t \in Slots \ {s} : calls'[t] = calls[t]
    BY <1>1, <1>2, TypeParts DEF CallsType
<1>4. (\A u \in Uids : Newcomer(u) => Newcomer(u)') \/ Top # "Register"
  <2> SUFFICES ASSUME r.k \notin {"back", "continue"}
               PROVE  \A u \in Uids : Newcomer(u) => Newcomer(u)'
      OBVIOUS
  <2>1. \A u \in Uids : Reloading(u)' => Reloading(u)
      BY <1>3 DEF Reloading, Elems
  <2> QED
      BY <2>1, NewcomersKept DEF Live
<1>5. Carries(AsBefore, Stages)
    BY <1>4, StillCarries, GrowsWithout DEF storeVars
<1>6. CallsGood'
    BY <1>1, <1>3, <1>5, CallsKept, ElemTypes, CallFacts
<1>7. HandlersGood' /\ WritesGood'
    BY <1>1, <1>5, HandlersKept, WritesKept, ElemTypes, HandlerFacts, WriteFacts
       DEF storeVars, Elems
<1>8. Shape' /\ People'
    BY DEF RegInv, Shape, People, Born
<1>9. ASSUME ~astray' PROVE Steady'
  <2>1. Steady
      BY <1>9 DEF RegInv
  <2>2. NoNewHandler /\ NoNewWrite
      BY <1>1, HandlerQueues, WriteQueues DEF storeVars
  <2>3. OneRegistration'
    <3>1. CASE RegCall(r)
      <4>1. NoCall /\ NoHandler' /\ NoWrite'
          BY <1>9, <3>1, <1>1, <2>2, FewerHandlers, FewerWrites
      <4>2. OneCall'
          BY <4>1, <1>3 DEF NoCall, OneCall
      <4>3. OneHandler' /\ OneWrite'
          BY <1>1, <2>1, <2>2, FewerHandlers, FewerWrites DEF Steady, OneRegistration
      <4> QED
          BY <4>1, <4>2, <4>3 DEF OneRegistration
    <3>2. CASE ~RegCall(r)
      <4>1. NoNewCall
          BY <1>3, <3>2 DEF NoNewCall
      <4> QED
          BY <1>1, <2>1, <2>2, <4>1, FewerRegistrations DEF Steady
    <3> QED
        BY <3>1, <3>2
  <2> QED
      BY <1>1, <2>1, <2>3, SteadyButOne
<1> QED
    BY <1>6, <1>7, <1>8, <1>9 DEF RegInv

\* The current user, if any, has an account.
LEMMA RequestGood ==
    ASSUME IndInv, IndInv', RegInv, NEW k \in CallKinds \ {"idle"}, NEW e \in Emails \cup {NoEmail},
           NEW u \in {NoUid, session}, k \in {"back", "continue"} => u = session,
           Top = Home(k), NEW r, r = Request(k, e, u, Len(path)),
           UNCHANGED <<path, accounts, session>>
    PROVE  r \in Call /\ GoodCall(r)'
<1>1. PathType /\ session \in Users
    BY TypeParts DEF IndInv, PathType
<1>2. Len(path) \in Nat \ {0} /\ Len(path) \in DOMAIN path /\ Len(path) \in Owners
    BY <1>1, PathFacts DEF Owners
<1>3. r \in Call
    BY <1>1, <1>2, RequestType DEF Users
<1>4. CallStage(r) = k /\ r.uid = u /\ r.owner = Len(path)
    BY DEF Request, CallStage
<1>5. Born(u)'
    BY NoUidAssumption DEF RegInv, People, Born
<1>6. PICK w : w = Len(path)
    OBVIOUS
<1>7. Good(k, u, w)'
  <2>1. Owned(k, w)' /\ Top' = Top
      BY <1>2, <1>6 DEF Owned, Top
  <2>2. k \in Registrations => k = "create" /\ AtRegister(w)'
      BY <1>6 DEF CallKinds, Registrations, Home, AtRegister, Top
  <2>3. k = "signIn" => Top' = "Welcome"
      BY <2>1 DEF Home, Registrations
  <2>4. k \notin {"delete", "created", "saved", "photo"}
      BY DEF CallKinds
  <2> QED
      BY <1>5, <2>1, <2>2, <2>3, <2>4 DEF Good
<1>8. GoodCall(r)'
    BY <1>4, <1>6, <1>7 DEF GoodCall
<1> QED
    BY <1>3, <1>8

LEMMA RegisterRegInv ==
    ASSUME IndInv, IndInv', RegInv, NEW e \in Emails, RegisterAction(e) PROVE RegInv'
<1>1. PICK r : r = Request("create", e, NoUid, Len(path))
    OBVIOUS
<1>2. /\ Start(r)
      /\ UNCHANGED <<path, mainQ, accounts, session, cached, deleting, storeVars, erased>>
    BY <1>1 DEF RegisterAction
<1>3. r \in Call /\ GoodCall(r)'
  <2>1. Top = Home("create")
      BY DEF RegisterAction, Home, Registrations
  <2> QED
      BY <1>1, <1>2, <2>1, RequestGood DEF CallKinds
<1>4. r.k = "create"
    BY <1>1 DEF Request
<1>5. astray => astray'
    BY DEF RegisterAction
<1>6. ~astray' => NoCall /\ NoHandler /\ NoWrite
    BY DEF RegisterAction, Registering, NoCall, NoHandler, NoWrite, RegCall, RegHandler, RegWrite
<1> QED
    BY <1>2, <1>3, <1>4, <1>5, <1>6, StartRegInv

LEMMA LogInRegInv ==
    ASSUME IndInv, IndInv', RegInv, NEW e \in Emails, LogIn(e) PROVE RegInv'
<1>1. PICK r, k, x, u :
        /\ r = Request(k, x, u, Len(path)) /\ Start(r)
        /\ k \in {"signIn", "get"} /\ x \in Emails \cup {NoEmail} /\ u \in {NoUid, session}
  <2>1. CASE session = NoUid
      BY <2>1 DEF LogIn
  <2>2. CASE session # NoUid
      BY <2>2 DEF LogIn
  <2> QED
      BY <2>1, <2>2
<1>2. UNCHANGED <<path, mainQ, accounts, session, cached, deleting, storeVars, erased, astray>>
    BY DEF LogIn, observed
<1>3. r \in Call /\ GoodCall(r)'
  <2>1. Top = Home(k) /\ k \in CallKinds \ {"idle"} /\ k \notin {"back", "continue"}
      BY <1>1 DEF LogIn, AtWelcome, Home, Registrations, CallKinds
  <2> QED
      BY <1>1, <1>2, <2>1, RequestGood
<1>4. r.k \in {"signIn", "get"}
    BY <1>1 DEF Request
<1> QED
    BY <1>1, <1>2, <1>3, <1>4, StartRegInv DEF RegCall

LEMMA VerifyTapsRegInv ==
    ASSUME IndInv, IndInv', RegInv, VerifyBack \/ CheckEmailVerification PROVE RegInv'
<1>1. PICK r, k :
        /\ r = Request(k, NoEmail, session, Len(path)) /\ Start(r)
        /\ k \in {"back", "continue"}
    BY DEF VerifyBack, CheckEmailVerification
<1>2. /\ UNCHANGED <<path, mainQ, accounts, session, cached, deleting, storeVars, erased, astray>>
      /\ Top = "Verify"
    BY DEF VerifyBack, CheckEmailVerification, observed
<1>3. r \in Call /\ GoodCall(r)'
  <2>1. Top = Home(k) /\ k \in CallKinds \ {"idle"}
      BY <1>1, <1>2 DEF Home, Registrations, CallKinds
  <2> QED
      BY <1>1, <1>2, <2>1, RequestGood
<1>4. r.k \in {"back", "continue"}
    BY <1>1 DEF Request
<1> QED
    BY <1>1, <1>2, <1>3, <1>4, StartRegInv DEF RegCall

\* A mail sent changes no more than "new" to "mailed".
LEMMA MailLinkKeeps ==
    ASSUME TypeOK, NEW u \in Uids, MailLink(u)
    PROVE  \A v \in Uids : /\ Born(v) => Born(v)'
                           /\ Live(v) => Live(v)'
                           /\ VerifiedOrGone(v) => VerifiedOrGone(v)'
<1>1. \A v \in Uids : \/ accounts'[v].status = accounts[v].status
                      \/ accounts[v].status = "new" /\ accounts'[v].status = "mailed"
  <2>1. CASE UNCHANGED accounts
      BY <2>1
  <2>2. CASE accounts' = [accounts EXCEPT ![u].status = IF @ = "new" THEN "mailed" ELSE @]
    <3>1. \A v \in Uids : v # u => accounts'[v] = accounts[v]
        BY <2>2, TypeParts
    <3>2. accounts'[u].status = IF accounts[u].status = "new" THEN "mailed" ELSE accounts[u].status
        BY <2>2, TypeParts DEF Account
    <3> QED
        BY <3>1, <3>2
  <2> QED
      BY <2>1, <2>2 DEF MailLink
<1> QED
    BY <1>1 DEF Born, Live, VerifiedOrGone

\* Steps that touch nothing but accounts and deletions.
LEMMA AccountsRegInv ==
    ASSUME IndInv, IndInv', RegInv,
           UNCHANGED <<path, mainQ, session, calls, storeVars, observed>>,
           \A u \in Uids : /\ Born(u) => Born(u)'
                           /\ VerifiedOrGone(u) => VerifiedOrGone(u)'
                           /\ Newcomer(u) => Newcomer(u)'
                           /\ deleting'[u] # "no" => deleting[u] # "no"
    PROVE  RegInv'
<1>1. TypeOK /\ TypeOK' /\ CallsGood /\ HandlersGood /\ WritesGood /\ session \in Users
    BY TypeParts DEF IndInv, RegInv
<1>2. Grows
    BY DEF Grows, Recorded, storeVars, observed
<1>3. Carries(AsBefore, Stages)
    BY <1>2, StillCarries
<1>4. CallsGood' /\ HandlersGood' /\ WritesGood'
    BY <1>1, <1>3, CallsKept, HandlersKept, WritesKept, ElemTypes, CallFacts, HandlerFacts,
       WriteFacts DEF storeVars, Elems
<1>5. Shape' /\ People'
    BY NoUidAssumption DEF RegInv, Shape, People, Born, observed
<1>6. ASSUME ~astray' PROVE Steady'
  <2>1. Steady
      BY <1>6 DEF RegInv, observed
  <2>2. OneRegistration'
      BY <1>1, <2>1, HandlerQueues, WriteQueues, FewerRegistrations
         DEF Steady, storeVars, NoNewCall
  <2>3. InfoVerified'
      BY <1>1, <2>1, InfoKept DEF Steady, OnPath
  <2>4. Photos' /\ Ordered(writes', erased')
      BY <2>1 DEF Steady, Photos, Recorded, storeVars, observed
  <2> QED
      BY <2>2, <2>3, <2>4 DEF Steady
<1> QED
    BY <1>4, <1>5, <1>6 DEF RegInv

LEMMA ResendRegInv == ASSUME IndInv, IndInv', RegInv, ResendLink PROVE RegInv'
<1>1. TypeOK /\ session \in Uids
    BY TypeParts DEF IndInv, ResendLink, Users
<1>2. \A u \in Uids : /\ Born(u) => Born(u)'
                      /\ Live(u) => Live(u)'
                      /\ VerifiedOrGone(u) => VerifiedOrGone(u)'
    BY <1>1, MailLinkKeeps DEF ResendLink
<1>3. \A u \in Uids : Reloading(u)' => Reloading(u)
    BY DEF ResendLink, Reloading, Elems
<1>4. \A u \in Uids : Newcomer(u) => Newcomer(u)'
    BY <1>2, <1>3, NewcomersKept DEF ResendLink, observed
<1> QED
    BY <1>2, <1>4, AccountsRegInv DEF ResendLink

LEMMA MailboxRegInv == ASSUME IndInv, IndInv', RegInv, Mailbox PROVE RegInv'
<1>1. PICK v \in Uids : OpenLink(v)
    BY DEF Mailbox
<1>2. \A u \in Uids : \/ accounts'[u] = accounts[u]
                      \/ accounts[u].status = "mailed" /\ accounts'[u].status = "verified"
    BY <1>1, TypeParts DEF OpenLink, IndInv, Account
<1>3. \A u \in Uids : /\ Born(u) => Born(u)'
                      /\ Live(u) => Live(u)'
                      /\ VerifiedOrGone(u) => VerifiedOrGone(u)'
    BY <1>2 DEF Born, Live, VerifiedOrGone
<1>4. UNCHANGED <<path, mainQ, session, calls, deleting, storeVars, observed>>
    BY <1>1 DEF Mailbox, OpenLink
<1>5. \A u \in Uids : Reloading(u)' => Reloading(u)
    BY <1>4 DEF Reloading, Elems
<1>6. \A u \in Uids : Newcomer(u) => Newcomer(u)'
    BY <1>3, <1>4, <1>5, NewcomersKept DEF observed
<1> QED
    BY <1>3, <1>4, <1>6, AccountsRegInv

LEMMA ServeDeleteRegInv ==
    ASSUME IndInv, IndInv', RegInv, NEW v \in Uids, ServeDelete(v),
           UNCHANGED <<path, mainQ, storeVars, observed>>
    PROVE  RegInv'
<1>1. UNCHANGED <<session, calls>>
    BY DEF ServeDelete
<1>2. /\ deleting[v] # "no"
      /\ \A u \in Uids \ {v} : accounts'[u] = accounts[u] /\ deleting'[u] = deleting[u]
      /\ accounts'[v] = accounts[v] \/ accounts'[v].status = "deleted"
    BY TypeParts DEF ServeDelete, IndInv
<1>3. \A u \in Uids : Reloading(u)' => Reloading(u)
    BY <1>1 DEF Reloading, Elems
<1>4. \A u \in Uids : Newcomer(u) => Newcomer(u)'
    BY <1>2, <1>3 DEF Newcomer, Live, observed
<1>5. \A u \in Uids : /\ Born(u) => Born(u)'
                      /\ VerifiedOrGone(u) => VerifiedOrGone(u)'
    BY <1>2 DEF Born, VerifiedOrGone
<1> QED
    BY <1>1, <1>2, <1>4, <1>5, AccountsRegInv

LEMMA DeleteGood ==
    ASSUME NEW u \in Uids, Born(u)', u \in erased', NEW w, w = Delete(u)
    PROVE  GoodWrite(w)'
<1>1. WriteStage(w) = "delete" /\ WriteUser(w) = u /\ w.owner = Gone
    BY DEF Delete, WriteStage, WriteUser
<1>2. PICK o : o = Gone
    OBVIOUS
<1>3. ~OnScreen(o)
    BY <1>2 DEF OnScreen, Gone
<1>4. Good("delete", u, o)'
    BY <1>3 DEF Good, Owned, Registrations
<1> QED
    BY <1>1, <1>2, <1>4 DEF GoodWrite

\* The queues after a deletion was queued behind "base", for all or no one.
LEMMA DeleteOrdered ==
    ASSUME NEW base \in [Users -> Seq(Write)], NEW gone, NEW u \in Uids, Ordered(base, gone),
           NEW queues, NEW more,
           \/ queues = base /\ more = gone
           \/ queues = [base EXCEPT ![u] = Enqueued(@, Delete(u))] /\ more = gone \cup {u}
    PROVE  Ordered(queues, more)
BY OrderedDelete

LEMMA DeleteAccountRegInv == ASSUME IndInv, IndInv', RegInv, DeleteAccount PROVE RegInv'
<1>1. /\ TypeOK /\ TypeOK' /\ PathType /\ Shape /\ CallsGood /\ HandlersGood /\ WritesGood
      /\ session \in Uids /\ session \in Users
    BY TypeParts DEF IndInv, PathType, RegInv, DeleteAccount, Users
<1>2. UNCHANGED <<mainQ, accounts, cached, calls, docs, uploads, astray>> /\ Top = "Main"
    BY DEF DeleteAccount
<1>3. /\ session' \in {session, NoUid}
      /\ \/ UNCHANGED <<writes, erased>>
         \/ /\ writes' = [writes EXCEPT ![session] = Enqueued(@, Delete(session))]
            /\ erased' = erased \cup {session}
    BY DEF DeleteAccount
<1>4. Grows
    BY <1>2, <1>3, GrowsWithout
<1>5. Shape' /\ ~OnPath("Info")'
  <2>1. PICK screen \in {"SplashIn", "SplashOut"} : path' = Append(path, screen)
      BY DEF DeleteAccount, BackToLogin
  <2> QED
      BY <1>1, <1>2, <2>1, OverMain
<1>6. Carries(AsBefore, Stages)
    BY <1>1, <1>2, <1>3, <1>4, OuterCarries DEF Outer
<1>7. CallsGood' /\ HandlersGood'
    BY <1>1, <1>2, <1>6, CallsKept, HandlersKept, ElemTypes, CallFacts, HandlerFacts DEF Elems
<1>8. WritesGood'
  <2>1. ASSUME NEW u \in Users, NEW w \in Elems(writes'[u])
        PROVE  w \in Elems(writes[u]) \/ (w = Delete(session) /\ session \in erased')
    <3>1. CASE UNCHANGED <<writes, erased>>
        BY <3>1
    <3>2. CASE /\ writes' = [writes EXCEPT ![session] = Enqueued(@, Delete(session))]
               /\ erased' = erased \cup {session}
      <4>1. writes[session] \in Seq(Write) /\ writes \in [Users -> Seq(Write)]
          BY <1>1, TypeParts
      <4>2. /\ u # session => writes'[u] = writes[u]
            /\ u = session => writes'[u] = Enqueued(writes[u], Delete(session))
          BY <1>1, <3>2, <4>1
      <4> QED
          BY <1>1, <3>2, <4>1, <4>2, EnqueuedDelete DEF Elems
    <3> QED
        BY <1>3, <3>1, <3>2
  <2>2. ASSUME NEW w, w = Delete(session), session \in erased' PROVE GoodWrite(w)'
    <3>1. PICK u \in Uids : u = session
        BY <1>1
    <3>2. Born(u)'
        BY <1>2, <3>1 DEF RegInv, People, Born
    <3> QED
        BY <2>2, <3>1, <3>2, DeleteGood
  <2>3. \A u \in Users : \A w \in Elems(writes[u]) : WriteStage(w) \in Stages
      BY <1>1, ElemTypes, WriteFacts
  <2> QED
      BY <1>1, <1>6, <2>1, <2>2, <2>3, WritesKept
<1>9. People'
  <2>1. \A u \in Uids : deleting'[u] # "no" => deleting[u] # "no" \/ u = session
      BY <1>1, TypeParts DEF DeleteAccount, DeleteRequested
  <2> QED
      BY <1>2, <1>3, <2>1, NoUidAssumption DEF RegInv, People, Born
<1>10. ASSUME ~astray' PROVE Steady'
  <2>1. Steady
      BY <1>2, <1>10 DEF RegInv
  <2>2. OneRegistration'
    <3>1. NoNewCall /\ NoNewHandler
        BY <1>1, <1>2, HandlerQueues DEF NoNewCall
    <3>2. NoNewWrite
        BY <1>1, <1>3, WriteQueues, DeleteIsNew, ChangeTypes
    <3> QED
        BY <1>1, <2>1, <3>1, <3>2, FewerRegistrations DEF Steady
  <2>3. Photos'
      BY <1>2, <1>3, <2>1 DEF Steady, Photos, Recorded
  <2>4. Ordered(writes', erased')
      BY <1>1, <1>3, <2>1, DeleteOrdered, TypeParts DEF Steady
  <2>5. InfoVerified'
      BY <1>5 DEF InfoVerified
  <2> QED
      BY <2>2, <2>3, <2>4, <2>5 DEF Steady
<1> QED
    BY <1>5, <1>7, <1>8, <1>9, <1>10 DEF RegInv

LEMMA TapsRegInv == ASSUME IndInv, IndInv', RegInv, Taps PROVE RegInv'
BY CreateAccountRegInv, BackRegInv, RegisterRegInv, LogInRegInv, VerifyTapsRegInv, ResendRegInv,
   StartButtonRegInv, LogOutRegInv, DeleteAccountRegInv DEF Taps

(***************************************************************************)
(* Completion handlers.                                                    *)
(***************************************************************************)
LEMMA HandlerTaken ==
    ASSUME IndInv, RegInv, mainQ # <<>>, NEW h, h = Head(mainQ)
    PROVE  /\ h \in Handlers /\ h.uid \in Uids /\ h.owner \in Owners /\ GoodHandler(h)
           /\ Rest \in Seq(Handlers)
           /\ \A g \in Elems(Rest) : g \in Elems(mainQ)
           /\ ~astray /\ RegHandler(h) => NoCall /\ NoWrite /\ \A g \in Elems(Rest) : ~RegHandler(g)
<1>1. mainQ \in Seq(Handlers) /\ h \in Elems(mainQ)
    BY TypeParts, ElemsTail DEF IndInv
<1>2. h \in Handlers /\ Rest \in Seq(Handlers)
    BY TypeParts, QueueTypes DEF IndInv
<1>3. \A g \in Elems(Rest) : g \in Elems(mainQ)
    BY <1>1, ElemsTail DEF Rest
<1>4. ASSUME ~astray, RegHandler(h)
      PROVE  NoCall /\ NoWrite /\ \A g \in Elems(Rest) : ~RegHandler(g)
  <2>1. OneRegistration
      BY <1>4 DEF RegInv, Steady
  <2>2. 1 \in DOMAIN mainQ /\ mainQ[1] = h
      BY <1>1, TailPositions
  <2>3. ~NoHandler
      BY <1>4, <2>2 DEF NoHandler
  <2>4. ASSUME NEW i \in DOMAIN Rest PROVE ~RegHandler(Rest[i])
    <3>1. i \in Nat /\ i + 1 \in DOMAIN mainQ /\ Rest[i] = mainQ[i + 1]
        BY <1>1, TailPositions DEF Rest
    <3>2. i + 1 # 1
        BY <1>2
    <3>3. RegHandler(mainQ[i + 1]) => i + 1 = 1
        BY <1>4, <2>1, <2>2, <3>1 DEF OneRegistration, OneHandler
    <3> QED
        BY <3>1, <3>2, <3>3
  <2> QED
      BY <2>1, <2>3, <2>4 DEF OneRegistration, Elems
<1> QED
    BY <1>1, <1>2, <1>3, <1>4, HandlerFacts DEF RegInv, HandlersGood

LEMMA FewerReloads ==
    ASSUME UNCHANGED calls, \A h \in Elems(mainQ') : h.k = "back" => h \in Elems(mainQ)
    PROVE  \A u \in Uids : Reloading(u)' => Reloading(u)
BY DEF Reloading, Elems

\* A handler that does nothing is gone.
LEMMA StayRegInv ==
    ASSUME IndInv, IndInv', RegInv, mainQ # <<>>, Stay(Rest), OnlyScreens PROVE RegInv'
<1>1. TypeOK /\ TypeOK' /\ mainQ' = Rest /\ UNCHANGED <<path, calls, writes>>
    BY DEF IndInv, Stay
<1>2. PICK h : h = Head(mainQ)
    OBVIOUS
<1>3. \A g \in Elems(mainQ') : g \in Elems(mainQ)
    BY <1>1, <1>2, HandlerTaken
<1>4. \A u \in Uids : Newcomer(u) => Newcomer(u)'
    BY <1>1, <1>3, FewerReloads, NewcomersKept DEF OnlyScreens, observed, Live
<1>5. Carries(AsBefore, Stages)
    BY <1>1, <1>4, StillCarries, GrowsWithout DEF OnlyScreens, observed
<1>6. Shape' /\ (OnPath("Info")' => OnPath("Info"))
    BY <1>1 DEF RegInv, Shape, OnPath
<1> QED
    BY <1>1, <1>5, <1>6, MovedOnly DEF OnlyScreens, observed

LEMMA GoHomeRegInv ==
    ASSUME IndInv, IndInv', RegInv, mainQ # <<>>, GoHome(Head(mainQ)) PROVE RegInv'
<1>1. PICK h : h = Head(mainQ)
    OBVIOUS
<1>2. CASE Stay(Rest)
    BY <1>2, StayRegInv DEF GoHome
<1>3. CASE OnScreen(h.owner) /\ h.owner = Len(path) /\ PresentMain(Rest)
  <2>1. Owned(HandlerStage(h), h.owner) /\ h.k \in {"signIn", "get"}
      BY <1>1, HandlerTaken DEF GoodHandler, Good, GoHome
  <2>2. Top = "Welcome"
      BY <1>3, <2>1 DEF Owned, HandlerStage, Home, Registrations, Top
  <2> QED
      BY <1>3, <2>2, PresentMainRegInv DEF IndInv, GoHome, OnlyScreens, observed
<1> QED
    BY <1>1, <1>2, <1>3 DEF GoHome

\* The shape of a stack with one more screen after Register.
LEMMA PushShape ==
    ASSUME PathType, Shape, NEW i \in DOMAIN path, path[i] \in {"Register", "Verify"},
           NEW screen \in {"Verify", "Info"}, path' = Pushed(screen)
    PROVE  /\ Shape'
           /\ path' = path \/ path' = Append(path, screen)
           /\ Top # "Welcome" /\ (path[i] = "Verify" => Top \notin {"Register", "Welcome"})
           /\ screen = "Verify" => (OnPath("Info")' => OnPath("Info"))
<1>1. path' = path \/ path' = Append(path, screen)
    BY DEF Pushed
<1>2. CASE path = <<"Verify">>
  <2>1. path' = path
      BY <1>2 DEF Pushed, HasNavigation
  <2> QED
      BY <1>2, <2>1 DEF Shape, Top, OnPath
<1>3. CASE \A j \in DOMAIN path : /\ j = 1 => path[j] = "Welcome"
                                  /\ j = 2 => path[j] = "Register"
                                  /\ j > 2 => path[j] \in {"Verify", "Info"}
  <2>1. Len(path) \in Nat \ {0} /\ DOMAIN path = 1..Len(path)
      BY PathFacts
  <2>2. i \in Nat /\ i # 1 /\ i <= Len(path) /\ (path[i] = "Verify" => i > 2)
      BY <1>3, <2>1
  <2>3. /\ Len(path) >= 2 /\ Top # "Welcome"
        /\ path[i] = "Verify" => Top \notin {"Register", "Welcome"}
      BY <1>3, <2>1, <2>2 DEF Top
  <2>4. \A j \in DOMAIN path' : \/ j \in DOMAIN path /\ path'[j] = path[j]
                                \/ j = Len(path) + 1 /\ path'[j] = screen
      BY <1>1, <2>1 DEF PathType
  <2>5. Shape'
      BY <1>3, <2>1, <2>3, <2>4 DEF Shape
  <2>6. screen = "Verify" => (OnPath("Info")' => OnPath("Info"))
      BY <2>4 DEF OnPath
  <2> QED
      BY <1>1, <2>3, <2>5, <2>6
<1> QED
    BY <1>2, <1>3 DEF Shape, Outer

LEMMA EmailCheckedRegInv ==
    ASSUME IndInv, IndInv', RegInv, mainQ # <<>>, EmailChecked(Head(mainQ)) PROVE RegInv'
<1>1. PICK h : h = Head(mainQ)
    OBVIOUS
<1>2. h.k = "continue" /\ OnlyScreens
    BY <1>1 DEF EmailChecked
<1>3. CASE Stay(Rest)
    BY <1>2, <1>3, StayRegInv
<1>4. CASE cached[h.uid] /\ OnScreen(h.owner) /\ Push("Info")
  <2>1. /\ TypeOK /\ TypeOK' /\ PathType /\ Shape
        /\ path' = Pushed("Info") /\ mainQ' = Rest /\ UNCHANGED <<calls, writes>>
      BY <1>4, TypeParts DEF IndInv, PathType, RegInv, Push
  <2>2. h.uid \in Uids /\ Good("continue", h.uid, h.owner)
      BY <1>1, <1>2, HandlerTaken DEF GoodHandler, HandlerStage
  <2>3. h.owner \in DOMAIN path /\ path[h.owner] = "Verify"
      BY <1>4, <2>2 DEF Good, Owned, Home, Registrations
  <2>4. /\ Shape' /\ Top \notin {"Register", "Welcome"}
        /\ path' = path \/ path' = Append(path, "Info")
      BY <2>1, <2>3, PushShape
  <2>5. ASSUME ~astray' PROVE InfoVerified'
    <3>1. session \in {NoUid, h.uid}
        BY <1>2, <1>4, <2>2, <2>5 DEF Good, OnlyScreens, observed
    <3>2. VerifiedOrGone(h.uid)
        BY <1>4, <2>2 DEF IndInv, TrustIsEarned
    <3> QED
        BY <1>2, <3>1, <3>2 DEF InfoVerified, VerifiedOrGone, OnlyScreens
  <2>6. Grows
      BY <1>2, GrowsWithout DEF OnlyScreens, observed
  <2>7. Carries(AsBefore, Stages)
    <3>1. CASE path' = path
        BY <1>2, <2>4, <2>6, <3>1, StillCarries DEF OnlyScreens
    <3>2. CASE path' = Append(path, "Info")
        BY <1>2, <2>1, <2>4, <2>6, <3>2, AppendCarries DEF OnlyScreens
    <3> QED
        BY <2>4, <3>1, <3>2
  <2> QED
      BY <1>2, <2>1, <2>4, <2>5, <2>7, MovedOnly DEF OnlyScreens, observed
<1> QED
    BY <1>1, <1>3, <1>4 DEF EmailChecked

\* A handler taken from the queue, whatever it does to the writes.
LEMMA HandledCarries ==
    ASSUME IndInv, RegInv, mainQ # <<>>, mainQ' = Rest,
           UNCHANGED <<path, authVars, docs, observed>>
    PROVE  Carries(AsBefore, Stages)
<1>1. \A u \in Uids : Reloading(u)' => Reloading(u)
  <2>1. \A g \in Elems(mainQ') : g \in Elems(mainQ)
      BY HandlerTaken
  <2> QED
      BY <2>1, FewerReloads DEF authVars
<1>2. \A u \in Uids : Newcomer(u) => Newcomer(u)'
    BY <1>1, NewcomersKept DEF authVars, observed, Live
<1> QED
    BY <1>2, StillCarries, GrowsWithout DEF authVars, observed

\* What follows an append to the queue of the current user.
LEMMA AppendedWrites ==
    ASSUME TypeOK, NEW w \in Write, writes' = [writes EXCEPT ![session] = Append(@, w)]
    PROVE  /\ \A u \in Users : \A x \in Elems(writes'[u]) : x \in Elems(writes[u]) \/ x = w
           /\ NoWrite => OneWrite'
<1>1. writes \in [Users -> Seq(Write)] /\ session \in Users
    BY TypeParts
<1>2. /\ writes'[session] = Append(writes[session], w)
      /\ \A u \in Users \ {session} : writes'[u] = writes[u]
    BY <1>1
<1>3. /\ \A i \in DOMAIN writes'[session] :
            \/ i \in DOMAIN writes[session] /\ writes'[session][i] = writes[session][i]
            \/ i = Len(writes[session]) + 1 /\ writes'[session][i] = w
    BY <1>1, <1>2
<1>4. \A u \in Users : \A x \in Elems(writes'[u]) : x \in Elems(writes[u]) \/ x = w
    BY <1>2, <1>3 DEF Elems
<1>5. ASSUME NoWrite,
             NEW u \in Users, NEW i \in DOMAIN writes'[u], RegWrite(writes'[u][i])
      PROVE  u = session /\ i = Len(writes[session]) + 1
    BY <1>1, <1>2, <1>3, <1>5 DEF NoWrite
<1>6. NoWrite => OneWrite'
    BY <1>5 DEF OneWrite
<1> QED
    BY <1>4, <1>6

\* A handler that does nothing, or makes one write for the current user.
LEMMA AppendRegInv ==
    ASSUME IndInv, IndInv', RegInv, mainQ # <<>>, mainQ' = Rest,
           UNCHANGED <<path, authVars, docs, uploads, observed>>, NEW w \in Write,
           \/ UNCHANGED writes
           \/ /\ writes' = [writes EXCEPT ![session] = Append(@, w)]
              /\ GoodWrite(w)'
              /\ ~astray => /\ session \in Uids /\ w.doc = session
                            /\ RegWrite(w) => session \notin erased /\ NoCall /\ NoWrite /\ NoHandler'
    PROVE  RegInv'
<1>1. TypeOK /\ TypeOK' /\ CallsGood /\ HandlersGood /\ WritesGood /\ session \in Users
    BY TypeParts DEF IndInv, RegInv
<1>2. Carries(AsBefore, Stages)
    BY HandledCarries
<1>3. CallsGood' /\ HandlersGood'
  <2>1. \A g \in Elems(mainQ') : g \in Elems(mainQ)
      BY HandlerTaken
  <2>2. UNCHANGED calls
      BY DEF authVars
  <2> QED
      BY <1>1, <1>2, <2>1, <2>2, CallsKept, HandlersKept, ElemTypes, CallFacts, HandlerFacts
<1>4. WritesGood'
  <2>1. \A u \in Users : \A x \in Elems(writes'[u]) : x \in Elems(writes[u]) \/ GoodWrite(x)'
      BY <1>1, AppendedWrites
  <2>2. \A u \in Users : \A x \in Elems(writes[u]) : WriteStage(x) \in Stages
      BY <1>1, ElemTypes, WriteFacts
  <2> QED
      BY <1>1, <1>2, <2>1, <2>2, WritesKept
<1>5. Shape' /\ People'
    BY DEF RegInv, Shape, People, Born, authVars, observed
<1>6. ASSUME ~astray' PROVE Steady'
  <2>1. Steady /\ ~astray
      BY <1>6 DEF RegInv, observed
  <2>2. NoNewCall /\ NoNewHandler
      BY <1>1, HandlerQueues DEF NoNewCall, authVars
  <2>3. OneRegistration'
    <3>1. CASE UNCHANGED writes \/ ~RegWrite(w)
      <4>1. NoNewWrite
          BY <1>1, <3>1, WriteQueues
      <4> QED
          BY <1>1, <2>1, <2>2, <4>1, FewerRegistrations DEF Steady
    <3>2. CASE RegWrite(w) /\ writes' = [writes EXCEPT ![session] = Append(@, w)]
      <4>0. NoCall /\ NoWrite /\ NoHandler'
        <5>1. CASE UNCHANGED writes
          <6>1. writes[session] = Append(writes[session], w) /\ writes[session] \in Seq(Write)
              BY <1>1, <3>2, <5>1, TypeParts
          <6>2. Len(Append(writes[session], w)) = Len(writes[session]) + 1
              BY <6>1
          <6> QED
              BY <6>1, <6>2
        <5> QED
            BY <2>1, <3>2, <5>1
      <4>1. OneCall' /\ NoCall'
          BY <4>0, <2>2, FewerCalls DEF NoCall, OneCall
      <4>2. OneHandler'
          BY <4>0 DEF OneHandler, NoHandler
      <4>3. OneWrite'
          BY <1>1, <3>2, <4>0, AppendedWrites
      <4> QED
          BY <4>0, <4>1, <4>2, <4>3 DEF OneRegistration
    <3> QED
        BY <3>1, <3>2
  <2>4. Photos'
      BY <2>1 DEF Steady, Photos, Recorded, observed
  <2>5. Ordered(writes', erased')
    <3>1. Ordered(writes, erased) /\ erased' = erased /\ writes \in [Users -> Seq(Write)]
        BY <1>1, <2>1, TypeParts DEF Steady, observed
    <3>2. CASE UNCHANGED writes
        BY <3>1, <3>2
    <3>3. CASE /\ writes' = [writes EXCEPT ![session] = Append(@, w)]
               /\ session \in Uids /\ w.doc = session
               /\ RegWrite(w) => session \notin erased
        BY <3>1, <3>3, OrderedAppend
    <3> QED
        BY <2>1, <3>2, <3>3
  <2>6. InfoVerified'
      BY <1>1, <2>1, InfoKept DEF Steady, OnPath, authVars, VerifiedOrGone
  <2> QED
      BY <2>3, <2>4, <2>5, <2>6 DEF Steady
<1> QED
    BY <1>3, <1>4, <1>5, <1>6 DEF RegInv

LEMMA CreatedRegInv ==
    ASSUME IndInv, IndInv', RegInv, mainQ # <<>>, Created(Head(mainQ)) PROVE RegInv'
<1>1. PICK h : h = Head(mainQ)
    OBVIOUS
<1>2. /\ h.k = "create" /\ mainQ' = Rest
      /\ UNCHANGED <<path, authVars, docs, uploads, observed>>
      /\ writes' = IF Alive(h) THEN [writes EXCEPT ![session] = Append(@, Save(h.uid, h.owner))]
                               ELSE writes
    BY <1>1 DEF Created
<1>3. PICK w : w = Save(h.uid, h.owner)
    OBVIOUS
<1>4. h.uid \in Uids /\ h.uid \in Users /\ h.owner \in Owners /\ Good("created", h.uid, h.owner)
    BY <1>1, <1>2, HandlerTaken, HandlerFacts DEF GoodHandler, HandlerStage
<1>5. w \in Write
    BY <1>3, <1>4, HandlerWrites
<1>6. GoodWrite(w)'
  <2>1. Good("created", h.uid, h.owner)'
    <3>1. Carries(AsBefore, Stages)
        BY <1>2, HandledCarries
    <3>2. AsBefore[h.owner] = h.owner
        BY <1>4, AsBeforeIsIdentity
    <3> QED
        BY <1>4, <3>1, <3>2 DEF Carries, Stages, Registrations
  <2>2. WriteStage(w) = "created" /\ WriteUser(w) = h.uid /\ w.owner = h.owner
      BY <1>3 DEF Save, WriteStage, WriteUser
  <2> QED
      BY <2>1, <2>2 DEF GoodWrite
<1>7. ASSUME ~astray, Alive(h)
      PROVE  /\ session \in Uids /\ w.doc = session /\ session \notin erased
             /\ NoCall /\ NoWrite /\ NoHandler'
  <2>1. session = h.uid /\ h.uid \notin erased
      BY <1>4, <1>7 DEF Good, Registrations, Alive, Newcomer
  <2>2. NoCall /\ NoWrite /\ NoHandler'
    <3>1. RegHandler(h)
        BY <1>2 DEF RegHandler
    <3> QED
        BY <1>1, <1>2, <1>7, <3>1, HandlerTaken DEF NoHandler, Elems
  <2> QED
      BY <1>3, <1>4, <2>1, <2>2 DEF Save
<1> QED
    BY <1>2, <1>3, <1>5, <1>6, <1>7, AppendRegInv

LEMMA PhotoUploadedRegInv ==
    ASSUME IndInv, IndInv', RegInv, mainQ # <<>>, PhotoUploaded(Head(mainQ)) PROVE RegInv'
<1>1. PICK h : h = Head(mainQ)
    OBVIOUS
<1>2. /\ h.k = "photo" /\ mainQ' = Rest
      /\ UNCHANGED <<path, authVars, docs, uploads, observed>>
      /\ writes' = IF session # NoUid
                     THEN [writes EXCEPT ![session] = Append(@, SetPhoto(session, h.uid))]
                     ELSE writes
    BY <1>1 DEF PhotoUploaded
<1>3. h.uid \in Uids /\ h.uid \in Users /\ h.owner \in Owners /\ Good("photo", h.uid, h.owner)
    BY <1>1, <1>2, HandlerTaken, HandlerFacts DEF GoodHandler, HandlerStage
<1>4. CASE session = NoUid
  <2>1. PICK w \in Write : w = SetPhoto(h.uid, h.uid)
      BY <1>3, HandlerWrites
  <2> QED
      BY <1>2, <1>4, AppendRegInv
<1>5. CASE session # NoUid
  <2>1. session \in Uids
      BY <1>5, TypeParts DEF IndInv, Users
  <2>2. PICK w \in Write : w = SetPhoto(session, h.uid)
      BY <1>3, <2>1, HandlerWrites
  <2>3. /\ WriteStage(w) = "photo" /\ WriteUser(w) = h.uid /\ w.owner = Gone
        /\ w.doc = session /\ ~RegWrite(w)
      BY <2>2 DEF SetPhoto, WriteStage, WriteUser, RegWrite
  <2>4. GoodWrite(w)'
    <3>1. Good("photo", h.uid, h.owner)'
      <4>1. Carries(AsBefore, Stages)
          BY <1>2, HandledCarries
      <4>2. AsBefore[h.owner] = h.owner
          BY <1>3, AsBeforeIsIdentity
      <4> QED
          BY <1>3, <4>1, <4>2 DEF Carries, Stages, WriteOps
    <3>2. PICK o : o = Gone
        OBVIOUS
    <3>3. ~OnScreen(o)
        BY <3>2 DEF OnScreen, Gone
    <3>4. Good("photo", h.uid, o)'
        BY <3>1, <3>3 DEF Good, Owned, Registrations
    <3> QED
        BY <2>3, <3>2, <3>4 DEF GoodWrite
  <2> QED
      BY <1>2, <1>5, <2>1, <2>2, <2>3, <2>4, AppendRegInv
<1> QED
    BY <1>4, <1>5

\* What is no registration is at no stage of one.
LEMMA NoRegistration ==
    /\ \A c \in Call : ~RegCall(c) => CallStage(c) \in Stages \ Registrations
    /\ \A h \in Handlers : ~RegHandler(h) => HandlerStage(h) \in Stages \ Registrations
    /\ \A w \in Write : ~RegWrite(w) => WriteStage(w) \in Stages \ Registrations
<1>1. ASSUME NEW c \in Call, ~RegCall(c) PROVE CallStage(c) \in Stages \ Registrations
    BY <1>1, CallFacts DEF RegCall, CallStage, Call, CallKinds, Registrations
<1>2. ASSUME NEW h \in Handlers, ~RegHandler(h) PROVE HandlerStage(h) \in Stages \ Registrations
    BY <1>2, HandlerFacts DEF RegHandler, HandlerStage, Handlers, HandlerKinds, Registrations
<1>3. ASSUME NEW w \in Write, ~RegWrite(w) PROVE WriteStage(w) \in Stages \ Registrations
    BY <1>3, WriteFacts DEF RegWrite, WriteStage, Write, WriteOps, Registrations
<1> QED
    BY <1>1, <1>2, <1>3

LEMMA SavedRegInv ==
    ASSUME IndInv, IndInv', RegInv, mainQ # <<>>, Saved(Head(mainQ)) PROVE RegInv'
<1>1. PICK h : h = Head(mainQ)
    OBVIOUS
<1>2. /\ TypeOK /\ TypeOK' /\ PathType /\ Shape /\ session \in Users
      /\ CallsGood /\ HandlersGood /\ WritesGood
    BY TypeParts DEF IndInv, RegInv, PathType
<1>3. /\ h.k = "saved" /\ mainQ' = Rest
      /\ UNCHANGED <<session, cached, deleting, docs, astray, erased, calls, writes>>
      /\ path' = path \/ (OnScreen(h.owner) /\ path' = Pushed("Verify"))
      /\ IF session # NoUid THEN MailLink(session) ELSE UNCHANGED accounts
      /\ uploads' = IF Alive(h) /\ session # NoUid THEN uploads \cup {session} ELSE uploads
    BY <1>1 DEF Saved, Push, Stay, observed
<1>4. h.uid \in Uids /\ h.owner \in Owners /\ Good("saved", h.uid, h.owner)
    BY <1>1, <1>3, HandlerTaken DEF GoodHandler, HandlerStage
<1>5. \A u \in Uids : /\ Born(u) => Born(u)'
                      /\ Live(u) => Live(u)'
                      /\ VerifiedOrGone(u) => VerifiedOrGone(u)'
  <2>1. CASE session = NoUid
      BY <1>3, <2>1 DEF Born, Live, VerifiedOrGone
  <2>2. CASE session # NoUid
    <3>1. PICK u \in Uids : u = session
        BY <1>2, <2>2 DEF Users
    <3> QED
        BY <1>2, <1>3, <2>2, <3>1, MailLinkKeeps
  <2> QED
      BY <2>1, <2>2
<1>6. Grows
    BY <1>3, <1>5 DEF Grows, Recorded
<1>7. \A u \in Uids : Newcomer(u) => Newcomer(u)'
  <2>1. \A u \in Uids : Reloading(u)' => Reloading(u)
    <3>1. \A g \in Elems(mainQ') : g \in Elems(mainQ)
        BY <1>3, HandlerTaken
    <3> QED
        BY <1>3, <3>1, FewerReloads
  <2> QED
      BY <1>3, <1>5, <2>1, NewcomersKept
<1>8. Shape' /\ (OnPath("Info")' => OnPath("Info")) /\ (path' = path \/ (Top # "Welcome" /\ path' = Append(path, "Verify")))
  <2>1. CASE path' = path
      BY <1>2, <2>1 DEF Shape, OnPath
  <2>2. CASE OnScreen(h.owner) /\ path' = Pushed("Verify")
    <3>1. h.owner \in DOMAIN path /\ path[h.owner] = "Register"
        BY <1>4, <2>2 DEF Good, Owned, Home, Registrations
    <3> QED
        BY <1>2, <2>2, <3>1, PushShape
  <2> QED
      BY <1>3, <2>1, <2>2
<1>9. PICK kinds \in SUBSET Stages :
        /\ Carries(AsBefore, kinds)
        /\ kinds = IF path' = path \/ astray' THEN Stages ELSE Stages \ Registrations
  <2>1. CASE path' = path
    <3>1. Carries(AsBefore, Stages)
        BY <1>3, <1>6, <1>7, <2>1, StillCarries
    <3> QED
        BY <2>1, <3>1
  <2>2. CASE Top # "Welcome" /\ path' = Append(path, "Verify")
    <3>1. PICK kinds \in SUBSET Stages :
            kinds = IF path' = path \/ astray' THEN Stages ELSE Stages \ Registrations
        OBVIOUS
    <3>2. ScreensKept(AsBefore)
      <4>1. DOMAIN path \subseteq DOMAIN path' /\ \A i \in DOMAIN path : path'[i] = path[i]
          BY <1>2, <2>2 DEF PathType
      <4> QED
          BY <4>1, AsBeforeIsIdentity DEF ScreensKept
    <3>3. kinds \cap Registrations = {} \/ RegistrationKept(AsBefore)
      <4>1. CASE path' = path
          BY <1>3, <1>7, <4>1, AsBeforeIsIdentity DEF RegistrationKept
      <4>2. CASE astray'
          BY <4>2 DEF RegistrationKept
      <4>3. CASE path' # path /\ ~astray'
          BY <3>1, <4>3
      <4> QED
          BY <4>1, <4>2, <4>3
    <3>4. Carries(AsBefore, kinds)
        BY <1>3, <1>6, <2>2, <3>2, <3>3, Carrying, ChangeTypes
    <3> QED
        BY <3>1, <3>4
  <2> QED
      BY <1>8, <2>1, <2>2
<1>10. ~astray => NoCall /\ NoWrite /\ \A g \in Elems(Rest) : ~RegHandler(g)
  <2>1. RegHandler(h)
      BY <1>3 DEF RegHandler
  <2> QED
      BY <1>1, <2>1, HandlerTaken
<1>11. /\ \A s \in Slots : CallStage(calls[s]) \in kinds
       /\ \A g \in Elems(mainQ') : HandlerStage(g) \in kinds /\ g \in Elems(mainQ)
       /\ \A u \in Users : \A w \in Elems(writes[u]) : WriteStage(w) \in kinds
  <2>1. /\ \A s \in Slots : calls[s] \in Call
        /\ \A g \in Elems(mainQ') : g \in Elems(mainQ) /\ g \in Handlers
        /\ \A u \in Users : \A w \in Elems(writes[u]) : w \in Write
      BY <1>2, <1>3, ElemTypes, HandlerTaken
  <2>2. CASE kinds = Stages
      BY <2>1, <2>2, CallFacts, HandlerFacts, WriteFacts
  <2>3. CASE ~astray /\ kinds = Stages \ Registrations
      BY <1>3, <1>10, <2>1, <2>3, NoRegistration DEF NoCall, NoWrite, Elems
  <2> QED
      BY <1>3, <1>9, <2>2, <2>3
<1>12. CallsGood' /\ HandlersGood' /\ WritesGood'
    BY <1>2, <1>3, <1>9, <1>11, CallsKept, HandlersKept, WritesKept
<1>13. People'
    BY <1>3, <1>5, NoUidAssumption DEF RegInv, People, Born
<1>14. ASSUME ~astray' PROVE Steady'
  <2>1. Steady /\ ~astray
      BY <1>3, <1>14 DEF RegInv
  <2>2. OneRegistration'
      BY <1>2, <1>3, <2>1, HandlerQueues, WriteQueues, FewerRegistrations DEF Steady, NoNewCall
  <2>3. Photos'
    <3>1. Alive(h) => Recorded(h.uid) /\ session = h.uid
        BY <1>4, <2>1 DEF Good, Registrations, Alive
    <3>2. \A u \in uploads' : Recorded(u)
        BY <1>3, <2>1, <3>1 DEF Steady, Photos
    <3> QED
        BY <1>3, <2>1, <3>2 DEF Steady, Photos, Recorded
  <2>4. Ordered(writes', erased')
      BY <1>3, <2>1 DEF Steady
  <2>5. InfoVerified'
      BY <1>2, <1>3, <1>5, <1>8, <2>1, InfoKept DEF Steady
  <2> QED
      BY <2>2, <2>3, <2>4, <2>5 DEF Steady
<1> QED
    BY <1>8, <1>12, <1>13, <1>14 DEF RegInv

\* Deletions join a queue whose other writes were reowned.
LEMMA ReownedWithDelete ==
    ASSUME TypeOK, NEW s \in Uids, NEW change \in Changes,
           writes' = [WritesReowned(change) EXCEPT ![s] = Enqueued(@, Delete(s))]
    PROVE  \A u \in Users : \A w \in Elems(writes'[u]) :
               w \in Elems(Reowned(writes[u], change)) \/ w = Delete(s)
<1>1. WritesReowned(change) \in [Users -> Seq(Write)] /\ s \in Users
    BY TypeParts, WritesReownedType DEF Users
<1>2. \A u \in Users : WritesReowned(change)[u] = Reowned(writes[u], change)
    BY DEF WritesReowned
<1>3. PICK q \in Seq(Write) : q = WritesReowned(change)[s]
    BY <1>1
<1>4. /\ writes'[s] = Enqueued(q, Delete(s))
      /\ \A u \in Users : u # s => writes'[u] = WritesReowned(change)[u]
    BY <1>1, <1>3
<1>5. \A w \in Elems(Enqueued(q, Delete(s))) : w \in Elems(q) \/ w = Delete(s)
    BY EnqueuedDelete DEF Elems
<1> QED
    BY <1>1, <1>2, <1>3, <1>4, <1>5

LEMMA BackDeletesRegInv ==
    ASSUME IndInv, IndInv', RegInv, mainQ # <<>>, BackDeletes(Head(mainQ)) PROVE RegInv'
<1>1. PICK h : h = Head(mainQ)
    OBVIOUS
<1>2. /\ TypeOK /\ TypeOK' /\ PathType /\ Shape /\ session \in Users
      /\ CallsGood /\ HandlersGood /\ WritesGood
    BY TypeParts DEF IndInv, RegInv, PathType
<1>3. PICK goOn \in BOOLEAN, pops \in BOOLEAN, after \in Changes :
        /\ goOn <=> session # NoUid /\ Alive(h)
        /\ pops <=> goOn /\ OnScreen(h.owner)
        /\ after = (IF pops THEN AfterPop ELSE AsBefore)
        /\ path' = IF pops THEN Popped ELSE path
        /\ mainQ' = Reowned(Rest, after)
        /\ calls' = CallsReowned(after)
        /\ writes' = IF goOn
             THEN [WritesReowned(after) EXCEPT ![session] = Enqueued(@, Delete(session))]
             ELSE writes
        /\ erased' = IF goOn THEN erased \cup {session} ELSE erased
        /\ astray' = (astray \/ (goOn /\ ~OnScreen(h.owner)))
    BY <1>1, ChangeTypes DEF BackDeletes
<1>4. /\ h.k = "back" /\ DeleteRequested(h.uid, "back")
      /\ UNCHANGED <<accounts, session, cached, docs, uploads>>
    BY <1>1 DEF BackDeletes
<1>5. /\ h \in Handlers /\ h.uid \in Uids /\ h.owner \in Owners /\ Good("back", h.uid, h.owner)
      /\ Rest \in Seq(Handlers) /\ Elems(Rest) \subseteq Elems(mainQ)
      /\ h \in Elems(mainQ)
  <2>1. mainQ \in Seq(Handlers)
      BY <1>2, TypeParts
  <2> QED
      BY <1>1, <1>4, <2>1, HandlerTaken, ElemsTail DEF GoodHandler, HandlerStage
<1>6. after[Gone] = Gone
    BY <1>2, <1>3, ChangesOfGone
<1>7. Grows
    BY <1>3, <1>4, GrowsWithout
<1>8. goOn => session \in Uids
    BY <1>2, <1>3 DEF Users
<1>9. Shape' /\ (OnPath("Info")' => OnPath("Info"))
  <2>1. CASE pops
      BY <1>2, <1>3, <2>1, PopShape
  <2>2. CASE ~pops
      BY <1>2, <1>3, <2>2 DEF Shape, OnPath
  <2> QED
      BY <2>1, <2>2
<1>10. Carries(after, Stages)
  <2>1. CASE pops
    <3>1. h.owner \in DOMAIN path /\ path[h.owner] = "Verify"
        BY <1>3, <1>5, <2>1 DEF Good, Owned, Home, Registrations
    <3>2. Top # "Register"
        BY <1>2, <3>1, VerifyNearTop
    <3> QED
        BY <1>2, <1>3, <1>4, <1>7, <2>1, <3>2, PopCarries
  <2>2. CASE ~pops /\ astray'
    <3>1. after = AsBefore /\ path' = path
        BY <1>3, <2>2
    <3>2. ScreensKept(AsBefore)
        BY <3>1, AsBeforeIsIdentity DEF ScreensKept
    <3>3. RegistrationKept(AsBefore)
        BY <2>2 DEF RegistrationKept
    <3>4. Top' = Top
        BY <3>1 DEF Top
    <3> QED
        BY <1>4, <1>7, <3>1, <3>2, <3>3, <3>4, Carrying, ChangeTypes
  <2>3. CASE ~pops /\ ~astray'
    <3>1. after = AsBefore /\ path' = path /\ ~goOn /\ erased' = erased
        BY <1>3, <2>3
    <3>2. calls' = calls /\ mainQ' = Rest
        BY <1>2, <1>3, <1>5, <3>1, AsBeforeReowned
    <3>3. \A u \in Uids : Reloading(u)' => Reloading(u)
        BY <1>5, <3>2, FewerReloads
    <3>4. Reloading(h.uid)
        BY <1>4, <1>5 DEF Reloading
    <3>5. \A u \in Uids : u # h.uid => deleting'[u] = deleting[u]
        BY <1>2, <1>4, TypeParts DEF DeleteRequested
    <3>6. \A u \in Uids : Newcomer(u) => Newcomer(u)'
        BY <1>4, <3>1, <3>3, <3>4, <3>5 DEF Newcomer, Live
    <3> QED
        BY <1>4, <1>7, <3>1, <3>6, StillCarries
  <2> QED
      BY <2>1, <2>2, <2>3
<1>11. CallsGood' /\ HandlersGood'
    BY <1>2, <1>3, <1>5, <1>10, CallsCarried, HandlersCarried, ElemTypes, CallFacts, HandlerFacts
<1>12. WritesGood'
  <2>1. \A u \in Users : \A w \in Elems(writes[u]) : WriteStage(w) \in Stages
      BY <1>2, ElemTypes, WriteFacts
  <2>2. \A u \in Users : \A w \in Elems(writes'[u]) :
           w \in Elems(Reowned(writes[u], after)) \/ GoodWrite(w)'
    <3>1. CASE goOn
      <4>1. PICK s \in Uids : s = session
          BY <1>8, <3>1
      <4>2. s \in erased' /\ Born(s)'
          BY <1>3, <1>4, <3>1, <4>1 DEF RegInv, People, Born
      <4>3. PICK d : d = Delete(s)
          OBVIOUS
      <4>4. GoodWrite(d)'
          BY <4>2, <4>3, DeleteGood
      <4> QED
          BY <1>2, <1>3, <3>1, <4>1, <4>3, <4>4, ReownedWithDelete
    <3>2. CASE ~goOn
      <4>1. writes' = WritesReowned(after)
          BY <1>2, <1>3, <3>2, AsBeforeReowned
      <4> QED
          BY <4>1 DEF WritesReowned
    <3> QED
        BY <3>1, <3>2
  <2> QED
      BY <1>2, <1>10, <2>1, <2>2, WritesCarried
<1>13. People'
  <2>1. \A u \in Uids : deleting'[u] # "no" => deleting[u] # "no" \/ u = h.uid
      BY <1>2, <1>4, <1>5, TypeParts DEF DeleteRequested
  <2>2. Born(h.uid)
      BY <1>5 DEF Good
  <2> QED
      BY <1>3, <1>4, <2>1, <2>2, NoUidAssumption DEF RegInv, People, Born
<1>14. ASSUME ~astray' PROVE Steady'
  <2>1. Steady
      BY <1>3, <1>14 DEF RegInv
  <2>2. OneRegistration'
    <3>1. NoNewCall /\ NoNewHandler
        BY <1>2, <1>3, ReownedCallsNew, HandlerQueues
    <3>2. NoNewWrite
        BY <1>2, <1>3, <1>8, DeleteIsNew, WriteQueues
    <3> QED
        BY <1>2, <2>1, <3>1, <3>2, FewerRegistrations DEF Steady
  <2>3. Photos'
      BY <1>3, <1>4, <2>1 DEF Steady, Photos, Recorded
  <2>4. Ordered(writes', erased')
    <3>1. writes \in [Users -> Seq(Write)] /\ erased \in SUBSET Uids /\ Ordered(writes, erased)
        BY <1>2, <2>1, TypeParts DEF Steady
    <3>2. /\ WritesReowned(after) \in [Users -> Seq(Write)]
          /\ Ordered(WritesReowned(after), erased)
        BY <1>6, <3>1, OrderedReowned, WritesReownedType
    <3>3. CASE goOn
        BY <1>3, <1>8, <3>2, <3>3, OrderedDelete
    <3>4. CASE ~goOn
        BY <1>3, <3>1, <3>4
    <3> QED
        BY <3>3, <3>4
  <2>5. InfoVerified'
      BY <1>2, <1>4, <1>9, <2>1, InfoKept DEF Steady, VerifiedOrGone
  <2> QED
      BY <2>2, <2>3, <2>4, <2>5 DEF Steady
<1> QED
    BY <1>9, <1>11, <1>12, <1>13, <1>14 DEF RegInv

LEMMA RunHandlerRegInv == ASSUME IndInv, IndInv', RegInv, RunHandler PROVE RegInv'
<1>1. mainQ # <<>>
    BY DEF RunHandler
<1>2. CASE NoAccountFound(Head(mainQ)) \/ BackRefused(Head(mainQ))
    BY <1>1, <1>2, StayRegInv DEF NoAccountFound, BackRefused
<1> QED
    BY <1>1, <1>2, CreatedRegInv, SavedRegInv, GoHomeRegInv, EmailCheckedRegInv,
       BackDeletesRegInv, PhotoUploadedRegInv DEF RunHandler

LEMMA SplashTimerRegInv == ASSUME IndInv, IndInv', RegInv, SplashTimer PROVE RegInv'
<1>1. /\ TypeOK /\ TypeOK' /\ PathType /\ Shape /\ OnlyScreens
      /\ Top \in {"SplashIn", "SplashOut"}
    BY TypeParts DEF IndInv, RegInv, PathType, SplashTimer
<1>2. CASE PresentMain(mainQ)
    BY <1>1, <1>2, PresentMainRegInv DEF OnlyScreens, observed
<1>3. CASE UNCHANGED <<mainQ, calls, writes>> /\ Shape' /\ ~OnPath("Info")'
  <2>1. Carries(AsBefore, Stages)
      BY <1>1, OuterCarries, GrowsWithout DEF Outer, OnlyScreens, observed
  <2> QED
      BY <1>1, <1>3, <2>1, MovedOnly DEF OnlyScreens, observed
<1>4. ASSUME path' \in {<<"Welcome">>, <<"Verify">>} PROVE Shape' /\ ~OnPath("Info")'
    BY <1>4 DEF Shape, OnPath
<1>5. ASSUME path' = [path EXCEPT ![Len(path)] = "SplashOver"] PROVE Shape' /\ ~OnPath("Info")'
  <2>1. \A i \in DOMAIN path : path[i] \in Outer
      BY <1>1, OuterOwnsNothing DEF Outer
  <2>2. DOMAIN path' = DOMAIN path /\ \A i \in DOMAIN path' : path'[i] \in Outer
      BY <1>5, <2>1 DEF Outer
  <2> QED
      BY <2>2 DEF Shape, OnPath, Outer
<1> QED
    BY <1>2, <1>3, <1>4, <1>5 DEF SplashTimer

(***************************************************************************)
(* The server answers.                                                     *)
(***************************************************************************)
LEMMA AnswerFields ==
    ASSUME TypeOK, NEW s \in Slots, NEW u, NEW verdict, Answer(s, u, verdict)
    PROVE  /\ calls'[s].k = calls[s].k /\ calls'[s].owner = calls[s].owner
           /\ calls'[s].uid = u /\ calls'[s].answer = verdict
           /\ \A t \in Slots \ {s} : calls'[t] = calls[t]
<1>1. calls[s] \in Call /\ calls \in [Slots -> Call]
    BY TypeParts DEF CallsType
<1>2. /\ calls'[s] = [calls[s] EXCEPT !.uid = u, !.answer = verdict]
      /\ \A t \in Slots \ {s} : calls'[t] = calls[t]
    BY <1>1 DEF Answer, Call
<1> QED
    BY <1>1, <1>2 DEF Call

\* Every stage but that of the request answered is as good as before.
LEMMA ServeRegInv ==
    ASSUME IndInv, IndInv', RegInv, NEW s \in Slots,
           UNCHANGED <<path, mainQ, session, deleting, storeVars, observed>>,
           \A t \in Slots \ {s} : calls'[t] = calls[t],
           calls'[s].k = calls[s].k,
           calls[s].k \in {"back", "continue"} => calls'[s].uid = calls[s].uid,
           \A u \in Uids : /\ Born(u) => Born(u)'
                           /\ Live(u) => Live(u)'
                           /\ VerifiedOrGone(u) => VerifiedOrGone(u)',
           (\A u \in Uids : Newcomer(u) => Newcomer(u)') /\ Carries(AsBefore, Stages)
               => GoodCall(calls[s])'
    PROVE  RegInv'
<1>1. TypeOK /\ TypeOK' /\ CallsGood /\ HandlersGood /\ WritesGood /\ session \in Users
    BY TypeParts DEF IndInv, RegInv
<1>2. \A u \in Uids : Newcomer(u) => Newcomer(u)'
  <2>1. \A t \in Slots : /\ calls'[t].k = calls[t].k
                         /\ calls[t].k \in {"back", "continue"} => calls'[t].uid = calls[t].uid
      OBVIOUS
  <2>2. \A u \in Uids : Reloading(u)' => Reloading(u)
      BY <2>1 DEF Reloading, Elems
  <2> QED
      BY <2>2, NewcomersKept DEF observed
<1>3. Carries(AsBefore, Stages)
  <2>1. Grows
      BY DEF Grows, Recorded, storeVars, observed
  <2> QED
      BY <1>2, <2>1, StillCarries
<1>4. CallsGood'
  <2>1. \A t \in Slots : calls'[t] \in Call
      BY <1>1 DEF TypeOK, AuthType
  <2>2. ASSUME NEW t \in Slots
        PROVE  \/ CallStage(calls[t]) \in Stages /\ calls'[t] = calls[t]
               \/ \E c \in Call : calls'[t] = c /\ GoodCall(c)'
    <3>1. CASE t = s
      <4>1. PICK c \in Call : c = calls'[s]
          BY <2>1
      <4>2. GoodCall(c)'
          BY <1>2, <1>3, <4>1
      <4> QED
          BY <3>1, <4>1, <4>2
    <3>2. CASE t # s
        BY <1>1, <3>2, ElemTypes, CallFacts
    <3> QED
        BY <3>1, <3>2
  <2> QED
      BY <1>1, <1>3, <2>2, CallsKept
<1>5. HandlersGood' /\ WritesGood'
    BY <1>1, <1>3, HandlersKept, WritesKept, ElemTypes, HandlerFacts, WriteFacts
       DEF storeVars, Elems
<1>6. Shape' /\ People'
    BY NoUidAssumption DEF RegInv, Shape, People, Born, observed
<1>7. ASSUME ~astray' PROVE Steady'
  <2>1. Steady
      BY <1>7 DEF RegInv, observed
  <2>2. OneRegistration'
    <3>1. NoNewCall
        BY DEF NoNewCall, RegCall
    <3> QED
        BY <1>1, <2>1, <3>1, HandlerQueues, WriteQueues, FewerRegistrations DEF Steady, storeVars
  <2>3. InfoVerified'
      BY <1>1, <2>1, InfoKept DEF Steady, OnPath
  <2>4. Photos' /\ Ordered(writes', erased')
      BY <2>1 DEF Steady, Photos, Recorded, storeVars, observed
  <2> QED
      BY <2>2, <2>3, <2>4 DEF Steady
<1> QED
    BY <1>4, <1>5, <1>6, <1>7 DEF RegInv

\* Nothing is under way for a user the server has not handed out.
LEMMA UnbornIsNew ==
    ASSUME IndInv, RegInv, NEW u \in Uids, ~Born(u)
    PROVE  deleting[u] = "no" /\ u \notin erased /\ ~Reloading(u)
<1>1. deleting[u] = "no" /\ u \notin erased
    BY DEF RegInv, People
<1>2. ASSUME NEW s \in Slots, calls[s].k \in {"back", "continue"} PROVE calls[s].uid # u
  <2>1. GoodCall(calls[s]) /\ CallStage(calls[s]) # "photo"
      BY <1>2 DEF RegInv, CallsGood, CallStage
  <2> QED
      BY <2>1 DEF GoodCall, Good
<1>3. ASSUME NEW h \in Elems(mainQ), h.k = "back" PROVE h.uid # u
  <2>1. GoodHandler(h) /\ HandlerStage(h) # "photo"
      BY <1>3 DEF RegInv, HandlersGood, HandlerStage
  <2> QED
      BY <2>1 DEF GoodHandler, Good
<1> QED
    BY <1>1, <1>2, <1>3 DEF Reloading

LEMMA ServeCreateRegInv ==
    ASSUME IndInv, IndInv', RegInv, NEW s \in Slots, ServeCreate(s),
           UNCHANGED <<path, mainQ, storeVars, observed>>
    PROVE  RegInv'
<1>1. TypeOK /\ calls[s] \in Call /\ accounts \in [Uids -> Account]
    BY TypeParts, ElemTypes DEF IndInv
<1>2. PICK u \in Unborn :
        /\ accounts' = [accounts EXCEPT ![u] = [status |-> "new", email |-> calls[s].email]]
        /\ Answer(s, u, "unverified")
    BY DEF ServeCreate
<1>3. /\ u \in Uids /\ ~Born(u) /\ accounts[u].status = "absent" /\ accounts'[u].status = "new"
      /\ \A v \in Uids \ {u} : accounts'[v] = accounts[v]
    BY <1>1, <1>2 DEF Unborn, Born
<1>4. /\ calls[s].k = "create" /\ calls[s].answer = "none"
      /\ calls'[s].k = "create" /\ calls'[s].owner = calls[s].owner
      /\ calls'[s].uid = u /\ calls'[s].answer = "unverified"
      /\ \A t \in Slots \ {s} : calls'[t] = calls[t]
    BY <1>1, <1>2, AnswerFields DEF ServeCreate, Awaiting
<1>5. UNCHANGED <<session, cached, deleting>>
    BY DEF ServeCreate
<1>6. \A v \in Uids : /\ Born(v) => Born(v)'
                      /\ Live(v) => Live(v)'
                      /\ VerifiedOrGone(v) => VerifiedOrGone(v)'
    BY <1>3 DEF Born, Live, VerifiedOrGone
<1>7. ASSUME Carries(AsBefore, Stages) PROVE GoodCall(calls[s])'
  <2>1. PICK w \in Owners : w = calls[s].owner
      BY <1>1, CallFacts
  <2>2. Good("create", calls[s].uid, w)
      BY <1>4, <2>1 DEF RegInv, CallsGood, GoodCall, CallStage
  <2>3. PICK v \in Users : Good("create", v, w)'
    <3>1. PICK v \in Users : v = calls[s].uid
        BY <1>1, CallFacts
    <3>2. AsBefore[w] = w
        BY AsBeforeIsIdentity
    <3>3. Good("create", v, w)'
        BY <1>7, <2>2, <3>1, <3>2 DEF Carries, Stages, Registrations
    <3> QED
        BY <3>3
  <2>4. Newcomer(u)'
    <3>1. deleting[u] = "no" /\ u \notin erased /\ ~Reloading(u)
        BY <1>3, UnbornIsNew
    <3>2. Reloading(u)' => Reloading(u)
        BY <1>4 DEF Reloading, Elems
    <3> QED
        BY <1>3, <1>5, <3>1, <3>2 DEF Newcomer, Live, observed
  <2>5. Good("answered", u, w)'
      BY <1>3, <2>3, <2>4 DEF Good, Owned, Home, Registrations, Born
  <2>6. CallStage(calls'[s]) = "answered"
      BY <1>4 DEF CallStage
  <2> QED
      BY <1>4, <2>1, <2>5, <2>6 DEF GoodCall
<1> QED
    BY <1>4, <1>5, <1>6, <1>7, ServeRegInv

\* An answer that leaves the stage of a request as it was, or fails it.
LEMMA AnsweredRegInv ==
    ASSUME IndInv, IndInv', RegInv, NEW s \in Slots, NEW u \in Users, NEW c, c = calls'[s],
           UNCHANGED <<path, mainQ, accounts, session, deleting, storeVars, observed>>,
           \A t \in Slots \ {s} : calls'[t] = calls[t],
           c.k = calls[s].k, c.owner = calls[s].owner, c.uid = u,
           u = calls[s].uid \/ (calls[s].k = "signIn" /\ Born(u)),
           CallStage(c) \in {CallStage(calls[s]), calls[s].k}
    PROVE  RegInv'
<1>1. TypeOK /\ calls[s] \in Call /\ GoodCall(calls[s])
    BY ElemTypes DEF IndInv, RegInv, CallsGood
<1>2. PICK k \in Stages, v \in Users, w \in Owners :
        k = CallStage(calls[s]) /\ v = calls[s].uid /\ w = calls[s].owner
    BY <1>1, CallFacts
<1>3. Good(k, v, w)
    BY <1>1, <1>2 DEF GoodCall
<1>4. ASSUME Carries(AsBefore, Stages) PROVE GoodCall(calls[s])'
  <2>1. Good(k, v, w)'
    <3>1. AsBefore[w] = w
        BY AsBeforeIsIdentity
    <3> QED
        BY <1>3, <1>4, <3>1 DEF Carries
  <2>2. PICK j : j = CallStage(c)
      OBVIOUS
  <2>3. j = k \/ (k = "answered" /\ j = "create")
      BY <1>2, <2>2 DEF CallStage
  <2>4. u = v \/ (k = "signIn" /\ Born(u)')
      BY <1>2 DEF CallStage, Born
  <2>5. Good(j, u, w)'
    <3>1. CASE k = "answered" /\ j = "create"
        BY <2>1, <2>4, <3>1 DEF Good, Owned, Home, Registrations
    <3>2. CASE j = k /\ u = v
        BY <2>1, <3>2
    <3>3. CASE j = k /\ k = "signIn" /\ Born(u)'
        BY <2>1, <3>3 DEF Good, Registrations
    <3> QED
        BY <2>3, <2>4, <3>1, <3>2, <3>3
  <2>6. GoodCall(c)'
      BY <1>2, <2>2, <2>5 DEF GoodCall
  <2> QED
      BY <2>6
<1>5. \A x \in Uids : /\ Born(x) => Born(x)'
                      /\ Live(x) => Live(x)'
                      /\ VerifiedOrGone(x) => VerifiedOrGone(x)'
    BY DEF Born, Live, VerifiedOrGone
<1> QED
    BY <1>4, <1>5, ServeRegInv

LEMMA ServerRegInv == ASSUME IndInv, IndInv', RegInv, Server PROVE RegInv'
<1>1. TypeOK /\ UNCHANGED <<path, mainQ, storeVars, observed>>
    BY DEF IndInv, Server
<1>2. ASSUME NEW s \in Slots, ServeSignIn(s) PROVE RegInv'
  <2>1. PICK u \in Holders(calls[s].email) : Answer(s, u, Verdict(u))
      BY <1>2 DEF ServeSignIn
  <2>2. u \in Uids /\ u \in Users /\ Born(u)
      BY <2>1 DEF Holders, Live, Born, Users
  <2>3. calls[s].k = "signIn"
      BY <1>2 DEF ServeSignIn, Awaiting
  <2>4. PICK c : c = calls'[s]
      OBVIOUS
  <2>5. /\ c.k = "signIn" /\ c.owner = calls[s].owner /\ c.uid = u
        /\ \A t \in Slots \ {s} : calls'[t] = calls[t]
      BY <1>1, <2>1, <2>3, <2>4, AnswerFields
  <2>6. CallStage(c) = "signIn"
      BY <2>5 DEF CallStage
  <2> QED
      BY <1>1, <1>2, <2>2, <2>3, <2>4, <2>5, <2>6, AnsweredRegInv DEF ServeSignIn
<1>3. ASSUME NEW s \in Slots, ServeReload(s) PROVE RegInv'
  <2>1. calls[s].k \in {"back", "continue"}
      BY <1>3 DEF ServeReload, Awaiting
  <2>2. PICK u \in Users : u = calls[s].uid
      BY <1>1, ElemTypes, CallFacts
  <2>3. PICK verdict : Answer(s, u, verdict)
      BY <1>3, <2>2 DEF ServeReload
  <2>4. PICK c : c = calls'[s]
      OBVIOUS
  <2>5. /\ c.k = calls[s].k /\ c.owner = calls[s].owner /\ c.uid = u
        /\ \A t \in Slots \ {s} : calls'[t] = calls[t]
      BY <1>1, <2>3, <2>4, AnswerFields
  <2>6. CallStage(c) = calls[s].k
      BY <2>1, <2>5 DEF CallStage
  <2> QED
      BY <1>1, <1>3, <2>2, <2>4, <2>5, <2>6, AnsweredRegInv DEF ServeReload
<1>4. ASSUME NEW s \in Slots, FailCall(s) PROVE RegInv'
  <2>1. calls[s] \in Call /\ calls \in [Slots -> Call]
      BY <1>1, TypeParts, ElemTypes DEF CallsType
  <2>2. PICK c : c = calls'[s]
      OBVIOUS
  <2>3. c = [calls[s] EXCEPT !.answer = "error"] /\ \A t \in Slots \ {s} : calls'[t] = calls[t]
      BY <1>4, <2>1, <2>2 DEF FailCall, Call
  <2>4. /\ c.k = calls[s].k /\ c.owner = calls[s].owner /\ c.uid = calls[s].uid
        /\ c.answer = "error"
      BY <2>1, <2>3 DEF Call
  <2>5. CallStage(c) = calls[s].k
      BY <2>4 DEF CallStage
  <2>6. PICK u \in Users : u = calls[s].uid
      BY <2>1, CallFacts
  <2>7. UNCHANGED <<accounts, session, deleting>>
      BY <1>4 DEF FailCall
  <2> QED
      BY <1>1, <2>2, <2>3, <2>4, <2>5, <2>6, <2>7, AnsweredRegInv
<1> QED
    BY <1>1, <1>2, <1>3, <1>4, ServeCreateRegInv, ServeDeleteRegInv DEF Server

(***************************************************************************)
(* The Auth work queue.                                                    *)
(***************************************************************************)
LEMMA IdleGood == ASSUME NEW c, c = Idle PROVE GoodCall(c)' /\ c \in Call /\ c.k = "idle"
<1>1. PICK u, w : u = NoUid /\ w = Gone
    OBVIOUS
<1>2. CallStage(c) = "idle" /\ c.uid = u /\ c.owner = w /\ c.k = "idle"
    BY <1>1 DEF Idle, Request, CallStage
<1>3. ~OnScreen(w) /\ u \notin Uids
    BY <1>1, NoUidAssumption DEF OnScreen, Gone
<1>4. Good("idle", u, w)'
    BY <1>3 DEF Good, Owned, Born, Registrations
<1> QED
    BY <1>2, <1>4, IdleType DEF GoodCall

\* Requests end, a handler may come of it, a session may be over.
LEMMA QuietRegInv ==
    ASSUME IndInv, IndInv', RegInv,
           UNCHANGED <<path, accounts, storeVars, observed>>,
           session' = session \/ (session' = NoUid /\ ~Newcomer(session)),
           \A u \in Uids : deleting'[u] # "no" => deleting[u] # "no",
           \A s \in Slots : calls'[s] = calls[s] \/ calls'[s] = Idle,
           \/ UNCHANGED mainQ
           \/ \E h \in Handlers : /\ Post(h) /\ ~RegHandler(h) /\ GoodHandler(h)
                                  /\ h.k = "back" => Reloading(h.uid)
    PROVE  RegInv'
<1>1. /\ TypeOK /\ TypeOK' /\ CallsGood /\ HandlersGood /\ WritesGood
      /\ session \in Users /\ mainQ \in Seq(Handlers)
    BY TypeParts DEF IndInv, RegInv
<1>2. \A h \in Elems(mainQ') :
        h \in Elems(mainQ) \/ (h \in Handlers /\ GoodHandler(h) /\ (h.k = "back" => Reloading(h.uid)))
  <2>1. CASE UNCHANGED mainQ
      BY <2>1 DEF Elems
  <2>2. ASSUME NEW h \in Handlers, Post(h) PROVE Elems(mainQ') = Elems(mainQ) \cup {h}
    <3>1. mainQ' = Append(mainQ, h)
        BY <2>2 DEF Post
    <3>2. Elems(Append(mainQ, h)) = Elems(mainQ) \cup {h}
        BY <1>1, ElemsAppend
    <3> QED
        BY <3>1, <3>2 DEF Elems
  <2> QED
      BY <2>1, <2>2
<1>3. \A u \in Uids : Newcomer(u) => Newcomer(u)'
  <2>1. \A s \in Slots : calls'[s].k \in {"back", "continue"} => calls'[s] = calls[s]
      BY IdleType
  <2>2. \A u \in Uids : Reloading(u)' => Reloading(u)
      BY <1>2, <2>1 DEF Reloading, Elems
  <2>3. \A u \in Uids : deleting[u] = "no" => deleting'[u] = "no"
      OBVIOUS
  <2> QED
      BY <2>2, <2>3 DEF Newcomer, Live, observed
<1>4. Carries(AsBefore, Stages)
    BY <1>3, StillCarries, GrowsWithout DEF storeVars, observed
<1>5. CallsGood'
    BY <1>1, <1>4, CallsKept, ElemTypes, CallFacts, IdleGood
<1>6. HandlersGood'
  <2>1. ASSUME NEW h \in Handlers, GoodHandler(h) PROVE GoodHandler(h)'
      BY <1>4, <2>1, HandlerFacts, AsBeforeIsIdentity DEF Carries, GoodHandler
  <2>2. \A h \in Elems(mainQ) : HandlerStage(h) \in Stages
      BY <1>1, ElemTypes, HandlerFacts
  <2> QED
      BY <1>1, <1>2, <1>4, <2>1, <2>2, HandlersKept
<1>7. WritesGood'
    BY <1>1, <1>4, WritesKept, ElemTypes, WriteFacts DEF storeVars, Elems
<1>8. Shape' /\ People'
    BY NoUidAssumption DEF RegInv, Shape, People, Born, observed
<1>9. ASSUME ~astray' PROVE Steady'
  <2>1. Steady
      BY <1>9 DEF RegInv, observed
  <2>2. OneRegistration'
    <3>1. NoNewCall
        BY IdleType DEF NoNewCall, RegCall
    <3> QED
        BY <1>1, <2>1, <3>1, HandlerQueues, WriteQueues, FewerRegistrations DEF Steady, storeVars
  <2>3. InfoVerified'
      BY <1>1, <2>1, InfoKept DEF Steady, OnPath, VerifiedOrGone
  <2>4. Photos' /\ Ordered(writes', erased')
      BY <2>1 DEF Steady, Photos, Recorded, storeVars, observed
  <2> QED
      BY <2>2, <2>3, <2>4 DEF Steady
<1> QED
    BY <1>5, <1>6, <1>7, <1>8, <1>9 DEF RegInv

LEMMA Finished ==
    ASSUME TypeOK, NEW s \in Slots, Finish(s)
    PROVE  /\ calls'[s] = Idle /\ \A t \in Slots \ {s} : calls'[t] = calls[t]
           /\ \A t \in Slots : calls'[t] = calls[t] \/ calls'[t] = Idle
<1>1. calls \in [Slots -> Call]
    BY TypeParts DEF CallsType
<1> QED
    BY <1>1 DEF Finish

\* Answers that name no new session.
LEMMA ReplyRegInv ==
    ASSUME IndInv, IndInv', RegInv, UNCHANGED <<path, storeVars, observed>>,
           \/ \E s \in Slots : ReplyRefused(s) \/ ReplyReload(s)
           \/ (\E u \in Uids : ReplyDelete(u)) /\ UNCHANGED mainQ
           \/ RefreshRefused /\ UNCHANGED mainQ
    PROVE  RegInv'
<1>1. TypeOK
    BY DEF IndInv
<1>2. ASSUME NEW s \in Slots, ReplyRefused(s) PROVE RegInv'
    BY <1>1, <1>2, Finished, QuietRegInv DEF ReplyRefused
<1>3. ASSUME NEW s \in Slots, ReplyReload(s) PROVE RegInv'
  <2>1. PICK c \in Call : c = calls[s]
      BY <1>1, ElemTypes
  <2>2. c.k \in {"back", "continue"} /\ c.uid \in Uids /\ c.owner \in Owners
      BY <1>1, <1>3, <2>1, TypeParts, CallFacts DEF ReplyReload, CallsType
  <2>3. Reloading(c.uid)
      BY <2>1, <2>2 DEF Reloading
  <2>4. session' = session \/ (session' = NoUid /\ ~Newcomer(session))
      BY <1>3, <2>1, <2>3 DEF ReplyReload, SignedOutIf, Newcomer
  <2>5. PICK h \in Handlers : h.k = c.k /\ h.uid = c.uid /\ h.owner = c.owner /\ Post(h)
    <3>1. Handler(c.k, c.uid, c.owner) \in Handlers
        BY <2>2 DEF Handler, Handlers, HandlerKinds
    <3> QED
        BY <1>3, <2>1, <3>1 DEF ReplyReload, Handler
  <2>6. GoodHandler(h)
    <3>1. HandlerStage(h) = CallStage(c)
        BY <2>2, <2>5 DEF HandlerStage, CallStage
    <3> QED
        BY <2>1, <2>5, <3>1 DEF RegInv, CallsGood, GoodCall, GoodHandler
  <2>7. UNCHANGED <<accounts, deleting>> /\ Finish(s)
      BY <1>3 DEF ReplyReload
  <2> QED
      BY <1>1, <2>2, <2>3, <2>4, <2>5, <2>6, <2>7, Finished, QuietRegInv DEF RegHandler
<1>4. ASSUME NEW u \in Uids, ReplyDelete(u), UNCHANGED mainQ PROVE RegInv'
  <2>1. session' = session \/ (session' = NoUid /\ ~Newcomer(session))
      BY <1>4 DEF ReplyDelete, SignedOutIf, Newcomer
  <2>2. \A v \in Uids : deleting'[v] # "no" => deleting[v] # "no"
      BY <1>1, <1>4, TypeParts DEF ReplyDelete
  <2> QED
      BY <1>4, <2>1, <2>2, QuietRegInv DEF ReplyDelete
<1>5. ASSUME RefreshRefused, UNCHANGED mainQ PROVE RegInv'
  <2>1. session' = NoUid /\ ~Newcomer(session)
      BY <1>5 DEF RefreshRefused, Newcomer
  <2> QED
      BY <1>5, <2>1, QuietRegInv DEF RefreshRefused
<1> QED
    BY <1>2, <1>3, <1>4, <1>5

LEMMA LookupRegInv == ASSUME IndInv, IndInv', RegInv, Lookup PROVE RegInv'
<1>1. /\ TypeOK
      /\ UNCHANGED <<path, accounts, session, cached, deleting, storeVars, observed>>
    BY DEF IndInv, Lookup
<1>2. PICK s \in Slots :
        /\ calls[s].k = "get" /\ calls' = [calls EXCEPT ![s] = Idle]
        /\ \/ \E k \in {"get", "missing"} : Post(Handler(k, calls[s].uid, calls[s].owner))
           \/ UNCHANGED mainQ
    BY DEF Lookup
<1>3. \A t \in Slots : calls'[t] = calls[t] \/ calls'[t] = Idle
    BY <1>1, <1>2, Finished DEF Finish
<1>4. ASSUME NEW k \in {"get", "missing"}, Post(Handler(k, calls[s].uid, calls[s].owner))
      PROVE  \E h \in Handlers : /\ Post(h) /\ ~RegHandler(h) /\ GoodHandler(h)
                                 /\ h.k = "back" => Reloading(h.uid)
  <2>1. PICK c \in Call : c = calls[s]
      BY <1>1, ElemTypes
  <2>2. c.k = "get" /\ c.uid \in Uids /\ c.owner \in Owners
      BY <1>1, <1>2, <2>1, TypeParts, CallFacts DEF CallsType
  <2>3. Handler(k, c.uid, c.owner) \in Handlers
      BY <2>2 DEF Handler, Handlers, HandlerKinds
  <2>4. PICK h \in Handlers : Post(h) /\ h.k = k /\ h.uid = c.uid /\ h.owner = c.owner
      BY <1>4, <2>1, <2>3 DEF Handler
  <2>5. Good("get", c.uid, c.owner)
      BY <2>1, <2>2 DEF RegInv, CallsGood, GoodCall, CallStage
  <2>6. Good(k, c.uid, c.owner)
      BY <2>5 DEF Good, Owned, Home, Registrations
  <2>7. GoodHandler(h)
      BY <2>4, <2>6 DEF GoodHandler, HandlerStage
  <2> QED
      BY <2>4, <2>7 DEF RegHandler
<1> QED
    BY <1>1, <1>2, <1>3, <1>4, QuietRegInv

\* What a request for a new session leaves in the registration screens' hands.
LEMMA EntryStages ==
    ASSUME IndInv, RegInv, ~astray, NEW s \in Slots, RegCall(calls[s])
    PROVE  /\ \A t \in Slots \ {s} : ~RegCall(calls[t])
           /\ NoHandler /\ NoWrite
<1>1. OneRegistration
    BY DEF RegInv, Steady
<1> QED
    BY <1>1 DEF OneRegistration, NoCall, OneCall

LEMMA ReplyEntryRegInv ==
    ASSUME IndInv, IndInv', RegInv, NEW s \in Slots, ReplyEntry(s),
           astray' = \/ astray \/ ~OnScreen(calls[s].owner)
                     \/ calls[s].k = "create" /\ calls[s].owner # Len(path),
           UNCHANGED <<path, storeVars, erased>>
    PROVE  RegInv'
<1>1. /\ TypeOK /\ TypeOK' /\ PathType /\ Shape
      /\ CallsGood /\ HandlersGood /\ WritesGood /\ mainQ \in Seq(Handlers)
    BY TypeParts DEF IndInv, RegInv, PathType
<1>2. PICK c \in Call : c = calls[s]
    BY <1>1, ElemTypes
<1>3. /\ c.k \in {"create", "signIn"} /\ c.answer \in {"verified", "unverified"}
      /\ session' = c.uid /\ Post(Handler(c.k, c.uid, c.owner)) /\ Finish(s)
      /\ UNCHANGED <<accounts, deleting>>
    BY <1>2 DEF ReplyEntry
<1>4. c.uid \in Uids /\ c.uid \in Users /\ c.owner \in Owners
    BY <1>1, <1>2, <1>3, TypeParts, CallFacts DEF CallsType
<1>5. CallStage(c) = (IF c.k = "create" THEN "answered" ELSE "signIn")
    BY <1>3 DEF CallStage
<1>6. PICK stage, u, w : stage = CallStage(c) /\ u = c.uid /\ w = c.owner
    OBVIOUS
<1>7. Good(stage, u, w) /\ u \in Uids /\ w \in Owners /\ session' = u
    BY <1>1, <1>2, <1>3, <1>4, <1>6 DEF CallsGood, GoodCall
<1>8. astray => astray'
    OBVIOUS
<1>9. ASSUME ~astray'
      PROVE  /\ ~astray /\ OnScreen(w) /\ (c.k = "create" => w = Len(path))
             /\ c.k = "create" => Top = "Register"
             /\ c.k = "signIn" => Top = "Welcome"
             /\ \A i \in DOMAIN path : path[i] \in {"Welcome", "Register"}
  <2>1. ~astray /\ OnScreen(w) /\ (c.k = "create" => w = Len(path))
      BY <1>2, <1>6, <1>9
  <2>2. w # Gone
      BY <2>1 DEF OnScreen, Gone
  <2>3. (c.k = "create" => Top = "Register") /\ (c.k = "signIn" => Top = "Welcome")
      BY <1>5, <1>6, <1>7, <2>1, <2>2 DEF Good, AtRegister, Registrations
  <2>4. Top = "Register" => \A i \in DOMAIN path : path[i] \in {"Welcome", "Register"}
    <3>1. Top = "Register" => Len(path) = 2 /\ path[1] = "Welcome" /\ path[2] = "Register"
        BY <1>1, RegisterIsSecond
    <3>2. Len(path) = 2 => \A i \in DOMAIN path : i = 1 \/ i = 2
        BY <1>1 DEF PathType
    <3> QED
        BY <3>1, <3>2
  <2>5. Top = "Welcome" => \A i \in DOMAIN path : path[i] \in {"Welcome", "Register"}
      BY <1>1, WelcomeIsRoot
  <2> QED
      BY <1>3, <2>1, <2>3, <2>4, <2>5
<1>10. calls'[s] = Idle /\ \A t \in Slots \ {s} : calls'[t] = calls[t]
    BY <1>1, <1>3, Finished
<1>11. PICK h \in Handlers : /\ h.k = c.k /\ h.uid = u /\ h.owner = w
                             /\ mainQ' = Append(mainQ, h) /\ Elems(mainQ') = Elems(mainQ) \cup {h}
  <2>1. Handler(c.k, u, w) \in Handlers
      BY <1>3, <1>7 DEF Handler, Handlers, HandlerKinds
  <2>2. PICK h \in Handlers : h = Handler(c.k, u, w)
      BY <2>1
  <2>3. mainQ' = Append(mainQ, h)
      BY <1>3, <1>6, <2>2 DEF Post
  <2>4. Elems(Append(mainQ, h)) = Elems(mainQ) \cup {h}
      BY <1>1, ElemsAppend
  <2>5. Elems(mainQ') = Elems(Append(mainQ, h))
      BY <2>3 DEF Elems
  <2> QED
      BY <2>2, <2>3, <2>4, <2>5 DEF Handler
<1>12. PICK kinds \in SUBSET Stages :
        kinds = IF ~astray' /\ c.k = "create" THEN Stages \ Registrations ELSE Stages
    OBVIOUS
<1>13. Carries(AsBefore, kinds)
  <2>1. Grows
      BY <1>3, <1>8, GrowsWithout DEF storeVars
  <2>2. ScreensKept(AsBefore) /\ Top' = Top
      BY AsBeforeIsIdentity DEF ScreensKept, Top
  <2>3. astray' \/ \A i \in DOMAIN path : path[i] # "Verify"
      BY <1>9
  <2>4. kinds \cap Registrations = {} \/ RegistrationKept(AsBefore)
    <3>1. CASE astray'
        BY <3>1 DEF RegistrationKept
    <3>2. CASE ~astray' /\ c.k = "create"
        BY <1>12, <3>2
    <3>3. CASE ~astray' /\ c.k = "signIn"
      <4>1. Top # "Register"
          BY <1>9, <3>3
      <4> QED
          BY <4>1, Away, AsBeforeIsIdentity DEF RegistrationKept
    <3> QED
        BY <1>3, <3>1, <3>2, <3>3
  <2> QED
      BY <2>1, <2>2, <2>3, <2>4, Carrying, ChangeTypes
<1>14. ~astray' /\ c.k = "create"
       => (\A t \in Slots \ {s} : ~RegCall(calls[t])) /\ NoHandler /\ NoWrite
    BY <1>2, <1>9, EntryStages DEF RegCall
<1>15. /\ \A t \in Slots \ {s} : CallStage(calls[t]) \in kinds
       /\ \A g \in Elems(mainQ) : HandlerStage(g) \in kinds
       /\ \A v \in Users : \A x \in Elems(writes[v]) : WriteStage(x) \in kinds
  <2>1. CASE kinds = Stages
      BY <1>1, <2>1, ElemTypes, CallFacts, HandlerFacts, WriteFacts
  <2>2. CASE ~astray' /\ c.k = "create" /\ kinds = Stages \ Registrations
      BY <1>1, <1>14, <2>2, ElemTypes, NoRegistration DEF NoHandler, NoWrite, Elems
  <2> QED
      BY <1>12, <2>1, <2>2
<1>16. CallsGood'
    BY <1>1, <1>10, <1>13, <1>15, CallsKept, IdleGood
<1>17. HandlersGood'
  <2>1. Born(u)'
      BY <1>3, <1>5, <1>6, <1>7 DEF Good, Born
  <2>2. CASE c.k = "create"
    <3>1. ASSUME ~astray' PROVE AtRegister(w)' /\ Newcomer(u)'
      <4>1. AtRegister(w) /\ Newcomer(u)
          BY <1>5, <1>6, <1>7, <1>9, <2>2, <3>1 DEF Good, Registrations, OnScreen, Gone
      <4>2. Reloading(u)' => Reloading(u)
        <5>1. \A t \in Slots : calls'[t] = calls[t] \/ calls'[t].k = "idle"
            BY <1>10, IdleType
        <5>2. h.k # "back"
            BY <1>11, <2>2
        <5> QED
            BY <1>11, <5>1, <5>2 DEF Reloading, Elems
      <4> QED
          BY <1>3, <4>1, <4>2 DEF AtRegister, Top, Newcomer, Live
    <3>2. Owned("created", w)'
        BY <1>5, <1>6, <1>7, <2>2 DEF Good, Owned, Home, Registrations
    <3>3. Good("created", u, w)'
        BY <1>7, <2>1, <3>1, <3>2 DEF Good
    <3>4. HandlerStage(h) = "created"
        BY <1>11, <2>2 DEF HandlerStage
    <3>5. GoodHandler(h)'
        BY <1>11, <3>3, <3>4 DEF GoodHandler
    <3> QED
        BY <1>1, <1>11, <1>13, <1>15, <3>5, HandlersKept
  <2>3. CASE c.k = "signIn"
    <3>1. Owned("entered", w)'
        BY <1>5, <1>6, <1>7, <2>3 DEF Good, Owned, Home, Registrations
    <3>2. Good("entered", u, w)'
        BY <2>1, <3>1 DEF Good, Registrations
    <3>3. HandlerStage(h) = "entered"
        BY <1>11, <2>3 DEF HandlerStage
    <3>4. GoodHandler(h)'
        BY <1>11, <3>2, <3>3 DEF GoodHandler
    <3> QED
        BY <1>1, <1>11, <1>13, <1>15, <3>4, HandlersKept
  <2> QED
      BY <1>3, <2>2, <2>3
<1>18. WritesGood'
    BY <1>1, <1>13, <1>15, WritesKept DEF storeVars
<1>19. Shape' /\ People'
  <2>1. Born(u)
      BY <1>5, <1>6, <1>7 DEF Good
  <2> QED
      BY <1>3, <1>7, <2>1 DEF RegInv, Shape, People, Born
<1>20. ASSUME ~astray' PROVE Steady'
  <2>1. Steady
      BY <1>9, <1>20 DEF RegInv
  <2>2. OneRegistration'
    <3>1. CASE c.k = "signIn"
      <4>1. NoNewCall
          BY <1>10, IdleType DEF NoNewCall, RegCall
      <4>2. NoNewHandler
          BY <1>1, <1>11, <3>1, HandlerQueues DEF RegHandler, Post
      <4> QED
          BY <1>1, <2>1, <4>1, <4>2, WriteQueues, FewerRegistrations DEF Steady, storeVars
    <3>2. CASE c.k = "create"
      <4>1. NoCall'
          BY <1>10, <1>14, <1>20, <3>2, IdleType DEF NoCall, RegCall
      <4>2. NoWrite'
          BY <1>14, <1>20, <3>2 DEF NoWrite, storeVars
      <4>3. OneHandler'
        <5>1. \A i \in DOMAIN mainQ' : i = Len(mainQ) + 1 \/ ~RegHandler(mainQ'[i])
          <6>1. \A i \in DOMAIN mainQ' : i = Len(mainQ) + 1 \/ (i \in DOMAIN mainQ /\ mainQ'[i] = mainQ[i])
              BY <1>1, <1>11
          <6> QED
              BY <1>14, <1>20, <3>2, <6>1 DEF NoHandler
        <5> QED
            BY <5>1 DEF OneHandler
      <4> QED
          BY <4>1, <4>2, <4>3 DEF OneRegistration, NoCall, OneCall, NoWrite, OneWrite
    <3> QED
        BY <1>3, <3>1, <3>2
  <2>3. InfoVerified'
      BY <1>9, <1>20 DEF InfoVerified, OnPath
  <2>4. Photos' /\ Ordered(writes', erased')
      BY <2>1 DEF Steady, Photos, Recorded, storeVars
  <2> QED
      BY <2>2, <2>3, <2>4 DEF Steady
<1> QED
    BY <1>16, <1>17, <1>18, <1>19, <1>20 DEF RegInv

LEMMA WorkQueueRegInv == ASSUME IndInv, IndInv', RegInv, WorkQueue PROVE RegInv'
<1>1. UNCHANGED <<path, storeVars, erased>>
    BY DEF WorkQueue
<1>2. CASE UNCHANGED astray
  <2>1. \/ \E s \in Slots : ReplyRefused(s) \/ ReplyReload(s)
        \/ (\E u \in Uids : ReplyDelete(u)) /\ UNCHANGED mainQ
        \/ RefreshRefused /\ UNCHANGED mainQ
        \/ \E s \in Slots :
             /\ ReplyEntry(s)
             /\ astray' = \/ astray \/ ~OnScreen(calls[s].owner)
                          \/ calls[s].k = "create" /\ calls[s].owner # Len(path)
      BY DEF WorkQueue
  <2> QED
      BY <1>1, <1>2, <2>1, ReplyRegInv, ReplyEntryRegInv DEF observed
<1>3. CASE ~UNCHANGED astray
    BY <1>1, <1>3, ReplyEntryRegInv DEF WorkQueue
<1> QED
    BY <1>2, <1>3

(***************************************************************************)
(* The write stream and the uploads.                                       *)
(***************************************************************************)
LEMMA Effects ==
    ASSUME NEW doc \in Document, NEW w \in Write
    PROVE  /\ w.op = "save" => Effect(doc, w).profile /\ Effect(doc, w).photo = NoUid
           /\ w.op = "photo" => /\ Effect(doc, w).profile = doc.profile
                                /\ Effect(doc, w).photo = w.photo
           /\ w.op = "delete" => Effect(doc, w) = Missing
<1>1. w.op = "save" => Effect(doc, w) = [profile |-> TRUE, photo |-> NoUid]
    BY Zenon DEF Effect
<1>2. w.op = "photo" => Effect(doc, w) = [doc EXCEPT !.photo = w.photo]
    BY Zenon DEF Effect
<1>3. w.op = "delete" => Effect(doc, w) = Missing
    BY Zenon DEF Effect
<1> QED
    BY <1>1, <1>2, <1>3 DEF Document

\* The oldest write of the current user is gone from the queue.
LEMMA TakenWrites ==
    ASSUME IndInv, RegInv, writes[session] # <<>>, writes' = [writes EXCEPT ![session] = Tail(@)],
           NEW w, w = Head(writes[session])
    PROVE  /\ w \in Write /\ GoodWrite(w)
           /\ \A u \in Users : \A x \in Elems(writes'[u]) : x \in Elems(writes[u])
           /\ OneWrite /\ RegWrite(w) => ~NoWrite /\ NoWrite'
<1>1. writes \in [Users -> Seq(Write)] /\ session \in Users
    BY TypeParts DEF IndInv
<1>2. PICK q \in Seq(Write) : q = writes[session] /\ q # <<>>
    BY <1>1
<1>3. writes'[session] = Tail(q) /\ \A u \in Users \ {session} : writes'[u] = writes[u]
    BY <1>1, <1>2
<1>4. /\ w = q[1] /\ 1 \in DOMAIN q /\ w \in Elems(q)
      /\ \A x \in Elems(Tail(q)) : x \in Elems(q)
      /\ \A i \in DOMAIN Tail(q) : i \in Nat /\ i + 1 \in DOMAIN q /\ Tail(q)[i] = q[i + 1]
    BY <1>2, ElemsTail, TailPositions
<1>5. w \in Write /\ GoodWrite(w)
    BY <1>1, <1>2, <1>4 DEF RegInv, WritesGood
<1>6. \A u \in Users : \A x \in Elems(writes'[u]) : x \in Elems(writes[u])
  <2>1. ASSUME NEW u \in Users, NEW r, r = writes'[u], NEW x \in Elems(r)
        PROVE  x \in Elems(writes[u])
      BY <1>2, <1>3, <1>4, <2>1
  <2> QED
      BY <2>1
<1>7. ASSUME OneWrite, RegWrite(w) PROVE ~NoWrite /\ NoWrite'
  <2>1. ~NoWrite
      BY <1>1, <1>2, <1>4, <1>7 DEF NoWrite
  <2>2. \A u \in Users : \A i \in DOMAIN writes[u] : RegWrite(writes[u][i]) => u = session /\ i = 1
      BY <1>1, <1>2, <1>4, <1>7 DEF OneWrite
  <2>3. ASSUME NEW u \in Users, NEW i \in DOMAIN writes'[u] PROVE ~RegWrite(writes'[u][i])
    <3>1. CASE u # session
        BY <1>3, <2>2, <3>1
    <3>2. CASE u = session
      <4>1. i \in DOMAIN Tail(q) /\ writes'[u][i] = Tail(q)[i]
          BY <1>3, <2>3, <3>2
      <4>2. i + 1 \in DOMAIN q /\ Tail(q)[i] = q[i + 1]
          BY <1>4, <4>1
      <4>3. i + 1 # 1
          BY <1>2, <4>1
      <4> QED
          BY <1>2, <2>2, <3>2, <4>1, <4>2, <4>3
    <3> QED
        BY <3>1, <3>2
  <2> QED
      BY <2>1, <2>3 DEF NoWrite
<1> QED
    BY <1>5, <1>6, <1>7

\* What a write does to the documents, and who hears of it.
LEMMA SettledRegInv ==
    ASSUME IndInv, IndInv', RegInv, NEW w, w = Head(writes[session]),
           UNCHANGED <<path, authVars, observed, uploads>>,
           writes[session] # <<>>, writes' = [writes EXCEPT ![session] = Tail(@)],
           \/ UNCHANGED <<docs, mainQ>>
           \/ /\ docs' = [docs EXCEPT ![w.doc] = Effect(@, w)]
              /\ \/ w.op = "save" /\ Post(Handler("saved", w.doc, w.owner))
                 \/ w.op # "save" /\ UNCHANGED mainQ
    PROVE  RegInv'
<1>1. /\ TypeOK /\ TypeOK' /\ CallsGood /\ HandlersGood /\ WritesGood
      /\ session \in Users /\ mainQ \in Seq(Handlers) /\ docs \in [Uids -> Document]
      /\ writes \in [Users -> Seq(Write)]
    BY TypeParts DEF IndInv, RegInv
<1>2. /\ w \in Write /\ GoodWrite(w) /\ w.doc \in Uids /\ w.owner \in Owners
      /\ w.op \in WriteOps /\ w.photo \in Users
      /\ \A u \in Users : \A x \in Elems(writes'[u]) : x \in Elems(writes[u])
    BY TakenWrites, WriteFacts DEF Write
<1>3. /\ UNCHANGED <<calls, accounts, session, deleting, astray, erased>>
      /\ \A u \in Uids : u # w.doc => docs'[u] = docs[u]
      /\ \/ docs'[w.doc] = docs[w.doc]
         \/ w.op = "save" /\ docs'[w.doc].profile /\ docs'[w.doc].photo = NoUid
         \/ /\ w.op = "photo" /\ docs'[w.doc].profile = docs[w.doc].profile
            /\ docs'[w.doc].photo = w.photo
         \/ w.op = "delete" /\ docs'[w.doc] = Missing
  <2>1. UNCHANGED <<calls, accounts, session, deleting, astray, erased>>
      BY DEF authVars, observed
  <2>2. CASE UNCHANGED docs
      BY <2>1, <2>2
  <2>3. CASE docs' = [docs EXCEPT ![w.doc] = Effect(@, w)]
    <3>1. PICK doc \in Document : doc = docs[w.doc]
        BY <1>1, <1>2
    <3>2. docs'[w.doc] = Effect(doc, w) /\ \A u \in Uids : u # w.doc => docs'[u] = docs[u]
        BY <1>1, <1>2, <2>3, <3>1
    <3> QED
        BY <1>2, <2>1, <3>1, <3>2, Effects DEF WriteOps
  <2> QED
      BY <2>2, <2>3
<1>4. w.op = "delete" => w.doc \in erased
    BY <1>2 DEF GoodWrite, Good, WriteStage, WriteUser
<1>5. \A u \in Uids : Recorded(u) => Recorded(u)'
    BY <1>3, <1>4 DEF Recorded
<1>6. \A g \in Elems(mainQ') : \/ g \in Elems(mainQ)
                               \/ /\ g.k = "saved" /\ g.uid = w.doc /\ g.owner = w.owner
                                  /\ w.op = "save" /\ docs'[w.doc].profile
  <2>1. CASE UNCHANGED mainQ
      BY <2>1 DEF Elems
  <2>2. CASE /\ w.op = "save" /\ Post(Handler("saved", w.doc, w.owner))
             /\ docs' = [docs EXCEPT ![w.doc] = Effect(@, w)]
    <3>1. PICK h \in Handlers : h = Handler("saved", w.doc, w.owner)
        BY <1>2 DEF Handler, Handlers, HandlerKinds
    <3>2. h.k = "saved" /\ h.uid = w.doc /\ h.owner = w.owner
        BY <3>1 DEF Handler
    <3>3. mainQ' = Append(mainQ, h)
        BY <2>2, <3>1 DEF Post
    <3>4. Elems(Append(mainQ, h)) = Elems(mainQ) \cup {h}
        BY <1>1, ElemsAppend
    <3>5. Elems(mainQ') = Elems(Append(mainQ, h))
        BY <3>3 DEF Elems
    <3>6. docs'[w.doc].profile
      <4>1. PICK doc \in Document : doc = docs[w.doc]
          BY <1>1, <1>2
      <4>2. docs'[w.doc] = Effect(doc, w)
          BY <1>1, <1>2, <2>2, <4>1
      <4> QED
          BY <1>2, <2>2, <4>2, Effects
    <3> QED
        BY <2>2, <3>2, <3>4, <3>5, <3>6
  <2> QED
      BY <2>1, <2>2
<1>7. Carries(AsBefore, Stages)
  <2>1. \A u \in Uids : Reloading(u)' => Reloading(u)
      BY <1>3, <1>6, FewerReloads
  <2>2. \A u \in Uids : Newcomer(u) => Newcomer(u)'
      BY <1>3, <2>1, NewcomersKept DEF Live
  <2>3. Grows
      BY <1>3, <1>5 DEF Grows, Born
  <2> QED
      BY <1>3, <2>2, <2>3, StillCarries
<1>8. CallsGood' /\ WritesGood'
    BY <1>1, <1>2, <1>3, <1>7, CallsKept, WritesKept, ElemTypes, CallFacts, WriteFacts
<1>9. HandlersGood'
  <2>1. ASSUME w.op = "save", docs'[w.doc].profile,
               NEW g, g.k = "saved", g.uid = w.doc, g.owner = w.owner
        PROVE  GoodHandler(g)'
    <3>1. PICK u \in Users, o \in Owners : u = w.doc /\ o = w.owner
        BY <1>2 DEF Users
    <3>2. Good("created", u, o)
        BY <1>2, <2>1, <3>1 DEF GoodWrite, WriteStage, WriteUser
    <3>3. Good("created", u, o)'
      <4>1. AsBefore[o] = o
          BY AsBeforeIsIdentity
      <4> QED
          BY <1>7, <3>2, <4>1 DEF Carries, Stages, Registrations
    <3>4. Recorded(u)'
        BY <1>2, <2>1, <3>1 DEF Recorded
    <3>5. Good("saved", u, o)'
        BY <3>3, <3>4 DEF Good, Owned, Home, Registrations
    <3> QED
        BY <2>1, <3>1, <3>5 DEF GoodHandler, HandlerStage
  <2>2. \A g \in Elems(mainQ) : HandlerStage(g) \in Stages
      BY <1>1, ElemTypes, HandlerFacts
  <2> QED
      BY <1>1, <1>6, <1>7, <2>1, <2>2, HandlersKept
<1>10. Shape' /\ People'
    BY <1>3 DEF RegInv, Shape, People, Born
<1>11. ASSUME ~astray' PROVE Steady'
  <2>1. Steady /\ ~astray
      BY <1>3, <1>11 DEF RegInv
  <2>2. OneRegistration'
    <3>1. NoNewCall /\ NoNewWrite
        BY <1>1, <1>3, WriteQueues DEF NoNewCall
    <3>2. CASE UNCHANGED mainQ
        BY <1>1, <2>1, <3>1, <3>2, HandlerQueues, FewerRegistrations DEF Steady
    <3>3. CASE w.op = "save" /\ Post(Handler("saved", w.doc, w.owner))
      <4>1. OneRegistration /\ OneWrite /\ RegWrite(w)
          BY <2>1, <3>3 DEF Steady, OneRegistration, RegWrite
      <4>2. ~NoWrite /\ NoWrite'
          BY <4>1, TakenWrites
      <4>3. NoCall /\ NoHandler
          BY <4>1, <4>2 DEF OneRegistration
      <4>4. OneHandler'
        <5>1. \A i \in DOMAIN mainQ' : i = Len(mainQ) + 1 \/ ~RegHandler(mainQ'[i])
          <6>1. PICK h \in Handlers : mainQ' = Append(mainQ, h)
              BY <1>2, <3>3 DEF Post, Handler, Handlers, HandlerKinds
          <6>2. \A i \in DOMAIN mainQ' : i = Len(mainQ) + 1 \/ (i \in DOMAIN mainQ /\ mainQ'[i] = mainQ[i])
              BY <1>1, <6>1
          <6> QED
              BY <4>3, <6>2 DEF NoHandler
        <5> QED
            BY <5>1 DEF OneHandler
      <4>5. NoCall' /\ OneCall' /\ OneWrite'
          BY <3>1, <4>2, <4>3, FewerCalls DEF NoCall, OneCall, NoWrite, OneWrite
      <4> QED
          BY <4>2, <4>4, <4>5 DEF OneRegistration
    <3> QED
        BY <3>2, <3>3
  <2>3. Photos'
    <3>1. w.op = "photo" => Recorded(w.photo)
        BY <1>2, <2>1 DEF GoodWrite, Good, WriteStage, WriteUser
    <3>2. \A u \in Uids : docs'[u].photo \in Uids => Recorded(docs'[u].photo)
      <4>1. Missing.photo \notin Uids
          BY NoUidAssumption DEF Missing
      <4> QED
          BY <1>3, <2>1, <3>1, <4>1, NoUidAssumption DEF Steady, Photos
    <3>3. ASSUME NEW u \in Uids, docs'[u].photo \in Uids PROVE Recorded(docs[u].photo)'
      <4>1. PICK p \in Uids : p = docs'[u].photo
          BY <3>3
      <4>2. Recorded(p)'
          BY <1>5, <3>2, <4>1
      <4> QED
          BY <4>1, <4>2 DEF Recorded
    <3>4. \A u \in uploads' : Recorded(u)'
        BY <1>5, <2>1 DEF Steady, Photos, Recorded
    <3> QED
        BY <3>3, <3>4 DEF Photos
  <2>4. Ordered(writes', erased')
      BY <1>1, <1>3, <2>1, OrderedTail DEF Steady
  <2>5. InfoVerified'
      BY <1>1, <1>3, <2>1, InfoKept DEF Steady, OnPath, VerifiedOrGone
  <2> QED
      BY <2>2, <2>3, <2>4, <2>5 DEF Steady
<1> QED
    BY <1>8, <1>9, <1>10, <1>11 DEF RegInv

LEMMA WriteStreamRegInv == ASSUME IndInv, IndInv', RegInv, WriteStream PROVE RegInv'
<1>1. PICK w : w = Head(writes[session])
    OBVIOUS
<1>2. CASE Acknowledge(session)
  <2>1. \/ w.op = "save" /\ Post(Handler("saved", w.doc, w.owner))
        \/ w.op # "save" /\ UNCHANGED mainQ
      BY <1>1, <1>2 DEF Acknowledge
  <2> QED
      BY <1>1, <1>2, <2>1, SettledRegInv DEF WriteStream, Acknowledge
<1>3. CASE Refuse(session)
    BY <1>1, <1>3, SettledRegInv DEF WriteStream, Refuse
<1> QED
    BY <1>2, <1>3 DEF WriteStream

LEMMA StorageRegInv == ASSUME IndInv, IndInv', RegInv, Storage PROVE RegInv'
<1>1. /\ TypeOK /\ TypeOK' /\ CallsGood /\ HandlersGood /\ WritesGood
      /\ session \in Users /\ mainQ \in Seq(Handlers)
      /\ UNCHANGED <<path, accounts, session, calls, deleting, astray, erased>>
    BY TypeParts DEF IndInv, RegInv, Storage, authVars, observed
<1>2. PICK u \in Uids :
        /\ u \in uploads /\ uploads' = uploads \ {u} /\ UNCHANGED <<docs, writes>>
        /\ Post(Handler("photo", u, Gone)) \/ UNCHANGED mainQ
    BY DEF Storage, PhotoStored, UploadFails
<1>3. PICK h \in Handlers : h = Handler("photo", u, Gone)
    BY DEF Handler, Handlers, HandlerKinds, Owners
<1>4. h.k = "photo" /\ h.uid = u /\ h.owner = Gone /\ ~RegHandler(h)
    BY <1>3 DEF Handler, RegHandler
<1>5. \A g \in Elems(mainQ') : g \in Elems(mainQ) \/ g = h
  <2>1. CASE UNCHANGED mainQ
      BY <2>1 DEF Elems
  <2>2. CASE mainQ' = Append(mainQ, h)
    <3>1. Elems(Append(mainQ, h)) = Elems(mainQ) \cup {h}
        BY <1>1, ElemsAppend
    <3> QED
        BY <2>2, <3>1 DEF Elems
  <2> QED
      BY <1>2, <1>3, <2>1, <2>2 DEF Post
<1>6. Carries(AsBefore, Stages)
  <2>1. \A v \in Uids : Reloading(v)' => Reloading(v)
      BY <1>1, <1>4, <1>5, FewerReloads
  <2>2. \A v \in Uids : Newcomer(v) => Newcomer(v)'
      BY <1>1, <2>1, NewcomersKept DEF Live
  <2> QED
      BY <1>1, <1>2, <2>2, StillCarries, GrowsWithout
<1>7. CallsGood' /\ WritesGood'
    BY <1>1, <1>2, <1>6, CallsKept, WritesKept, ElemTypes, CallFacts, WriteFacts DEF Elems
<1>8. GoodHandler(h)'
  <2>1. PICK o : o = Gone
      OBVIOUS
  <2>2. ~astray' => Recorded(u)'
      BY <1>1, <1>2 DEF RegInv, Steady, Photos, Recorded
  <2>3. Good("photo", u, o)'
      BY <2>1, <2>2 DEF Good, Owned, OnScreen, Gone, Registrations
  <2> QED
      BY <1>4, <2>1, <2>3 DEF GoodHandler, HandlerStage
<1>9. HandlersGood'
    BY <1>1, <1>5, <1>6, <1>8, HandlersKept, ElemTypes, HandlerFacts
<1>10. Shape' /\ People'
    BY <1>1 DEF RegInv, Shape, People, Born
<1>11. ASSUME ~astray' PROVE Steady'
  <2>1. Steady
      BY <1>1, <1>11 DEF RegInv
  <2>2. OneRegistration'
    <3>1. NoNewHandler
        BY <1>1, <1>2, <1>3, <1>4, HandlerQueues
    <3> QED
        BY <1>1, <1>2, <2>1, <3>1, WriteQueues, FewerRegistrations DEF Steady, NoNewCall
  <2>3. Photos' /\ Ordered(writes', erased')
      BY <1>1, <1>2, <2>1 DEF Steady, Photos, Recorded
  <2>4. InfoVerified'
      BY <1>1, <2>1, InfoKept DEF Steady, OnPath, VerifiedOrGone
  <2> QED
      BY <2>2, <2>3, <2>4 DEF Steady
<1> QED
    BY <1>7, <1>9, <1>10, <1>11 DEF RegInv

LEMMA RestartRegInv == ASSUME IndInv, IndInv', RegInv, Restart PROVE RegInv'
<1> DEFINE gone == [w \in Owners |-> Gone]
<1>1. /\ TypeOK /\ TypeOK' /\ CallsGood /\ HandlersGood /\ WritesGood
      /\ session \in Users /\ writes \in [Users -> Seq(Write)] /\ erased \in SUBSET Uids
    BY TypeParts DEF IndInv, RegInv
<1>2. PICK change \in Changes : change = gone
    BY ChangeTypes
<1>3. \A w \in Owners : change[w] = Gone
    BY <1>2
<1> HIDE DEF gone
<1>4. /\ UNCHANGED <<accounts, session, docs, astray, erased>>
      /\ \A u \in Uids : deleting'[u] = "no"
      /\ \A s \in Slots : calls'[s] = Idle
      /\ mainQ' = <<>> /\ uploads' = {} /\ writes' = WritesReowned(change)
      /\ path' = <<"SplashIn">> \/ path' = <<"SplashOut">>
    BY <1>2 DEF Restart, AuthRestart, StoreRestart, observed, gone
<1>5. change[Gone] = Gone
    BY <1>3 DEF Owners
<1>6. Carries(change, Stages)
  <2>1. \A w \in Owners : ~OnScreen(change[w])
      BY <1>3 DEF OnScreen, Gone
  <2>2. ScreensKept(change) /\ RegistrationKept(change)
      BY <1>3, <2>1 DEF ScreensKept, RegistrationKept
  <2>3. Grows
      BY <1>4, GrowsWithout
  <2> QED
      BY <1>4, <2>1, <2>2, <2>3, Carrying
<1>7. CallsGood'
    BY <1>4, IdleGood DEF CallsGood
<1>8. HandlersGood'
    BY <1>4 DEF HandlersGood, Elems
<1>9. WritesGood'
  <2>1. \A u \in Users : writes'[u] = Reowned(writes[u], change)
      BY <1>4 DEF WritesReowned
  <2> QED
      BY <1>1, <1>6, <2>1, WritesCarried, ElemTypes, WriteFacts
<1>10. Shape' /\ ~OnPath("Info")'
    BY <1>4 DEF Shape, OnPath, Outer
<1>11. People'
    BY <1>4 DEF RegInv, People, Born
<1>12. ASSUME ~astray' PROVE Steady'
  <2>1. Steady
      BY <1>4, <1>12 DEF RegInv
  <2>2. OneRegistration'
    <3>1. NoNewCall
        BY <1>4, IdleType DEF NoNewCall, RegCall
    <3> QED
        BY <1>1, <1>4, <2>1, <3>1, HandlerQueues, WriteQueues, FewerRegistrations DEF Steady
  <2>3. Photos'
      BY <1>4, <2>1 DEF Steady, Photos, Recorded
  <2>4. Ordered(writes', erased')
      BY <1>1, <1>4, <1>5, <2>1, OrderedReowned DEF Steady
  <2>5. InfoVerified'
      BY <1>10 DEF InfoVerified
  <2> QED
      BY <2>2, <2>3, <2>4, <2>5 DEF Steady
<1> QED
    BY <1>7, <1>8, <1>9, <1>10, <1>11, <1>12 DEF RegInv

(***************************************************************************)
(* The invariant.                                                          *)
(***************************************************************************)
LEMMA InitRegInv == Init => RegInv
<1> SUFFICES ASSUME Init PROVE RegInv
    OBVIOUS
<1>1. /\ path = <<"SplashOut">> /\ mainQ = <<>> /\ session = NoUid
      /\ \A s \in Slots : calls[s] = Idle
      /\ \A u \in Uids : deleting[u] = "no" /\ docs[u].photo = NoUid
      /\ \A u \in Users : writes[u] = <<>>
      /\ uploads = {} /\ erased = {}
    BY DEF Init, AuthInit, StoreInit, Missing
<1>2. Shape /\ People /\ InfoVerified
    BY <1>1, NoUidAssumption DEF Shape, Outer, People, Born, InfoVerified
<1>3. CallsGood
    BY <1>1, NoUidAssumption
       DEF CallsGood, GoodCall, Good, CallStage, Idle, Request, Owned, OnScreen, Gone, Born, Registrations
<1>4. HandlersGood /\ WritesGood
    BY <1>1 DEF HandlersGood, WritesGood, Elems
<1>5. NoCall /\ NoHandler /\ NoWrite
    BY <1>1, IdleType DEF NoCall, RegCall, NoHandler, NoWrite
<1>6. OneRegistration
    BY <1>5 DEF OneRegistration, NoCall, OneCall, NoHandler, OneHandler, NoWrite, OneWrite
<1>7. Photos
    BY <1>1, NoUidAssumption DEF Photos
<1>8. Ordered(writes, erased)
    BY <1>1 DEF Ordered, Followed, Elems, Users
<1> QED
    BY <1>2, <1>3, <1>4, <1>6, <1>7, <1>8 DEF RegInv, Steady

LEMMA StutterRegInv == RegInv /\ UNCHANGED vars => RegInv'
<1> SUFFICES ASSUME RegInv, UNCHANGED vars PROVE RegInv'
    OBVIOUS
<1>1. UNCHANGED <<path, mainQ, accounts, session, cached, calls, deleting, docs, writes, uploads,
                  astray, erased>>
    BY DEF vars, authVars, storeVars, observed
<1>2. \A u, w, k : Good(k, u, w) => Good(k, u, w)'
    BY <1>1 DEF Good, Owned, Born, AtRegister, Top, Newcomer, Live, Reloading, Elems, Recorded
<1>3. CallsGood'
    BY <1>1, <1>2 DEF RegInv, CallsGood, GoodCall
<1>4. HandlersGood'
    BY <1>1, <1>2 DEF RegInv, HandlersGood, GoodHandler, Elems
<1>5. WritesGood'
    BY <1>1, <1>2 DEF RegInv, WritesGood, GoodWrite, Elems
<1>6. Shape' /\ People'
    BY <1>1 DEF RegInv, Shape, People, Born
<1>7. OneRegistration => OneRegistration'
    BY <1>1 DEF OneRegistration, OneCall, OneHandler, OneWrite, NoCall, NoHandler, NoWrite
<1>8. Steady => Steady'
    BY <1>1, <1>7 DEF Steady, Photos, Recorded, Ordered, InfoVerified, OnPath, VerifiedOrGone
<1> QED
    BY <1>1, <1>3, <1>4, <1>5, <1>6, <1>8 DEF RegInv

LEMMA NextRegInv == ASSUME IndInv, IndInv', RegInv, [Next]_vars PROVE RegInv'
BY TapsRegInv, RunHandlerRegInv, SplashTimerRegInv, ServerRegInv, MailboxRegInv, WorkQueueRegInv,
   LookupRegInv, WriteStreamRegInv, StorageRegInv, RestartRegInv, StutterRegInv DEF Next

\* Both invariants hold of every state of every behaviour.
LEMMA SpecRegInv == Spec => [](IndInv /\ RegInv)
<1>1. IndInv /\ IndInv' /\ RegInv /\ [Next]_vars => RegInv'
    BY NextRegInv
<1> QED
    BY <1>1, InitRegInv, InductiveInvariant, PTL DEF Spec

(***************************************************************************)
(* The theorems.                                                           *)
(***************************************************************************)
\* Firestore files a write under whoever is signed in when it is made, yet with
\* one registration at a time no write waits for another user's session than
\* that of the document it changes, nor for nobody's.
THEOREM WritesOwn == Spec => []OwnWrites
<1>1. RegInv => OwnWrites
    BY DEF RegInv, Steady, Ordered, OwnWrites, Elems
<1> QED
    BY <1>1, SpecRegInv, PTL

\* With one registration at a time, savePhotoReferenceForUser's merge makes no
\* document of a photo alone, but where a profile was saved and then erased.
THEOREM RecordsWhole == Spec => []HalfRecord
<1>1. IndInv /\ RegInv => HalfRecord
  <2> SUFFICES ASSUME IndInv, RegInv, ~astray, NEW u \in Uids, docs[u].photo = u
               PROVE  docs[u].profile \/ u \in erased
      BY TypeParts DEF HalfRecord, IndInv
  <2>1. Recorded(docs[u].photo)
      BY DEF RegInv, Steady, Photos
  <2> QED
      BY <2>1 DEF Recorded
<1> QED
    BY <1>1, SpecRegInv, PTL

\* From the Splash of a launch only its timer leads on to the tab bar.
LEMMA EntryStep ==
    ASSUME IndInv, RegInv, Next, path = <<"SplashIn">>, path' = <<"Main">>
    PROVE  SplashTimer
<1>1. Top = "SplashIn" /\ Len(path) = 1 /\ path[1] = "SplashIn" /\ path' # path
    BY DEF Top
<1>2. ~HasNavigation /\ ~CanPop
    BY <1>1 DEF HasNavigation, CanPop
<1>3. ~Taps
    BY <1>1, <1>2 DEF Taps, CreateAccountAction, Back, RegisterAction, LogIn, AtWelcome, VerifyBack,
       CheckEmailVerification, ResendLink, StartButtonAction, LogOut, DeleteAccount
<1>4. ~RunHandler
  <2> SUFFICES ASSUME mainQ # <<>>, NEW h, h = Head(mainQ),
                      \/ Created(h) \/ Saved(h) \/ GoHome(h) \/ NoAccountFound(h)
                      \/ EmailChecked(h) \/ BackRefused(h) \/ BackDeletes(h) \/ PhotoUploaded(h)
               PROVE  FALSE
      BY DEF RunHandler
  <2>1. Pushed("Verify") = path /\ Pushed("Info") = path /\ Popped = path
      BY <1>2 DEF Pushed, Popped
  <2>2. GoHome(h)
      BY <1>1, <2>1 DEF Created, Saved, NoAccountFound, EmailChecked, BackRefused, BackDeletes,
         PhotoUploaded, Push, Stay
  <2>3. h.k \in {"signIn", "get"} /\ OnScreen(h.owner) /\ h.owner = 1
      BY <1>1, <2>2 DEF GoHome, Stay
  <2>4. Owned(HandlerStage(h), h.owner)
      BY HandlerTaken DEF GoodHandler, Good
  <2>5. path[1] = "Welcome"
      BY <2>3, <2>4 DEF Owned, HandlerStage, Home, Registrations
  <2> QED
      BY <1>1, <2>5
<1>5. ~Restart
    BY <1>1 DEF Restart
<1> QED
    BY <1>1, <1>3, <1>4, <1>5 DEF Next, Server, Mailbox, WorkQueue, Lookup, WriteStream, Storage

\* Both screens that check isEmailVerified let in nobody else than its owner:
\* the flag they trust is earned, and behind WelcomeInfo the session is the one
\* the continue button was hit for.
THEOREM EntryVerified == Spec => VerifiedEntry
<1>1. IndInv /\ RegInv /\ [Next]_vars
      => [ path' = <<"Main">> /\ (path = <<"SplashIn">> \/ Top = "Info") /\ ~astray
           => session = NoUid \/ VerifiedOrGone(session) ]_vars
  <2> SUFFICES ASSUME IndInv, RegInv, Next, path' = <<"Main">>, ~astray, session # NoUid,
                      path = <<"SplashIn">> \/ Top = "Info"
               PROVE  VerifiedOrGone(session)
      OBVIOUS
  <2>1. session \in Uids /\ PathType
      BY TypeParts DEF IndInv, Users, PathType
  <2>2. CASE Top = "Info"
    <3>1. OnPath("Info")
        BY <2>1, <2>2, PathFacts DEF OnPath, Top
    <3> QED
        BY <3>1 DEF RegInv, Steady, InfoVerified
  <2>3. CASE path = <<"SplashIn">>
    <3>1. SplashTimer
        BY <2>3, EntryStep
    <3>2. path'[1] = "Main" /\ path[1] = "SplashIn" /\ Len(path) = 1
        BY <2>3
    <3>3. cached[session]
        BY <3>1, <3>2 DEF SplashTimer, Top
    <3> QED
        BY <2>1, <3>3 DEF IndInv, TrustIsEarned
  <2> QED
      BY <2>2, <2>3
<1> QED
    BY <1>1, SpecRegInv, PTL DEF Spec, VerifiedEntry

\* What a step does to the documents and their writes.
LEMMA StoreStep ==
    ASSUME IndInv, [Next]_vars
    PROVE  \/ UNCHANGED <<docs, writes, erased>>
           \/ UNCHANGED <<docs, erased>> /\ \E change \in Changes :
                  change[Gone] = Gone /\ writes' = WritesReowned(change)
           \/ UNCHANGED <<docs, erased>> /\ \E s \in Users, w \in Write :
                  w.op # "delete" /\ writes' = [writes EXCEPT ![s] = Append(@, w)]
           \/ DeleteAccount \/ (mainQ # <<>> /\ BackDeletes(Head(mainQ)))
           \/ WriteStream
<1>1. PathType /\ session \in Users
    BY TypeParts DEF IndInv, PathType
<1>2. \A queue : PresentMain(queue) => \E change \in Changes :
        change[Gone] = Gone /\ writes' = WritesReowned(change)
    BY <1>1, ChangeTypes, ChangesOfGone DEF PresentMain
<1>3. Back => \E change \in Changes : change[Gone] = Gone /\ writes' = WritesReowned(change)
    BY <1>1, ChangeTypes, ChangesOfGone DEF Back
<1>4. Restart => \E change \in Changes : change[Gone] = Gone /\ writes' = WritesReowned(change)
    BY ChangeTypes DEF Restart, StoreRestart, Owners
<1>5. ASSUME mainQ # <<>>, NEW h, h = Head(mainQ), Created(h) \/ PhotoUploaded(h)
      PROVE  UNCHANGED writes \/ \E s \in Users, w \in Write :
                  w.op # "delete" /\ writes' = [writes EXCEPT ![s] = Append(@, w)]
  <2>1. h \in Handlers
      BY <1>5, TypeParts, QueueTypes DEF IndInv
  <2>2. h.uid \in Uids /\ h.owner \in Owners
      BY <2>1, HandlerFacts
  <2>a. Save(h.uid, h.owner).op # "delete" /\ SetPhoto(session, h.uid).op # "delete"
      BY DEF Save, SetPhoto
  <2>3. CASE Created(h)
      BY <1>1, <2>a, <2>2, <2>3, HandlerWrites DEF Created
  <2>4. CASE PhotoUploaded(h)
    <3>1. CASE session = NoUid
        BY <2>4, <3>1 DEF PhotoUploaded
    <3>2. CASE session \in Uids
        BY <1>1, <2>a, <2>2, <2>4, <3>2, HandlerWrites DEF PhotoUploaded
    <3> QED
        BY <1>1, <3>1, <3>2 DEF Users
  <2> QED
      BY <1>5, <2>3, <2>4
<1>6. ASSUME Taps, ~Back, ~StartButtonAction, ~DeleteAccount
      PROVE  UNCHANGED <<docs, writes, erased>>
    BY <1>6 DEF Taps, CreateAccountAction, RegisterAction, LogIn, VerifyBack, CheckEmailVerification,
       ResendLink, LogOut, storeVars, observed
<1>7. ASSUME Server \/ Mailbox \/ WorkQueue \/ Lookup \/ Storage
      PROVE  UNCHANGED <<docs, writes, erased>>
    BY <1>7 DEF Server, Mailbox, WorkQueue, Lookup, Storage, PhotoStored, UploadFails, storeVars, observed
<1>8. ASSUME RunHandler, ~BackDeletes(Head(mainQ))
      PROVE  /\ UNCHANGED <<docs, erased>>
             /\ \/ UNCHANGED writes
                \/ \E change \in Changes : change[Gone] = Gone /\ writes' = WritesReowned(change)
                \/ \E s \in Users, w \in Write :
                       w.op # "delete" /\ writes' = [writes EXCEPT ![s] = Append(@, w)]
  <2>1. PICK h : h = Head(mainQ) /\ mainQ # <<>>
      BY <1>8 DEF RunHandler
  <2>2. CASE Created(h) \/ PhotoUploaded(h)
      BY <1>5, <2>1, <2>2 DEF Created, PhotoUploaded, observed
  <2>3. CASE Saved(h) \/ GoHome(h) \/ NoAccountFound(h) \/ EmailChecked(h) \/ BackRefused(h)
      BY <1>2, <2>3 DEF Saved, GoHome, NoAccountFound, EmailChecked, BackRefused, OnlyScreens,
         Stay, Push, observed
  <2> QED
      BY <1>8, <2>1, <2>2, <2>3 DEF RunHandler
<1>9. SplashTimer => /\ UNCHANGED <<docs, erased>>
                     /\ \/ UNCHANGED writes
                        \/ \E change \in Changes : change[Gone] = Gone /\ writes' = WritesReowned(change)
    BY <1>2 DEF SplashTimer, OnlyScreens, observed
<1>10. UNCHANGED vars => UNCHANGED <<docs, writes, erased>>
    BY DEF vars, storeVars, observed
<1>11. Back \/ StartButtonAction \/ Restart => UNCHANGED <<docs, erased>>
    BY DEF Back, StartButtonAction, Restart, StoreRestart, observed
<1>12. StartButtonAction => \E change \in Changes : change[Gone] = Gone /\ writes' = WritesReowned(change)
    BY <1>2 DEF StartButtonAction
<1> QED
    BY <1>3, <1>4, <1>6, <1>7, <1>8, <1>9, <1>10, <1>11, <1>12 DEF Next, RunHandler

\* The back button's handler looks the user up twice, around a request: the
\* account it deletes is the one whose document goes.
THEOREM BackErasesOne == Spec => BackErasesOneUser
<1>1. IndInv /\ RegInv /\ [Next]_vars
      => [ \A u, v \in Uids :
             deleting[u] = "no" /\ deleting'[u] = "back" /\ v \in erased' \ erased
             => u = v \/ astray' ]_vars
  <2> SUFFICES ASSUME IndInv, RegInv, [Next]_vars, NEW u \in Uids, NEW v \in Uids, ~astray',
                      deleting[u] = "no", deleting'[u] = "back", v \in erased', v \notin erased
               PROVE  u = v
      OBVIOUS
  <2>1. TypeOK
      BY DEF IndInv
  <2>2. ~DeleteAccount
      BY <2>1, TypeParts DEF DeleteAccount, DeleteRequested
  <2>3. mainQ # <<>> /\ BackDeletes(Head(mainQ))
      BY <2>2, StoreStep DEF WriteStream, observed
  <2>4. PICK h : h = Head(mainQ)
      OBVIOUS
  <2>5. /\ h.k = "back" /\ v = session /\ session # NoUid /\ OnScreen(h.owner) /\ ~astray
        /\ DeleteRequested(h.uid, "back")
      BY <2>3, <2>4 DEF BackDeletes
  <2>6. u = h.uid
      BY <2>1, <2>5, TypeParts DEF DeleteRequested
  <2>7. session \in {NoUid, h.uid}
    <3>1. Good("back", h.uid, h.owner)
        BY <2>3, <2>4, <2>5, HandlerTaken DEF GoodHandler, HandlerStage
    <3> QED
        BY <2>5, <3>1 DEF Good
  <2> QED
      BY <2>5, <2>6, <2>7
<1> QED
    BY <1>1, SpecRegInv, PTL DEF Spec, BackErasesOneUser

(***************************************************************************)
(* Erasures.                                                               *)
(***************************************************************************)
\* A queue holds what it held, but for its head.
LEMMA TailHolds ==
    ASSUME NEW q \in Seq(Write), q # <<>>, NEW i \in DOMAIN q, i # 1
    PROVE  \E j \in DOMAIN Tail(q) : Tail(q)[j] = q[i]
BY TailPositions

Holding(queues, u) ==
    \E w \in Users : \E i \in DOMAIN queues[w] : queues[w][i] = Delete(u)

LEMMA PendingReowned ==
    ASSUME TypeOK, NEW change \in Changes, change[Gone] = Gone, NEW u \in Uids, NEW queues,
           queues = WritesReowned(change), Holding(writes, u)
    PROVE  Holding(queues, u)
<1>1. PICK w \in Users : \E i \in DOMAIN writes[w] : writes[w][i] = Delete(u)
    BY DEF Holding
<1>2. writes[w] \in Seq(Write) /\ queues[w] = Reowned(writes[w], change)
    BY TypeParts DEF WritesReowned
<1>3. PICK i \in DOMAIN writes[w] : writes[w][i] = Delete(u)
    BY <1>1
<1>4. i \in DOMAIN queues[w] /\ queues[w][i] = Delete(u)
    BY <1>2, <1>3, DeleteReowned, ReownedWritesNew
<1> QED
    BY <1>4 DEF Holding

\* A deletion queued leaves the deletions that were, and is one itself.
LEMMA PendingDelete ==
    ASSUME NEW base \in [Users -> Seq(Write)], NEW s \in Uids, NEW u \in Uids, NEW queues,
           queues = [base EXCEPT ![s] = Enqueued(@, Delete(s))],
           u = s \/ Holding(base, u)
    PROVE  Holding(queues, u)
<1>1. /\ s \in Users /\ queues[s] = Enqueued(base[s], Delete(s))
      /\ \A w \in Users : w # s => queues[w] = base[w]
    BY DEF Users
<1>2. PICK q \in Seq(Write) : q = base[s]
    BY <1>1
<1>3. PICK r : r = Enqueued(q, Delete(s))
    OBVIOUS
<1>4. /\ Len(r) \in DOMAIN r /\ r[Len(r)] = Delete(s)
      /\ \A i \in DOMAIN q : i \in DOMAIN r /\ r[i] = q[i]
    BY <1>3, EnqueuedDelete
<1>5. CASE u = s
    BY <1>1, <1>2, <1>3, <1>4, <1>5 DEF Holding
<1>6. ASSUME NEW w \in Users, NEW i \in DOMAIN base[w], base[w][i] = Delete(u)
      PROVE  i \in DOMAIN queues[w] /\ queues[w][i] = Delete(u)
    BY <1>1, <1>2, <1>3, <1>4, <1>6
<1> QED
    BY <1>5, <1>6 DEF Holding

LEMMA PendingKept ==
    ASSUME IndInv, [Next]_vars, ~WriteStream, NEW u \in Uids, u \in erased', ErasureLost(u)'
    PROVE  ErasureLost(u)
<1>1. TypeOK /\ writes \in [Users -> Seq(Write)] /\ ~ErasurePending(u)'
    BY TypeParts DEF IndInv, ErasureLost
<1>a. PICK queues : queues = writes' /\ ~Holding(queues, u)
    BY <1>1 DEF ErasurePending, Holding
<1>b. ErasurePending(u) <=> Holding(writes, u)
    BY DEF ErasurePending, Holding
<1>2. CASE UNCHANGED <<docs, writes, erased>>
    BY <1>2 DEF ErasureLost, ErasurePending
<1>3. CASE UNCHANGED <<docs, erased>> /\ ~ErasurePending(u)
    BY <1>3 DEF ErasureLost
<1>4. ASSUME NEW change \in Changes, change[Gone] = Gone, writes' = WritesReowned(change)
      PROVE  ~ErasurePending(u)
    BY <1>1, <1>a, <1>b, <1>4, PendingReowned
<1>5. ASSUME NEW s \in Users, NEW w \in Write, writes' = [writes EXCEPT ![s] = Append(@, w)]
      PROVE  ~ErasurePending(u)
  <2>1. /\ writes'[s] = Append(writes[s], w) /\ writes[s] \in Seq(Write)
        /\ \A x \in Users \ {s} : writes'[x] = writes[x]
      BY <1>1, <1>5
  <2>2. \A i \in DOMAIN writes[s] : i \in DOMAIN writes'[s] /\ writes'[s][i] = writes[s][i]
      BY <2>1
  <2> QED
      BY <1>1, <2>1, <2>2 DEF ErasurePending
<1>6. CASE DeleteAccount
  <2>1. UNCHANGED docs /\ session \in Uids
      BY <1>1, <1>6, TypeParts DEF DeleteAccount, Users
  <2>2. CASE UNCHANGED <<writes, erased>>
      BY <1>2, <2>1, <2>2
  <2>3. CASE /\ writes' = [writes EXCEPT ![session] = Enqueued(@, Delete(session))]
             /\ erased' = erased \cup {session}
    <3>1. ~(u = session \/ Holding(writes, u))
      <4>1. PICK s \in Uids : s = session
          BY <2>1
      <4>2. PICK base \in [Users -> Seq(Write)] : base = writes
          BY <1>1
      <4>3. queues = [base EXCEPT ![s] = Enqueued(@, Delete(s))]
          BY <1>a, <2>3, <4>1, <4>2
      <4>4. ~(u = s \/ Holding(base, u))
          BY <1>a, <4>3, PendingDelete
      <4> QED
          BY <4>1, <4>2, <4>4
    <3> QED
        BY <1>b, <2>1, <2>3, <3>1 DEF ErasureLost
  <2> QED
      BY <1>6, <2>2, <2>3 DEF DeleteAccount
<1>7. CASE mainQ # <<>> /\ BackDeletes(Head(mainQ))
  <2>1. PICK after \in Changes :
          /\ after[Gone] = Gone
          /\ \/ UNCHANGED <<writes, erased>>
             \/ /\ session # NoUid
                /\ writes' = [WritesReowned(after) EXCEPT ![session] = Enqueued(@, Delete(session))]
                /\ erased' = erased \cup {session}
    <3>1. PathType
        BY <1>1, TypeParts DEF PathType
    <3> QED
        BY <1>7, <3>1, ChangeTypes, ChangesOfGone DEF BackDeletes
  <2>2. UNCHANGED docs
      BY <1>7 DEF BackDeletes
  <2>3. CASE UNCHANGED <<writes, erased>>
      BY <1>2, <2>2, <2>3
  <2>4. CASE /\ session # NoUid /\ erased' = erased \cup {session}
             /\ writes' = [WritesReowned(after) EXCEPT ![session] = Enqueued(@, Delete(session))]
    <3>1. session \in Uids
        BY <1>1, <2>4, TypeParts DEF Users
    <3>2. PICK base \in [Users -> Seq(Write)] : base = WritesReowned(after)
        BY <1>1, WritesReownedType
    <3>3. ~(u = session \/ Holding(base, u))
      <4>1. PICK s \in Uids : s = session
          BY <3>1
      <4>2. queues = [base EXCEPT ![s] = Enqueued(@, Delete(s))]
          BY <1>a, <2>4, <3>2, <4>1
      <4>3. ~(u = s \/ Holding(base, u))
          BY <1>a, <4>2, PendingDelete
      <4> QED
          BY <4>1, <4>3
    <3>4. ~ErasurePending(u)
        BY <1>1, <1>b, <2>1, <3>2, <3>3, PendingReowned
    <3> QED
        BY <2>2, <2>4, <3>3, <3>4 DEF ErasureLost
  <2> QED
      BY <2>1, <2>3, <2>4
<1> QED
    BY <1>2, <1>3, <1>4, <1>5, <1>6, <1>7, StoreStep

\* The write stream takes the oldest write of the current user.
LEMMA PendingSettled ==
    ASSUME IndInv, RegInv, WriteStream, NEW u \in Uids, ErasureLost(u)', ~astray'
    PROVE  ErasureLost(u) \/ DeleteRefused(u)
<1>1. /\ TypeOK /\ session \in Users /\ UNCHANGED erased /\ ~astray
      /\ writes \in [Users -> Seq(Write)] /\ docs \in [Uids -> Document]
      /\ u \in erased /\ docs'[u].profile /\ ~ErasurePending(u)'
    BY TypeParts DEF IndInv, WriteStream, observed, ErasureLost
<1>2. writes[session] # <<>> /\ writes' = [writes EXCEPT ![session] = Tail(@)]
    BY DEF WriteStream, Acknowledge, Refuse
<1>3. PICK q \in Seq(Write), w \in Write : q = writes[session] /\ q # <<>> /\ w = Head(q)
    BY <1>1, <1>2, HeadTailProperties
<1>4. writes'[session] = Tail(q) /\ \A x \in Users \ {session} : writes'[x] = writes[x]
    BY <1>1, <1>2, <1>3
<1>5. w = q[1] /\ 1 \in DOMAIN q
    BY <1>3, TailPositions
<1>6. \A i \in DOMAIN q : q[i] = Delete(u) => i = 1
    BY <1>1, <1>3, <1>4, TailHolds DEF ErasurePending
<1>7. ErasurePending(u) => w = Delete(u)
  <2>1. ASSUME NEW x \in Users, NEW i \in DOMAIN writes[x], writes[x][i] = Delete(u)
        PROVE  w = Delete(u)
    <3>1. x = session
        BY <1>1, <1>4, <2>1 DEF ErasurePending
    <3> QED
        BY <1>3, <1>5, <1>6, <2>1, <3>1
  <2> QED
      BY <2>1 DEF ErasurePending
<1>8. CASE Refuse(session)
  <2>1. UNCHANGED docs
      BY <1>8 DEF Refuse
  <2>2. ErasurePending(u) => DeleteRefused(u)
      BY <1>1, <1>3, <1>4, <1>7 DEF DeleteRefused
  <2> QED
      BY <1>1, <2>1, <2>2 DEF ErasureLost
<1>9. CASE Acknowledge(session)
  <2>1. docs' = [docs EXCEPT ![w.doc] = Effect(@, w)]
      BY <1>3, <1>9 DEF Acknowledge
  <2>2. w.doc \in Uids /\ w.op \in WriteOps
      BY DEF Write
  <2>3. CASE w.doc # u
    <3>1. docs'[u] = docs[u]
        BY <1>1, <2>1, <2>3
    <3>2. w # Delete(u)
        BY <2>3 DEF Delete
    <3> QED
        BY <1>1, <1>7, <3>1, <3>2 DEF ErasureLost
  <2>4. CASE w.doc = u
    <3>1. PICK doc \in Document : doc = docs[u] /\ docs'[u] = Effect(doc, w)
        BY <1>1, <2>1, <2>4
    <3>2. w.op # "save"
      <4> SUFFICES ASSUME w.op = "save" PROVE FALSE
          OBVIOUS
      <4>1. Followed(q, erased)
          BY <1>1, <1>3 DEF RegInv, Steady, Ordered
      <4>2. \E j \in DOMAIN q : 1 < j /\ q[j] = Delete(u)
          BY <1>1, <1>5, <2>4, <4>1 DEF Followed, RegWrite
      <4> QED
          BY <1>6, <4>2
    <3>3. w.op # "delete"
        BY <1>1, <3>1, Effects DEF Missing
    <3>4. w.op = "photo" /\ docs'[u].profile = docs[u].profile
        BY <2>2, <3>1, <3>2, <3>3, Effects DEF WriteOps
    <3>5. w # Delete(u)
        BY <3>4 DEF Delete
    <3> QED
        BY <1>1, <1>7, <3>4, <3>5 DEF ErasureLost
  <2> QED
      BY <2>3, <2>4
<1> QED
    BY <1>8, <1>9 DEF WriteStream

\* An erasure the app set out to make survives the end of the process and every
\* older write of the same document still in Firestore's queue: the document
\* goes, or its deletion is still queued, unless the server refuses it.
THEOREM ErasuresKept == Spec => ErasureKept
<1>1. IndInv /\ RegInv /\ [Next]_vars
      => [ \A u \in Uids :
             ErasureLost(u)' => ErasureLost(u) \/ DeleteRefused(u) \/ astray' ]_vars
  <2> SUFFICES ASSUME IndInv, RegInv, [Next]_vars, NEW u \in Uids, ErasureLost(u)', ~astray'
               PROVE  ErasureLost(u) \/ DeleteRefused(u)
      OBVIOUS
  <2>1. CASE WriteStream
      BY <2>1, PendingSettled
  <2>2. CASE ~WriteStream
    <3>1. u \in erased'
        BY DEF ErasureLost
    <3> QED
        BY <2>2, <3>1, PendingKept
  <2> QED
      BY <2>1, <2>2
<1> QED
    BY <1>1, SpecRegInv, PTL DEF Spec, ErasureKept
=============================================================================
