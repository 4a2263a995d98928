------------------------------- MODULE UserStore -------------------------------
(***************************************************************************)
(* What UserManager and StorageManager keep in Firebase: the "users"       *)
(* documents on the server, the writes the Firestore client has accepted   *)
(* and not yet sent, and the profile-photo uploads in flight.              *)
(*                                                                         *)
(* Firestore keeps one persistent FIFO of writes per signed-in user and    *)
(* sends only the queue of the user who is signed in now.  A write the     *)
(* server refuses for good is dropped.                                     *)
(***************************************************************************)
EXTENDS MainThread

VARIABLES
    docs,       \* server: the users document of each uid
    writes,     \* phone: accepted writes not yet acknowledged, per user
    uploads     \* uids whose profile photo is on its way to Storage

storeVars == <<docs, writes, uploads>>

(***************************************************************************)
(* A document holds profile fields (profile) and a photo reference, whose  *)
(* Storage path names the uid the photo was uploaded for (photo).          *)
(***************************************************************************)
Document == [profile : BOOLEAN, photo : Users]

Missing == [profile |-> FALSE, photo |-> NoUid]

Exists(doc) == doc # Missing

WriteOps == {"save", "photo", "delete"}

Write == [op : WriteOps, doc : Uids, photo : Users, owner : Owners]

\* createUser: setData replaces the document.
Save(u, owner) == [op |-> "save", doc |-> u, photo |-> NoUid, owner |-> owner]

\* savePhotoReferenceForUser: setData with merge.
SetPhoto(u, img) == [op |-> "photo", doc |-> u, photo |-> img, owner |-> Gone]

\* deleteAccount.
Delete(u) == [op |-> "delete", doc |-> u, photo |-> NoUid, owner |-> Gone]

Effect(doc, w) ==
    CASE w.op = "save"   -> [profile |-> TRUE, photo |-> NoUid]
      [] w.op = "photo"  -> [doc EXCEPT !.photo = w.photo]
      [] w.op = "delete" -> Missing

\* A delete behind an identical write changes nothing more.
Enqueued(queue, w) ==
    IF queue # <<>> /\ w.op = "delete" /\ queue[Len(queue)] = w
      THEN queue ELSE Append(queue, w)

WritesReowned(change) == [u \in Users |-> Reowned(writes[u], change)]

\* What getDocument sees: the server's document under the user's own writes.
ExistsFor(user, u) ==
    LET mine == {i \in DOMAIN writes[user] : writes[user][i].doc = u}
    IN  IF mine = {} THEN Exists(docs[u])
        ELSE \E i \in mine : /\ \A j \in mine : j <= i
                             /\ writes[user][i].op # "delete"

(***************************************************************************)
(* The server acknowledges, or refuses for good, the oldest write of the   *)
(* signed-in user.  Only a save has a handler that does something, and     *)
(* only when it succeeded.                                                 *)
(***************************************************************************)
\* Mutant: nobody is told that a save was acknowledged.
AcknowledgeQuietly(user) ==
    /\ writes[user] # <<>>
    /\ LET w == Head(writes[user]) IN docs' = [docs EXCEPT ![w.doc] = Effect(@, w)]
    /\ writes' = [writes EXCEPT ![user] = Tail(@)]
    /\ UNCHANGED <<uploads, mainQ>>

Acknowledge(user) ==
    /\ writes[user] # <<>>
    /\ LET w == Head(writes[user]) IN
         /\ docs' = [docs EXCEPT ![w.doc] = Effect(@, w)]
         /\ IF w.op = "save" THEN Post(Handler("saved", w.doc, w.owner))
                             ELSE UNCHANGED mainQ
    /\ writes' = [writes EXCEPT ![user] = Tail(@)]
    /\ UNCHANGED uploads

Refuse(user) ==
    /\ "write" \in Faults
    /\ writes[user] # <<>>
    /\ writes' = [writes EXCEPT ![user] = Tail(@)]
    /\ UNCHANGED <<docs, uploads, mainQ>>

(***************************************************************************)
(* StorageManager.uploadProfileImage: putData, then downloadURL, then the  *)
(* handler that saves the reference, unless one of the requests fails.     *)
(***************************************************************************)
PhotoStored(u) ==
    /\ "storageDown" \notin Faults
    /\ u \in uploads
    /\ uploads' = uploads \ {u}
    /\ Post(Handler("photo", u, Gone))
    /\ UNCHANGED <<docs, writes>>

UploadFails(u) ==
    /\ Faults \cap {"upload", "storageDown"} # {}
    /\ u \in uploads
    /\ uploads' = uploads \ {u}
    /\ UNCHANGED <<docs, writes, mainQ>>

\* Mutant: accepted writes live in memory only.
StoreRestartForgetful ==
    /\ uploads' = {}
    /\ writes' = [u \in Users |-> <<>>]
    /\ UNCHANGED docs

\* A new process: uploads are gone, accepted writes are not, but nobody waits
\* for their outcome any more.
StoreRestart ==
    /\ uploads' = {}
    /\ writes' = WritesReowned([w \in Owners |-> Gone])
    /\ UNCHANGED docs

StoreInit ==
    /\ docs = [u \in Uids |-> Missing]
    /\ writes = [u \in Users |-> <<>>]
    /\ uploads = {}

StoreType ==
    /\ docs \in [Uids -> Document]
    /\ writes \in [Users -> Seq(Write)]
    /\ uploads \subseteq Uids
================================================================================
