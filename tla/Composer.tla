------------------------------- MODULE Composer -------------------------------
(***************************************************************************)
(* The input box of the chat page. One instance serves every room a user   *)
(* opens in turn: text, reply and chosen files are reset when the room     *)
(* changes, an upload that was begun goes on, and what it resets at its    *)
(* end is whatever the box holds then. Text and files are the items that   *)
(* make them up, each typed or chosen once.                                *)
(***************************************************************************)
EXTENDS Integers

CONSTANTS
    Chat, Item,
    Post, ChatOf,   \* the user's messages, and the room of each
    None

ASSUME ComposerAssumption ==
    ChatOf \in [Post -> Chat] /\ None \notin Chat \cup Post /\ Item \cap Post = {}

VARIABLES
    box,        \* the input box, and the room that is open
    typedIn,    \* where each item was typed or chosen, None before
    uploads,    \* handleUploadAttachments under way
    requests,   \* requests on their way to the server
    posted,     \* how often an item was asked to be posted (history)
    applied,    \* the requests the server carried out (history)
    uploadsMet  \* an upload ended while another was under way (history)

bvars == <<box, typedIn, uploads, requests, posted, applied, uploadsMet>>

-----------------------------------------------------------------------------
EmptyBox(r) == [room |-> r, text |-> {}, files |-> {}, reply |-> None,
                editing |-> None, busy |-> FALSE]

ComposerInit ==
    /\ \E r \in Chat : box = EmptyBox(r)
    /\ typedIn = [i \in Item |-> None]
    /\ uploads = {} /\ requests = {} /\ applied = {}
    /\ posted = [i \in Item |-> 0] /\ uploadsMet = FALSE

\* The textarea, a mention, and the file picker, which is open at any time.
Type(i) ==
    /\ typedIn[i] = None
    /\ typedIn' = [typedIn EXCEPT ![i] = box.room]
    /\ \/ box' = [box EXCEPT !.text = @ \cup {i}]
       \/ box' = [box EXCEPT !.files = @ \cup {i}]
    /\ UNCHANGED <<uploads, requests, posted, applied, uploadsMet>>

Erase ==
    /\ box' = [box EXCEPT !.text = {}]
    /\ UNCHANGED <<typedIn, uploads, requests, posted, applied, uploadsMet>>

RemoveFile(i) ==
    /\ i \in box.files /\ ~box.busy
    /\ box' = [box EXCEPT !.files = @ \ {i}]
    /\ UNCHANGED <<typedIn, uploads, requests, posted, applied, uploadsMet>>

\* Only messages of the open room are on the page.
Reply(m) ==
    /\ m # None => ChatOf[m] = box.room
    /\ box' = [box EXCEPT !.reply = m]
    /\ UNCHANGED <<typedIn, uploads, requests, posted, applied, uploadsMet>>

EditPost(m) ==
    /\ ChatOf[m] = box.room
    /\ box' = [box EXCEPT !.editing = m, !.text = {m}]
    /\ UNCHANGED <<typedIn, uploads, requests, posted, applied, uploadsMet>>

CancelEdit ==
    /\ box.editing # None
    /\ box' = [box EXCEPT !.editing = None, !.text = {}]
    /\ UNCHANGED <<typedIn, uploads, requests, posted, applied, uploadsMet>>

\* Another room is opened: everything but the message being edited is reset.
\* Mutant: the chosen files stay.
KeepsFiles(r) == [EmptyBox(r) EXCEPT !.editing = box.editing, !.files = box.files]

ResetFor(r) == [EmptyBox(r) EXCEPT !.editing = box.editing]

Switch(r) ==
    /\ r # box.room
    /\ box' = ResetFor(r)
    /\ UNCHANGED <<typedIn, uploads, requests, posted, applied, uploadsMet>>

\* The settings of the room replace the page, which comes back as a new one;
\* uploads that were begun find no box to reset.
Remount ==
    /\ box' = EmptyBox(box.room)
    /\ uploads' = {[u EXCEPT !.here = FALSE] : u \in uploads}
    /\ UNCHANGED <<typedIn, requests, posted, applied, uploadsMet>>

-----------------------------------------------------------------------------
Create(r, text, files, reply) ==
    [what |-> "create", room |-> r, text |-> text, files |-> files, about |-> reply]

Posting(q) ==
    /\ requests' = requests \cup {q}
    /\ posted' = [i \in Item |->
                    posted[i] + IF i \in q.text \cup q.files THEN 1 ELSE 0]

\* handleSend. While an edit is under way it is the edit that is sent, to the
\* room that is open, and nothing else is.
SendEdit ==
    /\ ~box.busy /\ box.text \cup box.files # {} /\ box.editing # None
    /\ requests' = requests \cup
         {[what |-> "edit", room |-> box.room, text |-> box.text, files |-> {},
           about |-> box.editing]}
    /\ box' = [box EXCEPT !.editing = None, !.text = {}]
    /\ UNCHANGED <<typedIn, uploads, posted, applied, uploadsMet>>

SendText ==
    /\ ~box.busy /\ box.editing = None /\ box.text # {} /\ box.files = {}
    /\ Posting(Create(box.room, box.text, {}, box.reply))
    /\ box' = [box EXCEPT !.text = {}, !.reply = None]
    /\ UNCHANGED <<typedIn, uploads, applied, uploadsMet>>

SendFiles ==
    /\ ~box.busy /\ box.editing = None /\ box.files # {}
    /\ box' = [box EXCEPT !.busy = TRUE]
    /\ uploads' = uploads \cup
         {[message |-> Create(box.room, box.text, box.files, box.reply), here |-> TRUE]}
    /\ UNCHANGED <<typedIn, requests, posted, applied, uploadsMet>>

UploadEnds(u) ==
    /\ uploads' = uploads \ {u}
    /\ uploadsMet' = (uploadsMet \/ (u.here /\ uploads # {u}))

\* The files are there: the message goes where it was meant for, and the box
\* of that page is emptied, whichever room it shows by now.
Uploaded(u) ==
    /\ Posting(u.message)
    /\ box' = IF u.here THEN [box EXCEPT !.files = {}, !.text = {}, !.reply = None,
                                         !.busy = FALSE]
              ELSE box
    /\ UploadEnds(u)
    /\ UNCHANGED <<typedIn, applied>>

UploadFailed(u) ==
    /\ UploadEnds(u)
    /\ box' = [box EXCEPT !.busy = IF u.here THEN FALSE ELSE @]
    /\ UNCHANGED <<typedIn, requests, posted, applied>>

\* The server: an edit and a reply are about a message of the room they name.
Acceptable(q) ==
    /\ q.about # None => ChatOf[q.about] = q.room
    /\ q.what = "edit" => q.text # {}

ServePost(q) ==
    /\ requests' = requests \ {q}
    /\ applied' = IF Acceptable(q) THEN applied \cup {q} ELSE applied
    /\ UNCHANGED <<box, typedIn, uploads, posted, uploadsMet>>

\* The request is lost, or refused for another reason; the text is gone.
FailPost(q) ==
    /\ requests' = requests \ {q}
    /\ UNCHANGED <<box, typedIn, uploads, posted, applied, uploadsMet>>

ComposerNext ==
    \/ \E i \in Item : Type(i) \/ RemoveFile(i)
    \/ \E m \in Post \cup {None} : Reply(m)
    \/ \E m \in Post : EditPost(m)
    \/ \E r \in Chat : Switch(r)
    \/ Erase \/ CancelEdit \/ Remount \/ SendEdit \/ SendText \/ SendFiles
    \/ \E u \in uploads : Uploaded(u) \/ UploadFailed(u)
    \/ \E q \in requests : ServePost(q) \/ FailPost(q)

ComposerSpec == ComposerInit /\ [][ComposerNext]_bvars

-----------------------------------------------------------------------------
PostRequest == [what : {"create", "edit"}, room : Chat, text : SUBSET (Item \cup Post),
            files : SUBSET Item, about : Post \cup {None}]

\* Every variable has its type.
ComposerTypeOK ==
    /\ box \in [room : Chat, text : SUBSET (Item \cup Post), files : SUBSET Item,
                reply : Post \cup {None}, editing : Post \cup {None}, busy : BOOLEAN]
    /\ typedIn \in [Item -> Chat \cup {None}]
    /\ uploads \subseteq [message : PostRequest, here : BOOLEAN]
    /\ requests \subseteq PostRequest /\ applied \subseteq PostRequest
    /\ posted \in [Item -> Nat] /\ uploadsMet \in BOOLEAN

\* What is carried out in a room was typed, chosen or shown in that room,
\* whatever is uploaded, edited or refused while the user moves from room to
\* room. Nothing is posted twice either, as long as no upload ends while another
\* is under way: it would let the box of the other be sent again.
SentOnceWhereTyped ==
    /\ \A q \in applied :
         /\ \A i \in (q.text \cup q.files) \cap Item : typedIn[i] = q.room
         /\ \A m \in (q.text \cup {q.about}) \cap Post : ChatOf[m] = q.room
    /\ ~uploadsMet => \A i \in Item : posted[i] <= 1
=============================================================================
