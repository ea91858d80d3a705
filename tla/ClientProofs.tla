----------------------------- MODULE ClientProofs -----------------------------
(* What holds in a tab whatever the number of rooms, messages, contacts and   *)
(* folders: the input box, the emergency contacts, the folder lists, the      *)
(* stored user and the friends panel, each with the inductive invariant its   *)
(* theorem needs.                                                             *)
EXTENDS Composer, EmergencyContacts, Folders, LocalUser, SocialData, TLAPS

-----------------------------------------------------------------------------
(* The input box. What it holds belongs to the open room (Belongs), and so *)
(* does what was sent from it. While no two uploads meet, an item that was *)
(* posted is nowhere else, one in two places is in the upload that keeps   *)
(* the box busy, and no two uploads have the same (Once).                  *)

Items(q) == (q.text \cup q.files) \cap Item

Belongs(q) ==
    /\ \A i \in Items(q) : typedIn[i] = q.room
    /\ \A m \in q.text \cap Post : ChatOf[m] = q.room

Places ==
    /\ Belongs(box) /\ (box.reply # None => ChatOf[box.reply] = box.room)
    /\ \A u \in uploads :
         /\ Belongs(u.message)
         /\ u.message.about # None => ChatOf[u.message.about] = u.message.room
    /\ \A q \in requests : Belongs(q)
    /\ \A q \in applied : Belongs(q) /\ (q.about # None => ChatOf[q.about] = q.room)

Once ==
    /\ \A i \in Item : /\ posted[i] <= 1
                       /\ posted[i] > 0 => typedIn[i] # None
    /\ \A i \in Items(box) : posted[i] = 0
    /\ \A u \in uploads : \A i \in Items(u.message) :
         /\ posted[i] = 0
         /\ i \in Items(box) => box.busy = TRUE /\ u.here = TRUE
    /\ \A u, w \in uploads : u # w => Items(u.message) \cap Items(w.message) = {}

BoxShape == [room : Chat, text : SUBSET (Item \cup Post), files : SUBSET Item,
             reply : Post \cup {None}, editing : Post \cup {None}, busy : BOOLEAN]
UploadShape == [message : PostRequest, here : BOOLEAN]

Papers ==
    /\ box \in BoxShape
    /\ typedIn \in [Item -> Chat \cup {None}]
    /\ uploads \subseteq UploadShape
    /\ requests \subseteq PostRequest /\ applied \subseteq PostRequest
    /\ posted \in [Item -> Nat] /\ uploadsMet \in BOOLEAN

ComposerInv == Papers /\ Places /\ (~ uploadsMet => Once)

LEMMA InitComposer == ComposerInit => ComposerInv
<1> SUFFICES ASSUME ComposerInit PROVE ComposerInv
  OBVIOUS
<1>1. PICK r \in Chat : box = EmptyBox(r)
  BY DEF ComposerInit
<1>2. /\ box \in BoxShape /\ box.text = {} /\ box.files = {} /\ box.reply = None
  BY <1>1 DEF EmptyBox, BoxShape
<1>3. Papers
  BY <1>2 DEF ComposerInit, Papers
<1>4. Places /\ Once
  BY <1>2, ComposerAssumption DEF ComposerInit, Places, Belongs, Items, Once
<1> QED
  BY <1>3, <1>4 DEF ComposerInv

\* The box alone changes, and holds less.
LEMMA BoxShrinks ==
    ASSUME ComposerInv, box' \in BoxShape,
           UNCHANGED <<typedIn, uploads, requests, posted, applied, uploadsMet>>,
           Items(box)' \subseteq Items(box),
           Items(box)' = {} \/ (box'.room = box.room /\ box'.busy = box.busy),
           \A m \in box'.text \cap Post : ChatOf[m] = box'.room,
           box'.reply # None => ChatOf[box'.reply] = box'.room
    PROVE  ComposerInv'
<1>1. Papers'
  BY DEF ComposerInv, Papers
<1>2. Places'
  <2>1. Belongs(box)'
    BY DEF ComposerInv, Places, Belongs, Items
  <2> QED
    BY <2>1 DEF ComposerInv, Places, Belongs, Items
<1>3. ASSUME ~ uploadsMet' PROVE Once'
  BY <1>3 DEF ComposerInv, Once, Items
<1> QED
  BY <1>1, <1>2, <1>3 DEF ComposerInv

LEMMA BoxSteps ==
    ASSUME ComposerInv,
           \/ \E i \in Item : RemoveFile(i)
           \/ \E m \in Post \cup {None} : Reply(m)
           \/ \E m \in Post : EditPost(m)
           \/ \E r \in Chat : Switch(r)
           \/ Erase \/ CancelEdit
    PROVE  ComposerInv'
<1>1. /\ box \in BoxShape
      /\ UNCHANGED <<typedIn, uploads, requests, posted, applied, uploadsMet>>
      /\ \A m \in box.text \cap Post : ChatOf[m] = box.room
      /\ box.reply # None => ChatOf[box.reply] = box.room
  BY DEF RemoveFile, Reply, EditPost, Switch, Erase, CancelEdit, ComposerInv, Papers,
         Places, Belongs
<1>2. ASSUME NEW i \in Item, RemoveFile(i) PROVE ComposerInv'
  <2>1. box' = [box EXCEPT !.files = @ \ {i}]
    BY <1>2 DEF RemoveFile
  <2> QED
    BY <1>1, <2>1, BoxShrinks DEF BoxShape, Items
<1>3. ASSUME NEW m \in Post \cup {None}, Reply(m) PROVE ComposerInv'
  <2>1. box' = [box EXCEPT !.reply = m] /\ (m # None => ChatOf[m] = box.room)
    BY <1>3 DEF Reply
  <2> QED
    BY <1>1, <2>1, BoxShrinks DEF BoxShape, Items
<1>4. ASSUME NEW m \in Post, EditPost(m) PROVE ComposerInv'
  <2>1. box' = [box EXCEPT !.editing = m, !.text = {m}] /\ ChatOf[m] = box.room
    BY <1>4 DEF EditPost
  <2> QED
    BY <1>1, <2>1, BoxShrinks, ComposerAssumption DEF BoxShape, Items
<1>5. ASSUME NEW r \in Chat, Switch(r) PROVE ComposerInv'
  <2>1. box' = [EmptyBox(r) EXCEPT !.editing = box.editing]
    BY <1>5 DEF Switch, ResetFor
  <2>2. box' \in BoxShape /\ box'.text = {} /\ box'.files = {} /\ box'.reply = None
    BY <1>1, <2>1 DEF BoxShape, EmptyBox
  <2> QED
    BY <1>1, <2>2, BoxShrinks DEF Items
<1>6. CASE Erase
  <2>1. box' = [box EXCEPT !.text = {}]
    BY <1>6 DEF Erase
  <2> QED
    BY <1>1, <2>1, BoxShrinks DEF BoxShape, Items
<1>7. CASE CancelEdit
  <2>1. box' = [box EXCEPT !.editing = None, !.text = {}]
    BY <1>7 DEF CancelEdit
  <2> QED
    BY <1>1, <2>1, BoxShrinks DEF BoxShape, Items
<1> QED
  BY <1>2, <1>3, <1>4, <1>5, <1>6, <1>7

\* An item that was nowhere is in the box.
LEMMA TypeStep ==
    ASSUME ComposerInv, NEW i \in Item, Type(i)
    PROVE  ComposerInv'
<1>1. /\ typedIn[i] = None /\ typedIn' = [typedIn EXCEPT ![i] = box.room]
      /\ UNCHANGED <<uploads, requests, posted, applied, uploadsMet>>
      /\ box' \in BoxShape
      /\ Items(box)' = Items(box) \cup {i}
      /\ box'.room = box.room /\ box'.busy = box.busy /\ box'.reply = box.reply
      /\ box'.text \cap Post = box.text \cap Post
  <2>1. \/ box' = [box EXCEPT !.text = @ \cup {i}]
        \/ box' = [box EXCEPT !.files = @ \cup {i}]
    BY DEF Type
  <2> QED
    BY <2>1, ComposerAssumption DEF Type, ComposerInv, Papers, BoxShape, Items
<1>2. Papers'
  BY <1>1 DEF ComposerInv, Papers, BoxShape
<1>3. ASSUME NEW q \in PostRequest, Belongs(q)
      PROVE  Belongs(q)' /\ i \notin Items(q)
  BY <1>1, <1>3, ComposerAssumption DEF Belongs, Items, ComposerInv, Papers, PostRequest
<1>4. Belongs(box)'
  BY <1>1, ComposerAssumption DEF Belongs, ComposerInv, Papers, Places, BoxShape
<1>5. Places'
  BY <1>1, <1>3, <1>4 DEF ComposerInv, Places, Papers, UploadShape
<1>6. ASSUME ~ uploadsMet' PROVE Once'
  <2>1. \A u \in uploads : i \notin Items(u.message)
    BY <1>3 DEF ComposerInv, Places, Papers, UploadShape
  <2>2. posted[i] = 0
    BY <1>1, <1>6 DEF ComposerInv, Once, Papers
  <2>3. \A j \in Item : typedIn[j] # None => typedIn'[j] # None
    BY <1>1, ComposerAssumption DEF ComposerInv, Papers, BoxShape
  <2> QED
    BY <1>1, <1>6, <2>1, <2>2, <2>3 DEF ComposerInv, Once, Items
<1> QED
  BY <1>2, <1>5, <1>6 DEF ComposerInv
\* The uploads go on without a box to reset.
LEMMA RemountStep ==
    ASSUME ComposerInv, Remount
    PROVE  ComposerInv'
<1>1. /\ uploads' = {[u EXCEPT !.here = FALSE] : u \in uploads}
      /\ UNCHANGED <<typedIn, requests, posted, applied, uploadsMet>>
      /\ box' = EmptyBox(box.room)
  BY DEF Remount
<1>2. /\ box' \in BoxShape /\ Items(box)' = {} /\ box'.text = {} /\ box'.reply = None
  BY <1>1 DEF EmptyBox, BoxShape, Items, ComposerInv, Papers
<1>3. \A w \in uploads' : \E u \in uploads :
         w = [u EXCEPT !.here = FALSE] /\ w.message = u.message /\ w \in UploadShape
  BY <1>1 DEF ComposerInv, Papers, UploadShape
<1>4. Papers'
  BY <1>1, <1>2, <1>3 DEF ComposerInv, Papers
<1>5. Places'
  BY <1>1, <1>2, <1>3 DEF ComposerInv, Places, Belongs, Items
<1>6. ASSUME ~ uploadsMet' PROVE Once'
  <2>1. Once
    BY <1>1, <1>6 DEF ComposerInv
  <2>2. \A w \in uploads' : \A i \in Items(w.message) : posted[i] = 0
    BY <1>3, <2>1 DEF Once
  <2>3. \A v, w \in uploads' : v # w => Items(v.message) \cap Items(w.message) = {}
    BY <1>3, <2>1 DEF Once
  <2> QED
    BY <1>1, <1>2, <2>1, <2>2, <2>3 DEF Once
<1> QED
  BY <1>4, <1>5, <1>6 DEF ComposerInv

LEMMA SendEditStep ==
    ASSUME ComposerInv, SendEdit
    PROVE  ComposerInv'
<1> DEFINE r == [what |-> "edit", room |-> box.room, text |-> box.text, files |-> {},
                 about |-> box.editing]
<1> PICK q : q = r
  OBVIOUS
<1>1. /\ requests' = requests \cup {q}
      /\ box' = [box EXCEPT !.editing = None, !.text = {}]
      /\ UNCHANGED <<typedIn, uploads, posted, applied, uploadsMet>>
  BY DEF SendEdit
<1>2. /\ q \in PostRequest /\ q.room = box.room /\ q.text = box.text /\ q.files = {}
  BY DEF ComposerInv, Papers, BoxShape, PostRequest
<1>3. /\ box' \in BoxShape /\ box'.room = box.room /\ box'.busy = box.busy
      /\ box'.text = {} /\ box'.reply = box.reply /\ Items(box)' \subseteq Items(box)
  BY <1>1 DEF ComposerInv, Papers, BoxShape, Items
<1> HIDE DEF r
<1>4. Papers'
  BY <1>1, <1>2, <1>3 DEF ComposerInv, Papers
<1>5. Belongs(q)' /\ Belongs(box)'
  BY <1>1, <1>2, <1>3 DEF ComposerInv, Places, Belongs, Items
<1>6. Places'
  BY <1>1, <1>3, <1>5 DEF ComposerInv, Places, Belongs, Items
<1>7. ASSUME ~ uploadsMet' PROVE Once'
  BY <1>1, <1>3, <1>7 DEF ComposerInv, Once, Items
<1> QED
  BY <1>4, <1>6, <1>7 DEF ComposerInv

\* What a message made of the box is.
LEMMA Created ==
    ASSUME ComposerInv, NEW files \in {{}, box.files}, NEW q,
           q = Create(box.room, box.text, files, box.reply)
    PROVE  /\ q \in PostRequest /\ Belongs(q) /\ Items(q) \subseteq Items(box)
           /\ q.about # None => ChatOf[q.about] = q.room
  BY DEF Create, ComposerInv, Papers, BoxShape, PostRequest, Places, Belongs, Items

LEMMA SendTextStep ==
    ASSUME ComposerInv, SendText
    PROVE  ComposerInv'
<1> PICK q : q = Create(box.room, box.text, {}, box.reply)
  OBVIOUS
<1>1. /\ requests' = requests \cup {q} /\ box.busy # TRUE
      /\ posted' = [i \in Item |-> posted[i] + IF i \in Items(q) THEN 1 ELSE 0]
      /\ box' = [box EXCEPT !.text = {}, !.reply = None] /\ box.files = {}
      /\ UNCHANGED <<typedIn, uploads, applied, uploadsMet>>
  BY DEF SendText, Posting, Items
<1>2. /\ q \in PostRequest /\ Belongs(q) /\ Items(q) \subseteq Items(box)
  BY Created
<1>3. /\ box' \in BoxShape /\ Items(box)' = {} /\ box'.text = {} /\ box'.reply = None
  BY <1>1 DEF ComposerInv, Papers, BoxShape, Items
<1>4. Papers'
  BY <1>1, <1>2, <1>3 DEF ComposerInv, Papers
<1>5. Places'
  BY <1>1, <1>2, <1>3 DEF ComposerInv, Places, Belongs, Items
<1>6. ASSUME ~ uploadsMet' PROVE Once'
  <2>1. Once /\ posted \in [Item -> Nat]
    BY <1>1, <1>6 DEF ComposerInv, Papers
  <2>2. \A i \in Items(q) : /\ posted[i] = 0 /\ typedIn[i] # None
                            /\ \A u \in uploads : i \notin Items(u.message)
    <3>1. box.room # None
      BY ComposerAssumption DEF ComposerInv, Papers, BoxShape
    <3> QED
      BY <1>1, <1>2, <2>1, <3>1 DEF Once, ComposerInv, Places, Belongs
  <2>3. \A i \in Item : /\ i \in Items(q) => posted'[i] = 1
                        /\ i \notin Items(q) => posted'[i] = posted[i]
    BY <1>1, <2>1, <2>2
  <2>4. Items(q) \subseteq Item
    BY DEF Items
  <2>5. \A i \in Item : posted'[i] <= 1 /\ (posted'[i] > 0 => typedIn[i] # None)
    BY <2>1, <2>2, <2>3 DEF Once
  <2>6. \A u \in uploads : \A i \in Items(u.message) : posted'[i] = 0
    BY <2>1, <2>2, <2>3 DEF Once, Items
  <2> QED
    BY <1>1, <1>3, <2>1, <2>5, <2>6 DEF Once, Items
<1> QED
  BY <1>4, <1>5, <1>6 DEF ComposerInv

LEMMA SendFilesStep ==
    ASSUME ComposerInv, SendFiles
    PROVE  ComposerInv'
<1> PICK q : q = Create(box.room, box.text, box.files, box.reply)
  OBVIOUS
<1> PICK n : n = [message |-> q, here |-> TRUE]
  OBVIOUS
<1>1. /\ uploads' = uploads \cup {n} /\ box.busy # TRUE
      /\ box' = [box EXCEPT !.busy = TRUE]
      /\ UNCHANGED <<typedIn, requests, posted, applied, uploadsMet>>
  BY DEF SendFiles
<1>2. /\ q \in PostRequest /\ Belongs(q) /\ Items(q) \subseteq Items(box)
      /\ q.about # None => ChatOf[q.about] = q.room
  BY Created
<1>3. n \in UploadShape /\ n.message = q /\ n.here = TRUE
  BY <1>2 DEF UploadShape
<1>4. /\ box' \in BoxShape /\ Items(box)' = Items(box) /\ box'.text = box.text
      /\ box'.reply = box.reply /\ box'.room = box.room /\ box'.busy = TRUE
      /\ box'.files = box.files
  BY <1>1 DEF ComposerInv, Papers, BoxShape, Items
<1>5. Papers'
  BY <1>1, <1>3, <1>4 DEF ComposerInv, Papers
<1>6. Places'
  BY <1>1, <1>2, <1>3, <1>4 DEF ComposerInv, Places, Belongs, Items
<1>7. ASSUME ~ uploadsMet' PROVE Once'
  <2>1. Once
    BY <1>1, <1>7 DEF ComposerInv
  <2>2. \A u \in uploads : Items(u.message) \cap Items(q) = {}
    BY <1>1, <1>2, <2>1 DEF Once
  <2>3. \A i \in Items(q) : posted[i] = 0
    BY <1>2, <2>1 DEF Once
  <2>4. \A u \in uploads' : \A i \in Items(u.message) : posted[i] = 0
    BY <1>1, <1>3, <2>1, <2>3 DEF Once
  <2>5. \A u \in uploads' : \A i \in Items(u.message) \cap Items(box) : u.here = TRUE
    BY <1>1, <1>3, <2>1 DEF Once
  <2>6. \A u, w \in uploads' : u # w => Items(u.message) \cap Items(w.message) = {}
    BY <1>1, <1>3, <2>1, <2>2 DEF Once
  <2>7. \A i \in Items(box)' : posted[i] = 0
    BY <1>4, <2>1 DEF Once
  <2> QED
    BY <1>1, <1>4, <2>1, <2>4, <2>5, <2>6, <2>7 DEF Once
<1> QED
  BY <1>5, <1>6, <1>7 DEF ComposerInv

LEMMA UploadFailedStep ==
    ASSUME ComposerInv, NEW u \in uploads, UploadFailed(u)
    PROVE  ComposerInv'
<1>1. /\ uploads' = uploads \ {u}
      /\ uploadsMet' = (uploadsMet \/ (u.here /\ uploads # {u}))
      /\ box' = [box EXCEPT !.busy = IF u.here THEN FALSE ELSE @]
      /\ UNCHANGED <<typedIn, requests, posted, applied>>
  BY DEF UploadFailed, UploadEnds
<1>2. u \in UploadShape /\ u.here \in BOOLEAN
  BY DEF ComposerInv, Papers, UploadShape
<1>3. /\ box' \in BoxShape /\ Items(box)' = Items(box) /\ box'.text = box.text
      /\ box'.reply = box.reply /\ box'.room = box.room /\ box'.files = box.files
      /\ u.here = FALSE => box'.busy = box.busy
  BY <1>1, <1>2 DEF ComposerInv, Papers, BoxShape, Items
<1>4. Papers'
  BY <1>1, <1>2, <1>3 DEF ComposerInv, Papers
<1>5. Places'
  BY <1>1, <1>3 DEF ComposerInv, Places, Belongs, Items
<1>6. ASSUME ~ uploadsMet' PROVE Once'
  <2>1. Once
    BY <1>1, <1>6 DEF ComposerInv
  <2>2. u.here = FALSE \/ uploads' = {}
    BY <1>1, <1>2, <1>6
  <2> QED
    BY <1>1, <1>3, <2>1, <2>2 DEF Once, Items
<1> QED
  BY <1>4, <1>5, <1>6 DEF ComposerInv

LEMMA UploadedStep ==
    ASSUME ComposerInv, NEW u \in uploads, Uploaded(u)
    PROVE  ComposerInv'
<1> PICK q : q = u.message
  OBVIOUS
<1>1. /\ uploads' = uploads \ {u} /\ requests' = requests \cup {q}
      /\ uploadsMet' = (uploadsMet \/ (u.here /\ uploads # {u}))
      /\ posted' = [i \in Item |-> posted[i] + IF i \in Items(q) THEN 1 ELSE 0]
      /\ box' = IF u.here THEN [box EXCEPT !.files = {}, !.text = {}, !.reply = None,
                                           !.busy = FALSE]
                ELSE box
      /\ UNCHANGED <<typedIn, applied>>
  BY DEF Uploaded, UploadEnds, Posting, Items
<1>2. u \in UploadShape /\ u.here \in BOOLEAN /\ q \in PostRequest /\ Belongs(q)
  BY DEF ComposerInv, Papers, UploadShape, Places
<1>3. /\ box' \in BoxShape /\ Items(box)' \subseteq Items(box)
      /\ u.here = TRUE => box'.text = {} /\ box'.files = {} /\ box'.reply = None
      /\ u.here = FALSE => box' = box
  BY <1>1, <1>2 DEF ComposerInv, Papers, BoxShape, Items
<1>4. Papers'
  BY <1>1, <1>2, <1>3 DEF ComposerInv, Papers
<1>5. Places'
  <2>1. Belongs(box)' /\ (box'.reply # None => ChatOf[box'.reply] = box'.room)
    BY <1>1, <1>2, <1>3 DEF ComposerInv, Places, Belongs, Items
  <2> QED
    BY <1>1, <1>2, <2>1 DEF ComposerInv, Places, Belongs, Items
<1>6. ASSUME ~ uploadsMet' PROVE Once'
  <2>1. Once /\ posted \in [Item -> Nat]
    BY <1>1, <1>6 DEF ComposerInv, Papers
  <2>2. u.here = FALSE \/ uploads' = {}
    BY <1>1, <1>2, <1>6
  <2>3. \A i \in Items(q) : posted[i] = 0 /\ typedIn[i] # None
    <3>1. q.room # None
      BY <1>2, ComposerAssumption DEF PostRequest
    <3> QED
      BY <1>2, <2>1, <3>1 DEF Once, Belongs
  <2>4. \A i \in Item : /\ i \in Items(q) => posted'[i] = 1
                        /\ i \notin Items(q) => posted'[i] = posted[i]
    BY <1>1, <2>1, <2>3
  <2>5. \A i \in Item : posted'[i] <= 1 /\ (posted'[i] > 0 => typedIn[i] # None)
    BY <2>1, <2>3, <2>4 DEF Once
  <2>6. \A i \in Items(box)' : i \in Items(box) /\ i \notin Items(q) /\ posted'[i] = 0
    <3>1. CASE u.here = TRUE
      BY <1>3, <3>1 DEF Items
    <3>2. CASE u.here = FALSE
      BY <1>3, <2>1, <2>4, <3>2 DEF Once, Items
    <3> QED
      BY <1>2, <3>1, <3>2
  <2>7. \A w \in uploads' : \A i \in Items(w.message) : i \notin Items(q) /\ posted'[i] = 0
    BY <1>1, <2>1, <2>4 DEF Once, Items
  <2>8. uploads' # {} => box' = box
    BY <1>3, <2>2
  <2> QED
    BY <1>1, <2>1, <2>5, <2>6, <2>7, <2>8 DEF Once, Items
<1> QED
  BY <1>4, <1>5, <1>6 DEF ComposerInv

LEMMA RequestSteps ==
    ASSUME ComposerInv, NEW q \in requests, ServePost(q) \/ FailPost(q)
    PROVE  ComposerInv'
<1>1. /\ requests' \subseteq requests
      /\ applied' = applied \/ (applied' = applied \cup {q} /\ Acceptable(q))
      /\ UNCHANGED <<box, typedIn, uploads, posted, uploadsMet>>
  BY DEF ServePost, FailPost
<1>2. Papers'
  BY <1>1 DEF ComposerInv, Papers
<1>3. Places'
  BY <1>1 DEF ComposerInv, Places, Belongs, Items, Acceptable
<1>4. ASSUME ~ uploadsMet' PROVE Once'
  BY <1>1, <1>4 DEF ComposerInv, Once, Items
<1> QED
  BY <1>2, <1>3, <1>4 DEF ComposerInv

LEMMA NextComposer == ComposerInv /\ [ComposerNext]_bvars => ComposerInv'
<1>1. ASSUME ComposerInv, UNCHANGED bvars PROVE ComposerInv'
  BY <1>1 DEF bvars, ComposerInv, Papers, Places, Belongs, Items, Once
<1> QED
  BY <1>1, BoxSteps, TypeStep, RemountStep, SendEditStep, SendTextStep, SendFilesStep,
     UploadFailedStep, UploadedStep, RequestSteps DEF ComposerNext

\* The one input box of Chatroom.tsx, in whatever order rooms are opened, files
\* uploaded and requests served or lost: what is posted in a room is from that
\* room, and from there once, unless an upload ends beside another.
THEOREM PostsStayInTheirRoom == ComposerSpec => []SentOnceWhereTyped
<1>1. ComposerInv => SentOnceWhereTyped
  <2> SUFFICES ASSUME ComposerInv PROVE SentOnceWhereTyped
    OBVIOUS
  <2>1. \A q \in applied : /\ \A i \in (q.text \cup q.files) \cap Item : typedIn[i] = q.room
                           /\ \A m \in (q.text \cup {q.about}) \cap Post : ChatOf[m] = q.room
    BY ComposerAssumption DEF ComposerInv, Places, Belongs, Items
  <2> QED
    BY <2>1 DEF SentOnceWhereTyped, ComposerInv, Once
<1> QED
  BY <1>1, InitComposer, NextComposer, PTL DEF ComposerSpec

-----------------------------------------------------------------------------
(* Emergency contacts. A contact that a block transaction has not found to *)
(* delete cannot be written while it runs (Watched).                       *)

RequestShape == [step : {"idle", "looking", "writing", "lookingAgain", "undoing",
                         "deleting"},
                 contact : Contact \cup {RequestAtRest.contact}]

SaveShape == [step : {"no", "settings", "contacts", "refreshing"},
              contacts : SUBSET Contact, removed : SUBSET Contact, open : SUBSET Saver]

Forms ==
    /\ request \in [Saver -> RequestShape]
    /\ \A s \in Saver : request[s].step # "idle" => request[s].contact \in Contact
    /\ contacts \subseteq Contact /\ entered \subseteq Contact /\ known \subseteq Contact
    /\ save \in SaveShape

Watched == blocking \cap contacts \subseteq deleted

Remembered(c) ==
    \/ c \in orphaned
    \/ \E s \in Saver : /\ request[s].contact = c
                        /\ request[s].step \in {"lookingAgain", "undoing"}

ContactInv == Forms /\ Watched /\ NoBlockedContact

LEMMA AtRestShapes ==
    RequestAtRest \in RequestShape /\ RequestAtRest.step = "idle" /\ NoSave \in SaveShape
<1>1. RequestAtRest.step = "idle"
  BY DEF RequestAtRest
<1>2. ASSUME NEW c, NEW r, r = [step |-> "idle", contact |-> c],
             NEW C, r.contact \in C
      PROVE  r \in [step : {"idle", "looking", "writing", "lookingAgain", "undoing",
                           "deleting"}, contact : C]
  BY <1>2
<1>3. RequestAtRest \in RequestShape
  BY <1>2 DEF RequestShape, RequestAtRest
<1> QED
  BY <1>1, <1>3 DEF NoSave, SaveShape

LEMMA InitContacts == ContactsInit => ContactInv
<1> SUFFICES ASSUME ContactsInit PROVE ContactInv
  OBVIOUS
<1>1. /\ request = [s \in Saver |-> RequestAtRest] /\ save = NoSave
      /\ contacts = {} /\ entered = {} /\ known = {}
  BY DEF ContactsInit
<1>2. Forms
  BY <1>1, AtRestShapes DEF Forms
<1> QED
  BY <1>1, <1>2 DEF ContactInv, Watched, NoBlockedContact

\* The handlers are as they were, and so is what they write.
LEMMA FormSteps ==
    ASSUME ContactInv,
           (\E c \in Contact : EditForm(c)) \/ RefreshForm \/ Submit \/ SettingsFail
    PROVE  ContactInv'
<1>1. UNCHANGED <<contacts, blocked, blocking, deleted, request, orphaned>>
  BY DEF EditForm, RefreshForm, Submit, SettingsFail
<1>2. Forms'
  <2>1. contacts' \subseteq Contact /\ entered' \subseteq Contact /\ known' \subseteq Contact
    BY DEF ContactInv, Forms, EditForm, RefreshForm, Submit, SettingsFail
  <2>2. save' \in SaveShape
    BY AtRestShapes DEF ContactInv, Forms, EditForm, RefreshForm, Submit, SettingsFail,
       SaveShape, NoSave
  <2> QED
    BY <1>1, <2>1, <2>2 DEF ContactInv, Forms
<1> QED
  BY <1>1, <1>2 DEF ContactInv, Watched, NoBlockedContact

\* Only handlers at rest are given a contact to save.
LEMMA SaveContactsStep ==
    ASSUME ContactInv, SaveContacts
    PROVE  ContactInv'
<1> DEFINE all == save.contacts \cup save.removed
<1> PICK open \in SUBSET {s \in Saver : request[s].step = "idle"} :
      \E for \in [open -> all] :
        /\ request' = [s \in Saver |->
                IF s \in open
                THEN [step |-> IF for[s] \in save.contacts THEN "looking" ELSE "deleting",
                      contact |-> for[s]]
                ELSE request[s]]
        /\ save' = IF open = {} THEN [save EXCEPT !.step = "refreshing"]
                   ELSE [save EXCEPT !.step = "contacts", !.open = open]
  BY DEF SaveContacts
<1>1. PICK for \in [open -> all] :
        /\ request' = [s \in Saver |->
                IF s \in open
                THEN [step |-> IF for[s] \in save.contacts THEN "looking" ELSE "deleting",
                      contact |-> for[s]]
                ELSE request[s]]
        /\ save' = IF open = {} THEN [save EXCEPT !.step = "refreshing"]
                   ELSE [save EXCEPT !.step = "contacts", !.open = open]
  OBVIOUS
<1>2. UNCHANGED <<contacts, blocked, blocking, deleted, orphaned, entered, known>>
  BY DEF SaveContacts
<1>3. ASSUME NEW s \in Saver
      PROVE  /\ request'[s] \in RequestShape
             /\ request'[s].step # "idle" => request'[s].contact \in Contact
             /\ request[s].step # "idle" => request'[s] = request[s]
  <2>1. s \in open => for[s] \in Contact
    BY DEF ContactInv, Forms, SaveShape
  <2> QED
    BY <1>1, <2>1 DEF ContactInv, Forms, RequestShape
<1>4. save' \in SaveShape
  BY <1>1 DEF ContactInv, Forms, SaveShape
<1>5. Forms'
  BY <1>1, <1>2, <1>3, <1>4 DEF ContactInv, Forms
<1> QED
  BY <1>2, <1>3, <1>5 DEF ContactInv, Watched, NoBlockedContact

\* What a handler's step leaves of the others and of the save.
LEMMA RequestMoves ==
    ASSUME ContactInv, NEW s \in Saver, request[s].step # "idle",
           (\E failed \in BOOLEAN : RequestEnds(s, failed))
             \/ (\E step \in {"writing", "lookingAgain", "undoing"} : Goes(s, step)),
           contacts' \subseteq Contact, UNCHANGED <<entered, known>>
    PROVE  /\ Forms'
           /\ \A j \in Saver \ {s} : request'[j] = request[j]
<1>2. /\ request' \in [Saver -> RequestShape]
      /\ \A j \in Saver \ {s} : request'[j] = request[j]
      /\ request'[s].step # "idle" => request'[s].contact \in Contact
  <2>1. CASE \E failed \in BOOLEAN : RequestEnds(s, failed)
    <3>1. request' = [request EXCEPT ![s] = RequestAtRest]
      BY <2>1 DEF RequestEnds
    <3> QED
      BY <3>1, AtRestShapes DEF ContactInv, Forms
  <2>2. ASSUME NEW step \in {"writing", "lookingAgain", "undoing"}, Goes(s, step)
        PROVE  /\ request' \in [Saver -> RequestShape]
               /\ \A j \in Saver \ {s} : request'[j] = request[j]
               /\ request'[s].step # "idle" => request'[s].contact \in Contact
    BY <2>2 DEF ContactInv, Forms, Goes, RequestShape
  <2> QED
    BY <2>1, <2>2
<1>3. save' \in SaveShape
  <2>1. save \in SaveShape
    BY DEF ContactInv, Forms
  <2>2. [save EXCEPT !.open = @ \ {s},
                     !.step = IF save.open = {s} THEN "refreshing" ELSE @] \in SaveShape
    BY <2>1 DEF SaveShape
  <2>3. ASSUME NEW failed \in BOOLEAN, RequestEnds(s, failed)
        PROVE  save' \in SaveShape
    <3>1. CASE s \notin save.open
      BY <2>1, <2>3, <3>1 DEF RequestEnds
    <3>2. CASE s \in save.open /\ failed
      BY <2>3, <3>2, AtRestShapes DEF RequestEnds
    <3>3. CASE s \in save.open /\ ~failed
      BY <2>2, <2>3, <3>3 DEF RequestEnds
    <3> QED
      BY <3>1, <3>2, <3>3
  <2>4. ASSUME NEW step \in {"writing", "lookingAgain", "undoing"}, Goes(s, step)
        PROVE  save' \in SaveShape
    BY <2>1, <2>4 DEF Goes
  <2> QED
    BY <2>3, <2>4
<1> QED
  BY <1>2, <1>3 DEF ContactInv, Forms

LEMMA GoesTo ==
    ASSUME ContactInv, NEW s \in Saver, NEW step \in {"writing", "lookingAgain", "undoing"},
           Goes(s, step)
    PROVE  request'[s].step = step /\ request'[s].contact = request[s].contact
  BY DEF ContactInv, Forms, Goes, RequestShape

\* A handler that is no witness, or whose contact needs none.
LEMMA HandlerSteps ==
    ASSUME ContactInv, NEW s \in Saver,
           Look(s) \/ Upsert(s) \/ LookAgain(s) \/ Delete(s) \/ FailSave(s)
    PROVE  ContactInv'
<1> DEFINE c == request[s].contact
<1>1. UNCHANGED <<blocked, blocking, deleted, entered, known>>
  BY DEF Look, Upsert, LookAgain, Delete, FailSave
<1>2. CASE Look(s)
  <2>1. UNCHANGED <<contacts, orphaned>> /\ request[s].step = "looking"
    BY <1>2 DEF Look
  <2>2. Forms' /\ \A j \in Saver \ {s} : request'[j] = request[j]
    BY <1>1, <1>2, <2>1, RequestMoves DEF Look, ContactInv, Forms
  <2> QED
    BY <1>1, <2>1, <2>2 DEF ContactInv, Watched, NoBlockedContact
<1>3. CASE Upsert(s)
  <2>1. /\ contacts' = contacts \cup {c} /\ c \notin blocking
        /\ UNCHANGED orphaned /\ Goes(s, "lookingAgain") /\ request[s].step = "writing"
    BY <1>3 DEF Upsert, LockFree
  <2>2. request'[s].step = "lookingAgain" /\ request'[s].contact = c
    BY <2>1, GoesTo
  <2>3. Forms' /\ \A j \in Saver \ {s} : request'[j] = request[j]
    BY <1>1, <2>1, RequestMoves DEF ContactInv, Forms
  <2> QED
    BY <1>1, <2>1, <2>2, <2>3 DEF ContactInv, Watched, NoBlockedContact
<1>4. CASE LookAgain(s)
  <2>1. /\ UNCHANGED <<contacts, orphaned>> /\ request[s].step = "lookingAgain"
        /\ c \notin blocked \/ Goes(s, "undoing")
        /\ RequestEnds(s, FALSE) \/ Goes(s, "undoing")
    BY <1>4 DEF LookAgain
  <2>2. Forms' /\ \A j \in Saver \ {s} : request'[j] = request[j]
    BY <1>1, <2>1, RequestMoves DEF ContactInv, Forms
  <2>3. c \notin blocked \/ (request'[s].step = "undoing" /\ request'[s].contact = c)
    BY <2>1, GoesTo
  <2> QED
    BY <1>1, <2>1, <2>2, <2>3 DEF ContactInv, Watched, NoBlockedContact
<1>5. CASE Delete(s)
  <2>1. /\ contacts' = contacts \ {c} /\ request[s].step \in {"undoing", "deleting"}
        /\ UNCHANGED orphaned /\ RequestEnds(s, request[s].step = "undoing")
    BY <1>5 DEF Delete
  <2>2. Forms' /\ \A j \in Saver \ {s} : request'[j] = request[j]
    BY <1>1, <2>1, RequestMoves DEF ContactInv, Forms
  <2> QED
    BY <1>1, <2>1, <2>2 DEF ContactInv, Watched, NoBlockedContact
<1>6. CASE FailSave(s)
  <2>1. /\ UNCHANGED contacts /\ request[s].step # "idle" /\ RequestEnds(s, TRUE)
        /\ orphaned' = IF request[s].step \in {"lookingAgain", "undoing"}
                       THEN orphaned \cup {c} ELSE orphaned
    BY <1>6 DEF FailSave
  <2>2. Forms' /\ \A j \in Saver \ {s} : request'[j] = request[j]
    BY <1>1, <2>1, RequestMoves DEF ContactInv, Forms
  <2> QED
    BY <1>1, <2>1, <2>2 DEF ContactInv, Watched, NoBlockedContact
<1> QED
  BY <1>2, <1>3, <1>4, <1>5, <1>6

LEMMA BlockSteps ==
    ASSUME ContactInv, NEW c \in Contact, BeginBlock(c) \/ EndBlock(c) \/ Unblock(c)
    PROVE  ContactInv'
<1>1. UNCHANGED <<request, orphaned, entered, known, save>> /\ contacts' \subseteq contacts
  BY DEF BeginBlock, EndBlock, Unblock
<1>2. Forms'
  BY <1>1 DEF ContactInv, Forms
<1>3. Watched'
  BY DEF ContactInv, Watched, BeginBlock, EndBlock, Unblock
<1>4. NoBlockedContact'
  <2>1. contacts' \cap blocked' \subseteq contacts \cap blocked
    BY DEF ContactInv, Watched, BeginBlock, EndBlock, Unblock
  <2> QED
    BY <1>1, <2>1 DEF ContactInv, NoBlockedContact
<1> QED
  BY <1>2, <1>3, <1>4 DEF ContactInv

LEMMA NextContacts == ContactInv /\ [ContactsNext]_mcvars => ContactInv'
<1>1. ASSUME ContactInv, UNCHANGED mcvars PROVE ContactInv'
  BY <1>1 DEF mcvars, ContactInv, Forms, Watched, NoBlockedContact
<1> QED
  BY <1>1, FormSteps, SaveContactsStep, HandlerSteps, BlockSteps DEF ContactsNext

\* upsertEmergencyContact looks for a block, writes, and looks again, and
\* blockUser deletes the rows it finds in its transaction: whatever they
\* interleave with, a blocked user stays a contact only while a handler is about
\* to take it back, or after one failed there.
THEOREM BlockedAreNoContacts == ContactsSpec => []NoBlockedContact
<1>1. ContactInv => NoBlockedContact
  BY DEF ContactInv
<1> QED
  BY <1>1, InitContacts, NextContacts, PTL DEF ContactsSpec

-----------------------------------------------------------------------------
(* Folders. Until a drop fails or meets another change, one drop at most   *)
(* is under way. It leaves every other room where it is (Elsewhere); the   *)
(* room it moves leaves its folder by that folder's request and enters the *)
(* other by that one's (OnItsWay).                                         *)

Place == folders \cup {NoFolder}

DropShape == [step : {"idle", "waiting"}, room : Filed \cup {DropAtRest.room},
              to : Folder \cup {NoFolder}]
PutShape  == [drop : Drop, folder : Folder, rooms : SUBSET Filed,
              step : {"sent", "deleted"}, gone : SUBSET Filed]

Kinds ==
    /\ folders \subseteq Folder
    /\ filed \in [Filed -> Folder \cup {NoFolder}]
    /\ list \in [folders : SUBSET Folder, of : [Filed -> Folder \cup {NoFolder}]]
    /\ drops \in [Drop -> DropShape]
    /\ \A d \in Drop : drops[d].step = "waiting" => drops[d].room \in Filed
    /\ puts \subseteq PutShape
    /\ reads \subseteq [folders : SUBSET Folder, of : [Filed -> Folder \cup {NoFolder}]]
    /\ parted \in BOOLEAN

\* The other rooms, and what a request holds of them.
Elsewhere(r0) ==
    /\ \A r \in Filed \ {r0} : filed[r] = list.of[r]
    /\ \A q \in puts :
         /\ q.rooms \ {r0} = RoomsIn(list.of, q.folder) \ {r0}
         /\ q.step = "deleted" =>
              q.gone \ {r0} = RoomsIn(list.of, q.folder) \ {r0}

\* The room that moves from one folder to another, or to where it was.
OnItsWay(r0, to) ==
    LET from == list.of[r0] IN
    /\ filed[r0] \in {from, NoFolder, to}
    /\ to \in Place
    /\ filed[r0] # to /\ to # NoFolder => \E q \in puts : q.folder = to
    /\ filed[r0] # to /\ filed[r0] # NoFolder => \E q \in puts : q.folder = from
    /\ \A q \in puts :
         /\ r0 \in q.rooms <=> q.folder = to
         /\ q.folder = from => filed[r0] = from
         /\ q.folder = to /\ to # from => filed[r0] # to
         /\ q.step = "deleted" => (r0 \in q.gone <=> q.folder = from)

AtWork(d) ==
    /\ \A e \in Drop : drops[e].step = "waiting" => e = d
    /\ \A q \in puts : q.drop = d
    /\ \A p, q \in puts : p.folder = q.folder => p = q
    /\ Elsewhere(drops[d].room)
    /\ OnItsWay(drops[d].room, drops[d].to)

Together ==
    /\ list.folders = folders
    /\ \A r \in Filed : list.of[r] \in Place
    /\ NoDrop => puts = {} /\ list.of = filed
    /\ \A d \in Drop : drops[d].step = "waiting" => AtWork(d)
    /\ \A read \in reads : NoDrop /\ read.folders = folders /\ read.of = filed

FoldersInv == Kinds /\ (~ parted => Together)

LEMMA DropsAtRest == DropAtRest \in DropShape /\ DropAtRest.step = "idle"
<1>1. DropAtRest.step = "idle" /\ DropAtRest.to = NoFolder
  BY DEF DropAtRest
<1>2. ASSUME NEW c, NEW r, r = [step |-> "idle", room |-> c, to |-> NoFolder]
      PROVE  r \in [step : {"idle", "waiting"}, room : Filed \cup {r.room},
                    to : Folder \cup {NoFolder}]
  BY <1>2
<1> QED
  BY <1>1, <1>2 DEF DropAtRest, DropShape

LEMMA InitFolders == FoldersInit => FoldersInv
<1> SUFFICES ASSUME FoldersInit PROVE FoldersInv
  OBVIOUS
<1>1. /\ folders \in SUBSET Folder /\ filed \in [Filed -> folders \cup {NoFolder}]
      /\ list = [folders |-> folders, of |-> filed]
      /\ drops = [d \in Drop |-> DropAtRest] /\ puts = {} /\ reads = {} /\ parted = FALSE
  BY DEF FoldersInit
<1>2. list.folders = folders /\ list.of = filed
  BY <1>1
<1>3. Kinds
  BY <1>1, DropsAtRest DEF Kinds
<1>4. Together
  BY <1>1, <1>2, DropsAtRest DEF Together, Place
<1> QED
  BY <1>3, <1>4 DEF FoldersInv

\* Nothing is on its way.
LEMMA AtRestTogether ==
    ASSUME FoldersInv, ~ parted, ~ Moving
    PROVE  NoDrop /\ puts = {} /\ list.of = filed /\ list.folders = folders
  BY DEF FoldersInv, Together, Moving

LEMMA DropBegins ==
    ASSUME FoldersInv, NEW d \in Drop, NEW r \in Filed, NEW to \in Folder \cup {NoFolder},
           handleCategorizeRoom(d, r, to)
    PROVE  FoldersInv'
<1> DEFINE h == [step |-> "waiting", room |-> r, to |-> to]
<1>1. /\ drops[d].step = "idle" /\ to \in list.folders \cup {NoFolder}
      /\ drops' = [drops EXCEPT ![d] = h]
      /\ parted' = (parted \/ Moving \/ reads # {})
      /\ UNCHANGED <<folders, filed, list, reads>>
  BY DEF handleCategorizeRoom
<1>2. /\ drops' \in [Drop -> DropShape] /\ drops'[d] = h
      /\ \A e \in Drop \ {d} : drops'[e] = drops[e]
  BY <1>1 DEF FoldersInv, Kinds, DropShape
<1>3. puts' = puts \cup
         {[drop |-> d, folder |-> f, step |-> "sent", gone |-> {},
           rooms |-> (RoomsIn(list.of, f) \ {r}) \cup (IF to = f THEN {r} ELSE {})]
            : f \in list.folders}
  BY <1>2 DEF handleCategorizeRoom, Content
<1>4. Kinds'
  <2>1. puts' \subseteq PutShape
    BY <1>3 DEF FoldersInv, Kinds, PutShape, RoomsIn
  <2> QED
    BY <1>1, <1>2, <2>1 DEF FoldersInv, Kinds
<1>5. ASSUME ~ parted' PROVE Together'
  <2>1. /\ ~ parted /\ NoDrop /\ puts = {} /\ list.of = filed /\ list.folders = folders
        /\ reads' = {}
    BY <1>1, <1>5, AtRestTogether
  <2>2. \A q \in puts' : /\ q.drop = d /\ q.folder \in folders /\ q.step = "sent"
                         /\ q.rooms = (RoomsIn(list.of, q.folder) \ {r})
                                      \cup (IF to = q.folder THEN {r} ELSE {})
    BY <1>3, <2>1
  <2>3. ASSUME NEW f \in folders PROVE \E q \in puts' : q.folder = f
    <3> DEFINE p == [drop |-> d, folder |-> f, step |-> "sent", gone |-> {},
                     rooms |-> (RoomsIn(list.of, f) \ {r}) \cup (IF to = f THEN {r} ELSE {})]
    <3>1. p \in puts' /\ p.folder = f
      BY <1>3, <2>1
    <3> QED
      BY <3>1
  <2>4. \A p, q \in puts' : p.folder = q.folder => p = q
    BY <1>3, <2>1
  <2>5. /\ \A x \in Filed : list.of[x] \in Place
        /\ to \in Place /\ NoFolder \notin folders /\ Place' = Place
    BY <1>1, <2>1, FoldersAssumption DEF FoldersInv, Together, Kinds, Place
  <2>6. Elsewhere(r)'
    BY <1>1, <2>1, <2>2 DEF Elsewhere, RoomsIn
  <2>7. OnItsWay(r, to)'
    BY <1>1, <2>1, <2>2, <2>3, <2>5 DEF OnItsWay, Place
  <2>8. AtWork(d)'
    BY <1>2, <2>1, <2>2, <2>4, <2>6, <2>7 DEF AtWork, NoDrop, Elsewhere, OnItsWay
  <2> QED
    BY <1>1, <1>2, <2>1, <2>5, <2>8 DEF Together, NoDrop
<1> QED
  BY <1>4, <1>5 DEF FoldersInv
LEMMA DropEnds ==
    ASSUME FoldersInv, NEW d \in Drop, Dropped(d)
    PROVE  FoldersInv'
<1> PICK r : r = drops[d].room
  OBVIOUS
<1> PICK to : to = drops[d].to
  OBVIOUS
<1>1. /\ drops[d].step = "waiting" /\ \A q \in puts : q.drop # d
      /\ list' = [list EXCEPT !.of[r] = to]
      /\ drops' = [drops EXCEPT ![d] = DropAtRest]
      /\ UNCHANGED <<folders, filed, puts, reads, parted>>
  BY DEF Dropped
<1>2. r \in Filed /\ to \in Folder \cup {NoFolder} /\ Kinds
  BY <1>1 DEF FoldersInv, Kinds, DropShape
<1>3. /\ drops' \in [Drop -> DropShape] /\ drops'[d] = DropAtRest
      /\ \A e \in Drop \ {d} : drops'[e] = drops[e]
  BY <1>1, <1>2, DropsAtRest DEF Kinds
<1>4. /\ list' \in [folders : SUBSET Folder, of : [Filed -> Folder \cup {NoFolder}]]
      /\ list'.folders = list.folders /\ list'.of = [list.of EXCEPT ![r] = to]
  BY <1>1, <1>2 DEF Kinds
<1>5. Kinds'
  BY <1>1, <1>2, <1>3, <1>4, DropsAtRest DEF Kinds
<1>6. ASSUME ~ parted' PROVE Together'
  <2>1. Together /\ AtWork(d) /\ puts = {}
    BY <1>1, <1>6 DEF FoldersInv, Together, AtWork
  <2>2. /\ \A x \in Filed \ {r} : filed[x] = list.of[x]
        /\ filed[r] = to /\ to \in Place
    BY <2>1 DEF AtWork, Elsewhere, OnItsWay
  <2>3. list'.of = filed
    BY <1>2, <1>4, <2>2 DEF Kinds
  <2>4. \A e \in Drop : drops'[e].step # "waiting"
    BY <1>3, <2>1, DropsAtRest DEF AtWork
  <2>5. \A x \in Filed : list'.of[x] \in Place'
    BY <1>1, <1>2, <2>1, <2>2, <2>3 DEF Together, Place, Kinds
  <2>6. reads' = {}
    BY <1>1, <2>1 DEF Together, NoDrop
  <2> QED
    BY <1>1, <1>4, <2>1, <2>3, <2>4, <2>5, <2>6 DEF Together
<1> QED
  BY <1>5, <1>6 DEF FoldersInv

LEMMA FolderMade ==
    ASSUME FoldersInv, NEW f \in Folder, handleCreateFolder(f)
    PROVE  FoldersInv'
<1>1. /\ folders' = folders \cup {f} /\ list' = [list EXCEPT !.folders = @ \cup {f}]
      /\ parted' = (parted \/ reads # {})
      /\ UNCHANGED <<filed, drops, puts, reads>>
  BY DEF handleCreateFolder
<1>2. /\ list' \in [folders : SUBSET Folder, of : [Filed -> Folder \cup {NoFolder}]]
      /\ list'.folders = list.folders \cup {f} /\ list'.of = list.of
  BY <1>1 DEF FoldersInv, Kinds
<1>3. Kinds'
  BY <1>1, <1>2 DEF FoldersInv, Kinds
<1>4. ASSUME NEW d \in Drop, AtWork(d) PROVE AtWork(d)'
  <2>1. Elsewhere(drops[d].room)'
    BY <1>1, <1>2, <1>4 DEF AtWork, Elsewhere
  <2>2. OnItsWay(drops[d].room, drops[d].to)'
    BY <1>1, <1>2, <1>4 DEF AtWork, OnItsWay, Place
  <2> QED
    BY <1>1, <1>4, <2>1, <2>2 DEF AtWork
<1> QED
  BY <1>1, <1>2, <1>3, <1>4 DEF FoldersInv, Together, Place, NoDrop

\* Deletions and refreshes where nothing is on its way, and moves elsewhere.
LEMMA ListSteps ==
    ASSUME FoldersInv,
           \/ \E f \in Folder : handleDeleteFolder(f)
           \/ listFolders
           \/ \E read \in reads : mapRooms(read) \/ RefreshFails(read)
           \/ \E r \in Filed, f \in Folder \cup {NoFolder} : MovedElsewhere(r, f)
    PROVE  FoldersInv'
<1>1. UNCHANGED <<drops, puts>> /\ parted' \in BOOLEAN /\ (~ parted' => ~ parted)
  BY DEF handleDeleteFolder, listFolders, mapRooms, RefreshFails, MovedElsewhere,
         FoldersInv, Kinds
<1>2. ASSUME NEW f \in Folder, handleDeleteFolder(f) PROVE FoldersInv'
  <2>1. /\ folders' = folders \ {f}
        /\ filed' = [r \in Filed |-> IF filed[r] = f THEN NoFolder ELSE filed[r]]
        /\ list' = [folders |-> list.folders \ {f},
                    of |-> [r \in Filed |-> IF list.of[r] = f THEN NoFolder ELSE list.of[r]]]
        /\ parted' = (parted \/ Moving \/ reads # {}) /\ reads' = reads
    BY <1>2 DEF handleDeleteFolder, Unfiled
  <2>2. Kinds'
    BY <1>1, <2>1 DEF FoldersInv, Kinds
  <2>3. ASSUME ~ parted' PROVE Together'
    <3>1. NoDrop /\ puts = {} /\ list.of = filed /\ list.folders = folders /\ Together
      BY <1>1, <2>1, <2>3, AtRestTogether DEF FoldersInv
    <3>2. /\ list'.of = filed' /\ list'.folders = folders'
      BY <2>1, <3>1
    <3>3. \A r \in Filed : list'.of[r] \in Place'
      BY <2>1, <3>1 DEF Together, Place
    <3>4. reads' = {}
      BY <2>1, <2>3
    <3> QED
      BY <1>1, <3>1, <3>2, <3>3, <3>4 DEF Together, NoDrop
  <2> QED
    BY <2>2, <2>3 DEF FoldersInv
<1>3. CASE listFolders
  <2>1. PICK read : read = [folders |-> folders, of |-> filed]
    OBVIOUS
  <2>2. /\ reads' = reads \cup {read} /\ parted' = (parted \/ Moving)
        /\ UNCHANGED <<folders, filed, list>>
    BY <1>3, <2>1 DEF listFolders
  <2>3. Kinds'
    BY <1>1, <2>1, <2>2 DEF FoldersInv, Kinds
  <2>4. ASSUME ~ parted' PROVE Together'
    <3>1. NoDrop /\ puts = {} /\ list.of = filed /\ list.folders = folders /\ Together
      BY <1>1, <2>2, <2>4, AtRestTogether DEF FoldersInv
    <3> QED
      BY <1>1, <2>1, <2>2, <3>1 DEF Together, NoDrop, Place
  <2> QED
    BY <2>3, <2>4 DEF FoldersInv
<1>5. ASSUME NEW read \in reads, mapRooms(read) PROVE FoldersInv'
  <2>1. /\ list' = [folders |-> read.folders,
                    of |-> [r \in Filed |-> IF read.of[r] = NoFolder THEN list.of[r]
                                            ELSE read.of[r]]]
        /\ reads' = reads \ {read} /\ UNCHANGED <<folders, filed, parted>>
    BY <1>5 DEF mapRooms
  <2>2. Kinds'
    BY <1>1, <2>1 DEF FoldersInv, Kinds
  <2>3. ASSUME ~ parted' PROVE Together'
    <3>1. /\ NoDrop /\ puts = {} /\ list.of = filed /\ list.folders = folders /\ Together
          /\ read.folders = folders /\ read.of = filed
      BY <1>1, <2>1, <2>3 DEF FoldersInv, Together
    <3>2. /\ list'.of = filed' /\ list'.folders = folders'
      BY <2>1, <3>1 DEF FoldersInv, Kinds
    <3> QED
      BY <1>1, <2>1, <3>1, <3>2 DEF Together, NoDrop, Place
  <2> QED
    BY <2>2, <2>3 DEF FoldersInv
<1>6. ASSUME NEW read \in reads, RefreshFails(read) PROVE FoldersInv'
  <2>1. reads' = reads \ {read} /\ UNCHANGED <<folders, filed, list, parted>>
    BY <1>6 DEF RefreshFails
  <2>2. Kinds'
    BY <1>1, <2>1 DEF FoldersInv, Kinds
  <2>3. ASSUME ~ parted' PROVE Together'
    <3>1. Together
      BY <1>1, <2>3 DEF FoldersInv
    <3>2. \A d \in Drop : AtWork(d) => AtWork(d)'
      BY <1>1, <2>1 DEF AtWork, Elsewhere, OnItsWay, Place
    <3> QED
      BY <1>1, <2>1, <3>1, <3>2 DEF Together, NoDrop, Place
  <2> QED
    BY <2>2, <2>3 DEF FoldersInv
<1>4. ASSUME NEW r \in Filed, NEW f \in Folder \cup {NoFolder}, MovedElsewhere(r, f)
      PROVE  FoldersInv'
  BY <1>1, <1>4 DEF MovedElsewhere, FoldersInv, Kinds
<1> QED
  BY <1>2, <1>3, <1>4, <1>5, <1>6

LEMMA PutFailsStep ==
    ASSUME FoldersInv, NEW q \in puts, PutFails(q)
    PROVE  FoldersInv'
  BY DropsAtRest DEF PutFails, FoldersInv, Kinds

\* The one drop that the requests are of.
LEMMA AtItsPut ==
    ASSUME FoldersInv, ~ parted, NEW q \in puts
    PROVE  /\ Together /\ ~ NoDrop
           /\ \E d \in Drop : drops[d].step = "waiting" /\ AtWork(d)
<1>1. Together /\ ~ NoDrop
  BY DEF FoldersInv, Together
<1>2. PICK d \in Drop : drops[d].step # "idle"
  BY <1>1 DEF NoDrop
<1>3. drops[d].step = "waiting"
  BY <1>2 DEF FoldersInv, Kinds, DropShape
<1> QED
  BY <1>1, <1>3 DEF Together

LEMMA DeleteRowsStep ==
    ASSUME FoldersInv, NEW q \in puts, DeleteRows(q)
    PROVE  FoldersInv'
<1> DEFINE g == RoomsIn(filed, q.folder)
           n == [q EXCEPT !.step = "deleted", !.gone = g]
<1> PICK p : p = n
  OBVIOUS
<1>1. /\ q.step = "sent" /\ puts' = (puts \ {q}) \cup {p}
      /\ UNCHANGED <<folders, filed, list, drops, reads, parted>>
  BY DEF DeleteRows
<1>2. /\ p \in PutShape /\ p.folder = q.folder /\ p.rooms = q.rooms /\ p.drop = q.drop
      /\ p.step = "deleted" /\ p.gone = RoomsIn(filed, q.folder)
      /\ q.folder \in Folder
  <2>1. q \in PutShape /\ RoomsIn(filed, q.folder) \in SUBSET Filed
    BY DEF FoldersInv, Kinds, RoomsIn
  <2> QED
    BY <2>1 DEF PutShape
<1> HIDE DEF n, g
<1>3. Kinds'
  BY <1>1, <1>2 DEF FoldersInv, Kinds
<1>4. ASSUME ~ parted' PROVE Together'
  <2>1. Together /\ ~ NoDrop
    BY <1>1, <1>4, AtItsPut
  <2>2. PICK d \in Drop : drops[d].step = "waiting" /\ AtWork(d)
    BY <1>1, <1>4, AtItsPut
  <2> PICK r : r = drops[d].room
    OBVIOUS
  <2> PICK to : to = drops[d].to
    OBVIOUS
  <2>3. r \in Filed
    BY <2>2 DEF FoldersInv, Kinds
  <2>4. Elsewhere(r) /\ OnItsWay(r, to)
    BY <2>2 DEF AtWork
  <2>5. p.gone \ {r} = RoomsIn(list.of, q.folder) \ {r}
    BY <1>2, <2>4 DEF Elsewhere, RoomsIn
  <2>6. Elsewhere(r)'
    BY <1>1, <1>2, <2>4, <2>5 DEF Elsewhere
  <2>7. r \in p.gone <=> q.folder = list.of[r]
    BY <1>2, <2>3, <2>4, FoldersAssumption DEF OnItsWay, RoomsIn
  <2>8. OnItsWay(r, to)'
    <3>1. \A f : (\E x \in puts : x.folder = f) <=> \E x \in puts' : x.folder = f
      BY <1>1, <1>2
    <3>2. filed[r] \in {list.of[r], NoFolder, to} /\ to \in Place
      BY <2>4 DEF OnItsWay
    <3>3. /\ filed[r] # to /\ to # NoFolder => \E x \in puts' : x.folder = to
          /\ filed[r] # to /\ filed[r] # NoFolder => \E x \in puts' : x.folder = list.of[r]
      BY <2>4, <3>1 DEF OnItsWay
    <3>4. ASSUME NEW x \in puts'
          PROVE  /\ r \in x.rooms <=> x.folder = to
                 /\ x.folder = list.of[r] => filed[r] = list.of[r]
                 /\ x.folder = to /\ to # list.of[r] => filed[r] # to
                 /\ x.step = "deleted" => (r \in x.gone <=> x.folder = list.of[r])
      BY <1>1, <1>2, <2>4, <2>7 DEF OnItsWay
    <3> QED
      BY <1>1, <3>2, <3>3, <3>4 DEF OnItsWay, Place
  <2>9. AtWork(d)'
    <3>1. /\ \A x \in puts' : x.drop = d
          /\ \A x, y \in puts' : x.folder = y.folder => x = y
      BY <1>1, <1>2, <2>2 DEF AtWork
    <3> QED
      BY <1>1, <2>2, <2>6, <2>8, <3>1 DEF AtWork, Elsewhere, OnItsWay, Place
  <2> QED
    BY <1>1, <2>1, <2>2, <2>9 DEF Together, Place, NoDrop, AtWork
<1> QED
  BY <1>3, <1>4 DEF FoldersInv

LEMMA InsertRowsStep ==
    ASSUME FoldersInv, NEW q \in puts, InsertRows(q)
    PROVE  FoldersInv'
<1>1. /\ q.step = "deleted" /\ puts' = puts \ {q}
      /\ \A r \in q.rooms : r \in q.gone \/ filed[r] = NoFolder
      /\ filed' = [r \in Filed |-> IF r \in q.rooms THEN q.folder
                                   ELSE IF r \in q.gone THEN NoFolder ELSE filed[r]]
      /\ UNCHANGED <<folders, list, drops, reads, parted>>
  <2>1. q.rooms \subseteq Filed
    BY DEF FoldersInv, Kinds, PutShape
  <2> QED
    BY <2>1 DEF InsertRows, Emptied
<1>2. Kinds'
  BY <1>1 DEF FoldersInv, Kinds, PutShape
<1>3. ASSUME ~ parted' PROVE Together'
  <2>1. Together /\ ~ NoDrop /\ q.folder \in Folder
    BY <1>1, <1>3, AtItsPut DEF FoldersInv, Kinds, PutShape
  <2>2. PICK d \in Drop : drops[d].step = "waiting" /\ AtWork(d)
    BY <1>1, <1>3, AtItsPut
  <2> PICK r : r = drops[d].room
    OBVIOUS
  <2> PICK to : to = drops[d].to
    OBVIOUS
  <2> PICK from : from = list.of[r]
    OBVIOUS
  <2>3. r \in Filed
    BY <2>2 DEF FoldersInv, Kinds
  <2>4. Elsewhere(r) /\ OnItsWay(r, to) /\ \A x, y \in puts : x.folder = y.folder => x = y
    BY <2>2 DEF AtWork
  <2>5. \A x \in Filed \ {r} : filed'[x] = list.of[x]
    BY <1>1, <2>4 DEF Elsewhere, RoomsIn
  <2>6. Elsewhere(r)'
    BY <1>1, <2>4, <2>5 DEF Elsewhere
  <2>7. /\ q.folder = to => filed'[r] = to
        /\ q.folder # to /\ q.folder = from => filed'[r] = NoFolder
        /\ q.folder # to /\ q.folder # from => filed'[r] = filed[r]
    BY <1>1, <2>3, <2>4 DEF OnItsWay
  <2>8. OnItsWay(r, to)'
    <3>1. filed'[r] \in {from, NoFolder, to} /\ to \in Place'
      BY <1>1, <2>4, <2>7 DEF OnItsWay, Place
    <3>2. filed'[r] # to /\ to # NoFolder => \E x \in puts' : x.folder = to
      <4>1. SUFFICES ASSUME filed'[r] # to, to # NoFolder
                     PROVE  \E x \in puts' : x.folder = to
        OBVIOUS
      <4>2. q.folder # to
        BY <2>7, <4>1
      <4>3. filed[r] # to
        BY <2>4, <2>7, <4>1, <4>2 DEF OnItsWay
      <4> QED
        BY <1>1, <2>4, <4>1, <4>2, <4>3 DEF OnItsWay
    <3>3. filed'[r] # to /\ filed'[r] # NoFolder => \E x \in puts' : x.folder = from
      BY <1>1, <2>4, <2>7 DEF OnItsWay
    <3>4. ASSUME NEW x \in puts'
          PROVE  /\ r \in x.rooms <=> x.folder = to
                 /\ x.folder = from => filed'[r] = from
                 /\ x.folder = to /\ to # from => filed'[r] # to
                 /\ x.step = "deleted" => (r \in x.gone <=> x.folder = from)
      <4>1. x \in puts /\ x # q /\ x.folder # q.folder
        BY <1>1, <2>4
      <4>2. x.folder \in Folder /\ NoFolder \notin Folder
        BY <4>1, FoldersAssumption DEF FoldersInv, Kinds, PutShape
      <4>3. q.folder = to /\ x.folder = from => from = to
        BY <1>1, <2>4, <4>1, <4>2 DEF OnItsWay
      <4> QED
        BY <2>1, <2>4, <2>7, <4>1, <4>2, <4>3 DEF OnItsWay
    <3> QED
      BY <1>1, <3>1, <3>2, <3>3, <3>4 DEF OnItsWay
  <2>9. AtWork(d)'
    BY <1>1, <2>2, <2>6, <2>8 DEF AtWork, Elsewhere, OnItsWay, Place
  <2> QED
    BY <1>1, <2>1, <2>2, <2>9 DEF Together, Place, NoDrop, AtWork
<1> QED
  BY <1>2, <1>3 DEF FoldersInv

LEMMA NextFolders == FoldersInv /\ [FoldersNext]_dvars => FoldersInv'
<1>1. ASSUME FoldersInv, UNCHANGED dvars PROVE FoldersInv'
  <2>1. Kinds' /\ (Together => Together')
    BY <1>1 DEF dvars, FoldersInv, Kinds, Together, AtWork, Elsewhere, OnItsWay, Place, NoDrop
  <2> QED
    BY <1>1, <2>1 DEF dvars, FoldersInv
<1> QED
  BY <1>1, DropBegins, DropEnds, FolderMade, ListSteps, PutFailsStep, DeleteRowsStep,
     InsertRowsStep DEF FoldersNext

\* handleCategorizeRoom writes every folder in a request of its own, in any
\* order: unless a drop fails or meets another change, or a refresh is applied that
\* has read the folders before one, the rows end up where the chat list shows them,
\* in a folder there is, for any rooms and folders.
THEOREM RoomsAreWhereShown == FoldersSpec => []ListAgrees
<1>1. FoldersInv => ListAgrees
  <2> SUFFICES ASSUME FoldersInv, NoDrop, ~ parted
               PROVE  /\ list = [folders |-> folders, of |-> filed]
                      /\ \A r \in Filed : filed[r] \in folders \cup {NoFolder}
    BY DEF ListAgrees
  <2>1. Together /\ list.of = filed /\ list.folders = folders
    BY DEF FoldersInv, Together
  <2>2. list = [folders |-> list.folders, of |-> list.of]
    BY DEF FoldersInv, Kinds
  <2> QED
    BY <2>1, <2>2 DEF Together, Place
<1> QED
  BY <1>1, InitFolders, NextFolders, PTL DEF FoldersSpec

-----------------------------------------------------------------------------
(* The signed-in user. While nothing is disturbed at most one save is under *)
(* way, and the events on their way are its own or come after it: the last  *)
(* of them is the row (Heard). A save that the server has not done sees the *)
(* user that the server has (Asking); what one that it has done brings back *)
(* is the row, with what its kind forgets (Halfway, BroughtBack). The days     *)
(* that a refresh may yet put into the panel are the row's, or none, or other  *)
(* than the user's (Timely); fields that another tab has changed are left out.  *)

Want == UNION {[D -> Int] : D \in SUBSET Field}

SaveKinds == [kind : {"none", "profile", "preferences", "emergency", "order"},
              step : {"idle", "asked", "uploading", "answered"},
              base : [Field -> Int], next : [Field -> Int], want : Want, file : BOOLEAN]

Copies ==
    /\ account \in [Field -> Int] /\ account["days"] # Unset /\ user \in [Field -> Int] /\ stored \in [Field -> Int]
    /\ form \in [name : Int, avatar : Int] /\ panel \in Int
    /\ heard \in Int /\ social \subseteq Int
    /\ saves \in [Saving -> SaveKinds]
    /\ updates \in Seq([name : Int, avatar : Int])
    /\ edits \in Nat /\ disturbed \in BOOLEAN

\* What a save of each kind asks for.
Asked(job) ==
    /\ job.step # "idle" => job.kind # "none"
    /\ job.step = "uploading" \/ job.file => job.kind = "profile"
    /\ job.step = "asked" => job.want # <<>>
    /\ job.kind = "profile" => DOMAIN job.want \subseteq {"name", "avatar"}
    /\ job.kind = "preferences" => DOMAIN job.want = {"theme"}
    /\ job.kind = "emergency" => DOMAIN job.want = {"days"} /\ job.want["days"] # Unset
    /\ job.kind = "order" => DOMAIN job.want = {"order"}

SameProfile(u)  == u["name"] = account["name"] /\ u["avatar"] = account["avatar"]
DaysShown(n)    == n \in {account["days"], Unset}
SameTheme(u)    == "theme" \in outdated \/ u["theme"] = account["theme"]
SameDays(u)     == "days" \in outdated \/ DaysShown(u["days"])
SameOrder(u)    == "order" \in outdated \/ u["order"] \in {account["order"], Unset}
SameSettings(u) == SameTheme(u) /\ SameDays(u) /\ SameOrder(u)

PanelShown == "panel" \in outdated \/ DaysShown(panel)
Timely == "days" \in outdated \/ \A d \in social \cup {heard} : DaysShown(d) \/ Behind(d)

Heard == updates # <<>> => updates[Len(updates)] = Hydrated(account)

Asking(job) ==
    /\ updates = <<>>
    /\ SameProfile(user) /\ SameSettings(user) /\ PanelShown /\ Timely
    /\ job.base = user
    /\ \A f \in Field : job.next[f] = IF f \in DOMAIN job.want THEN job.want[f]
                                       ELSE user[f]

Halfway(job) ==
    /\ Heard /\ SameSettings(user) /\ PanelShown /\ Timely
    /\ SameTheme(job.base)
    /\ SameProfile(job.next) /\ SameSettings(job.next) /\ job.next["days"] = user["days"]

BroughtBack(job) ==
    /\ Heard
    /\ job.kind # "profile" => updates = <<>>
    /\ SameProfile(job.next) /\ SameSettings(job.next)
    /\ job.kind \in {"profile", "order"} => PanelShown /\ Timely
    /\ job.kind = "profile" => /\ job.next["order"] = Unset
                                /\ job.next["days"] = user["days"]
    /\ job.kind = "order" => /\ SameProfile(user) /\ SameTheme(user) /\ SameDays(user)
                              /\ job.next["order"] = account["order"]
    /\ job.kind = "preferences" => /\ SameDays(job.base)
                                    /\ job.next["theme"] = account["theme"]
                                    /\ job.next["days"] = account["days"]
    /\ job.kind = "emergency" => /\ job.want["days"] = account["days"]
                                  /\ job.next["days"] = account["days"]

UnderWay(job) ==
    /\ job.step = "asked" => Asking(job)
    /\ job.step = "uploading" => IF job.want = <<>> THEN Asking(job) ELSE Halfway(job)
    /\ job.step = "answered" => BroughtBack(job)

AtEase ==
    /\ Heard /\ SameSettings(user) /\ PanelShown /\ Timely
    /\ updates = <<>> => SameProfile(user)

Idle(s) == saves[s].step = "idle"

Undisturbed ==
    /\ \A s, t \in Saving : ~ Idle(s) /\ ~ Idle(t) => s = t
    /\ \A s \in Saving : UnderWay(saves[s])
    /\ (\A s \in Saving : Idle(s)) => AtEase

UserInv ==
    /\ Copies
    /\ \A s \in Saving : Asked(saves[s])
    /\ ~ disturbed => Undisturbed

-----------------------------------------------------------------------------
LEMMA WantOne == ASSUME NEW f \in Field, NEW n \in Int
                 PROVE  /\ Only(f, n) \in Want /\ DOMAIN Only(f, n) = {f}
                        /\ Only(f, n) # <<>> /\ Only(f, n)[f] = n
<1>1. Only(f, n) \in [{f} -> Int] /\ DOMAIN Only(f, n) = {f} /\ Only(f, n)[f] = n
  BY DEF Only
<1>2. DOMAIN <<>> = {}
  OBVIOUS
<1> QED
  BY <1>1, <1>2 DEF Want

LEMMA WantOver ==
    ASSUME NEW w \in Want, NEW r \in [Field -> Int]
    PROVE  /\ Over(w, r) \in [Field -> Int]
           /\ \A f \in Field : Over(w, r)[f] = IF f \in DOMAIN w THEN w[f] ELSE r[f]
<1>1. PICK D \in SUBSET Field : w \in [D -> Int]
  BY DEF Want
<1> QED
  BY <1>1 DEF Over

LEMMA WantBoth ==
    ASSUME NEW w \in Want, NEW v \in Want
    PROVE  /\ Over(w, v) \in Want /\ DOMAIN Over(w, v) = DOMAIN w \cup DOMAIN v
<1>1. PICK D \in SUBSET Field : w \in [D -> Int]
  BY DEF Want
<1>2. PICK E \in SUBSET Field : v \in [E -> Int]
  BY DEF Want
<1>3. Over(w, v) \in [D \cup E -> Int]
  BY <1>1, <1>2 DEF Over
<1> QED
  BY <1>1, <1>2, <1>3 DEF Want

LEMMA WantNone == <<>> \in Want /\ DOMAIN <<>> = {}
<1>1. <<>> \in [{} -> Int]
  OBVIOUS
<1> QED
  BY <1>1 DEF Want

LEMMA SaveIdle ==
    SaveAtRest \in SaveKinds /\ SaveAtRest.step = "idle" /\ Asked(SaveAtRest)
<1>1. [f \in Field |-> 0] \in [Field -> Int]
  OBVIOUS
<1> QED
  BY <1>1, WantNone DEF SaveAtRest, SaveKinds, Asked

LEMMA OfServer ==
    ASSUME NEW row \in [Field -> Int]
    PROVE  /\ FromServer(row) \in [Field -> Int]
           /\ FromServer(row)["days"] = Unset
           /\ \A f \in Field \ {"days"} : FromServer(row)[f] = row[f]
           /\ Hydrated(row) \in [name : Int, avatar : Int]
           /\ Hydrated(row).name = row["name"] /\ Hydrated(row).avatar = row["avatar"]
  BY DEF FromServer, Unset, Hydrated, Field

LEMMA InitUser == LocalUserInit => UserInv
<1> SUFFICES ASSUME LocalUserInit PROVE UserInv
  OBVIOUS
<1>1. /\ account = [f \in Field |-> 0] /\ account \in [Field -> Int]
      /\ user = FromServer(account) /\ stored = user /\ form = Hydrated(user)
      /\ panel = Unset /\ heard = Unset /\ social = {account["days"]} /\ outdated = {}
      /\ saves = [s \in Saving |-> SaveAtRest] /\ updates = <<>> /\ edits = 0
      /\ disturbed = FALSE /\ account["days"] = 0
  BY DEF LocalUserInit, Field
<1>2. /\ user \in [Field -> Int] /\ Hydrated(user) \in [name : Int, avatar : Int]
      /\ SameProfile(user) /\ SameSettings(user) /\ PanelShown /\ Timely
  BY <1>1, OfServer DEF SameProfile, SameSettings, SameTheme, SameDays, SameOrder, DaysShown,
     PanelShown, Timely, Field
<1>3. Copies
  <2>1. saves \in [Saving -> SaveKinds] /\ updates \in Seq([name : Int, avatar : Int])
    BY <1>1, SaveIdle
  <2>2. /\ form \in [name : Int, avatar : Int] /\ panel \in Int /\ edits \in Nat
        /\ heard \in Int /\ social \subseteq Int /\ account["days"] # Unset
    BY <1>1, <1>2 DEF Unset, Field
  <2> QED
    BY <1>1, <1>2, <2>1, <2>2 DEF Copies
<1>4. \A s \in Saving : Asked(saves[s]) /\ Idle(s) /\ UnderWay(saves[s])
  BY <1>1, SaveIdle DEF Idle, UnderWay
<1>5. AtEase
  BY <1>1, <1>2 DEF AtEase, Heard
<1> QED
  BY <1>3, <1>4, <1>5 DEF UserInv, Undisturbed

\* The copies are as right as they were where the row and they stay as they are.
LEMMA NothingSeen ==
    ASSUME UNCHANGED <<account, user, panels>>
    PROVE  /\ SameProfile(user)' <=> SameProfile(user)
           /\ SameSettings(user)' <=> SameSettings(user)
           /\ SameTheme(user)' <=> SameTheme(user)
           /\ SameDays(user)' <=> SameDays(user)
           /\ PanelShown' <=> PanelShown
           /\ Timely' <=> Timely
  BY DEF panels, SameProfile, SameSettings, SameTheme, SameDays, SameOrder, DaysShown, PanelShown,
     Timely, Behind

\* A save that begins while nothing is pending sees what the server has.
LEMMA BeginsSave ==
    ASSUME UserInv, NEW s \in Saving, NEW want \in Want, NEW file \in BOOLEAN,
           NEW kind \in {"profile", "preferences", "emergency", "order"},
           BeginSave(s, kind, want, file), edits' \in Nat,
           want = <<>> \/ file => kind = "profile",
           kind = "profile" => DOMAIN want \subseteq {"name", "avatar"},
           kind = "preferences" => DOMAIN want = {"theme"},
           kind = "emergency" => DOMAIN want = {"days"} /\ want["days"] # Unset,
           kind = "order" => DOMAIN want = {"order"}
    PROVE  UserInv'
<1> PICK job : job = [kind |-> kind, base |-> user, next |-> Over(want, user),
                        want |-> want, file |-> file,
                        step |-> IF want # <<>> THEN "asked" ELSE "uploading"]
  OBVIOUS
<1>1. /\ saves[s].step = "idle" /\ saves' = [saves EXCEPT ![s] = job]
      /\ disturbed' = (disturbed \/ ~NothingPending)
      /\ UNCHANGED <<account, user, stored, form, panels, updates>>
  BY DEF BeginSave, copies
<1>2. user \in [Field -> Int]
  BY DEF UserInv, Copies
<1>3. /\ job \in SaveKinds /\ Asked(job) /\ job.step \in {"asked", "uploading"}
      /\ job.base = user /\ job.want = want
      /\ job.step = "uploading" => want = <<>>
      /\ \A f \in Field : job.next[f] = IF f \in DOMAIN want THEN want[f] ELSE user[f]
  BY <1>2, WantOver DEF SaveKinds, Asked
<1>4. /\ saves' \in [Saving -> SaveKinds] /\ saves'[s] = job
      /\ \A t \in Saving \ {s} : saves'[t] = saves[t]
  BY <1>1, <1>3 DEF UserInv, Copies
<1>5. Copies'
  BY <1>1, <1>4 DEF UserInv, Copies, NothingPending, panels
<1>6. ASSUME ~ disturbed' PROVE Undisturbed'
  <2>1. /\ Undisturbed /\ updates = <<>> /\ \A t \in Saving : Idle(t)
    BY <1>1, <1>6 DEF UserInv, NothingPending, Idle, Copies
  <2>2. AtEase
    BY <2>1 DEF Undisturbed
  <2>3. Asking(job)'
    BY <1>1, <1>3, <2>1, <2>2, NothingSeen DEF Asking, AtEase
  <2>4. UnderWay(job)'
    BY <1>3, <2>3 DEF UnderWay
  <2>5. \A t \in Saving \ {s} : Idle(t)' /\ UnderWay(saves[t])'
    BY <1>4, <2>1 DEF Idle, UnderWay
  <2>6. ~ Idle(s)'
    BY <1>3, <1>4 DEF Idle
  <2> QED
    BY <1>4, <2>4, <2>5, <2>6 DEF Undisturbed
<1> QED
  BY <1>3, <1>4, <1>5, <1>6 DEF UserInv

LEMMA BeginSteps ==
    ASSUME UserInv, NEW s \in Saving,
           handleUpdateProfile(s) \/ handleUpdatePreferences(s)
             \/ saveEmergencySettings(s) \/ updateRoomSorting(s)
    PROVE  UserInv'
<1>1. /\ edits \in Nat /\ panel \in Int /\ form \in [name : Int, avatar : Int]
      /\ user \in [Field -> Int]
  BY DEF UserInv, Copies
<1>2. CASE handleUpdateProfile(s)
  <2> PICK named \in BOOLEAN, file \in BOOLEAN :
        LET want == Changes(IF named THEN edits + 1 ELSE form.name, form.avatar, file) IN
        /\ IF named THEN NewEdit ELSE UNCHANGED edits
        /\ want # <<>> \/ file
        /\ BeginSave(s, "profile", want, file)
    BY <1>2 DEF handleUpdateProfile
  <2> PICK n : n = IF named THEN edits + 1 ELSE form.name
    OBVIOUS
  <2> PICK w : w = Changes(n, form.avatar, file)
    OBVIOUS
  <2>1. /\ n \in Int /\ BeginSave(s, "profile", w, file)
        /\ edits' = edits + 1 \/ edits' = edits
    BY <1>1 DEF NewEdit
  <2>2. w \in Want /\ DOMAIN w \subseteq {"name", "avatar"}
    <3> PICK a : a = IF n # user.name THEN Only("name", n) ELSE <<>>
      OBVIOUS
    <3> PICK b : b = IF ~file /\ form.avatar # user.avatar
                     THEN Only("avatar", form.avatar) ELSE <<>>
      OBVIOUS
    <3>1. a \in Want /\ DOMAIN a \subseteq {"name"}
      BY <2>1, WantOne, WantNone DEF Field
    <3>2. b \in Want /\ DOMAIN b \subseteq {"avatar"}
      BY <1>1, WantOne, WantNone DEF Field
    <3>3. w = Over(a, b)
      BY DEF Changes
    <3>4. Over(a, b) \in Want /\ DOMAIN Over(a, b) = DOMAIN a \cup DOMAIN b
      BY <3>1, <3>2, WantBoth
    <3> QED
      BY <3>1, <3>2, <3>3, <3>4
  <2> QED
    BY <1>1, <2>1, <2>2, BeginsSave
<1>3. ASSUME NEW f \in Field, NEW n \in Int, edits' \in Nat,
             NEW kind \in {"preferences", "emergency", "order"},
             BeginSave(s, kind, Only(f, n), FALSE),
             kind = "preferences" => f = "theme",
             kind = "emergency" => f = "days" /\ n # Unset, kind = "order" => f = "order"
      PROVE  UserInv'
  <2>1. /\ Only(f, n) \in Want /\ DOMAIN Only(f, n) = {f} /\ Only(f, n) # <<>>
        /\ Only(f, n)[f] = n
    BY <1>3, WantOne
  <2> QED
    BY <1>3, <2>1, BeginsSave
<1> PICK e : e = edits'
  OBVIOUS
<1>4. NewEdit => e \in Int /\ edits' \in Nat /\ e # Unset
  BY <1>1 DEF NewEdit, Unset
<1>5. CASE handleUpdatePreferences(s)
  <2>1. BeginSave(s, "preferences", Only("theme", e), FALSE) /\ NewEdit
    BY <1>5 DEF handleUpdatePreferences
  <2> QED
    BY <1>3, <1>4, <2>1 DEF Field
<1>6. CASE saveEmergencySettings(s)
  <2>1. CASE NewEdit /\ BeginSave(s, "emergency", Only("days", edits'), FALSE)
    <3>1. BeginSave(s, "emergency", Only("days", e), FALSE) /\ NewEdit
      BY <2>1
    <3> QED
      BY <1>3, <1>4, <3>1 DEF Field
  <2>2. CASE /\ panel # Unset /\ UNCHANGED edits
             /\ BeginSave(s, "emergency", Only("days", panel), FALSE)
    <3> PICK p : p = panel
      OBVIOUS
    <3>1. /\ BeginSave(s, "emergency", Only("days", p), FALSE) /\ p \in Int /\ p # Unset
          /\ edits' \in Nat
      BY <1>1, <2>2
    <3> QED
      BY <1>3, <3>1 DEF Field
  <2> QED
    BY <1>6, <2>1, <2>2 DEF saveEmergencySettings
<1>7. CASE updateRoomSorting(s)
  <2>1. BeginSave(s, "order", Only("order", e), FALSE) /\ NewEdit
    BY <1>7 DEF updateRoomSorting
  <2> QED
    BY <1>3, <1>4, <2>1 DEF Field
<1> QED
  BY <1>2, <1>5, <1>6, <1>7

-----------------------------------------------------------------------------
LEMMA WantField == ASSUME NEW w \in Want, NEW f \in DOMAIN w PROVE w[f] \in Int
<1>1. PICK D \in SUBSET Field : w \in [D -> Int]
  BY DEF Want
<1> QED
  BY <1>1

\* What each kind of save makes of the server's row.
LEMMA NextOf ==
    ASSUME NEW job \in SaveKinds, Asked(job), job.step # "idle",
           NEW row \in [Field -> Int], NEW n, n = NextUser(job, row)
    PROVE  /\ n \in [Field -> Int]
           /\ job.kind = "profile" =>
                /\ n["name"] = row["name"] /\ n["avatar"] = row["avatar"]
                /\ n["theme"] = job.base["theme"] /\ n["order"] = Unset
                /\ n["days"] = job.next["days"]
           /\ job.kind = "preferences" =>
                /\ n["theme"] = row["theme"] /\ n["days"] = row["days"]
                /\ \A f \in {"name", "avatar", "order"} : n[f] = job.next[f]
           /\ job.kind = "emergency" =>
                /\ n["days"] = job.want["days"]
                /\ \A f \in {"name", "avatar", "theme", "order"} : n[f] = job.next[f]
           /\ job.kind = "order" =>
                /\ n["order"] = row["order"]
                /\ \A f \in {"name", "avatar", "theme", "days"} : n[f] = job.next[f]
<1>1. /\ job.next \in [Field -> Int] /\ job.base \in [Field -> Int]
      /\ job.kind \in {"profile", "preferences", "emergency", "order"} /\ job.want \in Want
  BY DEF SaveKinds, Asked
<1>2. CASE job.kind = "profile"
  <2>1. n = [job.next EXCEPT !["name"] = row["name"], !["avatar"] = row["avatar"],
                      !["theme"] = job.base["theme"], !["order"] = Unset]
    BY <1>2 DEF NextUser, Merged
  <2> QED
    BY <1>1, <1>2, <2>1 DEF Field, Unset
<1>3. CASE job.kind = "preferences"
  <2>1. n = [job.next EXCEPT !["theme"] = row["theme"], !["days"] = row["days"]]
    BY <1>3 DEF NextUser
  <2> QED
    BY <1>1, <1>3, <2>1 DEF Field
<1>4. CASE job.kind = "emergency"
  <2>1. n = [job.next EXCEPT !["days"] = job.want["days"]]
    BY <1>4 DEF NextUser
  <2>2. job.want["days"] \in Int
    BY <1>1, <1>4, WantField DEF Asked
  <2> QED
    BY <1>1, <1>4, <2>1, <2>2 DEF Field
<1>5. CASE job.kind = "order"
  <2>1. n = [job.next EXCEPT !["order"] = row["order"]]
    BY <1>5 DEF NextUser
  <2> QED
    BY <1>1, <1>5, <2>1 DEF Field
<1> QED
  BY <1>1, <1>2, <1>3, <1>4, <1>5

LEMMA Appended ==
    ASSUME Copies, NEW row \in [Field -> Int], PublishUpdate(row)
    PROVE  /\ updates' \in Seq([name : Int, avatar : Int]) /\ updates' # <<>>
           /\ updates'[Len(updates')] = Hydrated(row)
<1>1. Hydrated(row) \in [name : Int, avatar : Int]
  BY OfServer
<1>2. updates' = Append(updates, Hydrated(row)) /\ updates \in Seq([name : Int, avatar : Int])
  BY DEF PublishUpdate, Copies
<1> QED
  BY <1>1, <1>2

\* One save moves on: what it is then is all there is to show.
LEMMA OneMoves ==
    ASSUME UserInv, NEW s \in Saving, ~ Idle(s), NEW job \in SaveKinds,
           saves' = [saves EXCEPT ![s] = job], Asked(job), job.step # "idle",
           Copies', disturbed' = disturbed,
           Undisturbed => UnderWay(job)'
    PROVE  UserInv'
<1>1. /\ saves'[s] = job
      /\ \A t \in Saving \ {s} : saves'[t] = saves[t]
  BY DEF UserInv, Copies
<1>2. ASSUME ~ disturbed' PROVE Undisturbed'
  <2>1. Undisturbed
    BY <1>2 DEF UserInv
  <2>2. \A t \in Saving \ {s} : Idle(t)
    BY <2>1 DEF Undisturbed
  <2>3. \A t \in Saving \ {s} : Idle(t)' /\ UnderWay(saves[t])'
    BY <1>1, <2>2 DEF Idle, UnderWay
  <2>4. ~ Idle(s)' /\ UnderWay(saves[s])'
    BY <1>1, <2>1 DEF Idle
  <2> QED
    BY <2>3, <2>4 DEF Undisturbed
<1> QED
  BY <1>1, <1>2 DEF UserInv

LEMMA UpdateStep ==
    ASSUME UserInv, NEW s \in Saving, Update(s)
    PROVE  UserInv'
<1> PICK job : job = saves[s]
  OBVIOUS
<1> PICK row : row = Over(job.want, account)
  OBVIOUS
<1> PICK n : n = NextUser(job, row)
  OBVIOUS
<1> PICK step : step = IF job.file THEN "uploading" ELSE "answered"
  OBVIOUS
<1> PICK done : done = [job EXCEPT !.next = n, !.step = step]
  OBVIOUS
<1>1. /\ job.step = "asked" /\ account' = row
      /\ saves' = [saves EXCEPT ![s].next = n, ![s].step = step]
      /\ IF job.kind = "profile" THEN PublishUpdate(row) ELSE UNCHANGED updates
      /\ UNCHANGED <<user, stored, form, panels, edits, disturbed>>
  BY DEF Update, copies
<1>2. /\ job \in SaveKinds /\ Asked(job) /\ Copies /\ account \in [Field -> Int]
      /\ job.want \in Want /\ job.file \in BOOLEAN
  BY DEF UserInv, Copies, SaveKinds
<1>3. /\ row \in [Field -> Int]
      /\ \A f \in Field : row[f] = IF f \in DOMAIN job.want THEN job.want[f] ELSE account[f]
  BY <1>2, WantOver
<1>4. n \in [Field -> Int]
  BY <1>1, <1>2, <1>3, NextOf
<1>5. /\ done \in SaveKinds /\ done.kind = job.kind /\ done.want = job.want
      /\ done.file = job.file /\ done.base = job.base /\ done.next = n /\ done.step = step
      /\ step \in {"uploading", "answered"}
  BY <1>2, <1>4 DEF SaveKinds
<1>6. saves' = [saves EXCEPT ![s] = done]
  BY <1>1, <1>2 DEF Copies
<1>7. updates' \in Seq([name : Int, avatar : Int])
  BY <1>1, <1>2, <1>3, Appended DEF Copies
<1>8. Copies'
  <2>1. account'["days"] # Unset
    <3>1. "days" \in DOMAIN job.want => job.kind = "emergency"
      BY <1>1, <1>2 DEF Asked, SaveKinds
    <3>2. /\ job.kind = "emergency" => job.want["days"] # Unset
          /\ account["days"] # Unset
      BY <1>2 DEF Asked, Copies
    <3> QED
      BY <1>1, <1>3, <3>1, <3>2 DEF Field
  <2> QED
    BY <1>1, <1>2, <1>3, <1>5, <1>6, <1>7, <2>1 DEF Copies, panels
<1>9. Asked(done) /\ ~ Idle(s)
  BY <1>1, <1>2, <1>5 DEF Asked, Idle
<1>10. ASSUME Undisturbed PROVE UnderWay(done)'
  <2>1. Asking(job)
    BY <1>1, <1>10 DEF Undisturbed, UnderWay
  <2>2. Heard' /\ (job.kind # "profile" => updates' = <<>>)
    BY <1>1, <1>2, <1>3, <2>1, Appended DEF Asking, Heard
  <2> DEFINE seen == <<user, panel, heard, social, outdated>>
  <2>3. seen' = seen
    BY <1>1 DEF panels
  <2>4. CASE job.kind = "profile"
    <3>1. /\ n["name"] = row["name"] /\ n["avatar"] = row["avatar"]
          /\ n["theme"] = user["theme"] /\ n["order"] = Unset
          /\ n["days"] = user["days"]
          /\ row["theme"] = account["theme"] /\ row["order"] = account["order"]
          /\ row["days"] = account["days"]
      BY <1>1, <1>2, <1>3, <2>1, <2>4, NextOf DEF Asking, Asked, Field
    <3>2. /\ SameSettings(user)' /\ PanelShown' /\ Timely'
      BY <1>1, <2>1, <2>3, <3>1 DEF Asking, SameSettings, SameTheme, SameDays, SameOrder,
         DaysShown, PanelShown, Timely, Behind
    <3>3. SameProfile(n)' /\ SameSettings(n)' /\ SameTheme(done.base)'
      BY <1>1, <1>5, <2>1, <2>3, <3>1 DEF Asking, SameSettings, SameTheme, SameDays, SameOrder,
         SameProfile, DaysShown
    <3>4. Halfway(done)' /\ BroughtBack(done)'
      BY <1>5, <2>2, <2>3, <2>4, <3>1, <3>2, <3>3 DEF Halfway, BroughtBack
    <3>5. done.want # <<>> /\ done.step \in {"uploading", "answered"}
      BY <1>1, <1>2, <1>5 DEF Asked
    <3> QED
      BY <3>4, <3>5 DEF UnderWay
  <2>5. CASE job.kind # "profile"
    <3>1. step = "answered" /\ job.kind \in {"preferences", "emergency", "order"}
      BY <1>1, <1>2, <2>5 DEF Asked, SaveKinds
    <3>2. /\ \A f \in Field : job.next[f] = IF f \in DOMAIN job.want THEN job.want[f]
                                             ELSE user[f]
          /\ job.base = user /\ SameProfile(user) /\ SameSettings(user) /\ PanelShown /\ Timely
      BY <2>1 DEF Asking
    <3>3. CASE job.kind = "preferences"
      <4>1. /\ n["theme"] = row["theme"] /\ n["days"] = row["days"]
            /\ \A f \in {"name", "avatar", "order"} : n[f] = user[f] /\ row[f] = account[f]
            /\ row["days"] = account["days"]
        BY <1>1, <1>2, <1>3, <3>2, <3>3, NextOf DEF Asked, Field
      <4>2. SameProfile(n)' /\ SameSettings(n)' /\ SameDays(done.base)'
        BY <1>1, <1>5, <2>3, <3>2, <4>1 DEF SameSettings, SameTheme, SameDays, SameOrder,
           SameProfile, DaysShown
      <4> QED
        BY <1>1, <1>5, <2>2, <2>5, <3>1, <3>3, <4>1, <4>2 DEF UnderWay, BroughtBack
    <3>4. CASE job.kind = "emergency"
      <4>1. /\ n["days"] = job.want["days"] /\ row["days"] = job.want["days"]
            /\ \A f \in {"name", "avatar", "theme", "order"} :
                 n[f] = user[f] /\ row[f] = account[f]
        BY <1>1, <1>2, <1>3, <3>2, <3>4, NextOf DEF Asked, Field
      <4>2. SameProfile(n)' /\ SameSettings(n)'
        BY <1>1, <1>5, <2>3, <3>2, <4>1 DEF SameSettings, SameTheme, SameDays, SameOrder,
           SameProfile, DaysShown
      <4> QED
        BY <1>1, <1>5, <2>2, <2>5, <3>1, <3>4, <4>1, <4>2 DEF UnderWay, BroughtBack
    <3>5. CASE job.kind = "order"
      <4>1. /\ n["order"] = row["order"]
            /\ \A f \in {"name", "avatar", "theme", "days"} :
                 n[f] = user[f] /\ row[f] = account[f]
        BY <1>1, <1>2, <1>3, <3>2, <3>5, NextOf DEF Asked, Field
      <4>2. /\ SameProfile(n)' /\ SameSettings(n)'
            /\ SameProfile(user)' /\ SameTheme(user)' /\ SameDays(user)'
            /\ PanelShown' /\ Timely'
        BY <1>1, <1>5, <2>3, <3>2, <4>1 DEF SameSettings, SameTheme, SameDays, SameOrder,
           SameProfile, DaysShown, PanelShown, Timely, Behind
      <4> QED
        BY <1>1, <1>5, <2>2, <2>5, <3>1, <3>5, <4>1, <4>2 DEF UnderWay, BroughtBack
    <3> QED
      BY <3>1, <3>3, <3>4, <3>5
  <2> QED
    BY <2>4, <2>5
<1> QED
  BY <1>5, <1>6, <1>8, <1>9, <1>10, <1>1, OneMoves

LEMMA uploadAvatarStep ==
    ASSUME UserInv, NEW s \in Saving, uploadAvatar(s)
    PROVE  UserInv'
<1> PICK job : job = saves[s]
  OBVIOUS
<1> PICK row : row = [account EXCEPT !["avatar"] = edits + 1]
  OBVIOUS
<1> PICK n : n = NextUser(job, row)
  OBVIOUS
<1> PICK done : done = [job EXCEPT !.next = n, !.step = "answered"]
  OBVIOUS
<1>1. /\ job.step = "uploading" /\ account' = row /\ edits' = edits + 1
      /\ saves' = [saves EXCEPT ![s].next = n, ![s].step = "answered"]
      /\ PublishUpdate(row)
      /\ UNCHANGED <<user, stored, form, panels, disturbed>>
  BY DEF uploadAvatar, NewEdit, copies
<1>2. /\ job \in SaveKinds /\ Asked(job) /\ Copies /\ account \in [Field -> Int]
      /\ job.kind = "profile" /\ edits \in Nat
  BY <1>1 DEF UserInv, Copies, Asked
<1>3. /\ row \in [Field -> Int]
      /\ \A f \in {"theme", "days", "order"} : row[f] = account[f]
  BY <1>2 DEF Field
<1>4. /\ n \in [Field -> Int]
      /\ n["name"] = row["name"] /\ n["avatar"] = row["avatar"]
      /\ n["theme"] = job.base["theme"] /\ n["order"] = Unset
      /\ n["days"] = job.next["days"]
  <2>1. job \in SaveKinds /\ Asked(job) /\ job.step # "idle" /\ row \in [Field -> Int]
    BY <1>1, <1>2, <1>3
  <2>2. /\ n \in [Field -> Int]
        /\ job.kind = "profile" =>
                /\ n["name"] = row["name"] /\ n["avatar"] = row["avatar"]
                /\ n["theme"] = job.base["theme"] /\ n["order"] = Unset
                /\ n["days"] = job.next["days"]
    BY ONLY <2>1, n = NextUser(job, row), NextOf
  <2> QED
    BY <1>2, <2>2
<1>5. /\ done \in SaveKinds /\ done.kind = job.kind /\ done.want = job.want
      /\ done.file = job.file /\ done.base = job.base /\ done.next = n
      /\ done.step = "answered"
  BY <1>2, <1>4 DEF SaveKinds
<1>6. saves' = [saves EXCEPT ![s] = done]
  BY <1>1, <1>2 DEF Copies
<1>7. /\ updates' \in Seq([name : Int, avatar : Int]) /\ Heard'
  BY <1>1, <1>2, <1>3, Appended DEF Heard
<1>8. Copies'
  <2>1. account'["days"] # Unset
    BY <1>1, <1>2, <1>3 DEF Copies, Asked, Field
  <2> QED
    BY <1>1, <1>2, <1>3, <1>5, <1>6, <1>7, <2>1 DEF Copies, panels
<1>9. Asked(done) /\ ~ Idle(s)
  BY <1>1, <1>2, <1>5 DEF Asked, Idle
<1>10. ASSUME Undisturbed PROVE UnderWay(done)'
  <2>1. /\ SameSettings(user) /\ PanelShown /\ Timely /\ SameTheme(job.base)
        /\ job.next["days"] = user["days"]
    <3>1. CASE job.want = <<>>
      BY <1>1, <1>10, <3>1, WantNone DEF Undisturbed, UnderWay, Asking, SameSettings, Field
    <3>2. CASE job.want # <<>>
      BY <1>1, <1>10, <3>2 DEF Undisturbed, UnderWay, Halfway
    <3> QED
      BY <3>1, <3>2
  <2>2. user' = user /\ panel' = panel /\ heard' = heard /\ social' = social
        /\ outdated' = outdated
    BY <1>1 DEF panels
  <2>3. PanelShown' /\ Timely' /\ SameProfile(n)' /\ SameSettings(n)'
    BY <1>1, <1>3, <1>4, <2>1, <2>2 DEF SameSettings, SameTheme, SameDays, SameOrder, SameProfile,
       DaysShown, PanelShown, Timely, Behind
  <2> QED
    BY <1>1, <1>2, <1>4, <1>5, <1>7, <2>1, <2>2, <2>3 DEF UnderWay, BroughtBack
<1> QED
  BY <1>5, <1>6, <1>8, <1>9, <1>10, <1>1, OneMoves

-----------------------------------------------------------------------------
\* What a step that leaves no save under way has to show.
LEMMA NoneUnderWay ==
    ASSUME UserInv, Copies', \A t \in Saving : Asked(saves[t])',
           ~ disturbed' => /\ \A t \in Saving : Idle(t)'
                           /\ AtEase'
    PROVE  UserInv'
<1>1. \A t \in Saving : Idle(t)' => UnderWay(saves[t])'
  BY DEF Idle, UnderWay
<1> QED
  BY <1>1 DEF UserInv, Undisturbed

LEMMA SaveFailsStep ==
    ASSUME UserInv, NEW s \in Saving, SaveFails(s)
    PROVE  UserInv'
<1>1. /\ ~ Idle(s) /\ saves' = [saves EXCEPT ![s] = SaveAtRest]
      /\ disturbed' = (disturbed \/ saves[s].step = "answered"
                       \/ (saves[s].step = "uploading" /\ saves[s].want # <<>>))
      /\ UNCHANGED <<account, user, stored, form, panels, updates, edits>>
  BY DEF SaveFails, Idle, copies
<1>2. /\ saves' \in [Saving -> SaveKinds] /\ saves'[s] = SaveAtRest
      /\ \A t \in Saving \ {s} : saves'[t] = saves[t]
      /\ saves[s].step \in {"idle", "asked", "uploading", "answered"}
  BY <1>1, SaveIdle DEF UserInv, Copies, SaveKinds
<1>3. Copies' /\ \A t \in Saving : Asked(saves[t])'
  BY <1>1, <1>2, SaveIdle DEF UserInv, Copies, panels
<1>4. ASSUME ~ disturbed' PROVE (\A t \in Saving : Idle(t)') /\ AtEase'
  <2>1. Undisturbed
    BY <1>1, <1>4 DEF UserInv
  <2>2. Asking(saves[s])
    BY <1>1, <1>2, <1>4, <2>1 DEF Undisturbed, UnderWay, Idle
  <2>3. \A t \in Saving : Idle(t)'
    BY <1>1, <1>2, <2>1, SaveIdle DEF Undisturbed, Idle
  <2>4. AtEase'
    BY <1>1, <2>2, NothingSeen DEF Asking, AtEase, Heard
  <2> QED
    BY <2>3, <2>4
<1> QED
  BY <1>3, <1>4, NoneUnderWay

LEMMA FinishStep ==
    ASSUME UserInv, NEW s \in Saving, Finish(s)
    PROVE  UserInv'
<1> PICK job : job = saves[s]
  OBVIOUS
<1> PICK next : next = IF job.kind = "order" THEN [user EXCEPT !["order"] = job.next["order"]]
                       ELSE job.next
  OBVIOUS
<1>1. /\ job.step = "answered" /\ user' = next
      /\ stored' = (IF job.kind = "order" THEN stored ELSE job.next)
      /\ form' = Hydrated(stored')
      /\ saves' = [saves EXCEPT ![s] = SaveAtRest]
      /\ UNCHANGED <<account, heard, social, updates, edits, disturbed>>
      /\ ShowPanel(job)
  BY DEF Finish, Keep
<1>2. /\ job \in SaveKinds /\ Asked(job) /\ job.next \in [Field -> Int]
      /\ job.base \in [Field -> Int] /\ job.want \in Want /\ Copies
      /\ job.kind \in {"profile", "preferences", "emergency", "order"}
  BY <1>1 DEF UserInv, Copies, SaveKinds, Asked
<1>3. /\ saves' \in [Saving -> SaveKinds] /\ saves'[s] = SaveAtRest
      /\ \A t \in Saving \ {s} : saves'[t] = saves[t]
  BY <1>1, <1>2, SaveIdle DEF Copies
<1>4. user' \in [Field -> Int] /\ stored' \in [Field -> Int]
  BY <1>1, <1>2 DEF Copies, Field
<1>5. form' \in [name : Int, avatar : Int]
  BY <1>1, <1>4, OfServer
<1>6. panel' \in Int
  <2>1. job.kind = "emergency" => job.want["days"] \in Int
    BY <1>2, WantField DEF Asked
  <2>2. job.base["days"] \in Int /\ panel \in Int
    BY <1>2 DEF Copies, Field
  <2> QED
    BY <1>1, <2>1, <2>2 DEF ShowPanel
<1>7. Copies' /\ \A t \in Saving : Asked(saves[t])'
  <2>1. Copies'
    BY <1>1, <1>2, <1>3, <1>4, <1>5, <1>6 DEF Copies
  <2> QED
    BY <1>3, <2>1, SaveIdle DEF UserInv
<1>8. ASSUME ~ disturbed' PROVE (\A t \in Saving : Idle(t)') /\ AtEase'
  <2>1. Undisturbed /\ ~ Idle(s) /\ BroughtBack(job)
    BY <1>1, <1>8 DEF UserInv, Undisturbed, UnderWay, Idle
  <2>2. \A t \in Saving : Idle(t)'
    BY <1>3, <2>1, SaveIdle DEF Undisturbed, Idle
  <2>3. \A f \in Field : next[f] = IF job.kind = "order" /\ f # "order" THEN user[f]
                                    ELSE job.next[f]
    BY <1>2 DEF Copies, Field
  <2>4. SameProfile(next)
    BY <2>1, <2>3 DEF BroughtBack, SameProfile, Field
  <2>5. CASE job.kind = "preferences"
    <3>1. /\ panel' = job.base["days"]
          /\ outdated' = (outdated \ {"theme", "days", "panel"}) \cup
                         (IF "days" \in outdated THEN {"panel"} ELSE {})
          /\ user'["theme"] = account["theme"] /\ user'["days"] = account["days"]
          /\ user'["order"] = job.next["order"] /\ account["days"] # Unset
      BY <1>1, <1>2, <2>1, <2>3, <2>5 DEF ShowPanel, BroughtBack, Copies, Field
    <3>2. SameSettings(user)' /\ PanelShown' /\ Timely'
      BY <1>1, <2>1, <2>5, <3>1 DEF BroughtBack, SameSettings, SameTheme, SameDays, SameOrder,
         DaysShown, PanelShown, Timely, Behind
    <3> QED
      BY <1>1, <2>1, <2>2, <2>4, <3>2 DEF BroughtBack, AtEase, Heard, SameProfile
  <2>6. CASE job.kind = "emergency"
    <3>1. /\ user'["days"] = account["days"] /\ account["days"] # Unset
          /\ user'["theme"] = job.next["theme"] /\ user'["order"] = job.next["order"]
          /\ \/ panel' = account["days"] /\ outdated' = outdated \ {"days", "panel"}
             \/ outdated' = (outdated \ {"days"}) \cup {"panel"}
      BY <1>1, <1>2, <2>1, <2>3, <2>6 DEF ShowPanel, BroughtBack, Copies, Field
    <3>2. SameSettings(user)' /\ PanelShown' /\ Timely'
      BY <1>1, <2>1, <2>6, <3>1 DEF BroughtBack, SameSettings, SameTheme, SameDays, SameOrder,
         DaysShown, PanelShown, Timely, Behind
    <3> QED
      BY <1>1, <2>1, <2>2, <2>4, <3>2 DEF BroughtBack, AtEase, Heard, SameProfile
  <2>7. CASE job.kind \in {"profile", "order"}
    <3>1. /\ panel' = panel /\ outdated' = outdated \ {"order"}
          /\ user'["days"] = user["days"] /\ PanelShown /\ Timely
          /\ user'["order"] \in {account["order"], Unset}
          /\ SameTheme(next) /\ SameDays(next)
      <4>1. panel' = panel /\ outdated' = outdated \ {"order"} /\ PanelShown /\ Timely
        BY <1>1, <2>1, <2>7 DEF ShowPanel, Renewed, BroughtBack
      <4>2. CASE job.kind = "profile"
        BY <1>1, <2>1, <2>3, <4>1, <4>2 DEF BroughtBack, SameSettings, SameTheme, SameDays, Field
      <4>3. CASE job.kind = "order"
        BY <1>1, <2>1, <2>3, <4>1, <4>3 DEF BroughtBack, SameTheme, SameDays, Field
      <4> QED
        BY <2>7, <4>2, <4>3
    <3>2. SameSettings(user)' /\ PanelShown' /\ Timely'
      BY <1>1, <3>1 DEF SameSettings, SameTheme, SameDays, SameOrder, DaysShown, PanelShown,
         Timely, Behind
    <3> QED
      BY <1>1, <2>1, <2>2, <2>4, <3>2 DEF BroughtBack, AtEase, Heard, SameProfile
  <2> QED
    BY <1>2, <2>5, <2>6, <2>7
<1> QED
  BY <1>7, <1>8, NoneUnderWay

LEMMA QueueEnds ==
    ASSUME NEW S, NEW q \in Seq(S), q # <<>>
    PROVE  /\ q[1] \in S /\ Tail(q) \in Seq(S)
           /\ Tail(q) = <<>> => q[1] = q[Len(q)]
           /\ Tail(q) # <<>> => Tail(q)[Len(Tail(q))] = q[Len(q)]
<1>1. Len(q) \in Nat \ {0} /\ \A i \in 1..Len(q) : q[i] \in S
  OBVIOUS
<1>2. /\ Tail(q) \in Seq(S) /\ Len(Tail(q)) = Len(q) - 1
      /\ \A i \in 1..Len(q) - 1 : Tail(q)[i] = q[i + 1]
  BY <1>1
<1>3. ASSUME Tail(q) = <<>> PROVE Len(q) = 1
  <2>1. Len(Tail(q)) = Len(<<>>) /\ Len(<<>>) = 0
    BY <1>3
  <2>2. PICK n \in Nat : n = Len(q)
    BY <1>1
  <2>3. n - 1 = 0
    BY <1>2, <2>1, <2>2
  <2> QED
    BY <2>2, <2>3
<1>4. Tail(q) # <<>> => Len(Tail(q)) > 0
  BY <1>2
<1> QED
  BY <1>1, <1>2, <1>3, <1>4

LEMMA UserUpdatedStep ==
    ASSUME UserInv, UserUpdated
    PROVE  UserInv'
<1> PICK h : h = updates[1]
  OBVIOUS
<1> PICK next : next = Over(h, user)
  OBVIOUS
<1>1. /\ updates # <<>> /\ updates' = Tail(updates) /\ user' = next
      /\ stored' = stored /\ form' = Hydrated(stored)
      /\ UNCHANGED <<account, panels, saves, edits, disturbed>>
  BY DEF UserUpdated, Keep, UserInv, Copies
<1>2. Copies /\ user \in [Field -> Int] /\ h \in [name : Int, avatar : Int]
  <2>1. Copies /\ user \in [Field -> Int] /\ updates \in Seq([name : Int, avatar : Int])
    BY DEF UserInv, Copies
  <2> QED
    BY <1>1, <2>1, QueueEnds
<1>3. /\ next \in [Field -> Int] /\ next["name"] = h.name /\ next["avatar"] = h.avatar
      /\ \A f \in {"theme", "days", "order"} : next[f] = user[f]
  BY <1>2 DEF Over, Field
<1>4. /\ updates' \in Seq([name : Int, avatar : Int])
      /\ updates' = <<>> => h = updates[Len(updates)]
      /\ updates' # <<>> => updates'[Len(updates')] = updates[Len(updates)]
  <2>1. updates \in Seq([name : Int, avatar : Int])
    BY <1>2 DEF Copies
  <2> QED
    BY <1>1, <2>1, QueueEnds
<1>5. Copies'
  <2>1. form' \in [name : Int, avatar : Int]
    BY <1>1, <1>2, OfServer DEF Copies
  <2> QED
    BY <1>1, <1>2, <1>3, <1>4, <2>1 DEF Copies, panels
<1>6. ASSUME ~ disturbed' PROVE Undisturbed'
  <2>1. Undisturbed
    BY <1>1, <1>6 DEF UserInv
  <2>2. Heard => Heard' /\ (updates' = <<>> => SameProfile(next))
    <3>1. /\ Hydrated(account).name = account["name"]
          /\ Hydrated(account).avatar = account["avatar"]
      BY <1>2, OfServer DEF Copies
    <3> QED
      BY <1>1, <1>3, <1>4, <3>1 DEF Heard, SameProfile
  <2> DEFINE seen == <<account, panel, heard, social, outdated>>
  <2>3. /\ SameSettings(user) => SameSettings(user)'
        /\ PanelShown => PanelShown'
        /\ Timely => Timely'
    BY <1>1, <1>3 DEF panels, SameSettings, SameTheme, SameDays, SameOrder, DaysShown, PanelShown,
       Timely, Behind
  <2>4. ASSUME NEW t \in Saving PROVE UnderWay(saves[t])'
    <3>1. UnderWay(saves[t]) /\ saves'[t] = saves[t]
      BY <1>1, <2>1 DEF Undisturbed
    <3>2. ~ Asking(saves[t])
      BY <1>1 DEF Asking
    <3>3. seen' = seen
      BY <1>1 DEF panels
    <3>4. Halfway(saves[t]) => Halfway(saves[t])'
      BY <1>1, <1>3, <2>2, <2>3, <3>3
         DEF Halfway, SameProfile, SameSettings, SameTheme, SameDays, SameOrder, DaysShown
    <3>5. BroughtBack(saves[t]) => BroughtBack(saves[t])'
      <4>1. BroughtBack(saves[t]) => saves[t].kind = "profile"
        BY <1>1 DEF BroughtBack
      <4> QED
        BY <1>1, <1>3, <2>2, <2>3, <3>3, <4>1
           DEF BroughtBack, SameProfile, SameSettings, SameTheme, SameDays, SameOrder, DaysShown
    <3> QED
      BY <3>1, <3>2, <3>4, <3>5 DEF UnderWay
  <2>5. AtEase => AtEase'
    BY <1>1, <2>2, <2>3 DEF AtEase, SameProfile
  <2> QED
    BY <1>1, <2>1, <2>4, <2>5 DEF Undisturbed, Idle
<1>7. \A t \in Saving : Asked(saves[t])'
  BY <1>1 DEF UserInv
<1> QED
  BY <1>5, <1>6, <1>7 DEF UserInv

LEMMA ElsewhereUpdatedStep ==
    ASSUME UserInv, ElsewhereUpdated
    PROVE  UserInv'
<1>1. PICK f \in Field :
        /\ account' = [account EXCEPT ![f] = edits']
        /\ IF f \in {"name", "avatar"} THEN PublishUpdate(account') /\ UNCHANGED outdated
           ELSE /\ outdated' = outdated \cup {f} \cup (IF f = "days" THEN {"panel"} ELSE {})
                /\ UNCHANGED updates
  BY DEF ElsewhereUpdated
<1>2. /\ edits' = edits + 1 /\ edits \in Nat
      /\ disturbed' = (disturbed \/ \E s \in Saving : ~ Idle(s))
      /\ UNCHANGED <<user, stored, form, panel, heard, social, saves>>
  BY DEF ElsewhereUpdated, NewEdit, Idle, UserInv, Copies, copies
<1>3. Copies /\ account \in [Field -> Int] /\ disturbed \in BOOLEAN /\ account["days"] # Unset
  BY DEF UserInv, Copies
<1>4. /\ account' \in [Field -> Int] /\ account'["days"] # Unset
      /\ \A g \in Field \ {f} : account'[g] = account[g]
  BY <1>1, <1>2, <1>3 DEF Field, Unset
<1>5. CASE f \in {"name", "avatar"}
  <2>1. PublishUpdate(account') /\ outdated' = outdated
    BY <1>1, <1>5
  <2>2. /\ updates' \in Seq([name : Int, avatar : Int]) /\ updates' # <<>> /\ Heard'
    BY <1>3, <1>4, <2>1, Appended DEF Heard
  <2>3. Copies'
    BY <1>2, <1>3, <1>4, <2>1, <2>2 DEF Copies
  <2>4. ASSUME ~ disturbed' PROVE (\A t \in Saving : Idle(t)') /\ AtEase'
    <3>1. AtEase /\ \A s \in Saving : Idle(s)
      BY <1>2, <2>4 DEF UserInv, Undisturbed
    <3>2. \A g \in {"theme", "days", "order"} : account'[g] = account[g]
      BY <1>4, <1>5 DEF Field
    <3>3. SameSettings(user)' /\ PanelShown' /\ Timely'
      BY <1>2, <2>1, <3>1, <3>2 DEF AtEase, SameSettings, SameTheme, SameDays, SameOrder, DaysShown,
         PanelShown, Timely, Behind
    <3> QED
      BY <1>2, <2>2, <3>1, <3>3 DEF Idle, AtEase
  <2>5. \A t \in Saving : Asked(saves[t])'
    BY <1>2 DEF UserInv
  <2> QED
    BY <2>3, <2>4, <2>5, NoneUnderWay
<1>6. CASE f \in {"theme", "days", "order"}
  <2>1. /\ outdated' = outdated \cup {f} \cup (IF f = "days" THEN {"panel"} ELSE {})
        /\ updates' = updates
    BY <1>1, <1>6
  <2>2. Copies'
    BY <1>2, <1>3, <1>4, <2>1 DEF Copies
  <2>3. account'["name"] = account["name"] /\ account'["avatar"] = account["avatar"]
    BY <1>4, <1>6 DEF Field
  <2>4. ASSUME ~ disturbed' PROVE (\A t \in Saving : Idle(t)') /\ AtEase'
    <3>1. AtEase /\ \A s \in Saving : Idle(s)
      BY <1>2, <2>4 DEF UserInv, Undisturbed
    <3>2. \A g \in {"theme", "days", "order"} \ {f} : account'[g] = account[g]
      BY <1>4, <1>6 DEF Field
    <3>3. SameSettings(user)' /\ PanelShown' /\ Timely'
      BY <1>2, <1>6, <2>1, <3>1, <3>2 DEF AtEase, SameSettings, SameTheme, SameDays, SameOrder,
         DaysShown, PanelShown, Timely, Behind
    <3>4. Heard' /\ (updates' = <<>> => SameProfile(user)')
      BY <1>2, <2>1, <2>3, <3>1 DEF AtEase, Heard, Hydrated, SameProfile
    <3> QED
      BY <1>2, <3>1, <3>3, <3>4 DEF Idle, AtEase
  <2>5. \A t \in Saving : Asked(saves[t])'
    BY <1>2 DEF UserInv
  <2> QED
    BY <2>2, <2>4, <2>5, NoneUnderWay
<1> QED
  BY <1>5, <1>6 DEF Field

LEMMA LoseAndReload ==
    ASSUME UserInv, LoseUpdate \/ Reload
    PROVE  UserInv'
<1>1. CASE LoseUpdate
  <2>1. /\ disturbed' = TRUE /\ updates # <<>> /\ updates' = Tail(updates)
        /\ UNCHANGED <<account, user, stored, form, panels, saves, edits>>
    BY <1>1 DEF LoseUpdate, copies
  <2>2. updates' \in Seq([name : Int, avatar : Int])
    BY <2>1 DEF UserInv, Copies
  <2>3. Copies'
    BY <2>1, <2>2 DEF UserInv, Copies, panels
  <2> QED
    BY <2>1, <2>3 DEF UserInv
<1>2. CASE Reload
  <2>1. /\ \A s \in Saving : Idle(s)
        /\ user' = FromServer(account) /\ stored' = FromServer(account)
        /\ form' = Hydrated(stored') /\ panel' = Unset /\ heard' = Unset
        /\ social' = {account["days"]} /\ outdated' = {} /\ updates' = <<>>
        /\ UNCHANGED <<account, saves, edits>> /\ disturbed' = FALSE
    BY <1>2 DEF Reload, Keep, Idle
  <2>2. account \in [Field -> Int] /\ account["days"] \in Int /\ Unset \in Int
    BY DEF UserInv, Copies, Field, Unset
  <2>3. /\ user' \in [Field -> Int] /\ stored' \in [Field -> Int]
        /\ form' \in [name : Int, avatar : Int] /\ panel' \in Int
        /\ heard' \in Int /\ social' \subseteq Int
    BY <2>1, <2>2, OfServer
  <2>4. SameProfile(user)' /\ SameSettings(user)' /\ PanelShown' /\ Timely'
    BY <2>1, <2>2, OfServer DEF SameProfile, SameSettings, SameTheme, SameDays, SameOrder, DaysShown,
       PanelShown, Timely, Field
  <2>5. updates' \in Seq([name : Int, avatar : Int])
    BY <2>1
  <2>6. Copies'
    BY <2>1, <2>3, <2>5 DEF UserInv, Copies
  <2>7. AtEase' /\ \A t \in Saving : Idle(t)' /\ Asked(saves[t])'
    BY <2>1, <2>4 DEF UserInv, AtEase, Heard, Idle
  <2> QED
    BY <2>6, <2>7, NoneUnderWay
<1> QED
  BY <1>1, <1>2

\* What the refreshes of the social data write leaves the row, the user and the
\* saves alone.
LEMMA SocialKeeps ==
    ASSUME UserInv, UNCHANGED <<account, user, stored, form, saves, updates, edits, disturbed>>,
           panel' \in Int, heard' \in Int, social' \subseteq Int,
           outdated' \ {"panel"} = outdated \ {"panel"},
           PanelShown /\ Timely /\ SameDays(user) => PanelShown' /\ Timely'
    PROVE  UserInv'
<1>1. Copies' /\ \A s \in Saving : Asked(saves[s])'
  BY DEF UserInv, Copies
<1>2. \A f \in {"theme", "days", "order"} : f \in outdated' <=> f \in outdated
  OBVIOUS
<1>3. ASSUME NEW t \in Saving, UnderWay(saves[t]) PROVE UnderWay(saves[t])'
  <2>1. saves'[t] = saves[t]
    OBVIOUS
  <2>2. Asking(saves[t]) => Asking(saves[t])'
    BY <1>2, <2>1 DEF Asking, SameProfile, SameSettings, SameTheme, SameDays, SameOrder, DaysShown
  <2>3. Halfway(saves[t]) => Halfway(saves[t])'
    BY <1>2, <2>1
       DEF Halfway, Heard, SameProfile, SameSettings, SameTheme, SameDays, SameOrder, DaysShown
  <2>4. BroughtBack(saves[t]) => BroughtBack(saves[t])'
    BY <1>2, <2>1
       DEF BroughtBack, Heard, SameProfile, SameSettings, SameTheme, SameDays, SameOrder, DaysShown
  <2> QED
    BY <1>3, <2>1, <2>2, <2>3, <2>4 DEF UnderWay
<1>4. AtEase => AtEase'
  BY <1>2 DEF AtEase, Heard, SameProfile, SameSettings, SameTheme, SameDays, SameOrder, DaysShown
<1> QED
  BY <1>1, <1>3, <1>4 DEF UserInv, Undisturbed, Idle

LEMMA SocialSteps ==
    ASSUME UserInv, TokenChanged \/ refreshSocialData \/ SocialRefreshed \/ SocialDropped
    PROVE  UserInv'
<1>1. /\ user["days"] \in Int /\ panel \in Int /\ heard \in Int /\ social \subseteq Int
  BY DEF UserInv, Copies, Field
<1>2. CASE TokenChanged
  <2>1. /\ heard' = user["days"] /\ UNCHANGED <<panel, social, outdated>>
        /\ UNCHANGED <<account, user, stored, form, saves, updates, edits, disturbed>>
    BY <1>2 DEF TokenChanged, copies
  <2>2. PanelShown /\ Timely /\ SameDays(user) => PanelShown' /\ Timely'
    BY <2>1 DEF PanelShown, Timely, SameDays, DaysShown, Behind
  <2> QED
    BY <1>1, <2>1, <2>2, SocialKeeps
<1>3. CASE refreshSocialData
  <2>1. PICK days \in {heard, user["days"]} : social' = social \cup {days}
    BY <1>3 DEF refreshSocialData
  <2>2. /\ UNCHANGED <<panel, heard, outdated>>
        /\ UNCHANGED <<account, user, stored, form, saves, updates, edits, disturbed>>
    BY <1>3 DEF refreshSocialData, copies
  <2>3. PanelShown /\ Timely /\ SameDays(user) => PanelShown' /\ Timely'
    BY <2>1, <2>2 DEF PanelShown, Timely, SameDays, DaysShown, Behind
  <2>4. social' \subseteq Int
    BY <1>1, <2>1
  <2> QED
    BY <1>1, <2>2, <2>3, <2>4, SocialKeeps
<1>4. CASE SocialRefreshed
  <2>1. PICK days \in social :
          /\ panel' = days
          /\ social' \in {social, social \ {days}}
          /\ outdated' = (outdated \ {"panel"}) \cup
                          (IF "days" \in outdated \/ Behind(days) THEN {"panel"} ELSE {})
    BY <1>4 DEF SocialRefreshed
  <2>2. /\ heard' = heard
        /\ UNCHANGED <<account, user, stored, form, saves, updates, edits, disturbed>>
    BY <1>4 DEF SocialRefreshed, copies
  <2>3. PanelShown /\ Timely /\ SameDays(user) => PanelShown' /\ Timely'
    BY <2>1, <2>2 DEF PanelShown, Timely, DaysShown, Behind
  <2>4. social' \subseteq Int /\ panel' \in Int /\ outdated' \ {"panel"} = outdated \ {"panel"}
    BY <1>1, <2>1
  <2> QED
    BY <1>1, <2>2, <2>3, <2>4, SocialKeeps
<1>5. CASE SocialDropped
  <2>1. PICK days \in social : social' = social \ {days}
    BY <1>5 DEF SocialDropped
  <2>2. /\ UNCHANGED <<panel, heard, outdated>>
        /\ UNCHANGED <<account, user, stored, form, saves, updates, edits, disturbed>>
    BY <1>5 DEF SocialDropped, copies
  <2>3. PanelShown /\ Timely /\ SameDays(user) => PanelShown' /\ Timely'
    BY <2>1, <2>2 DEF PanelShown, Timely, DaysShown, Behind
  <2>4. social' \subseteq Int
    BY <1>1, <2>1
  <2> QED
    BY <1>1, <2>2, <2>3, <2>4, SocialKeeps
<1> QED
  BY <1>2, <1>3, <1>4, <1>5

LEMMA NextUserStep == UserInv /\ [LocalUserNext]_uvars => UserInv'
<1>1. ASSUME UserInv, UNCHANGED uvars PROVE UserInv'
  <2>1. Copies' /\ (\A s \in Saving : Asked(saves[s])')
    BY <1>1 DEF uvars, copies, panels, UserInv, Copies
  <2>2. Undisturbed => Undisturbed'
    BY <1>1 DEF uvars, copies, panels, Undisturbed, UnderWay, Asking, Halfway, BroughtBack, AtEase,
       Heard, Idle, SameProfile, SameSettings, SameTheme, SameDays, SameOrder, DaysShown, PanelShown,
       Timely, Behind
  <2> QED
    BY <1>1, <2>1, <2>2 DEF uvars, UserInv
<1> QED
  BY <1>1, BeginSteps, UpdateStep, uploadAvatarStep, SaveFailsStep, FinishStep,
     UserUpdatedStep, LoseAndReload, ElsewhereUpdatedStep, SocialSteps DEF LocalUserNext

\* Every save makes the next copy of the user from the one it saw and from what
\* the server answered, an event brings the profile alone, and a refresh the days
\* of a user the tab had: while no two saves overlap, none ends half-way and no
\* event is lost, the copy comes back to the row, but for what a save forgets and
\* what nobody has told the tab.
THEOREM UserIsShownAsStored == LocalUserSpec => []ShownIsStored
<1>1. UserInv => ShownIsStored
  <2> SUFFICES ASSUME UserInv, NothingPending, ~ disturbed
               PROVE  /\ \A f \in Field \ outdated :
                            user[f] = account[f] \/ (f \in {"days", "order"} /\ user[f] = Unset)
                      /\ "panel" \notin outdated => panel \in {account["days"], Unset}
    BY DEF ShownIsStored
  <2>1. AtEase /\ updates = <<>>
    BY DEF UserInv, Undisturbed, NothingPending, Idle
  <2> QED
    BY <2>1 DEF AtEase, SameProfile, SameSettings, SameTheme, SameDays, SameOrder, PanelShown,
       DaysShown, Field
<1> QED
  BY <1>1, InitUser, NextUserStep, PTL DEF LocalUserSpec

-----------------------------------------------------------------------------
(* The friends panel. A change of the relation leaves a refresh owed: an    *)
(* event on its way, an answer, or the timer (Owed). Once none is, what the *)
(* newest fetch has read is what the server has (Newest), and where there   *)
(* is no fetch, so is what the tab shows. The deed that waits for a fetch   *)
(* waits for one alone, so its end forgets no other (Awaited).              *)

Pair == [link : {"none", "sent", "received", "friends"}, mine : BOOLEAN, theirs : BOOLEAN]

FetchShape == [number : Int, unread : SUBSET List, got : Lists, awaited : BOOLEAN]

DeedShape == [what : Deed \cup {"none", "cancel"},
              step : {"none", "asked", "answered", "waiting", "fetching"}]

Panels ==
    /\ relation \in Pair /\ shown \in Lists
    /\ notices \in Nat /\ timer \in BOOLEAN /\ overtaken \in BOOLEAN
    /\ fetches \subseteq FetchShape /\ deed \in DeedShape
    /\ deed.step = "asked" => deed.what \in Deed

Awaited ==
    /\ \A f \in fetches : f.awaited => deed.step = "fetching"
    /\ \A f, g \in fetches : f.awaited /\ g.awaited => f = g

Owed == notices > 0 \/ timer \/ deed.step = "answered"

Newest(f) == f \in fetches /\ \A g \in fetches : g.number <= f.number

Fresh(f) == \A each \in List \ f.unread : f.got[each] = Listed(relation)[each]

Followed ==
    ~ Owed => /\ \A f \in fetches : Newest(f) => Fresh(f)
              /\ fetches = {} => shown = Listed(relation)

SocialInv == Panels /\ Awaited /\ (~ overtaken => Followed)

-----------------------------------------------------------------------------
LEMMA ListedShape == ASSUME NEW r \in Pair PROVE Listed(r) \in Lists
<1>1. (r.link = "friends" /\ Open(r)) \in BOOLEAN /\ r.mine \in BOOLEAN
  BY DEF Pair
<1>2. (IF r.link \in {"sent", "received"} THEN r.link ELSE "none") \in {"none", "sent", "received"}
  OBVIOUS
<1> QED
  BY <1>1, <1>2 DEF Listed, Lists

LEMMA SameLists ==
    ASSUME NEW a \in Lists, NEW b \in Lists, \A each \in List : a[each] = b[each]
    PROVE  a = b
<1>1. a.friends = b.friends /\ a.request = b.request /\ a.blocked = b.blocked
  BY DEF List
<1> QED
  BY <1>1 DEF Lists

LEMMA DonePair ==
    ASSUME NEW what \in Deed, NEW r \in Pair
    PROVE  Done(what, r) \in Pair /\ Turned(r) \in Pair
<1>1. Turned(r) \in Pair
  <2>1. (CASE r.link = "sent"     -> "received"
           [] r.link = "received" -> "sent"
           [] OTHER -> r.link) \in {"none", "sent", "received", "friends"}
    BY DEF Pair
  <2>2. r.mine \in BOOLEAN /\ r.theirs \in BOOLEAN
    BY DEF Pair
  <2> QED
    BY <2>1, <2>2 DEF Turned, Pair
<1>2. CASE what = "send"
  BY <1>1, <1>2 DEF Done, Requested, Pair
<1>3. CASE what = "accept"
  BY <1>1, <1>3 DEF Done, Pair
<1>4. CASE what \in {"reject", "remove"}
  BY <1>1, <1>4 DEF Done, Separated, Pair
<1>5. CASE what \in {"block", "unblock"}
  <2>1. (what = "block") \in BOOLEAN
    OBVIOUS
  <2>2. Done(what, r) = [r EXCEPT !.mine = (what = "block")]
    BY <1>5 DEF Done, Blocked
  <2> QED
    BY <1>1, <2>1, <2>2 DEF Pair
<1> QED
  BY <1>1, <1>2, <1>3, <1>4, <1>5 DEF Deed

LEMMA InitSocial == SocialInit => SocialInv
<1> SUFFICES ASSUME SocialInit PROVE SocialInv
  OBVIOUS
<1>1. /\ relation \in Pair /\ shown = Listed(relation) /\ notices = 0 /\ timer = FALSE
      /\ fetches = {} /\ deed \in DeedShape /\ deed.step = "none" /\ overtaken = FALSE
  BY DEF SocialInit, Pair, DeedShape
<1>2. shown \in Lists
  BY <1>1, ListedShape
<1> QED
  BY <1>1, <1>2 DEF SocialInv, Panels, Awaited, Followed

\* What changes the relation leaves a refresh owed.
LEMMA OwedSteps ==
    ASSUME SocialInv, (\E what \in Deed : TheyDo(what)) \/ ServeDeed \/ LoseNotice
                        \/ Answered \/ onFriendRequest \/ CancelSent
    PROVE  SocialInv'
<1>1. fetches' = fetches /\ (overtaken' = overtaken \/ overtaken' = TRUE)
  BY DEF TheyDo, ServeDeed, LoseNotice, Answered, onFriendRequest, CancelSent
<1>2. Panels'
  <2>1. ASSUME NEW what \in Deed, TheyDo(what) PROVE Panels'
    <3>1. relation' \in Pair
      BY <2>1, DonePair DEF TheyDo, SocialInv, Panels
    <3> QED
      BY <2>1, <3>1 DEF TheyDo, SocialInv, Panels
  <2>2. CASE ServeDeed
    <3>1. relation' \in Pair
      BY <2>2, DonePair DEF ServeDeed, SocialInv, Panels
    <3> QED
      BY <2>2, <3>1 DEF ServeDeed, SocialInv, Panels, DeedShape
  <2>3. CASE LoseNotice
    BY <2>3 DEF LoseNotice, SocialInv, Panels
  <2>4. CASE Answered
    <3>1. shown' \in Lists
      BY <2>4 DEF Answered, SocialInv, Panels, Lists
    <3> QED
      BY <2>4, <3>1 DEF Answered, SocialInv, Panels, DeedShape
  <2>5. CASE onFriendRequest
    BY <2>5 DEF onFriendRequest, Rearmed, SocialInv, Panels
  <2>6. CASE CancelSent
    BY <2>6 DEF CancelSent, SocialInv, Panels, DeedShape
  <2> QED
    BY <2>1, <2>2, <2>3, <2>4, <2>5, <2>6
<1>3. Awaited'
  <2>1. deed.step = "fetching" => deed'.step = "fetching"
    BY DEF TheyDo, ServeDeed, LoseNotice, Answered, onFriendRequest, CancelSent,
       SocialInv, Panels, DeedShape
  <2> QED
    BY <1>1, <2>1 DEF SocialInv, Awaited
<1>4. overtaken' = TRUE \/ Owed'
  BY DEF TheyDo, ServeDeed, LoseNotice, Answered, onFriendRequest, CancelSent, Rearmed,
     SocialInv, Panels, DeedShape, Owed
<1> QED
  BY <1>2, <1>3, <1>4 DEF SocialInv, Followed

LEMMA DeedSteps ==
    ASSUME SocialInv, (\E what \in Deed : Ask(what)) \/ DeedFails
    PROVE  SocialInv'
<1>1. /\ UNCHANGED <<relation, shown, notices, timer, fetches>>
      /\ deed' \in DeedShape /\ (deed'.step = "asked" => deed'.what \in Deed)
      /\ overtaken' \in BOOLEAN
      /\ deed.step # "fetching" /\ deed'.step # "answered"
      /\ ~ overtaken' => ~ overtaken /\ deed.step # "answered"
  <2>1. ASSUME NEW what \in Deed, Ask(what)
        PROVE  /\ deed.step = "none" /\ deed' = [what |-> what, step |-> "asked"]
               /\ deed' \in DeedShape
               /\ UNCHANGED <<relation, shown, notices, timer, fetches, overtaken>>
    BY <2>1 DEF Ask, DeedShape
  <2>2. ASSUME DeedFails
        PROVE  /\ deed.step \in {"asked", "answered"}
               /\ deed' = [what |-> "none", step |-> "none"] /\ deed' \in DeedShape
               /\ overtaken' \in BOOLEAN
               /\ ~ overtaken' => ~ overtaken /\ deed.step # "answered"
               /\ UNCHANGED <<relation, shown, notices, timer, fetches>>
    BY <2>2 DEF DeedFails, DeedShape, SocialInv, Panels
  <2>3. CASE \E what \in Deed : Ask(what)
    BY <2>1, <2>3 DEF SocialInv, Panels
  <2>4. CASE DeedFails
    BY <2>2, <2>4
  <2> QED
    BY <2>3, <2>4
<1>2. Panels' /\ Awaited'
  BY <1>1 DEF SocialInv, Panels, Awaited
<1>3. ASSUME ~ overtaken' PROVE Followed'
  BY <1>1, <1>3 DEF SocialInv, Followed, Owed, Newest, Fresh
<1> QED
  BY <1>2, <1>3 DEF SocialInv

LEMMA BeginFetchStep ==
    ASSUME SocialInv, BeginFetch
    PROVE  SocialInv'
<1>1. PICK n \in 1..MaxFetches :
         /\ \A f \in fetches : f.number < n
         /\ fetches' = fetches \cup
              {[number |-> n, unread |-> List, got |-> shown,
                awaited |-> deed.step = "waiting"]}
  BY DEF BeginFetch
<1> PICK h : h = [number |-> n, unread |-> List, got |-> shown,
                  awaited |-> deed.step = "waiting"]
  OBVIOUS
<1>2. /\ timer' = FALSE /\ UNCHANGED <<relation, shown, notices, overtaken>>
      /\ deed' = IF deed.step = "waiting" THEN [deed EXCEPT !.step = "fetching"] ELSE deed
      /\ fetches' = fetches \cup {h}
  BY <1>1 DEF BeginFetch
<1>3. h \in FetchShape /\ h.unread = List /\ h.number = n
  <2>1. (deed.step = "waiting") \in BOOLEAN /\ n \in Int /\ shown \in Lists
    BY SocialAssumption DEF SocialInv, Panels
  <2> QED
    BY <2>1 DEF FetchShape
<1>4. h.awaited <=> deed.step = "waiting"
  OBVIOUS
<1>5. Panels'
  BY <1>2, <1>3 DEF SocialInv, Panels, DeedShape
<1>6. Awaited'
  <2>1. deed.step \in {"waiting", "fetching"} => deed'.step = "fetching"
    BY <1>2 DEF SocialInv, Panels, DeedShape
  <2>2. deed.step = "waiting" => \A f \in fetches : ~ f.awaited
    BY DEF SocialInv, Awaited
  <2> QED
    BY <1>2, <1>4, <2>1, <2>2 DEF SocialInv, Awaited
<1>7. \A f \in fetches' : Newest(f)' => f = h
  <2>1. \A f \in fetches : f.number \in Int /\ n \in Int
    BY SocialAssumption DEF SocialInv, Panels, FetchShape
  <2> QED
    BY <1>1, <1>2, <1>3, <2>1 DEF Newest
<1>8. Followed'
  <2>1. Fresh(h)'
    BY <1>3 DEF Fresh
  <2>2. fetches' # {}
    BY <1>2
  <2> QED
    BY <1>7, <2>1, <2>2 DEF Followed
<1> QED
  BY <1>5, <1>6, <1>8 DEF SocialInv

LEMMA ReadStep ==
    ASSUME SocialInv, NEW f \in fetches, NEW each \in List, Read(f, each)
    PROVE  SocialInv'
<1> PICK h : h = [f EXCEPT !.unread = @ \ {each}, !.got[each] = Listed(relation)[each]]
  OBVIOUS
<1>1. /\ fetches' = (fetches \ {f}) \cup {h}
      /\ UNCHANGED <<relation, shown, notices, timer, deed, deeds, overtaken>>
  BY DEF Read
<1>2. f \in FetchShape /\ f.got \in Lists /\ Listed(relation) \in Lists
  BY ListedShape DEF SocialInv, Panels, FetchShape
<1>3. [f.got EXCEPT ![each] = Listed(relation)[each]] \in Lists
  BY <1>2 DEF Lists, List
<1>4. /\ h \in FetchShape /\ h.number = f.number /\ h.awaited = f.awaited
      /\ h.unread = f.unread \ {each}
      /\ h.got = [f.got EXCEPT ![each] = Listed(relation)[each]]
  BY <1>2, <1>3 DEF FetchShape
<1>5. \A l \in List : h.got[l] = IF l = each THEN Listed(relation)[l] ELSE f.got[l]
  BY <1>2, <1>4 DEF Lists, List
<1>6. Panels'
  BY <1>1, <1>4 DEF SocialInv, Panels
<1>7. Awaited'
  BY <1>1, <1>4 DEF SocialInv, Awaited
<1>8. ASSUME NEW g \in fetches', Newest(g)'
      PROVE  (g = h /\ Newest(f)) \/ Newest(g)
  BY <1>1, <1>4, <1>8 DEF Newest
<1>9. Fresh(f) => Fresh(h)'
  BY <1>1, <1>4, <1>5 DEF Fresh
<1>10. ASSUME NEW g, Fresh(g) PROVE Fresh(g)'
  BY <1>1, <1>10 DEF Fresh
<1>11. ASSUME ~ overtaken' PROVE Followed'
  <2>1. SUFFICES ASSUME ~ Owed'
                 PROVE  /\ \A g \in fetches' : Newest(g)' => Fresh(g)'
                        /\ fetches' # {}
    BY DEF Followed
  <2>2. \A g \in fetches : Newest(g) => Fresh(g)
    BY <1>1, <1>11, <2>1 DEF SocialInv, Followed, Owed
  <2>3. \A g : Newest(g) => g \in fetches
    BY DEF Newest
  <2> QED
    BY <1>1, <1>8, <1>9, <1>10, <2>2, <2>3
<1> QED
  BY <1>6, <1>7, <1>11 DEF SocialInv

\* Without a fetch that was overtaken, the oldest one ends.
LEMMA EndSteps ==
    ASSUME SocialInv, NEW f \in fetches, Land(f) \/ FetchFails(f)
    PROVE  SocialInv'
<1>1. /\ fetches' = fetches \ {f} /\ UNCHANGED <<relation, notices, timer>>
      /\ deed' = IF f.awaited THEN [what |-> "none", step |-> "none"] ELSE deed
      /\ overtaken' \in BOOLEAN /\ (~ overtaken' => ~ overtaken)
  BY DEF Land, FetchFails, Resolve, SocialInv, Panels
<1>2. shown' \in Lists
  BY DEF Land, FetchFails, SocialInv, Panels, FetchShape
<1>3. f \in FetchShape /\ f.got \in Lists /\ f.awaited \in BOOLEAN
  BY DEF SocialInv, Panels, FetchShape
<1>4. Panels'
  BY <1>1, <1>2, <1>3 DEF SocialInv, Panels, DeedShape
<1>5. Awaited'
  BY <1>1, <1>3 DEF SocialInv, Awaited
<1>6. ASSUME ~ overtaken' PROVE Followed'
  <2>1. SUFFICES ASSUME ~ Owed'
                 PROVE  /\ \A g \in fetches' : Newest(g)' => Fresh(g)'
                        /\ fetches' = {} => shown' = Listed(relation)
    BY <1>1 DEF Followed
  <2>2. /\ Land(f) /\ f.unread = {} /\ shown' = f.got
        /\ \A g \in fetches : ~ g.number < f.number
    BY <1>6 DEF Land, FetchFails
  <2>3. deed'.step # "answered" => deed.step # "answered"
    BY <1>1, <1>3 DEF SocialInv, Awaited
  <2>4. \A g \in fetches : Newest(g) => Fresh(g)
    BY <1>1, <1>6, <2>1, <2>3 DEF SocialInv, Followed, Owed
  <2>5. \A g \in fetches : g.number \in Int
    BY DEF SocialInv, Panels, FetchShape
  <2>6. ASSUME NEW g \in fetches', Newest(g)' PROVE Fresh(g)'
    <3>1. f.number <= g.number
      BY <1>1, <2>2, <2>5
    <3>2. Newest(g)
      BY <1>1, <2>6, <3>1 DEF Newest
    <3> QED
      BY <1>1, <2>4, <2>6, <3>2 DEF Fresh
  <2>7. ASSUME fetches' = {} PROVE shown' = Listed(relation)
    <3>1. fetches = {f}
      BY <1>1, <2>7
    <3>2. Newest(f)
      BY <2>5, <3>1 DEF Newest
    <3>3. \A each \in List : f.got[each] = Listed(relation)[each]
      BY <2>2, <2>4, <3>2 DEF Fresh
    <3>4. Listed(relation) \in Lists
      BY ListedShape DEF SocialInv, Panels
    <3> QED
      BY <1>3, <2>2, <3>3, <3>4, SameLists
  <2> QED
    BY <1>1, <2>6, <2>7
<1> QED
  BY <1>4, <1>5, <1>6 DEF SocialInv

LEMMA NextSocial == SocialInv /\ [SocialNext]_fvars => SocialInv'
<1>1. ASSUME SocialInv, UNCHANGED fvars PROVE SocialInv'
  <2>1. Panels' /\ Awaited'
    BY <1>1 DEF fvars, SocialInv, Panels, Awaited
  <2>2. Followed => Followed'
    BY <1>1 DEF fvars, Followed, Owed, Newest, Fresh
  <2> QED
    BY <1>1, <2>1, <2>2 DEF fvars, SocialInv
<1> QED
  BY <1>1, OwedSteps, DeedSteps, BeginFetchStep, ReadStep, EndSteps DEF SocialNext

\* refreshSocialData reads its lists one by one, and changes come between: the
\* change that comes too late for one fetch leaves another owed, so that once
\* nothing is on its way the panel shows what the server has.
THEOREM PanelConverges == SocialSpec => []ListsConverge
<1>1. SocialInv => ListsConverge
  BY DEF SocialInv, Panels, Followed, Owed, ListsConverge
<1> QED
  BY <1>1, InitSocial, NextSocial, PTL DEF SocialSpec
=============================================================================
