-------------------------- MODULE EmergencyContacts --------------------------
(***************************************************************************)
(* The emergency contacts of one user: the form that saves them in one     *)
(* request per contact, the handlers of those requests, and blocks between *)
(* the user and a contact, which remove the contact in their transaction.  *)
(* A request looks for a block, writes under the pair's lock, and looks    *)
(* again.                                                                  *)
(***************************************************************************)
EXTENDS FiniteSets, Naturals

CONSTANTS Contact, Saver   \* Saver: the requests that can be under way at once

VARIABLES
    contacts,   \* emergency_contacts of the user
    blocked,    \* contacts with a block in either direction
    blocking,   \* block transactions under way; each holds its pair's lock 2
    deleted,    \* the rows such a transaction has found to delete
    request,    \* the handlers
    orphaned,   \* contacts whose handler failed after its write (history)
    entered,    \* the contacts in the form
    known,      \* those of the last refresh, emergencySettings
    save        \* the save under way, and its requests that have not ended

mcvars == <<contacts, blocked, blocking, deleted, request, orphaned, entered, known, save>>

-----------------------------------------------------------------------------
RequestAtRest == [step |-> "idle", contact |-> CHOOSE c \in Contact : TRUE]
NoSave == [step |-> "no", contacts |-> {}, removed |-> {}, open |-> {}]

ContactsInit ==
    /\ contacts = {} /\ blocked = {} /\ blocking = {} /\ deleted = {}
    /\ request = [s \in Saver |-> RequestAtRest]
    /\ orphaned = {} /\ entered = {} /\ known = {} /\ save = NoSave

-----------------------------------------------------------------------------
(* The form.                                                               *)

EditForm(c) ==
    /\ entered' = IF c \in entered THEN entered \ {c} ELSE entered \cup {c}
    /\ UNCHANGED <<contacts, blocked, blocking, deleted, request, orphaned, known, save>>

\* A refresh of the social data, for whatever reason, resets the form as well.
RefreshForm ==
    /\ known' = contacts /\ entered' = contacts
    /\ save' = IF save.step = "refreshing" THEN NoSave ELSE save
    /\ UNCHANGED <<contacts, blocked, blocking, deleted, request, orphaned>>

\* saveEmergencySettings: first the settings, and then every contact at once.
Submit ==
    /\ save.step = "no"
    /\ save' = [NoSave EXCEPT !.step = "settings", !.contacts = entered,
                              !.removed = known \ entered]
    /\ UNCHANGED <<contacts, blocked, blocking, deleted, request, orphaned, entered, known>>

SettingsFail ==
    /\ save.step = "settings"
    /\ save' = NoSave
    /\ UNCHANGED <<contacts, blocked, blocking, deleted, request, orphaned, entered, known>>

\* One request for each contact of the form and for each that is gone from it.
SaveContacts ==
    LET all == save.contacts \cup save.removed IN
    /\ save.step = "settings"
    /\ \E open \in SUBSET {s \in Saver : request[s].step = "idle"} :
         \E for \in [open -> all] :
           /\ Cardinality(open) = Cardinality(all)
           /\ \A c \in all : \E s \in open : for[s] = c
           /\ request' = [s \in Saver |->
                IF s \in open
                THEN [step |-> IF for[s] \in save.contacts THEN "looking" ELSE "deleting",
                      contact |-> for[s]]
                ELSE request[s]]
           /\ save' = IF open = {} THEN [save EXCEPT !.step = "refreshing"]
                      ELSE [save EXCEPT !.step = "contacts", !.open = open]
    /\ UNCHANGED <<contacts, blocked, blocking, deleted, orphaned, entered, known>>

\* Promise.all: the first failure ends the save, and the rest go on.
RequestEnds(s, failed) ==
    /\ request' = [request EXCEPT ![s] = RequestAtRest]
    /\ save' = IF s \notin save.open THEN save
               ELSE IF failed THEN NoSave
               ELSE [save EXCEPT !.open = @ \ {s},
                       !.step = IF save.open = {s} THEN "refreshing" ELSE @]

Goes(s, step) ==
    /\ request' = [request EXCEPT ![s].step = step]
    /\ UNCHANGED save

-----------------------------------------------------------------------------
(* upsertEmergencyContact and deleteEmergencyContact.                      *)

Look(s) ==
    /\ request[s].step = "looking"
    /\ IF request[s].contact \in blocked THEN RequestEnds(s, TRUE) ELSE Goes(s, "writing")
    /\ UNCHANGED <<contacts, blocked, blocking, deleted, orphaned, entered, known>>

\* Mutant: the write does not wait for a block transaction.
Unlocked(c) == TRUE

LockFree(c) == c \notin blocking

Upsert(s) ==
    /\ request[s].step = "writing" /\ LockFree(request[s].contact)
    /\ contacts' = contacts \cup {request[s].contact}
    /\ Goes(s, "lookingAgain")
    /\ UNCHANGED <<blocked, blocking, deleted, orphaned, entered, known>>

LookAgain(s) ==
    /\ request[s].step = "lookingAgain"
    /\ IF request[s].contact \in blocked THEN Goes(s, "undoing") ELSE RequestEnds(s, FALSE)
    /\ UNCHANGED <<contacts, blocked, blocking, deleted, orphaned, entered, known>>

\* delete, by the user or to undo a write.
Delete(s) ==
    /\ request[s].step \in {"undoing", "deleting"} /\ LockFree(request[s].contact)
    /\ contacts' = contacts \ {request[s].contact}
    /\ RequestEnds(s, request[s].step = "undoing")
    /\ UNCHANGED <<blocked, blocking, deleted, orphaned, entered, known>>

\* A query fails or the process stops; what was written stays.
FailSave(s) ==
    /\ request[s].step # "idle"
    /\ orphaned' = IF request[s].step \in {"lookingAgain", "undoing"}
                   THEN orphaned \cup {request[s].contact} ELSE orphaned
    /\ RequestEnds(s, TRUE)
    /\ UNCHANGED <<contacts, blocked, blocking, deleted, entered, known>>

-----------------------------------------------------------------------------
(* blockUser and unblockUser.                                              *)

BeginBlock(c) ==
    /\ c \notin blocking
    /\ blocking' = blocking \cup {c}
    /\ deleted' = deleted \cup ({c} \cap contacts)
    /\ UNCHANGED <<contacts, blocked, request, orphaned, entered, known, save>>

EndBlock(c) ==
    /\ c \in blocking
    /\ blocking' = blocking \ {c} /\ deleted' = deleted \ {c}
    /\ \/ blocked' = blocked \cup {c} /\ contacts' = contacts \ ({c} \cap deleted)
       \/ UNCHANGED <<blocked, contacts>>
    /\ UNCHANGED <<request, orphaned, entered, known, save>>

Unblock(c) ==
    /\ c \in blocked
    /\ blocked' = blocked \ {c}
    /\ UNCHANGED <<contacts, blocking, deleted, request, orphaned, entered, known, save>>

ContactsNext ==
    \/ \E c \in Contact : EditForm(c) \/ BeginBlock(c) \/ EndBlock(c) \/ Unblock(c)
    \/ RefreshForm \/ Submit \/ SettingsFail \/ SaveContacts
    \/ \E s \in Saver : Look(s) \/ Upsert(s) \/ LookAgain(s) \/ Delete(s) \/ FailSave(s)

ContactsSpec == ContactsInit /\ [][ContactsNext]_mcvars

-----------------------------------------------------------------------------
\* Every variable has its type.
ContactsTypeOK ==
    /\ contacts \subseteq Contact /\ blocked \subseteq Contact
    /\ blocking \subseteq Contact /\ deleted \subseteq blocking
    /\ request \in [Saver -> [step : {"idle", "looking", "writing", "lookingAgain",
                                      "undoing", "deleting"}, contact : Contact]]
    /\ orphaned \subseteq Contact /\ entered \subseteq Contact /\ known \subseteq Contact
    /\ save \in [step : {"no", "settings", "contacts", "refreshing"},
                 contacts : SUBSET Contact, removed : SUBSET Contact, open : SUBSET Saver]

\* A blocked user is nobody's emergency contact, unless a handler that wrote it
\* is about to find the block, or failed before it could: neither a block that
\* commits between the look and the write, nor one that began before it, leaves
\* a contact behind.
NoBlockedContact ==
    \A c \in contacts \cap blocked :
        \/ c \in orphaned
        \/ \E s \in Saver : /\ request[s].contact = c
                            /\ request[s].step \in {"lookingAgain", "undoing"}
=============================================================================
