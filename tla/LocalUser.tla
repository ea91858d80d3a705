------------------------------- MODULE LocalUser -------------------------------
(***************************************************************************)
(* The signed-in user as one tab keeps it: in the provider's state, in     *)
(* localStorage and in two forms, beside the row the server has. Each save *)
(* builds the next copy from the one it saw when it began and from the     *)
(* server's answers; events about the user, and a reload, change it too.   *)
(* The settings panel is also written by every refresh of the social data, *)
(* with the warning days of the user its caller had seen.                  *)
(* Every change of a field writes a number of its own, 0 being the first.  *)
(***************************************************************************)
EXTENDS Integers, Sequences

CONSTANTS
    Saving,     \* saves that can be under way at once
    MaxEdit,    \* bound on the changes of the user
    MaxUpdates  \* bound on the events on their way

ASSUME LocalUserAssumption == MaxEdit \in Nat /\ MaxUpdates \in Nat

VARIABLES
    account,    \* the user's row
    user,       \* the provider's user
    stored,     \* localStorage "user", which the events do not reach
    form,       \* name and picture in the profile form
    panel,      \* warningDays of emergencySettings
    heard,      \* warningDays of the user the socket's effect has captured
    social,     \* warningDays that refreshSocialData calls on their way will show
    saves,      \* the saves under way
    updates,    \* USER_UPDATED on its way to this tab
    edits,      \* numbers given out
    disturbed,  \* saves overlapped, one ended half-way, or an event was lost (history)
    outdated    \* fields another tab has changed since, "panel" an old one shows (history)

copies == <<user, stored, form>>
panels == <<panel, heard, social, outdated>>
uvars  == <<account, copies, panels, saves, updates, edits, disturbed>>

-----------------------------------------------------------------------------
Field == {"name", "avatar", "theme", "days", "order"}
Unset == -1   \* warningDays undefined (a panel shows 0), roomOrder {}: not the server's

\* toStoredUser leaves warningDays out.
FromServer(row) == [row EXCEPT !.days = Unset]

\* What a request changes: one field, and the fields of one over those of a row.
Only(f, n)      == [g \in {f} |-> n]
Over(want, row) == [f \in DOMAIN want \cup DOMAIN row |->
                      IF f \in DOMAIN want THEN want[f] ELSE row[f]]

Hydrated(u) == [name |-> u.name, avatar |-> u.avatar]

SaveAtRest == [kind |-> "none", step |-> "idle", base |-> [f \in Field |-> 0],
               next |-> [f \in Field |-> 0], want |-> <<>>, file |-> FALSE]

LocalUserInit ==
    /\ account = [f \in Field |-> 0]
    /\ user = FromServer(account) /\ stored = user /\ form = Hydrated(user)
    /\ panel = Unset /\ heard = Unset /\ social = {account.days} /\ outdated = {}
    /\ saves = [s \in Saving |-> SaveAtRest]
    /\ updates = <<>> /\ edits = 0 /\ disturbed = FALSE

NothingPending == (\A s \in Saving : saves[s].step = "idle") /\ updates = <<>>

BeginSave(s, kind, want, file) ==
    /\ saves[s].step = "idle"
    /\ saves' = [saves EXCEPT ![s] =
                   [kind |-> kind, base |-> user, next |-> Over(want, user),
                    want |-> want, file |-> file,
                    step |-> IF want # <<>> THEN "asked" ELSE "uploading"]]
    /\ disturbed' = (disturbed \/ ~NothingPending)
    /\ UNCHANGED <<account, copies, panels, updates>>

NewEdit == edits < MaxEdit /\ edits' = edits + 1

-----------------------------------------------------------------------------
(* The handlers of the two forms and of the chat list, as they are called. *)

\* Only what differs from the user is sent; the form's picture is not, where a
\* file is uploaded.
Changes(name, avatar, file) ==
    Over(IF name # user.name THEN Only("name", name) ELSE <<>>,
         IF ~file /\ avatar # user.avatar THEN Only("avatar", avatar) ELSE <<>>)

handleUpdateProfile(s) ==
    \E named, file \in BOOLEAN :
      LET want == Changes(IF named THEN edits + 1 ELSE form.name, form.avatar, file) IN
      /\ IF named THEN NewEdit ELSE UNCHANGED edits
      /\ want # <<>> \/ file
      /\ BeginSave(s, "profile", want, file)

handleUpdatePreferences(s) ==
    NewEdit /\ BeginSave(s, "preferences", Only("theme", edits'), FALSE)

\* A form that was given 0 days by the local copy saves one day instead.
saveEmergencySettings(s) ==
    \/ NewEdit /\ BeginSave(s, "emergency", Only("days", edits'), FALSE)
    \/ /\ panel # Unset /\ UNCHANGED edits
       /\ BeginSave(s, "emergency", Only("days", panel), FALSE)

updateRoomSorting(s) == NewEdit /\ BeginSave(s, "order", Only("order", edits'), FALSE)

-----------------------------------------------------------------------------
(* The server: one UPDATE of the columns that were sent, and the whole row *)
(* in the answer.                                                          *)

\* Mutant: of the profile that comes back only the name is taken.
OnlyName(save, row) == [save.next EXCEPT !.name = row.name, !.order = Unset]

\* mergeStoredProfile spreads the settings of the user it began with, which
\* have no room order.
Merged(save, row) ==
    [save.next EXCEPT !.name = row.name, !.avatar = row.avatar,
                      !.theme = save.base.theme, !.order = Unset]

NextUser(save, row) ==
    CASE save.kind = "profile"     -> Merged(save, row)
      [] save.kind = "preferences" -> [save.next EXCEPT !.theme = row.theme,
                                                      !.days = row.days]
      [] save.kind = "emergency"   -> [save.next EXCEPT !.days = save.want.days]
      [] save.kind = "order"       -> [save.next EXCEPT !.order = row.order]

\* A picture that is not an upload of now is no absolute URL, and refused.
Valid(want) == "avatar" \in DOMAIN want => want.avatar = 0

PublishUpdate(row) ==
    /\ Len(updates) < MaxUpdates
    /\ updates' = Append(updates, Hydrated(row))

Update(s) ==
    LET save == saves[s]  row == Over(save.want, account) IN
    /\ save.step = "asked" /\ Valid(save.want)
    /\ account' = row
    /\ saves' = [saves EXCEPT ![s].next = NextUser(save, row),
                              ![s].step = IF save.file THEN "uploading" ELSE "answered"]
    /\ IF save.kind = "profile" THEN PublishUpdate(row) ELSE UNCHANGED updates
    /\ UNCHANGED <<copies, panels, edits, disturbed>>

uploadAvatar(s) ==
    LET row == [account EXCEPT !.avatar = edits + 1] IN
    /\ saves[s].step = "uploading" /\ NewEdit
    /\ account' = row
    /\ saves' = [saves EXCEPT ![s].next = NextUser(saves[s], row), ![s].step = "answered"]
    /\ PublishUpdate(row)
    /\ UNCHANGED <<copies, panels, disturbed>>

\* Refused or lost, before the server has done it or after.
SaveFails(s) ==
    /\ saves[s].step # "idle"
    /\ saves' = [saves EXCEPT ![s] = SaveAtRest]
    /\ disturbed' = (disturbed \/ saves[s].step = "answered"
                     \/ (saves[s].step = "uploading" /\ saves[s].want # <<>>))
    /\ UNCHANGED <<account, copies, panels, updates, edits>>

-----------------------------------------------------------------------------
(* What reaches the tab.                                                   *)

\* setUser: every copy of the user is a new object, so the form starts anew
\* from what localStorage has.
Keep(next, saved) ==
    /\ user' = next /\ stored' = saved /\ form' = Hydrated(saved)

\* What a save has brought the user up to date with.
Renewed(kind) == CASE kind = "preferences" -> {"theme", "days"}
                   [] kind = "emergency"   -> {"days"}
                   [] OTHER                -> {"order"}

\* The preferences put the days of the user they began with into the panel; the
\* emergency settings wait for a refresh with their own, which another call may
\* have replaced or a failure kept from the panel.
ShowPanel(save) ==
    \/ /\ save.kind \in {"profile", "order"}
       /\ UNCHANGED panel /\ outdated' = outdated \ Renewed(save.kind)
    \/ /\ save.kind = "preferences" /\ panel' = save.base.days
       /\ outdated' = (outdated \ {"theme", "days", "panel"}) \cup
                       (IF "days" \in outdated THEN {"panel"} ELSE {})
    \/ /\ save.kind = "emergency" /\ panel' = save.want.days
       /\ outdated' = outdated \ {"days", "panel"}
    \/ /\ save.kind = "emergency" /\ UNCHANGED panel
       /\ outdated' = (outdated \ {"days"}) \cup {"panel"}

Finish(s) ==
    LET save == saves[s] IN
    /\ save.step = "answered"
    /\ IF save.kind = "order" THEN Keep([user EXCEPT !.order = save.next.order], stored)
       ELSE Keep(save.next, save.next)
    /\ ShowPanel(save)
    /\ saves' = [saves EXCEPT ![s] = SaveAtRest]
    /\ UNCHANGED <<account, heard, social, updates, edits, disturbed>>

UserUpdated ==
    /\ updates # <<>>
    /\ updates' = Tail(updates)
    /\ Keep(Over(Head(updates), user), stored)
    /\ UNCHANGED <<account, panels, saves, edits, disturbed>>

\* The broadcast fails, or the tab is in no room that would hear it.
LoseUpdate ==
    /\ updates # <<>>
    /\ updates' = Tail(updates)
    /\ disturbed' = TRUE
    /\ UNCHANGED <<account, copies, panels, saves, edits>>

\* The user saves in another tab: the profile is published, the settings are not.
ElsewhereUpdated ==
    /\ NewEdit
    /\ \E f \in Field :
         /\ account' = [account EXCEPT ![f] = edits']
         /\ IF f \in {"name", "avatar"} THEN PublishUpdate(account') /\ UNCHANGED outdated
            ELSE /\ outdated' = outdated \cup {f} \cup (IF f = "days" THEN {"panel"} ELSE {})
                 /\ UNCHANGED updates
    /\ disturbed' = (disturbed \/ \E s \in Saving : saves[s].step # "idle")
    /\ UNCHANGED <<copies, panel, heard, social, saves>>

\* Another page load: the bootstrap reads profile and settings, and refreshes the
\* social data with these.
Reload ==
    /\ \A s \in Saving : saves[s].step = "idle"
    /\ Keep(FromServer(account), FromServer(account))
    /\ panel' = Unset /\ heard' = Unset /\ social' = {account.days} /\ outdated' = {}
    /\ updates' = <<>> /\ disturbed' = FALSE
    /\ UNCHANGED <<account, saves, edits>>

-----------------------------------------------------------------------------
(* refreshSocialData, which the forms call with the user they see, and the *)
(* socket's handlers with the one their effect has captured. Of calls on   *)
(* their way with the same days one number stands for all.                 *)

\* The effect runs anew for another access token.
TokenChanged ==
    /\ heard' = user.days
    /\ UNCHANGED <<account, copies, panel, social, outdated, saves, updates, edits, disturbed>>

refreshSocialData ==
    /\ \E days \in {heard, user.days} : social' = social \cup {days}
    /\ UNCHANGED <<account, copies, panel, heard, outdated, saves, updates, edits, disturbed>>

\* The user a caller had seen has other days than the one of now.
Behind(days) == user.days # Unset /\ days \notin {Unset, user.days}

SocialRefreshed ==
    /\ \E days \in social :
         /\ panel' = days
         /\ social' \in {social, social \ {days}}
         /\ outdated' = (outdated \ {"panel"}) \cup
                         (IF "days" \in outdated \/ Behind(days) THEN {"panel"} ELSE {})
    /\ UNCHANGED <<account, copies, heard, saves, updates, edits, disturbed>>

\* A later call takes over the timer, or a request fails.
SocialDropped ==
    /\ \E days \in social : social' = social \ {days}
    /\ UNCHANGED <<account, copies, panel, heard, outdated, saves, updates, edits, disturbed>>

LocalUserNext ==
    \/ \E s \in Saving :
         \/ handleUpdateProfile(s) \/ handleUpdatePreferences(s)
         \/ saveEmergencySettings(s) \/ updateRoomSorting(s)
         \/ Update(s) \/ uploadAvatar(s) \/ SaveFails(s) \/ Finish(s)
    \/ UserUpdated \/ LoseUpdate \/ ElsewhereUpdated \/ Reload
    \/ TokenChanged \/ refreshSocialData \/ SocialRefreshed \/ SocialDropped

LocalUserSpec == LocalUserInit /\ [][LocalUserNext]_uvars

-----------------------------------------------------------------------------
Number == Unset..MaxEdit
Row    == [Field -> Number]

\* Every variable has its type.
LocalUserTypeOK ==
    /\ account \in [Field -> 0..MaxEdit] /\ user \in Row /\ stored \in Row
    /\ form \in [name : 0..MaxEdit, avatar : 0..MaxEdit] /\ panel \in Number
    /\ \A s \in Saving : /\ saves[s].step \in {"idle", "asked", "uploading", "answered"}
                         /\ saves[s].base \in Row /\ saves[s].next \in Row
                         /\ DOMAIN saves[s].want \subseteq Field
    /\ heard \in Number /\ social \subseteq Number
    /\ edits \in 0..MaxEdit /\ disturbed \in BOOLEAN
    /\ outdated \subseteq {"theme", "days", "order", "panel"}

\* Once no save and no event is on its way the tab shows what the server has,
\* however many saves, events and refreshes there were in which order, unless
\* saves overlapped, one ended half-way or an event was lost. Settings that
\* another tab has saved stay hidden until a save of their own brings them, and
\* the panel shows old days once a refresh ends that was called for a user the
\* tab has since replaced. Two things can be shown as unset: the room order,
\* which saving the profile forgets, and the warning days, which no answer but
\* that to a save of settings has.
ShownIsStored ==
    NothingPending /\ ~disturbed =>
        /\ \A f \in Field \ outdated :
             user[f] = account[f] \/ (f \in {"days", "order"} /\ user[f] = Unset)
        /\ "panel" \notin outdated => panel \in {account.days, Unset}
=============================================================================
