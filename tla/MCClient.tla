------------------------------- MODULE MCClient -------------------------------
(* The browser, for TLC: one tab's sync with two rooms, the caches, and what *)
(* the tab saves and shows. The parts share no state: a behaviour moves the  *)
(* one its first state names, and the others stay at rest.                   *)
EXTENDS MCSyncClient, PageCache, Composer, EmergencyContacts, LocalUser,
        SocialData, Folders, HistoryPages, RoomBadges

CONSTANT p1

VARIABLE part   \* the part a behaviour is about

\* The user's one message, which is in the first room.
OnePost == p1 :> r1

\* What the workers are about: pages, or static files.
OfPart ==
    \A l \in Load : work'[l].step = "idle" \/ (work'[l].kind = "pages" <=> part = "pages")

MCInit ==
    /\ part \in {"sync", "pages", "files", "composer", "contacts", "user", "social", "folders",
                 "history", "badges"}
    /\ Init /\ CacheInit /\ ContactsInit /\ LocalUserInit
    /\ ComposerInit
    /\ part # "composer" => box.room = r1
    /\ SocialInit
    /\ part # "social" => relation.link = "none"
    /\ FoldersInit
    /\ part # "folders" => folders = {}
    /\ BadgesInit
    /\ HistoryInit
    /\ part # "history" =>
         rows = {} /\ viewHistory /\ member = [boundary |-> 0, joined |-> 1]

MCNext ==
    /\ \/ /\ part = "sync" /\ Next
          /\ UNCHANGED <<cvars, bvars, mcvars, uvars, fvars, dvars, hvars, wvars>>
       \/ /\ part \in {"pages", "files"} /\ CacheNext /\ OfPart
          /\ UNCHANGED <<vars, bvars, mcvars, uvars, fvars, dvars, hvars, wvars>>
       \/ /\ part = "composer" /\ ComposerNext
          /\ UNCHANGED <<vars, cvars, mcvars, uvars, fvars, dvars, hvars, wvars>>
       \/ /\ part = "contacts" /\ ContactsNext
          /\ UNCHANGED <<vars, cvars, bvars, uvars, fvars, dvars, hvars, wvars>>
       \/ /\ part = "user" /\ LocalUserNext
          /\ UNCHANGED <<vars, cvars, bvars, mcvars, fvars, dvars, hvars, wvars>>
       \/ /\ part = "social" /\ SocialNext
          /\ UNCHANGED <<vars, cvars, bvars, mcvars, uvars, dvars, hvars, wvars>>
       \/ /\ part = "folders" /\ FoldersNext
          /\ UNCHANGED <<vars, cvars, bvars, mcvars, uvars, fvars, hvars, wvars>>
       \/ /\ part = "history" /\ HistoryNext
          /\ UNCHANGED <<vars, cvars, bvars, mcvars, uvars, fvars, dvars, wvars>>
       \/ /\ part = "badges" /\ BadgesNext
          /\ UNCHANGED <<vars, cvars, bvars, mcvars, uvars, fvars, dvars, hvars>>
    /\ UNCHANGED part

MCSpec ==
    /\ MCInit
    /\ [][MCNext]_<<vars, cvars, bvars, mcvars, uvars, fvars, dvars, hvars, wvars, part>>
=============================================================================
