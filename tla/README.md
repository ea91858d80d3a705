# near-chat: a verification development in TLA+

near-chat is a chat service: a Hono/Bun backend over PostgreSQL, Socket.IO for
realtime events (over Redis when there is more than one instance) and a Next.js
client. What it promises is that a message command takes effect once, that the
change log is the one truth, and that every client converges to it whatever
happens to its connection; and around that core, that rooms, blocks, sessions,
presence, alerts, tokens and files stay what their users take them for. This
directory models these parts, checks them with TLC on small instances and proves
the safety of the server's parts, and of most of the tab's, with TLAPS for all of
them.

Paths below are under `src/`; `be` is `backend/src`, `fe` is `frontend/src`.
`PROJECT.json` names the source lines of every definition (`map`), every run,
theorem and finding, and for every property a mutation of the model that TLC
tells from the code.

## The system

| component | state | operations | hard behaviour |
|---|---|---|---|
| message commands: `be/services/messageService.ts`, `be/models/messageRepository.ts` | `messages`, `message_changes`, `message_command_receipts`, `realtime_counters` | send, edit, recall; replay of an Idempotency-Key; publication; pages of the history | concurrent transactions, retries, key reuse, stale If-Match, crash between commit and publication |
| read positions and join boundaries: `be/models/roomMemberRepository.ts` | `room_members`, `read_position_commands` | join, approve, role, mute, remove, mark read | approval against sends in flight, read commands out of order |
| sync endpoint: `be/routes/syncRoutes.ts` | none | page, bounds, resync | two snapshots, exactly full pages, deleted rooms |
| realtime client: `fe/context/ChatContext.tsx`, `chatMappers.ts` | cursor, message cache, buffer, sync chain, badges, markers | full sync, checkpoint, live events, room load, reconnect | every pair of these overlapping |
| room membership: `be/services/roomService.ts` | `chat_rooms`, `room_members`, live subscriptions | create, join by code, leave, transfer, approve, role, update, kick, delete | checks before unlocked writes; revoke, write, restore |
| blocks and private rooms: `be/services/friendService.ts`, `be/models/friendRepository.ts` | `blocks`, `friendships`, `is_readonly` | request, answer, unfriend, block, unblock, open, reopen | two writers of one flag, a lock local to the process |
| sockets: `be/realtime/socketServer.ts`, `publisher.ts` | session counts, reservations, subscriptions, typing claims | handshake, connect, restore, reconcile, typing, disconnect | awaits between check and use, expiring reservations, lost frames |
| presence: `be/realtime/presence.ts`, `presenceStore.ts` | sockets per user, leases in Redis, grace timers | connect, disconnect, release, heartbeat, stop | hold and release crossing, partial failure |
| Redis: `be/utils/redis.ts`, `redisAdapter.ts` | connections, channels, listeners | connect, replace, subscribe, unsubscribe, replay, watchdog, close | reconnects during subscribe |
| emergency alerts: `be/utils/inactivityJob.ts`, `be/models/emergencyContactRepository.ts` | alert log with lease, delivery receipts, contacts | reserve, deliver, record, release, complete; save contacts | lease reclaimed while delivering, crash before the receipt, blocks |
| sign-in: `be/services/userService.ts`, `be/models/refreshTokenRepository.ts`, `fe/lib/api.ts` | `refresh_tokens`, cookie, access token, waiting calls | login, refresh, logout, retry of a refused call | two refreshes of one token, answers after the session |
| attachments: `be/services/attachmentService.ts`, `be/utils/avatarUpload.ts` | files on disk, `attachments`, avatar columns | upload, exchange, record, claim, replace | writes cut short, claims that overlap |
| folders: `be/models/folderRepository.ts`, `fe/components/layout/ChatList.tsx` | `folders`, `folder_rooms`, the tab's list | create, delete, move a room | requests that nothing orders |
| migrations: `be/models/migrate.ts` | `pgmigrations` | up, down | two releases at once |
| metrics and administration: `be/utils/*Store.ts`, `fe/context/ChatContext.tsx` | ring buffers; the monitoring page | record, report, reset; verify, load, poll | wrapping, late answers |
| user interface: `frontend/public/sw.js`, `fe/components/chat/Chatroom.tsx`, `ChatContext.tsx` | page caches, input box, local copies of the user, friends and blocks | install, fetch, trim, clear; type, upload, send; save; refresh | state kept across answers and room switches |
| shutdown: `be/index.ts`, `be/bootstrap/*.ts` | stages, deadlines | signal, drain, release, close | deadlines against the drain |

How they interact. A command handler commits in PostgreSQL, then calls the
publisher, which emits to the sockets in the Socket.IO room of the chat room.
Membership handlers move sockets in and out of those rooms around their own
writes. A client that has not heard something learns it from `GET /sync`, which
reads the change log above the client's cursor; `realtime_ready` tells it when
to ask. Across instances, emissions and revocations travel over Redis channels
whose gaps are announced and repaired by a reconciliation. Presence and the
inactivity check watch the same sockets from the side. Every other component
hangs off these relations.

What makes each part correct: a key has one effect; sequences become visible in
order; row and history agree; authorization holds at the commit; a cursor never
passes what it was not given; a tab converges, and counts each unread message
once; a room keeps an owner; a subscription implies a membership and comes back
with it; no message crosses a block; a user is shown online exactly while a lease
exists; an alert is never lost; a browser's tabs share one live refresh token; a
row names whole files; the table of migrations is a prefix of a release.

## Modules

| module | what it is | hosted by |
|---|---|---|
| `ChangeLog` | abstract specification of the durable change log | refined by `MessageLog`, used by `SyncClient` |
| `MessageLog` | the write side as transactions with row locks | `MCMessageLog` |
| `SyncClient` | one browser tab against the `ChangeLog` | `MCSyncClient`, `MCTab`, `MCClient` |
| `RoomMembership`, `PrivateRooms` | the handlers of rooms, and of a pair | `MCRooms`, `MCServices` |
| `RefreshTokens`, `Uploads`, `Migrations`, `RecentRecords`, `Shutdown` | one service each | `MCServices` |
| `Presence`, `SocketSessions`, `Typing`, `RedisConnections`, `EmergencyAlerts` | what runs beside the requests | `MCRealtime` |
| `PageSession`, `ReadMarkers` | a tab's access token, calls and monitoring page; its read markers | `MCTab` |
| `PageCache`, `Composer`, `EmergencyContacts`, `LocalUser`, `SocialData`, `Folders`, `HistoryPages`, `RoomBadges` | what a browser keeps and shows, with the handlers it talks to | `MCClient` |
| `Filtering` | what a filter or a deletion leaves of a list | |
| `MessageLogProofs`, `MessageLogSafetyProofs`, `RoomMembershipProofs`, `PrivateRoomsProofs`, `ServicesProofs`, `RealtimeProofs`, `ClientProofs`, `TabProofs` | theorems | |

Each component is a specification of its own, with its own `Init`, `Next` and
fairness. Components that share no variable are hosted side by side: the host's
initial state picks one, and a behaviour moves that one while the rest stays at
rest. So one run checks several components, each over its full state space, and
not their product. Components that do share state are composed in one module:
the tab with the log and the server's sockets (`SyncClient`), the handlers with
the subscriptions and the reconnecting session (`RoomMembership`), the tabs with
the token table (`RefreshTokens`), two instances with one store (`Presence`).

### The write side

`ChangeLog`: `head` is `realtime_counters.change_sequence` and `log` the rows of
`message_changes`. A change is appended directly above `head`, continues the
history of its message (a creation, then edits, then at most one recall), and
spends its key; deleting a room takes its changes and nothing else.

`MessageLog`: a handler is a worker with one transaction. Its phases are the
points where the code waits for a lock:

    send          idle, admitted, cleared, written, committed, announced
    edit, recall  idle, rowed, cleared, written, committed

`BeginSend` locks the sender's membership and the room (`messageRepository.ts`
342) and authorizes; `ClearSend` takes the advisory lock on the key and looks for
receipts (398); `Write` is the statement that locks the counter, allocates and
inserts (457, 788); `Commit` makes row and change visible together; `Announce`
publishes (`messageService.ts` 121), `AdvanceOwnRead` moves the sender's read
position. For edits and recalls `BeginChange` covers the service's unlocked
checks and the first two locks (717), `ClearChange` the room and membership
locks, the authorization, the receipts and the revision (724, 562). `Replay`
answers from a receipt. `Crash` may end any handler at any point; before the
commit it stands for every abort, a deadlock victim's included.

Locks are read off the phases: `HoldsKey`, `HoldsMessage`, `HoldsRoom`,
`HoldsMember`, and `CounterFree`. The row locks (FOR NO KEY UPDATE and FOR
UPDATE) exclude each other, and a transaction keeps what it locks until it ends.
`Join`, `SetRole`, `SetMuted`, `Remove`, `SetArchived` and `DeleteRoom` are the
row changes other services make; who may call them is `RoomMembership`'s
business, and here they happen at any time the locks permit.

`HistoryPages` reads what `MessageLog` wrote: pages backwards over positions,
where old rows share position 0 and are told apart by time and id, with the
check of the membership and the query as separate steps.

### The tab

`SyncClient`: the environment commits (`Commit`, `DeleteRoom`, both through
`ChangeLog`) and publishes; `server`, `wire` and `connected` are the socket. The
tab's refs keep their names: `cursor` is `syncCursorRef`, `syncing` is
`syncingRef`, `buffer` is `bufferedRealtimeRef`, `dirty` is
`liveChangesSinceCheckpoint`. `sync` is the request chain `track` serializes;
`queued` is a full sync waiting behind a checkpoint. Each `await` of the chain is
a step of its own (`ReadPage`, `ReadBounds`, `HandleAnswer`, `FinishFullSync`),
so live events, timers and disconnects fall between any two. `cache` holds the
change sequence of the copy shown and whether it is recalled: that is all
`compareMessageVersion` and the event handlers tell apart. `faults` bounds
failures; `promised` is a history variable, the log's head when the tab last
heard `realtime_ready`.

`RoomBadges` has the same socket and recovery with the other half of its work:
the room summary (two statements, `roomRepository.ts` 175 and 213), the buffer,
and what counts as unread. `ReadMarkers` is the open room's read effect, its
writes, their failures and the pause after one. `PageSession` is `request` in
`api.ts` with its queue of refused calls, the provider's bootstrap and the
monitoring page's effects with their cleanups.

`PageCache` takes each cache operation of `sw.js` as a step, over versions of the
worker; a trim may fail at any of its steps (`TrimFails`), and its worker is then
at rest. `Composer` is `Chatroom.tsx`'s input box, one instance for every room.
`LocalUser` has the copies of the user in state, in `localStorage` and in two
forms. `refreshSocialData` there is the other writer of the settings panel: it
shows the warning days of the user its caller had captured (`heard` for the
socket's handlers), some time after the call. `SocialData` has the debounced
refresh itself and a fetch that reads its lists one by one. `Folders` and
`EmergencyContacts` compose a form of the tab with the transactions its requests
start; in `Folders` a refresh of the list is read in one step (`listFolders`)
and applied in a later one (`mapRooms`), or fails.

### Rooms and pairs

`RoomMembership`: a handler reads the caller's row and the target's, revokes
subscriptions, writes, and restores or grants, each as a step; every operation of `roomService.ts` on a
group is one of `Request`. `disturbed` (history) marks a user whose operations
overlapped or failed in a way the code does not undo. `PrivateRooms`: a `Clerk` serves one
request at a time in one process; `pairLock` is the lock in memory, one for each
process, `advisory` the one in PostgreSQL, `rowLock` the row of the room. A send
of a message is one of its calls, with its check of the blocks under the
advisory lock.

### Beside the requests

`Presence`: `pipe` holds each instance's commands to Redis in order. Redis starts
with no script: one it does not know yet, or has forgotten, is refused (`Refuse`)
and sent again with its body, behind what was sent meanwhile, which is how a
command can be overtaken; a command of another user may bring a body first
(`OthersLoad`). `SocketSessions`: one user, one room, two sockets; a local
handler, a remote one whose publication can fail or whose frame can be lost, the
restore of a reconnecting socket, and the sweep that reads memberships and
leaves, with reads that fail at will until it gives up. The subscriber comes
back with a signal (`SubscriberRestored`) or without (`RestoredSilently`).
`Typing`: frames wait for the membership read. `RedisConnections`: connections
are numbered, `current` is the one in use and `active` the one the channel is on;
the operations on the channel are serialized in `queue`. A replaced connection
keeps its listeners until `Retire`, and `Copies` counts what each connection
delivers; the client restores a connection with an announcement
(`ReconnectsItself`) or without one (`ReconnectsSilently`). `EmergencyAlerts`: two runs of the hourly
check and every step between reservation and completion, each of which may fail
or be the last. `RefreshTokens`: tabs of several browsers, with and without the
browser's lock. `Uploads`: files are absent, partial or complete. `Shutdown`:
the stages of `index.ts` and the seconds they may take.

## What is checked

| run | shows | instance |
|---|---|---|
| `message_keys` | `CommandAtMostOnce`, `HeardAsMade`, `ImplementsChangeLog` | 1 user, 2 rooms, 2 messages, 2 keys, 2 handlers, 2 changes, 1 room operation |
| `message_rooms` | `RowMatchesHistory`, `HistoryIsKept`, `AuthorizedAtCommit` | 2 users, 1 room, 1 message, 2 keys, 2 handlers, 3 changes, 1 room operation |
| `message_boundary` | `BoundarySplitsHistory` | 2 users, 1 room, 2 messages, 1 key, 1 read key, 2 handlers, 2 changes, 2 room operations |
| `tab` | `RecoveredAfterReady`, `CatchesUp`, `CallsSettle`, `ShownIsVerified`, `ReadsAreStored` | 2 messages in 2 rooms, page size 1, 3 changes, 1 fault; 2 calls, 3 access tokens; 2 messages, 1 failed write, 1 list |
| `client` | `NeverOutdated`, `CachesAreKeptSmall`, `SentOnceWhereTyped`, `NoBlockedContact`, `ShownIsStored`, `ListsConverge`, `ListAgrees`, `PagesMeetAll`, `BadgesCountOnce` | as `tab` with one room the user is not in, room loads, events in any order, faults at any point; 2 requests and 2 worker versions over caches of 1, with 2 pages and 2 files; 2 items and 2 rooms; 2 requests and 1 contact; 1 save at a time, 2 edits and 2 events; 3 deeds and 2 fetches; 2 rooms, 2 folders, 2 moves, 2 reads of the list; pages of 2 over 4 old and 3 new rows; 2 messages and 1 upset |
| `services` | `SubscriptionsMatch`, `OwnerIsKept`, `RemovalIsAuthorized`, `FriendsCanTalk`, `PairIsSerialized`, `TabsKeepTheirSession`, `RowsNameWholeFiles`, `SentWithAttachments`, `AppliedInOrder`, `ReportsAreRecent`, `StopsInOrder` | 3 users and 2 handlers, 2 requests, 1 lost; a pair, 2 clerks in one process or two, 3 calls; 2 tabs, 2 browsers, 4 tokens; 2 uploads, 2 messages, 2 avatars, 1 broken write; 2 runners, 3 releases; rings of 3; 2 requests and 2 signals |
| `realtime` | `PresenceIsTrue`, `SubscriptionsFollow`, `SlotsCounted`, `TypingFollowsSockets`, `FramesAccountedFor`, `SubscriptionsRestored`, `EachAlertedOnce`, `IncidentCloses` | 2 instances, 2 sockets, 1 failure; 2 sessions over a limit of 1, 2 outages, 2 attempts of a pass; 2 sockets and 2 frames; 6 connections, 2 calls, 3 troubles; 2 contacts, 2 runs, 1 mishap |
| `sync_reconnect`, `sync_checkpoint`, `rooms_transfer`, `rooms_blocked`, `markers_forward` | a violation each, see "Findings" | |

Several properties have named parts: `HeardAsMade` is `AnswersWithOwnChange` and
`AnnouncedAtMostOnce`; `HistoryIsKept` is `NoLostUpdate` and `RecallIsFinal`;
`CatchesUp` is `Converges` and `BufferDrains`; `NeverOutdated` is
`NothingBehindCursor` and `VersionsMoveForward`; `PairIsSerialized` is
`NoMessageAcrossBlock` and `OneRoomPerPair`; `PresenceIsTrue` is
`LeaseWhileHeld`, `FriendsToldTruth` and `LeasesConverge`; `FramesAccountedFor` is
`EachFrameOnce` and `GapsAreAnnounced`; `EachAlertedOnce` is `NoAlertLost` and
`AlertedOnce`; `SubscriptionsFollow` is `MembersStaySubscribed` and
`RevokedLeave`. Every module states its type invariant.

### The bounds

Each hazard of the write side is a race of two handlers over one key, one
message or the counter; two workers meet on every one of them, and the first
handler's history supplies the third actor. Two keys tell reuse from retry, two
messages a key reused on another message, three changes are a creation, an edit
and a recall. A page size of 1 makes a sync of several pages, and an exactly
full last page, out of two changes; three changes leave one for the live path.

The same reasoning fixes the rest. Two handlers, clerks, tabs, sockets,
instances, sends or runs meet on one row; the third user of `RoomMembership` is
there because a kick and a transfer need a caller, a target and a bystander; four
tokens are a login, a renewal, and one more of each; a cache of one entry is full
after the first, and the second page or file puts it over its limit; rings of three are wrapped by the fourth write; a page of two
over four old rows ends among rows of one instant. Six
connections leave room for a replacement after each of three troubles. Reads of a
reconciliation fail whenever they like, so its two attempts are both used up in
some behaviours; silent restorations, refused scripts and failing trims are not
counted as faults, and are bounded by nothing but what they act on.
Small counts of faults bound how often the environment interferes and not when.

Interchangeable handlers are declared symmetric in `MCMessageLog` and `MCRooms`,
whose runs check no liveness; users and rooms are not, because the
initial roles name them.

Runs turn deadlock checking off because the systems may stop: when the bound on
changes is reached and every handler is idle, nothing has to happen.

### Fairness

Weak fairness is assumed of what runs without anybody's decision, and of nothing
else. In `SyncClient`: a handler that has committed publishes, Socket.IO (or the
one-second timer of `ChatContext.tsx` 891) connects again, the server restores
subscriptions and says so, packets are delivered, the checkpoint interval fires,
a request chain goes on, a room load ends. In `PageSession`: a request is
answered or refused, a refresh ends, the event loop runs what was answered. In
`Presence`: the heartbeat's interval, commands that are answered, the grace timer
and the expiry of a lease. In `SocketSessions`: handlers and restores that have
begun, a frame on its way, a subscriber that comes back, the sweep. In
`RedisConnections`: the watchdog, the reattach timer, the operation at the head
of the queue, a connection attempt. In `EmergencyAlerts`: a run that goes on and
the clock that ends a lease (the job's own hourly timer is part of `GoOn`). In
`ReadMarkers`: the effect, its timer, writes and events that are answered.
Commits, deletions, failures, crashes and losses of connection are never fair.
The other modules state safety only.

### Environment assumptions

Two constants name what the convergence runs of the tab assume, and each is shown
to be needed by the run that drops it, which is one of the findings below.

* `PublishInOrder`: events are published in the order of their changes. The code
  does not enforce it; `NeverOutdated` does not use it.
* `FaultDuringSync = FALSE`: no connection or subscription is lost while a full
  sync runs.

Neither covers an event lost while the tab is connected and subscribed: a handler
that dies between its commit and its publication (`MessageLog` has that crash,
`SyncClient` does not), or a gap in Redis, which delivers at most once. Such a
loss triggers no recovery of a tab (`docs/api-documentation.md` 1577), and no
property here claims it does.

Other properties name, with a history variable, the circumstances under which
the code promises nothing, and the actions that set it are the places to look:
`disturbed` (`RoomMembership`, `LocalUser`), `outdated` (`LocalUser`: fields
another tab has saved since, and a panel that a refresh of an earlier user wrote),
`crossed` (`SocketSessions`, `PrivateRooms`), `escaped` (`SocketSessions`: the
revocations that nothing will look at again), `silent` (`RedisConnections`: a
connection the client restored without an announcement, until the next one),
`raced` and `overtaken` (`Presence`: the latter names the instances that sent a
refused script again behind a command of the other kind), `overlapped`
(`EmergencyAlerts`), `overtaken` (`SocialData`), `parted` (`Folders`: a drop that
failed or met another change, or a change of the tab's while a refresh had read
what was before), `uploadsMet` (`Composer`), `orphaned` (`EmergencyContacts`),
`unlinked` (`Uploads`), `shaken` (`RoomBadges`), `toggles.plain` (`HistoryPages`),
`late` and `untrimmed` (`PageCache`: the caches whose last trim failed). Each of
`escaped`, `silent`, `outdated`, `parted`, `untrimmed` and `overtaken` is needed:
without it TLC finds the property violated. `EachFrameOnce` also excludes the
time in which a replaced connection has not been retired.

## Findings

1. `ChatContext.tsx` 925 (`sync_reconnect`): a `realtime_ready` heard while a full
   sync is running is answered with that sync, also when its last page has been
   read already. `roomService.ts` 516-523 sends `realtime_ready` after a failed
   kick so that changes committed while the subscription was revoked are
   recovered, and the API documentation (1578) has the client sync after every
   connection. The run revokes the subscription while the page is on its way,
   commits and publishes, restores, and ends with a connected, idle tab that
   lacks the change.
2. `ChatContext.tsx` 969 (`sync_checkpoint`): a checkpoint ends with
   `liveChangesSinceCheckpoint = false`, although a live change may have set the
   flag after the checkpoint's page was read. The comment at 946 gives the
   checkpoint the task of closing gaps that out-of-order events leave. In the run
   a recall overtakes the message it recalls, is dropped, and the checkpoint in
   flight takes the flag away: the tab shows the recalled message, and no timer
   will ask.
3. `roomRepository.ts` 372 (`rooms_transfer`): `transferOwnership` writes both
   roles by one `CASE` whose branch for the caller comes first. An owner who
   names themselves becomes an admin, and the room has no owner any more.
4. `roomRepository.ts` 150 (`rooms_blocked`): a conditional reopen that took its
   snapshot before a block committed and waited for the row writes
   `is_readonly = false` after it; the migration that adds the trigger says it
   cannot. Messages stay out all the same (`PairIsSerialized`), since a send
   looks at the blocks themselves.
5. `ChatContext.tsx` 302 (`markers_forward`): a member list is kept from moving
   a marker back only if it has no read position, and the server always sends
   one; so a list read before a `read_update` and answered after it moves the
   marker back, which the comment at 296 excludes.

## What is proved

For any sets of users, rooms, messages, keys, handlers, sockets, tabs, files and
contacts, and any bounds, from the assumptions each module names (absent values
are no elements of the sets, kinds of values are disjoint, bounds are numbers,
initial roles are roles). `FramesReachTheHandler` and `ReadyIsKept` have a
hypothesis of their own, explained below.

| module | theorems | states |
|---|---|---|
| `MessageLogProofs` | `TypeCorrect` | `[]TypeOK` |
| `MessageLogSafetyProofs` | `CommandsTakeEffectOnce`, `RowsMatchHistory` | `[]CommandAtMostOnce`, `[]RowMatchesHistory` |
| | `CommitsAreOrdered` | changes become visible in the order of their sequences |
| | `NoUpdateIsLost`, `RecallsAreFinal`, `HistoryStands` | `HistoryIsKept`, by its parts |
| | `AuthorizationHolds` | `AuthorizedAtCommit` |
| | `PositionsMoveForward`, `BoundariesSplitHistory` | read positions; `BoundarySplitsHistory` |
| | `AnswersAndEventsAreOwn` | `[]HeardAsMade` |
| | `Implementation` | `ImplementsChangeLog` |
| `RoomMembershipProofs` | `RemovalsAreAuthorized`, `OwnersAreKept` | `RemovalIsAuthorized`, `OwnerIsKept` |
| | `SubscriptionsAgree` | `[]SubscriptionsMatch` |
| `PrivateRoomsProofs` | `BlocksKeepMessagesOut`, `PairsShareOneRoom`, `PairsAreSerialized` | `PairIsSerialized`, by its parts |
| | `FriendsTalk` | `[]FriendsCanTalk` |
| `ServicesProofs` | `SessionsAreKept` | `[]TabsKeepTheirSession` |
| | `MessagesKeepAttachments`, `NamedFilesAreWhole` | `[]SentWithAttachments`, `[]RowsNameWholeFiles` |
| | `ShutdownIsOrdered` | `[]StopsInOrder` |
| | `AppliedIsAPrefix` | `[]AppliedInOrder` |
| | `CachesStaySmall` | `[]CachesAreKeptSmall` |
| | `ReportsAreOfTheNewest` | `[]ReportsAreRecent` |
| `RealtimeProofs` | `TypingEndsWithSockets`, `SessionsAreCounted` | `[]TypingFollowsSockets`, `[]SlotsCounted` |
| | `MembersKeepTheirRoom` | the safety part of `SubscriptionsFollow` |
| | `AlertsAreKept`, `AlertsAreNotRepeated`, `ContactsAreAlertedOnce` | `[]EachAlertedOnce`, by its parts |
| | `GapsAreTold`, `FramesReachTheHandler` | `[]GapsAreAnnounced`; `[]FramesAccountedFor` |
| | `LeasesAreHeld`, `FriendsAreTold` | the safety parts of `PresenceIsTrue` |
| `ClientProofs` | `PostsStayInTheirRoom`, `BlockedAreNoContacts` | `[]SentOnceWhereTyped`, `[]NoBlockedContact` |
| | `RoomsAreWhereShown` | `[]ListAgrees` |
| | `UserIsShownAsStored`, `PanelConverges` | `[]ShownIsStored`, `[]ListsConverge` |
| `TabProofs` | `MonitoringShowsItsSession` | `[]ShownIsVerified` |
| | `TabIsTyped`, `NothingIsOutdated` | `[]TypeOK`; `NeverOutdated` |
| | `ReadyIsKept` | `[]RecoveredAfterReady`, without faults during a sync |
| | `PagesLeaveNothingOut` | `[]PagesMeetAll` |
| | `BadgesAreCounts` | `[]BadgesCountOnce` |

### The write side

    Inv == Shape /\ CounterInv /\ KeyInv /\ RowInv /\ HistoryInv

* `Shape` is `TypeOK` with the fields each phase of a transaction has filled in.
* `CounterInv`: at most one transaction is between its allocation and its
  commit, and it holds `counter + 1`. That is what turns the lock on one row
  into an ordered log, and `CommitsInOrder` is false without it.
* `KeyInv`: two transactions past the key lock differ in their keys, and one
  that has looked and found nothing still finds nothing. `CommandAtMostOnce`
  alone is not inductive: the commit has to know that the key it saw unspent
  is unspent now.
* `RowInv`: writers of a room exclude each other, what a writer was allowed it
  still is, and the row an edit or a recall has read still stands. The locks on
  room, membership and message are each needed by one conjunct.
* `HistoryInv`: a send writes a blank row, an uninserted message has no
  history, the log names the message's own room, and `RowMatchesHistory`.

Each part is preserved by every action in a lemma of its own (`CounterStep`,
`KeyStep`, and so on, one step per action), under the parts before it. The
action properties and the refinement then follow from `Inv` in the state before
the step. The step simulation of `Implementation` maps `Commit` to
`AppendChange`, `DeleteRoom` to `ForgetRoom`, and everything else to a stutter.
For positions and boundaries, `RowsSucceed` says what a step may do to a
membership row, and `Drawn` that a boundary is at most the last position given
when it was drawn; a later commit is then above it because it is above every
position given. `HeardInv` adds to `Inv` what handlers and subscribers hear: a
receipt belongs to a change of its key, an answer names the change or receipt of
the very command, and an event exists only for a committed `created` change
whose handler has announced.

### The other modules

* Rooms: `Rows /\ Handlers`. A handler that is about to write has decided on
  rows it read (`Decided`); a kick reads again under locks, a leave removes
  only its own row, and whatever else removes the last owner is stale. `SubsInv` adds, for a user on
  whom nothing overlapped (`Orderly`), how far the one handler at work has come:
  revoked and not written, written and not granted, or neither, and then
  subscription and row agree.
* Pairs: `Holds` says which locks a clerk has at each step, `Room` what it knows
  of its room, `NewRoomsApart` that two creations never have the same room. A
  send that may still write and a block that may still commit both hold the advisory
  lock, so one of them sees the other. `FriendInv` adds what rooms and blocks are to
  each other: a blocked pair's rooms are shut, and where no handler is between
  its writes the room of unblocked friends is open and has both of them
  (`FriendsOpen`, `OpenIsLive`). What a handler in the middle has already done is
  read off its step (`Doing`).
* Tokens: while every answer arrives and the browser has locks, a tab under way
  holds its browser's lock (`Locked`), its token has no successor (`Carried`),
  nor has the one in the cookie unless the answer is on its way (`Cookies`), and
  no two browsers have the same token (`Apart`). `Lineage` ties the history
  field `from` to `by`. Reuse detection then has nothing to detect.
* Files: a locked row is recorded and unclaimed, and locked once (`Held`); what a
  handler is about to name was written whole (`Attachments`), a picture that
  was replaced belongs to a handler past its update (`Past`), and so the file that is
  removed is not the row's (`Pictures`). That each commit finds all it asked for
  is an induction over a finite set (`WellFoundedInduction`, `FiniteSetTheorems`).
* Alerts: a run that has not failed has reached every contact but those it still
  has to do and the one it is at (`Through`, `Placed`); while no run outlived
  its lease, the run at work is alone (`Alone`), and an alert without a receipt
  is its own (`Receipted`).
* Connections: a claim is armed only for a socket seen connected in the same turn, so
  `TypingFollowsSockets` is inductive with the types; a slot follows the phase
  of its socket (`SlotsFollow`), so each step adds or removes one element of the
  counted set. A member's open socket outside the room is in somebody's care: a
  restore that has listed the room, or a grant about to be given (`Cared`, in
  `SubscribedInv`, with one holder of the lock). A stage of the shutdown is entered by
  way of the one before (`StopInv`).
* Redis: a frame that finds no listener while one is expected sets `missed`, and
  `missed` stands only while the channel is out of reach, or was put back
  silently (`OwedInGap`), so the next attachment announces it. That is `GapInv`,
  for any number of calls. That a frame is heard once needs more: replays are
  queued in the order of their connections (`InOrder`), and the connection in use
  has the remembered listener and no other (`Remembered`); a replaced one
  delivers nothing once it is retired. The hypothesis `MaxCalls <= 2` is the adapter's own use
  of the channel: `redisAdapter.ts` subscribes once when it starts and
  unsubscribes once when it closes. It is needed: with a third call TLC finds
  `EachFrameOnce` violated, when a replay left from a replaced connection forgets
  the listener that a later subscription put on the new one.
* Presence: commands to Redis are answered in order, so the last one under way,
  or the lease where none is, says whether the instance has sockets (`Followed`); a beat
  finds the lease there and only holds before it (`BeatsFirst`). One announcement at
  most is under way and says what the leases say (`OneAnnouncement`). All of this
  while Redis has not failed (`faults = 0`), and for instances of which no refused
  script was overtaken; a refusal that overtakes only commands of its own kind
  changes neither what the last command is nor what it does.
* Input box: what it holds, uploads, asks or has sent is of one room (`Places`);
  while no two uploads meet, an item in the box and in an upload is one whose
  upload keeps the box busy (`Once`).
* Emergency contacts: a contact of a pair that is being blocked is among the rows
  the block is about to delete (`Watched`).
* Folders: while one room moves, the list and the rows agree on the others (`Elsewhere`),
  and the room itself is where it was, nowhere, or where it goes, as the requests
  still out say (`OnItsWay`). A refresh under way has read what the list shows
  (`Together`), or `parted` stands.
* User: `UnderWay` says for each point of a save what the copies have in common with
  the account; with none under way they have everything but the settings not
  yet loaded and those another tab has saved (`AtEase`). The days a refresh on its
  way will show are the account's, unset, or those of an earlier user (`Timely`).
* Friends panel: a change leaves a refresh owed (`Owed`); once none is, the newest
  fetch has read what the server has (`Fresh`), and it is the one that stays.
* Monitoring: an answer is heard only while the effect that asked runs, and
  effects are cleaned up with every change of the token (`TabInv`).
* The tab's copy of the log: `CursorInv == TypeOK /\ LogInv /\ PageInv /\
  NothingBehindCursor`. `NothingBehindCursor` is not inductive: the cursor moves to the
  end of a page, so the page must have all that is visible between the two
  (`PageInv`), although it was read in an earlier step than the bounds it is
  compared with. A page that is not full has everything above the cursor; of a
  full one, `PageIsFull` shows by counting that the next change in line would have been
  in it. A merge, an event and the flush of the buffer take no version back
  (`MergeForward`, `AppliedForward`, `FlushedForward`). The flush is a recursive
  function of the number of events, and what it does is shown by the least
  number for which it would fail (`Least`, `FlushingStep`).
* History: the place of a message is how many candidates stand after it (`Place`),
  so a page is the candidates at the first `PageSize` places (`PageHasPlaces`,
  `PageReads`), and a page that is not full has them all. `HistoryInv` says with
  `Follows` that the cursor of the next request is the last row seen and that the
  bounds asked with are the member's, unless the history was toggled.
* Badges: `Tallied` says that a badge is the number of the messages counted into it,
  unless one was counted again under an upset; `Covers`, that a summary
  has every unread message up to the reading it came from or the limit
  (`NewestOf`); what lands of it is then a count of messages (`StateIsCounted`),
  as is what a batch adds (`FlushCounts`).
* Migrations: a run that has read the table holds the lock (`MigrationInv`), so
  what it read is still there when it commits (`Planned`). What a filter keeps is
  shown by the least index at which it would keep something else
  (`WithoutLeaves`): upwards the rest of the release, downwards the beginning
  of the applied names.
* Caches: where a cache is over its limit, a worker has yet to list its keys, or is
  deleting those beyond the limit one by one (`Trimmed`), unless the last trim
  failed. A store makes its worker the first; what others delete in between leaves
  fewer. A cache has an address
  once (`Unmixed`), so its length is a cardinality and can be counted
  (`AddressesCount`). Pages of an earlier session that were not on their way are
  there only while the page's own clearing is to come (`Signed`).
* Rings: a record that is not yet `Capacity` records old is in the slot of its
  number (`Holds`), because numbers less than `Capacity` apart have different
  remainders (`RemaindersDiffer`). The window is then the last requests in another
  order (`WindowIsLast`, a bijection). The sort puts a slot after all whose
  duration is less; different slots have different places, so by counting every
  place is taken (`PlacesAreTaken`), and a rank is a number of slots.
* Recovery: `RecoveryInv` adds that `realtime_ready` is on its way at most once and
  finds no sync outstanding (`OneReady`), and how far the sync under way will have
  read when it ends (`Promise`). `ReadyIsKept` supposes `~FaultDuringSync`, as the run
  `tab` does; with such faults the property is false, which is the finding of
  `sync_reconnect`.

### Only model-checked

Liveness under fairness, which is out of the prover's reach: `CatchesUp`,
`CallsSettle`, `LeasesConverge`, `RevokedLeave`, `SubscriptionsRestored`,
`IncidentCloses`, `ReadsAreStored`. Every safety property of a passing run is
stated by a theorem, or by several that state its parts.

## Not modelled

* System messages, which carry neither key nor sender; replies and mentions,
  which are data to every property here; the anonymization of a deleted
  account's messages; nicknames; the half-created private room of a failing
  statement.
* In the client: the purge of rooms with restricted history, a reload that keeps
  the stored cursor and loses the cache, a database restored under a running
  client, the display of typing and presence.
* Passwords, registration, account deletion and the authentication of a
  handshake; downloads; the presence of a deployment without Redis; Redis's
  command and publisher connections.
* Parsing of migration files, the seed, logging, process samples, routes and
  schemas, rendering, translation, formatting, search, dialogs and the form of
  group settings: input and output, or data no other actor changes.
* `MessageLog`'s crash after the commit is not composed with the tab, see
  "Environment assumptions"; and a deadlock of a send with an edit
  (`messageRepository.ts` 342) is an abort like any other, so safety covers it
  and no progress is claimed.

## Noted on the way

What the code does where no document of the repository says otherwise, or where
the model has to exclude it by name. None of these is a run's counterexample.

Rooms and pairs. The leave or kick of a pending applicant that fails grants a
subscription the applicant never had (`roomService.ts` 300-304, 515), and a kick
has no handler around `removeIfAuthorized` failing (511). `updateMemberSchema`
(`routes/roomSchemas.ts` 86) takes the role `owner`, which the API documentation
(1132) does not offer. `removeFriend` is not under the pair's lock, and two
requests that cross leave two rows. A failure in the middle of `createPrivate`
leaves half a room.

Presence and Redis. The first use of each script on a Redis server is refused and
sent again (`presenceStore.ts` 38-41, 97-121): a release refused with a hold right
behind it then runs after the hold, so a connected user is without a lease until
the next heartbeat, and friends stay at offline although nothing failed
(`overtaken`). `releaseUser` treats a refused release as done. A departure
frame of another instance passes by the lock local to this process. Subscribing,
unsubscribing and subscribing again within one outage attaches a listener
twice. A subscriber that the client restores silently (`redisAdapter.ts` 84-86) leaves
a gap nobody is told of, and if its subscription did not come back with it,
nothing subscribes the channel again until the next drop (`silent`). A replaced
connection delivers to the same handlers until it is retired, up to
`closeTimeoutMs` later (`redis.ts` 452-479), so a frame may be heard twice
meanwhile. A revocation of another instance leaves a socket in the room for good
in four cases (`escaped`), which `redisAdapter.ts` 70-94 names but for the last:
its publication fails, which `delSockets` drops into a debug log; the subscriber
that lost it is restored silently; its commit comes after the trailing pass
(`socketServer.ts` 390-394); the reads of a pass fail until the reconciliation
gives up (346-360), and no later pass is asked for. `close()` does not refuse later
publications. A handshake that was authenticated before its account was deleted
may connect after `disconnectUser`.

Sessions and files. `rotate` does not look at `revoked_at` again, although
`api.ts` 226-228 counts on it; a lost answer to a refresh trips reuse detection;
a logout during another tab's refresh signs the browser in again; a late answer to a
logout forgets the token of a newer login (`api.ts` 369-372); the bootstrap puts
the token it began with back over a newer one. When the removal of the earlier
avatar file fails, the same `catch` removes the new one (`userService.ts`
309-315, `roomService.ts` 564-573). A second SIGTERM ends the process in
mid-drain (`index.ts` 79). `getAppliedNames` orders by `run_on`. Signing up
again with the address of a deleted account fails with 500.

The tab's badges and lists. The check of a buffered message against the summary
(`ChatContext.tsx` 1047-1052) runs inside a `setRooms` updater, which React runs
at render, after 864-867 have emptied what it reads; the comment at 1014 knows
that, and reads the replay set synchronously for this reason. So a message
buffered by the very recovery whose summary counts it, and not in that
recovery's pages (always so where history is restricted), is counted twice; the test at
`chat-behavior.test.tsx` 280 covers only replays of a failed recovery. A frame
slower than the whole recovery, a refresh asked for by an event, and a page of a room left
meanwhile have the same effect. A removal heard during a recovery is undone by a
summary read before it, and `handleLeaveOrBlock` and `handleDeleteGroupRoom`
put back a list captured before their request (1748-1750, 1851-1852). A failed
read write can leave the marker at a position never stored, the read effect
marks the newest message read without looking whether it is on the screen, and
the timer of the unread marker outlives a switch of rooms. A name stays in the typing indicator
when its nickname changes.

Forms and caches. An edit that was begun survives a switch of rooms, so the next
send becomes an edit of the other room's message, is refused, and its text is gone;
an upload that ends clears what was typed in another room, and one that fails
while a second is under way lets that one be sent twice (`Chatroom.tsx` 164-173, 424-447).
`handleUpdateProfile` forgets the room order, and `handleUpdatePreferences` sets
the panel's warning days to 0 after a bootstrap, which the next save stores as
1; `USER_UPDATED` reaches the state and not `localStorage`. The refresh of
social data keeps the settings of its last caller within 250 ms and
resets the emergency form. It takes the warning days from the user its caller
captured (`ChatContext.tsx` 437-441): the socket's handlers have the user of the
last change of the token (1213, 1385), so after a later save an event shows the
old days in the panel, or 0 where that user had none yet, and the next save of
the form stores what is shown. Settings saved in another tab reach this one only
with a save of their own or a reload (`outdated`). "Cancel" of an outgoing request
never reaches the server; other tabs of the same user hear nothing of its own blocks. A contact's
second look for a block does not happen if the handler fails before it. A room
that moves between folders sends both requests at once, and
`UNIQUE(user_id, room_id)` refuses the insertion served before the deletion;
`mapRooms` keeps a folder the server no longer has, and a refresh that has read the
folders before a drop and ends after it (`ChatContext.tsx` 385-397) puts the room
back in the old one, in the list only (`parted`). A trim that fails is swallowed
(`sw.js` 49-61) and leaves the cache over its limit until the next store of the
same cache (`untrimmed`). A page on its way at a sign-out is cached after the
clearing. Concurrent partial settings can store a
warning that is enabled and due after 0 days.
