--------------------------- MODULE RoomMembership ----------------------------
(***************************************************************************)
(* One group room: the handlers of roomService that change its membership, *)
(* the rows they read and write, and the live subscriptions they add and   *)
(* remove beside them.                                                     *)
(*                                                                         *)
(* A handler reads the caller's row, then the target's, each in a query of *)
(* its own, decides, and only then writes; the write of a kick and of a    *)
(* transfer looks at the rows again under locks, the others do not.        *)
(*                                                                         *)
(*   join      caller -> write -> grant                                    *)
(*   leave     caller -> revoke -> write (-> grant)                        *)
(*   transfer  caller -> target -> write                                   *)
(*   approve   caller -> target -> write -> grant                          *)
(*   role      caller -> target (-> revoke) -> write (-> grant)            *)
(*   kick      caller -> target -> revoke -> write (-> grant)              *)
(*   settings  caller -> write                                             *)
(*   delete    caller -> target (all members) -> write -> clear            *)
(*   create    found -> write -> grant                                     *)
(*                                                                         *)
(* Subscriptions are those of one process, where the lock per user and     *)
(* room of the publisher holds. A user has at most one session.            *)
(***************************************************************************)
EXTENDS Integers, FiniteSets

CONSTANTS
    User, Worker,   \* users, concurrent request handlers
    Nobody,         \* the absent user
    InitialRoles,   \* the memberships a behaviour may start with
    MaxRequests,    \* bound on requests
    MaxLost         \* bound on connections lost

ASSUME MembershipAssumption ==
    /\ Nobody \notin User
    /\ MaxRequests \in Nat /\ MaxLost \in Nat
    /\ InitialRoles \subseteq
         [User -> {"owner", "admin", "member", "pending", "none"}]

VARIABLES
    role,       \* room_members.role, "none" without a row
    room,       \* chat_rooms: absent, open, deleted
    approval,   \* chat_rooms.require_approval
    subs,       \* users whose session is in room_<id>
    session,    \* how far a user's connection has come
    handler,    \* the request of each worker
    disturbed,  \* users on whom two operations overlapped, a kick failed, or
                \* who were subscribed as applicants (history)
    requests, lost      \* counted for the bounds

mvars == <<role, room, approval, subs, session, handler, disturbed, requests,
           lost>>

-----------------------------------------------------------------------------
MemberRole == {"owner", "admin", "member", "pending", "none"}
Subscriber == {"owner", "admin", "member"}
Manager    == {"owner", "admin"}
Request    == {"create", "join", "leave", "transfer", "approve", "role", "kick",
               "settings", "delete"}
Step       == {"idle", "found", "caller", "target", "revoke", "write", "grant",
               "clear"}
SessionStep == {"off", "joined", "listed", "locked", "on"}

Resting == [step |-> "idle", op |-> "none", by |-> Nobody, on |-> Nobody,
            to |-> "none", byRole |-> "none", onRole |-> "none", rest |-> {}]

Owners == {u \in User : role[u] = "owner"}
InFlight(u) == {w \in Worker : handler[w].step # "idle" /\ handler[w].on = u}

Advance(w, step) == handler' = [handler EXCEPT ![w].step = step]
Finish(w)        == handler' = [handler EXCEPT ![w] = Resting]

\* addUserToRoom and removeUserFromRoom, under the lock that a restoring
\* session holds from its membership read to its join.
Granted(u) == IF session[u] = "off" THEN subs ELSE subs \cup {u}
Unlocked(u) == session[u] # "locked"

\* The owner has to transfer the ownership first.
\* Mutant: every member may leave.
AnyMemberMayLeave(r) == r # "none"

MayLeave(r) == r \notin {"none", "owner"}

\* What the caller's row must say before the target's is read.
CallerMay(op, r) ==
    CASE op = "join"                 -> r = "none"
      [] op = "leave"                -> MayLeave(r)
      [] op \in {"transfer", "delete"} -> r = "owner"
      [] op \in {"approve", "kick", "settings"} -> r \in Manager
      [] OTHER                       -> r # "none"

\* What the target's row must say; only the role is written here, so an
\* updateMember without one is left out.
TargetMay(h, r) ==
    CASE h.op = "transfer" -> r \notin {"none", "pending"}
      [] h.op = "approve"  -> r = "pending"
      [] h.op = "kick"     -> /\ r \notin {"none", "owner"}
                              /\ h.byRole = "admin" => r # "admin"
      [] OTHER             -> /\ r # "none"
                              /\ h.by # h.on /\ h.byRole = "owner"

-----------------------------------------------------------------------------
Init ==
    /\ role \in InitialRoles
    /\ room = IF \A u \in User : role[u] = "none" THEN "absent" ELSE "open"
    /\ approval \in BOOLEAN
    /\ session = [u \in User |-> "on"]
    /\ subs = {u \in User : role[u] \in Subscriber}
    /\ handler = [w \in Worker |-> Resting]
    /\ disturbed = {}
    /\ requests = 0 /\ lost = 0

\* The path names the target and the body the new role.
Named(op, by) ==
    IF op \in {"create", "join", "leave", "settings", "delete"} THEN {by} ELSE User
Wanted(op) == IF op = "role" THEN MemberRole \ {"none"} ELSE {"none"}

Accept(w, op, by, on, to) ==
    /\ handler[w].step = "idle" /\ requests < MaxRequests
    /\ op = "create" <=> room = "absent"
    /\ handler' = [handler EXCEPT ![w] =
          [Resting EXCEPT !.step = IF op = "create" THEN "found" ELSE "caller",
                          !.op = op, !.by = by, !.on = on, !.to = to]]
    /\ requests' = requests + 1
    /\ disturbed' = IF InFlight(on) # {} \/ session[on] \notin {"off", "on"}
                    THEN disturbed \cup {on} ELSE disturbed
    /\ UNCHANGED <<role, room, approval, subs, session, lost>>

\* repo.create. The id is known to this handler alone until it answers.
Found(w) ==
    /\ handler[w].step = "found" /\ room = "absent"
    /\ room' = "open"
    /\ Advance(w, "write")
    /\ UNCHANGED <<role, approval, subs, session, disturbed, requests, lost>>

AfterCaller(op) ==
    CASE op \in {"transfer", "approve", "role", "kick", "delete"} -> "target"
      [] op = "leave" -> "revoke"
      [] OTHER -> "write"

\* joinByCode fixes the role when it reads the room, not when it adds the row.
JoinRole == IF approval THEN "pending" ELSE "member"

\* The room, then the caller's row.
ReadCaller(w) ==
    LET h == handler[w]  r == role[h.by] IN
    /\ h.step = "caller"
    /\ IF /\ room = "open" /\ CallerMay(h.op, r)
          /\ h.op = "approve" => approval
       THEN handler' = [handler EXCEPT ![w] =
              [h EXCEPT !.step = AfterCaller(h.op), !.byRole = r,
                        !.onRole = IF h.on = h.by THEN r ELSE @,
                        !.to = IF h.op # "join" THEN @
                               ELSE JoinRole]]
       ELSE Finish(w)
    /\ UNCHANGED <<role, room, approval, subs, session, disturbed, requests,
                   lost>>

\* A member demoted to pending loses the subscription, and before the row
\* changes.
\* Mutant: a demotion leaves the subscription alone.
NeverDemoting(h) == FALSE

Demoting(h) == h.op = "role" /\ h.to = "pending" /\ h.onRole # "pending"

ReadTarget(w) ==
    LET h == handler[w]  r == role[h.on]
        read == [h EXCEPT !.onRole = r] IN
    /\ h.step = "target" /\ h.op # "delete"
    /\ IF TargetMay(h, r)
       THEN handler' = [handler EXCEPT ![w] = [read EXCEPT !.step =
              IF h.op = "kick" \/ Demoting(read) THEN "revoke" ELSE "write"]]
       ELSE Finish(w)
    /\ UNCHANGED <<role, room, approval, subs, session, disturbed, requests,
                   lost>>

\* deleteGroup lists the members it will have to unsubscribe.
ListMembers(w) ==
    /\ handler[w].step = "target" /\ handler[w].op = "delete"
    /\ handler' = [handler EXCEPT ![w] = [@ EXCEPT !.step = "write",
                      !.rest = {u \in User : role[u] # "none"}]]
    /\ UNCHANGED <<role, room, approval, subs, session, disturbed, requests,
                   lost>>

\* The subscription goes before the row does.
Revoke(w) ==
    LET h == handler[w] IN
    /\ h.step = "revoke" /\ Unlocked(h.on)
    /\ subs' = subs \ {h.on}
    /\ Advance(w, "write")
    /\ UNCHANGED <<role, room, approval, session, disturbed, requests, lost>>

\* A failed leave or kick gives back what it revoked, to an applicant too.
Subscribe(w) ==
    LET h == handler[w] IN
    /\ h.step = "grant" /\ Unlocked(h.on)
    /\ subs' = Granted(h.on)
    /\ disturbed' = IF h.op \in {"leave", "kick"} /\ h.onRole = "pending"
                    THEN disturbed \cup {h.on} ELSE disturbed
    /\ Finish(w)
    /\ UNCHANGED <<role, room, approval, session, requests, lost>>

-----------------------------------------------------------------------------
\* The writes. Each is one statement or one transaction.
Writing(w, op) == handler[w].step = "write" /\ handler[w].op = op
OnlyRole == UNCHANGED <<room, approval, subs, session, disturbed, requests,
                        lost>>

\* The first row of a new room; nothing but its creation comes before it.
AddOwner(w) ==
    /\ Writing(w, "create")
    /\ role' = [role EXCEPT ![handler[w].by] = "owner"]
    /\ Advance(w, "grant")
    /\ OnlyRole

\* The primary key refuses the second of two joins.
Add(w) ==
    LET h == handler[w] IN
    /\ Writing(w, "join")
    /\ IF room = "open" /\ role[h.on] = "none"
       THEN /\ role' = [role EXCEPT ![h.on] = h.to]
            /\ IF h.to = "member" THEN Advance(w, "grant") ELSE Finish(w)
       ELSE Finish(w) /\ UNCHANGED role
    /\ OnlyRole

\* Unconditional: the role was looked at before the subscription went.
RemoveMember(w) ==
    /\ Writing(w, "leave")
    /\ role' = [role EXCEPT ![handler[w].on] = "none"]
    /\ Finish(w)
    /\ OnlyRole

\* Both rows are locked and looked at again, and one UPDATE writes them; the
\* caller's branch of its CASE comes first.
Transfer(w) ==
    LET h == handler[w] IN
    /\ Writing(w, "transfer")
    /\ IF room = "open" /\ role[h.by] = "owner"
          /\ role[h.on] \notin {"none", "pending"}
       THEN role' = [role EXCEPT ![h.on] = "owner", ![h.by] = "admin"]
       ELSE UNCHANGED role
    /\ Finish(w)
    /\ OnlyRole

\* The row is locked but only its absence is an error.
Approve(w) ==
    LET h == handler[w] IN
    /\ Writing(w, "approve")
    /\ IF role[h.on] # "none"
       THEN role' = [role EXCEPT ![h.on] = "member"] /\ Advance(w, "grant")
       ELSE UNCHANGED role /\ Finish(w)
    /\ OnlyRole

\* Whether to subscribe, or to give back what was revoked, follows from the
\* role read before.
UpdateRole(w) ==
    LET h == handler[w] IN
    /\ Writing(w, "role")
    /\ IF role[h.on] # "none"
       THEN /\ role' = [role EXCEPT ![h.on] = h.to]
            /\ IF h.onRole = "pending" /\ h.to # "pending"
               THEN Advance(w, "grant") ELSE Finish(w)
       ELSE /\ UNCHANGED role
            /\ IF Demoting(h) THEN Advance(w, "grant") ELSE Finish(w)
    /\ OnlyRole

\* removeIfAuthorized: the caller still outranks the target, whose role is
\* the one that was read.
\* Mutant: only the target's role is looked at again.
SameRole(h) == role[h.on] # "none" /\ role[h.on] = h.onRole

StillKickable(h) ==
    /\ role[h.on] # "none" /\ role[h.on] = h.onRole
    /\ role[h.by] \in Manager
    /\ role[h.by] = "admin" => role[h.on] \notin Manager

RemoveIfAuthorized(w) ==
    LET h == handler[w] IN
    /\ Writing(w, "kick")
    /\ IF StillKickable(h)
       THEN role' = [role EXCEPT ![h.on] = "none"] /\ Finish(w)
       ELSE UNCHANGED role /\ Advance(w, "grant")
    /\ OnlyRole

UpdateSettings(w) ==
    /\ Writing(w, "settings")
    /\ approval' = IF room = "open" THEN ~approval ELSE approval
    /\ Finish(w)
    /\ UNCHANGED <<role, room, subs, session, disturbed, requests, lost>>

\* The rows of the members go with the room; their sessions one by one.
Delete(w) ==
    /\ Writing(w, "delete")
    /\ room' = "deleted"
    /\ role' = [u \in User |-> "none"]
    /\ Advance(w, "clear")
    /\ UNCHANGED <<approval, subs, session, disturbed, requests, lost>>

Clear(w) ==
    LET h == handler[w] IN
    /\ h.step = "clear"
    /\ \/ h.rest = {} /\ Finish(w) /\ UNCHANGED subs
       \/ \E u \in h.rest :
            /\ Unlocked(u)
            /\ subs' = subs \ {u}
            /\ handler' = [handler EXCEPT ![w].rest = @ \ {u}]
    /\ UNCHANGED <<role, room, approval, session, disturbed, requests, lost>>

\* A statement fails. leave and a demotion give the subscription back; a kick
\* passes the error on.
Fail(w) ==
    LET h == handler[w] IN
    /\ h.step = "write"
    /\ IF h.op = "leave" \/ Demoting(h) THEN Advance(w, "grant") ELSE Finish(w)
    /\ disturbed' = IF h.op = "kick" THEN disturbed \cup {h.on} ELSE disturbed
    /\ UNCHANGED <<role, room, approval, subs, session, requests, lost>>

-----------------------------------------------------------------------------
\* Sessions: a socket joins user_<id>, reads its memberships, and for each of
\* them takes the lock, reads the row again and joins.
Connect(u) ==
    /\ session[u] = "off"
    /\ session' = [session EXCEPT ![u] = "joined"]
    /\ disturbed' = IF InFlight(u) # {} THEN disturbed \cup {u} ELSE disturbed
    /\ UNCHANGED <<role, room, approval, subs, handler, requests, lost>>

\* findByUser, then findMember under the lock.
Restore(u, from, to) ==
    /\ session[u] = from
    /\ session' = [session EXCEPT ![u] =
                      IF role[u] \in Subscriber THEN to ELSE "on"]
    /\ UNCHANGED <<role, room, approval, subs, handler, disturbed, requests,
                   lost>>

JoinRoom(u) ==
    /\ session[u] = "locked"
    /\ session' = [session EXCEPT ![u] = "on"]
    /\ subs' = subs \cup {u}
    /\ UNCHANGED <<role, room, approval, handler, disturbed, requests, lost>>

Disconnect(u) ==
    /\ session[u] # "off" /\ lost < MaxLost
    /\ session' = [session EXCEPT ![u] = "off"]
    /\ lost' = lost + 1
    /\ subs' = subs \ {u}
    /\ disturbed' = IF InFlight(u) = {} THEN disturbed \ {u} ELSE disturbed
    /\ UNCHANGED <<role, room, approval, handler, requests>>

-----------------------------------------------------------------------------
Reads(w)  == ReadCaller(w) \/ ReadTarget(w) \/ ListMembers(w)
Writes(w) == \/ Found(w) \/ AddOwner(w) \/ Add(w) \/ RemoveMember(w) \/ Transfer(w)
             \/ Approve(w) \/ UpdateRole(w) \/ RemoveIfAuthorized(w)
             \/ UpdateSettings(w) \/ Delete(w) \/ Fail(w)

Next ==
    \/ \E w \in Worker :
         \/ \E op \in Request, by \in User :
              \E on \in Named(op, by), to \in Wanted(op) : Accept(w, op, by, on, to)
         \/ Reads(w) \/ Writes(w) \/ Revoke(w) \/ Subscribe(w) \/ Clear(w)
    \/ \E u \in User :
         \/ Connect(u) \/ JoinRoom(u) \/ Disconnect(u)
         \/ Restore(u, "joined", "listed") \/ Restore(u, "listed", "locked")

Spec == Init /\ [][Next]_mvars

-----------------------------------------------------------------------------
\* Every variable has its type.
TypeOK ==
    /\ role \in [User -> MemberRole]
    /\ room \in {"absent", "open", "deleted"}
    /\ approval \in BOOLEAN
    /\ subs \subseteq User /\ disturbed \subseteq User
    /\ session \in [User -> SessionStep]
    /\ handler \in [Worker ->
         [step : Step, op : Request \cup {"none"}, by : User \cup {Nobody},
          on : User \cup {Nobody}, to : MemberRole, byRole : MemberRole,
          onRole : MemberRole, rest : SUBSET User]]
    /\ requests \in 0..MaxRequests /\ lost \in 0..MaxLost

\* Where no two operations on a user overlapped, no DELETE of a kick failed
\* and no applicant's leave or kick did, a live session is subscribed exactly
\* if its user is a member that is not pending: the revocations and grants of
\* the handlers, their failure paths included, and of a reconnecting session
\* add up.
Settled(u) == room = "open" /\ InFlight(u) = {} /\ session[u] \in {"off", "on"}

SubscriptionsMatch ==
    \A u \in User \ disturbed : Settled(u) =>
        (u \in subs <=> session[u] = "on" /\ role[u] \in Subscriber)

\* A decision is stale when a role it was made on has changed since.
Stale(w) ==
    LET h == handler[w] IN
    role[h.by] # h.byRole \/ role[h.on] # h.onRole

\* An open room loses its last owner only to a handler whose decision is
\* stale, or to an owner who transfers the ownership to themselves: the rule
\* that an owner transfers before leaving holds of requests that do not race.
LosesLastOwner == Owners # {} /\ Owners' = {} /\ room' = "open"

OwnerIsKept ==
    [][LosesLastOwner => \E w \in Worker :
          /\ handler[w].step = "write" /\ handler'[w] # handler[w]
          /\ \/ Stale(w)
             \/ handler[w].op = "transfer" /\ handler[w].by = handler[w].on]_mvars

\* A member's row goes away only at that member's own request, with the room,
\* or by a caller who outranks the member when it goes, whatever the roles
\* were when the kick was decided.
Outranks(a, b) ==
    \/ a = "owner" /\ b # "owner"
    \/ a = "admin" /\ b \in {"member", "pending"}

RemovalIsAuthorized ==
    [][\A u \in User : role[u] # "none" /\ role'[u] = "none" /\ room' = "open" =>
          \E w \in Worker : LET h == handler[w] IN
             /\ h.step = "write" /\ h.on = u
             /\ \/ h.op = "leave" /\ h.by = u
                \/ h.op = "kick" /\ Outranks(role[h.by], role[u])]_mvars

\* A transfer that commits demotes the caller and promotes the target.
TransferPromotesTarget ==
    [][\A w \in Worker :
          Writing(w, "transfer") /\ role' # role =>
             role'[handler[w].on] = "owner" /\ role'[handler[w].by] = "admin"]_mvars
=============================================================================
