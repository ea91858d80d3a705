------------------------ MODULE RoomMembershipProofs -------------------------
(***************************************************************************)
(* Who may lose a membership, and when an open room may lose its owner.    *)
(*                                                                         *)
(* Both rest on what a handler has decided by the time it writes: that the *)
(* rows it read let it go on (Decided). The write then either reads the    *)
(* rows again, or changes nobody else's row, or is stale.                  *)
(***************************************************************************)
EXTENDS RoomMembership, TLAPS

HandlerShape ==
    [step : Step, op : Request \cup {"none"}, by : User \cup {Nobody},
     on : User \cup {Nobody}, to : MemberRole, byRole : MemberRole,
     onRole : MemberRole, rest : SUBSET User]

\* What the request of a handler and the rows it read say.
Decided(h) ==
    h.step # "idle" =>
      /\ h.by \in User /\ h.on \in User /\ h.op \in Request
      /\ h.op \in {"leave", "join", "create"} => h.on = h.by
      /\ h.op = "role" => h.to # "none"
      /\ h.step = "found" => h.op = "create"
      /\ h.step \in {"revoke", "write"} =>
           /\ h.op \in {"kick", "leave"} => h.onRole \notin {"none", "owner"}
           /\ h.op = "approve" => h.onRole = "pending"
           /\ h.op = "role" => h.by # h.on /\ h.byRole = "owner"

Handlers ==
    /\ handler \in [Worker -> HandlerShape]
    /\ \A w \in Worker : Decided(handler[w])

\* Every variable but the handlers.
Rows ==
    /\ role \in [User -> MemberRole]
    /\ room \in {"absent", "open", "deleted"}
    /\ approval \in BOOLEAN
    /\ subs \subseteq User /\ disturbed \subseteq User
    /\ session \in [User -> SessionStep]
    /\ requests \in 0..MaxRequests /\ lost \in 0..MaxLost

Inv == Rows /\ Handlers

-----------------------------------------------------------------------------
(* Handlers, one change at a time.                                         *)

\* A handler that is replaced by one that has decided leaves the others alone.
LEMMA Replaced ==
    ASSUME Handlers, NEW w \in Worker, NEW h \in HandlerShape, Decided(h),
           handler' = [handler EXCEPT ![w] = h]
    PROVE  Handlers'
  BY DEF Handlers

\* An idle handler has decided, whatever it held.
LEMMA Finished ==
    ASSUME Handlers, NEW w \in Worker, Finish(w)
    PROVE  Handlers'
<1>1. Resting \in HandlerShape /\ Decided(Resting)
  BY DEF Resting, HandlerShape, Decided, Step, MemberRole
<1> QED
  BY <1>1, Replaced DEF Finish

\* A handler that goes on to a step with nothing more to decide.
LEMMA Advanced ==
    ASSUME Handlers, NEW w \in Worker, NEW step \in {"grant", "clear", "write"},
           Advance(w, step), handler[w].step # "idle",
           step = "write" =>
              handler[w].step \in {"revoke", "write"} \/ handler[w].op = "create"
    PROVE  Handlers'
<1> DEFINE h == [handler[w] EXCEPT !.step = step]
<1>1. handler[w] \in HandlerShape /\ Decided(handler[w])
  BY DEF Handlers
<1>2. h \in HandlerShape
  BY <1>1 DEF HandlerShape, Step
<1>3. /\ h.step = step /\ h.op = handler[w].op /\ h.by = handler[w].by
      /\ h.on = handler[w].on /\ h.to = handler[w].to
      /\ h.byRole = handler[w].byRole /\ h.onRole = handler[w].onRole
  BY <1>1 DEF HandlerShape
<1>4. Decided(h)
  BY <1>1, <1>3 DEF Decided
<1>5. handler' = [handler EXCEPT ![w] = h]
  BY DEF Advance
<1> HIDE DEF h
<1> QED
  BY <1>2, <1>4, <1>5, Replaced

\* What a record of a handler becomes when its fields are set.
LEMMA Shapes ==
    ASSUME NEW h \in HandlerShape
    PROVE  /\ h.step \in Step /\ h.op \in Request \cup {"none"}
           /\ h.by \in User \cup {Nobody} /\ h.on \in User \cup {Nobody}
           /\ h.to \in MemberRole /\ h.byRole \in MemberRole
           /\ h.onRole \in MemberRole /\ h.rest \subseteq User
  BY DEF HandlerShape

-----------------------------------------------------------------------------
(* The invariant.                                                          *)

LEMMA InitInv == Init => Inv
<1> SUFFICES ASSUME Init PROVE Inv
  OBVIOUS
<1>1. role \in [User -> MemberRole]
  BY MembershipAssumption DEF Init, MemberRole
<1>2. Rows
  BY <1>1, MembershipAssumption DEF Init, Rows, SessionStep
<1>3. Resting \in HandlerShape /\ Decided(Resting)
  BY DEF Resting, HandlerShape, Decided, Step, MemberRole
<1>4. Handlers
  BY <1>3 DEF Init, Handlers
<1> QED
  BY <1>2, <1>4 DEF Inv

LEMMA AcceptInv ==
    ASSUME Inv, NEW w \in Worker, NEW op \in Request, NEW by \in User,
           NEW on \in Named(op, by), NEW to \in Wanted(op),
           Accept(w, op, by, on, to)
    PROVE  Inv'
<1> DEFINE h == [Resting EXCEPT !.step = IF op = "create" THEN "found" ELSE "caller",
                     !.op = op, !.by = by, !.on = on, !.to = to]
<1>1. on \in User /\ to \in MemberRole
  BY DEF Named, Wanted, MemberRole
<1>2. h \in HandlerShape
  BY <1>1 DEF Resting, HandlerShape, Step, MemberRole
<1>3. /\ h.step \in {"found", "caller"} /\ h.op = op /\ h.by = by
      /\ h.on = on /\ h.to = to
  BY DEF Resting
<1>4. Decided(h)
  BY <1>1, <1>3 DEF Decided, Named, Wanted
<1>5. handler' = [handler EXCEPT ![w] = h]
  BY DEF Accept
<1> HIDE DEF h
<1>6. Handlers'
  BY <1>2, <1>4, <1>5, Replaced DEF Inv
<1>7. Rows'
  BY <1>1, MembershipAssumption DEF Inv, Rows, Accept
<1> QED
  BY <1>6, <1>7 DEF Inv

\* The reads: each decides on the row it read.
LEMMA ReadCallerInv ==
    ASSUME Inv, NEW w \in Worker, ReadCaller(w)
    PROVE  Inv'
<1> DEFINE k == handler[w]  r == role[k.by]
           h == [k EXCEPT !.step = AfterCaller(k.op), !.byRole = r,
                          !.onRole = IF k.on = k.by THEN r ELSE @,
                          !.to = IF k.op # "join" THEN @ ELSE JoinRole]
<1>1. k \in HandlerShape /\ Decided(k) /\ k.step = "caller"
  BY DEF Inv, Handlers, ReadCaller
<1>2. k.by \in User /\ r \in MemberRole /\ k.op \in Request
  BY <1>1 DEF Decided, Inv, Rows
<1>3. CASE handler' = [handler EXCEPT ![w] = h] /\ CallerMay(k.op, r)
  <2>1. AfterCaller(k.op) \in Step /\ JoinRole \in MemberRole
    BY <1>2 DEF AfterCaller, JoinRole, Step, Request, MemberRole
  <2>2. h \in HandlerShape
    BY <1>1, <1>2, <2>1 DEF HandlerShape
  <2>3. /\ h.step = AfterCaller(k.op) /\ h.op = k.op /\ h.by = k.by /\ h.on = k.on
        /\ k.op = "leave" => h.onRole = r
        /\ k.op # "join" => h.to = k.to
    BY <1>1, Shapes DEF HandlerShape, Decided
  <2>4. Decided(h)
    BY <1>1, <1>2, <1>3, <2>3 DEF Decided, AfterCaller, CallerMay, MayLeave
  <2> HIDE DEF h
  <2>5. Handlers'
    BY <1>3, <2>2, <2>4, Replaced DEF Inv
  <2> QED
    BY <2>5 DEF Inv, Rows, ReadCaller
<1>4. CASE Finish(w)
  BY <1>4, Finished DEF Inv, Rows, ReadCaller
<1> QED
  BY <1>3, <1>4 DEF ReadCaller

LEMMA ReadTargetInv ==
    ASSUME Inv, NEW w \in Worker, ReadTarget(w)
    PROVE  Inv'
<1> DEFINE k == handler[w]  r == role[k.on]
           read == [k EXCEPT !.onRole = r]
           h == [read EXCEPT !.step =
                   IF k.op = "kick" \/ Demoting(read) THEN "revoke" ELSE "write"]
<1>1. k \in HandlerShape /\ Decided(k) /\ k.step = "target"
  BY DEF Inv, Handlers, ReadTarget
<1>2. k.on \in User /\ r \in MemberRole /\ k.op \in Request
  BY <1>1 DEF Decided, Inv, Rows
<1>3. CASE handler' = [handler EXCEPT ![w] = h] /\ TargetMay(k, r)
  <2>1. h \in HandlerShape
    BY <1>1, <1>2 DEF HandlerShape, Step
  <2>2. /\ h.step \in {"revoke", "write"} /\ h.onRole = r /\ h.op = k.op
        /\ h.by = k.by /\ h.on = k.on /\ h.to = k.to /\ h.byRole = k.byRole
    BY <1>1 DEF HandlerShape
  <2>3. k.op # "leave"
    BY <1>1, <1>3 DEF TargetMay, Decided
  <2>4. Decided(h)
    BY <1>1, <1>2, <1>3, <2>2, <2>3 DEF Decided, TargetMay
  <2> HIDE DEF h
  <2>5. Handlers'
    BY <1>3, <2>1, <2>4, Replaced DEF Inv
  <2> QED
    BY <2>5 DEF Inv, Rows, ReadTarget
<1>4. CASE Finish(w)
  BY <1>4, Finished DEF Inv, Rows, ReadTarget
<1> QED
  BY <1>3, <1>4 DEF ReadTarget

LEMMA ListMembersInv ==
    ASSUME Inv, NEW w \in Worker, ListMembers(w)
    PROVE  Inv'
<1> DEFINE k == handler[w]
           h == [k EXCEPT !.step = "write", !.rest = {u \in User : role[u] # "none"}]
<1>1. k \in HandlerShape /\ Decided(k) /\ k.step = "target" /\ k.op = "delete"
  BY DEF Inv, Handlers, ListMembers
<1>2. h \in HandlerShape
  BY <1>1 DEF HandlerShape, Step
<1>3. /\ h.step = "write" /\ h.op = k.op /\ h.by = k.by /\ h.on = k.on
  BY <1>1 DEF HandlerShape
<1>4. Decided(h)
  BY <1>1, <1>3 DEF Decided
<1>5. handler' = [handler EXCEPT ![w] = h]
  BY DEF ListMembers
<1> HIDE DEF h
<1>6. Handlers'
  BY <1>2, <1>4, <1>5, Replaced DEF Inv
<1> QED
  BY <1>6 DEF Inv, Rows, ListMembers

\* A step between the decision and the answer.
Mid(w) == \/ Found(w) \/ Revoke(w) \/ Subscribe(w)
          \/ AddOwner(w) \/ Add(w) \/ RemoveMember(w) \/ Transfer(w) \/ Approve(w)
          \/ UpdateRole(w) \/ RemoveIfAuthorized(w) \/ UpdateSettings(w)
          \/ Delete(w) \/ Fail(w)

\* It goes on without a new decision, or ends.
LEMMA MidMoves ==
    ASSUME Inv, NEW w \in Worker, Mid(w)
    PROVE  /\ handler[w].step # "idle"
           /\ \/ Finish(w)
              \/ Advance(w, "grant") \/ Advance(w, "clear")
              \/ /\ Advance(w, "write")
                 /\ \/ handler[w].step = "revoke"
                    \/ handler[w].step = "found"
  BY DEF Mid, Found, Revoke, Subscribe, AddOwner, Add, RemoveMember, Transfer,
         Approve, UpdateRole, RemoveIfAuthorized, UpdateSettings, Delete, Fail,
         Writing

LEMMA MidHandlers ==
    ASSUME Inv, NEW w \in Worker, Mid(w)
    PROVE  Handlers'
<1>1. /\ Handlers /\ Decided(handler[w])
      /\ {"grant", "clear", "write"} \subseteq Step
  BY DEF Inv, Handlers, Step
<1>2. CASE Finish(w)
  BY <1>1, <1>2, Finished
<1>3. CASE Advance(w, "grant")
  BY <1>1, <1>3, MidMoves, Advanced
<1>4. CASE Advance(w, "clear")
  BY <1>1, <1>4, MidMoves, Advanced
<1>5. CASE Advance(w, "write") /\ handler[w].step \in {"revoke", "found"}
  BY <1>1, <1>5, MidMoves, Advanced DEF Decided
<1> QED
  BY <1>2, <1>3, <1>4, <1>5, MidMoves

LEMMA MidRows ==
    ASSUME Inv, NEW w \in Worker, Mid(w)
    PROVE  Rows'
<1> DEFINE h == handler[w]
<1>1. /\ h.by \in User /\ h.on \in User /\ h.to \in MemberRole
      /\ {"owner", "admin", "member", "none"} \subseteq MemberRole
  BY MidMoves DEF Inv, Handlers, HandlerShape, Decided, MemberRole
<1> USE DEF Inv, Rows
<1>2. CASE Found(w) \/ UpdateSettings(w) \/ Fail(w)
  BY <1>1, <1>2 DEF Found, UpdateSettings, Fail
<1>3. CASE Revoke(w) \/ Subscribe(w)
  BY <1>1, <1>3 DEF Revoke, Subscribe, Granted
<1>4. CASE AddOwner(w) \/ RemoveMember(w) \/ Delete(w)
  BY <1>1, <1>4 DEF AddOwner, RemoveMember, Delete, OnlyRole
<1>5. CASE Add(w) \/ Approve(w) \/ UpdateRole(w) \/ RemoveIfAuthorized(w)
  BY <1>1, <1>5 DEF Add, Approve, UpdateRole, RemoveIfAuthorized, OnlyRole
<1>6. CASE Transfer(w)
  BY <1>1, <1>6 DEF Transfer, OnlyRole
<1> QED
  BY <1>2, <1>3, <1>4, <1>5, <1>6 DEF Mid

LEMMA ClearInv ==
    ASSUME Inv, NEW w \in Worker, Clear(w)
    PROVE  Inv'
<1>1. Rows'
  BY DEF Inv, Rows, Clear
<1>2. CASE Finish(w)
  BY <1>1, <1>2, Finished DEF Inv
<1>3. ASSUME NEW u \in User, handler' = [handler EXCEPT ![w].rest = @ \ {u}]
      PROVE  Handlers'
  <2> DEFINE k == handler[w]
             h == [k EXCEPT !.rest = @ \ {u}]
  <2>1. k \in HandlerShape /\ Decided(k)
    BY DEF Inv, Handlers
  <2>2. h \in HandlerShape
    BY <2>1 DEF HandlerShape
  <2>3. /\ h.step = k.step /\ h.op = k.op /\ h.by = k.by /\ h.on = k.on
        /\ h.to = k.to /\ h.byRole = k.byRole /\ h.onRole = k.onRole
    BY <2>1 DEF HandlerShape
  <2>4. Decided(h)
    BY <2>1, <2>3 DEF Decided
  <2>5. handler' = [handler EXCEPT ![w] = h]
    BY <1>3
  <2> HIDE DEF h
  <2> QED
    BY <2>2, <2>4, <2>5, Replaced DEF Inv
<1>4. handler[w].rest \subseteq User
  BY DEF Inv, Handlers, HandlerShape
<1> QED
  BY <1>1, <1>2, <1>3, <1>4 DEF Clear, Inv

\* What sessions do, which no handler notices.
Sessions(u) == \/ Connect(u) \/ JoinRoom(u) \/ Disconnect(u)
               \/ Restore(u, "joined", "listed") \/ Restore(u, "listed", "locked")

LEMMA SessionsInv ==
    ASSUME Inv, NEW u \in User, Sessions(u)
    PROVE  Inv' /\ UNCHANGED <<role, handler>>
<1>1. UNCHANGED <<role, handler>>
  BY DEF Sessions, Connect, JoinRoom, Disconnect, Restore
<1>2. Handlers'
  BY <1>1 DEF Inv, Handlers
<1>3. Rows'
  BY MembershipAssumption
     DEF Inv, Rows, Sessions, Connect, JoinRoom, Disconnect, Restore, SessionStep
<1> QED
  BY <1>1, <1>2, <1>3 DEF Inv

\* The step of the next-state relation, by the part of it that is about roles.
LEMMA Steps ==
    ASSUME Next
    PROVE  \/ \E w \in Worker : Mid(w)
           \/ UNCHANGED role
  BY DEF Next, Mid, Reads, Writes, Accept, ReadCaller, ReadTarget, ListMembers,
         Clear, Connect, JoinRoom, Disconnect, Restore

LEMMA NextInv == Inv /\ [Next]_mvars => Inv'
<1> SUFFICES ASSUME Inv, [Next]_mvars PROVE Inv'
  OBVIOUS
<1>1. ASSUME NEW w \in Worker, NEW op \in Request, NEW by \in User,
             NEW on \in Named(op, by), NEW to \in Wanted(op),
             Accept(w, op, by, on, to)
      PROVE  Inv'
  BY <1>1, AcceptInv
<1>2. ASSUME NEW w \in Worker, Reads(w) PROVE Inv'
  BY <1>2, ReadCallerInv, ReadTargetInv, ListMembersInv DEF Reads
<1>3. ASSUME NEW w \in Worker, Mid(w) PROVE Inv'
  BY <1>3, MidHandlers, MidRows DEF Inv
<1>4. ASSUME NEW w \in Worker, Clear(w) PROVE Inv'
  BY <1>4, ClearInv
<1>5. ASSUME NEW u \in User, Sessions(u) PROVE Inv'
  BY <1>5, SessionsInv
<1>6. CASE UNCHANGED mvars
  BY <1>6 DEF mvars, Inv, Rows, Handlers
<1> QED
  BY <1>1, <1>2, <1>3, <1>4, <1>5, <1>6 DEF Next, Writes, Mid, Sessions

\* Rows and roles keep their types, and what a handler carries past its checks
\* is what those checks let through, for any users and any handlers of
\* roomService.ts.
THEOREM Invariance == Spec => []Inv
  BY InitInv, NextInv, PTL DEF Spec

-----------------------------------------------------------------------------
(* Removals.                                                               *)

RemovalStep ==
    \A u \in User : role[u] # "none" /\ role'[u] = "none" /\ room' = "open" =>
       \E w \in Worker : LET h == handler[w] IN
          /\ h.step = "write" /\ h.on = u
          /\ \/ h.op = "leave" /\ h.by = u
             \/ h.op = "kick" /\ Outranks(role[h.by], role[u])

LEMMA MidRemoves ==
    ASSUME Inv, NEW w \in Worker, Mid(w)
    PROVE  RemovalStep
<1> DEFINE h == handler[w]
<1>1. /\ h.by \in User /\ h.on \in User /\ Decided(h)
      /\ role \in [User -> MemberRole] /\ h.step # "idle"
  BY MidMoves DEF Inv, Rows, Handlers, Decided
<1> SUFFICES ASSUME NEW u \in User,
                    role[u] # "none", role'[u] = "none", room' = "open"
             PROVE  /\ h.step = "write" /\ h.on = u
                    /\ \/ h.op = "leave" /\ h.by = u
                       \/ h.op = "kick" /\ Outranks(role[h.by], role[u])
  BY DEF RemovalStep
<1>2. CASE \/ Found(w) \/ Revoke(w) \/ Subscribe(w) \/ UpdateSettings(w)
           \/ Fail(w) \/ Delete(w)
  BY <1>2 DEF Found, Revoke, Subscribe, UpdateSettings, Fail, Delete
<1>3. CASE AddOwner(w) \/ Add(w) \/ Approve(w) \/ UpdateRole(w)
  BY <1>1, <1>3 DEF AddOwner, Add, Approve, UpdateRole, Writing, Decided
<1>4. CASE Transfer(w)
  BY <1>1, <1>4 DEF Transfer
<1>5. CASE RemoveMember(w)
  BY <1>1, <1>5 DEF RemoveMember, Writing, Decided
<1>6. CASE RemoveIfAuthorized(w)
  BY <1>1, <1>6 DEF RemoveIfAuthorized, Writing, Decided, StillKickable,
                    Outranks, Manager, MemberRole
<1> QED
  BY <1>2, <1>3, <1>4, <1>5, <1>6 DEF Mid

\* A member's row goes away only with the room, at the member's own request, or
\* by a kick of a caller who outranks the member at that moment: what
\* removeIfAuthorized looks at again is all it needs to.
THEOREM RemovalsAreAuthorized == Spec => RemovalIsAuthorized
<1>1. Inv /\ [Next]_mvars => [RemovalStep]_mvars
  <2> SUFFICES ASSUME Inv, Next PROVE RemovalStep
    OBVIOUS
  <2>1. CASE UNCHANGED role
    BY <2>1 DEF RemovalStep
  <2> QED
    BY <2>1, Steps, MidRemoves
<1> QED
  BY <1>1, Invariance, PTL DEF Spec, RemovalIsAuthorized, RemovalStep

-----------------------------------------------------------------------------
(* The owner.                                                              *)

LossStep ==
    LosesLastOwner => \E w \in Worker :
          /\ handler[w].step = "write" /\ handler'[w] # handler[w]
          /\ \/ Stale(w)
             \/ handler[w].op = "transfer" /\ handler[w].by = handler[w].on

\* Nobody but the target of a write loses a role by it, the owner's transfer
\* and the end of the room aside.
LEMMA OneLoses ==
    ASSUME Inv, NEW w \in Worker, NEW r \in MemberRole, LosesLastOwner,
           handler[w].on \in User,
           role' = [role EXCEPT ![handler[w].on] = r]
    PROVE  /\ role[handler[w].on] = "owner"
           /\ \A u \in User : role[u] = "owner" => u = handler[w].on
  BY DEF LosesLastOwner, Owners, Inv, Rows

LEMMA MidLoses ==
    ASSUME Inv, NEW w \in Worker, Mid(w), LosesLastOwner
    PROVE  /\ handler[w].step = "write"
           /\ \/ Stale(w)
              \/ handler[w].op = "transfer" /\ handler[w].by = handler[w].on
<1> DEFINE h == handler[w]
<1>1. /\ h.by \in User /\ h.on \in User /\ h.to \in MemberRole /\ Decided(h)
      /\ role \in [User -> MemberRole] /\ h.step # "idle"
      /\ {"owner", "admin", "member", "none"} \subseteq MemberRole
  BY MidMoves DEF Inv, Rows, Handlers, HandlerShape, Decided, MemberRole
<1>2. role' # role /\ room' = "open"
  BY DEF LosesLastOwner, Owners
<1>3. CASE \/ Found(w) \/ Revoke(w) \/ Subscribe(w) \/ UpdateSettings(w)
           \/ Fail(w) \/ Delete(w)
  BY <1>2, <1>3 DEF Found, Revoke, Subscribe, UpdateSettings, Fail, Delete
<1>4. CASE AddOwner(w) \/ Add(w)
  BY <1>1, <1>2, <1>4, OneLoses
     DEF AddOwner, Add, Writing, LosesLastOwner, Owners
<1>5. CASE RemoveMember(w)
  BY <1>1, <1>5, OneLoses DEF RemoveMember, Writing, Decided, Stale
<1>6. CASE Transfer(w)
  <2>1. role' = [role EXCEPT ![h.on] = "owner", ![h.by] = "admin"]
    BY <1>2, <1>6 DEF Transfer
  <2>2. h.by = h.on
    BY <1>1, <2>1 DEF LosesLastOwner, Owners
  <2> QED
    BY <1>6, <2>2 DEF Transfer, Writing
<1>7. CASE Approve(w)
  BY <1>1, <1>2, <1>7, OneLoses DEF Approve, Writing, Decided, Stale
<1>8. CASE UpdateRole(w)
  BY <1>1, <1>2, <1>8, OneLoses DEF UpdateRole, Writing, Decided, Stale
<1>9. CASE RemoveIfAuthorized(w)
  BY <1>1, <1>2, <1>9, OneLoses
     DEF RemoveIfAuthorized, Writing, Decided, StillKickable
<1> QED
  BY <1>3, <1>4, <1>5, <1>6, <1>7, <1>8, <1>9 DEF Mid

\* An open room loses its last owner only to a handler that decided on roles
\* which have changed since, or to an owner's transfer to themselves: handlers
\* that do not race keep the rule that the owner transfers before leaving.
THEOREM OwnersAreKept == Spec => OwnerIsKept
<1>1. Inv /\ [Next]_mvars => [LossStep]_mvars
  <2> SUFFICES ASSUME Inv, Next, LosesLastOwner PROVE LossStep
    BY DEF LossStep
  <2>1. PICK w \in Worker : Mid(w)
    BY Steps DEF LosesLastOwner, Owners
  <2>2. handler[w].step = "write"
    BY <2>1, MidLoses
  <2>3. handler'[w].step # "write"
    BY <2>1, <2>2, MidMoves DEF Inv, Handlers, HandlerShape, Finish, Advance, Resting
  <2> QED
    BY <2>1, <2>2, <2>3, MidLoses DEF LossStep
<1> QED
  BY <1>1, Invariance, PTL DEF Spec, OwnerIsKept, LossStep

-----------------------------------------------------------------------------
(* Subscriptions.                                                          *)

\* The handlers that take the subscription away before they write.
Revoking(h) == h.op \in {"leave", "kick"} \/ Demoting(h)

\* What the rows a handler read leave it to do.
Chosen(h) ==
    /\ h.step = "revoke" => Revoking(h)
    /\ h.step \in {"revoke", "write"} /\ h.op = "role" => h.onRole # "none"
    /\ h.step = "write" /\ h.op = "join" => h.to \in {"pending", "member"}
    /\ h.step = "clear" => room = "deleted"

AllChosen == \A w \in Worker : Chosen(handler[w])

OfflineIsOut == \A u \in User : session[u] = "off" => u \notin subs

Match(u) == u \in subs <=> session[u] = "on" /\ role[u] \in Subscriber

\* How far the handler h has come with the subscription of its user u.
Along(u, h) ==
    /\ \/ h.step = "write" /\ Revoking(h) /\ u \notin subs
       \/ /\ h.step = "grant"
          /\ \/ role[u] \in Subscriber
             \/ h.op \in {"leave", "kick"} /\ h.onRole = "pending"
       \/ /\ h.step # "grant" /\ ~(h.step = "write" /\ Revoking(h))
          /\ Match(u)
    /\ h.step \in {"revoke", "write"} /\ (Revoking(h) \/ h.op \in {"role", "approve"})
          => /\ role[u] \in Subscriber <=> h.onRole \in Subscriber
             /\ role[u] = "none" <=> h.onRole = "none"

\* How far a session has come when no handler is at work on its user.
Quiet(u) ==
    IF session[u] \in {"off", "on"}
    THEN Match(u)
    ELSE u \notin subs /\ (session[u] = "locked" => role[u] \in Subscriber)

\* A user on whom nothing overlapped: one handler at most, and none beside a
\* session that is being restored.
Orderly(u) ==
    /\ \A v, w \in InFlight(u) : v = w
    /\ InFlight(u) # {} => session[u] \in {"off", "on"}
    /\ InFlight(u) = {} => Quiet(u)
    /\ \A w \in InFlight(u) : Along(u, handler[w])

UserInv(u) == u \in disturbed \/ room = "deleted" \/ Orderly(u)

\* What a step needs to know and keeps.
SubsInv == Inv /\ AllChosen /\ OfflineIsOut /\ \A u \in User : UserInv(u)

\* A step that does nothing to u, or makes an owner of u an admin.
LEMMA Elsewhere ==
    ASSUME NEW u \in User, UserInv(u),
           u \in disturbed => u \in disturbed',
           room = "deleted" => room' = "deleted",
           role'[u] \in Subscriber <=> role[u] \in Subscriber,
           role'[u] = "none" <=> role[u] = "none",
           session'[u] = session[u],
           u \in subs' <=> u \in subs,
           InFlight(u)' = InFlight(u),
           \A w \in InFlight(u) : handler'[w] = handler[w]
    PROVE  UserInv(u)'
<1>1. CASE Orderly(u)
  <2>1. Match(u)' <=> Match(u)
    BY DEF Match
  <2>2. ASSUME NEW w \in InFlight(u)
        PROVE  Along(u, handler[w])'
    BY <1>1, <2>1, <2>2 DEF Along, Orderly, Revoking, Demoting
  <2>3. Quiet(u)' <=> Quiet(u)
    BY <2>1 DEF Quiet
  <2> QED
    BY <1>1, <2>2, <2>3 DEF UserInv, Orderly
<1> QED
  BY <1>1 DEF UserInv

\* A step of the one handler at work on u.
LEMMA Here ==
    ASSUME Inv, NEW w \in Worker, NEW u \in User, UserInv(u),
           handler[w].step # "idle", handler[w].on = u,
           u \in disturbed => u \in disturbed',
           room = "deleted" => room' = "deleted",
           session' = session,
           \A v \in Worker : v # w => handler'[v] = handler[v],
           Orderly(u) /\ u \notin disturbed' /\ room' # "deleted" =>
             \/ handler'[w].step = "idle" /\ Match(u)'
             \/ /\ handler'[w].step # "idle" /\ handler'[w].on = u
                /\ Along(u, handler[w])'
    PROVE  UserInv(u)'
<1> SUFFICES ASSUME Orderly(u), u \notin disturbed', room' # "deleted"
             PROVE  Orderly(u)'
  BY DEF UserInv
<1>1. InFlight(u) = {w} /\ session[u] \in {"off", "on"}
  BY DEF Orderly, InFlight
<1>2. CASE handler'[w].step = "idle" /\ Match(u)'
  <2>1. InFlight(u)' = {}
    BY <1>1, <1>2 DEF InFlight
  <2> QED
    BY <1>1, <1>2, <2>1 DEF Orderly, Quiet
<1>3. CASE /\ handler'[w].step # "idle" /\ handler'[w].on = u
           /\ Along(u, handler[w])'
  <2>1. InFlight(u)' = {w}
    BY <1>1, <1>3 DEF InFlight
  <2> QED
    BY <1>1, <1>3, <2>1 DEF Orderly
<1> QED
  BY <1>2, <1>3

\* A step of a handler on another user.
LEMMA There ==
    ASSUME Inv, NEW w \in Worker, NEW u \in User, UserInv(u),
           handler[w].on # u \/ handler[w].step = "idle",
           handler'[w].on # u \/ handler'[w].step = "idle",
           u \in disturbed => u \in disturbed',
           room = "deleted" => room' = "deleted",
           role'[u] \in Subscriber <=> role[u] \in Subscriber,
           role'[u] = "none" <=> role[u] = "none",
           session' = session, u \in subs' <=> u \in subs,
           \A v \in Worker : v # w => handler'[v] = handler[v]
    PROVE  UserInv(u)'
<1>1. InFlight(u)' = InFlight(u) /\ w \notin InFlight(u)
  BY DEF InFlight
<1>2. \A v \in InFlight(u) : handler'[v] = handler[v]
  BY <1>1 DEF InFlight
<1> QED
  BY <1>1, <1>2, Elsewhere

LEMMA AcceptSubs ==
    ASSUME SubsInv, NEW w \in Worker, NEW op \in Request, NEW by \in User,
           NEW on \in Named(op, by), NEW to \in Wanted(op),
           Accept(w, op, by, on, to)
    PROVE  SubsInv'
<1> DEFINE h == [Resting EXCEPT !.step = IF op = "create" THEN "found" ELSE "caller",
                     !.op = op, !.by = by, !.on = on, !.to = to]
<1>1. /\ handler' = [handler EXCEPT ![w] = h]
      /\ handler[w].step = "idle"
      /\ UNCHANGED <<role, room, approval, subs, session, lost>>
      /\ disturbed' = IF InFlight(on) # {} \/ session[on] \notin {"off", "on"}
                      THEN disturbed \cup {on} ELSE disturbed
      /\ on \in User
      /\ handler \in [Worker -> HandlerShape]
  BY DEF Accept, Named, SubsInv, Inv, Handlers
<1>2. h.step \in {"found", "caller"} /\ h.on = on
  BY DEF Resting
<1> HIDE DEF h
<1>3. handler'[w] = h /\ \A v \in Worker : v # w => handler'[v] = handler[v]
  BY <1>1
<1>4. AllChosen'
  BY <1>1, <1>2, <1>3 DEF AllChosen, Chosen, SubsInv, Revoking, Demoting
<1>5. ASSUME NEW u \in User, u # on
      PROVE  UserInv(u)'
  BY <1>1, <1>2, <1>3, <1>5, There DEF SubsInv
<1>6. UserInv(on)'
  <2> SUFFICES ASSUME on \notin disturbed', room' # "deleted"
               PROVE  Orderly(on)'
    BY DEF UserInv
  <2>1. /\ InFlight(on) = {} /\ session[on] \in {"off", "on"}
        /\ on \notin disturbed
    BY <1>1
  <2>2. Match(on)'
    BY <1>1, <2>1 DEF SubsInv, UserInv, Orderly, Quiet, Match
  <2>3. InFlight(on)' = {w}
    BY <1>2, <1>3, <2>1 DEF InFlight
  <2>4. Along(on, handler[w])'
    BY <1>2, <1>3, <2>2 DEF Along
  <2> QED
    BY <1>1, <2>1, <2>3, <2>4 DEF Orderly
<1> QED
  BY <1>1, <1>4, <1>5, <1>6, AcceptInv DEF SubsInv, OfflineIsOut

\* Ending a request, or going on with it, changes nothing else of it.
LEMMA FinishTo ==
    ASSUME Inv, NEW w \in Worker, Finish(w)
    PROVE  /\ handler'[w] = Resting /\ Resting.step = "idle"
           /\ \A v \in Worker : v # w => handler'[v] = handler[v]
  BY DEF Finish, Resting, Inv, Handlers

LEMMA AdvanceTo ==
    ASSUME Inv, NEW w \in Worker, NEW step, Advance(w, step)
    PROVE  /\ handler'[w].step = step
           /\ handler'[w].op = handler[w].op /\ handler'[w].by = handler[w].by
           /\ handler'[w].on = handler[w].on /\ handler'[w].to = handler[w].to
           /\ handler'[w].onRole = handler[w].onRole
           /\ \A v \in Worker : v # w => handler'[v] = handler[v]
<1>1. handler[w] \in HandlerShape /\ handler \in [Worker -> HandlerShape]
  BY DEF Inv, Handlers
<1>2. handler'[w] = [handler[w] EXCEPT !.step = step]
  BY <1>1 DEF Advance
<1> QED
  BY <1>1, <1>2 DEF HandlerShape, Advance

\* The other handlers keep their choice.
LEMMA OthersChosen ==
    ASSUME AllChosen, NEW w \in Worker,
           \A v \in Worker : v # w => handler'[v] = handler[v],
           room = "deleted" => room' = "deleted",
           Chosen(handler[w])'
    PROVE  AllChosen'
<1>1. ASSUME NEW v \in Worker, v # w
      PROVE  Chosen(handler[v])'
  BY <1>1 DEF AllChosen, Chosen, Revoking, Demoting
<1> QED
  BY <1>1 DEF AllChosen

LEMMA ReadSubs ==
    ASSUME SubsInv, NEW w \in Worker, Reads(w)
    PROVE  SubsInv'
<1> DEFINE h == handler[w]  k == handler'[w]
<1> PICK u : u = handler[w].on
  OBVIOUS
<1>1. /\ h \in HandlerShape /\ Decided(h) /\ handler \in [Worker -> HandlerShape]
      /\ role \in [User -> MemberRole]
      /\ Inv /\ h.step \in {"caller", "target"} /\ h.step # "idle"
  BY DEF SubsInv, Inv, Handlers, Reads, ReadCaller, ReadTarget, ListMembers, Rows
<1>2. u \in User /\ h.by \in User /\ h.op \in Request /\ h.onRole \in MemberRole
  BY <1>1 DEF Decided, HandlerShape
<1>3. UNCHANGED <<role, room, approval, subs, session, disturbed>>
  BY DEF Reads, ReadCaller, ReadTarget, ListMembers
<1>4. /\ \A v \in Worker : v # w => handler'[v] = handler[v]
      /\ \/ k.step = "idle"
         \/ /\ k.step # "idle" /\ k.on = u
            /\ k.step \notin {"grant", "clear"}
            /\ k.step = "write" => ~Revoking(k)
            /\ k.step \in {"revoke", "write"} /\ (Revoking(k) \/ k.op \in {"role", "approve"})
                 => k.onRole = role[u]
            /\ k.step = "revoke" => Revoking(k)
            /\ k.step \in {"revoke", "write"} /\ k.op = "role" => k.onRole # "none"
            /\ k.step = "write" /\ k.op = "join" => k.to \in {"pending", "member"}
  <2>1. CASE Finish(w)
    BY <1>1, <2>1, FinishTo
  <2>2. CASE ReadCaller(w) /\ ~Finish(w)
    <3> DEFINE r == role[h.by]
    <3>1. /\ handler' = [handler EXCEPT ![w] =
              [h EXCEPT !.step = AfterCaller(h.op), !.byRole = r,
                        !.onRole = IF h.on = h.by THEN r ELSE @,
                        !.to = IF h.op # "join" THEN @ ELSE JoinRole]]
          /\ h.step = "caller"
      BY <2>2 DEF ReadCaller
    <3>2. /\ k.step = AfterCaller(h.op) /\ k.op = h.op /\ k.on = u
          /\ h.on = h.by => k.onRole = role[u]
          /\ h.op = "join" => k.to = JoinRole
          /\ \A v \in Worker : v # w => handler'[v] = handler[v]
      BY <1>1, <3>1 DEF HandlerShape
    <3>3. JoinRole \in {"pending", "member"}
      BY DEF JoinRole
    <3> HIDE DEF h, k
    <3>4. CASE h.op \in {"transfer", "approve", "role", "kick", "delete"}
      BY <3>2, <3>4 DEF AfterCaller
    <3>5. CASE h.op = "leave"
      BY <1>1, <3>2, <3>5 DEF AfterCaller, Revoking, Decided
    <3>6. CASE h.op \in {"create", "join", "settings"}
      BY <3>2, <3>3, <3>6 DEF AfterCaller, Revoking, Demoting
    <3> QED
      BY <1>2, <3>4, <3>5, <3>6 DEF Request
  <2>3. CASE ReadTarget(w) /\ ~Finish(w)
    <3> DEFINE read == [h EXCEPT !.onRole = role[u]]
    <3>1. /\ handler' = [handler EXCEPT ![w] = [read EXCEPT !.step =
                IF h.op = "kick" \/ Demoting(read) THEN "revoke" ELSE "write"]]
          /\ TargetMay(h, role[u])
          /\ h.op # "delete" /\ h.step = "target"
      BY <2>3 DEF ReadTarget
    <3>2. /\ k.step = IF h.op = "kick" \/ Demoting(read) THEN "revoke" ELSE "write"
          /\ k.op = h.op /\ k.on = u /\ k.onRole = role[u] /\ k.to = h.to
          /\ read.op = h.op /\ read.to = h.to /\ read.onRole = role[u]
          /\ \A v \in Worker : v # w => handler'[v] = handler[v]
      BY <1>1, <3>1 DEF HandlerShape
    <3> HIDE DEF read, h, k
    <3>3. Demoting(read) <=> Demoting(k)
      BY <3>2 DEF Demoting
    <3>4. h.op \notin {"leave", "join"}
      BY <1>1, <3>1 DEF Decided, TargetMay, h
    <3> QED
      BY <1>1, <3>1, <3>2, <3>3, <3>4 DEF Revoking, Demoting, TargetMay
  <2>4. CASE ListMembers(w)
    <3>1. /\ handler' = [handler EXCEPT ![w] = [h EXCEPT !.step = "write",
                           !.rest = {v \in User : role[v] # "none"}]]
          /\ h.op = "delete"
      BY <2>4 DEF ListMembers
    <3>2. /\ k.step = "write" /\ k.op = h.op /\ k.on = u /\ k.onRole = h.onRole
          /\ \A v \in Worker : v # w => handler'[v] = handler[v]
      BY <1>1, <3>1 DEF HandlerShape
    <3> QED
      BY <3>1, <3>2 DEF Revoking, Demoting
  <2> QED
    BY <2>1, <2>2, <2>3, <2>4 DEF Reads
<1>5. AllChosen'
  BY <1>3, <1>4, OthersChosen DEF SubsInv, Chosen
<1>6. ASSUME NEW v \in User
      PROVE  UserInv(v)'
  <2>1. CASE v # u
    <3>1. handler'[w].on # v \/ handler'[w].step = "idle"
      BY <1>4, <2>1
    <3> QED
      BY <1>1, <1>3, <1>4, <2>1, <3>1, There DEF SubsInv
  <2>2. CASE v = u
    <3>1. ASSUME Orderly(u), u \notin disturbed', room' # "deleted"
          PROVE  \/ k.step = "idle" /\ Match(u)'
                 \/ k.step # "idle" /\ k.on = u /\ Along(u, handler[w])'
      <4>1. Along(u, h)
        BY <1>1, <1>2, <3>1 DEF Orderly, InFlight
      <4>2. Match(u)'
        BY <1>1, <1>3, <4>1 DEF Along, Match
      <4>3. ASSUME k.step # "idle"
            PROVE  Along(u, handler[w])'
        BY <1>3, <1>4, <4>2, <4>3 DEF Along, Revoking, Demoting
      <4> QED
        BY <1>4, <4>2, <4>3
    <3> QED
      BY <1>1, <1>2, <1>3, <1>4, <2>2, <3>1, Here DEF SubsInv
  <2> QED
    BY <2>1, <2>2
<1> QED
  BY <1>3, <1>5, <1>6, ReadCallerInv, ReadTargetInv, ListMembersInv
     DEF SubsInv, OfflineIsOut, Reads

\* What a step in the middle of a request does to handlers, sessions and the
\* record of overlaps.
LEMMA MidFrame ==
    ASSUME Inv, NEW w \in Worker, Mid(w)
    PROVE  /\ \A v \in Worker : v # w => handler'[v] = handler[v]
           /\ handler'[w].step # "idle" => handler'[w].on = handler[w].on
           /\ session' = session
           /\ room = "deleted" => room' = "deleted"
           /\ disturbed \subseteq disturbed'
           /\ \A u \in User : u # handler[w].on => u \in subs' <=> u \in subs
<1>1. \/ Finish(w) \/ Advance(w, "grant") \/ Advance(w, "clear")
      \/ Advance(w, "write")
  BY MidMoves
<1>2. /\ \A v \in Worker : v # w => handler'[v] = handler[v]
      /\ handler'[w].step # "idle" => handler'[w].on = handler[w].on
  BY <1>1, FinishTo, AdvanceTo
<1>3. /\ session' = session
      /\ room = "deleted" => room' = "deleted"
      /\ disturbed \subseteq disturbed'
  BY DEF Mid, Found, Revoke, Subscribe, AddOwner, Add, RemoveMember, Transfer,
         Approve, UpdateRole, RemoveIfAuthorized, UpdateSettings, Delete, Fail,
         OnlyRole
<1>4. CASE Revoke(w) \/ Subscribe(w)
  BY <1>2, <1>3, <1>4 DEF Revoke, Subscribe, Granted
<1>5. CASE UNCHANGED subs
  BY <1>2, <1>3, <1>5
<1> QED
  BY <1>4, <1>5 DEF Mid, Found, AddOwner, Add, RemoveMember, Transfer,
         Approve, UpdateRole, RemoveIfAuthorized, UpdateSettings, Delete, Fail,
         OnlyRole

\* Of the others only the owner who transfers changes role, and remains a
\* subscriber.
LEMMA MidOthers ==
    ASSUME SubsInv, NEW w \in Worker, Mid(w), NEW u \in User, handler[w].on # u
    PROVE  UserInv(u)'
<1> DEFINE h == handler[w]
<1>1. /\ Inv /\ role \in [User -> MemberRole] /\ h.by \in User /\ h.on \in User
      /\ Decided(h) /\ h.step # "idle"
  BY MidMoves DEF SubsInv, Inv, Rows, Handlers, Decided
<1>2. \/ room' = "deleted"
      \/ /\ role'[u] \in Subscriber <=> role[u] \in Subscriber
         /\ role'[u] = "none" <=> role[u] = "none"
  <2>1. CASE \/ Found(w) \/ Revoke(w) \/ Subscribe(w) \/ UpdateSettings(w)
             \/ Fail(w) \/ Delete(w)
    BY <2>1 DEF Found, Revoke, Subscribe, UpdateSettings, Fail, Delete
  <2>2. CASE AddOwner(w) \/ Add(w) \/ Approve(w) \/ UpdateRole(w)
    BY <1>1, <2>2 DEF AddOwner, Add, Approve, UpdateRole, Writing, Decided
  <2>3. CASE RemoveMember(w) \/ RemoveIfAuthorized(w)
    BY <1>1, <2>3 DEF RemoveMember, RemoveIfAuthorized
  <2>4. CASE Transfer(w)
    BY <1>1, <2>4 DEF Transfer, Subscriber
  <2> QED
    BY <2>1, <2>2, <2>3, <2>4 DEF Mid
<1>3. handler'[w].on # u \/ handler'[w].step = "idle"
  BY <1>1, MidFrame
<1> QED
  BY <1>1, <1>2, <1>3, MidFrame, There DEF SubsInv, UserInv

\* The user of the request is left with the subscription the role calls for,
\* or with a step to come that sees to it.
LEMMA MidHere ==
    ASSUME SubsInv, NEW w \in Worker, Mid(w), NEW u \in User, handler[w].on = u
    PROVE  UserInv(u)'
<1> DEFINE h == handler[w]  k == handler'[w]
<1>1. /\ Inv /\ role \in [User -> MemberRole] /\ h.by \in User
      /\ Decided(h) /\ Chosen(h) /\ h.step # "idle" /\ h.to \in MemberRole
      /\ h.onRole \in MemberRole
      /\ session[u] = "off" => u \notin subs
  BY MidMoves
     DEF SubsInv, AllChosen, OfflineIsOut, Inv, Rows, Handlers, HandlerShape, Decided
<1> SUFFICES ASSUME Orderly(u), u \notin disturbed', room' # "deleted"
             PROVE  \/ k.step = "idle" /\ Match(u)'
                    \/ k.step # "idle" /\ k.on = u /\ Along(u, handler[w])'
  BY <1>1, MidFrame, Here DEF SubsInv
<1>2. Along(u, h) /\ session[u] \in {"off", "on"} /\ session' = session
  BY <1>1, MidFrame DEF Orderly, InFlight
<1>3. \A r : Demoting(h) <=> h.op = "role" /\ h.to = "pending" /\ h.onRole # "pending"
  BY DEF Demoting
<1>4. Finish(w) => k.step = "idle"
  BY <1>1, FinishTo
<1>5. ASSUME Advance(w, "grant"),
             \/ role'[u] \in Subscriber
             \/ h.op \in {"leave", "kick"} /\ h.onRole = "pending"
      PROVE  k.step # "idle" /\ k.on = u /\ Along(u, handler[w])'
  BY <1>1, <1>5, AdvanceTo DEF Along
<1>6. CASE Found(w)
  <2>1. /\ k.step = "write" /\ k.op = "create" /\ k.on = u
        /\ UNCHANGED <<role, subs>>
    BY <1>1, <1>6, AdvanceTo DEF Found, Decided
  <2>2. Match(u)'
    BY <1>2, <1>6, <2>1 DEF Found, Along, Match
  <2>3. Along(u, handler[w])'
    BY <2>1, <2>2 DEF Along, Revoking, Demoting
  <2> QED
    BY <2>1, <2>3
<1>7. CASE Revoke(w)
  <2>1. /\ k.step = "write" /\ k.op = h.op /\ k.on = u /\ k.to = h.to
        /\ k.onRole = h.onRole
        /\ u \notin subs' /\ h.step = "revoke" /\ UNCHANGED role
    BY <1>1, <1>7, AdvanceTo DEF Revoke
  <2>2. Revoking(h) /\ (Revoking(handler[w])' <=> Revoking(h))
    BY <1>1, <2>1 DEF Chosen, Revoking, Demoting
  <2>3. Along(u, handler[w])'
    BY <1>2, <2>1, <2>2 DEF Along
  <2> QED
    BY <2>1, <2>3
<1>8. CASE Subscribe(w)
  <2>1. role[u] \in Subscriber /\ UNCHANGED role
    BY <1>2, <1>8 DEF Subscribe, Along
  <2>2. Match(u)'
    BY <1>1, <1>2, <1>8, <2>1 DEF Subscribe, Granted, Match
  <2> QED
    BY <1>4, <1>8, <2>2 DEF Subscribe
<1>9. CASE UpdateSettings(w) \/ Transfer(w)
  <2>1. Match(u) /\ UNCHANGED subs
    BY <1>2, <1>9
       DEF UpdateSettings, Transfer, Writing, Along, Revoking, Demoting, OnlyRole
  <2>2. role'[u] \in Subscriber <=> role[u] \in Subscriber
    BY <1>1, <1>9 DEF UpdateSettings, Transfer, Subscriber, MemberRole
  <2> QED
    BY <1>2, <1>4, <1>9, <2>1, <2>2 DEF UpdateSettings, Transfer, Match
<1>10. CASE AddOwner(w)
  BY <1>1, <1>5, <1>10 DEF AddOwner, Writing, Subscriber, Decided
<1>11. CASE Add(w)
  <2>1. /\ Match(u) /\ UNCHANGED subs /\ h.op = "join" /\ h.step = "write"
        /\ h.to \in {"pending", "member"}
    BY <1>1, <1>2, <1>11
       DEF Add, Writing, Along, Revoking, Demoting, OnlyRole, Chosen
  <2>2. CASE UNCHANGED role /\ Finish(w)
    BY <1>2, <1>4, <2>1, <2>2 DEF Match
  <2>3. CASE /\ role[u] = "none" /\ role' = [role EXCEPT ![u] = h.to]
             /\ h.to = "member" /\ Advance(w, "grant")
    BY <1>1, <1>5, <2>3 DEF Subscriber
  <2>4. CASE /\ role[u] = "none" /\ role' = [role EXCEPT ![u] = h.to]
             /\ h.to = "pending" /\ Finish(w)
    BY <1>1, <1>2, <1>4, <2>1, <2>4 DEF Subscriber, Match
  <2> QED
    BY <1>11, <2>1, <2>2, <2>3, <2>4 DEF Add
<1>12. CASE RemoveMember(w)
  <2>1. u \notin subs /\ UNCHANGED subs /\ role'[u] = "none"
    BY <1>1, <1>2, <1>12 DEF RemoveMember, Writing, Along, Revoking, OnlyRole
  <2> QED
    BY <1>4, <1>12, <2>1 DEF RemoveMember, Match, Subscriber
<1>13. CASE Approve(w)
  <2>1. /\ Match(u) /\ UNCHANGED subs /\ role[u] # "none"
    BY <1>1, <1>2, <1>13
       DEF Approve, Writing, Along, Revoking, Demoting, OnlyRole, Decided
  <2> QED
    BY <1>1, <1>5, <1>13, <2>1 DEF Approve, Subscriber
<1>14. CASE UpdateRole(w)
  <2>1. /\ h.op = "role" /\ h.step = "write" /\ h.onRole # "none" /\ h.to # "none"
        /\ UNCHANGED subs
    BY <1>1, <1>14 DEF UpdateRole, Writing, OnlyRole, Chosen, Decided
  <2>2. /\ role[u] \in Subscriber <=> h.onRole \in Subscriber
        /\ role[u] # "none"
    BY <1>2, <2>1 DEF Along
  <2>3. /\ role'[u] = h.to
        /\ IF h.onRole = "pending" /\ h.to # "pending"
           THEN Advance(w, "grant") ELSE Finish(w)
    BY <1>1, <1>14, <2>2 DEF UpdateRole
  <2>4. CASE h.onRole = "pending" /\ h.to # "pending"
    BY <1>1, <1>5, <2>1, <2>3, <2>4 DEF Subscriber, MemberRole
  <2>5. CASE h.onRole = "pending" /\ h.to = "pending"
    BY <1>2, <1>4, <2>1, <2>2, <2>3, <2>5
       DEF Along, Revoking, Demoting, Match, Subscriber
  <2>6. CASE h.onRole # "pending" /\ h.to = "pending"
    BY <1>2, <1>4, <2>1, <2>3, <2>6
       DEF Along, Revoking, Demoting, Match, Subscriber
  <2>7. CASE h.onRole # "pending" /\ h.to # "pending"
    BY <1>1, <1>2, <1>4, <2>1, <2>2, <2>3, <2>7
       DEF Along, Revoking, Demoting, Match, Subscriber, MemberRole
  <2> QED
    BY <2>4, <2>5, <2>6, <2>7
<1>15. CASE RemoveIfAuthorized(w)
  <2>1. /\ u \notin subs /\ UNCHANGED subs /\ h.op = "kick"
        /\ h.onRole \notin {"none", "owner"}
        /\ role[u] \in Subscriber <=> h.onRole \in Subscriber
    BY <1>1, <1>2, <1>15
       DEF RemoveIfAuthorized, Writing, Along, Revoking, OnlyRole, Decided
  <2>2. CASE role' = [role EXCEPT ![u] = "none"] /\ Finish(w)
    BY <1>1, <1>4, <2>1, <2>2 DEF Match, Subscriber
  <2>3. CASE UNCHANGED role /\ Advance(w, "grant")
    BY <1>1, <1>5, <2>1, <2>3 DEF Subscriber, MemberRole
  <2> QED
    BY <1>15, <2>2, <2>3 DEF RemoveIfAuthorized
<1>16. CASE Delete(w)
  BY <1>16 DEF Delete
<1>17. CASE Fail(w)
  <2>1. h.step = "write" /\ UNCHANGED <<role, subs>> /\ h.op # "kick"
    BY <1>17 DEF Fail
  <2>2. CASE h.op = "leave" \/ Demoting(h)
    <3>1. /\ h.onRole # "none" /\ Advance(w, "grant")
          /\ role[u] \in Subscriber <=> h.onRole \in Subscriber
      BY <1>1, <1>2, <1>17, <2>1, <2>2 DEF Fail, Along, Revoking, Demoting, Decided, Chosen
    <3> QED
      BY <1>1, <1>5, <2>1, <2>2, <3>1 DEF Subscriber, MemberRole, Demoting
  <2>3. CASE ~(h.op = "leave" \/ Demoting(h))
    <3>1. Match(u) /\ Finish(w)
      BY <1>2, <1>17, <2>1, <2>3 DEF Fail, Along, Revoking
    <3> QED
      BY <1>2, <1>4, <2>1, <3>1 DEF Match
  <2> QED
    BY <2>2, <2>3
<1> QED
  BY <1>6, <1>7, <1>8, <1>9, <1>10, <1>11, <1>12, <1>13, <1>14, <1>15, <1>16,
     <1>17 DEF Mid

LEMMA MidSubs ==
    ASSUME SubsInv, NEW w \in Worker, Mid(w)
    PROVE  SubsInv'
<1>1. Inv /\ Inv' /\ handler[w].on \in User
  BY MidHandlers, MidRows, MidMoves DEF SubsInv, Inv, Handlers, Decided
<1>2. Chosen(handler[w])'
  <2>1. CASE Finish(w)
    BY <1>1, <2>1, FinishTo DEF Chosen
  <2>2. CASE Advance(w, "grant")
    BY <1>1, <2>2, AdvanceTo DEF Chosen
  <2>3. CASE Delete(w)
    BY <1>1, <2>3, AdvanceTo DEF Delete, Chosen
  <2>4. CASE Found(w)
    BY <1>1, <2>4, AdvanceTo DEF Found, Chosen, Inv, Handlers, Decided
  <2>5. CASE Revoke(w)
    <3>1. Chosen(handler[w])
      BY DEF SubsInv, AllChosen
    <3> QED
      BY <1>1, <2>5, <3>1, AdvanceTo DEF Revoke, Chosen, Revoking, Demoting
  <2> QED
    BY <2>1, <2>2, <2>3, <2>4, <2>5
       DEF Mid, Subscribe, AddOwner, Add, RemoveMember, Transfer, Approve,
           UpdateRole, RemoveIfAuthorized, UpdateSettings, Fail
<1>3. AllChosen'
  BY <1>1, <1>2, MidFrame, OthersChosen DEF SubsInv
<1>4. OfflineIsOut'
  <2>1. CASE Revoke(w) \/ Subscribe(w)
    BY <1>1, <2>1 DEF Revoke, Subscribe, Granted, SubsInv, OfflineIsOut
  <2>2. CASE UNCHANGED subs
    BY <1>1, <2>2, MidFrame DEF SubsInv, OfflineIsOut
  <2> QED
    BY <2>1, <2>2
       DEF Mid, Found, AddOwner, Add, RemoveMember, Transfer, Approve,
           UpdateRole, RemoveIfAuthorized, UpdateSettings, Delete, Fail, OnlyRole
<1>5. \A u \in User : UserInv(u)'
  BY MidOthers, MidHere
<1> QED
  BY <1>1, <1>3, <1>4, <1>5 DEF SubsInv

LEMMA ClearSubs ==
    ASSUME SubsInv, NEW w \in Worker, Clear(w)
    PROVE  SubsInv'
<1>1. room = "deleted" /\ UNCHANGED <<room, session>> /\ subs' \subseteq subs
  BY DEF Clear, SubsInv, AllChosen, Chosen
<1>2. \A v \in Worker : v # w => handler'[v] = handler[v]
  BY DEF Clear, Finish, SubsInv, Inv, Handlers
<1>3. Chosen(handler[w])'
  <2>1. CASE Finish(w)
    BY <2>1, FinishTo DEF SubsInv, Chosen
  <2>2. CASE \E u \in User : handler' = [handler EXCEPT ![w].rest = @ \ {u}]
    <3>1. handler'[w].step = "clear"
      BY <2>2 DEF Clear, SubsInv, Inv, Handlers, HandlerShape
    <3> QED
      BY <1>1, <3>1 DEF Chosen
  <2>3. handler[w].rest \subseteq User
    BY DEF SubsInv, Inv, Handlers, HandlerShape
  <2> QED
    BY <2>1, <2>2, <2>3 DEF Clear
<1>4. AllChosen'
  BY <1>1, <1>2, <1>3, OthersChosen DEF SubsInv
<1> QED
  BY <1>1, <1>4, ClearInv DEF SubsInv, OfflineIsOut, UserInv

LEMMA SessionsSubs ==
    ASSUME SubsInv, NEW u \in User, Sessions(u)
    PROVE  SubsInv'
<1>1. Inv' /\ UNCHANGED <<role, handler, room>>
  BY SessionsInv
     DEF SubsInv, Sessions, Connect, JoinRoom, Disconnect, Restore
<1>2. AllChosen'
  BY <1>1 DEF SubsInv, AllChosen, Chosen, Revoking, Demoting
<1>3. session \in [User -> SessionStep] /\ subs \subseteq User
  BY DEF SubsInv, Inv, Rows
<1>4. OfflineIsOut'
  BY <1>3 DEF SubsInv, OfflineIsOut, Sessions, Connect, JoinRoom, Disconnect, Restore
<1>5. \A v \in User : InFlight(v)' = InFlight(v)
  BY <1>1 DEF InFlight
<1>6. ASSUME NEW v \in User, v # u
      PROVE  UserInv(v)'
  <2>1. /\ session'[v] = session[v] /\ (v \in subs' <=> v \in subs)
        /\ v \in disturbed => v \in disturbed'
    BY <1>3, <1>6 DEF Sessions, Connect, JoinRoom, Disconnect, Restore
  <2> QED
    BY <1>1, <1>5, <1>6, <2>1, Elsewhere DEF SubsInv
<1>7. UserInv(u)'
  <2> SUFFICES ASSUME u \notin disturbed', room # "deleted"
               PROVE  Orderly(u)'
    BY <1>1 DEF UserInv
  <2>1. CASE Disconnect(u)
    <3>1. session'[u] = "off" /\ u \notin subs'
      BY <1>3, <2>1 DEF Disconnect
    <3>2. Match(u)' /\ Quiet(u)'
      BY <3>1 DEF Match, Quiet
    <3>3. CASE InFlight(u) = {}
      BY <1>5, <3>1, <3>2, <3>3 DEF Orderly
    <3>4. CASE InFlight(u) # {}
      <4>1. Orderly(u)
        BY <2>1, <3>4 DEF Disconnect, SubsInv, UserInv
      <4>2. ASSUME NEW w \in InFlight(u)
            PROVE  Along(u, handler[w])'
        BY <1>1, <3>1, <3>2, <4>1, <4>2 DEF Along, Orderly, Revoking, Demoting
      <4> QED
        BY <1>1, <1>5, <3>1, <3>4, <4>1, <4>2 DEF Orderly
    <3> QED
      BY <3>3, <3>4
  <2>2. CASE Connect(u)
    <3>1. InFlight(u) = {} /\ u \notin disturbed /\ UNCHANGED subs
          /\ session'[u] = "joined" /\ session[u] = "off"
      BY <1>3, <2>2 DEF Connect
    <3>2. Quiet(u)'
      BY <3>1 DEF Quiet, SubsInv, OfflineIsOut
    <3> QED
      BY <1>5, <3>1, <3>2 DEF Orderly
  <2>3. CASE \/ Restore(u, "joined", "listed") \/ Restore(u, "listed", "locked")
             \/ JoinRoom(u)
    <3>1. /\ u \notin disturbed /\ session[u] \notin {"off", "on"}
      BY <2>3 DEF Restore, JoinRoom
    <3>2. Orderly(u)
      BY <3>1 DEF SubsInv, UserInv
    <3>3. InFlight(u) = {} /\ Quiet(u)
      BY <3>1, <3>2 DEF Orderly
    <3>4. Quiet(u)'
      BY <1>1, <1>3, <2>3, <3>1, <3>3 DEF Restore, JoinRoom, Quiet, Match
    <3> QED
      BY <1>5, <3>3, <3>4 DEF Orderly
  <2> QED
    BY <2>1, <2>2, <2>3 DEF Sessions
<1> QED
  BY <1>1, <1>2, <1>4, <1>6, <1>7 DEF SubsInv

LEMMA SubsInit == Init => SubsInv
<1> SUFFICES ASSUME Init PROVE SubsInv
  OBVIOUS
<1>1. \A w \in Worker : handler[w].step = "idle"
  BY DEF Init, Resting
<1>2. \A u \in User : InFlight(u) = {} /\ session[u] = "on"
  BY <1>1 DEF InFlight, Init
<1>3. \A u \in User : UserInv(u)
  BY <1>2 DEF Init, UserInv, Orderly, Quiet, Match
<1> QED
  BY <1>1, <1>2, <1>3, InitInv DEF SubsInv, AllChosen, Chosen, OfflineIsOut

LEMMA SubsNext == SubsInv /\ [Next]_mvars => SubsInv'
<1> SUFFICES ASSUME SubsInv, [Next]_mvars PROVE SubsInv'
  OBVIOUS
<1>1. ASSUME NEW w \in Worker, NEW op \in Request, NEW by \in User,
             NEW on \in Named(op, by), NEW to \in Wanted(op),
             Accept(w, op, by, on, to)
      PROVE  SubsInv'
  BY <1>1, AcceptSubs
<1>2. ASSUME NEW w \in Worker, Reads(w) \/ Mid(w) \/ Clear(w) PROVE SubsInv'
  BY <1>2, ReadSubs, MidSubs, ClearSubs
<1>3. ASSUME NEW u \in User, Sessions(u) PROVE SubsInv'
  BY <1>3, SessionsSubs
<1>4. CASE UNCHANGED mvars
  <2>1. Inv'
    BY <1>4, NextInv DEF SubsInv
  <2>2. \A u \in User : UserInv(u)'
    BY <1>4 DEF mvars, SubsInv, UserInv, Orderly, InFlight, Quiet, Along,
                Match, Revoking, Demoting
  <2> QED
    BY <1>4, <2>1, <2>2 DEF mvars, SubsInv, AllChosen, Chosen, OfflineIsOut,
                            Revoking, Demoting
<1> QED
  BY <1>1, <1>2, <1>3, <1>4 DEF Next, Writes, Mid, Sessions

\* While the room is there, a user on whom no operations overlapped is, between
\* requests, subscribed exactly when connected and a member: every revocation
\* roomService.ts makes before a write is made good or made true by it.
THEOREM SubscriptionsAgree == Spec => []SubscriptionsMatch
<1>1. SubsInv => SubscriptionsMatch
  BY DEF SubsInv, SubscriptionsMatch, Settled, UserInv, Orderly, Quiet, Match
<1> QED
  BY <1>1, SubsInit, SubsNext, PTL DEF Spec

=============================================================================
