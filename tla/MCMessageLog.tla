---------------------------- MODULE MCMessageLog -----------------------------
(* Small instances of MessageLog for TLC.                                  *)
EXTENDS MessageLog, TLC

CONSTANTS alice, lobby, annex

\* Alice is an admin and everybody else a member.
AdminAndMembers ==
    [r \in Room |-> [u \in User |->
        IF u = alice THEN "admin" ELSE "member"]]

\* Alice owns the lobby and nobody is in any other room.
OwnerOfLobby ==
    [r \in Room |-> [u \in User |->
        IF u = alice /\ r = lobby THEN "owner" ELSE "none"]]

\* Alice is an admin and everybody else has asked to join.
AdminAndApplicants ==
    [r \in Room |-> [u \in User |-> IF u = alice THEN "admin" ELSE "pending"]]

HiddenHistory == [r \in Room |-> FALSE]

\* Handlers, keys and message ids are interchangeable; users and rooms are not.
Interchangeable ==
    Permutations(Worker) \cup Permutations(MessageId) \cup
    Permutations(Command) \cup Permutations(ReadCommand)
=============================================================================
