---------------------------- MODULE MCSyncClient -----------------------------
(* Small instances of SyncClient for TLC: two messages in two rooms.       *)
EXTENDS SyncClient, TLC

CONSTANTS m1, m2, r1, r2

TwoRooms  == (m1 :> r1) @@ (m2 :> r2)

=============================================================================
