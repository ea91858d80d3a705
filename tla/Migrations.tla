----------------------------- MODULE Migrations ------------------------------
(***************************************************************************)
(* The migration runner. Each run is of some release, whose directory      *)
(* lists its files in order; it takes the advisory lock or gives up, reads *)
(* what is applied, refuses unless one list continues the other, and       *)
(* applies what is pending, or takes back the newest, in one transaction.  *)
(* A run may fail at a file, or its connection may be lost.                *)
(***************************************************************************)
EXTENDS Integers, Sequences, SequencesExt, Filtering

CONSTANTS
    Runner,         \* invocations of migrate.ts that may overlap
    Releases,       \* the lists of migrations a checkout may have
    MaxSteps        \* bound on invocations

\* A directory has each name once.
ASSUME MigrationAssumption ==
    /\ MaxSteps \in Nat /\ "nobody" \notin Runner
    /\ Releases # {}
    /\ \A files \in Releases : files \in Seq(ToSet(files)) /\ IsInjective(files)

VARIABLES
    applied,    \* committed rows of the table, by run_on and id
    holder,     \* the run with the advisory lock, or "nobody"
    run,        \* a run: where it is, its release, direction, what it read
    steps       \* invocations, counted for the bound

nvars == <<applied, holder, run, steps>>

\* plan are the migrations still to be executed, batch all of them.
Ended == [step |-> "ended", files |-> <<>>, down |-> 0, plan |-> <<>>, batch |-> <<>>]

MigrationInit ==
    /\ applied = <<>> /\ holder = "nobody"
    /\ run = [r \in Runner |-> Ended] /\ steps = 0

\* migrate up, or down with a count.
StartRun(r) ==
    /\ run[r].step = "ended" /\ steps < MaxSteps /\ steps' = steps + 1
    /\ \E files \in Releases, down \in 0..2 :
          run' = [run EXCEPT ![r] =
                    [Ended EXCEPT !.step = "lock", !.files = files, !.down = down]]
    /\ UNCHANGED <<applied, holder>>

\* Mutant: the answer of pg_try_advisory_lock is not looked at.
AlwaysGranted == TRUE

LockGranted == holder = "nobody"

\* withLockedConnection: the lock is had at once, or the run ends.
TakeLock(r) ==
    /\ run[r].step = "lock"
    /\ IF LockGranted
       THEN holder' = r /\ run' = [run EXCEPT ![r].step = "read"]
       ELSE run' = [run EXCEPT ![r] = Ended] /\ UNCHANGED holder
    /\ UNCHANGED <<applied, steps>>

ReleaseLock(r) ==
    /\ run' = [run EXCEPT ![r] = Ended]
    /\ holder' = IF holder = r THEN "nobody" ELSE holder

\* assertMigrationOrder: as far as both lists go, they are the same.
SameOrder(names, files) ==
    \A i \in 1..Len(names) : i <= Len(files) => names[i] = files[i]

Pending(names, files) == Without(files, ToSet(names))

NewestFirst(names, count) ==
    Reverse(SubSeq(names, IF Len(names) > count THEN Len(names) - count + 1 ELSE 1,
                   Len(names)))

\* getAppliedNames, the check, and the choice of the batch. For a migration
\* that is to be taken back a file must still exist.
ReadApplied(r) ==
    LET files == run[r].files
        batch == IF run[r].down = 0 THEN Pending(applied, files)
                 ELSE NewestFirst(applied, run[r].down)
    IN  /\ run[r].step = "read"
        /\ IF /\ SameOrder(applied, files)
              /\ batch # <<>>
              /\ \A i \in 1..Len(batch) : Contains(files, batch[i])
           THEN /\ run' = [run EXCEPT ![r].step = "apply", ![r].plan = batch,
                                      ![r].batch = batch]
                /\ UNCHANGED holder
           ELSE ReleaseLock(r)
        /\ UNCHANGED <<applied, steps>>

\* applyMigrations runs one file after the other; nothing shows before COMMIT.
ExecuteFile(r) ==
    /\ run[r].step = "apply" /\ run[r].plan # <<>>
    /\ run' = [run EXCEPT ![r].plan = Tail(@)]
    /\ UNCHANGED <<applied, holder, steps>>

\* INSERTs append rows; DELETEs take every row of a name.
TableAfter(r) ==
    IF run[r].down = 0 THEN applied \o run[r].batch
    ELSE Without(applied, ToSet(run[r].batch))

CommitBatch(r) ==
    /\ run[r].step = "apply" /\ run[r].plan = <<>>
    /\ applied' = TableAfter(r)
    /\ run' = [run EXCEPT ![r].step = "unlock"]
    /\ UNCHANGED <<holder, steps>>

UnlockRun(r) ==
    /\ run[r].step = "unlock"
    /\ ReleaseLock(r)
    /\ UNCHANGED <<applied, steps>>

\* A file fails: ROLLBACK.
FailBatch(r) ==
    /\ run[r].step = "apply" /\ run[r].plan # <<>>
    /\ run' = [run EXCEPT ![r].step = "unlock"]
    /\ UNCHANGED <<applied, holder, steps>>

\* The process dies or its connection is lost, and with it lock and transaction.
LoseRun(r) ==
    /\ run[r].step # "ended"
    /\ ReleaseLock(r)
    /\ UNCHANGED <<applied, steps>>

MigrationNext ==
    \E r \in Runner : \/ StartRun(r) \/ TakeLock(r) \/ ReadApplied(r) \/ ExecuteFile(r)
                   \/ CommitBatch(r) \/ FailBatch(r) \/ UnlockRun(r) \/ LoseRun(r)

MigrationSpec == MigrationInit /\ [][MigrationNext]_nvars

-----------------------------------------------------------------------------
\* Every variable has its type.
MigrationTypeOK ==
    /\ holder \in Runner \cup {"nobody"}
    /\ \A r \in Runner : run[r].step \in {"ended", "lock", "read", "apply", "unlock"}

\* What the table names is, in order and each once, the beginning of some
\* release, however runs of different releases, ups and downs overlap, fail or
\* die.
AppliedInOrder == \E files \in Releases : IsPrefix(applied, files)
=============================================================================
