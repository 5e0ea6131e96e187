------------------------------- MODULE StoreLock -------------------------------
(***************************************************************************)
(* The two locks of the vault data: the mutex of internal/shared and,      *)
(* taken inside it, the sync.RWMutex of internal/vault.  One lock covers   *)
(* the directories of every vault.  A request is a program of lock and     *)
(* file operations, and requests interleave at every one of them.          *)
(*                                                                         *)
(* The RWMutex is Go's: a writer first announces itself and then waits for *)
(* the readers inside; from the announcement on, a reader that asks for    *)
(* the lock is parked, also one that already holds it, and the writer's    *)
(* Unlock lets the parked readers in.                                      *)
(***************************************************************************)
EXTENDS Integers, Sequences, FiniteSets

CONSTANTS
    Downloads,  \* requests served by Store.OpenVault
    Queries,    \* by Store.GetMetadata
    Saves,      \* by shared.WithWriter around Store.SaveVault
    Rotations,  \* by shared.Rotate
    Backups,    \* captures by shared.WithSnapshot around vault.Snapshot
    NoOne       \* not a request

Requests == Downloads \cup Queries \cup Saves \cup Rotations \cup Backups

(* A request is of one kind.  NoOne stands for a lock nobody holds.        *)
OneKindEach ==
    /\ NoOne \notin Requests
    /\ Downloads \cap (Queries \cup Saves \cup Rotations \cup Backups) = {}
    /\ Queries \cap (Saves \cup Rotations \cup Backups) = {}
    /\ Saves \cap (Rotations \cup Backups) = {}
    /\ Rotations \cap Backups = {}

ASSUME StoreLockAssumption == OneKindEach

VARIABLES
    pc,      \* the next operation of each request
    reads,   \* how many read locks of vault.mu each request holds
    parked,  \* requests waiting inside RLock
    writer,  \* the request that announced itself in vault.mu.Lock, or holds it
    owner,   \* the request that holds shared.mu
    files,   \* kdbx, meta: the version in either file; key: the epoch of the key
             \* vault.kdbx is under; record: the epoch of the membership record
    got      \* what each request read of them

lockVars == <<pc, reads, parked, writer, owner, files, got>>

Files == [kdbx : Nat, meta : Nat, key : Nat, record : Nat]
NoFiles == [kdbx |-> 0, meta |-> 0, key |-> 0, record |-> 0]

-----------------------------------------------------------------------------
(* Programs *)

GetMetadata == <<"RLock", "read meta", "RUnlock">>

(* Mutation of OpenVault: only GetMetadata locks. *)
OpenVaultUnlocked == GetMetadata \o <<"read kdbx">>

OpenVault == <<"RLock">> \o GetMetadata \o <<"read kdbx", "RUnlock">>

SaveVault == <<"Lock", "write kdbx", "write meta", "Unlock">>

WithWriter == <<"lock shared", "read record">> \o SaveVault \o <<"unlock shared">>

(* The rotation's save is under another key. *)
SaveRekeyed == <<"Lock", "rekey kdbx", "write meta", "Unlock">>

(* MarkKeyEpoch, then ClearHistory; neither touches what got is about. *)
AfterCommit == <<"Lock", "Unlock", "Lock", "Unlock">>

(* Verify, WriteVault, the record, AfterCommit. *)
RotateRecord ==
    <<"lock shared", "read record">> \o GetMetadata \o GetMetadata \o SaveRekeyed
        \o <<"write record">> \o AfterCommit \o <<"unlock shared">>

(* Mutation of WithSnapshot: the vault tree is locked before the records. *)
SnapshotInnerFirst ==
    <<"RLock", "lock shared", "read record", "read meta", "read kdbx", "unlock shared", "RUnlock">>

WithSnapshot ==
    <<"lock shared", "read record", "RLock", "read meta", "read kdbx", "RUnlock", "unlock shared">>

Program(p) ==
    CASE p \in Downloads -> OpenVault
      [] p \in Queries -> GetMetadata
      [] p \in Saves -> WithWriter
      [] p \in Rotations -> RotateRecord
      [] p \in Backups -> WithSnapshot

Done(p) == pc[p] > Len(Program(p))
At(p, op) == ~Done(p) /\ Program(p)[pc[p]] = op
Advance(p) == pc' = [pc EXCEPT ![p] = @ + 1]

LockTypeOK ==
    /\ pc \in [Requests -> Nat \ {0}]
    /\ reads \in [Requests -> 0..2]
    /\ parked \subseteq Requests
    /\ writer \in Requests \cup {NoOne}
    /\ owner \in Requests \cup {NoOne}
    /\ files \in Files
    /\ got \in [Requests -> Files]

LockInit ==
    /\ pc = [p \in Requests |-> 1]
    /\ reads = [p \in Requests |-> 0]
    /\ parked = {}
    /\ writer = NoOne
    /\ owner = NoOne
    /\ files = [kdbx |-> 1, meta |-> 1, key |-> 1, record |-> 1]
    /\ got = [p \in Requests |-> NoFiles]

-----------------------------------------------------------------------------
(* vault.mu *)

RLock(p) ==
    /\ At(p, "RLock")
    /\ p \notin parked
    /\ IF writer = NoOne
         THEN /\ reads' = [reads EXCEPT ![p] = @ + 1]
              /\ Advance(p)
              /\ UNCHANGED parked
         ELSE /\ parked' = parked \cup {p}
              /\ UNCHANGED <<pc, reads>>
    /\ UNCHANGED <<writer, owner, files, got>>

RUnlock(p) ==
    /\ At(p, "RUnlock")
    /\ reads' = [reads EXCEPT ![p] = @ - 1]
    /\ Advance(p)
    /\ UNCHANGED <<parked, writer, owner, files, got>>

Announce(p) ==
    /\ At(p, "Lock")
    /\ writer = NoOne
    /\ writer' = p
    /\ UNCHANGED <<pc, reads, parked, owner, files, got>>

Lock(p) ==
    /\ At(p, "Lock")
    /\ writer = p
    /\ \A q \in Requests : reads[q] = 0
    /\ Advance(p)
    /\ UNCHANGED <<reads, parked, writer, owner, files, got>>

Unlock(p) ==
    /\ At(p, "Unlock")
    /\ writer' = NoOne
    /\ parked' = {}
    /\ reads' = [q \in Requests |-> IF q \in parked THEN reads[q] + 1 ELSE reads[q]]
    /\ pc' = [q \in Requests |-> IF q \in parked \cup {p} THEN pc[q] + 1 ELSE pc[q]]
    /\ UNCHANGED <<owner, files, got>>

(* shared.mu *)

LockShared(p) ==
    /\ At(p, "lock shared")
    /\ owner = NoOne
    /\ owner' = p
    /\ Advance(p)
    /\ UNCHANGED <<reads, parked, writer, files, got>>

UnlockShared(p) ==
    /\ At(p, "unlock shared")
    /\ owner' = NoOne
    /\ Advance(p)
    /\ UNCHANGED <<reads, parked, writer, files, got>>

(* The files *)

Read(p) ==
    /\ \/ /\ At(p, "read meta")
          /\ got' = [got EXCEPT ![p].meta = files.meta]
       \/ /\ At(p, "read kdbx")
          /\ got' = [got EXCEPT ![p].kdbx = files.kdbx, ![p].key = files.key]
       \/ /\ At(p, "read record")
          /\ got' = [got EXCEPT ![p].record = files.record]
    /\ Advance(p)
    /\ UNCHANGED <<reads, parked, writer, owner, files>>

(* The save renames vault.kdbx and then metadata.json into place. *)
Write(p) ==
    /\ \/ /\ At(p, "write kdbx")
          /\ files' = [files EXCEPT !.kdbx = files.meta + 1]
       \/ /\ At(p, "rekey kdbx")
          /\ files' = [files EXCEPT !.kdbx = files.meta + 1, !.key = got[p].record + 1]
       \/ /\ At(p, "write meta")
          /\ files' = [files EXCEPT !.meta = files.meta + 1]
       \/ /\ At(p, "write record")
          /\ files' = [files EXCEPT !.record = got[p].record + 1]
    /\ Advance(p)
    /\ UNCHANGED <<reads, parked, writer, owner, got>>

Step(p) ==
    \/ RLock(p)
    \/ RUnlock(p)
    \/ Announce(p)
    \/ Lock(p)
    \/ Unlock(p)
    \/ LockShared(p)
    \/ UnlockShared(p)
    \/ Read(p)
    \/ Write(p)

LockNext == \E p \in Requests : Step(p)

(* A goroutine that can run is run, and Go's mutexes admit their waiters.  *)
Fairness == \A p \in Requests : WF_lockVars(Step(p))

LockSpec == LockInit /\ [][LockNext]_lockVars /\ Fairness

-----------------------------------------------------------------------------
(* PROPERTIES                                                              *)

(* What a request took of several files is of one moment: a download gives *)
(* the file its metadata describes, and a backup besides that a record     *)
(* whose sealed copies are of the key the file is under (shared.go:854).   *)
CapturesAgree ==
    /\ \A p \in Downloads \cup Backups : Done(p) => got[p].meta = got[p].kdbx
    /\ \A p \in Backups : Done(p) => got[p].record = got[p].key

(* A download parked at its second RLock, behind a writer that waits for   *)
(* its first.                                                              *)
Reentered == \E p \in parked : reads[p] > 0

(* The lock order shared.mu, vault.mu admits no deadlock: every request is *)
(* answered, unless a download re-enters vault.mu around a writer.         *)
OnlyReentryBlocks == <>(Reentered \/ \A p \in Requests : Done(p))

(* OpenVault's comment (vault.go:266): it returns a reader for the file    *)
(* and its version.  A download that is asked for is answered.             *)
DownloadsAnswered == \A p \in Downloads : <>Done(p)

=============================================================================
