------------------------------ MODULE SharedFiles ------------------------------
(***************************************************************************)
(* The contents of one shared vault: the directory of VaultFiles and the   *)
(* membership record whose sealed copies hold the key it should be under.  *)
(* A rotation (shared_rotate.go, shared.Store.Rotate) writes the one, then *)
(* the other, then retires what is under the old key, all under the lock   *)
(* of internal/shared; the other writes take that lock in WithWriter.  A   *)
(* step of it can fail and the server can die between any two.             *)
(*                                                                         *)
(* The members here are active and hold good copies (SharedVaults is about *)
(* the rows), so the record is its epoch and the key its copies hold.      *)
(***************************************************************************)
EXTENDS VaultFiles

CONSTANTS
    Clients,     \* tabs of active owners and editors
    MaxUploads,  \* bound: uploads attempted
    MaxVersion,  \* bound: versions a rollback may reach
    MaxTries     \* bound: interrupted writes in a row

ASSUME SharedFilesAssumption ==
    {MaxUploads, MaxVersion, MaxTries} \subseteq Nat

VARIABLES
    dir,      \* the directory of the vault
    rec,      \* the record: the key epoch and the key of its copies
    stage,    \* the rotation in progress, which holds the lock of internal/shared
    view,     \* what each tab holds; its key and epoch are the listed ones
    uploads,  \* uploads so far; the next blob and the next vault key
    gap,      \* writes interrupted since the last one that was answered for
    ack,      \* what that one left: the contents the members were promised
    debts     \* what failed since the last rotation that completed

vars == <<dir, rec, stage, view, uploads, gap, ack, debts>>

Env == "none"  \* a shared vault's metadata carries no envelopes

NoStage == [phase |-> "idle", key |-> 0, version |-> 0]
NoView == [listed |-> 0, key |-> 0, version |-> -1, blob |-> NoBlob]
NoGap == [tries |-> 0, lost |-> 0]

Metas == [version : Nat, stamp : Nat, sum : Blobs, epochSince : Nat, env : {Env}]
Dirs == [meta : Metas, kdbx : Blobs, history : SUBSET Snapshots,
         conflicts : SUBSET Blobs, clock : Nat]
Views == [listed : Nat, key : Nat, version : Nat \cup {-1}, blob : Blobs]
Phases == {"idle", "saved", "committed", "marked"}
Debts == {"interrupted", "unmarked", "uncleared"}

TypeOK ==
    /\ dir \in Dirs
    /\ rec \in [epoch : Nat, key : Nat]
    /\ stage \in [phase : Phases, key : Nat, version : Nat]
    /\ view \in [Clients -> Views]
    /\ uploads \in Nat
    /\ gap \in [tries : Nat, lost : Nat]
    /\ ack \in Blobs
    /\ debts \subseteq Debts

(* Just created: epoch 1, a key made by the creator, no file yet. *)
Init ==
    /\ dir = EmptyDir(Env)
    /\ rec = [epoch |-> 1, key |-> 1]
    /\ stage = NoStage
    /\ view = [c \in Clients |-> NoView]
    /\ uploads = 1
    /\ gap = NoGap
    /\ ack = NoBlob
    /\ debts = {}

-----------------------------------------------------------------------------
(* Tabs *)

Unlocked == stage.phase = "idle"

Opened(c) == view[c].blob # NoBlob

(* GET /api/shared takes the lock of internal/shared.                      *)
List(c) ==
    /\ Unlocked
    /\ view' = [view EXCEPT ![c] =
                  [listed |-> rec.epoch, key |-> rec.key, version |-> -1, blob |-> NoBlob]]
    /\ UNCHANGED <<dir, rec, stage, uploads, gap, ack, debts>>

(* openShared then asks for the metadata and the file, which take only the *)
(* lock of internal/vault and so also run in the middle of a rotation.     *)
Fetch(c) ==
    /\ view[c].key # 0
    /\ ~Opened(c)
    /\ view' = [view EXCEPT ![c].version = dir.meta.version]
    /\ UNCHANGED <<dir, rec, stage, uploads, gap, ack, debts>>

Open(c) ==
    /\ view[c].version > 0
    /\ ~Opened(c)
    /\ view' = [view EXCEPT ![c] =
                  IF dir.kdbx.key = view[c].key
                    THEN [listed |-> view[c].listed, key |-> view[c].key,
                          version |-> view[c].version, blob |-> dir.kdbx]
                    ELSE NoView]
    /\ UNCHANGED <<dir, rec, stage, uploads, gap, ack, debts>>

(* A refused save the user chose to make anyway: there is no envelope to   *)
(* compare, so the tab takes the server's version as its own.              *)
Overwrite(c) ==
    /\ Opened(c)
    /\ dir.meta.version > view[c].version
    /\ view' = [view EXCEPT ![c].version = dir.meta.version, ![c].blob = dir.meta.sum]
    /\ UNCHANGED <<dir, rec, stage, uploads, gap, ack, debts>>

-----------------------------------------------------------------------------
(* Ordinary writes *)

(* Mutation of Admitted: the write does not wait for a rotation. *)
AdmittedAnyTime(c) == view[c].listed = rec.epoch

(* WithWriter: the membership lock, and the epoch the tab claims.          *)
Admitted(c) == Unlocked /\ view[c].listed = rec.epoch

NextMeta(m, blob) ==
    [version |-> m.version + 1, stamp |-> 0, sum |-> blob,
     epochSince |-> m.epochSince, env |-> Env]

(* Mutation of Rekeyed: the save of a rotation marks the key epoch. *)
RekeyedMarked(m, blob) ==
    [version |-> m.version + 1, stamp |-> 0, sum |-> blob,
     epochSince |-> m.version + 1, env |-> Env]

(* SaveRekeyed: an ordinary save otherwise; the epoch is marked later.     *)
Rekeyed(m, blob) == NextMeta(m, blob)

Settle(r) ==
    IF r.end = "done"
      THEN /\ gap' = NoGap
           /\ ack' = r.dir.kdbx
           /\ debts' = debts
      ELSE /\ gap' = [tries |-> gap.tries + 1, lost |-> gap.lost + r.lost]
           /\ debts' = debts \cup {"interrupted"}
           /\ ack' = ack

(* An upload: from a tab that opened the file, or that found none and made *)
(* one under the key of its copy.                                          *)
SaveVault(c) ==
    LET blob == [key |-> view[c].key, id |-> uploads + 1] IN
    /\ Opened(c) \/ view[c].version = 0
    /\ Admitted(c)
    /\ uploads < MaxUploads
    /\ uploads' = uploads + 1
    /\ IF dir.meta.version = view[c].version
         THEN \E r \in Replacements(dir, dir.meta, "save", blob, NextMeta(dir.meta, blob), FALSE) :
                /\ r.end = "done" \/ gap.tries < MaxTries
                /\ dir' = r.dir
                /\ Settle(r)
                /\ \/ view' = view
                   \/ /\ r.end = "done"
                      /\ view' = [view EXCEPT ![c].version = r.dir.meta.version, ![c].blob = blob]
         ELSE /\ dir' \in Rejections(dir, blob)
              /\ UNCHANGED <<view, gap, ack, debts>>
    /\ UNCHANGED <<rec, stage>>

(* Mutation of Restorable: the marker is not consulted. *)
RestorableAlways(s) == s.version >= 0

Restorable(s) == ~Stale(dir, s)

RestoreHistory(c) ==
    /\ Admitted(c)
    /\ dir.meta.version < MaxVersion
    /\ \E s \in dir.history :
         /\ Restorable(s)
         /\ \E r \in Replacements(dir, dir.meta, "rollback", s.blob, NextMeta(dir.meta, s.blob), FALSE) :
              /\ r.end = "done" \/ gap.tries < MaxTries
              /\ dir' = r.dir
              /\ Settle(r)
    /\ UNCHANGED <<rec, stage, view, uploads>>

DiscardConflict(c) ==
    /\ Admitted(c)
    /\ \E b \in dir.conflicts : dir' = [dir EXCEPT !.conflicts = dir.conflicts \ {b}]
    /\ UNCHANGED <<rec, stage, view, uploads, gap, ack, debts>>

-----------------------------------------------------------------------------
(* The rotation *)

(* Verify and WriteVault.  The version is compared before SaveRekeyed, so  *)
(* a rotation leaves no conflict behind, and an archive that fails refuses *)
(* it with nothing written.                                                *)
Rotate(c) ==
    LET blob == [key |-> uploads + 1, id |-> uploads + 1] IN
    /\ Opened(c)
    /\ Admitted(c)
    /\ dir.meta.version = view[c].version
    /\ uploads < MaxUploads
    /\ uploads' = uploads + 1
    /\ \E r \in Replacements(dir, dir.meta, "save", blob, Rekeyed(dir.meta, blob), TRUE) :
         /\ dir' = r.dir
         /\ IF r.end = "done"
              THEN /\ stage' = [phase |-> "saved", key |-> blob.key, version |-> r.dir.meta.version]
                   /\ UNCHANGED <<gap, ack, debts>>
              ELSE /\ gap.tries < MaxTries
                   /\ Settle(r)
                   /\ stage' = stage
    /\ UNCHANGED <<rec, view>>

(* The record did not save, or the server died before it did.              *)
RotateStops ==
    /\ stage.phase = "saved"
    /\ gap.tries < MaxTries
    /\ stage' = NoStage
    /\ gap' = [gap EXCEPT !.tries = @ + 1]
    /\ debts' = debts \cup {"interrupted"}
    /\ UNCHANGED <<dir, rec, view, uploads, ack>>

(* Mutation of RotateCommit: the record keeps its epoch. *)
RotateCommitInEpoch ==
    /\ stage.phase = "saved"
    /\ rec' = [epoch |-> rec.epoch, key |-> stage.key]
    /\ stage' = [stage EXCEPT !.phase = "committed"]
    /\ ack' = dir.kdbx
    /\ gap' = NoGap
    /\ UNCHANGED <<dir, view, uploads, debts>>

RotateCommit ==
    /\ stage.phase = "saved"
    /\ rec' = [epoch |-> rec.epoch + 1, key |-> stage.key]
    /\ stage' = [stage EXCEPT !.phase = "committed"]
    /\ ack' = dir.kdbx
    /\ gap' = NoGap
    /\ UNCHANGED <<dir, view, uploads, debts>>

(* MarkKeyEpoch; AfterCommit goes on when it fails.                        *)
RotateMark ==
    /\ stage.phase = "committed"
    /\ \/ /\ dir' = EpochMarked(dir, stage.version)
          /\ debts' = debts \ {"interrupted", "unmarked"}
       \/ /\ CopyMayFail
          /\ dir' = dir
          /\ debts' = debts \cup {"unmarked"}
    /\ stage' = [stage EXCEPT !.phase = "marked"]
    /\ UNCHANGED <<rec, view, uploads, gap, ack>>

(* ClearHistory, and the answer, after which the tab that rotated, or any  *)
(* other that listed the vault, goes on under the new key.                 *)
RotateClear ==
    /\ stage.phase = "marked"
    /\ \E d \in Clearings(dir) :
         /\ dir' = d
         /\ debts' = IF d.history = {} /\ d.conflicts = {} THEN {} ELSE debts \cup {"uncleared"}
    /\ stage' = NoStage
    /\ \/ view' = view
       \/ \E c \in Clients :
            /\ Opened(c)
            /\ view[c].listed + 1 = rec.epoch
            /\ view[c].version + 1 = stage.version
            /\ view' = [view EXCEPT ![c] =
                 [listed |-> rec.epoch, key |-> rec.key, version |-> stage.version, blob |-> dir.kdbx]]
    /\ UNCHANGED <<rec, uploads, gap, ack>>

(* The server died after the record committed: nothing is marked and       *)
(* nothing cleared that was not yet.                                       *)
DieAfterCommit ==
    /\ stage.phase \in {"committed", "marked"}
    /\ stage' = NoStage
    /\ debts' = debts \cup (IF stage.phase = "committed" THEN {"unmarked", "uncleared"} ELSE {"uncleared"})
    /\ UNCHANGED <<dir, rec, view, uploads, gap, ack>>

Next ==
    \/ \E c \in Clients :
         \/ List(c)
         \/ Fetch(c)
         \/ Open(c)
         \/ Overwrite(c)
         \/ SaveVault(c)
         \/ RestoreHistory(c)
         \/ DiscardConflict(c)
         \/ Rotate(c)
    \/ RotateStops
    \/ RotateCommit
    \/ RotateMark
    \/ RotateClear
    \/ DieAfterCommit

Spec == Init /\ [][Next]_vars

-----------------------------------------------------------------------------
(* PROPERTIES                                                              *)

RetiredFree(blobs) == \A b \in blobs : b.key = rec.key

(* The security properties of the rotation design                          *)
(* (docs/superpowers/specs/2026-09-27-shared-vault-rotation-design.md:162): *)
(* with no rotation in progress and none of its steps owed, the file, the  *)
(* history and the conflicts are all under the key the members hold, for   *)
(* any saves, overwrites and rollbacks around the rotations.               *)
NothingRetired ==
    Unlocked /\ debts = {} =>
        RetiredFree(dir.conflicts \cup {s.blob : s \in dir.history} \cup
                    (IF dir.meta.version = 0 THEN {} ELSE {dir.kdbx}))

(* AfterCommit's comment (shared_rotate.go:93-95): the mark refuses the    *)
(* retired snapshots for rollback even if the clear fails, so a vault that *)
(* only a clear is owed on opens for its members after any rollback.       *)
RollbackStaysOpenable ==
    Unlocked /\ debts \subseteq {"uncleared"} =>
        RetiredFree({s.blob : s \in {t \in dir.history : ~Stale(dir, t)}} \cup
                    (IF dir.meta.version = 0 THEN {} ELSE {dir.kdbx}))

(* One interruption, of a save, a rollback or a rotation at any of its     *)
(* steps, leaves the contents the members were promised in place or in a   *)
(* snapshot a rollback accepts (SaveRekeyed's comment, vault.go:413-418).  *)
WayBack ==
    Unlocked /\ gap.tries <= 1 /\ gap.lost = 0 /\ ack # NoBlob =>
        ack \in {dir.kdbx} \cup {s.blob : s \in {t \in dir.history : ~Stale(dir, t)}}

(* An epoch names one key: a tab whose listed epoch is the record's holds  *)
(* the record's key, which is why comparing the claimed epoch is enough to *)
(* keep ciphertext under a retired key out.                                *)
EpochNamesKey ==
    \A c \in Clients : view[c].listed = rec.epoch => view[c].key = rec.key

=============================================================================
