------------------------------ MODULE VaultFiles ------------------------------
(***************************************************************************)
(* The directory internal/vault keeps for one vault key: metadata.json,    *)
(* vault.kdbx, history/ and conflicts/, and what its write paths may leave *)
(* behind.  A write path is a few file operations under one lock, so no    *)
(* other writer sees it half done, but a crash or a failed write can stop  *)
(* it between two of them: an operator below therefore returns the SET of  *)
(* directories an attempt may leave.                                       *)
(*                                                                         *)
(* Ciphertext is a blob [key, id]: the vault key it is encrypted under and *)
(* which upload it is.  The checksum metadata.json carries names a blob.   *)
(***************************************************************************)
EXTENDS Integers, FiniteSets

CONSTANTS
    MaxHistory,      \* maxHistorySnapshots
    HistoryExpires,  \* TRUE when retentionDays can run out on a snapshot
    CopyMayFail      \* TRUE when a file of history/ or conflicts/ can fail to be written or removed

ASSUME VaultFilesAssumption ==
    /\ MaxHistory \in Nat \ {0, 1}
    /\ HistoryExpires \in BOOLEAN
    /\ CopyMayFail \in BOOLEAN

(* Keys and uploads are numbered from 1; 0 stands for none. *)
Blobs == [key : Nat, id : Nat]
NoBlob == [key |-> 0, id |-> 0]

(* history/{UpdatedAt.Unix}_v{N}.kdbx from a save, with _before_rollback   *)
(* appended from a restore; stamp stands for the seconds in the name and   *)
(* at for the file's modification time.                                    *)
Kinds == {"save", "rollback"}
Snapshots == [version : Nat, stamp : Nat, kind : Kinds, at : Nat, blob : Blobs]

SameId(s, t) ==
    /\ s.version = t.version
    /\ s.stamp = t.stamp
    /\ s.kind = t.kind

(* Writing a file of an existing name replaces it. *)
Put(h, s) == {t \in h : ~SameId(s, t)} \cup {s}

(* metadata.json without the envelopes, which are opaque here (env). *)
NoMeta(env) ==
    [version |-> 0, stamp |-> 0, sum |-> NoBlob, epochSince |-> 0, env |-> env]

EmptyDir(env) ==
    [meta |-> NoMeta(env), kdbx |-> NoBlob, history |-> {}, conflicts |-> {}, clock |-> 0]

(* vault.kdbx is not the file metadata.json describes. *)
Torn(d) == d.meta.version > 0 /\ d.kdbx # d.meta.sum

Newest(h) == {s \in h : \A t \in h : t.at <= s.at}
Oldest(h) == {s \in h : \A t \in h : s.at <= t.at}

(* ListHistory marks it staleKey and RestoreHistory refuses it. *)
Stale(d, s) == s.version < d.meta.epochSince

(* Copy vault.kdbx to history under the version and the time of m, the     *)
(* metadata that was read.                                                 *)
Archived(d, m, kind) ==
    IF m.version = 0 THEN d
    ELSE [d EXCEPT
            !.clock = d.clock + 1,
            !.history = Put(d.history,
                [version |-> m.version, stamp |-> m.stamp, kind |-> kind,
                 at |-> d.clock + 1, blob |-> d.kdbx])]

(* pruneOldHistoryLocked: drop what is older than the cutoff, then thin to *)
(* MaxHistory, never removing the first or the last of what is left.  The  *)
(* code removes the interior file with the smallest time span; which one   *)
(* that is depends on wall-clock gaps, so any interior file may go here.   *)
Pruned(h, cutoff) ==
    LET kept == {s \in h : s.at > cutoff} IN
    IF Cardinality(kept) <= MaxHistory THEN {kept}
    ELSE {k \in SUBSET kept :
             /\ Cardinality(k) = MaxHistory
             /\ Newest(kept) \cup Oldest(kept) \subseteq k}

(* A snapshot written by this very call is never older than the cutoff.    *)
Cutoffs(d) == IF HistoryExpires THEN 0..d.clock ELSE {0}

(* Mutation of Replacements: archive after the renames instead of before. *)
ReplacementsArchiveLast(d, m, kind, blob, next, mustArchive) ==
    {[dir |-> d, end |-> "stopped", lost |-> 0],
     [dir |-> [d EXCEPT !.kdbx = blob], end |-> "stopped", lost |-> 0],
     [dir |-> [Archived([d EXCEPT !.kdbx = blob], m, kind) EXCEPT !.meta = next],
      end |-> "done", lost |-> 0]}

(* What an attempt to put blob in place of vault.kdbx and next in place of *)
(* metadata.json may leave: archive, rename vault.kdbx, rename             *)
(* metadata.json, prune.  It ends "stopped" when a crash or a failed write *)
(* came before the second rename; lost counts the archive copy that failed, *)
(* which stops the write only under mustArchive (ErrArchive).              *)
Replacements(d, m, kind, blob, next, mustArchive) ==
    LET starts == {[dir |-> Archived(d, m, kind), lost |-> 0]} \cup
                  (IF CopyMayFail /\ ~mustArchive /\ m.version > 0
                     THEN {[dir |-> d, lost |-> 1]} ELSE {})
    IN  UNION { { [dir |-> s.dir, end |-> "stopped", lost |-> s.lost],
                  [dir |-> [s.dir EXCEPT !.kdbx = blob], end |-> "stopped", lost |-> s.lost] }
                \cup
                { [dir |-> [s.dir EXCEPT !.kdbx = blob, !.meta = next, !.history = h],
                   end |-> "done", lost |-> s.lost] :
                     h \in UNION {Pruned(s.dir.history, c) : c \in Cutoffs(d)} } :
                s \in starts }

(* A rejected upload is preserved in conflicts/; that write's error is     *)
(* ignored.                                                                *)
Rejections(d, blob) ==
    {[d EXCEPT !.conflicts = d.conflicts \cup {blob}]} \cup (IF CopyMayFail THEN {d} ELSE {})

(* MarkKeyEpoch: only a version the vault reached, and never backwards.    *)
EpochMarked(d, version) ==
    IF /\ 0 < version
       /\ version <= d.meta.version
       /\ version > d.meta.epochSince
      THEN [d EXCEPT !.meta.epochSince = version] ELSE d

(* ClearHistory stops at the first file it cannot remove, so any part of   *)
(* history/ and then of conflicts/ may be left.                            *)
Clearings(d) ==
    {[d EXCEPT !.history = {}, !.conflicts = {}]} \cup
    (IF CopyMayFail
       THEN {[d EXCEPT !.history = h] : h \in SUBSET d.history} \cup
            {[d EXCEPT !.history = {}, !.conflicts = c] : c \in SUBSET d.conflicts}
       ELSE {})

=============================================================================
