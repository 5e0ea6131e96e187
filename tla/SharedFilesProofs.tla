--------------------------- MODULE SharedFilesProofs ---------------------------
(***************************************************************************)
(* What is proved of SharedFiles for any number of tabs and any bounds.    *)
(* An epoch names one vault key, so a tab that claims the record's epoch,  *)
(* as WithWriter demands of every write, holds the record's key.  On that  *)
(* rests that a rotation which is owed nothing leaves nothing under the    *)
(* key it retired, and one that is owed only a clear nothing a rollback    *)
(* accepts (KeyInv).  Apart from it, one interrupted write leaves the      *)
(* contents the members were promised within reach (Promised).             *)
(***************************************************************************)
EXTENDS SharedFiles, TLAPS

(* No tab has listed an epoch the record has not reached: a rotation makes *)
(* every listed epoch an old one.                                          *)
Listed(c) ==
    /\ view[c].listed \in Nat
    /\ view[c].listed <= rec.epoch
    /\ view[c].listed = rec.epoch => view[c].key = rec.key

EpochInv ==
    /\ rec.epoch \in Nat \ {0}
    /\ DOMAIN view = Clients
    /\ \A c \in Clients : Listed(c)

LEMMA InitEpochInv == Init => EpochInv
  BY DEF Init, EpochInv, Listed, NoView

(* Steps that leave the record alone, and of each tab what it listed or    *)
(* give it the record as it is, or nothing.                                *)
LEMMA SameRecord ==
    ASSUME EpochInv, rec' = rec, DOMAIN view' = Clients,
           \A c \in Clients :
             \/ view'[c].listed = view[c].listed /\ view'[c].key = view[c].key
             \/ view'[c].listed = rec.epoch /\ view'[c].key = rec.key
             \/ view'[c].listed = 0
    PROVE  EpochInv'
  BY DEF EpochInv, Listed

(* Each operation of a tab keeps what the tab listed. *)
LEMMA TabEpochInv ==
    ASSUME EpochInv, NEW c \in Clients,
           \/ List(c) \/ Fetch(c) \/ Open(c) \/ Overwrite(c)
           \/ SaveVault(c) \/ RestoreHistory(c) \/ DiscardConflict(c) \/ Rotate(c)
    PROVE  EpochInv'
  <1>1. CASE List(c)
    <2>1. rec' = rec /\ view' = [view EXCEPT ![c] =
             [listed |-> rec.epoch, key |-> rec.key, version |-> -1, blob |-> NoBlob]]
      BY <1>1 DEF List
    <2>2. DOMAIN view' = Clients
      BY <2>1 DEF EpochInv
    <2>3. \A d \in Clients : view'[d] = view[d]
             \/ (view'[d].listed = rec.epoch /\ view'[d].key = rec.key)
      BY <2>1 DEF EpochInv
    <2> QED BY <2>1, <2>2, <2>3, SameRecord
  <1>2. CASE Open(c)
    <2> DEFINE opened == [listed |-> view[c].listed, key |-> view[c].key,
                          version |-> view[c].version, blob |-> dir.kdbx]
    <2>1. rec' = rec /\ view' = [view EXCEPT ![c] =
             IF dir.kdbx.key = view[c].key THEN opened ELSE NoView]
      BY <1>2 DEF Open
    <2>2. DOMAIN view' = Clients
      BY <2>1 DEF EpochInv
    <2>3. opened.listed = view[c].listed /\ opened.key = view[c].key /\ NoView.listed = 0
      BY DEF NoView
    <2> HIDE DEF opened
    <2>4. \A d \in Clients : view'[d] = view[d] \/ (d = c /\ view'[d] \in {opened, NoView})
      BY <2>1 DEF EpochInv
    <2> QED BY <2>1, <2>2, <2>3, <2>4, SameRecord
  <1>3. CASE \/ Fetch(c) \/ Overwrite(c) \/ SaveVault(c)
             \/ RestoreHistory(c) \/ DiscardConflict(c) \/ Rotate(c)
    <2>1. /\ rec' = rec
          /\ DOMAIN view' = Clients
          /\ \A d \in Clients : view'[d].listed = view[d].listed /\ view'[d].key = view[d].key
      <3>1. CASE Fetch(c)
        BY <3>1 DEF Fetch, EpochInv
      <3>2. CASE Overwrite(c)
        BY <3>2 DEF Overwrite, EpochInv
      <3>3. CASE SaveVault(c)
        <4>1. rec' = rec
          BY <3>3 DEF SaveVault
        <4>2. \/ view' = view
              \/ \E version, blob :
                   view' = [view EXCEPT ![c].version = version, ![c].blob = blob]
          BY <3>3 DEF SaveVault
        <4>3. CASE view' = view
          BY <4>1, <4>3 DEF EpochInv
        <4>4. ASSUME NEW version, NEW blob,
                     view' = [view EXCEPT ![c].version = version, ![c].blob = blob]
              PROVE  /\ DOMAIN view' = Clients
                     /\ \A d \in Clients :
                          view'[d].listed = view[d].listed /\ view'[d].key = view[d].key
          BY <4>4 DEF EpochInv
        <4> QED BY <4>1, <4>2, <4>3, <4>4
      <3>4. CASE RestoreHistory(c) \/ DiscardConflict(c) \/ Rotate(c)
        BY <3>4 DEF RestoreHistory, DiscardConflict, Rotate, EpochInv
      <3> QED BY <1>3, <3>1, <3>2, <3>3, <3>4
    <2> QED BY <2>1, SameRecord
  <1> QED BY <1>1, <1>2, <1>3

(* Each step of a rotation: the commit makes every listed epoch old, and   *)
(* the answer hands the new epoch out together with its key.               *)
LEMMA RotationEpochInv ==
    ASSUME EpochInv,
           RotateStops \/ RotateCommit \/ RotateMark \/ RotateClear \/ DieAfterCommit
    PROVE  EpochInv'
  <1>1. CASE RotateCommit
    <2>1. rec'.epoch = rec.epoch + 1 /\ view' = view
      BY <1>1 DEF RotateCommit
    <2> QED BY <2>1 DEF EpochInv, Listed
  <1>2. CASE RotateClear
    <2>1. rec' = rec
      BY <1>2 DEF RotateClear
    <2>2. \/ view' = view
          \/ \E c \in Clients : view' = [view EXCEPT ![c] =
               [listed |-> rec.epoch, key |-> rec.key, version |-> stage.version, blob |-> dir.kdbx]]
      BY <1>2 DEF RotateClear
    <2>3. DOMAIN view' = Clients
      BY <2>2 DEF EpochInv
    <2>4. \A d \in Clients : view'[d] = view[d]
             \/ (view'[d].listed = rec.epoch /\ view'[d].key = rec.key)
      BY <2>2 DEF EpochInv
    <2> QED BY <2>1, <2>3, <2>4, SameRecord
  <1>3. CASE RotateStops \/ RotateMark \/ DieAfterCommit
    <2>1. rec' = rec /\ view' = view
      BY <1>3 DEF RotateStops, RotateMark, DieAfterCommit
    <2> QED BY <2>1, SameRecord DEF EpochInv
  <1> QED BY <1>1, <1>2, <1>3

LEMMA EpochInvStep == EpochInv /\ [Next]_vars => EpochInv'
<1>1. ASSUME EpochInv, UNCHANGED vars PROVE EpochInv'
  BY <1>1, SameRecord DEF vars, EpochInv
<1> QED
  BY <1>1, TabEpochInv, RotationEpochInv DEF Next

(* A tab whose listed epoch is the record's holds the record's key, through *)
(* rotations that stop, fail or commit at any point.                        *)
THEOREM EpochKey == Spec => []EpochNamesKey
  <1>1. EpochInv => EpochNamesKey
    BY DEF EpochInv, Listed, EpochNamesKey
  <1> QED BY InitEpochInv, EpochInvStep, <1>1, PTL DEF Spec

-----------------------------------------------------------------------------
(* What an attempted replacement leaves, read off its four file operations: *)
(* metadata.json moves only when it is done, vault.kdbx is the old file or  *)
(* the new one, and unless the archive copy was lost history/ holds one of  *)
(* the old file under its version, which no pruning removes: it is newer    *)
(* than every cutoff and the newest of what is left.                        *)
LEMMA ReplacementsLeave ==
    ASSUME NEW d \in Dirs, NEW next \in Metas, NEW blob \in Blobs,
           NEW kind \in Kinds, NEW must \in BOOLEAN,
           \A s \in d.history : s.at <= d.clock,
           NEW r \in Replacements(d, d.meta, kind, blob, next, must)
    PROVE  /\ r.dir \in Dirs
           /\ r.lost \in Nat
           /\ r.end \in {"done", "stopped"}
           /\ must => r.lost = 0
           /\ r.dir.conflicts = d.conflicts
           /\ r.end = "done" => r.dir.meta = next /\ r.dir.kdbx = blob
           /\ r.end # "done" => r.dir.meta = d.meta /\ r.dir.kdbx \in {d.kdbx, blob}
           /\ \A s \in r.dir.history :
                /\ s.at <= r.dir.clock
                /\ \/ s \in d.history
                   \/ d.meta.version > 0 /\ s.version = d.meta.version /\ s.blob = d.kdbx
           /\ d.meta.version > 0 /\ r.lost = 0 =>
                \E s \in r.dir.history : s.version = d.meta.version /\ s.blob = d.kdbx
<1> DEFINE m == d.meta
           A == Archived(d, m, kind)
           new == [version |-> m.version, stamp |-> m.stamp, kind |-> kind,
                   at |-> d.clock + 1, blob |-> d.kdbx]
           starts == {[dir |-> A, lost |-> 0]} \cup
                     (IF CopyMayFail /\ ~must /\ m.version > 0
                        THEN {[dir |-> d, lost |-> 1]} ELSE {})
           Good(h, clock) == \A s \in h :
                /\ s.at <= clock
                /\ \/ s \in d.history
                   \/ m.version > 0 /\ s.version = m.version /\ s.blob = d.kdbx
           Kept(h) == m.version > 0 => new \in h
           Prunings(s) == UNION {Pruned(s.dir.history, c) : c \in Cutoffs(d)}
           Outcomes(s) ==
              { [dir |-> s.dir, end |-> "stopped", lost |-> s.lost],
                [dir |-> [s.dir EXCEPT !.kdbx = blob], end |-> "stopped", lost |-> s.lost] }
              \cup { [dir |-> [s.dir EXCEPT !.kdbx = blob, !.meta = next, !.history = h],
                      end |-> "done", lost |-> s.lost] : h \in Prunings(s) }
<1>0. /\ m \in Metas /\ m.version \in Nat /\ d.clock \in Nat
      /\ d.history \in SUBSET Snapshots /\ d.kdbx \in Blobs
  BY DEF Dirs, Metas
<1>1. new \in Snapshots
  BY <1>0 DEF Snapshots, Metas
<1>2. /\ A \in Dirs /\ A.meta = m /\ A.kdbx = d.kdbx /\ A.conflicts = d.conflicts
      /\ Good(A.history, A.clock) /\ Kept(A.history)
      /\ \A s \in A.history : s.at <= d.clock + 1
  <2>1. CASE m.version = 0
    BY <1>0, <2>1 DEF Archived, Dirs, Snapshots
  <2>2. CASE m.version # 0
    <3>1. A = [d EXCEPT !.clock = d.clock + 1, !.history = Put(d.history, new)]
      BY <2>2 DEF Archived
    <3>2. new \in Put(d.history, new) /\ Put(d.history, new) \subseteq d.history \cup {new}
      BY DEF Put
    <3>3. new.version = m.version /\ new.blob = d.kdbx /\ new.at = d.clock + 1
      OBVIOUS
    <3> HIDE DEF new
    <3>4. Put(d.history, new) \in SUBSET Snapshots /\ d.clock + 1 \in Nat
      BY <1>0, <1>1, <3>2
    <3>5. /\ A.meta = m /\ A.kdbx = d.kdbx /\ A.conflicts = d.conflicts
          /\ A.clock = d.clock + 1 /\ A.history = Put(d.history, new)
      BY <3>1 DEF Dirs
    <3>6. A \in Dirs
      BY <3>1, <3>4 DEF Dirs
    <3>7. \A s \in d.history : s.at <= d.clock + 1
      BY <1>0 DEF Snapshots
    <3>8. m.version > 0
      BY <1>0, <2>2
    <3>9. \A s \in A.history : s.at <= d.clock + 1 /\ (s \in d.history \/ s = new)
      BY <1>0, <3>2, <3>3, <3>5, <3>7
    <3> QED
      BY <3>2, <3>3, <3>5, <3>6, <3>8, <3>9
  <2> QED
    BY <2>1, <2>2
<1>3. PICK s \in starts : r \in Outcomes(s)
  BY DEF Replacements
<1>4. /\ s.dir \in Dirs /\ s.dir.meta = m /\ s.dir.kdbx = d.kdbx
      /\ s.dir.conflicts = d.conflicts
      /\ Good(s.dir.history, s.dir.clock)
      /\ s.lost \in Nat
      /\ must => s.lost = 0
      /\ s.lost = 0 => Kept(s.dir.history)
      /\ \A t \in s.dir.history : t.at <= d.clock + 1
  <2>1. CASE s = [dir |-> A, lost |-> 0]
    BY <1>2, <2>1
  <2>2. CASE s = [dir |-> d, lost |-> 1] /\ ~must
    <3>1. Good(d.history, d.clock) /\ \A t \in d.history : t.at <= d.clock + 1
      BY <1>0 DEF Snapshots
    <3> QED
      BY <2>2, <3>1
  <2> QED
    BY <2>1, <2>2
<1>5. ASSUME NEW h \in Prunings(s)
      PROVE  h \subseteq s.dir.history /\ (s.lost = 0 => Kept(h))
  <2>1. PICK c \in Cutoffs(d) : h \in Pruned(s.dir.history, c)
    OBVIOUS
  <2>2. c \in Int /\ c <= d.clock
    BY <1>0, <2>1 DEF Cutoffs
  <2> DEFINE kept == {t \in s.dir.history : t.at > c}
  <2>3. h \subseteq kept /\ (h = kept \/ Newest(kept) \subseteq h)
    BY <2>1 DEF Pruned
  <2>4. ASSUME s.lost = 0, m.version > 0 PROVE new \in h
    <3>1. new \in s.dir.history /\ new.at = d.clock + 1
      BY <1>4, <2>4
    <3> HIDE DEF new
    <3>2. new \in kept
      BY <1>0, <2>2, <3>1
    <3>3. new \in Newest(kept)
      BY <1>4, <3>1, <3>2 DEF Newest
    <3> QED
      BY <2>3, <3>2, <3>3
  <2> QED
    BY <2>3, <2>4
<1>6. \A h : s.lost = 0 /\ Kept(h) /\ m.version > 0 =>
        \E t \in h : t.version = m.version /\ t.blob = d.kdbx
  OBVIOUS
<1>7. CASE r = [dir |-> s.dir, end |-> "stopped", lost |-> s.lost]
  <2> HIDE DEF new, starts, A
  <2> QED
    BY <1>4, <1>6, <1>7
<1>8. CASE r = [dir |-> [s.dir EXCEPT !.kdbx = blob], end |-> "stopped", lost |-> s.lost]
  <2> HIDE DEF new, starts, A
  <2>1. /\ r.end = "stopped" /\ r.lost = s.lost
        /\ r.dir \in Dirs /\ r.dir.meta = m /\ r.dir.kdbx = blob
        /\ r.dir.conflicts = d.conflicts
        /\ r.dir.history = s.dir.history /\ r.dir.clock = s.dir.clock
    BY <1>4, <1>8 DEF Dirs
  <2> QED
    BY <1>4, <1>6, <2>1
<1>9. ASSUME NEW h \in Prunings(s),
             r = [dir |-> [s.dir EXCEPT !.kdbx = blob, !.meta = next, !.history = h],
                  end |-> "done", lost |-> s.lost]
      PROVE  /\ r.dir \in Dirs /\ r.end = "done" /\ r.lost = s.lost
             /\ r.dir.meta = next /\ r.dir.kdbx = blob /\ r.dir.conflicts = d.conflicts
             /\ r.dir.history = h /\ r.dir.clock = s.dir.clock
             /\ h \subseteq s.dir.history /\ (s.lost = 0 => Kept(h))
  <2>1. h \subseteq s.dir.history /\ (s.lost = 0 => Kept(h))
    BY <1>5
  <2> HIDE DEF new, starts, A, Prunings
  <2>2. h \in SUBSET Snapshots
    BY <1>4, <2>1 DEF Dirs
  <2> QED
    BY <1>4, <1>9, <2>1, <2>2 DEF Dirs
<1>10. CASE \E h \in Prunings(s) :
              r = [dir |-> [s.dir EXCEPT !.kdbx = blob, !.meta = next, !.history = h],
                   end |-> "done", lost |-> s.lost]
  <2>1. PICK h \in Prunings(s) :
              r = [dir |-> [s.dir EXCEPT !.kdbx = blob, !.meta = next, !.history = h],
                   end |-> "done", lost |-> s.lost]
    BY <1>10
  <2>2. /\ r.dir \in Dirs /\ r.end = "done" /\ r.lost = s.lost
        /\ r.dir.meta = next /\ r.dir.kdbx = blob /\ r.dir.conflicts = d.conflicts
        /\ r.dir.history = h /\ r.dir.clock = s.dir.clock
        /\ h \subseteq s.dir.history /\ (s.lost = 0 => Kept(h))
    BY <1>9, <2>1
  <2> HIDE DEF new, starts, A, Prunings
  <2> QED
    BY <1>4, <1>6, <2>2
<1> HIDE DEF new, starts, A, Prunings
<1> QED
  BY <1>3, <1>7, <1>8, <1>10

-----------------------------------------------------------------------------
(* The types. *)
LEMMA NextMetaType ==
    ASSUME NEW m \in Metas, NEW blob \in Blobs
    PROVE  /\ NextMeta(m, blob) \in Metas
           /\ NextMeta(m, blob).version = m.version + 1
           /\ NextMeta(m, blob).epochSince = m.epochSince
  BY DEF NextMeta, Metas, Env

LEMMA StartTypes == NoBlob \in Blobs /\ NoView \in Views /\ NoGap \in [tries : Nat, lost : Nat]
                    /\ NoStage \in [phase : Phases, key : Nat, version : Nat]
  BY DEF NoBlob, Blobs, NoView, Views, NoGap, NoStage, Phases

LEMMA InitTypeOK == Init => TypeOK
<1> SUFFICES ASSUME Init PROVE TypeOK
  OBVIOUS
<1>1. EmptyDir(Env) \in Dirs
  BY StartTypes DEF EmptyDir, NoMeta, Dirs, Metas, Env
<1>2. [epoch |-> 1, key |-> 1] \in [epoch : Nat, key : Nat]
  OBVIOUS
<1> QED
  BY <1>1, <1>2, StartTypes DEF Init, TypeOK, Debts

(* No version is ahead of the metadata, and no snapshot ahead of the clock *)
(* its time is read from; a vault nothing was saved to promises nothing;   *)
(* and a rotation in progress is at the version it wrote.                  *)
Past ==
    /\ dir.meta.epochSince <= dir.meta.version
    /\ \A s \in dir.history : s.version <= dir.meta.version /\ s.at <= dir.clock
    /\ \A c \in Clients : Opened(c) => view[c].version > 0
    /\ dir.meta.version = 0 => ack = NoBlob
    /\ ~Unlocked => stage.version = dir.meta.version /\ stage.version > 0

(* A write of this vault, at any of the places it may stop. *)
LEMMA WriteLeaves ==
    ASSUME TypeOK, Past, NEW blob \in Blobs, NEW kind \in Kinds, NEW must \in BOOLEAN,
           NEW r \in Replacements(dir, dir.meta, kind, blob, NextMeta(dir.meta, blob), must)
    PROVE  /\ r.dir \in Dirs
           /\ r.lost \in Nat
           /\ r.end \in {"done", "stopped"}
           /\ must => r.lost = 0
           /\ r.dir.conflicts = dir.conflicts
           /\ r.dir.meta.epochSince = dir.meta.epochSince
           /\ r.end = "done" => r.dir.meta.version = dir.meta.version + 1 /\ r.dir.kdbx = blob
           /\ r.end # "done" => r.dir.meta = dir.meta /\ r.dir.kdbx \in {dir.kdbx, blob}
           /\ \A s \in r.dir.history :
                /\ s.at <= r.dir.clock
                /\ s.version <= dir.meta.version
                /\ \/ s \in dir.history
                   \/ dir.meta.version > 0 /\ s.version = dir.meta.version /\ s.blob = dir.kdbx
           /\ dir.meta.version > 0 /\ r.lost = 0 =>
                \E s \in r.dir.history : s.version = dir.meta.version /\ s.blob = dir.kdbx
<1>1. dir \in Dirs /\ dir.meta \in Metas /\ dir.meta.version \in Nat
  BY DEF TypeOK, Dirs, Metas
<1>2. /\ NextMeta(dir.meta, blob) \in Metas
      /\ NextMeta(dir.meta, blob).version = dir.meta.version + 1
      /\ NextMeta(dir.meta, blob).epochSince = dir.meta.epochSince
  BY <1>1, NextMetaType
<1>3. \A s \in dir.history : s.at <= dir.clock /\ s.version <= dir.meta.version
  BY DEF Past
<1>4. /\ r.dir \in Dirs
      /\ r.lost \in Nat
      /\ r.end \in {"done", "stopped"}
      /\ must => r.lost = 0
      /\ r.dir.conflicts = dir.conflicts
      /\ r.end = "done" => r.dir.meta = NextMeta(dir.meta, blob) /\ r.dir.kdbx = blob
      /\ r.end # "done" => r.dir.meta = dir.meta /\ r.dir.kdbx \in {dir.kdbx, blob}
      /\ \A s \in r.dir.history :
           /\ s.at <= r.dir.clock
           /\ \/ s \in dir.history
              \/ dir.meta.version > 0 /\ s.version = dir.meta.version /\ s.blob = dir.kdbx
      /\ dir.meta.version > 0 /\ r.lost = 0 =>
           \E s \in r.dir.history : s.version = dir.meta.version /\ s.blob = dir.kdbx
  BY <1>1, <1>2, <1>3, ReplacementsLeave
<1>5. \A s \in r.dir.history : s.version <= dir.meta.version
  BY <1>1, <1>3, <1>4
<1>6. r.dir.meta.epochSince = dir.meta.epochSince
  BY <1>2, <1>4
<1> QED
  BY <1>2, <1>4, <1>5, <1>6

(* What Settle records of it is well typed. *)
LEMMA SettleType ==
    ASSUME TypeOK, NEW r, r.dir \in Dirs, r.lost \in Nat, Settle(r)
    PROVE  /\ gap' \in [tries : Nat, lost : Nat]
           /\ ack' \in Blobs
           /\ debts' \subseteq Debts
<1>1. r.dir.kdbx \in Blobs
  BY DEF Dirs
<1>2. CASE r.end = "done"
  BY <1>1, <1>2, StartTypes DEF Settle, TypeOK
<1>3. CASE r.end # "done"
  <2>1. /\ gap' = [tries |-> gap.tries + 1, lost |-> gap.lost + r.lost]
        /\ debts' = debts \cup {"interrupted"} /\ ack' = ack
    BY <1>3 DEF Settle
  <2>2. gap.tries + 1 \in Nat /\ gap.lost + r.lost \in Nat
    BY DEF TypeOK
  <2>3. debts' \subseteq Debts
    BY <2>1 DEF TypeOK, Debts
  <2> QED
    BY <2>1, <2>2, <2>3 DEF TypeOK
<1> QED
  BY <1>2, <1>3

(* An upload, as SaveVault and Rotate make one. *)
UploadBlob(c) == [key |-> view[c].key, id |-> uploads + 1]
RotatedBlob == [key |-> uploads + 1, id |-> uploads + 1]

LEMMA UploadTypes ==
    ASSUME TypeOK, NEW c \in Clients
    PROVE  /\ UploadBlob(c) \in Blobs /\ RotatedBlob \in Blobs
           /\ RotatedBlob.key \in Nat /\ UploadBlob(c).key = view[c].key
           /\ "save" \in Kinds /\ "rollback" \in Kinds
           /\ TRUE \in BOOLEAN /\ FALSE \in BOOLEAN
  BY DEF TypeOK, Views, Blobs, UploadBlob, RotatedBlob, Kinds

(* The three writes, each as the replacement it attempts or its refusal.   *)
LEMMA SaveVaultDoes ==
    ASSUME TypeOK, NEW c \in Clients, SaveVault(c)
    PROVE  /\ Opened(c) \/ view[c].version = 0
           /\ Admitted(c)
           /\ uploads' \in Nat
           /\ UNCHANGED <<rec, stage>>
           /\ \/ \E r \in Replacements(dir, dir.meta, "save", UploadBlob(c),
                                       NextMeta(dir.meta, UploadBlob(c)), FALSE) :
                   /\ dir' = r.dir
                   /\ Settle(r)
                   /\ \/ view' = view
                      \/ /\ r.end = "done"
                         /\ view' = [view EXCEPT ![c].version = r.dir.meta.version,
                                                 ![c].blob = UploadBlob(c)]
              \/ /\ dir' = dir \/ dir' = [dir EXCEPT !.conflicts = dir.conflicts \cup {UploadBlob(c)}]
                 /\ UNCHANGED <<view, gap, ack, debts>>
<1>1. uploads' \in Nat
  BY DEF SaveVault, TypeOK
<1>2. /\ Opened(c) \/ view[c].version = 0
      /\ Admitted(c)
      /\ UNCHANGED <<rec, stage>>
      /\ \/ \E r \in Replacements(dir, dir.meta, "save", UploadBlob(c),
                                  NextMeta(dir.meta, UploadBlob(c)), FALSE) :
              /\ dir' = r.dir
              /\ Settle(r)
              /\ \/ view' = view
                 \/ /\ r.end = "done"
                    /\ view' = [view EXCEPT ![c].version = r.dir.meta.version,
                                            ![c].blob = UploadBlob(c)]
         \/ dir' \in Rejections(dir, UploadBlob(c)) /\ UNCHANGED <<view, gap, ack, debts>>
  BY Zenon DEF SaveVault, UploadBlob
<1>3. dir' \in Rejections(dir, UploadBlob(c)) =>
        dir' = dir \/ dir' = [dir EXCEPT !.conflicts = dir.conflicts \cup {UploadBlob(c)}]
  BY DEF Rejections
<1> QED
  BY <1>1, <1>2, <1>3

LEMMA RestoreDoes ==
    ASSUME TypeOK, NEW c \in Clients, RestoreHistory(c)
    PROVE  /\ Admitted(c)
           /\ UNCHANGED <<rec, stage, view, uploads>>
           /\ \E s \in dir.history :
                /\ s.blob \in Blobs
                /\ ~Stale(dir, s)
                /\ \E r \in Replacements(dir, dir.meta, "rollback", s.blob,
                                         NextMeta(dir.meta, s.blob), FALSE) :
                     dir' = r.dir /\ Settle(r)
<1>1. \A s \in dir.history : s.blob \in Blobs
  BY DEF TypeOK, Dirs, Snapshots
<1> QED
  BY <1>1 DEF RestoreHistory, Restorable

LEMMA RotateDoes ==
    ASSUME TypeOK, NEW c \in Clients, Rotate(c)
    PROVE  /\ Opened(c)
           /\ Admitted(c)
           /\ dir.meta.version = view[c].version
           /\ uploads' \in Nat
           /\ UNCHANGED <<rec, view>>
           /\ \E r \in Replacements(dir, dir.meta, "save", RotatedBlob,
                                    NextMeta(dir.meta, RotatedBlob), TRUE) :
                /\ dir' = r.dir
                /\ \/ /\ r.end = "done"
                      /\ stage' = [phase |-> "saved", key |-> RotatedBlob.key,
                                   version |-> r.dir.meta.version]
                      /\ UNCHANGED <<gap, ack, debts>>
                   \/ r.end # "done" /\ Settle(r) /\ stage' = stage
<1>1. uploads' \in Nat
  BY DEF Rotate, TypeOK
<1>2. /\ Opened(c)
      /\ Admitted(c)
      /\ dir.meta.version = view[c].version
      /\ UNCHANGED <<rec, view>>
      /\ \E r \in Replacements(dir, dir.meta, "save", RotatedBlob,
                               NextMeta(dir.meta, RotatedBlob), TRUE) :
           /\ dir' = r.dir
           /\ IF r.end = "done"
                THEN /\ stage' = [phase |-> "saved", key |-> RotatedBlob.key,
                                  version |-> r.dir.meta.version]
                     /\ UNCHANGED <<gap, ack, debts>>
                ELSE /\ gap.tries < MaxTries
                     /\ Settle(r)
                     /\ stage' = stage
  BY Zenon DEF Rotate, RotatedBlob, Rekeyed
<1> QED
  BY <1>1, <1>2

(* What a rotation leaves of the directory when it marks and clears it.    *)
LEMMA MarkLeaves ==
    ASSUME TypeOK, NEW v \in Nat
    PROVE  /\ EpochMarked(dir, v) \in Dirs
           /\ EpochMarked(dir, v).kdbx = dir.kdbx
           /\ EpochMarked(dir, v).history = dir.history
           /\ EpochMarked(dir, v).conflicts = dir.conflicts
           /\ EpochMarked(dir, v).clock = dir.clock
           /\ EpochMarked(dir, v).meta.version = dir.meta.version
           /\ EpochMarked(dir, v).meta.epochSince \in {dir.meta.epochSince, v}
           /\ EpochMarked(dir, v).meta.epochSince = v => v <= dir.meta.version \/ v = dir.meta.epochSince
           /\ 0 < v /\ v <= dir.meta.version /\ v > dir.meta.epochSince =>
                EpochMarked(dir, v).meta.epochSince = v
<1>1. dir \in Dirs /\ dir.meta \in Metas
  BY DEF TypeOK, Dirs
<1>2. CASE EpochMarked(dir, v) = dir /\ ~(0 < v /\ v <= dir.meta.version /\ v > dir.meta.epochSince)
  BY <1>1, <1>2
<1>3. CASE EpochMarked(dir, v) = [dir EXCEPT !.meta.epochSince = v] /\ v <= dir.meta.version
  <2>1. [dir.meta EXCEPT !.epochSince = v] \in Metas
    BY <1>1 DEF Metas
  <2> QED
    BY <1>1, <1>3, <2>1 DEF Dirs, Metas
<1> QED
  BY <1>2, <1>3 DEF EpochMarked

LEMMA ClearLeaves ==
    ASSUME TypeOK, NEW d \in Clearings(dir)
    PROVE  /\ d \in Dirs
           /\ d.meta = dir.meta /\ d.kdbx = dir.kdbx /\ d.clock = dir.clock
           /\ d.history \subseteq dir.history /\ d.conflicts \subseteq dir.conflicts
<1>1. \E h \in SUBSET dir.history, b \in SUBSET dir.conflicts :
         d = [dir EXCEPT !.history = h] \/ d = [dir EXCEPT !.history = h, !.conflicts = b]
  BY DEF Clearings
<1>2. PICK h \in SUBSET dir.history, b \in SUBSET dir.conflicts :
         d = [dir EXCEPT !.history = h] \/ d = [dir EXCEPT !.history = h, !.conflicts = b]
  BY <1>1
<1>3. dir \in Dirs /\ h \in SUBSET Snapshots /\ b \in SUBSET Blobs
  BY DEF TypeOK, Dirs
<1> QED
  BY <1>2, <1>3 DEF Dirs

Sound == TypeOK /\ Past

(* The steps of a tab that only read. *)
LEMMA ReadSound ==
    ASSUME Sound, NEW c \in Clients, List(c) \/ Fetch(c) \/ Open(c) \/ Overwrite(c)
    PROVE  Sound'
<1>0. /\ rec.epoch \in Nat /\ rec.key \in Nat /\ dir.meta.version \in Nat
      /\ dir.meta.sum \in Blobs /\ dir.kdbx \in Blobs
      /\ view[c] \in Views /\ NoBlob \in Blobs /\ NoView \in Views
      /\ view \in [Clients -> Views]
  BY StartTypes DEF Sound, TypeOK, Dirs, Metas
<1>1. UNCHANGED <<dir, rec, stage, uploads, gap, ack, debts>>
  BY DEF List, Fetch, Open, Overwrite
<1>2. PICK v \in Views : view' = [view EXCEPT ![c] = v] /\ (v.blob # NoBlob => v.version > 0)
  <2>1. CASE List(c)
    <3> DEFINE v == [listed |-> rec.epoch, key |-> rec.key, version |-> -1, blob |-> NoBlob]
    <3>1. v \in Views /\ view' = [view EXCEPT ![c] = v]
      BY <1>0, <2>1 DEF List, Views
    <3> QED
      BY <3>1
  <2>2. CASE Fetch(c)
    <3> DEFINE v == [view[c] EXCEPT !.version = dir.meta.version]
    <3>1. v \in Views /\ v.blob = NoBlob
      BY <1>0, <2>2 DEF Fetch, Opened, Views
    <3>2. view' = [view EXCEPT ![c] = v]
      BY <1>0, <2>2 DEF Fetch
    <3> QED
      BY <3>1, <3>2
  <2>3. CASE Open(c)
    <3> DEFINE v == IF dir.kdbx.key = view[c].key
                      THEN [listed |-> view[c].listed, key |-> view[c].key,
                            version |-> view[c].version, blob |-> dir.kdbx]
                      ELSE NoView
    <3>1. view' = [view EXCEPT ![c] = v] /\ view[c].version > 0
      BY <2>3 DEF Open
    <3>2. v \in Views
      BY <1>0 DEF Views
    <3>3. v.blob # NoBlob => v.version > 0
      BY <3>1 DEF NoView
    <3> QED
      BY <3>1, <3>2, <3>3
  <2>4. CASE Overwrite(c)
    <3> DEFINE v == [view[c] EXCEPT !.version = dir.meta.version, !.blob = dir.meta.sum]
    <3>1. view' = [view EXCEPT ![c] = v]
      BY <1>0, <2>4 DEF Overwrite
    <3>2. v \in Views /\ v.version = dir.meta.version
      BY <1>0 DEF Views
    <3>3. dir.meta.version > 0
      BY <1>0, <2>4 DEF Sound, Past, Overwrite, Views
    <3> QED
      BY <3>1, <3>2, <3>3
  <2> QED
    BY <2>1, <2>2, <2>3, <2>4
<1>3. TypeOK'
  BY <1>0, <1>1, <1>2 DEF Sound, TypeOK
<1>4. \A d \in Clients : Opened(d)' => view'[d].version > 0
  BY <1>0, <1>2 DEF Sound, Past, Opened
<1> QED
  BY <1>1, <1>3, <1>4 DEF Sound, Past, Unlocked

(* A write that ran to wherever it got, and the tab that learned of it or  *)
(* did not.                                                                *)
LEMMA WriteSound ==
    ASSUME Sound, NEW blob \in Blobs, NEW kind \in Kinds, NEW must \in BOOLEAN,
           NEW r \in Replacements(dir, dir.meta, kind, blob, NextMeta(dir.meta, blob), must),
           dir' = r.dir,
           r.end # "done" => ack' = ack
    PROVE  /\ dir' \in Dirs
           /\ dir'.meta.epochSince <= dir'.meta.version
           /\ \A s \in dir'.history : s.version <= dir'.meta.version /\ s.at <= dir'.clock
           /\ dir'.meta.version >= dir.meta.version
           /\ dir'.meta.version = 0 => ack' = NoBlob
           /\ r.lost \in Nat
           /\ r.end = "done" => dir'.meta.version = dir.meta.version + 1
<1>1. TypeOK /\ Past
  BY DEF Sound
<1>2. /\ dir' \in Dirs
      /\ r.lost \in Nat
      /\ r.end \in {"done", "stopped"}
      /\ dir'.meta.epochSince = dir.meta.epochSince
      /\ r.end = "done" => dir'.meta.version = dir.meta.version + 1
      /\ r.end # "done" => dir'.meta = dir.meta
      /\ \A s \in dir'.history : s.at <= dir'.clock /\ s.version <= dir.meta.version
  BY <1>1, WriteLeaves
<1>3. dir.meta.version \in Nat /\ dir.meta.epochSince \in Nat /\ dir.meta.epochSince <= dir.meta.version
  BY <1>1 DEF TypeOK, Dirs, Metas, Past
<1>4. \A s \in dir'.history : s.version \in Nat
  BY <1>2 DEF Dirs, Snapshots
<1>5. CASE r.end = "done"
  BY <1>2, <1>3, <1>4, <1>5
<1>6. CASE r.end # "done"
  BY <1>1, <1>2, <1>3, <1>4, <1>6 DEF Past
<1> QED
  BY <1>5, <1>6

LEMMA WriterSound ==
    ASSUME Sound, NEW c \in Clients,
           SaveVault(c) \/ RestoreHistory(c) \/ DiscardConflict(c) \/ Rotate(c)
    PROVE  Sound'
<1>0. /\ TypeOK /\ Past /\ dir \in Dirs /\ view \in [Clients -> Views]
      /\ dir.meta.version \in Nat
  BY DEF Sound, TypeOK, Dirs, Metas
<1>1. CASE SaveVault(c)
  <2> DEFINE blob == UploadBlob(c)
  <2>0. blob \in Blobs /\ "save" \in Kinds /\ FALSE \in BOOLEAN
    BY <1>0, UploadTypes
  <2> HIDE DEF blob
  <2>1. uploads' \in Nat /\ UNCHANGED <<rec, stage>>
    BY <1>0, <1>1, SaveVaultDoes
  <2>4. Unlocked
    BY <1>0, <1>1, SaveVaultDoes DEF Admitted
  <2>2. ASSUME NEW r \in Replacements(dir, dir.meta, "save", blob, NextMeta(dir.meta, blob), FALSE),
               dir' = r.dir, Settle(r),
               \/ view' = view
               \/ /\ r.end = "done"
                  /\ view' = [view EXCEPT ![c].version = r.dir.meta.version, ![c].blob = blob]
        PROVE  Sound'
    <3>1. r.end # "done" => ack' = ack
      BY <2>2 DEF Settle
    <3>2. /\ dir' \in Dirs
          /\ dir'.meta.epochSince <= dir'.meta.version
          /\ \A s \in dir'.history : s.version <= dir'.meta.version /\ s.at <= dir'.clock
          /\ dir'.meta.version = 0 => ack' = NoBlob
          /\ r.lost \in Nat
          /\ r.end = "done" => dir'.meta.version = dir.meta.version + 1
      BY <2>0, <2>2, <3>1, WriteSound
    <3>3. gap' \in [tries : Nat, lost : Nat] /\ ack' \in Blobs /\ debts' \subseteq Debts
      BY <1>0, <2>2, <3>2, SettleType
    <3>4. view' \in [Clients -> Views] /\ \A d \in Clients : Opened(d)' => view'[d].version > 0
      <4>1. CASE view' = view
        BY <1>0, <4>1 DEF Past, Opened
      <4>2. CASE /\ r.end = "done"
                 /\ view' = [view EXCEPT ![c].version = r.dir.meta.version, ![c].blob = blob]
        <5> DEFINE v == [view[c] EXCEPT !.version = dir'.meta.version, !.blob = blob]
        <5>1. view' = [view EXCEPT ![c] = v]
          BY <1>0, <2>2, <4>2
        <5>2. dir'.meta.version \in Nat /\ dir'.meta.version > 0
          BY <1>0, <3>2, <4>2
        <5>3. v \in Views /\ v.version > 0
          BY <1>0, <2>0, <5>2 DEF Views
        <5> HIDE DEF v
        <5> QED
          BY <1>0, <5>1, <5>3 DEF Past, Opened
      <4> QED
        BY <2>2, <4>1, <4>2
    <3> QED
      BY <1>0, <2>1, <2>4, <3>2, <3>3, <3>4 DEF Sound, TypeOK, Past, Unlocked
  <2>3. ASSUME \/ dir' = dir
               \/ dir' = [dir EXCEPT !.conflicts = dir.conflicts \cup {blob}],
               UNCHANGED <<view, gap, ack, debts>>
        PROVE  Sound'
    <3>1. dir' \in Dirs /\ dir'.meta = dir.meta /\ dir'.history = dir.history
          /\ dir'.clock = dir.clock
      BY <1>0, <2>0, <2>3 DEF Dirs
    <3> QED
      BY <1>0, <2>1, <2>3, <3>1 DEF Sound, TypeOK, Past, Opened, Unlocked
  <2> QED
    BY <1>0, <1>1, <2>2, <2>3, SaveVaultDoes DEF blob
<1>2. CASE RestoreHistory(c)
  <2>0. "rollback" \in Kinds /\ FALSE \in BOOLEAN
    BY <1>0, UploadTypes
  <2>1. PICK s \in dir.history : s.blob \in Blobs /\
          \E r \in Replacements(dir, dir.meta, "rollback", s.blob, NextMeta(dir.meta, s.blob), FALSE) :
            dir' = r.dir /\ Settle(r)
    BY <1>0, <1>2, RestoreDoes
  <2> DEFINE blob == s.blob
  <2>2. PICK r \in Replacements(dir, dir.meta, "rollback", blob, NextMeta(dir.meta, blob), FALSE) :
            dir' = r.dir /\ Settle(r)
    BY <2>1
  <2>3. blob \in Blobs /\ UNCHANGED <<rec, stage, view, uploads>>
    BY <1>0, <1>2, <2>1, RestoreDoes
  <2>7. Unlocked
    BY <1>0, <1>2, RestoreDoes DEF Admitted
  <2> HIDE DEF blob
  <2>4. r.end # "done" => ack' = ack
    BY <2>2 DEF Settle
  <2>5. /\ dir' \in Dirs
        /\ dir'.meta.epochSince <= dir'.meta.version
        /\ \A t \in dir'.history : t.version <= dir'.meta.version /\ t.at <= dir'.clock
        /\ dir'.meta.version = 0 => ack' = NoBlob
        /\ r.lost \in Nat
    BY <2>0, <2>2, <2>3, <2>4, WriteSound
  <2>6. gap' \in [tries : Nat, lost : Nat] /\ ack' \in Blobs /\ debts' \subseteq Debts
    BY <1>0, <2>2, <2>5, SettleType
  <2> QED
    BY <1>0, <2>3, <2>5, <2>6, <2>7 DEF Sound, TypeOK, Past, Opened, Unlocked
<1>3. CASE DiscardConflict(c)
  <2>1. PICK b \in dir.conflicts : dir' = [dir EXCEPT !.conflicts = dir.conflicts \ {b}]
    BY <1>3 DEF DiscardConflict
  <2>2. dir' \in Dirs /\ dir'.meta = dir.meta /\ dir'.history = dir.history /\ dir'.clock = dir.clock
    BY <1>0, <2>1 DEF Dirs
  <2>3. UNCHANGED <<rec, stage, view, uploads, gap, ack, debts>>
    BY <1>3 DEF DiscardConflict
  <2> QED
    BY <1>0, <2>2, <2>3 DEF Sound, TypeOK, Past, Opened, Unlocked
<1>4. CASE Rotate(c)
  <2> DEFINE blob == RotatedBlob
  <2>0. blob \in Blobs /\ blob.key \in Nat /\ "save" \in Kinds /\ TRUE \in BOOLEAN
    BY <1>0, UploadTypes
  <2> HIDE DEF blob
  <2>1. uploads' \in Nat /\ UNCHANGED <<rec, view>>
    BY <1>0, <1>4, RotateDoes
  <2>2. PICK r \in Replacements(dir, dir.meta, "save", blob, NextMeta(dir.meta, blob), TRUE) :
          /\ dir' = r.dir
          /\ \/ /\ r.end = "done"
                /\ stage' = [phase |-> "saved", key |-> blob.key, version |-> r.dir.meta.version]
                /\ UNCHANGED <<gap, ack, debts>>
             \/ r.end # "done" /\ Settle(r) /\ stage' = stage
    BY <1>0, <1>4, RotateDoes DEF blob
  <2>4. r.end # "done" => ack' = ack
    BY <2>2 DEF Settle
  <2>5. /\ dir' \in Dirs
        /\ dir'.meta.epochSince <= dir'.meta.version
        /\ \A t \in dir'.history : t.version <= dir'.meta.version /\ t.at <= dir'.clock
        /\ dir'.meta.version = 0 => ack' = NoBlob
        /\ r.lost \in Nat
        /\ r.end = "done" => dir'.meta.version = dir.meta.version + 1
    BY <2>0, <2>2, <2>4, WriteSound
  <2>7. ~Unlocked' => stage'.version = dir'.meta.version /\ stage'.version > 0
    <3>1. CASE r.end = "done"
      BY <1>0, <2>2, <2>5, <3>1
    <3>2. CASE r.end # "done"
      BY <1>0, <1>4, <2>2, <3>2, RotateDoes DEF Admitted, Unlocked
    <3> QED
      BY <3>1, <3>2
  <2>6. /\ gap' \in [tries : Nat, lost : Nat] /\ ack' \in Blobs /\ debts' \subseteq Debts
        /\ stage' \in [phase : Phases, key : Nat, version : Nat]
    <3>1. CASE /\ r.end = "done"
               /\ stage' = [phase |-> "saved", key |-> blob.key, version |-> r.dir.meta.version]
               /\ UNCHANGED <<gap, ack, debts>>
      <4>1. dir'.meta.version \in Nat
        BY <2>5 DEF Dirs, Metas
      <4> QED
        BY <1>0, <2>0, <2>2, <3>1, <4>1 DEF TypeOK, Phases
    <3>2. CASE r.end # "done" /\ Settle(r) /\ stage' = stage
      BY <1>0, <2>2, <2>5, <3>2, SettleType DEF TypeOK
    <3> QED
      BY <2>2, <3>1, <3>2
  <2> QED
    BY <1>0, <2>1, <2>5, <2>6, <2>7 DEF Sound, TypeOK, Past, Opened
<1> QED
  BY <1>1, <1>2, <1>3, <1>4

LEMMA RotationSound ==
    ASSUME Sound,
           RotateStops \/ RotateCommit \/ RotateMark \/ RotateClear \/ DieAfterCommit
    PROVE  Sound'
<1>0. /\ TypeOK /\ Past /\ dir \in Dirs /\ view \in [Clients -> Views]
      /\ dir.meta \in Metas /\ dir.meta.version \in Nat /\ dir.meta.epochSince \in Nat
      /\ dir.kdbx \in Blobs /\ stage.version \in Nat /\ stage.key \in Nat
      /\ rec.epoch \in Nat /\ rec.key \in Nat
      /\ NoStage \in [phase : Phases, key : Nat, version : Nat] /\ NoStage.phase = "idle"
      /\ stage \in [phase : Phases, key : Nat, version : Nat]
  BY StartTypes DEF Sound, TypeOK, Dirs, Metas, NoStage
<1>1. CASE RotateStops
  <2>1. /\ gap' \in [tries : Nat, lost : Nat] /\ debts' \subseteq Debts /\ stage' = NoStage
        /\ UNCHANGED <<dir, rec, view, uploads, ack>>
    BY <1>0, <1>1 DEF RotateStops, TypeOK, Debts
  <2> QED
    BY <1>0, <2>1 DEF Sound, TypeOK, Past, Opened, Unlocked
<1>2. CASE RotateCommit
  <2>1. /\ stage.phase = "saved"
        /\ rec' = [epoch |-> rec.epoch + 1, key |-> stage.key]
        /\ stage' = [stage EXCEPT !.phase = "committed"]
        /\ ack' = dir.kdbx
        /\ gap' = NoGap
        /\ UNCHANGED <<dir, view, uploads, debts>>
    BY <1>2 DEF RotateCommit
  <2>2. /\ stage' \in [phase : Phases, key : Nat, version : Nat]
        /\ stage'.version = stage.version
    BY <1>0, <2>1 DEF Phases
  <2>3. stage.version = dir.meta.version /\ stage.version > 0
    BY <1>0, <2>1 DEF Past, Unlocked
  <2>4. TypeOK'
    BY <1>0, <2>1, <2>2, StartTypes DEF TypeOK
  <2>5. Past'
    BY <1>0, <2>1, <2>2, <2>3 DEF Past, Opened
  <2> QED
    BY <2>4, <2>5 DEF Sound
<1>3. CASE RotateMark
  <2>1. /\ stage.phase = "committed"
        /\ stage' = [stage EXCEPT !.phase = "marked"]
        /\ UNCHANGED <<rec, view, uploads, gap, ack>>
        /\ dir' = EpochMarked(dir, stage.version) \/ dir' = dir
    BY <1>3 DEF RotateMark
  <2>2. debts' \subseteq Debts
    BY <1>0, <1>3 DEF RotateMark, TypeOK, Debts
  <2>3. /\ stage' \in [phase : Phases, key : Nat, version : Nat]
        /\ stage'.version = stage.version
    BY <1>0, <2>1 DEF Phases
  <2>4. /\ dir' \in Dirs
        /\ dir'.history = dir.history
        /\ dir'.clock = dir.clock
        /\ dir'.meta.version = dir.meta.version
        /\ dir'.meta.epochSince <= dir'.meta.version
    <3>1. CASE dir' = dir
      BY <1>0, <3>1 DEF Past
    <3>2. CASE dir' = EpochMarked(dir, stage.version)
      <4> DEFINE v == stage.version
      <4>1. v \in Nat /\ dir' = EpochMarked(dir, v)
        BY <1>0, <3>2
      <4> HIDE DEF v
      <4>2. /\ dir' \in Dirs
            /\ dir'.history = dir.history
            /\ dir'.clock = dir.clock
            /\ dir'.meta.version = dir.meta.version
            /\ dir'.meta.epochSince \in {dir.meta.epochSince, v}
            /\ dir'.meta.epochSince = v => v <= dir.meta.version \/ v = dir.meta.epochSince
        BY <1>0, <4>1, MarkLeaves
      <4> QED
        BY <1>0, <4>1, <4>2 DEF Past
    <3> QED
      BY <2>1, <3>1, <3>2
  <2>5. stage.version = dir.meta.version /\ stage.version > 0
    BY <1>0, <2>1 DEF Past, Unlocked
  <2>6. TypeOK'
    BY <1>0, <2>1, <2>2, <2>3, <2>4 DEF TypeOK
  <2>7. Past'
    BY <1>0, <2>1, <2>3, <2>4, <2>5 DEF Past, Opened
  <2> QED
    BY <2>6, <2>7 DEF Sound
<1>4. CASE RotateClear
  <2>1. PICK d \in Clearings(dir) :
          /\ dir' = d
          /\ debts' = IF d.history = {} /\ d.conflicts = {} THEN {} ELSE debts \cup {"uncleared"}
    BY <1>4 DEF RotateClear
  <2>2. /\ dir' \in Dirs
        /\ dir'.meta = dir.meta /\ dir'.clock = dir.clock
        /\ dir'.history \subseteq dir.history
    BY <1>0, <2>1, ClearLeaves
  <2>3. /\ stage' = NoStage
        /\ UNCHANGED <<rec, uploads, gap, ack>>
        /\ stage.phase = "marked"
    BY <1>4 DEF RotateClear
  <2>4. debts' \subseteq Debts
    BY <1>0, <2>1 DEF TypeOK, Debts
  <2>5. stage.version > 0
    BY <1>0, <2>3 DEF Past, Unlocked
  <2> DEFINE v == [listed |-> rec.epoch, key |-> rec.key, version |-> stage.version, blob |-> dir.kdbx]
  <2>6. v \in Views /\ v.version > 0
    BY <1>0, <2>5 DEF Views
  <2>7. view' = view \/ \E c \in Clients : view' = [view EXCEPT ![c] = v]
    BY <1>4 DEF RotateClear
  <2> HIDE DEF v
  <2>8. view' \in [Clients -> Views] /\ \A c \in Clients : Opened(c)' => view'[c].version > 0
    BY <1>0, <2>6, <2>7 DEF Past, Opened
  <2>9. TypeOK'
    BY <1>0, <2>2, <2>3, <2>4, <2>8 DEF TypeOK
  <2>10. Past'
    BY <1>0, <2>2, <2>3, <2>8 DEF Past, Unlocked
  <2> QED
    BY <2>9, <2>10 DEF Sound
<1>5. CASE DieAfterCommit
  <2>1. stage' = NoStage /\ UNCHANGED <<dir, rec, view, uploads, gap, ack>>
    BY <1>5 DEF DieAfterCommit
  <2>2. debts' \subseteq Debts
    BY <1>0, <1>5 DEF DieAfterCommit, TypeOK, Debts
  <2> QED
    BY <1>0, <2>1, <2>2 DEF Sound, TypeOK, Past, Opened, Unlocked
<1> QED
  BY <1>1, <1>2, <1>3, <1>4, <1>5

LEMMA SoundStep == Sound /\ [Next]_vars => Sound'
<1> SUFFICES ASSUME Sound, [Next]_vars PROVE Sound'
  OBVIOUS
<1>1. ASSUME UNCHANGED vars PROVE Sound'
  BY <1>1 DEF vars, Sound, TypeOK, Past, Opened, Unlocked
<1> QED
  BY <1>1, ReadSound, WriterSound, RotationSound DEF Next

LEMMA InitSound == Init => Sound
<1> SUFFICES ASSUME Init PROVE Sound
  OBVIOUS
<1>1. /\ dir.meta.version = 0 /\ dir.meta.epochSince = 0 /\ dir.history = {}
      /\ \A c \in Clients : view[c].blob = NoBlob
      /\ ack = NoBlob /\ Unlocked
  BY DEF Init, EmptyDir, NoMeta, NoView, NoStage, Unlocked
<1>2. Past
  BY <1>1 DEF Past, Opened
<1> QED
  BY <1>2, InitTypeOK DEF Sound

(* Every variable keeps its type, the directory through interrupted        *)
(* writes, failed copies and prunings too.                                 *)
THEOREM TypeCorrect == Spec => []TypeOK
<1>1. Sound => TypeOK
  BY DEF Sound
<1> QED
  BY <1>1, InitSound, SoundStep, PTL DEF Spec

-----------------------------------------------------------------------------
(* Which key everything is under.  Usable is what a rollback accepts.      *)
InKey(b) == b.key = rec.key
Usable == {s \in dir.history : ~Stale(dir, s)}

(* Between two rotations: what the members open or may roll back to is     *)
(* under their key unless a rotation stopped before it was marked, and     *)
(* every file is unless one stopped before it was cleared.                 *)
Settled ==
    /\ debts \subseteq {"uncleared"} =>
         /\ dir.meta.version > 0 => InKey(dir.kdbx)
         /\ \A s \in Usable : InKey(s.blob)
    /\ debts = {} => /\ \A s \in dir.history : InKey(s.blob)
                     /\ \A b \in dir.conflicts : InKey(b)

(* While one runs, vault.kdbx is what it wrote, every snapshot is of an    *)
(* earlier version, and the mark that retires those is at the version it   *)
(* wrote once MarkKeyEpoch did not fail.                                   *)
Rotating ==
    /\ \A s \in dir.history : s.version < stage.version
    /\ IF stage.phase = "saved" THEN dir.kdbx.key = stage.key ELSE InKey(dir.kdbx)
    /\ stage.phase # "marked" => dir.meta.epochSince < stage.version
    /\ stage.phase = "marked" /\ "unmarked" \notin debts =>
         dir.meta.epochSince = stage.version

KeyInv == IF Unlocked THEN Settled ELSE Rotating

(* A tab that is admitted writes under the record's key. *)
LEMMA WritesInKey ==
    ASSUME TypeOK, EpochInv, NEW c \in Clients, Admitted(c)
    PROVE  UploadBlob(c).key = rec.key
  BY UploadTypes DEF EpochInv, Listed, Admitted

(* A write that is answered for puts a file under the key over one that    *)
(* is, and adds a snapshot of that one.                                    *)
LEMMA WriteKeepsKey ==
    ASSUME Sound, KeyInv, Unlocked, NEW blob \in Blobs, NEW kind \in Kinds, NEW must \in BOOLEAN,
           NEW r \in Replacements(dir, dir.meta, kind, blob, NextMeta(dir.meta, blob), must),
           dir' = r.dir, rec' = rec, stage' = stage, Settle(r),
           debts \subseteq {"uncleared"} => InKey(blob)
    PROVE  KeyInv'
<1>1. TypeOK /\ Past /\ Settled
  BY DEF Sound, KeyInv
<1>2. /\ dir'.conflicts = dir.conflicts
      /\ dir'.meta.epochSince = dir.meta.epochSince
      /\ r.end \in {"done", "stopped"}
      /\ r.end = "done" => dir'.kdbx = blob
      /\ \A s \in dir'.history :
           \/ s \in dir.history
           \/ dir.meta.version > 0 /\ s.version = dir.meta.version /\ s.blob = dir.kdbx
  BY <1>1, WriteLeaves
<1>3. Unlocked'
  BY DEF Unlocked
<1>4. CASE r.end # "done"
  <2>1. "interrupted" \in debts'
    BY <1>4 DEF Settle
  <2> QED
    BY <1>3, <2>1 DEF KeyInv, Settled
<1>5. CASE r.end = "done"
  <2>1. debts' = debts /\ dir'.kdbx = blob
    BY <1>2, <1>5 DEF Settle
  <2>2. ASSUME debts \subseteq {"uncleared"}
        PROVE  (InKey(dir.kdbx) /\ \A s \in Usable : InKey(s.blob))'
    BY <1>1, <1>2, <2>1, <2>2 DEF Settled, InKey, Usable, Stale
  <2>3. ASSUME debts = {}
        PROVE  (/\ \A s \in dir.history : InKey(s.blob)
                /\ \A b \in dir.conflicts : InKey(b))'
    BY <1>1, <1>2, <2>1, <2>3 DEF Settled, InKey
  <2>4. Settled'
    BY <2>1, <2>2, <2>3 DEF Settled
  <2> QED
    BY <1>3, <2>4 DEF KeyInv
<1> QED
  BY <1>4, <1>5

LEMMA TabKeyInv ==
    ASSUME Sound, EpochInv, KeyInv, NEW c \in Clients,
           \/ List(c) \/ Fetch(c) \/ Open(c) \/ Overwrite(c)
           \/ SaveVault(c) \/ RestoreHistory(c) \/ DiscardConflict(c) \/ Rotate(c)
    PROVE  KeyInv'
<1>0. TypeOK /\ Past /\ dir \in Dirs /\ dir.meta.version \in Nat /\ dir.meta.epochSince \in Nat
  BY DEF Sound, TypeOK, Dirs, Metas
<1>1. CASE List(c) \/ Fetch(c) \/ Open(c) \/ Overwrite(c)
  <2>1. UNCHANGED <<dir, rec, stage, debts>>
    BY <1>1 DEF List, Fetch, Open, Overwrite
  <2> QED
    BY <2>1 DEF KeyInv, Unlocked, Settled, Rotating, InKey, Usable, Stale
<1>2. CASE SaveVault(c)
  <2> DEFINE blob == UploadBlob(c)
  <2>0. blob \in Blobs /\ "save" \in Kinds /\ FALSE \in BOOLEAN
    BY <1>0, UploadTypes
  <2>1. Admitted(c) /\ UNCHANGED <<rec, stage>>
    BY <1>0, <1>2, SaveVaultDoes
  <2>2. InKey(blob) /\ Unlocked
    BY <1>0, <2>1, WritesInKey DEF InKey, Admitted
  <2> HIDE DEF blob
  <2>3. ASSUME NEW r \in Replacements(dir, dir.meta, "save", blob, NextMeta(dir.meta, blob), FALSE),
               dir' = r.dir, Settle(r)
        PROVE  KeyInv'
    BY <2>0, <2>1, <2>2, <2>3, WriteKeepsKey
  <2>4. ASSUME \/ dir' = dir
               \/ dir' = [dir EXCEPT !.conflicts = dir.conflicts \cup {blob}],
               debts' = debts
        PROVE  KeyInv'
    <3>1. /\ dir'.meta = dir.meta /\ dir'.history = dir.history /\ dir'.kdbx = dir.kdbx
          /\ dir'.conflicts \subseteq dir.conflicts \cup {blob}
      BY <1>0, <2>4 DEF Dirs
    <3>2. Settled'
      BY <2>1, <2>2, <2>4, <3>1 DEF KeyInv, Settled, InKey, Usable, Stale
    <3> QED
      BY <2>1, <2>2, <3>2 DEF KeyInv, Unlocked
  <2> QED
    BY <1>0, <1>2, <2>3, <2>4, SaveVaultDoes DEF blob
<1>3. CASE RestoreHistory(c)
  <2>0. "rollback" \in Kinds /\ FALSE \in BOOLEAN
    BY <1>0, UploadTypes
  <2>1. Unlocked /\ UNCHANGED <<rec, stage>>
    BY <1>0, <1>3, RestoreDoes DEF Admitted
  <2>2. PICK s \in dir.history : /\ s.blob \in Blobs
                                 /\ ~Stale(dir, s)
                                 /\ \E r \in Replacements(dir, dir.meta, "rollback", s.blob,
                                                NextMeta(dir.meta, s.blob), FALSE) :
                                      dir' = r.dir /\ Settle(r)
    BY <1>0, <1>3, RestoreDoes
  <2> DEFINE blob == s.blob
  <2>3. PICK r \in Replacements(dir, dir.meta, "rollback", blob, NextMeta(dir.meta, blob), FALSE) :
            dir' = r.dir /\ Settle(r)
    BY <2>2
  <2>4. blob \in Blobs /\ (debts \subseteq {"uncleared"} => InKey(blob))
    BY <2>1, <2>2 DEF KeyInv, Settled, Usable
  <2> HIDE DEF blob
  <2> QED
    BY <2>0, <2>1, <2>3, <2>4, WriteKeepsKey
<1>4. CASE DiscardConflict(c)
  <2>1. PICK b \in dir.conflicts : dir' = [dir EXCEPT !.conflicts = dir.conflicts \ {b}]
    BY <1>4 DEF DiscardConflict
  <2>2. /\ dir'.meta = dir.meta /\ dir'.history = dir.history /\ dir'.kdbx = dir.kdbx
        /\ dir'.conflicts \subseteq dir.conflicts
    BY <1>0, <2>1 DEF Dirs
  <2>3. Unlocked /\ UNCHANGED <<rec, stage, debts>>
    BY <1>4 DEF DiscardConflict, Admitted
  <2>4. Settled'
    BY <2>2, <2>3 DEF KeyInv, Settled, InKey, Usable, Stale
  <2> QED
    BY <2>3, <2>4 DEF KeyInv, Unlocked
<1>5. CASE Rotate(c)
  <2> DEFINE blob == RotatedBlob
  <2>0. blob \in Blobs /\ "save" \in Kinds /\ TRUE \in BOOLEAN
    BY <1>0, UploadTypes
  <2>1. Unlocked /\ rec' = rec
    BY <1>0, <1>5, RotateDoes DEF Admitted
  <2> HIDE DEF blob
  <2>2. PICK r \in Replacements(dir, dir.meta, "save", blob, NextMeta(dir.meta, blob), TRUE) :
          /\ dir' = r.dir
          /\ \/ /\ r.end = "done"
                /\ stage' = [phase |-> "saved", key |-> blob.key, version |-> r.dir.meta.version]
                /\ UNCHANGED <<gap, ack, debts>>
             \/ r.end # "done" /\ Settle(r) /\ stage' = stage
    BY <1>0, <1>5, RotateDoes DEF blob
  <2>3. CASE r.end # "done"
    <3>1. "interrupted" \in debts' /\ Unlocked'
      BY <2>1, <2>2, <2>3 DEF Settle, Unlocked
    <3> QED
      BY <3>1 DEF KeyInv, Settled
  <2>4. CASE r.end = "done"
    <3>1. /\ dir'.meta.version = dir.meta.version + 1 /\ dir'.kdbx = blob
          /\ dir'.meta.epochSince = dir.meta.epochSince
          /\ \A s \in dir'.history : s.version <= dir.meta.version
          /\ dir' \in Dirs
      BY <1>0, <2>0, <2>2, <2>4, WriteLeaves
    <3>2. stage'.phase = "saved" /\ stage'.key = blob.key /\ stage'.version = dir.meta.version + 1
      BY <2>2, <2>4, <3>1
    <3>3. \A s \in dir'.history : s.version \in Nat
      BY <3>1 DEF Dirs, Snapshots
    <3>4. Rotating'
      BY <1>0, <3>1, <3>2, <3>3 DEF Rotating, Past
    <3> QED
      BY <3>2, <3>4 DEF KeyInv, Unlocked
  <2> QED
    BY <2>3, <2>4
<1> QED
  BY <1>1, <1>2, <1>3, <1>4, <1>5

(* The steps of a rotation: a stop before the record saved owes a whole    *)
(* rotation, the commit makes the members' key the file's, the mark makes  *)
(* every older snapshot stale and the clear removes them.                  *)
LEMMA RotationKeyInv ==
    ASSUME Sound, KeyInv,
           RotateStops \/ RotateCommit \/ RotateMark \/ RotateClear \/ DieAfterCommit
    PROVE  KeyInv'
<1>0. /\ TypeOK /\ Past /\ dir \in Dirs
      /\ dir.meta.version \in Nat /\ dir.meta.epochSince \in Nat
      /\ \A s \in dir.history : s.version \in Nat
      /\ stage.version \in Nat /\ NoStage.phase = "idle"
      /\ stage \in [phase : Phases, key : Nat, version : Nat]
  BY DEF Sound, TypeOK, Dirs, Metas, Snapshots, NoStage
<1>1. CASE RotateStops
  <2>1. "interrupted" \in debts' /\ Unlocked'
    BY <1>0, <1>1 DEF RotateStops, Unlocked
  <2> QED
    BY <2>1 DEF KeyInv, Settled
<1>2. CASE RotateCommit
  <2>1. /\ stage.phase = "saved" /\ rec'.key = stage.key /\ dir' = dir /\ debts' = debts
        /\ stage'.phase = "committed" /\ stage'.version = stage.version
    BY <1>0, <1>2 DEF RotateCommit
  <2>2. Rotating
    BY <2>1 DEF KeyInv, Unlocked
  <2>3. Rotating'
    BY <2>1, <2>2 DEF Rotating, InKey
  <2> QED
    BY <2>1, <2>3 DEF KeyInv, Unlocked
<1>3. CASE RotateMark
  <2>1. /\ stage.phase = "committed" /\ rec' = rec
        /\ stage'.phase = "marked" /\ stage'.version = stage.version
    BY <1>0, <1>3 DEF RotateMark
  <2>2. Rotating /\ stage.version = dir.meta.version /\ stage.version > 0
    BY <1>0, <2>1 DEF KeyInv, Unlocked, Past
  <2>3. dir.meta.epochSince < stage.version /\ InKey(dir.kdbx)
        /\ \A s \in dir.history : s.version < stage.version
    BY <2>1, <2>2 DEF Rotating
  <2>4. CASE dir' = dir /\ debts' = debts \cup {"unmarked"}
    BY <2>1, <2>3, <2>4 DEF KeyInv, Unlocked, Rotating, InKey
  <2>5. CASE dir' = EpochMarked(dir, stage.version)
    <3> DEFINE v == stage.version
    <3>1. v \in Nat /\ dir' = EpochMarked(dir, v) /\ 0 < v /\ v <= dir.meta.version
          /\ v > dir.meta.epochSince
      BY <1>0, <2>2, <2>3, <2>5
    <3> HIDE DEF v
    <3>2. /\ dir'.kdbx = dir.kdbx /\ dir'.history = dir.history /\ dir'.meta.epochSince = v
      BY <1>0, <3>1, MarkLeaves
    <3> QED
      BY <2>1, <2>3, <3>2 DEF v, KeyInv, Unlocked, Rotating, InKey
  <2> QED
    BY <1>3, <2>4, <2>5 DEF RotateMark
<1>4. CASE RotateClear
  <2>1. PICK d \in Clearings(dir) :
          /\ dir' = d
          /\ debts' = IF d.history = {} /\ d.conflicts = {} THEN {} ELSE debts \cup {"uncleared"}
    BY <1>4 DEF RotateClear
  <2>2. /\ dir'.meta = dir.meta /\ dir'.kdbx = dir.kdbx
        /\ dir'.history \subseteq dir.history
    BY <1>0, <2>1, ClearLeaves
  <2>3. stage.phase = "marked" /\ Unlocked' /\ rec' = rec
    BY <1>0, <1>4 DEF RotateClear, Unlocked
  <2>4. Rotating
    BY <2>3 DEF KeyInv, Unlocked
  <2>5. InKey(dir.kdbx) /\ \A s \in dir.history : s.version < stage.version
    BY <2>3, <2>4 DEF Rotating
  <2>6. CASE dir'.history = {} /\ dir'.conflicts = {}
    BY <2>2, <2>3, <2>5, <2>6 DEF KeyInv, Settled, InKey, Usable
  <2>7. CASE debts' = debts \cup {"uncleared"}
    <3>1. ASSUME debts' \subseteq {"uncleared"}
          PROVE  Usable' = {}
      <4>1. dir'.meta.epochSince = stage.version
        BY <2>2, <2>3, <2>4, <2>7, <3>1 DEF Rotating
      <4> QED
        BY <2>2, <2>5, <4>1 DEF Usable, Stale
    <3>2. Settled'
      BY <2>2, <2>3, <2>5, <2>7, <3>1 DEF Settled, InKey
    <3> QED
      BY <2>3, <3>2 DEF KeyInv
  <2> QED
    BY <2>1, <2>6, <2>7
<1>5. CASE DieAfterCommit
  <2>1. /\ stage.phase \in {"committed", "marked"} /\ Unlocked' /\ dir' = dir /\ rec' = rec
        /\ "uncleared" \in debts' /\ debts \subseteq debts'
        /\ stage.phase = "committed" => "unmarked" \in debts'
    BY <1>0, <1>5 DEF DieAfterCommit, Unlocked
  <2>2. Rotating
    BY <2>1 DEF KeyInv, Unlocked
  <2>3. ASSUME debts' \subseteq {"uncleared"}
        PROVE  InKey(dir.kdbx) /\ Usable' = {}
    <3>1. stage.phase = "marked" /\ "unmarked" \notin debts
      BY <2>1, <2>3
    <3> QED
      BY <2>1, <2>2, <3>1 DEF Rotating, Usable, Stale
  <2>4. Settled'
    BY <2>1, <2>3 DEF Settled, InKey
  <2> QED
    BY <2>1, <2>4 DEF KeyInv
<1> QED
  BY <1>1, <1>2, <1>3, <1>4, <1>5

KeysInv == Sound /\ EpochInv /\ KeyInv

LEMMA InitKeysInv == Init => KeysInv
<1> SUFFICES ASSUME Init PROVE KeysInv
  OBVIOUS
<1>1. dir.meta.version = 0 /\ dir.history = {} /\ dir.conflicts = {} /\ Unlocked
  BY DEF Init, EmptyDir, NoMeta, NoStage, Unlocked
<1>2. KeyInv
  BY <1>1 DEF KeyInv, Settled, Usable
<1> QED
  BY <1>2, InitSound, InitEpochInv DEF KeysInv

LEMMA KeysInvStep == KeysInv /\ [Next]_vars => KeysInv'
<1> SUFFICES ASSUME KeysInv, [Next]_vars PROVE KeysInv'
  OBVIOUS
<1>1. Sound /\ EpochInv /\ KeyInv
  BY DEF KeysInv
<1>2. ASSUME UNCHANGED vars PROVE KeyInv'
  BY <1>1, <1>2 DEF vars, KeyInv, Unlocked, Settled, Rotating, InKey, Usable, Stale
<1>3. KeyInv'
  BY <1>1, <1>2, TabKeyInv, RotationKeyInv DEF Next
<1> QED
  BY <1>1, <1>3, SoundStep, EpochInvStep DEF KeysInv

LEMMA Keys == Spec => []KeysInv
  BY InitKeysInv, KeysInvStep, PTL DEF Spec

(* With no rotation in progress and none of its steps owed, the file, the  *)
(* history and the conflicts are under the key the members hold, after any *)
(* saves, overwrites, rollbacks and rotations, interrupted anywhere.       *)
THEOREM RetiredKeyGone == Spec => []NothingRetired
<1>1. KeysInv => NothingRetired
  BY DEF KeysInv, Sound, TypeOK, Dirs, Metas, KeyInv, Settled, InKey, NothingRetired, RetiredFree
<1> QED
  BY <1>1, Keys, PTL

(* A rotation that is marked but not cleared leaves nothing a rollback     *)
(* accepts under the retired key.                                          *)
THEOREM RollbackOpens == Spec => []RollbackStaysOpenable
<1>1. KeysInv => RollbackStaysOpenable
  BY DEF KeysInv, Sound, TypeOK, Dirs, Metas, KeyInv, Settled, InKey, Usable,
         RollbackStaysOpenable, RetiredFree
<1> QED
  BY <1>1, Keys, PTL

-----------------------------------------------------------------------------
(* The contents the members were promised: in vault.kdbx until a write is  *)
(* interrupted, and while a rotation has saved but not committed in the    *)
(* snapshot it may not do without (mustArchive).                           *)
HistoryHolds(b) == \E s \in dir.history : s.blob = b /\ ~Stale(dir, s)

Promised ==
    /\ gap.tries = 0 => IF stage.phase = "saved" THEN HistoryHolds(ack) ELSE ack = dir.kdbx
    /\ stage.phase \in {"committed", "marked"} => gap.tries = 0
    /\ WayBack

(* An unlocked vault keeps its promise when a write is answered for, and   *)
(* when it is the first to stop half way.                                  *)
LEMMA WriteKeepsPromise ==
    ASSUME Sound, Promised, Unlocked, NEW blob \in Blobs, NEW kind \in Kinds, NEW must \in BOOLEAN,
           NEW r \in Replacements(dir, dir.meta, kind, blob, NextMeta(dir.meta, blob), must),
           dir' = r.dir, stage' = stage, Settle(r), TypeOK'
    PROVE  Promised'
<1>1. TypeOK /\ Past /\ stage.phase = "idle" /\ Unlocked'
  BY DEF Sound, Unlocked
<1>2. /\ r.lost \in Nat /\ gap.tries \in Nat /\ gap.lost \in Nat
      /\ dir.meta.version \in Nat /\ dir.meta.epochSince \in Nat
      /\ r.end \in {"done", "stopped"}
      /\ r.end # "done" => dir'.meta = dir.meta
      /\ dir.meta.version > 0 /\ r.lost = 0 =>
            \E s \in dir'.history : s.version = dir.meta.version /\ s.blob = dir.kdbx
  BY <1>1, WriteLeaves DEF TypeOK, Dirs, Metas
<1>3. CASE r.end = "done"
  <2>1. gap'.tries = 0 /\ ack' = dir'.kdbx
    BY <1>3 DEF Settle, NoGap
  <2>2. WayBack'
    BY <2>1 DEF WayBack
  <2> QED
    BY <1>1, <2>1, <2>2 DEF Promised
<1>4. CASE r.end # "done"
  <2>1. /\ gap'.tries = gap.tries + 1 /\ gap'.lost = gap.lost + r.lost
        /\ ack' = ack
    BY <1>4 DEF Settle
  <2>2. ASSUME gap'.tries <= 1, gap'.lost = 0, ack' # NoBlob
        PROVE  HistoryHolds(ack)'
    <3>1. ack = dir.kdbx /\ r.lost = 0
      BY <1>1, <1>2, <2>1, <2>2 DEF Promised
    <3>2. dir.meta.version > 0
      BY <1>1, <1>2, <2>1, <2>2 DEF Past
    <3>3. PICK s \in dir'.history : s.version = dir.meta.version /\ s.blob = dir.kdbx
      BY <1>2, <3>1, <3>2
    <3>4. ~Stale(dir', s)
      BY <1>1, <1>2, <1>4, <3>3 DEF Past, Stale
    <3> QED
      BY <2>1, <3>1, <3>3, <3>4 DEF HistoryHolds
  <2>3. WayBack'
    BY <2>2 DEF WayBack, HistoryHolds
  <2>4. gap'.tries # 0
    BY <1>2, <2>1
  <2> QED
    BY <1>1, <2>3, <2>4 DEF Promised
<1> QED
  BY <1>3, <1>4

LEMMA TabPromised ==
    ASSUME Sound, Promised, TypeOK', NEW c \in Clients,
           \/ List(c) \/ Fetch(c) \/ Open(c) \/ Overwrite(c)
           \/ SaveVault(c) \/ RestoreHistory(c) \/ DiscardConflict(c) \/ Rotate(c)
    PROVE  Promised'
<1>0. TypeOK /\ Past /\ dir \in Dirs /\ dir.meta.version \in Nat /\ dir.meta.epochSince \in Nat
  BY DEF Sound, TypeOK, Dirs, Metas
<1>1. ASSUME dir'.meta = dir.meta, dir'.kdbx = dir.kdbx, dir'.history = dir.history,
             UNCHANGED <<stage, gap, ack>>
      PROVE  Promised'
  BY <1>1 DEF Promised, WayBack, HistoryHolds, Stale, Unlocked
<1>2. CASE List(c) \/ Fetch(c) \/ Open(c) \/ Overwrite(c)
  BY <1>1, <1>2 DEF List, Fetch, Open, Overwrite
<1>3. CASE SaveVault(c)
  <2> DEFINE blob == UploadBlob(c)
  <2>0. blob \in Blobs /\ "save" \in Kinds /\ FALSE \in BOOLEAN
    BY <1>0, UploadTypes
  <2>1. Unlocked /\ stage' = stage
    BY <1>0, <1>3, SaveVaultDoes DEF Admitted
  <2> HIDE DEF blob
  <2>2. ASSUME NEW r \in Replacements(dir, dir.meta, "save", blob, NextMeta(dir.meta, blob), FALSE),
               dir' = r.dir, Settle(r)
        PROVE  Promised'
    BY <2>0, <2>1, <2>2, WriteKeepsPromise
  <2>3. ASSUME \/ dir' = dir
               \/ dir' = [dir EXCEPT !.conflicts = dir.conflicts \cup {blob}],
               UNCHANGED <<gap, ack>>
        PROVE  Promised'
    <3>1. dir'.meta = dir.meta /\ dir'.history = dir.history /\ dir'.kdbx = dir.kdbx
      BY <1>0, <2>3 DEF Dirs
    <3> QED
      BY <1>1, <2>1, <2>3, <3>1
  <2> QED
    BY <1>0, <1>3, <2>2, <2>3, SaveVaultDoes DEF blob
<1>4. CASE RestoreHistory(c)
  <2>0. "rollback" \in Kinds /\ FALSE \in BOOLEAN
    BY <1>0, UploadTypes
  <2>1. Unlocked /\ stage' = stage
    BY <1>0, <1>4, RestoreDoes DEF Admitted
  <2>2. PICK s \in dir.history : /\ s.blob \in Blobs
                                 /\ \E r \in Replacements(dir, dir.meta, "rollback", s.blob,
                                                NextMeta(dir.meta, s.blob), FALSE) :
                                      dir' = r.dir /\ Settle(r)
    BY <1>0, <1>4, RestoreDoes
  <2> DEFINE blob == s.blob
  <2>3. PICK r \in Replacements(dir, dir.meta, "rollback", blob, NextMeta(dir.meta, blob), FALSE) :
            dir' = r.dir /\ Settle(r)
    BY <2>2
  <2>4. blob \in Blobs
    BY <2>2
  <2> HIDE DEF blob
  <2> QED
    BY <2>0, <2>1, <2>3, <2>4, WriteKeepsPromise
<1>5. CASE DiscardConflict(c)
  <2>1. PICK b \in dir.conflicts : dir' = [dir EXCEPT !.conflicts = dir.conflicts \ {b}]
    BY <1>5 DEF DiscardConflict
  <2>2. dir'.meta = dir.meta /\ dir'.history = dir.history /\ dir'.kdbx = dir.kdbx
    BY <1>0, <2>1 DEF Dirs
  <2> QED
    BY <1>1, <1>5, <2>2 DEF DiscardConflict
<1>6. CASE Rotate(c)
  <2> DEFINE blob == RotatedBlob
  <2>0. blob \in Blobs /\ "save" \in Kinds /\ TRUE \in BOOLEAN
    BY <1>0, UploadTypes
  <2>1. Unlocked
    BY <1>0, <1>6, RotateDoes DEF Admitted
  <2>2. dir.meta.version > 0
    BY <1>0, <1>6, RotateDoes DEF Past
  <2> HIDE DEF blob
  <2>3. PICK r \in Replacements(dir, dir.meta, "save", blob, NextMeta(dir.meta, blob), TRUE) :
          /\ dir' = r.dir
          /\ \/ /\ r.end = "done"
                /\ stage' = [phase |-> "saved", key |-> blob.key, version |-> r.dir.meta.version]
                /\ UNCHANGED <<gap, ack, debts>>
             \/ r.end # "done" /\ Settle(r) /\ stage' = stage
    BY <1>0, <1>6, RotateDoes DEF blob
  <2>4. CASE r.end # "done"
    BY <2>0, <2>1, <2>3, <2>4, WriteKeepsPromise
  <2>5. CASE r.end = "done"
    <3>1. /\ dir'.meta.epochSince = dir.meta.epochSince
          /\ \E s \in dir'.history : s.version = dir.meta.version /\ s.blob = dir.kdbx
      BY <1>0, <2>0, <2>2, <2>3, <2>5, WriteLeaves
    <3>2. stage'.phase = "saved" /\ gap' = gap /\ ack' = ack /\ ~Unlocked'
      BY <2>3, <2>5 DEF Unlocked
    <3>3. gap.tries = 0 => ack = dir.kdbx
      BY <2>1 DEF Promised, Unlocked
    <3>4. PICK s \in dir'.history : s.version = dir.meta.version /\ s.blob = dir.kdbx
      BY <3>1
    <3>5. ~Stale(dir', s)
      BY <1>0, <3>1, <3>4 DEF Past, Stale
    <3>6. gap.tries = 0 => HistoryHolds(ack)'
      BY <3>2, <3>3, <3>4, <3>5 DEF HistoryHolds
    <3> QED
      BY <3>2, <3>6 DEF Promised, WayBack
  <2> QED
    BY <2>4, <2>5
<1> QED
  BY <1>2, <1>3, <1>4, <1>5, <1>6

LEMMA RotationPromised ==
    ASSUME Sound, Promised, TypeOK',
           RotateStops \/ RotateCommit \/ RotateMark \/ RotateClear \/ DieAfterCommit
    PROVE  Promised'
<1>0. /\ TypeOK /\ stage.version \in Nat /\ gap.tries \in Nat /\ NoStage.phase = "idle"
      /\ stage \in [phase : Phases, key : Nat, version : Nat]
      /\ gap \in [tries : Nat, lost : Nat]
  BY DEF Sound, TypeOK, NoStage
<1>1. CASE RotateStops
  <2>1. /\ stage.phase = "saved" /\ stage'.phase = "idle" /\ gap'.tries = gap.tries + 1
        /\ dir' = dir /\ ack' = ack /\ gap'.lost = gap.lost
    BY <1>0, <1>1 DEF RotateStops
  <2>2. ASSUME gap'.tries <= 1 PROVE HistoryHolds(ack)'
    <3>1. HistoryHolds(ack)
      BY <1>0, <2>1, <2>2 DEF Promised
    <3> QED
      BY <2>1, <3>1 DEF HistoryHolds
  <2>3. WayBack'
    BY <2>2 DEF WayBack, HistoryHolds
  <2>4. gap'.tries # 0
    BY <1>0, <2>1
  <2> QED
    BY <2>1, <2>3, <2>4 DEF Promised
<1>2. CASE RotateCommit
  <2>1. stage'.phase = "committed" /\ ack' = dir'.kdbx /\ gap'.tries = 0
    BY <1>0, <1>2 DEF RotateCommit, NoGap
  <2>2. WayBack'
    BY <2>1 DEF WayBack
  <2> QED
    BY <2>1, <2>2 DEF Promised
<1>3. CASE RotateMark \/ RotateClear \/ DieAfterCommit
  <2>1. stage.phase \in {"committed", "marked"} /\ UNCHANGED <<gap, ack>>
    BY <1>3 DEF RotateMark, RotateClear, DieAfterCommit
  <2>2. gap.tries = 0 /\ ack = dir.kdbx
    BY <2>1 DEF Promised
  <2>3. stage'.phase \in {"marked", "idle"}
    BY <1>0, <1>3 DEF RotateMark, RotateClear, DieAfterCommit
  <2>4. dir'.kdbx = dir.kdbx
    <3>1. CASE RotateMark
      <4> DEFINE v == stage.version
      <4>1. v \in Nat /\ (dir' = EpochMarked(dir, v) \/ dir' = dir)
        BY <1>0, <3>1 DEF RotateMark
      <4> HIDE DEF v
      <4> QED
        BY <1>0, <4>1, MarkLeaves
    <3>2. CASE RotateClear
      <4>1. PICK d \in Clearings(dir) : dir' = d
        BY <3>2 DEF RotateClear
      <4> QED
        BY <1>0, <4>1, ClearLeaves
    <3>3. CASE DieAfterCommit
      BY <3>3 DEF DieAfterCommit
    <3> QED
      BY <1>3, <3>1, <3>2, <3>3
  <2>5. WayBack'
    BY <2>1, <2>2, <2>4 DEF WayBack
  <2> QED
    BY <2>1, <2>2, <2>3, <2>4, <2>5 DEF Promised
<1> QED
  BY <1>1, <1>2, <1>3

PromiseInv == Sound /\ Promised

LEMMA InitPromiseInv == Init => PromiseInv
<1> SUFFICES ASSUME Init PROVE PromiseInv
  OBVIOUS
<1>1. stage.phase = "idle" /\ ack = NoBlob /\ dir.kdbx = NoBlob
  BY DEF Init, EmptyDir, NoStage
<1> QED
  BY <1>1, InitSound DEF PromiseInv, Promised, WayBack

LEMMA PromiseInvStep == PromiseInv /\ [Next]_vars => PromiseInv'
<1> SUFFICES ASSUME PromiseInv, [Next]_vars PROVE PromiseInv'
  OBVIOUS
<1>1. Sound /\ Promised /\ Sound' /\ TypeOK'
  BY SoundStep DEF PromiseInv, Sound
<1>2. ASSUME UNCHANGED vars PROVE Promised'
  BY <1>1, <1>2 DEF vars, Promised, WayBack, HistoryHolds, Stale, Unlocked
<1>3. Promised'
  BY <1>1, <1>2, TabPromised, RotationPromised DEF Next
<1> QED
  BY <1>1, <1>3 DEF PromiseInv

(* One interruption of a save, a rollback or a rotation, at any step of    *)
(* it, leaves the promised contents in place or in a snapshot a rollback   *)
(* accepts, unless an archive copy was lost as well.                       *)
THEOREM PromiseKept == Spec => []WayBack
<1>1. PromiseInv => WayBack
  BY DEF PromiseInv, Promised
<1> QED
  BY <1>1, InitPromiseInv, PromiseInvStep, PTL DEF Spec
=============================================================================
