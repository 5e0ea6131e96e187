--------------------------- MODULE VaultStoreProofs ---------------------------
(***************************************************************************)
(* Proofs about VaultStore for any number of clients, uploads and versions, *)
(* whatever writes are interrupted and whichever archive copies fail: its  *)
(* types; that a retired vault key never comes back and the user key stays *)
(* openable (KeyInv); that the epoch marker is never lowered; and that one *)
(* interrupted write leaves a way back, and no upload replaces contents    *)
(* its client has not seen (BaseInv).                                                              *)
(***************************************************************************)
EXTENDS VaultStore, TLAPS

(* What an attempted replacement leaves, read off its four file operations: *)
(* metadata.json moves only when it is done, vault.kdbx is the old file or  *)
(* the new one, and history/ gains at most a copy of the old file under the *)
(* version that was read.                                                   *)
LEMMA ReplacementsLeave ==
    ASSUME NEW d \in Dirs, NEW m \in Metas, NEW next \in Metas, NEW blob \in Blobs,
           NEW kind \in Kinds, NEW must \in BOOLEAN,
           NEW r \in Replacements(d, m, kind, blob, next, must)
    PROVE  /\ r.dir \in Dirs
           /\ r.lost \in Nat
           /\ r.end = "done" => r.dir.meta = next /\ r.dir.kdbx = blob
           /\ r.end # "done" => r.dir.meta = d.meta /\ r.dir.kdbx \in {d.kdbx, blob}
           /\ \A s \in r.dir.history :
                \/ s \in d.history
                \/ m.version > 0 /\ s.version = m.version /\ s.blob = d.kdbx
<1> DEFINE A == Archived(d, m, kind)
           starts == {[dir |-> A, lost |-> 0]} \cup
                     (IF CopyMayFail /\ ~must /\ m.version > 0
                        THEN {[dir |-> d, lost |-> 1]} ELSE {})
           Good(h) == \A s \in h :
                \/ s \in d.history
                \/ m.version > 0 /\ s.version = m.version /\ s.blob = d.kdbx
           Prunings(s) == UNION {Pruned(s.dir.history, c) : c \in Cutoffs(d)}
           Outcomes(s) ==
              { [dir |-> s.dir, end |-> "stopped", lost |-> s.lost],
                [dir |-> [s.dir EXCEPT !.kdbx = blob], end |-> "stopped", lost |-> s.lost] }
              \cup { [dir |-> [s.dir EXCEPT !.kdbx = blob, !.meta = next, !.history = h],
                      end |-> "done", lost |-> s.lost] : h \in Prunings(s) }
<1>1. /\ A \in Dirs
      /\ A.meta = d.meta
      /\ A.kdbx = d.kdbx
      /\ Good(A.history)
  <2>1. CASE m.version = 0
    BY <2>1 DEF Archived
  <2>2. CASE m.version # 0
    <3> DEFINE new == [version |-> m.version, stamp |-> m.stamp, kind |-> kind,
                       at |-> d.clock + 1, blob |-> d.kdbx]
    <3>1. A = [d EXCEPT !.clock = d.clock + 1, !.history = Put(d.history, new)]
      BY <2>2 DEF Archived
    <3>2. new \in Snapshots
      BY DEF Snapshots, Metas, Dirs
    <3>3. Put(d.history, new) \subseteq d.history \cup {new}
      BY DEF Put
    <3>4. m.version > 0
      BY <2>2 DEF Metas
    <3>5. Put(d.history, new) \in SUBSET Snapshots /\ d.clock + 1 \in Nat
      BY <3>2, <3>3 DEF Dirs
    <3>6. A \in Dirs
      BY <3>1, <3>5 DEF Dirs
    <3>7. A.meta = d.meta /\ A.kdbx = d.kdbx /\ A.history = Put(d.history, new)
      BY <3>1 DEF Dirs
    <3>8. new.version = m.version /\ new.blob = d.kdbx
      OBVIOUS
    <3>9. Good(A.history)
      BY <3>3, <3>4, <3>7, <3>8
    <3> QED
      BY <3>6, <3>7, <3>9
  <2> QED
    BY <2>1, <2>2
<1>2. PICK s \in starts : r \in Outcomes(s)
  BY DEF Replacements
<1>3. /\ s.dir \in Dirs
      /\ s.dir.meta = d.meta
      /\ s.dir.kdbx = d.kdbx
      /\ Good(s.dir.history)
      /\ s.lost \in Nat
  <2>1. CASE s = [dir |-> A, lost |-> 0]
    BY <1>1, <2>1
  <2>2. CASE s = [dir |-> d, lost |-> 1]
    BY <2>2
  <2> QED
    BY <2>1, <2>2
<1>4. \A h \in Prunings(s) : h \subseteq s.dir.history
  BY DEF Pruned
<1>5. CASE r = [dir |-> s.dir, end |-> "stopped", lost |-> s.lost]
  BY <1>3, <1>5
<1>6. CASE r = [dir |-> [s.dir EXCEPT !.kdbx = blob], end |-> "stopped", lost |-> s.lost]
  BY <1>3, <1>6 DEF Dirs
<1>7. ASSUME NEW h \in Prunings(s),
             r = [dir |-> [s.dir EXCEPT !.kdbx = blob, !.meta = next, !.history = h],
                  end |-> "done", lost |-> s.lost]
      PROVE  /\ r.dir \in Dirs /\ r.end = "done" /\ r.lost \in Nat
             /\ r.dir.meta = next /\ r.dir.kdbx = blob
             /\ Good(r.dir.history)
  BY <1>3, <1>4, <1>7 DEF Dirs
<1> QED
  BY <1>2, <1>5, <1>6, <1>7

(* Metadata a handler reads or is about to write is well formed. *)
LEMMA NoMetaType == NoMeta(NoEnv) \in Metas
  BY DEF NoMeta, NoEnv, NoUserKey, NoBlob, Metas, Envs, UserKeys, Blobs

LEMMA MetaReadType ==
    ASSUME TypeOK, NEW m \in MetaRead
    PROVE  m \in Metas
<1>1. dir.meta \in Metas
  BY DEF TypeOK, Dirs
<1> QED
  BY <1>1, NoMetaType DEF MetaRead

LEMMA SavedMetaType ==
    ASSUME NEW m \in Metas, NEW blob \in Blobs, NEW wrapped \in BOOLEAN
    PROVE  /\ SavedMeta(m, blob, wrapped) \in Metas
           /\ SavedMeta(m, blob, wrapped).version = m.version + 1
           /\ SavedMeta(m, blob, wrapped).epochSince = m.epochSince
           /\ SavedMeta(m, blob, wrapped).sum = blob
           /\ SavedMeta(m, blob, wrapped).env.userKey = m.env.userKey
           /\ wrapped => /\ SavedMeta(m, blob, wrapped).env.password = blob.key
                         /\ SavedMeta(m, blob, wrapped).env.recovery = m.env.recovery
           /\ ~wrapped => SavedMeta(m, blob, wrapped).env = m.env
  BY DEF SavedMeta, NextMeta, Metas, Envs, Blobs

LEMMA RotatedMetaType ==
    ASSUME NEW m \in Metas, NEW blob \in Blobs
    PROVE  /\ RotatedMeta(m, blob) \in Metas
           /\ RotatedMeta(m, blob).version = m.version + 1
           /\ RotatedMeta(m, blob).epochSince = m.version + 1
           /\ RotatedMeta(m, blob).sum = blob
           /\ RotatedMeta(m, blob).env.password = blob.key
           /\ RotatedMeta(m, blob).env.recovery = blob.key
           /\ RotatedMeta(m, blob).env.userKey.pub # 0 =>
                RotatedMeta(m, blob).env.userKey.wrap = blob.key
  BY DEF RotatedMeta, NextMeta, Metas, Envs, UserKeys, Blobs

LEMMA RestoredMetaType ==
    ASSUME NEW m \in Metas, NEW blob \in Blobs
    PROVE  /\ RestoredMeta(m, blob) \in Metas
           /\ RestoredMeta(m, blob).version = m.version + 1
           /\ RestoredMeta(m, blob).epochSince = m.epochSince
           /\ RestoredMeta(m, blob).sum = blob
           /\ RestoredMeta(m, blob).env = m.env
  BY DEF RestoredMeta, NextMeta, Metas

LEMMA ReplacedUserKeyType ==
    ASSUME NEW uk \in UserKeys, NEW pub \in Nat, NEW wrap \in Nat
    PROVE  /\ ReplacedUserKey(uk, pub, wrap) \in UserKeys
           /\ ReplacedUserKey(uk, pub, wrap).wrap = wrap
<1> DEFINE listed == IF uk.pub = 0 THEN <<>> ELSE Append(uk.prev, uk.pub)
           over == Len(listed) - MaxPrevious
           prev == IF over > 0 THEN SubSeq(listed, over + 1, Len(listed)) ELSE listed
<1>1. listed \in Seq(Nat) /\ over \in Int
  BY VaultStoreAssumption DEF UserKeys
<1>2. prev \in Seq(Nat)
  <2>1. CASE over > 0
    <3> HIDE DEF listed
    <3>1. over + 1 \in Int /\ over + 1 >= 1
      BY <1>1, <2>1
    <3>2. SubSeq(listed, over + 1, Len(listed)) \in Seq(Nat)
      BY <1>1, <3>1, VaultStoreAssumption
    <3> QED
      BY <2>1, <3>2
  <2>2. CASE ~(over > 0)
    BY <1>1, <2>2
  <2> QED
    BY <2>1, <2>2
<1>3. ReplacedUserKey(uk, pub, wrap) = [pub |-> pub, wrap |-> wrap, prev |-> prev]
  BY DEF ReplacedUserKey
<1> HIDE DEF prev
<1> QED
  BY <1>2, <1>3 DEF UserKeys

(* Touch changes metadata.json only, and neither its version nor its epoch. *)
LEMMA TouchLeaves ==
    ASSUME TypeOK, NEW m \in Metas, NEW env \in Envs, Touch(m, env)
    PROVE  /\ dir' \in Dirs
           /\ dir'.meta.version = m.version
           /\ dir'.meta.epochSince = m.epochSince
           /\ dir'.meta.env = env
           /\ dir'.meta.sum = m.sum
           /\ dir'.kdbx = dir.kdbx
           /\ dir'.history = dir.history
           /\ dir'.clock = dir.clock
           /\ UNCHANGED <<uploads, adopted, gap>>
<1>1. PICK stamp \in Stamps(m) : dir' = [dir EXCEPT !.meta =
         [version |-> m.version, stamp |-> stamp, sum |-> m.sum,
          epochSince |-> m.epochSince, env |-> env]]
  BY DEF Touch
<1>2. stamp \in Nat
  BY DEF Stamps, Metas
<1>3. [version |-> m.version, stamp |-> stamp, sum |-> m.sum,
       epochSince |-> m.epochSince, env |-> env] \in Metas
  BY <1>2 DEF Metas
<1> QED
  BY <1>1, <1>3 DEF TypeOK, Dirs, Touch

-----------------------------------------------------------------------------
(* One step keeps the types.  An upload's blob and the metadata it would   *)
(* write are well formed, so what Replacements leaves is.                  *)
LEMMA WriteType ==
    ASSUME TypeOK, NEW c \in Clients, NEW m \in Metas, NEW blob \in Blobs, NEW next \in Metas,
           Write(c, m, blob, next)
    PROVE  /\ dir' \in Dirs
           /\ view' \in [Clients -> Views]
           /\ adopted' \in SUBSET Nat
           /\ gap' \in [tries : Nat, lost : Nat]
<1>1. PICK r \in Replacements(dir, m, "save", blob, next, FALSE) :
        /\ dir' = r.dir
        /\ gap' = Gap(r)
        /\ adopted' = IF r.end = "done" THEN adopted \cup {blob.key} ELSE adopted
        /\ \/ view' = view
           \/ view' = [view EXCEPT ![c] = [version |-> next.version, key |-> blob.key,
                                           blob |-> blob, pub |-> view[c].pub,
                                 proof |-> view[c].proof]]
  BY DEF Write
<1>2. dir \in Dirs /\ "save" \in Kinds /\ FALSE \in BOOLEAN
  BY DEF TypeOK, Kinds
<1>3. r.dir \in Dirs /\ r.lost \in Nat
  BY <1>2, ReplacementsLeave
<1>4. gap' \in [tries : Nat, lost : Nat]
  BY <1>1, <1>3 DEF TypeOK, Gap, NoGap
<1>5. [version |-> next.version, key |-> blob.key, blob |-> blob, pub |-> view[c].pub,
       proof |-> view[c].proof] \in Views
  BY DEF TypeOK, Views, Metas, Blobs
<1>6. view' \in [Clients -> Views]
  BY <1>1, <1>5 DEF TypeOK
<1>7. adopted' \in SUBSET Nat
  BY <1>1 DEF TypeOK, Blobs
<1> QED
  BY <1>1, <1>3, <1>4, <1>6, <1>7

LEMMA WriteLeaves ==
    ASSUME TypeOK, NEW c \in Clients, NEW m \in Metas, NEW blob \in Blobs, NEW next \in Metas,
           Write(c, m, blob, next)
    PROVE  \E done \in {TRUE, FALSE} :
             /\ done => dir'.meta = next /\ dir'.kdbx = blob
             /\ ~done => dir'.meta = dir.meta /\ dir'.kdbx \in {dir.kdbx, blob}
             /\ \A s \in dir'.history :
                  \/ s \in dir.history
                  \/ m.version > 0 /\ s.version = m.version /\ s.blob = dir.kdbx
             /\ done => adopted' = adopted \cup {blob.key}
             /\ ~done => UNCHANGED <<view, adopted>>
             /\ \/ view' = view
                \/ view' = [view EXCEPT ![c] = [version |-> next.version, key |-> blob.key,
                                                blob |-> blob, pub |-> view[c].pub,
                                 proof |-> view[c].proof]]
<1>1. PICK r \in Replacements(dir, m, "save", blob, next, FALSE) :
        /\ dir' = r.dir
        /\ adopted' = IF r.end = "done" THEN adopted \cup {blob.key} ELSE adopted
        /\ \/ view' = view
           \/ /\ r.end = "done"
              /\ view' = [view EXCEPT ![c] = [version |-> next.version, key |-> blob.key,
                                              blob |-> blob, pub |-> view[c].pub,
                                 proof |-> view[c].proof]]
  BY DEF Write
<1>2. dir \in Dirs /\ "save" \in Kinds /\ FALSE \in BOOLEAN
  BY DEF TypeOK, Kinds
<1>3. /\ r.end = "done" => r.dir.meta = next /\ r.dir.kdbx = blob
      /\ r.end # "done" => r.dir.meta = dir.meta /\ r.dir.kdbx \in {dir.kdbx, blob}
      /\ \A s \in r.dir.history :
           \/ s \in dir.history
           \/ m.version > 0 /\ s.version = m.version /\ s.blob = dir.kdbx
  <2>1. \A k \in Kinds, must \in BOOLEAN : \A q \in Replacements(dir, m, k, blob, next, must) :
          /\ q.end = "done" => q.dir.meta = next /\ q.dir.kdbx = blob
          /\ q.end # "done" => q.dir.meta = dir.meta /\ q.dir.kdbx \in {dir.kdbx, blob}
          /\ \A s \in q.dir.history :
               \/ s \in dir.history
               \/ m.version > 0 /\ s.version = m.version /\ s.blob = dir.kdbx
    BY <1>2, ReplacementsLeave
  <2> QED
    BY <1>2, <2>1
<1>4. CASE r.end = "done"
  <2> WITNESS TRUE \in {TRUE, FALSE}
  <2> QED
    BY <1>1, <1>3, <1>4
<1>5. CASE r.end # "done"
  <2> WITNESS FALSE \in {TRUE, FALSE}
  <2> QED
    BY <1>1, <1>3, <1>5
<1> QED
  BY <1>4, <1>5

LEMMA ConflictType ==
    ASSUME TypeOK, NEW blob \in Blobs, Conflict(blob)
    PROVE  /\ dir' \in Dirs
           /\ dir'.meta = dir.meta /\ dir'.kdbx = dir.kdbx /\ dir'.history = dir.history
           /\ dir'.clock = dir.clock
           /\ UNCHANGED <<view, adopted, gap>>
<1>1. \/ dir' = [dir EXCEPT !.conflicts = dir.conflicts \cup {blob}]
      \/ dir' = dir
  BY DEF Conflict, Rejections
<1> QED
  BY <1>1 DEF Conflict, TypeOK, Dirs

LEMMA SaveBlobType ==
    ASSUME TypeOK, NEW c \in Clients
    PROVE  [key |-> IF view[c].key = 0 THEN uploads + 1 ELSE view[c].key, id |-> uploads + 1]
             \in Blobs
  BY DEF TypeOK, Views, Blobs

LEMMA TypeOKStep == TypeOK /\ [Next]_vars => TypeOK'
<1> SUFFICES ASSUME TypeOK, [Next]_vars PROVE TypeOK'
  OBVIOUS
<1>1. ASSUME NEW c \in Clients, Unwrap(c) \/ Open(c) \/ Overwrite(c) \/ Prove(c)
      PROVE  TypeOK'
  <2>0. /\ dir.meta.version \in Nat /\ dir.kdbx \in Blobs /\ dir.meta.sum \in Blobs
        /\ dir.meta.env.password \in Nat /\ dir.meta.env.recovery \in Nat
        /\ dir.meta.env.userKey.pub \in Nat
        /\ NoBlob \in Blobs /\ NoView \in Views
        /\ \A d \in Clients : view[d] \in Views
    BY DEF TypeOK, Dirs, Metas, Envs, UserKeys, Blobs, NoBlob, NoView, Views
  <2>1. UNCHANGED <<dir, uploads, pubs, adopted, gap>>
    BY <1>1 DEF Unwrap, Open, Overwrite, Prove
  <2>2. view' \in [Clients -> Views]
    <3>1. CASE Unwrap(c)
      <4>1. PICK key \in Nat : view' = [view EXCEPT ![c] =
              [version |-> dir.meta.version, key |-> key, blob |-> NoBlob,
               pub |-> dir.meta.env.userKey.pub, proof |-> 0]]
        BY <2>0, <3>1 DEF Unwrap, Views
      <4> QED
        BY <2>0, <4>1 DEF TypeOK, Views
    <3>2. CASE Open(c)
      BY <2>0, <3>2 DEF Open, TypeOK, Views, Held
    <3>3. CASE Overwrite(c)
      BY <2>0, <3>3 DEF Overwrite, TypeOK, Views, Held
    <3>4. CASE Prove(c)
      BY <2>0, <3>4 DEF Prove, TypeOK, Views
    <3> QED
      BY <1>1, <3>1, <3>2, <3>3, <3>4
  <2> QED
    BY <2>1, <2>2 DEF TypeOK
<1>2. ASSUME NEW c \in Clients, SaveVault(c) PROVE TypeOK'
  <2> DEFINE blob == [key |-> IF view[c].key = 0 THEN uploads + 1 ELSE view[c].key,
                      id |-> uploads + 1]
  <2>1. blob \in Blobs
    BY SaveBlobType
  <2> HIDE DEF blob
  <2>2. PICK m \in MetaRead :
           \/ Write(c, m, blob, SavedMeta(m, blob, view[c].key = 0))
           \/ Conflict(blob)
    BY <1>2 DEF SaveVault, blob
  <2>3. m \in Metas
    BY MetaReadType
  <2>4. uploads' \in Nat /\ pubs' \in Nat
    BY <1>2 DEF SaveVault, TypeOK
  <2>5. ASSUME Write(c, m, blob, SavedMeta(m, blob, view[c].key = 0)) PROVE TypeOK'
    <3> DEFINE next == SavedMeta(m, blob, view[c].key = 0)
    <3>1. next \in Metas
      <4>1. \A w \in BOOLEAN : SavedMeta(m, blob, w) \in Metas
        BY <2>1, <2>3, SavedMetaType
      <4> QED
        BY <4>1
    <3> HIDE DEF next
    <3>2. Write(c, m, blob, next)
      BY <2>5 DEF next
    <3> QED
      BY <2>1, <2>3, <2>4, <3>1, <3>2, WriteType DEF TypeOK
  <2>6. ASSUME Conflict(blob) PROVE TypeOK'
    BY <2>1, <2>4, <2>6, ConflictType DEF TypeOK
  <2> QED
    BY <2>2, <2>5, <2>6
<1>3. ASSUME NEW c \in Clients, RotateVault(c) PROVE TypeOK'
  <2> DEFINE blob == [key |-> uploads + 1, id |-> uploads + 1]
  <2>1. blob \in Blobs
    BY DEF TypeOK, Blobs
  <2> HIDE DEF blob
  <2>2. PICK m \in MetaRead : Write(c, m, blob, RotatedMeta(m, blob)) \/ Conflict(blob)
    BY <1>3 DEF RotateVault, blob
  <2>3. m \in Metas
    BY MetaReadType
  <2>4. uploads' \in Nat /\ pubs' \in Nat
    BY <1>3 DEF RotateVault, TypeOK
  <2>5. ASSUME Write(c, m, blob, RotatedMeta(m, blob)) PROVE TypeOK'
    BY <2>1, <2>3, <2>4, <2>5, WriteType, RotatedMetaType DEF TypeOK
  <2>6. ASSUME Conflict(blob) PROVE TypeOK'
    BY <2>1, <2>4, <2>6, ConflictType DEF TypeOK
  <2> QED
    BY <2>2, <2>5, <2>6
<1>4. ASSUME NEW c \in Clients, SaveEnvelopes(c) PROVE TypeOK'
  <2> DEFINE env(m, field) ==
        [password |-> IF field = "password" THEN view[c].key ELSE m.env.password,
         recovery |-> IF field = "recovery" THEN view[c].key ELSE m.env.recovery,
         userKey |-> m.env.userKey]
  <2>1. /\ \/ \E m \in MetaRead : \E field \in {"password", "recovery"} : Touch(m, env(m, field))
           \/ UNCHANGED <<dir, uploads, adopted, gap>>
        /\ view' = [view EXCEPT ![c].proof = 0] /\ UNCHANGED pubs
    BY <1>4 DEF SaveEnvelopes
  <2>2. ASSUME NEW m \in MetaRead, NEW field \in {"password", "recovery"} PROVE env(m, field) \in Envs
    BY MetaReadType DEF TypeOK, Views, Metas, Envs
  <2>3. view' \in [Clients -> Views]
    BY <2>1 DEF TypeOK, Views
  <2> HIDE DEF env
  <2>4. ASSUME NEW m \in MetaRead, NEW field \in {"password", "recovery"}, Touch(m, env(m, field))
        PROVE  TypeOK'
    <3>1. m \in Metas /\ env(m, field) \in Envs
      BY <2>2, MetaReadType
    <3> QED
      BY <2>1, <2>3, <2>4, <3>1, TouchLeaves DEF TypeOK
  <2>5. ASSUME UNCHANGED <<dir, uploads, adopted, gap>> PROVE TypeOK'
    BY <2>1, <2>3, <2>5 DEF TypeOK
  <2> QED
    BY <2>1, <2>4, <2>5
<1>5. ASSUME NEW c \in Clients, NEW createOnly \in BOOLEAN, SaveUserKey(c, createOnly)
      PROVE TypeOK'
  <2>1. PICK m \in MetaRead :
           Touch(m, [password |-> m.env.password, recovery |-> m.env.recovery,
                     userKey |-> ReplacedUserKey(m.env.userKey, pubs + 1, view[c].key)])
    BY <1>5 DEF SaveUserKey
  <2>2. m \in Metas
    BY MetaReadType
  <2>3. [password |-> m.env.password, recovery |-> m.env.recovery,
         userKey |-> ReplacedUserKey(m.env.userKey, pubs + 1, view[c].key)] \in Envs
    <3>1. m.env \in Envs /\ m.env.userKey \in UserKeys
      BY <2>2 DEF Metas, Envs
    <3>2. pubs + 1 \in Nat /\ view[c].key \in Nat
      BY DEF TypeOK, Views
    <3>3. ReplacedUserKey(m.env.userKey, pubs + 1, view[c].key) \in UserKeys
      BY <3>1, <3>2, ReplacedUserKeyType
    <3> QED
      BY <3>1, <3>3 DEF Envs
  <2>4. view' \in [Clients -> Views] /\ pubs' \in Nat
    <3>1. PICK proof \in Nat :
            view' = [view EXCEPT ![c] = Held(c, view[c].version, view[c].blob, pubs + 1, proof)]
      BY <1>5 DEF SaveUserKey, TypeOK, Views
    <3>2. Held(c, view[c].version, view[c].blob, pubs + 1, proof) \in Views
      BY DEF TypeOK, Views, Held
    <3> QED
      BY <1>5, <3>1, <3>2 DEF SaveUserKey, TypeOK
  <2> QED
    BY <2>1, <2>2, <2>3, <2>4, TouchLeaves DEF TypeOK
<1>6. ASSUME TouchDevices PROVE TypeOK'
  <2>1. PICK m \in MetaRead : Touch(m, m.env)
    BY <1>6 DEF TouchDevices
  <2>2. m \in Metas /\ m.env \in Envs
    BY MetaReadType DEF Metas
  <2> QED
    BY <1>6, <2>1, <2>2, TouchLeaves DEF TouchDevices, TypeOK
<1>7. ASSUME RestoreHistory PROVE TypeOK'
  <2>a. PICK s \in dir.history, m \in MetaRead :
           \E r \in Replacements(dir, m, "rollback", s.blob, RestoredMeta(m, s.blob), FALSE) :
              dir' = r.dir /\ gap' = Gap(r)
    BY <1>7 DEF RestoreHistory
  <2>1. PICK r \in Replacements(dir, m, "rollback", s.blob, RestoredMeta(m, s.blob), FALSE) :
           dir' = r.dir /\ gap' = Gap(r)
    BY <2>a
  <2>2. dir \in Dirs /\ m \in Metas /\ s.blob \in Blobs /\ "rollback" \in Kinds
    BY MetaReadType DEF TypeOK, Dirs, Snapshots, Kinds
  <2>3. r.dir \in Dirs /\ r.lost \in Nat
    BY <2>2, RestoredMetaType, ReplacementsLeave
  <2>4. gap' \in [tries : Nat, lost : Nat]
    BY <2>1, <2>3 DEF TypeOK, Gap, NoGap
  <2> QED
    BY <1>7, <2>1, <2>3, <2>4 DEF RestoreHistory, TypeOK
<1>8. ASSUME DiscardConflict PROVE TypeOK'
  BY <1>8 DEF DiscardConflict, TypeOK, Dirs
<1>9. ASSUME UNCHANGED vars PROVE TypeOK'
  BY <1>9 DEF vars, TypeOK
<1> QED
  BY <1>1, <1>2, <1>3, <1>4, <1>5, <1>6, <1>7, <1>8, <1>9 DEF Next

(* Every reachable state is well formed, whichever reads and copies fail.  *)
THEOREM TypeCorrect == Spec => []TypeOK
<1>1. Init => TypeOK
  <2>1. NoView \in Views /\ NoGap \in [tries : Nat, lost : Nat] /\ NoBlob \in Blobs
    BY DEF NoView, Views, NoBlob, Blobs, NoGap
  <2>2. EmptyDir(NoEnv) \in Dirs
    BY <2>1, NoMetaType DEF EmptyDir, Dirs
  <2> QED
    BY <2>1, <2>2 DEF Init, TypeOK
<1> QED
  BY <1>1, TypeOKStep, PTL DEF Spec

-----------------------------------------------------------------------------
(* RetiredKeyStaysOut and UserKeyOpens.  Both need metadata.json to be     *)
(* read when it is there: a handler that goes on with an empty record      *)
(* writes it back over the real one.                                       *)

(* A replacement that stopped half way changes no key the envelopes open:  *)
(* the file it may leave is under the current key or under a key nothing   *)
(* adopted, and the copy it archived was the current file.                 *)
LEMMA StoppedKeepsKeys ==
    ASSUME TypeOK, KeyInv, TypeOK',
           NEW b \in Blobs,
           uploads' >= uploads, b.key <= uploads',
           b.key \in adopted => Unlocks(b.key),
           dir'.meta = dir.meta,
           dir'.kdbx \in {dir.kdbx, b},
           \A s \in dir'.history : \/ s \in dir.history
                                  \/ /\ dir.meta.version > 0
                                     /\ s.version = dir.meta.version
                                     /\ s.blob = dir.kdbx,
           UNCHANGED <<view, adopted>>
    PROVE  KeyInv'
<1> USE DEF KeyInv
<1>0. /\ dir.meta.version \in Nat /\ dir.meta.epochSince \in Nat
      /\ uploads \in Nat /\ uploads' \in Nat
      /\ dir.kdbx.key \in Nat /\ b.key \in Nat
      /\ \A s \in dir.history : s.blob.key \in Nat /\ s.version \in Nat
      /\ \A k \in adopted : k \in Nat
  BY DEF TypeOK, Dirs, Metas, Blobs, Snapshots
<1>1. RetiredKeyStaysOut'
  BY <1>0 DEF RetiredKeyStaysOut, Stale, Unlocks
<1>2. UserKeyOpens'
  BY DEF UserKeyOpens
<1>3. ViewsKnowTheKey'
  BY DEF ViewsKnowTheKey, Holds, Opened
<1>4. KeysAreFresh'
  BY <1>0 DEF KeysAreFresh
<1>5. SnapshotsArePast'
  BY <1>0 DEF SnapshotsArePast
<1>6. EnvelopesAgree'
  BY DEF EnvelopesAgree, Unlocks
<1> QED
  BY <1>1, <1>2, <1>3, <1>4, <1>5, <1>6

(* A completed replacement moves the version by one, so every client but   *)
(* the one it answered is behind.                                          *)
LEMMA MovedViews ==
    ASSUME TypeOK, KeyInv, TypeOK', NEW c \in Clients, NEW b \in Blobs,
           dir'.meta.version = dir.meta.version + 1,
           adopted' = adopted \cup {b.key}, b.key # 0,
           b.key = dir'.meta.env.password,
           \/ view' = view
           \/ view' = [view EXCEPT ![c] = [version |-> dir'.meta.version, key |-> b.key,
                                           blob |-> b, pub |-> view[c].pub,
                                           proof |-> view[c].proof]]
    PROVE  ViewsKnowTheKey'
<1>1. /\ dir.meta.version \in Nat
      /\ \A d \in Clients : /\ view[d].version \in Nat /\ view[d].proof \in Nat
                            /\ Holds(view[d].version, view[d].key)
                            /\ view[d].proof <= dir.meta.version
                            /\ Opened(d) => view[d].key # 0
                            /\ view[d].proof # 0 => view[d].key # 0
  BY DEF TypeOK, Dirs, Metas, Views, KeyInv, ViewsKnowTheKey
<1>2. ASSUME NEW d \in Clients, view'[d] = view[d]
      PROVE  /\ Holds(view[d].version, view[d].key)'
             /\ view'[d].proof <= dir'.meta.version
             /\ Opened(d)' => view'[d].key # 0
             /\ view'[d].proof # 0 => view'[d].key # 0
             /\ dir'.meta.version \notin {view'[d].version, view'[d].proof}
  BY <1>1, <1>2 DEF Holds, Opened
<1>3. ASSUME view' = [view EXCEPT ![c] = [version |-> dir'.meta.version, key |-> b.key,
                                          blob |-> b, pub |-> view[c].pub,
                                          proof |-> view[c].proof]]
      PROVE  /\ view'[c].version = dir'.meta.version
             /\ view'[c].key = b.key
             /\ view'[c].blob = b
             /\ view'[c].proof = view[c].proof
             /\ \A d \in Clients : d # c => view'[d] = view[d]
  BY <1>3 DEF TypeOK
<1>4. CASE view' = view
  BY <1>2, <1>4 DEF ViewsKnowTheKey
<1>5. CASE view' # view
  <2>1. \A d \in Clients : d # c => view'[d] = view[d]
    BY <1>3, <1>5
  <2>3. /\ Holds(view[c].version, view[c].key)'
        /\ view'[c].proof <= dir'.meta.version
        /\ view'[c].key = dir'.meta.env.password
        /\ view'[c].key # 0
    BY <1>1, <1>3, <1>5 DEF Holds
  <2> QED
    BY <1>2, <2>1, <2>3 DEF ViewsKnowTheKey
<1> QED
  BY <1>4, <1>5

(* With a readable metadata.json a handler works on the real one. *)
LEMMA ReadsTheRealOne ==
    ASSUME ~ReadMayFail, NEW m \in MetaRead PROVE m = dir.meta
  BY DEF MetaRead

(* A write of metadata.json alone keeps the invariant when the envelopes it *)
(* leaves hold the current key and it wraps the user key under that key.   *)
LEMMA TouchKeepsKeys ==
    ASSUME TypeOK, KeyInv, TypeOK', NEW env \in Envs, Touch(dir.meta, env),
           env.password = dir.meta.env.password,
           env.recovery \in {dir.meta.env.recovery, env.password},
           dir.meta.version = 0 => env.recovery = 0 /\ env.userKey.pub = 0,
           env.userKey.pub # 0 => \/ env.userKey = dir.meta.env.userKey
                                  \/ env.userKey.wrap = env.password,
           \A c \in Clients : /\ view'[c].version = view[c].version
                              /\ view'[c].key = view[c].key
                              /\ view'[c].blob = view[c].blob
                              /\ view'[c].proof \in {0, view[c].proof}
    PROVE  KeyInv'
<1> USE DEF KeyInv
<1>1. /\ dir'.meta.version = dir.meta.version
      /\ dir'.meta.epochSince = dir.meta.epochSince
      /\ dir'.meta.env = env
      /\ dir'.kdbx = dir.kdbx
      /\ dir'.history = dir.history
      /\ UNCHANGED <<uploads, adopted, gap>>
  <2>1. dir.meta \in Metas
    BY DEF TypeOK, Dirs
  <2> QED
    BY <2>1, TouchLeaves
<1>2. \A key : Unlocks(key) => Unlocks(key)'
  BY <1>1 DEF Unlocks
<1>3. RetiredKeyStaysOut'
  BY <1>1, <1>2 DEF RetiredKeyStaysOut, Stale
<1>4. UserKeyOpens'
  BY <1>1 DEF UserKeyOpens
<1>5. ViewsKnowTheKey'
  <2>1. dir.meta.version \in Nat /\ \A c \in Clients : view[c].proof \in Nat
    BY DEF TypeOK, Dirs, Metas, Views
  <2>2. ASSUME NEW c \in Clients
        PROVE  /\ Holds(view[c].version, view[c].key)'
               /\ view'[c].proof <= dir'.meta.version
               /\ Opened(c)' => view'[c].key # 0
               /\ view'[c].proof # 0 => view'[c].key # 0
    BY <1>1, <2>1 DEF ViewsKnowTheKey, Holds, Opened
  <2>3. ASSUME NEW c \in Clients,
               \/ Opened(c)' /\ view'[c].version = dir'.meta.version
               \/ view'[c].proof # 0 /\ view'[c].proof = dir'.meta.version
        PROVE  view'[c].key = dir'.meta.env.password
    BY <1>1, <2>3 DEF ViewsKnowTheKey, Opened
  <2> QED
    BY <2>2, <2>3 DEF ViewsKnowTheKey
<1>6. KeysAreFresh'
  BY <1>1 DEF KeysAreFresh
<1>7. EnvelopesAgree'
  BY <1>1, <1>2 DEF EnvelopesAgree
<1>8. SnapshotsArePast'
  BY <1>1 DEF SnapshotsArePast
<1> QED
  BY <1>3, <1>4, <1>5, <1>6, <1>7, <1>8

(* A refused upload leaves everything the invariant speaks of alone. *)
LEMMA ConflictKeepsKeys ==
    ASSUME TypeOK, KeyInv, NEW blob \in Blobs, Conflict(blob), uploads' = uploads + 1
    PROVE  KeyInv'
<1> USE DEF KeyInv
<1>1. /\ dir'.meta = dir.meta /\ dir'.kdbx = dir.kdbx /\ dir'.history = dir.history
      /\ UNCHANGED <<view, adopted, gap>>
  BY ConflictType
<1>2. /\ uploads \in Nat /\ dir.kdbx.key \in Nat
      /\ \A s \in dir.history : s.blob.key \in Nat
      /\ \A k \in adopted : k \in Nat
  BY DEF TypeOK, Dirs, Blobs, Snapshots
<1>3. ViewsKnowTheKey' /\ EnvelopesAgree' /\ RetiredKeyStaysOut' /\ UserKeyOpens'
  BY <1>1 DEF ViewsKnowTheKey, EnvelopesAgree, RetiredKeyStaysOut, UserKeyOpens,
              Stale, Unlocks, Holds, Opened
<1>4. KeysAreFresh' /\ SnapshotsArePast'
  BY <1>1, <1>2 DEF KeysAreFresh, SnapshotsArePast
<1> QED
  BY <1>3, <1>4

LEMMA KeyInvStep ==
    ASSUME ~ReadMayFail, TypeOK, KeyInv, [Next]_vars PROVE KeyInv'
<1> USE DEF KeyInv
<1>0. /\ TypeOK'
      /\ dir \in Dirs /\ dir.meta \in Metas /\ dir.meta.env \in Envs
      /\ dir.meta.version \in Nat /\ dir.meta.epochSince \in Nat /\ uploads \in Nat
      /\ dir.kdbx.key \in Nat
      /\ \A s \in dir.history : s.blob \in Blobs /\ s.blob.key \in Nat /\ s.version \in Nat
      /\ \A k \in adopted : k \in Nat
      /\ "save" \in Kinds /\ "rollback" \in Kinds /\ FALSE \in BOOLEAN
  BY TypeOKStep DEF TypeOK, Dirs, Metas, Blobs, Snapshots, Kinds
<1>1. ASSUME NEW c \in Clients, Unwrap(c) \/ Open(c) \/ Overwrite(c) \/ Prove(c)
      PROVE  KeyInv'
  <2>1. UNCHANGED <<dir, uploads, adopted>>
    BY <1>1 DEF Unwrap, Open, Overwrite, Prove
  <2>2. /\ RetiredKeyStaysOut' /\ UserKeyOpens' /\ KeysAreFresh' /\ EnvelopesAgree'
        /\ SnapshotsArePast'
    BY <2>1 DEF RetiredKeyStaysOut, UserKeyOpens, KeysAreFresh, EnvelopesAgree, Stale, Unlocks,
                SnapshotsArePast
  <2>3. /\ Holds(view[c].version, view[c].key)
        /\ view[c].proof <= dir.meta.version
        /\ Opened(c) => view[c].key # 0
        /\ view[c].proof # 0 => view[c].key # 0
        /\ view[c].version \in Nat /\ view[c].proof \in Nat /\ view[c].key \in Nat
        /\ 0 \notin adopted
    BY DEF ViewsKnowTheKey, TypeOK, Views, KeysAreFresh
  <2>4. ASSUME NEW v \in Views, view' = [view EXCEPT ![c] = v],
               Holds(v.version, v.key), v.proof <= dir.meta.version,
               v.blob # NoBlob => v.key # 0,
               v.proof # 0 => v.key # 0,
               v.blob # NoBlob /\ v.version = dir.meta.version => v.key = dir.meta.env.password,
               v.proof # 0 /\ v.proof = dir.meta.version => v.key = dir.meta.env.password
        PROVE  ViewsKnowTheKey'
    <3>1. view'[c] = v /\ \A d \in Clients : d # c => view'[d] = view[d]
      BY <2>4 DEF TypeOK
    <3> QED
      BY <2>1, <2>4, <3>1 DEF ViewsKnowTheKey, Holds, Opened
  <2>5. ViewsKnowTheKey'
    <3>1. CASE Unwrap(c)
      <4>1. PICK key \in {dir.meta.env.password, dir.meta.env.recovery, view[c].key} \ {0} :
              view' = [view EXCEPT ![c] =
                [version |-> dir.meta.version, key |-> key, blob |-> NoBlob,
                 pub |-> dir.meta.env.userKey.pub, proof |-> 0]]
        BY <3>1 DEF Unwrap
      <4>2. dir.meta.version > 0 /\ key # 0
        BY <3>1, <4>1 DEF Unwrap
      <4>3. key \in adopted /\ key \in Nat
        BY <1>0, <2>3, <4>1, <4>2 DEF EnvelopesAgree, Unlocks, Holds
      <4> DEFINE v == [version |-> dir.meta.version, key |-> key, blob |-> NoBlob,
                       pub |-> dir.meta.env.userKey.pub, proof |-> 0]
      <4>4. v \in Views
        BY <1>0, <4>3 DEF Views, Envs, UserKeys, NoBlob, Blobs
      <4>5. Holds(v.version, v.key)
        BY <1>0, <4>2, <4>3 DEF Holds
      <4>6. /\ view' = [view EXCEPT ![c] = v] /\ v.blob = NoBlob /\ v.proof = 0
        BY <4>1
      <4>7. v.proof <= dir.meta.version
        BY <1>0, <4>6
      <4> HIDE DEF v
      <4> QED
        BY <2>4, <4>4, <4>5, <4>6, <4>7
    <3>2. CASE Open(c)
      <4>1. view[c].key # 0
        BY <3>2 DEF Open
      <4>2. CASE dir.kdbx.key = view[c].key
        <5>1. PICK version \in {view[c].version, dir.meta.version} :
                view' = [view EXCEPT ![c] =
                           Held(c, version, dir.kdbx, view[c].pub, view[c].proof)]
          BY <3>2, <4>2 DEF Open
        <5> DEFINE v == [version |-> version, key |-> view[c].key, blob |-> dir.kdbx,
                         pub |-> view[c].pub, proof |-> view[c].proof]
        <5>2. view' = [view EXCEPT ![c] = v]
          BY <5>1 DEF Held
        <5>3. view[c].key \in adopted /\ view[c].key = dir.meta.env.password
          BY <2>3, <4>1, <4>2 DEF Holds, RetiredKeyStaysOut, Unlocks
        <5>4. dir.meta.version > 0
          BY <1>0, <5>3 DEF SnapshotsArePast
        <5>5. v \in Views /\ Holds(v.version, v.key)
          BY <1>0, <2>3, <4>1, <5>1, <5>3, <5>4 DEF TypeOK, Views, Dirs, Holds
        <5>6. v.key = view[c].key /\ v.proof = view[c].proof
          OBVIOUS
        <5> HIDE DEF v
        <5> QED
          BY <1>0, <2>3, <2>4, <4>1, <5>2, <5>3, <5>5, <5>6
      <4>3. CASE dir.kdbx.key # view[c].key
        <5>1. view' = [view EXCEPT ![c] = NoView]
          BY <3>2, <4>3 DEF Open
        <5>2. NoView \in Views /\ Holds(NoView.version, NoView.key)
          BY <1>0 DEF NoView, Views, NoBlob, Blobs, Holds
        <5>3. NoView.blob = NoBlob /\ NoView.proof = 0 /\ 0 <= dir.meta.version
          BY <1>0 DEF NoView
        <5> QED
          BY <2>4, <5>1, <5>2, <5>3
      <4> QED
        BY <4>2, <4>3
    <3>3. CASE Overwrite(c)
      <4> DEFINE v == [version |-> dir.meta.version, key |-> view[c].key, blob |-> dir.meta.sum,
                       pub |-> view[c].pub, proof |-> view[c].proof]
      <4>1. /\ Opened(c) /\ dir.meta.version > view[c].version
            /\ dir.meta.env.password = view[c].key
            /\ view' = [view EXCEPT ![c] = v]
        BY <3>3 DEF Overwrite, Held
      <4>3. v \in Views /\ Holds(v.version, v.key)
        BY <1>0, <2>3, <4>1 DEF TypeOK, Views, Metas, Holds
      <4>4. v.key = dir.meta.env.password /\ v.key # 0 /\ v.proof <= dir.meta.version
        BY <2>3, <4>1
      <4> HIDE DEF v
      <4> QED
        BY <2>4, <4>1, <4>3, <4>4
    <3>4. CASE Prove(c)
      <4> DEFINE v == [version |-> view[c].version, key |-> view[c].key, blob |-> view[c].blob,
                       pub |-> view[c].pub, proof |-> dir.meta.version]
      <4>1. /\ Opened(c)
            /\ view[c].key \in {dir.meta.env.password, dir.meta.env.recovery}
            /\ view' = [view EXCEPT ![c].proof = dir.meta.version]
        BY <3>4 DEF Prove
      <4>2. view' = [view EXCEPT ![c] = v]
        <5>1. [view[c] EXCEPT !.proof = dir.meta.version] = v
          BY DEF TypeOK, Views
        <5>2. view' = [view EXCEPT ![c] = [view[c] EXCEPT !.proof = dir.meta.version]]
          BY <4>1
        <5> QED
          BY <5>1, <5>2
      <4>3. view[c].key # 0 /\ dir.meta.version > 0 /\ view[c].key = dir.meta.env.password
        BY <1>0, <2>3, <4>1 DEF Holds, SnapshotsArePast, EnvelopesAgree, Unlocks
      <4>4. v \in Views /\ Holds(v.version, v.key)
        BY <1>0, <2>3 DEF TypeOK, Views
      <4>5. v.key = dir.meta.env.password /\ v.key # 0 /\ v.proof <= dir.meta.version
        BY <1>0, <4>3
      <4> HIDE DEF v
      <4> QED
        BY <2>4, <4>2, <4>4, <4>5
    <3> QED
      BY <1>1, <3>1, <3>2, <3>3, <3>4
  <2> QED
    BY <2>2, <2>5
<1>2. ASSUME NEW c \in Clients, SaveVault(c) PROVE KeyInv'
  <2> DEFINE b == [key |-> IF view[c].key = 0 THEN uploads + 1 ELSE view[c].key,
                   id |-> uploads + 1]
             next == SavedMeta(dir.meta, b, view[c].key = 0)
  <2>1. b \in Blobs /\ uploads' = uploads + 1
    BY <1>2, SaveBlobType DEF SaveVault
  <2>2. b.key = IF view[c].key = 0 THEN uploads + 1 ELSE view[c].key
    OBVIOUS
  <2>3. /\ view[c].key = 0 \/ Opened(c)
        /\ \/ view[c].version = dir.meta.version /\ Write(c, dir.meta, b, next)
           \/ Conflict(b)
    BY <1>2, ReadsTheRealOne DEF SaveVault, Current
  <2> HIDE DEF b
  <2>4. /\ view[c].key \in Nat /\ view[c].version \in Nat
        /\ view[c].key = 0 <=> view[c].version = 0
        /\ view[c].key # 0 => view[c].key \in adopted
    BY DEF TypeOK, Views, ViewsKnowTheKey, Holds
  <2>5. b.key <= uploads' /\ b.key # 0 /\ b.key \in Nat
    BY <1>0, <2>1, <2>2, <2>4 DEF KeysAreFresh
  <2>6. ASSUME view[c].version = dir.meta.version, Write(c, dir.meta, b, next)
        PROVE  KeyInv'
    <3>1. view[c].key # 0 => b.key \in adopted /\ b.key = dir.meta.env.password
      BY <2>2, <2>3, <2>4, <2>6 DEF ViewsKnowTheKey
    <3>2. view[c].key # 0 => Unlocks(b.key)
      BY <1>0, <2>4, <2>6, <3>1 DEF EnvelopesAgree, Unlocks
    <3>3. view[c].key = 0 =>
            /\ dir.meta.version = 0 /\ b.key \notin adopted
            /\ dir.history = {} /\ adopted = {} /\ dir.meta.env.recovery = 0
      BY <2>4, <2>6 DEF SnapshotsArePast
    <3>4. /\ next \in Metas
          /\ next.version = dir.meta.version + 1
          /\ next.epochSince = dir.meta.epochSince
          /\ next.env.userKey = dir.meta.env.userKey
          /\ next.env.recovery = dir.meta.env.recovery
          /\ view[c].key = 0 => next.env.password = b.key
          /\ view[c].key # 0 => next.env = dir.meta.env
      <4>1. \A w \in BOOLEAN :
              /\ SavedMeta(dir.meta, b, w) \in Metas
              /\ SavedMeta(dir.meta, b, w).version = dir.meta.version + 1
              /\ SavedMeta(dir.meta, b, w).epochSince = dir.meta.epochSince
              /\ SavedMeta(dir.meta, b, w).env.userKey = dir.meta.env.userKey
              /\ w => /\ SavedMeta(dir.meta, b, w).env.password = b.key
                      /\ SavedMeta(dir.meta, b, w).env.recovery = dir.meta.env.recovery
              /\ ~w => SavedMeta(dir.meta, b, w).env = dir.meta.env
        BY <1>0, <2>1, SavedMetaType
      <4>2. CASE view[c].key = 0
        BY <4>1, <4>2
      <4>3. CASE view[c].key # 0
        BY <4>1, <4>3
      <4> QED
        BY <4>2, <4>3
    <3> HIDE DEF next
    <3>5. PICK done \in {TRUE, FALSE} :
            /\ done => dir'.meta = next /\ dir'.kdbx = b
            /\ ~done => dir'.meta = dir.meta /\ dir'.kdbx \in {dir.kdbx, b}
            /\ \A s \in dir'.history :
                 \/ s \in dir.history
                 \/ dir.meta.version > 0 /\ s.version = dir.meta.version /\ s.blob = dir.kdbx
            /\ done => adopted' = adopted \cup {b.key}
            /\ ~done => UNCHANGED <<view, adopted>>
            /\ \/ view' = view
               \/ view' = [view EXCEPT ![c] = [version |-> next.version, key |-> b.key,
                                               blob |-> b, pub |-> view[c].pub,
                                               proof |-> view[c].proof]]
      BY <1>0, <2>1, <2>6, <3>4, WriteLeaves
    <3>6. CASE ~done
      BY <1>0, <2>1, <2>5, <3>2, <3>3, <3>5, <3>6, StoppedKeepsKeys
    <3>7. CASE done
      <4>1. dir'.meta = next /\ dir'.kdbx = b /\ adopted' = adopted \cup {b.key}
        BY <3>5, <3>7
      <4>2. dir'.meta.env.password = b.key /\ dir'.meta.env.recovery \in {0, b.key}
        BY <3>1, <3>2, <3>3, <3>4, <4>1 DEF Unlocks
      <4>3. RetiredKeyStaysOut'
        <5>1. CASE view[c].key = 0
          BY <3>3, <3>5, <4>1, <4>2, <5>1 DEF RetiredKeyStaysOut, Unlocks
        <5>2. CASE view[c].key # 0
          <6>1. /\ adopted' = adopted
                /\ dir'.meta.env = dir.meta.env
                /\ dir'.meta.epochSince = dir.meta.epochSince
            BY <3>1, <3>4, <4>1, <5>2
          <6>2. \A s \in dir'.history : ~Stale(dir', s) /\ s.blob.key \in adopted => Unlocks(s.blob.key)
            BY <3>5, <6>1 DEF RetiredKeyStaysOut, Stale
          <6> QED
            BY <4>1, <4>2, <6>1, <6>2 DEF RetiredKeyStaysOut, Unlocks
        <5> QED
          BY <5>1, <5>2
      <4>4. UserKeyOpens'
        BY <3>1, <3>3, <3>4, <4>1, <4>2 DEF UserKeyOpens, SnapshotsArePast
      <4>5. ViewsKnowTheKey'
        BY <1>0, <2>1, <2>5, <3>4, <3>5, <4>1, <4>2, MovedViews
      <4>6. KeysAreFresh'
        BY <1>0, <2>1, <2>5, <3>5, <4>1 DEF KeysAreFresh
      <4>7. EnvelopesAgree'
        BY <4>1, <4>2 DEF EnvelopesAgree, Unlocks
      <4>8. SnapshotsArePast'
        BY <1>0, <3>4, <3>5, <4>1 DEF SnapshotsArePast
      <4> QED
        BY <4>3, <4>4, <4>5, <4>6, <4>7, <4>8
    <3> QED
      BY <3>6, <3>7
  <2> HIDE DEF next
  <2>7. ASSUME Conflict(b) PROVE KeyInv'
    BY <1>0, <2>1, <2>7, ConflictKeepsKeys
  <2> QED
    BY <2>3, <2>6, <2>7
<1>3. ASSUME NEW c \in Clients, RotateVault(c) PROVE KeyInv'
  <2> DEFINE b == [key |-> uploads + 1, id |-> uploads + 1]
             next == RotatedMeta(dir.meta, b)
  <2>1. b \in Blobs /\ b.key = uploads + 1 /\ uploads' = uploads + 1
    BY <1>0, <1>3 DEF RotateVault, Blobs
  <2>2. Write(c, dir.meta, b, next) \/ Conflict(b)
    BY <1>3, ReadsTheRealOne DEF RotateVault
  <2> HIDE DEF b
  <2>3. /\ next \in Metas
        /\ next.version = dir.meta.version + 1
        /\ next.epochSince = dir.meta.version + 1
        /\ next.env.password = b.key /\ next.env.recovery = b.key
        /\ next.env.userKey.pub # 0 => next.env.userKey.wrap = b.key
    BY <1>0, <2>1, RotatedMetaType
  <2> HIDE DEF next
  <2>4. b.key \notin adopted /\ b.key # 0 /\ b.key <= uploads'
    BY <1>0, <2>1 DEF KeysAreFresh
  <2>5. ASSUME Write(c, dir.meta, b, next) PROVE KeyInv'
    <3>1. PICK done \in {TRUE, FALSE} :
            /\ done => dir'.meta = next /\ dir'.kdbx = b
            /\ ~done => dir'.meta = dir.meta /\ dir'.kdbx \in {dir.kdbx, b}
            /\ \A s \in dir'.history :
                 \/ s \in dir.history
                 \/ dir.meta.version > 0 /\ s.version = dir.meta.version /\ s.blob = dir.kdbx
            /\ done => adopted' = adopted \cup {b.key}
            /\ ~done => UNCHANGED <<view, adopted>>
            /\ \/ view' = view
               \/ view' = [view EXCEPT ![c] = [version |-> next.version, key |-> b.key,
                                               blob |-> b, pub |-> view[c].pub,
                                proof |-> view[c].proof]]
      BY <1>0, <2>1, <2>3, <2>5, WriteLeaves
    <3>2. CASE ~done
      BY <1>0, <2>1, <2>4, <3>1, <3>2, StoppedKeepsKeys
    <3>3. CASE done
      <4>1. dir'.meta = next /\ dir'.kdbx = b /\ adopted' = adopted \cup {b.key}
        BY <3>1, <3>3
      <4>2. \A s \in dir'.history : s.version \in Nat /\ s.version <= dir.meta.version
        BY <1>0, <3>1 DEF SnapshotsArePast
      <4>3. \A s \in dir'.history : Stale(dir', s)
        BY <1>0, <2>3, <4>1, <4>2 DEF Stale
      <4>4. RetiredKeyStaysOut'
        BY <2>3, <4>1, <4>3 DEF RetiredKeyStaysOut, Unlocks
      <4>5. UserKeyOpens'
        BY <2>3, <4>1 DEF UserKeyOpens
      <4>6. ViewsKnowTheKey'
        BY <1>0, <2>1, <2>3, <2>4, <3>1, <4>1, MovedViews
      <4>7. KeysAreFresh'
        BY <1>0, <2>1, <2>4, <3>1, <4>1 DEF KeysAreFresh
      <4>8. EnvelopesAgree'
        BY <2>3, <4>1 DEF EnvelopesAgree, Unlocks
      <4>9. SnapshotsArePast'
        BY <1>0, <2>3, <4>1, <4>2 DEF SnapshotsArePast
      <4> QED
        BY <4>4, <4>5, <4>6, <4>7, <4>8, <4>9
    <3> QED
      BY <3>2, <3>3
  <2>6. ASSUME Conflict(b) PROVE KeyInv'
    BY <1>0, <2>1, <2>6, ConflictKeepsKeys
  <2> QED
    BY <2>2, <2>5, <2>6
<1>4. ASSUME NEW c \in Clients, SaveEnvelopes(c) PROVE KeyInv'
  <2> DEFINE env(field) ==
        [password |-> IF field = "password" THEN view[c].key ELSE dir.meta.env.password,
         recovery |-> IF field = "recovery" THEN view[c].key ELSE dir.meta.env.recovery,
         userKey |-> dir.meta.env.userKey]
  <2>1. /\ view[c].proof # 0
        /\ \/ /\ view[c].proof = dir.meta.version
              /\ \E field \in {"password", "recovery"} : Touch(dir.meta, env(field))
           \/ UNCHANGED <<dir, uploads, adopted, gap>>
        /\ view' = [view EXCEPT ![c].proof = 0]
    BY <1>4, ReadsTheRealOne DEF SaveEnvelopes, Current
  <2>2. \A d \in Clients : /\ view'[d].version = view[d].version
                           /\ view'[d].key = view[d].key
                           /\ view'[d].blob = view[d].blob
                           /\ view'[d].proof \in {0, view[d].proof}
    BY <2>1 DEF TypeOK, Views
  <2>3. ASSUME view[c].proof = dir.meta.version, NEW field \in {"password", "recovery"},
               Touch(dir.meta, env(field))
        PROVE  KeyInv'
    <3>1. view[c].key = dir.meta.env.password /\ dir.meta.version # 0
      BY <2>1, <2>3 DEF ViewsKnowTheKey
    <3>2. /\ env(field) \in Envs
          /\ env(field).password = dir.meta.env.password
          /\ env(field).recovery \in {dir.meta.env.recovery, env(field).password}
          /\ env(field).userKey = dir.meta.env.userKey
      BY <1>0, <3>1 DEF Envs
    <3> HIDE DEF env
    <3> QED
      BY <1>0, <2>2, <2>3, <3>1, <3>2, TouchKeepsKeys
  <2>4. ASSUME UNCHANGED <<dir, uploads, adopted, gap>> PROVE KeyInv'
    <3>1. ViewsKnowTheKey'
      BY <1>0, <2>2, <2>4 DEF ViewsKnowTheKey, Holds, Opened
    <3> QED
      BY <2>4, <3>1 DEF RetiredKeyStaysOut, UserKeyOpens, KeysAreFresh, EnvelopesAgree,
                        SnapshotsArePast, Stale, Unlocks
  <2> QED
    BY <2>1, <2>3, <2>4
<1>5. ASSUME NEW c \in Clients, NEW createOnly \in BOOLEAN, SaveUserKey(c, createOnly)
      PROVE KeyInv'
  <2> DEFINE uk == ReplacedUserKey(dir.meta.env.userKey, pubs + 1, view[c].key)
             env == [password |-> dir.meta.env.password, recovery |-> dir.meta.env.recovery,
                     userKey |-> uk]
  <2>1. /\ Opened(c)
        /\ \/ view[c].version = dir.meta.version /\ view[c].version # 0
           \/ view[c].proof = dir.meta.version /\ view[c].proof # 0
        /\ Touch(dir.meta, env)
    BY <1>5, ReadsTheRealOne DEF SaveUserKey, UserKeyAdmits, Current
  <2>2. \A d \in Clients : /\ view'[d].version = view[d].version
                           /\ view'[d].key = view[d].key
                           /\ view'[d].blob = view[d].blob
                           /\ view'[d].proof \in {0, view[d].proof}
    <3>1. view' = [view EXCEPT ![c] = Held(c, view[c].version, view[c].blob, pubs + 1,
                                           IF createOnly THEN view[c].proof ELSE 0)]
      BY <1>5 DEF SaveUserKey
    <3> QED
      BY <3>1 DEF TypeOK, Views, Held
  <2>3. uk \in UserKeys /\ uk.wrap = view[c].key
    <3>1. dir.meta.env.userKey \in UserKeys
      BY <1>0 DEF Envs
    <3>2. pubs + 1 \in Nat /\ view[c].key \in Nat
      BY DEF TypeOK, Views
    <3> HIDE DEF KeyInv
    <3> QED
      BY <3>1, <3>2, ReplacedUserKeyType
  <2> HIDE DEF uk
  <2>4. env \in Envs
    BY <1>0, <2>3 DEF Envs
  <2>5. env.userKey.wrap = env.password /\ dir.meta.version # 0
    BY <2>1, <2>3 DEF ViewsKnowTheKey
  <2>6. env.password = dir.meta.env.password /\ env.recovery = dir.meta.env.recovery
    OBVIOUS
  <2> HIDE DEF env
  <2> QED
    BY <1>0, <2>1, <2>2, <2>4, <2>5, <2>6, TouchKeepsKeys
<1>6. ASSUME TouchDevices PROVE KeyInv'
  <2>1. Touch(dir.meta, dir.meta.env) /\ UNCHANGED view
    BY <1>6, ReadsTheRealOne DEF TouchDevices
  <2>2. dir.meta.version = 0 => dir.meta.env.recovery = 0 /\ dir.meta.env.userKey.pub = 0
    BY DEF SnapshotsArePast
  <2> QED
    BY <1>0, <2>1, <2>2, TouchKeepsKeys
<1>7. ASSUME RestoreHistory PROVE KeyInv'
  <2>1. PICK s \in dir.history :
          /\ ~Stale(dir, s)
          /\ \E r \in Replacements(dir, dir.meta, "rollback", s.blob,
                                   RestoredMeta(dir.meta, s.blob), FALSE) : dir' = r.dir
          /\ UNCHANGED <<view, uploads, adopted>>
    <3>1. PICK s \in dir.history, m \in MetaRead :
            /\ Restorable(m, s)
            /\ \E r \in Replacements(dir, m, "rollback", s.blob,
                                     RestoredMeta(m, s.blob), FALSE) : dir' = r.dir
            /\ UNCHANGED <<view, uploads, adopted>>
      BY <1>7 DEF RestoreHistory
    <3>2. m = dir.meta
      BY ReadsTheRealOne
    <3>3. ~Stale(dir, s)
      BY <1>0, <3>1, <3>2 DEF Restorable, Stale
    <3> QED
      BY <3>1, <3>2, <3>3
  <2> DEFINE next == RestoredMeta(dir.meta, s.blob)
  <2>2. /\ s.blob \in Blobs /\ next \in Metas
        /\ next.version = dir.meta.version + 1
        /\ next.epochSince = dir.meta.epochSince
        /\ next.env = dir.meta.env
    BY <1>0, RestoredMetaType
  <2> HIDE DEF next
  <2>3. PICK r \in Replacements(dir, dir.meta, "rollback", s.blob, next, FALSE) : dir' = r.dir
    BY <2>1 DEF next
  <2>4. \A k \in Kinds, must \in BOOLEAN :
          \A q \in Replacements(dir, dir.meta, k, s.blob, next, must) :
            /\ q.end = "done" => q.dir.meta = next /\ q.dir.kdbx = s.blob
            /\ q.end # "done" => q.dir.meta = dir.meta /\ q.dir.kdbx \in {dir.kdbx, s.blob}
            /\ \A t \in q.dir.history :
                 \/ t \in dir.history
                 \/ dir.meta.version > 0 /\ t.version = dir.meta.version /\ t.blob = dir.kdbx
    BY <1>0, <2>2, ReplacementsLeave
  <2>5. /\ r.end = "done" => dir'.meta = next /\ dir'.kdbx = s.blob
        /\ r.end # "done" => dir'.meta = dir.meta /\ dir'.kdbx \in {dir.kdbx, s.blob}
        /\ \A t \in dir'.history :
             \/ t \in dir.history
             \/ dir.meta.version > 0 /\ t.version = dir.meta.version /\ t.blob = dir.kdbx
    BY <1>0, <2>3, <2>4
  <2>6. s.blob.key \in adopted => Unlocks(s.blob.key)
    BY <2>1 DEF RetiredKeyStaysOut
  <2>7. s.blob.key <= uploads /\ dir.meta.version > 0 /\ uploads' = uploads
    BY <1>0, <2>1 DEF KeysAreFresh, SnapshotsArePast
  <2>8. CASE r.end # "done"
    BY <1>0, <2>1, <2>2, <2>5, <2>6, <2>7, <2>8, StoppedKeepsKeys
  <2>9. CASE r.end = "done"
    <3>1. dir'.meta = next /\ dir'.kdbx = s.blob /\ UNCHANGED <<view, uploads, adopted>>
      BY <2>1, <2>5, <2>9
    <3>2. RetiredKeyStaysOut'
      BY <1>0, <2>2, <2>5, <2>6, <3>1 DEF RetiredKeyStaysOut, Stale, Unlocks
    <3>3. UserKeyOpens'
      BY <2>2, <3>1 DEF UserKeyOpens
    <3>4. ViewsKnowTheKey'
      BY <1>0, <2>2, <3>1 DEF ViewsKnowTheKey, TypeOK, Views, Holds, Opened
    <3>5. KeysAreFresh'
      BY <2>5, <2>7, <3>1 DEF KeysAreFresh
    <3>6. EnvelopesAgree'
      BY <2>2, <2>7, <3>1 DEF EnvelopesAgree, Unlocks
    <3>7. SnapshotsArePast'
      BY <1>0, <2>2, <2>5, <3>1 DEF SnapshotsArePast
    <3> QED
      BY <3>2, <3>3, <3>4, <3>5, <3>6, <3>7
  <2> QED
    BY <2>8, <2>9
<1>8. ASSUME DiscardConflict PROVE KeyInv'
  <2>1. /\ dir'.meta = dir.meta /\ dir'.kdbx = dir.kdbx /\ dir'.history = dir.history
        /\ UNCHANGED <<view, uploads, adopted>>
    BY <1>0, <1>8 DEF DiscardConflict, Dirs
  <2> QED
    BY <2>1 DEF RetiredKeyStaysOut, UserKeyOpens, ViewsKnowTheKey, KeysAreFresh,
                EnvelopesAgree, SnapshotsArePast, Stale, Unlocks, Holds, Opened
<1>9. ASSUME UNCHANGED vars PROVE KeyInv'
  BY <1>9 DEF vars, RetiredKeyStaysOut, UserKeyOpens, ViewsKnowTheKey, KeysAreFresh,
              EnvelopesAgree, SnapshotsArePast, Stale, Unlocks, Holds, Opened
<1> QED
  BY <1>1, <1>2, <1>3, <1>4, <1>5, <1>6, <1>7, <1>8, <1>9 DEF Next

LEMMA KeyInvInit == Init => KeyInv
<1> SUFFICES ASSUME Init PROVE KeyInv
  OBVIOUS
<1>1. /\ dir = EmptyDir(NoEnv) /\ view = [c \in Clients |-> NoView]
      /\ uploads = 0 /\ adopted = {}
  BY DEF Init
<1>2. /\ dir.meta.version = 0 /\ dir.meta.epochSince = 0
      /\ dir.kdbx.key = 0 /\ dir.history = {} /\ dir.meta.env.recovery = 0
      /\ dir.meta.env.userKey.pub = 0
  BY <1>1 DEF EmptyDir, NoMeta, NoEnv, NoUserKey, NoBlob
<1>3. \A c \in Clients : /\ view[c].version = 0 /\ view[c].key = 0
                         /\ view[c].proof = 0 /\ view[c].blob = NoBlob
  BY <1>1 DEF NoView
<1> QED
  BY <1>1, <1>2, <1>3 DEF KeyInv, RetiredKeyStaysOut, UserKeyOpens, ViewsKnowTheKey,
                          KeysAreFresh, EnvelopesAgree, SnapshotsArePast, Holds, Opened

LEMMA KeysInvariant ==
    ASSUME ~ReadMayFail PROVE Spec => []KeyInv
<1>1. TypeOK /\ KeyInv /\ [Next]_vars => KeyInv'
  BY KeyInvStep
<1> QED
  BY <1>1, KeyInvInit, TypeCorrect, PTL DEF Spec

(* Uploads, rotations, envelope writes, user key replacements and          *)
(* rollbacks, in any order and interrupted anywhere, never leave a file or *)
(* an unflagged snapshot under a vault key that was replaced.              *)
THEOREM RetiredKeySafe ==
    ASSUME ~ReadMayFail PROVE Spec => []RetiredKeyStaysOut
<1>1. KeyInv => RetiredKeyStaysOut
  BY DEF KeyInv
<1> QED
  BY <1>1, KeysInvariant, PTL

(* The published user key's seed stays wrapped under the vault key the     *)
(* stored envelopes open.                                                  *)
THEOREM UserKeySafe ==
    ASSUME ~ReadMayFail PROVE Spec => []UserKeyOpens
<1>1. KeyInv => UserKeyOpens
  BY DEF KeyInv
<1> QED
  BY <1>1, KeysInvariant, PTL

-----------------------------------------------------------------------------
(* MarkerNeverLowered: every write carries the marker and the version it    *)
(* read, a rotation moves the marker past all earlier versions.            *)
NeverLowered ==
    /\ dir'.meta.epochSince >= dir.meta.epochSince
    /\ dir'.meta.version >= dir.meta.version

(* An upload or a rollback writes one version up and no lower marker, or   *)
(* leaves metadata.json alone.                                             *)
LEMMA WriteRaises ==
    ASSUME TypeOK, NEW c \in Clients, NEW blob \in Blobs, NEW next \in Metas,
           Write(c, dir.meta, blob, next),
           next.version >= dir.meta.version, next.epochSince >= dir.meta.epochSince
    PROVE  NeverLowered
<1>0. dir.meta \in Metas
  BY DEF TypeOK, Dirs
<1>1. PICK done \in {TRUE, FALSE} :
        /\ done => dir'.meta = next
        /\ ~done => dir'.meta = dir.meta
  <2>1. \E done \in {TRUE, FALSE} :
          /\ done => dir'.meta = next /\ dir'.kdbx = blob
          /\ ~done => dir'.meta = dir.meta /\ dir'.kdbx \in {dir.kdbx, blob}
    BY <1>0, WriteLeaves
  <2> QED
    BY <2>1
<1> QED
  BY <1>0, <1>1 DEF NeverLowered, Metas

LEMMA TouchRaises ==
    ASSUME TypeOK, NEW env, Touch(dir.meta, env) PROVE NeverLowered
<1>1. dir.meta.version \in Nat /\ dir.meta.epochSince \in Nat
  BY DEF TypeOK, Dirs, Metas
<1>2. /\ dir'.meta.version = dir.meta.version
      /\ dir'.meta.epochSince = dir.meta.epochSince
  BY DEF Touch, TypeOK, Dirs
<1> QED
  BY <1>1, <1>2 DEF NeverLowered

LEMMA MarkerStep ==
    ASSUME ~ReadMayFail, TypeOK, KeyInv, [Next]_vars PROVE NeverLowered
<1>0. /\ dir.meta \in Metas /\ uploads \in Nat
      /\ dir.meta.version \in Nat /\ dir.meta.epochSince \in Nat
      /\ dir.meta.epochSince <= dir.meta.version
  BY DEF TypeOK, Dirs, Metas, KeyInv, SnapshotsArePast
<1>1. ASSUME dir'.meta = dir.meta PROVE NeverLowered
  BY <1>0, <1>1 DEF NeverLowered
<1>2. ASSUME NEW blob \in Blobs, Conflict(blob) PROVE NeverLowered
  BY <1>1, <1>2, ConflictType
<1>3. ASSUME NEW c \in Clients, SaveVault(c) PROVE NeverLowered
  <2> DEFINE b == [key |-> IF view[c].key = 0 THEN uploads + 1 ELSE view[c].key,
                   id |-> uploads + 1]
             next == SavedMeta(dir.meta, b, view[c].key = 0)
  <2>1. b \in Blobs
    BY SaveBlobType
  <2>2. Write(c, dir.meta, b, next) \/ Conflict(b)
    BY <1>3, ReadsTheRealOne DEF SaveVault
  <2> HIDE DEF b
  <2>3. /\ next \in Metas
        /\ next.version = dir.meta.version + 1
        /\ next.epochSince = dir.meta.epochSince
    <3>1. \A w \in BOOLEAN : /\ SavedMeta(dir.meta, b, w) \in Metas
                             /\ SavedMeta(dir.meta, b, w).version = dir.meta.version + 1
                             /\ SavedMeta(dir.meta, b, w).epochSince = dir.meta.epochSince
      BY <1>0, <2>1, SavedMetaType
    <3> QED
      BY <3>1
  <2> HIDE DEF next
  <2>4. next.version >= dir.meta.version /\ next.epochSince >= dir.meta.epochSince
    BY <1>0, <2>3
  <2> QED
    BY <1>2, <2>1, <2>2, <2>3, <2>4, WriteRaises
<1>4. ASSUME NEW c \in Clients, RotateVault(c) PROVE NeverLowered
  <2> DEFINE b == [key |-> uploads + 1, id |-> uploads + 1]
             next == RotatedMeta(dir.meta, b)
  <2>1. b \in Blobs
    BY <1>0 DEF Blobs
  <2>2. Write(c, dir.meta, b, next) \/ Conflict(b)
    BY <1>4, ReadsTheRealOne DEF RotateVault
  <2> HIDE DEF b
  <2>3. /\ next \in Metas
        /\ next.version = dir.meta.version + 1
        /\ next.epochSince = dir.meta.version + 1
    BY <1>0, <2>1, RotatedMetaType
  <2> HIDE DEF next
  <2>4. next.version >= dir.meta.version /\ next.epochSince >= dir.meta.epochSince
    BY <1>0, <2>3
  <2> QED
    BY <1>2, <2>1, <2>2, <2>3, <2>4, WriteRaises
<1>5. ASSUME NEW c \in Clients, SaveEnvelopes(c) PROVE NeverLowered
  <2>1. (\E env : Touch(dir.meta, env)) \/ UNCHANGED <<dir, uploads, adopted, gap>>
    BY <1>5, ReadsTheRealOne DEF SaveEnvelopes
  <2> QED
    BY <1>1, <2>1, TouchRaises
<1>6. ASSUME NEW c \in Clients, NEW createOnly \in BOOLEAN, SaveUserKey(c, createOnly)
      PROVE NeverLowered
  <2>1. \E env : Touch(dir.meta, env)
    BY <1>6, ReadsTheRealOne DEF SaveUserKey
  <2> QED
    BY <2>1, TouchRaises
<1>7. ASSUME TouchDevices PROVE NeverLowered
  <2>1. \E env : Touch(dir.meta, env)
    BY <1>7, ReadsTheRealOne DEF TouchDevices
  <2> QED
    BY <2>1, TouchRaises
<1>8. ASSUME RestoreHistory PROVE NeverLowered
  <2>1. PICK s \in dir.history, m \in MetaRead :
          \E r \in Replacements(dir, m, "rollback", s.blob, RestoredMeta(m, s.blob), FALSE) :
             dir' = r.dir
    BY <1>8 DEF RestoreHistory
  <2>2. m = dir.meta /\ dir \in Dirs /\ s.blob \in Blobs
    BY ReadsTheRealOne DEF TypeOK, Dirs, Snapshots
  <2> DEFINE next == RestoredMeta(dir.meta, s.blob)
  <2>3. /\ next \in Metas
        /\ next.version = dir.meta.version + 1
        /\ next.epochSince = dir.meta.epochSince
    BY <1>0, <2>2, RestoredMetaType
  <2>4. \E r \in Replacements(dir, dir.meta, "rollback", s.blob, next, FALSE) : dir' = r.dir
    BY <2>1, <2>2
  <2> HIDE DEF next
  <2>5. \A kind \in Kinds, must \in BOOLEAN :
          \A r \in Replacements(dir, dir.meta, kind, s.blob, next, must) :
            \/ r.dir.meta = next
            \/ r.dir.meta = dir.meta
    BY <1>0, <2>2, <2>3, ReplacementsLeave
  <2>6. dir'.meta = next \/ dir'.meta = dir.meta
    BY <2>4, <2>5 DEF Kinds
  <2> QED
    BY <1>0, <1>1, <2>3, <2>6 DEF NeverLowered
<1>9. ASSUME DiscardConflict PROVE NeverLowered
  <2>1. dir'.meta = dir.meta
    BY <1>9 DEF DiscardConflict, TypeOK, Dirs
  <2> QED
    BY <1>1, <2>1
<1>10. ASSUME NEW c \in Clients, Unwrap(c) \/ Open(c) \/ Overwrite(c) \/ Prove(c)
       PROVE  NeverLowered
  BY <1>1, <1>10 DEF Unwrap, Open, Overwrite, Prove
<1>11. ASSUME UNCHANGED vars PROVE NeverLowered
  BY <1>1, <1>11 DEF vars
<1> QED
  BY <1>3, <1>4, <1>5, <1>6, <1>7, <1>8, <1>9, <1>10, <1>11 DEF Next

(* With metadata.json readable, no write path lowers the epoch marker or   *)
(* the version its readers compare against, not even one that stops half   *)
(* way.                                                                    *)
THEOREM MarkerSafe ==
    ASSUME ~ReadMayFail PROVE Spec => MarkerNeverLowered
<1>1. TypeOK /\ KeyInv /\ [Next]_vars => NeverLowered
  BY MarkerStep
<1>2. NeverLowered => [/\ dir'.meta.epochSince >= dir.meta.epochSince
                       /\ dir'.meta.version >= dir.meta.version]_vars
  BY DEF NeverLowered
<1> QED
  BY <1>1, <1>2, TypeCorrect, KeysInvariant, PTL DEF Spec, MarkerNeverLowered

-----------------------------------------------------------------------------
(* One interrupted write: InterruptionRecoverable and NoBlindOverwrite.    *)
(* The checksum metadata.json carries is that of vault.kdbx until a write  *)
(* is interrupted, so a client at the current version holds the one or,    *)
(* having opened it since, what the interruption left.                     *)
BaseInv ==
    /\ \A s \in dir.history : s.at <= dir.clock
    /\ dir.meta.version = 0 => dir.meta.sum = NoBlob
    /\ dir.meta.version > 0 /\ gap.tries = 0 => dir.kdbx = dir.meta.sum
    /\ InterruptionRecoverable
    /\ gap.tries <= 1 =>
         \A c \in Clients : Opened(c) /\ view[c].version = dir.meta.version =>
            view[c].blob \in {dir.kdbx, dir.meta.sum}

(* The archive copy is the first file operation and newer than every other *)
(* snapshot; the pruning is the last, so a write that stopped before it    *)
(* leaves the copy the newest.                                             *)
LEMMA ArchiveIsNewest ==
    ASSUME NEW d \in Dirs, NEW next \in Metas, NEW blob \in Blobs, NEW kind \in Kinds,
           NEW must \in BOOLEAN, \A s \in d.history : s.at <= d.clock,
           NEW r \in Replacements(d, d.meta, kind, blob, next, must)
    PROVE  /\ \A s \in r.dir.history : s.at <= r.dir.clock
           /\ r.end # "done" /\ r.lost = 0 /\ d.meta.version > 0 =>
                \E s \in Newest(r.dir.history) : s.version = d.meta.version /\ s.blob = d.kdbx
<1> DEFINE m == d.meta
           A == Archived(d, m, kind)
           new == [version |-> m.version, stamp |-> m.stamp, kind |-> kind,
                   at |-> d.clock + 1, blob |-> d.kdbx]
           starts == {[dir |-> A, lost |-> 0]} \cup
                     (IF CopyMayFail /\ ~must /\ m.version > 0
                        THEN {[dir |-> d, lost |-> 1]} ELSE {})
           Dated(h, clock) == \A s \in h : s.at <= clock
           Archives(h) == m.version > 0 =>
                \E s \in Newest(h) : s.version = m.version /\ s.blob = d.kdbx
           Prunings(s) == UNION {Pruned(s.dir.history, c) : c \in Cutoffs(d)}
           Outcomes(s) ==
              { [dir |-> s.dir, end |-> "stopped", lost |-> s.lost],
                [dir |-> [s.dir EXCEPT !.kdbx = blob], end |-> "stopped", lost |-> s.lost] }
              \cup { [dir |-> [s.dir EXCEPT !.kdbx = blob, !.meta = next, !.history = h],
                      end |-> "done", lost |-> s.lost] : h \in Prunings(s) }
<1>0. /\ m.version \in Nat /\ d.clock \in Nat
      /\ \A s \in d.history : s.at \in Nat
  BY DEF Dirs, Metas, Snapshots
<1>1. /\ Dated(A.history, A.clock) /\ Archives(A.history)
      /\ A = [A EXCEPT !.kdbx = d.kdbx]
      /\ DOMAIN A = {"meta", "kdbx", "history", "conflicts", "clock"}
  <2>1. CASE m.version = 0
    BY <1>0, <2>1 DEF Archived, Dirs
  <2>2. CASE m.version # 0
    <3>1. A = [d EXCEPT !.clock = d.clock + 1, !.history = Put(d.history, new)]
      BY <2>2 DEF Archived
    <3>2. new \in Put(d.history, new) /\ Put(d.history, new) \subseteq d.history \cup {new}
      BY DEF Put
    <3>3. new.version = m.version /\ new.blob = d.kdbx /\ new.at = d.clock + 1
      OBVIOUS
    <3> HIDE DEF new
    <3>4. A.clock = d.clock + 1 /\ A.history = Put(d.history, new)
      BY <3>1 DEF Dirs
    <3>5. \A s \in A.history : s.at <= new.at
      BY <1>0, <3>2, <3>3, <3>4
    <3>6. new \in Newest(A.history)
      BY <3>2, <3>4, <3>5 DEF Newest
    <3>7. /\ A = [A EXCEPT !.kdbx = d.kdbx]
          /\ DOMAIN A = {"meta", "kdbx", "history", "conflicts", "clock"}
      BY <3>1 DEF Dirs
    <3> QED
      BY <3>3, <3>4, <3>5, <3>6, <3>7
  <2> QED
    BY <2>1, <2>2
<1>2. PICK s \in starts : r \in Outcomes(s)
  BY DEF Replacements
<1>3. /\ Dated(s.dir.history, s.dir.clock)
      /\ s.lost = 0 => Archives(s.dir.history)
      /\ DOMAIN s.dir = {"meta", "kdbx", "history", "conflicts", "clock"}
      /\ s.dir = [s.dir EXCEPT !.kdbx = d.kdbx]
  <2>1. CASE s = [dir |-> A, lost |-> 0]
    BY <1>1, <2>1
  <2>2. CASE s = [dir |-> d, lost |-> 1]
    BY <2>2 DEF Dirs
  <2> QED
    BY <2>1, <2>2
<1>4. \A h \in Prunings(s) : h \subseteq s.dir.history
  BY DEF Pruned
<1> HIDE DEF A, new, starts, Archives, Prunings
<1>5. CASE r = [dir |-> s.dir, end |-> "stopped", lost |-> s.lost]
  BY <1>3, <1>5 DEF Archives
<1>6. CASE r = [dir |-> [s.dir EXCEPT !.kdbx = blob], end |-> "stopped", lost |-> s.lost]
  <2>1. r.dir.history = s.dir.history /\ r.dir.clock = s.dir.clock /\ r.lost = s.lost
    BY <1>3, <1>6
  <2> QED
    BY <1>3, <2>1 DEF Archives
<1>7. ASSUME NEW h \in Prunings(s),
             r = [dir |-> [s.dir EXCEPT !.kdbx = blob, !.meta = next, !.history = h],
                  end |-> "done", lost |-> s.lost]
      PROVE  r.end = "done" /\ \A t \in r.dir.history : t.at <= r.dir.clock
  <2>1. r.dir.history = h /\ r.dir.clock = s.dir.clock /\ r.end = "done"
    BY <1>3, <1>7
  <2> QED
    BY <1>3, <1>4, <2>1
<1> QED
  BY <1>2, <1>5, <1>6, <1>7

(* An upload or a rollback, answered for or stopped. *)
LEMMA ReplacedKeepsBase ==
    ASSUME TypeOK, KeyInv, BaseInv, NEW blob \in Blobs, NEW next \in Metas, NEW kind \in Kinds,
           NEW r \in Replacements(dir, dir.meta, kind, blob, next, FALSE),
           next.version = dir.meta.version + 1, next.sum = blob,
           dir' = r.dir, gap' = Gap(r),
           \A c \in Clients : \/ view'[c] = view[c]
                              \/ r.end = "done" /\ view'[c].blob = blob
    PROVE  BaseInv'
<1>0. /\ dir \in Dirs /\ dir.meta \in Metas /\ FALSE \in BOOLEAN
      /\ dir.meta.version \in Nat /\ dir.meta.epochSince \in Nat
      /\ gap.tries \in Nat /\ gap.lost \in Nat
      /\ \A c \in Clients : view[c].version \in Nat
  BY DEF TypeOK, Dirs, Metas, Views
<1>1. /\ r.dir \in Dirs /\ r.lost \in Nat
      /\ r.end = "done" => dir'.meta = next /\ dir'.kdbx = blob
      /\ r.end # "done" => dir'.meta = dir.meta /\ dir'.kdbx \in {dir.kdbx, blob}
  <2>1. \A must \in BOOLEAN : \A q \in Replacements(dir, dir.meta, kind, blob, next, must) :
          /\ q.dir \in Dirs /\ q.lost \in Nat
          /\ q.end = "done" => q.dir.meta = next /\ q.dir.kdbx = blob
          /\ q.end # "done" => q.dir.meta = dir.meta /\ q.dir.kdbx \in {dir.kdbx, blob}
    BY <1>0, ReplacementsLeave
  <2> QED
    BY <1>0, <2>1
<1>2. /\ \A s \in dir'.history : s.at <= dir'.clock
      /\ r.end # "done" /\ r.lost = 0 /\ dir.meta.version > 0 =>
            \E s \in Newest(dir'.history) : s.version = dir.meta.version /\ s.blob = dir.kdbx
  <2>1. \A s \in dir.history : s.at <= dir.clock
    BY DEF BaseInv
  <2>2. \A must \in BOOLEAN : \A q \in Replacements(dir, dir.meta, kind, blob, next, must) :
          /\ \A s \in q.dir.history : s.at <= q.dir.clock
          /\ q.end # "done" /\ q.lost = 0 /\ dir.meta.version > 0 =>
               \E s \in Newest(q.dir.history) : s.version = dir.meta.version /\ s.blob = dir.kdbx
    BY <1>0, <2>1, ArchiveIsNewest
  <2> QED
    BY <1>0, <2>2
<1>3. /\ dir.meta.epochSince <= dir.meta.version
      /\ \A c \in Clients : /\ view[c].version <= dir.meta.version
                            /\ Opened(c) => view[c].version # 0
  BY DEF KeyInv, SnapshotsArePast, ViewsKnowTheKey, Holds
<1>4. CASE r.end = "done"
  <2>1. /\ dir'.meta.version = dir.meta.version + 1 /\ dir'.meta.sum = blob /\ dir'.kdbx = blob
        /\ gap'.tries = 0
    BY <1>1, <1>4 DEF Gap, NoGap
  <2>2. ASSUME NEW c \in Clients, Opened(c)', view'[c].version = dir'.meta.version
        PROVE  view'[c].blob \in {dir'.kdbx, dir'.meta.sum}
    BY <1>0, <1>3, <2>1, <2>2
  <2>3. InterruptionRecoverable'
    BY <2>1 DEF InterruptionRecoverable
  <2> QED
    BY <1>0, <1>2, <2>1, <2>2, <2>3 DEF BaseInv
<1>5. CASE r.end # "done"
  <2>1. /\ dir'.meta = dir.meta /\ gap'.tries = gap.tries + 1 /\ gap'.lost = gap.lost + r.lost
        /\ \A c \in Clients : view'[c] = view[c]
    BY <1>1, <1>5 DEF Gap
  <2>2. gap'.tries # 0 /\ (gap'.tries <= 1 => gap.tries = 0) /\ (gap'.lost = 0 => r.lost = 0)
    BY <1>0, <1>1, <2>1
  <2>3. ASSUME gap'.tries = 1, gap'.lost = 0, dir.meta.version > 0
        PROVE  \E s \in Newest(dir'.history) : s.blob = dir'.meta.sum /\ ~Stale(dir', s)
    <3>1. dir.kdbx = dir.meta.sum /\ r.lost = 0
      BY <2>2, <2>3 DEF BaseInv
    <3>2. PICK s \in Newest(dir'.history) : s.version = dir.meta.version /\ s.blob = dir.kdbx
      BY <1>2, <1>5, <2>3, <3>1
    <3>3. ~Stale(dir', s)
      BY <1>0, <1>3, <2>1, <3>2 DEF Stale
    <3> QED
      BY <2>1, <3>1, <3>2, <3>3
  <2>4. InterruptionRecoverable'
    BY <2>1, <2>3 DEF InterruptionRecoverable, Torn
  <2>5. ASSUME gap'.tries <= 1, NEW c \in Clients, Opened(c)', view'[c].version = dir'.meta.version
        PROVE  view'[c].blob \in {dir'.kdbx, dir'.meta.sum}
    <3>1. Opened(c) /\ view[c].version = dir.meta.version /\ dir.meta.version # 0 /\ gap.tries = 0
      BY <1>3, <2>1, <2>2, <2>5 DEF Opened
    <3>2. dir.kdbx = dir.meta.sum /\ view[c].blob \in {dir.kdbx, dir.meta.sum}
      BY <1>0, <3>1 DEF BaseInv
    <3> QED
      BY <2>1, <3>2
  <2> QED
    BY <1>2, <2>1, <2>2, <2>4, <2>5 DEF BaseInv
<1> QED
  BY <1>4, <1>5

LEMMA WriteKeepsBase ==
    ASSUME TypeOK, KeyInv, BaseInv, NEW c \in Clients, NEW blob \in Blobs, NEW next \in Metas,
           next.version = dir.meta.version + 1, next.sum = blob,
           Write(c, dir.meta, blob, next)
    PROVE  BaseInv'
<1>1. PICK r \in Replacements(dir, dir.meta, "save", blob, next, FALSE) :
        /\ dir' = r.dir
        /\ gap' = Gap(r)
        /\ \/ view' = view
           \/ /\ r.end = "done"
              /\ view' = [view EXCEPT ![c] = [version |-> next.version, key |-> blob.key,
                                              blob |-> blob, pub |-> view[c].pub,
                                              proof |-> view[c].proof]]
  BY DEF Write
<1>2. \A d \in Clients : view'[d] = view[d] \/ (r.end = "done" /\ view'[d].blob = blob)
  BY <1>1 DEF TypeOK
<1>3. "save" \in Kinds
  BY DEF Kinds
<1> QED
  BY <1>1, <1>2, <1>3, ReplacedKeepsBase

(* What leaves vault.kdbx, its checksum and its version alone. *)
LEMMA SameBase ==
    ASSUME BaseInv, dir'.kdbx = dir.kdbx, dir'.history = dir.history, dir'.clock = dir.clock,
           dir'.meta.version = dir.meta.version, dir'.meta.sum = dir.meta.sum,
           dir'.meta.epochSince = dir.meta.epochSince, gap' = gap,
           \A c \in Clients :
             \/ view'[c].version = view[c].version /\ view'[c].blob = view[c].blob
             \/ view'[c].blob \in {NoBlob, dir.kdbx, dir.meta.sum}
    PROVE  BaseInv'
<1>1. InterruptionRecoverable'
  BY DEF BaseInv, InterruptionRecoverable, Torn, Stale
<1> QED
  BY <1>1 DEF BaseInv, Opened

LEMMA TouchKeepsBase ==
    ASSUME TypeOK, BaseInv, NEW env, Touch(dir.meta, env),
           \A c \in Clients : view'[c].version = view[c].version /\ view'[c].blob = view[c].blob
    PROVE  BaseInv'
<1>1. /\ dir'.kdbx = dir.kdbx /\ dir'.history = dir.history /\ dir'.clock = dir.clock
      /\ dir'.meta.version = dir.meta.version /\ dir'.meta.sum = dir.meta.sum
      /\ dir'.meta.epochSince = dir.meta.epochSince /\ gap' = gap
  BY DEF Touch, TypeOK, Dirs
<1> QED
  BY <1>1, SameBase

LEMMA BaseInvStep ==
    ASSUME ~ReadMayFail, TypeOK, KeyInv, BaseInv, [Next]_vars PROVE BaseInv'
<1>0. /\ dir \in Dirs /\ dir.meta \in Metas /\ uploads \in Nat
  BY DEF TypeOK, Dirs
<1>1. ASSUME NEW c \in Clients, Unwrap(c) \/ Open(c) \/ Overwrite(c) \/ Prove(c)
      PROVE  BaseInv'
  <2>1. UNCHANGED <<dir, gap>>
    BY <1>1 DEF Unwrap, Open, Overwrite, Prove
  <2>2. \A d \in Clients :
          \/ view'[d].version = view[d].version /\ view'[d].blob = view[d].blob
          \/ view'[d].blob \in {NoBlob, dir.kdbx, dir.meta.sum}
    <3>1. CASE Unwrap(c)
      BY <3>1 DEF Unwrap, TypeOK
    <3>2. CASE Open(c)
      BY <3>2 DEF Open, Held, NoView, TypeOK
    <3>3. CASE Overwrite(c)
      BY <3>3 DEF Overwrite, Held, TypeOK
    <3>4. CASE Prove(c)
      BY <3>4 DEF Prove, TypeOK, Views
    <3> QED
      BY <1>1, <3>1, <3>2, <3>3, <3>4
  <2> QED
    BY <2>1, <2>2, SameBase
<1>2. ASSUME NEW blob \in Blobs, Conflict(blob) PROVE BaseInv'
  <2>1. /\ dir'.meta = dir.meta /\ dir'.kdbx = dir.kdbx /\ dir'.history = dir.history
        /\ dir'.clock = dir.clock /\ UNCHANGED <<view, gap>>
    BY <1>2, ConflictType
  <2> QED
    BY <2>1, SameBase
<1>3. ASSUME NEW c \in Clients, SaveVault(c) PROVE BaseInv'
  <2> DEFINE b == [key |-> IF view[c].key = 0 THEN uploads + 1 ELSE view[c].key,
                   id |-> uploads + 1]
             next == SavedMeta(dir.meta, b, view[c].key = 0)
  <2>1. b \in Blobs
    BY SaveBlobType
  <2>2. Write(c, dir.meta, b, next) \/ Conflict(b)
    BY <1>3, ReadsTheRealOne DEF SaveVault
  <2> HIDE DEF b
  <2>3. next \in Metas /\ next.version = dir.meta.version + 1 /\ next.sum = b
    <3>1. \A w \in BOOLEAN : /\ SavedMeta(dir.meta, b, w) \in Metas
                             /\ SavedMeta(dir.meta, b, w).version = dir.meta.version + 1
                             /\ SavedMeta(dir.meta, b, w).sum = b
      BY <1>0, <2>1, SavedMetaType
    <3> QED
      BY <3>1
  <2> HIDE DEF next
  <2> QED
    BY <1>2, <2>1, <2>2, <2>3, WriteKeepsBase
<1>4. ASSUME NEW c \in Clients, RotateVault(c) PROVE BaseInv'
  <2> DEFINE b == [key |-> uploads + 1, id |-> uploads + 1]
             next == RotatedMeta(dir.meta, b)
  <2>1. b \in Blobs
    BY <1>0 DEF Blobs
  <2>2. Write(c, dir.meta, b, next) \/ Conflict(b)
    BY <1>4, ReadsTheRealOne DEF RotateVault
  <2> HIDE DEF b
  <2>3. next \in Metas /\ next.version = dir.meta.version + 1 /\ next.sum = b
    BY <1>0, <2>1, RotatedMetaType
  <2> HIDE DEF next
  <2> QED
    BY <1>2, <2>1, <2>2, <2>3, WriteKeepsBase
<1>5. ASSUME NEW c \in Clients, SaveEnvelopes(c) PROVE BaseInv'
  <2>1. (\E env : Touch(dir.meta, env)) \/ UNCHANGED <<dir, uploads, adopted, gap>>
    BY <1>5, ReadsTheRealOne DEF SaveEnvelopes
  <2>2. \A d \in Clients : view'[d].version = view[d].version /\ view'[d].blob = view[d].blob
    BY <1>5 DEF SaveEnvelopes, TypeOK, Views
  <2> QED
    BY <2>1, <2>2, TouchKeepsBase, SameBase
<1>6. ASSUME NEW c \in Clients, NEW createOnly \in BOOLEAN, SaveUserKey(c, createOnly)
      PROVE BaseInv'
  <2>1. \E env : Touch(dir.meta, env)
    BY <1>6, ReadsTheRealOne DEF SaveUserKey
  <2>2. \A d \in Clients : view'[d].version = view[d].version /\ view'[d].blob = view[d].blob
    BY <1>6 DEF SaveUserKey, Held, TypeOK, Views
  <2> QED
    BY <2>1, <2>2, TouchKeepsBase
<1>7. ASSUME TouchDevices PROVE BaseInv'
  <2>1. (\E env : Touch(dir.meta, env)) /\ view' = view
    BY <1>7, ReadsTheRealOne DEF TouchDevices
  <2> QED
    BY <2>1, TouchKeepsBase
<1>8. ASSUME RestoreHistory PROVE BaseInv'
  <2>1. PICK s \in dir.history :
          /\ \E r \in Replacements(dir, dir.meta, "rollback", s.blob,
                                   RestoredMeta(dir.meta, s.blob), FALSE) :
               dir' = r.dir /\ gap' = Gap(r)
          /\ view' = view
    BY <1>8, ReadsTheRealOne DEF RestoreHistory
  <2> DEFINE b == s.blob
             next == RestoredMeta(dir.meta, b)
  <2>2. b \in Blobs /\ "rollback" \in Kinds
    BY <1>0 DEF Dirs, Snapshots, Kinds
  <2>3. PICK r \in Replacements(dir, dir.meta, "rollback", b, next, FALSE) :
          dir' = r.dir /\ gap' = Gap(r)
    BY <2>1
  <2> HIDE DEF b
  <2>4. next \in Metas /\ next.version = dir.meta.version + 1 /\ next.sum = b
    BY <1>0, <2>2, RestoredMetaType
  <2> HIDE DEF next
  <2> QED
    BY <2>1, <2>2, <2>3, <2>4, ReplacedKeepsBase
<1>9. ASSUME DiscardConflict PROVE BaseInv'
  <2>1. /\ dir'.meta = dir.meta /\ dir'.kdbx = dir.kdbx /\ dir'.history = dir.history
        /\ dir'.clock = dir.clock /\ UNCHANGED <<view, gap>>
    BY <1>0, <1>9 DEF DiscardConflict, Dirs
  <2> QED
    BY <2>1, SameBase
<1>10. ASSUME UNCHANGED vars PROVE BaseInv'
  BY <1>10, SameBase DEF vars
<1> QED
  BY <1>1, <1>3, <1>4, <1>5, <1>6, <1>7, <1>8, <1>9, <1>10 DEF Next

LEMMA BaseInvInit == Init => BaseInv
<1> SUFFICES ASSUME Init PROVE BaseInv
  OBVIOUS
<1>1. /\ dir = EmptyDir(NoEnv) /\ view = [c \in Clients |-> NoView]
  BY DEF Init
<1>2. /\ dir.meta.version = 0 /\ dir.meta.sum = NoBlob /\ dir.history = {}
      /\ \A c \in Clients : view[c].blob = NoBlob
  BY <1>1 DEF EmptyDir, NoMeta, NoView
<1> QED
  BY <1>2 DEF BaseInv, InterruptionRecoverable, Torn, Opened

LEMMA BaseInvariant ==
    ASSUME ~ReadMayFail PROVE Spec => []BaseInv
<1>1. TypeOK /\ KeyInv /\ BaseInv /\ [Next]_vars => BaseInv'
  BY BaseInvStep
<1> QED
  BY <1>1, BaseInvInit, TypeCorrect, KeysInvariant, PTL DEF Spec

(* One interrupted upload, rotation or rollback leaves the version that    *)
(* metadata.json still describes as the newest snapshot, and a rollback    *)
(* accepts it, unless the archive copy was lost.                           *)
THEOREM OneInterruption ==
    ASSUME ~ReadMayFail PROVE Spec => []InterruptionRecoverable
<1>1. BaseInv => InterruptionRecoverable
  BY DEF BaseInv
<1> QED
  BY <1>1, BaseInvariant, PTL

(* NoBlindOverwrite: the If-Match precondition stands for the contents.    *)
SeenWhatItReplaces ==
    \A c \in Clients :
       /\ gap.tries <= 1
       /\ dir'.meta.version > dir.meta.version
       /\ view'[c].blob = dir'.kdbx
       /\ view'[c] # view[c]
       => view[c].blob \in {dir.kdbx, dir.meta.sum}

(* An upload whose version matched: the client opened that version, or     *)
(* found no vault and there is none yet.                                   *)
LEMMA WriteSeesBase ==
    ASSUME TypeOK, KeyInv, BaseInv, NEW c \in Clients, NEW blob, NEW next,
           Write(c, dir.meta, blob, next), view[c].version = dir.meta.version,
           view[c].key = 0 \/ Opened(c)
    PROVE  SeenWhatItReplaces
<1>1. \A d \in Clients : d # c => view'[d] = view[d]
  BY DEF Write, TypeOK
<1>2. gap.tries <= 1 => view[c].blob \in {dir.kdbx, dir.meta.sum}
  <2>1. CASE Opened(c)
    BY <2>1 DEF BaseInv
  <2>2. CASE ~Opened(c)
    <3>1. dir.meta.version = 0 /\ view[c].blob = NoBlob
      BY <2>2 DEF KeyInv, ViewsKnowTheKey, Holds, Opened
    <3> QED
      BY <3>1 DEF BaseInv
  <2> QED
    BY <2>1, <2>2
<1> QED
  BY <1>1, <1>2 DEF SeenWhatItReplaces

LEMMA OverwriteStep ==
    ASSUME ~ReadMayFail, TypeOK, KeyInv, BaseInv, [Next]_vars PROVE SeenWhatItReplaces
<1>0. /\ dir \in Dirs /\ dir.meta \in Metas /\ dir.meta.version \in Nat /\ uploads \in Nat
  BY DEF TypeOK, Dirs, Metas
<1>1. ASSUME dir'.meta.version = dir.meta.version PROVE SeenWhatItReplaces
  BY <1>0, <1>1 DEF SeenWhatItReplaces
<1>2. ASSUME NEW blob \in Blobs, Conflict(blob) PROVE SeenWhatItReplaces
  BY <1>1, <1>2, ConflictType
<1>3. ASSUME NEW env, Touch(dir.meta, env) PROVE SeenWhatItReplaces
  <2>1. dir'.meta.version = dir.meta.version
    BY <1>3 DEF Touch, TypeOK, Dirs
  <2> QED
    BY <1>1, <2>1
<1>4. ASSUME NEW c \in Clients, SaveVault(c) PROVE SeenWhatItReplaces
  <2> DEFINE b == [key |-> IF view[c].key = 0 THEN uploads + 1 ELSE view[c].key,
                   id |-> uploads + 1]
             next == SavedMeta(dir.meta, b, view[c].key = 0)
  <2>1. b \in Blobs
    BY SaveBlobType
  <2>2. /\ view[c].key = 0 \/ Opened(c)
        /\ \/ view[c].version = dir.meta.version /\ Write(c, dir.meta, b, next)
           \/ Conflict(b)
    BY <1>4, ReadsTheRealOne DEF SaveVault, Current
  <2> HIDE DEF b, next
  <2> QED
    BY <1>2, <2>1, <2>2, WriteSeesBase
<1>5. ASSUME NEW c \in Clients, RotateVault(c) PROVE SeenWhatItReplaces
  <2> DEFINE b == [key |-> uploads + 1, id |-> uploads + 1]
             next == RotatedMeta(dir.meta, b)
  <2>1. b \in Blobs
    BY <1>0 DEF Blobs
  <2>2. /\ Opened(c)
        /\ \/ view[c].version = dir.meta.version /\ Write(c, dir.meta, b, next)
           \/ Conflict(b)
    BY <1>5, ReadsTheRealOne DEF RotateVault, Current
  <2> HIDE DEF b, next
  <2> QED
    BY <1>2, <2>1, <2>2, WriteSeesBase
<1>6. ASSUME NEW c \in Clients, SaveEnvelopes(c) PROVE SeenWhatItReplaces
  <2>1. (\E env : Touch(dir.meta, env)) \/ UNCHANGED <<dir, uploads, adopted, gap>>
    BY <1>6, ReadsTheRealOne DEF SaveEnvelopes
  <2> QED
    BY <1>1, <1>3, <2>1
<1>7. ASSUME NEW c \in Clients, NEW createOnly \in BOOLEAN, SaveUserKey(c, createOnly)
      PROVE SeenWhatItReplaces
  <2>1. \E env : Touch(dir.meta, env)
    BY <1>7, ReadsTheRealOne DEF SaveUserKey
  <2> QED
    BY <1>3, <2>1
<1>8. ASSUME TouchDevices PROVE SeenWhatItReplaces
  <2>1. \E env : Touch(dir.meta, env)
    BY <1>8, ReadsTheRealOne DEF TouchDevices
  <2> QED
    BY <1>3, <2>1
<1>9. ASSUME RestoreHistory PROVE SeenWhatItReplaces
  <2>1. view' = view
    BY <1>9 DEF RestoreHistory
  <2> QED
    BY <2>1 DEF SeenWhatItReplaces
<1>10. ASSUME DiscardConflict PROVE SeenWhatItReplaces
  <2>1. view' = view
    BY <1>10 DEF DiscardConflict
  <2> QED
    BY <2>1 DEF SeenWhatItReplaces
<1>11. ASSUME NEW c \in Clients, Unwrap(c) \/ Open(c) \/ Overwrite(c) \/ Prove(c)
       PROVE  SeenWhatItReplaces
  BY <1>1, <1>11 DEF Unwrap, Open, Overwrite, Prove
<1>12. ASSUME UNCHANGED vars PROVE SeenWhatItReplaces
  BY <1>1, <1>12 DEF vars
<1> QED
  BY <1>4, <1>5, <1>6, <1>7, <1>8, <1>9, <1>10, <1>11, <1>12 DEF Next

(* An upload is accepted only from a client that has seen what it          *)
(* replaces, or whose user was asked.                                      *)
THEOREM OverwritesSeen ==
    ASSUME ~ReadMayFail PROVE Spec => NoBlindOverwrite
<1>1. TypeOK /\ KeyInv /\ BaseInv /\ [Next]_vars => SeenWhatItReplaces
  BY OverwriteStep
<1>2. SeenWhatItReplaces =>
        [\A c \in Clients :
           /\ gap.tries <= 1
           /\ dir'.meta.version > dir.meta.version
           /\ view'[c].blob = dir'.kdbx
           /\ view'[c] # view[c]
           => view[c].blob \in {dir.kdbx, dir.meta.sum}]_vars
  BY DEF SeenWhatItReplaces
<1> QED
  BY <1>1, <1>2, TypeCorrect, KeysInvariant, BaseInvariant, PTL DEF Spec, NoBlindOverwrite

=============================================================================
