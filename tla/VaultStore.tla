------------------------------ MODULE VaultStore ------------------------------
(***************************************************************************)
(* A personal vault: the Store of internal/vault behind vault_handlers.go  *)
(* and user_key_handlers.go, used by several browsers and devices of one   *)
(* owner.  Each holds the version it last read, the vault key it unwrapped *)
(* and the public user key it saw; nothing orders their requests, and what *)
(* a client reads in one request may be stale in its next.                 *)
(***************************************************************************)
EXTENDS VaultFiles, Sequences

CONSTANTS
    Clients,      \* sessions of the vault's owner
    MaxPrevious,  \* userkey.MaxPrevious
    ReadMayFail,  \* TRUE when reading metadata.json can fail with the file there
    MaxUploads,   \* bound: uploads attempted
    MaxVersion,   \* bound: versions a rollback may reach
    MaxPubs,      \* bound: public keys published
    MaxTries,     \* bound: interrupted writes in a row
    MaxStamp      \* bound: metadata writes in different seconds at one version

ASSUME VaultStoreAssumption ==
    /\ MaxPrevious \in Nat \ {0}
    /\ ReadMayFail \in BOOLEAN
    /\ {MaxUploads, MaxVersion, MaxPubs, MaxTries, MaxStamp} \subseteq Nat

VARIABLES
    dir,      \* the vault's directory
    view,     \* what each client holds; blob is the file it opened, none while it is
              \* unlocking, and proof the version its password was checked at
    uploads,  \* uploads so far; the next blob and the next vault key
    pubs,     \* public keys published so far
    adopted,  \* vault keys some metadata.json has named as the vault's key
    gap       \* writes interrupted since the version last moved, copies lost in them

vars == <<dir, view, uploads, pubs, adopted, gap>>

NoUserKey == [pub |-> 0, wrap |-> 0, prev |-> <<>>]
NoEnv == [password |-> 0, recovery |-> 0, userKey |-> NoUserKey]
NoView == [version |-> 0, key |-> 0, blob |-> NoBlob, pub |-> 0, proof |-> 0]
NoGap == [tries |-> 0, lost |-> 0]

UserKeys == [pub : Nat, wrap : Nat, prev : Seq(Nat)]
Envs == [password : Nat, recovery : Nat, userKey : UserKeys]
Metas == [version : Nat, stamp : Nat, sum : Blobs, epochSince : Nat, env : Envs]
Dirs == [meta : Metas, kdbx : Blobs, history : SUBSET Snapshots,
         conflicts : SUBSET Blobs, clock : Nat]
Views == [version : Nat, key : Nat, blob : Blobs, pub : Nat, proof : Nat]

TypeOK ==
    /\ dir \in Dirs
    /\ view \in [Clients -> Views]
    /\ uploads \in Nat
    /\ pubs \in Nat
    /\ adopted \in SUBSET Nat
    /\ gap \in [tries : Nat, lost : Nat]

Init ==
    /\ dir = EmptyDir(NoEnv)
    /\ view = [c \in Clients |-> NoView]
    /\ uploads = 0
    /\ pubs = 0
    /\ adopted = {}
    /\ gap = NoGap

-----------------------------------------------------------------------------
(* Most write paths drop getMetadataLocked's error and go on with what it  *)
(* returned, which is then empty.                                          *)
MetaRead == {dir.meta} \cup (IF ReadMayFail THEN {NoMeta(NoEnv)} ELSE {})

(* Mutation of Current: refuse only what the server has not reached. *)
NotAhead(m, expected) == expected <= m.version

(* The If-Match precondition.                                              *)
Current(m, expected) == m.version = expected

(* A key rotation re-wraps a published user key and never publishes one.   *)
CarriesUserKey(m, pub) == m.env.userKey.pub = pub

(* saveVault's next metadata for a vault under key.  A rotation starts a   *)
(* key epoch and carries both envelopes and the re-wrapped user key.       *)
NextMeta(m, blob, epochSince, env) ==
    [version |-> m.version + 1, stamp |-> 0, sum |-> blob,
     epochSince |-> epochSince, env |-> env]

SavedMeta(m, blob, wrapped) ==
    NextMeta(m, blob, m.epochSince,
        IF wrapped
          THEN [password |-> blob.key, recovery |-> m.env.recovery, userKey |-> m.env.userKey]
          ELSE m.env)

(* Mutation of RotatedMeta: no new key epoch. *)
RotatedInOldEpoch(m, blob) ==
    NextMeta(m, blob, m.epochSince,
        [password |-> blob.key, recovery |-> blob.key, userKey |-> m.env.userKey])

(* Mutation of RotatedMeta: the user key is carried as it was. *)
RotatedKeepingSeed(m, blob) ==
    NextMeta(m, blob, m.version + 1,
        [password |-> blob.key, recovery |-> blob.key, userKey |-> m.env.userKey])

RotatedMeta(m, blob) ==
    LET uk == m.env.userKey IN
    NextMeta(m, blob, m.version + 1,
        [password |-> blob.key, recovery |-> blob.key,
         userKey |-> IF uk.pub = 0 THEN uk
                     ELSE [pub |-> uk.pub, wrap |-> blob.key, prev |-> uk.prev]])

RestoredMeta(m, blob) == NextMeta(m, blob, m.epochSince, m.env)

Gap(r) ==
    IF r.end = "done" THEN NoGap
    ELSE [tries |-> gap.tries + 1, lost |-> gap.lost + r.lost]

(* A client whose vault is open, and what it holds under the same key next. *)
Opened(c) == view[c].blob # NoBlob

Held(c, version, blob, pub, proof) ==
    [version |-> version, key |-> view[c].key, blob |-> blob, pub |-> pub, proof |-> proof]

(* Unlocking, first request: GET /api/vault/metadata, and the vault key    *)
(* out of one of its envelopes or out of the key cached on this device.    *)
Unwrap(c) ==
    /\ dir.meta.version > 0
    /\ \E key \in {dir.meta.env.password, dir.meta.env.recovery, view[c].key} \ {0} :
         view' = [view EXCEPT ![c] =
             [version |-> dir.meta.version, key |-> key, blob |-> NoBlob,
              pub |-> dir.meta.env.userKey.pub, proof |-> 0]]
    /\ UNCHANGED <<dir, uploads, pubs, adopted, gap>>

(* Second request: GET /api/vault/kdbx.  A file the key does not open      *)
(* leaves the client locked.  The web app keeps the version of the         *)
(* metadata, the extension the one the download came with.                 *)
Open(c) ==
    /\ view[c].key # 0
    /\ ~Opened(c)
    /\ IF dir.kdbx.key = view[c].key
         THEN \E version \in {view[c].version, dir.meta.version} :
                view' = [view EXCEPT ![c] =
                           Held(c, version, dir.kdbx, view[c].pub, view[c].proof)]
         ELSE view' = [view EXCEPT ![c] = NoView]
    /\ UNCHANGED <<dir, uploads, pubs, adopted, gap>>

(* A save was refused and the user chose to overwrite: the client takes    *)
(* the server's version as its own, unless the stored password envelope is *)
(* not the one it unlocked against.                                        *)
Overwrite(c) ==
    /\ Opened(c)
    /\ dir.meta.version > view[c].version
    /\ dir.meta.env.password = view[c].key
    /\ view' = [view EXCEPT ![c] =
                  Held(c, dir.meta.version, dir.meta.sum, view[c].pub, view[c].proof)]
    /\ UNCHANGED <<dir, uploads, pubs, adopted, gap>>

(* proveCurrentPassword: the stored envelopes, fetched now, open to the    *)
(* key this client holds.  What it then writes names this version.         *)
Prove(c) ==
    /\ Opened(c)
    /\ view[c].key \in {dir.meta.env.password, dir.meta.env.recovery}
    /\ view' = [view EXCEPT ![c].proof = dir.meta.version]
    /\ UNCHANGED <<dir, uploads, pubs, adopted, gap>>

(* An upload that reached the write: the client's new base only when the   *)
(* server's answer that it was saved arrives.                              *)
Write(c, m, blob, next) ==
    \E r \in Replacements(dir, m, "save", blob, next, FALSE) :
        /\ r.end = "done" \/ gap.tries < MaxTries
        /\ dir' = r.dir
        /\ gap' = Gap(r)
        /\ adopted' = IF r.end = "done" THEN adopted \cup {blob.key} ELSE adopted
        /\ \/ view' = view
           \/ /\ r.end = "done"
              /\ view' = [view EXCEPT ![c] = [version |-> next.version, key |-> blob.key,
                                blob |-> blob, pub |-> view[c].pub, proof |-> view[c].proof]]

Conflict(blob) ==
    /\ dir' \in Rejections(dir, blob)
    /\ UNCHANGED <<view, adopted, gap>>

(* vaultUpload without X-Vault-Key-Rotated.  A client that found no vault  *)
(* makes the key and sends the password envelope with its first upload;    *)
(* the paper code comes later, with SaveEnvelopes.                         *)
SaveVault(c) ==
    LET new == view[c].key = 0
        blob == [key |-> IF new THEN uploads + 1 ELSE view[c].key, id |-> uploads + 1]
    IN  /\ new \/ Opened(c)
        /\ uploads < MaxUploads
        /\ uploads' = uploads + 1
        /\ \E m \in MetaRead :
             IF Current(m, view[c].version)
               THEN Write(c, m, blob, SavedMeta(m, blob, new))
               ELSE Conflict(blob)
        /\ UNCHANGED pubs

(* vaultUpload with X-Vault-Key-Rotated: the whole vault under a new key.  *)
(* RotateVault refuses, with nothing written, a user key that is not the   *)
(* published one.                                                          *)
RotateVault(c) ==
    LET blob == [key |-> uploads + 1, id |-> uploads + 1] IN
    /\ Opened(c)
    /\ uploads < MaxUploads
    /\ uploads' = uploads + 1
    /\ \E m \in MetaRead :
         IF Current(m, view[c].version)
           THEN /\ CarriesUserKey(m, view[c].pub)
                /\ Write(c, m, blob, RotatedMeta(m, blob))
           ELSE Conflict(blob)
    /\ UNCHANGED pubs

(* The second a metadata write falls in; a new version has its own ids.    *)
Stamps(m) == {m.stamp} \cup (IF m.stamp < MaxStamp THEN {m.stamp + 1} ELSE {})

(* A metadata write that leaves vault.kdbx and the version alone.          *)
Touch(m, env) ==
    /\ \E stamp \in Stamps(m) : dir' = [dir EXCEPT !.meta =
         [version |-> m.version, stamp |-> stamp, sum |-> m.sum,
          epochSince |-> m.epochSince, env |-> env]]
    /\ UNCHANGED <<uploads, adopted, gap>>

(* PUT /api/vault/envelopes: the client's vault key under a new password   *)
(* or a new paper code, against the version it was proven at.              *)
SaveEnvelopes(c) ==
    /\ view[c].proof # 0
    /\ \E m \in MetaRead :
         IF Current(m, view[c].proof)
           THEN \E field \in {"password", "recovery"} :
                  Touch(m,
                    [password |-> IF field = "password" THEN view[c].key ELSE m.env.password,
                     recovery |-> IF field = "recovery" THEN view[c].key ELSE m.env.recovery,
                     userKey |-> m.env.userKey])
           ELSE UNCHANGED <<dir, uploads, adopted, gap>>
    /\ view' = [view EXCEPT ![c].proof = 0]
    /\ UNCHANGED pubs

(* SetDeviceEnvelope and RemoveDeviceEnvelope.  They take no version; the  *)
(* second refuses a read that failed, so the first allows what it does.    *)
TouchDevices ==
    /\ \E m \in MetaRead : Touch(m, m.env)
    /\ UNCHANGED <<view, pubs>>

(* PUT /api/vault/user-key with a new key pair.  createOnly is             *)
(* If-None-Match: *, which a client that saw no key published sends with   *)
(* the version it holds; a replacement names the version proven.           *)
ReplacedUserKey(uk, pub, wrap) ==
    LET listed == IF uk.pub = 0 THEN <<>> ELSE Append(uk.prev, uk.pub)
        over == Len(listed) - MaxPrevious
    IN  [pub |-> pub, wrap |-> wrap,
         prev |-> IF over > 0 THEN SubSeq(listed, over + 1, Len(listed)) ELSE listed]

UserKeyAdmits(m, expected, createOnly) ==
    /\ expected # 0
    /\ Current(m, expected)
    /\ createOnly => m.env.userKey.pub = 0

SaveUserKey(c, createOnly) ==
    LET expected == IF createOnly THEN view[c].version ELSE view[c].proof IN
    /\ pubs < MaxPubs
    /\ Opened(c)
    /\ createOnly => view[c].pub = 0
    /\ \E m \in MetaRead :
         /\ UserKeyAdmits(m, expected, createOnly)
         /\ Touch(m,
              [password |-> m.env.password, recovery |-> m.env.recovery,
               userKey |-> ReplacedUserKey(m.env.userKey, pubs + 1, view[c].key)])
    /\ pubs' = pubs + 1
    /\ view' = [view EXCEPT ![c] =
                  Held(c, view[c].version, view[c].blob, pubs + 1,
                       IF createOnly THEN view[c].proof ELSE 0)]

(* POST /api/vault/history/{id}/restore.  It takes no expected version.    *)
Restorable(m, s) == s.version >= m.epochSince

RestoreHistory ==
    \E s \in dir.history, m \in MetaRead :
        /\ Restorable(m, s)
        /\ m.version < MaxVersion
        /\ \E r \in Replacements(dir, m, "rollback", s.blob, RestoredMeta(m, s.blob), FALSE) :
             /\ r.end = "done" \/ gap.tries < MaxTries
             /\ dir' = r.dir
             /\ gap' = Gap(r)
        /\ UNCHANGED <<view, uploads, pubs, adopted>>

DiscardConflict ==
    \E b \in dir.conflicts :
        /\ dir' = [dir EXCEPT !.conflicts = dir.conflicts \ {b}]
        /\ UNCHANGED <<view, uploads, pubs, adopted, gap>>

Next ==
    \/ \E c \in Clients :
         \/ Unwrap(c)
         \/ Open(c)
         \/ Overwrite(c)
         \/ Prove(c)
         \/ SaveVault(c)
         \/ RotateVault(c)
         \/ SaveEnvelopes(c)
         \/ \E createOnly \in BOOLEAN : SaveUserKey(c, createOnly)
    \/ TouchDevices
    \/ RestoreHistory
    \/ DiscardConflict

Spec == Init /\ [][Next]_vars

-----------------------------------------------------------------------------
(* PROPERTIES                                                              *)

(* The stored envelopes hold this key and no other. *)
Unlocks(key) == key = dir.meta.env.password /\ dir.meta.env.recovery \in {0, key}

(* A vault key some metadata.json has named never comes back once another  *)
(* replaced it: whatever of this vault is under such a key, the file       *)
(* itself or a snapshot that is not marked stale, the stored envelopes     *)
(* open.  Uploads race rotations, rollbacks take no version, and writes    *)
(* stop half way; a file under a key that was never adopted is what an     *)
(* interrupted rotation leaves.                                            *)
RetiredKeyStaysOut ==
    \A b \in {dir.kdbx} \cup {s.blob : s \in {t \in dir.history : ~Stale(dir, t)}} :
        b.key \in adopted => Unlocks(b.key)

(* The seed of the published user key is wrapped under the key the         *)
(* envelopes open, through rotations, replacements and rollbacks.          *)
UserKeyOpens ==
    dir.meta.env.userKey.pub # 0 => dir.meta.env.userKey.wrap = dir.meta.env.password

(* What the two rest on, and the proofs with them: a client at the current *)
(* version holds the key the envelopes wrap, which is why the If-Match     *)
(* precondition is enough for a write that carries an envelope; a snapshot *)
(* of a version carries that version's key; keys are made fresh.           *)
Holds(version, key) ==
    /\ version <= dir.meta.version
    /\ key = 0 <=> version = 0
    /\ key # 0 => key \in adopted

ViewsKnowTheKey ==
    \A c \in Clients :
        /\ Holds(view[c].version, view[c].key)
        /\ view[c].proof <= dir.meta.version
        /\ Opened(c) => view[c].key # 0
        /\ view[c].proof # 0 => view[c].key # 0
        /\ \/ Opened(c) /\ view[c].version = dir.meta.version
           \/ view[c].proof # 0 /\ view[c].proof = dir.meta.version
           => view[c].key = dir.meta.env.password

KeysAreFresh ==
    /\ \A k \in adopted : 0 < k /\ k <= uploads
    /\ dir.kdbx.key <= uploads
    /\ \A s \in dir.history : s.blob.key <= uploads

EnvelopesAgree ==
    dir.meta.version > 0 =>
        /\ dir.meta.env.password \in adopted
        /\ Unlocks(dir.meta.env.password)

SnapshotsArePast ==
    /\ dir.meta.epochSince <= dir.meta.version
    /\ \A s \in dir.history : s.version <= dir.meta.version
    /\ dir.meta.version = 0 =>
         /\ dir.history = {}
         /\ adopted = {}
         /\ dir.meta.env.recovery = 0
         /\ dir.meta.env.userKey.pub = 0

KeyInv ==
    /\ RetiredKeyStaysOut
    /\ UserKeyOpens
    /\ ViewsKnowTheKey
    /\ KeysAreFresh
    /\ EnvelopesAgree
    /\ SnapshotsArePast

(* One interrupted write leaves a way back: the newest snapshot is the     *)
(* version metadata.json still describes and a rollback accepts it.        *)
InterruptionRecoverable ==
    Torn(dir) /\ gap.tries = 1 /\ gap.lost = 0 =>
        \E s \in Newest(dir.history) : s.blob = dir.meta.sum /\ ~Stale(dir, s)

(* A save is accepted only from a client that has seen what it replaces,   *)
(* or whose user was asked: the acknowledged version or, after one         *)
(* interrupted write, the file that write left.                            *)
NoBlindOverwrite ==
    [][\A c \in Clients :
         /\ gap.tries <= 1
         /\ dir'.meta.version > dir.meta.version
         /\ view'[c].blob = dir'.kdbx
         /\ view'[c] # view[c]
         => view[c].blob \in {dir.kdbx, dir.meta.sum}]_vars

(* MarkKeyEpoch's comment: an existing marker is never lowered; nor is the *)
(* version every precondition compares against.                            *)
MarkerNeverLowered ==
    [][/\ dir'.meta.epochSince >= dir.meta.epochSince
       /\ dir'.meta.version >= dir.meta.version]_vars

(* The rotation design (docs/superpowers/plans/                            *)
(* 2026-09-26-phase4b-vault-features.md:303): whatever an interrupted      *)
(* write leaves, the newest snapshot, or the file itself, is under the key *)
(* the stored envelopes still unwrap.                                      *)
NewestSnapshotRecovers ==
    Torn(dir) /\ gap.lost = 0 =>
        \E b \in {dir.kdbx} \cup {s.blob : s \in dir.history} :
            b.key = dir.meta.env.password

=============================================================================
