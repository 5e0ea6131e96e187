# KyVault server: formal models

TLA+ models of the KyVault server and of what its browser clients do with it,
checked with TLC on small instances and, where stated, proved with TLAPS for
every value of the constants. KyVault stores encrypted KeePass files. The
server cannot open them, so all it has to keep users from losing or leaking a
vault is bookkeeping: versions, key epochs, envelopes, snapshots, membership
rows. These models are about that bookkeeping.

Paths are relative to `src/`. `PROJECT.json` gives, for every definition, the
lines it models; for every property, the run that checks it and a mutation of
the code it catches.

## 1. The system

### Components

| component | state | operations | models |
|---|---|---|---|
| **Vault store** `internal/vault` | per vault key (a user id, or `shared-<id>`): `metadata.json`, `vault.kdbx`, `history/`, `conflicts/`; one `sync.RWMutex` for all of them | save, rotate, save re-keyed, envelopes, device envelopes, user key, rollback, discard, mark epoch, clear history, list, open, snapshot, move out | `VaultFiles`, `VaultStore`, `SharedFiles`, `StoreLock` |
| **Personal vault routes** `internal/api/vault_handlers.go`, `user_key_handlers.go` | none of their own | the HTTP preconditions (`If-Match`, `If-None-Match`, `X-Vault-Key-Rotated`) and the store's call | `VaultStore`, `UnlockSecrets` |
| **Web vault session** `frontend/src/App.tsx`, `lib/vaultSave.ts`, `keyRotation.ts`, `lockedDraft.ts`, `appSelection.ts` | the open vault, its key, its save queue, the checkpoint of a lock, the trusted-device key, the selection | unlock, edit, autosave, retry, overwrite, rotate, lock, auto lock, refresh, switch, reopen | `TabVault` (personal vault), `SharedTab` (a shared one); many clients at once in `VaultStore`, `SharedFiles` |
| **Vault editor and imports** `pages/VaultPage.tsx`, `lib/kdbx.ts`, `csvImport.ts`, the history dialogs | the tree of folders and entries, drafts, attachments, entry history, questions on screen | create, edit, delete, restore, move, attach, import, recover, roll back | `VaultEditor` |
| **People and key pins** `lib/keyPins.ts`, `sharedFlows.ts`, the members dialog | pins in the personal vault, verdicts on screen, uploads of pins | look up, decide, pin, forget, seal | `KeyPins` |
| **Security page** `pages/SecuritySettings.tsx` | proof, paper code, named devices | change password, new code, rotate, reveal, end devices and sessions; replace the user key | `UnlockSecrets`; the last in `SharedTab` |
| **Browser extension** `extension/src` | worker memory (open vault, generation), session storage (key), local storage (pairing) | unlock, reopen, list, fill, save, lock, pair, unpair | `ExtensionVault` |
| **Shared membership** `internal/shared`, `internal/api/shared_handlers.go` | `vaults.json`: key epoch, rows, pending rotation; `shared.mu` | create, invite, accept, decline, leave, remove, set role, re-seal, update, rotate; hooks `MarkStale`, `SetSuspended`; delete, prune, reconcile | `SharedVaults` (not the deletion) |
| **Shared rotation and contents** `internal/api/shared_rotate.go`, `shared_vault_handlers.go` | both stores | `RotateSteps`: verify, write the vault, the record, after commit; `WithWriter` around ordinary writes | `SharedFiles`, `SharedVaults`, `StoreLock`, `SharedTab` |
| **Backup** `internal/backup` | capsule, schedule, pairing with the recovery service | capture under both locks, deposit, restore | capture in `StoreLock` |
| **Sessions** `internal/api/sessions.go`, `sso_logout.go` | session map, file, logout fence; `sessMu` | start, end, load, save with retry, back-channel logout | `Sessions` |
| **Devices and pairing** `device_handlers.go`, `internal/devices` | devices, pairing codes, failure limiter | issue, redeem, revoke, revoke all | `Sessions`, `UnlockSecrets` |
| **Accounts and directory** `internal/users`, SCIM, signed sync | users file | create, role, active, directory update | the active flag in `SharedVaults` and `Sessions` |
| **Client cryptography**, KeePass format | none on the server | | by what it decides, section 2 |
| **Audit log**, **single sign-on**, **browser reporting**, **settings and lookup**, **recovery pairing**, **admin panel**, **password tools** | small stores, external protocols, forms or pure functions | | not modelled, section 7 |

### Interactions

    tabs, extension ──HTTP──> routes ──> vault.Store  (vault.mu)   metadata.json, vault.kdbx, history/, conflicts/
                                │             ^
                                │             │ WithWriter, RotateSteps, WithSnapshot: shared.mu, then vault.mu
                                ├──────> shared.Store (shared.mu)  vaults.json
                                │             ^
                                │             │ hooks, after the write they mirror, best effort
                                ├──────> user keys, accounts ── MarkStale, SetSuspended
                                └──────> sessions (sessMu) ──> devices, logout log, device envelopes
    backup scheduler ───────────> WithSnapshot

Two facts shape everything. The server never orders the requests of one
client, and a client's request carries what an earlier answer told it: a
version, a key, a fingerprint, an epoch. And there is no transaction over two
files: a write path is a sequence of renames, each atomic, which a failed write
or the end of the process can stop between any two.

### What is hard, and what must hold

* *Two clients and a version.* Saves, rotations, envelope changes and user key
  publications are prepared from one read and land after another client's. A
  vault key that was replaced must not come back; no contents may be replaced
  unseen; a published user key must not be swapped silently.
* *Interruptions.* `vault.kdbx` and `metadata.json` are two renames; a shared
  rotation is the two of them, the record, the epoch mark and the clear. One
  interruption must leave the promised contents reachable.
* *Retired keys.* Rollback takes no version, and snapshots outlive the key they
  are under; the epoch marker is all that keeps them out.
* *Rows.* Invitations, re-seals, rotations, suspensions and key replacements
  meet on one membership row in any order; the last owner must not be lost
  without an admin; whoever leaves with a key must be flagged.
* *Locks.* Two nested mutexes, one of them Go's writer-preferring `RWMutex`.
* *Ended sessions.* A login, a pairing and a redeem are several steps, and a
  logout, a revocation or a deactivation lands between any two; three files and
  the memory disagree after a failed write, and a restart believes the files.
  What was ended must stay ended.
* *A tab between its awaits.* The clients are single-threaded, and every
  `await` is a point at which a lock, another click, another session's write or
  a late answer gets in. What was read before it (a version, a key, a verdict,
  whether anything is unsaved) is used after it. A lock bumps a generation that
  each handler has to look at; a request given up on may still arrive.
* *Lost answers.* A save, a rotation or a key replacement whose answer is lost
  did or did not happen. The code asks the server, and must neither take
  another session's write for its own nor keep a key nothing is under.
* *Edits.* An edit may be in the vault, in a queue, in an encrypted checkpoint
  in memory or on disk. It must be in one of them, or the user must have been
  asked or told.

`PROJECT.json` lists hazards at their lines, each with the properties about it;
section 7 lists those no property is about.

## 2. What is abstracted

* **Ciphertext** is a blob `[key, id]`: the vault key it is under, and which
  upload it is. A checksum names a blob. An envelope is the vault key it
  yields; a sealed copy is a vault key and the user key it is sealed to. The
  server reads none of these; what a client can open decides its next step.
* **Keys** are made fresh, so a personal vault key is numbered by the upload
  that introduced it, a user key by its publication. In `SharedVaults` the
  vault key of an epoch is named by the epoch; in `SharedFiles`, where a
  rotation can fail after the file was written, keys and epochs are apart.
* **Snapshot names** `{UpdatedAt.Unix}_v{N}` keep what can make two of them
  equal: the version, the kind of write, and the second (`stamp`). The order of
  modification times is the order of a counter (`at`).
* **Thinning** removes the interior snapshot with the smallest time span. Which
  one depends on wall-clock gaps, so any interior one may go.
* **One file operation** happens or does not. `saveVault` and `metadata.json`
  are written to a temporary name and renamed, so this is what they do; a
  history copy is written in place, and a copy cut short is counted as failed.
* **Device envelopes** are opaque; a device envelope write matters because it
  rewrites `metadata.json` without taking a version.
* **Time** in `Sessions` is the order of what KySignOn issues (`clock`). Expiry
  of a session or a pairing code is that it is not used any more; the lapse of a
  logout token is an action. Tokens, PINs and ids are numbers used once.
* **A recovered draft** is, in `VaultStore`, a tab that stayed open at an older
  version; the checkpoint itself is in `TabVault`.
* **Contents** of a vault are sets where only what is in it matters: edits in
  `TabVault`, logins in `ExtensionVault`, pins in `KeyPins`. `VaultEditor` has
  the tree, and there a version of an entry is a number for its text, the
  folder and the set of its files.
* **Passwords and paper codes** are numbers drawn once, in the order they were
  drawn; a proof holds when the envelope is of that secret and of the tab's key.
* **An await** is a step of its own where another handler, a lock or a write can
  change what the code goes on with; code between two awaits is one action.
* **Left out**: wording, HTTP status, audit entries, routing, the layout.
  `Rename` of a shared vault changes no modelled state. An editor and a reader
  differ only in who passes `WithWriter`.

## 3. Modules

**`VaultFiles`** is the directory of one vault key and what each write path may
leave of it. A write path runs under the lock, so no other writer sees it half
done; an operator returns the *set* of directories an attempt may leave.
`Replacements` is the core of `saveVault` and `RestoreHistory`: archive, rename
`vault.kdbx`, rename `metadata.json`, prune, stopped before any of them. Both
modules below are built on it.

**`VaultStore`** is one personal vault and the clients of its owner. `dir` is
the directory, `view` what each client remembers. Unlocking is two actions,
because the code reads the metadata and downloads the file in two requests.
`SaveVault`, `RotateVault`, `SaveEnvelopes`, `SaveUserKey`, `RestoreHistory`,
`DiscardConflict` and `TouchDevices` are one route each: the precondition, the
store's own checks under the lock, what is left on disk, and whether the answer
reached the client. `adopted` and `gap` are history variables for the
properties. With `ReadMayFail` a write path may see the empty record the code
continues with when reading `metadata.json` fails.

**`SharedVaults`** is the membership of one shared vault. `AskInvite` and
`Invite`, `AskReseal` and `Reseal`, `AskCreate` and `Create` are the two halves
of a route: what it checks before `shared.mu`, and what it does under it;
requests of all users wait in between (`req`). `Update` writes the role in one
section of the lock and leaves the seal pending in the next. `Rotate` is one
step, as it is one critical section for this record. `Publish` and `SetActive`
write the user key or the account and leave a hook in `hooks`; `RunHook` runs
it at any later time, or never.

**`SharedFiles`** is the contents of one shared vault through a rotation: the
directory of `VaultFiles`, the record reduced to its epoch and the key of its
copies, and `stage`, the rotation in progress. `Rotate`, `RotateCommit`,
`RotateMark`, `RotateClear` are the steps of `RotateSteps`; `RotateStops` and
`DieAfterCommit` are the failures and the end of the process between them.
Downloads take only `vault.mu` and so run in the middle of a rotation.

**`StoreLock`** is the two locks. A request is a program of lock and file
operations, interleaved at each. `RLock`, `Announce`, `Lock`, `Unlock` are Go's
`RWMutex`: from a writer's announcement on, a new reader is parked, also one
that holds the lock already.

**`Sessions`** is the sessions of one account. `live` is the map under `sessMu`,
`file` is `sessions.json`, `dirty` says a write of it failed; `devs` and
`devFile` are the devices likewise; `tokens` are the logout tokens KySignOn may
deliver, `events` those admitted and retained. One route that works in one
critical section is one action; a login (`BeginLogin`, `FinishLogin`), a pairing
(`StartPairing`, `CreateCode`) and a redeem (`RedeemPairing`,
`StartDeviceSession`, `FinishRedeem`) are several, as is the directory's
deactivation. Each write an action makes may fail, and `Restart` starts again
from the files. `ended` remembers which ends were answered for. The routes ask
only that some session was live before (`Authorised`), as `withAuth` looks
before they act.

**`VaultRegister`** is the abstract specification of a personal vault as its
sessions see it: a version and contents that only grow, unless the user was
told of a newer version and agreed to replace it. `TabVault` and
`ExtensionVault` instantiate it with their own state and are shown to implement
it (`Register!Spec` as a property).

**`TabVault`** is one tab with the personal vault. `tab` is the open vault, `q`
the `VaultSaveQueue`, `up` the save it runs, `rot` a rotation, `opening`
`initVault` between its awaits, `draft` the checkpoint an auto lock seals, in
memory and on disk, `trust` the trusted-device key. A save is `TimerFires` or
`UserSaves`, `SaveMetadata` (the check before an overwrite), `SaveExports`,
`SaveArrives` at the server, and `SaveAccepted`, `SaveRefused` or `SaveLost`;
an edit may come between any two (`Edit`). A discarded queue's request stays
under way in `stray`. `landed` and `dropped` record which edits some version
had, and which the user was asked or told about.

**`SharedTab`** is one tab with one shared vault: `Opens`, `OpenMetadata`,
`OpenFile`, `Queue` and `ToPersonal` are `switchVault`; `Sends`, `Arrives`,
`SaveAnswered`, `SaveLost` its saves; `RotateStarts` to `RotateLost` the
rotation, with the live vault re-keyed before the upload and `PutBack` when it
fails; `Plans`, `Declines`, `Publishes`, `Adopts`, `Reseals`, `RetryStarts` and
`RetryEnds` the replacement of the user key, whose held keys are `held` (in the
app) and `retry` (a try under way). `OtherSaves`, `OtherRotates`,
`OtherReseals` and `Removed` are the other members.

**`VaultEditor`** is the open vault under the vault page. `up`, `at`, `now` and
`old` are the tree with each entry's history; `page` is what is on screen, with
the draft; `adding`, `asking` and `rolling` are what a handler waits for. The
operations of `kdbx.ts` and the handlers that call them are one action each, as
the code between awaits is; a rollback is three, `AsksRollBack`, `RollBack` and
the reload or failure, and its dialog can be closed between any two. A save, a reload and a lock are single steps here:
their parts are in `TabVault`. `Inside` is the walk of `isDescendant`, written
without recursion: f is inside g if no set of folders that holds f shuts g out.
`Page` is what this module and `SharedTab` share.

**`KeyPins`** is where pins live and what is sealed. `local` is the personal
vault this tab holds, `queue` its save queue while it is on screen, `chain` the
uploads of pins while it is not; `dialog` holds the verdicts on screen and
`act` what a click sealed. The list and the form of an invitation are looked up
at different times, and neither stops what the other offers. `owed` records
whose decision is in no version and given up by no notice.

**`UnlockSecrets`** is the security page. `op` is the one handler under way with
its stage: `confirm`, `prove`, `send`, `sent`, then `landed` or `refused`, or
`ask` after a lost answer of a rotation, then `list` and `revoke`. `alive` and
`live` are the two checks the code makes after each await: the page is still
mounted, and no lock came in between. `wire` are the requests given up on.
Other sessions save, change the password and rotate at any time.

**`ExtensionVault`** is the extension's worker. `heap` are the `KeePassVault`
objects, since two handlers may hold the same one or different ones; `open` and
`reopening` are the variables of `createVaultState`, and `pr` the handlers
under way, an unlock, a read or fill and a save side by side. The worker may be
stopped at any time (`WorkerStops`), which loses the memory and keeps both
storages.

`VaultStore` and `SharedFiles` compose clients, routes and directory.
`SharedVaults` and `SharedFiles` are two views of the same vault, about its rows
and about its contents: the first takes a rotation as one step of the record,
which the second shows in its parts, and the second takes the rows as good
copies of active members, which the first is about.

The server of `TabVault`, `ExtensionVault`, `SharedTab`, `KeyPins` and
`UnlockSecrets` is a version, the key of the file and what the envelopes or the
rows hold, and accepts a write exactly at the version it names. That this is
what the server does, under any interleaving of its own steps and with
interrupted writes, is the subject of `VaultStore` and `SharedFiles`.

`MCVaultStore`, `MCSharedVaults` and `MCSharedFiles` add the symmetry of the
clients or the users, `MCVaultEditor` the file an import brings. Symmetry is
used only in runs with safety properties and the clients (users) are
interchangeable in the specifications.

Three server components (`Sessions`, `SharedVaults`, `StoreLock`) and the two of
the page (`SharedTab`, `VaultEditor`) have their proofs in one module each,
`ServerProofs` and `PageProofs`, which is why the names of their specifications
carry a prefix: `SessionsSpec`, `MembersSpec`, `LockSpec`, `TabSpec`,
`EditorSpec`.

Definitions commented "Mutation of X" are not part of a specification. Each is
X with a plausible mistake in it, and is used to see that a property notices.

## 4. Runs

All runs set `CHECK_DEADLOCK FALSE`: the bounded models come to an end when
their bounds are used up, and `StoreLock` when every request is answered.

| run | question | result |
|---|---|---|
| `vault_races` | two clients, three uploads, two user keys, one interrupted write, archive copies that fail: can a retired key come back, the user key be lost, a version be overwritten unseen; is one interruption recoverable? | holds |
| `store_locks` | two downloads, a query, two saves, a rotation and a backup: is every request answered and every capture of one moment? | holds, but for re-entry |
| `shared_members` | two users and an admin, two epochs, three keys or flags published, two requests or hooks in flight: are the rows usable, departures flagged, owners kept? | holds |
| `shared_contents` | two tabs, four uploads, rotations failing at any step: is everything under the members' key, and the promised contents reachable? | holds |
| `sessions` | two identities or logouts, two pairings, a key rotation, a deactivation, a failed write, a restart: does what was ended stay ended, in every order? | holds |
| `tab_vault` | one tab, two edits of its own and one of another session, a rotation, a lost answer, a lock by the clock: is an edit ever lost unannounced, a version replaced unseen, "saved" untrue, a save stuck? | holds, under two assumptions |
| `extension` | an unlock, a read and a save at once, a lock, a revocation, a new pairing, a lost answer: do a lock and a revocation hold, is a refused login ever shown, is anything overwritten? | holds, under two assumptions |
| `vault_editor` | two entries, two folders, an attachment, an import, a rollback: can an entry become unreachable, or what is applied to an entry land in the bin or be lost? | holds |
| `shared_tab` | three epochs, two user keys, four versions: can the file and the epoch's key part, a replaced user key cost the vault, a version be replaced unseen? | holds, under one assumption |
| `key_pins` | one other person with two keys, another device that pins, three versions: is a copy sealed to a key the user never pinned, or past the pin of another device; is a decision lost in silence, a discarded edit uploaded, a pin overwritten? | holds, under one assumption |
| `unlock_secrets` | three keys, secrets and versions, two failures: do the envelopes open the file, is a paper code shown that was not stored, is a device left signed in and unnamed? | holds, under one assumption |
| `secrets_race` | does a rotation leave the master password as it is? | **violated**, section 5 |

### Properties

* `RetiredKeyStaysOut`: whatever of a personal vault is under a key that some
  `metadata.json` named, the head or an unmarked snapshot, the stored envelopes
  open. `UserKeyOpens`: the published user key's seed stays wrapped under the
  key the envelopes wrap.
* `NoBlindOverwrite`: an accepted save replaces what its client has seen or
  was asked about. It is stated for at most one interrupted write, since
  after two the version says too little.
* `InterruptionRecoverable`: one interrupted write can be undone from the
  newest snapshot.
* `RowsAreUsable`, `DepartureIsFlagged`, `RotatedRowsFollowKey`, `OwnerKept`:
  what the rows promise, in every order of requests and hooks.
* `NothingRetired`, `RollbackStaysOpenable`, `WayBack`, `EpochNamesKey`: with
  nothing owed by a rotation all contents are under the members' key; with only
  the clear owed a rollback still leaves the vault open to them; one
  interruption leaves the promised contents reachable; a claimed epoch stands
  for one key.
* `CapturesAgree`: a download's file is the one its metadata describes, a
  backup's record holds the key its ciphertext is under. `OnlyReentryBlocks`
  (liveness): every request is answered, unless a download re-entered the lock
  around a writer.
* `LogoutHolds`: while a logout is retained, no session it names is live.
  `EndedStaysEnded`: a session whose end was answered for is not live again.
  `RotationEndsPairings`: what a rotation revoked mints no replacement.
* `SavedMeansStored`, `EditAccounted`: at "saved" all edits of the tab are in
  some committed version; an edit that is in none is in the vault, in a
  checkpoint or was given up knowingly. `FileOpens`: the stored file is under
  the key the envelope wraps. `NothingLeftBehind`: a device that was forgotten
  or locked by the clock keeps no key. `NoSilentOverwrite`: the tab implements
  `VaultRegister`. `SaveSettles` (liveness): the queue never stays at "saving".
* `LockHolds`, `RevokedHoldsNoKey`, `NoPhantom`, `NothingOverwritten` of
  `ExtensionVault`: nothing that began before a lock commits after it; a device
  that was revoked holds no key; a login that was refused is not shown; the
  extension implements `VaultRegister` without the user's agreement.
* `NothingVanishes`, `AppliedIsKept`: every entry stays reachable; what is
  applied to an entry is in the live vault as it was typed, whatever was done to
  folders meanwhile. That a rollback drops no edit and a restore gives the
  version that was shown is not so (section 5).
* `FileUnderEpochKey`, `ReplacementKeepsKey`, `NothingOverwritten` of
  `SharedTab`: the epoch a tab claims is that of the key it writes under; a
  replaced user key leaves the vault's key in a row or in the tab; no save goes
  over a version its copy was not made from.
* `SealedAsPinned`, `DecisionIsSaved`, `DiscardedStaysOut`, `PinsStay`: a copy
  is sealed to the pinned key, or to one pinned in this copy before, which the
  list and the form of an invitation can make an older one (section 5); a
  decision is uploaded or was given up with a
  notice; discarded edits do not ride along; pins of another device stay.
* `EnvelopesOpenTheFile`, `CodeShownWasKept`, `NamedOrGone`: the stored secrets
  open the stored file; a code on screen was stored; a device that kept a
  retired key is named on the page.

### Assumptions the runs name

The constant `Careful` of a module says what is assumed not to happen. Without
it a property of that module fails; the configurations named here, which are
kept beside the runs, show how.

* `TabVault`: `"rotate"`, no edit while this tab rotates the key. `rotateKey`
  builds a new queue at "saved" after the upload (`App.tsx:546`), so an edit
  made meanwhile is not announced (`TabRotation.cfg`: `SavedMeansStored`).
  `"unread"`, while storage would not give a checkpoint back, the vault is
  opened with the password and not locked again with edits in it
  (`TabStaleKey.cfg`: `FileOpens`, from `App.tsx:445`).
* `ExtensionVault`: `"lock"`, no lock between a handler's first await and the
  moment it takes its generation (`vaultState.ts:163,201`). `"list"`, the popup
  asks for nothing while a save of its own is uploaded, since the entry is in
  the shared object from `vaultState.ts:326` on (`ExtensionPhantom.cfg`:
  `NoPhantom`).
* `SharedTab`: `"lock"`, the tab does not lock while a re-seal is tried again
  (`SharedTabRetry.cfg`: `CopyOpens`). `"rotate"`, the vault's key is not rotated
  while a user key is replaced, is assumed only where `CopyOpens` is about the
  lock: without it a re-seal that another member's rotation overtook records the
  retired key at the new epoch (`SharedTabReseal.cfg`).
* `KeyPins`: `"switch"`, no key is decided on while the vault on screen changes.
  A pin made while the queue of the personal vault is closing is therefore not
  covered by `DecisionIsSaved`. `SealedAsPinned` does not need it.
* `UnlockSecrets`: `"named"`, the devices can be listed after a rotation, and no
  second rotation is asked for while some are named as still signed in.

`"list"`, `"switch"` and `"named"` each leave out a part of what the hazard of
their property is about; `PROJECT.json` says there what is left.

### Bounds, and why they are enough

* *Clients, users: two.* Every race here is between two requests. Roles
  `owner` and `reader` suffice because an editor differs only in `WithWriter`,
  whose callers are the tabs of `SharedFiles`. `MaxMembers` 2 admits both users
  at once.
* *Uploads: three, versions: three* (`VaultStore`): a vault, a rotation and a
  racing save. `SharedFiles` counts the creator's key as the first of five, so
  a vault, two rotations and a save fit.
* *`MaxHistory` 2* is the least at which thinning has both ends to spare, and
  three saves exceed it. `HistoryExpires` is `FALSE`, since an expired snapshot
  is meant to go.
* *`MaxTries` 1*: the documented promise is about one interruption;
  `VaultTorn.cfg` has two.
* *`MaxPubs`, `MaxNotices`, `MaxEpoch`*: a key and its replacement; a rotation
  after the creation. Three notices are two first keys and a replacement or a
  deactivation, while two requests or hooks are in flight.
* *`Sessions`: two tokens of KySignOn* are two logins, or a login and a logout
  of its session or its subject, in either order. Two pairings are one by a
  browser and one by the device it made, the case in which a code has an issuer.
  One failed write and one restart are what it takes for the memory and the
  files to disagree; the proofs cover the rest.
* *`MaxStamp` 0*: metadata writes at one version fall in one second, which is
  the case where snapshot names collide; the proofs cover the others.
* *`TabVault`*: two edits, so that one can be in a request and one behind it;
  two versions past the first, so that both the tab and another session write;
  two keys are one rotation, by the tab or by the other session; one lost
  answer and one auto lock, in any order with all else.
* *`ExtensionVault`*: four objects, as a read, an unlock and a save can each
  hold one and a fourth is being made; two pairings, a revoked one and its
  successor.
* *`VaultEditor`*: two folders, the least at which one can be moved into the
  other; two entries, one of which only an import or a conflict brings; one file
  and a history of one version, which each further one exceeds. A new entry is
  drafted in the first folder (`NewIn`), and applied to any. There is one
  rollback at a time, no lock while it is on its way, and its reload closes the
  dialog open by then. What the reload of a new entry's draft leaves is not
  counted as dropped. The proofs cover the rest.
* *`SharedTab`*: epochs 1 to 3 are a rotation by this tab and one by another
  member, in either order, with keys of failed rotations beside them. Of user
  keys there are two. With a third, a second replacement can be published whose
  answer, and the answer to the question after it, are both lost; the tab then
  gives up the key it holds (`keyReplaceReseal.ts:102`), and
  `ReplacementKeepsKey` is about the cases in which it does not.
* *`KeyPins`*: two keys of a person are a key and its replacement, and the first
  is not published again (`Again`); three versions are one of the other device
  between two of the tab. In the dialogs there is one request at a time, none
  while the members dialog loads, and one upload of pins waits at most. The
  proofs are for any keys and versions, and for a server that goes back to a key.
* *`UnlockSecrets`*: three secrets and three keys are those of the start, of the tab
  and of another session; two failures are a lost answer and the failure of the
  question that follows it.

* *One more of each.* Larger than the configurations, with a bound or two
  raised, and without a violation, these instances are checked to the end:
  `TabVault` with three versions, two failures or two locks; `ExtensionVault`
  with three versions or two failures; `SharedTab`, without a rotation during a
  replacement, with four epochs, five versions or three user keys; `UnlockSecrets` with
  two devices or three failures; `SharedFiles` with six uploads; `Sessions` with
  two restarts. `VaultEditor` with a history of two, `VaultStore` with four
  uploads and `SharedVaults` with three epochs were searched in part only.

### Fairness

Two modules claim that something eventually happens. In `StoreLock` it is weak
fairness of each request's steps. Goroutines that can run are run, and the
operations are finite sequences of file operations. For `shared.mu`, and for
the announcement of a writer, a step that becomes possible again and again is
not continuously possible, so weak fairness alone does not stop a mutex from
starving a waiter. Here it cannot, because each request is a finite program and
none is restarted, so in the end the lock stays free. Go's mutexes hand over to
a starving waiter, and so promise more than the model assumes.

In `TabVault` it is weak fairness of `Saving` and `Rotating`, which are the
tab's own steps: a timer that is armed fires, an await whose promise settled
goes on, and a request is answered or fails, as the browser's timeouts see to.
Nothing is assumed of the user, of other sessions, of the server's answer being
a success or of the connection coming back: after a failure the queue shows the
error and waits, which is where `SaveSettles` lets it stay.

## 5. Findings

**A rotation undoes a password change** (`secrets_race`;
`frontend/src/App.tsx:518`). The rotation wraps the new key under the password
the tab proved and uploads it at the version it knows. A password change by
another session writes envelopes without moving the version, so the upload is
accepted over it, and the new password opens nothing any more. The page says
"Your master password does not change." `PROJECT.json` quotes it.

The configurations below are kept beside the runs. Each is one property that
TLC finds violated; they are what the assumptions above and the exceptions in
the properties rest on. No assumption hides the last three: the behaviour is in
the models of the passing runs, and what is checked there holds with it.

| configuration | property | what happens |
|---|---|---|
| `VaultTorn` | `NewestSnapshotRecovers` | a second interrupted write archives the torn file under the id of the good snapshot (`vault.go:501`) |
| `VaultReadFault` | `MarkerNeverLowered` | a failed read of `metadata.json` becomes an empty record, and is saved (`vault.go:332`) |
| `StoreReentry` | `DownloadsAnswered` | `OpenVault` re-enters its read lock around a waiting writer (`vault.go:271`) |
| `SharedCopies` | `CopiesOpenTheVault` | a tab of an older epoch seals a retired key as current (`shared.go:507`) |
| `SharedSeals` | `SealedToPublishedKey` | the user key is replaced between the check of the fingerprint and the lock (`shared_handlers.go:505`) |
| `SharedUpdates` | `RefusalWritesNothing` | a member update is refused at the seal, after its role was written (`shared_handlers.go:594`) |
| `SessionsPairing` | `PairingNeedsItsSession` | a pairing code outlives the session that made it (`device_handlers.go:23`) |
| `TabRotation` | `SavedMeansStored` | an edit during a rotation is shown as saved by the new queue (`App.tsx:546`; the comment at `vaultSave.ts:53` asks for the opposite) |
| `TabStaleKey` | `FileOpens` | a checkpoint that storage would not give back is sealed over by a later lock, and its vault saved under a retired key (`App.tsx:445`) |
| `ExtensionPhantom` | `NoPhantom` | a list during a save gives the entry out before the server has it (`vaultState.ts:326`) |
| `SharedTabReseal` | `CopyOpens` | the key is rotated between the plan of a user key replacement and its re-seal, and the server takes the retired key as a copy of the new epoch (`shared.go:507`) |
| `SharedTabRetry` | `CopyOpens` | a retry of the re-seal that a lock overtook seals, or keeps, key bytes that were zeroed: `retryReseal` does not look at the generation (`App.tsx:160`; compare `keyReplaceReseal.ts:132-134`) |
| `PinDecision` | `PinIsADecision` | `sealFor` pins what the verdict on screen calls "unknown" without looking at the pin (`sharedFlows.ts:58`). The list and the form of an invitation are looked up at different times: an invitation pins a person's newer key and is refused, and a re-seal of the row pins the older one over it, without the question `sharedFlows.ts:101` calls for ("Replacing a pin is a decision") |
| `RollbackEdits` | `RollbackKeepsEdits` | unsaved edits are looked for at the click, before the snapshot is downloaded, the user asked and the request sent (`HistoryModal.tsx:139-161`); its answer reloads the vault, and with it goes an edit made after the dialog was closed, or an attachment that was being hashed ("Rollback is available while unlocked when nothing is unsaved", `docs/superpowers/plans/2026-09-26-phase4b-vault-features.md:889`) |
| `EntryRestore` | `RestoresShown` | a restore goes by the index of the version in the entry's history (`EntryHistoryModal.tsx:31`); an attachment that ends while the question is open adds a version, and where the history is full the oldest goes and the index names the next one (`kdbx.ts:549`) |

## 6. Proofs

The proofs assume of the constants what the modules' `ASSUME`s say and nothing
else, except where a theorem says `~ReadMayFail`, the assumption
`VaultReadFault.cfg` shows to be needed, or names a member of `Careful`.

**`VaultStoreProofs`**

* `TypeCorrect`: types, also with failing reads.
* `RetiredKeySafe`, `UserKeySafe`: `RetiredKeyStaysOut` and `UserKeyOpens`.
  Neither is inductive. A save is safe only because a client at the current
  version holds the key the envelopes wrap (`ViewsKnowTheKey`), because a new
  key was never seen before (`KeysAreFresh`), because both envelopes wrap the
  same key (`EnvelopesAgree`), and because a snapshot and the marker are never
  ahead of the version, so that a rotation's marker covers every snapshot of
  the old key (`SnapshotsArePast`). `KeyInv` is the conjunction. Each write path
  is one of three shapes, a replacement of the file, a write of the metadata
  alone or a rejection, and a lemma for each says what it leaves;
  the actions cite them.
* `MarkerSafe`: `MarkerNeverLowered`, from the same invariant.
* `OneInterruption`, `OverwritesSeen`: `InterruptionRecoverable` and
  `NoBlindOverwrite`, if `~ReadMayFail`. `BaseInv` ties the two: until a write is
  interrupted `metadata.json` names the file beside it, and after one
  interruption a client at the current version has opened one of the two files
  that version can stand for. The archive copy is the first file operation and
  the newest snapshot, and pruning the last, which is why a write that stopped
  leaves what it replaced.

**`SharedFilesProofs`**

* `EpochKey`: `EpochNamesKey`, from `EpochInv`: no tab has listed an epoch to
  come, and every tab of the record's epoch holds its key. It is preserved
  because the record's key changes only together with a new epoch.
* `TypeCorrect`: types, and that no snapshot is of a version to come.
* `RetiredKeyGone`, `RollbackOpens`: `NothingRetired` and
  `RollbackStaysOpenable`, from `KeyInv`. Between rotations it says what is under
  the record's key for each set of owed steps (`Settled`). While one runs it says
  that every snapshot is of an earlier version and that the mark is at the version
  the rotation wrote (`Rotating`), so that marking retires the old key's snapshots
  and nothing written since.
* `PromiseKept`: `WayBack`. The promised contents are `vault.kdbx` until a write is
  interrupted, and the snapshot a rotation may not do without while it has saved
  and not committed (`Promised`).

**`ServerProofs`**

* Of `Sessions`, `SessionsTypesHold`: types.
* `LogoutFence`: `LogoutHolds`, which is inductive as it stands: every
  insertion is fenced under the lock that admits events, and the load after a
  restart drops what a retained event names.
* `DeviceSessions`: `DevicesHoldSessions`, from `DeviceInv`. A redeem that is
  refused unregisters its device; that takes the device from no session only
  because a pairing's number is in one stage of one pairing (`NumbersOnce`), is
  not that of an existing session (`NoneYet`), and new ones are new
  (`NumbersPast`).
* `EndsHold`, `RotationEnds`: `EndedStaysEnded` and `RotationEndsPairings`, from
  `EndInv`. An ended session may still be in the file, but only while its device
  is in neither list (`EndHolds`), since a restart loads no session without its
  device; one whose end is not on disk leaves the store dirty (`UnsavedGone`), so
  a redelivery writes again; a pairing's issuer is unregistered before it can be
  redeemed (`PairingsEnd`).
* Of `SharedVaults`, `MembersTypesHold`; `RowsUsable`, `DepartureFlagged`, `LastOwnerKept`,
  `LeftBehindStays`, from `RowInv`: the types, `GoodRows` (a row's epoch is not
  ahead, and its state or the state it resumes to agrees with its epoch and
  with having accepted), `NoneBefore` (nothing exists before the creation),
  `HeldPast` (no tab holds a key of an epoch to come).
* `RotatedFollow`: `RotatedRowsFollowKey`, from `FollowInv`, which says that
  where a row sealed by a rotation no longer matches the published key, the
  hook that will mark it is still there.
* Of `StoreLock`, `CapturesHold`: `CapturesAgree`, and `LockTypesHold`, for any
  number of requests of each kind. `LockInv` says where in its program a request
  is when it holds what: how many read locks (`Reading`), that a writer is alone
  in `vault.mu` and a request alone in `shared.mu` (`Exclusive`), that the files
  differ only while one request is between its writes of them (`Paired`), and
  what a reader has read so far (`Captured`). `Rotates` and its like compute the
  concatenated programs, and `Places` reads the position off an operation.
* `OnlyReentryStops`: for any number of requests, until all are answered one can
  take a step, unless a download re-entered its read lock around a writer. It is
  the safety part of `OnlyReentryBlocks`. Readers wait only for a writer, a writer
  is one that announced itself and has not unlocked, and who owns `shared.mu` is
  inside it (`WaitInv`); so who waits for `shared.mu` waits for one that waits for
  `vault.mu` at most, the writer there for readers at most, and a reader for
  nobody. `CanStep` spells out the guards of a step, since `ENABLED` is out of the
  prover's reach.

**`PageProofs`**

* Of `SharedTab`, `TabTypesHold`: types. `FileKeyAgrees` and `VersionsSeen`:
  `FileUnderEpochKey` and `NothingOverwritten`, for every `Careful`. A rotation
  under way has its request on the wire and, unless a lock came, its vault on
  screen (`Waiting`); nothing the tab lists, opens or sends is of an epoch or a
  version to come (`Behind`); and who is at the vault's epoch has its key, also a
  rotation that will put its key back and one that was taken without the tab
  knowing (`EpochKeys`).
* `KeyIsKept`: `ReplacementKeepsKey`, if `"lock" \in Careful`. From its adoption
  the new user key comes with the vault key the replacement re-seals, which a
  failed re-seal hands on (`Swapping`, `Kept`), and no rotation brings that key
  back (`Fresh`).
* Of `VaultEditor`, `EditorTypesHold`: types, and that an entry keeps at most
  `HistoryMax` versions.
* `TreeHolds`: `NothingVanishes`, for any folders, entries and foreign file, and
  every `Careful`. `Rooted` says of every set of folders that one of them is in a
  folder outside it, which is what having no folder in itself comes to without an
  induction along the tree, and `Hangs` that nothing is in a folder that is gone.
  Each way the tree changes has its lemma: `MovedRooted` for folders put into a
  live one that is not below them, `PrunedRooted` for a deletion for good, which
  takes a folder with all that is inside it, `BinnedRooted` for the recycle bin,
  `FlatTree` for a rollback. They speak of `Under`, the places that every set closed under
  "is in" holds; `UnderIs` shows that this is `Inside`.
* `AllIsFound`: what has not been deleted for good is found from the root, so that
  the lists of the page show it, live or recycled. `InsideIsTheWalk`: `Inside`
  goes from a folder to the one it is in, as `isDescendant` does.
* `EditsKept`: `AppliedIsKept`. While an entry is edited it is live and where it was
  when the draft was opened, and the folder chosen for it is not in the bin
  (`DraftInv`). A move or an import keeps live what is live (`MovedKeeps`); the
  folder the draft was opened from is the only one that can be deleted without
  the draft being left first, and its deletion takes the draft along.

**`UnlockSecretsProofs`**

* `Typed`: types, and what each kind of request carries.
* `EnvelopesAlwaysOpen`: `EnvelopesOpenTheFile`. Alone it is not inductive: a
  password change or a new code is sent long after its key was read. It holds
  because a request for one envelope carries the key the file had at the version
  it names (`RequestsKnowKey`), so that the server's version check refuses it
  once the key is another, however late it arrives. A rotation replaces all
  three parts at once and needs no such fact.
* `CodesShownAreKept`: `CodeShownWasKept`, because a code past the request that
  carries it is one the server has kept (`CodesKept`). Both rest on `Attached`:
  a handler whose page is mounted belongs to an open vault.
* `OldDevicesNamed`: `NamedOrGone`, if `"named" \in Careful`. A handler that reads
  its list after its rotation landed has every device with a retired key, and none
  is added later, because a device pairs with the key of the stored file and keys
  only grow (`NamedInv`).

**`ExtensionVaultProofs`**

* `Typed`: types. The part that is not a type is `HeldOK`: a vault some
  handler holds exists, which needs that one of the four places is free
  whenever an object is made (`FreeIsFree`).
* `ImplementsRegister`: `NothingOverwritten`, the refinement of
  `VaultRegister`, for every `Careful`. By `Copies` a copy in memory, or an
  upload, is older than the server's version or has all the server has; the
  server takes only the latter, so each accepted upload is a write of the
  register that drops nothing, and every other step stutters or adds.
* `RevokedStaysLocked`: `RevokedHoldsNoKey`, for every `Careful`. Without a
  pairing no handler about to put back a key or a vault is live (`Revocation`).
* `LocksHold`: `LockHolds`, if `"lock" \in Careful`. A handler that is late is
  past its first await and not live, so it commits nothing (`Generations`); the
  assumption is what makes a handler that takes its generation a timely one.
* `FailedSavesVanish`: `NoPhantom`, if `"list" \in Careful`. Every vault in memory
  holds stored logins and at most the one being saved into it (`Phantoms`), which
  needs that the vault an unlock downloaded is nobody else's until it commits
  (`OwnCopy`).

**`KeyPinsProofs`**

* `Typed`: types, and that what is open goes with what is on screen.
* `SealedToPins`: `SealedAsPinned`, for every `Careful`. A verdict "pinned" on
  screen names the pin of the copy or a key that was pinned in this copy
  (`Verdicts`), and the pin is only ever changed to a key that is then among
  those (`SealsKeep`). The hard case is an invited person who is also on the list,
  when the form and the list show two keys.
* `DiscardedOut`: `DiscardedStaysOut`, for every `Careful`: discarded edits made
  the copy stale, and no upload is made of a stale copy (`Edits`).
* `DecisionsKept` and `PinsKept`: `DecisionIsSaved` and `PinsStay`, if
  `"switch" \in Careful`. Both need that a return has waited for the uploads
  under way (`ReturnsWait`), which is where the assumption enters. The first
  keeps that what is owed is in the copy and in the upload under way or one
  behind it (`Decisions`). The second keeps that every version read, be it of the
  copy, of its queue or of an upload, is behind the server's or has its pins
  (`Uploads`).

**`TabVaultProofs`**

Assumed besides the members of `Careful` named below: an edit of this tab is not
one of another's (`EditsAssumption`). A step of the tab takes a copy of the vault
from few places. One lemma per group of variables (`ServerMoves`, `TabMoves`,
`RotMoves`, `StrayMoves`, `OpeningMoves`, `DraftMoves`, `TrustMoves`, `EditsMove`)
says from which, and the invariants are proved from those and not from the actions.

* `CopiesHold`: types, and `Copies`: each copy, in the tab, in a request, in a
  checkpoint or in an unlock under way, is older than the server's version or
  holds all it has. That rests on three facts about rotations: one waits for the
  queue and the queue for it (`Alone`), keys are drawn in order (`Drawn`), and a
  rotation the server has not answered is the only thing that knows its key
  (`Pending`), so that finding its key on the server means that it landed.
* `NothingReplaced`: `NoSilentOverwrite`, the refinement of `VaultRegister`, for
  every `Careful`: by `Copies` what the server takes is a write of the register.
* `KeysWiped`: `NothingLeftBehind`, for every `Careful`.
* `FileKeyHeld`: `FileOpens`, if `"unread" \in Careful`. A copy based on the
  server's version is under that version's key (`KeyHeld`). The assumption keeps a
  checkpoint from coming between a trusted device's unlock and the file
  (`Memory`).
* `SavedIsStored`: `SavedMeansStored`, if `"rotate" \in Careful`, since then a
  rotation is under way only over a vault that is saved (`Saved`).
* `EditsAccounted`: `EditAccounted`, under both. A checkpoint is in one place, or
  in two that hold the same (`Ledger`), so clearing one of them loses nothing.

**Only model-checked.** Every safety property of a passing run is a theorem.
Liveness (`OnlyReentryBlocks`, `SaveSettles`) and anything about `ENABLED` are
out of the prover's reach, and so is induction over data, such as what repeated
thinning leaves for a history of any length. That the tree of `VaultEditor` ends
at its root needed none, since `Rooted` speaks of sets of folders and not of
paths. `Inside` is shown to take the steps of the code's walk, and on a tree in
which no folder is in itself those steps come to an end and leave no choice; that
last remark is the induction that is not carried out.
`RotationKeepsPassword` is violated (section 5).

## 7. Not modelled, and hazards without a property

* *Accounts*: the last-admin rule, SCIM attributes, signed sync. Of an account
  only its flag is modelled, and the accounts' file is taken to be written. When
  it is not, a change is in force until a restart brings the old one back
  (`users.go:335`); the directory may demote the last admin (`users.go:361`).
* *Audit log*: a byte-level format. A record on disk whose mark is not
  (`audit.go:721`) and a record rolled back whose line stays (`audit.go:704`)
  are its hazards.
* *Deletion of shared vaults*: `Delete`, `PruneDeleted`, `reconcileDeleted`. A
  deletion stopped between the record and the move of the data is tried again at
  every start (`shared.go:752`).
* *Single sign-on*: the exchange and the token checks are in external
  libraries. What they start, a session, is in `Sessions`.
* *Of pairing*: the limiter of wrong codes, and two codes with one PIN.
* *Browser reporting*: a keyed store behind one lock. *Settings and lookup*: a
  flag in a file and a read. *Admin panel*: forms over routes. *Password tools*:
  pure functions.
* *Recovery pairing, backup scheduling and the capsule format*: a client of an
  external service, and file validation.
* *Cryptography and the KeePass format*: see section 2. A merge of two versions
  is done inside one tab before a save and is a save here.
* *Hooks.* They run after the write they mirror, in any order, best effort
  (`shared_handlers.go:173,189`): a row may stay active for a deactivated
  account for ever. The properties of rows hold under it. An invited account
  is checked active before the lock (`shared_handlers.go:501`), and a decline
  checks that the row is an invitation before it (`shared_handlers.go:671`).
* *Devices.* A pairing redeemed while a rotation revokes every device writes its
  envelope of the retired key after the revocation (`device_handlers.go:103`).
* *Sessions.* A directory deactivation whose session file is not written
  (`scim_handlers.go:242`), and a logout answered 200 with a session left in the
  file (`sso_logout.go:140`), come back after a restart and a reactivation, or
  after two restarts.
* *Clients.* A late 401 to a request of an old pairing forgets the token of a
  new one (`extension/src/lib/session.ts:49`). A paper code whose PUT landed
  after the page was left is never shown, and the old one is dead. A refused
  `switchVault` is not asked for again when access was lost
  (`App.tsx:852-861`). A rollback's reload drops edits made since the click, and
  a version is restored by an index that an attachment can shift (section 5). The
  draft of a new entry whose folder is recycled meanwhile becomes an entry in the
  bin (`VaultPage.tsx:497-510`, `kdbx.ts:589-593`). Imports are not held to the attachment budget.

## 8. What is left

1. `SharedDeletion` and `Accounts`, as above.
2. The membership as an abstract set of key holders, with `SharedVaults` shown
   to implement it.
