---- MODULE TabVault ----
(* One browser tab with the personal vault open: the save queue of vaultSave.ts,
   the unlock, lock and key rotation of App.tsx, and the encrypted checkpoint an
   automatic lock leaves (lockedDraft.ts), against a server that other sessions
   write as well. A copy of the vault is the set of edits it holds; a key is a
   number, the password envelope the server stores names the key it wraps. *)
EXTENDS Integers, FiniteSets

CONSTANTS MyEdits, OtherEdits,  \* edits made in this tab, and by other sessions
          MaxKey,               \* bound: keys ever in use
          MaxVersion,           \* bound: versions the server ever holds
          MaxFails,             \* bound: requests whose answer is lost
          MaxLocks,             \* bound: locks by the clock
          Careful               \* what the user is assumed not to do, see below

\* "rotate": no edit while this tab rotates the key.
\* "unread": while a checkpoint waits that storage would not give back, the vault is
\* opened with the password, and does not lock by the clock with edits in it.
ASSUME CarefulAssumption == Careful \subseteq {"rotate", "unread"}
\* An edit is named by who made it.
ASSUME EditsAssumption == MyEdits \intersect OtherEdits = {}

VARIABLES
  srv,      \* the server's copy: version, content, the key of the file and of the envelope
  landed,   \* edits of this tab some committed version held
  agreed,   \* the user agreed to replace the version the server now holds
  stray,    \* requests of a discarded queue or rotation still under way
  tab,      \* the open vault: content, the key it exports under, the key the tab holds
  q,        \* VaultSaveQueue
  up,       \* the save it is running
  rot,      \* the key rotation under way
  opening,  \* initVault between its awaits
  draft,    \* the checkpoint: being sealed, in memory, on disk, recovery pending
  trust,    \* the device key cache and the locked flag
  made,     \* edits made so far
  dropped,  \* edits a confirmed question or a notice said are gone
  fails, locks

vars == <<srv, landed, agreed, stray, tab, q, up, rot, opening, draft, trust, made, dropped, fails, locks>>

None == [none |-> TRUE]
Is(r) == r # None
Keys == 1..MaxKey

Queue(version, key) ==
  [kind |-> "saved", ver |-> version, env |-> key,
   ahead |-> FALSE,   \* revision # savedRevision
   moved |-> FALSE,   \* revision # the one the running save started from
   running |-> FALSE, timer |-> FALSE]

Init ==
  /\ srv = [ver |-> 1, content |-> {}, file |-> 1, env |-> 1, keys |-> 1]
  /\ landed = {} /\ agreed = FALSE /\ stray = {} /\ made = {} /\ dropped = {} /\ fails = 0 /\ locks = 0
  /\ tab = None /\ q = None /\ up = None /\ rot = None /\ opening = None
  /\ draft = [sealing |-> None, memory |-> None, disk |-> None, pending |-> FALSE]
  /\ trust = [key |-> 0, locked |-> TRUE, storing |-> None, wiped |-> TRUE]

IsOpen == Is(tab)
Dirty == IsOpen /\ q.kind # "saved"
InTab == IF IsOpen THEN tab.content ELSE {}
In(copies) == UNION {c.content : c \in copies \ {None}}

\* The user was asked, or told, before these edits went: those no version has.
Drops(edits) == dropped' = dropped \union (edits \ (landed \union OtherEdits))

Taken(r) == r.ver = srv.ver

\* A request given up on before its answer; one the server will refuse is forgotten.
OnTheWire(r) == IF Is(r) /\ r.stage = "sent" /\ Taken(r)
                  THEN {[ver |-> r.ver, content |-> r.content, key |-> r.key, rotates |-> r.rotates]} ELSE {}

(* ---------------------------------------------------------------- server --- *)

\* A write under If-Match: taken at the version it names, refused otherwise.
Commit(r) ==
  /\ srv' = [srv EXCEPT !.ver = @ + 1, !.content = r.content, !.file = r.key,
                        !.env = IF r.rotates THEN r.key ELSE @]
  /\ landed' = landed \union (r.content \ OtherEdits)
  /\ agreed' = FALSE

\* Another session saves its edit over the copy it holds, the current one, or
\* rotates the vault key.
OtherSession ==
  /\ srv.ver < MaxVersion
  /\ \E e \in OtherEdits : e \notin srv.content /\
        srv' = [srv EXCEPT !.ver = @ + 1, !.content = @ \union {e}]
  /\ agreed' = FALSE
  /\ UNCHANGED <<landed, stray, tab, q, up, rot, opening, draft, trust, made, dropped, fails, locks>>

OtherRotates ==
  /\ srv.ver < MaxVersion /\ srv.keys < MaxKey
  /\ srv' = [srv EXCEPT !.ver = @ + 1, !.file = srv.keys + 1, !.env = srv.keys + 1, !.keys = @ + 1]
  /\ agreed' = FALSE
  /\ UNCHANGED <<landed, stray, tab, q, up, rot, opening, draft, trust, made, dropped, fails, locks>>

\* A request the tab gave up on may still be accepted.
StrayArrives ==
  /\ \E r \in stray :
       /\ stray' = stray \ {r}
       /\ IF Taken(r) THEN Commit(r) ELSE UNCHANGED <<srv, landed, agreed>>
  /\ UNCHANGED <<tab, q, up, rot, opening, draft, trust, made, dropped, fails, locks>>

(* ------------------------------------------------------------ save queue --- *)

\* Mutation of Changed: the edit is announced and the debounce never armed.
ChangedVariant(queue) ==
  IF queue.kind \in {"conflict", "failed"} \/ queue.running
    THEN [queue EXCEPT !.ahead = TRUE, !.moved = queue.running]
    ELSE [queue EXCEPT !.ahead = TRUE, !.kind = "saving"]

\* changed(): a failed upload waits for the user, a running one takes it in.
Changed(queue) ==
  IF queue.kind \in {"conflict", "failed"} \/ queue.running
    THEN [queue EXCEPT !.ahead = TRUE, !.moved = queue.running]
    ELSE [queue EXCEPT !.ahead = TRUE, !.kind = "saving", !.timer = TRUE]

\* Bound: edits after the first come while a save or a rotation is under way.
MayEdit == made # MyEdits /\ (made = {} \/ q.running \/ Is(rot))

Edit ==
  /\ IsOpen /\ MayEdit /\ ("rotate" \in Careful => ~Is(rot))
  /\ LET e == CHOOSE e \in MyEdits : e \notin made   \* which one does not matter
     IN made' = made \union {e} /\ tab' = [tab EXCEPT !.content = @ \union {e}]
  /\ q' = Changed(q)
  /\ UNCHANGED <<srv, landed, agreed, stray, up, rot, opening, draft, trust, dropped, fails, locks>>

\* save(): nothing to do while one runs, without edits, or when the answer to the
\* last one can only be another question.
Saves(overwrite) ==
  /\ IsOpen /\ ~q.running /\ q.ahead
  /\ q.kind = "conflict" => overwrite
  /\ q' = [q EXCEPT !.kind = "saving", !.running = TRUE, !.timer = FALSE]
  /\ up' = [stage |-> IF overwrite THEN "metadata" ELSE "export"]
  /\ UNCHANGED <<srv, landed, agreed, stray, tab, rot, opening, draft, trust, made, dropped, fails, locks>>

TimerFires == IsOpen /\ q.timer /\ Saves(FALSE)
\* The user answers the banner, or the link is back after a failure.
UserSaves == IsOpen /\ q.kind \in {"conflict", "failed"} /\ Saves(q.kind = "conflict")

SaveFails(kind) ==
  /\ up' = None
  /\ q' = [q EXCEPT !.kind = kind, !.running = FALSE, !.moved = FALSE]

\* Mutation of SaveMetadata: the overwrite never asks whose key the server's copy is under.
SaveMetadataVariant ==
  /\ Is(up) /\ up.stage = "metadata"
  /\ q' = [q EXCEPT !.ver = srv.ver] /\ up' = [up EXCEPT !.stage = "export"] /\ agreed' = TRUE
  /\ UNCHANGED <<srv, landed, stray, tab, rot, opening, draft, trust, made, dropped, fails, locks>>

\* The overwrite reads the version it replaces and refuses when the key was
\* rotated by another session.
SaveMetadata ==
  /\ Is(up) /\ up.stage = "metadata"
  /\ IF srv.env = q.env
       THEN /\ q' = [q EXCEPT !.ver = srv.ver]
            /\ up' = [up EXCEPT !.stage = "export"]
            /\ agreed' = TRUE
       ELSE SaveFails("failed") /\ UNCHANGED agreed
  /\ UNCHANGED <<srv, landed, stray, tab, rot, opening, draft, trust, made, dropped, fails, locks>>

\* The export waits for its turn behind a rotation (exclusive).
SaveExports ==
  /\ Is(up) /\ up.stage = "export" /\ ~(Is(rot) /\ rot.live)
  /\ up' = [stage |-> "sent", ver |-> q.ver, content |-> tab.content,
            key |-> tab.exports, rotates |-> FALSE]
  /\ UNCHANGED <<srv, landed, agreed, stray, tab, q, rot, opening, draft, trust, made, dropped, fails, locks>>

SaveArrives ==
  /\ Is(up) /\ up.stage = "sent"
  /\ IF Taken(up) THEN Commit(up) ELSE UNCHANGED <<srv, landed, agreed>>
  /\ up' = [up EXCEPT !.stage = IF Taken(up) THEN "accepted" ELSE "refused"]
  /\ UNCHANGED <<stray, tab, q, rot, opening, draft, trust, made, dropped, fails, locks>>

\* Mutation of SaveAccepted: the answer acknowledges whatever the vault holds by then.
SaveAcceptedVariant ==
  /\ Is(up) /\ up.stage = "accepted"
  /\ q' = [q EXCEPT !.kind = "saved", !.ver = up.ver + 1, !.ahead = FALSE, !.moved = FALSE, !.running = FALSE]
  /\ up' = None
  /\ UNCHANGED <<srv, landed, agreed, stray, tab, rot, opening, draft, trust, made, dropped, fails, locks>>

\* The answer acknowledges the revision the save started from; the loop goes on
\* while there are later ones.
SaveAccepted ==
  /\ Is(up) /\ up.stage = "accepted"
  /\ IF q.moved
       THEN /\ q' = [q EXCEPT !.ver = up.ver + 1, !.moved = FALSE]
            /\ up' = [stage |-> "export"]
       ELSE /\ q' = [q EXCEPT !.kind = "saved", !.ver = up.ver + 1, !.ahead = FALSE, !.running = FALSE]
            /\ up' = None
  /\ UNCHANGED <<srv, landed, agreed, stray, tab, rot, opening, draft, trust, made, dropped, fails, locks>>

SaveRefused ==
  /\ Is(up) /\ up.stage = "refused"
  /\ SaveFails("conflict")
  /\ UNCHANGED <<srv, landed, agreed, stray, tab, rot, opening, draft, trust, made, dropped, fails, locks>>

\* The request, or its answer, is lost.
SaveLost ==
  /\ Is(up) /\ up.stage \in {"metadata", "sent", "accepted", "refused"} /\ fails < MaxFails
  /\ fails' = fails + 1
  /\ SaveFails("failed")
  /\ stray' = stray \union OnTheWire(up)
  /\ UNCHANGED <<srv, landed, agreed, tab, rot, opening, draft, trust, made, dropped, locks>>

(* ------------------------------------------------------------- rotation --- *)

\* rotateKey: inside the queue's serializer, and only from a saved queue. The
\* live vault exports under the new key from here on.
RotateStarts ==
  /\ IsOpen /\ ~Is(rot) /\ q.kind = "saved" /\ ~Is(opening) /\ srv.keys < MaxKey
  /\ srv' = [srv EXCEPT !.keys = @ + 1]
  /\ rot' = [stage |-> "sent", ver |-> q.ver, key |-> srv.keys + 1, content |-> tab.content,
             rotates |-> TRUE, live |-> TRUE]
  /\ tab' = [tab EXCEPT !.exports = srv.keys + 1]
  /\ UNCHANGED <<landed, agreed, stray, q, up, opening, draft, trust, made, dropped, fails, locks>>

RotateArrives ==
  /\ Is(rot) /\ rot.stage = "sent"
  /\ IF Taken(rot) THEN Commit(rot) ELSE UNCHANGED <<srv, landed, agreed>>
  /\ rot' = [rot EXCEPT !.stage = IF Taken(rot) THEN "accepted" ELSE "refused"]
  /\ UNCHANGED <<stray, tab, q, up, opening, draft, trust, made, dropped, fails, locks>>

\* The new key and a queue at the version the rotation wrote replace the old
\* ones. A tab that locked meanwhile keeps nothing.
Rotated ==
  /\ rot' = None
  /\ IF rot.live
       THEN /\ tab' = [tab EXCEPT !.key = rot.key]
            /\ q' = Queue(rot.ver + 1, rot.key)
            /\ up' = None
            /\ trust' = [trust EXCEPT !.key = 0, !.storing = [key |-> rot.key, live |-> TRUE]]
       ELSE /\ trust' = [trust EXCEPT !.key = 0]
            /\ UNCHANGED <<tab, q, up>>

\* rekey(oldKey): the live vault goes on under the key it had.
PutBack ==
  /\ rot' = None
  /\ tab' = IF rot.live THEN [tab EXCEPT !.exports = tab.key] ELSE tab
  /\ UNCHANGED <<q, up, trust>>

RotateAnswered ==
  /\ Is(rot) /\ ~Is(trust.storing)
  /\ \/ rot.stage = "accepted" /\ Rotated
     \/ rot.stage = "refused" /\ PutBack
  /\ UNCHANGED <<srv, landed, agreed, stray, opening, draft, made, dropped, fails, locks>>

\* The answer is lost: the stored envelopes say whose key the vault is under.
RotateLost ==
  /\ Is(rot) /\ rot.stage \in {"sent", "accepted", "refused"} /\ fails < MaxFails
  /\ fails' = fails + 1
  /\ rot' = [rot EXCEPT !.stage = "ask"]
  /\ stray' = stray \union OnTheWire(rot)
  /\ UNCHANGED <<srv, landed, agreed, tab, q, up, opening, draft, trust, made, dropped, locks>>

\* closeVault: the queue is discarded, whatever runs finds its generation gone.
\* A rotation under way goes on in the background unless the page itself goes.
Closes(gone) ==
  /\ tab' = None /\ q' = None /\ up' = None /\ opening' = None
  /\ rot' = IF gone \/ ~Is(rot) THEN None
            ELSE [rot EXCEPT !.live = FALSE]
  /\ stray' = stray \union OnTheWire(up) \union (IF gone THEN OnTheWire(rot) ELSE {})

\* A key write that was under way when the vault closed undoes itself (cacheDeviceKey).
Untrusted(t, wiped) ==
  [t EXCEPT !.locked = TRUE, !.wiped = wiped, !.key = IF wiped THEN 0 ELSE @,
            !.storing = IF Is(@) THEN [@ EXCEPT !.live = FALSE] ELSE @]

RotateAsks ==
  /\ Is(rot) /\ rot.stage = "ask" /\ ~Is(trust.storing)
  /\ LET ours == srv.env = rot.key
     IN \/ /\ ours /\ srv.ver = rot.ver + 1 /\ Rotated
           /\ UNCHANGED <<stray, opening, dropped>>
        \/ /\ ~ours /\ PutBack
           /\ UNCHANGED <<stray, opening, dropped>>
        \/ /\ (ours /\ srv.ver > rot.ver + 1) \/ fails < MaxFails   \* or the question fails too
           /\ Closes(TRUE) /\ trust' = Untrusted(trust, TRUE)
           /\ Drops(InTab)
  /\ UNCHANGED <<srv, landed, agreed, draft, made, fails, locks>>

(* ------------------------------------------------------ locking, leaving --- *)

Unsaved == draft.pending \/ Dirty

\* Lock, log out, or the session ended elsewhere: no checkpoint. The first two
\* ask before edits go, the last says so.
LockVault ==
  /\ IsOpen \/ Is(opening)
  /\ Closes(FALSE) /\ trust' = Untrusted(trust, FALSE)
  /\ Drops(IF Dirty THEN InTab ELSE {})
  /\ UNCHANGED <<srv, landed, agreed, draft, made, fails, locks>>

ForgetDevice ==
  /\ IsOpen /\ ~Is(draft.sealing)
  /\ Closes(FALSE) /\ trust' = Untrusted(trust, TRUE)
  /\ draft' = [draft EXCEPT !.memory = None, !.disk = None]
  /\ Drops(InTab \union In({draft.memory, draft.disk}))
  /\ UNCHANGED <<srv, landed, agreed, made, fails, locks>>

\* The automatic lock captures the export before it discards the queue. An
\* editor left open makes a checkpoint of a clean vault too.
AutoLock(editing) ==
  /\ IsOpen /\ locks < MaxLocks
  /\ locks' = locks + 1
  /\ LET captured == Dirty \/ editing
     IN /\ "unread" \in Careful => ~(captured /\ Is(draft.disk))
        /\ draft' = IF captured
             THEN [draft EXCEPT !.sealing = [content |-> tab.content, ver |-> q.ver, dirty |-> Dirty, key |-> tab.key,
                                             waits |-> Is(rot) /\ rot.live],
                                !.disk = None, !.pending = TRUE]
             ELSE [draft EXCEPT !.memory = None, !.pending = FALSE]
  /\ Closes(FALSE) /\ trust' = Untrusted(trust, TRUE)
  /\ UNCHANGED <<srv, landed, agreed, made, dropped, fails>>

\* The sealed copy is kept in memory first; once stored, the page may go.
Seals(stored) ==
  /\ Is(draft.sealing) /\ ~(draft.sealing.waits /\ Is(rot))
  /\ draft' = [sealing |-> None, memory |-> draft.sealing,
               disk |-> IF stored THEN draft.sealing ELSE draft.disk, pending |-> ~stored]
  /\ UNCHANGED <<srv, landed, agreed, stray, tab, q, up, rot, opening, trust, made, dropped, fails, locks>>

\* The page goes away. It warns first while anything is unsaved.
Refresh ==
  /\ Closes(TRUE)
  /\ trust' = IF ~Is(trust.storing) THEN trust
              ELSE [trust EXCEPT !.storing = None, !.wiped = FALSE, !.key = trust.storing.key]
  /\ draft' = [draft EXCEPT !.sealing = None, !.memory = None, !.pending = FALSE]
  /\ Drops(IF Unsaved THEN InTab \union In({draft.memory, draft.sealing}) ELSE {})
  /\ UNCHANGED <<srv, landed, agreed, made, fails, locks>>

(* ------------------------------------------------------------ unlocking --- *)

\* initVault: the metadata first. Without a password it takes the key this device
\* was trusted with, unless the tab, or another one, locked.
OpenStarts(password) ==
  /\ ~Is(draft.sealing) /\ ~Is(trust.storing) /\ ~Is(opening)
  /\ IF IsOpen THEN ~password /\ q.kind \in {"conflict", "failed"} ELSE TRUE
  /\ ~password => trust.key # 0 /\ ~trust.locked /\ ("unread" \in Careful => ~Is(draft.disk))
  /\ opening' = [stage |-> "file", password |-> password, ver |-> srv.ver, env |-> srv.env,
                 key |-> IF password THEN srv.env ELSE trust.key]
  /\ UNCHANGED <<srv, landed, agreed, stray, tab, q, up, rot, draft, trust, made, dropped, fails, locks>>

\* Mutation of OpenFile: a recovered checkpoint is opened at the version the server is at.
OpenFileVariant(readable) ==
  /\ Is(opening) /\ opening.stage = "file"
  /\ LET local == IF Is(draft.memory) THEN draft.memory ELSE IF readable THEN draft.disk ELSE None
         opens == Is(local) /\ local.key = opening.key
         lost == Is(local) /\ ~opens
     IN /\ Drops(IF lost THEN local.content ELSE {})
        /\ IF ~opens /\ srv.file # opening.key
             THEN /\ opening' = None
                  /\ draft' = IF lost THEN [draft EXCEPT !.disk = None] ELSE draft
                  /\ trust' = IF opening.password THEN trust ELSE [trust EXCEPT !.key = 0]
             ELSE /\ opening' = [stage |-> "settle", password |-> opening.password, env |-> opening.env, key |-> opening.key,
                                 ver |-> opening.ver,
                                 content |-> IF opens THEN local.content ELSE srv.content,
                                 dirty |-> opens /\ local.dirty, unread |-> ~Is(local) /\ Is(draft.disk)]
                  /\ draft' = IF lost THEN [draft EXCEPT !.disk = None, !.memory = None]
                              ELSE IF opens THEN [draft EXCEPT !.memory = local] ELSE draft
                  /\ trust' = IF opening.password
                       THEN [trust EXCEPT !.storing = [key |-> opening.key, live |-> TRUE]] ELSE trust
  /\ UNCHANGED <<srv, landed, agreed, stray, tab, q, up, rot, made, fails, locks>>

\* The checkpoint in memory goes before the one on disk, and either before the
\* server's file; one the key does not open is thrown away with a notice.
OpenFile(readable) ==
  /\ Is(opening) /\ opening.stage = "file"
  /\ LET local == IF Is(draft.memory) THEN draft.memory ELSE IF readable THEN draft.disk ELSE None
         opens == Is(local) /\ local.key = opening.key
         lost == Is(local) /\ ~opens
     IN /\ Drops(IF lost THEN local.content ELSE {})
        /\ IF ~opens /\ srv.file # opening.key
             THEN /\ opening' = None
                  /\ draft' = IF lost THEN [draft EXCEPT !.disk = None] ELSE draft
                  /\ trust' = IF opening.password THEN trust ELSE [trust EXCEPT !.key = 0]
             ELSE /\ opening' = [stage |-> "settle", password |-> opening.password, env |-> opening.env, key |-> opening.key,
                                 ver |-> IF opens THEN local.ver ELSE opening.ver,
                                 content |-> IF opens THEN local.content ELSE srv.content,
                                 dirty |-> opens /\ local.dirty, unread |-> ~Is(local) /\ Is(draft.disk)]
                  /\ draft' = IF lost THEN [draft EXCEPT !.disk = None, !.memory = None]
                              ELSE IF opens THEN [draft EXCEPT !.memory = local] ELSE draft
                  /\ trust' = IF opening.password
                       THEN [trust EXCEPT !.storing = [key |-> opening.key, live |-> TRUE]] ELSE trust
  /\ UNCHANGED <<srv, landed, agreed, stray, tab, q, up, rot, made, fails, locks>>

\* Mutation of KeyStored: the write is never taken back.
KeyStoredVariant ==
  /\ Is(trust.storing)
  /\ trust' = [trust EXCEPT !.key = trust.storing.key, !.storing = None]
  /\ UNCHANGED <<srv, landed, agreed, stray, tab, q, up, rot, opening, draft, made, dropped, fails, locks>>

\* The device key is written, and taken back if the vault closed meanwhile.
KeyStored ==
  /\ Is(trust.storing)
  /\ trust' = IF trust.storing.live
       THEN [trust EXCEPT !.key = trust.storing.key, !.storing = None, !.wiped = FALSE]
       ELSE [trust EXCEPT !.key = 0, !.storing = None]
  /\ UNCHANGED <<srv, landed, agreed, stray, tab, q, up, rot, opening, draft, made, dropped, fails, locks>>

\* Mutation of OpenSettles: the checkpoint is retired before the vault it opened is applied.
OpenSettlesVariant ==
  /\ Is(opening) /\ opening.stage = "settle" /\ ~Is(trust.storing)
  /\ draft' = IF Is(draft.memory) /\ ~opening.unread THEN [draft EXCEPT !.disk = None, !.memory = None] ELSE draft
  /\ opening' = [opening EXCEPT !.stage = "apply"]
  /\ UNCHANGED <<srv, landed, agreed, stray, tab, q, up, rot, trust, made, dropped, fails, locks>>

\* settle(): the checkpoint stays in memory until the vault it opened is applied.
OpenSettles ==
  /\ Is(opening) /\ opening.stage = "settle" /\ ~Is(trust.storing)
  /\ draft' = IF Is(draft.memory) /\ ~opening.unread THEN [draft EXCEPT !.disk = None, !.pending = TRUE] ELSE draft
  /\ opening' = [opening EXCEPT !.stage = "apply"]
  /\ UNCHANGED <<srv, landed, agreed, stray, tab, q, up, rot, trust, made, dropped, fails, locks>>

OpenApplies ==
  /\ Is(opening) /\ opening.stage = "apply"
  /\ opening' = None
  /\ draft' = [draft EXCEPT !.memory = None, !.pending = opening.unread]
  /\ tab' = [content |-> opening.content, exports |-> opening.key, key |-> opening.key]
  /\ q' = [Queue(opening.ver, opening.env) EXCEPT
             !.ahead = opening.dirty, !.kind = IF opening.dirty THEN "failed" ELSE "saved"]
  /\ trust' = IF opening.password THEN [trust EXCEPT !.locked = FALSE] ELSE trust
  /\ Drops(InTab)
  /\ up' = None /\ stray' = stray \union OnTheWire(up)
  /\ UNCHANGED <<srv, landed, agreed, rot, made, fails, locks>>

(* ------------------------------------------------------------------------- *)

Saving == TimerFires \/ SaveMetadata \/ SaveExports \/ SaveArrives \/ SaveAccepted \/ SaveRefused

Rotating == RotateArrives \/ RotateAnswered \/ RotateAsks

Next ==
  \/ OtherSession \/ OtherRotates \/ StrayArrives
  \/ Edit \/ UserSaves \/ SaveLost \/ Saving
  \/ RotateStarts \/ RotateLost \/ Rotating
  \/ LockVault \/ ForgetDevice \/ Refresh
  \/ \E editing \in BOOLEAN : AutoLock(editing)
  \/ \E stored \in BOOLEAN : Seals(stored)
  \/ \E password \in BOOLEAN : OpenStarts(password)
  \/ \E readable \in BOOLEAN : OpenFile(readable)
  \/ KeyStored \/ OpenSettles \/ OpenApplies

Spec == Init /\ [][Next]_vars

\* The debounce fires, a request that is sent is answered or fails, and the tab
\* works through its own awaits. Users, other sessions and faults owe nothing.
FairSpec == Spec /\ WF_vars(Saving) /\ WF_vars(Rotating)

(* ------------------------------------------------------------ properties --- *)

TypeOK ==
  /\ srv \in [ver : Nat, content : SUBSET (MyEdits \union OtherEdits), file : Keys, env : Keys, keys : Keys]
  /\ landed \in SUBSET MyEdits /\ made \in SUBSET MyEdits /\ agreed \in BOOLEAN
  /\ IsOpen <=> Is(q)
  /\ Is(up) => IsOpen /\ q.running
  /\ IsOpen => (q.kind = "saved" <=> ~q.ahead) /\ tab.content \subseteq made \union OtherEdits
  /\ trust.key \in 0..MaxKey

\* When the tab says "saved", every edit it holds is in some version the server
\* committed: through uploads that acknowledge only what they carried, rotations,
\* recovered checkpoints and lost answers.
SavedMeansStored == IsOpen /\ q.kind = "saved" => tab.content \ OtherEdits \subseteq landed

\* The stored file opens with the key the stored envelope wraps: a tab whose key
\* another session, or its own unconfirmed rotation, retired never writes over it.
FileOpens == srv.file = srv.env

\* No edit vanishes: each is in a version the server committed, in the open vault,
\* in a checkpoint the next unlock of this tab reads, or the user was asked, or
\* told, before it went.
EditAccounted ==
  made \subseteq landed \union dropped
                \union InTab \union In({draft.sealing, draft.memory, draft.disk})

\* A device that was locked by the clock or forgotten keeps no vault key, though a
\* write of it was under way.
NothingLeftBehind == trust.wiped /\ ~Is(trust.storing) => trust.key = 0

\* The server's copy never loses an edit unless the user agreed to replace the
\* version that held it.
Register == INSTANCE VaultRegister WITH
  Contents <- MyEdits \union OtherEdits, version <- srv.ver, head <- srv.content, agreed <- agreed

NoSilentOverwrite == Register!Spec

\* An edit that waits for the debounce is saved, or its failure shown, or the
\* vault is closed: the queue never stays at "saving".
SaveSettles == (IsOpen /\ q.kind = "saving") ~> (~IsOpen \/ q.kind # "saving")
====
