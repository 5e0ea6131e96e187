---- MODULE ExtensionVault ----
(* The browser extension's background worker: the vault it holds open
   (vaultState.ts), the one kind of write it makes, the pairing it speaks
   through and the fill of a page, while the browser stops the worker, the
   vault locks by the clock, and other sessions write the same vault. An unlock,
   a reading request and a save go through the awaits of their handlers side by
   side; saves wait for one another. *)
EXTENDS Integers, FiniteSets

CONSTANTS Mine, Theirs,   \* logins the popup saves, and those other sessions add
          MaxVersion, MaxKey, MaxToken,   \* bounds: versions, keys, pairings
          MaxFails,       \* bound: requests whose answer is lost
          Careful         \* what is assumed not to happen, see below

\* "lock": no lock while a request is between its first await and the moment it
\*         takes its generation.
\* "list": the popup asks for nothing while a save of its own is being uploaded.
ASSUME CarefulAssumption == Careful \subseteq {"lock", "list"}

VARIABLES
  srv,      \* the server: version, content, key of the file, password envelope, live tokens
  landed,   \* logins some committed version held
  stray,    \* uploads nobody waits for any more
  local,    \* storage.local: the session token, and whether "paired" was told
  sess,     \* storage.session: the key and the envelope it was unwrapped from
  heap,     \* the KeePassVault objects of the worker
  open,     \* the one it holds open
  reopening,\* the download requests share, 0 for none
  pr,       \* the handlers under way
  fails

vars == <<srv, landed, stray, local, sess, heap, open, reopening, pr, fails>>

None == [none |-> TRUE]
Is(r) == r # None
Logins == Mine \union Theirs
Ids == 1..4
Handlers == {"unlock", "read", "save"}

Init ==
  /\ srv = [ver |-> 1, content |-> {}, file |-> 1, env |-> 1, keys |-> 1, tokens |-> {1}, issued |-> 1]
  /\ landed = {} /\ stray = {} /\ fails = 0
  /\ local = [token |-> 1, told |-> TRUE]
  /\ sess = None /\ heap = [i \in Ids |-> None]
  /\ open = None /\ reopening = 0 /\ pr = [h \in Handlers |-> None]

Running(h, stage) == Is(pr[h]) /\ pr[h].stage = stage
Ends(h) == [pr EXCEPT ![h] = None]
Goes(h, stage) == [pr EXCEPT ![h].stage = stage]

(* --------------------------------------------------------------- objects --- *)

\* A handler holds the vault it was given, whatever `open` becomes meanwhile.
Held(id) == (Is(open) /\ open.id = id) \/ \E h \in Handlers : Is(pr[h]) /\ pr[h].id = id
\* Objects nobody holds any more are gone; for the end of a step that lets go of one.
Keeps == heap' = [i \in Ids |-> IF Held(i)' THEN heap[i] ELSE None]
Free == CHOOSE i \in Ids : ~Held(i)
Download(key) ==
  [i \in Ids |-> IF i = Free THEN [ver |-> srv.ver, content |-> srv.content, key |-> key]
                 ELSE IF Held(i) THEN heap[i] ELSE None]

(* --------------------------------------------------------- lock, requests --- *)

\* The generation of whatever began before a lock is outdated. `late` remembers
\* that a lock ran since then.
Outdated(handlers) ==
  [h \in Handlers |-> IF Is(handlers[h]) THEN [handlers[h] EXCEPT !.live = FALSE, !.late = TRUE] ELSE None]

\* lock(): the vault, the shared download and the key go.
Locks ==
  /\ "lock" \in Careful => ~\E h \in Handlers : Running(h, "begun")
  /\ open' = None /\ sess' = None /\ reopening' = 0

Accepted == local.token \in srv.tokens

\* Mutation of Revoked: the pairing is forgotten and the vault stays open.
RevokedVariant(handlers) ==
  /\ local' = [local EXCEPT !.token = 0]
  /\ pr' = handlers
  /\ UNCHANGED <<open, sess, reopening>>

\* 401: the token is forgotten, and whatever failed, no key stays (guarded).
Revoked(handlers) ==
  /\ local' = [local EXCEPT !.token = 0]
  /\ Locks /\ pr' = Outdated(handlers)

\* The user locks, the alarm rings, or a message finds the deadline passed.
Lock ==
  /\ Is(open) \/ Is(sess) \/ Is(pr["unlock"])
  /\ Locks /\ pr' = Outdated(pr)
  /\ UNCHANGED <<srv, landed, stray, local, fails>>
  /\ Keeps

\* The popup opens and the server was not heard of for a minute.
CheckDevice ==
  /\ Is(sess) /\ local.token # 0 /\ ~Accepted
  /\ Revoked(pr)
  /\ UNCHANGED <<srv, landed, stray, fails>>
  /\ Keeps

\* An upload nobody waits for any more may still be taken. Bound: one at a time.
GivesUp == IF Running("save", "sent") THEN stray = {} /\ stray' = {pr["save"].up} ELSE UNCHANGED stray

\* The browser may stop a worker that only waits for the network, or restart itself.
WorkerStops(restart) ==
  /\ \A h \in Handlers : Is(pr[h]) => pr[h].stage \in {"metadata", "file", "waits", "asked", "sent"}
  /\ GivesUp
  /\ open' = None /\ reopening' = 0 /\ pr' = [h \in Handlers |-> None] /\ heap' = [i \in Ids |-> None]
  /\ sess' = IF restart THEN None ELSE sess
  /\ UNCHANGED <<srv, landed, local, fails>>

(* ---------------------------------------------------------------- unlock --- *)

Handler(stage, key, login) ==
  [stage |-> stage, id |-> 0, live |-> TRUE, late |-> FALSE, key |-> key, env |-> 0, group |-> 0,
   login |-> login, up |-> None]

\* An unlock waits for the saves and locks; after that it takes its generation.
UnlockBegins ==
  /\ ~Is(pr["unlock"]) /\ ~Is(pr["save"]) /\ local.token # 0
  /\ Locks /\ pr' = [Outdated(pr) EXCEPT !["unlock"] = Handler("begun", 0, None)]
  /\ UNCHANGED <<srv, landed, stray, local, fails>>
  /\ Keeps

TakesGeneration(h, stage) == [pr EXCEPT ![h].stage = stage, ![h].live = TRUE]

UnlockGoesOn ==
  /\ Running("unlock", "begun")
  /\ pr' = TakesGeneration("unlock", "metadata")
  /\ UNCHANGED <<srv, landed, stray, local, sess, heap, open, reopening, fails>>

\* A request that is not answered, or that no token goes with.
Fails == \/ (local.token = 0 /\ UNCHANGED fails)
         \/ (fails < MaxFails /\ fails' = fails + 1)

UnlockFails ==
  /\ Running("unlock", "metadata") \/ Running("unlock", "file")
  /\ Fails /\ pr' = Ends("unlock")
  /\ UNCHANGED <<srv, landed, stray, local, sess, open, reopening>>
  /\ Keeps

\* The password opens the stored envelope.
UnlockMetadata ==
  /\ Running("unlock", "metadata") /\ local.token # 0
  /\ IF Accepted
       THEN /\ pr' = [pr EXCEPT !["unlock"].stage = "file", !["unlock"].key = srv.env, !["unlock"].env = srv.env]
            /\ UNCHANGED <<local, sess, open, reopening>>
       ELSE Revoked(Ends("unlock"))
  /\ UNCHANGED <<srv, landed, stray, heap, fails>>

\* The version comes with the file; a file the key does not open locks.
UnlockFile ==
  /\ Running("unlock", "file") /\ local.token # 0
  /\ \/ /\ ~Accepted /\ Revoked(Ends("unlock")) /\ UNCHANGED heap
     \/ /\ Accepted /\ srv.file # pr["unlock"].key
        /\ Locks /\ pr' = Outdated(Ends("unlock")) /\ UNCHANGED <<local, heap>>
     \/ /\ Accepted /\ srv.file = pr["unlock"].key
        /\ IF pr["unlock"].live
             THEN heap' = Download(srv.file) /\ pr' = [pr EXCEPT !["unlock"].stage = "store", !["unlock"].id = Free]
             ELSE pr' = Ends("unlock") /\ UNCHANGED heap
        /\ UNCHANGED <<local, sess, open, reopening>>
  /\ UNCHANGED <<srv, landed, stray, fails>>

\* commit(): the key is written before the generation is looked at.
UnlockStores ==
  /\ Running("unlock", "store")
  /\ sess' = [key |-> pr["unlock"].key, env |-> pr["unlock"].env, late |-> pr["unlock"].late]
  /\ pr' = Goes("unlock", "check")
  /\ UNCHANGED <<srv, landed, stray, local, heap, open, reopening, fails>>

\* Mutation of Commits: the generation is never looked at.
CommitsVariant(h) ==
  /\ open' = [id |-> pr[h].id, late |-> pr[h].late] /\ UNCHANGED sess

\* A lock ran meanwhile: what was written goes again.
Commits(h) ==
  IF pr[h].live
    THEN open' = [id |-> pr[h].id, late |-> pr[h].late] /\ UNCHANGED sess
    ELSE sess' = None /\ UNCHANGED open

UnlockEnds ==
  /\ Running("unlock", "check")
  /\ Commits("unlock")
  /\ pr' = Ends("unlock")
  /\ UNCHANGED <<srv, landed, stray, local, reopening, fails>>
  /\ Keeps

(* ---------------------------------------------------------------- ensure --- *)

Uploading == {"made", "sent", "accepted", "refused", "denied"}

\* ensure() reads the key first, in the popup's requests and in a save alike.
ReadBegins(fill) ==
  /\ ~Is(pr["read"]) /\ Is(sess)
  /\ "list" \in Careful => ~(Is(pr["save"]) /\ pr["save"].stage \in Uploading)
  /\ pr' = [pr EXCEPT !["read"] = Handler("begun", sess.key, fill)]
  /\ UNCHANGED <<srv, landed, stray, local, sess, heap, open, reopening, fails>>

SaveBegins(login) ==
  /\ ~Is(pr["save"]) /\ Is(sess)
  /\ pr' = [pr EXCEPT !["save"] = Handler("begun", sess.key, login)]
  /\ UNCHANGED <<srv, landed, stray, local, sess, heap, open, reopening, fails>>

Ensures == {"read", "save"}

\* The open vault, or one shared download.
EnsureGoesOn(h) ==
  /\ Running(h, "begun")
  /\ LET group == CHOOSE g \in 1..3 : \A o \in Ensures : ~(Is(pr[o]) /\ pr[o].group = g)
     IN IF Is(open)
          THEN pr' = [TakesGeneration(h, "commit") EXCEPT ![h].id = open.id, ![h].key = 0] /\ UNCHANGED reopening
          ELSE /\ reopening' = IF reopening = 0 THEN group ELSE reopening
               /\ pr' = [TakesGeneration(h, "waits") EXCEPT ![h].group = reopening']
  /\ UNCHANGED <<srv, landed, stray, local, sess, heap, open, fails>>

Group(g) == {h \in Ensures : Running(h, "waits") /\ pr[h].group = g}
LeftBy(hs) == [h \in Handlers |-> IF h \in hs THEN None ELSE pr[h]]

\* The download is answered, for all who wait for it, or fails.
Reopens(g) ==
  LET first == CHOOSE h \in Group(g) : TRUE
      opens == srv.file = pr[first].key
  IN /\ Group(g) # {}
     /\ \/ /\ Fails /\ pr' = LeftBy(Group(g)) /\ reopening' = 0
           /\ UNCHANGED <<local, sess, open, heap>>
        \/ /\ local.token # 0 /\ ~Accepted /\ Revoked(LeftBy(Group(g)))
           /\ UNCHANGED <<heap, fails>>
        \/ /\ Accepted /\ ~opens /\ Locks /\ pr' = Outdated(LeftBy(Group(g)))
           /\ UNCHANGED <<local, heap, fails>>
        \/ /\ Accepted /\ opens
           /\ reopening' = 0
           /\ IF pr[first].live
                THEN /\ heap' = Download(srv.file)
                     /\ pr' = [h \in Handlers |-> IF h \in Group(g)
                                 THEN [pr[h] EXCEPT !.stage = "commit", !.id = Free, !.group = 0, !.key = 0] ELSE pr[h]]
                ELSE pr' = LeftBy(Group(g)) /\ UNCHANGED heap
           /\ UNCHANGED <<local, sess, open, fails>>
     /\ UNCHANGED <<srv, landed, stray>>

(* ------------------------------------------------------------ list, fill --- *)

Site(login) == [host |-> login, https |-> login \in Mine]
Pages == [host : Logins, https : BOOLEAN]

\* An https login fills only over https, and only the host it names.
MayFill(login, page) == page.host = Site(login).host /\ (page.https \/ ~Site(login).https)

ReadCommits ==
  /\ Running("read", "commit")
  /\ Commits("read")
  /\ pr' = IF pr["read"].live /\ pr["read"].login THEN Goes("read", "probe") ELSE Ends("read")
  /\ UNCHANGED <<srv, landed, stray, local, reopening, fails>>
  /\ Keeps

\* Every frame is asked where it is; the first that may have the login gets it.
Probes(login, page) ==
  /\ Running("read", "probe") /\ login \in heap[pr["read"].id].content /\ MayFill(login, page)
  /\ pr' = [pr EXCEPT !["read"].stage = "fill", !["read"].up = [login |-> login, page |-> page], !["read"].id = 0]
  /\ UNCHANGED <<srv, landed, stray, local, sess, open, reopening, fails>>
  /\ Keeps

NoForm ==
  /\ Running("read", "probe") /\ pr' = Ends("read")
  /\ UNCHANGED <<srv, landed, stray, local, sess, open, reopening, fails>>
  /\ Keeps

\* The frame may have gone elsewhere since; then nothing is filled.
FillFrame(page) ==
  /\ Running("read", "fill")
  /\ pr' = IF page = pr["read"].up.page THEN Goes("read", "filled") ELSE Ends("read")
  /\ UNCHANGED <<srv, landed, stray, local, sess, heap, open, reopening, fails>>

FillEnds ==
  /\ Running("read", "filled") /\ pr' = Ends("read")
  /\ UNCHANGED <<srv, landed, stray, local, sess, heap, open, reopening, fails>>

(* ------------------------------------------------------------------ save --- *)

SaveCommits ==
  /\ Running("save", "commit")
  /\ Commits("save")
  /\ pr' = IF pr["save"].live THEN Goes("save", "ask") ELSE Ends("save")
  /\ UNCHANGED <<srv, landed, stray, local, reopening, fails>>
  /\ Keeps

\* checkEnvelope(): the envelope of this session, which a lock may just have cleared.
SaveAsks ==
  /\ Running("save", "ask")
  /\ pr' = [pr EXCEPT !["save"].stage = "asked", !["save"].env = IF Is(sess) THEN sess.env ELSE 0]
  /\ UNCHANGED <<srv, landed, stray, local, sess, heap, open, reopening, fails>>

\* The entry goes into the vault in memory before it is uploaded.
SaveChecked ==
  /\ Running("save", "asked")
  /\ \/ /\ Fails /\ pr' = Ends("save")
        /\ UNCHANGED <<local, sess, open, reopening, heap>>
     \/ /\ local.token # 0 /\ ~Accepted /\ Revoked(Ends("save")) /\ UNCHANGED <<heap, fails>>
     \/ /\ Accepted /\ srv.env # pr["save"].env
        /\ Locks /\ pr' = Outdated(Ends("save")) /\ UNCHANGED <<local, heap, fails>>
     \/ /\ Accepted /\ srv.env = pr["save"].env
        /\ heap' = [heap EXCEPT ![pr["save"].id].content = @ \union {pr["save"].login}]
        /\ pr' = Goes("save", "made")
        /\ UNCHANGED <<local, sess, open, reopening, fails>>
  /\ UNCHANGED <<srv, landed, stray>>

\* Mutation of DropsCopy: the open vault keeps the entry.
DropsCopyVariant == UNCHANGED open

\* The copy that holds an entry the server may not have is dropped.
DropsCopy == open' = IF Is(open) /\ open.id = pr["save"].id THEN None ELSE open

SaveSends ==
  /\ Running("save", "made")
  /\ "list" \in Careful => ~Is(pr["read"])
  /\ LET vault == heap[pr["save"].id]
         upload == [ver |-> vault.ver, content |-> vault.content, key |-> vault.key, token |-> local.token]
     IN IF local.token = 0
          THEN pr' = Ends("save") /\ DropsCopy
          ELSE pr' = [pr EXCEPT !["save"].stage = "sent", !["save"].up = upload] /\ UNCHANGED open
  /\ UNCHANGED <<srv, landed, stray, local, sess, reopening, fails>>
  /\ Keeps

\* The server takes an upload of a token it accepts at the version it names.
Taken(up) == up.token \in srv.tokens /\ up.ver = srv.ver
Commit(up) ==
  /\ srv' = [srv EXCEPT !.ver = @ + 1, !.content = up.content, !.file = up.key]
  /\ landed' = landed \union up.content

SaveArrives ==
  /\ Running("save", "sent")
  /\ LET up == pr["save"].up
     IN /\ IF Taken(up) THEN Commit(up) ELSE UNCHANGED <<srv, landed>>
        /\ pr' = Goes("save", IF up.token \notin srv.tokens THEN "denied" ELSE IF Taken(up) THEN "accepted" ELSE "refused")
  /\ UNCHANGED <<stray, local, sess, heap, open, reopening, fails>>

SaveAccepted ==
  /\ Running("save", "accepted")
  /\ heap' = IF pr["save"].live THEN [heap EXCEPT ![pr["save"].id].ver = pr["save"].up.ver + 1] ELSE heap
  /\ pr' = Ends("save")
  /\ UNCHANGED <<srv, landed, stray, local, sess, open, reopening, fails>>

\* Mutation of SaveRefused: the upload is tried again at the version the server is at.
SaveRefusedVariant ==
  /\ Running("save", "refused")
  /\ pr' = [pr EXCEPT !["save"].stage = "sent", !["save"].up.ver = srv.ver]
  /\ UNCHANGED <<srv, landed, stray, local, sess, heap, open, reopening, fails>>

\* A newer version: lock, so that the next unlock downloads it.
SaveRefused ==
  /\ Running("save", "refused")
  /\ Locks /\ pr' = Outdated(Ends("save"))
  /\ UNCHANGED <<srv, landed, stray, local, fails>>
  /\ Keeps

SaveDenied ==
  /\ Running("save", "denied")
  /\ Revoked(Ends("save"))
  /\ UNCHANGED <<srv, landed, stray, fails>>
  /\ Keeps

SaveLost ==
  /\ Is(pr["save"]) /\ pr["save"].stage \in Uploading \ {"made"} /\ fails < MaxFails
  /\ fails' = fails + 1
  /\ GivesUp
  /\ DropsCopy /\ pr' = Ends("save")
  /\ UNCHANGED <<srv, landed, local, sess, reopening>>
  /\ Keeps

(* ------------------------------------------------- pairing, the outside --- *)

\* The options page stores the new token; the worker hears of it a message later.
Pairs ==
  /\ local.token = 0 /\ srv.issued < MaxToken
  /\ srv' = [srv EXCEPT !.issued = @ + 1, !.tokens = @ \union {srv.issued + 1}]
  /\ local' = [token |-> srv.issued + 1, told |-> FALSE]
  /\ UNCHANGED <<landed, stray, sess, heap, open, reopening, pr, fails>>

PairedTold ==
  /\ ~local.told
  /\ local' = [local EXCEPT !.told = TRUE]
  /\ Locks /\ pr' = Outdated(pr)
  /\ UNCHANGED <<srv, landed, stray, fails>>
  /\ Keeps

\* The device is deleted on the server when it can be reached, the pairing here always.
Unpairs(reached) ==
  /\ local.token # 0 /\ local.told
  /\ srv' = IF reached THEN [srv EXCEPT !.tokens = @ \ {local.token}] ELSE srv
  /\ local' = [local EXCEPT !.token = 0]
  /\ Locks /\ pr' = Outdated(pr)
  /\ UNCHANGED <<landed, stray, fails>>
  /\ Keeps

OtherSaves ==
  /\ srv.ver < MaxVersion
  /\ \E e \in Theirs \ srv.content :
        /\ srv' = [srv EXCEPT !.ver = @ + 1, !.content = @ \union {e}]
        /\ landed' = landed \union {e}
  /\ UNCHANGED <<stray, local, sess, heap, open, reopening, pr, fails>>

\* The key changes first; the devices are ended after that.
OtherRotates ==
  /\ srv.ver < MaxVersion /\ srv.keys < MaxKey
  /\ srv' = [srv EXCEPT !.ver = @ + 1, !.file = srv.keys + 1, !.env = srv.keys + 1, !.keys = @ + 1]
  /\ UNCHANGED <<landed, stray, local, sess, heap, open, reopening, pr, fails>>

DevicesEnded ==
  /\ srv.tokens # {}
  /\ srv' = [srv EXCEPT !.tokens = {}]
  /\ UNCHANGED <<landed, stray, local, sess, heap, open, reopening, pr, fails>>

StrayArrives ==
  /\ \E up \in stray :
       /\ stray' = stray \ {up}
       /\ IF Taken(up) THEN Commit(up) ELSE UNCHANGED <<srv, landed>>
  /\ UNCHANGED <<local, sess, heap, open, reopening, pr, fails>>

(* ------------------------------------------------------------------------- *)

Next ==
  \/ Lock \/ CheckDevice \/ \E restart \in BOOLEAN : WorkerStops(restart)
  \/ UnlockBegins \/ UnlockGoesOn \/ UnlockFails \/ UnlockMetadata \/ UnlockFile \/ UnlockStores \/ UnlockEnds
  \/ \E fill \in BOOLEAN : ReadBegins(fill)
  \/ \E e \in Mine \ landed : SaveBegins(e)
  \/ \E h \in Ensures : EnsureGoesOn(h)
  \/ \E g \in 1..3 : Reopens(g)
  \/ ReadCommits \/ NoForm \/ FillEnds \/ \E page \in Pages : FillFrame(page) \/ \E login \in Logins : Probes(login, page)
  \/ SaveCommits \/ SaveAsks \/ SaveChecked \/ SaveSends
  \/ SaveArrives \/ SaveAccepted \/ SaveRefused \/ SaveDenied \/ SaveLost
  \/ Pairs \/ PairedTold \/ \E reached \in BOOLEAN : Unpairs(reached)
  \/ OtherSaves \/ OtherRotates \/ DevicesEnded \/ StrayArrives

Spec == Init /\ [][Next]_vars

(* ------------------------------------------------------------ properties --- *)

\* Work that started before a lock does not commit after it: the vault in memory
\* and the key in session storage are those of a request no lock came after, but
\* for the moment between writing a key and looking at the generation.
LockHolds ==
  /\ Is(open) => ~open.late
  /\ Is(sess) /\ ~Running("unlock", "check") => ~sess.late

\* An extension the server no longer accepts, or that was unpaired, holds neither
\* a key nor an open vault, whatever unlock or download was under way.
RevokedHoldsNoKey ==
  local.token = 0 => ~Is(open) /\ (Is(sess) => Running("unlock", "check"))

\* The open vault shows no login the server never stored, but for the one being
\* saved: a failed save leaves nothing that a list shows or a later save carries.
NoPhantom ==
  Is(open) => heap[open.id].content \subseteq
                landed \union (IF Is(pr["save"]) /\ pr["save"].id = open.id THEN {pr["save"].login} ELSE {})

\* The extension only ever adds to the version it downloaded: no version loses a
\* login another session stored.
Register == INSTANCE VaultRegister WITH
  Contents <- Logins, version <- srv.ver, head <- srv.content, agreed <- FALSE

NothingOverwritten == Register!Spec

====
