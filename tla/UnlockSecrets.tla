---- MODULE UnlockSecrets ----
(* The security page of one tab (SecuritySettings.tsx): changing the master
   password, a new paper code, showing the vault key, rotating it, and signing
   out devices, over the envelopes the server keeps beside the vault file, while
   other sessions save, rotate and change them too. A secret is a number, drawn
   for a password or a paper code, 1 the first password; a key is a number; an
   envelope is the secret that opens it and the key inside.
   Bounds: one handler of the page at a time in a tab, also after its page is gone;
   a device row's own request is one step, as nothing else decides its outcome. *)
EXTENDS Integers, FiniteSets

CONSTANTS Devices, MaxKey, MaxSecret, MaxVersion,
          MaxFails,   \* bound: requests that fail, or lose their answer
          Careful     \* what is assumed not to happen, see below

\* "named": after a rotation the devices can be listed, and no second rotation is
\* asked for while some are named as not signed out.
ASSUME CarefulAssumption == Careful \subseteq {"named"}

VARIABLES
  srv,      \* version, key of the file, the password's envelope, the paper code's
  paired,   \* the key each paired device took, 0 when it is not paired
  tab,      \* the open vault: its key, the queue's version, unsaved edits
  page,     \* the security page, while it is mounted
  op,       \* the handler under way
  wire,     \* requests given up on that may still arrive
  codes,    \* secrets that are paper codes
  stored,   \* secrets the server has kept in an envelope
  made,     \* secrets and keys drawn so far
  fails

vars == <<srv, paired, tab, page, op, wire, codes, stored, made, fails>>

None == [none |-> TRUE]
Is(r) == r # None
Env(secret, key) == [secret |-> secret, key |-> key]

\* Its lists of devices and of sessions, the devices a rotation left behind, the
\* paper code and the vault key on screen, and the message that the key is rotated.
Mounted(devs) ==
  [devs |-> devs, rows |-> devs, left |-> {}, code |-> 0, bare |-> FALSE, rotated |-> FALSE]
Paired == {d \in Devices : paired[d] # 0}

Init ==
  /\ srv = [ver |-> 1, file |-> 1, pw |-> Env(1, 1), rec |-> Env(0, 1)]
  /\ paired = [d \in Devices |-> 0]
  /\ tab = None /\ page = None /\ op = None /\ wire = {} /\ codes = {} /\ stored = {1}
  /\ made = [secret |-> 1, key |-> 1] /\ fails = 0

On(ps) == Is(page) /\ ps
Busy == Is(op)
NewSecret == made.secret + 1
MayDraw == made.secret < MaxSecret
MayFail == fails < MaxFails
Fails == MayFail /\ fails' = fails + 1

(* --------------------------------------------------------------- server --- *)

\* PUT /api/vault/envelopes: refused when the vault moved on, and it does not move
\* the vault on itself.
Taken(r) == r.ver = srv.ver

\* The whole triple of a rotation under one lock.
RotatesTo(key, secret, code) ==
  srv' = [ver |-> srv.ver + 1, file |-> key, pw |-> Env(secret, key), rec |-> Env(code, key)]

Keeps(r) ==
  /\ CASE r.kind = "change" -> srv' = [srv EXCEPT !.pw = Env(r.secret, r.key)]
       [] r.kind = "paper"  -> srv' = [srv EXCEPT !.rec = Env(r.code, r.key)]
       [] r.kind = "rotate" -> RotatesTo(r.key, r.secret, r.code)
  /\ stored' = stored \union ({r.secret, r.code} \ {0})

\* A rotation signs every device out, unless the server stops first.
SignsOut(r) == paired' = IF r.kind = "rotate" THEN [d \in Devices |-> 0] ELSE paired
StopsFirst(r) == r.kind = "rotate" /\ Paired # {} /\ Fails /\ UNCHANGED paired

(* ------------------------------------------------------- other sessions --- *)

OtherSaves ==
  /\ srv.ver < MaxVersion
  /\ srv' = [srv EXCEPT !.ver = @ + 1]
  /\ UNCHANGED <<paired, tab, page, op, wire, codes, stored, made, fails>>

OtherChanges(paper) ==
  /\ MayDraw /\ made' = [made EXCEPT !.secret = @ + 1]
  /\ srv' = IF paper THEN [srv EXCEPT !.rec = Env(NewSecret, srv.file)]
            ELSE [srv EXCEPT !.pw = Env(NewSecret, srv.file)]
  /\ codes' = IF paper THEN codes \union {NewSecret} ELSE codes
  /\ stored' = stored \union {NewSecret}
  /\ UNCHANGED <<paired, tab, page, op, wire, fails>>

OtherRotates ==
  /\ MayDraw /\ srv.ver < MaxVersion /\ made.key < MaxKey
  /\ made' = [secret |-> NewSecret, key |-> made.key + 1]
  /\ RotatesTo(made.key + 1, srv.pw.secret, NewSecret)
  /\ codes' = codes \union {NewSecret} /\ stored' = stored \union {NewSecret}
  /\ paired' = [d \in Devices |-> 0]
  /\ UNCHANGED <<tab, page, op, wire, fails>>

Pairs(d) ==
  /\ paired[d] = 0
  /\ paired' = [paired EXCEPT ![d] = srv.file]
  /\ UNCHANGED <<srv, tab, page, op, wire, codes, stored, made, fails>>

(* ------------------------------------------------------------- the tab --- *)

\* A master password or the paper code, each against its own envelope.
Opens(secret) ==
  IF srv.pw.secret = secret THEN srv.pw.key ELSE IF srv.rec.secret = secret THEN srv.rec.key ELSE 0

Unlock(secret) ==
  /\ ~Is(tab) /\ Opens(secret) = srv.file
  /\ tab' = [key |-> srv.file, ver |-> srv.ver, unsaved |-> FALSE]
  /\ UNCHANGED <<srv, paired, page, op, wire, codes, stored, made, fails>>

\* A question on the screen goes with the page; a handler past it runs on.
Gone(locked) ==
  IF ~Busy \/ op.stage = "confirm" THEN None
  ELSE [op EXCEPT !.alive = FALSE, !.live = @ /\ ~locked]

Lock ==
  /\ Is(tab)
  /\ tab' = None /\ page' = None /\ op' = Gone(TRUE)
  /\ UNCHANGED <<srv, paired, wire, codes, stored, made, fails>>

\* The page loads its lists as it mounts.
EntersPage ==
  /\ Is(tab) /\ ~Is(page) /\ ~Busy
  /\ page' = Mounted(Paired)
  /\ UNCHANGED <<srv, paired, tab, op, wire, codes, stored, made, fails>>

\* A question is modal: it is answered before another part of the app opens.
LeavesPage ==
  /\ Is(page) /\ ~(Is(op) /\ op.stage = "confirm")
  /\ page' = None /\ op' = Gone(FALSE)
  /\ UNCHANGED <<srv, paired, tab, wire, codes, stored, made, fails>>

Edit ==
  /\ Is(tab) /\ ~tab.unsaved
  /\ tab' = [tab EXCEPT !.unsaved = TRUE]
  /\ UNCHANGED <<srv, paired, page, op, wire, codes, stored, made, fails>>

\* The save the queue owes, or the edits are discarded and the vault is read again.
Settles ==
  /\ Is(tab) /\ tab.unsaved
  /\ ~(Is(op) /\ op.kind = "rotate" /\ op.stage \in {"sent", "landed", "refused", "ask"})
  /\ \/ /\ tab.ver = srv.ver /\ srv.ver < MaxVersion
        /\ srv' = [srv EXCEPT !.ver = @ + 1]
        /\ tab' = [tab EXCEPT !.ver = @ + 1, !.unsaved = FALSE]
     \/ /\ tab.key = srv.file
        /\ tab' = [tab EXCEPT !.ver = srv.ver, !.unsaved = FALSE]
        /\ UNCHANGED srv
  /\ UNCHANGED <<paired, page, op, wire, codes, stored, made, fails>>

(* ------------------------------------------- a change, from click to PUT --- *)

Asking(kind, stage, secret) ==
  [kind |-> kind, stage |-> stage, typed |-> secret, secret |-> 0, code |-> 0,
   key |-> tab.key, ver |-> 0, list |-> {},
   alive |-> TRUE,   \* the page that asked is still mounted
   live |-> TRUE]    \* and the vault it asked about still open (unlockGeneration)

Starts(kind, stage, secret) ==
  /\ Is(page) /\ ~Busy
  /\ op' = Asking(kind, stage, secret)
  /\ UNCHANGED <<srv, paired, tab, page, wire, codes, stored, made, fails>>

\* The password form asks no question first.
ChangeStarts(secret) == Starts("change", "prove", secret)

\* A new code may be asked for while another is still on the screen.
PaperStarts(secret) == Starts("paper", "confirm", secret)

RevealStarts(secret) == On(~page.bare) /\ Starts("reveal", "confirm", secret)

\* A rotation needs a saved vault.
RotateStarts(secret) ==
  /\ On(~tab.unsaved) /\ ("named" \in Careful => page.left = {})
  /\ Starts("rotate", "confirm", secret)

\* A new rotation forgets which devices the last one could not sign out, and its message.
Confirms(yes) ==
  /\ Is(op) /\ op.stage = "confirm"
  /\ op' = IF yes THEN [op EXCEPT !.stage = "prove"] ELSE None
  /\ page' = IF yes /\ op.kind = "rotate" THEN [page EXCEPT !.left = {}, !.rotated = FALSE] ELSE page
  /\ UNCHANGED <<srv, paired, tab, wire, codes, stored, made, fails>>

Proving(env) == env.secret = op.typed /\ env.key = op.key

\* Mutation of Proven: the secret opens an envelope, to whatever key.
ProvenVariant ==
  \/ srv.pw.secret = op.typed
  \/ op.kind # "rotate" /\ srv.rec.secret = op.typed

\* proveCurrentPassword: the secret typed must open a stored envelope to this tab's
\* own key. A rotation takes the master password alone.
Proven ==
  \/ Proving(srv.pw)
  \/ op.kind # "rotate" /\ Proving(srv.rec)

\* What a proof lets the handler do next, the page's own part of it.
ProofShows ==
  CASE op.kind = "reveal" -> [page EXCEPT !.bare = TRUE]
    [] op.kind = "paper"  -> [page EXCEPT !.code = 0]
    [] op.kind = "rotate" -> [page EXCEPT !.code = 0, !.bare = FALSE]
    [] op.kind = "change" -> page

\* The new password, code and key are drawn once the proof holds, and the version
\* is the one it held for.
Proves ==
  /\ Is(op) /\ op.stage = "prove" /\ op.alive
  /\ op.kind \in {"change", "paper", "rotate"} => MayDraw
  /\ op.kind = "rotate" => made.key < MaxKey
  /\ LET draws == Proven /\ op.kind # "reveal"
         coded == op.kind \in {"paper", "rotate"}
     IN /\ page' = IF Proven THEN ProofShows ELSE page
        /\ made' = IF draws THEN [secret |-> NewSecret, key |-> IF op.kind = "rotate" THEN made.key + 1 ELSE made.key]
                   ELSE made
        /\ codes' = IF draws /\ coded THEN codes \union {NewSecret} ELSE codes
        /\ op' = IF draws
             THEN [op EXCEPT !.stage = "send", !.typed = 0, !.ver = srv.ver, !.code = IF coded THEN NewSecret ELSE 0,
                             !.key = IF op.kind = "rotate" THEN made.key + 1 ELSE @,
                             !.secret = CASE op.kind = "change" -> NewSecret
                                          [] op.kind = "rotate" -> op.typed
                                          [] OTHER -> 0]
             ELSE None
  /\ UNCHANGED <<srv, paired, tab, wire, stored, fails>>

\* The metadata could not be read, or the page went while it was.
ProofFails ==
  /\ Is(op) /\ op.stage = "prove"
  /\ IF op.alive THEN Fails ELSE UNCHANGED fails
  /\ op' = None
  /\ UNCHANGED <<srv, paired, tab, page, wire, codes, stored, made>>

\* A rotation runs in the queue's turn, at the queue's version, if it still is saved.
MaySend == IF op.kind = "rotate" THEN op.live /\ ~tab.unsaved ELSE op.alive

Sends ==
  /\ Is(op) /\ op.stage = "send"
  /\ op' = IF MaySend
             THEN [op EXCEPT !.stage = "sent", !.ver = IF op.kind = "rotate" THEN tab.ver ELSE @]
             ELSE None
  /\ UNCHANGED <<srv, paired, tab, page, wire, codes, stored, made, fails>>

Arrives ==
  /\ Is(op) /\ op.stage = "sent"
  /\ IF Taken(op)
       THEN /\ op.kind = "rotate" => srv.ver < MaxVersion
            /\ Keeps(op)
            /\ \/ SignsOut(op) /\ op' = [op EXCEPT !.stage = "landed"] /\ UNCHANGED fails
               \/ StopsFirst(op) /\ op' = [op EXCEPT !.stage = "ask"]
       ELSE /\ op' = [op EXCEPT !.stage = "refused"]
            /\ UNCHANGED <<srv, stored, paired, fails>>
  /\ UNCHANGED <<tab, page, wire, codes, made>>

WireArrives ==
  /\ \E r \in wire :
       /\ wire' = wire \ {r}
       /\ IF Taken(r)
            THEN /\ r.kind = "rotate" => srv.ver < MaxVersion
                 /\ Keeps(r)
                 /\ \/ SignsOut(r) /\ UNCHANGED fails
                    \/ StopsFirst(r)
            ELSE UNCHANGED <<srv, stored, paired, fails>>
  /\ UNCHANGED <<tab, page, op, codes, made>>

Request == [kind |-> op.kind, ver |-> op.ver, secret |-> op.secret, code |-> op.code, key |-> op.key]

\* The answer never comes: the request arrived, is still to arrive, or never will.
Loses ==
  /\ Is(op) /\ op.stage \in {"sent", "landed", "refused"} /\ Fails
  /\ wire' \in {wire} \union (IF op.stage = "sent" THEN {wire \union {Request}} ELSE {})
  /\ op' = IF op.kind = "rotate" THEN [op EXCEPT !.stage = "ask"] ELSE None
  /\ UNCHANGED <<srv, paired, tab, page, codes, stored, made>>

Refused ==
  /\ Is(op) /\ op.stage = "refused"
  /\ op' = None
  /\ UNCHANGED <<srv, paired, tab, page, wire, codes, stored, made, fails>>

\* A changed password reads the vault again with the key this device was trusted
\* with, which opens it only while no other session rotated it.
Changed ==
  /\ Is(op) /\ op.stage = "landed" /\ op.kind = "change"
  /\ op' = None
  /\ tab' = IF op.alive /\ tab.key = srv.file /\ ~tab.unsaved THEN [tab EXCEPT !.ver = srv.ver] ELSE tab
  /\ UNCHANGED <<srv, paired, page, wire, codes, stored, made, fails>>

Coded ==
  /\ Is(op) /\ op.stage = "landed" /\ op.kind = "paper"
  /\ op' = None
  /\ page' = IF op.alive THEN [page EXCEPT !.code = op.code] ELSE page
  /\ UNCHANGED <<srv, paired, tab, wire, codes, stored, made, fails>>

(* ------------------------------------------------------------- rotation --- *)

\* The rotation is in force: the tab holds the new key, unless it locked meanwhile.
Rotated ==
  /\ op' = [op EXCEPT !.stage = "list"]
  /\ tab' = IF op.live THEN [key |-> op.key, ver |-> op.ver + 1, unsaved |-> FALSE] ELSE tab
  /\ UNCHANGED page

RotationEnds ==
  /\ Is(op) /\ op.stage = "landed" /\ op.kind = "rotate"
  /\ Rotated
  /\ UNCHANGED <<srv, paired, wire, codes, stored, made, fails>>

Ours == srv.pw = Env(op.secret, op.key) /\ srv.rec = Env(op.code, op.key)

\* Mutation of AnswerFound: what the metadata says about the version is enough.
AnswerFoundVariant == srv.ver = op.ver \/ srv.ver = op.ver + 1

\* A lost answer is looked up: both envelopes are ours, and nothing was saved since.
AnswerFound == Ours /\ srv.ver = op.ver + 1

\* Otherwise nothing landed as far as the tab can tell, or it cannot tell and locks.
RotationAsks ==
  /\ Is(op) /\ op.stage = "ask"
  /\ \/ AnswerFound /\ Rotated /\ UNCHANGED fails
     \/ /\ ~AnswerFound /\ ~Ours /\ op' = None
        /\ UNCHANGED <<tab, page, fails>>
     \/ /\ (~AnswerFound /\ Ours /\ UNCHANGED fails) \/ Fails
        /\ op' = None /\ tab' = None /\ page' = None
  /\ UNCHANGED <<srv, paired, wire, codes, stored, made>>

\* The devices still there, or the page's own list when they cannot be read; the
\* new code is shown while they are signed out.
Lists ==
  /\ Is(op) /\ op.stage = "list"
  /\ \/ op' = [op EXCEPT !.stage = "revoke", !.list = Paired] /\ UNCHANGED fails
     \/ /\ "named" \notin Careful /\ Is(page) /\ op.alive /\ Fails
        /\ op' = [op EXCEPT !.stage = "revoke", !.list = page.devs]
  /\ page' = IF op.alive THEN [page EXCEPT !.code = op.code] ELSE page
  /\ UNCHANGED <<srv, paired, tab, wire, codes, stored, made>>

Without(ds) == [d \in Devices |-> IF d \in ds THEN 0 ELSE paired[d]]

\* Mutation of Remaining: the devices named are the ones that went.
RemainingVariant(list, failed) == list \ failed

Remaining(list, failed) == failed

\* revokeDevices: every device is tried, the ones already gone count as gone.
RevokesAll(list, failed) ==
  /\ failed \subseteq list \cap Paired
  /\ IF failed = {} THEN UNCHANGED fails ELSE Fails
  /\ paired' = Without(list \ failed)

Named(list, failed) ==
  [page EXCEPT !.left = Remaining(list, failed), !.devs = (@ \ list) \union (@ \cap failed)]

RotationRevokes ==
  /\ Is(op) /\ op.stage = "revoke"
  /\ \E failed \in SUBSET op.list :
       /\ RevokesAll(op.list, failed)
       /\ page' = IF op.alive THEN [Named(op.list, failed) EXCEPT !.rotated = TRUE] ELSE page
  /\ op' = None
  /\ UNCHANGED <<srv, tab, wire, codes, stored, made>>

RetryRevoking ==
  /\ On(page.left # {}) /\ ~Busy
  /\ \E failed \in SUBSET page.left :
       RevokesAll(page.left, failed) /\ page' = Named(page.left, failed)
  /\ UNCHANGED <<srv, tab, op, wire, codes, stored, made>>

(* -------------------------------------------------- the rest of the page --- *)

\* A request for one row; one of a device that is gone fails, and the row stays.
Tried(d, done) ==
  \/ paired[d] # 0 /\ paired' = Without({d}) /\ page' = done /\ UNCHANGED fails
  \/ paired[d] = 0 /\ UNCHANGED <<paired, page, fails>>
  \/ Fails /\ UNCHANGED <<paired, page>>

RevokesOne(d) ==
  /\ On(d \in page.devs)
  /\ Tried(d, [page EXCEPT !.devs = @ \ {d}])
  /\ UNCHANGED <<srv, tab, op, wire, codes, stored, made>>

\* A device ends with its session, and the list of devices is read again.
Ended(d) == [page EXCEPT !.rows = @ \ {d}, !.devs = Paired \ {d}]

EndsSession(d) ==
  /\ On(d \in page.rows)
  /\ Tried(d, Ended(d))
  /\ UNCHANGED <<srv, tab, op, wire, codes, stored, made>>

RevokesOthers ==
  /\ On(page.devs # {})
  /\ \E failed \in SUBSET page.devs : RevokesAll(page.devs, failed)
  /\ page' = [page EXCEPT !.devs = {d \in Devices : paired'[d] # 0}]
  /\ UNCHANGED <<srv, tab, op, wire, codes, stored, made>>

\* Closing the pairing dialog reads the list again.
Reloads ==
  /\ On(page.devs # Paired)
  /\ page' = [page EXCEPT !.devs = Paired]
  /\ UNCHANGED <<srv, paired, tab, op, wire, codes, stored, made, fails>>

\* After a time, when the tab is hidden, or when the user typed the code back.
Hides ==
  /\ On(page.code # 0 \/ page.bare)
  /\ page' \in {[page EXCEPT !.code = 0], [page EXCEPT !.bare = FALSE]} \ {page}
  /\ UNCHANGED <<srv, paired, tab, op, wire, codes, stored, made, fails>>

Next ==
  \/ OtherSaves \/ OtherRotates
  \/ \E paper \in BOOLEAN : OtherChanges(paper)
  \/ \E d \in Devices : Pairs(d) \/ RevokesOne(d) \/ EndsSession(d)
  \/ \E s \in 1..made.secret : Unlock(s)
  \/ Lock \/ EntersPage \/ LeavesPage \/ Edit \/ Settles
  \/ \E s \in 1..made.secret : ChangeStarts(s) \/ PaperStarts(s) \/ RevealStarts(s) \/ RotateStarts(s)
  \/ \E yes \in BOOLEAN : Confirms(yes)
  \/ Proves \/ ProofFails \/ Sends \/ Arrives \/ WireArrives \/ Loses \/ Refused
  \/ Changed \/ Coded \/ RotationEnds \/ RotationAsks \/ Lists \/ RotationRevokes
  \/ RetryRevoking \/ RevokesOthers \/ Reloads \/ Hides

Spec == Init /\ [][Next]_vars

(* ----------------------------------------------------------- properties --- *)

\* Whatever sessions do at once, the stored envelopes hold the key of the stored
\* file: no tab with a retired key writes one over a rotated vault, however late its
\* request arrives (proveCurrentPassword and SaveEnvelopes' version check).
EnvelopesOpenTheFile ==
  /\ srv.pw.key = srv.file
  /\ srv.rec.secret # 0 => srv.rec.key = srv.file

\* A paper code is put on the screen only once the server has kept it, also when
\* the answer to the rotation that drew it was lost (rotateAndUpload).
CodeShownWasKept == On(page.code # 0) => page.code \in stored

\* After the page reports a rotation, a device that still has a pairing under a
\* retired key is on the page, to be signed out there (revokeAll).
NamedOrGone ==
  On(page.rotated) => {d \in Paired : paired[d] < tab.key} \subseteq page.left \union page.devs

\* "Your master password does not change": a rotation that lands keeps the password
\* in force (handleRotateKey's question).
RotationKeepsPassword == [][srv'.file # srv.file => srv'.pw.secret = srv.pw.secret]_vars
====
