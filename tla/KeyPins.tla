---- MODULE KeyPins ----
(* The keys of other people: pinned on first use in the personal vault
   (lib/keyPins.ts), decided on in the members dialog, the invitation dialog and
   the list of known keys, and sealed to (lib/sharedFlows.ts, planRotation). One
   tab of an owner of a shared vault, against a server that may publish any key
   for anybody, and another device that writes the same personal vault.

   A key is a number, 0 is none. Pinning and sealing, which wait for no request,
   are one step, and so are the lookups of one load: what they found is as old as
   it gets while it is on screen. Bounds: one request of the dialogs at a time, one
   upload of pins waiting behind the one on its way, no request while the members
   dialog loads.

   Careful is what is assumed not to happen: "switch", that a key is decided on
   while the vault on screen changes. *)
EXTENDS Integers
CONSTANTS
    None,
    People,
    MaxKey, MaxVersion,     \* bounds: keys of a person, versions of the personal vault
    Again,                  \* bound: whether a key that was replaced may be published again
    Careful
VARIABLES
    published,  \* the key the server publishes for each person
    stored,     \* the personal vault on the server: its version and its pins
    local,      \* the one this tab holds: the pins of the version it was made from, edits
                \* no version has, and the keys it pinned for each person
    at,         \* what is on screen, and what a switch back waits for
    queue,      \* the personal vault's save queue, while it is on screen
    chain,      \* the uploads of pins made while a shared vault is on screen
    dialog,     \* the members dialog: the verdicts it shows, and its loads
    act,        \* what it sent: the key sealed to, for each person
    ask,        \* a key shown to the user that waits for an answer
    owed        \* whom a decision is about that no version has, and no notice gave up
tab == <<local, at, queue, chain, dialog, act, ask>>
vars == <<published, stored, tab, owed>>

Is(x) == x # None
Keys == 1..MaxKey
NoKeys == [p \in People |-> 0]
Nobody == [p \in People |-> None]

Init ==
    /\ published = NoKeys
    /\ stored = [ver |-> 1, pins |-> NoKeys]
    /\ local = None /\ at = [on |-> "lock", waits |-> 0, ver |-> 0]
    /\ queue = None /\ chain = [next |-> FALSE, up |-> None]
    /\ dialog = None /\ act = None /\ ask = None
    /\ owed = {}

On(where) == at.on = where
At(where) == at' = [on |-> where, waits |-> 0, ver |-> 0]

----
\* The server, and the other device.

Publishes ==
    /\ \E p \in People, k \in Keys :
         /\ published[p] # k /\ (published[p] < k \/ Again)
         /\ published' = [published EXCEPT ![p] = k]
    /\ UNCHANGED <<stored, tab, owed>>

\* The other device saves an edit, or pins somebody nobody pinned yet.
OtherSaves ==
    /\ stored.ver < MaxVersion
    /\ \/ stored' = [stored EXCEPT !.ver = @ + 1]
       \/ \E p \in People, k \in Keys :
            /\ stored.pins[p] = 0
            /\ stored' = [ver |-> stored.ver + 1, pins |-> [stored.pins EXCEPT ![p] = k]]
    /\ UNCHANGED <<published, tab, owed>>

----
\* The personal vault in this tab.

Copy(from, ver) == [ver |-> ver, pins |-> from.pins, base |-> from.pins, edits |-> "saved", stale |-> FALSE,
                    mine |-> [p \in People |-> {}]]
Fresh(ver) == [state |-> "saved", ver |-> ver]

Unlock ==
    /\ On("lock")
    /\ local' = Copy(stored, stored.ver) /\ queue' = Fresh(stored.ver)
    /\ At("personal")
    /\ UNCHANGED <<published, stored, chain, dialog, act, ask, owed>>

\* A lock keeps nothing; what it was sent is still taken.
Closes ==
    /\ local' = None /\ queue' = None /\ At("lock")
    /\ dialog' = None /\ ask' = None /\ owed' = {}
    /\ chain' = [chain EXCEPT !.up = IF Is(@) THEN [@ EXCEPT !.late = TRUE] ELSE None]

Lock == Is(local) /\ Closes /\ UNCHANGED <<published, stored, act>>

\* An edit of an entry, which only the queue of the vault on screen may upload.
Edit ==
    /\ On("personal") /\ local.edits = "saved"
    /\ local' = [local EXCEPT !.edits = "new"]
    /\ queue' = [queue EXCEPT !.state = IF @ = "saved" THEN "unsaved" ELSE @]
    /\ UNCHANGED <<published, stored, at, chain, dialog, act, ask, owed>>

MayStore(ver) == ver = stored.ver => ver < MaxVersion
DecidedIn(copy) == {p \in People : copy.mine[p] # {}}
Stores(copy) == stored' = [ver |-> stored.ver + 1, pins |-> copy.pins] /\ owed' = owed \ DecidedIn(copy)

\* A save, and the answer to it.
Save ==
    /\ On("personal") /\ queue.state = "unsaved" /\ MayStore(queue.ver)
    /\ IF queue.ver = stored.ver
       THEN Stores(local) /\ queue' = Fresh(stored.ver + 1)
            /\ local' = [local EXCEPT !.edits = "saved", !.base = local.pins]
       ELSE queue' = [queue EXCEPT !.state = "conflict"] /\ UNCHANGED <<stored, owed, local>>
    /\ UNCHANGED <<published, at, chain, dialog, act, ask>>

\* Told of a newer version, the user puts this copy over it.
Overwrite ==
    /\ On("personal") /\ queue.state = "conflict" /\ stored.ver < MaxVersion
    /\ Stores(local) /\ queue' = Fresh(stored.ver + 1)
    /\ local' = [local EXCEPT !.edits = "saved", !.base = local.pins]
    /\ UNCHANGED <<published, at, chain, dialog, act, ask>>

\* Mutation of Stale: only edits still being saved make the kept copy stale.
StaleVariant(editing) == queue.state = "unsaved"

\* The copy kept behind a shared vault is stale once edits in it were discarded.
Stale(editing) == queue.state # "saved" \/ editing

\* Its queue is closed, and the discarded upload may have been taken already.
Leaves(editing) ==
    /\ On("personal") /\ ~Is(ask)
    /\ \E taken \in BOOLEAN :
        IF taken /\ queue.state = "unsaved" /\ queue.ver = stored.ver /\ stored.ver < MaxVersion
        THEN Stores(local)
        ELSE UNCHANGED stored /\ owed' = IF Stale(editing) THEN {} ELSE owed
    /\ local' = [local EXCEPT !.ver = queue.ver, !.stale = @ \/ Stale(editing),
                             !.edits = IF @ = "new" THEN "discarded" ELSE @]
    /\ queue' = None /\ At("leaving")
    /\ UNCHANGED <<published, chain, dialog, act, ask>>

\* The personal vault is opened again once the uploads under way have ended.
Returning ==
    at' = [on |-> "returning", ver |-> 0,
           waits |-> (IF Is(chain.up) THEN 1 ELSE 0) + (IF chain.next THEN 1 ELSE 0)]

Opens ==
    /\ On("leaving")
    /\ \/ At("shared")
       \/ Returning
    /\ UNCHANGED <<published, stored, local, queue, chain, dialog, act, ask, owed>>

\* The user goes back, or access to the shared vault was lost.
Returns ==
    /\ On("shared") /\ ~(Is(act) /\ act.kind = "rotate")
    /\ Returning
    /\ UNCHANGED <<published, stored, local, queue, chain, dialog, act, ask, owed>>

Applied(copy) ==
    /\ local' = copy /\ queue' = Fresh(copy.ver)
    /\ At("personal") /\ dialog' = None

ReturnKept ==
    /\ On("returning") /\ at.waits = 0 /\ at.ver = 0 /\ ~local.stale
    /\ Applied(local)
    /\ UNCHANGED <<published, stored, chain, act, ask, owed>>

ReturnMetadata ==
    /\ On("returning") /\ at.waits = 0 /\ at.ver = 0 /\ local.stale
    /\ at' = [at EXCEPT !.ver = stored.ver]
    /\ UNCHANGED <<published, stored, local, queue, chain, dialog, act, ask, owed>>

\* A stale copy is replaced by the server's; the tab locks when that fails.
ReturnFile ==
    /\ On("returning") /\ at.ver > 0
    /\ \/ /\ Applied(Copy(stored, at.ver))
          /\ ask' = IF Is(ask) THEN [ask EXCEPT !.old = TRUE] ELSE None
          /\ UNCHANGED <<chain, owed>>
       \/ Closes
    /\ UNCHANGED <<published, stored, act>>

----
\* Pins and their uploads.

\* Mutation of SavePins: the queue on screen saves them, whose vault it is.
SavePinsVariant ==
    /\ queue' = IF Is(queue) /\ queue.state = "saved" THEN [queue EXCEPT !.state = "unsaved"] ELSE queue
    /\ UNCHANGED chain

SavePins ==
    IF On("personal") \/ On("leaving")
    THEN /\ queue' = IF Is(queue) /\ queue.state = "saved" THEN [queue EXCEPT !.state = "unsaved"] ELSE queue
         /\ UNCHANGED chain
    ELSE chain' = [chain EXCEPT !.next = TRUE] /\ UNCHANGED queue

MayDecide == Is(local) /\ ~chain.next /\ ("switch" \in Careful => at.on \notin {"leaving", "returning"})

\* The keys of some people are decided on, in the copy that decision was made in.
Decides(keys, inOld) ==
    LET decided == {p \in People : Is(keys[p])}
    IN  IF decided = {} THEN UNCHANGED <<local, queue, chain, owed>>
        ELSE /\ MayDecide /\ SavePins
             /\ local' = IF inOld THEN local
                         ELSE [local EXCEPT !.pins = [p \in People |-> IF Is(keys[p]) THEN keys[p] ELSE @[p]],
                                                !.mine = [p \in People |-> IF Is(keys[p]) THEN @[p] \cup {keys[p]} ELSE @[p]]]
             /\ owed' = owed \cup decided

\* A run of the chain. Against a stale copy, it only says that nothing was saved.
ChainStarts ==
    /\ chain.next /\ ~Is(chain.up)
    /\ LET ends == ~Is(local) \/ local.stale
       IN  /\ chain' = [next |-> FALSE, up |-> IF ends THEN None
                          ELSE [ver |-> local.ver, pins |-> local.pins, edits |-> local.edits,
                                base |-> local.base, mine |-> local.mine, late |-> FALSE, answer |-> None]]
           /\ owed' = IF ends THEN {} ELSE owed
           /\ at' = IF ends /\ at.waits > 0 THEN [at EXCEPT !.waits = @ - 1] ELSE at
    /\ UNCHANGED <<published, stored, local, queue, dialog, act, ask>>

ChainArrives ==
    /\ Is(chain.up) /\ ~Is(chain.up.answer) /\ MayStore(chain.up.ver)
    /\ IF chain.up.ver = stored.ver
       THEN Stores(chain.up) /\ chain' = [chain EXCEPT !.up.answer = "ok"]
       ELSE UNCHANGED <<stored, owed>> /\ chain' = [chain EXCEPT !.up.answer = "conflict"]
    /\ UNCHANGED <<published, local, at, queue, dialog, act, ask>>

\* Mutation of Refused: the next upload names the version that was in the way.
RefusedVariant(copy) == [copy EXCEPT !.ver = stored.ver]

\* A conflict makes the kept copy stale.
Refused(copy) == [copy EXCEPT !.stale = TRUE]

\* Every end but a landed upload says that the pin was not saved. A run that waited
\* through a lock may end with the personal vault on screen, whose version is then
\* its queue's.
ChainEnds ==
    /\ Is(chain.up)
    /\ \E lost \in BOOLEAN :
        /\ lost \/ Is(chain.up.answer)
        /\ LET ok == ~lost /\ chain.up.answer = "ok"
           IN  /\ local' = IF chain.up.late THEN local
                           ELSE IF ok THEN [local EXCEPT !.ver = chain.up.ver + 1,
                                                         !.base = IF On("personal") THEN @ ELSE chain.up.pins]
                           ELSE IF lost THEN local ELSE Refused(local)
               /\ owed' = IF ok THEN owed ELSE {}
    /\ chain' = [chain EXCEPT !.up = None]
    /\ at' = IF at.waits > 0 THEN [at EXCEPT !.waits = @ - 1] ELSE at
    /\ UNCHANGED <<published, stored, queue, dialog, act, ask>>

----
\* The verdict on a person's key, and the members dialog.

\* A lookup that finds no key says so instead of showing one. (One that fails shows
\* the same, with another problem.)
Problem == [key |-> 0, state |-> "problem"]

Verdict(p) ==
    IF published[p] = 0 THEN Problem
    ELSE [key |-> published[p],
          state |-> IF local.pins[p] = 0 THEN "unknown"
                    ELSE IF local.pins[p] = published[p] THEN "pinned" ELSE "changed"]

\* What may be sealed to: a key on screen that no pin contradicts.
MaySeal(view) == Is(view) /\ view.key # 0 /\ view.state # "changed"

InDialog == Is(dialog) /\ Is(local)
Loads(d) == [d EXCEPT !.loads = TRUE]

OpensDialog ==
    /\ On("shared") /\ ~Is(dialog) /\ ~Is(ask)
    /\ dialog' = [views |-> Nobody, loads |-> TRUE, guest |-> None]
    /\ UNCHANGED <<published, stored, local, at, queue, chain, act, ask, owed>>

ClosesDialog ==
    /\ Is(dialog) /\ dialog' = None
    /\ UNCHANGED <<published, stored, local, at, queue, chain, act, ask, owed>>

\* A load looks everybody up and shows what it found at once, or fails: the
\* verdicts stay.
LoadEnds ==
    /\ InDialog /\ dialog.loads
    /\ dialog' \in {[dialog EXCEPT !.views = [p \in People |-> Verdict(p)], !.loads = FALSE],
                    [dialog EXCEPT !.loads = FALSE]}
    /\ UNCHANGED <<published, stored, local, at, queue, chain, act, ask, owed>>

Free == InDialog /\ ~dialog.loads /\ ~Is(act) /\ ~Is(ask)

\* Mutation of SealsTo: the key is looked up again at the click.
SealsToVariant(kind, views) ==
    /\ act' = [kind |-> kind, keys |-> [p \in People |-> IF Is(views[p]) THEN published[p] ELSE 0]]
    /\ Decides([p \in People |-> IF Is(views[p]) /\ views[p].state = "unknown" THEN views[p].key ELSE None], FALSE)

\* The keys on screen are sealed to, and the unknown ones pinned as they are used.
SealsTo(kind, views) ==
    /\ act' = [kind |-> kind, keys |-> [p \in People |-> IF Is(views[p]) THEN views[p].key ELSE 0]]
    /\ Decides([p \in People |-> IF Is(views[p]) /\ views[p].state = "unknown" THEN views[p].key ELSE None], FALSE)

Only(p, view) == [Nobody EXCEPT ![p] = view]

Reseal(p) ==
    /\ Free /\ MaySeal(dialog.views[p])
    /\ SealsTo("reseal", Only(p, dialog.views[p]))
    /\ UNCHANGED <<published, stored, at, dialog, ask>>

\* A rotation waits for every verdict and leaves behind whom it cannot seal to.
Rotate ==
    /\ Free /\ On("shared")
    /\ \A p \in People : Is(dialog.views[p])
    /\ SealsTo("rotate", [p \in People |-> IF MaySeal(dialog.views[p]) THEN dialog.views[p] ELSE None])
    /\ UNCHANGED <<published, stored, at, dialog, ask>>

\* Another request: a name, a role, a removal.
OtherRequest ==
    /\ Free
    /\ act' = [kind |-> "other", keys |-> NoKeys]
    /\ UNCHANGED <<published, stored, local, at, queue, chain, dialog, ask, owed>>

\* The form's lookup. Typing in the form clears it, and so does a lookup that finds nobody.
LooksUpGuest ==
    /\ \/ InDialog /\ dialog' = [dialog EXCEPT !.guest = None]
       \/ /\ Free
          /\ \E p \in People :
               published[p] # 0 /\ dialog' = [dialog EXCEPT !.guest = [who |-> p, view |-> Verdict(p)]]
    /\ UNCHANGED <<published, stored, local, at, queue, chain, act, ask, owed>>

Invite ==
    /\ Free /\ Is(dialog.guest) /\ MaySeal(dialog.guest.view)
    /\ SealsTo("invite", Only(dialog.guest.who, dialog.guest.view))
    /\ UNCHANGED <<published, stored, at, dialog, ask>>

\* The server refuses a copy that is not sealed to the key it publishes, and for
\* what the vault's record says of the person; or the answer is lost.
Answers ==
    IF \E p \in People : act.keys[p] \notin {0, published[p]} THEN {"moved", "lost"} ELSE {"ok", "refused", "lost"}

\* The dialog reads the server again, after an invitation only when it was taken;
\* a key that moved under an invitation is shown anew, or the form is cleared.
ActEnds ==
    /\ Is(act)
    /\ act' = None
    /\ \E answer \in Answers :
        IF ~InDialog THEN UNCHANGED dialog
        ELSE IF act.kind # "invite" THEN dialog' = Loads(dialog)
        ELSE IF answer = "ok" THEN dialog' = [Loads(dialog) EXCEPT !.guest = None]
        ELSE IF answer # "moved" THEN UNCHANGED dialog
        ELSE \E p \in People : act.keys[p] # 0 /\ dialog' \in
               {[dialog EXCEPT !.guest = g] : g \in {None, [who |-> p, view |-> Verdict(p)]}}
    /\ UNCHANGED <<published, stored, local, at, queue, chain, ask, owed>>

----
\* The invitation dialog and the list of known keys: a key is shown, and the user
\* asked before another pin is replaced by it.

Shows ==
    /\ Is(local) /\ ~Is(dialog) /\ ~Is(act) /\ ~Is(ask)
    /\ \E p \in People : published[p] # 0 /\ ask' = [who |-> p, view |-> Verdict(p), old |-> FALSE]
    /\ UNCHANGED <<published, stored, local, at, queue, chain, dialog, act, owed>>

Cancels ==
    /\ Is(ask) /\ ask' = None
    /\ UNCHANGED <<published, stored, local, at, queue, chain, dialog, act, owed>>

\* The handler that asked holds the copy it asked about.
Confirms ==
    /\ Is(ask)
    /\ \E inOld \in {FALSE, ask.old /\ ask.view.state = "changed" /\ "switch" \notin Careful} :
        Decides(Only(ask.who, IF ask.view.state = "pinned" THEN None ELSE ask.view.key), inOld)
    /\ ask' = None
    /\ UNCHANGED <<published, stored, at, dialog, act>>

Forget ==
    /\ Is(local) /\ ~Is(dialog) /\ ~Is(ask)
    /\ \E p \in People : local.pins[p] # 0 /\ Decides(Only(p, 0), FALSE)
    /\ UNCHANGED <<published, stored, at, dialog, act, ask>>

Next ==
    \/ Publishes \/ OtherSaves \/ Unlock \/ Lock \/ Edit \/ Save \/ Overwrite
    \/ \E editing \in BOOLEAN : Leaves(editing)
    \/ Opens \/ Returns \/ ReturnKept \/ ReturnMetadata \/ ReturnFile
    \/ ChainStarts \/ ChainArrives \/ ChainEnds
    \/ OpensDialog \/ ClosesDialog \/ LoadEnds
    \/ \E p \in People : Reseal(p)
    \/ Rotate \/ OtherRequest \/ LooksUpGuest \/ Invite \/ ActEnds
    \/ Shows \/ Cancels \/ Confirms \/ Forget

Spec == Init /\ [][Next]_vars

----
\* Types. A verdict is what a lookup says of a key and of the pin.
Pins == [People -> Nat]
State == {"problem", "unknown", "pinned", "changed"}
View == [key : Nat, state : State]
Views == [People -> View \union {None}]
Guest == [who : People, view : View]
Made == {"saved", "new", "discarded"}
Mine == [People -> SUBSET Nat]
Local == [ver : Nat, pins : Pins, base : Pins, edits : Made, stale : BOOLEAN, mine : Mine]
Upload == [ver : Nat, pins : Pins, edits : Made, base : Pins, mine : Mine, late : BOOLEAN,
           answer : {"ok", "conflict", None}]
Queue == [state : {"saved", "unsaved", "conflict"}, ver : Nat]
Dialog == [views : Views, loads : BOOLEAN, guest : Guest \union {None}]
Act == [kind : {"reseal", "rotate", "invite", "other"}, keys : Pins]
Ask == [who : People, view : View, old : BOOLEAN]
Screens == {"lock", "personal", "leaving", "shared", "returning"}

\* None is a value of its own.
ASSUME NoneAssumption ==
  /\ None \notin Nat /\ None \notin {"ok", "conflict"}
  /\ None \notin Local /\ None \notin Upload /\ None \notin Queue
  /\ None \notin Dialog /\ None \notin Guest /\ None \notin View
  /\ None \notin Act /\ None \notin Ask

ServerOK ==
  /\ published \in Pins
  /\ stored \in [ver : Nat, pins : Pins]

TabOK ==
  /\ local \in Local \union {None}
  /\ at \in [on : Screens, waits : Nat, ver : Nat]
  /\ queue \in Queue \union {None}
  /\ chain \in [next : BOOLEAN, up : Upload \union {None}]
  /\ owed \subseteq People

DialogOK ==
  /\ dialog \in Dialog \union {None}
  /\ act \in Act \union {None}
  /\ ask \in Ask \union {None}

\* What is open goes with what is on screen, and an upload whose copy is gone is late.
ScreenOK ==
  /\ Is(queue) <=> On("personal")
  /\ Is(local) <=> ~On("lock")
  /\ Is(dialog) => Is(local) /\ ~Is(ask)
  /\ Is(chain.up) /\ ~chain.up.late => Is(local)

TypeOK == ServerOK /\ TabOK /\ DialogOK /\ ScreenOK

\* A copy of a shared vault's key is sealed to the key the user's pin names at that
\* moment, or to one this tab pinned for that person earlier: a row of the list and the
\* form may hold lookups of different moments. A key that replaces one pinned before
\* this copy was opened is never sealed to unasked, whatever the server publishes
\* between the lookups and the clicks (sealVerdict, sealFor, rotateWithKey).
SealedAsPinned ==
    [][Is(act') /\ act' # act =>
          \A p \in People : act'.keys[p] \in {0, local'.pins[p]} \cup local.mine[p]]_vars

\* A decision on a key is not lost in silence: while no version of the personal
\* vault has it and no notice gave it up, an upload of it is under way or waits
\* (savePersonalPins, openPersonal).
DecisionIsSaved ==
    Is(local) /\ owed # {} =>
        chain.next \/ Is(chain.up) \/ (Is(queue) /\ queue.state # "saved")

\* Edits the user discarded by switching away stay out of the uploads of pins,
\* which export the same copy of the vault (closeQueue, savePersonalPins).
DiscardedStaysOut == Is(chain.up) => chain.up.edits # "discarded"

\* An upload of pins, which exports a copy kept behind a shared vault, goes over no
\* pin it was not made from: not after a conflict, a lost answer or a return to the
\* personal vault and back (savePersonalPins, openPersonal).
PinsStay ==
    [][ChainArrives /\ stored' # stored => chain.up.base = stored.pins]_vars

\* Replacing a pin is the user's decision: sealing to a key pins it where nobody was
\* pinned, and replaces no pin (sealFor, replacePin).
PinIsADecision ==
    [][Is(act') /\ act' # act /\ Is(local) =>
          \A p \in People : local.pins[p] = 0 \/ local'.pins[p] = local.pins[p]]_vars
====
