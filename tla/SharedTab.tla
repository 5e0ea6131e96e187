---- MODULE SharedTab ----
(* One browser tab with one shared vault: switching to it and back
   (App.switchVault, lib/appSelection.ts, lib/vaultSelection.ts), its save queue,
   rotating its key (App.rotateShared, lib/sharedRotation.ts), and replacing the
   user key its copies are sealed to (SecuritySettings.replaceUserKey,
   lib/keyReplaceReseal.ts), against a server where other members save, rotate
   and re-seal.

   A vault key is a number no copy is left of when it is made, a user key one
   more than the last; 0 is key bytes that were zeroed. A copy of a vault key is
   the key, the user key it is sealed to and the epoch it is recorded at. A tab
   has one request to the vault on its way at a time.

   Careful is what is assumed not to happen: "rotate", that the vault's key is
   rotated while a replacement of the user key, or its re-seal, is under way;
   "lock", that the tab locks while a re-seal is tried again. *)
EXTENDS Page, Integers
CONSTANTS
    MaxEpoch, MaxUserKey, MaxVersion,   \* bounds: rotations, replacements, saves
    MaxKey,         \* bound: the vault keys of which there are copies at a time
    Careful
VARIABLES
    srv,            \* the vault: epoch, key, the file and its version; my row
    published,      \* the user key the server publishes for me
    row,            \* my row as the tab's list has it, with the vault's epoch
    me,             \* the user key this tab holds, 0 when locked
    open,           \* the shared vault on screen, with its save queue
    task,           \* a switch or a rotation under way
    wire,           \* a save or a rotation on its way to the server
    swap,           \* a replacement of the user key under way
    held,           \* the vault key App keeps for another try at the re-seal, and
                    \* the user key to seal it to
    retry           \* that try: the copy it sent, and the key bytes it may put back
tab == <<row, me, open, task>>
replacing == <<swap, held, retry>>
tabVars == <<srv, published, tab, wire, replacing>>

Cares(what) == what \in Careful
Is(x) == x # None
Copy(key, for, epoch) == [key |-> key, for |-> for, epoch |-> epoch]

TabInit ==
    /\ srv = [epoch |-> 1, key |-> 1, file |-> 1, ver |-> 1, member |-> TRUE, mine |-> Copy(1, 1, 1)]
    /\ published = 1
    /\ row = None /\ me = [key |-> 1, kept |-> None]
    /\ open = None /\ task = None /\ wire = None
    /\ swap = None /\ held = None /\ retry = None

Unlocked == me.key # 0

\* The state the server lists my row in is "active".
Active == srv.member /\ srv.mine.for = published /\ srv.mine.epoch = srv.epoch
Listed == [active |-> Active, mine |-> srv.mine, epoch |-> srv.epoch]
Refresh == row' = IF srv.member THEN Listed ELSE None

----
\* The other members and the server.

OtherSaves ==
    /\ srv.ver < MaxVersion
    /\ srv' = [srv EXCEPT !.ver = @ + 1]
    /\ UNCHANGED <<published, tab, wire, replacing>>

KeyOf(x) == IF Is(x) THEN {x.key} ELSE {}
InUse == {srv.key, srv.file, srv.mine.key, me.kept} \cup
         (UNION {KeyOf(x) : x \in {open, task, wire, swap, held, retry}}) \cup
         (IF Is(row) THEN {row.mine.key} ELSE {})
New == CHOOSE k \in 1..MaxKey : k \notin InUse

MayRotate ==
    /\ srv.epoch < MaxEpoch
    /\ \E k \in 1..MaxKey : k \notin InUse
    /\ Cares("rotate") => swap = None /\ held = None /\ retry = None

\* Whoever rotates seals the new key to me, or leaves me behind.
OtherRotates ==
    /\ MayRotate /\ srv.ver < MaxVersion
    /\ \E reached \in BOOLEAN :
        srv' = [srv EXCEPT !.epoch = @ + 1, !.key = New, !.file = New, !.ver = @ + 1,
                           !.mine = IF reached THEN Copy(New, published, srv.epoch + 1) ELSE @]
    /\ UNCHANGED <<published, tab, wire, replacing>>

OtherReseals ==
    /\ srv.member /\ ~Active
    /\ srv' = [srv EXCEPT !.mine = Copy(srv.key, published, srv.epoch)]
    /\ UNCHANGED <<published, tab, wire, replacing>>

Removed ==
    /\ srv.member
    /\ srv' = [srv EXCEPT !.member = FALSE]
    /\ UNCHANGED <<published, tab, wire, replacing>>

Refreshes ==
    /\ Unlocked
    /\ Refresh
    /\ UNCHANGED <<srv, published, me, open, task, wire, replacing>>

----
\* Switching.

Free == Unlocked /\ ~Is(task)

\* The queue is closed, whatever it held, and the copy in the list is unsealed.
Opens(r) ==
    /\ open' = None
    /\ task' = IF Is(r) /\ r.active /\ r.mine.for = me.key
               THEN [kind |-> "open", key |-> r.mine.key, epoch |-> r.epoch, ver |-> 0, late |-> FALSE]
               ELSE None

OpenStarts ==
    /\ Free /\ ~Is(open)
    /\ Opens(row)
    /\ UNCHANGED <<srv, published, row, me, wire, replacing>>

Running(kind) == Is(task) /\ task.kind = kind

\* Where a switch that fails, or that a lock overtook, ends: the personal vault,
\* or the lock.
ToPersonal == task' = None /\ open' = None

OpenMetadata ==
    /\ Running("open") /\ task.ver = 0
    /\ \/ srv.member /\ task' = [task EXCEPT !.ver = srv.ver] /\ UNCHANGED open
       \/ ToPersonal
    /\ UNCHANGED <<srv, published, row, me, wire, replacing>>

Queue(key, epoch, ver, saw) ==
    [key |-> key, epoch |-> epoch, ver |-> ver, saw |-> saw, state |-> "saved"]

OpenFile ==
    /\ Running("open") /\ task.ver > 0
    /\ \/ /\ srv.member /\ srv.file = task.key /\ ~task.late
          /\ open' = Queue(task.key, task.epoch, task.ver, srv.ver)
          /\ task' = None
       \/ ToPersonal
    /\ UNCHANGED <<srv, published, row, me, wire, replacing>>

\* The user goes back to the personal vault, or access to this one was lost.
Leaves ==
    /\ Free /\ Is(open)
    /\ open' = None
    /\ UNCHANGED <<srv, published, row, me, task, wire, replacing>>

\* The key was rotated elsewhere and the user, asked, has the vault opened again:
\* from a fresh list, or, when that cannot be read, from none.
Reopens ==
    /\ Free /\ Is(open) /\ open.state = "rotated"
    /\ \/ Refresh /\ Opens(row')
       \/ Opens(None) /\ UNCHANGED row
    /\ UNCHANGED <<srv, published, me, wire, replacing>>

\* The user wants the server's copy back: from the list as it is.
Reloads ==
    /\ Free /\ Is(open) /\ open.state # "saved"
    /\ Opens(row)
    /\ UNCHANGED <<srv, published, row, me, wire, replacing>>

----
\* Saving.

Edit ==
    /\ Free /\ Is(open)
    /\ open.state = "saved"
    /\ open' = [open EXCEPT !.state = "dirty"]
    /\ UNCHANGED <<srv, published, row, me, task, wire, replacing>>

Sends(kind, key) ==
    wire' = [kind |-> kind, key |-> key, epoch |-> open.epoch, ver |-> open.ver, saw |-> open.saw,
             for |-> me.key, answer |-> None]

SaveStarts ==
    /\ Free /\ Is(open) /\ ~Is(wire)
    /\ open.state = "dirty"
    /\ open' = [open EXCEPT !.state = "saving"]
    /\ Sends("save", open.key)
    /\ UNCHANGED <<srv, published, row, me, task, replacing>>

\* The user overwrites a newer version, having been told of it.
Overwrites ==
    /\ Free /\ Is(open) /\ srv.member
    /\ open.state = "conflict"
    /\ open' = [open EXCEPT !.ver = srv.ver, !.saw = srv.ver, !.state = "dirty"]
    /\ UNCHANGED <<srv, published, row, me, task, wire, replacing>>

Answer == IF ~srv.member THEN "denied"
          ELSE IF wire.epoch # srv.epoch THEN "rotated"
          ELSE IF wire.ver # srv.ver THEN "conflict"
          ELSE IF wire.kind = "rotate" /\ wire.for # published THEN "refused"
          ELSE "ok"

\* A rotation writes the file under the new key and my copy of it in one request.
Arrives ==
    /\ Is(wire) /\ ~Is(wire.answer)
    /\ srv.ver < MaxVersion
    /\ wire.kind = "rotate" => MayRotate
    /\ wire' = [wire EXCEPT !.answer = Answer]
    /\ srv' = IF Answer # "ok" THEN srv
              ELSE IF wire.kind = "save" THEN [srv EXCEPT !.file = wire.key, !.ver = @ + 1]
              ELSE [srv EXCEPT !.epoch = @ + 1, !.key = wire.key, !.file = wire.key, !.ver = @ + 1,
                               !.mine = Copy(wire.key, wire.for, srv.epoch + 1)]
    /\ UNCHANGED <<published, tab, replacing>>

Saving == Is(open) /\ open.state = "saving"

\* Nobody waits for the answer: the queue was closed, or the request given up.
Unread ==
    /\ Is(wire) /\ Is(wire.answer)
    /\ ~Saving /\ ~Running("rotate")
    /\ wire' = None
    /\ UNCHANGED <<srv, published, tab, replacing>>

\* A request that fails is lost, or is still taken later.
GivesUp == wire' = None \/ (~Is(wire.answer) /\ UNCHANGED wire)

SaveAnswered ==
    /\ Saving /\ Is(wire.answer)
    /\ open' = IF wire.answer = "ok"
               THEN [open EXCEPT !.state = "saved", !.ver = wire.ver + 1, !.saw = wire.ver + 1]
               ELSE [open EXCEPT !.state = wire.answer]
    /\ wire' = None
    /\ UNCHANGED <<srv, published, row, me, task, replacing>>

\* The request or its answer is lost: the edits stay and can be saved again.
SaveLost ==
    /\ Saving
    /\ open' = [open EXCEPT !.state = "dirty"]
    /\ GivesUp
    /\ UNCHANGED <<srv, published, row, me, task, replacing>>

----
\* Rotating the key of the vault on screen.

\* The live vault is under the new key while the request is on its way.
RotateStarts ==
    /\ Free /\ Is(open) /\ ~Is(wire) /\ MayRotate
    /\ open.state = "saved"
    /\ task' = [kind |-> "rotate", key |-> open.key, epoch |-> open.epoch, ver |-> open.ver, late |-> FALSE]
    /\ open' = [open EXCEPT !.key = New]
    /\ Sends("rotate", New)
    /\ UNCHANGED <<srv, published, row, me, replacing>>

\* Mutation of PutBack: the rotation's error leaves the new key in place.
PutBackVariant == open

\* The vault after a rotation that failed: under the key it had.
PutBack == IF task.late THEN open ELSE [open EXCEPT !.key = task.key]

RotateAnswered ==
    /\ Running("rotate") /\ Is(wire.answer)
    /\ open' = IF task.late \/ wire.answer # "ok" THEN PutBack
               ELSE Queue(wire.key, wire.epoch + 1, wire.ver + 1, wire.ver + 1)
    /\ IF task.late \/ wire.answer # "ok" THEN UNCHANGED row ELSE Refresh
    /\ task' = None /\ wire' = None
    /\ UNCHANGED <<srv, published, me, replacing>>

\* Mutation of Unconfirmed: the queue goes on at the version the list reports.
UnconfirmedVariant ==
    /\ open' = Queue(wire.key, srv.epoch, srv.ver, open.saw)
    /\ task' = None

\* What follows a rotation that landed and whose answer was lost: nothing here
\* knows the vault's version, so it is opened again.
Unconfirmed == Opens(row')

\* The answer is lost. My copy in a fresh list tells whether it landed; when that
\* cannot be read either, the rotation has failed.
RotateLost ==
    /\ Running("rotate")
    /\ \E asked \in BOOLEAN :
        IF asked /\ srv.member /\ srv.mine = Copy(wire.key, me.key, srv.epoch) /\ ~task.late
        THEN Refresh /\ Unconfirmed
        ELSE task' = None /\ open' = PutBack /\ UNCHANGED row
    /\ GivesUp
    /\ UNCHANGED <<srv, published, me, replacing>>

----
\* Replacing the user key: plan, proof and question, publish, re-seal.

\* The list is read for the plan; a copy that opens gives the key to re-seal.
Plans ==
    /\ Free /\ ~Is(open) /\ ~Is(swap) /\ ~Is(held)
    /\ published < MaxUserKey
    /\ swap' = [at |-> "asked", key |-> IF Active /\ srv.mine.for = me.key THEN srv.mine.key ELSE None,
                made |-> 0, late |-> FALSE]
    /\ UNCHANGED <<srv, published, tab, wire, held, retry>>

Stage(at) == Is(swap) /\ swap.at = at

Declines ==
    /\ Stage("asked")
    /\ swap' = None
    /\ UNCHANGED <<srv, published, tab, wire, held, retry>>

\* The new key is published, or the request is lost on its way. A lock cancels
\* the question.
Publishes ==
    /\ Stage("asked") /\ ~swap.late
    /\ \E arrives \in BOOLEAN :
        /\ published' = IF arrives THEN published + 1 ELSE published
        /\ swap' = [swap EXCEPT !.at = "published", !.made = published + 1]
    /\ UNCHANGED <<srv, tab, wire, held, retry>>

\* The tab adopts the key it made when the server says so, or, without that
\* answer, when it is the one the server publishes. Else the keys are zeroed.
Adopts ==
    /\ Stage("published")
    /\ \/ /\ published = swap.made
          /\ swap' = [swap EXCEPT !.at = "adopted"]
          /\ me' = IF swap.late THEN me ELSE [key |-> swap.made, kept |-> swap.key]
       \/ swap' = None /\ UNCHANGED me
    /\ UNCHANGED <<srv, published, row, open, task, wire, held, retry>>

\* The server's answer to a copy of key sealed to my user key made.
Takes(made) == srv.member /\ made = published /\ srv.mine.epoch = srv.epoch
Sealed(key, made) == [srv EXCEPT !.mine = Copy(key, made, srv.epoch)]

\* Mutation of HandOff: every key the plan held is zeroed.
HandOffVariant(failed) == None

\* What App keeps: the key whose re-seal failed, unless a lock came.
HandOff(failed) == IF failed /\ ~swap.late THEN [key |-> swap.key, for |-> swap.made] ELSE None

\* An update is taken, refused, lost on its way or on its way back.
Reseals ==
    /\ Stage("adopted")
    /\ \E arrives, answered \in BOOLEAN :
        LET taken == Is(swap.key) /\ arrives /\ Takes(swap.made)
        IN  /\ srv' = IF taken THEN Sealed(swap.key, swap.made) ELSE srv
            /\ held' = HandOff(Is(swap.key) /\ ~(taken /\ answered))
    /\ swap' = None
    /\ UNCHANGED <<published, tab, wire, retry>>

RetryStarts ==
    /\ Unlocked /\ Is(held) /\ ~Is(retry)
    /\ retry' = [key |-> held.key, for |-> held.for, sent |-> held.key]
    /\ UNCHANGED <<srv, published, tab, wire, swap, held>>

\* A try that fails puts its key back, though a lock may have zeroed it since.
RetryEnds ==
    /\ Is(retry)
    /\ \E arrives, answered \in BOOLEAN :
        LET taken == arrives /\ Takes(retry.for)
        IN  /\ srv' = IF taken THEN Sealed(retry.sent, retry.for) ELSE srv
            /\ held' = IF taken /\ answered THEN None ELSE [key |-> retry.key, for |-> retry.for]
    /\ retry' = None
    /\ UNCHANGED <<published, tab, wire, swap>>

----
\* A lock ends what the tab holds and overtakes what is under way; what it was
\* sent is still taken. An unlock adopts the published user key.
Late(x) == IF Is(x) THEN [x EXCEPT !.late = TRUE] ELSE x

Locks ==
    /\ Unlocked
    /\ Cares("lock") => ~Is(retry)
    /\ me' = [key |-> 0, kept |-> None]
    /\ row' = None /\ open' = None
    /\ task' = Late(task) /\ swap' = Late(swap)
    /\ held' = None
    /\ retry' = IF Is(retry) THEN [retry EXCEPT !.key = 0] ELSE None
    /\ UNCHANGED <<srv, published, wire>>

Unlocks ==
    /\ ~Unlocked
    /\ me' = [key |-> published, kept |-> None]
    /\ UNCHANGED <<srv, published, row, open, task, wire, replacing>>

TabNext ==
    \/ OtherSaves \/ OtherRotates \/ OtherReseals \/ Removed
    \/ Refreshes \/ OpenStarts \/ OpenMetadata \/ OpenFile \/ Leaves \/ Reopens \/ Reloads
    \/ Edit \/ SaveStarts \/ Overwrites \/ Arrives \/ Unread \/ SaveAnswered \/ SaveLost
    \/ RotateStarts \/ RotateAnswered \/ RotateLost
    \/ Plans \/ Declines \/ Publishes \/ Adopts \/ Reseals \/ RetryStarts \/ RetryEnds
    \/ Locks \/ Unlocks

TabSpec == TabInit /\ [][TabNext]_tabVars

----
\* Types.
Bounds == {MaxEpoch, MaxUserKey, MaxVersion, MaxKey} \subseteq Nat
Copies == [key : Nat, for : Nat, epoch : Nat]
Servers == [epoch : Nat, key : Nat, file : Nat, ver : Nat, member : BOOLEAN, mine : Copies]
Rows == [active : BOOLEAN, mine : Copies, epoch : Nat]
Answers == {"ok", "denied", "rotated", "conflict", "refused"}
Queues == [key : Nat, epoch : Nat, ver : Nat, saw : Nat, state : {"saved", "dirty", "saving"} \cup Answers]
Tasks == [kind : {"open", "rotate"}, key : Nat, epoch : Nat, ver : Nat, late : BOOLEAN]
Requests == [kind : {"save", "rotate"}, key : Nat, epoch : Nat, ver : Nat, saw : Nat, for : Nat,
             answer : Answers \cup {None}]
Swaps == [at : {"asked", "published", "adopted"}, key : Nat \cup {None}, made : Nat, late : BOOLEAN]
Keeps == [key : Nat, for : Nat]
Tries == [key : Nat, for : Nat, sent : Nat]

\* None is a value of its own.
NoneApart ==
    None \notin Nat \cup Answers \cup Rows \cup Queues \cup Tasks \cup Requests \cup Swaps \cup Keeps \cup Tries

ASSUME SharedTabAssumption == Bounds /\ NoneApart

TabTypeOK ==
    /\ srv \in Servers
    /\ published \in Nat
    /\ row \in Rows \cup {None}
    /\ me \in [key : Nat, kept : Nat \cup {None}]
    /\ open \in Queues \cup {None}
    /\ task \in Tasks \cup {None}
    /\ wire \in Requests \cup {None}
    /\ swap \in Swaps \cup {None}
    /\ held \in Keeps \cup {None}
    /\ retry \in Tries \cup {None}

----
\* The stored file is under the key of the vault's epoch: the epoch a tab claims
\* with a write stays true of the key it writes under, through its own failed,
\* unconfirmed and lost rotations and those of others (rotateShared, rotateSharedVault).
FileUnderEpochKey == srv.file = srv.key

\* No save replaces a version this tab's copy was not made from, unless the user
\* was told of it: not even after a rotation whose answer was lost, when another
\* member may have saved under the new key (RotationOutcome's comment).
NothingOverwritten ==
    [][Arrives /\ srv' # srv => wire.saw = srv.ver]_tabVars

\* Replacing the user key never loses the vault's key: while the vault is still
\* under the key the replacement held, and the tab knows the key it published, it
\* can open its copy or keeps the key for another try (runKeyReplace, handOff,
\* retryPending).
ReplacementKeepsKey ==
    Is(me.kept) /\ me.key = published /\ ~Is(swap) /\ srv.member /\ srv.key = me.kept =>
        \/ srv.mine.for = published /\ srv.mine.key = srv.key
        \/ \E h \in {held, retry} : Is(h) /\ h.key = me.kept

\* A row the server lists as active holds a copy of the vault's key: what a tab
\* re-seals is never a retired or a zeroed key.
CopyOpens == Active => srv.mine.key = srv.key
====
