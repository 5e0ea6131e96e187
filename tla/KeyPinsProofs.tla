---- MODULE KeyPinsProofs ----
(* What KeyPins keeps for any people, keys and versions. A verdict on screen that
   says "pinned" names the pin, or one this copy pinned before; a copy of the personal vault, and an upload made
   of it, is older than the server's version or was made from its pins; and what
   was decided is in the copy, with an upload of it still to end. *)
EXTENDS KeyPins, TLAPS

\* Edits that were discarded made the copy stale, and no upload of pins is of a stale copy.
Edits ==
  /\ Is(local) => /\ local.edits = "new" => Is(queue) /\ queue.state # "saved"
                  /\ local.edits = "discarded" => local.stale
  /\ DiscardedStaysOut

\* What a verdict says of the pin holds while it is on screen, but for the keys that
\* were pinned meanwhile.
Agrees(p, view) ==
  /\ view.state = "pinned" => view.key # 0 /\ view.key \in {local.pins[p]} \union local.mine[p]
  /\ view.state = "unknown" => local.pins[p] \in {0} \union local.mine[p]
  /\ view.state = "problem" => view.key = 0

Verdicts ==
  Is(dialog) =>
    /\ \A p \in People : Is(dialog.views[p]) => Agrees(p, dialog.views[p])
    /\ Is(dialog.guest) => Agrees(dialog.guest.who, dialog.guest.view)

\* Who returns has waited for the uploads under way.
Pending == (IF Is(chain.up) THEN 1 ELSE 0) + (IF chain.next THEN 1 ELSE 0)
Waiting ==
  /\ On("returning") => at.waits = Pending
  /\ at.ver > 0 => On("returning") /\ at.waits = 0

\* What is owed is in the copy, and in the upload under way or in one behind it.
Behind == chain.next \/ (Is(queue) /\ queue.state # "saved")
Decisions ==
  /\ DecisionIsSaved
  /\ IF Is(local) THEN owed \subseteq DecidedIn(local) ELSE owed = {}
  /\ Is(chain.up) /\ chain.up.answer # "conflict" /\ ~Behind =>
       owed \subseteq (IF chain.up.answer = "ok" THEN {} ELSE DecidedIn(chain.up))

\* A version that was read is behind the server's, or has its pins.
Current(ver, pins) == ver <= stored.ver /\ (ver = stored.ver => pins = stored.pins)

Uploads ==
  /\ at.ver <= stored.ver
  /\ Is(local) /\ (~On("personal") \/ chain.next) => Current(local.ver, local.base)
  /\ Is(queue) => Current(queue.ver, local.base)
  /\ Is(chain.up) => /\ ~Is(chain.up.answer) => Current(chain.up.ver, chain.up.base)
                     /\ chain.up.answer = "ok" => Current(chain.up.ver + 1, chain.up.pins)
                     /\ On("personal") /\ ~chain.up.late => ~chain.next

\* What a decision changes of the tab: the copy's pins, and who is to upload it.
LEMMA DecidesWhat ==
  ASSUME TabOK, NEW keys \in [People -> Nat \union {None}], NEW inOld \in BOOLEAN, Decides(keys, inOld)
  PROVE  /\ local' \in Local \union {None} /\ queue' \in Queue \union {None}
         /\ chain' \in [next : BOOLEAN, up : Upload \union {None}] /\ owed' \subseteq People
         /\ chain'.up = chain.up
<1> DEFINE decided == {p \in People : Is(keys[p])}
           pins == [p \in People |-> IF Is(keys[p]) THEN keys[p] ELSE local.pins[p]]
           mine == [p \in People |-> IF Is(keys[p]) THEN local.mine[p] \union {keys[p]} ELSE local.mine[p]]
<1>1. CASE decided = {}
  <2>1. UNCHANGED <<local, queue, chain, owed>>
    BY <1>1 DEF Decides
  <2> QED BY <2>1 DEF TabOK
<1>2. CASE decided # {}
  <2>1. /\ MayDecide /\ SavePins /\ owed' = owed \union decided
        /\ local' = IF inOld THEN local ELSE [local EXCEPT !.pins = pins, !.mine = mine]
    BY <1>2 DEF Decides
  <2>2. local \in Local
    BY <2>1 DEF MayDecide, TabOK, Is
  <2>3. pins \in Pins /\ mine \in Mine
    BY <2>2 DEF Pins, Mine, Local, Is
  <2>4. local' \in Local
    BY <2>1, <2>2, <2>3 DEF Local
  <2>5. queue' \in Queue \union {None}
    BY <2>1 DEF SavePins, Queue, TabOK, Is
  <2>6. chain' \in [next : BOOLEAN, up : Upload \union {None}] /\ chain'.up = chain.up
    BY <2>1 DEF SavePins, TabOK
  <2> QED BY <2>1, <2>4, <2>5, <2>6 DEF TabOK
<1> QED BY <1>1, <1>2

\* The keys that sealing to what is on screen decides on.
LEMMA SealsWhat ==
  ASSUME TabOK, NEW views \in Views, NEW kind \in {"reseal", "rotate", "invite"}, SealsTo(kind, views)
  PROVE  /\ act' \in Act
         /\ local' \in Local \union {None} /\ queue' \in Queue \union {None}
         /\ chain' \in [next : BOOLEAN, up : Upload \union {None}] /\ owed' \subseteq People
         /\ chain'.up = chain.up
<1> DEFINE keys == [p \in People |-> IF Is(views[p]) /\ views[p].state = "unknown" THEN views[p].key ELSE None]
<1>1. keys \in [People -> Nat \union {None}]
  BY DEF Views, View, Is
<1>2. Decides(keys, FALSE)
  BY DEF SealsTo
<1>3. [p \in People |-> IF Is(views[p]) THEN views[p].key ELSE 0] \in Pins
  BY DEF Views, View, Is, Pins
<1>4. act' \in Act
  BY <1>3 DEF SealsTo, Act
<1> QED BY <1>1, <1>2, <1>4, DecidesWhat

\* One person's view, and one person's key, are views and keys of people.
LEMMA OnlyView == ASSUME NEW p \in People, NEW view \in View PROVE Only(p, view) \in Views
BY DEF Only, Views, Nobody

LEMMA OnlyKey == ASSUME NEW p \in People, NEW k \in Nat \union {None} PROVE Only(p, k) \in [People -> Nat \union {None}]
BY DEF Only, Nobody

\* A verdict is a view.
LEMMA VerdictView == ASSUME TypeOK, Is(local), NEW p \in People PROVE Verdict(p) \in View
BY DEF Verdict, Problem, View, State, TypeOK, ServerOK, TabOK, Pins, Local, Is

\* A copy of the server's vault is one a tab can hold, and stays one when an upload
\* of it lands or is refused.
LEMMA CopyLocal == ASSUME TypeOK, NEW v \in Nat PROVE Copy(stored, v) \in Local
BY DEF Copy, Local, Mine, Made, TypeOK, ServerOK

LEMMA Lands ==
  ASSUME NEW l \in Local, NEW v \in Nat, NEW b \in Pins
  PROVE  [l EXCEPT !.ver = v, !.base = b] \in Local
BY DEF Local

LEMMA RefusedLocal == ASSUME NEW l \in Local PROVE Refused(l) \in Local
BY DEF Local, Refused

\* Every step keeps the server's types.
LEMMA ServerStep == TypeOK /\ [Next]_vars => ServerOK'
<1> SUFFICES ASSUME TypeOK, [Next]_vars PROVE ServerOK'
  OBVIOUS
<1> USE DEF TypeOK, ServerOK
<1>1. CASE Publishes
  BY <1>1 DEF Publishes, Pins, Keys
<1>2. CASE OtherSaves
  BY <1>2 DEF OtherSaves, Pins, Keys
<1>3. CASE Unlock
  BY <1>3 DEF Unlock
<1>4. CASE Lock
  BY <1>4 DEF Lock, Closes
<1>5. CASE Edit
  BY <1>5 DEF Edit
<1>6. CASE Save
  BY <1>6 DEF Save, TabOK, Stores, Local, Is, ScreenOK, On
<1>7. CASE Overwrite
  BY <1>7 DEF Overwrite, TabOK, Stores, Local, Is, ScreenOK, On
<1>8. ASSUME NEW editing \in BOOLEAN, Leaves(editing) PROVE ServerOK'
  BY <1>8 DEF Leaves, TabOK, Stores, Local, ScreenOK, On, Is
<1>9. CASE Opens
  BY <1>9 DEF Opens
<1>10. CASE Returns
  BY <1>10 DEF Returns
<1>11. CASE ReturnKept
  BY <1>11 DEF ReturnKept
<1>12. CASE ReturnMetadata
  BY <1>12 DEF ReturnMetadata
<1>13. CASE ReturnFile
  BY <1>13 DEF ReturnFile
<1>14. CASE ChainStarts
  BY <1>14 DEF ChainStarts
<1>15. CASE ChainArrives
  BY <1>15 DEF ChainArrives, TabOK, Stores, Upload, Is
<1>16. CASE ChainEnds
  BY <1>16 DEF ChainEnds
<1>17. CASE OpensDialog
  BY <1>17 DEF OpensDialog
<1>18. CASE ClosesDialog
  BY <1>18 DEF ClosesDialog
<1>19. CASE LoadEnds
  BY <1>19 DEF LoadEnds
<1>20. ASSUME NEW p \in People, Reseal(p) PROVE ServerOK'
  BY <1>20 DEF Reseal
<1>21. CASE Rotate
  BY <1>21 DEF Rotate
<1>22. CASE OtherRequest
  BY <1>22 DEF OtherRequest
<1>23. CASE LooksUpGuest
  BY <1>23 DEF LooksUpGuest
<1>24. CASE Invite
  BY <1>24 DEF Invite
<1>25. CASE ActEnds
  BY <1>25 DEF ActEnds
<1>26. CASE Shows
  BY <1>26 DEF Shows
<1>27. CASE Cancels
  BY <1>27 DEF Cancels
<1>28. CASE Confirms
  BY <1>28 DEF Confirms
<1>29. CASE Forget
  BY <1>29 DEF Forget
<1>30. CASE UNCHANGED vars
  BY <1>30 DEF vars, tab
<1> QED
  BY <1>1, <1>2, <1>3, <1>4, <1>5, <1>6, <1>7, <1>8, <1>9, <1>10, <1>11, <1>12, <1>13, <1>14,
     <1>15, <1>16, <1>17, <1>18, <1>19, <1>20, <1>21, <1>22, <1>23, <1>24, <1>25, <1>26, <1>27, <1>28,
     <1>29, <1>30 DEF Next

\* Every step keeps the types of the tab.
LEMMA TabStep == TypeOK /\ [Next]_vars => TabOK'
<1> SUFFICES ASSUME TypeOK, [Next]_vars PROVE TabOK'
  OBVIOUS
<1> USE DEF TypeOK, TabOK
<1>1. CASE Publishes
  BY <1>1 DEF Publishes, tab
<1>2. CASE OtherSaves
  BY <1>2 DEF OtherSaves, tab
<1>3. CASE Unlock
  BY <1>3, CopyLocal DEF Unlock, ServerOK, Fresh, Queue, At, Screens
<1>4. CASE Lock
  BY <1>4 DEF Lock, Closes, At, Screens, Upload, Is
<1>5. CASE Edit
  BY <1>5 DEF Edit, ScreenOK, On, Local, Made, Queue, Is
<1>6. CASE Save
  <2>1. local \in Local /\ queue \in Queue /\ queue.ver \in Nat
    BY <1>6 DEF Save, ScreenOK, On, Queue, Is
  <2>2. local' \in Local
    BY <1>6, <2>1 DEF Save, Local, Made
  <2>3. queue' \in Queue
    BY <1>6, <2>1 DEF Save, Queue, Fresh, ServerOK
  <2> QED BY <1>6, <2>2, <2>3 DEF Save, Stores
<1>7. CASE Overwrite
  <2>1. local \in Local /\ queue \in Queue /\ queue.ver \in Nat
    BY <1>7 DEF Overwrite, ScreenOK, On, Queue, Is
  <2>2. local' \in Local
    BY <1>7, <2>1 DEF Overwrite, Local, Made
  <2>3. queue' \in Queue
    BY <1>7, <2>1 DEF Overwrite, Queue, Fresh, ServerOK
  <2> QED BY <1>7, <2>2, <2>3 DEF Overwrite, Stores
<1>8. ASSUME NEW editing \in BOOLEAN, Leaves(editing) PROVE TabOK'
  BY <1>8 DEF Leaves, ScreenOK, On, Local, Made, Queue, Is, Stores, At, Screens, Stale
<1>9. CASE Opens
  BY <1>9 DEF Opens, At, Returning, Screens
<1>10. CASE Returns
  BY <1>10 DEF Returns, Returning, Screens
<1>11. CASE ReturnKept
  BY <1>11 DEF ReturnKept, Applied, Fresh, Queue, At, Screens, Local, Is, ScreenOK, On
<1>12. CASE ReturnMetadata
  BY <1>12 DEF ReturnMetadata, ServerOK
<1>13. CASE ReturnFile
  <2>1. CASE Applied(Copy(stored, at.ver)) /\ UNCHANGED <<chain, owed>>
    <3>1. Copy(stored, at.ver) \in Local /\ Copy(stored, at.ver).ver = at.ver
      BY CopyLocal DEF Copy
    <3>2. local' \in Local /\ queue' \in Queue /\ at' \in [on : Screens, waits : Nat, ver : Nat]
      BY <2>1, <3>1 DEF Applied, Fresh, Queue, At, Screens
    <3> QED BY <2>1, <3>2
  <2>2. CASE Closes
    BY <2>2 DEF Closes, At, Screens, Upload, Is
  <2> QED BY <1>13, <2>1, <2>2 DEF ReturnFile
<1>14. CASE ChainStarts
  BY <1>14 DEF ChainStarts, Upload, Local, Is
<1>15. CASE ChainArrives
  BY <1>15 DEF ChainArrives, Upload, Is, Stores
<1>16. CASE ChainEnds
  <2>1. chain.up \in Upload /\ (~chain.up.late => local \in Local)
    BY <1>16 DEF ChainEnds, ScreenOK, Is
  <2>2. local' \in Local \union {None}
    <3>1. CASE chain.up.late
      BY <1>16, <3>1 DEF ChainEnds
    <3>2. CASE ~chain.up.late
      <4>1. \/ local' = [local EXCEPT !.ver = chain.up.ver + 1,
                                     !.base = IF On("personal") THEN local.base ELSE chain.up.pins]
            \/ local' = local
            \/ local' = Refused(local)
        BY <1>16, <3>2 DEF ChainEnds
      <4>2. chain.up.ver + 1 \in Nat /\ local \in Local
            /\ (IF On("personal") THEN local.base ELSE chain.up.pins) \in Pins
        BY <2>1, <3>2 DEF Upload, Local
      <4>3. [local EXCEPT !.ver = chain.up.ver + 1,
                          !.base = IF On("personal") THEN local.base ELSE chain.up.pins] \in Local
        BY <4>2, Lands
      <4>4. Refused(local) \in Local
        BY <4>2, RefusedLocal
      <4> QED BY <4>1, <4>2, <4>3, <4>4
    <3> QED BY <3>1, <3>2
  <2>3. owed' \subseteq People /\ UNCHANGED queue
    BY <1>16 DEF ChainEnds
  <2>4. chain' \in [next : BOOLEAN, up : Upload \union {None}]
    BY <1>16 DEF ChainEnds
  <2>5. at' \in [on : Screens, waits : Nat, ver : Nat]
    BY <1>16 DEF ChainEnds
  <2> QED BY <2>2, <2>3, <2>4, <2>5
<1>17. CASE OpensDialog
  BY <1>17 DEF OpensDialog
<1>18. CASE ClosesDialog
  BY <1>18 DEF ClosesDialog
<1>19. CASE LoadEnds
  BY <1>19 DEF LoadEnds
<1>20. ASSUME NEW p \in People, Reseal(p) PROVE TabOK'
  <2>1. dialog.views[p] \in View
    BY <1>20 DEF Reseal, Free, InDialog, MaySeal, Dialog, Views, DialogOK, Is
  <2> QED BY <1>20, <2>1, OnlyView, SealsWhat DEF Reseal
<1>21. CASE Rotate
  <2>1. [p \in People |-> IF MaySeal(dialog.views[p]) THEN dialog.views[p] ELSE None] \in Views
    BY <1>21 DEF Rotate, Free, InDialog, MaySeal, Dialog, Views, DialogOK, Is
  <2> QED BY <1>21, <2>1, SealsWhat DEF Rotate
<1>22. CASE OtherRequest
  BY <1>22 DEF OtherRequest
<1>23. CASE LooksUpGuest
  BY <1>23 DEF LooksUpGuest
<1>24. CASE Invite
  <2>1. dialog.guest.who \in People /\ dialog.guest.view \in View
    BY <1>24 DEF Invite, Free, InDialog, Dialog, Guest, DialogOK, Is
  <2> QED BY <1>24, <2>1, OnlyView, SealsWhat DEF Invite
<1>25. CASE ActEnds
  BY <1>25 DEF ActEnds
<1>26. CASE Shows
  BY <1>26 DEF Shows
<1>27. CASE Cancels
  BY <1>27 DEF Cancels
<1>28. CASE Confirms
  <2>1. ask.who \in People /\ ask.view.key \in Nat
    <3>1. ask \in Ask
      BY <1>28 DEF Confirms, DialogOK, Is
    <3> QED BY <3>1 DEF Ask, View
  <2>2. PICK inOld \in BOOLEAN :
          Decides(Only(ask.who, IF ask.view.state = "pinned" THEN None ELSE ask.view.key), inOld)
    BY <1>28 DEF Confirms
  <2>3. Only(ask.who, IF ask.view.state = "pinned" THEN None ELSE ask.view.key) \in [People -> Nat \union {None}]
    BY <2>1, OnlyKey
  <2>4. UNCHANGED at
    BY <1>28 DEF Confirms
  <2> QED BY <2>2, <2>3, <2>4, DecidesWhat
<1>29. CASE Forget
  BY <1>29, OnlyKey, DecidesWhat DEF Forget
<1>30. CASE UNCHANGED vars
  BY <1>30 DEF vars, tab
<1> QED
  BY <1>1, <1>2, <1>3, <1>4, <1>5, <1>6, <1>7, <1>8, <1>9, <1>10, <1>11, <1>12, <1>13, <1>14,
     <1>15, <1>16, <1>17, <1>18, <1>19, <1>20, <1>21, <1>22, <1>23, <1>24, <1>25, <1>26, <1>27, <1>28,
     <1>29, <1>30 DEF Next

\* Every step keeps the types of what is on screen and asked.
LEMMA DialogStep == TypeOK /\ [Next]_vars => DialogOK'
<1> SUFFICES ASSUME TypeOK, [Next]_vars PROVE DialogOK'
  OBVIOUS
<1> USE DEF TypeOK, DialogOK
<1>1. CASE Publishes
  BY <1>1 DEF Publishes, tab
<1>2. CASE OtherSaves
  BY <1>2 DEF OtherSaves, tab
<1>3. CASE Unlock
  BY <1>3 DEF Unlock
<1>4. CASE Lock
  BY <1>4 DEF Lock, Closes
<1>5. CASE Edit
  BY <1>5 DEF Edit
<1>6. CASE Save
  BY <1>6 DEF Save
<1>7. CASE Overwrite
  BY <1>7 DEF Overwrite
<1>8. ASSUME NEW editing \in BOOLEAN, Leaves(editing) PROVE DialogOK'
  BY <1>8 DEF Leaves
<1>9. CASE Opens
  BY <1>9 DEF Opens
<1>10. CASE Returns
  BY <1>10 DEF Returns
<1>11. CASE ReturnKept
  BY <1>11 DEF ReturnKept, Applied
<1>12. CASE ReturnMetadata
  BY <1>12 DEF ReturnMetadata
<1>13. CASE ReturnFile
  BY <1>13 DEF ReturnFile, Applied, Closes, Ask, Is
<1>14. CASE ChainStarts
  BY <1>14 DEF ChainStarts
<1>15. CASE ChainArrives
  BY <1>15 DEF ChainArrives
<1>16. CASE ChainEnds
  BY <1>16 DEF ChainEnds
<1>17. CASE OpensDialog
  BY <1>17 DEF OpensDialog, Dialog, Views, Nobody
<1>18. CASE ClosesDialog
  BY <1>18 DEF ClosesDialog
<1>19. CASE LoadEnds
  <2>1. dialog \in Dialog /\ [p \in People |-> Verdict(p)] \in Views
    BY <1>19, VerdictView DEF LoadEnds, InDialog, Views, Is
  <2> QED BY <1>19, <2>1 DEF LoadEnds, Dialog
<1>20. ASSUME NEW p \in People, Reseal(p) PROVE DialogOK'
  <2>1. dialog.views[p] \in View
    BY <1>20 DEF Reseal, Free, InDialog, MaySeal, Dialog, Views, Is
  <2> QED BY <1>20, <2>1, OnlyView, SealsWhat DEF Reseal
<1>21. CASE Rotate
  <2>1. [p \in People |-> IF MaySeal(dialog.views[p]) THEN dialog.views[p] ELSE None] \in Views
    BY <1>21 DEF Rotate, Free, InDialog, MaySeal, Dialog, Views, Is
  <2> QED BY <1>21, <2>1, SealsWhat DEF Rotate
<1>22. CASE OtherRequest
  BY <1>22 DEF OtherRequest, Act, NoKeys, Pins
<1>23. CASE LooksUpGuest
  BY <1>23, VerdictView DEF LooksUpGuest, Free, InDialog, Is, Dialog, Guest
<1>24. CASE Invite
  <2>1. dialog.guest.who \in People /\ dialog.guest.view \in View
    BY <1>24 DEF Invite, Free, InDialog, Dialog, Guest, Is
  <2> QED BY <1>24, <2>1, OnlyView, SealsWhat DEF Invite
<1>25. CASE ActEnds
  <2>1. act' = None /\ ask' = ask
    BY <1>25 DEF ActEnds
  <2>2. CASE ~InDialog
    BY <1>25, <2>1, <2>2 DEF ActEnds
  <2>3. CASE InDialog
    <3>1. dialog \in Dialog /\ Is(local)
      BY <2>3 DEF InDialog, Is
    <3>2. \/ dialog' \in {dialog, Loads(dialog), [Loads(dialog) EXCEPT !.guest = None]}
          \/ \E p \in People, g \in Guest \union {None} : dialog' = [dialog EXCEPT !.guest = g]
      BY <1>25, <2>3, <3>1, VerdictView DEF ActEnds, Guest
    <3>3. dialog' \in Dialog
      BY <3>1, <3>2 DEF Loads, Dialog
    <3> QED BY <2>1, <3>3
  <2> QED BY <2>2, <2>3
<1>26. CASE Shows
  BY <1>26, VerdictView DEF Shows, Is, Ask
<1>27. CASE Cancels
  BY <1>27 DEF Cancels
<1>28. CASE Confirms
  BY <1>28 DEF Confirms
<1>29. CASE Forget
  BY <1>29 DEF Forget
<1>30. CASE UNCHANGED vars
  BY <1>30 DEF vars, tab
<1> QED
  BY <1>1, <1>2, <1>3, <1>4, <1>5, <1>6, <1>7, <1>8, <1>9, <1>10, <1>11, <1>12, <1>13, <1>14,
     <1>15, <1>16, <1>17, <1>18, <1>19, <1>20, <1>21, <1>22, <1>23, <1>24, <1>25, <1>26, <1>27, <1>28,
     <1>29, <1>30 DEF Next

\* None is none of the values there are.
LEMMA Absent == None \notin Local \union Upload \union Queue \union Dialog \union Guest \union View \union Act \union Ask
BY NoneAssumption

\* A decision opens and closes nothing, and leaves what the copy was made from.
LEMMA DecidesKeeps ==
  ASSUME TabOK, NEW keys \in [People -> Nat \union {None}], NEW inOld \in BOOLEAN, Decides(keys, inOld)
  PROVE  /\ Is(queue') <=> Is(queue)
         /\ Is(queue) => queue'.ver = queue.ver /\ (queue.state # "saved" => queue'.state # "saved")
         /\ Is(local') <=> Is(local)
         /\ Is(local) => /\ local'.ver = local.ver /\ local'.base = local.base /\ local'.edits = local.edits
                         /\ local'.stale = local.stale
                         /\ \A p \in People : local'.pins[p] = IF Is(keys[p]) /\ ~inOld THEN keys[p] ELSE local.pins[p]
                         /\ \A p \in People : local'.mine[p] = IF Is(keys[p]) /\ ~inOld THEN local.mine[p] \union {keys[p]} ELSE local.mine[p]
         /\ chain.next => chain'.next
         /\ chain'.next => chain.next \/ ~(On("personal") \/ On("leaving"))
<1> DEFINE decided == {p \in People : Is(keys[p])}
           pins == [p \in People |-> IF Is(keys[p]) THEN keys[p] ELSE local.pins[p]]
           mine == [p \in People |-> IF Is(keys[p]) THEN local.mine[p] \union {keys[p]} ELSE local.mine[p]]
<1>1. CASE decided = {}
  <2>1. UNCHANGED <<local, queue, chain, owed>> /\ \A p \in People : ~Is(keys[p])
    BY <1>1 DEF Decides
  <2> QED BY <2>1
<1>2. CASE decided # {}
  <2>1. /\ MayDecide /\ SavePins
        /\ local' = IF inOld THEN local ELSE [local EXCEPT !.pins = pins, !.mine = mine]
    BY <1>2 DEF Decides
  <2>2. local \in Local
    BY <2>1 DEF MayDecide, TabOK, Is
  <2>3. pins \in Pins /\ mine \in Mine
    BY <2>2 DEF Pins, Mine, Local, Is
  <2>4. local' \in Local
    BY <2>1, <2>2, <2>3 DEF Local
  <2>5. /\ Is(queue') <=> Is(queue)
        /\ Is(queue) => queue'.ver = queue.ver /\ (queue.state # "saved" => queue'.state # "saved")
    BY <2>1, Absent DEF SavePins, Queue, TabOK, Is
  <2>6. /\ chain.next => chain'.next
        /\ chain'.next => chain.next \/ ~(On("personal") \/ On("leaving"))
    BY <2>1 DEF SavePins, TabOK
  <2>7. Is(local) /\ Is(local')
    BY <2>2, <2>4, Absent DEF Is
  <2>8. /\ local'.ver = local.ver /\ local'.base = local.base /\ local'.edits = local.edits
        /\ local'.stale = local.stale
        /\ \A p \in People : local'.pins[p] = IF Is(keys[p]) /\ ~inOld THEN keys[p] ELSE local.pins[p]
        /\ \A p \in People : local'.mine[p] = IF Is(keys[p]) /\ ~inOld THEN local.mine[p] \union {keys[p]} ELSE local.mine[p]
    BY <2>1, <2>2, <2>3 DEF Local
  <2> QED BY <2>5, <2>6, <2>7, <2>8
<1> QED BY <1>1, <1>2

\* Each action that decides on keys decides on some.
LEMMA Decided ==
  ASSUME TypeOK,
         \/ \E p \in People : Reseal(p)
         \/ Rotate \/ Invite \/ Confirms \/ Forget
  PROVE  \E keys \in [People -> Nat \union {None}], inOld \in BOOLEAN :
           Decides(keys, inOld) /\ (inOld => "switch" \notin Careful)
<1> DEFINE Sealing(views) == [p \in People |-> IF Is(views[p]) /\ views[p].state = "unknown" THEN views[p].key ELSE None]
           Goal == \E keys \in [People -> Nat \union {None}], inOld \in BOOLEAN :
                     Decides(keys, inOld) /\ (inOld => "switch" \notin Careful)
<1>0. ASSUME NEW keys \in [People -> Nat \union {None}], Decides(keys, FALSE) PROVE Goal
  BY <1>0
<1>1. ASSUME NEW views \in Views, NEW kind, SealsTo(kind, views) PROVE Goal
  <2>1. Sealing(views) \in [People -> Nat \union {None}]
    BY DEF Views, View, Is
  <2>2. Decides(Sealing(views), FALSE)
    BY <1>1 DEF SealsTo
  <2> HIDE DEF Sealing
  <2> QED BY <2>1, <2>2, <1>0
<1>2. CASE \E p \in People : Reseal(p)
  <2>1. PICK p \in People : Reseal(p)
    BY <1>2
  <2>2. dialog.views[p] \in View
    BY <2>1 DEF Reseal, Free, InDialog, MaySeal, Dialog, Views, TypeOK, DialogOK, Is
  <2>3. Only(p, dialog.views[p]) \in Views /\ SealsTo("reseal", Only(p, dialog.views[p]))
    BY <2>1, <2>2, OnlyView DEF Reseal
  <2> QED BY <2>3, <1>1
<1>3. CASE Rotate
  <2> DEFINE views == [p \in People |-> IF MaySeal(dialog.views[p]) THEN dialog.views[p] ELSE None]
  <2>1. views \in Views
    BY <1>3 DEF Rotate, Free, InDialog, MaySeal, Dialog, Views, TypeOK, DialogOK, Is
  <2>2. SealsTo("rotate", views)
    BY <1>3 DEF Rotate
  <2> HIDE DEF views
  <2> QED BY <2>1, <2>2, <1>1
<1>4. CASE Invite
  <2>1. dialog.guest.who \in People /\ dialog.guest.view \in View
    BY <1>4 DEF Invite, Free, InDialog, Dialog, Guest, TypeOK, DialogOK, Is
  <2>2. /\ Only(dialog.guest.who, dialog.guest.view) \in Views
        /\ SealsTo("invite", Only(dialog.guest.who, dialog.guest.view))
    BY <1>4, <2>1, OnlyView DEF Invite
  <2> QED BY <2>2, <1>1
<1>5. CASE Confirms
  <2> DEFINE key == IF ask.view.state = "pinned" THEN None ELSE ask.view.key
  <2>1. ask.who \in People /\ key \in Nat \union {None}
    <3>1. ask \in Ask
      BY <1>5 DEF Confirms, TypeOK, DialogOK, Is
    <3> QED BY <3>1 DEF Ask, View
  <2>2. \E inOld \in BOOLEAN : Decides(Only(ask.who, key), inOld) /\ (inOld => "switch" \notin Careful)
    BY <1>5 DEF Confirms
  <2> HIDE DEF key
  <2>3. Only(ask.who, key) \in [People -> Nat \union {None}]
    BY <2>1, OnlyKey
  <2> QED BY <2>2, <2>3
<1>6. CASE Forget
  <2>1. PICK p \in People : Decides(Only(p, 0), FALSE)
    BY <1>6 DEF Forget
  <2>2. Only(p, 0) \in [People -> Nat \union {None}]
    BY OnlyKey
  <2> QED BY <2>1, <2>2, <1>0
<1> QED BY <1>2, <1>3, <1>4, <1>5, <1>6

\* Every step keeps what is open with what is on screen.
LEMMA ScreenStep == TypeOK /\ [Next]_vars => ScreenOK'
<1> SUFFICES ASSUME TypeOK, [Next]_vars PROVE ScreenOK'
  OBVIOUS
<1> USE DEF TypeOK, ScreenOK, On
<1>1. CASE Publishes
  BY <1>1 DEF Publishes, tab
<1>2. CASE OtherSaves
  BY <1>2 DEF OtherSaves, tab
<1>3. CASE Unlock
  <2>1. Is(local') /\ Is(queue')
    BY <1>3, CopyLocal, Absent DEF Unlock, Fresh, ServerOK, Queue, Is
  <2> QED BY <1>3, <2>1 DEF Unlock, At, On, Is
<1>4. CASE Lock
  BY <1>4 DEF Lock, Closes, At, On, Is, TabOK, Upload
<1>5. CASE Edit
  BY <1>5, Absent DEF Edit, On, TabOK, Queue, Local, Made, Is
<1>6. CASE Save
  <2>1. local \in Local /\ queue \in Queue
    BY <1>6 DEF Save, TabOK, Is
  <2>2. /\ local' \in {local, [local EXCEPT !.edits = "saved", !.base = local.pins]}
        /\ queue' \in {Fresh(stored.ver + 1), [queue EXCEPT !.state = "conflict"]}
    BY <1>6 DEF Save
  <2>3. local' \in Local
    BY <2>1, <2>2 DEF Local, Made
  <2>4. queue' \in Queue
    BY <2>1, <2>2 DEF Queue, Fresh, ServerOK
  <2>5. queue' # None /\ local' # None
    BY <2>3, <2>4, Absent
  <2> QED BY <1>6, <2>5 DEF Save, On, Is
<1>7. CASE Overwrite
  <2>1. local \in Local /\ queue \in Queue
    BY <1>7 DEF Overwrite, TabOK, Is
  <2>2. /\ local' \in {local, [local EXCEPT !.edits = "saved", !.base = local.pins]}
        /\ queue' \in {Fresh(stored.ver + 1), [queue EXCEPT !.state = "conflict"]}
    BY <1>7 DEF Overwrite
  <2>3. local' \in Local
    BY <2>1, <2>2 DEF Local, Made
  <2>4. queue' \in Queue
    BY <2>1, <2>2 DEF Queue, Fresh, ServerOK
  <2>5. queue' # None /\ local' # None
    BY <2>3, <2>4, Absent
  <2> QED BY <1>7, <2>5 DEF Overwrite, On, Is
<1>8. ASSUME NEW editing \in BOOLEAN, Leaves(editing) PROVE ScreenOK'
  <2>1. local \in Local /\ queue \in Queue
    BY <1>8 DEF Leaves, On, TabOK, Is
  <2>2. local' \in Local
    BY <1>8, <2>1 DEF Leaves, Queue, Local, Made, Stale
  <2>3. local' # None
    BY <2>2, Absent
  <2> QED BY <1>8, <2>3 DEF Leaves, At, On, Is
<1>9. CASE Opens
  BY <1>9 DEF Opens, At, Returning, On
<1>10. CASE Returns
  BY <1>10 DEF Returns, Returning, On
<1>11. CASE ReturnKept
  <2>1. queue' # None
    BY <1>11, Absent DEF ReturnKept, Applied, Fresh, Queue, TabOK, Local, On, Is
  <2> QED BY <1>11, <2>1 DEF ReturnKept, Applied, At, On, Is
<1>12. CASE ReturnMetadata
  BY <1>12 DEF ReturnMetadata, On
<1>13. CASE ReturnFile
  <2>1. CASE Applied(Copy(stored, at.ver)) /\ UNCHANGED <<chain, owed>>
    <3>1. Copy(stored, at.ver) \in Local /\ Copy(stored, at.ver).ver = at.ver /\ at.ver \in Nat
      BY CopyLocal DEF Copy, TabOK
    <3>2. queue' # None /\ local' # None
      BY <2>1, <3>1, Absent DEF Applied, Fresh, Queue
    <3> QED BY <2>1, <3>2 DEF Applied, At, On, Is
  <2>2. CASE Closes
    BY <2>2 DEF Closes, At, On, TabOK, Upload, Is
  <2> QED BY <1>13, <2>1, <2>2 DEF ReturnFile
<1>14. CASE ChainStarts
  BY <1>14, Absent DEF ChainStarts, TabOK, Local, Upload, On, Is
<1>15. CASE ChainArrives
  BY <1>15, Absent DEF ChainArrives, On, Upload, TabOK, Is
<1>16. CASE ChainEnds
  <2>1. chain'.up = None /\ at'.on = at.on /\ UNCHANGED <<queue, dialog, ask>>
    BY <1>16 DEF ChainEnds, TabOK
  <2>2. Is(local') <=> Is(local)
    <3>1. CASE chain.up.late
      BY <1>16, <3>1 DEF ChainEnds
    <3>2. CASE ~chain.up.late
      <4>1. local \in Local /\ chain.up \in Upload
        BY <1>16, <3>2 DEF ChainEnds, TabOK, Is
      <4>2. \/ local' = [local EXCEPT !.ver = chain.up.ver + 1,
                                     !.base = IF On("personal") THEN local.base ELSE chain.up.pins]
            \/ local' = local
            \/ local' = Refused(local)
        BY <1>16, <3>2 DEF ChainEnds
      <4>3. chain.up.ver + 1 \in Nat
            /\ (IF On("personal") THEN local.base ELSE chain.up.pins) \in Pins
        BY <4>1 DEF Upload, Local
      <4>5. [local EXCEPT !.ver = chain.up.ver + 1,
                          !.base = IF On("personal") THEN local.base ELSE chain.up.pins] \in Local
        BY <4>1, <4>3, Lands
      <4>6. Refused(local) \in Local
        BY <4>1, RefusedLocal
      <4>4. local' \in Local
        BY <4>1, <4>2, <4>5, <4>6
      <4> QED BY <4>1, <4>4, Absent DEF Is
    <3> QED BY <3>1, <3>2
  <2> QED BY <2>1, <2>2 DEF On, Is
<1>17. CASE OpensDialog
  BY <1>17 DEF OpensDialog, On
<1>18. CASE ClosesDialog
  BY <1>18 DEF ClosesDialog
<1>19. CASE LoadEnds
  BY <1>19 DEF LoadEnds, InDialog
<1>20. ASSUME NEW p \in People, Reseal(p) PROVE ScreenOK'
  <2>1. PICK keys \in [People -> Nat \union {None}], inOld \in BOOLEAN : Decides(keys, inOld)
    BY <1>20, Decided
  <2>2. (Is(queue') <=> Is(queue)) /\ (Is(local') <=> Is(local)) /\ chain'.up = chain.up
    BY <2>1, DecidesWhat, DecidesKeeps
  <2>3. UNCHANGED <<at, dialog>> /\ (ask' = ask \/ ask' = None)
    BY <1>20 DEF Reseal
  <2> QED BY <2>2, <2>3 DEF Is
<1>21. CASE Rotate
  <2>1. PICK keys \in [People -> Nat \union {None}], inOld \in BOOLEAN : Decides(keys, inOld)
    BY <1>21, Decided
  <2>2. (Is(queue') <=> Is(queue)) /\ (Is(local') <=> Is(local)) /\ chain'.up = chain.up
    BY <2>1, DecidesWhat, DecidesKeeps
  <2>3. UNCHANGED <<at, dialog>> /\ (ask' = ask \/ ask' = None)
    BY <1>21 DEF Rotate
  <2> QED BY <2>2, <2>3 DEF Is
<1>22. CASE OtherRequest
  BY <1>22 DEF OtherRequest
<1>23. CASE LooksUpGuest
  BY <1>23 DEF LooksUpGuest, Free, InDialog
<1>24. CASE Invite
  <2>1. PICK keys \in [People -> Nat \union {None}], inOld \in BOOLEAN : Decides(keys, inOld)
    BY <1>24, Decided
  <2>2. (Is(queue') <=> Is(queue)) /\ (Is(local') <=> Is(local)) /\ chain'.up = chain.up
    BY <2>1, DecidesWhat, DecidesKeeps
  <2>3. UNCHANGED <<at, dialog>> /\ (ask' = ask \/ ask' = None)
    BY <1>24 DEF Invite
  <2> QED BY <2>2, <2>3 DEF Is
<1>25. CASE ActEnds
  BY <1>25 DEF ActEnds, InDialog, Is
<1>26. CASE Shows
  BY <1>26 DEF Shows
<1>27. CASE Cancels
  BY <1>27 DEF Cancels, Is
<1>28. CASE Confirms
  <2>1. PICK keys \in [People -> Nat \union {None}], inOld \in BOOLEAN : Decides(keys, inOld)
    BY <1>28, Decided
  <2>2. (Is(queue') <=> Is(queue)) /\ (Is(local') <=> Is(local)) /\ chain'.up = chain.up
    BY <2>1, DecidesWhat, DecidesKeeps
  <2>3. UNCHANGED <<at, dialog>> /\ (ask' = ask \/ ask' = None)
    BY <1>28 DEF Confirms
  <2> QED BY <2>2, <2>3 DEF Is
<1>29. CASE Forget
  <2>1. PICK keys \in [People -> Nat \union {None}], inOld \in BOOLEAN : Decides(keys, inOld)
    BY <1>29, Decided
  <2>2. (Is(queue') <=> Is(queue)) /\ (Is(local') <=> Is(local)) /\ chain'.up = chain.up
    BY <2>1, DecidesWhat, DecidesKeeps
  <2>3. UNCHANGED <<at, dialog>> /\ (ask' = ask \/ ask' = None)
    BY <1>29 DEF Forget
  <2> QED BY <2>2, <2>3 DEF Is
<1>30. CASE UNCHANGED vars
  BY <1>30 DEF vars, tab, On
<1> QED
  BY <1>1, <1>2, <1>3, <1>4, <1>5, <1>6, <1>7, <1>8, <1>9, <1>10, <1>11, <1>12, <1>13, <1>14,
     <1>15, <1>16, <1>17, <1>18, <1>19, <1>20, <1>21, <1>22, <1>23, <1>24, <1>25, <1>26, <1>27, <1>28,
     <1>29, <1>30 DEF Next

\* Every step keeps the types.
LEMMA TypeStep == TypeOK /\ [Next]_vars => TypeOK'
BY ServerStep, TabStep, DialogStep, ScreenStep DEF TypeOK

\* Every step leaves discarded edits out of what is uploaded.
LEMMA EditsStep == TypeOK /\ Edits /\ [Next]_vars => Edits'
<1> SUFFICES ASSUME TypeOK, Edits, [Next]_vars PROVE Edits'
  OBVIOUS
<1> USE DEF Edits, DiscardedStaysOut, Is
<1>1. CASE Publishes
  BY <1>1 DEF Publishes, tab
<1>2. CASE OtherSaves
  BY <1>2 DEF OtherSaves, tab
<1>3. CASE Unlock
  BY <1>3 DEF Unlock, Copy
<1>4. CASE Lock
  BY <1>4 DEF Lock, Closes, TypeOK, TabOK, Upload
<1>5. CASE Edit
  <2>1. local \in Local /\ queue \in Queue
    BY <1>5 DEF Edit, TypeOK, ScreenOK, TabOK, On
  <2>2. local'.edits = "new" /\ queue'.state # "saved" /\ queue' \in Queue
    BY <1>5, <2>1 DEF Edit, Local, Queue
  <2> QED BY <1>5, <2>2, Absent DEF Edit
<1>6. CASE Save
  <2>1. local \in Local /\ queue \in Queue
    BY <1>6 DEF Save, TypeOK, ScreenOK, TabOK, On
  <2>2. CASE queue.ver = stored.ver
    BY <1>6, <2>1, <2>2 DEF Save, Local
  <2>3. CASE queue.ver # stored.ver
    <3>1. queue' \in Queue /\ queue'.state = "conflict"
      BY <1>6, <2>1, <2>3 DEF Save, Queue
    <3> QED BY <1>6, <2>3, <3>1, Absent DEF Save
  <2> QED BY <2>2, <2>3
<1>7. CASE Overwrite
  <2>1. local \in Local
    BY <1>7 DEF Overwrite, TypeOK, ScreenOK, TabOK, On
  <2> QED BY <1>7, <2>1 DEF Overwrite, Local
<1>8. ASSUME NEW editing \in BOOLEAN, Leaves(editing) PROVE Edits'
  <2>1. local \in Local
    BY <1>8 DEF Leaves, TypeOK, ScreenOK, TabOK, On
  <2>2. /\ local'.edits = IF local.edits = "new" THEN "discarded" ELSE local.edits
        /\ local'.stale = (local.stale \/ Stale(editing))
    BY <1>8, <2>1 DEF Leaves, Local
  <2>3. local.edits = "new" => Stale(editing)
    BY <2>1, Absent DEF Stale
  <2>4. local'.edits # "new" /\ (local'.edits = "discarded" => local'.stale)
    BY <2>1, <2>2, <2>3, Absent
  <2>5. chain' = chain
    BY <1>8 DEF Leaves
  <2> QED BY <2>4, <2>5
<1>9. CASE Opens
  BY <1>9 DEF Opens
<1>10. CASE Returns
  BY <1>10 DEF Returns
<1>11. CASE ReturnKept
  BY <1>11 DEF ReturnKept, Applied, TypeOK, ScreenOK, TabOK, On, Local, Made
<1>12. CASE ReturnMetadata
  BY <1>12 DEF ReturnMetadata
<1>13. CASE ReturnFile
  BY <1>13 DEF ReturnFile, Applied, Closes, Copy, TypeOK, TabOK, Upload
<1>14. CASE ChainStarts
  BY <1>14 DEF ChainStarts
<1>15. CASE ChainArrives
  BY <1>15 DEF ChainArrives, TypeOK, TabOK, Upload
<1>16. CASE ChainEnds
  <2>1. chain'.up = None /\ queue' = queue
    BY <1>16 DEF ChainEnds, TypeOK, TabOK
  <2>2. Is(local') => Is(local) /\ local'.edits = local.edits /\ (local.stale => local'.stale)
    <3>1. CASE chain.up.late
      BY <1>16, <3>1 DEF ChainEnds
    <3>2. CASE ~chain.up.late
      BY <1>16, <3>2 DEF ChainEnds, TypeOK, ScreenOK, TabOK, Local, Refused
    <3> QED BY <3>1, <3>2
  <2> QED BY <2>1, <2>2
<1>17. CASE OpensDialog
  BY <1>17 DEF OpensDialog
<1>18. CASE ClosesDialog
  BY <1>18 DEF ClosesDialog
<1>19. CASE LoadEnds
  BY <1>19 DEF LoadEnds
<1>20. ASSUME NEW p \in People, Reseal(p) PROVE Edits'
  <2>1. PICK keys \in [People -> Nat \union {None}], inOld \in BOOLEAN : Decides(keys, inOld)
    BY <1>20, Decided
  <2> QED BY <2>1, DecidesWhat, DecidesKeeps DEF TypeOK
<1>21. CASE Rotate
  <2>1. PICK keys \in [People -> Nat \union {None}], inOld \in BOOLEAN : Decides(keys, inOld)
    BY <1>21, Decided
  <2> QED BY <2>1, DecidesWhat, DecidesKeeps DEF TypeOK
<1>22. CASE OtherRequest
  BY <1>22 DEF OtherRequest
<1>23. CASE LooksUpGuest
  BY <1>23 DEF LooksUpGuest
<1>24. CASE Invite
  <2>1. PICK keys \in [People -> Nat \union {None}], inOld \in BOOLEAN : Decides(keys, inOld)
    BY <1>24, Decided
  <2> QED BY <2>1, DecidesWhat, DecidesKeeps DEF TypeOK
<1>25. CASE ActEnds
  BY <1>25 DEF ActEnds
<1>26. CASE Shows
  BY <1>26 DEF Shows
<1>27. CASE Cancels
  BY <1>27 DEF Cancels
<1>28. CASE Confirms
  <2>1. PICK keys \in [People -> Nat \union {None}], inOld \in BOOLEAN : Decides(keys, inOld)
    BY <1>28, Decided
  <2> QED BY <2>1, DecidesWhat, DecidesKeeps DEF TypeOK
<1>29. CASE Forget
  <2>1. PICK keys \in [People -> Nat \union {None}], inOld \in BOOLEAN : Decides(keys, inOld)
    BY <1>29, Decided
  <2> QED BY <2>1, DecidesWhat, DecidesKeeps DEF TypeOK
<1>30. CASE UNCHANGED vars
  BY <1>30 DEF vars, tab
<1> QED
  BY <1>1, <1>2, <1>3, <1>4, <1>5, <1>6, <1>7, <1>8, <1>9, <1>10, <1>11, <1>12, <1>13, <1>14,
     <1>15, <1>16, <1>17, <1>18, <1>19, <1>20, <1>21, <1>22, <1>23, <1>24, <1>25, <1>26, <1>27, <1>28,
     <1>29, <1>30 DEF Next

\* Every step keeps count of what a return waits for.
LEMMA WaitingStep == "switch" \in Careful /\ TypeOK /\ Waiting /\ [Next]_vars => Waiting'
<1> SUFFICES ASSUME "switch" \in Careful, TypeOK, Waiting, [Next]_vars PROVE Waiting'
  OBVIOUS
<1> USE DEF Waiting, Pending, On, Is
<1>1. CASE Publishes
  BY <1>1 DEF Publishes, tab
<1>2. CASE OtherSaves
  BY <1>2 DEF OtherSaves, tab
<1>3. CASE Unlock
  BY <1>3 DEF Unlock, At
<1>4. CASE Lock
  BY <1>4 DEF Lock, Closes, At
<1>5. CASE Edit
  BY <1>5 DEF Edit
<1>6. CASE Save
  BY <1>6 DEF Save
<1>7. CASE Overwrite
  BY <1>7 DEF Overwrite
<1>8. ASSUME NEW editing \in BOOLEAN, Leaves(editing) PROVE Waiting'
  BY <1>8 DEF Leaves, At
<1>9. CASE Opens
  BY <1>9 DEF Opens, At, Returning
<1>10. CASE Returns
  BY <1>10 DEF Returns, Returning
<1>11. CASE ReturnKept
  BY <1>11 DEF ReturnKept, Applied, At
<1>12. CASE ReturnMetadata
  BY <1>12 DEF ReturnMetadata, TypeOK, TabOK
<1>13. CASE ReturnFile
  BY <1>13 DEF ReturnFile, Applied, At, Closes
<1>14. CASE ChainStarts
  <2>1. CASE ~Is(local) \/ local.stale
    BY <1>14, <2>1 DEF ChainStarts, TypeOK, TabOK
  <2>2. CASE ~(~Is(local) \/ local.stale)
    <3>1. chain'.up \in Upload /\ chain'.next = FALSE
      BY <1>14, <2>2 DEF ChainStarts, TypeOK, TabOK, Local, Upload
    <3>2. at' = at /\ chain.next /\ chain.up = None
      BY <1>14, <2>2 DEF ChainStarts
    <3> QED BY <3>1, <3>2, Absent
  <2> QED BY <2>1, <2>2
<1>15. CASE ChainArrives
  BY <1>15, Absent DEF ChainArrives, TypeOK, TabOK, Upload
<1>16. CASE ChainEnds
  BY <1>16 DEF ChainEnds, TypeOK, TabOK
<1>17. CASE OpensDialog
  BY <1>17 DEF OpensDialog
<1>18. CASE ClosesDialog
  BY <1>18 DEF ClosesDialog
<1>19. CASE LoadEnds
  BY <1>19 DEF LoadEnds
<1>20. ASSUME NEW p \in People, Reseal(p) PROVE Waiting'
  <2>1. PICK keys \in [People -> Nat \union {None}], inOld \in BOOLEAN : Decides(keys, inOld)
    BY <1>20, Decided
  <2>2. at' = at /\ (On("returning") => chain' = chain)
    BY <1>20, <2>1 DEF Reseal, Decides, MayDecide
  <2> QED BY <2>2
<1>21. CASE Rotate
  <2>1. PICK keys \in [People -> Nat \union {None}], inOld \in BOOLEAN : Decides(keys, inOld)
    BY <1>21, Decided
  <2>2. at' = at /\ (On("returning") => chain' = chain)
    BY <1>21, <2>1 DEF Rotate, Decides, MayDecide
  <2> QED BY <2>2
<1>22. CASE OtherRequest
  BY <1>22 DEF OtherRequest
<1>23. CASE LooksUpGuest
  BY <1>23 DEF LooksUpGuest
<1>24. CASE Invite
  <2>1. PICK keys \in [People -> Nat \union {None}], inOld \in BOOLEAN : Decides(keys, inOld)
    BY <1>24, Decided
  <2>2. at' = at /\ (On("returning") => chain' = chain)
    BY <1>24, <2>1 DEF Invite, Decides, MayDecide
  <2> QED BY <2>2
<1>25. CASE ActEnds
  BY <1>25 DEF ActEnds
<1>26. CASE Shows
  BY <1>26 DEF Shows
<1>27. CASE Cancels
  BY <1>27 DEF Cancels
<1>28. CASE Confirms
  <2>1. PICK keys \in [People -> Nat \union {None}], inOld \in BOOLEAN : Decides(keys, inOld)
    BY <1>28, Decided
  <2>2. at' = at /\ (On("returning") => chain' = chain)
    BY <1>28, <2>1 DEF Confirms, Decides, MayDecide
  <2> QED BY <2>2
<1>29. CASE Forget
  <2>1. PICK keys \in [People -> Nat \union {None}], inOld \in BOOLEAN : Decides(keys, inOld)
    BY <1>29, Decided
  <2>2. at' = at /\ (On("returning") => chain' = chain)
    BY <1>29, <2>1 DEF Forget, Decides, MayDecide
  <2> QED BY <2>2
<1>30. CASE UNCHANGED vars
  BY <1>30 DEF vars, tab
<1> QED
  BY <1>1, <1>2, <1>3, <1>4, <1>5, <1>6, <1>7, <1>8, <1>9, <1>10, <1>11, <1>12, <1>13, <1>14,
     <1>15, <1>16, <1>17, <1>18, <1>19, <1>20, <1>21, <1>22, <1>23, <1>24, <1>25, <1>26, <1>27, <1>28,
     <1>29, <1>30 DEF Next

\* A decision is owed, and an upload behind the one under way will carry it.
LEMMA DecisionKept ==
  ASSUME "switch" \in Careful, TabOK, ScreenOK, Decisions,
         NEW keys \in [People -> Nat \union {None}], Decides(keys, FALSE)
  PROVE  Decisions'
<1> DEFINE decided == {p \in People : Is(keys[p])}
           pins == [p \in People |-> IF Is(keys[p]) THEN keys[p] ELSE local.pins[p]]
           mine == [p \in People |-> IF Is(keys[p]) THEN local.mine[p] \union {keys[p]} ELSE local.mine[p]]
<1>1. CASE decided = {}
  <2>1. UNCHANGED <<local, queue, chain, owed>>
    BY <1>1 DEF Decides
  <2> QED BY <2>1 DEF Decisions, DecisionIsSaved, Behind, Is
<1>2. CASE decided # {}
  <2>1. /\ MayDecide /\ SavePins /\ owed' = owed \union decided
        /\ local' = [local EXCEPT !.pins = pins, !.mine = mine]
    BY <1>2 DEF Decides
  <2>2. local \in Local /\ (On("personal") \/ On("shared"))
    BY <2>1 DEF MayDecide, TabOK, ScreenOK, Is, Screens, On
  <2>3. DecidedIn(local') = DecidedIn(local) \union decided
    BY <2>1, <2>2 DEF Local, Mine, DecidedIn
  <2>4. Behind'
    <3>1. CASE On("personal")
      <4>1. queue \in Queue
        BY <3>1 DEF TabOK, ScreenOK, Is
      <4>2. queue' \in Queue /\ queue'.state # "saved"
        BY <2>1, <3>1, <4>1, Absent DEF SavePins, Queue, Is
      <4> QED BY <4>2, Absent DEF Behind, Is
    <3>2. CASE ~On("personal")
      BY <2>1, <2>2, <3>2 DEF SavePins, Behind, TabOK, On
    <3> QED BY <3>1, <3>2
  <2>5. Is(local') /\ Is(local)
    BY <2>2, <2>1, DecidesKeeps, Absent DEF Is
  <2>6. owed' \subseteq DecidedIn(local')
    BY <2>1, <2>2, <2>3, <2>5 DEF Decisions
  <2> QED BY <2>4, <2>5, <2>6 DEF Decisions, DecisionIsSaved, Behind
<1> QED BY <1>1, <1>2

\* Every step keeps what is owed in the copy, with an upload of it to come.
LEMMA DecisionsStep == "switch" \in Careful /\ TypeOK /\ Waiting /\ Decisions /\ [Next]_vars => Decisions'
<1> SUFFICES ASSUME "switch" \in Careful, TypeOK, Waiting, Decisions, [Next]_vars PROVE Decisions'
  OBVIOUS
<1> USE DEF Decisions, DecisionIsSaved, Behind, DecidedIn, Is
<1>1. CASE Publishes
  BY <1>1 DEF Publishes, tab
<1>2. CASE OtherSaves
  BY <1>2 DEF OtherSaves, tab
<1>3. CASE Unlock
  BY <1>3 DEF Unlock, TypeOK, ScreenOK, On
<1>4. CASE Lock
  BY <1>4 DEF Lock, Closes
<1>5. CASE Edit
  <2>1. local \in Local /\ queue \in Queue
    BY <1>5 DEF Edit, TypeOK, ScreenOK, TabOK, On
  <2>2. /\ local'.mine = local.mine /\ local' \in Local
        /\ queue' \in Queue /\ queue'.state # "saved"
    BY <1>5, <2>1 DEF Edit, Local, Queue, Made
  <2> QED BY <1>5, <2>1, <2>2, Absent DEF Edit
<1>6. CASE Save
  <2>1. local \in Local /\ queue \in Queue /\ owed \subseteq DecidedIn(local)
    BY <1>6 DEF Save, TypeOK, ScreenOK, TabOK, On
  <2>2. CASE queue.ver = stored.ver
    <3>1. owed' = {}
      BY <1>6, <2>1, <2>2 DEF Save, Stores
    <3> QED BY <3>1
  <2>3. CASE queue.ver # stored.ver
    <3>1. queue' \in Queue /\ queue'.state = "conflict"
      BY <1>6, <2>1, <2>3 DEF Save, Queue
    <3>2. UNCHANGED <<owed, local, chain>>
      BY <1>6, <2>3 DEF Save
    <3> QED BY <2>1, <3>1, <3>2, Absent
  <2> QED BY <2>2, <2>3
<1>7. CASE Overwrite
  <2>1. local \in Local /\ owed \subseteq DecidedIn(local)
    BY <1>7 DEF Overwrite, TypeOK, ScreenOK, TabOK, On
  <2>2. owed' = {}
    BY <1>7, <2>1 DEF Overwrite, Stores
  <2> QED BY <2>2
<1>8. ASSUME NEW editing \in BOOLEAN, Leaves(editing) PROVE Decisions'
  <2>1. local \in Local /\ queue \in Queue /\ owed \subseteq DecidedIn(local)
    BY <1>8 DEF Leaves, TypeOK, ScreenOK, TabOK, On
  <2>2. owed' = {} \/ (owed' = owed /\ queue.state = "saved")
    BY <1>8, <2>1 DEF Leaves, Stores, Stale
  <2>3. CASE owed' = {}
    BY <2>3
  <2>4. CASE owed' = owed /\ queue.state = "saved"
    <3>1. local' \in Local /\ local'.mine = local.mine /\ queue' = None /\ chain' = chain
      BY <1>8, <2>1 DEF Leaves, Local, Made, Queue, Stale
    <3> QED BY <2>1, <2>4, <3>1, Absent
  <2> QED BY <2>2, <2>3, <2>4
<1>9. CASE Opens
  BY <1>9 DEF Opens
<1>10. CASE Returns
  BY <1>10 DEF Returns
<1>11. CASE ReturnKept
  <2>1. ~chain.next /\ chain.up = None /\ queue = None /\ Is(local)
    BY <1>11 DEF ReturnKept, Waiting, Pending, TypeOK, ScreenOK, TabOK, On
  <2>2. owed = {}
    BY <2>1
  <2>3. owed' = {}
    BY <1>11, <2>2 DEF ReturnKept
  <2> QED BY <2>3
<1>12. CASE ReturnMetadata
  BY <1>12 DEF ReturnMetadata
<1>13. CASE ReturnFile
  <2>1. ~chain.next /\ chain.up = None /\ queue = None /\ Is(local)
    BY <1>13 DEF ReturnFile, Waiting, Pending, TypeOK, ScreenOK, TabOK, On
  <2>2. owed = {}
    BY <2>1
  <2>3. owed' = {}
    BY <1>13, <2>2 DEF ReturnFile, Closes
  <2> QED BY <2>3
<1>14. CASE ChainStarts
  <2>1. CASE ~Is(local) \/ local.stale
    <3>1. owed' = {}
      BY <1>14, <2>1 DEF ChainStarts
    <3> QED BY <3>1
  <2>2. CASE ~(~Is(local) \/ local.stale)
    <3>1. chain'.up \in Upload /\ chain'.up.mine = local.mine /\ chain'.up.answer = None
      BY <1>14, <2>2 DEF ChainStarts, TypeOK, TabOK, Local, Upload
    <3>2. UNCHANGED <<owed, local, queue>> /\ owed \subseteq DecidedIn(local)
      BY <1>14, <2>2 DEF ChainStarts
    <3> QED BY <2>2, <3>1, <3>2, Absent, NoneAssumption
  <2> QED BY <2>1, <2>2
<1>15. CASE ChainArrives
  <2>1. chain.up \in Upload /\ chain.up.answer = None /\ UNCHANGED <<local, queue>>
    BY <1>15 DEF ChainArrives, TypeOK, TabOK
  <2>2. CASE chain.up.ver = stored.ver
    <3>1. chain'.up \in Upload /\ chain'.up.answer = "ok" /\ chain'.next = chain.next /\ owed' = owed \ DecidedIn(chain.up)
      BY <1>15, <2>1, <2>2 DEF ChainArrives, Upload, TypeOK, TabOK, Stores
    <3> QED BY <2>1, <3>1, Absent, NoneAssumption
  <2>3. CASE chain.up.ver # stored.ver
    <3>1. chain'.up \in Upload /\ chain'.up.answer = "conflict" /\ chain'.next = chain.next /\ owed' = owed
      BY <1>15, <2>1, <2>3 DEF ChainArrives, Upload, TypeOK, TabOK
    <3> QED BY <2>1, <3>1, Absent
  <2> QED BY <2>2, <2>3
<1>16. CASE ChainEnds
  <2>1. chain'.up = None /\ chain'.next = chain.next /\ queue' = queue
    BY <1>16 DEF ChainEnds, TypeOK, TabOK
  <2>2. owed' = {} \/ (owed' = owed /\ chain.up.answer = "ok")
    BY <1>16 DEF ChainEnds
  <2>3. Is(local') <=> Is(local)
    BY <1>16, TypeStep DEF ChainEnds, TypeOK, ScreenOK, On, TabOK
  <2>4. Is(local) => local'.mine = local.mine
    <3>1. CASE chain.up.late
      BY <1>16, <3>1 DEF ChainEnds
    <3>2. CASE ~chain.up.late
      BY <1>16, <3>2 DEF ChainEnds, TypeOK, TabOK, ScreenOK, Local, Refused
    <3> QED BY <3>1, <3>2
  <2>5. chain.up # None
    BY <1>16 DEF ChainEnds
  <2> QED BY <2>1, <2>2, <2>3, <2>4, <2>5
<1>17. CASE OpensDialog
  BY <1>17 DEF OpensDialog
<1>18. CASE ClosesDialog
  BY <1>18 DEF ClosesDialog
<1>19. CASE LoadEnds
  BY <1>19 DEF LoadEnds
<1>20. ASSUME NEW p \in People, Reseal(p) PROVE Decisions'
  <2>1. PICK keys \in [People -> Nat \union {None}] : Decides(keys, FALSE)
    BY <1>20, Decided
  <2> QED BY <2>1, DecisionKept DEF TypeOK
<1>21. CASE Rotate
  <2>1. PICK keys \in [People -> Nat \union {None}] : Decides(keys, FALSE)
    BY <1>21, Decided
  <2> QED BY <2>1, DecisionKept DEF TypeOK
<1>22. CASE OtherRequest
  BY <1>22 DEF OtherRequest
<1>23. CASE LooksUpGuest
  BY <1>23 DEF LooksUpGuest
<1>24. CASE Invite
  <2>1. PICK keys \in [People -> Nat \union {None}] : Decides(keys, FALSE)
    BY <1>24, Decided
  <2> QED BY <2>1, DecisionKept DEF TypeOK
<1>25. CASE ActEnds
  BY <1>25 DEF ActEnds
<1>26. CASE Shows
  BY <1>26 DEF Shows
<1>27. CASE Cancels
  BY <1>27 DEF Cancels
<1>28. CASE Confirms
  <2>1. PICK keys \in [People -> Nat \union {None}] : Decides(keys, FALSE)
    BY <1>28, Decided
  <2> QED BY <2>1, DecisionKept DEF TypeOK
<1>29. CASE Forget
  <2>1. PICK keys \in [People -> Nat \union {None}] : Decides(keys, FALSE)
    BY <1>29, Decided
  <2> QED BY <2>1, DecisionKept DEF TypeOK
<1>30. CASE UNCHANGED vars
  BY <1>30 DEF vars, tab
<1> QED
  BY <1>1, <1>2, <1>3, <1>4, <1>5, <1>6, <1>7, <1>8, <1>9, <1>10, <1>11, <1>12, <1>13, <1>14,
     <1>15, <1>16, <1>17, <1>18, <1>19, <1>20, <1>21, <1>22, <1>23, <1>24, <1>25, <1>26, <1>27, <1>28,
     <1>29, <1>30 DEF Next

\* Every step keeps what was read behind the server's version, or equal to it.
LEMMA UploadsStep == "switch" \in Careful /\ TypeOK /\ Waiting /\ Uploads /\ [Next]_vars => Uploads'
<1> SUFFICES ASSUME "switch" \in Careful, TypeOK, Waiting, Uploads, [Next]_vars PROVE Uploads'
  OBVIOUS
<1> USE DEF Uploads, Current, Is, On
<1>a. /\ stored.ver \in Nat /\ at.ver \in Nat /\ chain.next \in BOOLEAN
      /\ Is(local) => local.ver \in Nat
      /\ Is(queue) => queue.ver \in Nat
      /\ Is(chain.up) => chain.up.ver \in Nat
  BY DEF TypeOK, ServerOK, TabOK, Local, Queue, Upload
<1>1. CASE Publishes
  BY <1>1 DEF Publishes, tab
<1>2. CASE OtherSaves
  <2>1. stored'.ver = stored.ver + 1 /\ UNCHANGED <<local, at, queue, chain>>
    BY <1>2 DEF OtherSaves, tab, TypeOK, ServerOK
  <2> QED BY <2>1, <1>a
<1>3. CASE Unlock
  <2>1. ~Is(chain.up) \/ chain.up.late
    BY <1>3 DEF Unlock, TypeOK, ScreenOK
  <2> QED BY <1>3, <2>1, <1>a DEF Unlock, Copy, Fresh, At
<1>4. CASE Lock
  <2>1. Is(chain'.up) => /\ Is(chain.up) /\ chain'.up.ver = chain.up.ver /\ chain'.up.base = chain.up.base
                         /\ chain'.up.answer = chain.up.answer /\ chain'.up.pins = chain.up.pins
    BY <1>4 DEF Lock, Closes, TypeOK, TabOK, Upload
  <2> QED BY <1>4, <2>1, <1>a DEF Lock, Closes, At
<1>5. CASE Edit
  <2>1. local \in Local /\ queue \in Queue
    BY <1>5 DEF Edit, TypeOK, ScreenOK, TabOK
  <2>2. local'.ver = local.ver /\ local'.base = local.base /\ queue'.ver = queue.ver
    BY <1>5, <2>1 DEF Edit, Local, Queue
  <2> QED BY <1>5, <2>1, <2>2, <1>a, Absent DEF Edit
<1>6. CASE Save
  <2>1. local \in Local /\ queue \in Queue
    BY <1>6 DEF Save, TypeOK, ScreenOK, TabOK
  <2>2. CASE queue.ver = stored.ver
    <3>1. local' = [local EXCEPT !.edits = "saved", !.base = local.pins] /\ UNCHANGED <<at, chain>>
      BY <1>6, <2>2 DEF Save
    <3>2. stored'.ver = stored.ver + 1 /\ stored'.pins = local.pins /\ queue'.ver = stored.ver + 1
      BY <1>6, <2>2 DEF Save, Stores, Fresh
    <3>3. local'.ver = local.ver /\ local'.base = local.pins
      BY <2>1, <3>1 DEF Local
    <3> QED BY <1>6, <2>1, <3>1, <3>2, <3>3, <1>a, Absent DEF Save
  <2>3. CASE queue.ver # stored.ver
    <3>1. queue'.ver = queue.ver /\ UNCHANGED <<stored, local, at, chain>>
      BY <1>6, <2>1, <2>3 DEF Save, Queue
    <3> QED BY <2>1, <3>1, <1>a, Absent
  <2> QED BY <2>2, <2>3
<1>7. CASE Overwrite
  <2>1. local \in Local /\ queue \in Queue
    BY <1>7 DEF Overwrite, TypeOK, ScreenOK, TabOK
  <2>2. /\ stored'.ver = stored.ver + 1 /\ stored'.pins = local.pins /\ queue'.ver = stored.ver + 1
        /\ local'.ver = local.ver /\ local'.base = local.pins /\ UNCHANGED <<at, chain>>
    BY <1>7, <2>1 DEF Overwrite, Stores, Fresh, Local
  <2> QED BY <1>7, <2>1, <2>2, <1>a, Absent DEF Overwrite
<1>8. ASSUME NEW editing \in BOOLEAN, Leaves(editing) PROVE Uploads'
  <2>1. local \in Local /\ queue \in Queue
    BY <1>8 DEF Leaves, TypeOK, ScreenOK, TabOK
  <2>2. stored' = stored \/ stored'.ver = stored.ver + 1
    BY <1>8 DEF Leaves, Stores
  <2>3. local'.ver = queue.ver /\ local'.base = local.base
    BY <1>8, <2>1 DEF Leaves, Local
  <2> QED BY <1>8, <2>1, <2>2, <2>3, <1>a, Absent DEF Leaves, At
<1>9. CASE Opens
  BY <1>9, <1>a DEF Opens, At, Returning
<1>10. CASE Returns
  BY <1>10, <1>a DEF Returns, Returning
<1>11. CASE ReturnKept
  <2>1. ~chain.next /\ chain.up = None /\ Is(local)
    BY <1>11 DEF ReturnKept, Waiting, Pending, TypeOK, TabOK, ScreenOK
  <2> QED BY <1>11, <2>1, <1>a DEF ReturnKept, Applied, Fresh, At
<1>12. CASE ReturnMetadata
  BY <1>12, <1>a DEF ReturnMetadata, TypeOK, TabOK
<1>13. CASE ReturnFile
  <2>1. ~chain.next /\ chain.up = None
    BY <1>13 DEF ReturnFile, Waiting, Pending, TypeOK, TabOK
  <2>2. CASE Applied(Copy(stored, at.ver)) /\ UNCHANGED chain
    BY <1>13, <2>1, <2>2, <1>a DEF ReturnFile, Applied, Copy, Fresh, At
  <2>3. CASE Closes
    BY <1>13, <2>1, <2>3, <1>a DEF ReturnFile, Closes, At
  <2> QED BY <1>13, <2>2, <2>3 DEF ReturnFile
<1>14. CASE ChainStarts
  <2>1. at'.ver = at.ver /\ UNCHANGED <<stored, local, queue>> /\ chain'.next = FALSE
    BY <1>14 DEF ChainStarts, TypeOK, TabOK
  <2>2. (On("personal"))' <=> On("personal")
    BY <1>14 DEF ChainStarts, TypeOK, TabOK
  <2>3. Is(chain'.up) => Is(local) /\ chain'.up.ver = local.ver /\ chain'.up.base = local.base /\ chain'.up.answer = None
    BY <1>14 DEF ChainStarts
  <2> QED BY <1>14, <2>1, <2>2, <2>3, <1>a, NoneAssumption DEF ChainStarts
<1>15. CASE ChainArrives
  <2>1. chain.up \in Upload /\ chain.up.answer = None /\ UNCHANGED <<local, queue, at>>
    BY <1>15 DEF ChainArrives, TypeOK, TabOK
  <2>2. CASE chain.up.ver = stored.ver
    <3>1. /\ chain'.up.answer = "ok" /\ chain'.up.ver = chain.up.ver /\ chain'.up.pins = chain.up.pins
          /\ chain'.up.late = chain.up.late /\ chain'.next = chain.next
      BY <1>15, <2>1, <2>2 DEF ChainArrives, TypeOK, TabOK, Upload
    <3>2. stored'.ver = stored.ver + 1 /\ stored'.pins = chain.up.pins
      BY <1>15, <2>2 DEF ChainArrives, Stores
    <3> QED BY <1>15, <2>1, <2>2, <3>1, <3>2, <1>a, NoneAssumption DEF ChainArrives
  <2>3. CASE chain.up.ver # stored.ver
    <3>1. /\ chain'.up.answer = "conflict" /\ chain'.up.late = chain.up.late
          /\ chain'.next = chain.next /\ stored' = stored
      BY <1>15, <2>1, <2>3 DEF ChainArrives, TypeOK, TabOK, Upload
    <3> QED BY <1>15, <2>1, <2>3, <3>1, <1>a, NoneAssumption DEF ChainArrives
  <2> QED BY <2>2, <2>3
<1>16. CASE ChainEnds
  <2>1. /\ chain'.up = None /\ chain'.next = chain.next /\ UNCHANGED <<queue, stored>>
        /\ at'.ver = at.ver /\ at'.on = at.on
    BY <1>16 DEF ChainEnds, TypeOK, TabOK
  <2>2. CASE chain.up.late
    <3>1. local' = local
      BY <1>16, <2>2 DEF ChainEnds
    <3> QED BY <2>1, <3>1, <1>a
  <2>3. CASE ~chain.up.late
    <3>1. local \in Local /\ Is(chain.up)
      BY <1>16, <2>3 DEF ChainEnds, TypeOK, TabOK, ScreenOK
    <3>2. \/ local'.ver = local.ver /\ local'.base = local.base
          \/ /\ chain.up.answer = "ok" /\ local'.ver = chain.up.ver + 1
             /\ local'.base = IF On("personal") THEN local.base ELSE chain.up.pins
      BY <1>16, <2>3, <3>1 DEF ChainEnds, Local, Refused
    <3>3. Is(queue) => On("personal")
      BY DEF TypeOK, ScreenOK
    <3>4. Is(local)
      BY <3>1, Absent
    <3> QED BY <2>1, <2>3, <3>1, <3>2, <3>3, <3>4, <1>a
  <2> QED BY <2>2, <2>3
<1>17. CASE OpensDialog
  BY <1>17 DEF OpensDialog
<1>18. CASE ClosesDialog
  BY <1>18 DEF ClosesDialog
<1>19. CASE LoadEnds
  BY <1>19 DEF LoadEnds
<1>20. ASSUME NEW p \in People, Reseal(p) PROVE Uploads'
  <2>1. PICK keys \in [People -> Nat \union {None}], inOld \in BOOLEAN : Decides(keys, inOld)
    BY <1>20, Decided
  <2>2. UNCHANGED <<stored, at>> /\ chain'.up = chain.up
    BY <1>20, <2>1, DecidesWhat DEF Reseal, TypeOK
  <2> QED BY <2>1, <2>2, <1>a, DecidesKeeps DEF TypeOK, ScreenOK
<1>21. CASE Rotate
  <2>1. PICK keys \in [People -> Nat \union {None}], inOld \in BOOLEAN : Decides(keys, inOld)
    BY <1>21, Decided
  <2>2. UNCHANGED <<stored, at>> /\ chain'.up = chain.up
    BY <1>21, <2>1, DecidesWhat DEF Rotate, TypeOK
  <2> QED BY <2>1, <2>2, <1>a, DecidesKeeps DEF TypeOK, ScreenOK
<1>22. CASE OtherRequest
  BY <1>22 DEF OtherRequest
<1>23. CASE LooksUpGuest
  BY <1>23 DEF LooksUpGuest
<1>24. CASE Invite
  <2>1. PICK keys \in [People -> Nat \union {None}], inOld \in BOOLEAN : Decides(keys, inOld)
    BY <1>24, Decided
  <2>2. UNCHANGED <<stored, at>> /\ chain'.up = chain.up
    BY <1>24, <2>1, DecidesWhat DEF Invite, TypeOK
  <2> QED BY <2>1, <2>2, <1>a, DecidesKeeps DEF TypeOK, ScreenOK
<1>25. CASE ActEnds
  BY <1>25 DEF ActEnds
<1>26. CASE Shows
  BY <1>26 DEF Shows
<1>27. CASE Cancels
  BY <1>27 DEF Cancels
<1>28. CASE Confirms
  <2>1. PICK keys \in [People -> Nat \union {None}], inOld \in BOOLEAN : Decides(keys, inOld)
    BY <1>28, Decided
  <2>2. UNCHANGED <<stored, at>> /\ chain'.up = chain.up
    BY <1>28, <2>1, DecidesWhat DEF Confirms, TypeOK
  <2> QED BY <2>1, <2>2, <1>a, DecidesKeeps DEF TypeOK, ScreenOK
<1>29. CASE Forget
  <2>1. PICK keys \in [People -> Nat \union {None}], inOld \in BOOLEAN : Decides(keys, inOld)
    BY <1>29, Decided
  <2>2. UNCHANGED <<stored, at>> /\ chain'.up = chain.up
    BY <1>29, <2>1, DecidesWhat DEF Forget, TypeOK
  <2> QED BY <2>1, <2>2, <1>a, DecidesKeeps DEF TypeOK, ScreenOK
<1>30. CASE UNCHANGED vars
  BY <1>30 DEF vars, tab
<1> QED
  BY <1>1, <1>2, <1>3, <1>4, <1>5, <1>6, <1>7, <1>8, <1>9, <1>10, <1>11, <1>12, <1>13, <1>14,
     <1>15, <1>16, <1>17, <1>18, <1>19, <1>20, <1>21, <1>22, <1>23, <1>24, <1>25, <1>26, <1>27, <1>28,
     <1>29, <1>30 DEF Next

\* What is sealed to is what the pins name after it, or was pinned here before; and a
\* pin that sealing replaces was made here.
LEMMA SealsToPins ==
  ASSUME TypeOK, Is(local), NEW kind, NEW views \in Views, SealsTo(kind, views),
         \A p \in People : Is(views[p]) => MaySeal(views[p]) /\ Agrees(p, views[p])
  PROVE  \A p \in People :
           /\ act'.keys[p] \in {0, local'.pins[p]} \union local.mine[p]
           /\ local.mine[p] \subseteq local'.mine[p]
           /\ \/ local'.pins[p] = local.pins[p]
              \/ local'.pins[p] \in local'.mine[p] /\ local.pins[p] \in {0} \union local.mine[p]
<1> DEFINE keys == [p \in People |-> IF Is(views[p]) /\ views[p].state = "unknown" THEN views[p].key ELSE None]
<1>1. keys \in [People -> Nat \union {None}]
  BY DEF Views, View, Is
<1>2. Decides(keys, FALSE)
  BY DEF SealsTo
<1> SUFFICES ASSUME NEW p \in People
             PROVE  /\ act'.keys[p] \in {0, local'.pins[p]} \union local.mine[p]
                    /\ local.mine[p] \subseteq local'.mine[p]
                    /\ \/ local'.pins[p] = local.pins[p]
                       \/ local'.pins[p] \in local'.mine[p] /\ local.pins[p] \in {0} \union local.mine[p]
  OBVIOUS
<1>3. /\ local'.pins[p] = IF Is(keys[p]) THEN keys[p] ELSE local.pins[p]
      /\ local'.mine[p] = IF Is(keys[p]) THEN local.mine[p] \union {keys[p]} ELSE local.mine[p]
  BY <1>1, <1>2, DecidesKeeps DEF TypeOK
<1>4. act'.keys[p] = IF Is(views[p]) THEN views[p].key ELSE 0
  BY DEF SealsTo
<1>5. Is(views[p]) => views[p].key \in Nat /\ views[p].state \in State
  BY DEF Views, View, Is
<1>6. Is(keys[p]) <=> Is(views[p]) /\ views[p].state = "unknown"
  BY <1>5, NoneAssumption DEF Is
<1> HIDE DEF keys
<1>7. Is(keys[p]) => keys[p] = views[p].key
  BY <1>6 DEF keys
<1> QED BY <1>3, <1>4, <1>5, <1>6, <1>7 DEF MaySeal, Agrees, State

\* A verdict is right when it is looked up.
LEMMA VerdictAgrees == \A p \in People : Agrees(p, Verdict(p))
BY DEF Agrees, Verdict, Problem

\* Sealing leaves what every verdict on screen says of the pins.
LEMMA SealsKeep ==
  ASSUME TypeOK, Verdicts, Is(local), UNCHANGED dialog, NEW kind, NEW views \in Views, SealsTo(kind, views),
         \A p \in People : Is(views[p]) => MaySeal(views[p]) /\ Agrees(p, views[p])
  PROVE  Verdicts'
<1>1. \A p \in People :
        /\ local.mine[p] \subseteq local'.mine[p]
        /\ \/ local'.pins[p] = local.pins[p]
           \/ local'.pins[p] \in local'.mine[p] /\ local.pins[p] \in {0} \union local.mine[p]
  BY SealsToPins
<1>2. Is(dialog) /\ Is(dialog.guest) => dialog.guest.who \in People
  BY DEF TypeOK, DialogOK, Dialog, Guest, Is
<1>3. \A p \in People : Is(dialog) /\ Is(dialog.views[p]) => Agrees(p, dialog.views[p])'
  BY <1>1 DEF Verdicts, Agrees, Is
<1>4. Is(dialog) /\ Is(dialog.guest) => Agrees(dialog.guest.who, dialog.guest.view)'
  BY <1>1, <1>2 DEF Verdicts, Agrees, Is
<1> QED BY <1>3, <1>4 DEF Verdicts, Is

\* Every step keeps what the verdicts on screen say of the pins.
LEMMA VerdictsStep == TypeOK /\ Verdicts /\ [Next]_vars => Verdicts'
<1> SUFFICES ASSUME TypeOK, Verdicts, [Next]_vars PROVE Verdicts'
  OBVIOUS
<1> USE DEF Verdicts, Agrees, Is
<1>1. CASE Publishes
  BY <1>1 DEF Publishes, tab
<1>2. CASE OtherSaves
  BY <1>2 DEF OtherSaves, tab
<1>3. CASE Unlock
  BY <1>3 DEF Unlock, TypeOK, ScreenOK, On
<1>4. CASE Lock
  BY <1>4 DEF Lock, Closes
<1>5. CASE Edit
  <2>1. dialog' = dialog /\ (Is(dialog) => local'.pins = local.pins /\ local'.mine = local.mine)
    BY <1>5 DEF Edit, TypeOK, TabOK, ScreenOK, On, Local
  <2> QED BY <2>1
<1>6. CASE Save
  <2>1. dialog' = dialog /\ (Is(dialog) => local'.pins = local.pins /\ local'.mine = local.mine)
    BY <1>6 DEF Save, TypeOK, TabOK, ScreenOK, On, Local
  <2> QED BY <2>1
<1>7. CASE Overwrite
  <2>1. dialog' = dialog /\ (Is(dialog) => local'.pins = local.pins /\ local'.mine = local.mine)
    BY <1>7 DEF Overwrite, TypeOK, TabOK, ScreenOK, On, Local
  <2> QED BY <2>1
<1>8. ASSUME NEW editing \in BOOLEAN, Leaves(editing) PROVE Verdicts'
  <2>1. dialog' = dialog /\ (Is(dialog) => local'.pins = local.pins /\ local'.mine = local.mine)
    BY <1>8 DEF Leaves, TypeOK, TabOK, ScreenOK, On, Local
  <2> QED BY <2>1
<1>9. CASE Opens
  BY <1>9 DEF Opens
<1>10. CASE Returns
  BY <1>10 DEF Returns
<1>11. CASE ReturnKept
  BY <1>11 DEF ReturnKept, Applied
<1>12. CASE ReturnMetadata
  BY <1>12 DEF ReturnMetadata
<1>13. CASE ReturnFile
  BY <1>13 DEF ReturnFile, Applied, Closes
<1>14. CASE ChainStarts
  BY <1>14 DEF ChainStarts
<1>15. CASE ChainArrives
  BY <1>15 DEF ChainArrives
<1>16. CASE ChainEnds
  <2>1. dialog' = dialog /\ (Is(dialog) => local'.pins = local.pins /\ local'.mine = local.mine)
    BY <1>16 DEF ChainEnds, TypeOK, TabOK, ScreenOK, Local, Refused
  <2> QED BY <2>1
<1>17. CASE OpensDialog
  BY <1>17 DEF OpensDialog, Nobody
<1>18. CASE ClosesDialog
  BY <1>18 DEF ClosesDialog
<1>19. CASE LoadEnds
  <2>1. dialog \in Dialog /\ Is(local) /\ UNCHANGED local
    BY <1>19 DEF LoadEnds, InDialog, TypeOK, DialogOK
  <2>2. CASE dialog' = [dialog EXCEPT !.loads = FALSE]
    <3>1. dialog'.views = dialog.views /\ dialog'.guest = dialog.guest
      BY <2>1, <2>2 DEF Dialog
    <3> QED BY <2>1, <3>1, Absent
  <2>3. CASE dialog' = [dialog EXCEPT !.views = [p \in People |-> Verdict(p)], !.loads = FALSE]
    <3>1. dialog'.views = [p \in People |-> Verdict(p)] /\ dialog'.guest = dialog.guest
      BY <2>1, <2>3 DEF Dialog
    <3> QED BY <2>1, <3>1, VerdictAgrees, Absent
  <2> QED BY <1>19, <2>2, <2>3 DEF LoadEnds
<1>20. ASSUME NEW p \in People, Reseal(p) PROVE Verdicts'
  <2> DEFINE views == Only(p, dialog.views[p])
  <2>1. UNCHANGED dialog /\ Is(local) /\ Is(dialog) /\ dialog \in Dialog
    BY <1>20 DEF Reseal, Free, InDialog, TypeOK, DialogOK
  <2>2. dialog.views[p] \in View /\ MaySeal(dialog.views[p])
    BY <1>20, <2>1 DEF Reseal, Dialog, Views, MaySeal
  <2>3. views \in Views /\ SealsTo("reseal", views)
    BY <1>20, <2>2, OnlyView DEF Reseal
  <2>4. \A q \in People : Is(views[q]) => q = p /\ views[q] = dialog.views[q]
    BY DEF Only, Nobody
  <2>5. \A q \in People : Is(views[q]) => MaySeal(views[q]) /\ Agrees(q, views[q])
    BY <2>1, <2>2, <2>4
  <2> HIDE DEF views
  <2> QED BY <2>1, <2>3, <2>5, SealsKeep
<1>21. CASE Rotate
  <2> DEFINE views == [p \in People |-> IF MaySeal(dialog.views[p]) THEN dialog.views[p] ELSE None]
  <2>1. UNCHANGED dialog /\ Is(local) /\ Is(dialog) /\ dialog \in Dialog
    BY <1>21 DEF Rotate, Free, InDialog, TypeOK, DialogOK
  <2>2. views \in Views
    BY <2>1 DEF Dialog, Views
  <2>3. \A q \in People : Is(views[q]) => views[q] = dialog.views[q] /\ MaySeal(dialog.views[q])
    OBVIOUS
  <2>4. SealsTo("rotate", views)
    BY <1>21 DEF Rotate
  <2> HIDE DEF views
  <2>5. \A q \in People : Is(views[q]) => MaySeal(views[q]) /\ Agrees(q, views[q])
    BY <2>1, <2>3 DEF MaySeal
  <2> QED BY <2>1, <2>2, <2>4, <2>5, SealsKeep
<1>22. CASE OtherRequest
  BY <1>22 DEF OtherRequest
<1>23. CASE LooksUpGuest
  <2>1. dialog \in Dialog /\ UNCHANGED local
    BY <1>23 DEF LooksUpGuest, Free, InDialog, TypeOK, DialogOK
  <2>2. CASE dialog' = [dialog EXCEPT !.guest = None]
    <3>1. dialog'.views = dialog.views /\ dialog'.guest = None
      BY <2>1, <2>2 DEF Dialog
    <3> QED BY <2>1, <3>1, Absent
  <2>3. ASSUME NEW p \in People, dialog' = [dialog EXCEPT !.guest = [who |-> p, view |-> Verdict(p)]]
        PROVE  Verdicts'
    <3>1. dialog'.views = dialog.views /\ dialog'.guest = [who |-> p, view |-> Verdict(p)]
      BY <2>1, <2>3 DEF Dialog
    <3> QED BY <2>1, <3>1, VerdictAgrees, Absent
  <2> QED BY <1>23, <2>2, <2>3 DEF LooksUpGuest
<1>24. CASE Invite
  <2> DEFINE guest == dialog.guest
             views == Only(guest.who, guest.view)
  <2>1. UNCHANGED dialog /\ Is(local) /\ Is(dialog) /\ dialog \in Dialog /\ Is(guest) /\ MaySeal(guest.view)
    BY <1>24 DEF Invite, Free, InDialog, TypeOK, DialogOK
  <2>2. guest \in Guest /\ guest.who \in People /\ guest.view \in View
    BY <2>1 DEF Dialog, Guest
  <2>3. views \in Views /\ SealsTo("invite", views)
    BY <1>24, <2>2, OnlyView DEF Invite
  <2>4. \A q \in People : Is(views[q]) => q = guest.who /\ views[q] = guest.view
    BY DEF Only, Nobody
  <2>5. \A q \in People : Is(views[q]) => MaySeal(views[q]) /\ Agrees(q, views[q])
    BY <2>1, <2>4
  <2> HIDE DEF views
  <2> QED BY <2>1, <2>3, <2>5, SealsKeep
<1>25. CASE ActEnds
  <2>1. UNCHANGED local
    BY <1>25 DEF ActEnds
  <2>2. CASE UNCHANGED dialog
    BY <2>1, <2>2
  <2>3. CASE dialog' = Loads(dialog) /\ Is(dialog)
    <3>1. dialog \in Dialog
      BY <2>3 DEF TypeOK, DialogOK
    <3>2. dialog'.views = dialog.views /\ dialog'.guest = dialog.guest
      BY <2>3, <3>1 DEF Loads, Dialog
    <3> QED BY <2>1, <2>3, <3>2
  <2>4. CASE dialog' = [Loads(dialog) EXCEPT !.guest = None] /\ Is(dialog)
    <3>1. dialog \in Dialog
      BY <2>4 DEF TypeOK, DialogOK
    <3>2. dialog'.views = dialog.views /\ dialog'.guest = None
      BY <2>4, <3>1 DEF Loads, Dialog
    <3> QED BY <2>1, <2>4, <3>2
  <2>5. ASSUME NEW p \in People, NEW g \in {None, [who |-> p, view |-> Verdict(p)]},
               dialog' = [dialog EXCEPT !.guest = g], Is(dialog)
        PROVE  Verdicts'
    <3>1. dialog \in Dialog
      BY <2>5 DEF TypeOK, DialogOK
    <3>2. dialog'.views = dialog.views /\ dialog'.guest = g
      BY <2>5, <3>1 DEF Dialog
    <3> QED BY <2>1, <2>5, <3>2, VerdictAgrees
  <2> QED BY <1>25, <2>2, <2>3, <2>4, <2>5 DEF ActEnds, InDialog
<1>26. CASE Shows
  BY <1>26 DEF Shows
<1>27. CASE Cancels
  BY <1>27 DEF Cancels
<1>28. CASE Confirms
  BY <1>28 DEF Confirms, TypeOK, ScreenOK
<1>29. CASE Forget
  BY <1>29 DEF Forget
<1>30. CASE UNCHANGED vars
  BY <1>30 DEF vars, tab
<1> QED
  BY <1>1, <1>2, <1>3, <1>4, <1>5, <1>6, <1>7, <1>8, <1>9, <1>10, <1>11, <1>12, <1>13, <1>14,
     <1>15, <1>16, <1>17, <1>18, <1>19, <1>20, <1>21, <1>22, <1>23, <1>24, <1>25, <1>26, <1>27, <1>28,
     <1>29, <1>30 DEF Next

\* What SealedAsPinned says of one step.
SealsPinned ==
  Is(act') /\ act' # act => \A p \in People : act'.keys[p] \in {0, local'.pins[p]} \cup local.mine[p]

\* Every step that seals does so to what the pins name after it, or was pinned here before.
LEMMA SealStep == TypeOK /\ Verdicts /\ [Next]_vars => SealsPinned
<1> SUFFICES ASSUME TypeOK, Verdicts, [Next]_vars PROVE SealsPinned
  OBVIOUS
<1> USE DEF SealsPinned
<1>1. CASE Publishes
  BY <1>1 DEF Publishes, tab
<1>2. CASE OtherSaves
  BY <1>2 DEF OtherSaves, tab
<1>3. CASE Unlock
  BY <1>3 DEF Unlock
<1>4. CASE Lock
  BY <1>4 DEF Lock
<1>5. CASE Edit
  BY <1>5 DEF Edit
<1>6. CASE Save
  BY <1>6 DEF Save
<1>7. CASE Overwrite
  BY <1>7 DEF Overwrite
<1>8. ASSUME NEW editing \in BOOLEAN, Leaves(editing) PROVE SealsPinned
  BY <1>8 DEF Leaves
<1>9. CASE Opens
  BY <1>9 DEF Opens
<1>10. CASE Returns
  BY <1>10 DEF Returns
<1>11. CASE ReturnKept
  BY <1>11 DEF ReturnKept
<1>12. CASE ReturnMetadata
  BY <1>12 DEF ReturnMetadata
<1>13. CASE ReturnFile
  BY <1>13 DEF ReturnFile
<1>14. CASE ChainStarts
  BY <1>14 DEF ChainStarts
<1>15. CASE ChainArrives
  BY <1>15 DEF ChainArrives
<1>16. CASE ChainEnds
  BY <1>16 DEF ChainEnds
<1>17. CASE OpensDialog
  BY <1>17 DEF OpensDialog
<1>18. CASE ClosesDialog
  BY <1>18 DEF ClosesDialog
<1>19. CASE LoadEnds
  BY <1>19 DEF LoadEnds
<1>20. ASSUME NEW p \in People, Reseal(p) PROVE SealsPinned
  <2>1. Is(dialog) /\ Is(local) /\ dialog \in Dialog
    BY <1>20 DEF Reseal, Free, InDialog, TypeOK, DialogOK, Is
  <2>2. dialog.views[p] \in View /\ MaySeal(dialog.views[p])
    BY <1>20, <2>1 DEF Reseal, Dialog, Views, MaySeal, Is
  <2>3. Only(p, dialog.views[p]) \in Views
    BY <2>2, OnlyView
  <2>4. \A q \in People : Is(Only(p, dialog.views[p])[q]) => q = p /\ Only(p, dialog.views[p])[q] = dialog.views[q]
    BY DEF Only, Nobody, Is
  <2> QED BY <1>20, <2>1, <2>2, <2>3, <2>4, SealsToPins DEF Reseal, Verdicts
<1>21. CASE Rotate
  <2> DEFINE views == [p \in People |-> IF MaySeal(dialog.views[p]) THEN dialog.views[p] ELSE None]
  <2>1. Is(dialog) /\ Is(local) /\ dialog \in Dialog
    BY <1>21 DEF Rotate, Free, InDialog, TypeOK, DialogOK, Is
  <2>2. views \in Views
    BY <2>1 DEF Dialog, Views
  <2>3. \A q \in People : Is(views[q]) => views[q] = dialog.views[q] /\ MaySeal(dialog.views[q])
    BY DEF Is
  <2>4. SealsTo("rotate", views)
    BY <1>21 DEF Rotate
  <2> HIDE DEF views
  <2> QED BY <2>1, <2>2, <2>3, <2>4, SealsToPins DEF MaySeal, Verdicts
<1>22. CASE OtherRequest
  BY <1>22 DEF OtherRequest, NoKeys
<1>23. CASE LooksUpGuest
  BY <1>23 DEF LooksUpGuest
<1>24. CASE Invite
  <2> DEFINE guest == dialog.guest
  <2>1. Is(dialog) /\ Is(local) /\ dialog \in Dialog /\ Is(guest) /\ MaySeal(guest.view)
    BY <1>24 DEF Invite, Free, InDialog, TypeOK, DialogOK, Is
  <2>2. guest \in Guest /\ guest.who \in People /\ guest.view \in View
    BY <2>1 DEF Dialog, Guest, Is
  <2>3. Only(guest.who, guest.view) \in Views /\ SealsTo("invite", Only(guest.who, guest.view))
    BY <1>24, <2>2, OnlyView DEF Invite
  <2>4. \A q \in People : Is(Only(guest.who, guest.view)[q]) => q = guest.who /\ Only(guest.who, guest.view)[q] = guest.view
    BY DEF Only, Nobody, Is
  <2>5. Agrees(guest.who, guest.view)
    BY <2>1 DEF Verdicts
  <2> QED BY <2>1, <2>2, <2>3, <2>4, <2>5, SealsToPins
<1>25. CASE ActEnds
  BY <1>25 DEF ActEnds, Is
<1>26. CASE Shows
  BY <1>26 DEF Shows
<1>27. CASE Cancels
  BY <1>27 DEF Cancels
<1>28. CASE Confirms
  BY <1>28 DEF Confirms
<1>29. CASE Forget
  BY <1>29 DEF Forget
<1>30. CASE UNCHANGED vars
  BY <1>30 DEF vars, tab
<1> QED
  BY <1>1, <1>2, <1>3, <1>4, <1>5, <1>6, <1>7, <1>8, <1>9, <1>10, <1>11, <1>12, <1>13, <1>14,
     <1>15, <1>16, <1>17, <1>18, <1>19, <1>20, <1>21, <1>22, <1>23, <1>24, <1>25, <1>26, <1>27, <1>28,
     <1>29, <1>30 DEF Next

\* The first state has nothing on screen and nothing under way.
LEMMA First == Init => TypeOK /\ Edits /\ Verdicts /\ Waiting /\ Decisions /\ Uploads
BY NoneAssumption DEF Init, NoKeys, On, Is, Pins, Screens,
   TypeOK, ServerOK, TabOK, DialogOK, ScreenOK, Edits, DiscardedStaysOut, Verdicts,
   Waiting, Pending, Decisions, DecisionIsSaved, Behind, Uploads, Current

----

\* What each part of the tab holds, and that what is open goes with what is on screen.
THEOREM Typed == Spec => []TypeOK
<1>1. Init => TypeOK
  BY First
<1>2. TypeOK /\ [Next]_vars => TypeOK'
  BY TypeStep
<1> QED BY <1>1, <1>2, PTL DEF Spec

\* A copy of a shared vault's key is sealed to the key the user's pin names at that
\* moment, or to one the user's copy pinned for that person earlier, for any people and
\* keys, whatever the server publishes meanwhile and whatever the list and the form
\* still show (sealVerdict, sealFor, rotateWithKey).
THEOREM SealedToPins == Spec => SealedAsPinned
<1>1. Init => Verdicts
  BY First
<1>2. TypeOK /\ Verdicts /\ [Next]_vars => Verdicts'
  BY VerdictsStep
<1>3. TypeOK /\ Verdicts /\ [Next]_vars =>
        [Is(act') /\ act' # act =>
           \A p \in People : act'.keys[p] \in {0, local'.pins[p]} \cup local.mine[p]]_vars
  BY SealStep DEF SealsPinned
<1> QED BY <1>1, <1>2, <1>3, Typed, PTL DEF Spec, SealedAsPinned

\* Edits the user discarded by switching away are in no upload of pins, although
\* those export the very copy the edits were made in (closeQueue, savePersonalPins).
THEOREM DiscardedOut == Spec => []DiscardedStaysOut
<1>1. Init => Edits
  BY First
<1>2. TypeOK /\ Edits /\ [Next]_vars => Edits'
  BY EditsStep
<1>3. Edits => DiscardedStaysOut
  BY DEF Edits
<1> QED BY <1>1, <1>2, <1>3, Typed, PTL DEF Spec

\* A return to the personal vault waits for every upload of pins under way, where
\* no key is decided on while the vault on screen changes (openPersonal).
THEOREM ReturnsWait == "switch" \in Careful => (Spec => []Waiting)
<1> SUFFICES ASSUME "switch" \in Careful PROVE Spec => []Waiting
  OBVIOUS
<1>1. Init => Waiting
  BY First
<1>2. TypeOK /\ Waiting /\ [Next]_vars => Waiting'
  BY WaitingStep
<1> QED BY <1>1, <1>2, Typed, PTL DEF Spec

\* With the same care, a decision on a key that no version of the personal vault has
\* and no notice gave up has an upload under way or to come (savePersonalPins).
THEOREM DecisionsKept == "switch" \in Careful => (Spec => []DecisionIsSaved)
<1> SUFFICES ASSUME "switch" \in Careful PROVE Spec => []DecisionIsSaved
  OBVIOUS
<1>1. Init => Decisions
  BY First
<1>2. TypeOK /\ Waiting /\ Decisions /\ [Next]_vars => Decisions'
  BY DecisionsStep
<1>3. Decisions => DecisionIsSaved
  BY DEF Decisions
<1>4. Spec => []Waiting
  BY ReturnsWait
<1> QED BY <1>1, <1>2, <1>3, <1>4, Typed, PTL DEF Spec

\* With the same care, an upload of pins goes over no pin it was not made from, for
\* any people, keys and number of versions (savePersonalPins, openPersonal).
THEOREM PinsKept == "switch" \in Careful => (Spec => PinsStay)
<1> SUFFICES ASSUME "switch" \in Careful PROVE Spec => PinsStay
  OBVIOUS
<1>1. Init => Uploads
  BY First
<1>2. TypeOK /\ Waiting /\ Uploads /\ [Next]_vars => Uploads'
  BY UploadsStep
<1>3. Uploads /\ [Next]_vars => [ChainArrives /\ stored' # stored => chain.up.base = stored.pins]_vars
  <2> SUFFICES ASSUME Uploads, ChainArrives, stored' # stored PROVE chain.up.base = stored.pins
    OBVIOUS
  <2>1. Is(chain.up) /\ ~Is(chain.up.answer) /\ chain.up.ver = stored.ver
    BY DEF ChainArrives
  <2> QED BY <2>1 DEF Uploads, Current
<1>4. Spec => []Waiting
  BY ReturnsWait
<1> QED BY <1>1, <1>2, <1>3, <1>4, Typed, PTL DEF Spec, PinsStay
====
