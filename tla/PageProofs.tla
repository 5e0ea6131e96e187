------------------------------ MODULE PageProofs -------------------------------
(***************************************************************************)
(* What is proved of the browser page: of SharedTab, the tab with a shared *)
(* vault, and of VaultEditor, the open vault on the page.                  *)
(*                                                                         *)
(* The tab: the epochs and keys it writes under, the versions it replaces, *)
(* and the key a replacement of the user key holds.                        *)
(*                                                                         *)
(* The editor: its tree stays one tree (Rooted), and an entry that is      *)
(* being edited stays out of the bin (DraftInv).                           *)
(***************************************************************************)
EXTENDS SharedTab, VaultEditor, TLAPS

-----------------------------------------------------------------------------
(* The tab of a member (SharedTab): the key the file is under, the versions *)
(* a save replaces, and what a replacement of the user key leaves.          *)

LEMMA NewKey ==
    ASSUME Bounds, MayRotate
    PROVE  New \in Nat /\ New \notin InUse
<1>1. PICK k \in 1 .. MaxKey : k \notin InUse
  BY DEF MayRotate
<1>2. New \in 1 .. MaxKey /\ New \notin InUse
  BY <1>1, Zenon DEF New
<1> QED BY <1>2 DEF Bounds

(* What the tab waits for: a rotation for its request, over the vault on    *)
(* screen, if no lock took it away; a queue that saves for its save.        *)
Waiting ==
    /\ Running("rotate") =>
         /\ Is(wire) /\ wire.kind = "rotate" /\ wire.epoch = task.epoch
         /\ task.late => ~Is(open)
         /\ ~task.late => Is(open) /\ open.state = "saved" /\ open.epoch = task.epoch
    /\ Saving => Is(wire) /\ wire.kind = "save"

LEMMA TabTypesInit == ASSUME NoneApart, TabInit PROVE TabTypeOK /\ Waiting
<1> USE DEF TabInit
<1>1. srv \in Servers
  BY DEF Servers, Copy, Copies
<1>2. me \in [key : Nat, kept : Nat \cup {None}]
  OBVIOUS
<1>3. TabTypeOK
  BY <1>1, <1>2 DEF TabTypeOK
<1> QED BY <1>3 DEF Waiting, Running, Saving, Is

LEMMA TabPutBack ==
    ASSUME TabTypeOK, Waiting, Running("rotate"), task \in Tasks
    PROVE  PutBack \in Queues \cup {None}
<1>1. CASE task.late
  BY <1>1 DEF PutBack, TabTypeOK
<1>2. CASE ~task.late
  <2>1. open \in Queues
    BY <1>2 DEF TabTypeOK, Waiting, Is
  <2> QED BY <1>2, <2>1 DEF PutBack, Tasks, Queues
<1> QED BY <1>1, <1>2

LEMMA TabTypes ==
    ASSUME Bounds, NoneApart, TabTypeOK, Waiting, [TabNext]_tabVars
    PROVE  TabTypeOK'
<1> USE DEF TabTypeOK, Is, tab, replacing
<1>1. Listed \in Rows
  BY DEF Listed, Rows, Active, Servers
<1>2. CASE OtherSaves
  BY <1>2 DEF OtherSaves, Servers
<1>3. CASE OtherRotates
  <2>1. PICK reached \in BOOLEAN :
            srv' = [srv EXCEPT !.epoch = @ + 1, !.key = New, !.file = New, !.ver = @ + 1,
                       !.mine = IF reached THEN Copy(New, published, srv.epoch + 1) ELSE @]
    BY <1>3 DEF OtherRotates
  <2>2. New \in Nat
    BY <1>3, NewKey DEF OtherRotates
  <2>3. Copy(New, published, srv.epoch + 1) \in Copies
    BY <2>2 DEF Copy, Copies, Servers
  <2>4. srv' = [epoch |-> srv.epoch + 1, key |-> New, file |-> New, ver |-> srv.ver + 1,
                member |-> srv.member,
                mine |-> IF reached THEN Copy(New, published, srv.epoch + 1) ELSE srv.mine]
    BY <2>1 DEF Servers
  <2>5. srv' \in Servers
    BY <2>2, <2>3, <2>4 DEF Servers
  <2> QED BY <1>3, <2>5 DEF OtherRotates
<1>4. CASE OtherReseals
  BY <1>4 DEF OtherReseals, Copy, Servers, Copies
<1>5. CASE Removed
  BY <1>5 DEF Removed, Servers
<1>6. CASE Refreshes
  BY <1>6, <1>1 DEF Refreshes, Refresh
<1>7. CASE OpenStarts
  BY <1>7 DEF OpenStarts, Opens, Free, Rows, Copies, Tasks
<1>8. CASE OpenMetadata
  BY <1>8 DEF OpenMetadata, Running, ToPersonal, Servers, Tasks
<1>9. CASE OpenFile
  BY <1>9 DEF OpenFile, Running, ToPersonal, Queue, Servers, Queues, Tasks
<1>10. CASE Leaves
  BY <1>10 DEF Leaves
<1>11. CASE Reopens
  <2>1. row' \in Rows \cup {None}
    BY <1>1, <1>11 DEF Reopens, Refresh
  <2>2. open' = None /\ task' \in Tasks \cup {None}
    <3>1. Opens(row') \/ Opens(None)
      BY <1>11 DEF Reopens
    <3>2. CASE Opens(row')
      BY <2>1, <3>2 DEF Opens, Rows, Copies, Tasks
    <3>3. CASE Opens(None)
      BY <3>3 DEF Opens
    <3> QED BY <3>1, <3>2, <3>3
  <2> QED BY <1>11, <2>1, <2>2 DEF Reopens
<1>12. CASE Reloads
  BY <1>12 DEF Reloads, Opens, Rows, Copies, Tasks
<1>13. CASE Edit
  BY <1>13 DEF Edit, Queues
<1>14. CASE SaveStarts
  BY <1>14 DEF SaveStarts, Sends, Free, Queues, Requests
<1>15. CASE Overwrites
  <2>1. open \in Queues /\ srv.ver \in Nat
    BY <1>15 DEF Overwrites, Servers
  <2>2. open' \in Queues
    BY <1>15, <2>1 DEF Overwrites, Queues
  <2> QED BY <1>15, <2>2 DEF Overwrites
<1>16. CASE Arrives
  <2>1. wire \in Requests /\ Answer \in Answers
    BY <1>16 DEF Arrives, Answer, Answers
  <2>2. wire' \in Requests
    BY <1>16, <2>1 DEF Arrives, Requests
  <2>3. Copy(wire.key, wire.for, srv.epoch + 1) \in Copies
    BY <2>1 DEF Copy, Copies, Servers, Requests
  <2>4. srv' \in Servers
    <3>1. CASE Answer # "ok"
      BY <1>16, <3>1 DEF Arrives
    <3>2. CASE srv' = [srv EXCEPT !.file = wire.key, !.ver = @ + 1]
      <4>1. srv' = [epoch |-> srv.epoch, key |-> srv.key, file |-> wire.key, ver |-> srv.ver + 1,
                    member |-> srv.member, mine |-> srv.mine]
        BY <3>2 DEF Servers
      <4> QED BY <2>1, <4>1 DEF Servers, Requests
    <3>3. CASE srv' = [srv EXCEPT !.epoch = @ + 1, !.key = wire.key, !.file = wire.key, !.ver = @ + 1,
                               !.mine = Copy(wire.key, wire.for, srv.epoch + 1)]
      <4>1. srv' = [epoch |-> srv.epoch + 1, key |-> wire.key, file |-> wire.key, ver |-> srv.ver + 1,
                    member |-> srv.member, mine |-> Copy(wire.key, wire.for, srv.epoch + 1)]
        BY <3>3 DEF Servers
      <4> QED BY <2>1, <2>3, <4>1 DEF Servers, Requests
    <3> QED BY <1>16, <3>1, <3>2, <3>3 DEF Arrives
  <2> QED BY <1>16, <2>2, <2>4 DEF Arrives
<1>17. CASE Unread
  BY <1>17 DEF Unread
<1>18. CASE SaveAnswered
  <2>1. open \in Queues /\ wire \in Requests /\ wire.answer \in Answers
    BY <1>18 DEF SaveAnswered, Saving, Waiting, Requests
  <2>2. open' \in Queues
    <3>1. CASE open' = [open EXCEPT !.state = "saved", !.ver = wire.ver + 1, !.saw = wire.ver + 1]
      <4>1. open' = [key |-> open.key, epoch |-> open.epoch, ver |-> wire.ver + 1, saw |-> wire.ver + 1,
                     state |-> "saved"]
        BY <2>1, <3>1 DEF Queues
      <4>2. wire.ver + 1 \in Nat
        BY <2>1 DEF Requests
      <4> QED BY <2>1, <4>1, <4>2 DEF Queues
    <3>2. CASE open' = [open EXCEPT !.state = wire.answer]
      BY <2>1, <3>2 DEF Queues
    <3> QED BY <1>18, <3>1, <3>2 DEF SaveAnswered
  <2> QED BY <1>18, <2>2 DEF SaveAnswered
<1>19. CASE SaveLost
  BY <1>19 DEF SaveLost, Saving, GivesUp, Queues
<1>20. CASE RotateStarts
  BY <1>20, NewKey DEF RotateStarts, Sends, Free, Queues, Tasks, Requests
<1>21. CASE RotateAnswered
  <2>1. task \in Tasks /\ wire \in Requests
    BY <1>21 DEF RotateAnswered, Running, Waiting
  <2>2. PutBack \in Queues \cup {None}
    BY <1>21, <2>1, TabPutBack DEF RotateAnswered
  <2>3. Queue(wire.key, wire.epoch + 1, wire.ver + 1, wire.ver + 1) \in Queues
    BY <2>1 DEF Queue, Queues, Requests
  <2>4. row' \in Rows \cup {None}
    BY <1>21, <1>1 DEF RotateAnswered, Refresh
  <2> QED BY <1>21, <2>2, <2>3, <2>4 DEF RotateAnswered
<1>22. CASE RotateLost
  <2>1. task \in Tasks
    BY <1>22 DEF RotateLost, Running
  <2>2. PutBack \in Queues \cup {None}
    BY <1>22, <2>1, TabPutBack DEF RotateLost
  <2>3. row' \in Rows \cup {None}
    BY <1>22, <1>1 DEF RotateLost, Refresh
  <2>4. open' \in Queues \cup {None} /\ task' \in Tasks \cup {None}
    <3>1. CASE Unconfirmed
      BY <2>3, <3>1 DEF Unconfirmed, Opens, Rows, Copies, Tasks
    <3>2. CASE task' = None /\ open' = PutBack
      BY <2>2, <3>2
    <3> QED BY <1>22, <3>1, <3>2 DEF RotateLost
  <2> QED BY <1>22, <2>3, <2>4 DEF RotateLost, GivesUp
<1>23. CASE Plans
  BY <1>23 DEF Plans, Servers, Copies, Swaps, NoneApart
<1>24. CASE Declines
  BY <1>24 DEF Declines
<1>25. CASE Publishes
  <2>1. swap \in Swaps
    BY <1>25 DEF Publishes, Stage
  <2>2. swap' = [swap EXCEPT !.at = "published", !.made = published + 1] /\ published + 1 \in Nat
    BY <1>25 DEF Publishes
  <2>4. swap' = [at |-> "published", key |-> swap.key, made |-> published + 1, late |-> swap.late]
    BY <2>1, <2>2 DEF Swaps
  <2>5. swap' \in Swaps
    BY <2>1, <2>2, <2>4 DEF Swaps
  <2>3. published' \in Nat
    BY <1>25 DEF Publishes
  <2> QED BY <1>25, <2>3, <2>5 DEF Publishes
<1>26. CASE Adopts
  BY <1>26 DEF Adopts, Stage, Swaps
<1>27. CASE Reseals
  BY <1>27 DEF Reseals, Stage, Sealed, HandOff, Copy, Servers, Copies, Swaps, Keeps
<1>28. CASE RetryStarts
  BY <1>28 DEF RetryStarts, Keeps, Tries
<1>29. CASE RetryEnds
  BY <1>29 DEF RetryEnds, Sealed, Copy, Servers, Copies, Keeps, Tries
<1>30. CASE Locks
  BY <1>30 DEF Locks, Late, Tasks, Swaps, Tries
<1>31. CASE Unlocks
  BY <1>31 DEF Unlocks
<1>32. CASE UNCHANGED tabVars
  BY <1>32 DEF tabVars
<1> QED BY <1>2, <1>3, <1>4, <1>5, <1>6, <1>7, <1>8, <1>9, <1>10, <1>11, <1>12, <1>13, <1>14, <1>15, <1>16, <1>17, <1>18, <1>19, <1>20, <1>21, <1>22, <1>23, <1>24, <1>25, <1>26, <1>27, <1>28, <1>29, <1>30, <1>31, <1>32 DEF TabNext

(* What was listed, opened or sent is of no epoch and no version to come,   *)
(* and a request that was taken is over.                                    *)
Behind ==
    /\ Is(row) => row.epoch <= srv.epoch
    /\ Is(open) => open.epoch <= srv.epoch /\ open.ver <= open.saw /\ open.saw <= srv.ver
    /\ Is(task) => task.epoch <= srv.epoch /\ task.ver <= srv.ver
    /\ Is(wire) => wire.epoch <= srv.epoch /\ wire.ver <= wire.saw /\ wire.saw <= srv.ver
    /\ Is(wire) /\ wire.answer = "ok" =>
          wire.ver < srv.ver /\ (wire.kind = "rotate" => wire.epoch < srv.epoch)

(* Who is at the epoch the vault is at has its key: the queue on screen, a  *)
(* rotation that puts a key back, a save on its way, and a rotation that    *)
(* was taken.                                                               *)
EpochKeys ==
    /\ srv.file = srv.key
    /\ Is(open) /\ ~Running("rotate") /\ open.epoch = srv.epoch => open.key = srv.key
    /\ Running("rotate") /\ task.epoch = srv.epoch => task.key = srv.key
    /\ Is(wire) /\ ~Is(wire.answer) /\ wire.kind = "save" /\ wire.epoch = srv.epoch => wire.key = srv.key
    /\ Is(wire) /\ wire.answer = "ok" /\ wire.kind = "rotate" /\ wire.epoch + 1 = srv.epoch =>
          wire.key = srv.key

FileInv == Waiting /\ Behind /\ EpochKeys

LEMMA FileInvStep ==
    ASSUME Bounds, NoneApart, TabTypeOK, TabTypeOK', FileInv, [TabNext]_tabVars
    PROVE  FileInv'
<1> USE DEF tab, replacing, Is, Running, Saving, FileInv, TabTypeOK
<1>0. /\ srv.epoch \in Nat /\ srv.ver \in Nat
      /\ row # None => row.epoch \in Nat
      /\ open # None => open.epoch \in Nat /\ open.ver \in Nat /\ open.saw \in Nat
      /\ task # None => task.epoch \in Nat /\ task.ver \in Nat
      /\ wire # None => wire.epoch \in Nat /\ wire.ver \in Nat /\ wire.saw \in Nat
  BY DEF Servers, Rows, Queues, Tasks, Requests
<1>1. None \notin Answers
  BY DEF NoneApart
<1>2. CASE OtherSaves
  <2>1. /\ srv'.ver = srv.ver + 1 /\ srv'.epoch = srv.epoch /\ srv'.key = srv.key /\ srv'.file = srv.file
        /\ UNCHANGED <<row, open, task, wire>>
    BY <1>2 DEF OtherSaves, Servers
  <2>2. Waiting' /\ EpochKeys'
    BY <2>1 DEF Waiting, EpochKeys
  <2>3. Behind'
    BY <2>1, <1>0 DEF Behind
  <2> QED BY <2>2, <2>3
<1>3. CASE OtherRotates
  <2>1. /\ srv'.ver = srv.ver + 1 /\ srv'.epoch = srv.epoch + 1 /\ srv'.key = srv'.file
        /\ UNCHANGED <<row, open, task, wire>>
    BY <1>3 DEF OtherRotates, Servers
  <2>2. Waiting'
    BY <2>1 DEF Waiting
  <2>3. Behind'
    BY <2>1, <1>0 DEF Behind
  <2>4. EpochKeys'
    BY <2>1, <1>0 DEF Behind, EpochKeys
  <2> QED BY <2>2, <2>3, <2>4
<1>4. CASE OtherReseals
  BY <1>4 DEF OtherReseals, Sealed, Servers, Waiting, Behind, EpochKeys
<1>5. CASE Removed
  BY <1>5 DEF Removed, Sealed, Servers, Waiting, Behind, EpochKeys
<1>6. CASE Refreshes
  <2>1. Waiting'
    BY <1>6 DEF Refreshes, Refresh, Listed, Rows, Servers, Waiting
  <2>2. Behind'
    BY <1>6 DEF Refreshes, Refresh, Listed, Rows, Servers, Waiting, Behind
  <2>3. EpochKeys'
    BY <1>6 DEF Refreshes, Refresh, Listed, Rows, Servers, Waiting, Behind, EpochKeys
  <2> QED BY <2>1, <2>2, <2>3
<1>7. CASE OpenStarts
  <2>1. /\ UNCHANGED <<srv, row, wire>> /\ open' = None /\ task = None
        /\ task' # None => /\ task'.kind = "open" /\ task'.epoch = row.epoch /\ task'.ver = 0
                           /\ row # None
    BY <1>7 DEF OpenStarts, Opens, Free
  <2>2. Waiting'
    BY <2>1 DEF Waiting
  <2>3. Behind'
    BY <2>1, <1>0 DEF Behind
  <2>4. EpochKeys'
    BY <2>1 DEF EpochKeys
  <2> QED BY <2>2, <2>3, <2>4
<1>8. CASE OpenMetadata
  <2>1. Waiting'
    BY <1>8 DEF OpenMetadata, ToPersonal, Servers, Tasks, Waiting
  <2>2. Behind'
    BY <1>8 DEF OpenMetadata, ToPersonal, Servers, Tasks, Waiting, Behind
  <2>3. EpochKeys'
    BY <1>8 DEF OpenMetadata, ToPersonal, Servers, Tasks, Waiting, Behind, EpochKeys
  <2> QED BY <2>1, <2>2, <2>3
<1>9. CASE OpenFile
  <2>1. Waiting'
    BY <1>9 DEF OpenFile, ToPersonal, Queue, Servers, Queues, Tasks, Waiting
  <2>2. Behind'
    BY <1>9 DEF OpenFile, ToPersonal, Queue, Servers, Queues, Tasks, Waiting, Behind
  <2>3. EpochKeys'
    BY <1>9 DEF OpenFile, ToPersonal, Queue, Servers, Queues, Tasks, Waiting, Behind, EpochKeys
  <2> QED BY <2>1, <2>2, <2>3
<1>10. CASE Leaves
  <2>1. Waiting'
    BY <1>10 DEF Leaves, Free, Waiting
  <2>2. Behind'
    BY <1>10 DEF Leaves, Free, Waiting, Behind
  <2>3. EpochKeys'
    BY <1>10 DEF Leaves, Free, Waiting, Behind, EpochKeys
  <2> QED BY <2>1, <2>2, <2>3
<1>11. CASE Reopens
  <2>1. Waiting'
    BY <1>11 DEF Reopens, Opens, Refresh, Listed, Free, Rows, Tasks, Servers, Waiting
  <2>2. Behind'
    BY <1>11 DEF Reopens, Opens, Refresh, Listed, Free, Rows, Tasks, Servers, Waiting, Behind
  <2>3. EpochKeys'
    BY <1>11 DEF Reopens, Opens, Refresh, Listed, Free, Rows, Tasks, Servers, Waiting, Behind, EpochKeys
  <2> QED BY <2>1, <2>2, <2>3
<1>12. CASE Reloads
  <2>1. /\ UNCHANGED <<srv, row, wire>> /\ open' = None /\ task = None
        /\ task' # None => /\ task'.kind = "open" /\ task'.epoch = row.epoch /\ task'.ver = 0
                           /\ row # None
    BY <1>12 DEF Reloads, Opens, Free
  <2>2. Waiting'
    BY <2>1 DEF Waiting
  <2>3. Behind'
    BY <2>1, <1>0 DEF Behind
  <2>4. EpochKeys'
    BY <2>1 DEF EpochKeys
  <2> QED BY <2>2, <2>3, <2>4
<1>13. CASE Edit
  <2>1. Waiting'
    BY <1>13 DEF Edit, Free, Queues, Waiting
  <2>2. Behind'
    BY <1>13 DEF Edit, Free, Queues, Waiting, Behind
  <2>3. EpochKeys'
    BY <1>13 DEF Edit, Free, Queues, Waiting, Behind, EpochKeys
  <2> QED BY <2>1, <2>2, <2>3
<1>14. CASE SaveStarts
  <2>1. /\ UNCHANGED <<srv, row, task>> /\ task = None /\ wire = None
        /\ open # None /\ open' = [open EXCEPT !.state = "saving"]
        /\ wire'.kind = "save" /\ wire'.key = open.key /\ wire'.epoch = open.epoch
        /\ wire'.ver = open.ver /\ wire'.saw = open.saw /\ wire'.answer = None
    BY <1>14 DEF SaveStarts, Sends, Free
  <2>2. /\ open'.state = "saving" /\ open'.key = open.key /\ open'.epoch = open.epoch
        /\ open'.ver = open.ver /\ open'.saw = open.saw
    BY <2>1 DEF Queues
  <2>3. wire' # None
    <3>1. wire' = [kind |-> "save", key |-> open.key, epoch |-> open.epoch, ver |-> open.ver, saw |-> open.saw,
                   for |-> me.key, answer |-> None]
      BY <1>14 DEF SaveStarts, Sends
    <3>2. wire' \in Requests
      BY <2>1, <3>1 DEF Requests, Queues
    <3> QED BY <3>2 DEF NoneApart
  <2>4. Waiting'
    BY <2>1, <2>2, <2>3 DEF Waiting
  <2>5. Behind'
    BY <2>1, <2>2, <1>0, <1>1 DEF Behind, Answers
  <2>6. EpochKeys'
    BY <2>1, <2>2, <1>1 DEF EpochKeys, Answers
  <2> QED BY <2>4, <2>5, <2>6
<1>15. CASE Overwrites
  <2>1. Waiting'
    BY <1>15 DEF Overwrites, Free, Queues, Servers, Waiting
  <2>2. Behind'
    BY <1>15 DEF Overwrites, Free, Queues, Servers, Waiting, Behind
  <2>3. EpochKeys'
    BY <1>15 DEF Overwrites, Free, Queues, Servers, Waiting, Behind, EpochKeys
  <2> QED BY <2>1, <2>2, <2>3
<1>16. CASE Arrives
  <2>1. /\ wire # None /\ wire.answer = None /\ wire' = [wire EXCEPT !.answer = Answer]
        /\ UNCHANGED <<row, open, task>> /\ wire \in Requests
    BY <1>16 DEF Arrives
  <2>2. /\ wire'.kind = wire.kind /\ wire'.key = wire.key /\ wire'.epoch = wire.epoch /\ wire'.ver = wire.ver
        /\ wire'.saw = wire.saw /\ wire'.answer = Answer /\ wire' # None /\ wire'.answer # None
    <3>1. Answer \in Answers
      BY DEF Answer, Answers
    <3>2. wire' \in Requests
      BY <2>1, <3>1 DEF Requests
    <3>3. wire' # None /\ Answer # None
      BY <3>1, <3>2 DEF NoneApart
    <3> QED BY <2>1, <3>3 DEF Requests
  <2>3. Waiting'
    BY <2>1, <2>2 DEF Waiting
  <2>4. CASE Answer # "ok"
    <3>1. srv' = srv
      BY <1>16, <2>4 DEF Arrives
    <3>2. Behind'
      BY <2>1, <2>2, <2>4, <3>1 DEF Behind
    <3>3. EpochKeys'
      BY <2>1, <2>2, <2>4, <3>1 DEF EpochKeys
    <3> QED BY <2>3, <3>2, <3>3
  <2>5. CASE Answer = "ok"
    <3>1. wire.epoch = srv.epoch /\ wire.ver = srv.ver
      BY <2>5 DEF Answer
    <3>2. /\ srv'.ver = srv.ver + 1
          /\ wire.kind = "save" => srv'.epoch = srv.epoch /\ srv'.key = srv.key /\ srv'.file = wire.key
          /\ wire.kind = "rotate" => srv'.epoch = srv.epoch + 1 /\ srv'.key = wire.key /\ srv'.file = wire.key
          /\ wire.kind \in {"save", "rotate"}
      BY <1>16, <2>1, <2>5 DEF Arrives, Servers, Requests
    <3>3. Behind'
      BY <2>1, <2>2, <3>1, <3>2, <1>0 DEF Behind
    <3>4. EpochKeys'
      <4>1. CASE wire.kind = "save"
        BY <2>1, <2>2, <3>1, <3>2, <4>1, <1>0 DEF Behind, EpochKeys
      <4>2. CASE wire.kind = "rotate"
        BY <2>1, <2>2, <3>1, <3>2, <4>2, <1>0 DEF Behind, EpochKeys
      <4> QED BY <3>2, <4>1, <4>2
    <3> QED BY <2>3, <3>3, <3>4
  <2> QED BY <2>4, <2>5
<1>17. CASE Unread
  <2>1. Waiting'
    BY <1>17 DEF Unread, Waiting
  <2>2. Behind'
    BY <1>17 DEF Unread, Waiting, Behind
  <2>3. EpochKeys'
    BY <1>17 DEF Unread, Waiting, Behind, EpochKeys
  <2> QED BY <2>1, <2>2, <2>3
<1>18. CASE SaveAnswered
  <2>1. /\ UNCHANGED <<srv, row, task>> /\ wire' = None /\ wire # None /\ open # None /\ open.state = "saving"
        /\ open \in Queues /\ wire \in Requests
        /\ IF wire.answer = "ok"
             THEN open' = [open EXCEPT !.state = "saved", !.ver = wire.ver + 1, !.saw = wire.ver + 1]
             ELSE open' = [open EXCEPT !.state = wire.answer] /\ wire.answer \in Answers
    BY <1>18 DEF SaveAnswered, Waiting, Requests
  <2>2. ~Running("rotate")
    BY <2>1 DEF Waiting
  <2>3. /\ open'.key = open.key /\ open'.epoch = open.epoch /\ open'.state # "saving"
        /\ wire.answer = "ok" => open'.ver = wire.ver + 1 /\ open'.saw = wire.ver + 1
        /\ wire.answer # "ok" => open'.ver = open.ver /\ open'.saw = open.saw
    <3>1. CASE wire.answer = "ok"
      BY <2>1, <3>1 DEF Queues
    <3>2. CASE wire.answer # "ok"
      BY <2>1, <3>2 DEF Queues, Answers
    <3> QED BY <3>1, <3>2
  <2>4. Waiting'
    BY <2>1, <2>2, <2>3 DEF Waiting
  <2>5. Behind'
    BY <2>1, <2>3, <1>0 DEF Behind
  <2>6. EpochKeys'
    BY <2>1, <2>2, <2>3 DEF EpochKeys
  <2> QED BY <2>4, <2>5, <2>6
<1>19. CASE SaveLost
  <2>1. Waiting'
    BY <1>19 DEF SaveLost, GivesUp, Queues, Waiting
  <2>2. Behind'
    BY <1>19 DEF SaveLost, GivesUp, Queues, Waiting, Behind
  <2>3. EpochKeys'
    BY <1>19 DEF SaveLost, GivesUp, Queues, Waiting, Behind, EpochKeys
  <2> QED BY <2>1, <2>2, <2>3
<1>20. CASE RotateStarts
  <2>1. /\ UNCHANGED <<srv, row>> /\ task = None /\ wire = None /\ open # None /\ open.state = "saved"
        /\ open' = [open EXCEPT !.key = New]
        /\ task'.kind = "rotate" /\ task'.key = open.key /\ task'.epoch = open.epoch /\ task'.ver = open.ver
        /\ ~task'.late
        /\ wire'.kind = "rotate" /\ wire'.epoch = open.epoch
        /\ wire'.ver = open.ver /\ wire'.saw = open.saw /\ wire'.answer = None
    BY <1>20 DEF RotateStarts, Sends, Free
  <2>2. /\ open'.state = "saved" /\ open'.epoch = open.epoch /\ open'.ver = open.ver /\ open'.saw = open.saw
    BY <2>1 DEF Queues
  <2>3. wire' # None /\ open' # None
    <3>1. wire' = [kind |-> "rotate", key |-> New, epoch |-> open.epoch, ver |-> open.ver, saw |-> open.saw,
                   for |-> me.key, answer |-> None]
      BY <1>20 DEF RotateStarts, Sends
    <3>2. New \in Nat
      BY <1>20, NewKey DEF RotateStarts
    <3>3. wire' \in Requests
      BY <2>1, <3>1, <3>2 DEF Requests, Queues
    <3>4. open' \in Queues
      BY <2>1, <3>2 DEF Queues
    <3> QED BY <3>3, <3>4 DEF NoneApart
  <2>4. Waiting'
    BY <2>1, <2>2, <2>3 DEF Waiting
  <2>5. Behind'
    BY <2>1, <2>2, <1>0, <1>1 DEF Behind, Answers
  <2>6. EpochKeys'
    <3>1. wire'.kind # "save" /\ wire'.answer # "ok" /\ task'.kind = "rotate"
      BY <2>1, <1>1 DEF Answers
    <3>2. srv.file = srv.key /\ (open.epoch = srv.epoch => open.key = srv.key)
      BY <2>1 DEF EpochKeys
    <3>3. task' # None => task'.epoch = open.epoch /\ task'.key = open.key
      BY <2>1
    <3>4. srv'.epoch = srv.epoch /\ srv'.key = srv.key /\ srv'.file = srv.file
      BY <2>1
    <3>5. task' # None
      <4>1. task' = [kind |-> "rotate", key |-> open.key, epoch |-> open.epoch, ver |-> open.ver, late |-> FALSE]
        BY <1>20 DEF RotateStarts
      <4>2. task' \in Tasks
        BY <2>1, <4>1 DEF Tasks, Queues
      <4> QED BY <4>2 DEF NoneApart
    <3> QED BY <3>1, <3>2, <3>3, <3>4, <3>5 DEF EpochKeys
  <2> QED BY <2>4, <2>5, <2>6
<1>21. CASE RotateAnswered
  <2>1. Waiting'
    BY <1>21 DEF RotateAnswered, PutBack, Queue, Refresh, Listed, Queues, Tasks, Requests, Servers, Rows, Waiting
  <2>2. Behind'
    BY <1>21 DEF RotateAnswered, PutBack, Queue, Refresh, Listed, Queues, Tasks, Requests, Servers, Rows, Waiting, Behind
  <2>3. EpochKeys'
    BY <1>21 DEF RotateAnswered, PutBack, Queue, Refresh, Listed, Queues, Tasks, Requests, Servers, Rows, Waiting, Behind, EpochKeys
  <2> QED BY <2>1, <2>2, <2>3
<1>22. CASE RotateLost
  <2>1. Waiting'
    BY <1>22 DEF RotateLost, PutBack, GivesUp, Refresh, Listed, Unconfirmed, Opens, Queues, Tasks, Requests, Servers, Rows, Waiting
  <2>2. Behind'
    BY <1>22 DEF RotateLost, PutBack, GivesUp, Refresh, Listed, Unconfirmed, Opens, Queues, Tasks, Requests, Servers, Rows, Waiting, Behind
  <2>3. EpochKeys'
    BY <1>22 DEF RotateLost, PutBack, GivesUp, Refresh, Listed, Unconfirmed, Opens, Queues, Tasks, Requests, Servers, Rows, Waiting, Behind, EpochKeys
  <2> QED BY <2>1, <2>2, <2>3
<1>23. CASE Plans
  BY <1>23 DEF Plans, Sealed, Servers, Waiting, Behind, EpochKeys
<1>24. CASE Declines
  BY <1>24 DEF Declines, Sealed, Servers, Waiting, Behind, EpochKeys
<1>25. CASE Publishes
  BY <1>25 DEF Publishes, Sealed, Servers, Waiting, Behind, EpochKeys
<1>26. CASE Adopts
  BY <1>26 DEF Adopts, Sealed, Servers, Waiting, Behind, EpochKeys
<1>27. CASE Reseals
  BY <1>27 DEF Reseals, Sealed, Servers, Waiting, Behind, EpochKeys
<1>28. CASE RetryStarts
  BY <1>28 DEF RetryStarts, Sealed, Servers, Waiting, Behind, EpochKeys
<1>29. CASE RetryEnds
  BY <1>29 DEF RetryEnds, Sealed, Servers, Waiting, Behind, EpochKeys
<1>30. CASE Locks
  <2>1. Waiting'
    BY <1>30 DEF Locks, Late, Tasks, Waiting
  <2>2. Behind'
    BY <1>30 DEF Locks, Late, Tasks, Waiting, Behind
  <2>3. EpochKeys'
    BY <1>30 DEF Locks, Late, Tasks, Waiting, Behind, EpochKeys
  <2> QED BY <2>1, <2>2, <2>3
<1>31. CASE Unlocks
  BY <1>31 DEF Unlocks, Sealed, Servers, Waiting, Behind, EpochKeys
<1>32. CASE UNCHANGED tabVars
  BY <1>32 DEF tabVars, Waiting, Behind, EpochKeys
<1> QED BY <1>2, <1>3, <1>4, <1>5, <1>6, <1>7, <1>8, <1>9, <1>10, <1>11, <1>12, <1>13, <1>14, <1>15, <1>16, <1>17, <1>18, <1>19, <1>20, <1>21, <1>22, <1>23, <1>24, <1>25, <1>26, <1>27, <1>28, <1>29, <1>30, <1>31, <1>32 DEF TabNext

(* A replacement of the user key keeps the key it has to re-seal, and so    *)
(* does the other try after it, until a lock.                               *)
Swapping ==
    /\ published > 0 /\ me.key <= published
    /\ me.key = 0 => ~Is(me.kept) /\ (Is(swap) => swap.late)
    /\ Stage("adopted") => swap.made = published /\ (~swap.late => me.kept = swap.key)
    /\ Is(swap) => ~Is(held) /\ ~Is(retry)
    /\ Is(swap) /\ swap.late => ~Is(me.kept)
    /\ Is(held) => me.kept = held.key
    /\ Is(retry) => Is(held) /\ retry.key = held.key /\ retry.sent = held.key

(* The key a rotation brings is not one a re-seal works with.               *)
Fresh ==
    Is(wire) /\ wire.kind = "rotate" /\ ~Is(wire.answer) =>
        wire.key \notin {srv.key, srv.mine.key, me.kept} /\ (Is(swap) => wire.key # swap.key)

KeyKept ==
    Is(me.kept) /\ me.key = published /\ ~Stage("adopted") /\ srv.member /\ srv.key = me.kept =>
        \/ srv.mine.for = published /\ srv.mine.key = srv.key
        \/ Is(held) /\ held.key = me.kept

SwapInv == Swapping /\ Fresh /\ KeyKept

LEMMA SwapInvStep ==
    ASSUME Bounds, NoneApart, "lock" \in Careful,
           TabTypeOK, TabTypeOK', SwapInv, [TabNext]_tabVars
    PROVE  SwapInv'
<1> USE DEF tab, replacing, Is, Stage, Cares, SwapInv, TabTypeOK
<1>1. /\ swap # None => swap \in Swaps
      /\ None \notin Nat /\ None \notin Answers
      /\ srv \in Servers /\ srv.mine \in Copies
  BY DEF NoneApart, Servers
<1>2. CASE UNCHANGED <<srv, published, me, swap, held, retry>> /\ wire' \in {wire, None}
  BY <1>2 DEF Swapping, Fresh, KeyKept
<1>3. ASSUME \/ Refreshes \/ OpenStarts \/ OpenMetadata \/ OpenFile \/ Leaves \/ Reopens
             \/ Reloads \/ Edit \/ Overwrites \/ Unread \/ SaveAnswered \/ SaveLost
             \/ RotateAnswered \/ RotateLost
      PROVE  SwapInv'
  <2>1. UNCHANGED <<srv, published, me, swap, held, retry>>
    BY <1>3 DEF Refreshes, OpenStarts, OpenMetadata, OpenFile, Leaves, Reopens, Reloads,
                Edit, Overwrites, Unread, SaveAnswered, SaveLost, RotateAnswered, RotateLost
  <2>2. wire' \in {wire, None}
    BY <1>3 DEF Refreshes, OpenStarts, OpenMetadata, OpenFile, Leaves, Reopens, Reloads,
                Edit, Overwrites, Unread, SaveAnswered, SaveLost, RotateAnswered, RotateLost,
                GivesUp
  <2> QED BY <1>2, <2>1, <2>2
<1>4. CASE OtherSaves
  <2>1. /\ srv'.member = srv.member /\ srv'.key = srv.key /\ srv'.mine = srv.mine
        /\ UNCHANGED <<published, me, wire, swap, held, retry>>
    BY <1>1, <1>4 DEF OtherSaves, Servers
  <2> QED BY <2>1 DEF Swapping, Fresh, KeyKept
<1>5. CASE OtherRotates
  <2>1. /\ srv'.key = New /\ srv'.mine.key \in {New, srv.mine.key}
        /\ UNCHANGED <<published, me, wire, swap, held, retry>>
    BY <1>1, <1>5 DEF OtherRotates, Servers, Copy
  <2>2. New # me.kept /\ (wire # None => New # wire.key)
    BY <1>5, NewKey DEF OtherRotates, InUse, KeyOf
  <2> QED BY <2>1, <2>2 DEF Swapping, Fresh, KeyKept
<1>6. CASE OtherReseals
  <2>1. /\ srv'.key = srv.key /\ srv'.mine.key = srv.key /\ srv'.mine.for = published
        /\ UNCHANGED <<published, me, wire, swap, held, retry>>
    BY <1>1, <1>6 DEF OtherReseals, Servers, Copy
  <2> QED BY <2>1 DEF Swapping, Fresh, KeyKept
<1>7. CASE Removed
  <2>1. /\ ~srv'.member /\ srv'.key = srv.key /\ srv'.mine = srv.mine
        /\ UNCHANGED <<published, me, wire, swap, held, retry>>
    BY <1>1, <1>7 DEF Removed, Servers
  <2> QED BY <2>1 DEF Swapping, Fresh, KeyKept
<1>8. CASE SaveStarts
  <2>1. wire'.kind = "save" /\ UNCHANGED <<srv, published, me, swap, held, retry>>
    BY <1>8 DEF SaveStarts, Sends
  <2> QED BY <2>1 DEF Swapping, Fresh, KeyKept
<1>9. CASE Arrives
  <2>1. wire # None /\ wire.answer = None /\ wire'.answer # None /\ UNCHANGED <<published, me, swap, held, retry>>
    <3>1. Answer # None
      BY <1>1 DEF Answer, Answers
    <3>2. wire \in Requests
      BY <1>9 DEF Arrives
    <3> QED BY <1>9, <3>1, <3>2 DEF Arrives, Requests
  <2>2. \/ srv'.member = srv.member /\ srv'.key = srv.key /\ srv'.mine = srv.mine
        \/ wire.kind = "rotate" /\ srv'.key = wire.key
    <3>1. CASE srv' = srv
      BY <3>1
    <3>2. CASE srv' = [srv EXCEPT !.file = wire.key, !.ver = @ + 1]
      BY <1>1, <3>2 DEF Servers
    <3>3. CASE /\ wire.kind # "save"
               /\ srv' = [srv EXCEPT !.epoch = @ + 1, !.key = wire.key, !.file = wire.key, !.ver = @ + 1,
                                     !.mine = Copy(wire.key, wire.for, srv.epoch + 1)]
      BY <1>1, <2>1, <3>3 DEF Servers, Requests
    <3> QED BY <1>9, <3>1, <3>2, <3>3 DEF Arrives
  <2>3. Swapping' /\ Fresh'
    BY <2>1 DEF Swapping, Fresh
  <2>4. KeyKept'
    BY <2>1, <2>2 DEF Fresh, KeyKept
  <2> QED BY <2>3, <2>4
<1>10. CASE RotateStarts
  <2>1. wire'.key = New /\ UNCHANGED <<srv, published, me, swap, held, retry>>
    BY <1>10 DEF RotateStarts, Sends
  <2>2. New \notin {srv.key, srv.mine.key, me.kept} /\ (swap # None => New # swap.key)
    BY <1>10, NewKey DEF RotateStarts, InUse, KeyOf
  <2> QED BY <2>1, <2>2 DEF Swapping, Fresh, KeyKept
<1>11. CASE Plans
  <2>1. /\ swap' \in Swaps /\ swap'.at = "asked" /\ ~swap'.late /\ swap'.key \in {srv.mine.key, None}
        /\ held = None /\ swap = None /\ me.key # 0
        /\ UNCHANGED <<srv, published, me, wire, held, retry>>
    <3>1. srv.mine.key \in Nat
      BY <1>1 DEF Copies
    <3> QED BY <1>11, <3>1 DEF Plans, Free, Unlocked, Swaps
  <2>2. retry = None
    BY <2>1 DEF Swapping
  <2>3. Swapping' /\ KeyKept'
    BY <2>1, <2>2 DEF Swapping, KeyKept
  <2>4. Fresh'
    <3>1. wire # None => wire.key # None
      BY <1>1 DEF Requests
    <3> QED BY <2>1, <3>1 DEF Fresh
  <2> QED BY <2>3, <2>4
<1>12. CASE Declines
  <2>1. swap' = None /\ UNCHANGED <<srv, published, me, wire, held, retry>> /\ ~Stage("adopted")
    BY <1>12 DEF Declines
  <2> QED BY <2>1 DEF Swapping, Fresh, KeyKept
<1>13. CASE Publishes
  <2>1. /\ swap # None /\ swap.at = "asked" /\ published' \in {published, published + 1}
        /\ swap' = [swap EXCEPT !.at = "published", !.made = published + 1]
        /\ UNCHANGED <<srv, me, wire, held, retry>>
    BY <1>13 DEF Publishes
  <2>2. swap'.at = "published" /\ swap'.key = swap.key /\ swap'.late = swap.late
    BY <1>1, <2>1 DEF Swaps
  <2>3. me.key \in Nat
    OBVIOUS
  <2>4. Swapping'
    BY <2>1, <2>2, <2>3 DEF Swapping
  <2>5. Fresh'
    BY <2>1, <2>2 DEF Fresh
  <2>6. KeyKept'
    BY <2>1, <2>2, <2>3 DEF Swapping, KeyKept
  <2> QED BY <2>4, <2>5, <2>6
<1>14. CASE Adopts
  <2>1. swap # None /\ swap.at = "published" /\ UNCHANGED <<srv, published, wire, held, retry>>
    BY <1>14 DEF Adopts
  <2>2. CASE swap' = None /\ me' = me
    BY <2>1, <2>2 DEF Swapping, Fresh, KeyKept
  <2>3. CASE /\ published = swap.made /\ swap' = [swap EXCEPT !.at = "adopted"]
             /\ me' = IF swap.late THEN me ELSE [key |-> swap.made, kept |-> swap.key]
    <3>1. /\ swap'.at = "adopted" /\ swap'.key = swap.key /\ swap'.late = swap.late /\ swap'.made = swap.made
          /\ swap' # None
      BY <1>1, <2>1, <2>3 DEF Swaps, NoneApart
    <3>2. swap.made \in Nat /\ swap.late \in BOOLEAN
      BY <1>1, <2>1 DEF Swaps
    <3>3. Swapping'
      BY <2>1, <2>3, <3>1, <3>2 DEF Swapping
    <3>4. Fresh' /\ KeyKept'
      BY <2>1, <2>3, <3>1 DEF Fresh, KeyKept
    <3> QED BY <3>3, <3>4
  <2> QED BY <1>14, <2>2, <2>3 DEF Adopts
<1>15. CASE Reseals
  <2>1. PICK arrives \in BOOLEAN, answered \in BOOLEAN :
          LET taken == swap.key # None /\ arrives /\ Takes(swap.made)
          IN  /\ srv' = IF taken THEN Sealed(swap.key, swap.made) ELSE srv
              /\ held' = HandOff(swap.key # None /\ ~(taken /\ answered))
    BY <1>15 DEF Reseals
  <2>2. swap # None /\ swap.at = "adopted" /\ swap' = None /\ UNCHANGED <<published, me, wire, retry>>
    BY <1>15 DEF Reseals
  <2>3. /\ held = None /\ retry = None /\ swap.made = published /\ swap.late \in BOOLEAN
        /\ ~swap.late => me.kept = swap.key
        /\ swap.late => me.kept = None
    BY <1>1, <2>2 DEF Swapping, Swaps
  <2> DEFINE taken == swap.key # None /\ arrives /\ Takes(swap.made)
  <2>4. /\ srv'.key = srv.key /\ srv'.member = srv.member
        /\ IF taken THEN srv'.mine.key = swap.key /\ srv'.mine.for = published ELSE srv'.mine = srv.mine
    BY <1>1, <2>1, <2>3 DEF Sealed, Copy, Servers
  <2>5. held' # None => ~swap.late /\ held'.key = swap.key
    BY <2>1 DEF HandOff
  <2>6. swap.key # None /\ ~(taken /\ answered) /\ ~swap.late => held' # None
    <3>1. swap.key # None => [key |-> swap.key, for |-> swap.made] \in Keeps
      BY <1>1, <2>2 DEF Swaps, Keeps
    <3> QED BY <2>1, <3>1 DEF HandOff, NoneApart
  <2>7. Swapping'
    BY <2>2, <2>3, <2>5 DEF Swapping
  <2>8. Fresh'
    BY <2>2, <2>4 DEF Fresh
  <2>9. KeyKept'
    BY <2>2, <2>3, <2>4, <2>5, <2>6 DEF KeyKept
  <2> QED BY <2>7, <2>8, <2>9
<1>16. CASE RetryStarts
  <2>1. /\ retry'.key = held.key /\ retry'.sent = held.key /\ held # None
        /\ UNCHANGED <<srv, published, me, wire, swap, held>>
    BY <1>16 DEF RetryStarts
  <2> QED BY <2>1 DEF Swapping, Fresh, KeyKept
<1>17. CASE RetryEnds
  <2>1. PICK arrives \in BOOLEAN, answered \in BOOLEAN :
          LET taken == arrives /\ Takes(retry.for)
          IN  /\ srv' = IF taken THEN Sealed(retry.sent, retry.for) ELSE srv
              /\ held' = IF taken /\ answered THEN None ELSE [key |-> retry.key, for |-> retry.for]
    BY <1>17 DEF RetryEnds
  <2>2. retry # None /\ retry' = None /\ UNCHANGED <<published, me, wire, swap>>
    BY <1>17 DEF RetryEnds
  <2>3. swap = None /\ held # None /\ retry.key = me.kept /\ retry.sent = me.kept
    BY <2>2 DEF Swapping
  <2> DEFINE taken == arrives /\ Takes(retry.for)
  <2>4. /\ srv'.key = srv.key /\ srv'.member = srv.member
        /\ IF taken THEN srv'.mine.key = retry.sent /\ srv'.mine.for = published ELSE srv'.mine = srv.mine
    BY <1>1, <2>1 DEF Sealed, Copy, Takes, Servers
  <2>5. IF taken /\ answered THEN held' = None ELSE held' # None /\ held'.key = retry.key
    <3>1. [key |-> retry.key, for |-> retry.for] \in Keeps
      BY <2>2 DEF Tries, Keeps
    <3> QED BY <2>1, <3>1 DEF NoneApart
  <2>6. Swapping'
    BY <2>2, <2>3, <2>5 DEF Swapping
  <2>7. Fresh'
    BY <2>2, <2>3, <2>4 DEF Fresh
  <2>8. KeyKept'
    BY <2>2, <2>3, <2>4, <2>5 DEF KeyKept
  <2> QED BY <2>6, <2>7, <2>8
<1>18. CASE Locks
  <2>1. /\ me' = [key |-> 0, kept |-> None] /\ held' = None /\ retry' = None
        /\ swap' = Late(swap) /\ UNCHANGED <<srv, published, wire>>
    BY <1>18 DEF Locks
  <2>2. swap # None => swap'.at = swap.at /\ swap'.key = swap.key /\ swap'.made = swap.made /\ swap'.late
    BY <1>1, <2>1 DEF Late, Swaps
  <2>3. swap = None => swap' = None
    BY <2>1 DEF Late
  <2>4. Swapping'
    BY <2>1, <2>2, <2>3 DEF Swapping
  <2>5. Fresh'
    <3>1. wire # None => wire.key # None
      BY <1>1 DEF Requests
    <3> QED BY <2>1, <2>2, <2>3, <3>1 DEF Fresh
  <2>6. KeyKept'
    BY <2>1 DEF KeyKept
  <2> QED BY <2>4, <2>5, <2>6
<1>19. CASE Unlocks
  <2>1. /\ me.key = 0 /\ me' = [key |-> published, kept |-> None]
        /\ UNCHANGED <<srv, published, wire, swap, held, retry>>
    BY <1>19 DEF Unlocks, Unlocked
  <2>2. wire # None => wire.key # None
    BY <1>1 DEF Requests
  <2>3. Swapping'
    BY <1>1, <2>1 DEF Swapping, Swaps, Keeps
  <2>4. Fresh' /\ KeyKept'
    BY <2>1, <2>2 DEF Fresh, KeyKept
  <2> QED BY <2>3, <2>4
<1>20. CASE UNCHANGED tabVars
  BY <1>2, <1>20 DEF tabVars
<1> QED BY <1>3, <1>4, <1>5, <1>6, <1>7, <1>8, <1>9, <1>10, <1>11, <1>12, <1>13, <1>14, <1>15, <1>16, <1>17, <1>18, <1>19, <1>20 DEF TabNext

LEMMA TabInvInit == ASSUME NoneApart, TabInit PROVE FileInv /\ SwapInv
<1> USE DEF TabInit, Is
<1>1. FileInv
  BY DEF FileInv, Waiting, Behind, EpochKeys, Running, Saving
<1>2. SwapInv
  BY DEF SwapInv, Swapping, Fresh, KeyKept, Stage
<1> QED BY <1>1, <1>2

LEMMA TabInvInits == TabInit => TabTypeOK /\ FileInv /\ SwapInv
  BY SharedTabAssumption, TabTypesInit, TabInvInit

LEMMA TabInvSteps ==
    TabTypeOK /\ FileInv /\ [TabNext]_tabVars => TabTypeOK' /\ FileInv'
  BY SharedTabAssumption, TabTypes, FileInvStep DEF FileInv

(* The file is stored under the key of the vault's epoch, whatever the tab  *)
(* and the other members do and whichever answers are lost.                 *)
THEOREM FileKeyAgrees == TabSpec => []FileUnderEpochKey
<1>1. FileInv => FileUnderEpochKey
  BY DEF FileInv, EpochKeys, FileUnderEpochKey
<1> QED BY <1>1, TabInvInits, TabInvSteps, PTL DEF TabSpec

(* No save of the tab replaces a version its copy was not made from, unless *)
(* the user was told of it.                                                 *)
THEOREM VersionsSeen == TabSpec => NothingOverwritten
<1> DEFINE Seen == Arrives /\ srv' # srv => wire.saw = srv.ver
<1>1. TabTypeOK /\ FileInv /\ [TabNext]_tabVars => Seen
  <2> SUFFICES ASSUME TabTypeOK, FileInv, Arrives, srv' # srv PROVE wire.saw = srv.ver
    OBVIOUS
  <2>1. wire \in Requests /\ Answer = "ok"
    BY DEF Arrives, TabTypeOK, Is
  <2>2. wire.ver = srv.ver
    BY <2>1 DEF Answer
  <2>3. wire.ver <= wire.saw /\ wire.saw <= srv.ver
    BY DEF FileInv, Behind, Arrives
  <2>4. wire.saw \in Nat /\ srv.ver \in Nat
    BY <2>1 DEF TabTypeOK, Requests, Servers
  <2> QED BY <2>2, <2>3, <2>4
<1>2. Seen => [Seen]_tabVars
  OBVIOUS
<1> QED BY <1>1, <1>2, TabInvInits, TabInvSteps, PTL DEF TabSpec, NothingOverwritten

(* Replacing the user key loses no vault key, if the tab does not lock while *)
(* a re-seal is tried again.                                                *)
THEOREM KeyIsKept ==
    ASSUME "lock" \in Careful
    PROVE  TabSpec => []ReplacementKeepsKey
<1>1. SwapInv => ReplacementKeepsKey
  BY DEF SwapInv, KeyKept, ReplacementKeepsKey, Stage, Is
<1>2. TabTypeOK /\ TabTypeOK' /\ SwapInv /\ [TabNext]_tabVars => SwapInv'
  BY SharedTabAssumption, SwapInvStep
<1> QED BY <1>1, <1>2, TabInvInits, TabInvSteps, PTL DEF TabSpec

(* The types of the tab, of what it has under way, and of the server.       *)
THEOREM TabTypesHold == TabSpec => []TabTypeOK
  BY TabInvInits, TabInvSteps, PTL DEF TabSpec

-----------------------------------------------------------------------------
(* The editor's tree *)

\* Where a folder or an entry may be.
Places == Folders \cup {Root, Bin, None}
Trees == [Folders -> Places]

\* A set that holds, with a place, the one that place is in.
Closed(u, S) == (Bin \in S => Root \in S) /\ \A h \in S \cap Folders : u[h] \in S
Under(u, f, g) == \A S \in SUBSET Places : f \in S /\ Closed(u, S) => g \in S

(* Inside, for any tree: the sets of folders it speaks of may be taken with  *)
(* the root, the bin and nothing in them.                                   *)
LEMMA UnderIs ==
    ASSUME NEW u \in Trees, NEW f \in Places, NEW g \in Places
    PROVE  Under(u, f, g) <=>
             \/ Leads(f, g)
             \/ f \in Folders /\ \A S \in SUBSET Folders : f \in S =>
                    \E h \in S : u[h] \in Folders \ S \/ h = g \/ Leads(u[h], g)
<1> DEFINE Ways == \A S \in SUBSET Folders : f \in S =>
                     \E h \in S : u[h] \in Folders \ S \/ h = g \/ Leads(u[h], g)
<1>1. ASSUME Leads(f, g) PROVE Under(u, f, g)
  BY <1>1 DEF Leads, Under, Closed
<1>2. ASSUME f \in Folders, Ways PROVE Under(u, f, g)
  <2> SUFFICES ASSUME NEW S \in SUBSET Places, f \in S, Closed(u, S) PROVE g \in S
    BY DEF Under
  <2>1. PICK h \in S \cap Folders : u[h] \in Folders \ (S \cap Folders) \/ h = g \/ Leads(u[h], g)
    BY <1>2
  <2> QED BY <2>1 DEF Leads, Closed
<1>3. ASSUME Under(u, f, g), f \notin Folders PROVE Leads(f, g)
  <2> DEFINE S == IF f = Bin THEN {Bin, Root} ELSE {f}
  <2>1. S \in SUBSET Places /\ f \in S
    BY <1>3 DEF Places
  <2>2. Closed(u, S)
    BY <1>3, VaultEditorAssumption DEF Closed, Places, Root, Bin
  <2>3. g \in S
    BY <1>3, <2>1, <2>2 DEF Under
  <2> QED BY <2>3 DEF Leads
<1>4. ASSUME Under(u, f, g), f \in Folders PROVE Ways
  <2> SUFFICES ASSUME NEW T \in SUBSET Folders, f \in T,
                      \A h \in T : u[h] \notin Folders \ T /\ h # g /\ ~Leads(u[h], g)
               PROVE  FALSE
    OBVIOUS
  <2> DEFINE S == T \cup {p \in {Root, Bin, None} : \E h \in T : Leads(u[h], p)}
  <2>1. S \in SUBSET Places /\ f \in S
    BY DEF Places
  <2>2. Closed(u, S)
    <3>1. ASSUME Bin \in S PROVE Root \in S
      <4>1. PICK h \in T : Leads(u[h], Bin)
        BY <3>1, VaultEditorAssumption
      <4> QED BY <4>1 DEF Leads, Root, Bin
    <3>2. ASSUME NEW h \in S \cap Folders PROVE u[h] \in S
      <4>1. h \in T
        BY VaultEditorAssumption
      <4>2. u[h] \in T \/ u[h] \in {Root, Bin, None}
        BY <4>1 DEF Trees, Places
      <4> QED BY <4>1, <4>2 DEF Leads
    <3> QED BY <3>1, <3>2 DEF Closed
  <2>3. g \in S
    BY <1>4, <2>1, <2>2 DEF Under
  <2> QED BY <2>3
<1> QED BY <1>1, <1>2, <1>3, <1>4, Zenon

LEMMA UnderSelf == ASSUME NEW u, NEW f PROVE Under(u, f, f)
  BY DEF Under

LEMMA UnderStep ==
    ASSUME NEW u \in Trees, NEW f \in Folders, NEW g \in Places
    PROVE  Under(u, f, g) <=> f = g \/ Under(u, u[f], g)
<1>1. u[f] \in Places
  BY DEF Trees
<1>2. ASSUME f = g \/ Under(u, u[f], g) PROVE Under(u, f, g)
  BY <1>1, <1>2 DEF Under, Closed
<1>3. ASSUME Under(u, f, g), f # g PROVE Under(u, u[f], g)
  <2> SUFFICES ASSUME NEW S \in SUBSET Places, u[f] \in S, Closed(u, S) PROVE g \in S
    BY DEF Under
  <2>1. Closed(u, S \cup {f})
    BY VaultEditorAssumption DEF Closed
  <2>2. S \cup {f} \in SUBSET Places
    BY DEF Places
  <2>3. g \in S \cup {f}
    BY <1>3, <2>1, <2>2 DEF Under
  <2> QED BY <1>3, <2>3
<1> QED BY <1>2, <1>3

LEMMA UnderTrans ==
    ASSUME NEW u, NEW f, NEW g, NEW h, Under(u, f, g), Under(u, g, h)
    PROVE  Under(u, f, h)
  BY DEF Under

LEMMA UnderEnds ==
    ASSUME NEW u, NEW g \in Places
    PROVE  /\ Under(u, Root, g) <=> g = Root
           /\ Under(u, None, g) <=> g = None
           /\ Under(u, Bin, g) <=> g \in {Bin, Root}
<1>1. /\ Closed(u, {Root}) /\ Closed(u, {None}) /\ Closed(u, {Bin, Root})
      /\ {Root} \in SUBSET Places /\ {None} \in SUBSET Places /\ {Bin, Root} \in SUBSET Places
  BY VaultEditorAssumption DEF Closed, Places, Root, Bin
<1>2. Under(u, Bin, Root)
  BY DEF Under, Closed
<1> QED BY <1>1, <1>2 DEF Under

LiveIn(u, f) == Under(u, f, Root) /\ ~Under(u, f, Bin)

(* What the root holds does not lead nowhere.                               *)
LEMMA RootedNotLost ==
    ASSUME NEW u \in Trees, NEW f \in Places, Under(u, f, Root)
    PROVE  ~Under(u, f, None)
<1> SUFFICES ASSUME Under(u, f, None) PROVE FALSE
  OBVIOUS
<1> DEFINE S == {p \in Places : Under(u, p, None)}
<1>0. None \in Places /\ Root \in Places /\ Bin \in Places /\ None # Root /\ None # Bin
  BY VaultEditorAssumption DEF Places
<1>1. Closed(u, S)
  <2>1. Bin \notin S
    BY <1>0, UnderEnds
  <2>2. ASSUME NEW h \in S \cap Folders PROVE u[h] \in S
    <3>1. h # None /\ u[h] \in Places
      BY VaultEditorAssumption DEF Trees
    <3> QED BY <1>0, <3>1, UnderStep
  <2> QED BY <2>1, <2>2 DEF Closed
<1>2. Root \in S
  BY <1>1 DEF Under
<1> QED BY <1>0, <1>2, UnderEnds

LEMMA LiveStep ==
    ASSUME NEW u \in Trees, NEW f \in Folders, LiveIn(u, f)
    PROVE  LiveIn(u, u[f]) /\ u[f] \in Folders \cup {Root}
<1>1. u[f] \in Places /\ f \notin {Root, Bin, None} /\ Root \in Places /\ Bin \in Places /\ None \in Places
  BY VaultEditorAssumption DEF Trees, Places
<1>2. LiveIn(u, u[f])
  BY <1>1, UnderStep DEF LiveIn
<1>3. u[f] # Bin /\ u[f] # None
  BY <1>1, <1>2, UnderEnds, UnderSelf, VaultEditorAssumption DEF LiveIn
<1> QED BY <1>1, <1>2, <1>3 DEF Places

(* No set of folders holds the folder each of its folders is in, and a      *)
(* folder that holds one is in one itself.                                  *)
Rooted(u) ==
    /\ \A S \in (SUBSET Folders) \ {{}} : \E f \in S : u[f] \notin S
    /\ \A f \in Folders : u[f] \in {None, Root, Bin} \/ u[u[f]] # None
Hangs(u, p) == p \in {None, Root, Bin} \/ u[p] # None

Moved(u, F, t) == [f \in Folders |-> IF f \in F THEN t ELSE u[f]]

(* Folders are put into a live one that is not below them: what the vault    *)
(* held it holds, what was not recycled is not.                             *)
LEMMA MovedKeeps ==
    ASSUME NEW u \in Trees, NEW F \in SUBSET Folders, NEW t \in Folders \cup {Root},
           LiveIn(u, t), \A f \in F : ~Under(u, t, f), NEW p \in Places
    PROVE  /\ Moved(u, F, t) \in Trees
           /\ Under(u, p, Root) => Under(Moved(u, F, t), p, Root)
           /\ ~Under(u, p, Bin) => ~Under(Moved(u, F, t), p, Bin)
           /\ LiveIn(u, p) => LiveIn(Moved(u, F, t), p)
<1> DEFINE v == Moved(u, F, t)
<1>0. /\ v \in Trees /\ t \in Places /\ Root \in Places /\ Bin \in Places
      /\ \A f \in Folders : v[f] = IF f \in F THEN t ELSE u[f]
  BY DEF Moved, Trees, Places
<1> HIDE DEF v
<1>1. ASSUME Under(u, p, Root) PROVE Under(v, p, Root)
  <2> SUFFICES ASSUME NEW S \in SUBSET Places, p \in S, Closed(v, S) PROVE Root \in S
    BY DEF Under
  <2>1. CASE S \cap F = {}
    <3>1. Closed(u, S)
      BY <1>0, <2>1 DEF Closed
    <3> QED BY <1>1, <3>1 DEF Under
  <2>2. CASE S \cap F # {}
    <3> DEFINE T == {x \in S : Under(u, t, x)}
    <3>1. t \in S /\ t \in T
      BY <1>0, <2>2, UnderSelf DEF Closed
    <3>2. Closed(u, T)
      <4>1. ASSUME Bin \in T PROVE Root \in T
        BY <1>0, <4>1 DEF Under, Closed
      <4>2. ASSUME NEW h \in T \cap Folders PROVE u[h] \in T
        <5>1. u[h] \in S
          BY <1>0, <4>2 DEF Closed
        <5>2. Under(u, t, u[h])
          BY <4>2 DEF Under, Closed
        <5> QED BY <5>1, <5>2
      <4> QED BY <4>1, <4>2 DEF Closed
    <3>3. Root \in T
      BY <3>1, <3>2 DEF Under, LiveIn
    <3> QED BY <3>3
  <2> QED BY <2>1, <2>2
<1>2. ASSUME ~Under(u, p, Bin) PROVE ~Under(v, p, Bin)
  <2>1. PICK S \in SUBSET Places : p \in S /\ Closed(u, S) /\ Bin \notin S
    BY <1>2 DEF Under
  <2>2. PICK T \in SUBSET Places : t \in T /\ Closed(u, T) /\ Bin \notin T
    BY DEF Under, LiveIn
  <2>3. Closed(v, S \cup T)
    BY <1>0, <2>1, <2>2 DEF Closed
  <2> QED BY <2>1, <2>2, <2>3 DEF Under
<1> QED BY <1>0, <1>1, <1>2 DEF LiveIn, v

LEMMA MovedRooted ==
    ASSUME NEW u \in Trees, NEW F \in SUBSET Folders, NEW t \in Folders \cup {Root},
           LiveIn(u, t), \A f \in F : ~Under(u, t, f), Rooted(u)
    PROVE  /\ Rooted(Moved(u, F, t))
           /\ \A p \in Places : Hangs(u, p) \/ p \in F => Hangs(Moved(u, F, t), p)
<1> DEFINE v == Moved(u, F, t)
<1>0. /\ t \in Places /\ t # None /\ None \notin Folders
      /\ \A f \in Folders : v[f] = IF f \in F THEN t ELSE u[f]
  BY VaultEditorAssumption DEF Moved, Places, Root
<1> HIDE DEF v
<1>1. t = Root \/ (v[t] # None /\ t \in Folders)
  BY <1>0, LiveStep, VaultEditorAssumption
<1>2. ASSUME NEW p \in Places, Hangs(u, p) \/ p \in F PROVE Hangs(v, p)
  BY <1>0, <1>2 DEF Hangs, Places
<1>3. ASSUME NEW S \in (SUBSET Folders) \ {{}} PROVE \E f \in S : v[f] \notin S
  <2>1. CASE S \cap F = {}
    BY <1>0, <2>1 DEF Rooted
  <2>2. CASE S \cap F # {} /\ t \notin S
    BY <1>0, <2>2
  <2>3. CASE S \cap F # {} /\ t \in S
    <3> DEFINE T == {x \in S : Under(u, t, x)}
    <3>1. T \in (SUBSET Folders) \ {{}}
      BY <2>3, UnderSelf
    <3>2. PICK x \in T : u[x] \notin T
      BY <3>1 DEF Rooted
    <3>3. Under(u, t, u[x])
      BY <3>2 DEF Under, Closed
    <3>4. x \notin F
      BY <3>2
    <3> QED BY <1>0, <3>2, <3>3, <3>4
  <2> QED BY <2>1, <2>2, <2>3
<1>4. ASSUME NEW f \in Folders PROVE v[f] \in {None, Root, Bin} \/ v[v[f]] # None
  <2>1. CASE f \in F
    BY <1>0, <1>1, <2>1
  <2>2. CASE f \notin F
    <3>1. u[f] \in Places /\ v[f] = u[f]
      BY <1>0, <2>2 DEF Trees
    <3>2. u[f] \in {None, Root, Bin} \/ (u[f] \in Folders /\ u[u[f]] # None)
      BY <3>1 DEF Rooted, Places
    <3> QED BY <1>0, <3>1, <3>2
  <2> QED BY <2>1, <2>2
<1> QED BY <1>2, <1>3, <1>4 DEF Rooted, v

(* A folder nobody uses is not above a live one.                            *)
LEMMA UnusedBelow ==
    ASSUME NEW u \in Trees, NEW t \in Places, LiveIn(u, t), NEW f \in Folders, u[f] = None
    PROVE  ~Under(u, t, f)
<1>1. None \in Places /\ f \in Places
  BY DEF Places
<1>2. Under(u, f, None)
  BY <1>1, UnderStep, UnderSelf
<1> QED BY <1>2, RootedNotLost, UnderTrans DEF LiveIn

(* A folder goes into the bin, or with all that is in it.                   *)
LEMMA BinnedRooted ==
    ASSUME NEW u \in Trees, NEW f \in Folders, Rooted(u)
    PROVE  /\ Rooted([u EXCEPT ![f] = Bin])
           /\ \A p \in Places : Hangs(u, p) => Hangs([u EXCEPT ![f] = Bin], p)
<1> DEFINE v == [u EXCEPT ![f] = Bin]
<1>0. /\ \A h \in Folders : v[h] = IF h = f THEN Bin ELSE u[h]
      /\ Bin # None /\ Bin \notin Folders
  BY VaultEditorAssumption DEF Trees
<1> HIDE DEF v
<1>1. ASSUME NEW p \in Places, Hangs(u, p) PROVE Hangs(v, p)
  BY <1>0, <1>1 DEF Hangs, Places
<1>2. ASSUME NEW S \in (SUBSET Folders) \ {{}} PROVE \E h \in S : v[h] \notin S
  BY <1>0 DEF Rooted
<1>3. ASSUME NEW h \in Folders PROVE v[h] \in {None, Root, Bin} \/ v[v[h]] # None
  <2>1. u[h] \in Places
    BY DEF Trees
  <2> QED BY <1>0, <2>1 DEF Rooted, Places
<1> QED BY <1>1, <1>2, <1>3 DEF Rooted, v

LEMMA PrunedRooted ==
    ASSUME NEW u \in Trees, NEW f \in Folders, NEW v \in Trees, Rooted(u),
           \A h \in Folders : v[h] = IF Under(u, h, f) THEN None ELSE u[h]
    PROVE  /\ Rooted(v)
           /\ \A p \in Places : Hangs(u, p) /\ ~Under(u, p, f) => Hangs(v, p)
<1>0. f \in Places /\ None \notin Folders
  BY VaultEditorAssumption DEF Places
<1>1. ASSUME NEW p \in Places, Hangs(u, p), ~Under(u, p, f) PROVE Hangs(v, p)
  BY <1>1 DEF Hangs, Places
<1>2. ASSUME NEW S \in (SUBSET Folders) \ {{}} PROVE \E h \in S : v[h] \notin S
  BY <1>0 DEF Rooted
<1>3. ASSUME NEW h \in Folders PROVE v[h] \in {None, Root, Bin} \/ v[v[h]] # None
  <2>1. CASE Under(u, h, f)
    BY <2>1
  <2>2. CASE ~Under(u, h, f)
    <3>1. u[h] \in Places /\ v[h] = u[h] /\ ~Under(u, u[h], f)
      BY <1>0, <2>2, UnderStep DEF Trees
    <3> QED BY <3>1 DEF Rooted, Places
  <2> QED BY <2>1, <2>2
<1> QED BY <1>1, <1>2, <1>3 DEF Rooted

-----------------------------------------------------------------------------
(* Types *)

AllFiles == Files \cup UNION {Brought[e].files : e \in DOMAIN Brought}
Versions == [text : Nat, files : SUBSET AllFiles]
Histories == {h \in Seq(Versions) : Len(h) <= HistoryMax}
Drafts == [new : BOOLEAN, text : Nat, from : Folders \cup {Root}, to : Folders \cup {Root}]
Questions == [kind : {"restore"}, index : 1 .. HistoryMax, shown : Versions] \cup
             [kind : {"history"}, step : {"open", "asks", "sent"}]

EditorTypes ==
    /\ up \in Trees /\ at \in [Entries -> Places]
    /\ now \in [Entries -> Versions] /\ old \in [Entries -> Histories]
    /\ recycling \in BOOLEAN /\ text \in Nat
    /\ page \in [entry : Entries \cup {None}, draft : Drafts \cup {None}]
    /\ adding \in Files \cup {None} /\ asking \in Questions \cup {None}
    /\ rolling \in BOOLEAN /\ dirty \in BOOLEAN

LEMMA BlankVersion == Blank \in Versions /\ <<>> \in Histories
<1>1. Blank \in Versions
  BY DEF Blank, Versions
<1>2. <<>> \in Seq(Versions) /\ Len(<<>>) = 0
  OBVIOUS
<1> QED BY <1>1, <1>2, VaultEditorAssumption DEF Histories

LEMMA KeptHistory ==
    ASSUME NEW h \in Histories, NEW v \in Versions
    PROVE  Kept(h, v) \in Histories
<1> DEFINE longer == Append(h, v)
<1>1. h \in Seq(Versions) /\ Len(h) \in Nat /\ Len(h) <= HistoryMax /\ HistoryMax \in Nat
  BY VaultEditorAssumption DEF Histories
<1>2. longer \in Seq(Versions) /\ Len(longer) = Len(h) + 1
  BY <1>1
<1> HIDE DEF longer
<1>3. CASE HistoryMax = 0
  BY <1>3 DEF Kept
<1>4. CASE HistoryMax # 0 /\ Len(longer) > HistoryMax
  <2>1. Kept(h, v) = SubSeq(longer, Len(longer) - HistoryMax + 1, Len(longer))
    BY <1>4 DEF Kept, longer
  <2>2. Len(longer) - HistoryMax + 1 = 2 /\ Len(longer) = HistoryMax + 1
    BY <1>1, <1>2, <1>4
  <2>3. SubSeq(longer, 2, HistoryMax + 1) \in Seq(Versions)
    BY <1>1, <1>2, <2>2
  <2>4. Len(SubSeq(longer, 2, HistoryMax + 1)) = HistoryMax
    BY <1>1, <1>2, <2>2, <1>4
  <2> QED BY <1>1, <2>1, <2>2, <2>3, <2>4 DEF Histories
<1>5. CASE HistoryMax # 0 /\ ~(Len(longer) > HistoryMax)
  <2>1. Kept(h, v) = SubSeq(longer, 1, Len(longer))
    BY <1>5 DEF Kept, longer
  <2>2. SubSeq(longer, 1, Len(longer)) \in Seq(Versions)
    BY <1>1, <1>2
  <2>3. Len(SubSeq(longer, 1, Len(longer))) = Len(longer)
    BY <1>1, <1>2
  <2> QED BY <1>1, <1>2, <1>5, <2>1, <2>2, <2>3 DEF Histories
<1> QED BY <1>3, <1>4, <1>5

LEMMA ReplacedHistory ==
    ASSUME NEW h \in Histories, NEW k, k = [i \in DOMAIN h |-> k[i]],
           \A i \in DOMAIN h : k[i] \in Versions
    PROVE  k \in Histories
<1>1. h \in Seq(Versions) /\ Len(h) \in Nat /\ DOMAIN h = 1 .. Len(h)
  BY DEF Histories
<1>2. k = [i \in 1 .. Len(h) |-> k[i]] /\ DOMAIN k = 1 .. Len(h)
  BY <1>1
<1>3. k \in Seq(Versions)
  BY <1>1, <1>2
<1>4. Len(k) = Len(h)
  BY <1>1, <1>2, <1>3
<1> QED BY <1>1, <1>3, <1>4 DEF Histories

-----------------------------------------------------------------------------
(* What the vault holds *)

LEMMA LivePlace ==
    ASSUME NEW u \in Trees, NEW p \in Places, LiveIn(u, p)
    PROVE  p \in Folders \cup {Root}
<1>1. p # Bin /\ p # None
  BY UnderSelf, UnderEnds, VaultEditorAssumption DEF LiveIn, Places
<1> QED BY <1>1 DEF Places

LEMMA HeldNow ==
    ASSUME EditorTypes
    PROVE  /\ \A f \in Places, g \in Places : Inside(f, g) <=> Under(up, f, g)
           /\ \A f \in Places : Live(f) <=> LiveIn(up, f)
           /\ \A f \in Places : f \in LiveFolders <=> LiveIn(up, f)
           /\ \A e \in Entries : e \in LiveEntries <=> LiveIn(up, at[e])
           /\ LiveFolders \subseteq Folders \cup {Root}
<1>1. up \in Trees /\ at \in [Entries -> Places] /\ Root \in Places /\ Bin \in Places
      /\ Folders \cup {Root} \subseteq Places
  BY DEF EditorTypes, Places
<1>2. \A f \in Places, g \in Places : Inside(f, g) <=> Under(up, f, g)
  BY <1>1, UnderIs DEF Inside
<1>3. \A f \in Places : Live(f) <=> LiveIn(up, f)
  BY <1>1, <1>2 DEF Live, Found, LiveIn
<1>4. \A f \in Places : f \in LiveFolders <=> LiveIn(up, f)
  BY <1>1, <1>3, LivePlace DEF LiveFolders
<1> QED BY <1>1, <1>2, <1>3, <1>4 DEF LiveEntries, LiveFolders

LEMMA HeldNext ==
    ASSUME EditorTypes'
    PROVE  \A e \in Entries : e \in LiveEntries' <=> LiveIn(up', at'[e])
<1>1. up' \in Trees /\ at' \in [Entries -> Places] /\ Root \in Places /\ Bin \in Places
  BY DEF EditorTypes, Places
<1>2. \A f \in Places, g \in Places :
        (\/ Leads(f, g)
         \/ f \in Folders /\ \A S \in SUBSET Folders : f \in S =>
               \E h \in S : up'[h] \in Folders \ S \/ h = g \/ Leads(up'[h], g))
          <=> Under(up', f, g)
  BY <1>1, UnderIs
<1>3. \A e \in Entries : Live(at[e])' <=> LiveIn(up', at'[e])
  BY <1>1, <1>2 DEF Live, Found, Inside, LiveIn, Leads, Root, Bin
<1> QED BY <1>3 DEF LiveEntries

(* How a step may make folders and move them: into a live one that is not    *)
(* below them.                                                              *)
Grows(F, t) ==
    /\ F \in SUBSET Folders /\ t \in Folders \cup {Root} /\ LiveIn(up, t)
    /\ \A f \in F : ~Under(up, t, f)
    /\ up' = Moved(up, F, t)

LEMMA GroupCreated ==
    ASSUME EditorTypes, NEW f \in LiveFolders, CreateGroup(f)
    PROVE  \E F, t : Grows(F, t)
<1>1. PICK g \in Unused(Folders, up) : up' = [up EXCEPT ![g] = f]
  BY DEF CreateGroup
<1>2. f \in Folders \cup {Root} /\ f \in Places /\ LiveIn(up, f)
  BY HeldNow DEF Places
<1>3. g \in Folders /\ ~Under(up, f, g)
  BY <1>2, UnusedBelow DEF EditorTypes, Unused
<1>4. up' = Moved(up, {g}, f)
  BY <1>1, <1>3 DEF Moved, EditorTypes, Trees
<1> QED BY <1>2, <1>3, <1>4 DEF Grows

LEMMA GroupMoved ==
    ASSUME EditorTypes, NEW f \in LiveFolders, MoveGroup(f)
    PROVE  \E F, t : Grows(F, t)
<1>1. PICK t \in MayHold(f) : up' = [up EXCEPT ![f] = t]
  BY DEF MoveGroup
<1>2. f \in Folders /\ t \in LiveFolders /\ ~Inside(t, f)
  BY HeldNow DEF MoveGroup, MayHold
<1>3. t \in Folders \cup {Root} /\ LiveIn(up, t) /\ ~Under(up, t, f)
  BY <1>2, HeldNow DEF Places
<1>4. up' = Moved(up, {f}, t)
  BY <1>1, <1>2 DEF Moved, EditorTypes, Trees
<1> QED BY <1>2, <1>3, <1>4 DEF Grows

LEMMA RootLive == ASSUME NEW u PROVE LiveIn(u, Root)
<1>1. Root # Bin /\ Bin \in Places
  BY DEF Root, Bin, Places
<1> QED BY <1>1, UnderSelf, UnderEnds DEF LiveIn

LEMMA KeePassImported ==
    ASSUME EditorTypes, ImportKeePass
    PROVE  /\ \E F, t : /\ Grows(F, t)
                        /\ \A e \in Entries : at'[e] = at[e] \/ at'[e] \in F \/ at'[e] \in LiveFolders
           /\ \A e \in Entries : at[e] # None => at'[e] = at[e]
           /\ at' \in [Entries -> Places] /\ now' \in [Entries -> Versions]
<1> DEFINE made == {r.folder : r \in {Brought[e] : e \in DOMAIN Brought}} \cap Unused(Folders, up)
           taken == {e \in DOMAIN Brought : at[e] = None /\ Brought[e].folder \in made \cup LiveFolders}
<1>1. PICK target \in LiveFolders :
        /\ up' = [f \in Folders |-> IF f \in made THEN target ELSE up[f]]
        /\ at' = [e \in Entries |-> IF e \in taken THEN Brought[e].folder ELSE at[e]]
        /\ now' = [e \in Entries |-> IF e \in taken THEN [text |-> 0, files |-> Brought[e].files]
                                     ELSE now[e]]
  BY DEF ImportKeePass
<1>2. target \in Folders \cup {Root} /\ target \in Places /\ LiveIn(up, target)
  BY HeldNow DEF Places
<1>3. made \in SUBSET Folders /\ \A f \in made : up[f] = None
  BY DEF Unused
<1>4. \A f \in made : ~Under(up, target, f)
  BY <1>2, <1>3, UnusedBelow DEF EditorTypes
<1>5. up' = Moved(up, made, target)
  BY <1>1 DEF Moved
<1>6. \A e \in taken : Brought[e].folder \in made \cup LiveFolders
                       /\ Brought[e].folder \in Places /\ Brought[e].files \in SUBSET AllFiles
                       /\ at[e] = None
  BY VaultEditorAssumption DEF Places, AllFiles
<1> HIDE DEF made, taken
<1>7. \A e \in Entries : at'[e] = at[e] \/ at'[e] \in made \/ at'[e] \in LiveFolders
  BY <1>1, <1>6
<1>8. at' \in [Entries -> Places]
  BY <1>1, <1>6 DEF EditorTypes
<1>9. now' \in [Entries -> Versions]
  BY <1>1, <1>6 DEF EditorTypes, Versions
<1>10. Grows(made, target)
  BY <1>2, <1>3, <1>4, <1>5 DEF Grows
<1>11. \E F, t : /\ Grows(F, t)
                /\ \A e \in Entries : at'[e] = at[e] \/ at'[e] \in F \/ at'[e] \in LiveFolders
  BY <1>7, <1>10
<1>12. \A e \in Entries : at[e] # None => at'[e] = at[e]
  BY <1>1, <1>6
<1> QED BY <1>8, <1>9, <1>11, <1>12

LEMMA CsvImported ==
    ASSUME EditorTypes, NEW n \in 1 .. MaxText, ImportCsv(n)
    PROVE  /\ \/ /\ up' = up
                 /\ \A e \in Entries : at'[e] = at[e] \/ at'[e] \in LiveFolders
              \/ \E F, t : /\ Grows(F, t)
                           /\ \A e \in Entries : at'[e] = at[e] \/ at'[e] \in F
           /\ \A e \in Entries : at[e] # None => at'[e] = at[e]
           /\ at' \in [Entries -> Places] /\ now' \in [Entries -> Versions] /\ text' \in Nat
<1>1. PICK e \in Unused(Entries \ DOMAIN Brought, at), f \in LiveFolders \cup Unused(Folders, up) :
        /\ up' = IF f \in LiveFolders THEN up ELSE [up EXCEPT ![f] = Root]
        /\ at' = [at EXCEPT ![e] = f]
        /\ now' = [now EXCEPT ![e] = [Blank EXCEPT !.text = n]]
  BY DEF ImportCsv
<1>2. e \in Entries /\ at[e] = None /\ f \in Places /\ n \in Nat /\ n <= text + 1
  BY HeldNow DEF Unused, Places, ImportCsv
<1>3. at' \in [Entries -> Places] /\ \A x \in Entries : at'[x] = IF x = e THEN f ELSE at[x]
  BY <1>1, <1>2 DEF EditorTypes
<1>4. [Blank EXCEPT !.text = n] \in Versions
  BY <1>2 DEF Blank, Versions
<1>5. now' \in [Entries -> Versions]
  BY <1>1, <1>2, <1>4 DEF EditorTypes
<1>6. text' \in Nat
  BY <1>2 DEF ImportCsv, EditorTypes
<1>7. CASE f \in LiveFolders
  BY <1>1, <1>2, <1>3, <1>5, <1>6, <1>7
<1>8. CASE f \notin LiveFolders
  <2>1. f \in Folders /\ up[f] = None
    BY <1>1, <1>8 DEF Unused
  <2>2. ~Under(up, Root, f)
    BY <2>1, RootLive, UnusedBelow DEF EditorTypes, Places
  <2>3. up' = Moved(up, {f}, Root)
    BY <1>1, <1>8, <2>1 DEF Moved, EditorTypes, Trees
  <2>4. Grows({f}, Root)
    BY <2>1, <2>2, <2>3, RootLive DEF Grows
  <2> QED BY <1>2, <1>3, <1>5, <1>6, <2>4
<1> QED BY <1>7, <1>8

LEMMA GrownTree == ASSUME EditorTypes, NEW F, NEW t, Grows(F, t) PROVE up' \in Trees
  BY MovedKeeps DEF Grows, EditorTypes, Places

-----------------------------------------------------------------------------
(* Every step keeps the types. *)

LEMMA GoneTypes ==
    ASSUME EditorTypes, NEW es, Gone(es)
    PROVE  /\ at' \in [Entries -> Places] /\ now' \in [Entries -> Versions]
           /\ old' \in [Entries -> Histories]
  BY BlankVersion DEF Gone, EditorTypes, Places

LEMMA RewriteTypes ==
    ASSUME EditorTypes, NEW e \in Entries, NEW v \in Versions, Rewrite(e, v)
    PROVE  now' \in [Entries -> Versions] /\ old' \in [Entries -> Histories]
<1>1. Kept(old[e], now[e]) \in Histories
  BY KeptHistory DEF EditorTypes
<1> QED BY <1>1 DEF Rewrite, EditorTypes

LEMMA ShowsTypes ==
    ASSUME EditorTypes, NEW e \in Entries \cup {None}, NEW d \in Drafts \cup {None}, Shows(e, d)
    PROVE  /\ page' \in [entry : Entries \cup {None}, draft : Drafts \cup {None}]
           /\ adding' \in Files \cup {None}
  BY DEF Shows, EditorTypes

LEMMA EditingTypes ==
    ASSUME EditorTypes
    PROVE  /\ page.entry \in Entries \cup {None} /\ page.draft \in Drafts \cup {None}
           /\ Editing => page.draft \in Drafts
           /\ page.entry \in LiveEntries => page.entry \in Entries
           /\ \A e \in LiveEntries : e \in Entries /\ at[e] \in Folders \cup {Root}
<1>1. \A e \in LiveEntries : e \in Entries /\ at[e] \in Folders \cup {Root}
  BY HeldNow, LivePlace DEF EditorTypes, LiveEntries
<1> QED BY <1>1 DEF EditorTypes, Editing

LEMMA EditorTypesInit == EditorInit => EditorTypes
<1> SUFFICES ASSUME EditorInit PROVE EditorTypes
  OBVIOUS
<1>1. up \in Trees
  BY DEF EditorInit, Trees, Places
<1>2. at \in [Entries -> Places]
  BY DEF EditorInit, Places
<1>3. now \in [Entries -> Versions] /\ old \in [Entries -> Histories]
  BY BlankVersion DEF EditorInit
<1> QED BY <1>1, <1>2, <1>3 DEF EditorInit, EditorTypes

LEMMA EditorTypesStep == EditorTypes /\ [EditorNext]_editorVars => EditorTypes'
<1> SUFFICES ASSUME EditorTypes, [EditorNext]_editorVars PROVE EditorTypes'
  OBVIOUS
<1> USE DEF Still, Changes, tree
<1>1. ASSUME NEW e \in Entries \cup {None}, Select(e) PROVE EditorTypes'
  BY <1>1, ShowsTypes DEF Select, EditorTypes
<1>2. CASE EditEntry
  <2>1. page.entry \in Entries /\ at[page.entry] \in Folders \cup {Root} /\ now[page.entry].text \in Nat
    BY <1>2, EditingTypes DEF EditEntry, EditorTypes, Versions
  <2>2. [new |-> FALSE, text |-> now[page.entry].text, from |-> at[page.entry], to |-> at[page.entry]]
            \in Drafts
    BY <2>1 DEF Drafts
  <2> QED BY <1>2, <2>1, <2>2, ShowsTypes DEF EditEntry, EditorTypes
<1>3. ASSUME NEW f \in LiveFolders, NewEntry(f) PROVE EditorTypes'
  <2>1. [new |-> TRUE, text |-> 0, from |-> f, to |-> f] \in Drafts
    BY HeldNow DEF Drafts
  <2> QED BY <1>3, <2>1, ShowsTypes DEF NewEntry, EditorTypes
<1>4. CASE Types
  <2>1. page \in [entry : Entries \cup {None}, draft : Drafts]
    BY <1>4, EditingTypes DEF Types, EditorTypes
  <2>2. page' \in [entry : Entries \cup {None}, draft : Drafts] /\ text' \in Nat
    <3>1. CASE text' = text + 1 /\ page' = [page EXCEPT !.draft.text = text + 1]
      BY <2>1, <3>1 DEF EditorTypes, Drafts
    <3>2. CASE text' = text /\ \E f \in Offered : page' = [page EXCEPT !.draft.to = f]
      BY <2>1, <3>2, HeldNow DEF EditorTypes, Drafts, Offered
    <3> QED BY <1>4, <3>1, <3>2 DEF Types
  <2> QED BY <1>4, <2>2 DEF Types, EditorTypes
<1>5. CASE Cancel
  BY <1>5, ShowsTypes, EditingTypes DEF Cancel, EditorTypes
<1>6. CASE ApplyNew
  <2>1. PICK e \in Entries : Creates(e, page.draft.to, [Blank EXCEPT !.text = page.draft.text])
                             /\ Shows(e, None)
    BY <1>6 DEF ApplyNew, Unused
  <2>2. page.draft \in Drafts
    BY <1>6, EditingTypes DEF ApplyNew
  <2>3. [Blank EXCEPT !.text = page.draft.text] \in Versions
    BY <2>2 DEF Blank, Versions, Drafts
  <2>4. page.draft.to \in Places /\ Root \in Places
    BY <2>2 DEF Drafts, Places
  <2>5. at' \in [Entries -> Places] /\ now' \in [Entries -> Versions] /\ old' \in [Entries -> Histories]
    BY <2>1, <2>3, <2>4, BlankVersion DEF Creates, EditorTypes
  <2> QED BY <1>6, <2>1, <2>5, ShowsTypes DEF ApplyNew, EditorTypes
<1>7. CASE ApplyEdits
  <2>1. at' \in [Entries -> Places] /\ now' \in [Entries -> Versions] /\ old' \in [Entries -> Histories]
        /\ up' = up /\ dirty' \in BOOLEAN
    <3> DEFINE e == page.entry  d == page.draft
    <3>1. CASE UNCHANGED <<tree, dirty>>
      BY <3>1 DEF EditorTypes
    <3>2. CASE /\ Rewrite(e, [now[e] EXCEPT !.text = d.text])
               /\ at' = [at EXCEPT ![e] = IF Found(d.to) THEN d.to ELSE @]
               /\ UNCHANGED up /\ dirty' = TRUE
      <4>1. d \in Drafts /\ d.to \in Places /\ d.text \in Nat
        BY <1>7, EditingTypes DEF ApplyEdits, Drafts, Places
      <4>2. at' \in [Entries -> Places]
        BY <3>2, <4>1 DEF EditorTypes
      <4>3. CASE e \in Entries
        <5>1. [now[e] EXCEPT !.text = d.text] \in Versions
          BY <4>1, <4>3 DEF EditorTypes, Versions
        <5> QED BY <3>2, <4>2, <4>3, <5>1, RewriteTypes
      <4>4. CASE e \notin Entries
        BY <3>2, <4>2, <4>4 DEF Rewrite, EditorTypes
      <4> QED BY <4>3, <4>4
    <3> QED BY <1>7, <3>1, <3>2 DEF ApplyEdits
  <2> QED BY <1>7, <2>1, ShowsTypes, EditingTypes DEF ApplyEdits, EditorTypes
<1>8. CASE DeleteEntry
  <2>1. at' \in [Entries -> Places] /\ now' \in [Entries -> Versions] /\ old' \in [Entries -> Histories]
    BY <1>8, GoneTypes DEF DeleteEntry, EditorTypes, Places
  <2> QED BY <1>8, <2>1, ShowsTypes DEF DeleteEntry, EditorTypes
<1>9. CASE RestoreEntry
  <2>1. at' \in [Entries -> Places]
    BY <1>9 DEF RestoreEntry, EditorTypes, Places
  <2> QED BY <1>9, <2>1, ShowsTypes, EditingTypes DEF RestoreEntry, EditorTypes
<1>10. ASSUME NEW f, InFolder(f)
       PROVE  /\ page' \in [entry : Entries \cup {None}, draft : Drafts \cup {None}]
              /\ adding' \in Files \cup {None}
  <2>1. (IF f = Root \/ page.entry = None \/ at[page.entry] = f THEN page.entry ELSE None)
            \in Entries \cup {None}
    BY EditingTypes
  <2> QED BY <1>10, <2>1, ShowsTypes, EditingTypes DEF InFolder
<1>11. ASSUME NEW f \in LiveFolders, CreateGroup(f) PROVE EditorTypes'
  BY <1>10, <1>11, GroupCreated, GrownTree DEF CreateGroup, EditorTypes
<1>12. ASSUME NEW f \in LiveFolders, MoveGroup(f) PROVE EditorTypes'
  BY <1>10, <1>12, GroupMoved, GrownTree DEF MoveGroup, EditorTypes
<1>13. ASSUME NEW f \in LiveFolders, DeleteGroup(f) PROVE EditorTypes'
  <2>1. up' \in Trees /\ at' \in [Entries -> Places] /\ now' \in [Entries -> Versions]
        /\ old' \in [Entries -> Histories]
    <3>1. CASE up' = [up EXCEPT ![f] = Bin] /\ UNCHANGED <<at, now, old>>
      BY <3>1 DEF EditorTypes, Trees, Places
    <3>2. CASE /\ up' = [g \in Folders |-> IF Inside(g, f) THEN None ELSE up[g]]
               /\ Gone({e \in Entries : Inside(at[e], f)})
      BY <3>2, GoneTypes DEF EditorTypes, Trees, Places
    <3> QED BY <1>13, <3>1, <3>2 DEF DeleteGroup
  <2>2. (IF Editing /\ page.draft.new THEN page.draft ELSE None) \in Drafts \cup {None}
    BY EditingTypes
  <2> QED BY <1>13, <2>1, <2>2, ShowsTypes DEF DeleteGroup, EditorTypes
<1>14. ASSUME NEW x \in Files, AddBegins(x) PROVE EditorTypes'
  BY <1>14 DEF AddBegins, EditorTypes
<1>15. CASE AddEnds
  <2> DEFINE e == page.entry  x == adding
  <2>1. CASE e \in LiveEntries /\ Rewrite(e, [now[e] EXCEPT !.files = @ \cup {x}])
             /\ UNCHANGED <<up, at>> /\ dirty' = TRUE
    <3>1. e \in Entries /\ x \in AllFiles
      BY <1>15, <2>1, EditingTypes DEF AddEnds, EditorTypes, AllFiles
    <3>2. [now[e] EXCEPT !.files = @ \cup {x}] \in Versions
      BY <3>1 DEF EditorTypes, Versions
    <3> QED BY <1>15, <2>1, <3>1, <3>2, RewriteTypes DEF AddEnds, EditorTypes
  <2>2. CASE UNCHANGED <<tree, dirty>>
    BY <1>15, <2>2 DEF AddEnds, EditorTypes
  <2> QED BY <1>15, <2>1, <2>2 DEF AddEnds
<1>16. CASE RemoveFile
  <2>1. PICK x : /\ now' = [now EXCEPT ![page.entry].files = @ \ {x}]
                 /\ LET h == Kept(old[page.entry], now[page.entry])
                    IN  old' \in {[old EXCEPT ![page.entry] = k] : k \in {h, Without(h, x)}}
    BY <1>16 DEF RemoveFile
  <2> DEFINE h == Kept(old[page.entry], now[page.entry])
  <2>2. page.entry \in Entries
    BY <1>16, EditingTypes DEF RemoveFile
  <2>3. h \in Histories
    BY <2>2, KeptHistory DEF EditorTypes
  <2>4. Without(h, x) \in Histories
    <3>1. h \in Seq(Versions)
      BY <2>3 DEF Histories
    <3> HIDE DEF h
    <3>2. \A i \in DOMAIN h : h[i] \in Versions
      BY <3>1
    <3>3. \A i \in DOMAIN h : Without(h, x)[i] = [text |-> h[i].text, files |-> h[i].files \ {x}]
      BY <3>2 DEF Without, Versions
    <3>4. \A i \in DOMAIN h : Without(h, x)[i] \in Versions
      <4> SUFFICES ASSUME NEW i \in DOMAIN h PROVE Without(h, x)[i] \in Versions
        OBVIOUS
      <4>0. h[i] \in Versions
        BY <3>2
      <4>1. h[i].text \in Nat /\ h[i].files \in SUBSET AllFiles
        BY <4>0 DEF Versions
      <4>2. h[i].files \ {x} \in SUBSET AllFiles
        BY <4>1
      <4>3. [text |-> h[i].text, files |-> h[i].files \ {x}] \in Versions
        BY <4>1, <4>2 DEF Versions
      <4> QED BY <3>3, <4>3
    <3>5. Without(h, x) = [i \in DOMAIN h |-> Without(h, x)[i]]
      BY DEF Without
    <3> QED BY <2>3, <3>4, <3>5, ReplacedHistory
  <2>5. now' \in [Entries -> Versions]
    BY <2>1, <2>2 DEF EditorTypes, Versions
  <2>6. old' \in [Entries -> Histories]
    BY <2>1, <2>2, <2>3, <2>4 DEF EditorTypes
  <2> QED BY <1>16, <2>5, <2>6 DEF RemoveFile, EditorTypes
<1>17. CASE ClearFiles
  <2> DEFINE h == old[page.entry]  k == [i \in DOMAIN h |-> [h[i] EXCEPT !.files = {}]]
  <2>1. page.entry \in Entries /\ h \in Histories
    BY <1>17, EditingTypes DEF ClearFiles, EditorTypes
  <2>2. \A i \in DOMAIN h : h[i] \in Versions
    BY <2>1 DEF Histories
  <2>3. \A i \in DOMAIN h : k[i] = [text |-> h[i].text, files |-> {}]
    BY <2>2 DEF Versions
  <2>4. \A i \in DOMAIN h : k[i] \in Versions
    BY <2>2, <2>3 DEF Versions
  <2>5. k = [i \in DOMAIN h |-> k[i]]
    OBVIOUS
  <2>6. old' = [old EXCEPT ![page.entry] = k]
    BY <1>17, <2>1 DEF ClearFiles, EditorTypes
  <2> HIDE DEF h, k
  <2>7. k \in Histories
    BY <2>1, <2>4, <2>5, ReplacedHistory
  <2>8. old' \in [Entries -> Histories]
    BY <2>6, <2>7 DEF EditorTypes
  <2> QED BY <1>17, <2>8 DEF ClearFiles, EditorTypes
<1>18. ASSUME NEW i \in 1 .. HistoryMax, AskRestore(i) PROVE EditorTypes'
  <2>1. page.entry \in Entries /\ i \in DOMAIN old[page.entry] /\ old[page.entry] \in Seq(Versions)
    BY <1>18, EditingTypes DEF AskRestore, EditorTypes, Histories
  <2>2. old[page.entry][i] \in Versions
    BY <2>1
  <2>3. asking' \in Questions
    BY <1>18, <2>2 DEF AskRestore, Questions
  <2> QED BY <1>18, <2>3 DEF AskRestore, EditorTypes
<1>19. CASE DeclinesRestore
  BY <1>19 DEF DeclinesRestore, EditorTypes
<1>20. CASE RestoreVersion
  <2> DEFINE e == page.entry  v == Restored(e, asking.index)
  <2>1. CASE e \in LiveEntries /\ asking.index \in DOMAIN old[e] /\ Rewrite(e, v)
             /\ UNCHANGED <<up, at>> /\ dirty' = TRUE
    <3>1. e \in Entries /\ old[e] \in Seq(Versions)
      BY <2>1, EditingTypes DEF EditorTypes, Histories
    <3>2. v \in Versions
      BY <2>1, <3>1 DEF Restored
    <3> QED BY <1>20, <2>1, <3>1, <3>2, RewriteTypes DEF RestoreVersion, EditorTypes
  <2>2. CASE UNCHANGED <<tree, dirty>>
    BY <1>20, <2>2 DEF RestoreVersion, EditorTypes
  <2> QED BY <1>20, <2>1, <2>2 DEF RestoreVersion
<1>21. CASE ImportKeePass
  <2>1. up' \in Trees
    BY <1>21, KeePassImported, GrownTree
  <2> QED BY <1>21, <2>1, KeePassImported DEF ImportKeePass, EditorTypes
<1>22. ASSUME NEW n \in 1 .. MaxText, ImportCsv(n) PROVE EditorTypes'
  <2>1. up' \in Trees
    BY <1>22, CsvImported, GrownTree DEF EditorTypes
  <2> QED BY <1>22, <2>1, CsvImported DEF ImportCsv, EditorTypes
<1>23. CASE OpensHistory
  BY <1>23 DEF OpensHistory, EditorTypes, Questions
<1>24. CASE ClosesHistory \/ Saves
  BY <1>24 DEF ClosesHistory, Saves, EditorTypes
<1>25. CASE AsksRollBack \/ DeclinesRollBack \/ RollBack \/ RollBackFails
  <2>1. ASSUME NEW s, NEW z \in {"open", "asks", "sent"}, History(s), Goes(z)
        PROVE  asking' \in Questions
    BY <2>1 DEF History, Goes, EditorTypes, Questions
  <2>2. asking' \in Questions \cup {None}
    BY <1>25, <2>1 DEF AsksRollBack, DeclinesRollBack, RollBack, RollBackFails, EditorTypes
  <2> QED BY <1>25, <2>2 DEF AsksRollBack, DeclinesRollBack, RollBack, RollBackFails, EditorTypes
<1>26. CASE PageReloads
  <2>1. up' \in Trees
    BY <1>26 DEF PageReloads, Trees, Places
  <2>2. page' \in [entry : Entries \cup {None}, draft : Drafts \cup {None}]
    BY <1>26, EditingTypes DEF PageReloads
  <2>3. Gone(Entries)
    BY <1>26 DEF PageReloads
  <2> QED BY <1>26, <2>1, <2>2, <2>3, GoneTypes DEF PageReloads, EditorTypes
<1>27. ASSUME NEW c \in DOMAIN Brought, RecoverCopy(c) PROVE EditorTypes'
  <2>1. PICK e \in Entries :
        /\ at' = [at EXCEPT ![e] = IF Live(Brought[c].folder) THEN Brought[c].folder ELSE Root]
        /\ now' = [now EXCEPT ![e] = Blank]
        /\ Shows(e, None)
    BY <1>27 DEF RecoverCopy, Unused
  <2>2. at' \in [Entries -> Places] /\ now' \in [Entries -> Versions]
    BY <2>1, VaultEditorAssumption, BlankVersion DEF EditorTypes, Places
  <2> QED BY <1>27, <2>1, <2>2, ShowsTypes DEF RecoverCopy, EditorTypes
<1>28. CASE LocksAndUnlocks
  <2>1. page' \in [entry : Entries \cup {None}, draft : Drafts \cup {None}]
    BY <1>28, EditingTypes DEF LocksAndUnlocks
  <2> QED BY <1>28, <2>1 DEF LocksAndUnlocks, EditorTypes
<1>29. CASE UNCHANGED editorVars
  BY <1>29 DEF editorVars, EditorTypes
<1> QED
  BY <1>1, <1>2, <1>3, <1>4, <1>5, <1>6, <1>7, <1>8, <1>9, <1>11, <1>12, <1>13, <1>14, <1>15, <1>16,
     <1>17, <1>18, <1>19, <1>20, <1>21, <1>22, <1>23, <1>24, <1>25, <1>26, <1>27, <1>28, <1>29
     DEF EditorNext

-----------------------------------------------------------------------------
(* Every entry and folder can be reached from the root. *)

Hanging == Rooted(up) /\ \A e \in Entries : Hangs(up, at[e])
TreeInv == EditorTypes /\ Hanging

LEMMA HangingIs == EditorTypes => (Hanging <=> NothingVanishes)
<1> SUFFICES ASSUME EditorTypes PROVE Hanging <=> NothingVanishes
  OBVIOUS
<1> QED BY DEF Hanging, Rooted, Hangs, NothingVanishes

LEMMA FlatTree ==
    ASSUME NEW u, \A f \in Folders : u[f] \in {Root, None}
    PROVE  Rooted(u)
<1>1. ASSUME NEW S \in (SUBSET Folders) \ {{}} PROVE \E f \in S : u[f] \notin S
  <2>0. S # {} /\ S \subseteq Folders
    OBVIOUS
  <2>1. PICK f \in S : TRUE
    BY <2>0
  <2>2. f \in Folders /\ u[f] \notin Folders
    BY <2>0, <2>1, VaultEditorAssumption
  <2> QED BY <2>0, <2>1, <2>2
<1> QED BY <1>1 DEF Rooted

LEMMA TreeInvInit == EditorInit => TreeInv
<1> SUFFICES ASSUME EditorInit PROVE Hanging
  BY EditorTypesInit DEF TreeInv
<1>1. /\ \A f \in Folders : up[f] \in {Root, None}
      /\ \A e \in Entries : at[e] = None
  BY DEF EditorInit
<1> QED BY <1>1, FlatTree DEF Hanging, Hangs

(* Where a live place, the root or the bin is, an entry can be.             *)
LEMMA LiveHangs ==
    ASSUME NEW u \in Trees, NEW p \in Places, Under(u, p, Root)
    PROVE  Hangs(u, p)
<1>1. CASE p \in Folders
  <2>1. p \in Places /\ Root \in Places /\ None \in Places /\ p # None
    BY <1>1, VaultEditorAssumption DEF Places
  <2>2. u[p] # None
    BY <1>1, <2>1, RootedNotLost, UnderStep, UnderSelf
  <2> QED BY <2>2 DEF Hangs
<1>2. CASE p \notin Folders
  BY <1>2 DEF Hangs, Places
<1> QED BY <1>1, <1>2

LEMMA GrownHangs ==
    ASSUME TreeInv, NEW F, NEW t, Grows(F, t),
           \A e \in Entries : at'[e] = at[e] \/ at'[e] \in F \/ at'[e] \in LiveFolders
    PROVE  Hanging'
<1>1. /\ Rooted(up')
      /\ \A p \in Places : Hangs(up, p) \/ p \in F => Hangs(up', p)
  BY MovedRooted DEF Grows, TreeInv, EditorTypes, Hanging
<1>2. \A p \in LiveFolders : p \in Places /\ Hangs(up, p)
  BY HeldNow, LiveHangs DEF TreeInv, EditorTypes, LiveIn, Places
<1>3. \A e \in Entries : Hangs(up', at'[e])
  BY <1>1, <1>2 DEF TreeInv, EditorTypes, Hanging, Grows, Places
<1> QED BY <1>1, <1>3 DEF Hanging, Rooted, Hangs

LEMMA PlacedHangs ==
    ASSUME TreeInv, up' = up,
           \A e \in Entries : at'[e] = at[e] \/ Hangs(up, at'[e])
    PROVE  Hanging'
<1>1. \A e \in Entries : Hangs(up, at'[e])
  BY DEF TreeInv, Hanging
<1> QED BY <1>1 DEF TreeInv, Hanging, Rooted, Hangs

LEMMA TreeInvStep == TreeInv /\ [EditorNext]_editorVars => TreeInv'
<1> SUFFICES ASSUME TreeInv, [EditorNext]_editorVars PROVE Hanging'
  BY EditorTypesStep DEF TreeInv
<1> USE DEF Still, Changes, tree
<1>0. EditorTypes /\ up \in Trees /\ at \in [Entries -> Places]
  BY DEF TreeInv, EditorTypes
<1>1. CASE UNCHANGED <<up, at>>
  BY <1>1 DEF TreeInv, Hanging, Rooted, Hangs
<1>2. CASE ApplyNew
  <2>1. PICK e \in Entries : at' = [at EXCEPT ![e] = IF Found(page.draft.to) THEN page.draft.to ELSE Root]
    BY <1>2 DEF ApplyNew, Creates, Unused
  <2>2. page.draft.to \in Places /\ Root \in Places
    BY <1>0, <1>2, EditingTypes DEF ApplyNew, Drafts, Places
  <2>3. Found(page.draft.to) => Hangs(up, page.draft.to)
    BY <1>0, <2>2, HeldNow, LiveHangs DEF Found
  <2>4. Hangs(up, Root)
    BY DEF Hangs
  <2> QED BY <1>0, <1>2, <2>1, <2>3, <2>4, PlacedHangs DEF ApplyNew
<1>3. CASE ApplyEdits
  <2>1. CASE at' = [at EXCEPT ![page.entry] = IF Found(page.draft.to) THEN page.draft.to ELSE @]
             /\ UNCHANGED up
    <3>1. page.draft.to \in Places /\ Root \in Places
      BY <1>0, <1>3, EditingTypes DEF ApplyEdits, Drafts, Places
    <3>2. Found(page.draft.to) => Hangs(up, page.draft.to)
      BY <1>0, <3>1, HeldNow, LiveHangs DEF Found
    <3> QED BY <1>0, <2>1, <3>2, PlacedHangs
  <2> QED BY <1>1, <1>3, <2>1 DEF ApplyEdits
<1>4. ASSUME up' = up, NEW es, Gone(es) PROVE Hanging'
  <2>1. \A e \in Entries : at'[e] = at[e] \/ at'[e] = None
    BY <1>4 DEF Gone
  <2>2. Hangs(up, None)
    BY DEF Hangs
  <2> QED BY <1>4, <2>1, <2>2, PlacedHangs
<1>5. CASE DeleteEntry
  <2>1. CASE at' = [at EXCEPT ![page.entry] = Bin]
    <3>1. Hangs(up, Bin) /\ \A e \in Entries : at'[e] = at[e] \/ at'[e] = Bin
      BY <1>0, <2>1 DEF Hangs
    <3> QED BY <1>5, <3>1, PlacedHangs DEF DeleteEntry
  <2> QED BY <1>4, <1>5, <2>1 DEF DeleteEntry
<1>6. CASE RestoreEntry
  <2>1. Hangs(up, Root) /\ \A e \in Entries : at'[e] = at[e] \/ at'[e] = Root
    BY <1>0, <1>6 DEF Hangs, RestoreEntry
  <2> QED BY <1>6, <2>1, PlacedHangs DEF RestoreEntry
<1>7. ASSUME NEW f \in LiveFolders, CreateGroup(f) PROVE Hanging'
  BY <1>0, <1>7, GroupCreated, GrownHangs DEF CreateGroup
<1>8. ASSUME NEW f \in LiveFolders, MoveGroup(f) PROVE Hanging'
  BY <1>0, <1>8, GroupMoved, GrownHangs DEF MoveGroup
<1>9. ASSUME NEW f \in LiveFolders, DeleteGroup(f) PROVE Hanging'
  <2>1. f \in Folders /\ f \in Places
    BY <1>0, <1>9, HeldNow DEF DeleteGroup, Places
  <2>2. CASE up' = [up EXCEPT ![f] = Bin] /\ UNCHANGED <<at, now, old>>
    <3>1. Rooted(up') /\ \A p \in Places : Hangs(up, p) => Hangs(up', p)
      BY <1>0, <2>1, <2>2, BinnedRooted DEF TreeInv, Hanging
    <3>2. \A e \in Entries : Hangs(up', at'[e])
      BY <1>0, <2>2, <3>1 DEF TreeInv, Hanging
    <3> QED BY <3>1, <3>2 DEF Hanging, Rooted, Hangs
  <2>3. CASE /\ up' = [g \in Folders |-> IF Inside(g, f) THEN None ELSE up[g]]
             /\ Gone({e \in Entries : Inside(at[e], f)})
    <3>1. /\ up' \in Trees
          /\ \A h \in Folders : up'[h] = IF Under(up, h, f) THEN None ELSE up[h]
      BY <1>0, <2>1, <2>3, HeldNow DEF Trees, Places
    <3>2. Rooted(up') /\ \A p \in Places : Hangs(up, p) /\ ~Under(up, p, f) => Hangs(up', p)
      BY <1>0, <2>1, <3>1, PrunedRooted DEF TreeInv, Hanging
    <3>3. ASSUME NEW e \in Entries PROVE Hangs(up', at'[e])
      <4>1. at'[e] = IF Inside(at[e], f) THEN None ELSE at[e]
        BY <2>3 DEF Gone
      <4>2. at[e] \in Places /\ (Inside(at[e], f) <=> Under(up, at[e], f))
        BY <1>0, <2>1, HeldNow
      <4>3. Hangs(up', None) /\ Hangs(up, at[e])
        BY DEF Hangs, TreeInv, Hanging
      <4> QED BY <3>2, <4>1, <4>2, <4>3
    <3> QED BY <3>2, <3>3 DEF Hanging, Rooted, Hangs
  <2> QED BY <1>9, <2>2, <2>3 DEF DeleteGroup
<1>10. CASE ImportKeePass
  BY <1>0, <1>10, KeePassImported, GrownHangs
<1>11. ASSUME NEW n \in 1 .. MaxText, ImportCsv(n) PROVE Hanging'
  <2>1. CASE up' = up /\ \A e \in Entries : at'[e] = at[e] \/ at'[e] \in LiveFolders
    <3>1. \A p \in LiveFolders : Hangs(up, p)
      BY <1>0, HeldNow, LiveHangs DEF LiveIn, Places
    <3> QED BY <2>1, <3>1, PlacedHangs
  <2>2. CASE \E F, t : Grows(F, t) /\ \A e \in Entries : at'[e] = at[e] \/ at'[e] \in F
    BY <2>2, GrownHangs
  <2> QED BY <1>0, <1>11, <2>1, <2>2, CsvImported
<1>12. CASE PageReloads
  <2>1. /\ \A f \in Folders : up'[f] \in {Root, None}
        /\ \A e \in Entries : at'[e] = None
    BY <1>12 DEF PageReloads, Gone
  <2>2. Rooted(up')
    BY <2>1, FlatTree
  <2> QED BY <2>1, <2>2 DEF Hanging, Rooted, Hangs
<1>13. ASSUME NEW c \in DOMAIN Brought, RecoverCopy(c) PROVE Hanging'
  <2>1. Brought[c].folder \in Places /\ Hangs(up, Root)
    BY VaultEditorAssumption DEF Places, Hangs
  <2>2. Live(Brought[c].folder) => Hangs(up, Brought[c].folder)
    BY <1>0, <2>1, HeldNow, LiveHangs DEF LiveIn
  <2>3. \A e \in Entries : at'[e] = at[e] \/ Hangs(up, at'[e])
    BY <1>0, <1>13, <2>1, <2>2 DEF RecoverCopy, Unused
  <2> QED BY <1>13, <2>3, PlacedHangs DEF RecoverCopy
<1>14. CASE \E e \in Entries \cup {None} : Select(e)
  BY <1>1, <1>14 DEF Select
<1>15. CASE \/ EditEntry \/ Types \/ Cancel
            \/ \E f \in LiveFolders : NewEntry(f)
  BY <1>1, <1>15 DEF EditEntry, Types, Cancel, NewEntry
<1>16. CASE \/ \E x \in Files : AddBegins(x)
            \/ AddEnds \/ RemoveFile \/ ClearFiles
  BY <1>1, <1>16 DEF AddBegins, AddEnds, RemoveFile, ClearFiles
<1>17. CASE \/ \E i \in 1 .. HistoryMax : AskRestore(i)
            \/ DeclinesRestore \/ RestoreVersion
  BY <1>1, <1>17 DEF AskRestore, DeclinesRestore, RestoreVersion
<1>18. CASE \/ OpensHistory \/ ClosesHistory \/ AsksRollBack \/ DeclinesRollBack \/ RollBack
            \/ RollBackFails \/ Saves \/ LocksAndUnlocks
  BY <1>1, <1>18 DEF OpensHistory, ClosesHistory, AsksRollBack, DeclinesRollBack, RollBack,
     RollBackFails, Saves, LocksAndUnlocks
<1>19. CASE UNCHANGED editorVars
  BY <1>1, <1>19 DEF editorVars
<1> QED
  BY <1>2, <1>3, <1>5, <1>6, <1>7, <1>8, <1>9, <1>10, <1>11, <1>12, <1>13, <1>14, <1>15, <1>16,
     <1>17, <1>18, <1>19 DEF EditorNext

(* kdbx.ts moveGroup, deleteGroup and importFrom, and VaultPage's choices,   *)
(* leave no folder in itself and no entry or folder in one that is gone,    *)
(* for any folders, entries and foreign file.                               *)
THEOREM TreeHolds == EditorSpec => []NothingVanishes
<1>1. TreeInv => NothingVanishes
  BY HangingIs DEF TreeInv
<1> QED BY <1>1, TreeInvInit, TreeInvStep, PTL DEF EditorSpec

(* A set of folders that is not lost has a way to the root.                  *)
LEMMA RootedFound ==
    ASSUME NEW u \in Trees, Rooted(u), NEW p \in Places, p # None, Hangs(u, p)
    PROVE  Under(u, p, Root)
<1> SUFFICES ASSUME NEW S \in SUBSET Places, p \in S, Closed(u, S), Root \notin S
             PROVE  FALSE
  BY DEF Under
<1> DEFINE T == {f \in S \cap Folders : u[f] # None}
<1>1. Bin \notin S
  BY DEF Closed
<1>2. p \in T
  BY <1>1 DEF Places, Hangs
<1>3. PICK f \in T : u[f] \notin T
  <2>1. T \in (SUBSET Folders) \ {{}}
    BY <1>2
  <2> QED BY <2>1 DEF Rooted
<1>4. u[f] \in S /\ u[f] \in Folders
  <2>1. u[f] \in S /\ u[f] # None
    BY <1>3 DEF Closed
  <2> QED BY <1>1, <2>1 DEF Places
<1>5. u[u[f]] # None
  BY <1>3, <1>4, VaultEditorAssumption DEF Rooted
<1> QED BY <1>3, <1>4, <1>5

(* What the vault holds is found: getGroups and getEntries list each folder  *)
(* and entry that has not been deleted for good, live or recycled.          *)
THEOREM AllIsFound ==
    EditorSpec => [](/\ \A f \in Folders : up[f] # None => Found(f)
                     /\ \A e \in Entries : at[e] # None => Found(at[e]))
<1> DEFINE AllFound == /\ \A f \in Folders : up[f] # None => Found(f)
                       /\ \A e \in Entries : at[e] # None => Found(at[e])
<1>1. TreeInv => AllFound
  <2> SUFFICES ASSUME TreeInv PROVE AllFound
    OBVIOUS
  <2>1. up \in Trees /\ at \in [Entries -> Places] /\ Rooted(up) /\ Root \in Places
    BY DEF TreeInv, Hanging, EditorTypes, Places
  <2>2. ASSUME NEW p \in Places, p # None, Hangs(up, p) PROVE Found(p)
    <3>1. Under(up, p, Root)
      BY <2>1, <2>2, RootedFound
    <3> QED BY <2>1, <3>1, UnderIs DEF Found, Inside
  <2>3. \A f \in Folders : f \in Places /\ f # None
    BY VaultEditorAssumption DEF Places
  <2>4. \A e \in Entries : at[e] \in Places /\ Hangs(up, at[e])
    BY <2>1 DEF TreeInv, Hanging
  <2>5. \A f \in Folders : up[f] # None => Hangs(up, f)
    BY DEF Hangs
  <2> QED BY <2>2, <2>3, <2>4, <2>5
<1> QED BY <1>1, TreeInvInit, TreeInvStep, PTL DEF EditorSpec

(* Inside is the walk of VaultPage's isDescendant, from a folder to the one  *)
(* it is in until that is g or there is none, for any folders and wherever  *)
(* they are.                                                                *)
THEOREM InsideIsTheWalk ==
    ASSUME up \in Trees, NEW f \in Folders, NEW g \in Folders \cup {Root, Bin}
    PROVE  Inside(f, g) <=> f = g \/ Inside(up[f], g)
<1>1. f \in Places /\ g \in Places /\ up[f] \in Places
  BY DEF Places, Trees
<1>2. Under(up, f, g) <=> Inside(f, g)
  BY <1>1, UnderIs DEF Inside
<1>3. Under(up, up[f], g) <=> Inside(up[f], g)
  BY <1>1, UnderIs DEF Inside
<1> QED BY <1>1, <1>2, <1>3, UnderStep

(* Types of the editor's state: an entry keeps at most HistoryMax versions. *)
THEOREM EditorTypesHold == EditorSpec => []EditorTypes
  BY EditorTypesInit, EditorTypesStep, PTL DEF EditorSpec

-----------------------------------------------------------------------------
(* What is being edited stays out of the bin. *)

(* An entry that is being edited is live and in the folder the draft was     *)
(* opened from, and the folder chosen for it is not in the bin.             *)
DraftInv ==
    Editing /\ ~page.draft.new =>
        /\ ~Under(up, page.draft.to, Bin)
        /\ page.entry \in Entries
        /\ LiveIn(up, at[page.entry])
        /\ page.draft.from = at[page.entry]

LEMMA DraftUntouched ==
    ASSUME EditorTypes, DraftInv, page' = page, up' = up, at' = at
    PROVE  DraftInv'
  BY DEF DraftInv, Editing

LEMMA DraftClosed == ASSUME page'.draft = None \/ page'.draft.new PROVE DraftInv'
  BY DEF DraftInv, Editing

(* Folders that are made or moved leave a draft where it was.               *)
LEMMA DraftGrown ==
    ASSUME EditorTypes, DraftInv, up' = up \/ \E F, t : Grows(F, t),
           \A e \in Entries : at[e] # None => at'[e] = at[e],
           page'.draft = page.draft,
           Editing /\ ~page.draft.new => page'.entry = page.entry
    PROVE  DraftInv'
<1> SUFFICES ASSUME Editing, ~page.draft.new
             PROVE  /\ ~Under(up', page.draft.to, Bin)
                    /\ page'.entry \in Entries
                    /\ LiveIn(up', at'[page'.entry])
                    /\ page.draft.from = at'[page'.entry]
  BY DEF DraftInv, Editing
<1>1. page.draft.to \in Places
  BY EditingTypes DEF Drafts, Places
<1>2. \A p \in Places : /\ ~Under(up, p, Bin) => ~Under(up', p, Bin)
                        /\ LiveIn(up, p) => LiveIn(up', p)
  <2>1. CASE \E F, t : Grows(F, t)
    BY <2>1, MovedKeeps DEF Grows, EditorTypes
  <2> QED BY <2>1
<1>3. /\ page'.entry = page.entry /\ page.entry \in Entries /\ LiveIn(up, at[page.entry])
      /\ page.draft.from = at[page.entry] /\ at[page.entry] \in Places
  BY DEF DraftInv, EditorTypes
<1>4. at[page.entry] # None
  BY <1>3, LivePlace, VaultEditorAssumption DEF EditorTypes
<1> QED BY <1>1, <1>2, <1>3, <1>4 DEF DraftInv

LEMMA DraftInvStep ==
    ASSUME EditorTypes, DraftInv, [EditorNext]_editorVars
    PROVE  DraftInv'
<1> USE DEF Still, Changes, tree
<1>1. ASSUME NEW e, Shows(e, None) PROVE DraftInv'
  BY <1>1, DraftClosed DEF Shows
<1>2. CASE UNCHANGED <<page, up, at>>
  BY <1>2, DraftUntouched
<1>3. CASE EditEntry
  <2> DEFINE e == page.entry
  <2>1. e \in Entries /\ LiveIn(up, at[e]) /\ up' = up /\ at' = at
    BY <1>3, EditingTypes, HeldNow DEF EditEntry
  <2>2. page' = [entry |-> e, draft |-> [new |-> FALSE, text |-> now[e].text, from |-> at[e], to |-> at[e]]]
    BY <1>3 DEF EditEntry, Shows
  <2> QED BY <2>1, <2>2 DEF DraftInv, LiveIn
<1>4. ASSUME NEW f \in LiveFolders, NewEntry(f) PROVE DraftInv'
  BY <1>4, DraftClosed DEF NewEntry, Shows
<1>5. CASE Types
  <2>1. page \in [entry : Entries \cup {None}, draft : Drafts] /\ Editing
    BY <1>5, EditingTypes DEF Types, EditorTypes
  <2>2. CASE page' = [page EXCEPT !.draft.text = text + 1]
    <3>1. /\ page'.entry = page.entry /\ page'.draft.new = page.draft.new
          /\ page'.draft.to = page.draft.to /\ page'.draft.from = page.draft.from
      BY <2>1, <2>2 DEF Drafts
    <3> QED BY <1>5, <2>1, <3>1 DEF Types, DraftInv, Editing
  <2>3. ASSUME NEW f \in Offered, page' = [page EXCEPT !.draft.to = f] PROVE DraftInv'
    <3>1. /\ page'.entry = page.entry /\ page'.draft.new = page.draft.new
          /\ page'.draft.to = f /\ page'.draft.from = page.draft.from
      BY <2>1, <2>3 DEF Drafts
    <3>2. ~Under(up, f, Bin)
      BY HeldNow DEF Offered, Places, LiveIn
    <3> QED BY <1>5, <2>1, <3>1, <3>2 DEF Types, DraftInv, Editing
  <2> QED BY <1>5, <2>2, <2>3 DEF Types
<1>6. CASE Cancel \/ ApplyNew \/ ApplyEdits \/ DeleteEntry \/ RestoreEntry
  BY <1>1, <1>6 DEF Cancel, ApplyNew, ApplyEdits, DeleteEntry, RestoreEntry
<1>7. CASE \/ \E e \in Entries \cup {None} : Select(e)
           \/ \E c \in DOMAIN Brought : RecoverCopy(c)
  BY <1>1, <1>7 DEF Select, RecoverCopy
<1>8. ASSUME NEW f \in LiveFolders, Chosen(f), InFolder(f), at' = at, \E F, t : Grows(F, t) PROVE DraftInv'
  <2>1. page' = [entry |-> IF f = Root \/ page.entry = None \/ at[page.entry] = f THEN page.entry ELSE None,
                 draft |-> page.draft]
    BY <1>8 DEF InFolder, Shows
  <2>2. Editing /\ ~page.draft.new => page'.entry = page.entry
    BY <1>8, <2>1 DEF Chosen, DraftInv
  <2> QED BY <1>8, <2>1, <2>2, DraftGrown
<1>9. ASSUME NEW f \in LiveFolders, CreateGroup(f) \/ MoveGroup(f) PROVE DraftInv'
  BY <1>8, <1>9, GroupCreated, GroupMoved DEF CreateGroup, MoveGroup
<1>10. ASSUME NEW f \in LiveFolders, DeleteGroup(f) PROVE DraftInv'
  BY <1>10, DraftClosed DEF DeleteGroup, Shows
<1>11. CASE ImportKeePass
  BY <1>11, KeePassImported, DraftGrown DEF ImportKeePass
<1>12. ASSUME NEW n \in 1 .. MaxText, ImportCsv(n) PROVE DraftInv'
  BY <1>12, CsvImported, DraftGrown DEF ImportCsv
<1>13. CASE PageReloads
  BY <1>13, DraftClosed DEF PageReloads
<1>14. CASE LocksAndUnlocks
  <2>1. page' = [entry |-> IF DraftDirty THEN page.entry ELSE None,
                 draft |-> IF DraftDirty /\ ~page.draft.new THEN page.draft ELSE None]
        /\ up' = up /\ at' = at
    BY <1>14 DEF LocksAndUnlocks
  <2>2. CASE DraftDirty /\ ~page.draft.new
    BY <2>1, <2>2 DEF DraftInv, Editing
  <2>3. CASE ~(DraftDirty /\ ~page.draft.new)
    BY <2>1, <2>3, DraftClosed
  <2> QED BY <2>2, <2>3
<1>15. CASE \/ \E x \in Files : AddBegins(x)
            \/ AddEnds \/ RemoveFile \/ ClearFiles
  BY <1>2, <1>15 DEF AddBegins, AddEnds, RemoveFile, ClearFiles
<1>16. CASE \/ \E i \in 1 .. HistoryMax : AskRestore(i)
            \/ DeclinesRestore \/ RestoreVersion
  BY <1>2, <1>16 DEF AskRestore, DeclinesRestore, RestoreVersion
<1>17. CASE \/ OpensHistory \/ ClosesHistory \/ AsksRollBack \/ DeclinesRollBack \/ RollBack
            \/ RollBackFails \/ Saves
  BY <1>2, <1>17 DEF OpensHistory, ClosesHistory, AsksRollBack, DeclinesRollBack, RollBack,
     RollBackFails, Saves
<1>18. CASE UNCHANGED editorVars
  BY <1>2, <1>18 DEF editorVars
<1> QED
  BY <1>3, <1>4, <1>5, <1>6, <1>7, <1>9, <1>10, <1>11, <1>12, <1>13, <1>14, <1>15, <1>16, <1>17, <1>18
     DEF EditorNext

LEMMA AppliedLive ==
    ASSUME EditorTypes, DraftInv, EditorTypes', ApplyEdits
    PROVE  page'.entry \in LiveEntries' /\ now'[page'.entry].text = page.draft.text
<1> DEFINE e == page.entry  d == page.draft
<1>1. d \in Drafts /\ d.to \in Places /\ Root \in Places /\ Bin \in Places /\ Editing /\ ~d.new
  BY EditingTypes DEF ApplyEdits, Drafts, Places
<1>2. Found(d.to) => LiveIn(up, d.to)
  BY <1>1, HeldNow DEF DraftInv, Found, LiveIn
<1>3. e \in Entries /\ LiveIn(up, at[e]) /\ page'.entry = e /\ up' = up
  BY <1>1 DEF ApplyEdits, Shows, DraftInv, tree
<1>4. at \in [Entries -> Places] /\ at[e] # None /\ now[e] \in Versions
  BY <1>3, LivePlace, VaultEditorAssumption DEF EditorTypes
<1>5. CASE now[e].text = d.text /\ UNCHANGED <<tree, dirty>>
  BY <1>3, <1>5, HeldNext DEF tree
<1>6. CASE /\ Rewrite(e, [now[e] EXCEPT !.text = d.text])
           /\ at' = [at EXCEPT ![e] = IF Found(d.to) THEN d.to ELSE @]
  <2>1. LiveIn(up', at'[e])
    BY <1>2, <1>3, <1>4, <1>6
  <2>2. now'[e].text = d.text
    BY <1>3, <1>4, <1>6 DEF Rewrite, EditorTypes, Versions
  <2> QED BY <1>3, <2>1, <2>2, HeldNext
<1> QED BY <1>4, <1>5, <1>6 DEF ApplyEdits

(* handleSaveEntry: what the user applies to an entry is in the live vault as *)
(* it was typed, for any folders, entries and operations on them while it    *)
(* was edited.                                                              *)
THEOREM EditsKept == EditorSpec => AppliedIsKept
<1> DEFINE Inv == EditorTypes /\ DraftInv
<1>1. EditorInit => Inv
  <2> SUFFICES ASSUME EditorInit PROVE DraftInv
    BY EditorTypesInit
  <2> QED BY DEF EditorInit, DraftInv, Editing
<1>2. Inv /\ [EditorNext]_editorVars => Inv'
  BY EditorTypesStep, DraftInvStep
<1>3. Inv /\ Inv' /\ [EditorNext]_editorVars
        => [ApplyEdits => /\ page'.entry \in LiveEntries'
                          /\ now'[page'.entry].text = page.draft.text]_editorVars
  BY AppliedLive
<1> QED BY <1>1, <1>2, <1>3, PTL DEF EditorSpec, AppliedIsKept
=============================================================================
