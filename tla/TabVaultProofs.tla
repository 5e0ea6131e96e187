---- MODULE TabVaultProofs ----
(* What TabVault keeps for every set of edits and every bound. Each copy of the
   vault there is, in the tab, in a request, in a checkpoint or on its way into the
   tab, is older than the server's version or holds all that version has, under the
   key that version is under; and what is not stored yet is in the tab or in a
   checkpoint. Both rest on where a step may take its copies from, stated first. *)
EXTENDS TabVault, TLAPS

All == MyEdits \union OtherEdits

Server == [ver : Nat, content : SUBSET All, file : Nat, env : Nat, keys : Nat]
Tab == [content : SUBSET All, exports : Nat, key : Nat]
SaveQueue == [kind : {"saved", "saving", "conflict", "failed"}, ver : Nat, env : Nat,
              ahead : BOOLEAN, moved : BOOLEAN, running : BOOLEAN, timer : BOOLEAN]
Preparing == [stage : {"metadata", "export"}]
Upload == [stage : {"sent", "accepted", "refused"}, ver : Nat, content : SUBSET All, key : Nat,
           rotates : {FALSE}]
Rotation == [stage : {"sent", "accepted", "refused", "ask"}, ver : Nat, content : SUBSET All, key : Nat,
             rotates : {TRUE}, live : BOOLEAN]
GivenUp == [ver : Nat, content : SUBSET All, key : Nat, rotates : BOOLEAN]
Asked == [stage : {"file"}, password : BOOLEAN, ver : Nat, env : Nat, key : Nat]
Opened == [stage : {"settle", "apply"}, password : BOOLEAN, ver : Nat, env : Nat, key : Nat,
           content : SUBSET All, dirty : BOOLEAN, unread : BOOLEAN]
Checkpoint == [content : SUBSET All, ver : Nat, dirty : BOOLEAN, key : Nat, waits : BOOLEAN]
Draft == [sealing : Checkpoint \union {None}, memory : Checkpoint \union {None},
          disk : Checkpoint \union {None}, pending : BOOLEAN]
Trust == [key : Nat, locked : BOOLEAN, storing : [key : Nat, live : BOOLEAN] \union {None}, wiped : BOOLEAN]

ServerOK == srv \in Server /\ landed \subseteq All /\ agreed \in BOOLEAN
TabOK ==
  /\ tab \in Tab \union {None} /\ q \in SaveQueue \union {None} /\ (IsOpen <=> Is(q))
  /\ IsOpen => (q.kind = "saved" <=> ~q.ahead) /\ (q.running => q.kind = "saving")
EditsOK == made \subseteq MyEdits /\ dropped \subseteq All
UpOK == up \in Preparing \union Upload \union {None} /\ (Is(up) => IsOpen /\ q.running)
RotOK == rot \in Rotation \union {None} /\ (Is(rot) /\ rot.live => IsOpen)
StrayOK == stray \subseteq GivenUp
OpeningOK == opening \in Asked \union Opened \union {None}
DraftOK == draft \in Draft
TrustOK == trust \in Trust
Shapes == ServerOK /\ TabOK /\ EditsOK /\ UpOK /\ RotOK /\ StrayOK /\ OpeningOK /\ DraftOK /\ TrustOK

\* What is absent is none of these.
LEMMA Absent ==
  /\ None \notin Tab /\ None \notin SaveQueue /\ None \notin Preparing /\ None \notin Upload
  /\ None \notin Rotation /\ None \notin Asked /\ None \notin Opened /\ None \notin Checkpoint
  /\ \A s \in {"metadata", "export"} : [stage |-> s] # None
<1>1. None \notin Tab /\ None \notin SaveQueue /\ None \notin Checkpoint /\ None \notin Upload
  BY DEF None, Tab, SaveQueue, Upload, Checkpoint
<1>2. None \notin Rotation /\ None \notin Asked /\ None \notin Opened
  BY DEF None, Rotation, Asked, Opened
<1>3. None \notin Preparing
  BY DEF None, Preparing
<1> QED BY <1>1, <1>2, <1>3 DEF Preparing

\* A save and an unlock have, at each stage, what the later ones need.
LEMMA UpAt ==
  ASSUME UpOK, Is(up)
  PROVE  /\ up.stage \in {"metadata", "export"} => up \in Preparing
         /\ up.stage \in {"sent", "accepted", "refused"} => up \in Upload
         /\ up.stage \in {"metadata", "export", "sent", "accepted", "refused"}
BY DEF UpOK, Is, Preparing, Upload

LEMMA OpeningAt ==
  ASSUME OpeningOK, Is(opening)
  PROVE  /\ opening.stage = "file" => opening \in Asked
         /\ opening.stage # "file" => opening \in Opened
         /\ opening.stage \in {"file", "settle", "apply"}
BY DEF OpeningOK, Is, Asked, Opened

LEMMA OnTheWireAt ==
  ASSUME UpOK, RotOK
  PROVE  /\ \A r \in OnTheWire(up) : r \in GivenUp /\ r.rotates = FALSE /\ Is(up) /\ up.stage = "sent" /\ r.ver = srv.ver
                                     /\ r.ver = up.ver /\ r.content = up.content /\ r.key = up.key
         /\ \A r \in OnTheWire(rot) : r \in GivenUp /\ r.rotates = TRUE /\ Is(rot) /\ rot.stage = "sent" /\ r.ver = srv.ver
                                      /\ r.ver = rot.ver /\ r.content = rot.content /\ r.key = rot.key
<1>1. Is(up) /\ up.stage = "sent" => up \in Upload
  BY UpAt
<1>2. Is(rot) => rot \in Rotation
  BY DEF RotOK, Is
<1>3. \A r \in OnTheWire(up) :
        r = [ver |-> up.ver, content |-> up.content, key |-> up.key, rotates |-> up.rotates]
        /\ Is(up) /\ up.stage = "sent" /\ up.ver = srv.ver
  BY DEF OnTheWire, Taken
<1>4. \A r \in OnTheWire(rot) :
        r = [ver |-> rot.ver, content |-> rot.content, key |-> rot.key, rotates |-> rot.rotates]
        /\ Is(rot) /\ rot.stage = "sent" /\ rot.ver = srv.ver
  BY DEF OnTheWire, Taken
<1>5. Is(up) /\ up.stage = "sent" => up.ver \in Nat /\ up.content \in SUBSET All /\ up.key \in Nat /\ up.rotates = FALSE
  BY <1>1 DEF Upload
<1>6. Is(rot) => rot.ver \in Nat /\ rot.content \in SUBSET All /\ rot.key \in Nat /\ rot.rotates = TRUE
  BY <1>2 DEF Rotation
<1>7. \A v \in Nat, c \in SUBSET All, k \in Nat, b \in BOOLEAN :
         [ver |-> v, content |-> c, key |-> k, rotates |-> b] \in GivenUp
  BY DEF GivenUp
<1>8. \A r \in OnTheWire(up) : r \in GivenUp
  BY <1>3, <1>5, <1>7
<1>9. \A r \in OnTheWire(rot) : r \in GivenUp
  BY <1>4, <1>6, <1>7
<1>10. \A r \in OnTheWire(up) : r.rotates = FALSE
  BY <1>3, <1>5
<1>11. \A r \in OnTheWire(rot) : r.rotates = TRUE
  BY <1>4, <1>6
<1> QED BY <1>3, <1>4, <1>8, <1>9, <1>10, <1>11

(* ---------------------------------------------------------------- server --- *)

\* The upload the server takes, and what it then has.
Lands(r) ==
  /\ Taken(r)
  /\ srv'.ver = srv.ver + 1 /\ srv'.content = r.content /\ srv'.file = r.key /\ srv'.keys = srv.keys
  /\ srv'.env = IF r.rotates THEN r.key ELSE srv.env
  /\ landed' = landed \union (r.content \ OtherEdits) /\ agreed' = FALSE

LandsUp == Is(up) /\ up.stage = "sent" /\ Lands(up) /\ up' = [up EXCEPT !.stage = "accepted"] /\ rot' = rot
LandsRot == Is(rot) /\ rot.stage = "sent" /\ Lands(rot) /\ rot' = [rot EXCEPT !.stage = "accepted"] /\ up' = up
LandsStray == \E r \in stray : Lands(r) /\ stray' = stray \ {r} /\ up' = up /\ rot' = rot

\* Nothing but a key may be drawn, and the user may agree to replace this version.
Quiet == /\ srv'.ver = srv.ver /\ srv'.content = srv.content /\ srv'.file = srv.file /\ srv'.env = srv.env
         /\ srv'.keys >= srv.keys /\ landed' = landed /\ (agreed = TRUE => agreed' = TRUE)

\* Another session adds to the version there is, or rotates the key.
Extended == /\ srv'.ver = srv.ver + 1 /\ srv'.file = srv.file /\ srv'.env = srv.env /\ srv'.keys = srv.keys
            /\ srv.content \subseteq srv'.content /\ srv'.content \ OtherEdits \subseteq srv.content
            /\ landed' = landed /\ agreed' = FALSE /\ UNCHANGED <<tab, q, up, rot, stray, opening, draft, trust, made, dropped>>
Rekeyed == /\ srv'.ver = srv.ver + 1 /\ srv'.content = srv.content
           /\ srv'.keys = srv.keys + 1 /\ srv'.file = srv'.keys /\ srv'.env = srv'.keys
           /\ landed' = landed /\ agreed' = FALSE /\ UNCHANGED <<tab, q, up, rot, stray, opening, draft, trust, made, dropped>>

LEMMA CommitAt ==
  ASSUME ServerOK, NEW r, r.content \in SUBSET All, r.key \in Nat, r.rotates \in BOOLEAN, Taken(r), Commit(r)
  PROVE  ServerOK' /\ Lands(r)
<1>1. srv' = [srv EXCEPT !.ver = srv.ver + 1, !.content = r.content, !.file = r.key,
                         !.env = IF r.rotates THEN r.key ELSE srv.env]
  BY DEF Commit
<1>2. srv \in Server /\ srv.ver + 1 \in Nat /\ (IF r.rotates THEN r.key ELSE srv.env) \in Nat
  BY DEF ServerOK, Server
<1>3. srv' \in Server
  BY <1>1, <1>2 DEF Server
<1>4. /\ srv'.ver = srv.ver + 1 /\ srv'.content = r.content /\ srv'.file = r.key /\ srv'.keys = srv.keys
      /\ srv'.env = IF r.rotates THEN r.key ELSE srv.env
  BY <1>1, <1>2 DEF Server
<1>5. landed' = landed \union (r.content \ OtherEdits) /\ agreed' = FALSE
  BY DEF Commit
<1>6. landed' \subseteq All
  BY <1>5 DEF ServerOK
<1> QED BY <1>3, <1>4, <1>5, <1>6 DEF ServerOK, Lands

LEMMA ServerMoves ==
  ASSUME Shapes, [Next]_vars
  PROVE  ServerOK' /\ (Quiet \/ LandsUp \/ LandsRot \/ LandsStray \/ Extended \/ Rekeyed)
<1>0. ServerOK /\ srv.keys \in Nat /\ srv \in Server
  BY DEF Shapes, ServerOK, Server
<1> DEFINE Same == ServerOK' /\ Quiet
<1>a. ASSUME UNCHANGED <<srv, landed, agreed>> PROVE Same
  BY <1>0, <1>a DEF Quiet, ServerOK
<1> HIDE DEF Same
<1>1. CASE OtherSession
  <2>1. PICK e \in OtherEdits : srv' = [srv EXCEPT !.ver = srv.ver + 1, !.content = srv.content \union {e}]
    BY <1>1 DEF OtherSession
  <2>a. srv.content \union {e} \in SUBSET All /\ srv.ver + 1 \in Nat
    BY <1>0 DEF Server, All
  <2>2. srv' \in Server
    BY <1>0, <2>1, <2>a DEF Server
  <2>3. /\ srv'.ver = srv.ver + 1 /\ srv'.content = srv.content \union {e}
        /\ srv'.file = srv.file /\ srv'.env = srv.env /\ srv'.keys = srv.keys
    BY <1>0, <2>1 DEF Server
  <2> QED BY <1>0, <1>1, <2>2, <2>3 DEF OtherSession, Extended, ServerOK
<1>2. CASE OtherRotates
  <2>1. srv' = [srv EXCEPT !.ver = srv.ver + 1, !.file = srv.keys + 1, !.env = srv.keys + 1, !.keys = srv.keys + 1]
    BY <1>2 DEF OtherRotates
  <2>a. srv.ver + 1 \in Nat /\ srv.keys + 1 \in Nat
    BY <1>0 DEF Server
  <2>b. srv' \in Server
    BY <1>0, <2>1, <2>a DEF Server
  <2>2. /\ srv'.ver = srv.ver + 1 /\ srv'.content = srv.content
        /\ srv'.keys = srv.keys + 1 /\ srv'.file = srv'.keys /\ srv'.env = srv'.keys
    BY <1>0, <2>1, <2>a DEF Server
  <2> QED BY <1>0, <1>2, <2>2, <2>b DEF OtherRotates, Rekeyed, ServerOK
<1>3. CASE StrayArrives
  <2>1. PICK r \in stray : stray' = stray \ {r} /\ IF Taken(r) THEN Commit(r) ELSE UNCHANGED <<srv, landed, agreed>>
    BY <1>3 DEF StrayArrives
  <2>2. CASE Taken(r)
    <3>1. r \in GivenUp
      BY DEF Shapes, StrayOK
    <3>2. ServerOK' /\ Lands(r)
      BY <1>0, <2>1, <2>2, <3>1, CommitAt DEF GivenUp
    <3> QED BY <1>3, <2>1, <3>2 DEF LandsStray, StrayArrives
  <2>3. CASE ~Taken(r)
    BY <1>a, <2>1, <2>3 DEF Same
  <2> QED BY <2>2, <2>3
<1>4. CASE SaveArrives
  <2>1. CASE Taken(up)
    <3>1. up \in Upload
      BY <1>4, UpAt DEF SaveArrives, Shapes
    <3>2. ServerOK' /\ Lands(up)
      BY <1>0, <1>4, <2>1, <3>1, CommitAt DEF SaveArrives, Upload
    <3> QED BY <1>4, <2>1, <3>2 DEF LandsUp, SaveArrives
  <2>2. CASE ~Taken(up)
    BY <1>a, <1>4, <2>2 DEF SaveArrives, Same
  <2> QED BY <2>1, <2>2
<1>5. CASE RotateArrives
  <2>1. CASE Taken(rot)
    <3>1. rot \in Rotation
      BY <1>5 DEF RotateArrives, Shapes, RotOK, Is
    <3>2. ServerOK' /\ Lands(rot)
      BY <1>0, <1>5, <2>1, <3>1, CommitAt DEF RotateArrives, Rotation
    <3> QED BY <1>5, <2>1, <3>2 DEF LandsRot, RotateArrives
  <2>2. CASE ~Taken(rot)
    BY <1>a, <1>5, <2>2 DEF RotateArrives, Same
  <2> QED BY <2>1, <2>2
<1>6. CASE RotateStarts
  BY <1>0, <1>6 DEF RotateStarts, Quiet, Server, ServerOK
<1>7. CASE SaveMetadata
  <2>1. UNCHANGED <<srv, landed>> /\ agreed' \in {TRUE, agreed}
    BY <1>7 DEF SaveMetadata
  <2>2. agreed' \in BOOLEAN /\ (agreed = TRUE => agreed' = TRUE)
    BY <1>0, <2>1 DEF ServerOK
  <2> QED BY <1>0, <2>1, <2>2 DEF Quiet, ServerOK
<1>8. CASE Edit \/ TimerFires \/ UserSaves \/ SaveExports \/ SaveAccepted \/ SaveRefused \/ SaveLost
        \/ RotateAnswered \/ RotateLost \/ RotateAsks \/ LockVault \/ ForgetDevice \/ Refresh
        \/ KeyStored \/ OpenSettles \/ OpenApplies \/ UNCHANGED vars
  <2>1. UNCHANGED <<srv, landed, agreed>>
    BY <1>8 DEF Edit, TimerFires, UserSaves, Saves, SaveExports, SaveAccepted, SaveRefused, SaveLost,
       RotateAnswered, RotateLost, RotateAsks, LockVault, ForgetDevice, Refresh, KeyStored, OpenSettles, OpenApplies, vars
  <2> QED BY <1>a, <2>1 DEF Same
<1>9. ASSUME NEW editing \in BOOLEAN, AutoLock(editing) PROVE Same
  BY <1>a, <1>9 DEF AutoLock
<1>10. ASSUME NEW stored \in BOOLEAN, Seals(stored) PROVE Same
  BY <1>a, <1>10 DEF Seals
<1>11. ASSUME NEW password \in BOOLEAN, OpenStarts(password) PROVE Same
  BY <1>a, <1>11 DEF OpenStarts
<1>12. ASSUME NEW readable \in BOOLEAN, OpenFile(readable) PROVE Same
  BY <1>a, <1>12 DEF OpenFile
<1> QED
  BY <1>1, <1>2, <1>3, <1>4, <1>5, <1>6, <1>7, <1>8, <1>9, <1>10, <1>11, <1>12, Zenon
     DEF Next, Saving, Rotating, Same

(* --------------------------------------------------- the tab and its save --- *)

\* What a step does to the open vault, its queue and the save that runs. Each move
\* says where the content, the version and the key come from.
Live == Is(rot) /\ rot.live
SameVault == IsOpen /\ IsOpen' /\ tab' = tab /\ q'.env = q.env

Untouched == UNCHANGED <<tab, q, up>>
Closed == ~IsOpen' /\ ~Is(up')
Edited ==
  /\ IsOpen /\ IsOpen' /\ up' = up /\ UNCHANGED <<srv, landed, agreed, stray, rot, opening, draft, trust, dropped>>
  /\ \E e \in MyEdits : tab'.content = tab.content \union {e} /\ made' = made \union {e}
  /\ tab'.exports = tab.exports /\ tab'.key = tab.key
  /\ q'.ver = q.ver /\ q'.env = q.env /\ q'.ahead /\ (q.running => q'.moved)
  /\ q'.kind = IF q.kind = "saved" THEN "saving" ELSE q.kind
  /\ "rotate" \in Careful => ~Is(rot)
Begun ==
  /\ SameVault /\ q'.ver = q.ver /\ q.ahead /\ q'.ahead /\ q'.kind = "saving" /\ ~Is(up) /\ Is(up')
  /\ up'.stage = "export" \/ (up'.stage = "metadata" /\ q.kind = "conflict")
  /\ rot' = rot
Failed ==
  /\ SameVault /\ q'.ver = q.ver /\ q.ahead /\ q'.ahead /\ q'.kind \in {"conflict", "failed"}
  /\ Is(up) /\ up.stage # "export" /\ ~Is(up')
  /\ rot' = rot
Reread ==
  /\ SameVault /\ q'.ver = srv.ver /\ srv.env = q.env /\ agreed' = TRUE /\ srv' = srv
  /\ q'.ahead = q.ahead /\ q'.kind = q.kind /\ Is(up) /\ up.stage = "metadata" /\ Is(up') /\ up'.stage = "export"
  /\ rot' = rot
Exported ==
  /\ SameVault /\ q' = q /\ ~Live /\ Is(up) /\ up.stage = "export" /\ Is(up')
  /\ up'.stage = "sent" /\ up'.ver = q.ver /\ up'.content = tab.content /\ up'.key = tab.exports
  /\ rot' = rot
Arrived ==
  /\ SameVault /\ q' = q /\ Is(up) /\ up.stage = "sent" /\ Is(up')
  /\ up'.ver = up.ver /\ up'.content = up.content /\ up'.key = up.key
  /\ (up'.stage = "accepted" /\ LandsUp) \/ up'.stage = "refused"
  /\ rot' = rot
Again ==
  /\ SameVault /\ q'.ver = up.ver + 1 /\ q'.ahead = q.ahead /\ q'.kind = q.kind
  /\ Is(up) /\ up.stage = "accepted" /\ Is(up') /\ up'.stage = "export"
  /\ rot' = rot
Acknowledged ==
  /\ SameVault /\ q'.ver = up.ver + 1 /\ ~q.moved /\ ~q'.ahead /\ q'.kind = "saved"
  /\ Is(up) /\ up.stage = "accepted" /\ ~Is(up')
  /\ rot' = rot
Rekeying ==
  /\ IsOpen /\ IsOpen' /\ q' = q /\ up' = up /\ q.kind = "saved" /\ ~Is(rot) /\ ~Is(opening) /\ ~Is(opening')
  /\ tab'.content = tab.content /\ tab'.key = tab.key /\ Is(rot') /\ rot'.live = TRUE /\ rot'.key = tab'.exports
NewKey ==
  /\ Live /\ IsOpen /\ IsOpen' /\ tab'.content = tab.content /\ tab'.exports = tab.exports /\ tab'.key = rot.key
  /\ q'.ver = rot.ver + 1 /\ q'.env = rot.key /\ ~q'.ahead /\ q'.kind = "saved" /\ ~Is(up') /\ ~Is(rot')
  /\ rot.stage = "accepted" \/ (rot.stage = "ask" /\ srv.env = rot.key /\ srv.ver = rot.ver + 1)
OldKey ==
  /\ Live /\ IsOpen /\ IsOpen' /\ q' = q /\ up' = up /\ ~Is(rot')
  /\ tab'.content = tab.content /\ tab'.key = tab.key /\ tab'.exports = tab.key
Applied ==
  /\ Is(opening) /\ opening.stage = "apply" /\ ~Is(opening') /\ IsOpen'
  /\ tab' = [content |-> opening.content, exports |-> opening.key, key |-> opening.key]
  /\ q'.ver = opening.ver /\ q'.env = opening.env /\ q'.ahead = opening.dirty
  /\ q'.kind = (IF opening.dirty THEN "failed" ELSE "saved") /\ ~Is(up')
  /\ rot' = rot

TabMoved == \/ Untouched \/ Closed \/ Edited \/ Begun \/ Failed \/ Reread \/ Exported \/ Arrived \/ Again
            \/ Acknowledged \/ Rekeying \/ NewKey \/ OldKey \/ Applied

LEMMA QueueAt ==
  ASSUME NEW v \in Nat, NEW e \in Nat
  PROVE  /\ Queue(v, e) \in SaveQueue /\ Queue(v, e).ver = v /\ Queue(v, e).env = e /\ ~Queue(v, e).ahead
         /\ Queue(v, e).kind = "saved" /\ ~Queue(v, e).running
BY DEF Queue, SaveQueue

\* The open vault has its type, and so does its queue.
LEMMA TabAt ==
  ASSUME TabOK, IsOpen PROVE tab \in Tab /\ q \in SaveQueue /\ Is(q)
BY DEF TabOK, IsOpen, Is

LEMMA StillOpen ==
  ASSUME q' \in SaveQueue, tab' \in Tab,
         q'.kind = "saved" <=> ~q'.ahead, q'.running => q'.kind = "saving"
  PROVE  TabOK' /\ IsOpen'
BY Absent DEF TabOK, IsOpen, Is

LEMMA FailsAt ==
  ASSUME Shapes, Is(up), up.stage # "export", rot' = rot, tab' = tab,
         NEW kind \in {"conflict", "failed"}, SaveFails(kind)
  PROVE  TabOK' /\ UpOK' /\ Failed
<1>1. IsOpen /\ q \in SaveQueue /\ tab \in Tab /\ q.running /\ q.kind = "saving" /\ q.ahead
  BY TabAt DEF Shapes, UpOK, TabOK, SaveQueue
<1>2. q' = [q EXCEPT !.kind = kind, !.running = FALSE, !.moved = FALSE] /\ up' = None
  BY DEF SaveFails
<1>3. q' \in SaveQueue /\ q'.kind = kind /\ q'.ver = q.ver /\ q'.env = q.env /\ q'.ahead = q.ahead /\ q'.running = FALSE
  BY <1>1, <1>2 DEF SaveQueue
<1>4. TabOK' /\ IsOpen'
  BY <1>1, <1>3, StillOpen
<1> QED BY <1>1, <1>2, <1>3, <1>4 DEF Failed, SameVault, UpOK, Is

LEMMA BeginsAt ==
  ASSUME Shapes, NEW overwrite \in BOOLEAN, Saves(overwrite), overwrite => q.kind = "conflict"
  PROVE  TabOK' /\ UpOK' /\ Begun
<1>1. IsOpen /\ q \in SaveQueue /\ tab \in Tab /\ ~q.running /\ q.ahead /\ ~Is(up) /\ tab' = tab /\ rot' = rot
  BY TabAt DEF Shapes, UpOK, Saves
<1>2. q' = [q EXCEPT !.kind = "saving", !.running = TRUE, !.timer = FALSE]
      /\ up' = [stage |-> IF overwrite THEN "metadata" ELSE "export"]
  BY DEF Saves
<1>3. q' \in SaveQueue /\ q'.kind = "saving" /\ q'.ver = q.ver /\ q'.env = q.env /\ q'.ahead = q.ahead /\ q'.running = TRUE
  BY <1>1, <1>2 DEF SaveQueue
<1>4. TabOK' /\ IsOpen'
  BY <1>1, <1>3, StillOpen
<1>5. up' \in Preparing /\ up'.stage = (IF overwrite THEN "metadata" ELSE "export")
  BY <1>2 DEF Preparing
<1> QED BY <1>1, <1>3, <1>4, <1>5, Absent DEF Begun, SameVault, UpOK, Is

LEMMA RotatedAt ==
  ASSUME Shapes, Is(rot), Rotated,
         rot.stage = "accepted" \/ (rot.stage = "ask" /\ srv.env = rot.key /\ srv.ver = rot.ver + 1)
  PROVE  TabOK' /\ UpOK' /\ ((~Live /\ Untouched) \/ NewKey)
<1>0. rot \in Rotation /\ rot' = None
  BY DEF Shapes, RotOK, Is, Rotated
<1>a. rot.ver \in Nat /\ rot.key \in Nat
  BY <1>0 DEF Rotation
<1>1. rot \in Rotation /\ rot.ver + 1 \in Nat /\ rot.key \in Nat /\ rot' = None
  BY <1>0, <1>a
<1>2. CASE ~rot.live
  BY <1>2 DEF Rotated, Live, Untouched, Shapes, TabOK, UpOK, IsOpen
<1>3. CASE rot.live
  <2>1. IsOpen /\ tab \in Tab
    BY <1>3, TabAt DEF Shapes, RotOK
  <2>2. tab' = [tab EXCEPT !.key = rot.key] /\ q' = Queue(rot.ver + 1, rot.key) /\ up' = None
    BY <1>3 DEF Rotated
  <2>3. tab' \in Tab /\ tab'.content = tab.content /\ tab'.exports = tab.exports /\ tab'.key = rot.key
    BY <1>1, <2>1, <2>2 DEF Tab
  <2>4. q' \in SaveQueue /\ q'.ver = rot.ver + 1 /\ q'.env = rot.key /\ ~q'.ahead /\ q'.kind = "saved" /\ ~q'.running
    BY <1>1, <2>2, QueueAt
  <2>5. TabOK' /\ IsOpen'
    BY <2>3, <2>4, StillOpen
  <2> QED BY <1>1, <1>3, <2>1, <2>2, <2>3, <2>4, <2>5 DEF NewKey, Live, UpOK, Is
<1> QED BY <1>2, <1>3

LEMMA PutBackAt ==
  ASSUME Shapes, Is(rot), PutBack PROVE TabOK' /\ UpOK' /\ ((~Live /\ Untouched) \/ OldKey)
<1>1. CASE ~rot.live
  BY <1>1 DEF PutBack, Live, Untouched, Shapes, TabOK, UpOK, IsOpen
<1>2. CASE rot.live
  <2>1. IsOpen /\ tab \in Tab /\ q \in SaveQueue
    BY <1>2, TabAt DEF Shapes, RotOK
  <2>2. tab' = [tab EXCEPT !.exports = tab.key] /\ q' = q /\ up' = up /\ rot' = None
    BY <1>2 DEF PutBack
  <2>3. tab' \in Tab /\ tab'.content = tab.content /\ tab'.exports = tab.key /\ tab'.key = tab.key
    BY <2>1, <2>2 DEF Tab
  <2>4. TabOK' /\ IsOpen'
    BY <2>1, <2>2, <2>3, StillOpen DEF Shapes, TabOK
  <2> QED BY <1>2, <2>1, <2>2, <2>3, <2>4 DEF OldKey, Live, UpOK, Is, Shapes
<1> QED BY <1>1, <1>2

LEMMA EditAt == ASSUME Shapes, Edit PROVE TabOK' /\ UpOK' /\ Edited
<1>0. TabOK /\ UpOK
  BY DEF Shapes
<1>1. PICK e \in MyEdits : tab' = [tab EXCEPT !.content = tab.content \union {e}] /\ made' = made \union {e}
  <2>1. \E e \in MyEdits : e \notin made
    BY DEF Edit, MayEdit, Shapes, EditsOK
  <2> QED BY <2>1 DEF Edit
<1>2. IsOpen /\ tab \in Tab /\ q \in SaveQueue /\ tab.content \union {e} \in SUBSET All
  BY <1>0, TabAt DEF Edit, Tab, All
<1>3. tab' \in Tab /\ tab'.content = tab.content \union {e} /\ tab'.exports = tab.exports /\ tab'.key = tab.key
  BY <1>1, <1>2 DEF Tab
<1>4. /\ q' \in SaveQueue /\ q'.ver = q.ver /\ q'.env = q.env /\ q'.ahead = TRUE /\ q'.running = q.running
      /\ q.running => q'.moved = TRUE
  <2>1. CASE q.kind \in {"conflict", "failed"} \/ q.running
    <3>1. q' = [q EXCEPT !.ahead = TRUE, !.moved = q.running] /\ q.running \in BOOLEAN
      BY <1>2, <2>1 DEF Edit, Changed, SaveQueue
    <3> QED BY <1>2, <3>1 DEF SaveQueue
  <2>2. CASE ~(q.kind \in {"conflict", "failed"} \/ q.running)
    <3>1. q' = [q EXCEPT !.ahead = TRUE, !.kind = "saving", !.timer = TRUE]
      BY <2>2 DEF Edit, Changed
    <3> QED BY <1>2, <2>2, <3>1 DEF SaveQueue
  <2> QED BY <2>1, <2>2
<1>5. q'.kind = IF q.kind = "saved" THEN "saving" ELSE q.kind
  BY <1>0, <1>2 DEF Edit, Changed, SaveQueue, TabOK
<1>6. TabOK' /\ IsOpen'
  BY <1>0, <1>2, <1>3, <1>4, <1>5, StillOpen DEF TabOK
<1>7. up' = up /\ UNCHANGED <<srv, landed, agreed, stray, rot, opening, draft, trust, dropped>>
      /\ ("rotate" \in Careful => ~Is(rot))
  BY DEF Edit
<1>8. UpOK'
  BY <1>0, <1>2, <1>4, <1>6, <1>7 DEF UpOK
<1> QED BY <1>1, <1>2, <1>3, <1>4, <1>5, <1>6, <1>7, <1>8 DEF Edited

LEMMA TabMoves == ASSUME Shapes, [Next]_vars PROVE TabOK' /\ UpOK' /\ TabMoved
<1>0. TabOK /\ UpOK
  BY DEF Shapes
<1>a. ASSUME UNCHANGED <<tab, q, up>> PROVE TabOK' /\ UpOK' /\ Untouched
  BY <1>0, <1>a DEF TabOK, UpOK, Untouched, IsOpen
<1>b. ASSUME tab' = None, q' = None, up' = None PROVE TabOK' /\ UpOK' /\ Closed
  BY <1>b DEF TabOK, UpOK, Closed, IsOpen, Is
<1>1. CASE \/ OtherSession \/ OtherRotates \/ StrayArrives \/ RotateArrives \/ RotateLost
           \/ KeyStored \/ OpenSettles \/ UNCHANGED vars
  <2>1. UNCHANGED <<tab, q, up>>
    BY <1>1 DEF OtherSession, OtherRotates, StrayArrives, RotateArrives, RotateLost, KeyStored, OpenSettles, vars
  <2> QED BY <1>a, <2>1 DEF TabMoved
<1>2. ASSUME NEW stored \in BOOLEAN, Seals(stored) PROVE TabOK' /\ UpOK' /\ Untouched
  BY <1>a, <1>2 DEF Seals
<1>3. ASSUME NEW password \in BOOLEAN, OpenStarts(password) PROVE TabOK' /\ UpOK' /\ Untouched
  BY <1>a, <1>3 DEF OpenStarts
<1>4. ASSUME NEW readable \in BOOLEAN, OpenFile(readable) PROVE TabOK' /\ UpOK' /\ Untouched
  BY <1>a, <1>4 DEF OpenFile
<1>5. CASE LockVault \/ ForgetDevice \/ Refresh
  <2>1. tab' = None /\ q' = None /\ up' = None
    BY <1>5 DEF LockVault, ForgetDevice, Refresh, Closes
  <2> QED BY <1>b, <2>1 DEF TabMoved
<1>6. ASSUME NEW editing \in BOOLEAN, AutoLock(editing) PROVE TabOK' /\ UpOK' /\ Closed
  BY <1>b, <1>6 DEF AutoLock, Closes
<1>7. CASE Edit
  BY <1>7, EditAt DEF TabMoved
<1>8. CASE TimerFires
  BY <1>8, BeginsAt DEF TimerFires, TabMoved
<1>9. CASE UserSaves
  BY <1>9, BeginsAt DEF UserSaves, TabMoved
<1>10. CASE SaveMetadata
  <2>0. Is(up) /\ up.stage = "metadata" /\ tab' = tab /\ rot' = rot
    BY <1>10 DEF SaveMetadata
  <2>1. CASE srv.env = q.env
    <3>1. IsOpen /\ q.running /\ q \in SaveQueue /\ tab \in Tab /\ up \in Preparing /\ srv.ver \in Nat
      BY <1>0, <2>0, TabAt, UpAt DEF UpOK, Shapes, ServerOK, Server
    <3>2. q' = [q EXCEPT !.ver = srv.ver] /\ up' = [up EXCEPT !.stage = "export"] /\ agreed' = TRUE /\ srv' = srv
      BY <1>10, <2>1 DEF SaveMetadata
    <3>3. /\ q' \in SaveQueue /\ q'.ver = srv.ver /\ q'.env = q.env /\ q'.ahead = q.ahead /\ q'.kind = q.kind
          /\ q'.running = q.running
      BY <3>1, <3>2 DEF SaveQueue
    <3>4. up' \in Preparing /\ up'.stage = "export"
      BY <3>1, <3>2 DEF Preparing
    <3>5. TabOK' /\ IsOpen'
      BY <1>0, <2>0, <3>1, <3>3, StillOpen DEF TabOK
    <3>6. UpOK' /\ Is(up')
      BY <3>1, <3>3, <3>4, <3>5, Absent DEF UpOK, Is
    <3> QED BY <2>0, <2>1, <3>1, <3>2, <3>3, <3>4, <3>5, <3>6 DEF Reread, SameVault, TabMoved
  <2>2. CASE srv.env # q.env
    BY <1>10, <2>0, <2>2, FailsAt DEF SaveMetadata, TabMoved
  <2> QED BY <2>1, <2>2
<1>11. CASE SaveExports
  <2>0. /\ Is(up) /\ up.stage = "export" /\ ~Live /\ UNCHANGED <<tab, q, rot>>
        /\ up' = [stage |-> "sent", ver |-> q.ver, content |-> tab.content, key |-> tab.exports, rotates |-> FALSE]
    BY <1>11 DEF SaveExports, Live
  <2>1. IsOpen /\ q.running /\ q \in SaveQueue /\ tab \in Tab
    BY <1>0, <2>0, TabAt DEF UpOK
  <2>2. up' \in Upload
    BY <2>0, <2>1 DEF Upload, SaveQueue, Tab
  <2>3. TabOK' /\ IsOpen'
    BY <1>0, <2>0, <2>1 DEF TabOK, IsOpen
  <2>4. UpOK' /\ Is(up')
    BY <2>0, <2>1, <2>2, <2>3, Absent DEF UpOK, Is
  <2> QED BY <2>0, <2>1, <2>3, <2>4 DEF Exported, SameVault, TabMoved
<1>12. CASE SaveArrives
  <2>0. Is(up) /\ up.stage = "sent" /\ UNCHANGED <<tab, q, rot>>
    BY <1>12 DEF SaveArrives
  <2>1. IsOpen /\ q.running /\ up \in Upload
    BY <1>0, <2>0, UpAt DEF UpOK
  <2>2. up' = [up EXCEPT !.stage = IF Taken(up) THEN "accepted" ELSE "refused"]
    BY <1>12 DEF SaveArrives
  <2>3. /\ up' \in Upload /\ up'.ver = up.ver /\ up'.content = up.content /\ up'.key = up.key
        /\ up'.stage = IF Taken(up) THEN "accepted" ELSE "refused"
    BY <2>1, <2>2 DEF Upload
  <2>4. Taken(up) => LandsUp
    <3>1. Taken(up) => Lands(up)
      BY <1>12, <2>1, CommitAt DEF SaveArrives, Shapes, Upload
    <3> QED BY <2>0, <2>2, <3>1 DEF LandsUp
  <2>5. TabOK' /\ IsOpen'
    BY <1>0, <2>0, <2>1 DEF TabOK, IsOpen
  <2>6. UpOK' /\ Is(up')
    BY <2>0, <2>1, <2>3, <2>5, Absent DEF UpOK, Is
  <2> QED BY <2>0, <2>1, <2>3, <2>4, <2>5, <2>6 DEF Arrived, SameVault, TabMoved
<1>13. CASE SaveAccepted
  <2>0. Is(up) /\ up.stage = "accepted" /\ UNCHANGED <<tab, rot>>
    BY <1>13 DEF SaveAccepted
  <2>a. up \in Upload
    BY <1>0, <2>0, UpAt
  <2>b. IsOpen /\ q.running /\ q \in SaveQueue /\ tab \in Tab
    BY <1>0, <2>0, TabAt DEF UpOK
  <2>1. IsOpen /\ q.running /\ q \in SaveQueue /\ tab \in Tab /\ up.ver + 1 \in Nat
    BY <2>a, <2>b DEF Upload
  <2>2. CASE q.moved
    <3>1. q' = [q EXCEPT !.ver = up.ver + 1, !.moved = FALSE] /\ up' = [stage |-> "export"]
      BY <1>13, <2>2 DEF SaveAccepted
    <3>2. /\ q' \in SaveQueue /\ q'.ver = up.ver + 1 /\ q'.env = q.env /\ q'.ahead = q.ahead /\ q'.kind = q.kind
          /\ q'.running = q.running
      BY <2>1, <3>1 DEF SaveQueue
    <3>3. TabOK' /\ IsOpen'
      BY <1>0, <2>0, <2>1, <3>2, StillOpen DEF TabOK
    <3>4. up' \in Preparing /\ Is(up') /\ up'.stage = "export"
      BY <3>1, Absent DEF Preparing, Is
    <3> QED BY <2>0, <2>1, <3>2, <3>3, <3>4 DEF Again, SameVault, UpOK, TabMoved
  <2>3. CASE ~q.moved
    <3>1. q' = [q EXCEPT !.kind = "saved", !.ver = up.ver + 1, !.ahead = FALSE, !.running = FALSE] /\ up' = None
      BY <1>13, <2>3 DEF SaveAccepted
    <3>2. /\ q' \in SaveQueue /\ q'.ver = up.ver + 1 /\ q'.env = q.env /\ q'.ahead = FALSE /\ q'.kind = "saved"
          /\ q'.running = FALSE
      BY <2>1, <3>1 DEF SaveQueue
    <3>3. TabOK' /\ IsOpen'
      BY <2>0, <2>1, <3>2, StillOpen
    <3> QED BY <2>0, <2>1, <2>3, <3>1, <3>2, <3>3 DEF Acknowledged, SameVault, UpOK, Is, TabMoved
  <2> QED BY <2>2, <2>3
<1>14. CASE SaveRefused
  BY <1>14, FailsAt DEF SaveRefused, TabMoved
<1>15. CASE SaveLost
  BY <1>15, FailsAt DEF SaveLost, TabMoved
<1>16. CASE RotateStarts
  <2>1. IsOpen /\ q.kind = "saved" /\ ~Is(rot) /\ ~Is(opening) /\ UNCHANGED <<q, up, opening>>
    BY <1>16 DEF RotateStarts
  <2>2. tab \in Tab /\ q \in SaveQueue /\ srv.keys + 1 \in Nat /\ tab' = [tab EXCEPT !.exports = srv.keys + 1]
    BY <1>0, <1>16, <2>1, TabAt DEF RotateStarts, Shapes, ServerOK, Server
  <2>3. tab' \in Tab /\ tab'.content = tab.content /\ tab'.key = tab.key /\ tab'.exports = srv.keys + 1
    BY <2>2 DEF Tab
  <2>4. TabOK' /\ IsOpen'
    BY <1>0, <2>1, <2>2, <2>3, StillOpen DEF TabOK
  <2>5. Is(rot') /\ rot'.live = TRUE /\ rot'.key = srv.keys + 1
    BY <1>16 DEF RotateStarts, Is, None
  <2> QED BY <1>0, <2>1, <2>3, <2>4, <2>5 DEF Rekeying, UpOK, Is, TabMoved
<1>17. CASE RotateAnswered
  <2>1. Is(rot)
    BY <1>17 DEF RotateAnswered
  <2>2. CASE rot.stage = "accepted" /\ Rotated
    BY <2>1, <2>2, RotatedAt DEF TabMoved
  <2>3. CASE PutBack
    BY <2>1, <2>3, PutBackAt DEF TabMoved
  <2> QED BY <1>17, <2>2, <2>3 DEF RotateAnswered
<1>18. CASE RotateAsks
  <2>1. Is(rot) /\ rot.stage = "ask"
    BY <1>18 DEF RotateAsks
  <2>2. CASE srv.env = rot.key /\ srv.ver = rot.ver + 1 /\ Rotated
    BY <2>1, <2>2, RotatedAt DEF TabMoved
  <2>3. CASE PutBack
    BY <2>1, <2>3, PutBackAt DEF TabMoved
  <2>4. CASE Closes(TRUE)
    BY <1>b, <2>4 DEF Closes, TabMoved
  <2> QED BY <1>18, <2>2, <2>3, <2>4 DEF RotateAsks
<1>19. CASE OpenApplies
  <2>1. Is(opening) /\ opening.stage = "apply" /\ ~Is(opening') /\ rot' = rot /\ up' = None
    BY <1>19 DEF OpenApplies, Is
  <2>2. opening \in Opened
    BY <2>1, OpeningAt DEF Shapes
  <2>3. tab' = [content |-> opening.content, exports |-> opening.key, key |-> opening.key] /\ tab' \in Tab
    BY <1>19, <2>2 DEF OpenApplies, Opened, Tab
  <2>4. q' = [Queue(opening.ver, opening.env) EXCEPT
                !.ahead = opening.dirty, !.kind = IF opening.dirty THEN "failed" ELSE "saved"]
    BY <1>19 DEF OpenApplies
  <2>5. Queue(opening.ver, opening.env) \in SaveQueue /\ Queue(opening.ver, opening.env).ver = opening.ver
        /\ Queue(opening.ver, opening.env).env = opening.env /\ ~Queue(opening.ver, opening.env).running
    BY <2>2, QueueAt DEF Opened
  <2>6. opening.dirty \in BOOLEAN
    BY <2>2 DEF Opened
  <2>7. /\ q' \in SaveQueue /\ q'.ver = opening.ver /\ q'.env = opening.env /\ q'.ahead = opening.dirty
        /\ q'.kind = (IF opening.dirty THEN "failed" ELSE "saved") /\ ~q'.running
    BY <2>4, <2>5, <2>6 DEF SaveQueue
  <2>8. TabOK' /\ IsOpen'
    BY <2>3, <2>6, <2>7, StillOpen
  <2> QED BY <2>1, <2>3, <2>7, <2>8 DEF Applied, UpOK, Is, TabMoved
<1> QED
  BY <1>1, <1>2, <1>3, <1>4, <1>5, <1>6, <1>7, <1>8, <1>9, <1>10, <1>11, <1>12, <1>13, <1>14, <1>15, <1>16,
     <1>17, <1>18, <1>19, Zenon DEF Next, Saving, Rotating, TabMoved

(* -------------------------------------------- the rotation, lost requests --- *)

SameRot == Is(rot) /\ Is(rot') /\ rot'.ver = rot.ver /\ rot'.key = rot.key /\ rot'.content = rot.content
RotStarted ==
  /\ ~Is(rot) /\ Is(rot') /\ rot'.stage = "sent" /\ rot'.ver = q.ver /\ rot'.key = srv.keys + 1 /\ rot'.content = tab.content
  /\ rot'.live = TRUE /\ srv'.keys = srv.keys + 1 /\ tab'.exports = rot'.key /\ Rekeying /\ Quiet
  /\ UNCHANGED <<landed, agreed, stray, opening, draft, trust, made, dropped>>
RotAnswered ==
  /\ SameRot /\ rot'.live = rot.live /\ rot.stage = "sent"
  /\ rot'.stage = "refused" \/ (rot'.stage = "accepted" /\ LandsRot)
RotLost == SameRot /\ rot'.live = rot.live /\ rot'.stage = "ask" /\ UNCHANGED <<srv, landed, agreed>>
RotLeft == SameRot /\ rot'.live = FALSE /\ rot'.stage = rot.stage /\ ~IsOpen'
RotOver == ~Is(rot') /\ (~Live \/ ~IsOpen' \/ NewKey \/ OldKey)

RotMoved == rot' = rot \/ RotStarted \/ RotAnswered \/ RotLost \/ RotLeft \/ RotOver

LEMMA ClosesAt ==
  ASSUME Shapes, NEW gone \in BOOLEAN, Closes(gone)
  PROVE  RotOK' /\ ~IsOpen' /\ ~Is(opening') /\ ~Is(up') /\ (RotLeft \/ RotOver)
<1>1. ~IsOpen' /\ ~Is(opening') /\ ~Is(up')
  BY DEF Closes, IsOpen, Is
<1>2. CASE gone \/ ~Is(rot)
  <2>1. rot' = None
    BY <1>2 DEF Closes
  <2> QED BY <1>1, <2>1 DEF RotOK, RotOver, Is
<1>3. CASE ~gone /\ Is(rot)
  <2>1. rot' = [rot EXCEPT !.live = FALSE] /\ rot \in Rotation
    BY <1>3 DEF Closes, Shapes, RotOK, Is
  <2>2. /\ rot' \in Rotation /\ rot'.live = FALSE /\ rot'.stage = rot.stage /\ rot'.ver = rot.ver /\ rot'.key = rot.key
        /\ rot'.content = rot.content
    BY <2>1 DEF Rotation
  <2> QED BY <1>1, <1>3, <2>2, Absent DEF RotOK, RotLeft, SameRot, Is
<1> QED BY <1>1, <1>2, <1>3

LEMMA RotMoves == ASSUME Shapes, [Next]_vars PROVE RotOK' /\ RotMoved
<1>0. RotOK /\ (Is(rot) => rot \in Rotation)
  BY DEF Shapes, RotOK, Is
<1>a. ASSUME rot' = rot, IsOpen => IsOpen' PROVE RotOK' /\ RotMoved
  BY <1>0, <1>a DEF RotOK, RotMoved
<1>b. ASSUME RotOK', RotLeft \/ RotOver PROVE RotOK' /\ RotMoved
  BY <1>b DEF RotMoved
<1>1. CASE \/ OtherSession \/ OtherRotates \/ StrayArrives \/ SaveMetadata \/ SaveExports \/ SaveArrives \/ SaveAccepted
           \/ SaveRefused \/ SaveLost \/ TimerFires \/ UserSaves \/ KeyStored \/ OpenSettles \/ UNCHANGED vars
  <2>1. UNCHANGED <<rot, tab>>
    BY <1>1 DEF OtherSession, OtherRotates, StrayArrives, SaveMetadata, SaveExports, SaveArrives, SaveAccepted,
       SaveRefused, SaveLost, TimerFires, UserSaves, Saves, KeyStored, OpenSettles, vars
  <2> QED BY <1>a, <2>1 DEF IsOpen
<1>2. ASSUME NEW stored \in BOOLEAN, Seals(stored) PROVE RotOK' /\ RotMoved
  BY <1>a, <1>2 DEF Seals, IsOpen
<1>3. ASSUME NEW password \in BOOLEAN, OpenStarts(password) PROVE RotOK' /\ RotMoved
  BY <1>a, <1>3 DEF OpenStarts, IsOpen
<1>4. ASSUME NEW readable \in BOOLEAN, OpenFile(readable) PROVE RotOK' /\ RotMoved
  BY <1>a, <1>4 DEF OpenFile, IsOpen
<1>5. CASE LockVault \/ ForgetDevice \/ Refresh
  <2>1. \E gone \in BOOLEAN : Closes(gone)
    BY <1>5 DEF LockVault, ForgetDevice, Refresh
  <2> QED BY <1>b, <2>1, ClosesAt
<1>6. ASSUME NEW editing \in BOOLEAN, AutoLock(editing) PROVE RotOK' /\ RotMoved
  BY <1>b, <1>6, ClosesAt DEF AutoLock
<1>7. CASE Edit
  <2>1. rot' = rot /\ tab' = [tab EXCEPT !.content = @ \union {CHOOSE e \in MyEdits : e \notin made}] /\ IsOpen
    BY <1>7 DEF Edit
  <2>2. IsOpen'
    <3>1. tab \in Tab
      BY <2>1, TabAt DEF Shapes
    <3>2. tab'.exports = tab.exports /\ DOMAIN tab' = DOMAIN tab
      BY <2>1, <3>1 DEF Tab
    <3>3. DOMAIN tab = {"content", "exports", "key"} /\ DOMAIN None = {"none"}
      BY <3>1 DEF Tab, None
    <3> QED BY <3>2, <3>3 DEF IsOpen, Is
  <2> QED BY <1>a, <2>1, <2>2
<1>8. CASE OpenApplies
  <2>1. rot' = rot /\ tab' = [content |-> opening.content, exports |-> opening.key, key |-> opening.key]
    BY <1>8 DEF OpenApplies
  <2>2. IsOpen'
    BY <2>1 DEF IsOpen, Is, None
  <2> QED BY <1>a, <2>1, <2>2
<1>9. CASE RotateStarts
  <2>1. /\ IsOpen /\ ~Is(rot) /\ q.kind = "saved" /\ ~Is(opening) /\ srv' = [srv EXCEPT !.keys = srv.keys + 1]
        /\ rot' = [stage |-> "sent", ver |-> q.ver, key |-> srv.keys + 1, content |-> tab.content,
                   rotates |-> TRUE, live |-> TRUE]
        /\ tab' = [tab EXCEPT !.exports = srv.keys + 1]
        /\ UNCHANGED <<landed, agreed, stray, q, up, opening, draft, trust, made, dropped>>
    BY <1>9 DEF RotateStarts
  <2>2. tab \in Tab /\ q \in SaveQueue /\ srv \in Server
    BY <2>1, TabAt DEF Shapes, ServerOK
  <2>3. q.ver \in Nat /\ tab.content \in SUBSET All /\ srv.keys \in Nat
    BY <2>2 DEF SaveQueue, Tab, Server
  <2>4. srv.keys + 1 \in Nat
    BY <2>3
  <2>a. rot' \in Rotation
    BY <2>1, <2>3, <2>4 DEF Rotation
  <2>5. rot' \in Rotation /\ Is(rot')
    BY <2>a, Absent DEF Is
  <2>6. tab' \in Tab /\ tab'.content = tab.content /\ tab'.key = tab.key /\ tab'.exports = srv.keys + 1
    BY <2>1, <2>2, <2>4 DEF Tab
  <2>7. IsOpen'
    BY <2>6, Absent DEF IsOpen, Is
  <2>8. /\ srv'.ver = srv.ver /\ srv'.content = srv.content /\ srv'.file = srv.file /\ srv'.env = srv.env
        /\ srv'.keys = srv.keys + 1
    BY <2>1, <2>2 DEF Server
  <2>9. Quiet
    BY <2>1, <2>3, <2>8 DEF Quiet
  <2>10. /\ rot'.stage = "sent" /\ rot'.ver = q.ver /\ rot'.key = srv.keys + 1 /\ rot'.content = tab.content
         /\ rot'.live = TRUE
    BY <2>1
  <2>11. Rekeying
    BY <2>1, <2>5, <2>6, <2>7, <2>10 DEF Rekeying
  <2>12. RotStarted
    BY <2>1, <2>5, <2>6, <2>8, <2>9, <2>10, <2>11 DEF RotStarted
  <2> QED BY <2>5, <2>7, <2>12 DEF RotOK, RotMoved
<1>10. CASE RotateArrives \/ RotateLost
  <2>1. Is(rot) /\ rot \in Rotation /\ tab' = tab
    BY <1>0, <1>10 DEF RotateArrives, RotateLost
  <2>2. PICK s \in {"accepted", "refused", "ask"} : rot' = [rot EXCEPT !.stage = s]
        /\ (s = "ask" => UNCHANGED <<srv, landed, agreed>>)
        /\ (s # "ask" => rot.stage = "sent" /\ s = IF Taken(rot) THEN "accepted" ELSE "refused")
    BY <1>10 DEF RotateArrives, RotateLost
  <2>3. /\ rot' \in Rotation /\ rot'.stage = s /\ rot'.ver = rot.ver /\ rot'.key = rot.key
        /\ rot'.content = rot.content /\ rot'.live = rot.live
    BY <2>1, <2>2 DEF Rotation
  <2>4. SameRot
    BY <2>1, <2>3, Absent DEF SameRot, Is
  <2>5. s = "accepted" => LandsRot
    <3>1. s = "accepted" => RotateArrives /\ Taken(rot)
      BY <1>10, <2>1, <2>2, <2>3 DEF RotateLost, Rotation
    <3>2. rot.content \in SUBSET All /\ rot.key \in Nat /\ rot.rotates \in BOOLEAN /\ ServerOK
      BY <2>1 DEF Rotation, Shapes
    <3>3. s = "accepted" => Lands(rot)
      BY <3>1, <3>2, CommitAt DEF RotateArrives
    <3> QED BY <2>1, <2>2, <3>1, <3>3 DEF LandsRot, RotateArrives
  <2>6. RotOK'
    BY <1>0, <2>1, <2>3 DEF RotOK, IsOpen, Is
  <2> QED BY <2>2, <2>3, <2>4, <2>5, <2>6 DEF RotMoved, RotAnswered, RotLost
<1>11. CASE RotateAnswered \/ RotateAsks
  <2>1. Is(rot)
    BY <1>11 DEF RotateAnswered, RotateAsks
  <2>2. CASE /\ Rotated
             /\ rot.stage = "accepted" \/ (rot.stage = "ask" /\ srv.env = rot.key /\ srv.ver = rot.ver + 1)
    <3>1. rot' = None
      BY <2>2 DEF Rotated
    <3> QED BY <1>b, <2>1, <2>2, <3>1, RotatedAt DEF RotOver, RotOK, Is
  <2>3. CASE PutBack
    <3>1. rot' = None
      BY <2>3 DEF PutBack
    <3> QED BY <1>b, <2>1, <2>3, <3>1, PutBackAt DEF RotOver, RotOK, Is
  <2>4. CASE Closes(TRUE)
    BY <1>b, <2>4, ClosesAt
  <2> QED BY <1>11, <2>2, <2>3, <2>4 DEF RotateAnswered, RotateAsks
<1> QED
  BY <1>1, <1>2, <1>3, <1>4, <1>5, <1>6, <1>7, <1>8, <1>9, <1>10, <1>11, Zenon DEF Next, Saving, Rotating

\* A request is given up on when its save fails or the tab closes.
StrayMoved ==
  \A r \in stray' : \/ r \in stray
                    \/ r \in OnTheWire(up) /\ ~Is(up') /\ srv' = srv
                    \/ r \in OnTheWire(rot) /\ (~Is(rot') \/ rot'.stage = "ask") /\ srv' = srv

LEMMA StrayMoves == ASSUME Shapes, [Next]_vars PROVE StrayOK' /\ StrayMoved
<1>0. /\ StrayOK /\ RotOK
      /\ \A r \in OnTheWire(up) \union OnTheWire(rot) : r \in GivenUp
  BY OnTheWireAt DEF Shapes
<1> SUFFICES StrayMoved
  BY <1>0 DEF StrayOK, StrayMoved
<1>a. ASSUME stray' \subseteq stray PROVE StrayMoved
  BY <1>a DEF StrayMoved
<1>b. ASSUME NEW gone \in BOOLEAN, Closes(gone), srv' = srv PROVE StrayMoved
  BY <1>b DEF Closes, StrayMoved, Is
<1>1. CASE \/ OtherSession \/ OtherRotates \/ Edit \/ SaveMetadata \/ SaveExports \/ SaveArrives \/ SaveAccepted
           \/ SaveRefused \/ TimerFires \/ UserSaves \/ KeyStored \/ OpenSettles \/ RotateStarts \/ RotateArrives
           \/ RotateAnswered \/ UNCHANGED vars
  <2>1. stray' = stray
    BY <1>1 DEF OtherSession, OtherRotates, Edit, SaveMetadata, SaveExports, SaveArrives, SaveAccepted, SaveRefused,
       TimerFires, UserSaves, Saves, KeyStored, OpenSettles, RotateStarts, RotateArrives, RotateAnswered, vars
  <2> QED BY <1>a, <2>1
<1>2. CASE StrayArrives
  BY <1>a, <1>2 DEF StrayArrives
<1>3. CASE SaveLost
  BY <1>3 DEF SaveLost, SaveFails, StrayMoved, Is
<1>4. CASE RotateLost
  <2>1. rot \in Rotation /\ rot' = [rot EXCEPT !.stage = "ask"]
    BY <1>0, <1>4 DEF RotateLost, RotOK, Is
  <2>2. rot'.stage = "ask"
    BY <2>1 DEF Rotation
  <2> QED BY <1>4, <2>2 DEF RotateLost, StrayMoved
<1>5. CASE RotateAsks
  <2>1. stray' = stray \/ (Closes(TRUE) /\ srv' = srv)
    BY <1>5 DEF RotateAsks
  <2> QED BY <1>a, <1>b, <2>1
<1>6. CASE LockVault \/ ForgetDevice \/ Refresh
  <2>1. srv' = srv /\ \E gone \in BOOLEAN : Closes(gone)
    BY <1>6 DEF LockVault, ForgetDevice, Refresh
  <2> QED BY <1>b, <2>1
<1>7. ASSUME NEW editing \in BOOLEAN, AutoLock(editing) PROVE StrayMoved
  BY <1>b, <1>7 DEF AutoLock
<1>8. CASE OpenApplies
  BY <1>8 DEF OpenApplies, StrayMoved, Is
<1>9. ASSUME NEW stored \in BOOLEAN, Seals(stored) PROVE StrayMoved
  BY <1>a, <1>9 DEF Seals
<1>10. ASSUME NEW password \in BOOLEAN, OpenStarts(password) PROVE StrayMoved
  BY <1>a, <1>10 DEF OpenStarts
<1>11. ASSUME NEW readable \in BOOLEAN, OpenFile(readable) PROVE StrayMoved
  BY <1>a, <1>11 DEF OpenFile
<1> QED
  BY <1>1, <1>2, <1>3, <1>4, <1>5, <1>6, <1>7, <1>8, <1>9, <1>10, <1>11, Zenon DEF Next, Saving, Rotating

(* ----------------------------------------- unlocking, checkpoints, trust --- *)

Kept == {draft.sealing, draft.memory, draft.disk} \ {None}
Captured(d) == /\ IsOpen /\ ~IsOpen' /\ d.content = tab.content /\ d.ver = q.ver /\ d.key = tab.key
               /\ d.dirty = Dirty /\ Quiet
DraftFrom == \A d \in Kept' : d \in Kept \/ Captured(d)

AskedFor ==
  /\ ~Is(opening) /\ Is(opening') /\ opening'.stage = "file" /\ opening'.ver = srv.ver /\ opening'.env = srv.env
  /\ opening'.key = IF opening'.password THEN srv.env ELSE trust.key
  /\ ~opening'.password => trust.key # 0 /\ ~trust.locked /\ ("unread" \in Careful => ~Is(draft.disk))
  /\ IsOpen => ~opening'.password /\ q.kind \in {"conflict", "failed"}
  /\ ~Is(draft.sealing) /\ UNCHANGED <<srv, landed, agreed, stray, tab, q, up, rot, draft, trust, made, dropped>>
ReadIn ==
  /\ Is(opening) /\ opening.stage = "file" /\ Is(opening') /\ opening'.stage = "settle"
  /\ opening'.password = opening.password /\ opening'.env = opening.env /\ opening'.key = opening.key
  /\ \/ opening'.ver = opening.ver /\ opening'.content = srv.content /\ opening'.dirty = FALSE /\ srv.file = opening.key
     \/ \E d \in Kept : /\ opening'.ver = d.ver /\ opening'.content = d.content /\ opening'.dirty = d.dirty
                        /\ d.key = opening.key /\ d \in {draft.memory, draft.disk}
  /\ Quiet /\ UNCHANGED <<stray, tab, q, up, rot, made>>
Settled ==
  /\ Is(opening) /\ opening.stage = "settle" /\ Is(opening') /\ opening'.stage = "apply"
  /\ opening'.password = opening.password /\ opening'.env = opening.env /\ opening'.key = opening.key
  /\ opening'.ver = opening.ver /\ opening'.content = opening.content /\ opening'.dirty = opening.dirty
  /\ opening'.unread = opening.unread
OpeningMoved == opening' = opening \/ ~Is(opening') \/ AskedFor \/ ReadIn \/ Settled

Local(readable) == IF Is(draft.memory) THEN draft.memory ELSE IF readable THEN draft.disk ELSE None

LEMMA DraftAt ==
  ASSUME DraftOK
  PROVE  /\ draft.sealing \in Checkpoint \union {None} /\ draft.memory \in Checkpoint \union {None}
         /\ draft.disk \in Checkpoint \union {None} /\ draft.pending \in BOOLEAN
         /\ \A d \in Kept : d \in Checkpoint
         /\ \A d \in Checkpoint : /\ d.content \in SUBSET All /\ d.ver \in Nat /\ d.key \in Nat /\ d.dirty \in BOOLEAN
                                  /\ d.waits \in BOOLEAN /\ Is(d)
<1>1. /\ draft.sealing \in Checkpoint \union {None} /\ draft.memory \in Checkpoint \union {None}
      /\ draft.disk \in Checkpoint \union {None} /\ draft.pending \in BOOLEAN
  BY DEF DraftOK, Draft
<1>2. \A d \in Checkpoint : /\ d.content \in SUBSET All /\ d.ver \in Nat /\ d.key \in Nat /\ d.dirty \in BOOLEAN
                            /\ d.waits \in BOOLEAN
  BY DEF Checkpoint
<1>3. \A d \in Checkpoint : Is(d)
  BY Absent DEF Is
<1> QED BY <1>1, <1>2, <1>3 DEF Kept

\* What initVault has read: a checkpoint its key opens, or the server's copy.
LEMMA ReadAt ==
  ASSUME Shapes, NEW readable \in BOOLEAN, OpenFile(readable), Is(opening')
  PROVE  OpeningOK' /\ ReadIn
<1> DEFINE local == Local(readable)
           opens == Is(local) /\ local.key = opening.key
<1>1. Is(opening) /\ opening.stage = "file" /\ opening \in Asked
  BY OpeningAt DEF OpenFile, Shapes
<1>2. /\ opens \/ srv.file = opening.key
      /\ opening' = [stage |-> "settle", password |-> opening.password, env |-> opening.env, key |-> opening.key,
                     ver |-> IF opens THEN local.ver ELSE opening.ver,
                     content |-> IF opens THEN local.content ELSE srv.content,
                     dirty |-> opens /\ local.dirty, unread |-> ~Is(local) /\ Is(draft.disk)]
  BY DEF OpenFile, Local, Is
<1>3. UNCHANGED <<srv, landed, agreed, stray, tab, q, up, rot, made>>
  BY DEF OpenFile
<1>4. Is(local) => local \in Kept /\ local \in {draft.memory, draft.disk}
  BY DEF Local, Kept, Is
<1>5. opening.password \in BOOLEAN /\ opening.env \in Nat /\ opening.key \in Nat /\ opening.ver \in Nat
  BY <1>1 DEF Asked
<1>6. srv.content \in SUBSET All /\ srv.keys \in Nat
  BY DEF Shapes, ServerOK, Server
<1>7. opens => local.ver \in Nat /\ local.content \in SUBSET All /\ local.dirty \in BOOLEAN
  BY <1>4, DraftAt DEF Shapes
<1> HIDE DEF local
<1>8. (opens /\ local.dirty) \in BOOLEAN /\ (~Is(local) /\ Is(draft.disk)) \in BOOLEAN
  BY DEF Is
<1>9. opening' \in Opened
  BY <1>2, <1>5, <1>6, <1>7, <1>8 DEF Opened
<1>10. Quiet
  BY <1>3, <1>6 DEF Quiet
<1>11. /\ opening'.stage = "settle" /\ opening'.password = opening.password /\ opening'.env = opening.env
       /\ opening'.key = opening.key
       /\ opens => opening'.ver = local.ver /\ opening'.content = local.content /\ opening'.dirty = local.dirty
       /\ ~opens => opening'.ver = opening.ver /\ opening'.content = srv.content /\ opening'.dirty = FALSE
  BY <1>2, <1>7
<1> QED BY <1>1, <1>2, <1>3, <1>4, <1>9, <1>10, <1>11 DEF OpeningOK, ReadIn

LEMMA OpeningMoves == ASSUME Shapes, [Next]_vars PROVE OpeningOK' /\ OpeningMoved
<1>0. OpeningOK /\ ServerOK
  BY DEF Shapes
<1>a. ASSUME opening' = opening PROVE OpeningOK' /\ OpeningMoved
  BY <1>0, <1>a DEF OpeningOK, OpeningMoved
<1>b. ASSUME opening' = None PROVE OpeningOK' /\ OpeningMoved
  BY <1>b DEF OpeningOK, OpeningMoved, Is
<1>1. CASE \/ OtherSession \/ OtherRotates \/ StrayArrives \/ Edit \/ SaveMetadata \/ SaveExports \/ SaveArrives
           \/ SaveAccepted \/ SaveRefused \/ SaveLost \/ TimerFires \/ UserSaves \/ KeyStored \/ RotateStarts
           \/ RotateArrives \/ RotateAnswered \/ RotateLost \/ UNCHANGED vars
  <2>1. opening' = opening
    BY <1>1 DEF OtherSession, OtherRotates, StrayArrives, Edit, SaveMetadata, SaveExports, SaveArrives, SaveAccepted,
       SaveRefused, SaveLost, TimerFires, UserSaves, Saves, KeyStored, RotateStarts, RotateArrives, RotateAnswered,
       RotateLost, vars
  <2> QED BY <1>a, <2>1
<1>2. CASE RotateAsks
  <2>1. opening' = opening \/ opening' = None
    BY <1>2 DEF RotateAsks, Closes
  <2> QED BY <1>a, <1>b, <2>1
<1>3. CASE LockVault \/ ForgetDevice \/ Refresh \/ OpenApplies
  <2>1. opening' = None
    BY <1>3 DEF LockVault, ForgetDevice, Refresh, Closes, OpenApplies
  <2> QED BY <1>b, <2>1
<1>4. ASSUME NEW editing \in BOOLEAN, AutoLock(editing) PROVE OpeningOK' /\ OpeningMoved
  BY <1>b, <1>4 DEF AutoLock, Closes
<1>5. ASSUME NEW stored \in BOOLEAN, Seals(stored) PROVE OpeningOK' /\ OpeningMoved
  BY <1>a, <1>5 DEF Seals
<1>6. ASSUME NEW readable \in BOOLEAN, OpenFile(readable) PROVE OpeningOK' /\ OpeningMoved
  <2>1. CASE Is(opening')
    BY <1>6, <2>1, ReadAt DEF OpeningMoved
  <2>2. CASE ~Is(opening')
    BY <1>b, <2>2 DEF Is
  <2> QED BY <2>1, <2>2
<1>7. ASSUME NEW password \in BOOLEAN, OpenStarts(password) PROVE OpeningOK' /\ OpeningMoved
  <2>1. opening' = [stage |-> "file", password |-> password, ver |-> srv.ver, env |-> srv.env,
                    key |-> IF password THEN srv.env ELSE trust.key]
    BY <1>7 DEF OpenStarts
  <2>2. srv.ver \in Nat /\ srv.env \in Nat /\ trust.key \in Nat
    BY <1>0 DEF ServerOK, Server, Shapes, TrustOK, Trust
  <2>3. opening' \in Asked
    BY <2>1, <2>2 DEF Asked
  <2>4. Is(opening')
    BY <2>3, Absent DEF Is
  <2>5. AskedFor
    BY <1>7, <2>1, <2>4 DEF AskedFor, OpenStarts
  <2> QED BY <2>3, <2>5 DEF OpeningOK, OpeningMoved
<1>8. CASE OpenSettles
  <2>1. opening' = [opening EXCEPT !.stage = "apply"] /\ Is(opening) /\ opening.stage = "settle"
    BY <1>8 DEF OpenSettles
  <2>2. opening \in Opened
    BY <1>0, <2>1, OpeningAt
  <2>3. /\ opening' \in Opened /\ opening'.stage = "apply"
        /\ opening'.password = opening.password /\ opening'.env = opening.env /\ opening'.key = opening.key
        /\ opening'.ver = opening.ver /\ opening'.content = opening.content /\ opening'.dirty = opening.dirty
        /\ opening'.unread = opening.unread
    BY <2>1, <2>2 DEF Opened
  <2> QED BY <2>1, <2>3, Absent DEF OpeningOK, OpeningMoved, Settled, Is
<1> QED BY <1>1, <1>2, <1>3, <1>4, <1>5, <1>6, <1>7, <1>8, Zenon DEF Next, Saving, Rotating

\* A step keeps the checkpoints there are, or some, or captures the open vault.
LEMMA DraftMoves == ASSUME Shapes, [Next]_vars PROVE DraftOK' /\ DraftFrom
<1>0. DraftOK /\ draft \in Draft
  BY DEF Shapes, DraftOK
<1>a. ASSUME draft' = draft PROVE DraftOK' /\ DraftFrom
  BY <1>0, <1>a DEF DraftOK, DraftFrom, Kept
<1>b. ASSUME NEW s \in {draft.sealing, draft.memory, draft.disk, None}, NEW m \in {draft.sealing, draft.memory, draft.disk, None},
             NEW d \in {draft.sealing, draft.memory, draft.disk, None}, NEW p \in BOOLEAN,
             draft' = [sealing |-> s, memory |-> m, disk |-> d, pending |-> p]
      PROVE  DraftOK' /\ DraftFrom
  <2>1. {s, m, d} \subseteq Checkpoint \union {None}
    BY <1>0, DraftAt
  <2>2. draft' \in Draft
    BY <1>b, <2>1 DEF Draft
  <2>3. draft'.sealing = s /\ draft'.memory = m /\ draft'.disk = d
    BY <1>b
  <2> QED BY <2>2, <2>3 DEF DraftOK, DraftFrom, Kept
<1>c. /\ DOMAIN draft = {"sealing", "memory", "disk", "pending"} /\ draft.pending \in BOOLEAN
      /\ draft = [sealing |-> draft.sealing, memory |-> draft.memory, disk |-> draft.disk, pending |-> draft.pending]
  BY <1>0 DEF Draft
<1>1. CASE \/ OtherSession \/ OtherRotates \/ StrayArrives \/ Edit \/ SaveMetadata \/ SaveExports \/ SaveArrives
           \/ SaveAccepted \/ SaveRefused \/ SaveLost \/ TimerFires \/ UserSaves \/ KeyStored \/ RotateStarts
           \/ RotateArrives \/ RotateAnswered \/ RotateLost \/ RotateAsks \/ LockVault \/ UNCHANGED vars
  <2>1. draft' = draft
    BY <1>1 DEF OtherSession, OtherRotates, StrayArrives, Edit, SaveMetadata, SaveExports, SaveArrives, SaveAccepted,
       SaveRefused, SaveLost, TimerFires, UserSaves, Saves, KeyStored, RotateStarts, RotateArrives, RotateAnswered,
       RotateLost, RotateAsks, LockVault, vars
  <2> QED BY <1>a, <2>1
<1>2. CASE ForgetDevice
  <2>1. draft' = [sealing |-> draft.sealing, memory |-> None, disk |-> None, pending |-> draft.pending]
    BY <1>c, <1>2 DEF ForgetDevice
  <2> QED BY <1>b, <1>c, <2>1
<1>3. CASE Refresh
  <2>1. draft' = [sealing |-> None, memory |-> None, disk |-> draft.disk, pending |-> FALSE]
    BY <1>c, <1>3 DEF Refresh
  <2> QED BY <1>b, <2>1
<1>4. CASE OpenApplies
  <2>0. opening \in Opened
    BY <1>4, OpeningAt DEF OpenApplies, Shapes
  <2>1. opening.unread \in BOOLEAN
    BY <2>0 DEF Opened
  <2>2. draft' = [sealing |-> draft.sealing, memory |-> None, disk |-> draft.disk, pending |-> opening.unread]
    BY <1>c, <1>4 DEF OpenApplies
  <2> QED BY <1>b, <2>1, <2>2
<1>5. CASE OpenSettles
  <2>1. \/ draft' = draft
        \/ draft' = [sealing |-> draft.sealing, memory |-> draft.memory, disk |-> None, pending |-> TRUE]
    BY <1>c, <1>5 DEF OpenSettles
  <2> QED BY <1>a, <1>b, <2>1
<1>6. ASSUME NEW stored \in BOOLEAN, Seals(stored) PROVE DraftOK' /\ DraftFrom
  <2>1. draft' = [sealing |-> None, memory |-> draft.sealing,
                  disk |-> IF stored THEN draft.sealing ELSE draft.disk, pending |-> ~stored]
    BY <1>6 DEF Seals
  <2>2. (IF stored THEN draft.sealing ELSE draft.disk) \in {draft.sealing, draft.memory, draft.disk, None}
        /\ (~stored) \in BOOLEAN
    OBVIOUS
  <2> QED BY <1>b, <2>1, <2>2
<1>7. ASSUME NEW password \in BOOLEAN, OpenStarts(password) PROVE DraftOK' /\ DraftFrom
  BY <1>a, <1>7 DEF OpenStarts
<1>8. ASSUME NEW readable \in BOOLEAN, OpenFile(readable) PROVE DraftOK' /\ DraftFrom
  <2>1. \/ draft' = draft
        \/ draft' = [draft EXCEPT !.disk = None]
        \/ draft' = [draft EXCEPT !.disk = None, !.memory = None]
        \/ draft' = [draft EXCEPT !.memory = Local(readable)]
    BY <1>8 DEF OpenFile, Local
  <2>2. Local(readable) \in {draft.sealing, draft.memory, draft.disk, None}
    BY DEF Local
  <2>3. \/ draft' = draft
        \/ draft' = [sealing |-> draft.sealing, memory |-> draft.memory, disk |-> None, pending |-> draft.pending]
        \/ draft' = [sealing |-> draft.sealing, memory |-> None, disk |-> None, pending |-> draft.pending]
        \/ draft' = [sealing |-> draft.sealing, memory |-> Local(readable), disk |-> draft.disk, pending |-> draft.pending]
    BY <1>c, <2>1
  <2> QED BY <1>a, <1>b, <1>c, <2>2, <2>3
<1>9. ASSUME NEW editing \in BOOLEAN, AutoLock(editing) PROVE DraftOK' /\ DraftFrom
  <2>1. CASE Dirty \/ editing
    <3> DEFINE new == [content |-> tab.content, ver |-> q.ver, dirty |-> Dirty, key |-> tab.key,
                       waits |-> Is(rot) /\ rot.live]
    <3>1. draft' = [sealing |-> new, memory |-> draft.memory, disk |-> None, pending |-> TRUE]
      BY <1>c, <1>9, <2>1 DEF AutoLock
    <3>2. IsOpen /\ tab \in Tab /\ q \in SaveQueue
      BY <1>9, TabAt DEF AutoLock, Shapes
    <3>a. tab.content \in SUBSET All /\ tab.key \in Nat /\ q.ver \in Nat
      BY <3>2 DEF Tab, SaveQueue
    <3>b. Dirty \in BOOLEAN /\ (Is(rot) /\ rot.live) \in BOOLEAN
      BY DEF Dirty, Is, IsOpen
    <3>3. new \in Checkpoint
      BY <3>a, <3>b DEF Checkpoint
    <3>4. draft' \in Draft
      BY <1>0, <3>1, <3>3, DraftAt DEF Draft
    <3>5. ~IsOpen' /\ Quiet
      <4>1. UNCHANGED <<srv, landed, agreed>> /\ tab' = None /\ srv.keys \in Nat
        BY <1>9 DEF AutoLock, Closes, Shapes, ServerOK, Server
      <4> QED BY <4>1 DEF Quiet, IsOpen, Is
    <3>6. Captured(new)
      BY <3>2, <3>5 DEF Captured
    <3> HIDE DEF new
    <3>7. \A d \in Kept' : d = new \/ d \in Kept
      BY <3>1 DEF Kept
    <3> QED BY <3>4, <3>6, <3>7 DEF DraftOK, DraftFrom
  <2>2. CASE ~(Dirty \/ editing)
    <3>1. draft' = [sealing |-> draft.sealing, memory |-> None, disk |-> draft.disk, pending |-> FALSE]
      BY <1>c, <1>9, <2>2 DEF AutoLock
    <3> QED BY <1>b, <3>1
  <2> QED BY <2>1, <2>2
<1> QED BY <1>1, <1>2, <1>3, <1>4, <1>5, <1>6, <1>7, <1>8, <1>9, Zenon DEF Next, Saving, Rotating

Storing(key) == Is(trust.storing) /\ trust.storing.key = key
TrustFrom ==
  /\ trust'.key \in {0, trust.key} \/ Storing(trust'.key)
  /\ Is(trust'.storing) => \/ Storing(trust'.storing.key)
                           \/ NewKey /\ trust'.storing.key = rot.key
                           \/ Is(opening) /\ trust'.storing.key = opening.key

LEMMA TrustAt ==
  ASSUME TrustOK
  PROVE  /\ trust \in Trust /\ trust.key \in Nat /\ trust.locked \in BOOLEAN /\ trust.wiped \in BOOLEAN
         /\ Is(trust.storing) => /\ trust.storing \in [key : Nat, live : BOOLEAN]
                                 /\ trust.storing.key \in Nat /\ trust.storing.live \in BOOLEAN
         /\ trust.storing \in [key : Nat, live : BOOLEAN] \union {None}
BY DEF TrustOK, Trust, Is

\* A key on its way into the cache, and none.
LEMMA StoringAt ==
  /\ \A k \in Nat, b \in BOOLEAN : /\ [key |-> k, live |-> b] \in [key : Nat, live : BOOLEAN]
                                   /\ Is([key |-> k, live |-> b]) /\ [key |-> k, live |-> b].key = k
  /\ ~Is(None)
BY DEF Is, None

LEMMA TrustStep ==
  ASSUME TrustOK, NEW k \in Nat, NEW l \in BOOLEAN, NEW s \in [key : Nat, live : BOOLEAN] \union {None},
         NEW w \in BOOLEAN, trust' = [key |-> k, locked |-> l, storing |-> s, wiped |-> w],
         k \in {0, trust.key} \/ Storing(k),
         Is(s) => \/ Storing(s.key) \/ (NewKey /\ s.key = rot.key) \/ (Is(opening) /\ s.key = opening.key),
         NothingLeftBehind => (w /\ ~Is(s) => k = 0)
  PROVE  TrustOK' /\ TrustFrom /\ (NothingLeftBehind => NothingLeftBehind')
<1>1. trust' \in Trust
  BY DEF Trust
<1>2. trust'.key = k /\ trust'.storing = s /\ trust'.wiped = w
  OBVIOUS
<1> QED BY <1>1, <1>2 DEF TrustOK, TrustFrom, NothingLeftBehind

LEMMA UntrustedAt ==
  ASSUME TrustOK, NEW wiped \in BOOLEAN, trust' = Untrusted(trust, wiped)
  PROVE  TrustOK' /\ TrustFrom /\ (NothingLeftBehind => NothingLeftBehind')
<1> DEFINE k == IF wiped THEN 0 ELSE trust.key
           s == IF Is(trust.storing) THEN [trust.storing EXCEPT !.live = FALSE] ELSE trust.storing
<1>1. trust' = [key |-> k, locked |-> TRUE, storing |-> s, wiped |-> wiped]
  BY TrustAt DEF Untrusted, Trust
<1>2. k \in Nat /\ k \in {0, trust.key} /\ (wiped => k = 0)
  BY TrustAt
<1>3. /\ s \in [key : Nat, live : BOOLEAN] \union {None}
      /\ Is(s) => Storing(s.key)
  <2>1. CASE Is(trust.storing)
    <3>1. trust.storing \in [key : Nat, live : BOOLEAN] /\ s = [trust.storing EXCEPT !.live = FALSE]
      BY <2>1, TrustAt
    <3>2. s \in [key : Nat, live : BOOLEAN] /\ s.key = trust.storing.key
      BY <3>1
    <3> QED BY <2>1, <3>2 DEF Storing
  <2>2. CASE ~Is(trust.storing)
    BY <2>2, TrustAt
  <2> QED BY <2>1, <2>2
<1> HIDE DEF k, s
<1> QED BY <1>1, <1>2, <1>3, TrustStep

\* What the device trusts is a key it already did, one being written, the key of a
\* rotation that went through or the one the unlock has; and NothingLeftBehind is kept.
LEMMA TrustMoves ==
  ASSUME Shapes, [Next]_vars PROVE TrustOK' /\ TrustFrom /\ (NothingLeftBehind => NothingLeftBehind')
<1> DEFINE Goal == TrustOK' /\ TrustFrom /\ (NothingLeftBehind => NothingLeftBehind')
<1>0. TrustOK
  BY DEF Shapes
<1>a. ASSUME trust' = trust PROVE Goal
  BY <1>0, <1>a DEF TrustOK, TrustFrom, NothingLeftBehind, Storing
<1>b. ASSUME NEW wiped \in BOOLEAN, trust' = Untrusted(trust, wiped) PROVE Goal
  BY <1>0, <1>b, UntrustedAt
<1>c. trust = [key |-> trust.key, locked |-> trust.locked, storing |-> trust.storing, wiped |-> trust.wiped]
      /\ DOMAIN trust = {"key", "locked", "storing", "wiped"}
  BY <1>0 DEF TrustOK, Trust
<1> HIDE DEF Goal
<1>d. ASSUME trust' = [trust EXCEPT !.key = 0] PROVE Goal
  <2>1. trust' = [key |-> 0, locked |-> trust.locked, storing |-> trust.storing, wiped |-> trust.wiped]
    BY <1>c, <1>d
  <2> QED BY <1>0, <2>1, TrustAt, TrustStep DEF Goal, Storing
<1>e. ASSUME Is(rot), Rotated,
             rot.stage = "accepted" \/ (rot.stage = "ask" /\ srv.env = rot.key /\ srv.ver = rot.ver + 1)
      PROVE  Goal
  <2>1. CASE ~rot.live
    BY <1>d, <1>e, <2>1 DEF Rotated
  <2>2. CASE rot.live
    <3>1. NewKey
      <4>1. Live
        BY <1>e, <2>2 DEF Live
      <4> QED BY <1>e, <4>1, RotatedAt
    <3>2. rot \in Rotation
      BY <1>e DEF Shapes, RotOK, Is
    <3>3. rot.key \in Nat
      BY <3>2 DEF Rotation
    <3>4. trust' = [key |-> 0, locked |-> trust.locked, storing |-> [key |-> rot.key, live |-> TRUE], wiped |-> trust.wiped]
      BY <1>c, <1>e, <2>2 DEF Rotated
    <3> QED BY <1>0, <3>1, <3>3, <3>4, TrustAt, StoringAt, TrustStep DEF Goal
  <2> QED BY <2>1, <2>2
<1>1. CASE \/ OtherSession \/ OtherRotates \/ StrayArrives \/ Edit \/ SaveMetadata \/ SaveExports \/ SaveArrives
           \/ SaveAccepted \/ SaveRefused \/ SaveLost \/ TimerFires \/ UserSaves \/ RotateStarts
           \/ RotateArrives \/ RotateLost \/ OpenSettles \/ UNCHANGED vars
  <2>1. trust' = trust
    BY <1>1 DEF OtherSession, OtherRotates, StrayArrives, Edit, SaveMetadata, SaveExports, SaveArrives, SaveAccepted,
       SaveRefused, SaveLost, TimerFires, UserSaves, Saves, RotateStarts, RotateArrives, RotateLost, OpenSettles, vars
  <2> QED BY <1>a, <2>1 DEF Goal
<1>2. CASE LockVault \/ ForgetDevice
  BY <1>b, <1>2 DEF LockVault, ForgetDevice, Goal
<1>3. ASSUME NEW editing \in BOOLEAN, AutoLock(editing) PROVE Goal
  BY <1>b, <1>3 DEF AutoLock, Goal
<1>4. ASSUME NEW stored \in BOOLEAN, Seals(stored) PROVE Goal
  BY <1>a, <1>4 DEF Seals, Goal
<1>5. ASSUME NEW password \in BOOLEAN, OpenStarts(password) PROVE Goal
  BY <1>a, <1>5 DEF OpenStarts, Goal
<1>6. ASSUME NEW readable \in BOOLEAN, OpenFile(readable) PROVE Goal
  <2>1. \/ trust' = trust
        \/ trust' = [trust EXCEPT !.key = 0]
        \/ trust' = [trust EXCEPT !.storing = [key |-> opening.key, live |-> TRUE]]
    BY <1>6 DEF OpenFile
  <2>2. CASE trust' = [trust EXCEPT !.storing = [key |-> opening.key, live |-> TRUE]]
    <3>1. trust' = [key |-> trust.key, locked |-> trust.locked, storing |-> [key |-> opening.key, live |-> TRUE],
                    wiped |-> trust.wiped]
      BY <1>c, <2>2
    <3>2. Is(opening) /\ opening \in Asked
      BY <1>6, OpeningAt DEF OpenFile, Shapes
    <3>3. opening.key \in Nat
      BY <3>2 DEF Asked
    <3> DEFINE s == [key |-> opening.key, live |-> TRUE]
    <3>4. s \in [key : Nat, live : BOOLEAN] \union {None} /\ Is(s) /\ s.key = opening.key
      BY <3>3, StoringAt
    <3> HIDE DEF s
    <3>5. trust' = [key |-> trust.key, locked |-> trust.locked, storing |-> s, wiped |-> trust.wiped]
      BY <3>1 DEF s
    <3> QED BY <1>0, <3>2, <3>4, <3>5, TrustAt, TrustStep DEF Goal
  <2> QED BY <1>a, <1>d, <2>1, <2>2 DEF Goal
<1>7. CASE RotateAnswered
  <2>1. Is(rot)
    BY <1>7 DEF RotateAnswered
  <2>2. (rot.stage = "accepted" /\ Rotated) \/ trust' = trust
    BY <1>7 DEF RotateAnswered, PutBack
  <2> QED BY <1>a, <1>e, <2>1, <2>2 DEF Goal
<1>8. CASE RotateAsks
  <2>1. Is(rot) /\ rot.stage = "ask"
    BY <1>8 DEF RotateAsks
  <2>2. (srv.env = rot.key /\ srv.ver = rot.ver + 1 /\ Rotated) \/ trust' = trust \/ trust' = Untrusted(trust, TRUE)
    BY <1>8 DEF RotateAsks, PutBack
  <2> QED BY <1>a, <1>b, <1>e, <2>1, <2>2 DEF Goal
<1>9. CASE Refresh
  <2>1. CASE ~Is(trust.storing)
    BY <1>a, <1>9, <2>1 DEF Refresh, Goal
  <2>2. CASE Is(trust.storing)
    <3>1. trust' = [key |-> trust.storing.key, locked |-> trust.locked, storing |-> None, wiped |-> FALSE]
      BY <1>c, <1>9, <2>2 DEF Refresh
    <3> QED BY <1>0, <2>2, <3>1, TrustAt, StoringAt, TrustStep DEF Goal, Storing
  <2> QED BY <2>1, <2>2
<1>10. CASE KeyStored
  <2>0. Is(trust.storing)
    BY <1>10 DEF KeyStored
  <2>1. CASE trust.storing.live
    <3>1. trust' = [key |-> trust.storing.key, locked |-> trust.locked, storing |-> None, wiped |-> FALSE]
      BY <1>c, <1>10, <2>1 DEF KeyStored
    <3> QED BY <1>0, <2>0, <3>1, TrustAt, StoringAt, TrustStep DEF Goal, Storing
  <2>2. CASE ~trust.storing.live
    <3>1. trust' = [key |-> 0, locked |-> trust.locked, storing |-> None, wiped |-> trust.wiped]
      BY <1>c, <1>10, <2>2 DEF KeyStored
    <3> QED BY <1>0, <2>0, <3>1, TrustAt, StoringAt, TrustStep DEF Goal
  <2> QED BY <2>1, <2>2
<1>11. CASE OpenApplies
  <2>1. CASE ~opening.password
    BY <1>a, <1>11, <2>1 DEF OpenApplies, Goal
  <2>2. CASE opening.password
    <3>1. trust' = [key |-> trust.key, locked |-> FALSE, storing |-> trust.storing, wiped |-> trust.wiped]
      BY <1>c, <1>11, <2>2 DEF OpenApplies
    <3> QED BY <1>0, <3>1, TrustAt, TrustStep DEF Goal, Storing, NothingLeftBehind
  <2> QED BY <2>1, <2>2
<1> QED
  BY <1>1, <1>2, <1>3, <1>4, <1>5, <1>6, <1>7, <1>8, <1>9, <1>10, <1>11, Zenon DEF Next, Saving, Rotating, Goal

\* Edits are only made in the open vault; what is dropped was there to drop.
LEMMA EditsMove == ASSUME Shapes, [Next]_vars PROVE EditsOK' /\ dropped \subseteq dropped' /\ made \subseteq made' /\ (made' = made \/ Edited)
<1>0. /\ EditsOK /\ InTab \subseteq All
      /\ \A c \in {draft.sealing, draft.memory, draft.disk} : Is(c) => c.content \subseteq All
  <2>1. IsOpen => tab.content \subseteq All
    BY TabAt DEF Shapes, Tab
  <2> QED BY <2>1, DraftAt DEF Shapes, InTab, Kept, Is
<1>a. ASSUME made' = made, dropped' = dropped PROVE EditsOK' /\ dropped \subseteq dropped' /\ made' = made
  BY <1>0, <1>a DEF EditsOK
<1>b. ASSUME made' = made, NEW edits \in SUBSET All, Drops(edits) PROVE EditsOK' /\ dropped \subseteq dropped' /\ made' = made
  BY <1>0, <1>b DEF EditsOK, Drops
<1>c. \A x, y \in {draft.sealing, draft.memory, draft.disk} : In({x, y}) \subseteq All
  BY <1>0 DEF In, Is
<1> DEFINE Goal == EditsOK' /\ dropped \subseteq dropped' /\ made' = made
<1>1. CASE \/ OtherSession \/ OtherRotates \/ StrayArrives \/ SaveMetadata \/ SaveExports \/ SaveArrives
           \/ SaveAccepted \/ SaveRefused \/ SaveLost \/ TimerFires \/ UserSaves \/ RotateStarts \/ RotateAnswered
           \/ RotateArrives \/ RotateLost \/ KeyStored \/ OpenSettles \/ UNCHANGED vars
  <2>1. UNCHANGED <<made, dropped>>
    BY <1>1 DEF OtherSession, OtherRotates, StrayArrives, SaveMetadata, SaveExports, SaveArrives, SaveAccepted,
       SaveRefused, SaveLost, TimerFires, UserSaves, Saves, RotateStarts, RotateAnswered, RotateArrives, RotateLost,
       KeyStored, OpenSettles, vars
  <2> QED BY <1>a, <2>1
<1>2. CASE Edit
  <2>1. Edited
    BY <1>2, EditAt
  <2>2. PICK e \in MyEdits : made' = made \union {e} /\ dropped' = dropped
    BY <2>1 DEF Edited
  <2> QED BY <1>0, <2>1, <2>2 DEF EditsOK
<1>3. CASE RotateAsks
  BY <1>0, <1>3, <1>a, <1>b DEF RotateAsks
<1>4. CASE LockVault
  <2>1. (IF Dirty THEN InTab ELSE {}) \in SUBSET All
    BY <1>0
  <2> QED BY <1>4, <1>b, <2>1 DEF LockVault
<1>5. CASE ForgetDevice
  <2>1. (InTab \union In({draft.memory, draft.disk})) \in SUBSET All
    BY <1>0, <1>c
  <2> QED BY <1>5, <1>b, <2>1 DEF ForgetDevice
<1>6. CASE Refresh
  <2>1. (IF Unsaved THEN InTab \union In({draft.memory, draft.sealing}) ELSE {}) \in SUBSET All
    BY <1>0, <1>c
  <2> QED BY <1>6, <1>b, <2>1 DEF Refresh
<1>7. CASE OpenApplies
  BY <1>0, <1>7, <1>b DEF OpenApplies
<1>8. ASSUME NEW editing \in BOOLEAN, AutoLock(editing) PROVE Goal
  BY <1>8, <1>a DEF AutoLock
<1>9. ASSUME NEW stored \in BOOLEAN, Seals(stored) PROVE Goal
  BY <1>9, <1>a DEF Seals
<1>10. ASSUME NEW password \in BOOLEAN, OpenStarts(password) PROVE Goal
  BY <1>10, <1>a DEF OpenStarts
<1>11. ASSUME NEW readable \in BOOLEAN, OpenFile(readable) PROVE Goal
  <2>1. \A d \in {draft.sealing, draft.memory, draft.disk, None} : Is(d) => d.content \subseteq All
    BY <1>0 DEF Is
  <2>2. PICK e \in SUBSET All : Drops(e) /\ made' = made
    <3>1. made' = made
      BY <1>11 DEF OpenFile
    <3>2. Local(readable) \in {draft.sealing, draft.memory, draft.disk, None}
      BY DEF Local
    <3>3. Drops(IF Is(Local(readable)) /\ ~(Is(Local(readable)) /\ Local(readable).key = opening.key)
                  THEN Local(readable).content ELSE {})
      BY <1>11 DEF OpenFile, Local
    <3> QED BY <2>1, <3>1, <3>2, <3>3
  <2> QED BY <1>b, <2>2
<1> QED
  BY <1>1, <1>2, <1>3, <1>4, <1>5, <1>6, <1>7, <1>8, <1>9, <1>10, <1>11, Zenon DEF Next, Saving, Rotating

\* Together they make up the type of every variable.
LEMMA ShapesStep == ASSUME Shapes, [Next]_vars PROVE Shapes'
BY ServerMoves, TabMoves, RotMoves, StrayMoves, OpeningMoves, DraftMoves, TrustMoves, EditsMove DEF Shapes

LEMMA ShapesInit == ASSUME Init PROVE Shapes
<1>1. srv = [ver |-> 1, content |-> {}, file |-> 1, env |-> 1, keys |-> 1] /\ srv \in Server
  BY DEF Init, Server
<1>2. draft \in Draft /\ trust \in Trust
  BY DEF Init, Draft, Trust
<1> QED
  BY <1>1, <1>2 DEF Init, Shapes, ServerOK, TabOK, EditsOK, UpOK, RotOK, StrayOK, OpeningOK, DraftOK, TrustOK, IsOpen, Is

(* -------------------------------------------------- what each copy may do --- *)

\* A copy based on a version: an older one, or one that holds all the version has.
Current(ver, content) == ver <= srv.ver /\ (ver = srv.ver => agreed \/ srv.content \subseteq content)
CurrentThen(ver, content) == ver <= srv'.ver /\ (ver = srv'.ver => agreed' \/ srv'.content \subseteq content)

\* The key something wraps, holds or will be opened with.
InUse(k) == \/ k = srv.env
            \/ k = trust.key /\ k # 0
            \/ IsOpen /\ (k = tab.key \/ k = q.env)
            \/ Storing(k)
            \/ Is(opening) /\ (k = opening.key \/ k = opening.env)
            \/ \E d \in Kept : k = d.key

Sent == Is(up) /\ up.stage \in {"sent", "accepted"}

\* A rotation waits for the queue and the queue for the rotation; nothing unlocks meanwhile.
Alone == Live => /\ ~Is(opening) /\ q.kind \in {"saved", "saving"}
                 /\ Is(up) => up.stage = "export"

\* A key is drawn once, in order.
Drawn == /\ \A k : InUse(k) => k <= srv.keys
         /\ Is(rot) => rot.key <= srv.keys
         /\ \A r \in stray : r.rotates = TRUE => r.key <= srv.keys

\* A rotation the server has not answered is the only thing that knows its key.
Pending ==
  /\ Is(rot) /\ rot.stage = "sent" => ~InUse(rot.key)
  /\ \A r \in stray : r.rotates = TRUE /\ r.ver = srv.ver => ~InUse(r.key)
  /\ Is(rot) => \A r \in stray : r.rotates = TRUE /\ r.key = rot.key =>
        rot.stage = "ask" /\ r.ver = rot.ver /\ r.content = rot.content

Copies ==
  /\ IsOpen => Current(q.ver, tab.content)
  /\ Sent => up.content \subseteq tab.content /\ Current(IF up.stage = "sent" THEN up.ver ELSE up.ver + 1, up.content)
  /\ Is(rot) => /\ rot.stage = "sent" => Current(rot.ver, rot.content)
                /\ rot.stage = "accepted" \/ srv.env = rot.key => Current(rot.ver + 1, rot.content)
                /\ rot.live => rot.content \subseteq tab.content
  /\ \A r \in stray : Current(r.ver, r.content)
  /\ \A d \in Kept : Current(d.ver, d.content)
  /\ Is(opening) => IF opening.stage = "file" THEN opening.ver <= srv.ver ELSE Current(opening.ver, opening.content)

LEMMA Facts ==
  ASSUME Shapes
  PROVE  /\ srv.ver \in Nat /\ srv.keys \in Nat /\ srv.env \in Nat /\ srv.file \in Nat /\ agreed \in BOOLEAN
         /\ IsOpen => q.ver \in Nat /\ q.env \in Nat /\ tab.key \in Nat /\ tab.exports \in Nat
         /\ Is(up) => IsOpen /\ q.running /\ q.kind = "saving"
         /\ Sent => up.ver \in Nat /\ up.key \in Nat /\ up.rotates = FALSE
         /\ Is(rot) => rot.ver \in Nat /\ rot.key \in Nat /\ rot.rotates = TRUE /\ rot.live \in BOOLEAN
         /\ \A r \in stray : r.ver \in Nat /\ r.key \in Nat /\ r.rotates \in BOOLEAN
         /\ Is(opening) => opening.ver \in Nat /\ opening.env \in Nat /\ opening.key \in Nat
         /\ \A d \in Kept : d.ver \in Nat /\ d.key \in Nat /\ d.dirty \in BOOLEAN
         /\ Live => IsOpen
<1>1. srv.ver \in Nat /\ srv.keys \in Nat /\ srv.env \in Nat /\ srv.file \in Nat /\ agreed \in BOOLEAN
  BY DEF Shapes, ServerOK, Server
<1>2. IsOpen => tab \in Tab /\ q \in SaveQueue
  BY TabAt DEF Shapes
<1>3. Sent => up \in Upload
  BY UpAt DEF Shapes, Sent
<1>4. Is(rot) => rot \in Rotation
  BY DEF Shapes, RotOK, Is
<1>5. \A r \in stray : r \in GivenUp
  BY DEF Shapes, StrayOK
<1>6. Is(opening) => opening \in Asked \union Opened
  BY DEF Shapes, OpeningOK, Is
<1>7. \A d \in Kept : d.ver \in Nat /\ d.key \in Nat /\ d.dirty \in BOOLEAN
  BY DraftAt DEF Shapes
<1>8. IsOpen => q.ver \in Nat /\ q.env \in Nat /\ tab.key \in Nat /\ tab.exports \in Nat
  BY <1>2 DEF Tab, SaveQueue
<1>9. Sent => up.ver \in Nat /\ up.key \in Nat /\ up.rotates = FALSE
  BY <1>3 DEF Upload
<1>10. Is(rot) => rot.ver \in Nat /\ rot.key \in Nat /\ rot.rotates = TRUE /\ rot.live \in BOOLEAN
  BY <1>4 DEF Rotation
<1>11. \A r \in stray : r.ver \in Nat /\ r.key \in Nat /\ r.rotates \in BOOLEAN
  BY <1>5 DEF GivenUp
<1>12. Is(opening) => opening.ver \in Nat /\ opening.env \in Nat /\ opening.key \in Nat
  BY <1>6 DEF Asked, Opened
<1>13. (Is(up) => IsOpen /\ q.running /\ q.kind = "saving") /\ (Live => IsOpen)
  BY DEF Shapes, UpOK, TabOK, RotOK, Live
<1> QED BY <1>1, <1>7, <1>8, <1>9, <1>10, <1>11, <1>12, <1>13

\* The server's version grows by one or stays, and where its key comes from.
StrayTaken == \E r \in stray : /\ r.rotates = TRUE /\ r.ver = srv.ver /\ srv'.env = r.key /\ srv'.ver = r.ver + 1
                               /\ srv'.content = r.content
LEMMA ServerSteps ==
  ASSUME Shapes, [Next]_vars
  PROVE  /\ srv'.ver \in Nat /\ srv'.keys \in Nat /\ srv'.keys >= srv.keys
         /\ (srv'.ver = srv.ver /\ Quiet) \/ srv'.ver = srv.ver + 1
         /\ srv'.env = srv.env \/ LandsRot \/ StrayTaken \/ Rekeyed
         /\ LandsRot => srv'.env = rot.key /\ srv'.ver = rot.ver + 1 /\ srv'.content = rot.content
         /\ \A v \in Nat : \A c : Current(v, c) => CurrentThen(v, c)
<1>1. srv'.ver \in Nat /\ srv'.keys \in Nat
  BY ServerMoves DEF ServerOK, Server
<1>2. LandsRot => /\ srv'.env = rot.key /\ srv'.ver = rot.ver + 1 /\ srv'.content = rot.content /\ srv'.ver = srv.ver + 1
                  /\ srv'.keys = srv.keys
  BY Facts DEF LandsRot, Lands, Taken
<1>3. LandsUp => srv'.env = srv.env /\ srv'.ver = srv.ver + 1 /\ srv'.keys = srv.keys
  BY Facts DEF LandsUp, Lands, Taken, Sent
<1>4. LandsStray => srv'.ver = srv.ver + 1 /\ (srv'.env = srv.env \/ StrayTaken) /\ srv'.keys = srv.keys
  BY Facts DEF LandsStray, Lands, Taken, StrayTaken
<1>5. srv'.keys >= srv.keys /\ ((srv'.ver = srv.ver /\ Quiet) \/ srv'.ver = srv.ver + 1)
  <2>1. srv.keys \in Nat
    BY Facts
  <2>2. Extended \/ Rekeyed => srv'.ver = srv.ver + 1 /\ srv'.keys >= srv.keys
    BY <2>1 DEF Extended, Rekeyed
  <2>3. Quiet => srv'.ver = srv.ver /\ srv'.keys >= srv.keys
    BY DEF Quiet
  <2>4. LandsUp \/ LandsRot \/ LandsStray => srv'.ver = srv.ver + 1 /\ srv'.keys >= srv.keys
    BY <1>2, <1>3, <1>4, <2>1
  <2> QED BY <2>2, <2>3, <2>4, ServerMoves
<1>6. srv'.env = srv.env \/ LandsRot \/ StrayTaken \/ Rekeyed
  BY <1>3, <1>4, ServerMoves DEF Extended, Quiet
<1>7. \A v \in Nat : \A c : Current(v, c) => CurrentThen(v, c)
  BY <1>5, Facts DEF Current, CurrentThen, Quiet
<1> QED BY <1>1, <1>2, <1>5, <1>6, <1>7

\* A step brings no key into use but the one the server is put under and the one a
\* rotation that went through has drawn.
LEMMA InUseMoves ==
  ASSUME Shapes, [Next]_vars, NEW k, InUse(k)'
  PROVE  InUse(k) \/ k = srv'.env \/ (NewKey /\ k = rot.key)
<1>1. CASE k = srv'.env
  BY <1>1
<1>2. CASE k = trust'.key /\ k # 0
  BY <1>2, TrustMoves DEF TrustFrom, InUse
<1>3. CASE IsOpen' /\ (k = tab'.key \/ k = q'.env)
  <2>1. (tab'.key = tab.key /\ q'.env = q.env /\ IsOpen) \/ NewKey \/ Applied
    BY <1>3, TabMoves DEF TabMoved, Untouched, Closed, Edited, Begun, Failed, Reread, Exported, Arrived, Again,
       Acknowledged, Rekeying, OldKey, SameVault, IsOpen
  <2> QED BY <1>3, <2>1 DEF NewKey, Applied, InUse
<1>4. CASE Is(trust'.storing) /\ k = trust'.storing.key
  BY <1>4, TrustMoves DEF TrustFrom, InUse
<1>5. CASE Is(opening') /\ (k = opening'.key \/ k = opening'.env)
  BY <1>5, OpeningMoves DEF OpeningMoved, AskedFor, ReadIn, Settled, InUse
<1>6. CASE \E d \in Kept' : k = d.key
  BY <1>6, DraftMoves DEF DraftFrom, Captured, InUse
<1> QED BY <1>1, <1>2, <1>3, <1>4, <1>5, <1>6 DEF InUse, Storing

LEMMA AloneStep == ASSUME Shapes, Alone, [Next]_vars PROVE Alone'
<1> SUFFICES ASSUME Live' PROVE (~Is(opening') /\ q'.kind \in {"saved", "saving"}) /\ (Is(up') => up'.stage = "export")
  BY DEF Alone
<1>1. Live \/ RotStarted
  BY RotMoves DEF RotMoved, RotAnswered, RotLost, RotLeft, RotOver, Live, SameRot
<1>2. IsOpen' /\ TabMoved
  BY TabMoves, RotMoves DEF RotOK, Live
<1>3. CASE RotStarted
  BY <1>3, Facts DEF RotStarted, Rekeying
<1>4. CASE Live
  <2>1. ~Is(opening) /\ q.kind \in {"saved", "saving"} /\ (Is(up) => up.stage = "export") /\ IsOpen
    BY <1>4, Facts DEF Alone
  <2>2. ~Is(opening')
    BY <2>1, OpeningMoves DEF OpeningMoved, AskedFor, ReadIn, Settled
  <2>3. q'.kind \in {"saved", "saving"} /\ (Is(up') => up'.stage = "export")
    BY <1>2, <2>1, <1>4 DEF TabMoved, Untouched, Closed, Edited, Begun, Failed, Reread, Exported, Arrived, Again,
       Acknowledged, Rekeying, OldKey, NewKey, Applied, SameVault, Live
  <2> QED BY <2>2, <2>3
<1> QED BY <1>1, <1>3, <1>4

LEMMA DrawnStep == ASSUME Shapes, Drawn, [Next]_vars PROVE Drawn'
<1>0. srv'.keys >= srv.keys /\ srv'.keys \in Nat /\ srv.keys \in Nat
  BY ServerSteps, Facts
<1>a. /\ Is(rot) => rot.key \in Nat /\ rot.key <= srv.keys
      /\ \A r \in stray : r.key \in Nat /\ (r.rotates = TRUE => r.key <= srv.keys)
  BY Facts DEF Drawn
<1>b. \A k : InUse(k) => k \in Nat /\ k <= srv.keys
  <2>1. \A k : InUse(k) => k \in Nat
    BY Facts, TrustAt DEF InUse, Shapes, Storing
  <2> QED BY <2>1 DEF Drawn
<1>1. srv'.env \in Nat /\ srv'.env <= srv'.keys
  <2>1. srv.env \in Nat /\ srv.env <= srv.keys
    BY <1>b DEF InUse
  <2>2. LandsRot => srv'.env = rot.key /\ Is(rot)
    BY ServerSteps DEF LandsRot
  <2>3. StrayTaken => \E r \in stray : r.rotates = TRUE /\ srv'.env = r.key
    BY DEF StrayTaken
  <2>4. Rekeyed => srv'.env = srv'.keys
    BY DEF Rekeyed
  <2>5. srv'.env = srv.env \/ LandsRot \/ StrayTaken \/ Rekeyed
    BY ServerSteps
  <2> QED BY <1>0, <1>a, <2>1, <2>2, <2>3, <2>4, <2>5
<1>2. ASSUME NEW k, InUse(k)' PROVE k <= srv'.keys
  <2>1. InUse(k) \/ k = srv'.env \/ (Is(rot) /\ k = rot.key)
    BY <1>2, InUseMoves DEF NewKey, Live
  <2> QED BY <1>0, <1>1, <1>a, <1>b, <2>1
<1>3. Is(rot') => rot'.key <= srv'.keys
  <2>1. ASSUME Is(rot') PROVE (Is(rot) /\ rot'.key = rot.key) \/ (rot'.key = srv.keys + 1 /\ srv'.keys = srv.keys + 1)
    BY <2>1, RotMoves DEF RotMoved, RotAnswered, RotLost, RotLeft, RotOver, SameRot, RotStarted
  <2> QED BY <1>0, <1>a, <2>1
<1>4. ASSUME NEW r \in stray', r.rotates = TRUE PROVE r.key <= srv'.keys
  <2>1. r \in stray \/ r \in OnTheWire(up) \/ r \in OnTheWire(rot)
    BY StrayMoves DEF StrayMoved
  <2>2. r \in OnTheWire(rot) => Is(rot) /\ r.key = rot.key
    BY OnTheWireAt DEF Shapes
  <2>3. r \notin OnTheWire(up)
    BY <1>4, OnTheWireAt DEF Shapes
  <2> QED BY <1>0, <1>4, <1>a, <2>1, <2>2, <2>3
<1> QED BY <1>2, <1>3, <1>4 DEF Drawn

LEMMA PendingStep == ASSUME Shapes, Drawn, Pending, Copies, [Next]_vars PROVE Pending'
<1>a. srv.ver \in Nat /\ srv.keys \in Nat /\ (\A r \in stray : r.ver \in Nat) /\ (Is(rot) => rot.ver \in Nat)
  BY Facts
<1>b. /\ \A k : InUse(k) => k <= srv.keys
      /\ Is(rot) => rot.key <= srv.keys
      /\ \A r \in stray : r.rotates = TRUE => r.key <= srv.keys
  BY DEF Drawn
<1>c. \A r \in stray : r.ver <= srv.ver
  BY DEF Copies, Current
<1>d. InUse(srv.env)
  BY DEF InUse
<1>1. ASSUME Is(rot'), rot'.stage = "sent", NEW k, k = rot'.key, InUse(k)' PROVE FALSE
  <2>1. (SameRot /\ rot.stage = "sent" /\ ~LandsRot) \/ RotStarted
    <3>1. rot' = rot => ~LandsRot
      <4>1. Is(rot) => rot \in Rotation
        BY DEF Shapes, RotOK, Is
      <4>2. LandsRot => rot'.stage = "accepted"
        BY <4>1 DEF LandsRot, Rotation
      <4> QED BY <1>1, <4>2
    <3>2. RotLeft => ~LandsRot
      <4>1. Is(rot) => rot \in Rotation
        BY DEF Shapes, RotOK, Is
      <4>2. LandsRot => rot'.stage = "accepted"
        BY <4>1 DEF LandsRot, Rotation
      <4> QED BY <1>1, <4>2 DEF RotLeft
    <3> QED BY <1>1, <3>1, <3>2, RotMoves DEF RotMoved, RotAnswered, RotLost, RotLeft, RotOver, SameRot
  <2>2. InUse(k) \/ k = srv'.env
    BY <1>1, InUseMoves DEF NewKey
  <2>3. CASE SameRot /\ rot.stage = "sent" /\ ~LandsRot
    <3>1. k = rot.key /\ ~InUse(rot.key) /\ Is(rot)
      BY <1>1, <2>3 DEF SameRot, Pending
    <3>2. srv'.env = rot.key
      BY <2>2, <3>1
    <3>3. CASE StrayTaken
      BY <2>3, <3>1, <3>2, <3>3 DEF StrayTaken, Pending
    <3>4. CASE Rekeyed
      BY <1>a, <1>b, <3>1, <3>2, <3>4 DEF Rekeyed
    <3> QED BY <1>d, <2>3, <3>1, <3>2, <3>3, <3>4, ServerSteps
  <2>4. CASE RotStarted
    <3>1. k = srv.keys + 1 /\ srv'.env = srv.env
      BY <1>1, <2>4 DEF RotStarted, Quiet
    <3> QED BY <1>a, <1>b, <1>d, <2>2, <3>1
  <2> QED BY <2>1, <2>3, <2>4
<1>2. ASSUME NEW r \in stray', r.rotates = TRUE, r.ver = srv'.ver, InUse(r.key)' PROVE FALSE
  <2>1. InUse(r.key) \/ r.key = srv'.env \/ (NewKey /\ r.key = rot.key)
    BY <1>2, InUseMoves
  <2>2. r \notin OnTheWire(up)
    BY <1>2, OnTheWireAt DEF Shapes
  <2>3. CASE r \in stray
    <3>1. Quiet /\ srv'.ver = srv.ver
      BY <1>2, <1>a, <1>c, <2>3, ServerSteps
    <3>2. ~InUse(r.key) /\ srv'.env = srv.env
      BY <1>2, <2>3, <3>1 DEF Pending, Quiet
    <3>3. NewKey /\ r.key = rot.key
      BY <1>d, <2>1, <3>2
    <3>4. rot.stage = "ask" /\ r.ver = rot.ver
      BY <1>2, <2>3, <3>3 DEF Pending, NewKey, Live
    <3> QED BY <1>2, <1>a, <2>3, <3>1, <3>3, <3>4 DEF NewKey, Live
  <2>4. CASE r \in OnTheWire(rot) /\ srv' = srv
    <3>1. Is(rot) /\ rot.stage = "sent" /\ r.key = rot.key
      BY <2>4, OnTheWireAt DEF Shapes
    <3> QED BY <1>d, <2>1, <2>4, <3>1 DEF Pending, NewKey
  <2> QED BY <2>2, <2>3, <2>4, StrayMoves DEF StrayMoved
<1>3. ASSUME Is(rot'), NEW r \in stray', r.rotates = TRUE, r.key = rot'.key
      PROVE  rot'.stage = "ask" /\ r.ver = rot'.ver /\ r.content = rot'.content
  <2>1. r \notin OnTheWire(up)
    BY <1>3, OnTheWireAt DEF Shapes
  <2>2. r \in OnTheWire(rot) => (Is(rot) /\ rot.stage = "sent" /\ r.ver = rot.ver /\ r.content = rot.content /\ rot'.stage = "ask") \/ r \in stray
    BY <1>3, OnTheWireAt, StrayMoves DEF Shapes, StrayMoved
  <2>3. CASE r \in stray
    <3>1. Is(rot) /\ r.key = rot.key => rot.stage = "ask" /\ r.ver = rot.ver /\ r.content = rot.content
      BY <1>3, <2>3 DEF Pending
    <3>2. RotStarted => r.key = srv.keys + 1
      BY <1>3 DEF RotStarted
    <3>3. ~RotStarted
      BY <1>3, <1>a, <1>b, <2>3, <3>2
    <3> QED BY <1>3, <3>1, <3>3, RotMoves DEF RotMoved, RotAnswered, RotLost, RotLeft, RotOver, SameRot
  <2>4. CASE r \notin stray
    <3>1. /\ r \in OnTheWire(rot) /\ Is(rot) /\ rot.stage = "sent" /\ r.ver = rot.ver /\ r.content = rot.content
          /\ rot'.stage = "ask"
      BY <2>1, <2>2, <2>4, StrayMoves DEF StrayMoved
    <3>2. SameRot
      BY <1>3, <3>1, RotMoves DEF RotMoved, RotStarted, RotAnswered, RotLost, RotLeft, RotOver, SameRot
    <3> QED BY <3>1, <3>2 DEF SameRot
  <2> QED BY <2>3, <2>4
<1>4. (Is(rot) /\ rot.stage = "sent" => ~InUse(rot.key))'
  <2>1. \A k : k = rot'.key => (Is(rot') /\ rot'.stage = "sent" => ~InUse(k)')
    BY <1>1
  <2> QED BY <2>1 DEF InUse
<1> QED BY <1>2, <1>3, <1>4 DEF Pending

LEMMA CopiesStep == ASSUME Shapes, Alone, Drawn, Pending, Copies, [Next]_vars PROVE Copies'
<1>a. \A v \in Nat : \A c : Current(v, c) => CurrentThen(v, c)
  BY ServerSteps
<1>b. \A v, c, d : CurrentThen(v, c) /\ c \subseteq d => CurrentThen(v, d)
  BY DEF CurrentThen
<1>c. srv.ver \in Nat /\ srv'.ver \in Nat /\ (srv'.ver = srv.ver \/ srv'.ver = srv.ver + 1)
  BY ServerSteps, Facts
<1>d. IsOpen => q.ver \in Nat /\ CurrentThen(q.ver, tab.content)
  BY <1>a, Facts DEF Copies
<1>e. Sent => /\ up.ver \in Nat /\ up.content \subseteq tab.content
              /\ CurrentThen(IF up.stage = "sent" THEN up.ver ELSE up.ver + 1, up.content)
  BY <1>a, Facts DEF Copies
<1>f. Is(opening) => /\ opening.stage = "file" => opening.ver <= srv'.ver /\ opening.ver <= srv.ver /\ opening.ver \in Nat
                     /\ opening.stage # "file" => CurrentThen(opening.ver, opening.content)
  <2>1. Is(opening) => opening.ver \in Nat
    BY Facts
  <2> QED BY <1>a, <1>c, <2>1 DEF Copies
<1>g. \A d \in Kept : CurrentThen(d.ver, d.content)
  BY <1>a, Facts DEF Copies
<1>h. Is(rot) => /\ rot.ver \in Nat
                 /\ rot.stage = "sent" => CurrentThen(rot.ver, rot.content)
                 /\ rot.stage = "accepted" \/ srv.env = rot.key => CurrentThen(rot.ver + 1, rot.content)
                 /\ rot.live = TRUE => rot.content \subseteq tab.content
  <2>1. Is(rot) => rot.ver \in Nat /\ rot.ver + 1 \in Nat
    BY Facts
  <2> QED BY <1>a, <2>1 DEF Copies
<1>i. LandsRot => CurrentThen(rot.ver + 1, rot.content)
  BY <1>c, ServerSteps DEF CurrentThen
<1>1. ASSUME IsOpen' PROVE CurrentThen(q'.ver, tab'.content)
  <2>1. CASE Untouched \/ Begun \/ Failed \/ Exported \/ Arrived \/ Rekeying \/ OldKey \/ Edited
    <3>1. IsOpen /\ q'.ver = q.ver /\ tab.content \subseteq tab'.content
      BY <1>1, <2>1 DEF Untouched, Begun, Failed, Exported, Arrived, Rekeying, OldKey, Edited, SameVault, IsOpen
    <3> QED BY <1>b, <1>d, <3>1
  <2>2. CASE Reread
    BY <1>c, <2>2 DEF Reread, CurrentThen
  <2>3. CASE Again \/ Acknowledged
    <3>1. Sent /\ up.stage = "accepted" /\ q'.ver = up.ver + 1 /\ tab' = tab
      BY <2>3 DEF Again, Acknowledged, SameVault, Sent
    <3> QED BY <1>b, <1>e, <3>1
  <2>4. CASE NewKey
    <3>1. Is(rot) /\ rot.live = TRUE /\ q'.ver = rot.ver + 1 /\ tab'.content = tab.content
          /\ (rot.stage = "accepted" \/ srv.env = rot.key)
      BY <2>4, Facts DEF NewKey, Live
    <3> QED BY <1>b, <1>h, <3>1
  <2>5. CASE Applied
    <3>1. Is(opening) /\ opening.stage = "apply" /\ q'.ver = opening.ver /\ tab'.content = opening.content
      BY <2>5 DEF Applied
    <3> QED BY <1>f, <3>1
  <2> QED BY <1>1, <2>1, <2>2, <2>3, <2>4, <2>5, TabMoves DEF TabMoved, Closed
<1>2. ASSUME Sent'
      PROVE  up'.content \subseteq tab'.content /\ CurrentThen(IF up'.stage = "sent" THEN up'.ver ELSE up'.ver + 1, up'.content)
  <2>1. CASE Untouched \/ Rekeying \/ OldKey \/ Edited
    <3>1. up' = up /\ tab.content \subseteq tab'.content /\ Sent
      BY <1>2, <2>1 DEF Untouched, Rekeying, OldKey, Edited, Sent
    <3> QED BY <1>e, <3>1
  <2>2. CASE Exported
    BY <1>d, <2>2 DEF Exported, SameVault
  <2>3. CASE Arrived
    <3>1. /\ Sent /\ up.stage = "sent" /\ LandsUp /\ up'.ver = up.ver /\ up'.content = up.content /\ tab' = tab
          /\ up'.stage = "accepted"
      BY <1>2, <2>3 DEF Arrived, Sent, SameVault
    <3>2. srv'.ver = up.ver + 1 /\ srv'.content = up.content
      BY <3>1 DEF LandsUp, Lands, Taken
    <3> QED BY <1>c, <1>e, <3>1, <3>2 DEF CurrentThen
  <2> QED BY <1>2, <2>1, <2>2, <2>3, TabMoves
      DEF TabMoved, Closed, Begun, Failed, Reread, Again, Acknowledged, NewKey, Applied, Sent
<1>3. ASSUME Is(rot') PROVE rot'.live = TRUE => rot'.content \subseteq tab'.content
  <2>1. CASE rot' = rot \/ RotAnswered \/ RotLost
    <3>1. Is(rot) /\ rot'.live = rot.live /\ rot'.content = rot.content
      BY <1>3, <2>1 DEF RotAnswered, RotLost, SameRot
    <3>2. CASE rot.live = TRUE
      <4>1. Live /\ ~Is(opening) /\ IsOpen'
        BY <1>3, <3>1, <3>2, RotMoves DEF Live, Alone, RotOK
      <4>2. tab.content \subseteq tab'.content
        BY <1>3, <4>1, TabMoves DEF TabMoved, Untouched, Closed, Edited, Begun, Failed, Reread, Exported, Arrived,
           Again, Acknowledged, Rekeying, OldKey, NewKey, Applied, SameVault
      <4> QED BY <1>h, <3>1, <3>2, <4>2
    <3> QED BY <3>1, <3>2
  <2>2. CASE RotStarted
    BY <2>2 DEF RotStarted, Rekeying
  <2> QED BY <1>3, <2>1, <2>2, RotMoves DEF RotMoved, RotLeft, RotOver
<1>4. ASSUME Is(rot'), rot'.stage = "sent" PROVE CurrentThen(rot'.ver, rot'.content)
  <2>1. CASE rot' = rot \/ RotLeft
    BY <1>4, <1>h, <2>1 DEF RotLeft, SameRot
  <2>2. CASE RotStarted
    <3>1. IsOpen /\ rot'.ver = q.ver /\ rot'.content = tab.content
      BY <2>2 DEF RotStarted, Rekeying
    <3> QED BY <1>d, <3>1
  <2> QED BY <1>4, <2>1, <2>2, RotMoves DEF RotMoved, RotAnswered, RotLost, RotOver
<1>5. ASSUME Is(rot'), rot'.stage = "accepted" PROVE CurrentThen(rot'.ver + 1, rot'.content)
  <2>1. CASE rot' = rot \/ RotLeft
    BY <1>5, <1>h, <2>1 DEF RotLeft, SameRot
  <2>2. CASE RotAnswered
    BY <1>5, <1>i, <2>2 DEF RotAnswered, SameRot
  <2> QED BY <1>5, <2>1, <2>2, RotMoves DEF RotMoved, RotStarted, RotLost, RotOver
<1>6. ASSUME Is(rot'), srv'.env = rot'.key PROVE CurrentThen(rot'.ver + 1, rot'.content)
  <2>1. ~RotStarted
    <3>1. RotStarted => rot'.key = srv.keys + 1 /\ srv'.env = srv.env
      BY DEF RotStarted, Quiet
    <3>2. srv.env <= srv.keys /\ srv.env \in Nat /\ srv.keys \in Nat
      BY Facts DEF Drawn, InUse
    <3> QED BY <1>6, <3>1, <3>2
  <2>2. Is(rot) /\ rot'.ver = rot.ver /\ rot'.key = rot.key /\ rot'.content = rot.content
    BY <1>6, <2>1, RotMoves DEF RotMoved, RotAnswered, RotLost, RotLeft, RotOver, SameRot
  <2>3. CASE srv'.env = srv.env
    BY <1>6, <1>h, <2>2, <2>3
  <2>4. CASE LandsRot
    BY <1>i, <2>2, <2>4
  <2>5. CASE StrayTaken
    <3>1. PICK r \in stray : /\ r.rotates = TRUE /\ r.ver = srv.ver /\ srv'.env = r.key /\ srv'.ver = r.ver + 1
                             /\ srv'.content = r.content
      BY <2>5 DEF StrayTaken
    <3>2. r.ver = rot.ver /\ r.content = rot.content
      BY <1>6, <2>2, <3>1 DEF Pending
    <3> QED BY <1>c, <2>2, <3>1, <3>2 DEF CurrentThen
  <2>6. CASE Rekeyed
    <3>1. rot.key <= srv.keys /\ rot.key \in Nat /\ srv.keys \in Nat
      BY <2>2, Facts DEF Drawn
    <3> QED BY <1>6, <2>2, <2>6, <3>1 DEF Rekeyed
  <2> QED BY <2>3, <2>4, <2>5, <2>6, ServerSteps
<1>7. ASSUME NEW r \in stray' PROVE CurrentThen(r.ver, r.content)
  <2>1. CASE r \in stray
    BY <1>a, <2>1, Facts DEF Copies
  <2>2. CASE r \in OnTheWire(up)
    BY <1>e, <2>2, OnTheWireAt DEF Shapes, Sent
  <2>3. CASE r \in OnTheWire(rot)
    BY <1>h, <2>3, OnTheWireAt DEF Shapes
  <2> QED BY <2>1, <2>2, <2>3, StrayMoves DEF StrayMoved
<1>8. ASSUME NEW d \in Kept' PROVE CurrentThen(d.ver, d.content)
  BY <1>d, <1>g, DraftMoves DEF DraftFrom, Captured
<1>9. ASSUME Is(opening')
      PROVE  IF opening'.stage = "file" THEN opening'.ver <= srv'.ver ELSE CurrentThen(opening'.ver, opening'.content)
  <2>1. CASE opening' = opening \/ Settled
    BY <1>9, <1>f, <2>1 DEF Settled
  <2>2. CASE AskedFor
    BY <1>c, <2>2 DEF AskedFor
  <2>3. CASE ReadIn
    <3>1. opening'.stage = "settle"
      BY <2>3 DEF ReadIn
    <3>2. ASSUME opening'.ver = opening.ver, opening'.content = srv.content PROVE CurrentThen(opening'.ver, opening'.content)
      BY <1>f, <2>3, <3>2 DEF ReadIn, CurrentThen, Quiet
    <3> QED BY <1>g, <2>3, <3>1, <3>2 DEF ReadIn
  <2> QED BY <1>9, <2>1, <2>2, <2>3, OpeningMoves DEF OpeningMoved
<1> QED BY <1>1, <1>2, <1>3, <1>4, <1>5, <1>6, <1>7, <1>8, <1>9 DEF Copies, Current, CurrentThen

\* What holds in every state, and every step keeps.
Based == Shapes /\ Alone /\ Drawn /\ Pending /\ Copies

LEMMA BasedInit == ASSUME Init PROVE Based
<1>1. /\ srv = [ver |-> 1, content |-> {}, file |-> 1, env |-> 1, keys |-> 1] /\ stray = {}
      /\ ~IsOpen /\ ~Is(up) /\ ~Is(rot) /\ ~Is(opening) /\ ~Is(trust.storing) /\ trust.key = 0 /\ Kept = {}
  BY DEF Init, IsOpen, Is, Kept
<1> QED BY <1>1, ShapesInit DEF Based, Alone, Drawn, Pending, Copies, InUse, Storing, Live, Sent

LEMMA BasedStep == ASSUME Based, [Next]_vars PROVE Based'
BY ShapesStep, AloneStep, DrawnStep, PendingStep, CopiesStep DEF Based

\* Of every behaviour, whatever the user does: each variable has its type, and each
\* copy of the vault is older than the server's or holds all the server's does.
THEOREM CopiesHold == Spec => [](Shapes /\ Copies)
<1>1. Init => Based
  BY BasedInit
<1>2. Based /\ [Next]_vars => Based'
  BY BasedStep
<1>3. Based => Shapes /\ Copies
  BY DEF Based
<1> QED BY <1>1, <1>2, <1>3, PTL DEF Spec

\* A step takes the register's step, or none of it: only the server's copy counts.
LEMMA RegisterStep == ASSUME Based, Based', [Next]_vars PROVE [Register!Next]_(Register!rvars)
<1>a. srv.ver \in Nat /\ srv.content \subseteq All /\ agreed \in BOOLEAN /\ srv'.content \subseteq All /\ agreed' \in BOOLEAN
  BY DEF Based, Shapes, ServerOK, Server
<1>1. CASE Quiet
  BY <1>a, <1>1 DEF Quiet, Register!Next, Register!Agree, Register!rvars
<1>2. CASE Extended \/ Rekeyed
  <2>1. srv'.ver = srv.ver + 1 /\ srv.content \subseteq srv'.content /\ agreed' = FALSE
    BY <1>2 DEF Extended, Rekeyed
  <2> QED BY <1>a, <2>1 DEF Register!Next, Register!Extend, All
<1>3. ASSUME NEW r, Current(r.ver, r.content), Lands(r) PROVE Register!Next
  <2>1. srv'.ver = srv.ver + 1 /\ srv'.content = r.content /\ agreed' = FALSE /\ (agreed \/ srv.content \subseteq r.content)
    BY <1>3 DEF Lands, Taken, Current
  <2> QED BY <1>a, <2>1 DEF Register!Next, Register!Extend, Register!Replace, All
<1>4. CASE LandsUp
  BY <1>3, <1>4 DEF LandsUp, Based, Copies, Sent
<1>5. CASE LandsRot
  BY <1>3, <1>5 DEF LandsRot, Based, Copies
<1>6. CASE LandsStray
  BY <1>3, <1>6 DEF LandsStray, Based, Copies
<1> QED BY <1>1, <1>2, <1>4, <1>5, <1>6, ServerMoves DEF Based

\* No version loses an edit the one before it held, unless the user agreed to
\* replace that version (the overwrite of vaultSave.ts, after the server refused).
THEOREM NothingReplaced == Spec => NoSilentOverwrite
<1>1. Init => Register!Init
  BY DEF Init, Register!Init
<1>2. Init => Based
  BY BasedInit
<1>3. Based /\ [Next]_vars => Based'
  BY BasedStep
<1>4. Based /\ Based' /\ [Next]_vars => [Register!Next]_(Register!rvars)
  BY RegisterStep
<1> QED BY <1>1, <1>2, <1>3, <1>4, PTL DEF Spec, NoSilentOverwrite, Register!Spec

\* A device that was locked by the clock or forgotten keeps no vault key, whatever
\* write of it was under way (cacheDeviceKey, App.tsx).
THEOREM KeysWiped == Spec => []NothingLeftBehind
<1>1. Init => Shapes /\ NothingLeftBehind
  <2>1. Init => trust.key = 0
    BY DEF Init
  <2> QED BY <2>1, ShapesInit DEF NothingLeftBehind
<1>2. Shapes /\ NothingLeftBehind /\ [Next]_vars => Shapes' /\ NothingLeftBehind'
  BY ShapesStep, TrustMoves
<1> QED BY <1>1, <1>2, PTL DEF Spec

(* --------------------------------------------- the key of what is written --- *)

\* A copy based on the server's version is under the key that version is under.
UnderKey(ver, key) == ver = srv.ver => key = srv.env
UnderKeyThen(ver, key) == ver = srv'.ver => key = srv'.env

\* With "unread" no checkpoint comes between a trusted device's unlock and the file.
Memory ==
  /\ Is(draft.memory) /\ ~trust.locked => Is(opening) /\ opening.password /\ opening.stage # "file"
  /\ Is(opening) /\ ~opening.password => ~Is(draft.memory) /\ ~Is(draft.disk)
  /\ Is(draft.sealing) => trust.locked /\ ~Is(opening)

KeyHeld ==
  /\ FileOpens
  /\ IsOpen => /\ q.env = tab.key /\ UnderKey(q.ver, tab.key)
               /\ IF Live THEN tab.exports = rot.key ELSE tab.exports = tab.key
  /\ Sent => up.key = tab.key /\ UnderKey(IF up.stage = "sent" THEN up.ver ELSE up.ver + 1, up.key)
  /\ Is(rot) /\ rot.stage = "accepted" => UnderKey(rot.ver + 1, rot.key)
  /\ \A r \in stray : r.rotates = FALSE => UnderKey(r.ver, r.key)
  /\ \A d \in Kept : UnderKey(d.ver, d.key)
  /\ Is(opening) => /\ opening.key = srv.env => opening.env = srv.env
                    /\ opening.stage = "file" => UnderKey(opening.ver, opening.env)
                    /\ opening.stage = "file" /\ opening.password => opening.key = opening.env
                    /\ opening.stage # "file" => UnderKey(opening.ver, opening.key) /\ opening.key = opening.env

LEMMA MemoryStep == ASSUME "unread" \in Careful, Shapes, Memory, [Next]_vars PROVE Memory'
<1>a. ASSUME UNCHANGED <<draft, opening>>, trust'.locked = trust.locked PROVE Memory'
  BY <1>a DEF Memory
<1>b. ASSUME NEW wiped \in BOOLEAN, opening' = None, trust' = Untrusted(trust, wiped) PROVE Memory'
  <2>1. trust \in Trust
    BY TrustAt DEF Shapes
  <2>2. trust'.locked = TRUE
    BY <1>b, <2>1 DEF Untrusted, Trust
  <2> QED BY <1>b, <2>2 DEF Memory, Is
<1>c. /\ trust \in Trust /\ draft \in Draft /\ DOMAIN trust = {"key", "locked", "storing", "wiped"}
      /\ DOMAIN draft = {"sealing", "memory", "disk", "pending"}
  BY TrustAt DEF Shapes, DraftOK, Trust, Draft
<1>1. CASE \/ OtherSession \/ OtherRotates \/ StrayArrives \/ Edit \/ SaveMetadata \/ SaveExports \/ SaveArrives
           \/ SaveAccepted \/ SaveRefused \/ SaveLost \/ TimerFires \/ UserSaves \/ RotateStarts
           \/ RotateArrives \/ RotateLost \/ UNCHANGED vars
  <2>1. UNCHANGED <<draft, opening, trust>>
    BY <1>1 DEF OtherSession, OtherRotates, StrayArrives, Edit, SaveMetadata, SaveExports, SaveArrives, SaveAccepted,
       SaveRefused, SaveLost, TimerFires, UserSaves, Saves, RotateStarts, RotateArrives, RotateLost, vars
  <2> QED BY <1>a, <2>1
<1>d. ASSUME Rotated \/ PutBack PROVE trust'.locked = trust.locked
  <2>1. \/ trust' = trust \/ trust' = [trust EXCEPT !.key = 0]
        \/ trust' = [trust EXCEPT !.key = 0, !.storing = [key |-> rot.key, live |-> TRUE]]
    BY <1>d DEF Rotated, PutBack
  <2> QED BY <1>c, <2>1
<1>2. CASE RotateAnswered
  BY <1>2, <1>a, <1>d DEF RotateAnswered
<1>3. CASE RotateAsks
  <2>1. (UNCHANGED <<draft, opening>> /\ (Rotated \/ PutBack)) \/ (opening' = None /\ trust' = Untrusted(trust, TRUE))
    BY <1>3 DEF RotateAsks, Closes
  <2> QED BY <1>a, <1>b, <1>d, <2>1
<1>4. CASE LockVault \/ ForgetDevice
  BY <1>4, <1>b DEF LockVault, ForgetDevice, Closes
<1>5. ASSUME NEW editing \in BOOLEAN, AutoLock(editing) PROVE Memory'
  BY <1>5, <1>b DEF AutoLock, Closes
<1>6. CASE Refresh
  <2>1. draft' = [draft EXCEPT !.sealing = None, !.memory = None, !.pending = FALSE] /\ opening' = None
    BY <1>6 DEF Refresh, Closes
  <2>2. draft'.sealing = None /\ draft'.memory = None
    BY <1>c, <2>1
  <2> QED BY <2>1, <2>2 DEF Memory, Is
<1>7. ASSUME NEW stored \in BOOLEAN, Seals(stored) PROVE Memory'
  <2>1. Is(draft.sealing) /\ draft'.sealing = None /\ UNCHANGED <<opening, trust>>
    BY <1>7 DEF Seals
  <2> QED BY <2>1 DEF Memory, Is
<1>8. CASE KeyStored
  <2>1. \/ trust' = [trust EXCEPT !.key = trust.storing.key, !.storing = None, !.wiped = FALSE]
        \/ trust' = [trust EXCEPT !.key = 0, !.storing = None]
    BY <1>8 DEF KeyStored
  <2>2. trust'.locked = trust.locked
    BY <1>c, <2>1
  <2> QED BY <1>8, <1>a, <2>2 DEF KeyStored
<1>9. ASSUME NEW password \in BOOLEAN, OpenStarts(password) PROVE Memory'
  <2>1. /\ ~Is(draft.sealing) /\ ~Is(opening) /\ UNCHANGED <<draft, trust>> /\ opening'.password = password
        /\ ~password => ~trust.locked /\ ~Is(draft.disk)
    BY <1>9 DEF OpenStarts
  <2> QED BY <2>1 DEF Memory
<1>10. ASSUME NEW readable \in BOOLEAN, OpenFile(readable) PROVE Memory'
  <2>1. Is(opening) /\ opening.stage = "file" /\ ~Is(draft.sealing)
    BY <1>10 DEF OpenFile, Memory
  <2>2. trust'.locked = trust.locked
    <3>1. \/ trust' = trust \/ trust' = [trust EXCEPT !.key = 0]
          \/ trust' = [trust EXCEPT !.storing = [key |-> opening.key, live |-> TRUE]]
      BY <1>10 DEF OpenFile
    <3> QED BY <1>c, <3>1
  <2>3. /\ draft'.sealing = draft.sealing
        /\ Is(draft'.memory) => Is(draft.memory) \/ Is(draft.disk)
        /\ Is(draft'.disk) => Is(draft.disk)
        /\ opening' = None => (Is(draft'.memory) => Is(draft.memory))
    <3>1. \/ draft' = draft
          \/ draft' = [draft EXCEPT !.disk = None]
          \/ draft' = [draft EXCEPT !.disk = None, !.memory = None]
          \/ draft' = [draft EXCEPT !.memory = Local(readable)] /\ opening' # None
      <4>1. CASE opening' = None
        <5>1. draft' = draft \/ draft' = [draft EXCEPT !.disk = None]
          <6>1. opening' # [stage |-> "settle", password |-> opening.password, env |-> opening.env, key |-> opening.key,
                 ver |-> IF Is(Local(readable)) /\ Local(readable).key = opening.key THEN Local(readable).ver ELSE opening.ver,
                 content |-> IF Is(Local(readable)) /\ Local(readable).key = opening.key THEN Local(readable).content ELSE srv.content,
                 dirty |-> (Is(Local(readable)) /\ Local(readable).key = opening.key) /\ Local(readable).dirty,
                 unread |-> ~Is(Local(readable)) /\ Is(draft.disk)]
            BY <4>1 DEF None
          <6> QED BY <1>10, <4>1, <6>1 DEF OpenFile, Local
        <5> QED BY <5>1
      <4>2. CASE opening' # None
        BY <1>10, <4>2 DEF OpenFile, Local
      <4> QED BY <4>1, <4>2
    <3>2. Is(Local(readable)) => Is(draft.memory) \/ Is(draft.disk)
      BY DEF Local, Is
    <3>3. \/ draft'.memory = draft.memory /\ draft'.disk = draft.disk
          \/ draft'.memory = draft.memory /\ draft'.disk = None
          \/ draft'.memory = None /\ draft'.disk = None
          \/ draft'.memory = Local(readable) /\ draft'.disk = draft.disk /\ opening' # None
      BY <1>c, <3>1
    <3>4. draft'.sealing = draft.sealing
      BY <1>c, <3>1
    <3> QED BY <3>2, <3>3, <3>4 DEF Is
  <2>4. opening' = None \/ ReadIn
    BY <1>10, ReadAt DEF Is
  <2> QED BY <2>1, <2>2, <2>3, <2>4 DEF Memory, ReadIn, Is
<1>11. CASE OpenSettles
  <2>1. /\ trust' = trust /\ opening' = [opening EXCEPT !.stage = "apply"] /\ Is(opening) /\ opening.stage = "settle"
        /\ draft' = draft \/ draft' = [draft EXCEPT !.disk = None, !.pending = TRUE]
    BY <1>11 DEF OpenSettles
  <2>2. opening \in Opened
    BY <2>1, OpeningAt DEF Shapes
  <2>3. Is(opening') /\ opening'.password = opening.password /\ opening'.stage = "apply"
    <3>1. opening' \in Opened /\ opening'.password = opening.password /\ opening'.stage = "apply"
      BY <2>1, <2>2 DEF Opened
    <3> QED BY <3>1, Absent DEF Is
  <2>4. draft'.sealing = draft.sealing /\ draft'.memory = draft.memory /\ (draft'.disk = draft.disk \/ draft'.disk = None)
    BY <1>c, <2>1
  <2> QED BY <2>1, <2>3, <2>4 DEF Memory, Is
<1>12. CASE OpenApplies
  <2>1. /\ Is(opening) /\ opening' = None /\ draft' = [draft EXCEPT !.memory = None, !.pending = opening.unread]
    BY <1>12 DEF OpenApplies
  <2>2. draft'.sealing = draft.sealing /\ draft'.memory = None
    BY <1>c, <2>1
  <2> QED BY <2>1, <2>2 DEF Memory, Is
<1> QED
  BY <1>1, <1>2, <1>3, <1>4, <1>5, <1>6, <1>7, <1>8, <1>9, <1>10, <1>11, <1>12, Zenon DEF Next, Saving, Rotating

LEMMA KeyHeldStep == ASSUME Based, Memory, KeyHeld, [Next]_vars PROVE KeyHeld'
<1>0. Shapes /\ Alone /\ Drawn /\ Pending /\ Copies /\ Copies'
  BY BasedStep DEF Based
<1>a. srv.ver \in Nat /\ srv'.ver \in Nat /\ ((srv'.ver = srv.ver /\ Quiet) \/ srv'.ver = srv.ver + 1)
  BY <1>0, ServerSteps, Facts
<1>b. ASSUME NEW v \in Nat, v <= srv.ver, NEW k, UnderKey(v, k) PROVE UnderKeyThen(v, k)
  BY <1>a, <1>b DEF UnderKey, UnderKeyThen, Quiet
<1>c. IsOpen => q.ver \in Nat /\ q.ver <= srv.ver /\ q.env = tab.key /\ UnderKey(q.ver, tab.key)
  BY <1>0, Facts DEF Copies, Current, KeyHeld
<1>d. Sent => /\ up.ver \in Nat /\ up.key = tab.key
              /\ up.stage = "sent" => up.ver <= srv.ver /\ UnderKey(up.ver, up.key)
              /\ up.stage = "accepted" => up.ver + 1 \in Nat /\ up.ver + 1 <= srv.ver /\ UnderKey(up.ver + 1, up.key)
  <2>1. Sent => up.ver \in Nat
    BY <1>0, Facts
  <2>2. Sent => up.key = tab.key /\ (up.stage = "sent" => up.ver <= srv.ver /\ UnderKey(up.ver, up.key))
    BY <1>0 DEF Copies, Current, KeyHeld
  <2>3. Sent /\ up.stage = "accepted" => up.ver + 1 <= srv.ver /\ UnderKey(up.ver + 1, up.key)
    BY <1>0 DEF Copies, Current, KeyHeld
  <2> QED BY <2>1, <2>2, <2>3
<1>e. Is(rot) /\ (rot.stage = "accepted" \/ srv.env = rot.key) => rot.ver + 1 \in Nat /\ rot.ver + 1 <= srv.ver
  <2>1. Is(rot) => rot.ver \in Nat
    BY <1>0, Facts
  <2> QED BY <1>0, <2>1 DEF Copies, Current
<1>f. Is(opening) => opening.ver \in Nat /\ opening.ver <= srv.ver
  BY <1>0, Facts DEF Copies, Current
<1>g. \A d \in Kept : d.ver \in Nat /\ d.ver <= srv.ver /\ UnderKey(d.ver, d.key)
  BY <1>0, Facts DEF Copies, Current, KeyHeld
<1>h. \A k : InUse(k) => k \in Nat /\ k <= srv.keys
  <2>1. \A k : InUse(k) => k \in Nat
    BY <1>0, Facts, TrustAt DEF InUse, Shapes, Storing
  <2> QED BY <1>0, <2>1 DEF Drawn
<1>1. srv'.file = srv'.env
  <2>1. CASE Quiet \/ Extended \/ Rekeyed
    BY <2>1 DEF KeyHeld, FileOpens, Quiet, Extended, Rekeyed
  <2>2. CASE LandsUp
    <3>1. Sent /\ up.stage = "sent" /\ up.ver = srv.ver /\ srv'.file = up.key
      BY <2>2 DEF LandsUp, Lands, Taken, Sent
    <3>2. up.rotates = FALSE
      BY <1>0, <3>1, Facts
    <3>3. srv'.env = srv.env
      BY <2>2, <3>2 DEF LandsUp, Lands
    <3> QED BY <1>d, <3>1, <3>3 DEF UnderKey
  <2>3. CASE LandsRot
    <3>1. Is(rot) /\ srv'.file = rot.key
      BY <2>3 DEF LandsRot, Lands
    <3> QED BY <1>0, <2>3, <3>1, ServerSteps
  <2>4. CASE LandsStray
    <3>1. PICK r \in stray : r.ver = srv.ver /\ srv'.file = r.key /\ srv'.env = IF r.rotates THEN r.key ELSE srv.env
      BY <2>4 DEF LandsStray, Lands, Taken
    <3>2. r.rotates \in BOOLEAN
      BY <1>0, Facts
    <3>3. r.rotates = FALSE => r.key = srv.env
      BY <3>1 DEF KeyHeld, UnderKey
    <3> QED BY <3>1, <3>2, <3>3
  <2> QED BY <1>0, <2>1, <2>2, <2>3, <2>4, ServerMoves
<1>2. ASSUME IsOpen' PROVE q'.env = tab'.key /\ UnderKeyThen(q'.ver, tab'.key)
  <2>1. CASE Untouched \/ Begun \/ Failed \/ Exported \/ Arrived \/ Rekeying \/ OldKey \/ Edited
    <3>1. IsOpen /\ q'.ver = q.ver /\ q'.env = q.env /\ tab'.key = tab.key
      BY <1>2, <2>1 DEF Untouched, Begun, Failed, Exported, Arrived, Rekeying, OldKey, Edited, SameVault, IsOpen
    <3> QED BY <1>b, <1>c, <3>1
  <2>2. CASE Reread
    BY <1>c, <2>2 DEF Reread, SameVault, UnderKeyThen
  <2>3. CASE Again \/ Acknowledged
    <3>1. Sent /\ up.stage = "accepted" /\ q'.ver = up.ver + 1 /\ tab' = tab /\ q'.env = q.env /\ IsOpen
      BY <2>3 DEF Again, Acknowledged, SameVault, Sent
    <3> QED BY <1>b, <1>c, <1>d, <3>1
  <2>4. CASE NewKey
    <3>1. /\ Is(rot) /\ q'.ver = rot.ver + 1 /\ q'.env = rot.key /\ tab'.key = rot.key
          /\ rot.stage = "accepted" \/ srv.env = rot.key
      BY <2>4 DEF NewKey, Live
    <3>2. UnderKey(rot.ver + 1, rot.key)
      BY <3>1 DEF KeyHeld, UnderKey
    <3> QED BY <1>b, <1>e, <3>1, <3>2
  <2>5. CASE Applied
    <3>1. /\ Is(opening) /\ opening.stage # "file" /\ q'.ver = opening.ver /\ q'.env = opening.env
          /\ tab'.key = opening.key
      BY <2>5 DEF Applied
    <3>2. opening.key = opening.env /\ UnderKey(opening.ver, opening.key)
      BY <3>1 DEF KeyHeld
    <3> QED BY <1>b, <1>f, <3>1, <3>2
  <2> QED BY <1>0, <1>2, <2>1, <2>2, <2>3, <2>4, <2>5, TabMoves DEF TabMoved, Closed
<1>3. ASSUME IsOpen' PROVE IF Live' THEN tab'.exports = rot'.key ELSE tab'.exports = tab'.key
  <2>1. CASE Rekeying \/ RotStarted
    BY <2>1 DEF Rekeying, RotStarted, Live
  <2>2. CASE NewKey
    BY <2>2 DEF NewKey, KeyHeld, Live
  <2>3. CASE OldKey
    BY <2>3 DEF OldKey, Live
  <2>4. CASE Applied
    <3>1. ~Live /\ rot' = rot
      BY <1>0, <2>4 DEF Applied, Alone
    <3> QED BY <2>4, <3>1 DEF Applied, Live
  <2>5. CASE Untouched \/ Begun \/ Failed \/ Reread \/ Exported \/ Arrived \/ Again \/ Acknowledged \/ Edited
    <3>1. IsOpen /\ tab'.exports = tab.exports /\ tab'.key = tab.key
      BY <1>2, <1>3, <2>5 DEF Untouched, Begun, Failed, Reread, Exported, Arrived, Again, Acknowledged, Edited,
         SameVault, IsOpen
    <3>2. CASE Live' /\ ~RotStarted
      <4>1. Live /\ rot'.key = rot.key
        BY <1>0, <3>2, RotMoves DEF RotMoved, RotAnswered, RotLost, RotLeft, RotOver, SameRot, Live
      <4> QED BY <3>1, <3>2, <4>1 DEF KeyHeld
    <3>3. CASE ~Live' /\ ~NewKey /\ ~OldKey
      <4>1. ~Live
        BY <1>0, <1>3, <3>3, RotMoves DEF RotMoved, RotStarted, RotAnswered, RotLost, RotLeft, RotOver, SameRot, Live
      <4> QED BY <3>1, <3>3, <4>1 DEF KeyHeld
    <3> QED BY <2>1, <2>2, <2>3, <3>2, <3>3
  <2> QED BY <1>0, <1>3, <2>1, <2>2, <2>3, <2>4, <2>5, TabMoves DEF TabMoved, Closed
<1>4. ASSUME Sent'
      PROVE  up'.key = tab'.key /\ UnderKeyThen(IF up'.stage = "sent" THEN up'.ver ELSE up'.ver + 1, up'.key)
  <2>1. CASE Untouched \/ Rekeying \/ OldKey \/ Edited
    <3>1. up' = up /\ tab'.key = tab.key /\ Sent
      BY <1>4, <2>1 DEF Untouched, Rekeying, OldKey, Edited, Sent
    <3>2. up.stage = "sent" => UnderKeyThen(up.ver, up.key)
      BY <1>b, <1>d, <3>1
    <3>3. up.stage = "accepted" => UnderKeyThen(up.ver + 1, up.key)
      BY <1>b, <1>d, <3>1
    <3> QED BY <1>d, <3>1, <3>2, <3>3 DEF Sent
  <2>2. CASE Exported
    <3>1. /\ IsOpen /\ tab' = tab /\ up'.stage = "sent" /\ up'.ver = q.ver /\ up'.key = tab.exports /\ ~Live
      BY <2>2 DEF Exported, SameVault
    <3>2. tab.exports = tab.key
      BY <3>1 DEF KeyHeld
    <3> QED BY <1>b, <1>c, <3>1, <3>2
  <2>3. CASE Arrived
    <3>1. /\ Sent /\ up.stage = "sent" /\ LandsUp /\ up'.ver = up.ver /\ up'.key = up.key /\ tab' = tab
          /\ up'.stage = "accepted"
      BY <1>4, <2>3 DEF Arrived, Sent, SameVault
    <3>2. up.ver = srv.ver /\ srv'.file = up.key
      BY <3>1 DEF LandsUp, Lands, Taken
    <3> QED BY <1>1, <1>d, <3>1, <3>2 DEF UnderKeyThen
  <2> QED BY <1>0, <1>4, <2>1, <2>2, <2>3, TabMoves
      DEF TabMoved, Closed, Begun, Failed, Reread, Again, Acknowledged, NewKey, Applied, Sent
<1>5. ASSUME Is(rot'), rot'.stage = "accepted" PROVE UnderKeyThen(rot'.ver + 1, rot'.key)
  <2>1. CASE rot' = rot \/ RotLeft
    <3>1. Is(rot) /\ rot.stage = "accepted" /\ rot'.ver = rot.ver /\ rot'.key = rot.key
      BY <1>5, <2>1 DEF RotLeft, SameRot
    <3> QED BY <1>b, <1>e, <3>1 DEF KeyHeld
  <2>2. CASE RotAnswered
    <3>1. LandsRot /\ rot'.key = rot.key
      BY <1>5, <2>2 DEF RotAnswered, SameRot
    <3> QED BY <1>0, <3>1, ServerSteps DEF UnderKeyThen
  <2> QED BY <1>0, <1>5, <2>1, <2>2, RotMoves DEF RotMoved, RotStarted, RotLost, RotOver
<1>6. ASSUME NEW r \in stray', r.rotates = FALSE PROVE UnderKeyThen(r.ver, r.key)
  <2>1. CASE r \in stray
    <3>1. r.ver \in Nat /\ r.ver <= srv.ver
      BY <1>0, <2>1, Facts DEF Copies, Current
    <3> QED BY <1>6, <1>b, <2>1, <3>1 DEF KeyHeld
  <2>2. CASE r \in OnTheWire(up)
    <3>1. Sent /\ up.stage = "sent" /\ r.ver = up.ver /\ r.key = up.key
      BY <1>0, <2>2, OnTheWireAt DEF Shapes, Sent
    <3> QED BY <1>b, <1>d, <3>1
  <2>3. CASE r \in OnTheWire(rot)
    BY <1>0, <1>6, <2>3, OnTheWireAt DEF Shapes
  <2> QED BY <1>0, <2>1, <2>2, <2>3, StrayMoves DEF StrayMoved
<1>7. ASSUME NEW d \in Kept' PROVE UnderKeyThen(d.ver, d.key)
  <2>1. CASE d \in Kept
    BY <1>b, <1>g, <2>1
  <2>2. CASE Captured(d)
    BY <1>b, <1>c, <2>2 DEF Captured
  <2> QED BY <1>0, <2>1, <2>2, DraftMoves DEF DraftFrom
<1>8. ASSUME Is(opening'), opening'.key = srv'.env PROVE opening'.env = srv'.env
  <2>1. CASE AskedFor
    BY <2>1 DEF AskedFor
  <2>2. CASE Is(opening) /\ opening'.key = opening.key /\ opening'.env = opening.env
    <3>1. InUse(opening.key)
      BY <2>2 DEF InUse
    <3>2. ~LandsRot
      BY <1>0, <1>8, <2>2, <3>1, ServerSteps DEF LandsRot, Pending
    <3>3. ~StrayTaken
      BY <1>0, <1>8, <2>2, <3>1 DEF StrayTaken, Pending
    <3>4. ~Rekeyed
      <4>1. opening.key <= srv.keys /\ opening.key \in Nat /\ srv.keys \in Nat
        BY <1>0, <1>h, <3>1, Facts
      <4> QED BY <1>8, <2>2, <4>1 DEF Rekeyed
    <3> QED BY <1>0, <1>8, <2>2, <3>2, <3>3, <3>4, ServerSteps DEF KeyHeld
  <2> QED BY <1>0, <1>8, <2>1, <2>2, OpeningMoves DEF OpeningMoved, ReadIn, Settled
<1>9. ASSUME Is(opening')
      PROVE  /\ opening'.stage = "file" => UnderKeyThen(opening'.ver, opening'.env)
             /\ opening'.stage = "file" /\ opening'.password => opening'.key = opening'.env
             /\ opening'.stage # "file" => UnderKeyThen(opening'.ver, opening'.key) /\ opening'.key = opening'.env
  <2>1. CASE opening' = opening
    BY <1>9, <1>b, <1>f, <2>1 DEF KeyHeld
  <2>2. CASE AskedFor
    BY <2>2 DEF AskedFor, UnderKeyThen
  <2>3. CASE Settled
    <3>1. Is(opening) /\ opening.stage # "file" /\ opening'.ver = opening.ver /\ opening'.key = opening.key
          /\ opening'.env = opening.env /\ opening'.stage # "file"
      BY <2>3 DEF Settled
    <3> QED BY <1>b, <1>f, <3>1 DEF KeyHeld
  <2>4. CASE ReadIn
    <3>1. /\ Is(opening) /\ opening.stage = "file" /\ opening'.stage # "file"
          /\ opening'.env = opening.env /\ opening'.key = opening.key
      BY <2>4 DEF ReadIn
    <3>2. CASE opening'.ver = opening.ver /\ srv.file = opening.key
      <4>1. opening.key = opening.env /\ UnderKey(opening.ver, opening.env)
        BY <3>1, <3>2 DEF KeyHeld, FileOpens
      <4> QED BY <1>b, <1>f, <3>1, <3>2, <4>1
    <3>3. ASSUME NEW d \in Kept, d \in {draft.memory, draft.disk}, opening'.ver = d.ver, d.key = opening.key
          PROVE  UnderKeyThen(opening'.ver, opening'.key) /\ opening'.key = opening'.env
      <4>1. opening.password
        BY <3>1, <3>3 DEF Memory, Kept, Is
      <4>2. opening.key = opening.env
        BY <3>1, <4>1 DEF KeyHeld
      <4> QED BY <1>b, <1>g, <3>1, <3>3, <4>2
    <3> QED BY <2>4, <3>1, <3>2, <3>3 DEF ReadIn
  <2> QED BY <1>0, <1>9, <2>1, <2>2, <2>3, <2>4, OpeningMoves DEF OpeningMoved
<1> QED
  BY <1>1, <1>2, <1>3, <1>4, <1>5, <1>6, <1>7, <1>8, <1>9 DEF KeyHeld, FileOpens, UnderKey, UnderKeyThen

\* What the server stores opens with the key its envelope wraps: a tab whose key
\* another session, or its own unconfirmed rotation, retired never writes over it
\* (the overwrite of vaultSave.ts, rotateKey and the stray answers of App.tsx).
THEOREM FileKeyHeld == "unread" \in Careful => (Spec => []FileOpens)
<1> SUFFICES ASSUME "unread" \in Careful PROVE Spec => []FileOpens
  OBVIOUS
<1>1. Init => Based /\ Memory /\ KeyHeld
  <2>1. Init => /\ srv = [ver |-> 1, content |-> {}, file |-> 1, env |-> 1, keys |-> 1] /\ stray = {}
                /\ ~IsOpen /\ ~Is(up) /\ ~Is(rot) /\ ~Is(opening) /\ Kept = {}
                /\ ~Is(draft.memory) /\ ~Is(draft.sealing)
    BY DEF Init, IsOpen, Is, Kept
  <2> QED BY <2>1, BasedInit DEF Memory, KeyHeld, FileOpens, Sent
<1>2. Based /\ Memory /\ KeyHeld /\ [Next]_vars => Based' /\ Memory' /\ KeyHeld'
  BY BasedStep, MemoryStep, KeyHeldStep DEF Based
<1>3. KeyHeld => FileOpens
  BY DEF KeyHeld
<1> QED BY <1>1, <1>2, <1>3, PTL DEF Spec

(* ------------------------------------------------------ what "saved" says --- *)

Stored(content) == content \ OtherEdits \subseteq landed
StoredThen(content) == content \ OtherEdits \subseteq landed'

\* With "rotate" a rotation is under way only over a vault that is saved.
Saved ==
  /\ Stored(srv.content)
  /\ IsOpen /\ ~q.ahead => Stored(tab.content)
  /\ Sent /\ ~q.moved => tab.content \subseteq up.content
  /\ Is(up) /\ up.stage = "accepted" => Stored(up.content)
  /\ Live => q.kind = "saved"
  /\ Is(opening) /\ opening.stage # "file" /\ ~opening.dirty => Stored(opening.content)
  /\ \A d \in Kept : ~d.dirty => Stored(d.content)

LEMMA LandedGrows == ASSUME Shapes, [Next]_vars PROVE landed \subseteq landed'
BY ServerMoves DEF Quiet, LandsUp, LandsRot, LandsStray, Lands, Extended, Rekeyed

LEMMA SavedStep == ASSUME "rotate" \in Careful, Shapes, Alone, Copies, Saved, [Next]_vars PROVE Saved'
<1>a. \A c : Stored(c) => StoredThen(c)
  BY LandedGrows DEF Stored, StoredThen
<1>b. \A c, d : StoredThen(c) /\ d \subseteq c => StoredThen(d)
  BY DEF StoredThen
<1>c. IsOpen => (q.kind = "saved" <=> ~q.ahead)
  BY DEF Shapes, TabOK
<1>d. Live => ~q.ahead /\ ~Is(up) /\ IsOpen
  BY <1>c, Facts DEF Saved
<1>1. StoredThen(srv'.content)
  <2>1. CASE Quiet
    BY <1>a, <2>1 DEF Quiet, Saved
  <2>2. CASE Extended \/ Rekeyed
    BY <2>2 DEF Extended, Rekeyed, Saved, Stored, StoredThen
  <2>3. CASE LandsUp \/ LandsRot \/ LandsStray
    BY <2>3 DEF LandsUp, LandsRot, LandsStray, Lands, StoredThen
  <2> QED BY <2>1, <2>2, <2>3, ServerMoves
<1>2. ASSUME IsOpen', ~q'.ahead PROVE StoredThen(tab'.content)
  <2>1. CASE Untouched \/ Reread \/ Exported \/ Arrived \/ Again \/ Rekeying \/ OldKey
    <3>1. IsOpen /\ ~q.ahead /\ tab'.content = tab.content
      BY <1>2, <2>1 DEF Untouched, Reread, Exported, Arrived, Again, Rekeying, OldKey, SameVault, IsOpen
    <3> QED BY <1>a, <3>1 DEF Saved
  <2>2. CASE Acknowledged
    <3>1. Sent /\ up.stage = "accepted" /\ ~q.moved /\ tab' = tab /\ Is(up)
      BY <2>2 DEF Acknowledged, SameVault, Sent
    <3> QED BY <1>a, <1>b, <3>1 DEF Saved
  <2>3. CASE NewKey
    <3>1. IsOpen /\ ~q.ahead /\ tab'.content = tab.content
      BY <1>d, <2>3 DEF NewKey
    <3> QED BY <1>a, <3>1 DEF Saved
  <2>4. CASE Applied
    <3>1. Is(opening) /\ opening.stage # "file" /\ ~opening.dirty /\ tab'.content = opening.content
      BY <1>2, <2>4 DEF Applied
    <3> QED BY <1>a, <3>1 DEF Saved
  <2> QED BY <1>2, <2>1, <2>2, <2>3, <2>4, TabMoves DEF TabMoved, Closed, Edited, Begun, Failed
<1>3. ASSUME Sent', ~q'.moved PROVE tab'.content \subseteq up'.content
  <2>1. CASE Untouched \/ Rekeying \/ OldKey
    BY <1>3, <2>1 DEF Untouched, Rekeying, OldKey, Sent, Saved
  <2>2. CASE Edited
    <3>1. up' = up /\ Sent /\ q.running
      BY <1>3, <2>2, Facts DEF Edited, Sent
    <3> QED BY <1>3, <2>2, <3>1 DEF Edited
  <2>3. CASE Exported
    BY <2>3 DEF Exported, SameVault
  <2>4. CASE Arrived
    <3>1. Sent /\ ~q.moved /\ up'.content = up.content /\ tab' = tab
      BY <1>3, <2>4 DEF Arrived, SameVault, Sent
    <3> QED BY <3>1 DEF Saved
  <2> QED BY <1>3, <2>1, <2>2, <2>3, <2>4, TabMoves
      DEF TabMoved, Closed, Begun, Failed, Reread, Again, Acknowledged, NewKey, Applied, Sent
<1>4. ASSUME Is(up'), up'.stage = "accepted" PROVE StoredThen(up'.content)
  <2>1. CASE up' = up
    BY <1>4, <1>a, <2>1 DEF Saved
  <2>2. CASE Arrived
    BY <1>4, <2>2 DEF Arrived, LandsUp, Lands, StoredThen
  <2>3. CASE ~(up' = up \/ Arrived)
    BY <1>4, <2>3, TabMoves DEF TabMoved, Untouched, Closed, Edited, Begun, Failed, Reread, Exported, Again,
       Acknowledged, Rekeying, NewKey, OldKey, Applied
  <2> QED BY <2>1, <2>2, <2>3
<1>5. ASSUME Live' PROVE q'.kind = "saved"
  <2>1. CASE RotStarted
    BY <2>1 DEF RotStarted, Rekeying
  <2>2. CASE ~RotStarted
    <3>1. Live /\ q.kind = "saved" /\ ~Is(opening) /\ Is(rot) /\ Is(rot')
      BY <1>5, <2>2, RotMoves DEF RotMoved, RotAnswered, RotLost, RotLeft, RotOver, SameRot, Live, Alone, Saved
    <3>2. IsOpen'
      BY <1>5, RotMoves DEF RotOK, Live
    <3> QED BY <1>d, <3>1, <3>2, TabMoves DEF TabMoved, Untouched, Closed, Edited, Begun, Failed, Reread, Exported,
         Arrived, Again, Acknowledged, Rekeying, NewKey, OldKey, Applied
  <2> QED BY <2>1, <2>2
<1>6. ASSUME Is(opening'), opening'.stage # "file", ~opening'.dirty PROVE StoredThen(opening'.content)
  <2>1. CASE opening' = opening \/ Settled
    <3>1. Is(opening) /\ opening.stage # "file" /\ ~opening.dirty /\ opening'.content = opening.content
      BY <1>6, <2>1 DEF Settled
    <3> QED BY <1>a, <3>1 DEF Saved
  <2>2. CASE ReadIn
    BY <1>6, <1>a, <2>2 DEF ReadIn, Saved
  <2> QED BY <1>6, <2>1, <2>2, OpeningMoves DEF OpeningMoved, AskedFor
<1>7. ASSUME NEW d \in Kept', ~d.dirty PROVE StoredThen(d.content)
  <2>1. CASE d \in Kept
    BY <1>7, <1>a, <2>1 DEF Saved
  <2>2. CASE Captured(d)
    <3>1. IsOpen /\ d.content = tab.content /\ q.kind = "saved"
      BY <1>7, <2>2 DEF Captured, Dirty
    <3> QED BY <1>a, <1>c, <3>1 DEF Saved
  <2> QED BY <2>1, <2>2, DraftMoves DEF DraftFrom
<1> QED BY <1>1, <1>2, <1>3, <1>4, <1>5, <1>6, <1>7 DEF Saved, Stored, StoredThen

\* When the tab says "saved", every edit it holds is in some version the server
\* committed: through uploads that acknowledge only what they carried, rotations,
\* recovered checkpoints and lost answers (VaultSaveQueue, App.tsx).
THEOREM SavedIsStored == "rotate" \in Careful => (Spec => []SavedMeansStored)
<1> SUFFICES ASSUME "rotate" \in Careful PROVE Spec => []SavedMeansStored
  OBVIOUS
<1>1. Init => Based /\ Saved
  <2>1. Init => srv.content = {} /\ ~IsOpen /\ ~Is(up) /\ ~Is(rot) /\ ~Is(opening) /\ Kept = {}
    BY DEF Init, IsOpen, Is, Kept
  <2> QED BY <2>1, BasedInit DEF Saved, Stored, Sent, Live
<1>2. Based /\ Saved /\ [Next]_vars => Based' /\ Saved'
  BY BasedStep, SavedStep DEF Based
<1>3. Based /\ Saved => SavedMeansStored
  BY DEF Based, Shapes, TabOK, Saved, Stored, SavedMeansStored
<1> QED BY <1>1, <1>2, <1>3, PTL DEF Spec

(* ------------------------------------------------------- where edits are --- *)

Has(d, e) == Is(d) /\ e \in d.content

\* A checkpoint is in one place, or in two that hold the same; what is in memory
\* alone is what the page warns about, and what an unlock has read it applies.
Ledger ==
  /\ IsOpen => ~Is(draft.memory) /\ ~Is(draft.sealing)
  /\ Is(opening) => ~Is(draft.sealing) /\ (IsOpen => ~opening.password)
  /\ Is(draft.sealing) => draft.pending /\ ~Is(draft.memory) /\ ~Is(draft.disk)
  /\ Is(draft.memory) /\ Is(draft.disk) => draft.memory.content = draft.disk.content
  /\ Is(draft.memory) /\ ~draft.pending =>
        \A e \in draft.memory.content : e \in landed \union dropped \union OtherEdits \/ Has(draft.disk, e)
  /\ Is(opening) /\ opening.stage # "file" /\ Is(draft.memory) => draft.memory.content = opening.content

Held(e) == \/ e \in landed \/ e \in dropped \/ (IsOpen /\ e \in tab.content)
           \/ Has(draft.sealing, e) \/ Has(draft.memory, e) \/ Has(draft.disk, e)
AllHeld == \A e \in made : Held(e)

LEMMA AccountedFor == AllHeld <=> EditAccounted
<1>1. \A e : e \in In({draft.sealing, draft.memory, draft.disk})
             <=> Has(draft.sealing, e) \/ Has(draft.memory, e) \/ Has(draft.disk, e)
  BY DEF In, Has, Is
<1>2. \A e : e \in InTab <=> IsOpen /\ e \in tab.content
  BY DEF InTab
<1> QED BY <1>1, <1>2 DEF AllHeld, Held, EditAccounted

\* An edit of this tab that is let go was stored before, or is dropped openly.
LEMMA DropsAt ==
  ASSUME EditsOK, NEW edits, Drops(edits), NEW e \in made, e \in edits
  PROVE  e \in landed \/ e \in dropped'
BY EditsAssumption DEF EditsOK, Drops

\* What the tab says is saved is in no danger.
LEMMA CleanAt ==
  ASSUME Shapes, Saved, IsOpen, ~Dirty, NEW e \in made, e \in tab.content
  PROVE  e \in landed
BY EditsAssumption DEF Shapes, EditsOK, TabOK, Saved, Stored, Dirty

LEMMA LedgerStep ==
  ASSUME {"rotate", "unread"} \subseteq Careful, Shapes, Shapes', Alone, Copies, Memory, Saved, Ledger, AllHeld, [Next]_vars
  PROVE  Ledger' /\ AllHeld'
<1>a. /\ EditsOK /\ landed \subseteq landed' /\ dropped \subseteq dropped' /\ made \subseteq made'
      /\ made' = made \/ Edited
  BY LandedGrows, EditsMove DEF Shapes
<1>b. /\ DOMAIN draft = {"sealing", "memory", "disk", "pending"} /\ draft.pending \in BOOLEAN
      /\ draft = [sealing |-> draft.sealing, memory |-> draft.memory, disk |-> draft.disk, pending |-> draft.pending]
  BY DEF Shapes, DraftOK, Draft
<1>c. ASSUME draft' = draft, ~IsOpen', ~Is(opening'), made' = made,
             \A e \in made : IsOpen /\ e \in tab.content => e \in landed' \/ e \in dropped'
      PROVE  Ledger' /\ AllHeld'
  <2>1. Ledger'
    BY <1>a, <1>c DEF Ledger, Has
  <2>2. AllHeld'
    BY <1>a, <1>c DEF AllHeld, Held, Has
  <2> QED BY <2>1, <2>2
\* Whatever the tab and its requests do, the checkpoint stays where it is.
<1>1. ASSUME draft' = draft, opening' = opening, IsOpen' <=> IsOpen,
             IsOpen => tab.content \subseteq tab'.content, made' = made \/ Edited
      PROVE  Ledger' /\ AllHeld'
  <2>1. Ledger'
    BY <1>a, <1>1 DEF Ledger, Has
  <2>2. ASSUME NEW e \in made PROVE Held(e)'
    BY <1>a, <1>1, <2>2 DEF AllHeld, Held, Has
  <2>3. ASSUME NEW e \in made' PROVE Held(e)'
    BY <1>1, <2>2, <2>3 DEF Edited, Held
  <2> QED BY <2>1, <2>3 DEF AllHeld
<1>2. CASE \/ OtherSession \/ OtherRotates \/ StrayArrives \/ SaveMetadata \/ SaveExports \/ SaveArrives
           \/ SaveAccepted \/ SaveRefused \/ SaveLost \/ TimerFires \/ UserSaves
           \/ RotateArrives \/ RotateLost \/ KeyStored \/ UNCHANGED vars
  <2>1. UNCHANGED <<draft, opening, tab, made>>
    BY <1>2 DEF OtherSession, OtherRotates, StrayArrives, SaveMetadata, SaveExports, SaveArrives, SaveAccepted,
       SaveRefused, SaveLost, TimerFires, UserSaves, Saves, RotateArrives, RotateLost, KeyStored, vars
  <2> QED BY <1>1, <2>1 DEF IsOpen
<1>3. CASE Edit
  <2>1. Edited
    BY <1>3, EditAt
  <2> QED BY <1>1, <2>1 DEF Edited
<1>4. CASE RotateStarts
  <2>1. IsOpen /\ UNCHANGED <<draft, opening, made>> /\ tab' = [tab EXCEPT !.exports = srv.keys + 1]
    BY <1>4 DEF RotateStarts
  <2>2. tab \in Tab
    BY <2>1, TabAt DEF Shapes
  <2>3. tab'.content = tab.content /\ tab' # None
    BY <2>1, <2>2 DEF Tab, None
  <2> QED BY <1>1, <2>1, <2>3 DEF IsOpen, Is
<1>d. ASSUME Is(rot), UNCHANGED <<draft, opening, made>>,
             PutBack \/ (Rotated /\ (rot.stage = "accepted" \/ (rot.stage = "ask" /\ srv.env = rot.key /\ srv.ver = rot.ver + 1)))
      PROVE  Ledger' /\ AllHeld'
  <2>1. Untouched \/ NewKey \/ OldKey
    BY <1>d, RotatedAt, PutBackAt
  <2> QED BY <1>1, <1>d, <2>1 DEF Untouched, NewKey, OldKey, IsOpen
<1>5. CASE RotateAnswered
  <2>1. Is(rot) /\ UNCHANGED <<draft, opening, made>> /\ ((rot.stage = "accepted" /\ Rotated) \/ PutBack)
    BY <1>5 DEF RotateAnswered
  <2> QED BY <1>d, <2>1
<1>6. CASE RotateAsks
  <2>1. Is(rot) /\ rot.stage = "ask" /\ UNCHANGED <<draft, made>>
    BY <1>6 DEF RotateAsks
  <2>2. CASE opening' = opening /\ ((srv.env = rot.key /\ srv.ver = rot.ver + 1 /\ Rotated) \/ PutBack)
    BY <1>d, <2>1, <2>2
  <2>3. CASE Closes(TRUE) /\ Drops(InTab)
    <3>1. ~IsOpen' /\ ~Is(opening')
      BY <2>3 DEF Closes, IsOpen, Is
    <3>2. \A e \in made : IsOpen /\ e \in tab.content => e \in landed' \/ e \in dropped'
      BY <1>a, <2>3, DropsAt DEF InTab
    <3> QED BY <1>c, <2>1, <3>1, <3>2
  <2> QED BY <1>6, <2>2, <2>3 DEF RotateAsks
<1>7. CASE LockVault
  <2>1. ~IsOpen' /\ ~Is(opening') /\ draft' = draft /\ made' = made /\ Drops(IF Dirty THEN InTab ELSE {})
    BY <1>7 DEF LockVault, Closes, IsOpen, Is
  <2>2. ASSUME NEW e \in made, IsOpen, e \in tab.content PROVE e \in landed' \/ e \in dropped'
    <3>1. CASE Dirty
      BY <1>a, <2>1, <2>2, <3>1, DropsAt DEF InTab
    <3>2. CASE ~Dirty
      BY <1>a, <2>2, <3>2, CleanAt
    <3> QED BY <3>1, <3>2
  <2> QED BY <1>c, <2>1, <2>2
<1>8. CASE ForgetDevice
  <2>1. /\ ~IsOpen' /\ ~Is(opening') /\ made' = made /\ ~Is(draft.sealing)
        /\ Drops(InTab \union In({draft.memory, draft.disk}))
        /\ draft' = [draft EXCEPT !.memory = None, !.disk = None]
    BY <1>8 DEF ForgetDevice, Closes, IsOpen, Is
  <2>2. draft'.sealing = draft.sealing /\ draft'.memory = None /\ draft'.disk = None
    BY <1>b, <2>1
  <2>3. \A e : (IsOpen /\ e \in tab.content) \/ Has(draft.memory, e) \/ Has(draft.disk, e)
               => e \in InTab \union In({draft.memory, draft.disk})
    BY DEF InTab, In, Has, Is
  <2>4. Ledger'
    BY <2>1, <2>2 DEF Ledger, Is
  <2>5. AllHeld'
    BY <1>a, <2>1, <2>3, DropsAt DEF AllHeld, Held, Has
  <2> QED BY <2>4, <2>5
<1>9. CASE Refresh
  <2>1. /\ ~IsOpen' /\ ~Is(opening') /\ made' = made
        /\ Drops(IF Unsaved THEN InTab \union In({draft.memory, draft.sealing}) ELSE {})
        /\ draft' = [draft EXCEPT !.sealing = None, !.memory = None, !.pending = FALSE]
    BY <1>9 DEF Refresh, Closes, IsOpen, Is
  <2>2. draft'.sealing = None /\ draft'.memory = None /\ draft'.disk = draft.disk
    BY <1>b, <2>1
  <2>3. \A e : (IsOpen /\ e \in tab.content) \/ Has(draft.memory, e) \/ Has(draft.sealing, e)
               => e \in InTab \union In({draft.memory, draft.sealing})
    BY DEF InTab, In, Has, Is
  <2>4. Ledger'
    BY <2>1, <2>2 DEF Ledger, Is
  <2>5. ASSUME NEW e \in made PROVE e \in landed' \/ e \in dropped' \/ Has(draft.disk, e)
    <3>1. CASE Unsaved
      BY <1>a, <2>1, <2>3, <3>1, DropsAt DEF AllHeld, Held
    <3>2. CASE ~Unsaved
      <4>1. ~draft.pending /\ ~Dirty /\ ~Is(draft.sealing)
        BY <3>2 DEF Unsaved, Ledger
      <4>2. Has(draft.memory, e) => e \in landed \/ e \in dropped \/ Has(draft.disk, e)
        BY <1>a, <4>1, EditsAssumption DEF Ledger, Has, EditsOK
      <4>3. IsOpen /\ e \in tab.content => e \in landed
        BY <4>1, CleanAt
      <4> QED BY <1>a, <4>1, <4>2, <4>3 DEF AllHeld, Held, Has
    <3> QED BY <3>1, <3>2
  <2>6. AllHeld'
    BY <2>1, <2>2, <2>5 DEF AllHeld, Held, Has
  <2> QED BY <2>4, <2>6
<1>10. ASSUME NEW editing \in BOOLEAN, AutoLock(editing) PROVE Ledger' /\ AllHeld'
  <2>1. /\ IsOpen /\ ~IsOpen' /\ ~Is(opening') /\ made' = made
        /\ ~((Dirty \/ editing) /\ Is(draft.disk))
    BY <1>10 DEF AutoLock, Closes, IsOpen, Is
  <2>2. ~Is(draft.memory) /\ ~Is(draft.sealing)
    BY <2>1 DEF Ledger
  <2>3. CASE Dirty \/ editing
    <3>1. /\ draft'.sealing.content = tab.content /\ Is(draft'.sealing) /\ draft'.memory = draft.memory
          /\ draft'.disk = None /\ draft'.pending = TRUE /\ ~Is(draft.disk)
      BY <1>b, <1>10, <2>1, <2>3 DEF AutoLock, Is, None
    <3>2. Ledger'
      BY <2>1, <2>2, <3>1 DEF Ledger, Is
    <3>3. AllHeld'
      BY <1>a, <2>1, <2>2, <3>1 DEF AllHeld, Held, Has
    <3> QED BY <3>2, <3>3
  <2>4. CASE ~(Dirty \/ editing)
    <3>1. draft'.sealing = draft.sealing /\ draft'.memory = None /\ draft'.disk = draft.disk
      BY <1>b, <1>10, <2>4 DEF AutoLock
    <3>2. Ledger'
      BY <2>1, <2>2, <3>1 DEF Ledger, Is
    <3>3. \A e \in made : e \in tab.content => e \in landed
      BY <2>1, <2>4, CleanAt
    <3>4. AllHeld'
      BY <1>a, <2>1, <2>2, <3>1, <3>3 DEF AllHeld, Held, Has
    <3> QED BY <3>2, <3>4
  <2> QED BY <2>3, <2>4
<1>11. ASSUME NEW stored \in BOOLEAN, Seals(stored) PROVE Ledger' /\ AllHeld'
  <2>1. /\ Is(draft.sealing) /\ UNCHANGED <<tab, opening, made>>
        /\ draft'.sealing = None /\ draft'.memory = draft.sealing /\ draft'.pending = ~stored
        /\ draft'.disk = IF stored THEN draft.sealing ELSE draft.disk
    BY <1>11 DEF Seals
  <2>2. ~IsOpen /\ ~Is(opening) /\ ~Is(draft.memory) /\ ~Is(draft.disk)
    BY <2>1 DEF Ledger
  <2>3. Ledger'
    BY <2>1, <2>2 DEF Ledger, Has, Is, IsOpen
  <2>4. AllHeld'
    BY <1>a, <2>1, <2>2 DEF AllHeld, Held, Has
  <2> QED BY <2>3, <2>4
<1>12. ASSUME NEW password \in BOOLEAN, OpenStarts(password) PROVE Ledger' /\ AllHeld'
  <2>1. AskedFor
    <3>1. Is(opening') /\ ~Is(opening)
      BY <1>12 DEF OpenStarts, Is, None
    <3>2. opening'.stage = "file"
      BY <1>12 DEF OpenStarts
    <3> QED BY <3>1, <3>2, OpeningMoves DEF OpeningMoved, ReadIn, Settled
  <2>2. Ledger'
    BY <2>1 DEF Ledger, AskedFor, Has, IsOpen
  <2>3. AllHeld'
    BY <2>1 DEF AllHeld, Held, Has, AskedFor, IsOpen
  <2> QED BY <2>2, <2>3
<1>13. ASSUME NEW readable \in BOOLEAN, OpenFile(readable) PROVE Ledger' /\ AllHeld'
  <2> DEFINE local == Local(readable)
             opens == Is(local) /\ local.key = opening.key
             lost == Is(local) /\ ~opens
  <2>1. /\ Is(opening) /\ opening.stage = "file" /\ ~Is(draft.sealing) /\ UNCHANGED <<tab, made>>
        /\ Drops(IF lost THEN local.content ELSE {})
    BY <1>13 DEF OpenFile, Ledger, Local
  <2>2. /\ Is(draft.memory) => local = draft.memory
        /\ Is(local) => local = draft.memory \/ (local = draft.disk /\ ~Is(draft.memory))
    BY DEF Local, Is
  <2>3. IsOpen => ~Is(draft.memory) /\ ~Is(draft.disk)
    BY <2>1 DEF Ledger, Memory
  <2>4. /\ draft'.sealing = draft.sealing /\ draft'.pending = draft.pending
        /\ \/ lost /\ draft'.disk = None /\ draft'.memory \in {None, draft.memory}
           \/ opens /\ draft'.memory = local /\ draft'.disk = draft.disk /\ Is(opening') /\ opening'.content = local.content
           \/ ~lost /\ ~opens /\ draft' = draft
        /\ Is(opening') => opening'.password = opening.password /\ (lost => draft'.memory = None)
    <3>1. CASE ~opens /\ srv.file # opening.key
      <4>1. opening' = None /\ draft' = IF lost THEN [draft EXCEPT !.disk = None] ELSE draft
        BY <1>13, <3>1 DEF OpenFile, Local
      <4> HIDE DEF local, opens, lost
      <4> QED BY <1>b, <3>1, <4>1 DEF Is
    <3>2. CASE ~(~opens /\ srv.file # opening.key)
      <4>1. /\ opening' = [stage |-> "settle", password |-> opening.password, env |-> opening.env, key |-> opening.key,
                           ver |-> IF opens THEN local.ver ELSE opening.ver,
                           content |-> IF opens THEN local.content ELSE srv.content,
                           dirty |-> opens /\ local.dirty, unread |-> ~Is(local) /\ Is(draft.disk)]
            /\ draft' = IF lost THEN [draft EXCEPT !.disk = None, !.memory = None]
                        ELSE IF opens THEN [draft EXCEPT !.memory = local] ELSE draft
        BY <1>13, <3>2 DEF OpenFile, Local
      <4>2. lost => ~opens
        OBVIOUS
      <4> HIDE DEF local, opens, lost
      <4>3. /\ opening'.password = opening.password /\ Is(opening')
            /\ opens => opening'.content = local.content
        BY <4>1 DEF Is, None
      <4>4. /\ draft'.sealing = draft.sealing /\ draft'.pending = draft.pending
            /\ lost => draft'.disk = None /\ draft'.memory = None
            /\ opens => draft'.memory = local /\ draft'.disk = draft.disk
            /\ ~lost /\ ~opens => draft' = draft
        BY <1>b, <4>1, <4>2
      <4> QED BY <4>2, <4>3, <4>4
    <3> QED BY <3>1, <3>2
  <2>5. opens \/ lost => Is(local)
    OBVIOUS
  <2>6. (~opens /\ ~lost => ~Is(local)) /\ ~(opens /\ lost)
    OBVIOUS
  <2>7. Is(opening') => opening'.stage = "settle"
    BY <1>13, ReadAt DEF ReadIn
  <2> HIDE DEF local, opens, lost
  <2>8. CASE lost
    <3>1. /\ draft'.disk = None /\ draft'.memory \in {None, draft.memory} /\ draft'.sealing = draft.sealing
          /\ Is(opening') => draft'.memory = None /\ opening'.password = opening.password
      BY <2>4, <2>6, <2>8
    <3>2. \A e : Has(draft.memory, e) \/ Has(draft.disk, e) => e \in local.content
      BY <2>2, <2>5, <2>8 DEF Ledger, Has
    <3>3. \A e \in made : Has(draft.memory, e) \/ Has(draft.disk, e) => e \in landed \/ e \in dropped'
      BY <1>a, <2>1, <2>8, <3>2, DropsAt
    <3>4. \A e : Has(draft.memory, e) => e \in landed \union dropped' \union OtherEdits
      BY <2>1, <2>8, <3>2 DEF Drops
    <3>5. Ledger'
      BY <1>a, <2>1, <2>3, <3>1, <3>4 DEF Ledger, Has, Is, IsOpen
    <3>6. AllHeld'
      BY <1>a, <2>1, <3>1, <3>3 DEF AllHeld, Held, Has, IsOpen
    <3> QED BY <3>5, <3>6
  <2>9. CASE opens
    <3>1. /\ draft'.memory = local /\ draft'.disk = draft.disk /\ draft'.sealing = draft.sealing
          /\ draft'.pending = draft.pending /\ opening'.content = local.content /\ Is(local)
          /\ opening'.password = opening.password /\ Is(opening')
      BY <2>4, <2>5, <2>6, <2>9
    <3>2. ~IsOpen
      BY <2>2, <2>3, <3>1
    <3>3. Ledger'
      BY <1>a, <2>1, <2>2, <3>1, <3>2 DEF Ledger, Has, Is, IsOpen
    <3>4. AllHeld'
      BY <1>a, <2>1, <2>2, <3>1, <3>2 DEF AllHeld, Held, Has, IsOpen
    <3> QED BY <3>3, <3>4
  <2>10. CASE ~opens /\ ~lost
    <3>1. draft' = draft /\ ~Is(draft.memory) /\ (Is(opening') => opening'.password = opening.password)
      BY <2>2, <2>4, <2>6, <2>10
    <3>2. Ledger'
      BY <1>a, <2>1, <3>1 DEF Ledger, Has, IsOpen
    <3>3. AllHeld'
      BY <1>a, <2>1, <3>1 DEF AllHeld, Held, Has, IsOpen
    <3> QED BY <3>2, <3>3
  <2> QED BY <2>8, <2>9, <2>10
<1>14. CASE OpenSettles
  <2>1. /\ Is(opening) /\ opening.stage = "settle" /\ UNCHANGED <<tab, made>>
        /\ draft' = draft \/ (Is(draft.memory) /\ draft' = [draft EXCEPT !.disk = None, !.pending = TRUE])
    BY <1>14 DEF OpenSettles
  <2>2. Settled
    <3>1. opening' = [opening EXCEPT !.stage = "apply"] /\ opening \in Opened
      BY <1>14, <2>1, OpeningAt DEF OpenSettles, Shapes
    <3>2. opening' \in Opened /\ opening'.stage = "apply"
      BY <3>1 DEF Opened
    <3>3. Is(opening') /\ opening' # opening
      BY <2>1, <3>2, Absent DEF Is
    <3> QED BY <3>2, <3>3, OpeningMoves DEF OpeningMoved, AskedFor, ReadIn
  <2>3. CASE draft' = draft
    <3>1. Ledger'
      BY <1>a, <2>1, <2>2, <2>3 DEF Ledger, Has, Settled, IsOpen
    <3>2. AllHeld'
      BY <1>a, <2>1, <2>3 DEF AllHeld, Held, Has, IsOpen
    <3> QED BY <3>1, <3>2
  <2>4. CASE Is(draft.memory) /\ draft' = [draft EXCEPT !.disk = None, !.pending = TRUE]
    <3>1. /\ draft'.sealing = draft.sealing /\ draft'.memory = draft.memory /\ draft'.disk = None
          /\ draft'.pending = TRUE
      BY <1>b, <2>4
    <3>2. Ledger'
      BY <1>a, <2>1, <2>2, <2>4, <3>1 DEF Ledger, Has, Settled, IsOpen, Is
    <3>3. AllHeld'
      BY <1>a, <2>1, <2>4, <3>1 DEF AllHeld, Held, Has, IsOpen, Ledger
    <3> QED BY <3>2, <3>3
  <2> QED BY <2>1, <2>3, <2>4
<1>15. CASE OpenApplies
  <2>1. /\ Is(opening) /\ opening.stage = "apply" /\ ~Is(opening') /\ made' = made /\ Drops(InTab)
        /\ draft' = [draft EXCEPT !.memory = None, !.pending = opening.unread]
        /\ tab' = [content |-> opening.content, exports |-> opening.key, key |-> opening.key]
    BY <1>15 DEF OpenApplies, Is
  <2>2. draft'.sealing = draft.sealing /\ draft'.memory = None /\ draft'.disk = draft.disk
    BY <1>b, <2>1
  <2>3. IsOpen' /\ tab'.content = opening.content
    BY <2>1 DEF IsOpen, Is, None
  <2>4. \A e : Has(draft.memory, e) => e \in tab'.content
    BY <2>1, <2>3 DEF Ledger, Has
  <2>5. \A e \in made : IsOpen /\ e \in tab.content => e \in landed \/ e \in dropped'
    BY <1>a, <2>1, DropsAt DEF InTab
  <2>6. Ledger'
    BY <2>1, <2>2, <2>3 DEF Ledger, Is
  <2>7. AllHeld'
    BY <1>a, <2>1, <2>2, <2>3, <2>4, <2>5 DEF AllHeld, Held, Has
  <2> QED BY <2>6, <2>7
<1> QED
  BY <1>2, <1>3, <1>4, <1>5, <1>6, <1>7, <1>8, <1>9, <1>10, <1>11, <1>12, <1>13, <1>14, <1>15, Zenon
     DEF Next, Saving, Rotating

\* No edit of this tab vanishes: it is in a version the server committed, in the
\* open vault, in a checkpoint the next unlock reads, or the user was asked, or told,
\* before it went (the lock, the checkpoints of lockedDraft.ts, initVault).
THEOREM EditsAccounted == {"rotate", "unread"} \subseteq Careful => (Spec => []EditAccounted)
<1> SUFFICES ASSUME {"rotate", "unread"} \subseteq Careful PROVE Spec => []EditAccounted
  OBVIOUS
<1> DEFINE Inv == Based /\ Memory /\ Saved /\ Ledger /\ AllHeld
<1>1. Init => Inv
  <2>1. Init => /\ srv.content = {} /\ ~IsOpen /\ ~Is(up) /\ ~Is(rot) /\ ~Is(opening) /\ Kept = {} /\ made = {}
                /\ ~Is(draft.memory) /\ ~Is(draft.sealing)
    BY DEF Init, IsOpen, Is, Kept
  <2> QED BY <2>1, BasedInit DEF Memory, Saved, Stored, Sent, Live, Ledger, AllHeld
<1>2. Inv /\ [Next]_vars => Inv'
  <2> SUFFICES ASSUME Inv, [Next]_vars PROVE Inv'
    OBVIOUS
  <2>1. "rotate" \in Careful /\ "unread" \in Careful
    OBVIOUS
  <2>2. Based' /\ Memory' /\ Saved'
    BY <2>1, BasedStep, MemoryStep, SavedStep DEF Based
  <2>3. Ledger' /\ AllHeld'
    BY <2>2, LedgerStep DEF Based
  <2> QED BY <2>2, <2>3
<1>3. Inv => EditAccounted
  BY AccountedFor
<1> HIDE DEF Inv
<1> QED BY <1>1, <1>2, <1>3, PTL DEF Spec
====
