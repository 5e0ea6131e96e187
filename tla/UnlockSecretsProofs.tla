---- MODULE UnlockSecretsProofs ----
(* What UnlockSecrets keeps for every set of devices and every bound: the stored
   envelopes hold the key of the stored file, and a paper code on the screen is one
   the server has kept. Both follow from what a request knows: a version and the key
   that was the file's at that version. From the same knowledge of a rotation, and
   because keys are only drawn upwards, follows that a device with a retired key is
   named on the page that reports the rotation. *)
EXTENDS UnlockSecrets, TLAPS

Envelope == [secret : Nat, key : Nat]
Kinds == {"change", "paper", "reveal", "rotate"}
Sent == Kinds \ {"reveal"}
Stages == {"confirm", "prove", "send", "sent", "landed", "refused", "ask", "list", "revoke"}

Server == [ver : Nat, file : Nat, pw : Envelope, rec : Envelope]
Tab == [key : Nat, ver : Nat, unsaved : BOOLEAN]
Page == [devs : SUBSET Devices, rows : SUBSET Devices, left : SUBSET Devices,
         code : Nat, bare : BOOLEAN, rotated : BOOLEAN]
Handler == [kind : Kinds, stage : Stages, typed : Nat, secret : Nat, code : Nat,
            key : Nat, ver : Nat, list : SUBSET Devices, alive : BOOLEAN, live : BOOLEAN]
Requests == [kind : Sent, ver : Nat, secret : Nat, code : Nat, key : Nat]

TypeOK ==
  /\ srv \in Server
  /\ tab \in Tab \union {None}
  /\ page \in Page \union {None}
  /\ op \in Handler \union {None}
  /\ wire \subseteq Requests
  /\ made \in [secret : Nat, key : Nat]

\* A page belongs to an open vault, and a handler whose page is mounted to that page.
Attached ==
  /\ Is(page) => Is(tab)
  /\ Is(op) => /\ op.alive => Is(page)
               /\ op.live => Is(tab)
               /\ op.stage = "confirm" => op.alive
               /\ IF op.stage \in {"confirm", "prove"} THEN op.typed # 0 ELSE op.kind \in Sent

\* A request for one envelope carries the key the file had at the version it names.
KnowsKey(r) == r.ver <= srv.ver /\ (r.ver = srv.ver => r.key = srv.file)

RequestsKnowKey ==
  /\ \A r \in wire : r.kind # "rotate" => KnowsKey(r)
  /\ Is(op) /\ op.stage \in {"send", "sent"} /\ op.kind # "rotate" => KnowsKey(op)

\* A code past the request that carries it is one the server has kept.
CodesKept ==
  /\ CodeShownWasKept
  /\ srv.rec.secret # 0 => srv.rec.secret \in stored
  /\ Is(op) /\ op.stage \in {"landed", "list", "revoke"} /\ op.code # 0 => op.code \in stored

IInv ==
  /\ TypeOK /\ Attached
  /\ EnvelopesOpenTheFile /\ RequestsKnowKey
  /\ CodesKept
\* What a request that the server takes leaves there.
LEMMA Kept ==
  ASSUME TypeOK, EnvelopesOpenTheFile, NEW r, r.kind \in Sent,
         r.secret \in Nat, r.code \in Nat, r.key \in Nat,
         r.ver = srv.ver, r.kind # "rotate" => KnowsKey(r), Keeps(r)
  PROVE  /\ srv' \in Server
         /\ EnvelopesOpenTheFile'
         /\ srv'.ver >= srv.ver /\ (srv'.ver = srv.ver => srv'.file = srv.file)
         /\ srv'.rec.secret \in {srv.rec.secret, r.code}
         /\ stored' = stored \union ({r.secret, r.code} \ {0})
<1> USE DEF TypeOK, EnvelopesOpenTheFile, Server, Envelope, Keeps, Env
<1>1. CASE r.kind = "change"
  BY <1>1 DEF KnowsKey
<1>2. CASE r.kind = "paper"
  BY <1>2 DEF KnowsKey
<1>3. CASE r.kind = "rotate"
  BY <1>3 DEF RotatesTo
<1> QED BY <1>1, <1>2, <1>3 DEF Sent, Kinds

\* A state of the server that a session has read stays behind it or stays as read.
LEMMA KeyStaysKnown ==
  ASSUME TypeOK, srv' \in Server, NEW r, r.ver \in Nat, KnowsKey(r),
         srv'.ver >= srv.ver, srv'.ver = srv.ver => srv'.file = srv.file
  PROVE  r.ver <= srv'.ver /\ (r.ver = srv'.ver => r.key = srv'.file)
BY DEF TypeOK, Server, KnowsKey

\* The tab keeps its type with the fields a step changes.
LEMMA TabAgain ==
  ASSUME NEW t \in Tab, NEW v \in Nat, NEW u \in BOOLEAN
  PROVE  [t EXCEPT !.ver = v, !.unsaved = u] \in Tab
BY DEF Tab

\* A handler keeps its type as it sends its request.
LEMMA HandlerSends ==
  ASSUME NEW h \in Handler, NEW v \in Nat, NEW c \in Nat, NEW k \in Nat, NEW t \in Nat
  PROVE  [h EXCEPT !.stage = "send", !.typed = 0, !.ver = v, !.code = c, !.key = k, !.secret = t] \in Handler
BY DEF Handler, Stages

\* An absent page, handler or tab is none of those there are.
LEMMA Absent == None \notin Page /\ None \notin Handler /\ None \notin Tab
BY DEF None, Page, Handler, Tab

\* Every step keeps the types.
LEMMA TypeStep == IInv /\ [Next]_vars => TypeOK'
<1> SUFFICES ASSUME IInv, [Next]_vars PROVE TypeOK'
    OBVIOUS
<1> USE DEF IInv, TypeOK, Server, Tab, Page, Handler, Requests, Envelope, Kinds, Sent, Stages, Is, None, Attached
<1>1. CASE OtherSaves
  BY <1>1 DEF OtherSaves
<1>2. CASE OtherRotates
  BY <1>2 DEF OtherRotates, RotatesTo, Env, NewSecret, MayDraw
<1>3. ASSUME NEW paper \in BOOLEAN, OtherChanges(paper) PROVE TypeOK'
  BY <1>3 DEF OtherChanges, Env, NewSecret, MayDraw
<1>4. ASSUME NEW d \in Devices, Pairs(d) PROVE TypeOK'
  BY <1>4 DEF Pairs
<1>5. ASSUME NEW d \in Devices, RevokesOne(d) PROVE TypeOK'
  BY <1>5 DEF RevokesOne, Tried, On, Without
<1>6. ASSUME NEW d \in Devices, EndsSession(d) PROVE TypeOK'
  <2>1. page \in Page
    BY <1>6 DEF EndsSession, On
  <2>2. page' \in Page
    <3>1. Ended(d) \in Page
      BY <2>1 DEF Ended, Paired
    <3> QED BY <1>6, <2>1, <3>1 DEF EndsSession, Tried
  <2> QED BY <1>6, <2>2 DEF EndsSession, Tried
<1>7. ASSUME NEW s \in 1..made.secret, Unlock(s) PROVE TypeOK'
  BY <1>7 DEF Unlock, Opens
<1>8. CASE Lock
  BY <1>8 DEF Lock, Gone, Busy
<1>9. CASE EntersPage
  BY <1>9 DEF EntersPage, Mounted, Busy, Paired
<1>10. CASE LeavesPage
  BY <1>10 DEF LeavesPage, Gone, Busy
<1>11. CASE Edit
  BY <1>11 DEF Edit
<1>12. CASE Settles
  <2>1. tab \in Tab
    BY <1>12 DEF Settles
  <2>2. tab' \in Tab
    <3>1. \/ tab' = [tab EXCEPT !.ver = tab.ver + 1, !.unsaved = FALSE]
          \/ tab' = [tab EXCEPT !.ver = srv.ver, !.unsaved = FALSE]
      BY <1>12 DEF Settles
    <3>2. [tab EXCEPT !.ver = tab.ver + 1, !.unsaved = FALSE] \in Tab
      <4>1. tab.ver + 1 \in Nat
        BY <2>1
      <4> QED BY <2>1, <4>1, TabAgain
    <3>3. [tab EXCEPT !.ver = srv.ver, !.unsaved = FALSE] \in Tab
      BY <2>1
    <3> QED BY <3>1, <3>2, <3>3
  <2>3. srv' \in Server
    BY <1>12, <2>1 DEF Settles
  <2> QED BY <1>12, <2>2, <2>3 DEF Settles
<1>13. ASSUME NEW s \in 1..made.secret, ChangeStarts(s) PROVE TypeOK'
  BY <1>13 DEF ChangeStarts, Starts, Asking, Busy
<1>14. ASSUME NEW s \in 1..made.secret, PaperStarts(s) PROVE TypeOK'
  BY <1>14 DEF PaperStarts, Starts, Asking, Busy
<1>15. ASSUME NEW s \in 1..made.secret, RevealStarts(s) PROVE TypeOK'
  BY <1>15 DEF RevealStarts, Starts, Asking, Busy, On
<1>16. ASSUME NEW s \in 1..made.secret, RotateStarts(s) PROVE TypeOK'
  BY <1>16 DEF RotateStarts, Starts, Asking, Busy, On
<1>17. ASSUME NEW yes \in BOOLEAN, Confirms(yes) PROVE TypeOK'
  BY <1>17 DEF Confirms
<1>18. CASE Proves
  <2>1. op \in Handler /\ page \in Page
    BY <1>18 DEF Proves
  <2>2. page' \in Page
    BY <1>18, <2>1 DEF Proves, ProofShows
  <2>3. made' \in [secret : Nat, key : Nat]
    BY <1>18 DEF Proves, NewSecret
  <2>4. op' \in Handler \union {None}
    <3>1. PICK c \in Nat, k \in Nat, t \in Nat :
            op' \in {None, [op EXCEPT !.stage = "send", !.typed = 0, !.ver = srv.ver, !.code = c, !.key = k, !.secret = t]}
      <4> DEFINE c == IF op.kind \in {"paper", "rotate"} THEN NewSecret ELSE 0
                 k == IF op.kind = "rotate" THEN made.key + 1 ELSE op.key
                 t == CASE op.kind = "change" -> NewSecret
                        [] op.kind = "rotate" -> op.typed
                        [] OTHER -> 0
      <4>1. c \in Nat /\ k \in Nat /\ t \in Nat
        BY <2>1 DEF NewSecret
      <4>2. op' \in {None, [op EXCEPT !.stage = "send", !.typed = 0, !.ver = srv.ver, !.code = c, !.key = k, !.secret = t]}
        BY <1>18, ZenonT(30) DEF Proves
      <4> HIDE DEF c, k, t
      <4> QED BY <4>1, <4>2
    <3>2. srv.ver \in Nat
      OBVIOUS
    <3>3. [op EXCEPT !.stage = "send", !.typed = 0, !.ver = srv.ver, !.code = c, !.key = k, !.secret = t] \in Handler
      BY <2>1, <3>2, HandlerSends
    <3> HIDE DEF Handler
    <3> QED BY <3>1, <3>3
  <2> QED BY <1>18, <2>2, <2>3, <2>4 DEF Proves
<1>19. CASE ProofFails
  BY <1>19 DEF ProofFails
<1>20. CASE Sends
  BY <1>20 DEF Sends, MaySend
<1>21. CASE Arrives
  <2>1. op \in Handler
    BY <1>21 DEF Arrives
  <2>2. op' \in Handler
    BY <1>21, <2>1 DEF Arrives
  <2>3. srv' \in Server
    <3>1. CASE Taken(op)
      BY <1>21, <2>1, <3>1, Kept DEF Arrives, Taken, RequestsKnowKey
    <3>2. CASE ~Taken(op)
      BY <1>21, <3>2 DEF Arrives
    <3> QED BY <3>1, <3>2
  <2> QED BY <1>21, <2>2, <2>3 DEF Arrives
<1>22. CASE WireArrives
  <2>1. PICK r \in wire : /\ wire' = wire \ {r}
                          /\ IF Taken(r) THEN Keeps(r) ELSE UNCHANGED srv
    BY <1>22 DEF WireArrives
  <2>2. r \in Requests
    BY <2>1
  <2>3. srv' \in Server
    <3>1. CASE Taken(r)
      BY <2>1, <2>2, <3>1, Kept DEF Taken, RequestsKnowKey
    <3>2. CASE ~Taken(r)
      BY <2>1, <3>2
    <3> QED BY <3>1, <3>2
  <2> QED BY <1>22, <2>1, <2>3 DEF WireArrives
<1>23. CASE Loses
  BY <1>23 DEF Loses, Request
<1>24. CASE Refused
  BY <1>24 DEF Refused
<1>25. CASE Changed
  BY <1>25 DEF Changed
<1>26. CASE Coded
  BY <1>26 DEF Coded
<1>27. CASE RotationEnds
  BY <1>27 DEF RotationEnds, Rotated
<1>28. CASE RotationAsks
  <2>1. op \in Handler
    BY <1>28 DEF RotationAsks
  <2>2. op' \in Handler \union {None}
    BY <1>28, <2>1 DEF RotationAsks, Rotated
  <2>3. tab' \in Tab \union {None}
    <3>1. [key |-> op.key, ver |-> op.ver + 1, unsaved |-> FALSE] \in Tab
      BY <2>1
    <3> QED BY <1>28, <3>1 DEF RotationAsks, Rotated
  <2>4. page' \in Page \union {None}
    BY <1>28 DEF RotationAsks, Rotated
  <2> QED BY <1>28, <2>2, <2>3, <2>4 DEF RotationAsks
<1>29. CASE Lists
  <2>1. op \in Handler /\ (op.alive => page \in Page)
    BY <1>29 DEF Lists
  <2>2. op' \in Handler
    <3>1. CASE op' = [op EXCEPT !.stage = "revoke", !.list = Paired]
      BY <2>1, <3>1 DEF Paired
    <3>2. CASE op.alive /\ op' = [op EXCEPT !.stage = "revoke", !.list = page.devs]
      BY <2>1, <3>2
    <3> QED BY <1>29, <3>1, <3>2 DEF Lists
  <2>3. page' \in Page \union {None}
    BY <1>29, <2>1 DEF Lists
  <2> QED BY <1>29, <2>2, <2>3 DEF Lists
<1>30. CASE RotationRevokes
  <2>1. op \in Handler /\ (op.alive => page \in Page)
    BY <1>30 DEF RotationRevokes
  <2>2. page' \in Page \union {None}
    <3>1. PICK failed \in SUBSET op.list :
            page' = IF op.alive THEN [Named(op.list, failed) EXCEPT !.rotated = TRUE] ELSE page
      BY <1>30 DEF RotationRevokes
    <3>2. CASE op.alive
      BY <2>1, <3>1, <3>2 DEF Named, Remaining
    <3> QED BY <3>1, <3>2
  <2> QED BY <1>30, <2>2 DEF RotationRevokes
<1>31. CASE RetryRevoking
  <2>1. page \in Page
    BY <1>31 DEF RetryRevoking, On
  <2>2. page' \in Page
    <3>1. PICK failed \in SUBSET page.left : page' = Named(page.left, failed)
      BY <1>31 DEF RetryRevoking
    <3> QED BY <2>1, <3>1 DEF Named, Remaining
  <2> QED BY <1>31, <2>2 DEF RetryRevoking
<1>32. CASE RevokesOthers
  BY <1>32 DEF RevokesOthers, On
<1>33. CASE Reloads
  BY <1>33 DEF Reloads, Paired, On
<1>34. CASE Hides
  <2>1. page \in Page
    BY <1>34 DEF Hides, On
  <2>2. page' \in Page
    <3>1. [page EXCEPT !.code = 0] \in Page /\ [page EXCEPT !.bare = FALSE] \in Page
      BY <2>1
    <3> QED BY <1>34, <3>1 DEF Hides
  <2> QED BY <1>34, <2>2 DEF Hides
<1>35. CASE UNCHANGED vars
  BY <1>35 DEF vars
<1> QED BY <1>1, <1>2, <1>3, <1>4, <1>5, <1>6, <1>7, <1>8, <1>9, <1>10, <1>11, <1>12, <1>13, <1>14, <1>15, <1>16, <1>17, <1>18, <1>19, <1>20, <1>21, <1>22, <1>23, <1>24, <1>25, <1>26, <1>27, <1>28, <1>29, <1>30, <1>31, <1>32, <1>33, <1>34, <1>35 DEF Next

\* A page with other things on it is still a page.
LEMMA Mount ==
  ASSUME NEW p \in Page, NEW c, NEW b
  PROVE  /\ Is(p) /\ Is([p EXCEPT !.code = c]) /\ Is([p EXCEPT !.bare = b])
         /\ Is([p EXCEPT !.code = c, !.bare = b])
<1> DEFINE Fields == {"devs", "rows", "left", "code", "bare", "rotated"}
<1>1. DOMAIN p = Fields /\ DOMAIN None = {"none"}
  BY DEF Page, None
<1>2. /\ DOMAIN [p EXCEPT !.code = c] = Fields /\ DOMAIN [p EXCEPT !.bare = b] = Fields
      /\ DOMAIN [p EXCEPT !.code = c, !.bare = b] = Fields
  BY <1>1
<1>3. "devs" \in Fields /\ "devs" \notin {"none"}
  OBVIOUS
<1> HIDE DEF Fields
<1> QED BY <1>1, <1>2, <1>3 DEF Is

\* Every step keeps a mounted page's handler attached to an open vault.
LEMMA AttachedStep == IInv /\ [Next]_vars => Attached'
<1> SUFFICES ASSUME IInv, [Next]_vars PROVE Attached'
    OBVIOUS
<1> USE DEF IInv, TypeOK, Server, Tab, Page, Handler, Requests, Envelope, Kinds, Sent, Stages, Is, None, Attached
<1>1. CASE OtherSaves
  BY <1>1 DEF OtherSaves
<1>2. CASE OtherRotates
  BY <1>2 DEF OtherRotates, RotatesTo, Env, NewSecret, MayDraw
<1>3. ASSUME NEW paper \in BOOLEAN, OtherChanges(paper) PROVE Attached'
  BY <1>3 DEF OtherChanges, Env, NewSecret, MayDraw
<1>4. ASSUME NEW d \in Devices, Pairs(d) PROVE Attached'
  BY <1>4 DEF Pairs
<1>5. ASSUME NEW d \in Devices, RevokesOne(d) PROVE Attached'
  BY <1>5 DEF RevokesOne, Tried, On, Without
<1>6. ASSUME NEW d \in Devices, EndsSession(d) PROVE Attached'
  BY <1>6 DEF EndsSession, Tried, On, Ended, Without, Paired
<1>7. ASSUME NEW s \in 1..made.secret, Unlock(s) PROVE Attached'
  BY <1>7 DEF Unlock, Opens
<1>8. CASE Lock
  BY <1>8 DEF Lock, Gone, Busy
<1>9. CASE EntersPage
  BY <1>9 DEF EntersPage, Mounted, Busy, Paired
<1>10. CASE LeavesPage
  BY <1>10 DEF LeavesPage, Gone, Busy
<1>11. CASE Edit
  BY <1>11 DEF Edit
<1>12. CASE Settles
  BY <1>12 DEF Settles
<1>13. ASSUME NEW s \in 1..made.secret, ChangeStarts(s) PROVE Attached'
  BY <1>13 DEF ChangeStarts, Starts, Asking, Busy
<1>14. ASSUME NEW s \in 1..made.secret, PaperStarts(s) PROVE Attached'
  BY <1>14 DEF PaperStarts, Starts, Asking, Busy
<1>15. ASSUME NEW s \in 1..made.secret, RevealStarts(s) PROVE Attached'
  BY <1>15 DEF RevealStarts, Starts, Asking, Busy, On
<1>16. ASSUME NEW s \in 1..made.secret, RotateStarts(s) PROVE Attached'
  BY <1>16 DEF RotateStarts, Starts, Asking, Busy, On
<1>17. ASSUME NEW yes \in BOOLEAN, Confirms(yes) PROVE Attached'
  BY <1>17 DEF Confirms
<1>18. CASE Proves
  <2>1. op \in Handler /\ op.stage = "prove" /\ op.alive /\ page \in Page /\ UNCHANGED tab
    BY <1>18 DEF Proves
  <2>2. Is(page')
    <3>1. page' \in {page, ProofShows}
      BY <1>18 DEF Proves
    <3>2. ProofShows \in {page, [page EXCEPT !.bare = TRUE], [page EXCEPT !.code = 0], [page EXCEPT !.code = 0, !.bare = FALSE]}
      BY <2>1 DEF ProofShows
    <3>3. \A x \in {page, [page EXCEPT !.bare = TRUE], [page EXCEPT !.code = 0], [page EXCEPT !.code = 0, !.bare = FALSE]} : x # None
      BY <2>1, Mount
    <3>4. page' # None
      BY <3>1, <3>2, <3>3
    <3> QED BY <3>4
  <2>3. CASE op' = None
    BY <2>1, <2>2, <2>3
  <2>4. CASE op' # None
    <3>1. Proven /\ op.kind \in Sent
      BY <1>18, <2>1, <2>4 DEF Proves
    <3>2. PICK v, c, k, t : op' = [op EXCEPT !.stage = "send", !.typed = 0, !.ver = v, !.code = c, !.key = k, !.secret = t]
      BY <1>18, <3>1 DEF Proves
    <3>3. /\ op'.stage = "send" /\ op'.kind = op.kind
          /\ op'.alive = op.alive /\ op'.live = op.live
      BY <2>1, <3>2
    <3> QED BY <2>1, <2>2, <3>1, <3>3
  <2> QED BY <2>3, <2>4
<1>19. CASE ProofFails
  BY <1>19 DEF ProofFails
<1>20. CASE Sends
  BY <1>20 DEF Sends, MaySend
<1>21. CASE Arrives
  <2>1. op \in Handler /\ op.stage = "sent" /\ UNCHANGED <<tab, page>>
    BY <1>21 DEF Arrives
  <2>2. PICK s \in {"landed", "ask", "refused"} : op' = [op EXCEPT !.stage = s]
    BY <1>21 DEF Arrives
  <2>3. /\ op'.stage = s /\ op'.kind = op.kind
        /\ op'.alive = op.alive /\ op'.live = op.live
    BY <2>1, <2>2
  <2> QED BY <2>1, <2>3
<1>22. CASE WireArrives
  BY <1>22 DEF WireArrives, Taken, Keeps, RotatesTo, Env
<1>23. CASE Loses
  BY <1>23 DEF Loses, Request
<1>24. CASE Refused
  BY <1>24 DEF Refused
<1>25. CASE Changed
  BY <1>25 DEF Changed
<1>26. CASE Coded
  BY <1>26 DEF Coded
<1>27. CASE RotationEnds
  BY <1>27 DEF RotationEnds, Rotated
<1>28. CASE RotationAsks
  BY <1>28 DEF RotationAsks, Rotated, AnswerFound, Ours, Env
<1>29. CASE Lists
  <2>1. op \in Handler /\ op.stage = "list" /\ UNCHANGED tab
    BY <1>29 DEF Lists
  <2>2. PICK list : op' = [op EXCEPT !.stage = "revoke", !.list = list]
    BY <1>29 DEF Lists
  <2>3. /\ op'.stage = "revoke" /\ op'.kind = op.kind
        /\ op'.alive = op.alive /\ op'.live = op.live
    BY <2>1, <2>2
  <2>4. IF op.alive THEN page \in Page /\ page' = [page EXCEPT !.code = op.code] ELSE page' = page
    BY <1>29, <2>1 DEF Lists
  <2>5. Is(page') <=> Is(page)
    BY <2>4, Mount
  <2> QED BY <2>1, <2>3, <2>5
<1>30. CASE RotationRevokes
  BY <1>30 DEF RotationRevokes, Named, Remaining, RevokesAll, Paired
<1>31. CASE RetryRevoking
  BY <1>31 DEF RetryRevoking, Named, Remaining, RevokesAll, Paired, On, Busy
<1>32. CASE RevokesOthers
  BY <1>32 DEF RevokesOthers, On
<1>33. CASE Reloads
  BY <1>33 DEF Reloads, Paired, On
<1>34. CASE Hides
  BY <1>34 DEF Hides, On
<1>35. CASE UNCHANGED vars
  BY <1>35 DEF vars
<1> QED BY <1>1, <1>2, <1>3, <1>4, <1>5, <1>6, <1>7, <1>8, <1>9, <1>10, <1>11, <1>12, <1>13, <1>14, <1>15, <1>16, <1>17, <1>18, <1>19, <1>20, <1>21, <1>22, <1>23, <1>24, <1>25, <1>26, <1>27, <1>28, <1>29, <1>30, <1>31, <1>32, <1>33, <1>34, <1>35 DEF Next

\* Every step leaves the envelopes with the file's key, and what is under way with
\* the key it knew.
LEMMA EnvStep == IInv /\ [Next]_vars => (EnvelopesOpenTheFile /\ RequestsKnowKey)'
<1> SUFFICES ASSUME IInv, [Next]_vars PROVE (EnvelopesOpenTheFile /\ RequestsKnowKey)'
    OBVIOUS
<1> USE DEF IInv, TypeOK, Server, Tab, Page, Handler, Requests, Envelope, Kinds, Sent, Stages, Is, None, Attached, EnvelopesOpenTheFile, RequestsKnowKey, KnowsKey
<1>1. CASE OtherSaves
  BY <1>1 DEF OtherSaves
<1>2. CASE OtherRotates
  BY <1>2 DEF OtherRotates, RotatesTo, Env, NewSecret, MayDraw
<1>3. ASSUME NEW paper \in BOOLEAN, OtherChanges(paper) PROVE (EnvelopesOpenTheFile /\ RequestsKnowKey)'
  BY <1>3 DEF OtherChanges, Env, NewSecret, MayDraw
<1>4. ASSUME NEW d \in Devices, Pairs(d) PROVE (EnvelopesOpenTheFile /\ RequestsKnowKey)'
  BY <1>4 DEF Pairs
<1>5. ASSUME NEW d \in Devices, RevokesOne(d) PROVE (EnvelopesOpenTheFile /\ RequestsKnowKey)'
  BY <1>5 DEF RevokesOne, Tried, On, Without
<1>6. ASSUME NEW d \in Devices, EndsSession(d) PROVE (EnvelopesOpenTheFile /\ RequestsKnowKey)'
  BY <1>6 DEF EndsSession, Tried, On, Ended, Without, Paired
<1>7. ASSUME NEW s \in 1..made.secret, Unlock(s) PROVE (EnvelopesOpenTheFile /\ RequestsKnowKey)'
  BY <1>7 DEF Unlock, Opens
<1>8. CASE Lock
  BY <1>8 DEF Lock, Gone, Busy
<1>9. CASE EntersPage
  BY <1>9 DEF EntersPage, Mounted, Busy, Paired
<1>10. CASE LeavesPage
  BY <1>10 DEF LeavesPage, Gone, Busy
<1>11. CASE Edit
  BY <1>11 DEF Edit
<1>12. CASE Settles
  BY <1>12 DEF Settles
<1>13. ASSUME NEW s \in 1..made.secret, ChangeStarts(s) PROVE (EnvelopesOpenTheFile /\ RequestsKnowKey)'
  BY <1>13 DEF ChangeStarts, Starts, Asking, Busy
<1>14. ASSUME NEW s \in 1..made.secret, PaperStarts(s) PROVE (EnvelopesOpenTheFile /\ RequestsKnowKey)'
  BY <1>14 DEF PaperStarts, Starts, Asking, Busy
<1>15. ASSUME NEW s \in 1..made.secret, RevealStarts(s) PROVE (EnvelopesOpenTheFile /\ RequestsKnowKey)'
  BY <1>15 DEF RevealStarts, Starts, Asking, Busy, On
<1>16. ASSUME NEW s \in 1..made.secret, RotateStarts(s) PROVE (EnvelopesOpenTheFile /\ RequestsKnowKey)'
  BY <1>16 DEF RotateStarts, Starts, Asking, Busy, On
<1>17. ASSUME NEW yes \in BOOLEAN, Confirms(yes) PROVE (EnvelopesOpenTheFile /\ RequestsKnowKey)'
  BY <1>17 DEF Confirms
<1>18. CASE Proves
  BY <1>18 DEF Proves, ProofShows, Proven, Proving, NewSecret, MayDraw
<1>19. CASE ProofFails
  BY <1>19 DEF ProofFails
<1>20. CASE Sends
  BY <1>20 DEF Sends, MaySend
<1>21. CASE Arrives
  <2>1. op \in Handler /\ op.kind \in Sent
    BY <1>21 DEF Arrives
  <2>2. wire' = wire /\ op'.stage \in {"landed", "ask", "refused"}
    BY <1>21, <2>1 DEF Arrives
  <2>3. CASE Taken(op)
    BY <1>21, <2>1, <2>2, <2>3, Kept, KeyStaysKnown DEF Arrives, Taken
  <2>4. CASE ~Taken(op)
    BY <1>21, <2>2, <2>4 DEF Arrives
  <2> QED BY <2>3, <2>4
<1>22. CASE WireArrives
  <2>1. PICK r \in wire : /\ wire' = wire \ {r}
                          /\ IF Taken(r) THEN Keeps(r) ELSE UNCHANGED srv
    BY <1>22 DEF WireArrives
  <2>2. r \in Requests /\ op' = op
    BY <1>22, <2>1 DEF WireArrives
  <2>3. CASE Taken(r)
    <3>1. /\ srv' \in Server
          /\ EnvelopesOpenTheFile'
          /\ srv'.ver >= srv.ver /\ (srv'.ver = srv.ver => srv'.file = srv.file)
      BY <2>1, <2>2, <2>3, Kept DEF Taken
    <3>2. \A q \in wire : q.kind # "rotate" => KnowsKey(q)'
      BY <3>1, KeyStaysKnown
    <3>3. Is(op) /\ op.stage \in {"send", "sent"} /\ op.kind # "rotate" => KnowsKey(op)'
      <4>1. CASE Is(op)
        BY <2>2, <3>1, <4>1, KeyStaysKnown
      <4> QED BY <4>1
    <3> QED BY <2>1, <2>2, <3>1, <3>2, <3>3
  <2>4. CASE ~Taken(r)
    BY <2>1, <2>2, <2>4
  <2> QED BY <2>3, <2>4
<1>23. CASE Loses
  BY <1>23 DEF Loses, Request
<1>24. CASE Refused
  BY <1>24 DEF Refused
<1>25. CASE Changed
  BY <1>25 DEF Changed
<1>26. CASE Coded
  BY <1>26 DEF Coded
<1>27. CASE RotationEnds
  BY <1>27 DEF RotationEnds, Rotated
<1>28. CASE RotationAsks
  BY <1>28 DEF RotationAsks, Rotated, AnswerFound, Ours, Env
<1>29. CASE Lists
  BY <1>29 DEF Lists, Paired
<1>30. CASE RotationRevokes
  BY <1>30 DEF RotationRevokes, Named, Remaining, RevokesAll, Paired
<1>31. CASE RetryRevoking
  BY <1>31 DEF RetryRevoking, Named, Remaining, RevokesAll, Paired, On, Busy
<1>32. CASE RevokesOthers
  BY <1>32 DEF RevokesOthers, On
<1>33. CASE Reloads
  BY <1>33 DEF Reloads, Paired, On
<1>34. CASE Hides
  BY <1>34 DEF Hides, On
<1>35. CASE UNCHANGED vars
  BY <1>35 DEF vars
<1> QED BY <1>1, <1>2, <1>3, <1>4, <1>5, <1>6, <1>7, <1>8, <1>9, <1>10, <1>11, <1>12, <1>13, <1>14, <1>15, <1>16, <1>17, <1>18, <1>19, <1>20, <1>21, <1>22, <1>23, <1>24, <1>25, <1>26, <1>27, <1>28, <1>29, <1>30, <1>31, <1>32, <1>33, <1>34, <1>35 DEF Next

\* No step shows, or carries past its request, a code that was not kept.
LEMMA CodesStep == IInv /\ [Next]_vars => CodesKept'
<1> SUFFICES ASSUME IInv, [Next]_vars PROVE CodesKept'
    OBVIOUS
<1> USE DEF IInv, TypeOK, Server, Tab, Page, Handler, Requests, Envelope, Kinds, Sent, Stages, Is, None, Attached, CodesKept, CodeShownWasKept, On
<1>1. CASE OtherSaves
  BY <1>1 DEF OtherSaves
<1>2. CASE OtherRotates
  BY <1>2 DEF OtherRotates, RotatesTo, Env, NewSecret, MayDraw
<1>3. ASSUME NEW paper \in BOOLEAN, OtherChanges(paper) PROVE CodesKept'
  BY <1>3 DEF OtherChanges, Env, NewSecret, MayDraw
<1>4. ASSUME NEW d \in Devices, Pairs(d) PROVE CodesKept'
  BY <1>4 DEF Pairs
<1>5. ASSUME NEW d \in Devices, RevokesOne(d) PROVE CodesKept'
  BY <1>5 DEF RevokesOne, Tried, On, Without
<1>6. ASSUME NEW d \in Devices, EndsSession(d) PROVE CodesKept'
  BY <1>6 DEF EndsSession, Tried, On, Ended, Without, Paired
<1>7. ASSUME NEW s \in 1..made.secret, Unlock(s) PROVE CodesKept'
  BY <1>7 DEF Unlock, Opens
<1>8. CASE Lock
  BY <1>8 DEF Lock, Gone, Busy
<1>9. CASE EntersPage
  BY <1>9 DEF EntersPage, Mounted, Busy, Paired
<1>10. CASE LeavesPage
  BY <1>10 DEF LeavesPage, Gone, Busy
<1>11. CASE Edit
  BY <1>11 DEF Edit
<1>12. CASE Settles
  BY <1>12 DEF Settles
<1>13. ASSUME NEW s \in 1..made.secret, ChangeStarts(s) PROVE CodesKept'
  BY <1>13 DEF ChangeStarts, Starts, Asking, Busy
<1>14. ASSUME NEW s \in 1..made.secret, PaperStarts(s) PROVE CodesKept'
  BY <1>14 DEF PaperStarts, Starts, Asking, Busy
<1>15. ASSUME NEW s \in 1..made.secret, RevealStarts(s) PROVE CodesKept'
  BY <1>15 DEF RevealStarts, Starts, Asking, Busy, On
<1>16. ASSUME NEW s \in 1..made.secret, RotateStarts(s) PROVE CodesKept'
  BY <1>16 DEF RotateStarts, Starts, Asking, Busy, On
<1>17. ASSUME NEW yes \in BOOLEAN, Confirms(yes) PROVE CodesKept'
  BY <1>17 DEF Confirms
<1>18. CASE Proves
  BY <1>18 DEF Proves, ProofShows, Proven, Proving, NewSecret, MayDraw
<1>19. CASE ProofFails
  BY <1>19 DEF ProofFails
<1>20. CASE Sends
  BY <1>20 DEF Sends, MaySend
<1>21. CASE Arrives
  <2>1. op \in Handler /\ op.kind \in Sent
    BY <1>21 DEF Arrives
  <2>2. page' = page /\ op' \in Handler /\ op'.code = op.code /\ op'.stage \in {"landed", "ask", "refused"}
    BY <1>21, <2>1 DEF Arrives
  <2>3. CASE Taken(op)
    <3>1. /\ srv'.rec.secret \in {srv.rec.secret, op.code}
          /\ stored' = stored \union ({op.secret, op.code} \ {0})
      BY <1>21, <2>1, <2>3, Kept DEF Arrives, Taken, RequestsKnowKey
    <3> QED BY <2>2, <3>1
  <2>4. CASE ~Taken(op)
    <3>1. srv' = srv /\ stored' = stored /\ op'.stage = "refused"
      BY <1>21, <2>1, <2>4 DEF Arrives
    <3> QED BY <2>2, <3>1
  <2> QED BY <2>3, <2>4
<1>22. CASE WireArrives
  <2>1. PICK r \in wire : IF Taken(r) THEN Keeps(r) ELSE UNCHANGED <<srv, stored>>
    BY <1>22 DEF WireArrives
  <2>2. r \in Requests /\ op' = op /\ page' = page
    BY <1>22, <2>1 DEF WireArrives
  <2>3. CASE Taken(r)
    <3>1. /\ srv'.rec.secret \in {srv.rec.secret, r.code}
          /\ stored' = stored \union ({r.secret, r.code} \ {0})
      BY <2>1, <2>2, <2>3, Kept DEF Taken, RequestsKnowKey
    <3> QED BY <2>2, <3>1
  <2>4. CASE ~Taken(r)
    BY <2>1, <2>2, <2>4
  <2> QED BY <2>3, <2>4
<1>23. CASE Loses
  BY <1>23 DEF Loses, Request
<1>24. CASE Refused
  BY <1>24 DEF Refused
<1>25. CASE Changed
  BY <1>25 DEF Changed
<1>26. CASE Coded
  BY <1>26 DEF Coded
<1>27. CASE RotationEnds
  BY <1>27 DEF RotationEnds, Rotated
<1>28. CASE RotationAsks
  BY <1>28 DEF RotationAsks, Rotated, AnswerFound, Ours, Env
<1>29. CASE Lists
  BY <1>29 DEF Lists, Paired
<1>30. CASE RotationRevokes
  <2>1. op \in Handler /\ (op.alive => page \in Page)
    BY <1>30 DEF RotationRevokes, TypeOK
  <2>2. op' = None /\ srv' = srv /\ stored' = stored
    BY <1>30 DEF RotationRevokes
  <2>3. PICK failed \in SUBSET op.list :
          page' = IF op.alive THEN [Named(op.list, failed) EXCEPT !.rotated = TRUE] ELSE page
    BY <1>30 DEF RotationRevokes
  <2>4. Is(page') => Is(page) /\ page'.code = page.code
    BY <2>1, <2>3 DEF Named
  <2> QED BY <2>2, <2>4
<1>31. CASE RetryRevoking
  BY <1>31 DEF RetryRevoking, Named, Remaining, RevokesAll, Paired, On, Busy
<1>32. CASE RevokesOthers
  BY <1>32 DEF RevokesOthers, On
<1>33. CASE Reloads
  BY <1>33 DEF Reloads, Paired, On
<1>34. CASE Hides
  BY <1>34 DEF Hides, On
<1>35. CASE UNCHANGED vars
  BY <1>35 DEF vars
<1> QED BY <1>1, <1>2, <1>3, <1>4, <1>5, <1>6, <1>7, <1>8, <1>9, <1>10, <1>11, <1>12, <1>13, <1>14, <1>15, <1>16, <1>17, <1>18, <1>19, <1>20, <1>21, <1>22, <1>23, <1>24, <1>25, <1>26, <1>27, <1>28, <1>29, <1>30, <1>31, <1>32, <1>33, <1>34, <1>35 DEF Next

\* The account as it is set up satisfies the invariant.
LEMMA InitHolds == Init => IInv
BY DEF Init, IInv, TypeOK, Server, Tab, Page, Handler, Requests, Envelope, Attached,
       EnvelopesOpenTheFile, RequestsKnowKey, CodesKept, CodeShownWasKept, On, Is, Env

\* The inductive invariant holds throughout.
LEMMA Invariant == Spec => []IInv
<1>1. Init => IInv
  BY InitHolds
<1>2. IInv /\ [Next]_vars => IInv'
  BY TypeStep, AttachedStep, EnvStep, CodesStep DEF IInv
<1> QED BY <1>1, <1>2, PTL DEF Spec

\* The stored secrets, the tab, the security page, its handler and the requests under
\* way have their types, for every bound (SecuritySettings and the routes it calls).
THEOREM Typed == Spec => []TypeOK
BY Invariant, PTL DEF IInv

\* Whatever sessions do at once, and however late their requests arrive, the stored
\* envelopes hold the key of the stored file, for every number of devices, keys,
\* versions and failures (SaveEnvelopes' version check, proveCurrentPassword).
THEOREM EnvelopesAlwaysOpen == Spec => []EnvelopesOpenTheFile
BY Invariant, PTL DEF IInv

\* A paper code is never put on the screen before the server has kept it, whatever
\* requests, answers and pages are lost (handleRotatePaper, rotateAndUpload).
THEOREM CodesShownAreKept == Spec => []CodeShownWasKept
BY Invariant, PTL DEF IInv, CodesKept

\* ---------------------------------------------------- devices after a rotation ---

\* A key and a version that went together in the vault, now or earlier.
Behind(key, ver) == key <= srv.file /\ ver <= srv.ver /\ (ver = srv.ver => key = srv.file)

\* A rotation that can still land was given a key newer than the file's.
Drawn(r) == r.ver <= srv.ver /\ (r.ver = srv.ver => srv.file < r.key)

PairedTypes == paired \in [Devices -> Nat]

\* Keys are drawn upwards, so that a device with the vault's key holds no older one
\* than a tab does.
KeysGrow ==
  /\ srv.file <= made.key
  /\ \A d \in Devices : paired[d] <= srv.file
  /\ Is(tab) => Behind(tab.key, tab.ver)
  /\ \A r \in wire : r.kind = "rotate" => Drawn(r) /\ r.key <= made.key
  /\ Is(op) /\ op.kind = "rotate" =>
       /\ op.stage \in {"send", "sent"} => op.key <= made.key
       /\ op.stage = "send" /\ op.live => tab.key < op.key
       /\ op.stage = "sent" => Drawn(op)
       /\ op.stage = "landed" => Behind(op.key, op.ver + 1)

KeyInv == IInv /\ PairedTypes /\ KeysGrow

\* The vault and the keys drawn go forward only.
Forward ==
  /\ srv'.ver >= srv.ver /\ srv'.file >= srv.file /\ srv'.file <= made'.key
  /\ srv'.ver = srv.ver => srv'.file = srv.file
  /\ made'.key >= made.key

\* A request the server takes moves the vault to the key it carries, or leaves it.
LEMMA Takes ==
  ASSUME KeyInv, NEW r, r.kind \in Sent, r.secret \in Nat, r.code \in Nat, r.key \in Nat, Taken(r), Keeps(r),
         r.kind = "rotate" => srv.file < r.key /\ r.key <= made.key
  PROVE  /\ r.kind = "rotate" => srv'.ver = srv.ver + 1 /\ srv'.file = r.key
         /\ r.kind # "rotate" => srv'.ver = srv.ver /\ srv'.file = srv.file
         /\ made' = made => Forward
<1> USE DEF KeyInv, IInv, TypeOK, Server, KeysGrow
<1>1. CASE r.kind = "rotate"
  BY <1>1 DEF Keeps, RotatesTo, Forward
<1>2. CASE r.kind = "change"
  <2>1. srv' = [srv EXCEPT !.pw = Env(r.secret, r.key)]
    BY <1>2 DEF Keeps
  <2> QED BY <1>2, <2>1 DEF Forward
<1>3. CASE r.kind = "paper"
  <2>1. srv' = [srv EXCEPT !.rec = Env(r.code, r.key)]
    BY <1>3 DEF Keeps
  <2> QED BY <1>3, <2>1 DEF Forward
<1> QED BY <1>1, <1>2, <1>3 DEF Sent, Kinds

\* Steps that neither change the vault nor draw anything.
Quiet ==
  \/ \E d \in Devices : Pairs(d) \/ RevokesOne(d) \/ EndsSession(d)
  \/ \E s \in 1..made.secret : Unlock(s)
  \/ Lock \/ EntersPage \/ LeavesPage \/ Edit
  \/ \E s \in 1..made.secret : ChangeStarts(s) \/ PaperStarts(s) \/ RevealStarts(s) \/ RotateStarts(s)
  \/ \E yes \in BOOLEAN : Confirms(yes)
  \/ ProofFails \/ Sends \/ Loses \/ Refused
  \/ Changed \/ Coded \/ RotationEnds \/ RotationAsks \/ Lists \/ RotationRevokes
  \/ RetryRevoking \/ RevokesOthers \/ Reloads \/ Hides
  \/ UNCHANGED vars

LEMMA QuietStep == Quiet => UNCHANGED <<srv, made>>
BY DEF Quiet, Pairs, RevokesOne, EndsSession, Unlock, Lock, EntersPage, LeavesPage, Edit, ChangeStarts,
       PaperStarts, RevealStarts, RotateStarts, Starts, Confirms, ProofFails, Sends, Loses, Refused, Changed,
       Coded, RotationEnds, RotationAsks, Lists, RotationRevokes, RetryRevoking, RevokesOthers, Reloads, Hides, vars

\* The steps of Next, by what they do to the vault.
LEMMA Steps ==
  [Next]_vars => \/ Quiet \/ Proves \/ Settles \/ Arrives \/ WireArrives
                 \/ OtherSaves \/ OtherRotates \/ \E paper \in BOOLEAN : OtherChanges(paper)
BY Zenon DEF Next, Quiet

LEMMA ForwardStep == KeyInv /\ [Next]_vars => Forward
<1> SUFFICES ASSUME KeyInv, [Next]_vars PROVE Forward
  OBVIOUS
<1> USE DEF KeyInv, IInv, TypeOK, Server, KeysGrow
<1>1. CASE Quiet
  BY <1>1, QuietStep DEF Forward
<1>2. CASE Proves
  BY <1>2 DEF Proves, Forward
<1>3. CASE Settles
  BY <1>3 DEF Settles, Forward
<1>4. CASE OtherSaves
  BY <1>4 DEF OtherSaves, Forward
<1>5. CASE OtherRotates
  BY <1>5 DEF OtherRotates, RotatesTo, Forward
<1>6. CASE \E paper \in BOOLEAN : OtherChanges(paper)
  BY <1>6 DEF OtherChanges, Forward
<1>7. CASE Arrives
  <2>1. Is(op) /\ op.stage = "sent" /\ op \in Handler /\ op.kind \in Sent /\ made' = made
    BY <1>7 DEF Arrives, Is, Attached
  <2>2. CASE Taken(op)
    <3>1. Keeps(op)
      BY <1>7, <2>2 DEF Arrives
    <3>2. op.kind = "rotate" => srv.file < op.key /\ op.key <= made.key
      BY <2>1, <2>2 DEF Drawn, Taken
    <3>3. op.secret \in Nat /\ op.code \in Nat /\ op.key \in Nat
      BY <2>1 DEF Handler
    <3> QED BY <2>1, <2>2, <3>1, <3>2, <3>3, Takes
  <2>3. CASE ~Taken(op)
    BY <1>7, <2>1, <2>3 DEF Arrives, Forward
  <2> QED BY <2>2, <2>3
<1>8. CASE WireArrives
  <2>1. PICK r \in wire : IF Taken(r) THEN Keeps(r) ELSE UNCHANGED srv
    BY <1>8 DEF WireArrives
  <2>2. made' = made
    BY <1>8 DEF WireArrives
  <2>3. CASE Taken(r)
    <3>1. Keeps(r)
      BY <2>1, <2>3
    <3>2. r.kind = "rotate" => srv.file < r.key /\ r.key <= made.key
      BY <2>3 DEF Drawn, Taken
    <3>3. r.kind \in Sent /\ r.secret \in Nat /\ r.code \in Nat /\ r.key \in Nat
      BY DEF Requests
    <3> QED BY <2>2, <2>3, <3>1, <3>2, <3>3, Takes
  <2>4. CASE ~Taken(r)
    BY <2>1, <2>2, <2>4 DEF Forward
  <2> QED BY <2>3, <2>4
<1> QED BY <1>1, <1>2, <1>3, <1>4, <1>5, <1>6, <1>7, <1>8, Steps

\* What was known of an earlier vault is still true of a later one.
LEMMA GoesForward ==
  ASSUME KeyInv, Forward, srv' \in Server
  PROVE  /\ \A k \in Nat, v \in Nat :
              Behind(k, v) => k <= srv'.file /\ v <= srv'.ver /\ (v = srv'.ver => k = srv'.file)
         /\ \A r : r.ver \in Nat /\ r.key \in Nat /\ Drawn(r) =>
              r.ver <= srv'.ver /\ (r.ver = srv'.ver => srv'.file < r.key)
BY DEF KeyInv, IInv, TypeOK, Server, Forward, Behind, Drawn

\* A device is signed out, pairs with the vault's key, or keeps the key it took.
LEMMA PairedStep ==
  ASSUME KeyInv, [Next]_vars
  PROVE  PairedTypes' /\ \A d \in Devices : paired'[d] \in {0, paired[d], srv.file}
<1> USE DEF KeyInv, PairedTypes
<1>1. CASE paired' = paired
  BY <1>1
<1>2. CASE paired' = [d \in Devices |-> 0]
  BY <1>2
<1>3. CASE \E ds : paired' = Without(ds)
  BY <1>3 DEF Without
<1>4. CASE \E d \in Devices : Pairs(d)
  BY <1>4 DEF Pairs, IInv, TypeOK, Server
<1>5. CASE \E d \in Devices : RevokesOne(d) \/ EndsSession(d)
  BY <1>1, <1>3, <1>5 DEF RevokesOne, EndsSession, Tried
<1>6. CASE RotationRevokes \/ RetryRevoking \/ RevokesOthers
  BY <1>3, <1>6 DEF RotationRevokes, RetryRevoking, RevokesOthers, RevokesAll
<1>7. CASE Arrives \/ WireArrives
  BY <1>1, <1>2, <1>7 DEF Arrives, WireArrives, SignsOut, StopsFirst
<1>8. CASE \/ OtherSaves \/ OtherRotates \/ \E paper \in BOOLEAN : OtherChanges(paper)
           \/ \E s \in 1..made.secret : Unlock(s)
           \/ Lock \/ EntersPage \/ LeavesPage \/ Edit \/ Settles
           \/ \E s \in 1..made.secret : ChangeStarts(s) \/ PaperStarts(s) \/ RevealStarts(s) \/ RotateStarts(s)
           \/ \E yes \in BOOLEAN : Confirms(yes)
           \/ Proves \/ ProofFails \/ Sends \/ Loses \/ Refused
           \/ Changed \/ Coded \/ RotationEnds \/ RotationAsks \/ Lists \/ Reloads \/ Hides
           \/ UNCHANGED vars
  BY <1>1, <1>2, <1>8 DEF OtherSaves, OtherRotates, OtherChanges, Unlock, Lock, EntersPage, LeavesPage, Edit,
     Settles, ChangeStarts, PaperStarts, RevealStarts, RotateStarts, Starts, Confirms, Proves, ProofFails, Sends,
     Loses, Refused, Changed, Coded, RotationEnds, RotationAsks, Lists, Reloads, Hides, vars
<1> QED BY <1>4, <1>5, <1>6, <1>7, <1>8, Zenon DEF Next

\* A tab follows the vault it opened: its own saves, a file it can read, the key of
\* its own rotation.
LEMMA TabStep ==
  ASSUME KeyInv, [Next]_vars, TypeOK', Is(tab')
  PROVE  Behind(tab.key, tab.ver)'
<1> USE DEF KeyInv, IInv, TypeOK, Server
<1>1. Forward
  BY ForwardStep
<1>2. tab' \in Tab /\ (Is(tab) => tab \in Tab)
  BY DEF Is
<1>3. CASE tab' = tab
  <2>1. Behind(tab.key, tab.ver) /\ tab.key \in Nat /\ tab.ver \in Nat
    BY <1>2, <1>3 DEF KeysGrow, Tab
  <2> QED BY <1>1, <1>3, <2>1, GoesForward DEF Behind
<1>4. CASE \E s \in 1..made.secret : Unlock(s)
  BY <1>4 DEF Unlock, Behind
<1>5. CASE Edit
  <2>1. tab'.key = tab.key /\ tab'.ver = tab.ver /\ Is(tab) /\ UNCHANGED srv
    BY <1>2, <1>5 DEF Edit, Tab
  <2> QED BY <2>1 DEF Behind, KeysGrow
<1>6. CASE Settles
  <2>1. Is(tab) /\ tab \in Tab
    BY <1>2, <1>6 DEF Settles
  <2>2. CASE /\ tab.ver = srv.ver /\ srv' = [srv EXCEPT !.ver = @ + 1]
             /\ tab' = [tab EXCEPT !.ver = @ + 1, !.unsaved = FALSE]
    <3>1. tab'.key = tab.key /\ tab'.ver = tab.ver + 1 /\ srv'.ver = srv.ver + 1 /\ srv'.file = srv.file
      BY <2>1, <2>2 DEF Tab
    <3> QED BY <2>1, <2>2, <3>1 DEF Behind, KeysGrow
  <2>3. CASE tab.key = srv.file /\ tab' = [tab EXCEPT !.ver = srv.ver, !.unsaved = FALSE] /\ UNCHANGED srv
    <3>1. tab'.key = tab.key /\ tab'.ver = srv.ver
      BY <2>1, <2>3 DEF Tab
    <3> QED BY <2>3, <3>1 DEF Behind
  <2> QED BY <1>6, <2>2, <2>3 DEF Settles
<1>7. CASE Changed /\ tab' # tab
  <2>1. Is(op) /\ tab.key = srv.file /\ tab' = [tab EXCEPT !.ver = srv.ver] /\ UNCHANGED srv /\ op.alive
    BY <1>7 DEF Changed
  <2>2. tab \in Tab
    BY <1>2, <2>1 DEF Attached
  <2>3. tab'.key = tab.key /\ tab'.ver = srv.ver
    BY <2>1, <2>2 DEF Tab
  <2> QED BY <2>1, <2>3 DEF Behind
<1>8. CASE RotationEnds
  <2>1. Is(op) /\ op.stage = "landed" /\ op.kind = "rotate" /\ op \in Handler /\ UNCHANGED srv
    BY <1>8 DEF RotationEnds, Is
  <2>2. Behind(op.key, op.ver + 1)
    BY <2>1 DEF KeysGrow
  <2>3. tab' = tab \/ (tab'.key = op.key /\ tab'.ver = op.ver + 1)
    BY <1>8 DEF RotationEnds, Rotated
  <2> QED BY <1>3, <2>1, <2>2, <2>3 DEF Behind
<1>9. CASE RotationAsks
  <2>1. Is(op) /\ op \in Handler /\ UNCHANGED srv
    BY <1>9 DEF RotationAsks, Is
  <2>2. CASE AnswerFound /\ Rotated
    <3>1. op.key = srv.file /\ op.ver + 1 = srv.ver
      BY <2>2 DEF AnswerFound, Ours, Env, EnvelopesOpenTheFile
    <3>2. tab' = tab \/ (tab'.key = op.key /\ tab'.ver = op.ver + 1)
      BY <2>2 DEF Rotated
    <3> QED BY <1>3, <2>1, <3>1, <3>2 DEF Behind
  <2>3. tab' = tab \/ tab' = None \/ (AnswerFound /\ Rotated)
    BY <1>9 DEF RotationAsks
  <2> QED BY <1>3, <2>2, <2>3 DEF Is
<1>10. CASE Lock
  BY <1>10 DEF Lock, Is
<1>11. CASE \/ OtherSaves \/ OtherRotates \/ \E paper \in BOOLEAN : OtherChanges(paper)
            \/ \E d \in Devices : Pairs(d) \/ RevokesOne(d) \/ EndsSession(d)
            \/ EntersPage \/ LeavesPage
            \/ \E s \in 1..made.secret : ChangeStarts(s) \/ PaperStarts(s) \/ RevealStarts(s) \/ RotateStarts(s)
            \/ \E yes \in BOOLEAN : Confirms(yes)
            \/ Proves \/ ProofFails \/ Sends \/ Arrives \/ WireArrives \/ Loses \/ Refused
            \/ Coded \/ Lists \/ RotationRevokes \/ RetryRevoking \/ RevokesOthers \/ Reloads \/ Hides
            \/ UNCHANGED vars
  BY <1>3, <1>11 DEF OtherSaves, OtherRotates, OtherChanges, Pairs, RevokesOne, EndsSession, EntersPage,
     LeavesPage, ChangeStarts, PaperStarts, RevealStarts, RotateStarts, Starts, Confirms, Proves, ProofFails,
     Sends, Arrives, WireArrives, Loses, Refused, Coded, Lists, RotationRevokes, RetryRevoking, RevokesOthers,
     Reloads, Hides, vars
<1> QED BY <1>3, <1>4, <1>5, <1>6, <1>7, <1>8, <1>9, <1>10, <1>11, Zenon DEF Next

\* What the handler of a rotation knows at each of its stages.
Knows(h) ==
  /\ h.stage \in {"send", "sent"} => h.key <= made.key
  /\ h.stage = "send" /\ h.live => tab.key < h.key
  /\ h.stage = "sent" => Drawn(h)
  /\ h.stage = "landed" => Behind(h.key, h.ver + 1)

\* A handler that keeps its key, its version and its stage keeps what it knows.
LEMMA StillKnows ==
  ASSUME KeyInv, [Next]_vars, TypeOK', op \in Handler, op' \in Handler, op.kind = "rotate",
         op'.stage = op.stage, op'.key = op.key, op'.ver = op.ver, op'.live => op.live,
         op'.stage = "send" /\ op'.live => tab'.key = tab.key
  PROVE  Knows(op)'
<1>1. Forward /\ srv' \in Server
  BY ForwardStep DEF TypeOK
<1>2. op.key \in Nat /\ op.ver \in Nat /\ op.ver + 1 \in Nat /\ Is(op)
  BY Absent DEF Handler, Is
<1>3. Knows(op)
  BY <1>2 DEF KeyInv, KeysGrow, Knows
<1>4. op.stage \in {"send", "sent"} => op.key <= made'.key
  <2>1. made.key \in Nat /\ made'.key \in Nat /\ made.key <= made'.key
    BY <1>1 DEF Forward, KeyInv, IInv, TypeOK
  <2> QED BY <1>2, <1>3, <2>1 DEF Knows
<1>5. op.stage = "sent" => op.ver <= srv'.ver /\ (op.ver = srv'.ver => srv'.file < op.key)
  BY <1>1, <1>2, <1>3, GoesForward DEF Knows
<1>6. op.stage = "landed" =>
        op.key <= srv'.file /\ op.ver + 1 <= srv'.ver /\ (op.ver + 1 = srv'.ver => op.key = srv'.file)
  BY <1>1, <1>2, <1>3, GoesForward DEF Knows
<1>7. op'.stage = "send" /\ op'.live => tab'.key < op.key
  BY <1>3 DEF Knows
<1> QED BY <1>4, <1>5, <1>6, <1>7 DEF Knows, Drawn, Behind

LEMMA OpStep ==
  ASSUME KeyInv, [Next]_vars, TypeOK', Is(op'), op'.kind = "rotate"
  PROVE  Knows(op)'
<1> USE DEF KeyInv, IInv, TypeOK, Server
<1>1. op' \in Handler /\ (Is(op) => op \in Handler)
  BY DEF Is
<1>2. ASSUME op'.stage \notin {"send", "sent", "landed"} PROVE Knows(op)'
  BY <1>2 DEF Knows
<1>3. CASE op' = op /\ UNCHANGED tab
  BY <1>1, <1>3, StillKnows
<1>4. CASE Proves
  <2>1. Is(op) /\ op.kind = "rotate" /\ op.stage = "prove" /\ op \in Handler /\ UNCHANGED <<srv, tab>>
    <3>1. Is(op) /\ op.stage = "prove" /\ op \in Handler /\ UNCHANGED <<srv, tab>>
      BY <1>1, <1>4 DEF Proves
    <3>2. op'.kind = op.kind
      <4>1. CASE Proven /\ op.kind # "reveal"
        <5>1. PICK v, c, k, t : op' = [op EXCEPT !.stage = "send", !.typed = 0, !.ver = v, !.code = c, !.key = k, !.secret = t]
          BY <1>4, <4>1 DEF Proves
        <5> QED BY <3>1, <5>1 DEF Handler
      <4>2. CASE ~(Proven /\ op.kind # "reveal")
        BY <1>4, <4>2 DEF Proves, Is
      <4> QED BY <4>1, <4>2
    <3> QED BY <3>1, <3>2
  <2>2. Proven
    BY <1>4 DEF Proves, Is
  <2>3. PICK v, c, t :
          op' = [op EXCEPT !.stage = "send", !.typed = 0, !.ver = v, !.code = c, !.key = made.key + 1, !.secret = t]
    BY <1>4, <2>1, <2>2 DEF Proves
  <2>4. made'.key = made.key + 1
    BY <1>4, <2>1, <2>2 DEF Proves
  <2>5. op'.stage = "send" /\ op'.key = made.key + 1 /\ op'.live = op.live
    BY <2>1, <2>3 DEF Handler
  <2>6. op.live => tab \in Tab /\ tab.key <= srv.file
    BY <2>1 DEF Attached, Is, KeysGrow, Behind
  <2> QED BY <2>1, <2>4, <2>5, <2>6 DEF Knows, KeysGrow, Tab
<1>5. CASE Sends
  <2>1. Is(op) /\ op.stage = "send" /\ op \in Handler /\ UNCHANGED <<srv, made, tab>>
    BY <1>1, <1>5 DEF Sends
  <2>2. MaySend
    BY <1>5 DEF Sends, Is
  <2>3. op.kind = "rotate" /\ op' = [op EXCEPT !.stage = "sent", !.ver = tab.ver]
    <3>1. op' = [op EXCEPT !.stage = "sent", !.ver = IF op.kind = "rotate" THEN tab.ver ELSE @]
      BY <1>5, <2>2 DEF Sends
    <3>2. op'.kind = op.kind
      BY <2>1, <3>1 DEF Handler
    <3> QED BY <3>1, <3>2
  <2>4. op'.stage = "sent" /\ op'.ver = tab.ver /\ op'.key = op.key
    BY <2>1, <2>3 DEF Handler
  <2>5. op.live /\ Is(tab)
    BY <2>1, <2>2, <2>3 DEF MaySend, Attached
  <2>6. Behind(tab.key, tab.ver) /\ tab.key < op.key /\ op.key <= made.key /\ tab \in Tab
    BY <2>1, <2>3, <2>5 DEF KeysGrow, Is
  <2> QED BY <2>1, <2>4, <2>6 DEF Knows, Drawn, Behind, Tab
<1>6. CASE Arrives
  <2>1. Is(op) /\ op.stage = "sent" /\ op \in Handler /\ UNCHANGED <<made, tab>>
    BY <1>1, <1>6 DEF Arrives
  <2>2. PICK s \in {"landed", "ask", "refused"} : op' = [op EXCEPT !.stage = s]
    BY <1>6 DEF Arrives
  <2>3. op'.stage = s /\ op'.kind = op.kind /\ op'.key = op.key /\ op'.ver = op.ver
    BY <2>1, <2>2 DEF Handler
  <2>4. CASE Taken(op)
    <3>1. Keeps(op) /\ op.kind = "rotate" /\ op.ver = srv.ver
      BY <1>6, <2>3, <2>4 DEF Arrives, Taken
    <3>2. srv'.ver = srv.ver + 1 /\ srv'.file = op.key
      BY <3>1 DEF Keeps, RotatesTo
    <3>3. op.key \in Nat /\ op.ver \in Nat
      BY <2>1 DEF Handler
    <3>4. Behind(op.key, op.ver + 1)'
      BY <2>3, <3>1, <3>2, <3>3 DEF Behind
    <3> QED BY <2>3, <3>4 DEF Knows
  <2>5. CASE ~Taken(op)
    <3>1. op' = [op EXCEPT !.stage = "refused"]
      BY <1>6, <2>5 DEF Arrives
    <3>2. op'.stage = "refused"
      BY <2>1, <3>1 DEF Handler
    <3> QED BY <1>2, <3>2
  <2> QED BY <2>4, <2>5
<1>7. CASE Lock \/ LeavesPage
  <2>1. Is(op) /\ op \in Handler
    BY <1>1, <1>7 DEF Lock, LeavesPage, Gone, Busy, Is
  <2>2. PICK b \in BOOLEAN : op' = [op EXCEPT !.alive = FALSE, !.live = @ /\ b] /\ (b => UNCHANGED tab)
    BY <1>7 DEF Lock, LeavesPage, Gone, Is
  <2>3. /\ op'.kind = op.kind /\ op'.stage = op.stage /\ op'.key = op.key /\ op'.ver = op.ver
        /\ op'.live = (op.live /\ b)
    BY <2>1, <2>2 DEF Handler
  <2> QED BY <1>1, <2>1, <2>2, <2>3, StillKnows
<1>8. CASE \E s \in 1..made.secret : ChangeStarts(s) \/ PaperStarts(s) \/ RevealStarts(s) \/ RotateStarts(s)
  <2>1. op'.stage \in {"confirm", "prove"}
    BY <1>8 DEF ChangeStarts, PaperStarts, RevealStarts, RotateStarts, Starts, Asking
  <2> QED BY <1>2, <2>1
<1>9. CASE \E yes \in BOOLEAN : Confirms(yes)
  <2>1. Is(op) /\ op \in Handler /\ op' = [op EXCEPT !.stage = "prove"]
    BY <1>1, <1>9 DEF Confirms, Is
  <2>2. op'.stage = "prove"
    BY <2>1 DEF Handler
  <2> QED BY <1>2, <2>2
<1>10. CASE RotationEnds \/ RotationAsks \/ Loses \/ Lists
  <2>1. Is(op) /\ op \in Handler
    BY <1>1, <1>10 DEF RotationEnds, RotationAsks, Loses, Lists
  <2>2. \/ \E s \in {"ask", "list"} : op' = [op EXCEPT !.stage = s]
        \/ \E x : op' = [op EXCEPT !.stage = "revoke", !.list = x]
    BY <1>10 DEF RotationEnds, RotationAsks, Loses, Lists, Rotated, Is
  <2>3. op'.stage \in {"ask", "list", "revoke"}
    BY <2>1, <2>2 DEF Handler
  <2> QED BY <1>2, <2>3
<1>11. CASE \/ OtherSaves \/ OtherRotates \/ \E paper \in BOOLEAN : OtherChanges(paper)
            \/ \E d \in Devices : Pairs(d) \/ RevokesOne(d) \/ EndsSession(d)
            \/ EntersPage \/ WireArrives \/ RetryRevoking \/ RevokesOthers \/ Reloads \/ Hides
            \/ UNCHANGED vars
  BY <1>3, <1>11 DEF OtherSaves, OtherRotates, OtherChanges, Pairs, RevokesOne, EndsSession, EntersPage,
     WireArrives, RetryRevoking, RevokesOthers, Reloads, Hides, vars
<1>12. CASE Edit \/ Settles \/ \E s \in 1..made.secret : Unlock(s)
  <2>1. op' = op /\ Is(op) /\ op \in Handler
    BY <1>1, <1>12 DEF Edit, Settles, Unlock
  <2>2. op.live => Is(tab) /\ tab \in Tab
    BY <2>1 DEF Attached, Is
  <2>3. op.live => tab'.key = tab.key
    BY <1>12, <2>2 DEF Edit, Settles, Unlock, Tab
  <2> QED BY <1>1, <2>1, <2>3, StillKnows
<1>13. CASE ProofFails \/ Refused \/ Changed \/ Coded \/ RotationRevokes
  BY <1>13 DEF ProofFails, Refused, Changed, Coded, RotationRevokes, Is
<1> QED BY <1>4, <1>5, <1>6, <1>7, <1>8, <1>9, <1>10, <1>11, <1>12, <1>13, Zenon DEF Next

\* A request given up on was sent by a handler.
LEMMA WireStep ==
  ASSUME KeyInv, [Next]_vars, TypeOK'
  PROVE  \A r \in wire' : r.kind = "rotate" => Drawn(r)' /\ r.key <= made'.key
<1> USE DEF KeyInv, IInv, TypeOK, Server
<1>1. Forward /\ srv' \in Server
  BY ForwardStep
<1>2. wire' \subseteq wire \/ (Loses /\ op.stage = "sent" /\ wire' = wire \union {Request})
  BY DEF Next, OtherSaves, OtherRotates, OtherChanges, Pairs, RevokesOne, EndsSession, Unlock, Lock, EntersPage,
     LeavesPage, Edit, Settles, ChangeStarts, PaperStarts, RevealStarts, RotateStarts, Starts, Confirms, Proves,
     ProofFails, Sends, Arrives, WireArrives, Loses, Refused, Changed, Coded, RotationEnds, RotationAsks, Lists,
     RotationRevokes, RetryRevoking, RevokesOthers, Reloads, Hides, vars
<1>3. ASSUME NEW r \in wire, r.kind = "rotate" PROVE Drawn(r)' /\ r.key <= made'.key
  <2>1. Drawn(r) /\ r.key <= made.key /\ r.ver \in Nat /\ r.key \in Nat
    BY <1>3 DEF KeysGrow, Requests
  <2>2. made.key \in Nat /\ made'.key \in Nat /\ made.key <= made'.key
    BY <1>1 DEF Forward
  <2> QED BY <1>1, <2>1, <2>2, GoesForward DEF Drawn
<1>4. CASE Loses /\ op.stage = "sent" /\ wire' = wire \union {Request}
  <2>1. Is(op) /\ op \in Handler
    BY <1>4 DEF Loses, Is
  <2>2. Request.kind = op.kind /\ Request.ver = op.ver /\ Request.key = op.key
    BY DEF Request
  <2>3. op.kind = "rotate" => Drawn(Request) /\ Request.key <= made.key
    BY <1>4, <2>1, <2>2 DEF KeysGrow, Drawn
  <2>4. UNCHANGED <<srv, made>>
    BY <1>4 DEF Loses
  <2> QED BY <1>3, <1>4, <2>2, <2>3, <2>4 DEF Drawn
<1> QED BY <1>2, <1>3, <1>4

LEMMA KeyInvStep == KeyInv /\ [Next]_vars => KeyInv'
<1> SUFFICES ASSUME KeyInv, [Next]_vars PROVE KeyInv'
  OBVIOUS
<1>1. IInv'
  BY TypeStep, AttachedStep, EnvStep, CodesStep DEF IInv, KeyInv
<1>2. TypeOK'
  BY <1>1 DEF IInv
<1>3. Forward
  BY ForwardStep
<1>4. PairedTypes' /\ \A d \in Devices : paired'[d] \in {0, paired[d], srv.file}
  BY PairedStep
<1>5. \A d \in Devices : paired'[d] <= srv'.file
  BY <1>2, <1>3, <1>4 DEF Forward, KeyInv, KeysGrow, PairedTypes, IInv, TypeOK, Server
<1>6. srv'.file <= made'.key
  BY <1>3 DEF Forward
<1>7. Is(tab') => Behind(tab.key, tab.ver)'
  BY <1>2, TabStep
<1>8. \A r \in wire' : r.kind = "rotate" => Drawn(r)' /\ r.key <= made'.key
  BY <1>2, WireStep
<1>9. Is(op') /\ op'.kind = "rotate" => Knows(op)'
  BY <1>2, OpStep
<1>10. KeysGrow'
  BY <1>5, <1>6, <1>7, <1>8, <1>9 DEF KeysGrow, Knows
<1> QED BY <1>1, <1>4, <1>10 DEF KeyInv

\* Devices that hold a key older than the tab's.
Stale == {d \in Paired : paired[d] < tab.key}

\* What the page and a rotation's handler have of them. A handler that reads its list
\* after the rotation landed has every one of them.
Listed ==
  /\ NamedOrGone
  /\ Is(op) =>
       /\ Is(page) => op.alive
       /\ op.stage \in {"ask", "list", "revoke"} => op.kind = "rotate"
       /\ op.kind = "rotate" /\ op.stage # "confirm" => (Is(page) => ~page.rotated)
       /\ op.stage = "revoke" /\ op.alive => Stale \subseteq op.list

NamedInv == KeyInv /\ Listed

\* A step other than a rotation's own leaves the tab its key, and devices pair only
\* with one that is not older.
LEMMA StaleShrinks ==
  ASSUME KeyInv, [Next]_vars, Is(tab), tab'.key = tab.key
  PROVE  Stale' \subseteq Stale /\ Stale' \subseteq Paired'
<1> USE DEF KeyInv
<1>1. /\ PairedTypes' /\ \A d \in Devices : paired'[d] \in {0, paired[d], srv.file}
  BY PairedStep
<1>2. tab.key <= srv.file /\ tab.key \in Nat /\ srv.file \in Nat
  BY DEF KeysGrow, Behind, IInv, TypeOK, Tab, Server, Is
<1>3. \A d \in Devices : paired[d] \in Nat /\ paired'[d] \in Nat
  BY <1>1 DEF PairedTypes
<1>4. \A d \in Devices : paired'[d] # 0 /\ paired'[d] < tab.key => paired'[d] = paired[d]
  BY <1>1, <1>2, <1>3
<1> QED BY <1>4 DEF Stale, Paired

\* Nothing of what the page names is lost by a step that leaves its lists alone.
LEMMA SamePage ==
  ASSUME NamedInv, [Next]_vars, Is(page) /\ Is(page') => /\ page'.rotated => page.rotated
                                                         /\ page'.left = page.left /\ page'.devs = page.devs
                                                         /\ tab'.key = tab.key,
         Is(page') => Is(page)
  PROVE  NamedOrGone'
<1> SUFFICES ASSUME Is(page'), page'.rotated PROVE Stale' \subseteq page'.left \union page'.devs
  BY DEF NamedOrGone, On, Stale
<1>1. Is(tab) /\ tab'.key = tab.key
  BY DEF NamedInv, KeyInv, IInv, Attached
<1>2. Stale' \subseteq Stale
  BY <1>1, StaleShrinks DEF NamedInv
<1>3. Stale \subseteq page.left \union page.devs
  BY DEF NamedInv, Listed, NamedOrGone, On, Stale
<1> QED BY <1>2, <1>3

\* The tab has its key after any step but Unlock, Lock and a rotation's end.
LEMMA SameKey ==
  ASSUME KeyInv, [Next]_vars, Is(tab), Is(tab')
  PROVE  tab'.key = tab.key \/ RotationEnds \/ RotationAsks
<1>1. tab \in Tab
  BY DEF KeyInv, IInv, TypeOK, Is
<1>2. CASE tab' = tab
  BY <1>2
<1>3. CASE Edit \/ Settles \/ Changed
  BY <1>1, <1>3 DEF Edit, Settles, Changed, Tab
<1>4. CASE Lock \/ \E s \in 1..made.secret : Unlock(s)
  BY <1>4 DEF Lock, Unlock, Is
<1>5. CASE \/ OtherSaves \/ OtherRotates \/ \E paper \in BOOLEAN : OtherChanges(paper)
           \/ \E d \in Devices : Pairs(d) \/ RevokesOne(d) \/ EndsSession(d)
           \/ EntersPage \/ LeavesPage
           \/ \E s \in 1..made.secret : ChangeStarts(s) \/ PaperStarts(s) \/ RevealStarts(s) \/ RotateStarts(s)
           \/ \E yes \in BOOLEAN : Confirms(yes)
           \/ Proves \/ ProofFails \/ Sends \/ Arrives \/ WireArrives \/ Loses \/ Refused
           \/ Coded \/ Lists \/ RotationRevokes \/ RetryRevoking \/ RevokesOthers \/ Reloads \/ Hides
           \/ UNCHANGED vars
  BY <1>2, <1>5 DEF OtherSaves, OtherRotates, OtherChanges, Pairs, RevokesOne, EndsSession, EntersPage,
     LeavesPage, ChangeStarts, PaperStarts, RevealStarts, RotateStarts, Starts, Confirms, Proves, ProofFails,
     Sends, Arrives, WireArrives, Loses, Refused, Coded, Lists, RotationRevokes, RetryRevoking, RevokesOthers,
     Reloads, Hides, vars
<1> QED BY <1>3, <1>4, <1>5, Zenon DEF Next

\* The lists after the devices of one were tried: those that stay are on the page.
LEMMA NamedLists ==
  ASSUME page \in Page, NEW list, NEW failed
  PROVE  /\ Named(list, failed).left = failed
         /\ Named(list, failed).devs = (page.devs \ list) \union (page.devs \cap failed)
         /\ Named(list, failed).rotated = page.rotated
         /\ [Named(list, failed) EXCEPT !.rotated = TRUE].left = failed
BY DEF Page, Named, Remaining

\* Devices that were tried and did not fail are signed out.
LEMMA Tries ==
  ASSUME NEW list, NEW failed, RevokesAll(list, failed), PairedTypes
  PROVE  Paired' = Paired \ (list \ failed)
<1>1. paired' = [d \in Devices |-> IF d \in list \ failed THEN 0 ELSE paired[d]]
  BY DEF RevokesAll, Without
<1> QED BY <1>1 DEF Paired

LEMMA NamedStep == NamedInv /\ [Next]_vars => NamedOrGone'
<1> SUFFICES ASSUME NamedInv, [Next]_vars, Is(page'), page'.rotated
             PROVE  Stale' \subseteq page'.left \union page'.devs
  BY DEF NamedOrGone, On, Stale
<1>1. KeyInv /\ KeyInv' /\ TypeOK /\ PairedTypes
  BY KeyInvStep DEF NamedInv, KeyInv, IInv
<1>2. Is(tab') /\ page' \in Page
  BY <1>1 DEF KeyInv, IInv, Attached, TypeOK, Is
<1>3. Is(page) => Is(tab) /\ page \in Page
  BY <1>1 DEF KeyInv, IInv, Attached, TypeOK, Is
<1>4. CASE RotationEnds \/ RotationAsks
  <2>1. page' = page /\ Is(op) /\ op.kind = "rotate" /\ op.stage # "confirm"
    BY <1>4 DEF RotationEnds, RotationAsks, Rotated, Is, NamedInv, Listed
  <2> QED BY <2>1 DEF NamedInv, Listed
<1>5. ASSUME ~(RotationEnds \/ RotationAsks), Is(page), page'.rotated => page.rotated,
             page'.left = page.left, page'.devs = page.devs
      PROVE  Stale' \subseteq page'.left \union page'.devs
  <2>1. NamedOrGone'
    BY <1>1, <1>2, <1>3, <1>5, SameKey, SamePage
  <2> QED BY <2>1 DEF NamedOrGone, On, Stale
<1>6. CASE Lock \/ LeavesPage
  BY <1>6 DEF Lock, LeavesPage, Is
<1>7. CASE EntersPage
  BY <1>7 DEF EntersPage, Mounted
<1>8. CASE \E s \in 1..made.secret : Unlock(s)
  BY <1>3, <1>8 DEF Unlock
<1>9. CASE \E yes \in BOOLEAN : Confirms(yes)
  <2>1. page' = page \/ page' = [page EXCEPT !.left = {}, !.rotated = FALSE]
    BY <1>9 DEF Confirms
  <2>2. CASE page' = page
    BY <1>5, <1>9, <2>2 DEF Confirms, RotationEnds, RotationAsks
  <2>3. CASE page' = [page EXCEPT !.left = {}, !.rotated = FALSE]
    <3>1. Is(page)
      BY <1>9 DEF Confirms, NamedInv, KeyInv, IInv, Attached
    <3>2. page'.rotated = FALSE
      BY <1>3, <2>3, <3>1 DEF Page
    <3> QED BY <3>2
  <2> QED BY <2>1, <2>2, <2>3
<1>10. CASE Proves \/ Coded \/ Lists \/ Hides
  <2>1. Is(page)
    BY <1>10 DEF Proves, Coded, Lists, Hides, On, NamedInv, KeyInv, IInv, Attached
  <2>2. \/ page' = page \/ \E c : page' = [page EXCEPT !.code = c]
        \/ \E b : page' = [page EXCEPT !.bare = b] \/ \E c : page' = [page EXCEPT !.code = c, !.bare = b]
    <3>1. Proves => op.kind \in {"reveal", "paper", "rotate", "change"}
      BY <1>1 DEF Proves, TypeOK, Handler, Kinds, Is
    <3> QED BY <1>10, <3>1 DEF Proves, ProofShows, Coded, Lists, Hides
  <2>3. page'.rotated = page.rotated /\ page'.left = page.left /\ page'.devs = page.devs
    BY <1>3, <2>1, <2>2 DEF Page
  <2>4. ~(RotationEnds \/ RotationAsks) \/ page' = page
    BY DEF RotationEnds, RotationAsks, Rotated, Is
  <2> QED BY <1>4, <1>5, <2>1, <2>3
<1>11. ASSUME NEW d \in Devices, RevokesOne(d) \/ EndsSession(d)
       PROVE  Stale' \subseteq page'.left \union page'.devs
  <2>1. Is(page) /\ page \in Page /\ Is(tab) /\ UNCHANGED tab
    BY <1>3, <1>11 DEF RevokesOne, EndsSession, On
  <2>2. CASE page' = page
    BY <1>4, <1>5, <2>1, <2>2
  <2>3. CASE page' # page
    <3>1. paired' = Without({d}) /\ (page' = [page EXCEPT !.devs = @ \ {d}] \/ page' = Ended(d))
      BY <1>11, <2>3 DEF RevokesOne, EndsSession, Tried
    <3>2. Paired' = Paired \ {d}
      BY <3>1 DEF Without, Paired
    <3>3. Stale' \subseteq Stale /\ Stale' \subseteq Paired'
      BY <1>1, <2>1, StaleShrinks
    <3>4. CASE page' = [page EXCEPT !.devs = @ \ {d}]
      <4>1. page'.rotated = page.rotated /\ page'.left = page.left /\ page'.devs = page.devs \ {d}
        BY <2>1, <3>4 DEF Page
      <4>2. Stale \subseteq page.left \union page.devs
        BY <2>1, <4>1 DEF NamedInv, Listed, NamedOrGone, On, Stale
      <4> QED BY <3>2, <3>3, <4>1, <4>2
    <3>5. CASE page' = Ended(d)
      <4>1. page'.devs = Paired \ {d}
        BY <2>1, <3>5 DEF Ended, Page
      <4> QED BY <3>2, <3>3, <4>1
    <3> QED BY <3>1, <3>4, <3>5
  <2> QED BY <2>2, <2>3
<1>12. CASE RevokesOthers \/ Reloads
  <2>1. Is(page) /\ page \in Page /\ Is(tab) /\ UNCHANGED tab
    BY <1>3, <1>12 DEF RevokesOthers, Reloads, On
  <2>2. page' = [page EXCEPT !.devs = Paired']
    BY <1>12 DEF RevokesOthers, Reloads, Paired
  <2>3. page'.devs = Paired'
    BY <2>1, <2>2 DEF Page
  <2> QED BY <1>1, <2>1, <2>3, StaleShrinks
<1>13. CASE RetryRevoking
  <2>1. Is(page) /\ page \in Page /\ Is(tab) /\ UNCHANGED tab
    BY <1>3, <1>13 DEF RetryRevoking, On
  <2>2. PICK failed : RevokesAll(page.left, failed) /\ page' = Named(page.left, failed)
    BY <1>13 DEF RetryRevoking
  <2>3. /\ page'.left = failed /\ page'.rotated = page.rotated
        /\ page'.devs = (page.devs \ page.left) \union (page.devs \cap failed)
    <3> DEFINE p == Named(page.left, failed)
    <3>1. /\ p.left = failed /\ p.rotated = page.rotated
          /\ p.devs = (page.devs \ page.left) \union (page.devs \cap failed)
      BY <2>1, NamedLists
    <3>2. page' = p
      BY <2>2
    <3> HIDE DEF p
    <3> QED BY <3>1, <3>2
  <2>4. Stale' \subseteq Stale /\ Stale' \subseteq Paired \ (page.left \ failed)
    BY <1>1, <2>1, <2>2, StaleShrinks, Tries
  <2>5. Stale \subseteq page.left \union page.devs
    BY <2>1, <2>3 DEF NamedInv, Listed, NamedOrGone, On, Stale
  <2> QED BY <2>3, <2>4, <2>5
<1>14. CASE RotationRevokes
  <2>1. Is(op) /\ op.stage = "revoke" /\ UNCHANGED tab
    BY <1>14 DEF RotationRevokes
  <2>2. PICK failed :
          /\ RevokesAll(op.list, failed)
          /\ page' = IF op.alive THEN [Named(op.list, failed) EXCEPT !.rotated = TRUE] ELSE page
    BY <1>14 DEF RotationRevokes
  <2>3. op.alive /\ Is(page) /\ page \in Page /\ Is(tab)
    <3>1. Is(page)
      BY <1>1, <2>1, <2>2 DEF KeyInv, IInv, Attached
    <3> QED BY <1>3, <2>1, <3>1 DEF NamedInv, Listed
  <2>4. page'.left = failed
    BY <2>2, <2>3, NamedLists
  <2>5. Stale' \subseteq Stale /\ Stale' \subseteq Paired \ (op.list \ failed)
    BY <1>1, <2>1, <2>2, <2>3, StaleShrinks, Tries
  <2>6. Stale \subseteq op.list
    BY <2>1, <2>3 DEF NamedInv, Listed
  <2> QED BY <2>4, <2>5, <2>6
<1>15. CASE \/ OtherSaves \/ OtherRotates \/ \E paper \in BOOLEAN : OtherChanges(paper)
            \/ \E d \in Devices : Pairs(d)
            \/ Edit \/ Settles
            \/ \E s \in 1..made.secret : ChangeStarts(s) \/ PaperStarts(s) \/ RevealStarts(s) \/ RotateStarts(s)
            \/ ProofFails \/ Sends \/ Arrives \/ WireArrives \/ Loses \/ Refused \/ Changed
            \/ UNCHANGED vars
  <2>1. page' = page
    BY <1>15 DEF OtherSaves, OtherRotates, OtherChanges, Pairs, Edit, Settles, ChangeStarts, PaperStarts,
       RevealStarts, RotateStarts, Starts, ProofFails, Sends, Arrives, WireArrives, Loses, Refused, Changed, vars
  <2> QED BY <1>4, <1>5, <2>1
<1> QED BY <1>4, <1>6, <1>7, <1>8, <1>9, <1>10, <1>11, <1>12, <1>13, <1>14, <1>15, Zenon DEF Next

\* What a handler has of the page and of the devices, step by step.
LEMMA HandlerStep ==
  ASSUME "named" \in Careful, NamedInv, [Next]_vars, Is(op')
  PROVE  /\ Is(page') => op'.alive
         /\ op'.stage \in {"ask", "list", "revoke"} => op'.kind = "rotate"
         /\ op'.kind = "rotate" /\ op'.stage # "confirm" => (Is(page') => ~page'.rotated)
         /\ op'.stage = "revoke" /\ op'.alive => Stale' \subseteq op'.list
<1> DEFINE Goal == /\ Is(page') => op'.alive
                   /\ op'.stage \in {"ask", "list", "revoke"} => op'.kind = "rotate"
                   /\ op'.kind = "rotate" /\ op'.stage # "confirm" => (Is(page') => ~page'.rotated)
                   /\ op'.stage = "revoke" /\ op'.alive => Stale' \subseteq op'.list
<1>1. KeyInv /\ KeyInv' /\ PairedTypes
  BY KeyInvStep DEF NamedInv, KeyInv
<1>2. op' \in Handler /\ (Is(op) => op \in Handler) /\ (Is(page) => Is(tab) /\ page \in Page)
  BY <1>1 DEF KeyInv, IInv, TypeOK, Attached, Is
<1>3. Is(op) =>
        /\ Is(page) <=> op.alive
        /\ op.stage \in {"ask", "list", "revoke"} => op.kind = "rotate"
        /\ op.kind = "rotate" /\ op.stage # "confirm" => (Is(page) => ~page.rotated)
        /\ op.stage = "revoke" /\ op.alive => Stale \subseteq op.list
  BY <1>1 DEF NamedInv, Listed, KeyInv, IInv, Attached
\* A handler at its next stage, or at the same one, of a page that is as it was.
<1>4. ASSUME Is(op), op'.kind = op.kind, op'.alive = op.alive, op.stage # "confirm",
             Is(page') => Is(page) /\ (page'.rotated => page.rotated),
             op'.stage \in {"ask", "list"} => op.kind = "rotate",
             op'.stage = "revoke" => op.kind = "rotate" /\ op'.list = op.list /\ op.stage = "revoke" /\ UNCHANGED tab
      PROVE  Goal
  <2>1. op'.stage = "revoke" /\ op'.alive => Stale' \subseteq op'.list
    BY <1>1, <1>2, <1>3, <1>4, StaleShrinks
  <2> QED BY <1>3, <1>4, <2>1
<1>5. CASE \/ OtherSaves \/ OtherRotates \/ \E paper \in BOOLEAN : OtherChanges(paper)
           \/ \E d \in Devices : Pairs(d) \/ RevokesOne(d) \/ EndsSession(d)
           \/ Edit \/ Settles \/ WireArrives \/ RevokesOthers \/ Reloads \/ Hides \/ UNCHANGED vars
  <2>1. op' = op
    BY <1>5 DEF OtherSaves, OtherRotates, OtherChanges, Pairs, RevokesOne, EndsSession, Edit, Settles,
       WireArrives, RevokesOthers, Reloads, Hides, vars
  <2>2. Is(page') => Is(page) /\ page'.rotated = page.rotated
    <3>1. \/ page' = page
          \/ Is(page) /\ \E x : page' = [page EXCEPT !.devs = x]
          \/ Is(page) /\ \E x, y : page' = [page EXCEPT !.rows = x, !.devs = y]
          \/ Is(page) /\ \E x : page' = [page EXCEPT !.code = x]
          \/ Is(page) /\ \E x : page' = [page EXCEPT !.bare = x]
      BY <1>5 DEF OtherSaves, OtherRotates, OtherChanges, Pairs, RevokesOne, EndsSession, Edit, Settles,
         WireArrives, RevokesOthers, Reloads, Hides, vars, Tried, Ended, On
    <3> QED BY <1>2, <3>1 DEF Page
  <2>3. op.stage = "revoke" /\ op.alive => Stale' \subseteq op.list
    <3> SUFFICES ASSUME op.stage = "revoke", op.alive PROVE Stale' \subseteq op.list
      OBVIOUS
    <3>1. Is(tab) /\ tab \in Tab
      BY <1>1, <1>2, <1>3, <2>1 DEF KeyInv, IInv, TypeOK, Is
    <3>2. tab'.key = tab.key
      BY <1>5, <3>1 DEF OtherSaves, OtherRotates, OtherChanges, Pairs, RevokesOne, EndsSession, Edit, Settles,
         WireArrives, RevokesOthers, Reloads, Hides, vars, Tab
    <3> QED BY <1>1, <1>3, <2>1, <3>1, <3>2, StaleShrinks
  <2> QED BY <1>3, <2>1, <2>2, <2>3
<1>6. CASE EntersPage \/ RetryRevoking
  BY <1>6 DEF EntersPage, RetryRevoking, Busy
<1>7. CASE \E s \in 1..made.secret : Unlock(s)
  <2>1. op' = op /\ page' = page /\ ~Is(page)
    BY <1>2, <1>7 DEF Unlock
  <2> QED BY <1>3, <2>1
<1>8. CASE Lock \/ LeavesPage
  <2>1. page' = None /\ Is(op) /\ op.stage # "confirm"
    BY <1>8 DEF Lock, LeavesPage, Gone, Busy, Is
  <2>2. PICK b : op' = [op EXCEPT !.alive = FALSE, !.live = b]
    BY <1>8 DEF Lock, LeavesPage, Gone, Is
  <2>3. op'.alive = FALSE /\ op'.stage = op.stage /\ op'.kind = op.kind
    BY <1>2, <2>1, <2>2 DEF Handler
  <2> QED BY <1>3, <2>1, <2>3 DEF Is
<1>9. CASE \E s \in 1..made.secret : ChangeStarts(s) \/ PaperStarts(s) \/ RevealStarts(s) \/ RotateStarts(s)
  <2>1. op'.alive /\ (op'.stage = "confirm" \/ (op'.stage = "prove" /\ op'.kind = "change"))
    BY <1>9 DEF ChangeStarts, PaperStarts, RevealStarts, RotateStarts, Starts, Asking
  <2> QED BY <2>1
<1>10. CASE \E yes \in BOOLEAN : Confirms(yes)
  <2>1. Is(op) /\ op.stage = "confirm" /\ op' = [op EXCEPT !.stage = "prove"]
    BY <1>10 DEF Confirms, Is
  <2>2. op'.stage = "prove" /\ op'.kind = op.kind /\ op'.alive = op.alive
    BY <1>2, <2>1 DEF Handler
  <2>3. Is(page) /\ op.alive
    BY <1>1, <2>1 DEF KeyInv, IInv, Attached
  <2>4. op.kind = "rotate" => page' = [page EXCEPT !.left = {}, !.rotated = FALSE]
    BY <1>10, <2>1 DEF Confirms, Is
  <2>5. op.kind = "rotate" => page'.rotated = FALSE
    BY <1>2, <2>3, <2>4 DEF Page
  <2> QED BY <2>2, <2>3, <2>5
<1>11. CASE Proves
  <2>1. Is(op) /\ op.stage = "prove" /\ op.alive
    BY <1>11 DEF Proves
  <2>2. PICK v, c, k, t : op' = [op EXCEPT !.stage = "send", !.typed = 0, !.ver = v, !.code = c, !.key = k, !.secret = t]
    <3>1. Proven /\ op.kind # "reveal"
      BY <1>11 DEF Proves, Is
    <3> QED BY <1>11, <3>1 DEF Proves
  <2>3. op'.stage = "send" /\ op'.kind = op.kind /\ op'.alive = op.alive
    BY <1>2, <2>1, <2>2 DEF Handler
  <2>4. Is(page)
    BY <1>3, <2>1
  <2>5. page'.rotated = page.rotated
    <3>1. \/ page' = page \/ \E c1 : page' = [page EXCEPT !.code = c1]
          \/ \E b : page' = [page EXCEPT !.bare = b] \/ \E c1 : page' = [page EXCEPT !.code = c1, !.bare = b]
      <4>1. op.kind \in {"reveal", "paper", "rotate", "change"}
        BY <1>2, <2>1 DEF Handler, Kinds
      <4> QED BY <1>11, <4>1 DEF Proves, ProofShows
    <3> QED BY <1>2, <2>4, <3>1 DEF Page
  <2> QED BY <1>4, <2>1, <2>3, <2>4, <2>5
<1>12. CASE Sends \/ Arrives \/ RotationEnds \/ RotationAsks \/ Loses
  <2>1. Is(op) /\ op.stage \in {"send", "sent", "landed", "refused", "ask"}
    BY <1>12 DEF Sends, Arrives, RotationEnds, RotationAsks, Loses
  <2>2. page' = page \/ page' = None
    BY <1>12 DEF Sends, Arrives, RotationEnds, RotationAsks, Loses, Rotated
  <2>3. /\ \/ \E v : op' = [op EXCEPT !.stage = "sent", !.ver = v]
           \/ \E s \in {"landed", "refused", "ask", "list"} : op' = [op EXCEPT !.stage = s]
    BY <1>12 DEF Sends, Arrives, RotationEnds, RotationAsks, Loses, Rotated, Is
  <2>4. op'.kind = op.kind /\ op'.alive = op.alive /\ op'.stage \in {"sent", "landed", "refused", "ask", "list"}
    BY <1>2, <2>1, <2>3 DEF Handler
  <2>5. op'.stage \in {"ask", "list"} => op.kind = "rotate"
    <3>1. CASE Sends
      <4>1. op'.stage = "sent"
        BY <1>2, <2>1, <3>1 DEF Sends, Is, Handler
      <4> QED BY <4>1
    <3>2. CASE Arrives
      <4>1. \/ op' = [op EXCEPT !.stage = "landed"] \/ op' = [op EXCEPT !.stage = "refused"]
            \/ op.kind = "rotate"
        BY <3>2 DEF Arrives, StopsFirst
      <4>2. op'.stage \in {"landed", "refused"} \/ op.kind = "rotate"
        BY <1>2, <2>1, <4>1 DEF Handler
      <4> QED BY <4>2
    <3>3. CASE RotationEnds \/ Loses
      BY <3>3 DEF RotationEnds, Loses, Is
    <3>4. CASE RotationAsks
      BY <1>3, <3>4 DEF RotationAsks
    <3> QED BY <1>12, <3>1, <3>2, <3>3, <3>4
  <2> QED BY <1>4, <2>1, <2>2, <2>4, <2>5 DEF Is
<1>13. CASE Lists
  <2>1. Is(op) /\ op.stage = "list" /\ UNCHANGED <<tab, paired>>
    BY <1>13 DEF Lists
  <2>2. op' = [op EXCEPT !.stage = "revoke", !.list = Paired]
    BY <1>13 DEF Lists
  <2>3. op'.stage = "revoke" /\ op'.kind = op.kind /\ op'.alive = op.alive /\ op'.list = Paired
    BY <1>2, <2>1, <2>2 DEF Handler
  <2>4. Stale' \subseteq op'.list
    BY <2>1, <2>3 DEF Stale, Paired
  <2>5. Is(page') => Is(page) /\ page'.rotated = page.rotated
    <3>1. page' = page \/ (op.alive /\ page' = [page EXCEPT !.code = op.code])
      BY <1>13 DEF Lists
    <3> QED BY <1>2, <1>3, <2>1, <3>1 DEF Page
  <2> QED BY <1>3, <2>1, <2>3, <2>4, <2>5
<1>14. CASE ProofFails \/ Refused \/ Changed \/ Coded \/ RotationRevokes
  BY <1>14 DEF ProofFails, Refused, Changed, Coded, RotationRevokes, Is
<1> QED BY <1>5, <1>6, <1>7, <1>8, <1>9, <1>10, <1>11, <1>12, <1>13, <1>14, Zenon DEF Next

LEMMA InitNamed == Init => NamedInv
<1> SUFFICES ASSUME Init PROVE NamedInv
  OBVIOUS
<1>1. IInv
  BY InitHolds
<1>2. /\ page = None /\ op = None /\ tab = None /\ wire = {}
      /\ srv.file = 1 /\ made.key = 1 /\ paired = [d \in Devices |-> 0]
  BY DEF Init
<1> QED BY <1>1, <1>2 DEF NamedInv, KeyInv, PairedTypes, KeysGrow, Listed, NamedOrGone, On, Is

\* After the page reports a rotation, a device that still holds a retired key is named
\* on it, whatever requests and answers are lost and whoever pairs or rotates meanwhile,
\* as long as the devices could be listed (revokeAll, revokeDevices).
THEOREM OldDevicesNamed ==
  ASSUME "named" \in Careful
  PROVE  Spec => []NamedOrGone
<1>1. Init => NamedInv
  BY InitNamed
<1>2. NamedInv /\ [Next]_vars => NamedInv'
  <2> SUFFICES ASSUME NamedInv, [Next]_vars PROVE NamedInv'
    OBVIOUS
  <2>1. KeyInv'
    BY KeyInvStep DEF NamedInv
  <2>2. Listed'
    BY NamedStep, HandlerStep DEF Listed
  <2> QED BY <2>1, <2>2 DEF NamedInv
<1>3. NamedInv => NamedOrGone
  BY DEF NamedInv, Listed
<1> QED BY <1>1, <1>2, <1>3, PTL DEF Spec

====
