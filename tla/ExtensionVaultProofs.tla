---- MODULE ExtensionVaultProofs ----
(* What ExtensionVault keeps for every set of logins and every bound. A copy in
   the worker's memory is either older than the server's version or holds all that
   version has, so that the one upload the server can take drops nothing; what a
   lock outdates stays outdated until it ends; and what a failed save put into a
   copy is gone with that copy. *)
EXTENDS ExtensionVault, TLAPS

Copy == [ver : Nat, content : SUBSET Logins, key : Nat]
Upload == [ver : Nat, content : SUBSET Logins, key : Nat, token : Nat]
Filling == [login : Logins, page : Pages]

\* The stages at which a handler holds a vault, and those at which it does not.
Holding == {"store", "check", "commit", "probe", "ask", "asked", "made", "sent",
            "accepted", "refused", "denied"}
Empty == {"begun", "metadata", "file", "waits", "fill", "filled"}

Server == [ver : Nat, content : SUBSET Logins, file : Nat, env : Nat, keys : Nat,
           tokens : SUBSET (Nat \ {0}), issued : Nat]
Underway == [stage : Holding \union Empty, id : Ids \union {0}, live : BOOLEAN, late : BOOLEAN,
             key : Nat, env : Nat, group : Nat, login : Mine \union BOOLEAN \union {None},
             up : Upload \union Filling \union {None}]

AllRunning == [Handlers -> Underway \union {None}]
AllCopies == [Ids -> Copy \union {None}]
Stages == Holding \union Empty

OutsideOK ==
  /\ srv \in Server
  /\ stray \subseteq Upload
  /\ local \in [token : Nat, told : BOOLEAN]

WorkerOK ==
  /\ sess \in [key : Nat, env : Nat, late : BOOLEAN] \union {None}
  /\ heap \in AllCopies
  /\ open \in [id : Ids, late : BOOLEAN] \union {None}
  /\ reopening \in Nat

HandlersOK == pr \in AllRunning

\* Who holds a vault by its stage names one; a save carries a login and its upload.
StageOK(h, r) ==
  Is(r) => /\ r.stage \in Holding <=> r.id # 0
           /\ h = "save" => /\ r.login \in Mine
                            /\ r.stage \in Uploading \ {"made"} => r.up \in Upload
AllStages(p) == \A h \in Handlers : StageOK(h, p[h])
StagesOK == AllStages(pr)

\* A vault that is held exists.
HeldOK == \A i \in Ids : Held(i) => heap[i] \in Copy

TypeOK == OutsideOK /\ WorkerOK /\ HandlersOK /\ StagesOK /\ HeldOK

\* A version read once is behind the server's, or has all the server has.
Current(ver, content) == ver <= srv.ver /\ (ver = srv.ver => srv.content \subseteq content)

Copies ==
  /\ \A i \in Ids : Is(heap[i]) => Current(heap[i].ver, heap[i].content)
  /\ \A up \in stray : Current(up.ver, up.content)
  /\ Running("save", "sent") =>
       LET up == pr["save"].up
       IN  Current(up.ver, up.content) /\ up.content \subseteq heap[pr["save"].id].content
  /\ Running("save", "accepted") => Current(pr["save"].up.ver + 1, heap[pr["save"].id].content)

\* A handler about to put back what a lock took away.
Committing == {"store", "check", "commit"}
NoneLive(p) == \A h \in Handlers : Is(p[h]) /\ p[h].stage \in Committing => ~p[h].live

\* Without a pairing every such handler is outdated.
Revocation == RevokedHoldsNoKey /\ (local.token = 0 => NoneLive(pr))

\* A handler that is not outdated began after the last lock, when no lock falls
\* between its first await and the generation it takes.
Fresh(r) == Is(r) /\ r.late => r.stage # "begun" /\ ~r.live
AllFresh(p) == \A h \in Handlers : Fresh(p[h])
Generations ==
  /\ LockHolds
  /\ AllFresh(pr)
  /\ Running("unlock", "check") /\ Is(sess) => (sess.late => pr["unlock"].late)

\* What is absent is no copy, handler, upload or filling.
LEMMA Absent == None \notin Copy /\ None \notin Underway /\ None \notin Upload /\ None \notin Filling
BY DEF None, Copy, Underway, Upload, Filling

\* What a handler under way is known to be.
LEMMA Known ==
  ASSUME TypeOK, NEW h \in Handlers, Is(pr[h])
  PROVE  /\ pr[h] \in Underway /\ pr[h].stage \in Stages /\ pr[h].id \in Ids \union {0}
         /\ pr[h].stage \in Holding => pr[h].id \in Ids /\ heap[pr[h].id] \in Copy
         /\ pr[h].stage \in Empty => pr[h].id = 0
BY DEF TypeOK, HandlersOK, AllRunning, StagesOK, AllStages, StageOK, HeldOK, Held, Underway, Holding, Empty, Stages, Is

\* A handler stays one with any of the fields a step changes.
LEMMA Moves ==
  ASSUME NEW r \in Underway, NEW s \in Stages
  PROVE  [r EXCEPT !.stage = s] \in Underway
BY DEF Underway, Stages

LEMMA Generation ==
  ASSUME NEW r \in Underway, NEW s \in Stages, NEW b \in BOOLEAN
  PROVE  [r EXCEPT !.stage = s, !.live = b] \in Underway
BY DEF Underway, Stages

LEMMA OutdatedOne ==
  ASSUME NEW r \in Underway, NEW b \in BOOLEAN, NEW c \in BOOLEAN
  PROVE  [r EXCEPT !.live = b, !.late = c] \in Underway
BY DEF Underway, Stages

LEMMA HasKey ==
  ASSUME NEW r \in Underway, NEW s \in Stages, NEW k \in Nat, NEW e \in Nat
  PROVE  [r EXCEPT !.stage = s, !.key = k, !.env = e] \in Underway
BY DEF Underway, Stages

LEMMA Takes ==
  ASSUME NEW r \in Underway, NEW s \in Stages, NEW i \in Ids \union {0}
  PROVE  [r EXCEPT !.stage = s, !.id = i] \in Underway
BY DEF Underway, Stages

LEMMA TakesOpen ==
  ASSUME NEW r \in Underway, NEW s \in Stages, NEW b \in BOOLEAN, NEW i \in Ids \union {0}, NEW k \in Nat
  PROVE  [r EXCEPT !.stage = s, !.live = b, !.id = i, !.key = k] \in Underway
BY DEF Underway, Stages

LEMMA Waits ==
  ASSUME NEW r \in Underway, NEW s \in Stages, NEW b \in BOOLEAN, NEW g \in Nat
  PROVE  [r EXCEPT !.stage = s, !.live = b, !.group = g] \in Underway
BY DEF Underway, Stages

LEMMA Reopened ==
  ASSUME NEW r \in Underway, NEW s \in Stages, NEW i \in Ids \union {0}, NEW g \in Nat, NEW k \in Nat
  PROVE  [r EXCEPT !.stage = s, !.id = i, !.group = g, !.key = k] \in Underway
BY DEF Underway, Stages

LEMMA Found ==
  ASSUME NEW r \in Underway, NEW s \in Stages, NEW u \in Upload \union Filling, NEW i \in Ids \union {0}
  PROVE  [r EXCEPT !.stage = s, !.up = u, !.id = i] \in Underway
BY DEF Underway, Stages

LEMMA HasEnvelope ==
  ASSUME NEW r \in Underway, NEW s \in Stages, NEW e \in Nat
  PROVE  [r EXCEPT !.stage = s, !.env = e] \in Underway
BY DEF Underway, Stages

LEMMA Sent ==
  ASSUME NEW r \in Underway, NEW s \in Stages, NEW u \in Upload \union Filling
  PROVE  [r EXCEPT !.stage = s, !.up = u] \in Underway
BY DEF Underway, Stages

LEMMA Put ==
  ASSUME pr \in AllRunning, NEW h \in Handlers, NEW r \in Underway \union {None}
  PROVE  [pr EXCEPT ![h] = r] \in AllRunning
BY DEF AllRunning

LEMMA NewHandler ==
  ASSUME NEW k \in Nat, NEW l \in Mine \union BOOLEAN \union {None}
  PROVE  Handler("begun", k, l) \in Underway
BY DEF Handler, Underway, Empty, Ids

LEMMA OutdatedType ==
  ASSUME NEW p \in AllRunning PROVE Outdated(p) \in AllRunning
BY OutdatedOne DEF AllRunning, Outdated, Is

LEMMA EndsType ==
  ASSUME pr \in AllRunning, NEW h \in Handlers PROVE Ends(h) \in AllRunning
BY DEF AllRunning, Ends

LEMMA LeftType ==
  ASSUME pr \in AllRunning, NEW hs PROVE LeftBy(hs) \in AllRunning
BY DEF AllRunning, LeftBy

LEMMA GoesType ==
  ASSUME pr \in AllRunning, NEW h \in Handlers, Is(pr[h]), NEW s \in Stages
  PROVE  Goes(h, s) \in AllRunning
<1>1. pr[h] \in Underway
  BY DEF AllRunning, Is
<1>2. [pr[h] EXCEPT !.stage = s] \in Underway
  BY <1>1, Moves
<1> QED BY <1>2 DEF Goes, AllRunning

\* A handler that opens a group finds one that is not in use.
LEMMA GroupFree ==
  (CHOOSE g \in 1..3 : \A o \in Ensures : ~(Is(pr[o]) /\ pr[o].group = g)) \in Nat
<1>1. \E g \in 1..3 : \A o \in Ensures : ~(Is(pr[o]) /\ pr[o].group = g)
  <2>1. \E g \in 1..3 : g # pr["read"].group /\ g # pr["save"].group
    OBVIOUS
  <2> QED BY <2>1 DEF Ensures
<1> QED BY <1>1

\* While a handler holds no vault, one of the four places is free.
LEMMA FreeIsFree ==
  ASSUME NEW h \in Handlers, Is(pr[h]) => pr[h].id = 0
  PROVE  Free \in Ids /\ ~Held(Free)
<1>1. \E i \in Ids : ~Held(i)
  <2>1. \A i \in Ids : Held(i) => \/ Is(open) /\ open.id = i
                                 \/ \E o \in Handlers \ {h} : Is(pr[o]) /\ pr[o].id = i
    BY DEF Held, Ids
  <2>2. PICK o1 \in Handlers, o2 \in Handlers : Handlers \ {h} = {o1, o2}
    BY DEF Handlers
  <2>3. \E i \in Ids : i # open.id /\ i # pr[o1].id /\ i # pr[o2].id
    BY DEF Ids
  <2> QED BY <2>1, <2>2, <2>3
<1> QED BY <1>1 DEF Free

\* Every step keeps the handlers' type.
LEMMA HandlersStep == TypeOK /\ [Next]_vars => HandlersOK'
<1> SUFFICES ASSUME TypeOK, [Next]_vars PROVE pr' \in AllRunning
  BY DEF HandlersOK, AllRunning
<1>0. /\ pr \in AllRunning
      /\ srv.env \in Nat /\ local.token \in Nat
      /\ Is(sess) => sess.key \in Nat /\ sess.env \in Nat
      /\ reopening \in Nat
      /\ Is(open) => open.id \in Ids
  BY DEF TypeOK, OutsideOK, WorkerOK, HandlersOK, AllRunning, Server, Is
<1> USE <1>0
<1>1. CASE Lock
  BY <1>1, OutdatedType DEF Lock
<1>2. CASE CheckDevice
  BY <1>2, OutdatedType DEF CheckDevice, Revoked
<1>3. ASSUME NEW restart \in BOOLEAN, WorkerStops(restart) PROVE pr' \in AllRunning
  BY <1>3 DEF WorkerStops, AllRunning
<1>4. CASE UnlockBegins
  <2>1. Handler("begun", 0, None) \in Underway
    BY NewHandler
  <2> HIDE DEF Handler
  <2>2. Outdated(pr) \in AllRunning
    BY OutdatedType
  <2> QED BY <1>4, <2>1, <2>2 DEF UnlockBegins, AllRunning, Handlers
<1>5. CASE UnlockGoesOn
  <2>1. [pr["unlock"] EXCEPT !.stage = "metadata", !.live = TRUE] \in Underway
    BY <1>5, Known, Generation DEF UnlockGoesOn, Running, Handlers, Stages, Empty
  <2> QED BY <1>5, <2>1, Put DEF UnlockGoesOn, TakesGeneration, AllRunning, Handlers
<1>6. CASE UnlockFails
  BY <1>6, EndsType DEF UnlockFails, Handlers
<1>7. CASE UnlockMetadata
  <2>1. [pr["unlock"] EXCEPT !.stage = "file", !.key = srv.env, !.env = srv.env] \in Underway
    BY <1>7, Known, HasKey DEF UnlockMetadata, Running, Handlers, Stages, Empty
  <2>2. CASE Accepted
    BY <1>7, <2>1, <2>2 DEF UnlockMetadata, AllRunning, Handlers
  <2>3. CASE ~Accepted
    BY <1>7, <2>3, EndsType, OutdatedType DEF UnlockMetadata, Revoked, Handlers
  <2> QED BY <2>2, <2>3
<1>8. CASE UnlockFile
  <2>1. pr["unlock"] \in Underway /\ Free \in Ids
    BY <1>8, Known, FreeIsFree DEF UnlockFile, Running, Handlers, Empty
  <2>2. [pr["unlock"] EXCEPT !.stage = "store", !.id = Free] \in Underway
    BY <2>1, Takes DEF Stages, Holding
  <2>3. Ends("unlock") \in AllRunning /\ Outdated(Ends("unlock")) \in AllRunning
    BY EndsType, OutdatedType DEF Handlers
  <2> QED BY <1>8, <2>2, <2>3 DEF UnlockFile, Revoked, AllRunning, Handlers
<1>9. CASE UnlockStores
  BY <1>9, GoesType DEF UnlockStores, Running, Handlers, Stages, Holding
<1>10. CASE UnlockEnds
  BY <1>10, EndsType DEF UnlockEnds, Handlers
<1>11. ASSUME NEW fill \in BOOLEAN, ReadBegins(fill) PROVE pr' \in AllRunning
  <2>1. Handler("begun", sess.key, fill) \in Underway
    BY <1>11, NewHandler DEF ReadBegins, Is
  <2> QED BY <1>11, <2>1 DEF ReadBegins, AllRunning, Handlers
<1>12. ASSUME NEW e \in Mine \ landed, SaveBegins(e) PROVE pr' \in AllRunning
  <2>1. Handler("begun", sess.key, e) \in Underway
    BY <1>12, NewHandler DEF SaveBegins, Is
  <2> QED BY <1>12, <2>1 DEF SaveBegins, AllRunning, Handlers
<1>13. ASSUME NEW h \in Ensures, EnsureGoesOn(h) PROVE pr' \in AllRunning
  <2>1. h \in Handlers /\ pr[h] \in Underway
    BY <1>13, Known DEF EnsureGoesOn, Running, Handlers, Ensures
  <2>2. CASE Is(open)
    <3>1. [pr[h] EXCEPT !.stage = "commit", !.live = TRUE, !.id = open.id, !.key = 0] \in Underway
      BY <2>1, <2>2, TakesOpen DEF Stages, Holding, Is
    <3>2. pr' = [pr EXCEPT ![h] = [pr[h] EXCEPT !.stage = "commit", !.live = TRUE, !.id = open.id, !.key = 0]]
      BY <1>13, <2>1, <2>2 DEF EnsureGoesOn, TakesGeneration, AllRunning
    <3> QED BY <2>1, <3>1, <3>2, Put
  <2>3. CASE ~Is(open)
    <3>1. PICK g \in Nat : pr' = [pr EXCEPT ![h] = [pr[h] EXCEPT !.stage = "waits", !.live = TRUE, !.group = g]]
      <4>1. reopening' \in Nat
        BY <1>13, <2>3, GroupFree DEF EnsureGoesOn
      <4>2. pr' = [TakesGeneration(h, "waits") EXCEPT ![h].group = reopening']
        BY <1>13, <2>3 DEF EnsureGoesOn
      <4> QED BY <2>1, <4>1, <4>2 DEF TakesGeneration, AllRunning
    <3>2. [pr[h] EXCEPT !.stage = "waits", !.live = TRUE, !.group = g] \in Underway
      BY <2>1, Waits DEF Stages, Empty
    <3> QED BY <2>1, <3>1, <3>2, Put
  <2> QED BY <2>2, <2>3
<1>14. ASSUME NEW g \in 1..3, Reopens(g) PROVE pr' \in AllRunning
  <2>1. PICK first \in Ensures : first \in Group(g)
    BY <1>14 DEF Reopens, Group
  <2>2. Free \in Ids
    BY <2>1, Known, FreeIsFree DEF Group, Running, Ensures, Handlers, Empty
  <2>3. LeftBy(Group(g)) \in AllRunning /\ Outdated(LeftBy(Group(g))) \in AllRunning
    BY LeftType, OutdatedType
  <2>4. [h \in Handlers |-> IF h \in Group(g)
           THEN [pr[h] EXCEPT !.stage = "commit", !.id = Free, !.group = 0, !.key = 0] ELSE pr[h]] \in AllRunning
    <3>1. ASSUME NEW h \in Group(g)
          PROVE  [pr[h] EXCEPT !.stage = "commit", !.id = Free, !.group = 0, !.key = 0] \in Underway
      BY <2>2, <3>1, Known, Reopened DEF Group, Running, Ensures, Handlers, Stages, Holding
    <3> QED BY <3>1 DEF AllRunning
  <2> QED BY <1>14, <2>3, <2>4, Zenon DEF Reopens, Revoked
<1>15. CASE ReadCommits
  BY <1>15, EndsType, GoesType DEF ReadCommits, Running, Handlers, Stages, Holding
<1>16. CASE NoForm
  BY <1>16, EndsType DEF NoForm, Handlers
<1>17. CASE FillEnds
  BY <1>17, EndsType DEF FillEnds, Handlers
<1>18. ASSUME NEW page \in Pages, FillFrame(page) PROVE pr' \in AllRunning
  BY <1>18, EndsType, GoesType DEF FillFrame, Running, Handlers, Stages, Empty
<1>19. ASSUME NEW login \in Logins, NEW page \in Pages, Probes(login, page) PROVE pr' \in AllRunning
  <2>1. [login |-> login, page |-> page] \in Filling
    BY DEF Filling
  <2>2. [pr["read"] EXCEPT !.stage = "fill", !.up = [login |-> login, page |-> page], !.id = 0] \in Underway
    BY <1>19, <2>1, Known, Found DEF Probes, Running, Handlers, Stages, Empty
  <2> QED BY <1>19, <2>2 DEF Probes, AllRunning, Handlers
<1>20. CASE SaveCommits
  BY <1>20, EndsType, GoesType DEF SaveCommits, Running, Handlers, Stages, Holding
<1>21. CASE SaveAsks
  <2>1. PICK e \in Nat : pr' = [pr EXCEPT !["save"].stage = "asked", !["save"].env = e]
    BY <1>21 DEF SaveAsks, Is
  <2>2. [pr["save"] EXCEPT !.stage = "asked", !.env = e] \in Underway
    BY <1>21, Known, HasEnvelope DEF SaveAsks, Running, Handlers, Stages, Holding
  <2> QED BY <2>1, <2>2 DEF AllRunning, Handlers
<1>22. CASE SaveChecked
  <2>1. Goes("save", "made") \in AllRunning
    BY <1>22, GoesType DEF SaveChecked, Running, Handlers, Stages, Holding
  <2>2. Ends("save") \in AllRunning /\ Outdated(Ends("save")) \in AllRunning
    BY EndsType, OutdatedType DEF Handlers
  <2> QED BY <1>22, <2>1, <2>2, Zenon DEF SaveChecked, Revoked
<1>23. CASE SaveSends
  <2>1. pr["save"] \in Underway /\ heap[pr["save"].id] \in Copy
    BY <1>23, Known DEF SaveSends, Running, Handlers, Holding
  <2> DEFINE vault == heap[pr["save"].id]
             upload == [ver |-> vault.ver, content |-> vault.content, key |-> vault.key, token |-> local.token]
  <2>2. upload \in Upload
    BY <2>1 DEF Copy, Upload
  <2>3. pr' = Ends("save") \/ pr' = [pr EXCEPT !["save"].stage = "sent", !["save"].up = upload]
    BY <1>23 DEF SaveSends
  <2> HIDE DEF upload
  <2>4. [pr["save"] EXCEPT !.stage = "sent", !.up = upload] \in Underway
    BY <2>1, <2>2, Sent DEF Stages, Holding
  <2> QED BY <2>3, <2>4, EndsType DEF AllRunning, Handlers
<1>24. CASE SaveArrives
  BY <1>24, GoesType DEF SaveArrives, Running, Handlers, Stages, Holding
<1>25. CASE SaveAccepted
  BY <1>25, EndsType DEF SaveAccepted, Handlers
<1>26. CASE SaveRefused
  BY <1>26, EndsType, OutdatedType DEF SaveRefused, Handlers
<1>27. CASE SaveDenied
  BY <1>27, EndsType, OutdatedType DEF SaveDenied, Revoked, Handlers
<1>28. CASE SaveLost
  BY <1>28, EndsType DEF SaveLost, Handlers
<1>29. CASE Pairs
  BY <1>29 DEF Pairs
<1>30. CASE PairedTold
  BY <1>30, OutdatedType DEF PairedTold
<1>31. ASSUME NEW reached \in BOOLEAN, Unpairs(reached) PROVE pr' \in AllRunning
  BY <1>31, OutdatedType DEF Unpairs
<1>32. CASE OtherSaves
  BY <1>32 DEF OtherSaves
<1>33. CASE OtherRotates
  BY <1>33 DEF OtherRotates
<1>34. CASE DevicesEnded
  BY <1>34 DEF DevicesEnded
<1>35. CASE StrayArrives
  BY <1>35 DEF StrayArrives
<1>36. CASE UNCHANGED vars
  BY <1>36 DEF vars
<1> QED
  BY <1>1, <1>2, <1>3, <1>4, <1>5, <1>6, <1>7, <1>8, <1>9, <1>10, <1>11, <1>12, <1>13, <1>14,
     <1>15, <1>16, <1>17, <1>18, <1>19, <1>20, <1>21, <1>22, <1>23, <1>24, <1>25, <1>26, <1>27, <1>28,
     <1>29, <1>30, <1>31, <1>32, <1>33, <1>34, <1>35, <1>36 DEF Next

\* What those steps leave of each handler.
LEMMA OutdatedAt ==
  ASSUME NEW p \in AllRunning, NEW o \in Handlers
  PROVE  /\ Is(Outdated(p)[o]) <=> Is(p[o])
         /\ Is(p[o]) => /\ Outdated(p)[o].stage = p[o].stage /\ Outdated(p)[o].id = p[o].id
                        /\ Outdated(p)[o].login = p[o].login /\ Outdated(p)[o].up = p[o].up
                        /\ ~Outdated(p)[o].live /\ Outdated(p)[o].late
BY Absent DEF AllRunning, Outdated, Is, Underway

LEMMA EndsAt ==
  ASSUME pr \in AllRunning, NEW h \in Handlers, NEW o \in Handlers
  PROVE  Ends(h)[o] = IF o = h THEN None ELSE pr[o]
BY DEF AllRunning, Ends

LEMMA LeftAt ==
  ASSUME NEW hs, NEW o \in Handlers
  PROVE  LeftBy(hs)[o] = IF o \in hs THEN None ELSE pr[o]
BY DEF LeftBy

LEMMA GoesAt ==
  ASSUME pr \in AllRunning, NEW h \in Handlers, Is(pr[h]), NEW s \in Stages, NEW o \in Handlers
  PROVE  /\ o # h => Goes(h, s)[o] = pr[o]
         /\ Is(Goes(h, s)[h]) /\ Goes(h, s)[h].stage = s
         /\ Goes(h, s)[h].id = pr[h].id /\ Goes(h, s)[h].login = pr[h].login /\ Goes(h, s)[h].up = pr[h].up
         /\ Goes(h, s)[h].live = pr[h].live /\ Goes(h, s)[h].late = pr[h].late
<1>1. pr[h] \in Underway
  BY DEF AllRunning, Is
<1>2. [pr[h] EXCEPT !.stage = s] \in Underway
  BY <1>1, Moves
<1>3. Goes(h, s) = [pr EXCEPT ![h] = [pr[h] EXCEPT !.stage = s]]
  BY DEF Goes
<1> QED BY <1>1, <1>2, <1>3, Absent DEF AllRunning, Is, Underway

\* A handler that goes on or ends takes nothing that it did not have.
LEMMA MovesOn ==
  ASSUME pr \in AllRunning, NEW h \in Handlers, Is(pr[h]), NEW s \in Stages,
         pr' = Goes(h, s) \/ pr' = Ends(h)
  PROVE  \A o \in Handlers : Is(pr'[o]) =>
           /\ Is(pr[o]) /\ pr'[o].id = pr[o].id /\ pr'[o].up = pr[o].up /\ pr'[o].live = pr[o].live
           /\ IF o = h THEN pr'[o].stage = s ELSE pr'[o] = pr[o]
<1>1. CASE pr' = Goes(h, s)
  BY <1>1, GoesAt
<1>2. CASE pr' = Ends(h)
  BY <1>2, EndsAt DEF Is
<1> QED BY <1>1, <1>2

\* What is still held stays as it is, and the rest is forgotten.
LEMMA KeepsAt ==
  ASSUME heap \in AllCopies, Keeps
  PROVE  /\ heap' \in AllCopies
         /\ \A i \in Ids : heap'[i] = IF Held(i)' THEN heap[i] ELSE None
BY DEF Keeps, AllCopies

LEMMA DownloadAt ==
  ASSUME heap \in AllCopies, srv \in Server, NEW k \in Nat
  PROVE  /\ Download(k) \in AllCopies
         /\ \A i \in Ids : Download(k)[i] = IF i = Free THEN [ver |-> srv.ver, content |-> srv.content, key |-> k]
                                           ELSE IF Held(i) THEN heap[i] ELSE None
<1>1. [ver |-> srv.ver, content |-> srv.content, key |-> k] \in Copy
  BY DEF Copy, Server
<1> QED BY <1>1 DEF Download, AllCopies

LEMMA Committed ==
  ASSUME srv \in Server, NEW up \in Upload, Commit(up)
  PROVE  srv' \in Server /\ srv'.ver = srv.ver + 1 /\ srv'.content = up.content /\ srv'.tokens = srv.tokens
<1>1. /\ srv' = [srv EXCEPT !.ver = srv.ver + 1, !.content = up.content, !.file = up.key]
      /\ up.content \in SUBSET Logins /\ up.key \in Nat /\ srv.ver + 1 \in Nat
  BY DEF Commit, Server, Upload
<1> QED BY <1>1 DEF Server

\* Every step keeps the types of the server, the stray uploads and the pairing.
LEMMA OutsideStep == TypeOK /\ [Next]_vars => OutsideOK'
<1> SUFFICES ASSUME TypeOK, [Next]_vars PROVE OutsideOK'
  OBVIOUS
<1>0. srv \in Server /\ stray \subseteq Upload /\ local \in [token : Nat, told : BOOLEAN]
  BY DEF TypeOK, OutsideOK
<1> USE <1>0 DEF OutsideOK
<1>1. CASE Lock
  BY <1>1 DEF Lock, Revoked
<1>2. CASE CheckDevice
  BY <1>2 DEF CheckDevice, Revoked
<1>3. ASSUME NEW restart \in BOOLEAN, WorkerStops(restart) PROVE OutsideOK'
  <2>1. Running("save", "sent") => pr["save"].up \in Upload
    BY DEF Running, Uploading, TypeOK, StagesOK, AllStages, StageOK, Handlers
  <2> QED BY <1>3, <2>1 DEF GivesUp, WorkerStops
<1>4. CASE UnlockBegins
  BY <1>4 DEF UnlockBegins, Revoked
<1>5. CASE UnlockGoesOn
  BY <1>5 DEF UnlockGoesOn, Revoked
<1>6. CASE UnlockFails
  BY <1>6 DEF UnlockFails, Revoked
<1>7. CASE UnlockMetadata
  BY <1>7 DEF UnlockMetadata, Revoked
<1>8. CASE UnlockFile
  BY <1>8 DEF UnlockFile, Revoked
<1>9. CASE UnlockStores
  BY <1>9 DEF UnlockStores, Revoked
<1>10. CASE UnlockEnds
  BY <1>10 DEF UnlockEnds, Revoked
<1>11. ASSUME NEW fill \in BOOLEAN, ReadBegins(fill) PROVE OutsideOK'
  BY <1>11 DEF ReadBegins, Revoked
<1>12. ASSUME NEW e \in Mine \ landed, SaveBegins(e) PROVE OutsideOK'
  BY <1>12 DEF SaveBegins, Revoked
<1>13. ASSUME NEW h \in Ensures, EnsureGoesOn(h) PROVE OutsideOK'
  BY <1>13 DEF EnsureGoesOn, Revoked
<1>14. ASSUME NEW g \in 1..3, Reopens(g) PROVE OutsideOK'
  <2>1. [local EXCEPT !.token = 0] \in [token : Nat, told : BOOLEAN]
    OBVIOUS
  <2>2. srv' = srv /\ stray' = stray /\ local' \in {local, [local EXCEPT !.token = 0]}
    BY <1>14, Zenon DEF Reopens, Revoked
  <2> QED BY <2>1, <2>2
<1>15. CASE ReadCommits
  BY <1>15 DEF ReadCommits, Revoked
<1>16. CASE NoForm
  BY <1>16 DEF NoForm, Revoked
<1>17. CASE FillEnds
  BY <1>17 DEF FillEnds, Revoked
<1>18. ASSUME NEW page \in Pages, FillFrame(page) PROVE OutsideOK'
  BY <1>18 DEF FillFrame, Revoked
<1>19. ASSUME NEW login \in Logins, NEW page \in Pages, Probes(login, page) PROVE OutsideOK'
  BY <1>19 DEF Probes, Revoked
<1>20. CASE SaveCommits
  BY <1>20 DEF SaveCommits, Revoked
<1>21. CASE SaveAsks
  BY <1>21 DEF SaveAsks, Revoked
<1>22. CASE SaveChecked
  BY <1>22 DEF SaveChecked, Revoked
<1>23. CASE SaveSends
  BY <1>23 DEF SaveSends, Revoked
<1>24. CASE SaveArrives
  <2>1. pr["save"].up \in Upload
    BY <1>24 DEF SaveArrives, Running, Uploading, TypeOK, StagesOK, AllStages, StageOK, Handlers
  <2>2. srv' \in Server
    BY <1>24, <2>1, Committed DEF SaveArrives
  <2> QED BY <1>24, <2>2 DEF SaveArrives
<1>25. CASE SaveAccepted
  BY <1>25 DEF SaveAccepted, Revoked
<1>26. CASE SaveRefused
  BY <1>26 DEF SaveRefused, Revoked
<1>27. CASE SaveDenied
  BY <1>27 DEF SaveDenied, Revoked
<1>28. CASE SaveLost
  <2>1. Running("save", "sent") => pr["save"].up \in Upload
    BY DEF Running, Uploading, TypeOK, StagesOK, AllStages, StageOK, Handlers
  <2> QED BY <1>28, <2>1 DEF GivesUp, SaveLost
<1>29. CASE Pairs
  <2>1. srv.issued + 1 \in Nat \ {0} /\ srv.tokens \union {srv.issued + 1} \in SUBSET (Nat \ {0})
    BY DEF Server
  <2>2. [srv EXCEPT !.issued = srv.issued + 1, !.tokens = srv.tokens \union {srv.issued + 1}] \in Server
    BY <2>1 DEF Server
  <2> QED BY <1>29, <2>1, <2>2 DEF Pairs
<1>30. CASE PairedTold
  BY <1>30 DEF PairedTold, Revoked
<1>31. ASSUME NEW reached \in BOOLEAN, Unpairs(reached) PROVE OutsideOK'
  <2>1. [srv EXCEPT !.tokens = @ \ {local.token}] \in Server
    BY DEF Server
  <2> QED BY <1>31, <2>1 DEF Unpairs
<1>32. CASE OtherSaves
  <2>1. PICK e \in Theirs : srv' = [srv EXCEPT !.ver = srv.ver + 1, !.content = srv.content \union {e}]
    BY <1>32 DEF OtherSaves
  <2>2. srv.ver + 1 \in Nat /\ srv.content \union {e} \in SUBSET Logins
    BY DEF Server, Logins
  <2>3. srv' \in Server
    BY <2>1, <2>2 DEF Server
  <2> QED BY <1>32, <2>3 DEF OtherSaves
<1>33. CASE OtherRotates
  <2>1. srv' = [srv EXCEPT !.ver = srv.ver + 1, !.file = srv.keys + 1, !.env = srv.keys + 1, !.keys = srv.keys + 1]
    BY <1>33 DEF OtherRotates
  <2>2. srv.ver + 1 \in Nat /\ srv.keys + 1 \in Nat
    BY DEF Server
  <2>3. srv' \in Server
    BY <2>1, <2>2 DEF Server
  <2> QED BY <1>33, <2>3 DEF OtherRotates
<1>34. CASE DevicesEnded
  <2>1. [srv EXCEPT !.tokens = {}] \in Server
    BY DEF Server
  <2> QED BY <1>34, <2>1 DEF DevicesEnded
<1>35. CASE StrayArrives
  <2>1. PICK up \in stray : /\ stray' = stray \ {up}
                            /\ IF Taken(up) THEN Commit(up) ELSE UNCHANGED srv
    BY <1>35 DEF StrayArrives
  <2>2. srv' \in Server
    BY <2>1, Committed
  <2> QED BY <1>35, <2>1, <2>2 DEF StrayArrives
<1>36. CASE UNCHANGED vars
  BY <1>36 DEF vars
<1> QED
  BY <1>1, <1>2, <1>3, <1>4, <1>5, <1>6, <1>7, <1>8, <1>9, <1>10, <1>11, <1>12, <1>13, <1>14,
     <1>15, <1>16, <1>17, <1>18, <1>19, <1>20, <1>21, <1>22, <1>23, <1>24, <1>25, <1>26, <1>27, <1>28,
     <1>29, <1>30, <1>31, <1>32, <1>33, <1>34, <1>35, <1>36 DEF Next

LEMMA PutStage ==
  ASSUME NEW p \in AllRunning, AllStages(p), NEW h \in Handlers, NEW r, StageOK(h, r)
  PROVE  AllStages([p EXCEPT ![h] = r])
BY DEF AllRunning, AllStages

LEMMA OutdatedStages ==
  ASSUME NEW p \in AllRunning, AllStages(p) PROVE AllStages(Outdated(p))
BY OutdatedAt DEF AllStages, StageOK

LEMMA EndsStages ==
  ASSUME pr \in AllRunning, StagesOK, NEW h \in Handlers PROVE AllStages(Ends(h))
BY EndsAt DEF StagesOK, AllStages, StageOK, Is

LEMMA LeftStages ==
  ASSUME StagesOK, NEW hs PROVE AllStages(LeftBy(hs))
BY LeftAt DEF StagesOK, AllStages, StageOK, Is

LEMMA GoesStages ==
  ASSUME pr \in AllRunning, StagesOK, NEW h \in Handlers, Is(pr[h]), NEW s \in Stages,
         s \in Holding <=> pr[h].stage \in Holding,
         h = "save" /\ s \in Uploading \ {"made"} => pr[h].stage \in Uploading \ {"made"}
  PROVE  AllStages(Goes(h, s))
BY GoesAt DEF StagesOK, AllStages, StageOK

\* Every step keeps each handler's stage in accord with the vault it holds.
LEMMA StagesStep == TypeOK /\ [Next]_vars => StagesOK'
<1> SUFFICES ASSUME TypeOK, [Next]_vars PROVE StagesOK'
  OBVIOUS
<1>0. /\ pr \in AllRunning /\ StagesOK
      /\ local.token \in Nat
      /\ Is(sess) => sess.env \in Nat
      /\ Is(open) => open.id \in Ids
  BY DEF TypeOK, HandlersOK, OutsideOK, WorkerOK, Is
<1> USE <1>0
<1>1. CASE Lock
  BY <1>1, OutdatedStages DEF Lock, StagesOK
<1>2. CASE CheckDevice
  BY <1>2, OutdatedStages DEF CheckDevice, Revoked, StagesOK
<1>3. ASSUME NEW restart \in BOOLEAN, WorkerStops(restart) PROVE StagesOK'
  BY <1>3 DEF WorkerStops, StagesOK, AllStages, StageOK, Is
<1>4. CASE UnlockBegins
  <2>1. StageOK("unlock", Handler("begun", 0, None))
    BY DEF StageOK, Handler, Holding
  <2>2. AllStages(Outdated(pr)) /\ Outdated(pr) \in AllRunning
    BY OutdatedStages, OutdatedType DEF StagesOK
  <2>3. AllStages([Outdated(pr) EXCEPT !["unlock"] = Handler("begun", 0, None)])
    BY <2>1, <2>2, PutStage DEF Handlers
  <2> QED BY <1>4, <2>3 DEF UnlockBegins, StagesOK
<1>5. CASE UnlockGoesOn
  <2>1. StageOK("unlock", [pr["unlock"] EXCEPT !.stage = "metadata", !.live = TRUE])
    BY <1>5, Known DEF UnlockGoesOn, StageOK, Running, Handlers, Stages, Holding, Empty, Uploading, Underway
  <2>2. AllStages([pr EXCEPT !["unlock"] = [pr["unlock"] EXCEPT !.stage = "metadata", !.live = TRUE]])
    BY <2>1, PutStage DEF StagesOK, Handlers
  <2> QED BY <1>5, <2>2 DEF UnlockGoesOn, TakesGeneration, StagesOK
<1>6. CASE UnlockFails
  BY <1>6, EndsStages DEF UnlockFails, StagesOK, Handlers
<1>7. CASE UnlockMetadata
  <2>1. StageOK("unlock", [pr["unlock"] EXCEPT !.stage = "file", !.key = srv.env, !.env = srv.env])
    BY <1>7, Known DEF UnlockMetadata, StageOK, Running, Handlers, Stages, Holding, Empty, Uploading, Underway
  <2>2. AllStages([pr EXCEPT !["unlock"] = [pr["unlock"] EXCEPT !.stage = "file", !.key = srv.env, !.env = srv.env]])
    BY <2>1, PutStage DEF StagesOK, Handlers
  <2>3. AllStages(Outdated(Ends("unlock")))
    BY EndsStages, EndsType, OutdatedStages DEF Handlers
  <2> QED BY <1>7, <2>2, <2>3 DEF UnlockMetadata, Revoked, StagesOK
<1>8. CASE UnlockFile
  <2>1. StageOK("unlock", [pr["unlock"] EXCEPT !.stage = "store", !.id = Free])
    BY <1>8, Known, FreeIsFree DEF UnlockFile, StageOK, Running, Handlers, Stages, Holding, Empty, Uploading, Underway, Ids
  <2>2. AllStages([pr EXCEPT !["unlock"] = [pr["unlock"] EXCEPT !.stage = "store", !.id = Free]])
    BY <2>1, PutStage DEF StagesOK, Handlers
  <2>3. AllStages(Ends("unlock")) /\ AllStages(Outdated(Ends("unlock")))
    BY EndsStages, EndsType, OutdatedStages DEF Handlers
  <2> QED BY <1>8, <2>2, <2>3 DEF UnlockFile, Revoked, StagesOK
<1>9. CASE UnlockStores
  BY <1>9, GoesStages DEF UnlockStores, StagesOK, Running, Handlers, Stages, Holding, Empty, Uploading
<1>10. CASE UnlockEnds
  BY <1>10, EndsStages DEF UnlockEnds, StagesOK, Handlers
<1>11. ASSUME NEW fill \in BOOLEAN, ReadBegins(fill) PROVE StagesOK'
  <2>1. StageOK("read", Handler("begun", sess.key, fill))
    BY <1>11 DEF StageOK, Handler, Holding, Uploading
  <2>2. AllStages([pr EXCEPT !["read"] = Handler("begun", sess.key, fill)])
    BY <2>1, PutStage DEF StagesOK, Handlers
  <2> QED BY <1>11, <2>2 DEF ReadBegins, StagesOK
<1>12. ASSUME NEW e \in Mine \ landed, SaveBegins(e) PROVE StagesOK'
  <2>1. StageOK("save", Handler("begun", sess.key, e))
    BY <1>12 DEF StageOK, Handler, Holding, Uploading
  <2>2. AllStages([pr EXCEPT !["save"] = Handler("begun", sess.key, e)])
    BY <2>1, PutStage DEF StagesOK, Handlers
  <2> QED BY <1>12, <2>2 DEF SaveBegins, StagesOK
<1>13. ASSUME NEW h \in Ensures, EnsureGoesOn(h) PROVE StagesOK'
  <2>1. h \in Handlers /\ pr[h] \in Underway /\ StageOK(h, pr[h]) /\ pr[h].stage = "begun" /\ Is(pr[h])
    BY <1>13, Known DEF EnsureGoesOn, Running, Handlers, Ensures, StagesOK, AllStages
  <2>2. CASE Is(open)
    <3>1. StageOK(h, [pr[h] EXCEPT !.stage = "commit", !.live = TRUE, !.id = open.id, !.key = 0])
      BY <2>1, <2>2 DEF StageOK, Underway, Holding, Uploading, Ids
    <3>2. pr' = [pr EXCEPT ![h] = [pr[h] EXCEPT !.stage = "commit", !.live = TRUE, !.id = open.id, !.key = 0]]
      BY <1>13, <2>1, <2>2 DEF EnsureGoesOn, TakesGeneration, AllRunning
    <3> QED BY <2>1, <3>1, <3>2, PutStage DEF StagesOK
  <2>3. CASE ~Is(open)
    <3>1. PICK g : pr' = [pr EXCEPT ![h] = [pr[h] EXCEPT !.stage = "waits", !.live = TRUE, !.group = g]]
      <4>1. pr' = [TakesGeneration(h, "waits") EXCEPT ![h].group = reopening']
        BY <1>13, <2>3 DEF EnsureGoesOn
      <4> QED BY <2>1, <4>1 DEF TakesGeneration, AllRunning
    <3>2. StageOK(h, [pr[h] EXCEPT !.stage = "waits", !.live = TRUE, !.group = g])
      BY <2>1 DEF StageOK, Underway, Holding, Uploading
    <3> QED BY <2>1, <3>1, <3>2, PutStage DEF StagesOK
  <2> QED BY <2>2, <2>3
<1>14. ASSUME NEW g \in 1..3, Reopens(g) PROVE StagesOK'
  <2>1. PICK first \in Ensures : first \in Group(g)
    BY <1>14 DEF Reopens, Group
  <2>2. Free \in Ids
    BY <2>1, Known, FreeIsFree DEF Group, Running, Ensures, Handlers, Empty
  <2>3. AllStages(LeftBy(Group(g))) /\ AllStages(Outdated(LeftBy(Group(g))))
    BY LeftStages, LeftType, OutdatedStages
  <2> DEFINE found == [h \in Handlers |-> IF h \in Group(g)
                         THEN [pr[h] EXCEPT !.stage = "commit", !.id = Free, !.group = 0, !.key = 0] ELSE pr[h]]
  <2>4. AllStages(found)
    <3>1. ASSUME NEW h \in Group(g)
          PROVE  StageOK(h, [pr[h] EXCEPT !.stage = "commit", !.id = Free, !.group = 0, !.key = 0])
      <4>1. h \in Handlers /\ pr[h] \in Underway /\ StageOK(h, pr[h]) /\ Is(pr[h])
        BY <3>1, Known DEF Group, Running, Ensures, Handlers, StagesOK, AllStages
      <4> QED BY <2>2, <4>1 DEF StageOK, Underway, Holding, Uploading, Ids
    <3> QED BY <3>1 DEF StagesOK, AllStages
  <2> HIDE DEF found
  <2>5. pr' \in {LeftBy(Group(g)), Outdated(LeftBy(Group(g))), found}
    BY <1>14, Zenon DEF Reopens, Revoked, found
  <2> QED BY <2>3, <2>4, <2>5 DEF StagesOK
<1>15. CASE ReadCommits
  BY <1>15, GoesStages, EndsStages DEF ReadCommits, StagesOK, Running, Handlers, Stages, Holding, Empty, Uploading
<1>16. CASE NoForm
  BY <1>16, EndsStages DEF NoForm, StagesOK, Handlers
<1>17. CASE FillEnds
  BY <1>17, EndsStages DEF FillEnds, StagesOK, Handlers
<1>18. ASSUME NEW page \in Pages, FillFrame(page) PROVE StagesOK'
  BY <1>18, GoesStages, EndsStages DEF FillFrame, StagesOK, Running, Handlers, Stages, Holding, Empty, Uploading
<1>19. ASSUME NEW login \in Logins, NEW page \in Pages, Probes(login, page) PROVE StagesOK'
  <2>1. StageOK("read", [pr["read"] EXCEPT !.stage = "fill", !.up = [login |-> login, page |-> page], !.id = 0])
    BY <1>19, Known DEF Probes, StageOK, Running, Handlers, Stages, Holding, Empty, Uploading, Underway
  <2>2. AllStages([pr EXCEPT !["read"] = [pr["read"] EXCEPT !.stage = "fill", !.up = [login |-> login, page |-> page], !.id = 0]])
    BY <2>1, PutStage DEF StagesOK, Handlers
  <2> QED BY <1>19, <2>2 DEF Probes, StagesOK
<1>20. CASE SaveCommits
  BY <1>20, GoesStages, EndsStages DEF SaveCommits, StagesOK, Running, Handlers, Stages, Holding, Empty, Uploading
<1>21. CASE SaveAsks
  <2>1. PICK e \in Nat : pr' = [pr EXCEPT !["save"].stage = "asked", !["save"].env = e]
    BY <1>21 DEF SaveAsks, Is
  <2>2. StageOK("save", [pr["save"] EXCEPT !.stage = "asked", !.env = e])
    <3>1. Is(pr["save"]) /\ pr["save"] \in Underway /\ pr["save"].stage = "ask" /\ StageOK("save", pr["save"])
      BY <1>21, Known DEF SaveAsks, Running, Handlers, StagesOK, AllStages
    <3>2. /\ [pr["save"] EXCEPT !.stage = "asked", !.env = e].stage = "asked"
          /\ [pr["save"] EXCEPT !.stage = "asked", !.env = e].id = pr["save"].id
          /\ [pr["save"] EXCEPT !.stage = "asked", !.env = e].up = pr["save"].up
          /\ [pr["save"] EXCEPT !.stage = "asked", !.env = e].login = pr["save"].login
      BY <3>1 DEF Underway
    <3>3. {"ask", "asked"} \subseteq Holding /\ "asked" \notin Uploading
      BY DEF Holding, Uploading
    <3> QED BY <3>1, <3>2, <3>3 DEF StageOK, Is
  <2>3. pr' = [pr EXCEPT !["save"] = [pr["save"] EXCEPT !.stage = "asked", !.env = e]]
    BY <2>1 DEF TypeOK, HandlersOK, AllRunning, Handlers
  <2>4. AllStages(pr')
    BY <2>2, <2>3, PutStage DEF TypeOK, HandlersOK, StagesOK, Handlers
  <2> QED BY <2>4 DEF StagesOK
<1>22. CASE SaveChecked
  <2>1. AllStages(Goes("save", "made"))
    BY <1>22, GoesStages DEF SaveChecked, Running, Handlers, Stages, Holding, Empty, Uploading
  <2>2. AllStages(Ends("save")) /\ AllStages(Outdated(Ends("save")))
    BY EndsStages, EndsType, OutdatedStages DEF Handlers
  <2>3. pr' \in {Ends("save"), Outdated(Ends("save")), Goes("save", "made")}
    BY <1>22, Zenon DEF SaveChecked, Revoked
  <2> QED BY <2>1, <2>2, <2>3 DEF StagesOK
<1>23. CASE SaveSends
  <2>1. pr["save"] \in Underway /\ heap[pr["save"].id] \in Copy
    BY <1>23, Known DEF SaveSends, Running, Handlers, Holding
  <2> DEFINE vault == heap[pr["save"].id]
             upload == [ver |-> vault.ver, content |-> vault.content, key |-> vault.key, token |-> local.token]
  <2>2. upload \in Upload
    BY <2>1 DEF Copy, Upload
  <2>3. pr' = Ends("save") \/ pr' = [pr EXCEPT !["save"].stage = "sent", !["save"].up = upload]
    BY <1>23 DEF SaveSends
  <2> HIDE DEF upload
  <2>4. StageOK("save", [pr["save"] EXCEPT !.stage = "sent", !.up = upload])
    BY <1>23, <2>1, <2>2, Known DEF SaveSends, StagesOK, AllStages, StageOK, Running, Handlers, Stages, Holding, Empty, Uploading, Underway
  <2>5. AllStages([pr EXCEPT !["save"] = [pr["save"] EXCEPT !.stage = "sent", !.up = upload]])
    BY <2>4, PutStage DEF StagesOK, Handlers
  <2> QED BY <2>3, <2>5, EndsStages DEF StagesOK, Handlers
<1>24. CASE SaveArrives
  BY <1>24, GoesStages DEF SaveArrives, StagesOK, Running, Handlers, Stages, Holding, Empty, Uploading
<1>25. CASE SaveAccepted
  BY <1>25, EndsStages DEF SaveAccepted, StagesOK, Handlers
<1>26. CASE SaveRefused
  BY <1>26, EndsStages, EndsType, OutdatedStages DEF SaveRefused, StagesOK, Handlers
<1>27. CASE SaveDenied
  BY <1>27, EndsStages, EndsType, OutdatedStages DEF SaveDenied, Revoked, StagesOK, Handlers
<1>28. CASE SaveLost
  BY <1>28, EndsStages DEF SaveLost, StagesOK, Handlers
<1>29. CASE Pairs
  BY <1>29 DEF Pairs, StagesOK
<1>30. CASE PairedTold
  BY <1>30, OutdatedStages DEF PairedTold, StagesOK
<1>31. ASSUME NEW reached \in BOOLEAN, Unpairs(reached) PROVE StagesOK'
  BY <1>31, OutdatedStages DEF Unpairs, StagesOK
<1>32. CASE OtherSaves
  BY <1>32 DEF OtherSaves, StagesOK
<1>33. CASE OtherRotates
  BY <1>33 DEF OtherRotates, StagesOK
<1>34. CASE DevicesEnded
  BY <1>34 DEF DevicesEnded, StagesOK
<1>35. CASE StrayArrives
  BY <1>35 DEF StrayArrives, StagesOK
<1>36. CASE UNCHANGED vars
  BY <1>36 DEF vars, StagesOK
<1> QED
  BY <1>1, <1>2, <1>3, <1>4, <1>5, <1>6, <1>7, <1>8, <1>9, <1>10, <1>11, <1>12, <1>13, <1>14,
     <1>15, <1>16, <1>17, <1>18, <1>19, <1>20, <1>21, <1>22, <1>23, <1>24, <1>25, <1>26, <1>27, <1>28,
     <1>29, <1>30, <1>31, <1>32, <1>33, <1>34, <1>35, <1>36 DEF Next

\* Every step keeps the types of the worker's own state.
LEMMA WorkerStep == TypeOK /\ [Next]_vars => WorkerOK'
<1> SUFFICES ASSUME TypeOK, [Next]_vars PROVE WorkerOK'
  OBVIOUS
<1>0. WorkerOK /\ srv \in Server
  BY DEF TypeOK, OutsideOK
<1> USE <1>0 DEF WorkerOK
<1>1. CASE Lock
  BY <1>1, KeepsAt DEF Lock, Locks
<1>2. CASE CheckDevice
  BY <1>2, KeepsAt DEF CheckDevice, Revoked, Locks
<1>3. ASSUME NEW restart \in BOOLEAN, WorkerStops(restart) PROVE WorkerOK'
  BY <1>3 DEF WorkerStops, AllCopies
<1>4. CASE UnlockBegins
  BY <1>4, KeepsAt DEF UnlockBegins, Locks
<1>5. CASE UnlockGoesOn
  BY <1>5 DEF UnlockGoesOn
<1>6. CASE UnlockFails
  BY <1>6, KeepsAt DEF UnlockFails
<1>7. CASE UnlockMetadata
  BY <1>7 DEF UnlockMetadata, Revoked, Locks
<1>8. CASE UnlockFile
  <2>1. Download(srv.file) \in AllCopies
    BY DownloadAt DEF Server
  <2>2. heap' \in {heap, Download(srv.file)} /\ sess' \in {sess, None} /\ open' \in {open, None} /\ reopening' \in {0, reopening}
    BY <1>8 DEF UnlockFile, Revoked, Locks
  <2> QED BY <2>1, <2>2
<1>9. CASE UnlockStores
  <2>1. pr["unlock"] \in Underway
    BY <1>9, Known DEF UnlockStores, Running, Handlers, Holding
  <2>2. [key |-> pr["unlock"].key, env |-> pr["unlock"].env, late |-> pr["unlock"].late] \in [key : Nat, env : Nat, late : BOOLEAN]
    BY <2>1 DEF Underway
  <2> QED BY <1>9, <2>2 DEF UnlockStores
<1>10. CASE UnlockEnds
  <2>1. pr["unlock"] \in Underway /\ pr["unlock"].id \in Ids
    BY <1>10, Known DEF UnlockEnds, Running, Handlers, Holding
  <2>2. [id |-> pr["unlock"].id, late |-> pr["unlock"].late] \in [id : Ids, late : BOOLEAN]
    BY <2>1 DEF Underway
  <2> QED BY <1>10, <2>2, KeepsAt DEF UnlockEnds, Commits
<1>11. ASSUME NEW fill \in BOOLEAN, ReadBegins(fill) PROVE WorkerOK'
  BY <1>11 DEF ReadBegins
<1>12. ASSUME NEW e \in Mine \ landed, SaveBegins(e) PROVE WorkerOK'
  BY <1>12 DEF SaveBegins
<1>13. ASSUME NEW h \in Ensures, EnsureGoesOn(h) PROVE WorkerOK'
  BY <1>13, GroupFree DEF EnsureGoesOn
<1>14. ASSUME NEW g \in 1..3, Reopens(g) PROVE WorkerOK'
  <2>1. Download(srv.file) \in AllCopies
    BY DownloadAt DEF Server
  <2>2. heap' \in {heap, Download(srv.file)} /\ sess' \in {sess, None} /\ open' \in {open, None} /\ reopening' \in {0, reopening}
    BY <1>14, Zenon DEF Reopens, Revoked, Locks
  <2> QED BY <2>1, <2>2
<1>15. CASE ReadCommits
  <2>1. pr["read"] \in Underway /\ pr["read"].id \in Ids
    BY <1>15, Known DEF ReadCommits, Running, Handlers, Holding
  <2>2. [id |-> pr["read"].id, late |-> pr["read"].late] \in [id : Ids, late : BOOLEAN]
    BY <2>1 DEF Underway
  <2> QED BY <1>15, <2>2, KeepsAt DEF ReadCommits, Commits
<1>16. CASE NoForm
  BY <1>16, KeepsAt DEF NoForm
<1>17. CASE FillEnds
  BY <1>17 DEF FillEnds
<1>18. ASSUME NEW page \in Pages, FillFrame(page) PROVE WorkerOK'
  BY <1>18 DEF FillFrame
<1>19. ASSUME NEW login \in Logins, NEW page \in Pages, Probes(login, page) PROVE WorkerOK'
  BY <1>19, KeepsAt DEF Probes
<1>20. CASE SaveCommits
  <2>1. pr["save"] \in Underway /\ pr["save"].id \in Ids
    BY <1>20, Known DEF SaveCommits, Running, Handlers, Holding
  <2>2. [id |-> pr["save"].id, late |-> pr["save"].late] \in [id : Ids, late : BOOLEAN]
    BY <2>1 DEF Underway
  <2> QED BY <1>20, <2>2, KeepsAt DEF SaveCommits, Commits
<1>21. CASE SaveAsks
  BY <1>21 DEF SaveAsks
<1>22. CASE SaveChecked
  <2>1. pr["save"].id \in Ids /\ heap[pr["save"].id] \in Copy
    BY <1>22, Known DEF SaveChecked, Running, Handlers, Holding
  <2>2. pr["save"].login \in Logins
    BY <1>22 DEF SaveChecked, Running, Handlers, TypeOK, StagesOK, AllStages, StageOK, Logins
  <2> DEFINE grown == [heap[pr["save"].id] EXCEPT !.content = @ \union {pr["save"].login}]
  <2>3. grown \in Copy
    BY <2>1, <2>2 DEF Copy
  <2>4. [heap EXCEPT ![pr["save"].id] = grown] \in AllCopies
    BY <2>1, <2>3 DEF AllCopies
  <2>5. heap' = heap \/ heap' = [heap EXCEPT ![pr["save"].id].content = @ \union {pr["save"].login}]
    BY <1>22, Zenon DEF SaveChecked
  <2>6. heap' \in AllCopies
    BY <2>4, <2>5
  <2>7. sess' \in {sess, None} /\ open' \in {open, None} /\ reopening' \in {0, reopening}
    BY <1>22, Zenon DEF SaveChecked, Revoked, Locks
  <2> QED BY <2>6, <2>7
<1>23. CASE SaveSends
  BY <1>23, KeepsAt DEF SaveSends, DropsCopy
<1>24. CASE SaveArrives
  BY <1>24 DEF SaveArrives
<1>25. CASE SaveAccepted
  <2>1. pr["save"].id \in Ids /\ heap[pr["save"].id] \in Copy /\ pr["save"].up \in Upload
    BY <1>25, Known DEF SaveAccepted, Running, Handlers, Holding, TypeOK, StagesOK, AllStages, StageOK, Uploading
  <2>2. [heap[pr["save"].id] EXCEPT !.ver = pr["save"].up.ver + 1] \in Copy
    BY <2>1 DEF Copy, Upload
  <2>3. heap' \in AllCopies
    BY <1>25, <2>1, <2>2 DEF SaveAccepted, AllCopies
  <2> QED BY <1>25, <2>3 DEF SaveAccepted
<1>26. CASE SaveRefused
  BY <1>26, KeepsAt DEF SaveRefused, Locks
<1>27. CASE SaveDenied
  BY <1>27, KeepsAt DEF SaveDenied, Revoked, Locks
<1>28. CASE SaveLost
  BY <1>28, KeepsAt DEF SaveLost, DropsCopy
<1>29. CASE Pairs
  BY <1>29 DEF Pairs
<1>30. CASE PairedTold
  BY <1>30, KeepsAt DEF PairedTold, Locks
<1>31. ASSUME NEW reached \in BOOLEAN, Unpairs(reached) PROVE WorkerOK'
  BY <1>31, KeepsAt DEF Unpairs, Locks
<1>32. CASE OtherSaves
  BY <1>32 DEF OtherSaves
<1>33. CASE OtherRotates
  BY <1>33 DEF OtherRotates
<1>34. CASE DevicesEnded
  BY <1>34 DEF DevicesEnded
<1>35. CASE StrayArrives
  BY <1>35 DEF StrayArrives
<1>36. CASE UNCHANGED vars
  BY <1>36 DEF vars
<1> QED
  BY <1>1, <1>2, <1>3, <1>4, <1>5, <1>6, <1>7, <1>8, <1>9, <1>10, <1>11, <1>12, <1>13, <1>14,
     <1>15, <1>16, <1>17, <1>18, <1>19, <1>20, <1>21, <1>22, <1>23, <1>24, <1>25, <1>26, <1>27, <1>28,
     <1>29, <1>30, <1>31, <1>32, <1>33, <1>34, <1>35, <1>36 DEF Next

\* A step that gives nobody a vault, and lets the rest be.
LEMMA HeldKept ==
  ASSUME HeldOK, \A i \in Ids : Held(i)' => Held(i),
         heap' = heap \/ (heap \in AllCopies /\ Keeps)
  PROVE  HeldOK'
BY KeepsAt DEF HeldOK

LEMMA HeldDownload ==
  ASSUME HeldOK, heap \in AllCopies, srv \in Server, Free \in Ids,
         heap' = Download(srv.file), \A i \in Ids : Held(i)' => Held(i) \/ i = Free
  PROVE  HeldOK'
<1>1. [ver |-> srv.ver, content |-> srv.content, key |-> srv.file] \in Copy /\ srv.file \in Nat
  BY DEF Copy, Server
<1> QED BY <1>1, DownloadAt DEF HeldOK

\* Every step keeps every held vault in existence.
LEMMA HeldStep == TypeOK /\ [Next]_vars => HeldOK'
<1> SUFFICES ASSUME TypeOK, [Next]_vars PROVE HeldOK'
  OBVIOUS
<1>0. HeldOK /\ pr \in AllRunning /\ heap \in AllCopies /\ srv \in Server /\ StagesOK
  BY DEF TypeOK, OutsideOK, WorkerOK, HandlersOK
<1> USE <1>0
<1>1. CASE Lock
  <2>1. \A i \in Ids : Held(i)' => Held(i)
    BY <1>1, OutdatedAt DEF Lock, Locks, Held, Is
  <2> QED BY <1>1, <2>1, HeldKept DEF Lock, Locks
<1>2. CASE CheckDevice
  <2>1. \A i \in Ids : Held(i)' => Held(i)
    BY <1>2, OutdatedAt DEF CheckDevice, Revoked, Locks, Held, Is
  <2> QED BY <1>2, <2>1, HeldKept DEF CheckDevice, Revoked, Locks
<1>3. ASSUME NEW restart \in BOOLEAN, WorkerStops(restart) PROVE HeldOK'
  BY <1>3 DEF WorkerStops, HeldOK, Held, Is
<1>4. CASE UnlockBegins
  <2>1. \A i \in Ids : Held(i)' => Held(i)
    <3>1. open' = None /\ pr'["unlock"].id = 0
      BY <1>4, OutdatedType DEF UnlockBegins, Locks, Handler, AllRunning, Handlers
    <3>2. \A o \in Handlers \ {"unlock"} : pr'[o] = Outdated(pr)[o]
      BY <1>4, OutdatedType DEF UnlockBegins, AllRunning
    <3> QED BY <3>1, <3>2, OutdatedAt DEF Held, Is, Ids
  <2> QED BY <1>4, <2>1, HeldKept DEF UnlockBegins
<1>5. CASE UnlockGoesOn
  <2>1. \A o \in Handlers \ {"unlock"} : pr'[o] = pr[o]
    BY <1>5 DEF UnlockGoesOn, AllRunning, TakesGeneration
  <2>2. pr'["unlock"].id = pr["unlock"].id
    BY <1>5, Known DEF UnlockGoesOn, Running, Handlers, AllRunning, Underway, TakesGeneration
  <2>3. open' = open /\ (heap' = heap \/ Keeps)
    BY <1>5 DEF UnlockGoesOn
  <2>4. \A i \in Ids : Held(i)' => Held(i)
    BY <1>5, <2>1, <2>2, <2>3 DEF Held, Ids, Running, UnlockGoesOn
  <2> QED BY <2>3, <2>4, HeldKept
<1>6. CASE UnlockFails
  <2>1. \A i \in Ids : Held(i)' => Held(i)
    BY <1>6, EndsAt DEF UnlockFails, Handlers, Held, Is
  <2> QED BY <1>6, <2>1, HeldKept DEF UnlockFails, Handlers
<1>7. CASE UnlockMetadata
  <2>1. \A i \in Ids : Held(i)' => Held(i)
    <3>1. CASE Accepted
      <4>1. /\ \A o \in Handlers \ {"unlock"} : pr'[o] = pr[o]
            /\ pr'["unlock"].id = pr["unlock"].id
            /\ open' = open
        BY <1>7, <3>1, Known DEF UnlockMetadata, Running, Handlers, AllRunning, Underway
      <4> QED BY <1>7, <4>1 DEF Held, UnlockMetadata, Running
    <3>2. CASE ~Accepted
      BY <1>7, <3>2, EndsAt, EndsType, OutdatedAt DEF UnlockMetadata, Revoked, Locks, Handlers, Held, Is
    <3> QED BY <3>1, <3>2
  <2> QED BY <1>7, <2>1, HeldKept DEF UnlockMetadata
<1>8. CASE UnlockFile
  <2>1. CASE heap' = heap /\ open' \in {open, None} /\ (pr' = Ends("unlock") \/ pr' = Outdated(Ends("unlock")))
    <3>1. \A i \in Ids : Held(i)' => Held(i)
      BY <2>1, EndsAt, EndsType, OutdatedAt DEF Handlers, Held, Is
    <3> QED BY <2>1, <3>1, HeldKept
  <2>2. CASE heap' = Download(srv.file) /\ open' = open /\ pr' = [pr EXCEPT !["unlock"].stage = "store", !["unlock"].id = Free]
    <3>1. Free \in Ids
      BY <1>8, Known, FreeIsFree DEF UnlockFile, Running, Handlers, Empty
    <3>2. \A o \in Handlers \ {"unlock"} : pr'[o] = pr[o]
      BY <2>2 DEF AllRunning
    <3>3. pr'["unlock"].id = Free
      BY <1>8, <2>2, Known DEF UnlockFile, Running, Handlers, AllRunning, Underway
    <3>4. \A i \in Ids : Held(i)' => Held(i) \/ i = Free
      BY <2>2, <3>2, <3>3 DEF Held
    <3> QED BY <2>2, <3>1, <3>4, HeldDownload
  <2>3. open' = open \/ open' = None
    BY <1>8 DEF UnlockFile, Revoked, Locks
  <2> QED BY <1>8, <2>1, <2>2, <2>3 DEF UnlockFile, Revoked, Locks
<1>9. CASE UnlockStores
  <2>0. pr \in AllRunning /\ "unlock" \in Handlers /\ Is(pr["unlock"]) /\ "check" \in Stages
    BY <1>9 DEF UnlockStores, Running, TypeOK, HandlersOK, Handlers, Stages, Holding, Empty
  <2>1. \A i \in Ids : Held(i)' => Held(i)
    BY <1>9, <2>0, MovesOn DEF UnlockStores, Held
  <2> QED BY <1>9, <2>1, HeldKept DEF UnlockStores, Running, Handlers, Stages, Holding, Empty
<1>10. CASE UnlockEnds
  <2>1. \A i \in Ids : Held(i)' => Held(i)
    BY <1>10, EndsAt, GoesAt DEF UnlockEnds, Commits, Running, Handlers, Stages, Holding, Held, Is
  <2> QED BY <1>10, <2>1, HeldKept DEF UnlockEnds, Commits, Running, Handlers, Stages, Holding
<1>11. ASSUME NEW fill \in BOOLEAN, ReadBegins(fill) PROVE HeldOK'
  <2>1. pr'["read"].id = 0 /\ (\A o \in Handlers \ {"read"} : pr'[o] = pr[o]) /\ open' = open /\ heap' = heap
    BY <1>11 DEF ReadBegins, Handler, AllRunning, Handlers
  <2>2. \A i \in Ids : Held(i)' => Held(i)
    BY <2>1 DEF Held, Ids
  <2> QED BY <2>1, <2>2, HeldKept
<1>12. ASSUME NEW e \in Mine \ landed, SaveBegins(e) PROVE HeldOK'
  <2>1. pr'["save"].id = 0 /\ (\A o \in Handlers \ {"save"} : pr'[o] = pr[o]) /\ open' = open /\ heap' = heap
    BY <1>12 DEF SaveBegins, Handler, AllRunning, Handlers
  <2>2. \A i \in Ids : Held(i)' => Held(i)
    BY <2>1 DEF Held, Ids
  <2> QED BY <2>1, <2>2, HeldKept
<1>13. ASSUME NEW h \in Ensures, EnsureGoesOn(h) PROVE HeldOK'
  <2>1. h \in Handlers /\ pr[h] \in Underway /\ pr[h].id = 0
    BY <1>13, Known DEF EnsureGoesOn, Running, Handlers, Ensures, Empty
  <2>2. open' = open /\ heap' = heap
    BY <1>13 DEF EnsureGoesOn
  <2>3. \A o \in Handlers \ {h} : pr'[o] = pr[o]
    BY <1>13 DEF EnsureGoesOn, TakesGeneration, AllRunning
  <2>4. (Is(open) /\ pr'[h].id = open.id) \/ pr'[h].id = 0
    BY <1>13, <2>1 DEF EnsureGoesOn, TakesGeneration, AllRunning, Underway
  <2>5. \A i \in Ids : Held(i)' => Held(i)
    BY <2>2, <2>3, <2>4 DEF Held, Ids
  <2> QED BY <2>2, <2>5, HeldKept
<1>14. ASSUME NEW g \in 1..3, Reopens(g) PROVE HeldOK'
  <2>1. CASE heap' = heap /\ open' \in {open, None} /\ (pr' = LeftBy(Group(g)) \/ pr' = Outdated(LeftBy(Group(g))))
    <3>1. \A i \in Ids : Held(i)' => Held(i)
      BY <2>1, LeftAt, LeftType, OutdatedAt DEF Held, Is
    <3> QED BY <2>1, <3>1, HeldKept
  <2> DEFINE found == [h \in Handlers |-> IF h \in Group(g)
                         THEN [pr[h] EXCEPT !.stage = "commit", !.id = Free, !.group = 0, !.key = 0] ELSE pr[h]]
  <2>2. CASE heap' = Download(srv.file) /\ open' = open /\ pr' = found
    <3>1. PICK first \in Ensures : first \in Group(g)
      BY <1>14 DEF Reopens, Group
    <3>2. Free \in Ids
      BY <3>1, Known, FreeIsFree DEF Group, Running, Ensures, Handlers, Empty
    <3>3. \A o \in Handlers : o \notin Group(g) => pr'[o] = pr[o]
      BY <2>2
    <3>4. \A o \in Group(g) : pr'[o].id = Free
      <4> SUFFICES ASSUME NEW o \in Group(g) PROVE pr'[o].id = Free
        OBVIOUS
      <4>1. o \in Handlers /\ pr[o] \in Underway
        BY Known DEF Group, Running, Ensures, Handlers
      <4> QED BY <2>2, <4>1 DEF Underway
    <3>5. \A i \in Ids : Held(i)' => Held(i) \/ i = Free
      BY <2>2, <3>3, <3>4 DEF Held
    <3> QED BY <2>2, <3>2, <3>5, HeldDownload
  <2>3. open' \in {open, None}
    BY <1>14, Zenon DEF Reopens, Revoked, Locks
  <2> HIDE DEF found
  <2>4. \/ heap' = heap /\ (pr' = LeftBy(Group(g)) \/ pr' = Outdated(LeftBy(Group(g))))
        \/ heap' = Download(srv.file) /\ open' = open /\ pr' = found
    BY <1>14, Zenon DEF Reopens, Revoked, Locks, found
  <2> QED BY <2>1, <2>2, <2>3, <2>4
<1>15. CASE ReadCommits
  <2>1. \A i \in Ids : Held(i)' => Held(i)
    BY <1>15, EndsAt, GoesAt DEF ReadCommits, Commits, Running, Handlers, Stages, Holding, Held, Is
  <2> QED BY <1>15, <2>1, HeldKept DEF ReadCommits, Commits, Running, Handlers, Stages, Holding
<1>16. CASE NoForm
  <2>1. \A i \in Ids : Held(i)' => Held(i)
    BY <1>16, EndsAt DEF NoForm, Handlers, Held, Is
  <2> QED BY <1>16, <2>1, HeldKept DEF NoForm, Handlers
<1>17. CASE FillEnds
  <2>1. \A i \in Ids : Held(i)' => Held(i)
    BY <1>17, EndsAt DEF FillEnds, Handlers, Held, Is
  <2> QED BY <1>17, <2>1, HeldKept DEF FillEnds, Handlers
<1>18. ASSUME NEW page \in Pages, FillFrame(page) PROVE HeldOK'
  <2>0. pr \in AllRunning /\ "read" \in Handlers /\ Is(pr["read"]) /\ "filled" \in Stages
    BY <1>18 DEF FillFrame, Running, TypeOK, HandlersOK, Handlers, Stages, Holding, Empty
  <2>1. \A i \in Ids : Held(i)' => Held(i)
    BY <1>18, <2>0, MovesOn DEF FillFrame, Held
  <2> QED BY <1>18, <2>1, HeldKept DEF FillFrame, Running, Handlers, Stages, Holding, Empty
<1>19. ASSUME NEW login \in Logins, NEW page \in Pages, Probes(login, page) PROVE HeldOK'
  <2>1. pr'["read"].id = 0
    BY <1>19, Known DEF Probes, Running, Handlers, AllRunning, Underway
  <2>2. (\A o \in Handlers \ {"read"} : pr'[o] = pr[o]) /\ open' = open /\ Keeps
    BY <1>19 DEF Probes, AllRunning
  <2>3. \A i \in Ids : Held(i)' => Held(i)
    BY <2>1, <2>2 DEF Held, Ids
  <2> QED BY <2>2, <2>3, HeldKept
<1>20. CASE SaveCommits
  <2>1. \A i \in Ids : Held(i)' => Held(i)
    BY <1>20, EndsAt, GoesAt DEF SaveCommits, Commits, Running, Handlers, Stages, Holding, Held, Is
  <2> QED BY <1>20, <2>1, HeldKept DEF SaveCommits, Commits, Running, Handlers, Stages, Holding
<1>21. CASE SaveAsks
  <2>1. \A o \in Handlers \ {"save"} : pr'[o] = pr[o]
    BY <1>21 DEF SaveAsks, AllRunning
  <2>2. pr'["save"].id = pr["save"].id
    BY <1>21, Known DEF SaveAsks, Running, Handlers, AllRunning, Underway
  <2>3. open' = open /\ (heap' = heap \/ Keeps)
    BY <1>21 DEF SaveAsks
  <2>4. \A i \in Ids : Held(i)' => Held(i)
    BY <1>21, <2>1, <2>2, <2>3 DEF Held, Ids, Running, SaveAsks
  <2> QED BY <2>3, <2>4, HeldKept
<1>22. CASE SaveChecked
  <2>1. \A i \in Ids : Held(i)' => Held(i)
    <3>1. pr' \in {Ends("save"), Outdated(Ends("save")), Goes("save", "made")} /\ open' \in {open, None}
      BY <1>22, Zenon DEF SaveChecked, Revoked, Locks
    <3>2. Is(pr["save"])
      BY <1>22 DEF SaveChecked, Running
    <3> QED BY <3>1, <3>2, EndsAt, EndsType, OutdatedAt, GoesAt DEF Held, Is, Handlers, Stages, Holding
  <2>2. pr["save"].id \in Ids /\ heap[pr["save"].id] \in Copy
    BY <1>22, Known DEF SaveChecked, Running, Handlers, Holding
  <2>3. pr["save"].login \in Logins
    BY <1>22 DEF SaveChecked, Running, Handlers, StagesOK, AllStages, StageOK, Logins
  <2>4. \A i \in Ids : heap[i] \in Copy => heap'[i] \in Copy
    <3>1. CASE heap' = heap
      BY <3>1
    <3>2. CASE heap' = [heap EXCEPT ![pr["save"].id].content = @ \union {pr["save"].login}]
      BY <2>2, <2>3, <3>2 DEF Copy, AllCopies
    <3> QED BY <1>22, <3>1, <3>2, Zenon DEF SaveChecked
  <2> QED BY <2>1, <2>4 DEF HeldOK
<1>23. CASE SaveSends
  <2>1. /\ \A o \in Handlers \ {"save"} : pr'[o] = pr[o]
        /\ Is(pr'["save"]) => pr'["save"].id = pr["save"].id
        /\ open' \in {open, None}
    <3>1. pr["save"] \in Underway
      BY <1>23, Known DEF SaveSends, Running, Handlers
    <3> QED BY <1>23, <3>1 DEF SaveSends, Ends, DropsCopy, Handlers, AllRunning, Underway, Is
  <2>2. \A i \in Ids : Held(i)' => Held(i)
    BY <1>23, <2>1 DEF Held, Is, SaveSends, Running
  <2> QED BY <1>23, <2>2, HeldKept DEF SaveSends
<1>24. CASE SaveArrives
  <2>0. PICK s \in {"denied", "accepted", "refused"} : pr' = Goes("save", s)
    BY <1>24 DEF SaveArrives
  <2>a. pr \in AllRunning /\ "save" \in Handlers /\ Is(pr["save"]) /\ s \in Stages
    BY <1>24 DEF SaveArrives, Running, TypeOK, HandlersOK, Handlers, Stages, Holding, Empty
  <2>1. \A i \in Ids : Held(i)' => Held(i)
    BY <1>24, <2>0, <2>a, MovesOn DEF SaveArrives, Held
  <2> QED BY <1>24, <2>1, HeldKept DEF SaveArrives, Running, Handlers, Stages, Holding, Empty
<1>25. CASE SaveAccepted
  <2>1. \A i \in Ids : Held(i)' => Held(i)
    BY <1>25, EndsAt DEF SaveAccepted, Held, Is, Handlers
  <2>2. pr["save"].id \in Ids /\ heap[pr["save"].id] \in Copy /\ pr["save"].up \in Upload
    BY <1>25, Known DEF SaveAccepted, Running, Handlers, Holding, StagesOK, AllStages, StageOK, Uploading
  <2>3. \A i \in Ids : heap[i] \in Copy => heap'[i] \in Copy
    BY <1>25, <2>2 DEF SaveAccepted, Copy, Upload, AllCopies
  <2> QED BY <2>1, <2>3 DEF HeldOK
<1>26. CASE SaveRefused
  <2>1. \A i \in Ids : Held(i)' => Held(i)
    BY <1>26, EndsAt, EndsType, OutdatedAt DEF SaveRefused, Locks, Handlers, Held, Is
  <2> QED BY <1>26, <2>1, HeldKept DEF SaveRefused, Locks, Handlers
<1>27. CASE SaveDenied
  <2>1. \A i \in Ids : Held(i)' => Held(i)
    BY <1>27, EndsAt, EndsType, OutdatedAt DEF SaveDenied, Revoked, Locks, Handlers, Held, Is
  <2> QED BY <1>27, <2>1, HeldKept DEF SaveDenied, Revoked, Locks, Handlers
<1>28. CASE SaveLost
  <2>1. \A i \in Ids : Held(i)' => Held(i)
    BY <1>28, EndsAt DEF SaveLost, DropsCopy, Handlers, Held, Is
  <2> QED BY <1>28, <2>1, HeldKept DEF SaveLost, DropsCopy, Handlers
<1>29. CASE Pairs
  <2>1. \A i \in Ids : Held(i)' => Held(i)
    BY <1>29 DEF Pairs, Held, Is
  <2> QED BY <1>29, <2>1, HeldKept DEF Pairs
<1>30. CASE PairedTold
  <2>1. \A i \in Ids : Held(i)' => Held(i)
    BY <1>30, OutdatedAt DEF PairedTold, Locks, Held, Is
  <2> QED BY <1>30, <2>1, HeldKept DEF PairedTold, Locks
<1>31. ASSUME NEW reached \in BOOLEAN, Unpairs(reached) PROVE HeldOK'
  <2>1. \A i \in Ids : Held(i)' => Held(i)
    BY <1>31, OutdatedAt DEF Unpairs, Locks, Held, Is
  <2> QED BY <1>31, <2>1, HeldKept DEF Unpairs, Locks
<1>32. CASE OtherSaves
  <2>1. \A i \in Ids : Held(i)' => Held(i)
    BY <1>32 DEF OtherSaves, Held, Is
  <2> QED BY <1>32, <2>1, HeldKept DEF OtherSaves
<1>33. CASE OtherRotates
  <2>1. \A i \in Ids : Held(i)' => Held(i)
    BY <1>33 DEF OtherRotates, Held, Is
  <2> QED BY <1>33, <2>1, HeldKept DEF OtherRotates
<1>34. CASE DevicesEnded
  <2>1. \A i \in Ids : Held(i)' => Held(i)
    BY <1>34 DEF DevicesEnded, Held, Is
  <2> QED BY <1>34, <2>1, HeldKept DEF DevicesEnded
<1>35. CASE StrayArrives
  <2>1. \A i \in Ids : Held(i)' => Held(i)
    BY <1>35 DEF StrayArrives, Held, Is
  <2> QED BY <1>35, <2>1, HeldKept DEF StrayArrives
<1>36. CASE UNCHANGED vars
  BY <1>36 DEF vars, HeldOK, Held
<1> QED
  BY <1>1, <1>2, <1>3, <1>4, <1>5, <1>6, <1>7, <1>8, <1>9, <1>10, <1>11, <1>12, <1>13, <1>14,
     <1>15, <1>16, <1>17, <1>18, <1>19, <1>20, <1>21, <1>22, <1>23, <1>24, <1>25, <1>26, <1>27, <1>28,
     <1>29, <1>30, <1>31, <1>32, <1>33, <1>34, <1>35, <1>36 DEF Next

\* Every step keeps the types.
LEMMA TypeStep == TypeOK /\ [Next]_vars => TypeOK'
BY OutsideStep, WorkerStep, HandlersStep, StagesStep, HeldStep DEF TypeOK

\* A step that keeps the server's content, adds no upload, and leaves each copy,
\* drops it or downloads one where nobody held any.
LEMMA QuietCopies ==
  ASSUME TypeOK, TypeOK', Copies,
         srv'.ver = srv.ver, srv'.content = srv.content,
         \A up \in stray' : Current(up.ver, up.content),
         \A i \in Ids : \/ heap'[i] \in {heap[i], None}
                        \/ ~Held(i) /\ Current(heap'[i].ver, heap'[i].content),
         Is(pr'["save"]) /\ pr'["save"].stage \in {"sent", "accepted"} =>
           /\ Is(pr["save"]) /\ pr'["save"].stage = pr["save"].stage
           /\ pr'["save"].id = pr["save"].id /\ pr'["save"].up = pr["save"].up
  PROVE  Copies'
<1>1. \A v, c : Current(v, c)' <=> Current(v, c)
  BY DEF Current
<1>2. ASSUME Is(pr'["save"]), pr'["save"].stage \in {"sent", "accepted"}
      PROVE  heap'[pr'["save"].id] = heap[pr["save"].id]
  <2>1. PICK i \in Ids : i = pr["save"].id
    BY <1>2, Known DEF Handlers, Holding
  <2>2. Held(i) /\ Held(i)'
    BY <1>2, <2>1 DEF Held, Handlers
  <2>3. heap'[i] # None
    BY <2>2, Absent DEF TypeOK, HeldOK
  <2> QED BY <1>2, <2>1, <2>2, <2>3
<1>3. (\A i \in Ids : Is(heap[i]) => Current(heap[i].ver, heap[i].content))'
  BY <1>1 DEF Copies, Is
<1>4. (\A up \in stray : Current(up.ver, up.content))'
  BY <1>1
<1>5. (Running("save", "sent") =>
         LET up == pr["save"].up
         IN  Current(up.ver, up.content) /\ up.content \subseteq heap[pr["save"].id].content)'
  BY <1>1, <1>2 DEF Copies, Running
<1>6. (Running("save", "accepted") => Current(pr["save"].up.ver + 1, heap[pr["save"].id].content))'
  BY <1>1, <1>2 DEF Copies, Running
<1> QED BY <1>3, <1>4, <1>5, <1>6 DEF Copies

\* A newer version leaves every copy behind it.
LEMMA NewerVersion ==
  ASSUME TypeOK, Copies, srv'.ver = srv.ver + 1, heap' = heap, stray' \subseteq stray
  PROVE  /\ (\A i \in Ids : Is(heap[i]) => Current(heap[i].ver, heap[i].content))'
         /\ (\A up \in stray : Current(up.ver, up.content))'
         /\ pr' = pr => Copies'
<1>1. srv.ver \in Nat
  BY DEF TypeOK, OutsideOK, Server
<1>2. ASSUME NEW v \in Nat, NEW c, Current(v, c) PROVE Current(v, c)'
  BY <1>1, <1>2 DEF Current
<1>3. \A i \in Ids : Is(heap[i]) => heap[i].ver \in Nat
  BY DEF TypeOK, WorkerOK, AllCopies, Copy, Is
<1>4. \A up \in stray : up.ver \in Nat
  BY DEF TypeOK, OutsideOK, Upload
<1>5. (\A i \in Ids : Is(heap[i]) => Current(heap[i].ver, heap[i].content))'
  BY <1>2, <1>3 DEF Copies
<1>6. (\A up \in stray : Current(up.ver, up.content))'
  BY <1>2, <1>4 DEF Copies
<1>7. ASSUME pr' = pr PROVE Copies'
  <2>1. Running("save", "sent") \/ Running("save", "accepted") => pr["save"].up \in Upload
    BY DEF Running, Uploading, TypeOK, StagesOK, AllStages, StageOK, Handlers
  <2>2. (Running("save", "sent") =>
           LET up == pr["save"].up
           IN  Current(up.ver, up.content) /\ up.content \subseteq heap[pr["save"].id].content)'
    BY <1>2, <1>7, <2>1 DEF Copies, Running, Upload
  <2>3. (Running("save", "accepted") => Current(pr["save"].up.ver + 1, heap[pr["save"].id].content))'
    <3>1. Running("save", "accepted") => pr["save"].up.ver + 1 \in Nat
      BY <2>1 DEF Upload
    <3> QED BY <1>2, <1>7, <3>1 DEF Copies, Running
  <2> QED BY <1>5, <1>6, <2>2, <2>3 DEF Copies
<1> QED BY <1>5, <1>6, <1>7

\* Every step leaves each copy and upload behind the server, or with all it has.
LEMMA CopiesStep == TypeOK /\ Copies /\ [Next]_vars => Copies'
<1> SUFFICES ASSUME TypeOK, TypeOK', Copies, [Next]_vars PROVE Copies'
  BY TypeStep
<1>0. pr \in AllRunning /\ heap \in AllCopies /\ srv \in Server /\ StagesOK /\ local.token \in Nat
  BY DEF TypeOK, OutsideOK, WorkerOK, HandlersOK
<1> USE <1>0
<1>1. CASE Lock
  <2>1. srv'.ver = srv.ver /\ srv'.content = srv.content /\ stray' = stray
    BY <1>1 DEF Lock
  <2>2. \A i \in Ids : heap'[i] \in {heap[i], None}
    BY <1>1, KeepsAt DEF Lock
  <2>3. Is(pr'["save"]) /\ pr'["save"].stage \in {"sent", "accepted"} =>
          /\ Is(pr["save"]) /\ pr'["save"].stage = pr["save"].stage
          /\ pr'["save"].id = pr["save"].id /\ pr'["save"].up = pr["save"].up
    BY <1>1, OutdatedAt DEF Lock, Locks, Running, Handlers
  <2> QED BY <2>1, <2>2, <2>3, QuietCopies DEF Copies
<1>2. CASE CheckDevice
  <2>1. srv'.ver = srv.ver /\ srv'.content = srv.content /\ stray' = stray
    BY <1>2 DEF CheckDevice, Revoked
  <2>2. \A i \in Ids : heap'[i] \in {heap[i], None}
    BY <1>2, KeepsAt DEF CheckDevice
  <2>3. Is(pr'["save"]) /\ pr'["save"].stage \in {"sent", "accepted"} =>
          /\ Is(pr["save"]) /\ pr'["save"].stage = pr["save"].stage
          /\ pr'["save"].id = pr["save"].id /\ pr'["save"].up = pr["save"].up
    BY <1>2, OutdatedAt DEF CheckDevice, Revoked, Running, Handlers
  <2> QED BY <2>1, <2>2, <2>3, QuietCopies DEF Copies
<1>3. ASSUME NEW restart \in BOOLEAN, WorkerStops(restart) PROVE Copies'
  <2>1. \A up \in stray' : Current(up.ver, up.content)
    BY <1>3 DEF WorkerStops, GivesUp, Copies
  <2>2. \A i \in Ids : heap'[i] \in {heap[i], None}
    BY <1>3, KeepsAt DEF WorkerStops
  <2>3. pr'["save"] = None /\ srv' = srv
    BY <1>3, EndsAt DEF WorkerStops, Handlers
  <2> QED BY <2>1, <2>2, <2>3, QuietCopies DEF Is
<1>4. CASE UnlockBegins
  <2>1. srv'.ver = srv.ver /\ srv'.content = srv.content /\ stray' = stray
    BY <1>4 DEF UnlockBegins
  <2>2. \A i \in Ids : heap'[i] \in {heap[i], None}
    BY <1>4, KeepsAt DEF UnlockBegins
  <2>3. Is(pr'["save"]) /\ pr'["save"].stage \in {"sent", "accepted"} =>
          /\ Is(pr["save"]) /\ pr'["save"].stage = pr["save"].stage
          /\ pr'["save"].id = pr["save"].id /\ pr'["save"].up = pr["save"].up
    BY <1>4, OutdatedAt, OutdatedType DEF UnlockBegins, AllRunning, Running, Handlers
  <2> QED BY <2>1, <2>2, <2>3, QuietCopies DEF Copies
<1>5. CASE UnlockGoesOn
  <2>1. srv'.ver = srv.ver /\ srv'.content = srv.content /\ stray' = stray
    BY <1>5 DEF UnlockGoesOn
  <2>2. \A i \in Ids : heap'[i] \in {heap[i], None}
    BY <1>5, KeepsAt DEF UnlockGoesOn
  <2>3. Is(pr'["save"]) /\ pr'["save"].stage \in {"sent", "accepted"} =>
          /\ Is(pr["save"]) /\ pr'["save"].stage = pr["save"].stage
          /\ pr'["save"].id = pr["save"].id /\ pr'["save"].up = pr["save"].up
    BY <1>5 DEF UnlockGoesOn, TakesGeneration, AllRunning, Running, Handlers
  <2> QED BY <2>1, <2>2, <2>3, QuietCopies DEF Copies
<1>6. CASE UnlockFails
  <2>1. srv'.ver = srv.ver /\ srv'.content = srv.content /\ stray' = stray
    BY <1>6 DEF UnlockFails
  <2>2. \A i \in Ids : heap'[i] \in {heap[i], None}
    BY <1>6, KeepsAt DEF UnlockFails
  <2>3. Is(pr'["save"]) /\ pr'["save"].stage \in {"sent", "accepted"} =>
          /\ Is(pr["save"]) /\ pr'["save"].stage = pr["save"].stage
          /\ pr'["save"].id = pr["save"].id /\ pr'["save"].up = pr["save"].up
    BY <1>6, EndsAt DEF UnlockFails, Is, Running, Handlers
  <2> QED BY <2>1, <2>2, <2>3, QuietCopies DEF Copies
<1>7. CASE UnlockMetadata
  <2>1. srv'.ver = srv.ver /\ srv'.content = srv.content /\ stray' = stray
    BY <1>7 DEF UnlockMetadata, Revoked
  <2>2. \A i \in Ids : heap'[i] \in {heap[i], None}
    BY <1>7, KeepsAt DEF UnlockMetadata
  <2>3. Is(pr'["save"]) /\ pr'["save"].stage \in {"sent", "accepted"} =>
          /\ Is(pr["save"]) /\ pr'["save"].stage = pr["save"].stage
          /\ pr'["save"].id = pr["save"].id /\ pr'["save"].up = pr["save"].up
    BY <1>7, EndsAt, EndsType, OutdatedAt DEF UnlockMetadata, Revoked, Is, AllRunning, Running, Handlers
  <2> QED BY <2>1, <2>2, <2>3, QuietCopies DEF Copies
<1>8. CASE UnlockFile
  <2>0. \A i \in Ids :
          \/ Download(srv.file)[i] \in {heap[i], None}
          \/ ~Held(i) /\ Current(Download(srv.file)[i].ver, Download(srv.file)[i].content)
    <3>1. Free \in Ids /\ ~Held(Free)
      BY <1>8, Known, FreeIsFree DEF UnlockFile, Running, Handlers, Empty
    <3>2. srv.ver \in Nat /\ srv.file \in Nat
      BY DEF Server
    <3>3. Current(srv.ver, srv.content)
      BY <3>2 DEF Current
    <3>4. Download(srv.file)[Free] = [ver |-> srv.ver, content |-> srv.content, key |-> srv.file]
      BY <3>1, <3>2, DownloadAt
    <3>5. \A i \in Ids : i # Free => Download(srv.file)[i] = heap[i] \/ Download(srv.file)[i] = None
      BY <3>2, DownloadAt
    <3>6. Download(srv.file)[Free].ver = srv.ver /\ Download(srv.file)[Free].content = srv.content
      BY <3>4
    <3>7. Current(Download(srv.file)[Free].ver, Download(srv.file)[Free].content)
      BY <3>3, <3>6
    <3> TAKE i \in Ids
    <3>8. CASE i = Free
      BY <3>1, <3>7, <3>8
    <3>9. CASE i # Free
      BY <3>5, <3>9
    <3> QED BY <3>8, <3>9
  <2>1. srv' = srv /\ stray' = stray /\ heap' \in {heap, Download(srv.file)}
    BY <1>8 DEF UnlockFile, Revoked
  <2>2. Is(pr'["save"]) => /\ Is(pr["save"]) /\ pr'["save"].stage = pr["save"].stage
                           /\ pr'["save"].id = pr["save"].id /\ pr'["save"].up = pr["save"].up
    <3>1. \/ pr' = Ends("unlock") \/ pr' = Outdated(Ends("unlock"))
          \/ pr' = [pr EXCEPT !["unlock"].stage = "store", !["unlock"].id = Free]
      BY <1>8 DEF UnlockFile, Revoked
    <3> QED BY <3>1, EndsAt, EndsType, OutdatedAt DEF Handlers, AllRunning
  <2> QED BY <2>0, <2>1, <2>2, QuietCopies DEF Copies
<1>9. CASE UnlockStores
  <2>1. srv'.ver = srv.ver /\ srv'.content = srv.content /\ stray' = stray
    BY <1>9 DEF UnlockStores
  <2>2. \A i \in Ids : heap'[i] \in {heap[i], None}
    BY <1>9, KeepsAt DEF UnlockStores
  <2>3. Is(pr'["save"]) /\ pr'["save"].stage \in {"sent", "accepted"} =>
          /\ Is(pr["save"]) /\ pr'["save"].stage = pr["save"].stage
          /\ pr'["save"].id = pr["save"].id /\ pr'["save"].up = pr["save"].up
    BY <1>9, EndsAt, GoesAt DEF UnlockStores, Is, Stages, Holding, Empty, Running, Handlers
  <2> QED BY <2>1, <2>2, <2>3, QuietCopies DEF Copies
<1>10. CASE UnlockEnds
  <2>1. srv'.ver = srv.ver /\ srv'.content = srv.content /\ stray' = stray
    BY <1>10 DEF UnlockEnds
  <2>2. \A i \in Ids : heap'[i] \in {heap[i], None}
    BY <1>10, KeepsAt DEF UnlockEnds
  <2>3. Is(pr'["save"]) /\ pr'["save"].stage \in {"sent", "accepted"} =>
          /\ Is(pr["save"]) /\ pr'["save"].stage = pr["save"].stage
          /\ pr'["save"].id = pr["save"].id /\ pr'["save"].up = pr["save"].up
    BY <1>10, EndsAt, GoesAt DEF UnlockEnds, Is, Stages, Holding, Empty, Running, Handlers
  <2> QED BY <2>1, <2>2, <2>3, QuietCopies DEF Copies
<1>11. ASSUME NEW fill \in BOOLEAN, ReadBegins(fill) PROVE Copies'
  <2>1. srv'.ver = srv.ver /\ srv'.content = srv.content /\ stray' = stray
    BY <1>11 DEF ReadBegins
  <2>2. \A i \in Ids : heap'[i] \in {heap[i], None}
    BY <1>11, KeepsAt DEF ReadBegins
  <2>3. Is(pr'["save"]) /\ pr'["save"].stage \in {"sent", "accepted"} =>
          /\ Is(pr["save"]) /\ pr'["save"].stage = pr["save"].stage
          /\ pr'["save"].id = pr["save"].id /\ pr'["save"].up = pr["save"].up
    BY <1>11 DEF ReadBegins, Handler, AllRunning, Running, Handlers
  <2> QED BY <2>1, <2>2, <2>3, QuietCopies DEF Copies
<1>12. ASSUME NEW e \in Mine \ landed, SaveBegins(e) PROVE Copies'
  <2>1. srv'.ver = srv.ver /\ srv'.content = srv.content /\ stray' = stray
    BY <1>12 DEF SaveBegins
  <2>2. \A i \in Ids : heap'[i] \in {heap[i], None}
    BY <1>12, KeepsAt DEF SaveBegins
  <2>3. Is(pr'["save"]) /\ pr'["save"].stage \in {"sent", "accepted"} =>
          /\ Is(pr["save"]) /\ pr'["save"].stage = pr["save"].stage
          /\ pr'["save"].id = pr["save"].id /\ pr'["save"].up = pr["save"].up
    BY <1>12 DEF SaveBegins, Handler, AllRunning, Running, Handlers
  <2> QED BY <2>1, <2>2, <2>3, QuietCopies DEF Copies
<1>13. ASSUME NEW h \in Ensures, EnsureGoesOn(h) PROVE Copies'
  <2>1. srv'.ver = srv.ver /\ srv'.content = srv.content /\ stray' = stray
    BY <1>13 DEF EnsureGoesOn
  <2>2. \A i \in Ids : heap'[i] \in {heap[i], None}
    BY <1>13, KeepsAt DEF EnsureGoesOn
  <2>3. Is(pr'["save"]) /\ pr'["save"].stage \in {"sent", "accepted"} =>
          /\ Is(pr["save"]) /\ pr'["save"].stage = pr["save"].stage
          /\ pr'["save"].id = pr["save"].id /\ pr'["save"].up = pr["save"].up
    <3>1. h \in Handlers /\ pr[h] \in Underway
      BY <1>13, Known DEF EnsureGoesOn, Running, Handlers, Ensures
    <3>2. \A o \in Handlers \ {h} : pr'[o] = pr[o]
      BY <1>13 DEF EnsureGoesOn, TakesGeneration, AllRunning
    <3>3. pr'[h].stage \in {"commit", "waits"}
      BY <1>13, <3>1 DEF EnsureGoesOn, TakesGeneration, AllRunning, Underway
    <3> QED BY <3>2, <3>3 DEF Handlers
  <2> QED BY <2>1, <2>2, <2>3, QuietCopies DEF Copies
<1>14. ASSUME NEW g \in 1..3, Reopens(g) PROVE Copies'
  <2>0. \A i \in Ids :
          \/ Download(srv.file)[i] \in {heap[i], None}
          \/ ~Held(i) /\ Current(Download(srv.file)[i].ver, Download(srv.file)[i].content)
    <3>1. Free \in Ids /\ ~Held(Free)
      <4>1. PICK first \in Ensures : first \in Group(g)
        BY <1>14 DEF Reopens, Group
      <4> QED BY <4>1, Known, FreeIsFree DEF Group, Running, Ensures, Handlers, Empty
    <3>2. srv.ver \in Nat /\ srv.file \in Nat
      BY DEF Server
    <3>3. Current(srv.ver, srv.content)
      BY <3>2 DEF Current
    <3>4. Download(srv.file)[Free] = [ver |-> srv.ver, content |-> srv.content, key |-> srv.file]
      BY <3>1, <3>2, DownloadAt
    <3>5. \A i \in Ids : i # Free => Download(srv.file)[i] = heap[i] \/ Download(srv.file)[i] = None
      BY <3>2, DownloadAt
    <3>6. Download(srv.file)[Free].ver = srv.ver /\ Download(srv.file)[Free].content = srv.content
      BY <3>4
    <3>7. Current(Download(srv.file)[Free].ver, Download(srv.file)[Free].content)
      BY <3>3, <3>6
    <3> TAKE i \in Ids
    <3>8. CASE i = Free
      BY <3>1, <3>7, <3>8
    <3>9. CASE i # Free
      BY <3>5, <3>9
    <3> QED BY <3>8, <3>9
  <2> DEFINE found == [h \in Handlers |-> IF h \in Group(g)
                         THEN [pr[h] EXCEPT !.stage = "commit", !.id = Free, !.group = 0, !.key = 0] ELSE pr[h]]
  <2>1. srv' = srv /\ stray' = stray /\ heap' \in {heap, Download(srv.file)}
    BY <1>14, Zenon DEF Reopens, Revoked
  <2>2. Is(pr'["save"]) /\ pr'["save"].stage \in {"sent", "accepted"} =>
          /\ Is(pr["save"]) /\ pr'["save"].stage = pr["save"].stage
          /\ pr'["save"].id = pr["save"].id /\ pr'["save"].up = pr["save"].up
    <3>1. "save" \in Group(g) => found["save"].stage = "commit"
      <4>1. "save" \in Group(g) => pr["save"] \in Underway
        BY Known DEF Group, Running, Handlers
      <4> QED BY <4>1 DEF Underway, Handlers
    <3>2. "save" \notin Group(g) => found["save"] = pr["save"]
      BY DEF Handlers
    <3> HIDE DEF found
    <3>3. pr' \in {LeftBy(Group(g)), Outdated(LeftBy(Group(g))), found}
      BY <1>14, Zenon DEF Reopens, Revoked, found
    <3> QED BY <3>1, <3>2, <3>3, LeftAt, LeftType, OutdatedAt DEF Handlers, Is
  <2> QED BY <2>0, <2>1, <2>2, QuietCopies DEF Copies
<1>15. CASE ReadCommits
  <2>1. srv'.ver = srv.ver /\ srv'.content = srv.content /\ stray' = stray
    BY <1>15 DEF ReadCommits
  <2>2. \A i \in Ids : heap'[i] \in {heap[i], None}
    BY <1>15, KeepsAt DEF ReadCommits
  <2>3. Is(pr'["save"]) /\ pr'["save"].stage \in {"sent", "accepted"} =>
          /\ Is(pr["save"]) /\ pr'["save"].stage = pr["save"].stage
          /\ pr'["save"].id = pr["save"].id /\ pr'["save"].up = pr["save"].up
    <3>1. pr \in AllRunning /\ {"read", "save"} \subseteq Handlers /\ Is(pr["read"]) /\ "probe" \in Stages
      BY <1>15 DEF ReadCommits, Running, TypeOK, HandlersOK, Handlers, Stages, Holding, Empty
    <3> QED BY <1>15, <3>1, MovesOn DEF ReadCommits
  <2> QED BY <2>1, <2>2, <2>3, QuietCopies DEF Copies
<1>16. CASE NoForm
  <2>1. srv'.ver = srv.ver /\ srv'.content = srv.content /\ stray' = stray
    BY <1>16 DEF NoForm
  <2>2. \A i \in Ids : heap'[i] \in {heap[i], None}
    BY <1>16, KeepsAt DEF NoForm
  <2>3. Is(pr'["save"]) /\ pr'["save"].stage \in {"sent", "accepted"} =>
          /\ Is(pr["save"]) /\ pr'["save"].stage = pr["save"].stage
          /\ pr'["save"].id = pr["save"].id /\ pr'["save"].up = pr["save"].up
    BY <1>16, EndsAt DEF NoForm, Is, Running, Handlers
  <2> QED BY <2>1, <2>2, <2>3, QuietCopies DEF Copies
<1>17. CASE FillEnds
  <2>1. srv'.ver = srv.ver /\ srv'.content = srv.content /\ stray' = stray
    BY <1>17 DEF FillEnds
  <2>2. \A i \in Ids : heap'[i] \in {heap[i], None}
    BY <1>17, KeepsAt DEF FillEnds
  <2>3. Is(pr'["save"]) /\ pr'["save"].stage \in {"sent", "accepted"} =>
          /\ Is(pr["save"]) /\ pr'["save"].stage = pr["save"].stage
          /\ pr'["save"].id = pr["save"].id /\ pr'["save"].up = pr["save"].up
    BY <1>17, EndsAt DEF FillEnds, Is, Running, Handlers
  <2> QED BY <2>1, <2>2, <2>3, QuietCopies DEF Copies
<1>18. ASSUME NEW page \in Pages, FillFrame(page) PROVE Copies'
  <2>1. srv'.ver = srv.ver /\ srv'.content = srv.content /\ stray' = stray
    BY <1>18 DEF FillFrame
  <2>2. \A i \in Ids : heap'[i] \in {heap[i], None}
    BY <1>18, KeepsAt DEF FillFrame
  <2>3. Is(pr'["save"]) /\ pr'["save"].stage \in {"sent", "accepted"} =>
          /\ Is(pr["save"]) /\ pr'["save"].stage = pr["save"].stage
          /\ pr'["save"].id = pr["save"].id /\ pr'["save"].up = pr["save"].up
    BY <1>18, EndsAt, GoesAt DEF FillFrame, Is, Stages, Holding, Empty, Running, Handlers
  <2> QED BY <2>1, <2>2, <2>3, QuietCopies DEF Copies
<1>19. ASSUME NEW login \in Logins, NEW page \in Pages, Probes(login, page) PROVE Copies'
  <2>1. srv'.ver = srv.ver /\ srv'.content = srv.content /\ stray' = stray
    BY <1>19 DEF Probes
  <2>2. \A i \in Ids : heap'[i] \in {heap[i], None}
    BY <1>19, KeepsAt DEF Probes
  <2>3. Is(pr'["save"]) /\ pr'["save"].stage \in {"sent", "accepted"} =>
          /\ Is(pr["save"]) /\ pr'["save"].stage = pr["save"].stage
          /\ pr'["save"].id = pr["save"].id /\ pr'["save"].up = pr["save"].up
    BY <1>19 DEF Probes, AllRunning, Running, Handlers
  <2> QED BY <2>1, <2>2, <2>3, QuietCopies DEF Copies
<1>20. CASE SaveCommits
  <2>1. srv'.ver = srv.ver /\ srv'.content = srv.content /\ stray' = stray
    BY <1>20 DEF SaveCommits
  <2>2. \A i \in Ids : heap'[i] \in {heap[i], None}
    BY <1>20, KeepsAt DEF SaveCommits
  <2>3. Is(pr'["save"]) /\ pr'["save"].stage \in {"sent", "accepted"} =>
          /\ Is(pr["save"]) /\ pr'["save"].stage = pr["save"].stage
          /\ pr'["save"].id = pr["save"].id /\ pr'["save"].up = pr["save"].up
    <3>1. pr \in AllRunning /\ "save" \in Handlers /\ Is(pr["save"]) /\ "ask" \in Stages
      BY <1>20 DEF SaveCommits, Running, TypeOK, HandlersOK, Handlers, Stages, Holding, Empty
    <3> QED BY <1>20, <3>1, MovesOn DEF SaveCommits
  <2> QED BY <2>1, <2>2, <2>3, QuietCopies DEF Copies
<1>21. CASE SaveAsks
  <2>1. srv'.ver = srv.ver /\ srv'.content = srv.content /\ stray' = stray
    BY <1>21 DEF SaveAsks
  <2>2. \A i \in Ids : heap'[i] \in {heap[i], None}
    BY <1>21, KeepsAt DEF SaveAsks
  <2>3. Is(pr'["save"]) /\ pr'["save"].stage \in {"sent", "accepted"} =>
          /\ Is(pr["save"]) /\ pr'["save"].stage = pr["save"].stage
          /\ pr'["save"].id = pr["save"].id /\ pr'["save"].up = pr["save"].up
    <3>1. pr'["save"].stage = "asked"
      BY <1>21, Known DEF SaveAsks, Running, Handlers, AllRunning, Underway
    <3> QED BY <3>1
  <2> QED BY <2>1, <2>2, <2>3, QuietCopies DEF Copies
<1>22. CASE SaveChecked
  <2>1. srv' = srv /\ stray' = stray
    BY <1>22, Zenon DEF SaveChecked, Revoked
  <2>2. Is(pr["save"]) /\ (pr' = Ends("save") \/ pr' = Outdated(Ends("save")) \/ pr' = Goes("save", "made"))
    BY <1>22, Zenon DEF SaveChecked, Revoked, Running
  <2>3. ~(Is(pr'["save"]) /\ pr'["save"].stage \in {"sent", "accepted"})
    BY <2>2, EndsAt, EndsType, OutdatedAt, GoesAt DEF Handlers, Is, Stages, Holding
  <2>4. CASE heap' = heap
    BY <2>1, <2>3, <2>4, QuietCopies DEF Copies
  <2>5. CASE heap' = [heap EXCEPT ![pr["save"].id].content = @ \union {pr["save"].login}]
    <3>1. pr["save"].id \in Ids /\ heap[pr["save"].id] \in Copy
      BY <1>22, Known DEF SaveChecked, Running, Handlers, Holding
    <3>2. \A i \in Ids : Is(heap'[i]) => Is(heap[i]) /\ heap'[i].ver = heap[i].ver /\ heap[i].content \subseteq heap'[i].content
      BY <2>5, <3>1, Absent DEF Copy, AllCopies, Is
    <3>3. (\A i \in Ids : Is(heap[i]) => Current(heap[i].ver, heap[i].content))'
      BY <2>1, <3>2 DEF Copies, Current
    <3> QED BY <2>1, <2>3, <3>3 DEF Copies, Current, Running
  <2> QED BY <1>22, <2>4, <2>5, Zenon DEF SaveChecked
<1>23. CASE SaveSends
  <2>1. pr["save"] \in Underway /\ pr["save"].id \in Ids /\ heap[pr["save"].id] \in Copy /\ Held(pr["save"].id)
    BY <1>23, Known DEF SaveSends, Running, Handlers, Holding, Held
  <2>2. srv' = srv /\ stray' = stray /\ (\A i \in Ids : heap'[i] \in {heap[i], None})
    BY <1>23, KeepsAt DEF SaveSends
  <2>3. CASE pr' = Ends("save")
    BY <2>2, <2>3, EndsAt, QuietCopies DEF Handlers, Is, Copies
  <2> DEFINE vault == heap[pr["save"].id]
             upload == [ver |-> vault.ver, content |-> vault.content, key |-> vault.key, token |-> local.token]
  <2>4. CASE pr' = [pr EXCEPT !["save"].stage = "sent", !["save"].up = upload]
    <3>0. upload \in Upload
      BY <2>1 DEF Copy, Upload
    <3>1. upload.ver = vault.ver /\ upload.content = vault.content
      OBVIOUS
    <3>2. Current(vault.ver, vault.content)
      BY <2>1, Absent DEF Copies, Is
    <3> HIDE DEF upload
    <3>3. pr'["save"] = [pr["save"] EXCEPT !.stage = "sent", !.up = upload]
      BY <2>4 DEF AllRunning, Handlers
    <3>4. pr'["save"].stage = "sent" /\ pr'["save"].up = upload /\ pr'["save"].id = pr["save"].id
      BY <2>1, <3>3 DEF Underway
    <3>5. Is(pr'["save"])
      <4>2. [pr["save"] EXCEPT !.stage = "sent", !.up = upload] \in Underway
        BY <2>1, <3>0, Sent DEF Stages, Holding
      <4> QED BY <3>3, <4>2, Absent DEF Is
    <3>6. ASSUME NEW i \in Ids, i = pr["save"].id PROVE Held(i)'
      BY <3>4, <3>5, <3>6 DEF Held, Handlers
    <3>7. heap'[pr["save"].id] = vault
      <4>1. Keeps
        BY <1>23 DEF SaveSends
      <4> QED BY <2>1, <3>6, <4>1, KeepsAt
    <3>8. (\A i \in Ids : Is(heap[i]) => Current(heap[i].ver, heap[i].content))'
      BY <2>2 DEF Copies, Current, Is
    <3> QED BY <2>2, <3>1, <3>2, <3>4, <3>7, <3>8 DEF Copies, Current, Running
  <2> QED BY <1>23, <2>3, <2>4 DEF SaveSends
<1>24. CASE SaveArrives
  <2> DEFINE up == pr["save"].up
  <2>1. up \in Upload /\ Is(pr["save"]) /\ pr["save"].stage = "sent"
    BY <1>24 DEF SaveArrives, Running, Handlers, StagesOK, AllStages, StageOK, Uploading
  <2>2. heap' = heap /\ stray' = stray
    BY <1>24 DEF SaveArrives
  <2>3. CASE Taken(up)
    <3>1. srv'.ver = srv.ver + 1 /\ srv'.content = up.content /\ up.ver = srv.ver
      BY <1>24, <2>1, <2>3, Committed DEF SaveArrives, Taken
    <3>2. pr'["save"].stage = "accepted" /\ pr'["save"].up = up /\ pr'["save"].id = pr["save"].id
      BY <1>24, <2>1, <2>3, GoesAt DEF SaveArrives, Taken, Handlers, Stages, Holding
    <3>3. up.content \subseteq heap[pr["save"].id].content
      BY <2>1 DEF Copies, Running
    <3>4. (Running("save", "accepted") => Current(pr["save"].up.ver + 1, heap[pr["save"].id].content))'
      <4>1. srv.ver \in Nat
        BY DEF Server
      <4> QED BY <2>2, <3>1, <3>2, <3>3, <4>1 DEF Current
    <3> QED BY <2>2, <3>1, <3>2, <3>4, NewerVersion DEF Copies, Running
  <2>4. CASE ~Taken(up)
    <3>1. pr'["save"].stage \in {"denied", "refused"} /\ srv' = srv
      BY <1>24, <2>1, <2>4, GoesAt DEF SaveArrives, Handlers, Stages, Holding
    <3> QED BY <2>2, <3>1, QuietCopies DEF Copies
  <2> QED BY <2>3, <2>4
<1>25. CASE SaveAccepted
  <2>1. pr["save"].id \in Ids /\ heap[pr["save"].id] \in Copy
    BY <1>25, Known DEF SaveAccepted, Running, Handlers, Holding
  <2>2. pr'["save"] = None /\ srv' = srv /\ stray' = stray
    BY <1>25, EndsAt DEF SaveAccepted, Handlers
  <2>3. Current(pr["save"].up.ver + 1, heap[pr["save"].id].content)
    BY <1>25 DEF SaveAccepted, Copies
  <2>4. \A i \in Ids : Is(heap'[i]) => Current(heap'[i].ver, heap'[i].content)
    <3> SUFFICES ASSUME NEW i \in Ids, Is(heap'[i]) PROVE Current(heap'[i].ver, heap'[i].content)
      OBVIOUS
    <3>1. CASE heap'[i] = heap[i]
      BY <3>1 DEF Copies, Is
    <3>2. CASE heap'[i] # heap[i]
      <4>1. i = pr["save"].id /\ heap'[i] = [heap[i] EXCEPT !.ver = pr["save"].up.ver + 1]
        BY <1>25, <2>1, <3>2 DEF SaveAccepted, AllCopies
      <4>2. heap'[i].ver = pr["save"].up.ver + 1 /\ heap'[i].content = heap[i].content
        BY <2>1, <4>1 DEF Copy
      <4> QED BY <2>3, <4>1, <4>2
    <3> QED BY <3>1, <3>2
  <2> QED BY <2>2, <2>4 DEF Copies, Current, Running, Is
<1>26. CASE SaveRefused
  <2>1. srv'.ver = srv.ver /\ srv'.content = srv.content /\ stray' = stray
    BY <1>26 DEF SaveRefused
  <2>2. \A i \in Ids : heap'[i] \in {heap[i], None}
    BY <1>26, KeepsAt DEF SaveRefused
  <2>3. Is(pr'["save"]) /\ pr'["save"].stage \in {"sent", "accepted"} =>
          /\ Is(pr["save"]) /\ pr'["save"].stage = pr["save"].stage
          /\ pr'["save"].id = pr["save"].id /\ pr'["save"].up = pr["save"].up
    BY <1>26, EndsAt, EndsType, OutdatedAt DEF SaveRefused, Is, Running, Handlers
  <2> QED BY <2>1, <2>2, <2>3, QuietCopies DEF Copies
<1>27. CASE SaveDenied
  <2>1. srv'.ver = srv.ver /\ srv'.content = srv.content /\ stray' = stray
    BY <1>27 DEF SaveDenied, Revoked
  <2>2. \A i \in Ids : heap'[i] \in {heap[i], None}
    BY <1>27, KeepsAt DEF SaveDenied
  <2>3. Is(pr'["save"]) /\ pr'["save"].stage \in {"sent", "accepted"} =>
          /\ Is(pr["save"]) /\ pr'["save"].stage = pr["save"].stage
          /\ pr'["save"].id = pr["save"].id /\ pr'["save"].up = pr["save"].up
    BY <1>27, EndsAt, EndsType, OutdatedAt DEF SaveDenied, Revoked, Is, Running, Handlers
  <2> QED BY <2>1, <2>2, <2>3, QuietCopies DEF Copies
<1>28. CASE SaveLost
  <2>1. \A up \in stray' : Current(up.ver, up.content)
    BY <1>28 DEF SaveLost, GivesUp, Copies
  <2>2. \A i \in Ids : heap'[i] \in {heap[i], None}
    BY <1>28, KeepsAt DEF SaveLost
  <2>3. pr'["save"] = None /\ srv' = srv
    BY <1>28, EndsAt DEF SaveLost, Handlers
  <2> QED BY <2>1, <2>2, <2>3, QuietCopies DEF Is
<1>29. CASE Pairs
  <2>1. srv'.ver = srv.ver /\ srv'.content = srv.content /\ stray' = stray
    BY <1>29 DEF Pairs, Server
  <2>2. \A i \in Ids : heap'[i] \in {heap[i], None}
    BY <1>29, KeepsAt DEF Pairs
  <2>3. Is(pr'["save"]) /\ pr'["save"].stage \in {"sent", "accepted"} =>
          /\ Is(pr["save"]) /\ pr'["save"].stage = pr["save"].stage
          /\ pr'["save"].id = pr["save"].id /\ pr'["save"].up = pr["save"].up
    BY <1>29 DEF Pairs, AllRunning, Running, Handlers
  <2> QED BY <2>1, <2>2, <2>3, QuietCopies DEF Copies
<1>30. CASE PairedTold
  <2>1. srv'.ver = srv.ver /\ srv'.content = srv.content /\ stray' = stray
    BY <1>30 DEF PairedTold
  <2>2. \A i \in Ids : heap'[i] \in {heap[i], None}
    BY <1>30, KeepsAt DEF PairedTold
  <2>3. Is(pr'["save"]) /\ pr'["save"].stage \in {"sent", "accepted"} =>
          /\ Is(pr["save"]) /\ pr'["save"].stage = pr["save"].stage
          /\ pr'["save"].id = pr["save"].id /\ pr'["save"].up = pr["save"].up
    BY <1>30, OutdatedAt DEF PairedTold, Locks, Running, Handlers
  <2> QED BY <2>1, <2>2, <2>3, QuietCopies DEF Copies
<1>31. ASSUME NEW reached \in BOOLEAN, Unpairs(reached) PROVE Copies'
  <2>1. srv'.ver = srv.ver /\ srv'.content = srv.content /\ stray' = stray
    BY <1>31 DEF Unpairs, Server
  <2>2. \A i \in Ids : heap'[i] \in {heap[i], None}
    BY <1>31, KeepsAt DEF Unpairs
  <2>3. Is(pr'["save"]) /\ pr'["save"].stage \in {"sent", "accepted"} =>
          /\ Is(pr["save"]) /\ pr'["save"].stage = pr["save"].stage
          /\ pr'["save"].id = pr["save"].id /\ pr'["save"].up = pr["save"].up
    BY <1>31, OutdatedAt DEF Unpairs, Locks, Running, Handlers
  <2> QED BY <2>1, <2>2, <2>3, QuietCopies DEF Copies
<1>32. CASE OtherSaves
  <2>1. srv'.ver = srv.ver + 1
    BY <1>32 DEF OtherSaves, Server
  <2> QED BY <1>32, <2>1, NewerVersion DEF OtherSaves
<1>33. CASE OtherRotates
  <2>1. srv'.ver = srv.ver + 1
    BY <1>33 DEF OtherRotates, Server
  <2> QED BY <1>33, <2>1, NewerVersion DEF OtherRotates
<1>34. CASE DevicesEnded
  <2>1. srv'.ver = srv.ver /\ srv'.content = srv.content /\ stray' = stray
    BY <1>34 DEF DevicesEnded, Server
  <2>2. \A i \in Ids : heap'[i] \in {heap[i], None}
    BY <1>34, KeepsAt DEF DevicesEnded
  <2>3. Is(pr'["save"]) /\ pr'["save"].stage \in {"sent", "accepted"} =>
          /\ Is(pr["save"]) /\ pr'["save"].stage = pr["save"].stage
          /\ pr'["save"].id = pr["save"].id /\ pr'["save"].up = pr["save"].up
    BY <1>34 DEF DevicesEnded, AllRunning, Running, Handlers
  <2> QED BY <2>1, <2>2, <2>3, QuietCopies DEF Copies
<1>35. CASE StrayArrives
  <2>1. PICK up \in stray : /\ stray' = stray \ {up}
                            /\ IF Taken(up) THEN Commit(up) ELSE UNCHANGED srv
    BY <1>35 DEF StrayArrives
  <2>2. heap' = heap /\ pr' = pr
    BY <1>35 DEF StrayArrives
  <2>3. CASE Taken(up)
    <3>1. up \in Upload
      BY <2>1 DEF TypeOK, OutsideOK
    <3>2. srv'.ver = srv.ver + 1
      BY <2>1, <2>3, <3>1, Committed
    <3> QED BY <2>1, <2>2, <3>2, NewerVersion
  <2>4. CASE ~Taken(up)
    BY <2>1, <2>2, <2>4, QuietCopies DEF Copies
  <2> QED BY <2>3, <2>4
<1>36. CASE UNCHANGED vars
  BY <1>36 DEF vars, Copies, Current, Running
<1> QED
  BY <1>1, <1>2, <1>3, <1>4, <1>5, <1>6, <1>7, <1>8, <1>9, <1>10, <1>11, <1>12, <1>13, <1>14,
     <1>15, <1>16, <1>17, <1>18, <1>19, <1>20, <1>21, <1>22, <1>23, <1>24, <1>25, <1>26, <1>27, <1>28,
     <1>29, <1>30, <1>31, <1>32, <1>33, <1>34, <1>35, <1>36 DEF Next

\* What a step does to the server's copy: nothing, or one version that takes in all
\* the one before it has.
Grows ==
  \/ srv'.ver = srv.ver /\ srv'.content = srv.content
  \/ /\ srv'.ver = srv.ver + 1
     /\ srv'.content \in SUBSET Logins /\ srv.content \subseteq srv'.content

\* Every step leaves the server as it is, or adds to it under the next version.
LEMMA StepGrows == TypeOK /\ Copies /\ [Next]_vars => Grows
<1> SUFFICES ASSUME TypeOK, Copies, [Next]_vars PROVE Grows
  OBVIOUS
<1>0. pr \in AllRunning /\ srv \in Server /\ StagesOK
  BY DEF TypeOK, OutsideOK, HandlersOK
<1> USE <1>0 DEF Grows
<1>1. CASE Lock
  BY <1>1 DEF Lock
<1>2. CASE CheckDevice
  BY <1>2 DEF CheckDevice, Revoked
<1>3. ASSUME NEW restart \in BOOLEAN, WorkerStops(restart) PROVE Grows
  BY <1>3 DEF WorkerStops
<1>4. CASE UnlockBegins
  BY <1>4 DEF UnlockBegins
<1>5. CASE UnlockGoesOn
  BY <1>5 DEF UnlockGoesOn
<1>6. CASE UnlockFails
  BY <1>6 DEF UnlockFails
<1>7. CASE UnlockMetadata
  BY <1>7 DEF UnlockMetadata, Revoked
<1>8. CASE UnlockFile
  BY <1>8 DEF UnlockFile, Revoked
<1>9. CASE UnlockStores
  BY <1>9 DEF UnlockStores
<1>10. CASE UnlockEnds
  BY <1>10 DEF UnlockEnds
<1>11. ASSUME NEW fill \in BOOLEAN, ReadBegins(fill) PROVE Grows
  BY <1>11 DEF ReadBegins
<1>12. ASSUME NEW e \in Mine \ landed, SaveBegins(e) PROVE Grows
  BY <1>12 DEF SaveBegins
<1>13. ASSUME NEW h \in Ensures, EnsureGoesOn(h) PROVE Grows
  BY <1>13 DEF EnsureGoesOn
<1>14. ASSUME NEW g \in 1..3, Reopens(g) PROVE Grows
  BY <1>14, Zenon DEF Reopens, Revoked
<1>15. CASE ReadCommits
  BY <1>15 DEF ReadCommits
<1>16. CASE NoForm
  BY <1>16 DEF NoForm
<1>17. CASE FillEnds
  BY <1>17 DEF FillEnds
<1>18. ASSUME NEW page \in Pages, FillFrame(page) PROVE Grows
  BY <1>18 DEF FillFrame
<1>19. ASSUME NEW login \in Logins, NEW page \in Pages, Probes(login, page) PROVE Grows
  BY <1>19 DEF Probes
<1>20. CASE SaveCommits
  BY <1>20 DEF SaveCommits
<1>21. CASE SaveAsks
  BY <1>21 DEF SaveAsks
<1>22. CASE SaveChecked
  BY <1>22, Zenon DEF SaveChecked, Revoked
<1>23. CASE SaveSends
  BY <1>23 DEF SaveSends
<1>24. CASE SaveArrives
  <2> DEFINE up == pr["save"].up
  <2>1. up \in Upload /\ Current(up.ver, up.content)
    BY <1>24 DEF SaveArrives, Running, Handlers, StagesOK, AllStages, StageOK, Uploading, Copies
  <2>2. CASE Taken(up)
    BY <1>24, <2>1, <2>2, Committed DEF SaveArrives, Taken, Current, Upload
  <2>3. CASE ~Taken(up)
    BY <1>24, <2>3 DEF SaveArrives
  <2> QED BY <2>2, <2>3
<1>25. CASE SaveAccepted
  BY <1>25 DEF SaveAccepted
<1>26. CASE SaveRefused
  BY <1>26 DEF SaveRefused
<1>27. CASE SaveDenied
  BY <1>27 DEF SaveDenied, Revoked
<1>28. CASE SaveLost
  BY <1>28 DEF SaveLost
<1>29. CASE Pairs
  BY <1>29 DEF Pairs, Server
<1>30. CASE PairedTold
  BY <1>30 DEF PairedTold
<1>31. ASSUME NEW reached \in BOOLEAN, Unpairs(reached) PROVE Grows
  BY <1>31 DEF Unpairs, Server
<1>32. CASE OtherSaves
  <2>1. PICK e \in Theirs : srv' = [srv EXCEPT !.ver = srv.ver + 1, !.content = srv.content \union {e}]
    BY <1>32 DEF OtherSaves
  <2> QED BY <2>1 DEF Server, Logins
<1>33. CASE OtherRotates
  BY <1>33 DEF OtherRotates, Server
<1>34. CASE DevicesEnded
  BY <1>34 DEF DevicesEnded, Server
<1>35. CASE StrayArrives
  <2>1. PICK up \in stray : IF Taken(up) THEN Commit(up) ELSE UNCHANGED srv
    BY <1>35 DEF StrayArrives
  <2>2. up \in Upload /\ Current(up.ver, up.content)
    BY <2>1 DEF TypeOK, OutsideOK, Copies
  <2>3. CASE Taken(up)
    BY <2>1, <2>2, <2>3, Committed DEF Taken, Current, Upload
  <2>4. CASE ~Taken(up)
    BY <2>1, <2>4
  <2> QED BY <2>3, <2>4
<1>36. CASE UNCHANGED vars
  BY <1>36 DEF vars
<1> QED
  BY <1>1, <1>2, <1>3, <1>4, <1>5, <1>6, <1>7, <1>8, <1>9, <1>10, <1>11, <1>12, <1>13, <1>14,
     <1>15, <1>16, <1>17, <1>18, <1>19, <1>20, <1>21, <1>22, <1>23, <1>24, <1>25, <1>26, <1>27, <1>28,
     <1>29, <1>30, <1>31, <1>32, <1>33, <1>34, <1>35, <1>36 DEF Next

\* The inductive invariant of the refinement holds throughout.
LEMMA CopiesInvariant == Spec => [](TypeOK /\ Copies)
<1>1. Init => TypeOK /\ Copies
  BY DEF Init, TypeOK, OutsideOK, WorkerOK, HandlersOK, StagesOK, AllStages, StageOK, HeldOK, Held, Copies, Current,
         Server, AllCopies, AllRunning, Is, Running, Handlers, Ids, None, Logins
<1>2. TypeOK /\ Copies /\ [Next]_vars => (TypeOK /\ Copies)'
  BY TypeStep, CopiesStep
<1> QED BY <1>1, <1>2, PTL DEF Spec

\* The server, the worker's memory and storages, and its handlers have their types,
\* and every vault a handler holds exists (createVaultState).
THEOREM Typed == Spec => []TypeOK
BY CopiesInvariant, PTL

\* Whatever the worker, the browser and other sessions do, the extension's uploads
\* only ever add to the server's copy: it implements the register that loses no
\* login (saveVault, ensure, the service worker's restarts).
THEOREM ImplementsRegister == Spec => NothingOverwritten
<1>1. Init => Register!Init
  BY DEF Init, Register!Init
<1>2. TypeOK /\ Copies /\ [Next]_vars => [Register!Next]_<<srv.ver, srv.content, FALSE>>
  <2> SUFFICES ASSUME TypeOK, Copies, [Next]_vars PROVE [Register!Next]_<<srv.ver, srv.content, FALSE>>
    OBVIOUS
  <2>1. Grows
    BY StepGrows
  <2> QED BY <2>1 DEF Grows, Register!Next, Register!Extend
<1> QED BY <1>1, <1>2, CopiesInvariant, PTL DEF Spec, NothingOverwritten, Register!Spec, Register!rvars

\* A lock leaves no handler live.
LEMMA OutdatedNoneLive == ASSUME NEW p \in AllRunning PROVE NoneLive(Outdated(p))
BY OutdatedAt DEF NoneLive

\* Every step leaves an unpaired extension with nothing that could be put back.
LEMMA RevocationStep == TypeOK /\ Revocation /\ [Next]_vars => Revocation'
<1> SUFFICES ASSUME TypeOK, Revocation, [Next]_vars PROVE Revocation'
  OBVIOUS
<1>0. /\ pr \in AllRunning /\ srv \in Server /\ StagesOK /\ local \in [token : Nat, told : BOOLEAN]
      /\ Accepted => local.token # 0
  BY DEF TypeOK, OutsideOK, HandlersOK, Accepted, Server
<1> USE <1>0
<1>1. CASE Lock
  BY <1>1, OutdatedNoneLive DEF Lock, Locks, Revocation, RevokedHoldsNoKey, Is
<1>2. CASE CheckDevice
  BY <1>2, OutdatedNoneLive DEF CheckDevice, Revoked, Locks, Revocation, RevokedHoldsNoKey, Is
<1>3. ASSUME NEW restart \in BOOLEAN, WorkerStops(restart) PROVE Revocation'
  BY <1>3 DEF WorkerStops, Revocation, RevokedHoldsNoKey, NoneLive, Running, Handlers, Committing, Is
<1>4. CASE UnlockBegins
  BY <1>4 DEF UnlockBegins, Locks, Revocation, RevokedHoldsNoKey, Is
<1>5. CASE UnlockGoesOn
  <2>1. pr'["unlock"].stage = "metadata" /\ (\A o \in Handlers \ {"unlock"} : pr'[o] = pr[o])
    BY <1>5, Known DEF UnlockGoesOn, TakesGeneration, Running, Handlers, AllRunning, Underway
  <2> QED BY <1>5, <2>1 DEF UnlockGoesOn, Revocation, RevokedHoldsNoKey, NoneLive, Running, Handlers, Committing
<1>6. CASE UnlockFails
  BY <1>6, EndsAt DEF UnlockFails, Revocation, RevokedHoldsNoKey, NoneLive, Running, Handlers, Committing, Is
<1>7. CASE UnlockMetadata
  <2>1. CASE Accepted
    BY <1>7, <2>1 DEF UnlockMetadata, Revocation, RevokedHoldsNoKey
  <2>2. CASE ~Accepted
    BY <1>7, <2>2, EndsType, OutdatedNoneLive DEF UnlockMetadata, Revoked, Locks, Revocation, RevokedHoldsNoKey, Handlers, Is
  <2> QED BY <2>1, <2>2
<1>8. CASE UnlockFile
  <2>1. CASE Accepted
    BY <1>8, <2>1 DEF UnlockFile, Revocation, RevokedHoldsNoKey
  <2>2. CASE ~Accepted
    BY <1>8, <2>2, EndsType, OutdatedNoneLive DEF UnlockFile, Revoked, Locks, Revocation, RevokedHoldsNoKey, Handlers, Is
  <2> QED BY <2>1, <2>2
<1>9. CASE UnlockStores
  <2>1. pr \in AllRunning /\ "unlock" \in Handlers /\ Is(pr["unlock"]) /\ {"store", "check"} \subseteq Stages
    BY <1>9 DEF UnlockStores, Running, TypeOK, HandlersOK, Handlers, Stages, Holding, Empty
  <2>2. /\ Is(pr'["unlock"]) /\ pr'["unlock"].stage = "check" /\ pr'["unlock"].live = pr["unlock"].live
        /\ \A o \in Handlers \ {"unlock"} : pr'[o] = pr[o]
    BY <1>9, <2>1, GoesAt DEF UnlockStores
  <2>3. local' = local /\ open' = open /\ pr["unlock"].stage = "store"
    BY <1>9 DEF UnlockStores, Running
  <2> QED BY <2>1, <2>2, <2>3 DEF Revocation, RevokedHoldsNoKey, NoneLive, Running, Committing
<1>10. CASE UnlockEnds
  BY <1>10, EndsAt DEF UnlockEnds, Commits, Revocation, RevokedHoldsNoKey, NoneLive, Running, Handlers, Committing, Is
<1>11. ASSUME NEW fill \in BOOLEAN, ReadBegins(fill) PROVE Revocation'
  <2>1. pr'["read"].stage = "begun" /\ (\A o \in Handlers \ {"read"} : pr'[o] = pr[o])
    BY <1>11 DEF ReadBegins, Handler, AllRunning, Handlers
  <2> QED BY <1>11, <2>1 DEF ReadBegins, Revocation, RevokedHoldsNoKey, NoneLive, Running, Handlers, Committing
<1>12. ASSUME NEW e \in Mine \ landed, SaveBegins(e) PROVE Revocation'
  <2>1. pr'["save"].stage = "begun" /\ (\A o \in Handlers \ {"save"} : pr'[o] = pr[o])
    BY <1>12 DEF SaveBegins, Handler, AllRunning, Handlers
  <2> QED BY <1>12, <2>1 DEF SaveBegins, Revocation, RevokedHoldsNoKey, NoneLive, Running, Handlers, Committing
<1>13. ASSUME NEW h \in Ensures, EnsureGoesOn(h) PROVE Revocation'
  <2> SUFFICES ASSUME local'.token = 0 PROVE Revocation'
    BY DEF Revocation, RevokedHoldsNoKey
  <2>1. h \in Handlers /\ pr[h] \in Underway /\ ~Is(open)
    BY <1>13, Known DEF EnsureGoesOn, Running, Handlers, Ensures, Revocation, RevokedHoldsNoKey
  <2>2. pr'[h].stage = "waits" /\ (\A o \in Handlers \ {h} : pr'[o] = pr[o])
    BY <1>13, <2>1 DEF EnsureGoesOn, TakesGeneration, AllRunning, Underway
  <2> QED BY <1>13, <2>2 DEF EnsureGoesOn, Ensures, Revocation, RevokedHoldsNoKey, NoneLive, Running, Handlers, Committing
<1>14. ASSUME NEW g \in 1..3, Reopens(g) PROVE Revocation'
  <2> SUFFICES ASSUME local'.token = 0 PROVE Revocation'
    BY DEF Revocation, RevokedHoldsNoKey
  <2>1. CASE local.token # 0 /\ Revoked(LeftBy(Group(g)))
    BY <2>1, LeftType, OutdatedNoneLive DEF Revoked, Locks, Revocation, RevokedHoldsNoKey, Is
  <2>2. CASE local.token = 0 /\ local' = local /\ sess' = sess /\ open' = open /\ pr' = LeftBy(Group(g))
    BY <2>2, LeftAt DEF Group, Ensures, Is, Revocation, RevokedHoldsNoKey, NoneLive, Running, Handlers, Committing
  <2> QED BY <1>14, <2>1, <2>2, Zenon DEF Reopens
<1>15. CASE ReadCommits
  BY <1>15, EndsAt DEF ReadCommits, Commits, Revocation, RevokedHoldsNoKey, NoneLive, Running, Handlers, Committing, Is
<1>16. CASE NoForm
  BY <1>16, EndsAt DEF NoForm, Revocation, RevokedHoldsNoKey, NoneLive, Running, Handlers, Committing, Is
<1>17. CASE FillEnds
  BY <1>17, EndsAt DEF FillEnds, Revocation, RevokedHoldsNoKey, NoneLive, Running, Handlers, Committing, Is
<1>18. ASSUME NEW page \in Pages, FillFrame(page) PROVE Revocation'
  <2>1. /\ pr \in AllRunning /\ {"read", "unlock"} \subseteq Handlers /\ Is(pr["read"])
        /\ "filled" \in Stages /\ "filled" \notin Committing
    BY <1>18 DEF FillFrame, Running, TypeOK, HandlersOK, Handlers, Stages, Holding, Empty, Committing
  <2>2. Running("unlock", "check") => Running("unlock", "check")'
    BY <1>18, <2>1, EndsAt, GoesAt DEF FillFrame, Running, Is
  <2>3. NoneLive(pr) => NoneLive(pr')
    BY <1>18, <2>1, MovesOn DEF FillFrame, NoneLive
  <2>4. UNCHANGED <<local, sess, open>>
    BY <1>18 DEF FillFrame
  <2> QED BY <2>2, <2>3, <2>4 DEF Revocation, RevokedHoldsNoKey
<1>19. ASSUME NEW login \in Logins, NEW page \in Pages, Probes(login, page) PROVE Revocation'
  <2>1. pr'["read"].stage = "fill" /\ (\A o \in Handlers \ {"read"} : pr'[o] = pr[o])
    BY <1>19, Known DEF Probes, Running, Handlers, AllRunning, Underway
  <2> QED BY <1>19, <2>1 DEF Probes, Revocation, RevokedHoldsNoKey, NoneLive, Running, Handlers, Committing
<1>20. CASE SaveCommits
  BY <1>20, EndsAt DEF SaveCommits, Commits, Revocation, RevokedHoldsNoKey, NoneLive, Running, Handlers, Committing, Is
<1>21. CASE SaveAsks
  <2>1. pr'["save"].stage = "asked" /\ (\A o \in Handlers \ {"save"} : pr'[o] = pr[o])
    BY <1>21, Known DEF SaveAsks, Running, Handlers, AllRunning, Underway
  <2> QED BY <1>21, <2>1 DEF SaveAsks, Revocation, RevokedHoldsNoKey, NoneLive, Running, Handlers, Committing
<1>22. CASE SaveChecked
  <2> SUFFICES ASSUME local'.token = 0 PROVE Revocation'
    BY DEF Revocation, RevokedHoldsNoKey
  <2>1. CASE Revoked(Ends("save"))
    BY <2>1, EndsType, OutdatedNoneLive DEF Revoked, Locks, Revocation, RevokedHoldsNoKey, Handlers, Is
  <2>2. CASE local' = local /\ sess' = sess /\ open' = open /\ pr' = Ends("save")
    BY <2>2, EndsAt DEF Is, Revocation, RevokedHoldsNoKey, NoneLive, Running, Handlers, Committing
  <2> QED BY <1>22, <2>1, <2>2, Zenon DEF SaveChecked
<1>23. CASE SaveSends
  <2>1. /\ \A o \in Handlers \ {"save"} : pr'[o] = pr[o]
        /\ Is(pr'["save"]) => pr'["save"].stage = "sent"
    <3>1. pr["save"] \in Underway
      BY <1>23, Known DEF SaveSends, Running, Handlers
    <3> QED BY <1>23, <3>1 DEF SaveSends, Ends, Handlers, AllRunning, Underway, Is
  <2>2. local' = local /\ sess' = sess /\ (Is(open') => Is(open))
    BY <1>23 DEF SaveSends, DropsCopy, Is
  <2> QED BY <1>23, <2>1, <2>2 DEF Revocation, RevokedHoldsNoKey, NoneLive, Running, Handlers, Committing
<1>24. CASE SaveArrives
  <2>1. PICK s \in {"denied", "accepted", "refused"} : pr' = Goes("save", s)
    BY <1>24 DEF SaveArrives
  <2>2. /\ pr \in AllRunning /\ {"save", "unlock"} \subseteq Handlers /\ Is(pr["save"])
        /\ s \in Stages /\ s \notin Committing
    BY <1>24 DEF SaveArrives, Running, TypeOK, HandlersOK, Handlers, Stages, Holding, Empty, Committing
  <2>3. Running("unlock", "check") => Running("unlock", "check")'
    BY <2>1, <2>2, GoesAt DEF Running
  <2>4. NoneLive(pr) => NoneLive(pr')
    BY <2>1, <2>2, MovesOn DEF NoneLive
  <2>5. UNCHANGED <<local, sess, open>>
    BY <1>24 DEF SaveArrives
  <2> QED BY <2>3, <2>4, <2>5 DEF Revocation, RevokedHoldsNoKey
<1>25. CASE SaveAccepted
  BY <1>25, EndsAt DEF SaveAccepted, Revocation, RevokedHoldsNoKey, NoneLive, Running, Handlers, Committing, Is
<1>26. CASE SaveRefused
  BY <1>26, EndsType, OutdatedNoneLive DEF SaveRefused, Locks, Revocation, RevokedHoldsNoKey, Handlers, Is
<1>27. CASE SaveDenied
  BY <1>27, EndsType, OutdatedNoneLive DEF SaveDenied, Revoked, Locks, Revocation, RevokedHoldsNoKey, Handlers, Is
<1>28. CASE SaveLost
  BY <1>28, EndsAt DEF SaveLost, DropsCopy, Revocation, RevokedHoldsNoKey, NoneLive, Running, Handlers, Committing, Is
<1>29. CASE Pairs
  BY <1>29 DEF Pairs, Revocation, RevokedHoldsNoKey, Server
<1>30. CASE PairedTold
  BY <1>30, OutdatedNoneLive DEF PairedTold, Locks, Revocation, RevokedHoldsNoKey, Is
<1>31. ASSUME NEW reached \in BOOLEAN, Unpairs(reached) PROVE Revocation'
  BY <1>31, OutdatedNoneLive DEF Unpairs, Locks, Revocation, RevokedHoldsNoKey, Is
<1>32. CASE OtherSaves
  BY <1>32 DEF OtherSaves, Revocation, RevokedHoldsNoKey, NoneLive, Running, Handlers, Committing
<1>33. CASE OtherRotates
  BY <1>33 DEF OtherRotates, Revocation, RevokedHoldsNoKey, NoneLive, Running, Handlers, Committing
<1>34. CASE DevicesEnded
  BY <1>34 DEF DevicesEnded, Revocation, RevokedHoldsNoKey, NoneLive, Running, Handlers, Committing
<1>35. CASE StrayArrives
  BY <1>35 DEF StrayArrives, Revocation, RevokedHoldsNoKey, NoneLive, Running, Handlers, Committing
<1>36. CASE UNCHANGED vars
  BY <1>36 DEF vars, Revocation, RevokedHoldsNoKey, NoneLive, Running, Handlers, Committing
<1> QED
  BY <1>1, <1>2, <1>3, <1>4, <1>5, <1>6, <1>7, <1>8, <1>9, <1>10, <1>11, <1>12, <1>13, <1>14,
     <1>15, <1>16, <1>17, <1>18, <1>19, <1>20, <1>21, <1>22, <1>23, <1>24, <1>25, <1>26, <1>27, <1>28,
     <1>29, <1>30, <1>31, <1>32, <1>33, <1>34, <1>35, <1>36 DEF Next

\* What ends, goes on or is outdated by a lock stays fresh.
LEMMA OutdatedFresh ==
  ASSUME NEW p \in AllRunning, \A h \in Handlers : Is(p[h]) => p[h].stage # "begun"
  PROVE  AllFresh(Outdated(p))
BY OutdatedAt DEF AllFresh, Fresh

LEMMA EndsFresh == ASSUME pr \in AllRunning, AllFresh(pr), NEW h \in Handlers PROVE AllFresh(Ends(h))
BY EndsAt DEF AllFresh, Fresh, Is

LEMMA LeftFresh == ASSUME AllFresh(pr), NEW hs PROVE AllFresh(LeftBy(hs))
BY LeftAt DEF AllFresh, Fresh, Is

LEMMA GoesFresh ==
  ASSUME pr \in AllRunning, AllFresh(pr), NEW h \in Handlers, Is(pr[h]), NEW s \in Stages \ {"begun"}
  PROVE  AllFresh(Goes(h, s))
BY GoesAt DEF AllFresh, Fresh

LEMMA PutFresh ==
  ASSUME NEW p \in AllRunning, AllFresh(p), NEW h \in Handlers, NEW r, Fresh(r)
  PROVE  AllFresh([p EXCEPT ![h] = r])
BY DEF AllRunning, AllFresh

\* Every step keeps late handlers from committing.
LEMMA GenerationsStep == "lock" \in Careful /\ TypeOK /\ Generations /\ [Next]_vars => Generations'
<1> SUFFICES ASSUME "lock" \in Careful, TypeOK, Generations, [Next]_vars PROVE Generations'
  OBVIOUS
<1>0. /\ pr \in AllRunning /\ srv \in Server /\ StagesOK /\ local \in [token : Nat, told : BOOLEAN]
      /\ Accepted => local.token # 0
  BY DEF TypeOK, OutsideOK, HandlersOK, Accepted, Server
<1> USE <1>0, "lock" \in Careful
<1>1. CASE Lock
  <2>1. \A h \in Handlers : Is(pr[h]) => pr[h].stage # "begun"
    BY <1>1 DEF Lock, Locks, Running
  <2> QED BY <1>1, <2>1, OutdatedFresh DEF Lock, Locks, Generations, LockHolds, Is
<1>2. CASE CheckDevice
  <2>1. \A h \in Handlers : Is(pr[h]) => pr[h].stage # "begun"
    BY <1>2 DEF CheckDevice, Revoked, Locks, Running
  <2> QED BY <1>2, <2>1, OutdatedFresh DEF CheckDevice, Revoked, Locks, Generations, LockHolds, Is
<1>3. ASSUME NEW restart \in BOOLEAN, WorkerStops(restart) PROVE Generations'
  BY <1>3 DEF WorkerStops, Generations, LockHolds, Running, AllFresh, Fresh, Is, Handlers
<1>4. CASE UnlockBegins
  <2>1. \A h \in Handlers : Is(pr[h]) => pr[h].stage # "begun"
    BY <1>4 DEF UnlockBegins, Locks, Running
  <2>2. Fresh(Handler("begun", 0, None))
    BY DEF Fresh, Handler
  <2>3. AllFresh(pr')
    BY <1>4, <2>1, <2>2, OutdatedFresh, OutdatedType, PutFresh DEF UnlockBegins, Handlers
  <2> QED BY <1>4, <2>3 DEF UnlockBegins, Locks, Generations, LockHolds, Is
<1>5. CASE UnlockGoesOn
  <2>1. Fresh([pr["unlock"] EXCEPT !.stage = "metadata", !.live = TRUE])
    BY <1>5, Known DEF UnlockGoesOn, Running, Handlers, Underway, Fresh, AllFresh, Generations
  <2>2. AllFresh([pr EXCEPT !["unlock"] = [pr["unlock"] EXCEPT !.stage = "metadata", !.live = TRUE]])
    BY <2>1, PutFresh DEF Generations, Handlers
  <2>3. pr' = [pr EXCEPT !["unlock"] = [pr["unlock"] EXCEPT !.stage = "metadata", !.live = TRUE]]
    BY <1>5 DEF UnlockGoesOn, TakesGeneration, AllRunning, Handlers
  <2>4. \A o \in Handlers \ {"unlock"} : pr'[o] = pr[o]
    BY <2>3 DEF AllRunning
  <2>5. pr'["unlock"].stage = "metadata"
    <3>1. pr["unlock"] \in Underway
      BY <1>5, Known DEF UnlockGoesOn, Running, Handlers
    <3>2. [pr["unlock"] EXCEPT !.stage = "metadata", !.live = TRUE].stage = "metadata"
      BY <3>1 DEF Underway
    <3> QED BY <2>3, <3>2 DEF TypeOK, HandlersOK, AllRunning, Handlers
  <2> QED BY <1>5, <2>2, <2>3, <2>5 DEF UnlockGoesOn, Generations, LockHolds, Running
<1>6. CASE UnlockFails
  BY <1>6, EndsFresh, EndsAt DEF UnlockFails, Generations, LockHolds, Running, Handlers, Is
<1>7. CASE UnlockMetadata
  <2>1. CASE Accepted
    <3>1. Fresh([pr["unlock"] EXCEPT !.stage = "file", !.key = srv.env, !.env = srv.env])
      BY <1>7, Known DEF UnlockMetadata, Running, Handlers, Underway, Fresh, AllFresh, Generations, Is
    <3>2. pr' = [pr EXCEPT !["unlock"] = [pr["unlock"] EXCEPT !.stage = "file", !.key = srv.env, !.env = srv.env]]
      BY <1>7, <2>1 DEF UnlockMetadata, AllRunning, Handlers
    <3>3. AllFresh(pr')
      BY <3>1, <3>2, PutFresh DEF Generations, Handlers
    <3>4. pr'["unlock"].stage = "file"
      BY <1>7, <3>2, Known DEF UnlockMetadata, Running, Handlers, AllRunning, Underway
    <3> QED BY <1>7, <2>1, <3>3, <3>4 DEF UnlockMetadata, Generations, LockHolds, Running
  <2>2. CASE ~Accepted
    <3>1. \A h \in Handlers : Is(pr[h]) => pr[h].stage # "begun"
      BY <1>7, <2>2 DEF UnlockMetadata, Revoked, Locks, Running
    <3>2. AllFresh(Outdated(Ends("unlock")))
      BY <3>1, EndsAt, EndsType, OutdatedFresh DEF Handlers, Is
    <3> QED BY <1>7, <2>2, <3>2 DEF UnlockMetadata, Revoked, Locks, Generations, LockHolds, Is
  <2> QED BY <2>1, <2>2
<1>8. CASE UnlockFile
  <2>1. CASE Locks /\ pr' = Outdated(Ends("unlock"))
    <3>1. \A h \in Handlers : Is(pr[h]) => pr[h].stage # "begun"
      BY <2>1 DEF Locks, Running
    <3>2. AllFresh(Outdated(Ends("unlock")))
      BY <3>1, EndsAt, EndsType, OutdatedFresh DEF Handlers, Is
    <3> QED BY <2>1, <3>2 DEF Locks, Generations, LockHolds, Is
  <2>2. CASE open' = open /\ sess' = sess /\ pr' = [pr EXCEPT !["unlock"].stage = "store", !["unlock"].id = Free]
    <3>1. Fresh([pr["unlock"] EXCEPT !.stage = "store", !.id = Free])
      BY <1>8, Known DEF UnlockFile, Running, Handlers, Underway, Fresh, AllFresh, Generations, Is
    <3>2. AllFresh(pr')
      <4>1. AllFresh([pr EXCEPT !["unlock"] = [pr["unlock"] EXCEPT !.stage = "store", !.id = Free]])
        BY <3>1, PutFresh DEF Generations, Handlers
      <4> QED BY <2>2, <4>1
    <3>4. pr'["unlock"].stage = "store"
      BY <1>8, <2>2, Known DEF UnlockFile, Running, Handlers, AllRunning, Underway
    <3> QED BY <1>8, <2>2, <3>2, <3>4 DEF UnlockFile, Generations, LockHolds, Running
  <2>3. CASE open' = open /\ sess' = sess /\ pr' = Ends("unlock")
    BY <1>8, <2>3, EndsFresh, EndsAt DEF UnlockFile, Generations, LockHolds, Running, Handlers
  <2> QED BY <1>8, <2>1, <2>2, <2>3 DEF UnlockFile, Revoked
<1>9. CASE UnlockStores
  <2>1. pr["unlock"] \in Underway /\ AllFresh(pr')
    BY <1>9, Known, GoesFresh DEF UnlockStores, Running, Handlers, Stages, Holding, Generations
  <2>2. pr'["unlock"].stage = "check" /\ Is(pr'["unlock"]) /\ pr'["unlock"].late = pr["unlock"].late
    BY <1>9, GoesAt DEF UnlockStores, Running, Handlers, Stages, Holding
  <2>3. sess'.late = pr["unlock"].late
    BY <1>9 DEF UnlockStores
  <2> QED BY <1>9, <2>1, <2>2, <2>3 DEF UnlockStores, Generations, LockHolds, Running
<1>10. CASE UnlockEnds
  <2>1. AllFresh(pr')
    BY <1>10, EndsFresh, GoesFresh DEF UnlockEnds, Running, Handlers, Stages, Holding, Generations
  <2>2. pr["unlock"].live => ~pr["unlock"].late
    BY <1>10 DEF UnlockEnds, Running, Handlers, Generations, AllFresh, Fresh
  <2>3. CASE pr["unlock"].live
    <3>1. ~open'.late /\ sess' = sess
      BY <1>10, <2>2, <2>3 DEF UnlockEnds, Commits
    <3> QED BY <1>10, <2>1, <2>2, <2>3, <3>1, EndsAt, GoesAt DEF UnlockEnds, Generations, LockHolds, Running, Handlers, Is, Stages, Holding
  <2>4. CASE ~pr["unlock"].live
    <3>1. open' = open /\ ~Is(sess')
      BY <1>10, <2>4 DEF UnlockEnds, Commits, Is
    <3> QED BY <2>1, <3>1 DEF Generations, LockHolds
  <2> QED BY <2>3, <2>4
<1>11. ASSUME NEW fill \in BOOLEAN, ReadBegins(fill) PROVE Generations'
  <2>1. Fresh(Handler("begun", sess.key, fill))
    BY DEF Fresh, Handler
  <2>2. AllFresh(pr')
    BY <1>11, <2>1, PutFresh DEF ReadBegins, Generations, Handlers
  <2>3. pr'["unlock"] = pr["unlock"]
    BY <1>11 DEF ReadBegins, AllRunning, Handlers
  <2> QED BY <1>11, <2>2, <2>3 DEF ReadBegins, Generations, LockHolds, Running
<1>12. ASSUME NEW e \in Mine \ landed, SaveBegins(e) PROVE Generations'
  <2>1. Fresh(Handler("begun", sess.key, e))
    BY DEF Fresh, Handler
  <2>2. AllFresh(pr')
    BY <1>12, <2>1, PutFresh DEF SaveBegins, Generations, Handlers
  <2>3. pr'["unlock"] = pr["unlock"]
    BY <1>12 DEF SaveBegins, AllRunning, Handlers
  <2> QED BY <1>12, <2>2, <2>3 DEF SaveBegins, Generations, LockHolds, Running
<1>13. ASSUME NEW h \in Ensures, EnsureGoesOn(h) PROVE Generations'
  <2>1. h \in Handlers \ {"unlock"} /\ pr[h] \in Underway /\ ~pr[h].late
    BY <1>13, Known DEF EnsureGoesOn, Running, Handlers, Ensures, Generations, AllFresh, Fresh
  <2>2. (\A o \in Handlers \ {h} : pr'[o] = pr[o]) /\ pr'[h].late = pr[h].late
    BY <1>13, <2>1 DEF EnsureGoesOn, TakesGeneration, AllRunning, Underway
  <2>3. AllFresh(pr')
    BY <2>1, <2>2 DEF Generations, AllFresh, Fresh
  <2> QED BY <1>13, <2>1, <2>2, <2>3 DEF EnsureGoesOn, Generations, LockHolds, Running, Handlers
<1>14. ASSUME NEW g \in 1..3, Reopens(g) PROVE Generations'
  <2>1. CASE Locks /\ pr' = Outdated(LeftBy(Group(g)))
    <3>1. \A h \in Handlers : Is(pr[h]) => pr[h].stage # "begun"
      BY <2>1 DEF Locks, Running
    <3>2. AllFresh(Outdated(LeftBy(Group(g))))
      BY <3>1, LeftAt, LeftType, OutdatedFresh DEF Is
    <3> QED BY <2>1, <3>2 DEF Locks, Generations, LockHolds, Is
  <2> DEFINE found == [h \in Handlers |-> IF h \in Group(g)
                         THEN [pr[h] EXCEPT !.stage = "commit", !.id = Free, !.group = 0, !.key = 0] ELSE pr[h]]
  <2>2. ASSUME NEW h \in Handlers PROVE Fresh(found[h])
    <3>1. CASE h \in Group(g)
      <4>1. pr[h] \in Underway /\ Is(pr[h]) /\ pr[h].stage = "waits" /\ Fresh(pr[h])
        BY <3>1, Known DEF Group, Running, Generations, AllFresh
      <4> DEFINE r == [pr[h] EXCEPT !.stage = "commit", !.id = Free, !.group = 0, !.key = 0]
      <4>2. r.stage = "commit" /\ r.live = pr[h].live /\ r.late = pr[h].late
        BY <4>1 DEF Underway
      <4>3. found[h] = r
        BY <3>1
      <4> HIDE DEF found, r
      <4> QED BY <4>1, <4>2, <4>3 DEF Fresh
    <3>2. CASE h \notin Group(g)
      BY <3>2 DEF Generations, AllFresh
    <3> QED BY <3>1, <3>2
  <2>3. found["unlock"] = pr["unlock"]
    BY DEF Group, Ensures, Handlers
  <2> HIDE DEF found
  <2>4. CASE open' = open /\ sess' = sess /\ pr' = found
    BY <2>2, <2>3, <2>4 DEF Generations, LockHolds, Running, AllFresh
  <2>5. CASE open' = open /\ sess' = sess /\ pr' = LeftBy(Group(g))
    BY <2>5, LeftFresh, LeftAt DEF Generations, LockHolds, Running, Group, Ensures, Handlers
  <2> QED BY <1>14, <2>1, <2>4, <2>5, Zenon DEF Reopens, Revoked, found
<1>15. CASE ReadCommits
  <2>1. AllFresh(pr')
    BY <1>15, EndsFresh, GoesFresh DEF ReadCommits, Running, Handlers, Stages, Holding, Generations
  <2>2. pr["read"].live => ~pr["read"].late
    BY <1>15 DEF ReadCommits, Running, Handlers, Generations, AllFresh, Fresh
  <2>3. CASE pr["read"].live
    <3>1. ~open'.late /\ sess' = sess
      BY <1>15, <2>2, <2>3 DEF ReadCommits, Commits
    <3> QED BY <1>15, <2>1, <2>2, <2>3, <3>1, EndsAt, GoesAt DEF ReadCommits, Generations, LockHolds, Running, Handlers, Is, Stages, Holding
  <2>4. CASE ~pr["read"].live
    <3>1. open' = open /\ ~Is(sess')
      BY <1>15, <2>4 DEF ReadCommits, Commits, Is
    <3> QED BY <2>1, <3>1 DEF Generations, LockHolds
  <2> QED BY <2>3, <2>4
<1>16. CASE NoForm
  BY <1>16, EndsFresh, EndsAt DEF NoForm, Generations, LockHolds, Running, Handlers, Is
<1>17. CASE FillEnds
  BY <1>17, EndsFresh, EndsAt DEF FillEnds, Generations, LockHolds, Running, Handlers, Is
<1>18. ASSUME NEW page \in Pages, FillFrame(page) PROVE Generations'
  BY <1>18, EndsFresh, EndsAt, GoesFresh, GoesAt DEF FillFrame, Generations, LockHolds, Running, Handlers, Is, Stages, Empty
<1>19. ASSUME NEW login \in Logins, NEW page \in Pages, Probes(login, page) PROVE Generations'
  <2>1. (\A o \in Handlers \ {"read"} : pr'[o] = pr[o]) /\ pr'["read"].stage = "fill" /\ pr'["read"].live = pr["read"].live
    BY <1>19, Known DEF Probes, Running, Handlers, AllRunning, Underway
  <2>2. pr'["read"].late = pr["read"].late
    BY <1>19, Known DEF Probes, Running, Handlers, AllRunning, Underway
  <2>3. AllFresh(pr')
    BY <1>19, <2>1, <2>2 DEF Probes, Running, Generations, AllFresh, Fresh
  <2> QED BY <1>19, <2>1, <2>3 DEF Probes, Generations, LockHolds, Running, Handlers
<1>20. CASE SaveCommits
  <2>1. AllFresh(pr')
    BY <1>20, EndsFresh, GoesFresh DEF SaveCommits, Running, Handlers, Stages, Holding, Generations
  <2>2. pr["save"].live => ~pr["save"].late
    BY <1>20 DEF SaveCommits, Running, Handlers, Generations, AllFresh, Fresh
  <2>3. CASE pr["save"].live
    <3>1. ~open'.late /\ sess' = sess
      BY <1>20, <2>2, <2>3 DEF SaveCommits, Commits
    <3> QED BY <1>20, <2>1, <2>2, <2>3, <3>1, EndsAt, GoesAt DEF SaveCommits, Generations, LockHolds, Running, Handlers, Is, Stages, Holding
  <2>4. CASE ~pr["save"].live
    <3>1. open' = open /\ ~Is(sess')
      BY <1>20, <2>4 DEF SaveCommits, Commits, Is
    <3> QED BY <2>1, <3>1 DEF Generations, LockHolds
  <2> QED BY <2>3, <2>4
<1>21. CASE SaveAsks
  <2>1. (\A o \in Handlers \ {"save"} : pr'[o] = pr[o]) /\ pr'["save"].stage = "asked" /\ pr'["save"].live = pr["save"].live
    BY <1>21, Known DEF SaveAsks, Running, Handlers, AllRunning, Underway
  <2>2. pr'["save"].late = pr["save"].late
    BY <1>21, Known DEF SaveAsks, Running, Handlers, AllRunning, Underway
  <2>3. AllFresh(pr')
    BY <1>21, <2>1, <2>2 DEF SaveAsks, Running, Generations, AllFresh, Fresh
  <2> QED BY <1>21, <2>1, <2>3 DEF SaveAsks, Generations, LockHolds, Running, Handlers
<1>22. CASE SaveChecked
  <2>1. CASE Locks /\ pr' = Outdated(Ends("save"))
    <3>1. \A h \in Handlers : Is(pr[h]) => pr[h].stage # "begun"
      BY <2>1 DEF Locks, Running
    <3>2. AllFresh(Outdated(Ends("save")))
      BY <3>1, EndsAt, EndsType, OutdatedFresh DEF Handlers, Is
    <3> QED BY <2>1, <3>2 DEF Locks, Generations, LockHolds, Is
  <2>2. CASE open' = open /\ sess' = sess /\ pr' = Ends("save")
    BY <2>2, EndsFresh, EndsAt DEF Generations, LockHolds, Running, Handlers
  <2>3. CASE open' = open /\ sess' = sess /\ pr' = Goes("save", "made")
    <3>1. Is(pr["save"])
      BY <1>22 DEF SaveChecked, Running
    <3> QED BY <2>3, <3>1, GoesFresh, GoesAt DEF Generations, LockHolds, Running, Handlers, Stages, Holding
  <2> QED BY <1>22, <2>1, <2>2, <2>3, Zenon DEF SaveChecked, Revoked
<1>23. CASE SaveSends
  <2>1. pr["save"] \in Underway /\ Is(pr["save"]) /\ pr["save"].stage = "made"
    BY <1>23, Known DEF SaveSends, Running, Handlers
  <2>2. /\ \A o \in Handlers \ {"save"} : pr'[o] = pr[o]
        /\ Is(pr'["save"]) => pr'["save"].stage = "sent" /\ pr'["save"].live = pr["save"].live
    BY <1>23, <2>1 DEF SaveSends, Ends, Handlers, AllRunning, Underway, Is
  <2>3. Is(pr'["save"]) => pr'["save"].late = pr["save"].late
    BY <1>23, <2>1 DEF SaveSends, Ends, Handlers, AllRunning, Underway, Is
  <2>4. AllFresh(pr')
    BY <2>1, <2>2, <2>3 DEF Generations, AllFresh, Fresh
  <2>5. sess' = sess /\ open' \in {open, None}
    BY <1>23 DEF SaveSends, DropsCopy
  <2> QED BY <2>2, <2>4, <2>5 DEF Generations, LockHolds, Running, Handlers, Is
<1>24. CASE SaveArrives
  BY <1>24, GoesFresh, GoesAt DEF SaveArrives, Generations, LockHolds, Running, Handlers, Stages, Holding
<1>25. CASE SaveAccepted
  BY <1>25, EndsFresh, EndsAt DEF SaveAccepted, Generations, LockHolds, Running, Handlers, Is
<1>26. CASE SaveRefused
  <2>1. \A h \in Handlers : Is(pr[h]) => pr[h].stage # "begun"
    BY <1>26 DEF SaveRefused, Locks, Running
  <2>2. AllFresh(Outdated(Ends("save")))
    BY <2>1, EndsAt, EndsType, OutdatedFresh DEF Handlers, Is
  <2> QED BY <1>26, <2>2 DEF SaveRefused, Locks, Generations, LockHolds, Is
<1>27. CASE SaveDenied
  <2>1. \A h \in Handlers : Is(pr[h]) => pr[h].stage # "begun"
    BY <1>27 DEF SaveDenied, Revoked, Locks, Running
  <2>2. AllFresh(Outdated(Ends("save")))
    BY <2>1, EndsAt, EndsType, OutdatedFresh DEF Handlers, Is
  <2> QED BY <1>27, <2>2 DEF SaveDenied, Revoked, Locks, Generations, LockHolds, Is
<1>28. CASE SaveLost
  BY <1>28, EndsFresh, EndsAt DEF SaveLost, DropsCopy, Generations, LockHolds, Running, Handlers, Is
<1>29. CASE Pairs
  BY <1>29 DEF Pairs, Generations, LockHolds, Running
<1>30. CASE PairedTold
  <2>1. \A h \in Handlers : Is(pr[h]) => pr[h].stage # "begun"
    BY <1>30 DEF PairedTold, Locks, Running
  <2> QED BY <1>30, <2>1, OutdatedFresh DEF PairedTold, Locks, Generations, LockHolds, Is
<1>31. ASSUME NEW reached \in BOOLEAN, Unpairs(reached) PROVE Generations'
  <2>1. \A h \in Handlers : Is(pr[h]) => pr[h].stage # "begun"
    BY <1>31 DEF Unpairs, Locks, Running
  <2> QED BY <1>31, <2>1, OutdatedFresh DEF Unpairs, Locks, Generations, LockHolds, Is
<1>32. CASE OtherSaves
  BY <1>32 DEF OtherSaves, Generations, LockHolds, Running
<1>33. CASE OtherRotates
  BY <1>33 DEF OtherRotates, Generations, LockHolds, Running
<1>34. CASE DevicesEnded
  BY <1>34 DEF DevicesEnded, Generations, LockHolds, Running
<1>35. CASE StrayArrives
  BY <1>35 DEF StrayArrives, Generations, LockHolds, Running
<1>36. CASE UNCHANGED vars
  BY <1>36 DEF vars, Generations, LockHolds, Running, AllFresh
<1> QED
  BY <1>1, <1>2, <1>3, <1>4, <1>5, <1>6, <1>7, <1>8, <1>9, <1>10, <1>11, <1>12, <1>13, <1>14,
     <1>15, <1>16, <1>17, <1>18, <1>19, <1>20, <1>21, <1>22, <1>23, <1>24, <1>25, <1>26, <1>27, <1>28,
     <1>29, <1>30, <1>31, <1>32, <1>33, <1>34, <1>35, <1>36 DEF Next

\* An extension the server no longer accepts, or that was unpaired, holds no key and
\* no open vault, whatever unlock or download was under way (guarded, lock, commit).
THEOREM RevokedStaysLocked == Spec => []RevokedHoldsNoKey
<1>1. Init => Revocation
  BY DEF Init, Revocation, RevokedHoldsNoKey, NoneLive, Is
<1>2. TypeOK /\ Revocation /\ [Next]_vars => Revocation'
  BY RevocationStep
<1>3. Revocation => RevokedHoldsNoKey
  BY DEF Revocation
<1> QED BY <1>1, <1>2, <1>3, Typed, PTL DEF Spec

\* Work that began before a lock commits nothing after it, as long as no lock falls
\* between a request's first await and the generation it takes (commit, ensure).
THEOREM LocksHold == "lock" \in Careful => (Spec => []LockHolds)
<1> SUFFICES ASSUME "lock" \in Careful PROVE Spec => []LockHolds
  OBVIOUS
<1>1. Init => Generations
  BY DEF Init, Generations, LockHolds, AllFresh, Fresh, Running, Is
<1>2. TypeOK /\ Generations /\ [Next]_vars => Generations'
  BY GenerationsStep
<1>3. Generations => LockHolds
  BY DEF Generations
<1> QED BY <1>1, <1>2, <1>3, Typed, PTL DEF Spec

(* -------------------------------------------------- what a failed save leaves --- *)

\* A save at one of these stages; and the entry it put into the vault it was given.
Saving(p, stages) == Is(p["save"]) /\ p["save"].stage \in stages
Entry(p, i) == IF Saving(p, Uploading) /\ p["save"].id = i THEN {p["save"].login} ELSE {}

\* A copy holds what some version held, and the entry of the save it was given to; an
\* upload carries all its copy has, and no request reads while it is under way.
Phantoms ==
  /\ srv.content \subseteq landed
  /\ \A i \in Ids : Is(heap[i]) => heap[i].content \subseteq landed \union Entry(pr, i)
  /\ Saving(pr, {"sent"}) => heap[pr["save"].id].content \subseteq pr["save"].up.content
  /\ Saving(pr, {"accepted"}) => heap[pr["save"].id].content \subseteq landed
  /\ Saving(pr, Uploading \ {"made"}) => ~Is(pr["read"])

\* The vault an unlock downloaded is its own until it commits.
OwnCopy ==
  Is(pr["unlock"]) /\ pr["unlock"].id # 0 =>
    /\ \A h \in Ensures : Is(pr[h]) => pr[h].id # pr["unlock"].id
    /\ Is(open) => open.id # pr["unlock"].id

\* A step that leaves a save as it is, and starts no request beside its upload.
SaveSame ==
  /\ Saving(pr, Uploading) <=> Saving(pr', Uploading)
  /\ Saving(pr, Uploading) =>
       /\ pr'["save"].stage = pr["save"].stage /\ pr'["save"].id = pr["save"].id
       /\ pr'["save"].login = pr["save"].login /\ pr'["save"].up = pr["save"].up
       /\ Is(pr'["read"]) => Is(pr["read"])

\* The steps of a save that has its entry in the vault, and those that end one.
SaveSteps ==
  \/ SaveChecked \/ SaveSends \/ SaveArrives \/ SaveAccepted
  \/ SaveRefused \/ SaveDenied \/ SaveLost
  \/ \E restart \in BOOLEAN : WorkerStops(restart)

LEMMA SameElsewhere ==
  ASSUME pr'["save"] = pr["save"], Is(pr'["read"]) => Is(pr["read"]) \/ ~Saving(pr, Uploading)
  PROVE  SaveSame
BY DEF SaveSame, Saving

LEMMA SameOutdated ==
  ASSUME NEW p \in AllRunning, p["save"] = pr["save"], Is(p["read"]) => Is(pr["read"]), pr' = Outdated(p)
  PROVE  SaveSame
<1>1. "save" \in Handlers /\ "read" \in Handlers
  BY DEF Handlers
<1>2. (Is(pr'["save"]) <=> Is(pr["save"])) /\ (Is(pr'["read"]) => Is(pr["read"]))
  BY <1>1, OutdatedAt
<1>3. Is(pr["save"]) => /\ pr'["save"].stage = pr["save"].stage /\ pr'["save"].id = pr["save"].id
                        /\ pr'["save"].login = pr["save"].login /\ pr'["save"].up = pr["save"].up
  BY <1>1, OutdatedAt
<1> QED BY <1>2, <1>3 DEF SaveSame, Saving

\* Every other step leaves a save that has its entry in the vault as it is.
LEMMA SaveStays ==
  ASSUME "list" \in Careful, TypeOK, [Next]_vars PROVE SaveSame \/ SaveSteps
<1>0. pr \in AllRunning /\ {"unlock", "read", "save"} \subseteq Handlers /\ "unlock" # "save" /\ "read" # "save"
  BY DEF TypeOK, HandlersOK, Handlers
<1>1. CASE Lock \/ CheckDevice \/ PairedTold
  <2>1. pr' = Outdated(pr)
    BY <1>1 DEF Lock, CheckDevice, Revoked, PairedTold
  <2> QED BY <1>0, <2>1, SameOutdated
<1>2. ASSUME NEW reached \in BOOLEAN, Unpairs(reached) PROVE SaveSame
  <2>1. pr' = Outdated(pr)
    BY <1>2 DEF Unpairs
  <2> QED BY <1>0, <2>1, SameOutdated
<1>10. CASE UnlockGoesOn \/ UnlockFails \/ UnlockStores \/ UnlockEnds
  <2>1. pr'["save"] = pr["save"] /\ pr'["read"] = pr["read"]
    BY <1>0, <1>10 DEF UnlockGoesOn, UnlockFails, UnlockStores, UnlockEnds, AllRunning, Ends, Goes, TakesGeneration
  <2> QED BY <2>1, SameElsewhere
<1>11. CASE ReadCommits \/ NoForm \/ FillEnds
  <2>1. pr'["save"] = pr["save"] /\ Is(pr["read"])
    BY <1>0, <1>11 DEF ReadCommits, NoForm, FillEnds, Running, AllRunning, Ends, Goes
  <2> QED BY <2>1, SameElsewhere
<1>12. ASSUME NEW page \in Pages, FillFrame(page) PROVE SaveSame
  <2>1. pr'["save"] = pr["save"] /\ Is(pr["read"])
    BY <1>0, <1>12 DEF FillFrame, Running, AllRunning, Ends, Goes
  <2> QED BY <2>1, SameElsewhere
<1>13. ASSUME NEW login \in Logins, NEW page \in Pages, Probes(login, page) PROVE SaveSame
  <2>1. pr'["save"] = pr["save"] /\ Is(pr["read"])
    BY <1>0, <1>13 DEF Probes, Running, AllRunning
  <2> QED BY <2>1, SameElsewhere
<1>14. ASSUME NEW fill \in BOOLEAN, ReadBegins(fill) PROVE SaveSame
  <2>1. pr'["save"] = pr["save"] /\ ~Saving(pr, Uploading)
    BY <1>0, <1>14 DEF ReadBegins, AllRunning, Saving
  <2> QED BY <2>1, SameElsewhere
<1>3. CASE UnlockBegins
  <2>1. ~Is(pr["save"])
    BY <1>3 DEF UnlockBegins
  <2>2. pr'["save"] = Outdated(pr)["save"]
    BY <1>0, <1>3, OutdatedType DEF UnlockBegins, AllRunning
  <2>3. ~Is(pr'["save"])
    BY <1>0, <2>1, <2>2, OutdatedAt DEF Is
  <2> QED BY <2>1, <2>3 DEF SaveSame, Saving
<1>4. CASE UnlockMetadata
  <2>1. CASE pr' = Outdated(Ends("unlock"))
    <3>1. Ends("unlock")["save"] = pr["save"] /\ Ends("unlock")["read"] = pr["read"]
      BY <1>0, EndsAt
    <3> QED BY <1>0, <2>1, <3>1, EndsType, SameOutdated
  <2>2. CASE pr' = [pr EXCEPT !["unlock"].stage = "file", !["unlock"].key = srv.env, !["unlock"].env = srv.env]
    <3>1. pr'["save"] = pr["save"] /\ pr'["read"] = pr["read"]
      BY <1>0, <2>2 DEF AllRunning
    <3> QED BY <3>1, SameElsewhere
  <2> QED BY <1>4, <2>1, <2>2 DEF UnlockMetadata, Revoked
<1>5. CASE UnlockFile
  <2>1. CASE pr' = Outdated(Ends("unlock"))
    <3>1. Ends("unlock")["save"] = pr["save"] /\ Ends("unlock")["read"] = pr["read"]
      BY <1>0, EndsAt
    <3> QED BY <1>0, <2>1, <3>1, EndsType, SameOutdated
  <2>2. CASE pr' = [pr EXCEPT !["unlock"].stage = "store", !["unlock"].id = Free] \/ pr' = Ends("unlock")
    <3>1. pr'["save"] = pr["save"] /\ pr'["read"] = pr["read"]
      BY <1>0, <2>2 DEF AllRunning, Ends
    <3> QED BY <3>1, SameElsewhere
  <2> QED BY <1>5, <2>1, <2>2 DEF UnlockFile, Revoked
<1>6. CASE SaveCommits
  <2>1. pr' \in {Goes("save", "ask"), Ends("save")} /\ Is(pr["save"])
    BY <1>6 DEF SaveCommits, Running
  <2>2. ~Saving(pr', Uploading)
    BY <1>0, <2>1, GoesAt, EndsAt DEF Saving, Uploading, Stages, Holding, Is
  <2> QED BY <1>6, <2>2 DEF SaveSame, SaveCommits, Saving, Uploading, Running
<1>15. CASE SaveAsks
  <2>1. pr["save"] \in Underway
    BY <1>0, <1>15, Known DEF SaveAsks, Running
  <2>2. pr'["save"].stage = "asked"
    BY <1>0, <1>15, <2>1 DEF SaveAsks, AllRunning, Underway
  <2> QED BY <1>15, <2>2 DEF SaveSame, SaveAsks, Saving, Uploading, Running
<1>16. ASSUME NEW e \in Mine \ landed, SaveBegins(e) PROVE SaveSame
  <2>1. pr'["save"].stage = "begun"
    BY <1>0, <1>16 DEF SaveBegins, Handler, AllRunning
  <2> QED BY <1>16, <2>1 DEF SaveSame, SaveBegins, Saving, Uploading
<1>7. ASSUME NEW h \in Ensures, EnsureGoesOn(h) PROVE SaveSame
  <2>1. h \in Handlers /\ pr[h] \in Underway
    BY <1>7, Known DEF EnsureGoesOn, Running, Handlers, Ensures
  <2>2. (\A o \in Handlers \ {h} : pr'[o] = pr[o]) /\ pr'[h].stage \in {"commit", "waits"}
    BY <1>7, <2>1, <1>0 DEF EnsureGoesOn, TakesGeneration, AllRunning, Underway
  <2>3. CASE h = "save"
    BY <1>7, <2>2, <2>3 DEF SaveSame, Saving, Uploading, EnsureGoesOn, Running
  <2>4. CASE h = "read"
    <3>1. pr'["save"] = pr["save"] /\ Is(pr["read"])
      BY <1>0, <1>7, <2>2, <2>4 DEF EnsureGoesOn, Running
    <3> QED BY <3>1, SameElsewhere
  <2> QED BY <2>3, <2>4 DEF Ensures
<1>8. ASSUME NEW g \in 1..3, Reopens(g) PROVE SaveSame
  <2> DEFINE found == [h \in Handlers |-> IF h \in Group(g)
                         THEN [pr[h] EXCEPT !.stage = "commit", !.id = Free, !.group = 0, !.key = 0] ELSE pr[h]]
  <2>1. \A h \in Handlers : h \in Group(g) => Is(pr[h]) /\ pr[h].stage = "waits" /\ pr[h] \in Underway
    BY Known DEF Group, Running, Ensures, Handlers
  <2>2. \A h \in Handlers : IF h \in Group(g) THEN found[h].stage = "commit" ELSE found[h] = pr[h]
    BY <2>1 DEF Underway
  <2> HIDE DEF found
  <2>3. \/ pr' = LeftBy(Group(g)) \/ pr' = Outdated(LeftBy(Group(g))) \/ pr' = found
    BY <1>8, Zenon DEF Reopens, Revoked, found
  <2>4. CASE "save" \notin Group(g)
    <3>1. /\ LeftBy(Group(g))["save"] = pr["save"] /\ found["save"] = pr["save"]
          /\ (Is(LeftBy(Group(g))["read"]) => Is(pr["read"])) /\ (Is(found["read"]) => Is(pr["read"]))
      BY <1>0, <2>1, <2>2, <2>4, LeftAt DEF Is
    <3>2. CASE pr' = Outdated(LeftBy(Group(g)))
      BY <1>0, <3>1, <3>2, LeftType, SameOutdated
    <3>3. CASE pr' = LeftBy(Group(g)) \/ pr' = found
      BY <3>1, <3>3, SameElsewhere
    <3> QED BY <2>3, <3>2, <3>3
  <2>5. CASE "save" \in Group(g)
    <3>1. ~Saving(pr, Uploading)
      BY <1>0, <2>1, <2>5 DEF Saving, Uploading
    <3>2. ~Is(LeftBy(Group(g))["save"]) /\ ~Is(Outdated(LeftBy(Group(g)))["save"]) /\ found["save"].stage = "commit"
      BY <1>0, <2>2, <2>5, LeftAt, LeftType, OutdatedAt DEF Is
    <3>3. ~Saving(pr', Uploading)
      BY <2>3, <3>2 DEF Saving, Uploading
    <3> QED BY <3>1, <3>3 DEF SaveSame
  <2> QED BY <2>4, <2>5
<1>9. CASE \/ Pairs \/ OtherSaves \/ OtherRotates \/ DevicesEnded \/ StrayArrives \/ UNCHANGED vars
  <2>1. pr' = pr
    BY <1>9 DEF Pairs, OtherSaves, OtherRotates, DevicesEnded, StrayArrives, vars
  <2> QED BY <2>1, SameElsewhere
<1> QED
  BY <1>1, <1>2, <1>3, <1>4, <1>5, <1>6, <1>7, <1>8, <1>9, <1>10, <1>11, <1>12, <1>13, <1>14, <1>15, <1>16, Zenon
     DEF Next, SaveSteps

\* Every step lands what it puts on the server.
LEMMA LandedGrows ==
  ASSUME srv \in Server, srv.content \subseteq landed, [Next]_vars
  PROVE  srv'.content \subseteq landed' /\ landed \subseteq landed'
<1>1. CASE Lock \/ CheckDevice \/ UnlockBegins \/ UnlockGoesOn \/ UnlockFails \/ UnlockMetadata \/ UnlockFile
        \/ UnlockStores \/ UnlockEnds \/ ReadCommits \/ NoForm \/ FillEnds \/ SaveCommits \/ SaveAsks
  BY <1>1 DEF Lock, CheckDevice, UnlockBegins, UnlockGoesOn, UnlockFails, UnlockMetadata, UnlockFile,
     UnlockStores, UnlockEnds, ReadCommits, NoForm, FillEnds, SaveCommits, SaveAsks
<1>2. CASE SaveChecked \/ SaveSends \/ SaveAccepted \/ SaveRefused \/ SaveDenied \/ SaveLost \/ PairedTold \/ UNCHANGED vars
  BY <1>2 DEF SaveChecked, SaveSends, SaveAccepted, SaveRefused, SaveDenied, SaveLost, PairedTold, vars
<1>3. ASSUME NEW restart \in BOOLEAN, WorkerStops(restart) PROVE UNCHANGED <<srv, landed>>
  BY <1>3 DEF WorkerStops
<1>4. ASSUME NEW fill \in BOOLEAN, ReadBegins(fill) PROVE UNCHANGED <<srv, landed>>
  BY <1>4 DEF ReadBegins
<1>5. ASSUME NEW e \in Mine \ landed, SaveBegins(e) PROVE UNCHANGED <<srv, landed>>
  BY <1>5 DEF SaveBegins
<1>6. ASSUME NEW h \in Ensures, EnsureGoesOn(h) PROVE UNCHANGED <<srv, landed>>
  BY <1>6 DEF EnsureGoesOn
<1>7. ASSUME NEW g \in 1..3, Reopens(g) PROVE UNCHANGED <<srv, landed>>
  BY <1>7, Zenon DEF Reopens
<1>8. ASSUME NEW page \in Pages, FillFrame(page) PROVE UNCHANGED <<srv, landed>>
  BY <1>8 DEF FillFrame
<1>9. ASSUME NEW login \in Logins, NEW page \in Pages, Probes(login, page) PROVE UNCHANGED <<srv, landed>>
  BY <1>9 DEF Probes
<1>10. ASSUME NEW up, Commit(up) PROVE srv'.content \subseteq landed' /\ landed \subseteq landed'
  BY <1>10 DEF Commit, Server
<1>11. CASE SaveArrives
  BY <1>10, <1>11 DEF SaveArrives
<1>12. CASE StrayArrives
  BY <1>10, <1>12 DEF StrayArrives
<1>13. CASE Pairs \/ DevicesEnded \/ OtherRotates
  BY <1>13 DEF Pairs, DevicesEnded, OtherRotates, Server
<1>14. CASE OtherSaves
  BY <1>14 DEF OtherSaves, Server
<1>15. ASSUME NEW reached \in BOOLEAN, Unpairs(reached) PROVE srv'.content = srv.content /\ landed' = landed
  BY <1>15 DEF Unpairs, Server
<1> QED
  BY <1>1, <1>2, <1>3, <1>4, <1>5, <1>6, <1>7, <1>8, <1>9, <1>11, <1>12, <1>13, <1>14, <1>15 DEF Next

\* What a step leaves of the copies, but for the entry a checked save puts into one:
\* each copy with its content, none, or a download where nobody held any.
CopiesStay ==
  \A i \in Ids : \/ heap'[i] = None
                 \/ Is(heap[i]) /\ heap'[i].content = heap[i].content
                 \/ ~Held(i) /\ heap'[i].content = srv.content

LEMMA StayOrDownload ==
  ASSUME TypeOK,
         heap' = heap \/ Keeps \/ (heap' = Download(srv.file) /\ \E h \in Handlers : pr[h].id = 0)
  PROVE  CopiesStay
<1>0. heap \in AllCopies /\ srv \in Server /\ srv.file \in Nat
  BY DEF TypeOK, WorkerOK, OutsideOK, Server
<1>1. CASE heap' = heap
  BY <1>1 DEF CopiesStay, Is
<1>2. CASE Keeps
  BY <1>0, <1>2, KeepsAt DEF CopiesStay, Is
<1>3. ASSUME heap' = Download(srv.file), NEW h \in Handlers, pr[h].id = 0 PROVE CopiesStay
  <2>1. ~Held(Free)
    BY <1>3, FreeIsFree
  <2>2. \A i \in Ids : Held(i) => Is(heap[i])
    BY Absent DEF TypeOK, HeldOK, Is
  <2>3. \A i \in Ids : heap'[i] = IF i = Free THEN [ver |-> srv.ver, content |-> srv.content, key |-> srv.file]
                                  ELSE IF Held(i) THEN heap[i] ELSE None
    BY <1>0, <1>3, DownloadAt
  <2>4. \A i \in Ids : i = Free => heap'[i].content = srv.content
    BY <2>3
  <2> QED BY <2>1, <2>2, <2>3, <2>4 DEF CopiesStay
<1> QED BY <1>1, <1>2, <1>3

LEMMA CopiesKept == ASSUME TypeOK, [Next]_vars PROVE CopiesStay \/ SaveChecked
<1>1. CASE Lock \/ CheckDevice \/ UnlockBegins \/ UnlockGoesOn \/ UnlockFails \/ UnlockMetadata
        \/ UnlockStores \/ UnlockEnds \/ ReadCommits \/ NoForm \/ FillEnds \/ SaveCommits \/ SaveAsks
  <2>1. heap' = heap \/ Keeps
    BY <1>1 DEF Lock, CheckDevice, UnlockBegins, UnlockGoesOn, UnlockFails, UnlockMetadata,
       UnlockStores, UnlockEnds, ReadCommits, NoForm, FillEnds, SaveCommits, SaveAsks
  <2> QED BY <2>1, StayOrDownload
<1>2. CASE SaveSends \/ SaveArrives \/ SaveRefused \/ SaveDenied \/ SaveLost \/ PairedTold \/ UNCHANGED vars
  <2>1. heap' = heap \/ Keeps
    BY <1>2 DEF SaveSends, SaveArrives, SaveRefused, SaveDenied, SaveLost, PairedTold, vars
  <2> QED BY <2>1, StayOrDownload
<1>3. CASE Pairs \/ DevicesEnded \/ OtherRotates \/ OtherSaves \/ StrayArrives
  <2>1. heap' = heap
    BY <1>3 DEF Pairs, DevicesEnded, OtherRotates, OtherSaves, StrayArrives
  <2> QED BY <2>1, StayOrDownload
<1>4. CASE UnlockFile
  <2>1. pr["unlock"].id = 0 /\ "unlock" \in Handlers
    BY <1>4, Known DEF UnlockFile, Running, Handlers, Empty
  <2>2. heap' = heap \/ heap' = Download(srv.file)
    BY <1>4 DEF UnlockFile
  <2> QED BY <2>1, <2>2, StayOrDownload
<1>5. ASSUME NEW g \in 1..3, Reopens(g) PROVE CopiesStay
  <2>1. \E h \in Handlers : pr[h].id = 0
    BY <1>5, Known DEF Reopens, Group, Running, Ensures, Handlers, Empty
  <2>2. heap' = heap \/ heap' = Download(srv.file)
    BY <1>5, Zenon DEF Reopens
  <2> QED BY <2>1, <2>2, StayOrDownload
<1>6. CASE SaveAccepted
  <2>1. PICK i \in Ids : i = pr["save"].id /\ heap[i] \in Copy
    BY <1>6, Known DEF SaveAccepted, Running, Handlers, Holding
  <2>2. heap' = heap \/ heap' = [heap EXCEPT ![i].ver = pr["save"].up.ver + 1]
    BY <1>6, <2>1 DEF SaveAccepted
  <2>3. heap \in AllCopies
    BY DEF TypeOK, WorkerOK
  <2> QED BY <2>1, <2>2, <2>3, Absent DEF CopiesStay, AllCopies, Copy, Is
<1>7. ASSUME NEW restart \in BOOLEAN, WorkerStops(restart) PROVE CopiesStay
  BY <1>7 DEF WorkerStops, CopiesStay
<1>8. ASSUME NEW fill \in BOOLEAN, ReadBegins(fill) PROVE CopiesStay
  BY <1>8, StayOrDownload DEF ReadBegins
<1>9. ASSUME NEW e \in Mine \ landed, SaveBegins(e) PROVE CopiesStay
  BY <1>9, StayOrDownload DEF SaveBegins
<1>10. ASSUME NEW h \in Ensures, EnsureGoesOn(h) PROVE CopiesStay
  BY <1>10, StayOrDownload DEF EnsureGoesOn
<1>11. ASSUME NEW page \in Pages, FillFrame(page) PROVE CopiesStay
  BY <1>11, StayOrDownload DEF FillFrame
<1>12. ASSUME NEW login \in Logins, NEW page \in Pages, Probes(login, page) PROVE CopiesStay
  BY <1>12, StayOrDownload DEF Probes
<1>13. ASSUME NEW reached \in BOOLEAN, Unpairs(reached) PROVE CopiesStay
  BY <1>13, StayOrDownload DEF Unpairs
<1> QED
  BY <1>1, <1>2, <1>3, <1>4, <1>5, <1>6, <1>7, <1>8, <1>9, <1>10, <1>11, <1>12, <1>13, Zenon DEF Next

\* A step after which no handler has a vault that it did not have.
IdsKept == \A h \in Handlers : Is(pr'[h]) => Is(pr[h]) /\ pr'[h].id = pr[h].id
OpenKept == Is(open') => Is(open) /\ open'.id = open.id

LEMMA IdsOutdated ==
  ASSUME NEW p \in AllRunning, \A h \in Handlers : Is(p[h]) => Is(pr[h]) /\ p[h].id = pr[h].id, pr' = Outdated(p)
  PROVE  IdsKept
BY OutdatedAt DEF IdsKept

LEMMA IdsEnd ==
  ASSUME pr \in AllRunning, NEW h \in Handlers, pr' = Ends(h) \/ pr' = Outdated(Ends(h))
  PROVE  IdsKept
<1>1. \A o \in Handlers : Is(Ends(h)[o]) => Is(pr[o]) /\ Ends(h)[o].id = pr[o].id
  BY EndsAt DEF Is
<1> QED BY <1>1, EndsType, IdsOutdated DEF IdsKept

LEMMA IdsLeft ==
  ASSUME pr \in AllRunning, NEW hs, pr' = LeftBy(hs) \/ pr' = Outdated(LeftBy(hs))
  PROVE  IdsKept
<1>1. \A o \in Handlers : Is(LeftBy(hs)[o]) => Is(pr[o]) /\ LeftBy(hs)[o].id = pr[o].id
  BY LeftAt DEF Is
<1> QED BY <1>1, LeftType, IdsOutdated DEF IdsKept

\* Nobody takes an unlock's vault who did not have it: not from what is open, nor from
\* what a request holds, nor from the one place that was free.
LEMMA OwnStays ==
  ASSUME OwnCopy, pr \in AllRunning,
         Is(pr'["unlock"]) => Is(pr["unlock"]) /\ pr'["unlock"].id = pr["unlock"].id,
         \A h \in Ensures : Is(pr'[h]) => \/ pr'[h].id = 0
                                          \/ Is(pr[h]) /\ pr'[h].id = pr[h].id
                                          \/ Is(open) /\ pr'[h].id = open.id
                                          \/ ~Held(pr'[h].id),
         Is(open') => \/ Is(open) /\ open'.id = open.id
                      \/ \E h \in Ensures : Is(pr[h]) /\ open'.id = pr[h].id
  PROVE  OwnCopy'
<1>1. SUFFICES ASSUME Is(pr'["unlock"]), pr'["unlock"].id # 0
               PROVE  /\ \A h \in Ensures : Is(pr'[h]) => pr'[h].id # pr'["unlock"].id
                      /\ Is(open') => open'.id # pr'["unlock"].id
  BY DEF OwnCopy, Is
<1>2. Is(pr["unlock"]) /\ pr["unlock"].id = pr'["unlock"].id /\ Held(pr["unlock"].id)
  BY <1>1 DEF Held, Handlers
<1> QED BY <1>1, <1>2 DEF OwnCopy

LEMMA OwnKept ==
  ASSUME OwnCopy, pr \in AllRunning, IdsKept, OpenKept PROVE OwnCopy'
BY OwnStays DEF IdsKept, OpenKept, Ensures, Handlers

\* A request that commits opens the vault it holds.
LEMMA OwnCommits ==
  ASSUME OwnCopy, pr \in AllRunning, NEW h \in Ensures, Is(pr[h]), Commits(h), IdsKept
  PROVE  OwnCopy'
<1>1. Is(open') => \/ Is(open) /\ open'.id = open.id
                   \/ \E o \in Ensures : Is(pr[o]) /\ open'.id = pr[o].id
  BY DEF Commits
<1> QED BY <1>1, OwnStays DEF IdsKept, Ensures, Handlers

LEMMA OwnStep == TypeOK /\ OwnCopy /\ [Next]_vars => OwnCopy'
<1> SUFFICES ASSUME TypeOK, OwnCopy, [Next]_vars PROVE OwnCopy'
  OBVIOUS
<1>0. pr \in AllRunning /\ {"unlock", "read", "save"} \subseteq Handlers /\ Ensures = {"read", "save"}
  BY DEF TypeOK, HandlersOK, Handlers, Ensures
<1>1. CASE Lock \/ CheckDevice \/ PairedTold
  <2>1. pr' = Outdated(pr) /\ open' = None
    BY <1>1 DEF Lock, CheckDevice, Revoked, PairedTold, Locks
  <2> QED BY <1>0, <2>1, IdsOutdated, OwnKept DEF OpenKept, Is
<1>2. ASSUME NEW reached \in BOOLEAN, Unpairs(reached) PROVE OwnCopy'
  <2>1. pr' = Outdated(pr) /\ open' = None
    BY <1>2 DEF Unpairs, Locks
  <2> QED BY <1>0, <2>1, IdsOutdated, OwnKept DEF OpenKept, Is
<1>3. ASSUME NEW restart \in BOOLEAN, WorkerStops(restart) PROVE OwnCopy'
  BY <1>0, <1>3 DEF WorkerStops, OwnCopy, Is
<1>4. CASE UnlockBegins
  <2>1. pr'["unlock"].id = 0
    BY <1>0, <1>4, OutdatedType DEF UnlockBegins, Handler, AllRunning
  <2> QED BY <2>1 DEF OwnCopy
<1>5. CASE UnlockGoesOn \/ SaveAsks
  <2>1. Running("unlock", "begun") \/ Running("save", "ask")
    BY <1>5 DEF UnlockGoesOn, SaveAsks
  <2>2. IdsKept
    BY <1>0, <1>5, <2>1, Known DEF UnlockGoesOn, SaveAsks, IdsKept, Running, Is, AllRunning, Underway, TakesGeneration
  <2>3. open' = open
    BY <1>5 DEF UnlockGoesOn, SaveAsks
  <2> QED BY <1>0, <2>2, <2>3, OwnKept DEF OpenKept
<1>6. CASE UnlockFails \/ NoForm \/ FillEnds \/ SaveAccepted
  <2>1. open' = open /\ \E h \in Handlers : pr' = Ends(h)
    BY <1>0, <1>6 DEF UnlockFails, NoForm, FillEnds, SaveAccepted
  <2> QED BY <1>0, <2>1, IdsEnd, OwnKept DEF OpenKept
<1>7. CASE SaveLost \/ SaveRefused \/ SaveDenied
  <2>1. (open' = open \/ open' = None) /\ (pr' = Ends("save") \/ pr' = Outdated(Ends("save")))
    BY <1>7 DEF SaveLost, DropsCopy, SaveRefused, SaveDenied, Revoked, Locks
  <2> QED BY <1>0, <2>1, IdsEnd, OwnKept DEF OpenKept, Is
<1>8. CASE UnlockMetadata
  <2>1. CASE ~Accepted
    <3>1. open' = None /\ pr' = Outdated(Ends("unlock"))
      BY <1>8, <2>1 DEF UnlockMetadata, Revoked, Locks
    <3> QED BY <1>0, <3>1, IdsEnd, OwnKept DEF OpenKept, Is
  <2>2. CASE Accepted
    <3>1. IdsKept /\ open' = open
      BY <1>0, <1>8, <2>2, Known DEF UnlockMetadata, IdsKept, Running, AllRunning, Underway
    <3> QED BY <1>0, <3>1, OwnKept DEF OpenKept
  <2> QED BY <2>1, <2>2
<1>9. CASE UnlockFile
  <2>1. open' \in {open, None}
    BY <1>9 DEF UnlockFile, Revoked, Locks
  <2>2. CASE pr' = Ends("unlock") \/ pr' = Outdated(Ends("unlock"))
    BY <1>0, <2>1, <2>2, IdsEnd, OwnKept DEF OpenKept, Is
  <2>3. CASE open' = open /\ pr' = [pr EXCEPT !["unlock"].stage = "store", !["unlock"].id = Free]
    <3>1. ~Held(Free) /\ pr["unlock"] \in Underway
      BY <1>0, <1>9, Known, FreeIsFree DEF UnlockFile, Running, Empty
    <3>2. pr'["unlock"].id = Free /\ \A h \in Ensures : pr'[h] = pr[h]
      BY <1>0, <2>3, <3>1 DEF AllRunning, Underway
    <3> QED BY <1>0, <2>3, <3>1, <3>2 DEF OwnCopy, Held
  <2> QED BY <1>9, <2>2, <2>3 DEF UnlockFile, Revoked
<1>10. CASE UnlockStores
  <2>0. "check" \in Stages /\ Is(pr["unlock"]) /\ pr' = Goes("unlock", "check") /\ open' = open
    BY <1>10 DEF UnlockStores, Running, Stages, Holding
  <2> QED BY <1>0, <2>0, MovesOn, OwnKept DEF IdsKept, OpenKept
<1>11. CASE UnlockEnds
  <2>1. ~Is(pr'["unlock"])
    BY <1>0, <1>11, EndsAt DEF UnlockEnds, Is
  <2> QED BY <2>1 DEF OwnCopy
<1>12. ASSUME NEW fill \in BOOLEAN, ReadBegins(fill) PROVE OwnCopy'
  <2>1. pr'["read"].id = 0 /\ pr'["save"] = pr["save"] /\ pr'["unlock"] = pr["unlock"] /\ open' = open
    BY <1>0, <1>12 DEF ReadBegins, Handler, AllRunning
  <2> QED BY <1>0, <2>1, OwnStays
<1>13. ASSUME NEW e \in Mine \ landed, SaveBegins(e) PROVE OwnCopy'
  <2>1. pr'["save"].id = 0 /\ pr'["read"] = pr["read"] /\ pr'["unlock"] = pr["unlock"] /\ open' = open
    BY <1>0, <1>13 DEF SaveBegins, Handler, AllRunning
  <2> QED BY <1>0, <2>1, OwnStays
<1>14. ASSUME NEW h \in Ensures, EnsureGoesOn(h) PROVE OwnCopy'
  <2>1. h \in Handlers /\ pr[h] \in Underway /\ Is(pr[h])
    BY <1>0, <1>14, Known DEF EnsureGoesOn, Running
  <2>2. \A o \in Handlers \ {h} : pr'[o] = pr[o]
    BY <1>0, <1>14, <2>1 DEF EnsureGoesOn, TakesGeneration, AllRunning
  <2>3. (Is(open) /\ pr'[h].id = open.id) \/ pr'[h].id = pr[h].id
    BY <1>0, <1>14, <2>1 DEF EnsureGoesOn, TakesGeneration, AllRunning, Underway
  <2>4. open' = open /\ h # "unlock"
    BY <1>14 DEF EnsureGoesOn, Ensures
  <2> QED BY <1>0, <2>1, <2>2, <2>3, <2>4, OwnStays
<1>15. ASSUME NEW g \in 1..3, Reopens(g) PROVE OwnCopy'
  <2> DEFINE found == [h \in Handlers |-> IF h \in Group(g)
                         THEN [pr[h] EXCEPT !.stage = "commit", !.id = Free, !.group = 0, !.key = 0] ELSE pr[h]]
  <2>1. \A h \in Group(g) : pr[h] \in Underway /\ pr[h].id = 0 /\ h \in Ensures
    BY Known DEF Group, Running, Ensures, Handlers, Empty
  <2>2. \A h \in Handlers : IF h \in Group(g) THEN found[h].id = Free ELSE found[h] = pr[h]
    BY <2>1 DEF Underway
  <2> HIDE DEF found
  <2>3. open' \in {open, None}
    BY <1>15, Zenon DEF Reopens, Revoked, Locks
  <2>4. pr' = LeftBy(Group(g)) \/ pr' = Outdated(LeftBy(Group(g))) \/ (pr' = found /\ open' = open)
    BY <1>15, Zenon DEF Reopens, Revoked, Locks, found
  <2>5. CASE pr' = LeftBy(Group(g)) \/ pr' = Outdated(LeftBy(Group(g)))
    BY <1>0, <2>3, <2>5, IdsLeft, OwnKept DEF OpenKept, Is
  <2>6. CASE pr' = found /\ open' = open
    <3>1. \E h \in Handlers : pr[h].id = 0
      BY <1>0, <1>15, <2>1 DEF Reopens
    <3>2. ~Held(Free)
      BY <3>1, FreeIsFree
    <3>3. "unlock" \notin Group(g)
      BY <2>1 DEF Ensures
    <3>4. pr'["unlock"] = pr["unlock"]
      BY <1>0, <2>2, <2>6, <3>3
    <3>5. \A h \in Ensures : ~Held(pr'[h].id) \/ pr'[h] = pr[h]
      BY <1>0, <2>2, <2>6, <3>2
    <3> QED BY <1>0, <2>6, <3>4, <3>5, OwnStays
  <2> QED BY <2>4, <2>5, <2>6
<1>16. CASE ReadCommits
  <2>1. Is(pr["read"]) /\ Commits("read") /\ pr' \in {Goes("read", "probe"), Ends("read")}
    BY <1>16 DEF ReadCommits, Running
  <2>2. IdsKept
    BY <1>0, <2>1, MovesOn DEF IdsKept, Stages, Holding
  <2> QED BY <1>0, <2>1, <2>2, OwnCommits
<1>17. CASE SaveCommits
  <2>1. Is(pr["save"]) /\ Commits("save") /\ pr' \in {Goes("save", "ask"), Ends("save")}
    BY <1>17 DEF SaveCommits, Running
  <2>2. IdsKept
    BY <1>0, <2>1, MovesOn DEF IdsKept, Stages, Holding
  <2> QED BY <1>0, <2>1, <2>2, OwnCommits
<1>18. ASSUME NEW page \in Pages, FillFrame(page) PROVE OwnCopy'
  <2>1. Is(pr["read"]) /\ pr' \in {Goes("read", "filled"), Ends("read")} /\ open' = open
    BY <1>18 DEF FillFrame, Running
  <2>2. IdsKept
    BY <1>0, <2>1, MovesOn DEF IdsKept, Stages, Empty
  <2> QED BY <1>0, <2>1, <2>2, OwnKept DEF OpenKept
<1>19. ASSUME NEW login \in Logins, NEW page \in Pages, Probes(login, page) PROVE OwnCopy'
  <2>1. Is(pr["read"]) /\ pr["read"] \in Underway /\ open' = open
    BY <1>0, <1>19, Known DEF Probes, Running
  <2>2. pr'["read"].id = 0 /\ pr'["save"] = pr["save"] /\ pr'["unlock"] = pr["unlock"]
    BY <1>0, <1>19, <2>1 DEF Probes, AllRunning, Underway
  <2> QED BY <1>0, <2>1, <2>2, OwnStays
<1>20. CASE SaveChecked
  <2>1. (open' = open \/ open' = None) /\ Is(pr["save"])
    BY <1>20, Zenon DEF SaveChecked, Running, Revoked, Locks
  <2>2. pr' = Ends("save") \/ pr' = Outdated(Ends("save")) \/ pr' = Goes("save", "made")
    BY <1>20, Zenon DEF SaveChecked, Revoked
  <2>3. IdsKept
    BY <1>0, <2>1, <2>2, IdsEnd, MovesOn DEF IdsKept, Stages, Holding
  <2> QED BY <1>0, <2>1, <2>3, OwnKept DEF OpenKept, Is
<1>21. CASE SaveSends
  <2>1. pr["save"] \in Underway /\ Is(pr["save"]) /\ (open' = open \/ open' = None)
    BY <1>0, <1>21, Known DEF SaveSends, Running, DropsCopy
  <2>2. IdsKept
    BY <1>0, <1>21, <2>1, EndsAt DEF SaveSends, IdsKept, AllRunning, Underway, Is
  <2> QED BY <1>0, <2>1, <2>2, OwnKept DEF OpenKept, Is
<1>22. CASE SaveArrives
  <2>1. PICK s \in {"denied", "accepted", "refused"} : pr' = Goes("save", s)
    BY <1>22 DEF SaveArrives
  <2>2. Is(pr["save"]) /\ s \in Stages /\ open' = open
    BY <1>22 DEF SaveArrives, Running, Stages, Holding
  <2>3. IdsKept
    BY <1>0, <2>1, <2>2, MovesOn DEF IdsKept
  <2> QED BY <1>0, <2>2, <2>3, OwnKept DEF OpenKept
<1>23. CASE Pairs \/ OtherSaves \/ OtherRotates \/ DevicesEnded \/ StrayArrives \/ UNCHANGED vars
  <2>1. pr' = pr /\ open' = open
    BY <1>23 DEF Pairs, OtherSaves, OtherRotates, DevicesEnded, StrayArrives, vars
  <2> QED BY <1>0, <2>1, OwnKept DEF IdsKept, OpenKept
<1> QED
  BY <1>1, <1>2, <1>3, <1>4, <1>5, <1>6, <1>7, <1>8, <1>9, <1>10, <1>11, <1>12, <1>13, <1>14, <1>15, <1>16,
     <1>17, <1>18, <1>19, <1>20, <1>21, <1>22, <1>23, Zenon DEF Next

\* Nobody holds the vault of a save that ends, once the worker itself has let it go.
LEMMA NobodyHolds ==
  ASSUME TypeOK, OwnCopy, Is(pr["save"]), pr["save"].stage \in Holding, pr' = Ends("save") \/ pr' = Outdated(Ends("save")),
         ~Is(pr["read"]), Is(open') => open'.id # pr["save"].id
  PROVE  \A i \in Ids : i = pr["save"].id => ~Held(i)'
<1>0. pr \in AllRunning /\ {"unlock", "read", "save"} = Handlers
  BY DEF TypeOK, HandlersOK, Handlers
<1>1. pr["save"].id \in Ids
  BY <1>0, Known
<1>2. pr["save"].id # 0
  BY <1>1 DEF Ids
<1>3. IdsKept
  BY <1>0, IdsEnd
<1>4. ~Is(pr'["save"])
  BY <1>0, EndsAt, EndsType, OutdatedAt DEF Is
<1>5. \A h \in Handlers : Is(pr'[h]) => pr'[h].id # pr["save"].id
  BY <1>0, <1>2, <1>3, <1>4 DEF IdsKept, OwnCopy, Ensures
<1> QED BY <1>5 DEF Held

\* So what the save put there is gone with it.
LEMMA EndedPhantoms ==
  ASSUME TypeOK, Phantoms, UNCHANGED <<srv, landed>>, Keeps,
         \A i \in Ids : i = pr["save"].id => ~Held(i)', ~Is(pr'["save"])
  PROVE  Phantoms'
<1>1. \A i \in Ids : heap'[i] = IF Held(i)' THEN heap[i] ELSE None
  BY KeepsAt DEF TypeOK, WorkerOK
<1>2. \A i \in Ids : Is(heap'[i]) => heap'[i] = heap[i] /\ i # pr["save"].id
  BY <1>1 DEF Is
<1>3. \A i \in Ids : Is(heap'[i]) => heap'[i].content \subseteq landed'
  BY <1>2 DEF Phantoms, Entry
<1> QED BY <1>3 DEF Phantoms, Saving

LEMMA PhantomsStep ==
  ASSUME "list" \in Careful, TypeOK, OwnCopy, Phantoms, [Next]_vars PROVE Phantoms'
<1>0. /\ pr \in AllRunning /\ heap \in AllCopies /\ srv \in Server /\ "save" \in Handlers /\ "read" \in Handlers
      /\ Uploading \subseteq Stages /\ Uploading \subseteq Holding
  BY DEF TypeOK, OutsideOK, WorkerOK, HandlersOK, Handlers, Uploading, Stages, Holding
<1>1. srv'.content \subseteq landed' /\ landed \subseteq landed' /\ srv.content \subseteq landed
  BY <1>0, LandedGrows DEF Phantoms
<1>2. TypeOK'
  BY TypeStep
<1>3. Saving(pr, Uploading) => pr["save"].id \in Ids /\ Held(pr["save"].id)
  BY <1>0, Known DEF Saving, Held
<1>4. CASE SaveSame /\ CopiesStay
  <2>1. Saving(pr', Uploading) => heap'[pr["save"].id] # None
    <3> SUFFICES ASSUME Saving(pr', Uploading) PROVE heap'[pr["save"].id] # None
      OBVIOUS
    <3>1. PICK i \in Ids : i = pr["save"].id
      BY <1>3, <1>4 DEF SaveSame
    <3>2. Held(i)'
      BY <1>0, <1>4, <3>1 DEF SaveSame, Saving, Held
    <3>3. heap'[i] \in Copy
      BY <1>2, <3>2 DEF TypeOK, HeldOK
    <3> QED BY <3>1, <3>2, <3>3, Absent
  <2>2. Saving(pr', Uploading) => heap'[pr["save"].id].content = heap[pr["save"].id].content
    BY <1>3, <1>4, <2>1 DEF SaveSame, CopiesStay
  <2>3. \A i \in Ids : Entry(pr', i) = Entry(pr, i)
    BY <1>4 DEF Entry, SaveSame
  <2>4. \A i \in Ids : Is(heap'[i]) => heap'[i].content \subseteq landed' \union Entry(pr', i)
    <3> SUFFICES ASSUME NEW i \in Ids, Is(heap'[i]) PROVE heap'[i].content \subseteq landed' \union Entry(pr', i)
      OBVIOUS
    <3>1. heap'[i].content = srv.content \/ heap'[i].content \subseteq landed \union Entry(pr, i)
      BY <1>4 DEF CopiesStay, Phantoms, Is
    <3> QED BY <1>1, <2>3, <3>1
  <2>5. Saving(pr', {"sent"}) => heap'[pr'["save"].id].content \subseteq pr'["save"].up.content
    BY <1>4, <2>2 DEF SaveSame, Saving, Uploading, Phantoms
  <2>6. Saving(pr', {"accepted"}) => heap'[pr'["save"].id].content \subseteq landed'
    BY <1>1, <1>4, <2>2 DEF SaveSame, Saving, Uploading, Phantoms
  <2>7. Saving(pr', Uploading \ {"made"}) => ~Is(pr'["read"])
    BY <1>4 DEF SaveSame, Saving, Phantoms
  <2> QED BY <1>1, <2>4, <2>5, <2>6, <2>7 DEF Phantoms
<1>5. ASSUME NEW restart \in BOOLEAN, WorkerStops(restart) PROVE Phantoms'
  <2>1. ~Is(pr'["save"]) /\ \A i \in Ids : ~Is(heap'[i])
    BY <1>0, <1>5 DEF WorkerStops, Is
  <2> QED BY <1>1, <2>1 DEF Phantoms, Saving
<1>6. CASE SaveChecked
  <2>0. pr["save"].stage = "asked" /\ Is(pr["save"]) /\ pr["save"].id \in Ids /\ UNCHANGED <<srv, landed>>
    BY <1>0, <1>6, Known DEF SaveChecked, Running, Holding
  <2>1. CASE (pr' = Ends("save") \/ pr' = Outdated(Ends("save"))) /\ heap' = heap
    <3>1. ~Is(pr'["save"]) /\ ~Saving(pr, Uploading)
      BY <1>0, <2>0, <2>1, EndsAt, EndsType, OutdatedAt DEF Is, Saving, Uploading
    <3>2. \A i \in Ids : Entry(pr, i) = {}
      BY <3>1 DEF Entry
    <3> QED BY <1>1, <2>0, <2>1, <3>1, <3>2 DEF Phantoms, Saving
  <2>2. CASE /\ pr' = Goes("save", "made")
             /\ heap' = [heap EXCEPT ![pr["save"].id].content = @ \union {pr["save"].login}]
    <3>1. pr'["save"].stage = "made" /\ pr'["save"].id = pr["save"].id /\ pr'["save"].login = pr["save"].login /\ Is(pr'["save"])
      BY <1>0, <2>0, <2>2, GoesAt DEF Uploading
    <3>2. heap[pr["save"].id] \in Copy
      BY <1>0, <2>0, Known DEF Holding
    <3>3. heap'[pr["save"].id].content = heap[pr["save"].id].content \union {pr["save"].login}
      BY <1>0, <2>0, <2>2, <3>2 DEF AllCopies, Copy
    <3>4. \A i \in Ids : i # pr["save"].id => heap'[i] = heap[i]
      BY <1>0, <2>2 DEF AllCopies
    <3>5. \A i \in Ids : Entry(pr, i) = {} /\ (i = pr["save"].id => Entry(pr', i) = {pr["save"].login})
      BY <2>0, <3>1 DEF Entry, Saving, Uploading
    <3>6. \A i \in Ids : Is(heap[i]) => heap[i].content \subseteq landed
      BY <3>5 DEF Phantoms
    <3>7. \A i \in Ids : Is(heap'[i]) => heap'[i].content \subseteq landed' \union Entry(pr', i)
      BY <2>0, <3>2, <3>3, <3>4, <3>5, <3>6, Absent DEF Is
    <3> QED BY <1>1, <3>1, <3>7 DEF Phantoms, Saving
  <2> QED BY <1>6, <2>1, <2>2, Zenon DEF SaveChecked, Revoked
<1>7. CASE SaveSends
  <2>0. pr["save"].stage = "made" /\ Is(pr["save"]) /\ pr["save"].id \in Ids /\ UNCHANGED <<srv, landed>>
    BY <1>0, <1>7, Known DEF SaveSends, Running, Holding
  <2>1. CASE local.token = 0
    <3>1. pr' = Ends("save") /\ ~Is(pr["read"]) /\ Keeps /\ (Is(open') => open'.id # pr["save"].id)
      BY <1>7, <2>1 DEF SaveSends, DropsCopy, Is
    <3>2. (\A i \in Ids : i = pr["save"].id => ~Held(i)') /\ ~Is(pr'["save"])
      BY <1>0, <2>0, <3>1, NobodyHolds, EndsAt DEF Is, Uploading
    <3> QED BY <2>0, <3>1, <3>2, EndedPhantoms
  <2>2. CASE local.token # 0
    <3>1. PICK u : u = [ver |-> heap[pr["save"].id].ver, content |-> heap[pr["save"].id].content,
                        key |-> heap[pr["save"].id].key, token |-> local.token]
      OBVIOUS
    <3>2. pr' = [pr EXCEPT !["save"].stage = "sent", !["save"].up = u] /\ Keeps /\ ~Is(pr["read"])
      BY <1>7, <2>2, <3>1 DEF SaveSends
    <3>3. pr["save"] \in Underway /\ pr'["read"] = pr["read"]
      BY <1>0, <2>0, <3>2, Known DEF AllRunning
    <3>4. /\ pr'["save"].stage = "sent" /\ pr'["save"].up = u /\ Is(pr'["save"])
          /\ pr'["save"].id = pr["save"].id /\ pr'["save"].login = pr["save"].login
      BY <1>0, <1>2, <3>2, <3>3 DEF AllRunning, Underway, Is, None
    <3>5. \A i \in Ids : Is(heap'[i]) => heap'[i] = heap[i]
      BY <1>0, <3>2, KeepsAt DEF Is
    <3>6. \A i \in Ids : Entry(pr', i) = Entry(pr, i)
      BY <2>0, <3>4 DEF Entry, Saving, Uploading
    <3>7. \A i \in Ids : Is(heap'[i]) => heap'[i].content \subseteq landed' \union Entry(pr', i)
      BY <2>0, <3>5, <3>6 DEF Phantoms
    <3>8. \A i \in Ids : i = pr["save"].id => heap'[i] = heap[i]
      <4>1. \A i \in Ids : i = pr["save"].id => Held(i)'
        BY <1>0, <3>4 DEF Held
      <4> QED BY <1>0, <3>2, <4>1, KeepsAt
    <3>9. heap'[pr'["save"].id].content \subseteq pr'["save"].up.content
      BY <2>0, <3>1, <3>4, <3>8
    <3> QED BY <1>1, <3>2, <3>3, <3>4, <3>7, <3>9 DEF Phantoms, Saving
  <2> QED BY <2>1, <2>2
<1>8. CASE SaveArrives
  <2>0. /\ pr["save"].stage = "sent" /\ Is(pr["save"]) /\ pr["save"].id \in Ids /\ heap' = heap
        /\ Saving(pr, Uploading \ {"made"})
    BY <1>0, <1>8, Known DEF SaveArrives, Running, Holding, Saving, Uploading
  <2>1. PICK s \in {"denied", "accepted", "refused"} :
           pr' = Goes("save", s) /\ (s = "accepted" => landed' = landed \union pr["save"].up.content)
    BY <1>8 DEF SaveArrives, Commit
  <2>2. /\ pr'["save"].stage = s /\ pr'["save"].id = pr["save"].id /\ pr'["save"].login = pr["save"].login
        /\ Is(pr'["save"]) /\ pr'["read"] = pr["read"]
    BY <1>0, <2>0, <2>1, GoesAt DEF Uploading
  <2>3. \A i \in Ids : Entry(pr', i) = Entry(pr, i)
    BY <2>0, <2>2 DEF Entry, Saving, Uploading
  <2>4. \A i \in Ids : Is(heap'[i]) => heap'[i].content \subseteq landed' \union Entry(pr', i)
    BY <1>1, <2>0, <2>3 DEF Phantoms
  <2>5. heap[pr["save"].id].content \subseteq pr["save"].up.content
    BY <2>0 DEF Phantoms, Saving
  <2>6. s = "accepted" => heap'[pr'["save"].id].content \subseteq landed'
    BY <2>0, <2>1, <2>2, <2>5
  <2>7. ~Is(pr'["read"])
    BY <2>0, <2>2 DEF Phantoms
  <2> QED BY <1>1, <2>2, <2>4, <2>6, <2>7 DEF Phantoms, Saving
<1>9. CASE SaveAccepted
  <2>0. pr["save"].stage = "accepted" /\ Is(pr["save"]) /\ UNCHANGED <<srv, landed>> /\ pr' = Ends("save")
    BY <1>9 DEF SaveAccepted, Running
  <2>1. CopiesStay
    BY <1>9, CopiesKept DEF SaveAccepted, SaveChecked, Running
  <2>2. ~Is(pr'["save"])
    BY <1>0, <2>0, EndsAt DEF Is
  <2>3. \A i \in Ids : Is(heap[i]) => heap[i].content \subseteq landed
    BY <2>0 DEF Phantoms, Entry, Saving
  <2>4. \A i \in Ids : Is(heap'[i]) => heap'[i].content \subseteq landed'
    BY <1>1, <2>1, <2>3 DEF CopiesStay, Is
  <2> QED BY <1>1, <2>2, <2>4 DEF Phantoms, Saving
<1>10. CASE SaveRefused \/ SaveDenied \/ SaveLost
  <2>0. /\ pr["save"].stage \in Uploading \ {"made"} /\ Is(pr["save"]) /\ UNCHANGED <<srv, landed>> /\ Keeps
        /\ pr' = Ends("save") \/ pr' = Outdated(Ends("save"))
        /\ Is(open') => open'.id # pr["save"].id
    BY <1>10 DEF SaveRefused, SaveDenied, SaveLost, DropsCopy, Revoked, Locks, Running, Uploading, Is
  <2>1. ~Is(pr["read"]) /\ pr["save"].id \in Ids /\ pr["save"].stage \in Holding
    BY <1>0, <2>0, Known DEF Phantoms, Saving
  <2>2. \A i \in Ids : i = pr["save"].id => ~Held(i)'
    BY <2>0, <2>1, NobodyHolds
  <2>3. ~Is(pr'["save"])
    BY <1>0, <2>0, EndsAt, EndsType, OutdatedAt DEF Is
  <2> QED BY <2>0, <2>1, <2>2, <2>3, EndedPhantoms
<1>11. CASE ~SaveSteps
  BY <1>4, <1>11, SaveStays, CopiesKept DEF SaveSteps
<1> QED
  BY <1>5, <1>6, <1>7, <1>8, <1>9, <1>10, <1>11, Zenon DEF SaveSteps

\* The open vault shows no login the server never stored, but for the one being saved,
\* as long as nothing is asked of the worker while its upload is on its way: a failed
\* save leaves nothing that a list shows or a later save carries (saveLogin, ensure).
THEOREM FailedSavesVanish == "list" \in Careful => (Spec => []NoPhantom)
<1> SUFFICES ASSUME "list" \in Careful PROVE Spec => []NoPhantom
  OBVIOUS
<1>1. Init => OwnCopy /\ Phantoms
  BY DEF Init, OwnCopy, Phantoms, Saving, Is, Handlers, Ids
<1>2. TypeOK /\ (OwnCopy /\ Phantoms) /\ [Next]_vars => (OwnCopy /\ Phantoms)'
  BY OwnStep, PhantomsStep
<1>3. TypeOK /\ (OwnCopy /\ Phantoms) => NoPhantom
  <2> SUFFICES ASSUME TypeOK, Phantoms, Is(open)
               PROVE  heap[open.id].content \subseteq
                        landed \union (IF Is(pr["save"]) /\ pr["save"].id = open.id THEN {pr["save"].login} ELSE {})
    BY DEF NoPhantom
  <2>1. PICK i \in Ids : i = open.id
    BY DEF TypeOK, WorkerOK, Is
  <2>2. heap[i] \in Copy
    BY <2>1 DEF TypeOK, HeldOK, Held
  <2>3. heap[i].content \subseteq landed \union Entry(pr, i)
    BY <2>2, Absent DEF Phantoms, Is
  <2> QED BY <2>1, <2>3 DEF Entry, Saving
<1> QED BY <1>1, <1>2, <1>3, Typed, PTL DEF Spec

====
