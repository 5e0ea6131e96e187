----------------------------- MODULE ServerProofs -----------------------------
(***************************************************************************)
(* Proofs about the parts of the server that share nothing but its process *)
(* and its directory: the sessions of an account (Sessions), the people of *)
(* a shared vault (SharedVaults), and the locks around the vault files     *)
(* (StoreLock).  Each is proved for every set of users and requests and    *)
(* any bounds.                                                             *)
(***************************************************************************)
EXTENDS Sessions, SharedVaults, StoreLock, SequenceTheorems, TLAPS

-----------------------------------------------------------------------------
(* Sessions: types, that no session an admitted logout names is live, that *)
(* a device's session is never without the device, that a session whose    *)
(* end was answered for does not return, and that a rotation ends the      *)
(* pairings its devices issued.                                            *)


-----------------------------------------------------------------------------
(* Types                                                                   *)

LEMMA CountTypes ==
    ASSUME SessionsTypeOK, NEW lost, NEW c \in Counters
    PROVE  /\ Charged(lost) \in [Counters -> Nat]
           /\ Counted(c, lost) \in [Counters -> Nat]
           /\ c # "pairings" => Counted(c, lost)["pairings"] = count["pairings"]
           /\ Counted("pairings", lost)["pairings"] = count["pairings"] + 1
           /\ Charged(lost)["pairings"] = count["pairings"]
  BY DEF SessionsTypeOK, Charged, Counted, Counters

LEMMA SaveTypes ==
    ASSUME SessionsTypeOK, NEW map, map \subseteq SessionSet, NEW lost, SaveSessions(map, lost)
    PROVE  file' \subseteq SessionSet /\ dirty' \in BOOLEAN
  BY DEF SessionsTypeOK, SaveSessions

LEMMA DeviceTypes ==
    ASSUME SessionsTypeOK, NEW kept \in SUBSET Nat, NEW lost, SaveDevices(kept, lost)
    PROVE  devFile' \subseteq Nat
  BY DEF SessionsTypeOK, SaveDevices

LEMMA PromisedTypes ==
    ASSUME SessionsTypeOK, NEW s, \A x \in s : x.id \in Nat, NEW by \in Causes
    PROVE  Promised(s, by) \subseteq [id : Nat, by : Causes]
  BY DEF SessionsTypeOK, Promised, Ids

LEMMA InitTypeOK == SessionsInit => SessionsTypeOK
  <1> SUFFICES ASSUME SessionsInit PROVE SessionsTypeOK
    OBVIOUS
  <1>1. count \in [Counters -> Nat]
    BY DEF SessionsInit
  <1>2. /\ clock \in Nat /\ dirty \in BOOLEAN /\ active \in BOOLEAN /\ leaving \in BOOLEAN
        /\ devs = {} /\ devFile = {} /\ envs = {}
    BY DEF SessionsInit
  <1>3. /\ logins = {} /\ tokens = {} /\ events = {} /\ unsaved = {} /\ live = {}
        /\ file = {} /\ starts = {} /\ codes = {} /\ redeems = {} /\ ended = {}
    BY DEF SessionsInit
  <1> QED BY <1>1, <1>2, <1>3 DEF SessionsTypeOK

(* A request of KySignOn's, and a login. *)
LEMMA LogoutTypes ==
    ASSUME SessionsTypeOK, NEW e \in tokens, Lapse(e) \/ DeliverLogout(e) \/ RedeliverLogout(e)
    PROVE  SessionsTypeOK'
  <1>1. CASE Lapse(e)
    BY <1>1 DEF Lapse, SessionsTypeOK, pairVars, userVars
  <1>2. CASE DeliverLogout(e)
    <2>1. PICK lost \in SUBSET {"sessions"} :
            /\ IF LoggedOut(e) = {} THEN UNCHANGED <<file, dirty>>
               ELSE SaveSessions(live \ LoggedOut(e), lost)
            /\ unsaved' = IF lost = {} THEN unsaved
                          ELSE unsaved \cup [by : {e}, id : Ids(LoggedOut(e))]
            /\ ended' = IF lost = {} THEN Promised(LoggedOut(e), "route") ELSE ended
            /\ count' = Charged(lost)
      BY <1>2 DEF DeliverLogout
    <2>2. LoggedOut(e) \subseteq live /\ live \subseteq SessionSet
      BY DEF LoggedOut, SessionsTypeOK
    <2>3. \A s \in SessionSet : s.id \in Nat
      BY DEF SessionSet
    <2>4. file' \subseteq SessionSet /\ dirty' \in BOOLEAN
      BY <2>1, <2>2, SaveTypes DEF SessionsTypeOK
    <2>5. events' = events \cup {e} /\ e \in Tokens
      BY <1>2 DEF DeliverLogout, SessionsTypeOK
    <2>6. Ids(LoggedOut(e)) \subseteq Nat
      BY <2>2, <2>3 DEF Ids
    <2>7. unsaved' \subseteq [by : events', id : Nat]
      BY <2>1, <2>5, <2>6 DEF SessionsTypeOK
    <2>8. ended' \subseteq [id : Nat, by : Causes]
      BY <2>1, <2>2, <2>3, PromisedTypes DEF SessionsTypeOK, Causes
    <2>9. count' \in [Counters -> Nat]
      BY <2>1, CountTypes DEF Counters
    <2> QED BY <1>2, <2>4, <2>5, <2>7, <2>8, <2>9 DEF DeliverLogout, SessionsTypeOK, userVars
  <1>3. CASE RedeliverLogout(e)
    <2>1. PICK lost \in SUBSET {"sessions"} :
            /\ IF dirty THEN SaveSessions(live, lost) ELSE UNCHANGED <<file, dirty>>
            /\ IF lost = {}
                 THEN /\ unsaved' = {u \in unsaved : u.by # e}
                      /\ ended' = Promised({u \in unsaved : u.by = e}, "route")
                 ELSE UNCHANGED <<unsaved, ended>>
            /\ count' = Charged(lost)
      BY <1>3 DEF RedeliverLogout
    <2>2. file' \subseteq SessionSet /\ dirty' \in BOOLEAN
      BY <2>1, SaveTypes DEF SessionsTypeOK
    <2>3. \A u \in unsaved : u.id \in Nat
      BY DEF SessionsTypeOK
    <2>4. ended' \subseteq [id : Nat, by : Causes]
      BY <2>1, <2>3, PromisedTypes DEF SessionsTypeOK, Causes
    <2>5. count' \in [Counters -> Nat]
      BY <2>1, CountTypes DEF Counters
    <2>6. events' = events /\ unsaved' \subseteq unsaved
      BY <1>3, <2>1 DEF RedeliverLogout
    <2> QED BY <1>3, <2>2, <2>4, <2>5, <2>6 DEF RedeliverLogout, SessionsTypeOK, pairVars, userVars
  <1> QED BY <1>1, <1>2, <1>3

(* A new session is well formed. *)
LEMMA NewSessionTypes ==
    ASSUME SessionsTypeOK, NEW id, id.sid \in Nat, id.iat \in Nat,
           NEW dev \in Nat, NEW from \in Nat, dev = 0 <=> from = 0
    PROVE  NewSession(id, dev, from) \in SessionSet
  <1>1. count["sessions"] + 1 \in Nat \ {0}
    BY DEF SessionsTypeOK, Counters
  <1> QED BY <1>1 DEF NewSession, SessionSet

LEMMA MintTypes ==
    ASSUME SessionsTypeOK, NEW s \in SessionSet, NEW lost, Mint(s, lost)
    PROVE  /\ live' \subseteq SessionSet
           /\ file' \subseteq SessionSet
           /\ dirty' \in BOOLEAN
           /\ count' \in [Counters -> Nat]
  <1>1. live \cup {s} \subseteq SessionSet
    BY DEF SessionsTypeOK
  <1>2. live' = live \cup {s} /\ SaveSessions(live \cup {s}, lost) /\ count' = Counted("sessions", lost)
    BY DEF Mint
  <1> QED BY <1>1, <1>2, SaveTypes, CountTypes DEF Counters

LEMMA RevokeTypes ==
    ASSUME SessionsTypeOK, NEW gone, NEW others, NEW lost, Revoke(gone, others, lost),
           UNCHANGED <<idpVars, starts, redeems, userVars>>, codes' \subseteq codes,
           count' = Charged(lost) \/ count' = Counted("rotations", lost),
           ended' \subseteq [id : Nat, by : Causes]
    PROVE  SessionsTypeOK'
  <1>1. live' \subseteq SessionSet
    BY DEF Revoke, SessionsTypeOK
  <1>2. file' \subseteq SessionSet /\ dirty' \in BOOLEAN
    BY <1>1, SaveTypes DEF Revoke
  <1>3. devs \ gone \in SUBSET Nat
    BY DEF SessionsTypeOK
  <1>4. devFile' \subseteq Nat
    BY <1>3, DeviceTypes DEF Revoke, SessionsTypeOK
  <1>5. devs' \subseteq Nat /\ envs' \subseteq Nat
    BY DEF Revoke, SessionsTypeOK
  <1>6. count' \in [Counters -> Nat]
    BY CountTypes DEF Counters
  <1> QED BY <1>1, <1>2, <1>4, <1>5, <1>6 DEF SessionsTypeOK, idpVars, userVars

(* The routes that end sessions. *)
LEMMA EndTypes ==
    ASSUME SessionsTypeOK,
           \/ \E s \in live : Logout(s) \/ EndSession(s)
           \/ \E d \in devs : RevokeDevice(d)
           \/ RevokeAll
    PROVE  SessionsTypeOK'
  <1>1. \A s \in live : s.id \in Nat
    BY DEF SessionsTypeOK, SessionSet
  <1>2. CASE \E s \in live : Logout(s)
    <2>1. PICK s \in live, lost \in SUBSET {"sessions"} :
            /\ live' = live \ {s}
            /\ SaveSessions(live \ {s}, lost)
            /\ ended' = IF lost = {} THEN Promised({s}, "route") ELSE ended
            /\ count' = Charged(lost)
            /\ UNCHANGED <<idpVars, devs, devFile, envs, pairVars, userVars>>
      BY <1>2 DEF Logout
    <2>2. live \ {s} \subseteq SessionSet
      BY DEF SessionsTypeOK
    <2>3. file' \subseteq SessionSet /\ dirty' \in BOOLEAN
      BY <2>1, <2>2, SaveTypes
    <2>4. ended' \subseteq [id : Nat, by : Causes]
      BY <1>1, <2>1, PromisedTypes DEF SessionsTypeOK, Causes
    <2>5. count' \in [Counters -> Nat]
      BY <2>1, CountTypes DEF Counters
    <2> QED BY <2>1, <2>2, <2>3, <2>4, <2>5 DEF SessionsTypeOK, idpVars, pairVars, userVars
  <1>3. \A gone : RevokedWith(gone) \subseteq live
    BY DEF RevokedWith
  <1>4. ASSUME NEW s \in live, EndSession(s) PROVE SessionsTypeOK'
    <2>1. ended' = ended \/ ended' = Promised({s}, "route")
      BY <1>4 DEF EndSession
    <2>2. ended' \subseteq [id : Nat, by : Causes]
      BY <1>1, <2>1, PromisedTypes DEF SessionsTypeOK, Causes
    <2> QED BY <1>4, <2>2, RevokeTypes DEF EndSession, pairVars
  <1>5. ASSUME NEW d \in devs, RevokeDevice(d) PROVE SessionsTypeOK'
    <2>1. ended' = ended \/ ended' = Promised(RevokedWith({d}), "route")
      BY <1>5 DEF RevokeDevice
    <2>2. ended' \subseteq [id : Nat, by : Causes]
      BY <1>1, <1>3, <2>1, PromisedTypes DEF SessionsTypeOK, Causes
    <2> QED BY <1>5, <2>2, RevokeTypes DEF RevokeDevice, pairVars
  <1>6. CASE RevokeAll
    <2>1. ended' = ended \/ ended' = Promised(RevokedWith(devs), "rotation")
      BY <1>6 DEF RevokeAll
    <2>2. ended' \subseteq [id : Nat, by : Causes]
      BY <1>1, <1>3, <2>1, PromisedTypes DEF SessionsTypeOK, Causes
    <2> QED BY <1>6, <2>2, RevokeTypes DEF RevokeAll
  <1> QED BY <1>2, <1>4, <1>5, <1>6

LEMMA PairingTypes ==
    ASSUME SessionsTypeOK,
           \/ \E s \in live : StartPairing(s)
           \/ \E o \in starts : CreateCode(o)
           \/ \E o \in codes : RedeemPairing(o)
           \/ \E r \in redeems : StartDeviceSession(r) \/ FinishRedeem(r)
    PROVE  SessionsTypeOK'
  <1>1. ASSUME NEW s \in live, StartPairing(s) PROVE SessionsTypeOK'
    <2> DEFINE o == [no |-> count["pairings"] + 1, sid |-> s.sid, iat |-> s.iat,
                     from |-> s.id, issuer |-> s.dev]
    <2>1. s \in SessionSet /\ count["pairings"] + 1 \in Nat \ {0}
      BY DEF SessionsTypeOK, Counters
    <2>2. starts' \subseteq Origins
      <3>1. o \in Origins
        BY <2>1 DEF Origins, SessionSet
      <3>2. starts' = starts \cup {o}
        BY <1>1 DEF StartPairing
      <3> QED BY <3>1, <3>2 DEF SessionsTypeOK
    <2>3. count' \in [Counters -> Nat]
      BY <1>1, CountTypes DEF StartPairing, Counters
    <2> QED BY <1>1, <2>2, <2>3 DEF StartPairing, SessionsTypeOK, idpVars, userVars
  <1>2. ASSUME NEW o \in starts, CreateCode(o) PROVE SessionsTypeOK'
    BY <1>2 DEF CreateCode, SessionsTypeOK, idpVars, userVars
  <1>3. ASSUME NEW o \in codes, RedeemPairing(o) PROVE SessionsTypeOK'
    <2>1. o \in Origins /\ o.no \in Nat
      BY DEF SessionsTypeOK, Origins
    <2>2. [origin |-> o, phase |-> "registered"] \in Redeems
      BY <2>1 DEF Redeems
    <2>3. count' \in [Counters -> Nat]
      BY <1>3, CountTypes DEF RedeemPairing, Counters, SessionsTypeOK
    <2>4. devs' \subseteq Nat /\ devFile' \subseteq Nat /\ redeems' \subseteq Redeems
      BY <1>3, <2>1, <2>2 DEF RedeemPairing, SessionsTypeOK
    <2> QED BY <1>3, <2>3, <2>4 DEF RedeemPairing, SessionsTypeOK, idpVars, userVars
  <1>4. ASSUME NEW r \in redeems, FinishRedeem(r) PROVE SessionsTypeOK'
    <2>1. r.origin.no \in Nat
      BY DEF SessionsTypeOK, Redeems, Origins
    <2> QED BY <1>4, <2>1 DEF FinishRedeem, SessionsTypeOK, idpVars, userVars
  <1>5. ASSUME NEW r \in redeems, StartDeviceSession(r) PROVE SessionsTypeOK'
    <2> DEFINE o == r.origin
               s == NewSession(o, o.no, o.from)
    <2>1. r \in Redeems /\ o \in Origins /\ o.no \in Nat
      BY DEF SessionsTypeOK, Redeems, Origins
    <2>2. CASE Pairable(o)
      <3>1. PICK lost : Mint(s, lost)
        BY <1>5, <2>2 DEF StartDeviceSession
      <3>2. s \in SessionSet
        BY <2>1, NewSessionTypes DEF Origins
      <3>3. [r EXCEPT !.phase = "minted"] \in Redeems
        BY <2>1 DEF Redeems
      <3>4. redeems' \subseteq Redeems /\ devs' = devs /\ devFile' = devFile
        BY <1>5, <2>2, <3>3 DEF StartDeviceSession, SessionsTypeOK
      <3>5. /\ live' \subseteq SessionSet /\ file' \subseteq SessionSet
            /\ dirty' \in BOOLEAN /\ count' \in [Counters -> Nat]
        BY <3>1, <3>2, MintTypes
      <3> QED BY <1>5, <3>4, <3>5 DEF StartDeviceSession, SessionsTypeOK, idpVars, userVars
    <2>3. CASE ~Pairable(o)
      <3>1. count' \in [Counters -> Nat]
        BY <1>5, <2>3, CountTypes DEF StartDeviceSession, SessionsTypeOK, Counters
      <3>2. /\ devs' \subseteq Nat /\ devFile' \subseteq Nat /\ redeems' \subseteq Redeems
            /\ live' = live /\ file' = file /\ dirty' = dirty
        BY <1>5, <2>3 DEF StartDeviceSession, SessionsTypeOK
      <3> QED BY <1>5, <3>1, <3>2 DEF StartDeviceSession, SessionsTypeOK, idpVars, userVars
    <2> QED BY <2>2, <2>3
  <1> QED BY <1>1, <1>2, <1>3, <1>4, <1>5

LEMMA StepTypeOK == SessionsTypeOK /\ [SessionsNext]_sessionsVars => SessionsTypeOK'
  <1> SUFFICES ASSUME SessionsTypeOK, [SessionsNext]_sessionsVars PROVE SessionsTypeOK'
    OBVIOUS
  <1>1. CASE BeginLogin
    BY <1>1, SessionsAssumption DEF BeginLogin, Issue, SessionsTypeOK, Tokens, pairVars, userVars
  <1>2. CASE IssueLogout
    BY <1>2, SessionsAssumption DEF IssueLogout, Issue, SessionsTypeOK, Tokens, pairVars, userVars
  <1>3. ASSUME NEW id \in logins, FinishLogin(id) PROVE SessionsTypeOK'
    <2>1. id.sid \in Nat /\ id.iat \in Nat
      BY DEF SessionsTypeOK, Tokens
    <2>2. CASE Admitted(id)
      <3>1. PICK lost : Mint(NewSession(id, 0, 0), lost)
        BY <1>3, <2>2 DEF FinishLogin
      <3>2. NewSession(id, 0, 0) \in SessionSet
        BY <2>1, NewSessionTypes
      <3> QED BY <1>3, <3>1, <3>2, MintTypes DEF FinishLogin, SessionsTypeOK, pairVars, userVars
    <2>3. CASE ~Admitted(id)
      BY <1>3, <2>3 DEF FinishLogin, SessionsTypeOK, pairVars, userVars
    <2> QED BY <2>2, <2>3
  <1>4. CASE RenameDevice
    BY <1>4 DEF RenameDevice, SessionsTypeOK, idpVars, pairVars, userVars
  <1>5. CASE RetrySave
    <2>1. file' \subseteq SessionSet /\ dirty' \in BOOLEAN
      BY <1>5, SaveTypes DEF RetrySave, SessionsTypeOK
    <2> QED BY <1>5, <2>1 DEF RetrySave, SessionsTypeOK, idpVars, pairVars, userVars
  <1>6. CASE SetActive \/ Deprovision
    <2>1. count' \in [Counters -> Nat]
      BY <1>6, CountTypes DEF SetActive, Deprovision, Deactivate, Counters, SessionsTypeOK
    <2> QED BY <1>6, <2>1 DEF SetActive, Deprovision, Deactivate, SessionsTypeOK, idpVars, pairVars
  <1>7. CASE RevokeDirectorySessions
    <2>1. PICK lost : SaveSessions({}, lost) /\ count' = Charged(lost)
      BY <1>7 DEF RevokeDirectorySessions
    <2>2. file' \subseteq SessionSet /\ dirty' \in BOOLEAN /\ count' \in [Counters -> Nat]
      BY <2>1, SaveTypes, CountTypes DEF Counters
    <2> QED BY <1>7, <2>2 DEF RevokeDirectorySessions, SessionsTypeOK, idpVars
  <1>8. CASE Restart
    <2>1. count' \in [Counters -> Nat]
      BY <1>8, CountTypes DEF Restart, Counters
    <2>2. file' \subseteq SessionSet /\ live' \subseteq SessionSet
      BY <1>8 DEF Restart, Loaded, SessionsTypeOK
    <2> QED BY <1>8, <2>1, <2>2 DEF Restart, SessionsTypeOK
  <1>9. CASE UNCHANGED sessionsVars
    BY <1>9 DEF sessionsVars, SessionsTypeOK
  <1> QED BY <1>1, <1>2, <1>3, <1>4, <1>5, <1>6, <1>7, <1>8, <1>9,
             LogoutTypes, EndTypes, PairingTypes DEF SessionsNext

(* The session map, its file, the devices, the pairings and the logout     *)
(* events keep their types, for any bounds and any failures.               *)
THEOREM SessionsTypesHold == SessionsSpec => []SessionsTypeOK
  BY InitTypeOK, StepTypeOK, PTL DEF SessionsSpec

-----------------------------------------------------------------------------
(* The logout fence                                                        *)

(* An insertion is admitted, so no event names it; every other step leaves *)
(* or shrinks the map, or admits an event and ends what it names.          *)
LEMMA FenceStep ==
    ASSUME LogoutHolds, [SessionsNext]_sessionsVars
    PROVE  LogoutHolds'
  <1>1. ASSUME live' \subseteq live, events' \subseteq events PROVE LogoutHolds'
    BY <1>1 DEF LogoutHolds, Matches
  <1>2. ASSUME NEW id, NEW dev, NEW from, NEW lost, Admitted(id),
               Mint(NewSession(id, dev, from), lost), events' = events
        PROVE  LogoutHolds'
    <2> DEFINE n == NewSession(id, dev, from)
    <2>1. live' = live \cup {n} /\ n.sid = id.sid /\ n.iat = id.iat
      BY <1>2 DEF Mint, NewSession
    <2>2. \A e \in events : ~Matches(e, n)
      BY <1>2, <2>1 DEF Admitted, Fenced, Matches
    <2> QED BY <1>2, <2>1, <2>2 DEF LogoutHolds, Matches
  <1>3. ASSUME NEW e \in tokens, Lapse(e) \/ DeliverLogout(e) \/ RedeliverLogout(e)
        PROVE  LogoutHolds'
    <2>1. CASE Lapse(e) \/ RedeliverLogout(e)
      BY <2>1, <1>1 DEF Lapse, RedeliverLogout
    <2>2. CASE DeliverLogout(e)
      <3>1. live' = {s \in live : ~Matches(e, s)} /\ events' = events \cup {e}
        BY <2>2 DEF DeliverLogout, LoggedOut
      <3> QED BY <3>1 DEF LogoutHolds, Matches
    <2> QED BY <1>3, <2>1, <2>2
  <1>4. ASSUME NEW id \in logins, FinishLogin(id) PROVE LogoutHolds'
    <2>1. CASE Admitted(id)
      BY <1>2, <1>4, <2>1 DEF FinishLogin
    <2>2. CASE ~Admitted(id)
      BY <1>1, <1>4, <2>2 DEF FinishLogin
    <2> QED BY <2>1, <2>2
  <1>5. ASSUME NEW r \in redeems, StartDeviceSession(r) PROVE LogoutHolds'
    <2>1. CASE Pairable(r.origin)
      BY <1>2, <1>5, <2>1 DEF StartDeviceSession, Pairable, idpVars
    <2>2. CASE ~Pairable(r.origin)
      BY <1>1, <1>5, <2>2 DEF StartDeviceSession, idpVars
    <2> QED BY <2>1, <2>2
  <1>6. CASE Restart
    <2>1. PICK stored : live' = Loaded(stored) /\ events' = events
      BY <1>6 DEF Restart
    <2> QED BY <2>1 DEF Loaded, Fenced, LogoutHolds, Matches
  <1>7. CASE \/ BeginLogin \/ IssueLogout \/ RenameDevice \/ RetrySave
             \/ SetActive \/ Deprovision \/ RevokeDirectorySessions \/ RevokeAll
             \/ \E s \in live : Logout(s) \/ EndSession(s) \/ StartPairing(s)
             \/ \E d \in devs : RevokeDevice(d)
             \/ \E o \in starts : CreateCode(o)
             \/ \E o \in codes : RedeemPairing(o)
             \/ \E r \in redeems : FinishRedeem(r)
             \/ UNCHANGED sessionsVars
    BY <1>1, <1>7 DEF BeginLogin, IssueLogout, RenameDevice, RetrySave, SetActive, Deprovision,
         RevokeDirectorySessions, RevokeAll, Logout, EndSession, StartPairing, RevokeDevice,
         CreateCode, RedeemPairing, FinishRedeem, Revoke, idpVars, sessionsVars
  <1> QED BY <1>3, <1>4, <1>5, <1>6, <1>7 DEF SessionsNext

(* applySSOLogout, startSession, startSessionWithToken and loadSessions    *)
(* together: while a logout is retained, no session it names is live.      *)
THEOREM LogoutFence == SessionsSpec => []LogoutHolds
  <1>1. SessionsInit => LogoutHolds
    BY DEF SessionsInit, LogoutHolds
  <1>2. LogoutHolds /\ [SessionsNext]_sessionsVars => LogoutHolds'
    BY FenceStep
  <1> QED BY <1>1, <1>2, PTL DEF SessionsSpec

-----------------------------------------------------------------------------
(* Devices                                                                 *)

(* Pairings that may yet give a device a session. *)
Waiting == {r.origin : r \in {q \in redeems : q.phase = "registered"}}
Pending == starts \cup codes \cup Waiting

(* A number is used by one pairing, in one stage of it. *)
NumbersOnce ==
    /\ starts \cap codes = {}
    /\ Waiting \cap (starts \cup codes) = {}
    /\ \A o, p \in Pending : o.no = p.no => o = p

(* Nobody has a number that is not used. *)
NumbersPast ==
    /\ \A o \in Pending : o.no <= count["pairings"]
    /\ \A s \in live \cup file : s.dev <= count["pairings"]

(* A device that waits for its session has none, so that unregistering it  *)
(* takes it from nobody.                                                   *)
NoneYet == \A o \in Pending, s \in live : s.dev # o.no

DeviceInv ==
    /\ SessionsTypeOK
    /\ NumbersOnce
    /\ NumbersPast
    /\ NoneYet
    /\ DevicesHoldSessions

LEMMA InitDeviceInv == SessionsInit => DeviceInv
  <1> SUFFICES ASSUME SessionsInit PROVE DeviceInv
    OBVIOUS
  <1>1. Pending = {} /\ Waiting = {} /\ starts = {} /\ codes = {} /\ live = {} /\ file = {}
    BY DEF SessionsInit, Pending, Waiting
  <1> QED BY <1>1, InitTypeOK DEF DeviceInv, NumbersOnce, NumbersPast, NoneYet, DevicesHoldSessions

(* Sessions end, pairings are dropped or move on, and a device goes only   *)
(* with its sessions.                                                      *)
LEMMA EndingStep ==
    ASSUME DeviceInv, live' \subseteq live, file' \subseteq live \cup file,
           starts' \cap codes' = {},
           starts' \cup codes' \subseteq starts \cup codes, Waiting' \subseteq Waiting,
           count'["pairings"] = count["pairings"],
           \A s \in live' : s.dev \in devs => s.dev \in devs'
    PROVE  /\ NumbersOnce' /\ NumbersPast' /\ NoneYet' /\ DevicesHoldSessions'
  <1>1. Pending' \subseteq Pending
    BY DEF Pending
  <1>2. NumbersOnce'
    BY <1>1 DEF DeviceInv, NumbersOnce
  <1>3. NumbersPast'
    BY <1>1 DEF DeviceInv, NumbersPast
  <1>4. NoneYet'
    BY <1>1 DEF DeviceInv, NoneYet
  <1>5. DevicesHoldSessions'
    BY DEF DeviceInv, DevicesHoldSessions
  <1> QED BY <1>2, <1>3, <1>4, <1>5

(* What the map and the file hold after a save. *)
LEMMA Saved ==
    ASSUME NEW map, NEW lost, SaveSessions(map, lost)
    PROVE  file' \subseteq map \cup file
  BY DEF SaveSessions

(* A session minted for no device, or for one that waited for it. *)
LEMMA MintStep ==
    ASSUME DeviceInv, NEW n \in SessionSet, NEW lost, Mint(n, lost),
           n.dev <= count["pairings"], n.dev # 0 => n.dev \in devs,
           starts' = starts, codes' = codes, Waiting' \subseteq Waiting,
           \A o \in Pending' : o.no # n.dev,
           devs' = devs
    PROVE  /\ NumbersOnce' /\ NumbersPast' /\ NoneYet' /\ DevicesHoldSessions'
  <1>1. live' = live \cup {n} /\ file' \subseteq live \cup {n} \cup file
    BY Saved DEF Mint
  <1>2. count'["pairings"] = count["pairings"]
    BY CountTypes DEF Mint, DeviceInv, Counters
  <1>3. Pending' \subseteq Pending
    BY DEF Pending
  <1>4. NumbersOnce'
    BY <1>3 DEF DeviceInv, NumbersOnce
  <1>5. NumbersPast'
    BY <1>1, <1>2, <1>3 DEF DeviceInv, NumbersPast
  <1>6. NoneYet'
    BY <1>1, <1>3 DEF DeviceInv, NoneYet
  <1>7. DevicesHoldSessions'
    BY <1>1 DEF DeviceInv, DevicesHoldSessions
  <1> QED BY <1>4, <1>5, <1>6, <1>7

LEMMA RevokeStep ==
    ASSUME DeviceInv, NEW gone, NEW others, NEW lost, Revoke(gone, others, lost),
           starts' = starts, codes' \subseteq codes, redeems' = redeems,
           count' = Charged(lost) \/ count' = Counted("rotations", lost)
    PROVE  /\ NumbersOnce' /\ NumbersPast' /\ NoneYet' /\ DevicesHoldSessions'
  <1>1. live' \subseteq live /\ file' \subseteq live \cup file
    BY Saved DEF Revoke
  <1>2. count'["pairings"] = count["pairings"]
    BY CountTypes DEF DeviceInv, Counters
  <1>3. \A s \in live' : s.dev \in devs => s.dev \in devs'
    BY DEF Revoke, RevokedWith
  <1>4. starts' \cap codes' = {} /\ starts' \cup codes' \subseteq starts \cup codes
    BY DEF DeviceInv, NumbersOnce
  <1>5. Waiting' = Waiting
    BY DEF Waiting
  <1> QED BY <1>1, <1>2, <1>3, <1>4, <1>5, EndingStep

LEMMA PairingStep ==
    ASSUME DeviceInv,
           \/ \E s \in live : StartPairing(s)
           \/ \E o \in starts : CreateCode(o)
           \/ \E o \in codes : RedeemPairing(o)
           \/ \E r \in redeems : StartDeviceSession(r) \/ FinishRedeem(r)
    PROVE  /\ NumbersOnce' /\ NumbersPast' /\ NoneYet' /\ DevicesHoldSessions'
  <1> USE DEF DeviceInv
  <1>1. ASSUME NEW s \in live, StartPairing(s)
        PROVE  /\ NumbersOnce' /\ NumbersPast' /\ NoneYet' /\ DevicesHoldSessions'
    <2> DEFINE P == count["pairings"]
    <2>1. PICK o : o.no = P + 1 /\ starts' = starts \cup {o}
      BY <1>1 DEF StartPairing
    <2>2. P \in Nat /\ count'["pairings"] = P + 1
      BY <1>1, CountTypes DEF StartPairing, SessionsTypeOK, Counters
    <2>3. /\ codes' = codes /\ live' = live /\ file' = file /\ devs' = devs
          /\ Waiting' = Waiting /\ Pending' = Pending \cup {o}
      BY <1>1, <2>1 DEF StartPairing, Pending, Waiting
    <2>4. \A p \in Pending : p.no \in Nat
      BY DEF Pending, Waiting, SessionsTypeOK, Redeems, Origins
    <2>5. \A x \in live \cup file : x.dev \in Nat
      BY DEF SessionsTypeOK, SessionSet
    <2>6. \A p \in Pending : p.no <= P
      BY DEF NumbersPast
    <2>7. \A x \in live \cup file : x.dev <= P
      BY DEF NumbersPast
    <2>8. \A p \in Pending : p.no # o.no
      BY <2>1, <2>2, <2>4, <2>6
    <2>9. NumbersOnce'
      <3>1. o \notin Pending
        BY <2>8
      <3>2. starts' \cap codes' = {} /\ Waiting' \cap (starts' \cup codes') = {}
        BY <2>1, <2>3, <3>1 DEF NumbersOnce, Pending
      <3>3. \A p, q \in Pending' : p.no = q.no => p = q
        BY <2>3, <2>8 DEF NumbersOnce
      <3> QED BY <3>2, <3>3 DEF NumbersOnce
    <2>10. NumbersPast'
      <3>1. \A p \in Pending' : p.no <= P + 1
        BY <2>1, <2>2, <2>3, <2>4, <2>6
      <3>2. \A x \in live \cup file : x.dev <= P + 1
        BY <2>2, <2>5, <2>7
      <3> QED BY <2>2, <2>3, <3>1, <3>2 DEF NumbersPast
    <2>11. \A x \in live : x.dev # o.no
      BY <2>1, <2>2, <2>5, <2>7
    <2>12. NoneYet' /\ DevicesHoldSessions'
      BY <2>3, <2>11 DEF NoneYet, DevicesHoldSessions
    <2> QED BY <2>9, <2>10, <2>12
  <1>2. ASSUME NEW o \in starts, CreateCode(o)
        PROVE  /\ NumbersOnce' /\ NumbersPast' /\ NoneYet' /\ DevicesHoldSessions'
    <2>1. /\ starts' = starts \ {o} /\ codes' = codes \cup {o} /\ live' = live /\ file' = file
          /\ redeems' = redeems /\ count' = count /\ devs' = devs
      BY <1>2 DEF CreateCode
    <2>2. starts' \cap codes' = {} /\ starts' \cup codes' = starts \cup codes
      BY <2>1 DEF NumbersOnce
    <2>3. Waiting' \subseteq Waiting
      BY <2>1 DEF Waiting
    <2> QED BY <2>1, <2>2, <2>3, EndingStep
  <1>3. ASSUME NEW o \in codes, RedeemPairing(o)
        PROVE  /\ NumbersOnce' /\ NumbersPast' /\ NoneYet' /\ DevicesHoldSessions'
    <2>1. /\ starts' = starts /\ codes' = codes \ {o} /\ live' = live /\ file' = file
          /\ devs \subseteq devs'
      BY <1>3 DEF RedeemPairing, idpVars
    <2>2. count'["pairings"] = count["pairings"]
      BY <1>3, CountTypes DEF RedeemPairing, Counters
    <2>3. Waiting' = Waiting \/ Waiting' = Waiting \cup {o}
      BY <1>3 DEF RedeemPairing, Waiting
    <2>4. Pending' \subseteq Pending
      BY <2>1, <2>3 DEF Pending
    <2>5. o \notin starts /\ o \notin codes'
      BY <2>1 DEF NumbersOnce
    <2>6. NumbersOnce'
      <3>1. starts' \cap codes' = {} /\ Waiting' \cap (starts' \cup codes') = {}
        BY <2>1, <2>3, <2>5 DEF NumbersOnce
      <3> QED BY <2>4, <3>1 DEF NumbersOnce
    <2>7. NumbersPast' /\ NoneYet' /\ DevicesHoldSessions'
      BY <2>1, <2>2, <2>4 DEF NumbersPast, NoneYet, DevicesHoldSessions
    <2> QED BY <2>6, <2>7
  <1>4. ASSUME NEW r \in redeems, FinishRedeem(r)
        PROVE  /\ NumbersOnce' /\ NumbersPast' /\ NoneYet' /\ DevicesHoldSessions'
    <2>1. /\ starts' = starts /\ codes' = codes /\ live' = live /\ file' = file
          /\ redeems' \subseteq redeems /\ count' = count /\ devs' = devs
      BY <1>4 DEF FinishRedeem
    <2>2. Waiting' \subseteq Waiting
      BY <2>1 DEF Waiting
    <2>3. starts' \cap codes' = {}
      BY <2>1 DEF NumbersOnce
    <2> QED BY <2>1, <2>2, <2>3, EndingStep
  <1>5. ASSUME NEW r \in redeems, StartDeviceSession(r)
        PROVE  /\ NumbersOnce' /\ NumbersPast' /\ NoneYet' /\ DevicesHoldSessions'
    <2> DEFINE o == r.origin
               n == NewSession(o, o.no, o.from)
    <2>1. r.phase = "registered" /\ starts' = starts /\ codes' = codes /\ o \in Waiting
      BY <1>5 DEF StartDeviceSession, Waiting
    <2>2. o \in Origins /\ o \in Pending
      BY <2>1 DEF SessionsTypeOK, Redeems, Pending
    <2>3. \A q \in redeems : q.phase = "registered" /\ q.origin = o => q = r
      BY <2>1 DEF SessionsTypeOK, Redeems
    <2>4. CASE Pairable(o)
      <3>1. PICK lost : Mint(n, lost)
        BY <1>5, <2>4 DEF StartDeviceSession
      <3>2. n \in SessionSet
        BY <2>2, NewSessionTypes DEF Origins
      <3>3. n.dev = o.no /\ o.no \in devs /\ devs' = devs
        BY <1>5, <2>4 DEF StartDeviceSession, Pairable, NewSession
      <3>4. n.dev <= count["pairings"]
        BY <2>2, <3>3 DEF NumbersPast
      <3>5. Waiting' \subseteq Waiting \ {o}
        <4> DEFINE m == [r EXCEPT !.phase = "minted"]
        <4>1. redeems' = (redeems \ {r}) \cup {m}
          BY <1>5, <2>4 DEF StartDeviceSession
        <4>2. m.phase # "registered"
          BY DEF SessionsTypeOK, Redeems
        <4>3. \A q \in redeems' : q.phase = "registered" => q \in redeems /\ q.origin # o
          BY <2>3, <4>1, <4>2
        <4> QED BY <4>3 DEF Waiting
      <3>6. o \notin Pending' /\ Pending' \subseteq Pending
        BY <2>1, <3>5 DEF Pending, NumbersOnce
      <3>7. \A p \in Pending' : p.no # n.dev
        BY <2>2, <3>3, <3>6 DEF NumbersOnce
      <3> QED BY <2>1, <3>1, <3>2, <3>3, <3>4, <3>5, <3>7, MintStep
    <2>5. CASE ~Pairable(o)
      <3>1. live' = live /\ file' = file /\ devs' = devs \ {o.no} /\ redeems' = redeems \ {r}
        BY <1>5, <2>5 DEF StartDeviceSession
      <3>2. count'["pairings"] = count["pairings"]
        BY <1>5, <2>5, CountTypes DEF StartDeviceSession, Counters
      <3>3. \A s \in live' : s.dev \in devs => s.dev \in devs'
        BY <2>2, <3>1 DEF NoneYet
      <3>4. Waiting' \subseteq Waiting
        BY <3>1 DEF Waiting
      <3>5. starts' \cap codes' = {}
        BY <2>1 DEF NumbersOnce
      <3> QED BY <2>1, <3>1, <3>2, <3>3, <3>4, <3>5, EndingStep
    <2> QED BY <2>4, <2>5
  <1> QED BY <1>1, <1>2, <1>3, <1>4, <1>5

LEMMA DeviceStep == DeviceInv /\ [SessionsNext]_sessionsVars => DeviceInv'
  <1> SUFFICES ASSUME DeviceInv, [SessionsNext]_sessionsVars
               PROVE  /\ NumbersOnce' /\ NumbersPast' /\ NoneYet' /\ DevicesHoldSessions'
    BY StepTypeOK DEF DeviceInv
  <1>1. starts \cap codes = {}
    BY DEF DeviceInv, NumbersOnce
  <1>2. \A id \in logins : id.sid \in Nat /\ id.iat \in Nat
    BY DEF DeviceInv, SessionsTypeOK, Tokens
  <1>3. ASSUME NEW e \in tokens, Lapse(e) \/ DeliverLogout(e) \/ RedeliverLogout(e)
        PROVE  /\ NumbersOnce' /\ NumbersPast' /\ NoneYet' /\ DevicesHoldSessions'
    <2>1. /\ starts' = starts /\ codes' \subseteq codes /\ redeems' = redeems /\ devs' = devs
          /\ live' \subseteq live
      BY <1>3 DEF Lapse, DeliverLogout, RedeliverLogout, pairVars
    <2>2. file' \subseteq live \cup file
      <3>1. LoggedOut(e) \subseteq live
        BY DEF LoggedOut
      <3> QED BY <1>3, <3>1, Saved DEF Lapse, DeliverLogout, RedeliverLogout
    <2>3. count'["pairings"] = count["pairings"]
      <3>1. count' = count \/ \E lost : count' = Charged(lost)
        BY <1>3 DEF Lapse, DeliverLogout, RedeliverLogout
      <3> QED BY <3>1, CountTypes DEF DeviceInv, Counters
    <2>4. Waiting' = Waiting
      BY <2>1 DEF Waiting
    <2> QED BY <1>1, <2>1, <2>2, <2>3, <2>4, EndingStep
  <1>4. ASSUME NEW id \in logins, FinishLogin(id)
        PROVE  /\ NumbersOnce' /\ NumbersPast' /\ NoneYet' /\ DevicesHoldSessions'
    <2>1. /\ starts' = starts /\ codes' = codes /\ redeems' = redeems /\ devs' = devs
      BY <1>4 DEF FinishLogin, pairVars
    <2>2. Waiting' = Waiting /\ Pending' = Pending
      BY <2>1 DEF Waiting, Pending
    <2>3. CASE Admitted(id)
      <3> DEFINE n == NewSession(id, 0, 0)
      <3>1. PICK lost : Mint(n, lost)
        BY <1>4, <2>3 DEF FinishLogin
      <3>2. n \in SessionSet /\ n.dev = 0
        BY <1>2, NewSessionTypes DEF NewSession, DeviceInv
      <3>3. \A o \in Pending : o.no # 0
        BY DEF Pending, Waiting, DeviceInv, SessionsTypeOK, Redeems, Origins
      <3>4. count["pairings"] \in Nat
        BY DEF DeviceInv, SessionsTypeOK, Counters
      <3> QED BY <2>1, <2>2, <3>1, <3>2, <3>3, <3>4, MintStep
    <2>4. CASE ~Admitted(id)
      BY <1>1, <1>4, <2>1, <2>2, <2>4, EndingStep DEF FinishLogin
    <2> QED BY <2>3, <2>4
  <1>5. ASSUME NEW s \in live, Logout(s)
        PROVE  /\ NumbersOnce' /\ NumbersPast' /\ NoneYet' /\ DevicesHoldSessions'
    <2>1. PICK lost : SaveSessions(live \ {s}, lost) /\ count' = Charged(lost)
      BY <1>5 DEF Logout
    <2>2. file' \subseteq live \cup file
      BY <2>1, Saved
    <2>3. count'["pairings"] = count["pairings"]
      BY <2>1, CountTypes DEF DeviceInv, Counters
    <2>4. Waiting' = Waiting
      BY <1>5 DEF Logout, pairVars, Waiting
    <2> QED BY <1>1, <1>5, <2>2, <2>3, <2>4, EndingStep DEF Logout, pairVars
  <1>6. CASE \/ \E s \in live : EndSession(s)
             \/ \E d \in devs : RevokeDevice(d)
             \/ RevokeAll
    BY <1>6, RevokeStep DEF EndSession, RevokeDevice, RevokeAll, pairVars
  <1>7. CASE BeginLogin \/ IssueLogout \/ RenameDevice \/ RetrySave \/ UNCHANGED sessionsVars
    <2>1. /\ UNCHANGED <<starts, codes, redeems, live, devs, count>>
          /\ file' \subseteq live \cup file
      BY <1>7, Saved DEF BeginLogin, IssueLogout, RenameDevice, RetrySave, pairVars, sessionsVars
    <2>2. Waiting' = Waiting
      BY <2>1 DEF Waiting
    <2> QED BY <1>1, <2>1, <2>2, EndingStep
  <1>8. CASE SetActive \/ Deprovision
    <2>1. UNCHANGED <<starts, codes, redeems, live, devs, file>>
      BY <1>8 DEF SetActive, Deprovision, pairVars
    <2>2. count'["pairings"] = count["pairings"]
      BY <1>8, CountTypes DEF SetActive, Deprovision, Deactivate, DeviceInv, Counters
    <2>3. Waiting' = Waiting
      BY <2>1 DEF Waiting
    <2> QED BY <1>1, <2>1, <2>2, <2>3, EndingStep
  <1>9. CASE RevokeDirectorySessions
    <2>1. PICK lost : SaveSessions({}, lost) /\ count' = Charged(lost)
      BY <1>9 DEF RevokeDirectorySessions
    <2>2. file' \subseteq live \cup file
      BY <2>1, Saved
    <2>3. count'["pairings"] = count["pairings"]
      BY <2>1, CountTypes DEF DeviceInv, Counters
    <2>4. Waiting' = Waiting
      BY <1>9 DEF RevokeDirectorySessions, Waiting
    <2> QED BY <1>9, <2>2, <2>3, <2>4, EndingStep DEF RevokeDirectorySessions
  <1>10. CASE Restart
    <2>1. PICK stored \in {file, IF dirty THEN live ELSE file} :
            file' = stored /\ live' = Loaded(stored)
      BY <1>10 DEF Restart
    <2>2. count'["pairings"] = count["pairings"]
      BY <1>10, CountTypes DEF Restart, DeviceInv, Counters
    <2>3. starts' = {} /\ codes' = {} /\ Pending' = {} /\ Waiting' = {}
      BY <1>10 DEF Restart, Pending, Waiting
    <2>4. live' \subseteq live \cup file /\ file' \subseteq live \cup file
      BY <2>1 DEF Loaded
    <2>5. NumbersPast'
      BY <2>2, <2>3, <2>4 DEF DeviceInv, NumbersPast
    <2>6. DevicesHoldSessions'
      BY <1>10, <2>1 DEF Restart, Loaded, DevicesHoldSessions
    <2> QED BY <2>3, <2>5, <2>6 DEF NumbersOnce, NoneYet
  <1> QED BY <1>3, <1>4, <1>5, <1>6, <1>7, <1>8, <1>9, <1>10, PairingStep DEF SessionsNext

(* startSessionWithToken, the revocations and loadSessions together: the   *)
(* device of a live session is registered, whatever writes fail and        *)
(* whenever the server restarts.                                           *)
THEOREM DeviceSessions == SessionsSpec => []DevicesHoldSessions
  <1>1. DeviceInv => DevicesHoldSessions
    BY DEF DeviceInv
  <1> QED BY <1>1, InitDeviceInv, DeviceStep, PTL DEF SessionsSpec

-----------------------------------------------------------------------------
(* Ends that were promised                                                 *)

(* A session's number is its own, in the map and in the file. *)
Numbered ==
    /\ \A s \in live \cup file : s.id <= count["sessions"]
    /\ \A s, t \in live \cup file : s.id = t.id => s = t

(* A stored session is not of a device that waits for one, and no device   *)
(* has the number that stands for none.                                    *)
Parted ==
    /\ \A s \in file, o \in Pending : s.dev # o.no
    /\ 0 \notin devs \cup devFile

(* A stored session that the server will not load again. *)
Over(s) == s.dev # 0 /\ s.dev \notin devs \cup devFile

(* EndedStaysEnded, and why a restart keeps it. *)
EndHolds ==
    \A p \in ended :
       /\ p.id \in 1 .. count["sessions"]
       /\ p.id \notin Ids(live)
       /\ \A s \in file : s.id = p.id => Over(s)

(* A redelivery that finds nothing dirty has the session's end on disk. *)
UnsavedGone ==
    \A u \in unsaved :
       /\ u.id \in 1 .. count["sessions"]
       /\ u.id \notin Ids(live)
       /\ ~dirty => u.id \notin Ids(file)

(* What a pairing remembers of the session that started it. *)
IssuersKnown ==
    \A o \in Pending :
       /\ o.from <= count["sessions"]
       /\ o.issuer <= count["pairings"]
       /\ \A p \in Pending : p.no # o.issuer
       /\ \A s \in live : s.id = o.from => s.dev = o.issuer

Rotated == {p.id : p \in {q \in ended : q.by = "rotation"}}

(* RotationEndsPairings, for what has yet to become a session: a pairing   *)
(* whose issuer's check will fail, and a stored session of a device that   *)
(* is not loaded.                                                          *)
PairingsEnd ==
    /\ \A o \in Pending : o.from \in Rotated => o.issuer # 0 /\ o.issuer \notin devs
    /\ \A s \in file : s.from \in Rotated => Over(s)
    /\ \A s \in live : s.from \notin Rotated

Ends == Numbered /\ Parted /\ EndHolds /\ UnsavedGone /\ IssuersKnown /\ PairingsEnd

EndInv == DeviceInv /\ Ends

LEMMA InitEndInv == SessionsInit => EndInv
  <1> SUFFICES ASSUME SessionsInit PROVE EndInv
    OBVIOUS
  <1>1. /\ Pending = {} /\ live = {} /\ file = {} /\ ended = {} /\ unsaved = {}
        /\ devs = {} /\ devFile = {}
    BY DEF SessionsInit, Pending, Waiting
  <1> QED BY <1>1, InitDeviceInv
          DEF EndInv, Ends, Numbered, Parted, EndHolds, UnsavedGone, IssuersKnown, PairingsEnd

LEMMA SessionCounts ==
    ASSUME SessionsTypeOK, NEW lost
    PROVE  /\ \A c \in Counters \ {"sessions"} :
                Counted(c, lost)["sessions"] = count["sessions"]
           /\ Counted("sessions", lost)["sessions"] = count["sessions"] + 1
           /\ Charged(lost)["sessions"] = count["sessions"]
  BY DEF SessionsTypeOK, Charged, Counted, Counters

LEMMA SessionTypes ==
    ASSUME SessionsTypeOK
    PROVE  /\ \A s \in live \cup file :
                 s.id \in Nat \ {0} /\ s.dev \in Nat /\ s.from \in Nat /\ (s.dev = 0 <=> s.from = 0)
           /\ \A o \in Pending :
                 o.no \in Nat \ {0} /\ o.from \in Nat \ {0} /\ o.issuer \in Nat
           /\ count["sessions"] \in Nat /\ count["pairings"] \in Nat
  <1>1. \A s \in live \cup file :
           s.id \in Nat \ {0} /\ s.dev \in Nat /\ s.from \in Nat /\ (s.dev = 0 <=> s.from = 0)
    BY DEF SessionsTypeOK, SessionSet
  <1>2. \A o \in Pending : o \in Origins
    BY DEF SessionsTypeOK, Pending, Waiting, Redeems
  <1>3. count["sessions"] \in Nat /\ count["pairings"] \in Nat
    BY DEF SessionsTypeOK, Counters
  <1> QED BY <1>1, <1>2, <1>3 DEF Origins

(* No session and no pairing comes, no device is registered; what is ended *)
(* now is gone from the map and will not be loaded.                        *)
LEMMA FewerStep ==
    ASSUME EndInv, live' \subseteq live,
           file' = live' \/ (file' = file /\ (dirty' \/ dirty' = dirty)),
           Pending' \subseteq Pending,
           count'["sessions"] = count["sessions"], count'["pairings"] = count["pairings"],
           devs' \subseteq devs, devFile' \subseteq devs \cup devFile,
           \A p \in ended' : p \notin ended =>
              /\ p.id \in 1 .. count["sessions"]
              /\ p.id \notin Ids(live')
              /\ \A s \in file' : s.id = p.id => Over(s)',
           \A u \in unsaved' : u \notin unsaved =>
              u.id \in 1 .. count["sessions"] /\ u.id \notin Ids(live') /\ dirty'
    PROVE  /\ Numbered' /\ Parted' /\ EndHolds' /\ UnsavedGone' /\ IssuersKnown'
           /\ Rotated' \subseteq Rotated => PairingsEnd'
  <1> USE DEF EndInv, Ends
  <1>1. file' \subseteq live \cup file /\ Ids(live') \subseteq Ids(live)
    BY DEF Ids
  <1>2. Numbered'
    BY <1>1 DEF Numbered
  <1>3. Parted'
    <2>1. \A s \in file', o \in Pending' : s.dev # o.no
      BY <1>1 DEF Parted, DeviceInv, NoneYet
    <2> QED BY <2>1 DEF Parted
  <1>4. \A s : Over(s) => Over(s)'
    BY DEF Over
  <1>5. \A s : s \in live => s.id \in Ids(live)
    BY DEF Ids
  <1>6. EndHolds'
    <2> SUFFICES ASSUME NEW p \in ended'
                 PROVE  /\ p.id \in 1 .. count["sessions"]
                        /\ p.id \notin Ids(live')
                        /\ \A s \in file' : s.id = p.id => Over(s)'
      BY DEF EndHolds, Ids
    <2>1. CASE p \in ended
      <3>1. p.id \in 1 .. count["sessions"] /\ p.id \notin Ids(live)
        BY <2>1 DEF EndHolds
      <3>2. \A s \in file' : s.id = p.id => s \in file
        BY <1>1, <1>5, <3>1
      <3>3. \A s \in file' : s.id = p.id => Over(s)'
        BY <1>4, <2>1, <3>2 DEF EndHolds
      <3> QED BY <1>1, <3>1, <3>3
    <2> QED BY <2>1
  <1>7. UnsavedGone'
    <2> SUFFICES ASSUME NEW u \in unsaved'
                 PROVE  /\ u.id \in 1 .. count["sessions"]
                        /\ u.id \notin Ids(live')
                        /\ ~dirty' => u.id \notin Ids(file')
      BY DEF UnsavedGone, Ids
    <2>1. CASE u \in unsaved
      <3>1. /\ u.id \in 1 .. count["sessions"] /\ u.id \notin Ids(live')
            /\ ~dirty => u.id \notin Ids(file)
        BY <1>1, <2>1 DEF UnsavedGone
      <3> QED BY <3>1
    <2> QED BY <2>1
  <1>8. IssuersKnown'
    BY DEF IssuersKnown
  <1>9. ASSUME Rotated' \subseteq Rotated PROVE PairingsEnd'
    <2>1. \A o \in Pending' : o.from \in Rotated' => o.issuer # 0 /\ o.issuer \notin devs'
      BY <1>9 DEF PairingsEnd
    <2>2. \A s \in file' : s.from \in Rotated' => Over(s)'
      BY <1>1, <1>4, <1>9 DEF PairingsEnd
    <2>3. \A s \in live' : s.from \notin Rotated'
      BY <1>9 DEF PairingsEnd
    <2> QED BY <2>1, <2>2, <2>3 DEF PairingsEnd
  <1> QED BY <1>2, <1>3, <1>6, <1>7, <1>8, <1>9

(* A session with a number of its own, from a pairing no rotation ended. *)
LEMMA OneMoreStep ==
    ASSUME EndInv, NEW n \in SessionSet, NEW lost, Mint(n, lost),
           n.id = count["sessions"] + 1, n.from \notin Rotated,
           Pending' \subseteq Pending, \A o \in Pending' : o.no # n.dev,
           UNCHANGED <<devs, devFile, ended, unsaved>>
    PROVE  Ends'
  <1> USE DEF EndInv, Ends
  <1> DEFINE C == count["sessions"]
  <1>1. SessionsTypeOK
    BY DEF DeviceInv
  <1>2. C \in Nat /\ count'["sessions"] = C + 1 /\ count'["pairings"] = count["pairings"]
    BY <1>1, SessionTypes, SessionCounts, CountTypes DEF Mint, Counters
  <1>3. live' = live \cup {n} /\ (file' = live' \/ (file' = file /\ dirty'))
    BY DEF Mint, SaveSessions
  <1>4. \A s \in live \cup file : s.id \in Nat /\ s.id <= C
    BY <1>1, SessionTypes DEF Numbered
  <1>5. \A s \in live \cup file : s.id # n.id /\ s.id <= C + 1
    BY <1>2, <1>4
  <1>6. live' \cup file' \subseteq live \cup file \cup {n}
    BY <1>3
  <1>7. Numbered'
    <2>1. \A s \in live' \cup file' : s.id <= C + 1
      BY <1>2, <1>5, <1>6
    <2>2. \A s, t \in live' \cup file' : s.id = t.id => s = t
      BY <1>5, <1>6 DEF Numbered
    <2> QED BY <1>2, <2>1, <2>2 DEF Numbered
  <1>8. Parted'
    <2>1. \A s \in file', o \in Pending' : s.dev # o.no
      BY <1>6 DEF Parted, DeviceInv, NoneYet
    <2> QED BY <2>1 DEF Parted
  <1>9. \A i \in 1 .. C : i \in 1 .. C + 1 /\ i # n.id
    BY <1>2
  <1>10. \A i : i \in Ids(live') => i \in Ids(live) \/ i = n.id
    BY <1>3 DEF Ids
  <1>11. EndHolds'
    <2> SUFFICES ASSUME NEW p \in ended
                 PROVE  /\ p.id \in 1 .. C + 1
                        /\ p.id \notin Ids(live')
                        /\ \A s \in file' : s.id = p.id => Over(s)'
      BY <1>2 DEF EndHolds, Ids
    <2>1. p.id \in 1 .. C /\ p.id \notin Ids(live) /\ \A s \in file : s.id = p.id => Over(s)
      BY DEF EndHolds
    <2>2. p.id \notin Ids(live')
      BY <1>9, <1>10, <2>1
    <2>3. \A s \in file' : s.id = p.id => s \in file
      BY <1>3, <2>2 DEF Ids
    <2> QED BY <1>9, <2>1, <2>2, <2>3 DEF Over
  <1>12. UnsavedGone'
    <2> SUFFICES ASSUME NEW u \in unsaved
                 PROVE  /\ u.id \in 1 .. C + 1
                        /\ u.id \notin Ids(live')
                        /\ ~dirty' => u.id \notin Ids(file')
      BY <1>2 DEF UnsavedGone, Ids
    <2>1. u.id \in 1 .. C /\ u.id \notin Ids(live)
      BY DEF UnsavedGone
    <2>2. u.id \notin Ids(live')
      BY <1>9, <1>10, <2>1
    <2> QED BY <1>3, <1>9, <2>1, <2>2
  <1>13. IssuersKnown'
    <2> SUFFICES ASSUME NEW o \in Pending'
                 PROVE  /\ o.from <= C + 1
                        /\ o.issuer <= count["pairings"]
                        /\ \A p \in Pending' : p.no # o.issuer
                        /\ \A s \in live' : s.id = o.from => s.dev = o.issuer
      BY <1>2 DEF IssuersKnown
    <2>1. o.from \in Nat /\ o.from <= C
      BY <1>1, SessionTypes DEF IssuersKnown
    <2>2. o.from # n.id /\ o.from <= C + 1
      BY <1>2, <2>1
    <2> QED BY <1>3, <2>2 DEF IssuersKnown
  <1>14. PairingsEnd'
    <2>1. Rotated' = Rotated
      BY DEF Rotated
    <2>2. \A s \in live' : s.from \notin Rotated
      BY <1>3 DEF PairingsEnd
    <2>3. \A s \in file' : s.from \in Rotated => Over(s)
      BY <1>3, <2>2 DEF PairingsEnd
    <2> QED BY <2>1, <2>2, <2>3 DEF PairingsEnd, Over
  <1> QED BY <1>7, <1>8, <1>11, <1>12, <1>13, <1>14

(* Sessions taken out of the map are gone from it by number, too. *)
LEMMA GoneById ==
    ASSUME EndInv, NEW gone, gone \subseteq live, live' \subseteq live \ gone,
           NEW by, NEW p \in Promised(gone, by), p \notin ended
    PROVE  /\ p.by = by
           /\ p.id \in 1 .. count["sessions"]
           /\ p.id \notin Ids(live')
           /\ \E s \in gone : p.id = s.id
  <1>1. p.by = by /\ \E s \in gone : p.id = s.id
    BY DEF Promised, Ids
  <1>2. PICK s \in gone : p.id = s.id
    BY <1>1
  <1>3. s.id \in Nat \ {0} /\ s.id <= count["sessions"] /\ count["sessions"] \in Nat
    BY SessionTypes DEF EndInv, DeviceInv, Ends, Numbered
  <1>4. \A t \in live' : t.id # s.id
    BY DEF EndInv, Ends, Numbered
  <1> QED BY <1>1, <1>2, <1>3, <1>4 DEF Ids

LEMMA MapAndFile ==
    ASSUME NEW lost, SaveSessions(live', lost)
    PROVE  /\ file' = live' \/ (file' = file /\ dirty')
           /\ "sessions" \notin lost => file' = live'
           /\ file' = file \/ file' = live'
  BY DEF SaveSessions

(* An end by a route: the file has it, or nothing was promised. *)
LEMMA RouteStep ==
    ASSUME EndInv, NEW gone, gone \subseteq live, live' \subseteq live \ gone,
           NEW lost, SaveSessions(live', lost),
           ended' = ended \/ ("sessions" \notin lost /\ ended' = Promised(gone, "route")),
           Pending' \subseteq Pending, unsaved' = unsaved,
           count'["sessions"] = count["sessions"], count'["pairings"] = count["pairings"],
           devs' \subseteq devs, devFile' \subseteq devs \cup devFile
    PROVE  Ends'
  <1>1. file' = live' \/ (file' = file /\ dirty')
    BY MapAndFile
  <1>2. ASSUME NEW p \in ended', p \notin ended
        PROVE  /\ p.by = "route"
               /\ p.id \in 1 .. count["sessions"]
               /\ p.id \notin Ids(live')
               /\ \A s \in file' : s.id = p.id => Over(s)'
    <2>1. "sessions" \notin lost /\ p \in Promised(gone, "route")
      BY <1>2
    <2>2. file' = live'
      BY <2>1, MapAndFile
    <2>3. p.by = "route" /\ p.id \in 1 .. count["sessions"] /\ p.id \notin Ids(live')
      BY <1>2, <2>1, GoneById
    <2>4. \A s \in file' : s.id # p.id
      BY <2>2, <2>3 DEF Ids
    <2> QED BY <2>3, <2>4
  <1>3. Rotated' \subseteq Rotated
    BY <1>2 DEF Rotated
  <1> QED BY <1>1, <1>2, <1>3, FewerStep DEF Ends

LEMMA RevokeShrinks ==
    ASSUME NEW gone, NEW others, NEW lost, Revoke(gone, others, lost)
    PROVE  /\ live' = live \ (RevokedWith(gone) \cup others)
           /\ SaveSessions(live', lost)
           /\ devs' = devs \ gone
           /\ devFile' \subseteq devs \cup devFile
           /\ gone = {} => devFile' = devFile
           /\ gone # {} => SaveDevices(devs \ gone, lost)
  BY DEF Revoke, SaveDevices

(* Logout, EndSession and RevokeDevice. *)
LEMMA RoutesStep ==
    ASSUME EndInv,
           \/ \E s \in live : Logout(s) \/ EndSession(s)
           \/ \E d \in devs : RevokeDevice(d)
    PROVE  Ends'
  <1>1. SessionsTypeOK
    BY DEF EndInv, DeviceInv
  <1>2. ASSUME NEW s \in live, Logout(s) PROVE Ends'
    <2>1. PICK lost \in SUBSET {"sessions"} :
            /\ SaveSessions(live', lost)
            /\ ended' = IF lost = {} THEN Promised({s}, "route") ELSE ended
            /\ count' = Charged(lost)
      BY <1>2 DEF Logout
    <2>2. live' = live \ {s} /\ UNCHANGED <<unsaved, devs, devFile, starts, codes, redeems>>
      BY <1>2 DEF Logout, idpVars, pairVars
    <2>3. Pending' = Pending
      BY <2>2 DEF Pending, Waiting
    <2>4. count'["sessions"] = count["sessions"] /\ count'["pairings"] = count["pairings"]
      BY <1>1, <2>1, SessionCounts, CountTypes DEF Counters
    <2>5. ended' = ended \/ ("sessions" \notin lost /\ ended' = Promised({s}, "route"))
      BY <2>1
    <2> QED BY <2>1, <2>2, <2>3, <2>4, <2>5, RouteStep
  <1>3. ASSUME NEW s \in live, EndSession(s) PROVE Ends'
    <2>1. PICK lost \in SUBSET AllFiles :
            /\ Revoke({s.dev} \cap devs, {s}, lost)
            /\ ended' = IF "sessions" \in lost THEN ended ELSE Promised({s}, "route")
            /\ count' = Charged(lost)
      BY <1>3 DEF EndSession
    <2>2. UNCHANGED <<unsaved, starts, codes, redeems>>
      BY <1>3 DEF EndSession, idpVars, pairVars
    <2>3. Pending' = Pending
      BY <2>2 DEF Pending, Waiting
    <2>4. count'["sessions"] = count["sessions"] /\ count'["pairings"] = count["pairings"]
      BY <1>1, <2>1, SessionCounts, CountTypes DEF Counters
    <2>5. /\ live' \subseteq live \ {s} /\ SaveSessions(live', lost)
          /\ devs' \subseteq devs /\ devFile' \subseteq devs \cup devFile
      <3>1. /\ live' = live \ (RevokedWith({s.dev} \cap devs) \cup {s})
            /\ devs' = devs \ ({s.dev} \cap devs)
            /\ SaveSessions(live', lost) /\ devFile' \subseteq devs \cup devFile
        BY <2>1, RevokeShrinks
      <3> QED BY <3>1
    <2>6. ended' = ended \/ ("sessions" \notin lost /\ ended' = Promised({s}, "route"))
      BY <2>1
    <2> QED BY <2>2, <2>3, <2>4, <2>5, <2>6, RouteStep
  <1>4. ASSUME NEW d \in devs, RevokeDevice(d) PROVE Ends'
    <2> DEFINE gone == RevokedWith({d})
    <2>1. PICK lost \in SUBSET AllFiles :
            /\ Revoke({d}, {}, lost)
            /\ ended' = IF "sessions" \in lost THEN ended ELSE Promised(gone, "route")
            /\ count' = Charged(lost)
      BY <1>4 DEF RevokeDevice
    <2>2. UNCHANGED <<unsaved, starts, codes, redeems>>
      BY <1>4 DEF RevokeDevice, idpVars, pairVars
    <2>3. Pending' = Pending
      BY <2>2 DEF Pending, Waiting
    <2>4. count'["sessions"] = count["sessions"] /\ count'["pairings"] = count["pairings"]
      BY <1>1, <2>1, SessionCounts, CountTypes DEF Counters
    <2>5. /\ live' \subseteq live \ gone /\ SaveSessions(live', lost)
          /\ devs' \subseteq devs /\ devFile' \subseteq devs \cup devFile
      <3>1. /\ live' = live \ (RevokedWith({d}) \cup {}) /\ devs' = devs \ {d}
            /\ SaveSessions(live', lost) /\ devFile' \subseteq devs \cup devFile
        BY <2>1, RevokeShrinks
      <3> QED BY <3>1
    <2>6. ended' = ended \/ ("sessions" \notin lost /\ ended' = Promised(gone, "route"))
      BY <2>1
    <2>7. gone \subseteq live
      BY DEF RevokedWith
    <2> HIDE DEF gone
    <2> QED BY <2>2, <2>3, <2>4, <2>5, <2>6, <2>7, RouteStep
  <1> QED BY <1>2, <1>3, <1>4

(* A key rotation leaves no device, and no session of one in the map.  A   *)
(* file that still has them is loaded without them, for devices.json was   *)
(* written, or nothing was promised.                                       *)
LEMMA RotationStep ==
    ASSUME EndInv, RevokeAll
    PROVE  Ends'
  <1> DEFINE gone == RevokedWith(devs)
  <1>1. SessionsTypeOK
    BY DEF EndInv, DeviceInv
  <1>2. PICK lost \in SUBSET AllFiles :
          /\ Revoke(devs, {}, lost)
          /\ ended' = IF "sessions" \notin lost \/ devFile' = {}
                        THEN Promised(gone, "rotation") ELSE ended
          /\ count' = Counted("rotations", lost)
    BY DEF RevokeAll
  <1>3. codes' = {} /\ UNCHANGED <<unsaved, starts, redeems>>
    BY DEF RevokeAll, idpVars
  <1>4. Pending' \subseteq Pending
    BY <1>3 DEF Pending, Waiting
  <1>5. count'["sessions"] = count["sessions"] /\ count'["pairings"] = count["pairings"]
    BY <1>1, <1>2, SessionCounts, CountTypes DEF Counters
  <1>6. /\ live' = live \ gone /\ SaveSessions(live', lost)
        /\ devs' = {} /\ devFile' \subseteq devs \cup devFile
        /\ devs = {} => devFile' = devFile
        /\ devs # {} => SaveDevices({}, lost)
    <2>1. live' = live \ (gone \cup {}) /\ devs' = devs \ devs
      BY <1>2, RevokeShrinks
    <2>2. devs \ devs = {}
      OBVIOUS
    <2>3. /\ SaveSessions(live', lost)
          /\ devFile' \subseteq devs \cup devFile
          /\ devs = {} => devFile' = devFile
          /\ devs # {} => SaveDevices(devs \ devs, lost)
      BY <1>2, RevokeShrinks
    <2> QED BY <2>1, <2>2, <2>3
  <1>7. file' = live' \/ (file' = file /\ dirty')
    BY <1>6, MapAndFile
  <1>8. devFile' \subseteq devFile
    BY <1>6 DEF SaveDevices
  <1>9. \A s \in live' : s.dev = 0 /\ s.from = 0
    <2>1. \A s \in live' : s.dev = 0
      BY <1>6 DEF RevokedWith, EndInv, DeviceInv, DevicesHoldSessions
    <2> QED BY <1>1, <1>6, <2>1, SessionTypes
  <1>10. gone \subseteq live /\ \A s \in gone : s.dev \in devs /\ s.dev # 0
    BY DEF RevokedWith, EndInv, Ends, Parted
  <1>11. ASSUME NEW p \in ended', p \notin ended
         PROVE  /\ "sessions" \notin lost \/ devFile' = {}
                /\ p.id \in 1 .. count["sessions"]
                /\ p.id \notin Ids(live')
                /\ \E s \in gone : p.id = s.id
                /\ \A s \in file' : s.id = p.id => Over(s)'
    <2>1. p \in Promised(gone, "rotation") /\ ("sessions" \notin lost \/ devFile' = {})
      BY <1>2, <1>11
    <2>2. /\ p.id \in 1 .. count["sessions"] /\ p.id \notin Ids(live')
          /\ \E s \in gone : p.id = s.id
      <3>1. gone \subseteq live /\ live' \subseteq live \ gone
        BY <1>6, <1>10
      <3> HIDE DEF gone
      <3> QED BY <1>11, <2>1, <3>1, GoneById
    <2>3. ASSUME NEW s \in file', s.id = p.id PROVE Over(s)'
      <3>1. s \notin live'
        BY <2>2, <2>3 DEF Ids
      <3>2. s \in file /\ devFile' = {}
        BY <1>6, <1>7, <2>1, <2>3, <3>1, MapAndFile
      <3>3. PICK t \in gone : t.id = s.id
        BY <2>2, <2>3
      <3>4. t = s
        BY <1>10, <3>2, <3>3 DEF EndInv, Ends, Numbered
      <3> QED BY <1>6, <1>10, <3>2, <3>4 DEF Over
    <2> QED BY <2>1, <2>2, <2>3
  <1>12. /\ Numbered' /\ Parted' /\ EndHolds' /\ UnsavedGone' /\ IssuersKnown'
    <2> HIDE DEF gone
    <2> QED BY <1>3, <1>4, <1>5, <1>6, <1>7, <1>11, FewerStep
  <1>13. \A i \in Rotated' : i \in Rotated \/ \E s \in gone : s.id = i
    BY <1>11 DEF Rotated
  <1>14. 0 \notin Rotated'
    BY <1>12 DEF EndHolds, Rotated
  <1>15. PairingsEnd'
    <2>1. \A o \in Pending' : o.from \in Rotated' => o.issuer # 0 /\ o.issuer \notin devs'
      <3> SUFFICES ASSUME NEW o \in Pending', o.from \in Rotated' PROVE o.issuer # 0
        BY <1>6
      <3>1. CASE o.from \in Rotated
        BY <1>4, <3>1 DEF EndInv, Ends, PairingsEnd
      <3>2. CASE \E s \in gone : s.id = o.from
        BY <1>4, <1>10, <3>2 DEF EndInv, Ends, IssuersKnown
      <3> QED BY <1>13, <3>1, <3>2
    <2>2. \A s \in live' : s.from \notin Rotated'
      BY <1>9, <1>14
    <2>3. ASSUME NEW s \in file', s.from \in Rotated' PROVE Over(s)'
      <3>1. s \notin live' /\ s \in file /\ "sessions" \in lost
        BY <1>6, <1>7, <2>2, <2>3, MapAndFile
      <3>2. CASE s.from \in Rotated
        BY <1>6, <1>8, <3>1, <3>2 DEF EndInv, Ends, PairingsEnd, Over
      <3>3. CASE s.from \notin Rotated
        <4>1. PICK p \in ended' : p \notin ended
          BY <2>3, <3>3 DEF Rotated
        <4>2. devFile' = {}
          BY <1>11, <3>1, <4>1
        <4>3. s.from # 0 /\ s.dev # 0
          BY <1>1, <1>14, <2>3, <3>1, SessionTypes
        <4> QED BY <1>6, <4>2, <4>3 DEF Over
      <3> QED BY <3>2, <3>3
    <2> QED BY <2>1, <2>2, <2>3 DEF PairingsEnd
  <1> QED BY <1>12, <1>15 DEF Ends

(* A logout ends what it names, or leaves that to its redelivery. *)
LEMMA BackChannelStep ==
    ASSUME EndInv, NEW e \in tokens, Lapse(e) \/ DeliverLogout(e) \/ RedeliverLogout(e)
    PROVE  Ends'
  <1>1. SessionsTypeOK
    BY DEF EndInv, DeviceInv
  <1>2. CASE Lapse(e)
    <2>1. /\ UNCHANGED <<live, file, dirty, devs, devFile, starts, codes, redeems, count, ended>>
          /\ unsaved' \subseteq unsaved
      BY <1>2 DEF Lapse, pairVars
    <2>2. Pending' = Pending /\ Rotated' = Rotated
      BY <2>1 DEF Pending, Waiting, Rotated
    <2> QED BY <2>1, <2>2, FewerStep DEF Ends
  <1>3. CASE DeliverLogout(e)
    <2> DEFINE gone == LoggedOut(e)
    <2>1. PICK lost \in SUBSET {"sessions"} :
            /\ gone = {} => lost = {}
            /\ IF gone = {} THEN UNCHANGED <<file, dirty>> ELSE SaveSessions(live \ gone, lost)
            /\ unsaved' = IF lost = {} THEN unsaved ELSE unsaved \cup [by : {e}, id : Ids(gone)]
            /\ ended' = IF lost = {} THEN Promised(gone, "route") ELSE ended
            /\ count' = Charged(lost)
      BY <1>3 DEF DeliverLogout
    <2>2. /\ live' = live \ gone /\ codes' \subseteq codes
          /\ UNCHANGED <<devs, devFile, starts, redeems>>
      BY <1>3 DEF DeliverLogout
    <2>3. Pending' \subseteq Pending
      BY <2>2 DEF Pending, Waiting
    <2>4. count'["sessions"] = count["sessions"] /\ count'["pairings"] = count["pairings"]
      BY <1>1, <2>1, SessionCounts, CountTypes DEF Counters
    <2>5. gone \subseteq live
      BY DEF LoggedOut
    <2>6. CASE lost = {}
      <3>1. CASE gone = {}
        <4>1. Promised(gone, "route") = ended
          BY <3>1 DEF Promised, Ids
        <4>2. UNCHANGED <<file, dirty, unsaved, ended>> /\ live' = live
          BY <2>1, <2>2, <2>6, <3>1, <4>1
        <4>3. Rotated' = Rotated
          BY <4>2 DEF Rotated
        <4> QED BY <2>2, <2>3, <2>4, <4>2, <4>3, FewerStep DEF Ends
      <3>2. CASE gone # {}
        <4>1. /\ SaveSessions(live', lost) /\ "sessions" \notin lost
              /\ ended' = Promised(gone, "route") /\ unsaved' = unsaved
          BY <2>1, <2>2, <2>6, <3>2
        <4> HIDE DEF gone
        <4> QED BY <2>2, <2>3, <2>4, <2>5, <4>1, RouteStep
      <3> QED BY <3>1, <3>2
    <2>7. CASE lost # {}
      <3>1. "sessions" \in lost /\ gone # {}
        BY <2>1, <2>7
      <3>2. /\ file' = file /\ dirty' = TRUE /\ ended' = ended
            /\ unsaved' = unsaved \cup [by : {e}, id : Ids(gone)]
        BY <2>1, <2>7, <3>1 DEF SaveSessions
      <3>3. ASSUME NEW u \in unsaved', u \notin unsaved
            PROVE  u.id \in 1 .. count["sessions"] /\ u.id \notin Ids(live')
        <4>1. PICK s \in gone : u.id = s.id
          BY <3>2, <3>3 DEF Ids
        <4>2. s.id \in Nat \ {0} /\ s.id <= count["sessions"] /\ count["sessions"] \in Nat
          BY <1>1, <2>5, SessionTypes DEF EndInv, Ends, Numbered
        <4>3. \A t \in live' : t.id # s.id
          BY <2>2, <2>5 DEF EndInv, Ends, Numbered
        <4> QED BY <4>1, <4>2, <4>3 DEF Ids
      <3>4. Rotated' = Rotated
        BY <3>2 DEF Rotated
      <3> HIDE DEF gone
      <3> QED BY <2>2, <2>3, <2>4, <3>2, <3>3, <3>4, FewerStep DEF Ends
    <2> QED BY <2>6, <2>7
  <1>4. CASE RedeliverLogout(e)
    <2> DEFINE done == {u \in unsaved : u.by = e}
    <2>1. PICK lost \in SUBSET {"sessions"} :
            /\ ~dirty => lost = {}
            /\ IF dirty THEN SaveSessions(live, lost) ELSE UNCHANGED <<file, dirty>>
            /\ IF lost = {}
                 THEN unsaved' \subseteq unsaved /\ ended' = Promised(done, "route")
                 ELSE UNCHANGED <<unsaved, ended>>
            /\ count' = Charged(lost)
      <3>1. {u \in unsaved : u.by # e} \subseteq unsaved
        OBVIOUS
      <3> QED BY <1>4, <3>1 DEF RedeliverLogout
    <2>2. UNCHANGED <<live, devs, devFile, starts, codes, redeems>>
      BY <1>4 DEF RedeliverLogout, pairVars
    <2>3. Pending' = Pending
      BY <2>2 DEF Pending, Waiting
    <2>4. count'["sessions"] = count["sessions"] /\ count'["pairings"] = count["pairings"]
      BY <1>1, <2>1, SessionCounts, CountTypes DEF Counters
    <2>5. file' = live' \/ (file' = file /\ (dirty' \/ dirty' = dirty))
      BY <2>1, <2>2 DEF SaveSessions
    <2>6. lost = {} => file' = live \/ (~dirty /\ file' = file)
      BY <2>1 DEF SaveSessions
    <2>7. unsaved' \subseteq unsaved
      BY <2>1
    <2>8. ASSUME NEW p \in ended', p \notin ended
          PROVE  /\ p.by = "route"
                 /\ p.id \in 1 .. count["sessions"]
                 /\ p.id \notin Ids(live')
                 /\ \A s \in file' : s.id = p.id => Over(s)'
      <3>1. lost = {} /\ p \in Promised(done, "route")
        BY <2>1, <2>8
      <3>2. p.by = "route" /\ p.id \in Ids(done)
        BY <2>8, <3>1 DEF Promised
      <3>3. PICK u \in unsaved : p.id = u.id
        BY <3>2 DEF Ids
      <3>4. /\ p.id \in 1 .. count["sessions"] /\ p.id \notin Ids(live)
            /\ ~dirty => p.id \notin Ids(file)
        BY <3>3 DEF EndInv, Ends, UnsavedGone
      <3>5. p.id \notin Ids(file')
        BY <2>6, <3>1, <3>4
      <3>6. p.id \notin Ids(live')
        BY <2>2, <3>4
      <3> QED BY <3>2, <3>4, <3>5, <3>6 DEF Ids
    <2>9. Rotated' \subseteq Rotated
      BY <2>8 DEF Rotated
    <2> QED BY <2>2, <2>3, <2>4, <2>5, <2>7, <2>8, <2>9, FewerStep DEF Ends
  <1> QED BY <1>2, <1>3, <1>4

(* The number 0 names no session, so a browser's session has no issuer that *)
(* could be ended.                                                          *)
LEMMA NoZero == EndInv => 0 \notin Rotated
  BY DEF EndInv, Ends, EndHolds, Rotated

LEMMA LoginStep ==
    ASSUME EndInv, NEW id \in logins, FinishLogin(id)
    PROVE  Ends'
  <1>1. SessionsTypeOK
    BY DEF EndInv, DeviceInv
  <1>2. UNCHANGED <<unsaved, devs, devFile, starts, codes, redeems, ended>>
    BY DEF FinishLogin, pairVars
  <1>3. Pending' = Pending /\ Rotated' = Rotated
    BY <1>2 DEF Pending, Waiting, Rotated
  <1>4. CASE Admitted(id)
    <2> DEFINE n == NewSession(id, 0, 0)
    <2>1. PICK lost : Mint(n, lost)
      BY <1>4 DEF FinishLogin
    <2>2. n \in SessionSet
      BY <1>1, NewSessionTypes DEF SessionsTypeOK, Tokens
    <2>3. n.id = count["sessions"] + 1 /\ n.dev = 0 /\ n.from = 0
      BY DEF NewSession
    <2>4. \A o \in Pending' : o.no # n.dev
      BY <1>1, <1>3, <2>3, SessionTypes
    <2> HIDE DEF n
    <2> QED BY <1>2, <1>3, <2>1, <2>2, <2>3, <2>4, NoZero, OneMoreStep
  <1>5. CASE ~Admitted(id)
    BY <1>2, <1>3, <1>5, FewerStep DEF FinishLogin, Ends
  <1> QED BY <1>4, <1>5

LEMMA StartStep ==
    ASSUME EndInv, NEW s \in live, StartPairing(s)
    PROVE  Ends'
  <1> USE DEF EndInv, Ends
  <1> DEFINE P == count["pairings"]
             o == [no |-> P + 1, sid |-> s.sid, iat |-> s.iat, from |-> s.id, issuer |-> s.dev]
  <1>1. SessionsTypeOK
    BY DEF DeviceInv
  <1>2. /\ starts' = starts \cup {o}
        /\ UNCHANGED <<unsaved, live, file, dirty, devs, devFile, codes, redeems, ended>>
    BY DEF StartPairing, idpVars
  <1>3. P \in Nat /\ count'["pairings"] = P + 1 /\ count'["sessions"] = count["sessions"]
    BY <1>1, SessionTypes, SessionCounts, CountTypes DEF StartPairing, Counters
  <1>4. Pending' = Pending \cup {o} /\ Rotated' = Rotated
    BY <1>2 DEF Pending, Waiting, Rotated
  <1>5. s.dev \in Nat /\ s.dev <= P /\ s.id <= count["sessions"]
    BY <1>1, SessionTypes DEF DeviceInv, NumbersPast, Numbered
  <1>6. o.no = P + 1 /\ o.from = s.id /\ o.issuer = s.dev
    OBVIOUS
  <1> HIDE DEF o
  <1>7. Numbered'
    BY <1>2, <1>3 DEF Numbered
  <1>8. Parted'
    <2>1. \A t \in file : t.dev # P + 1
      <3>1. \A t \in file : t.dev \in Nat /\ t.dev <= P
        BY <1>1, SessionTypes DEF DeviceInv, NumbersPast
      <3> QED BY <1>3, <3>1
    <2> QED BY <1>2, <1>4, <1>6, <2>1 DEF Parted
  <1>9. EndHolds' /\ UnsavedGone'
    BY <1>2, <1>3 DEF EndHolds, UnsavedGone, Over, Ids
  <1>10. \A p \in Pending : p.no # P + 1 /\ p.issuer # P + 1 /\ p.issuer <= P + 1
    <2>1. \A p \in Pending : p.no \in Nat /\ p.issuer \in Nat /\ p.no <= P /\ p.issuer <= P
      BY <1>1, SessionTypes DEF DeviceInv, NumbersPast, IssuersKnown
    <2> QED BY <1>3, <2>1
  <1>11. IssuersKnown'
    <2>1. \A q \in Pending' : q.from <= count["sessions"] /\ q.issuer <= P + 1
      BY <1>3, <1>4, <1>5, <1>6, <1>10 DEF IssuersKnown
    <2>2. \A p \in Pending : p.no # o.issuer
      BY <1>6 DEF DeviceInv, NoneYet
    <2>3. o.no # o.issuer
      BY <1>3, <1>5, <1>6
    <2>4. \A q, p \in Pending' : p.no # q.issuer
      BY <1>4, <1>6, <1>10, <2>2, <2>3 DEF IssuersKnown
    <2>5. \A t \in live : t.id = s.id => t = s
      BY DEF Numbered
    <2>6. \A q \in Pending', t \in live : t.id = q.from => t.dev = q.issuer
      BY <1>4, <1>6, <2>5 DEF IssuersKnown
    <2> QED BY <1>2, <1>3, <2>1, <2>4, <2>6 DEF IssuersKnown
  <1>12. PairingsEnd'
    <2>1. s.id \notin Rotated
      BY DEF EndHolds, Rotated, Ids
    <2> QED BY <1>2, <1>4, <1>6, <2>1 DEF PairingsEnd, Over
  <1> QED BY <1>7, <1>8, <1>9, <1>11, <1>12

(* The device a pairing registers is no stored session's, and nobody's     *)
(* issuer.                                                                 *)
LEMMA RegisterStep ==
    ASSUME EndInv, NEW o \in codes, RedeemPairing(o)
    PROVE  Ends'
  <1> USE DEF EndInv, Ends
  <1>1. SessionsTypeOK
    BY DEF DeviceInv
  <1>2. UNCHANGED <<unsaved, live, file, dirty, starts, ended>> /\ codes' = codes \ {o}
    BY DEF RedeemPairing, idpVars
  <1>3. count'["sessions"] = count["sessions"] /\ count'["pairings"] = count["pairings"]
    BY <1>1, SessionCounts, CountTypes DEF RedeemPairing, Counters
  <1>4. Waiting' \subseteq Waiting \cup {o}
    BY DEF RedeemPairing, Waiting
  <1>5. Pending' \subseteq Pending /\ Rotated' = Rotated /\ o \in Pending
    BY <1>2, <1>4 DEF Pending, Rotated
  <1>6. CASE UNCHANGED <<devs, devFile>>
    BY <1>2, <1>3, <1>5, <1>6, FewerStep
  <1>7. CASE devs' = devs \cup {o.no} /\ devFile' = devs \cup {o.no}
    <2>1. \A s \in file : Over(s) => Over(s)'
      BY <1>5, <1>7 DEF Over, Parted
    <2>2. Numbered'
      BY <1>2, <1>3 DEF Numbered
    <2>3. o.no # 0
      BY <1>1, <1>5, SessionTypes
    <2>4. Parted'
      BY <1>2, <1>5, <1>7, <2>3 DEF Parted
    <2>5. EndHolds' /\ UnsavedGone'
      BY <1>2, <1>3, <2>1 DEF EndHolds, UnsavedGone, Ids
    <2>6. IssuersKnown'
      BY <1>2, <1>3, <1>5 DEF IssuersKnown
    <2>7. PairingsEnd'
      <3>1. \A p \in Pending' : p.from \in Rotated => p.issuer # 0 /\ p.issuer \notin devs'
        BY <1>5, <1>7 DEF PairingsEnd, IssuersKnown
      <3> QED BY <1>2, <1>5, <2>1, <3>1 DEF PairingsEnd
    <2> QED BY <2>2, <2>4, <2>5, <2>6, <2>7
  <1> QED BY <1>6, <1>7 DEF RedeemPairing

(* The issuer's check admits no pairing that a rotation ended. *)
LEMMA DeviceSessionStep ==
    ASSUME EndInv, DeviceInv', NEW r \in redeems, StartDeviceSession(r)
    PROVE  Ends'
  <1> DEFINE o == r.origin
             n == NewSession(o, o.no, o.from)
  <1>1. SessionsTypeOK
    BY DEF EndInv, DeviceInv
  <1>2. UNCHANGED <<unsaved, starts, codes, ended>> /\ r.phase = "registered"
    BY DEF StartDeviceSession, idpVars
  <1>3. o \in Origins /\ o \in Pending
    BY <1>1, <1>2 DEF SessionsTypeOK, Redeems, Pending, Waiting
  <1>4. Rotated' = Rotated
    BY <1>2 DEF Rotated
  <1>5. CASE Pairable(o)
    <2>1. PICK lost : Mint(n, lost)
      BY <1>5 DEF StartDeviceSession
    <2>2. UNCHANGED <<devs, devFile>>
      BY <1>5 DEF StartDeviceSession
    <2>3. n \in SessionSet
      BY <1>1, <1>3, NewSessionTypes DEF Origins
    <2>4. n.id = count["sessions"] + 1 /\ n.dev = o.no /\ n.from = o.from
      BY DEF NewSession
    <2>5. Waiting' \subseteq Waiting
      <3> DEFINE m == [r EXCEPT !.phase = "minted"]
      <3>1. redeems' = (redeems \ {r}) \cup {m}
        BY <1>5 DEF StartDeviceSession
      <3>2. m.phase # "registered"
        BY <1>1 DEF SessionsTypeOK, Redeems
      <3> QED BY <3>1, <3>2 DEF Waiting
    <2>6. Pending' \subseteq Pending
      BY <1>2, <2>5 DEF Pending
    <2>7. \A p \in Pending' : p.no # n.dev
      <3>1. n \in live'
        BY <2>1 DEF Mint
      <3> QED BY <3>1 DEF DeviceInv, NoneYet
    <2>8. n.from \notin Rotated
      BY <1>3, <1>5, <2>4 DEF Pairable, EndInv, Ends, PairingsEnd
    <2> HIDE DEF n
    <2> QED BY <1>2, <2>1, <2>2, <2>3, <2>4, <2>6, <2>7, <2>8, OneMoreStep
  <1>6. CASE ~Pairable(o)
    <2>1. /\ redeems' = redeems \ {r} /\ devs' \subseteq devs /\ devFile' \subseteq devs \cup devFile
          /\ UNCHANGED <<live, file, dirty>>
      BY <1>6 DEF StartDeviceSession
    <2>2. count'["sessions"] = count["sessions"] /\ count'["pairings"] = count["pairings"]
      BY <1>1, <1>6, SessionCounts, CountTypes DEF StartDeviceSession, Counters
    <2>3. Pending' \subseteq Pending
      BY <1>2, <2>1 DEF Pending, Waiting
    <2> QED BY <1>2, <1>4, <2>1, <2>2, <2>3, FewerStep DEF Ends
  <1> QED BY <1>5, <1>6

(* loadSessions drops what the file still has of an end. *)
LEMMA LoadStep ==
    ASSUME EndInv, Restart
    PROVE  Ends'
  <1> USE DEF EndInv, Ends
  <1>1. SessionsTypeOK
    BY DEF DeviceInv
  <1>2. PICK stored \in {file, IF dirty THEN live ELSE file} :
          file' = stored /\ live' = Loaded(stored)
    BY DEF Restart
  <1>3. /\ starts' = {} /\ codes' = {} /\ Waiting' = {} /\ Pending' = {} /\ unsaved' = {}
        /\ devs' = devFile /\ devFile' = devFile /\ ended' = ended
    BY DEF Restart, Waiting, Pending
  <1>4. count'["sessions"] = count["sessions"] /\ count'["pairings"] = count["pairings"]
    BY <1>1, SessionCounts, CountTypes DEF Restart, Counters
  <1>5. Rotated' = Rotated
    BY <1>3 DEF Rotated
  <1>6. \A s \in live' : s \in file' /\ ~Over(s)'
    BY <1>2, <1>3 DEF Loaded, Over
  <1>7. file' = live \/ file' = file
    BY <1>2
  <1>8. Numbered'
    BY <1>4, <1>6, <1>7 DEF Numbered
  <1>9. Parted'
    BY <1>3 DEF Parted
  <1>10. \A s : Over(s) => Over(s)'
    BY <1>3 DEF Over
  <1>11. EndHolds'
    <2> SUFFICES ASSUME NEW p \in ended
                 PROVE  /\ p.id \in 1 .. count["sessions"]
                        /\ p.id \notin Ids(live')
                        /\ \A s \in file' : s.id = p.id => Over(s)'
      BY <1>3, <1>4 DEF EndHolds, Ids
    <2>1. \A s \in file' : s.id = p.id => Over(s)'
      BY <1>7, <1>10 DEF EndHolds, Ids
    <2>2. p.id \notin Ids(live')
      BY <1>6, <2>1 DEF Ids
    <2> QED BY <2>1, <2>2 DEF EndHolds
  <1>12. UnsavedGone' /\ IssuersKnown'
    BY <1>3 DEF UnsavedGone, IssuersKnown
  <1>13. PairingsEnd'
    <2>1. \A s \in file' : s.from \in Rotated => Over(s)'
      BY <1>7, <1>10 DEF PairingsEnd
    <2> QED BY <1>3, <1>5, <1>6, <2>1 DEF PairingsEnd
  <1> QED BY <1>8, <1>9, <1>11, <1>12, <1>13

LEMMA EndsStep == EndInv /\ [SessionsNext]_sessionsVars => EndInv'
  <1> SUFFICES ASSUME EndInv, [SessionsNext]_sessionsVars PROVE Ends'
    BY DeviceStep DEF EndInv
  <1>1. SessionsTypeOK
    BY DEF EndInv, DeviceInv
  <1>2. DeviceInv'
    BY DeviceStep DEF EndInv
  <1>3. CASE \/ BeginLogin \/ IssueLogout \/ RenameDevice \/ UNCHANGED sessionsVars
             \/ SetActive \/ Deprovision \/ \E o \in starts : CreateCode(o)
             \/ \E r \in redeems : FinishRedeem(r)
    <2>1. UNCHANGED <<unsaved, live, file, dirty, devs, ended>>
      BY <1>3 DEF BeginLogin, IssueLogout, RenameDevice, SetActive, Deprovision, CreateCode,
           FinishRedeem, idpVars, sessionsVars
    <2>2. devFile' \subseteq devs \cup devFile
      BY <1>3 DEF BeginLogin, IssueLogout, RenameDevice, SetActive, Deprovision, CreateCode,
           FinishRedeem, sessionsVars
    <2>3. count' = count \/ count' = Counted("switches", {})
      BY <1>3 DEF BeginLogin, IssueLogout, RenameDevice, SetActive, Deprovision, Deactivate,
           CreateCode, FinishRedeem, sessionsVars
    <2>4. count'["sessions"] = count["sessions"] /\ count'["pairings"] = count["pairings"]
      BY <1>1, <2>3, SessionCounts, CountTypes DEF Counters
    <2>5. /\ starts' \cup codes' \subseteq starts \cup codes /\ redeems' \subseteq redeems
      BY <1>3 DEF BeginLogin, IssueLogout, RenameDevice, SetActive, Deprovision, CreateCode,
           FinishRedeem, pairVars, sessionsVars
    <2>6. Pending' \subseteq Pending /\ Rotated' = Rotated
      BY <2>1, <2>5 DEF Pending, Waiting, Rotated
    <2> QED BY <2>1, <2>2, <2>4, <2>6, FewerStep DEF Ends
  <1>4. CASE RetrySave
    <2>1. /\ UNCHANGED <<unsaved, live, devs, devFile, starts, codes, redeems, count, ended>>
          /\ file' = live
      BY <1>4 DEF RetrySave, SaveSessions, idpVars, pairVars
    <2>2. Pending' = Pending /\ Rotated' = Rotated
      BY <2>1 DEF Pending, Waiting, Rotated
    <2> QED BY <2>1, <2>2, FewerStep DEF Ends
  <1>5. CASE RevokeDirectorySessions
    <2>1. PICK lost : SaveSessions({}, lost) /\ count' = Charged(lost)
      BY <1>5 DEF RevokeDirectorySessions
    <2>2. /\ UNCHANGED <<unsaved, devs, devFile, starts, redeems, ended>>
          /\ live' = {} /\ codes' = {}
      BY <1>5 DEF RevokeDirectorySessions, idpVars
    <2>3. file' = live' \/ (file' = file /\ dirty')
      BY <2>1, <2>2 DEF SaveSessions
    <2>4. count'["sessions"] = count["sessions"] /\ count'["pairings"] = count["pairings"]
      BY <1>1, <2>1, SessionCounts, CountTypes DEF Counters
    <2>5. Pending' \subseteq Pending /\ Rotated' = Rotated
      BY <2>2 DEF Pending, Waiting, Rotated
    <2> QED BY <2>2, <2>3, <2>4, <2>5, FewerStep DEF Ends
  <1> QED BY <1>2, <1>3, <1>4, <1>5, BackChannelStep, LoginStep, RoutesStep, RotationStep,
             StartStep, RegisterStep, DeviceSessionStep, LoadStep DEF SessionsNext

(* The routes, the back-channel logout, revokeDeviceLocked and             *)
(* loadSessions together: a session whose end was answered for, or whose   *)
(* device a key rotation revoked, is not live again.                       *)
THEOREM EndsHold == SessionsSpec => []EndedStaysEnded
  <1>1. EndInv => EndedStaysEnded
    BY DEF EndInv, Ends, EndHolds, EndedStaysEnded, Ids
  <1> QED BY <1>1, InitEndInv, EndsStep, PTL DEF SessionsSpec

(* startSessionWithToken's check of the issuing device, against a rotation *)
(* anywhere between the start of a pairing and its session, or between     *)
(* that session and a restart.                                             *)
THEOREM RotationEnds == SessionsSpec => []RotationEndsPairings
  <1>1. EndInv => RotationEndsPairings
    <2>1. \A i : [id |-> i, by |-> "rotation"] \in ended => i \in Rotated
      BY DEF Rotated
    <2> QED BY <2>1 DEF EndInv, Ends, PairingsEnd, RotationEndsPairings
  <1> QED BY <1>1, InitEndInv, EndsStep, PTL DEF SessionsSpec

-----------------------------------------------------------------------------
(* SharedVaults: its rows keep their shape, the ones that let a member in  *)
(* are of the current epoch, a departed member's copy stays flagged, the   *)
(* rows a rotation sealed follow the user key, and the last owner is kept. *)


(* validSuspendedFrom: from is recorded exactly while a row is suspended. *)
Shaped(m) == m.state = "suspended" <=> m.from # "none"

(* A row as every operation leaves it, at epoch e of its vault. *)
Good(m, e) ==
    /\ m \in Rows
    /\ Shaped(m)
    /\ Standing(m) \in {"invited", "active"} =>
         /\ m.epoch = e
         /\ Standing(m) = "active" <=> m.joined = 1

GoodRows == \A u \in Users : row[u] = NoRow \/ Good(row[u], epoch)

-----------------------------------------------------------------------------
(* Rows *)

LEMMA NoRowIsNoRow == NoRow \notin Rows
  BY DEF NoRow, Rows, States

LEMMA LandOnRow ==
    ASSUME NEW m \in Rows, Shaped(m), NEW s \in Resumable
    PROVE  /\ LandOn(m, s) \in Rows
           /\ Shaped(LandOn(m, s))
           /\ Standing(LandOn(m, s)) = s
           /\ LandOn(m, s).role = m.role
           /\ LandOn(m, s).key = m.key
           /\ LandOn(m, s).fp = m.fp
           /\ LandOn(m, s).epoch = m.epoch
           /\ LandOn(m, s).joined = m.joined
           /\ LandOn(m, s).via = m.via
           /\ m.state # "suspended" => LandOn(m, s).state = s
  BY DEF LandOn, Rows, Shaped, Standing, Resumable, States

LEMMA SealedRow ==
    ASSUME NEW m \in Rows, Shaped(m), NEW key \in Nat, NEW to \in Nat, NEW at \in Nat,
           NEW via \in {"checked", "rotated"}
    PROVE  /\ Sealed(m, key, to, at, via) \in Rows
           /\ Good(Sealed(m, key, to, at, via), at)
           /\ Sealed(m, key, to, at, via).role = m.role
           /\ Sealed(m, key, to, at, via).fp = to
           /\ Sealed(m, key, to, at, via).via = via
           /\ m.state # "suspended" => Sealed(m, key, to, at, via).state = FreshState(m)
  <1> DEFINE n == [role |-> m.role, state |-> m.state, from |-> m.from, key |-> key,
                   fp |-> to, epoch |-> at, joined |-> m.joined, via |-> via]
  <1>1. n \in Rows /\ Shaped(n)
    BY DEF Rows, Shaped
  <1>2. FreshState(m) \in Resumable
    BY DEF FreshState, Resumable, States
  <1>3. n.role = m.role /\ n.fp = to /\ n.epoch = at /\ n.joined = m.joined
        /\ n.via = via /\ n.state = m.state
    OBVIOUS
  <1>4. Sealed(m, key, to, at, via) = LandOn(n, FreshState(m))
    BY DEF Sealed
  <1> HIDE DEF n
  <1>5. /\ LandOn(n, FreshState(m)) \in Rows
        /\ Shaped(LandOn(n, FreshState(m)))
        /\ Standing(LandOn(n, FreshState(m))) = FreshState(m)
        /\ LandOn(n, FreshState(m)).role = n.role
        /\ LandOn(n, FreshState(m)).fp = n.fp
        /\ LandOn(n, FreshState(m)).epoch = n.epoch
        /\ LandOn(n, FreshState(m)).joined = n.joined
        /\ LandOn(n, FreshState(m)).via = n.via
        /\ n.state # "suspended" => LandOn(n, FreshState(m)).state = FreshState(m)
    BY <1>1, <1>2, LandOnRow
  <1>6. FreshState(m) = "active" <=> m.joined = 1
    BY DEF FreshState
  <1> QED
    BY <1>3, <1>4, <1>5, <1>6 DEF Good

LEMMA MarkedRow ==
    ASSUME NEW m \in Rows, Shaped(m), NEW h \in Hooks
    PROVE  /\ Marked(m, h) \in Rows
           /\ Shaped(Marked(m, h))
           /\ Standing(Marked(m, h)) \in {Standing(m), "stale"}
           /\ Marked(m, h).fp = m.fp
           /\ Marked(m, h).epoch = m.epoch
           /\ Marked(m, h).joined = m.joined
           /\ Marked(m, h).via = m.via
           /\ h.kind = "stale" /\ m.fp # h.fp => Standing(Marked(m, h)) = "stale"
  <1>1. CASE h.kind = "stale" /\ m.fp # h.fp /\ m.state # "stale"
    <2>1. Marked(m, h) = LandOn(m, "stale")
      BY <1>1 DEF Marked
    <2>2. "stale" \in Resumable
      BY DEF Resumable, States
    <2> QED BY <2>1, <2>2, LandOnRow
  <1>2. CASE h.kind = "suspend" /\ m.state # "suspended"
    <2>1. Marked(m, h) = WithState(m, "suspended", m.state, m.joined)
      BY <1>2 DEF Marked
    <2> QED BY <2>1, <1>2 DEF WithState, Rows, Shaped, Standing, Resumable, States
  <1>3. CASE h.kind = "restore" /\ m.state = "suspended"
    <2>1. Marked(m, h) = WithState(m, m.from, "none", m.joined)
      BY <1>3 DEF Marked
    <2> QED BY <2>1, <1>3 DEF WithState, Rows, Shaped, Standing, Resumable, States
  <1>4. CASE /\ ~(h.kind = "stale" /\ m.fp # h.fp /\ m.state # "stale")
             /\ ~(h.kind = "suspend" /\ m.state # "suspended")
             /\ ~(h.kind = "restore" /\ m.state = "suspended")
    <2>1. Marked(m, h) = m
      BY <1>4 DEF Marked
    <2> QED BY <2>1, <1>4 DEF Standing
  <1> QED BY <1>1, <1>2, <1>3, <1>4

-----------------------------------------------------------------------------
(* Type correctness *)

NoneBefore == epoch = 0 => \A u \in Users : row[u] = NoRow

HeldPast == \A u \in Users : held[u] \subseteq 1..epoch

RowInv ==
    /\ MembersTypeOK
    /\ GoodRows
    /\ NoneBefore
    /\ HeldPast

LEMMA InitRowInv == MembersInit => RowInv
  BY DEF MembersInit, RowInv, MembersTypeOK, GoodRows, NoneBefore, HeldPast

(* A member's row is well formed, and a vault that has members exists. *)
LEMMA MemberRow ==
    ASSUME RowInv, NEW u \in Users, row[u] # NoRow
    PROVE  row[u] \in Rows /\ Shaped(row[u]) /\ Good(row[u], epoch) /\ epoch # 0
  BY DEF RowInv, GoodRows, Good, NoneBefore

LEMMA OwnerIsMember ==
    ASSUME NEW u \in Users, ActiveOwner(u)
    PROVE  row[u] # NoRow
  BY DEF ActiveOwner, NoRow

(* Steps that leave the rows alone. *)
LEMMA SameRows ==
    ASSUME RowInv, MembersTypeOK', row' = row, epoch' = epoch,
           \A u \in Users : held'[u] \subseteq held[u] \cup {epoch},
           \A u \in Users : held'[u] # held[u] => epoch # 0
    PROVE  RowInv'
  <1>1. GoodRows'
    BY DEF RowInv, GoodRows
  <1>2. NoneBefore'
    BY DEF RowInv, NoneBefore
  <1>3. HeldPast'
    BY DEF RowInv, HeldPast, MembersTypeOK
  <1> QED BY <1>1, <1>2, <1>3 DEF RowInv

(* Steps that write one row of an existing vault. *)
LEMMA OneRow ==
    ASSUME RowInv, NEW u \in Users, NEW m, row' = [row EXCEPT ![u] = m],
           m = NoRow \/ Good(m, epoch), epoch' = epoch, epoch # 0, held' = held,
           pending' \in Pendings \cup {NoPending}, hooks' \subseteq Hooks,
           req' \in [Users -> Reqs \cup {NoReq}], given' \subseteq Users,
           UNCHANGED <<account, flips, fp>>
    PROVE  RowInv'
  <1>1. m \in Rows \cup {NoRow}
    BY DEF Good
  <1>2. row' \in [Users -> Rows \cup {NoRow}]
    BY <1>1 DEF RowInv, MembersTypeOK
  <1>3. MembersTypeOK'
    BY <1>2 DEF RowInv, MembersTypeOK
  <1>4. GoodRows'
    BY <1>2 DEF RowInv, GoodRows, MembersTypeOK
  <1>5. NoneBefore'
    BY DEF RowInv, NoneBefore
  <1>6. HeldPast'
    BY DEF RowInv, HeldPast
  <1> QED BY <1>3, <1>4, <1>5, <1>6 DEF RowInv

LEMMA OpenRowInv ==
    ASSUME RowInv, NEW u \in Users, Open(u)
    PROVE  RowInv'
  <1>1. row[u] # NoRow
    BY DEF Open, NoRow
  <1>2. epoch # 0
    BY <1>1, MemberRow
  <1>3. MembersTypeOK'
    BY DEF RowInv, MembersTypeOK, Open
  <1>4. /\ row' = row
        /\ epoch' = epoch
        /\ \A v \in Users : held'[v] \subseteq held[v] \cup {epoch}
    BY DEF RowInv, MembersTypeOK, Open
  <1>5. \A v \in Users : held'[v] # held[v] => epoch # 0
    BY <1>2
  <1> QED BY <1>3, <1>4, <1>5, SameRows

LEMMA AskRowInv ==
    ASSUME RowInv, NEW u \in Users, NEW op \in {"create", "invite", "reseal"},
           NEW target \in Users, NEW role \in Roles, NEW key \in Nat,
           Ask(u, op, target, role, key)
    PROVE  RowInv'
  <1>1. [op |-> op, target |-> target, role |-> role, key |-> key, fp |-> fp[target]] \in Reqs
    BY DEF Reqs, Ops, RowInv, MembersTypeOK
  <1>2. MembersTypeOK'
    BY <1>1 DEF RowInv, MembersTypeOK, Ask
  <1>3. row' = row /\ epoch' = epoch /\ held' = held
    BY DEF Ask
  <1> QED BY <1>2, <1>3, SameRows

LEMMA CreateRowInv ==
    ASSUME RowInv, NEW u \in Users, Create(u)
    PROVE  RowInv'
  <1>1. req' \in [Users -> Reqs \cup {NoReq}]
    BY DEF RowInv, MembersTypeOK, Create, Answered
  <1>2. CASE epoch # 0
    <2>1. MembersTypeOK'
      BY <1>1, <1>2 DEF RowInv, MembersTypeOK, Create
    <2>2. row' = row /\ epoch' = epoch /\ held' = held
      BY <1>2 DEF Create
    <2> QED BY <2>1, <2>2, SameRows
  <1>3. CASE epoch = 0
    <2> DEFINE m == [role |-> "owner", state |-> "active", from |-> "none", key |-> 1,
                     fp |-> req[u].fp, epoch |-> 1, joined |-> 1, via |-> "checked"]
    <2>1. req[u] \in Reqs
      BY DEF RowInv, MembersTypeOK, Create, NoReq
    <2>2. m \in Rows
      BY <2>1, SharedVaultsAssumption DEF Reqs, Rows, States, Resumable
    <2>3. Good(m, 1)
      BY <2>2 DEF Good, Shaped, Standing
    <2>4. row' = [row EXCEPT ![u] = m] /\ epoch' = 1 /\ given' = {u} /\ held' = held
      BY <1>3 DEF Create
    <2> HIDE DEF m
    <2>5. row' \in [Users -> Rows \cup {NoRow}]
      BY <2>2, <2>4 DEF RowInv, MembersTypeOK
    <2>6. MembersTypeOK'
      BY <1>1, <2>4, <2>5 DEF RowInv, MembersTypeOK, Create
    <2>7. \A v \in Users : row[v] = NoRow
      BY <1>3 DEF RowInv, NoneBefore
    <2>8. \A v \in Users : row'[v] = NoRow \/ row'[v] = m
      BY <2>4, <2>7 DEF RowInv, MembersTypeOK
    <2>9. GoodRows'
      BY <2>3, <2>4, <2>8 DEF GoodRows
    <2>10. NoneBefore'
      BY <2>4 DEF NoneBefore
    <2>11. HeldPast'
      BY <1>3, <2>4 DEF RowInv, HeldPast
    <2> QED BY <2>6, <2>9, <2>10, <2>11 DEF RowInv
  <1> QED BY <1>2, <1>3

LEMMA InviteRowInv ==
    ASSUME RowInv, NEW u \in Users, Invite(u)
    PROVE  RowInv'
  <1> DEFINE r == req[u]
             can == ActiveOwner(u) /\ r.target \notin Members /\ Cardinality(Members) < MaxMembers
  <1>1. req' \in [Users -> Reqs \cup {NoReq}]
    BY DEF RowInv, MembersTypeOK, Invite, Answered
  <1>2. r \in Reqs
    BY DEF RowInv, MembersTypeOK, Invite, NoReq
  <1>3. CASE ~can
    <2>1. MembersTypeOK'
      BY <1>1, <1>3 DEF RowInv, MembersTypeOK, Invite
    <2>2. row' = row /\ epoch' = epoch /\ held' = held
      BY <1>3 DEF Invite
    <2> QED BY <2>1, <2>2, SameRows
  <1>4. CASE can
    <2> DEFINE m == [role |-> r.role, state |-> "invited", from |-> "none", key |-> r.key,
                     fp |-> r.fp, epoch |-> epoch, joined |-> 0, via |-> "checked"]
    <2>1. epoch \in Nat
      BY DEF RowInv, MembersTypeOK
    <2>2. m \in Rows
      BY <1>2, <2>1 DEF Reqs, Rows, States, Resumable
    <2>3. Good(m, epoch)
      BY <2>2 DEF Good, Shaped, Standing
    <2>4. row' = [row EXCEPT ![r.target] = m] /\ given' = Given(r.target, r.key)
      BY <1>4 DEF Invite
    <2>5. r.target \in Users
      BY <1>2 DEF Reqs
    <2>6. given' \subseteq Users
      BY <2>4, <2>5 DEF Given, RowInv, MembersTypeOK
    <2>7. epoch # 0
      BY <1>4, OwnerIsMember, MemberRow
    <2>8. /\ UNCHANGED <<epoch, pending, account, flips, fp, hooks, held>>
      BY DEF Invite
    <2>9. pending' \in Pendings \cup {NoPending} /\ hooks' \subseteq Hooks
      BY <2>8 DEF RowInv, MembersTypeOK
    <2> HIDE DEF m, r
    <2> QED BY <1>1, <2>3, <2>4, <2>5, <2>6, <2>7, <2>8, <2>9, OneRow
  <1> QED BY <1>3, <1>4

LEMMA ResealRowInv ==
    ASSUME RowInv, NEW u \in Users, Reseal(u)
    PROVE  RowInv'
  <1> DEFINE r == req[u]
  <1>1. req' \in [Users -> Reqs \cup {NoReq}]
    BY DEF RowInv, MembersTypeOK, Reseal, Answered
  <1>2. r \in Reqs
    BY DEF RowInv, MembersTypeOK, Reseal, NoReq
  <1>3. CASE ~ResealAdmits(u, r.target)
    <2>1. MembersTypeOK'
      BY <1>1, <1>3 DEF RowInv, MembersTypeOK, Reseal
    <2>2. row' = row /\ epoch' = epoch /\ held' = held
      BY <1>3 DEF Reseal
    <2> QED BY <2>1, <2>2, SameRows
  <1>4. CASE ResealAdmits(u, r.target)
    <2> DEFINE m == Sealed(row[r.target], r.key, r.fp, epoch, "checked")
    <2>1. r.target \in Users /\ r.key \in Nat /\ r.fp \in Nat
      BY <1>2 DEF Reqs
    <2>2. row[r.target] # NoRow
      BY <1>4 DEF ResealAdmits, Members
    <2>3. row[r.target] \in Rows /\ Shaped(row[r.target]) /\ epoch # 0
      BY <2>1, <2>2, MemberRow
    <2>4. epoch \in Nat
      BY DEF RowInv, MembersTypeOK
    <2>5. Good(m, epoch)
      BY <2>1, <2>3, <2>4, SealedRow
    <2>6. row' = [row EXCEPT ![r.target] = m] /\ given' = Given(r.target, r.key)
      BY <1>4 DEF Reseal
    <2>7. given' \subseteq Users
      BY <2>1, <2>6 DEF Given, RowInv, MembersTypeOK
    <2>8. /\ UNCHANGED <<epoch, pending, account, flips, fp, hooks, held>>
      BY DEF Reseal
    <2>9. pending' \in Pendings \cup {NoPending} /\ hooks' \subseteq Hooks
      BY <2>8 DEF RowInv, MembersTypeOK
    <2> HIDE DEF m, r
    <2> QED BY <1>1, <2>1, <2>3, <2>5, <2>6, <2>7, <2>8, <2>9, OneRow
  <1> QED BY <1>3, <1>4

(* A new role leaves the rest of a row alone. *)
LEMMA RoleRow ==
    ASSUME RowInv, NEW u \in Users, NEW target \in Users, NEW role \in Roles,
           RoleAdmits(u, target, role)
    PROVE  Good(WithRole(row[target], role), epoch) /\ epoch # 0
  <1> DEFINE o == row[target]
             m == WithRole(o, role)
  <1>1. o # NoRow
    BY DEF RoleAdmits, Members
  <1>2. o \in Rows /\ Shaped(o) /\ Good(o, epoch) /\ epoch # 0
    BY <1>1, MemberRow
  <1>3. m \in Rows
    BY <1>2 DEF Rows, WithRole
  <1>4. Good(m, epoch)
    BY <1>2, <1>3 DEF Good, Shaped, Standing, WithRole
  <1> QED BY <1>2, <1>4

LEMMA SetRoleRowInv ==
    ASSUME RowInv, NEW u \in Users, NEW target \in Users, NEW role \in Roles,
           SetRole(u, target, role)
    PROVE  RowInv'
  <1> DEFINE m == WithRole(row[target], role)
  <1>1. RoleAdmits(u, target, role) /\ row' = [row EXCEPT ![target] = m]
    BY DEF SetRole
  <1>2. Good(m, epoch) /\ epoch # 0
    BY <1>1, RoleRow
  <1>3. UNCHANGED <<epoch, pending, account, flips, fp, hooks, held, req, given>>
    BY DEF SetRole
  <1>4. /\ pending' \in Pendings \cup {NoPending}
        /\ hooks' \subseteq Hooks
        /\ req' \in [Users -> Reqs \cup {NoReq}]
        /\ given' \subseteq Users
    BY <1>3 DEF RowInv, MembersTypeOK
  <1> HIDE DEF m
  <1> QED BY <1>1, <1>2, <1>3, <1>4, OneRow

LEMMA UpdateRowInv ==
    ASSUME RowInv, NEW u \in Users, NEW target \in Users, NEW role \in Roles,
           Update(u, target, role)
    PROVE  RowInv'
  <1> DEFINE m == WithRole(row[target], role)
  <1>1. RoleAdmits(u, target, role) /\ row' = [row EXCEPT ![target] = m]
    BY DEF Update
  <1>2. Good(m, epoch) /\ epoch # 0
    BY <1>1, RoleRow
  <1>3. UNCHANGED <<epoch, pending, account, flips, fp, hooks, held, given>>
    BY DEF Update
  <1>4. PICK key \in held[u] : req' = [req EXCEPT ![u] =
           [op |-> "assigned", target |-> target, role |-> "reader", key |-> key, fp |-> fp[target]]]
    BY DEF Update
  <1>5. [op |-> "assigned", target |-> target, role |-> "reader", key |-> key, fp |-> fp[target]]
          \in Reqs
    BY <1>4, SharedVaultsAssumption DEF Reqs, Ops, RowInv, MembersTypeOK
  <1>6. /\ pending' \in Pendings \cup {NoPending}
        /\ hooks' \subseteq Hooks
        /\ req' \in [Users -> Reqs \cup {NoReq}]
        /\ given' \subseteq Users
    BY <1>3, <1>4, <1>5 DEF RowInv, MembersTypeOK
  <1> HIDE DEF m
  <1> QED BY <1>1, <1>2, <1>3, <1>6, OneRow

LEMMA AcceptRowInv ==
    ASSUME RowInv, NEW u \in Users, Accept(u)
    PROVE  RowInv'
  <1> DEFINE o == row[u]
             m == WithState(o, "active", o.from, 1)
  <1>1. o # NoRow
    BY DEF Accept, NoRow
  <1>2. o \in Rows /\ Shaped(o) /\ Good(o, epoch) /\ epoch # 0
    BY <1>1, MemberRow
  <1>3. o.state = "invited"
    BY DEF Accept
  <1>4. m \in Rows
    BY <1>2 DEF WithState, Rows, States
  <1>5. Good(m, epoch)
    BY <1>2, <1>3, <1>4 DEF Good, Shaped, Standing, WithState
  <1>6. row' = [row EXCEPT ![u] = m]
    BY DEF Accept
  <1>7. UNCHANGED <<epoch, pending, account, flips, fp, hooks, held, req, given>>
    BY DEF Accept
  <1>8. /\ pending' \in Pendings \cup {NoPending}
        /\ hooks' \subseteq Hooks
        /\ req' \in [Users -> Reqs \cup {NoReq}]
        /\ given' \subseteq Users
    BY <1>7 DEF RowInv, MembersTypeOK
  <1> HIDE DEF o, m
  <1> QED BY <1>2, <1>5, <1>6, <1>7, <1>8, OneRow

(* A departure is flagged with a reason, so the flag is never the absent one. *)
LEMMA DepartureFlags ==
    ASSUME NEW actor, NEW target \in Users
    PROVE  Departure(actor, target) \in Pendings /\ Departure(actor, target) # NoPending
  <1> DEFINE why == IF actor # target THEN "removed"
                    ELSE IF row[target].state = "invited" THEN "declined" ELSE "left"
  <1>1. why \in {"removed", "declined", "left"}
    OBVIOUS
  <1>2. Departure(actor, target) = [user |-> target, reason |-> why]
    BY DEF Departure
  <1> HIDE DEF why
  <1> QED BY <1>1, <1>2 DEF Pendings, NoPending

LEMMA RemoveRowInv ==
    ASSUME RowInv, NEW actor, NEW target \in Users, Remove(actor, target)
    PROVE  RowInv'
  <1>1. row[target] # NoRow
    BY DEF Remove, Members
  <1>2. epoch # 0
    BY <1>1, MemberRow
  <1>3. row' = [row EXCEPT ![target] = NoRow]
    BY DEF Remove
  <1>4. UNCHANGED <<epoch, account, flips, fp, hooks, held, req, given>>
    BY DEF Remove
  <1>5. /\ hooks' \subseteq Hooks
        /\ req' \in [Users -> Reqs \cup {NoReq}]
        /\ given' \subseteq Users
    BY <1>4 DEF RowInv, MembersTypeOK
  <1>6. pending' \in Pendings \cup {NoPending}
    BY DepartureFlags DEF Remove
  <1> QED BY <1>2, <1>3, <1>4, <1>5, <1>6, OneRow

(* What a rotation does to each row: a named member's is sealed to the     *)
(* published key at the next epoch, any other member's goes stale.         *)
LEMMA RotatedRow ==
    ASSUME RowInv, NEW u \in Users, NEW named, NEW to, Rotate(u, named, to), NEW v \in Users
    PROVE  \/ row[v] = NoRow /\ row'[v] = NoRow /\ v \notin named
           \/ /\ row[v] \in Rows
              /\ Shaped(row[v])
              /\ v \in named
              /\ fp[v] \in Nat \ {0}
              /\ row'[v] = Sealed(row[v], epoch + 1, fp[v], epoch + 1, "rotated")
           \/ /\ row[v] \in Rows
              /\ Shaped(row[v])
              /\ v \notin named
              /\ row'[v] = LandOn(row[v], "stale")
  <1>1. named \subseteq Members /\ \A x \in named : to[x] = fp[x] /\ fp[x] # 0
    BY DEF Rotate, Verified
  <1>2. row'[v] = IF v \in named THEN Sealed(row[v], epoch + 1, to[v], epoch + 1, "rotated")
                  ELSE IF v \in Members THEN LandOn(row[v], "stale") ELSE NoRow
    BY DEF Rotate
  <1>3. v \in Members <=> row[v] # NoRow
    BY DEF Members
  <1>4. row[v] # NoRow => row[v] \in Rows /\ Shaped(row[v])
    BY MemberRow
  <1>5. fp[v] \in Nat
    BY DEF RowInv, MembersTypeOK
  <1>6. CASE v \in named
    BY <1>1, <1>2, <1>3, <1>4, <1>5, <1>6
  <1>7. CASE v \notin named
    BY <1>2, <1>3, <1>4, <1>7
  <1> QED BY <1>6, <1>7

LEMMA RotateRowInv ==
    ASSUME RowInv, NEW u \in Users, NEW named, NEW to, Rotate(u, named, to)
    PROVE  RowInv'
  <1>1. epoch \in Nat /\ epoch + 1 \in Nat /\ "stale" \in Resumable
    BY DEF RowInv, MembersTypeOK, Resumable, States
  <1>2. /\ epoch' = epoch + 1
        /\ pending' = NoPending
        /\ held' = [held EXCEPT ![u] = @ \cup {epoch + 1}]
        /\ given' = named
        /\ named \subseteq Users
        /\ UNCHANGED <<account, flips, fp, hooks, req>>
    BY DEF Rotate, Members
  <1>3. ASSUME NEW v \in Users
        PROVE  row'[v] = NoRow \/ Good(row'[v], epoch + 1)
    <2>1. CASE row'[v] = NoRow
      BY <2>1
    <2>2. CASE /\ row[v] \in Rows
               /\ Shaped(row[v])
               /\ fp[v] \in Nat \ {0}
               /\ row'[v] = Sealed(row[v], epoch + 1, fp[v], epoch + 1, "rotated")
      BY <1>1, <2>2, SealedRow
    <2>3. CASE /\ row[v] \in Rows
               /\ Shaped(row[v])
               /\ row'[v] = LandOn(row[v], "stale")
      <3>1. /\ LandOn(row[v], "stale") \in Rows
            /\ Shaped(LandOn(row[v], "stale"))
            /\ Standing(LandOn(row[v], "stale")) = "stale"
        BY <1>1, <2>3, LandOnRow
      <3> QED BY <2>3, <3>1 DEF Good
    <2> QED BY <2>1, <2>2, <2>3, RotatedRow
  <1>4. row' = [v \in Users |-> row'[v]]
    BY DEF Rotate
  <1>5. row' \in [Users -> Rows \cup {NoRow}]
    <2>1. \A v \in Users : row'[v] \in Rows \cup {NoRow}
      BY <1>3 DEF Good
    <2> QED BY <1>4, <2>1
  <1>6. MembersTypeOK'
    BY <1>1, <1>2, <1>5 DEF RowInv, MembersTypeOK
  <1>7. GoodRows'
    BY <1>2, <1>3 DEF GoodRows
  <1>8. NoneBefore'
    BY <1>1, <1>2 DEF NoneBefore
  <1>9. HeldPast'
    BY <1>1, <1>2 DEF HeldPast, RowInv, MembersTypeOK
  <1> QED BY <1>6, <1>7, <1>8, <1>9 DEF RowInv

LEMMA PublishRowInv ==
    ASSUME RowInv, NEW u \in Users, Publish(u)
    PROVE  RowInv'
  <1>1. fp[u] + 1 \in Nat
    BY DEF RowInv, MembersTypeOK
  <1>2. fp' \in [Users -> Nat]
    BY <1>1 DEF RowInv, MembersTypeOK, Publish
  <1>3. [user |-> u, kind |-> "stale", fp |-> fp[u] + 1] \in Hooks
    BY <1>1 DEF Hooks
  <1>4. hooks' \subseteq Hooks
    BY <1>3 DEF RowInv, MembersTypeOK, Publish
  <1>5. MembersTypeOK'
    BY <1>2, <1>4 DEF RowInv, MembersTypeOK, Publish
  <1>6. row' = row /\ epoch' = epoch /\ held' = held
    BY DEF Publish
  <1> QED BY <1>5, <1>6, SameRows

LEMMA SetAccountActiveRowInv ==
    ASSUME RowInv, NEW u \in Users, NEW on \in {"on", "off"}, SetAccountActive(u, on)
    PROVE  RowInv'
  <1>1. [user |-> u, kind |-> IF on = "on" THEN "restore" ELSE "suspend", fp |-> 0] \in Hooks
    BY DEF Hooks
  <1>2. hooks' \subseteq Hooks
    BY <1>1 DEF RowInv, MembersTypeOK, SetAccountActive
  <1>3. MembersTypeOK'
    BY <1>2 DEF RowInv, MembersTypeOK, SetAccountActive
  <1>4. row' = row /\ epoch' = epoch /\ held' = held
    BY DEF SetAccountActive
  <1> QED BY <1>3, <1>4, SameRows

LEMMA RunHookRowInv ==
    ASSUME RowInv, NEW h \in hooks, RunHook(h)
    PROVE  RowInv'
  <1> DEFINE v == h.user
             m == Marked(row[v], h)
  <1>1. h \in Hooks /\ v \in Users
    BY DEF RowInv, MembersTypeOK, Hooks
  <1>2. UNCHANGED <<epoch, pending, account, flips, fp, held, req, given>> /\ hooks' \subseteq Hooks
    BY DEF RunHook, RowInv, MembersTypeOK
  <1>3. CASE v \in Members
    <2>1. row[v] # NoRow
      BY <1>3 DEF Members
    <2>2. row[v] \in Rows /\ Shaped(row[v]) /\ Good(row[v], epoch) /\ epoch # 0
      BY <1>1, <2>1, MemberRow
    <2>3. /\ m \in Rows
          /\ Shaped(m)
          /\ Standing(m) \in {Standing(row[v]), "stale"}
          /\ m.epoch = row[v].epoch
          /\ m.joined = row[v].joined
      BY <1>1, <2>2, MarkedRow
    <2>4. Good(m, epoch)
      BY <2>2, <2>3 DEF Good
    <2>5. row' = [row EXCEPT ![v] = m]
      BY <1>3 DEF RunHook
    <2>6. /\ pending' \in Pendings \cup {NoPending}
          /\ req' \in [Users -> Reqs \cup {NoReq}]
          /\ given' \subseteq Users
      BY <1>2 DEF RowInv, MembersTypeOK
    <2> HIDE DEF m, v
    <2> QED BY <1>1, <1>2, <2>2, <2>4, <2>5, <2>6, OneRow
  <1>4. CASE v \notin Members
    <2>1. row' = row
      BY <1>4 DEF RunHook
    <2>2. MembersTypeOK'
      BY <1>2, <2>1 DEF RowInv, MembersTypeOK
    <2> QED BY <1>2, <2>1, <2>2, SameRows
  <1> QED BY <1>3, <1>4

LEMMA NextRowInv == RowInv /\ [MembersNext]_membersVars => RowInv'
  <1> SUFFICES ASSUME RowInv, [MembersNext]_membersVars PROVE RowInv'
    OBVIOUS
  <1> USE DEF MembersNext
  <1>1. ASSUME NEW u \in Users, Open(u) PROVE RowInv'
    BY <1>1, OpenRowInv
  <1>2. ASSUME NEW u \in Users, AskCreate(u) PROVE RowInv'
    <2>1. Ask(u, "create", u, "owner", 1) /\ "owner" \in Roles
      BY <1>2, SharedVaultsAssumption DEF AskCreate
    <2> QED BY <2>1, AskRowInv
  <1>3. ASSUME NEW u \in Users, NEW target \in Users, NEW role \in Roles, AskInvite(u, target, role)
        PROVE  RowInv'
    <2>1. PICK key \in held[u] : Ask(u, "invite", target, role, key)
      BY <1>3 DEF AskInvite
    <2>2. key \in Nat
      BY <2>1 DEF RowInv, MembersTypeOK
    <2> QED BY <2>1, <2>2, AskRowInv
  <1>4. ASSUME NEW u \in Users, NEW target \in Users, AskReseal(u, target) PROVE RowInv'
    <2>1. PICK key \in held[u] : Ask(u, "reseal", target, "reader", key)
      BY <1>4 DEF AskReseal
    <2>2. key \in Nat /\ "reader" \in Roles
      BY <2>1, SharedVaultsAssumption DEF RowInv, MembersTypeOK
    <2> QED BY <2>1, <2>2, AskRowInv
  <1>5. ASSUME NEW u \in Users, Create(u) PROVE RowInv'
    BY <1>5, CreateRowInv
  <1>6. ASSUME NEW u \in Users, Invite(u) PROVE RowInv'
    BY <1>6, InviteRowInv
  <1>7. ASSUME NEW u \in Users, Reseal(u) PROVE RowInv'
    BY <1>7, ResealRowInv
  <1>8. ASSUME NEW u \in Users, NEW target \in Users, NEW role \in Roles, SetRole(u, target, role)
        PROVE  RowInv'
    BY <1>8, SetRoleRowInv
  <1>9. ASSUME NEW u \in Users, NEW target \in Users, NEW role \in Roles, Update(u, target, role)
        PROVE  RowInv'
    BY <1>9, UpdateRowInv
  <1>10. ASSUME NEW u \in Users, Accept(u) PROVE RowInv'
    BY <1>10, AcceptRowInv
  <1>11. ASSUME NEW actor, NEW target \in Users, Remove(actor, target) PROVE RowInv'
    BY <1>11, RemoveRowInv
  <1>12. ASSUME NEW u \in Users, NEW named, NEW to, Rotate(u, named, to) PROVE RowInv'
    BY <1>12, RotateRowInv
  <1>13. ASSUME NEW u \in Users, Publish(u) PROVE RowInv'
    BY <1>13, PublishRowInv
  <1>14. ASSUME NEW u \in Users, NEW on \in {"on", "off"}, SetAccountActive(u, on) PROVE RowInv'
    BY <1>14, SetAccountActiveRowInv
  <1>15. ASSUME NEW h \in hooks, RunHook(h) PROVE RowInv'
    BY <1>15, RunHookRowInv
  <1>16. CASE UNCHANGED membersVars
    BY <1>16 DEF membersVars, RowInv, MembersTypeOK, GoodRows, NoneBefore, HeldPast
  <1> QED
    BY <1>1, <1>2, <1>3, <1>4, <1>5, <1>6, <1>7, <1>8, <1>9, <1>10, <1>11, <1>12, <1>13, <1>14, <1>15, <1>16

LEMMA RowInvHolds == MembersSpec => []RowInv
  BY InitRowInv, NextRowInv, PTL DEF MembersSpec

(* The record keeps its type, validSuspendedFrom's domain included, through *)
(* any order of requests, rotations and hooks.                              *)
THEOREM MembersTypesHold == MembersSpec => []MembersTypeOK
  <1>1. RowInv => MembersTypeOK
    BY DEF RowInv
  <1> QED BY RowInvHolds, <1>1, PTL

(* A row that lets its member in, or resumes to one that does, is of the   *)
(* vault's epoch and active exactly when the invitation was accepted.      *)
THEOREM RowsUsable == MembersSpec => []RowsAreUsable
  <1>1. RowInv => RowsAreUsable
    BY DEF RowInv, GoodRows, Good, RowsAreUsable, Members
  <1> QED BY RowInvHolds, <1>1, PTL

-----------------------------------------------------------------------------
(* A departed member's copy stays flagged.                                 *)

(* Steps that seal a copy only for a member and remove no one. *)
LEMMA KeepsFlag ==
    ASSUME DepartureIsFlagged, epoch' = epoch, pending' = pending,
           \A v \in Users : row'[v] = NoRow =>
             /\ row[v] = NoRow
             /\ v \in given' => v \in given
             /\ epoch \in held'[v] => epoch \in held[v]
    PROVE  DepartureIsFlagged'
  BY DEF DepartureIsFlagged, Members

LEMMA NextFlagged ==
    ASSUME RowInv, DepartureIsFlagged, [MembersNext]_membersVars
    PROVE  DepartureIsFlagged'
  <1> USE DEF MembersNext
  <1>1. ASSUME NEW u \in Users, Open(u) PROVE DepartureIsFlagged'
    <2>1. row[u] # NoRow
      BY <1>1 DEF Open, NoRow
    <2>2. row' = row /\ epoch' = epoch /\ pending' = pending /\ given' = given
      BY <1>1 DEF Open
    <2>3. \A v \in Users : v # u => held'[v] = held[v]
      BY <1>1 DEF Open, RowInv, MembersTypeOK
    <2> QED BY <2>1, <2>2, <2>3, KeepsFlag
  <1>2. ASSUME NEW u \in Users, NEW op, NEW target, NEW role, NEW key, Ask(u, op, target, role, key)
        PROVE  DepartureIsFlagged'
    <2>1. /\ row' = row /\ epoch' = epoch /\ pending' = pending
          /\ given' = given /\ held' = held
      BY <1>2 DEF Ask
    <2> QED BY <2>1, KeepsFlag
  <1>3. ASSUME NEW u \in Users, Create(u) PROVE DepartureIsFlagged'
    <2>1. CASE epoch # 0
      <3>1. /\ row' = row /\ epoch' = epoch /\ pending' = pending
            /\ given' = given /\ held' = held
        BY <1>3, <2>1 DEF Create
      <3> QED BY <3>1, KeepsFlag
    <2>2. CASE epoch = 0
      <3>1. epoch' = 1 /\ given' = {u} /\ held' = held
        BY <1>3, <2>2 DEF Create
      <3>2. row'[u].role = "owner"
        BY <1>3, <2>2 DEF Create, RowInv, MembersTypeOK
      <3>3. row'[u] # NoRow
        BY <3>2 DEF NoRow
      <3>4. \A v \in Users : held[v] \subseteq 1..0
        BY <2>2 DEF RowInv, HeldPast
      <3>5. \A v \in Users : 1 \notin held'[v]
        BY <3>1, <3>4
      <3> QED BY <3>1, <3>3, <3>5 DEF DepartureIsFlagged, Members
    <2> QED BY <2>1, <2>2
  <1>4. ASSUME NEW u \in Users, Invite(u) PROVE DepartureIsFlagged'
    <2> DEFINE t == req[u].target
    <2>1. t \in Users
      BY <1>4 DEF Invite, RowInv, MembersTypeOK, Reqs, NoReq
    <2>2. epoch' = epoch /\ pending' = pending /\ held' = held
      BY <1>4 DEF Invite
    <2>3. \/ row' = row /\ given' = given
          \/ /\ row'[t].state = "invited"
             /\ \A v \in Users \ {t} : row'[v] = row[v]
             /\ given' \subseteq given \cup {t}
      BY <1>4, <2>1 DEF Invite, RowInv, MembersTypeOK, Given
    <2>4. row'[t].state = "invited" => row'[t] # NoRow
      BY DEF NoRow
    <2> QED BY <2>2, <2>3, <2>4, KeepsFlag
  <1>5. ASSUME NEW u \in Users, Reseal(u) PROVE DepartureIsFlagged'
    <2> DEFINE t == req[u].target
               m == Sealed(row[t], req[u].key, req[u].fp, epoch, "checked")
    <2>1. t \in Users /\ req[u].key \in Nat /\ req[u].fp \in Nat
      BY <1>5 DEF Reseal, RowInv, MembersTypeOK, Reqs, NoReq
    <2>2. epoch' = epoch /\ pending' = pending /\ held' = held /\ epoch \in Nat
      BY <1>5 DEF Reseal, RowInv, MembersTypeOK
    <2>3. \/ row' = row /\ given' = given
          \/ /\ row[t] # NoRow
             /\ row'[t] = m
             /\ \A v \in Users \ {t} : row'[v] = row[v]
             /\ given' \subseteq given \cup {t}
      BY <1>5, <2>1 DEF Reseal, ResealAdmits, Members, RowInv, MembersTypeOK, Given
    <2>4. ASSUME row[t] # NoRow PROVE m # NoRow
      <3> DEFINE k == req[u].key
                 f == req[u].fp
      <3>1. k \in Nat /\ f \in Nat /\ epoch \in Nat /\ t \in Users /\ row[t] # NoRow
        BY <2>1, <2>2, <2>4
      <3> HIDE DEF k, f, t
      <3>2. row[t] \in Rows /\ Shaped(row[t])
        BY <3>1, MemberRow
      <3>3. Sealed(row[t], k, f, epoch, "checked") \in Rows
        BY <3>1, <3>2, SealedRow
      <3> QED BY <3>3, NoRowIsNoRow DEF k, f
    <2> HIDE DEF m, t
    <2> QED BY <2>1, <2>2, <2>3, <2>4, KeepsFlag
  <1>6. ASSUME NEW u \in Users, NEW target \in Users, NEW role \in Roles,
               SetRole(u, target, role) \/ Update(u, target, role)
        PROVE  DepartureIsFlagged'
    <2>1. /\ epoch' = epoch /\ pending' = pending /\ held' = held /\ given' = given
          /\ RoleAdmits(u, target, role)
          /\ row' = [row EXCEPT ![target] = WithRole(row[target], role)]
      BY <1>6 DEF SetRole, Update
    <2>2. \A v \in Users : row[v] # NoRow => row'[v] # NoRow
      BY <2>1, RoleRow, NoRowIsNoRow DEF RowInv, MembersTypeOK, Good
    <2> QED BY <2>1, <2>2, KeepsFlag
  <1>7. ASSUME NEW u \in Users, Accept(u) PROVE DepartureIsFlagged'
    <2>1. /\ epoch' = epoch /\ pending' = pending /\ held' = held /\ given' = given
          /\ row' = [row EXCEPT ![u] = WithState(row[u], "active", row[u].from, 1)]
      BY <1>7 DEF Accept
    <2>2. WithState(row[u], "active", row[u].from, 1) # NoRow
      BY DEF WithState, NoRow
    <2>3. \A v \in Users : row[v] # NoRow => row'[v] # NoRow
      BY <2>1, <2>2 DEF RowInv, MembersTypeOK
    <2> QED BY <2>1, <2>3, KeepsFlag
  <1>8. ASSUME NEW actor, NEW target \in Users, Remove(actor, target) PROVE DepartureIsFlagged'
    <2>1. pending' # NoPending
      BY <1>8, DepartureFlags DEF Remove
    <2> QED BY <2>1 DEF DepartureIsFlagged
  <1>9. ASSUME NEW u \in Users, NEW named, NEW to, Rotate(u, named, to) PROVE DepartureIsFlagged'
    <2>1. /\ epoch' = epoch + 1
          /\ given' = named
          /\ u \in named
          /\ named \subseteq Users
          /\ \A v \in named : row[v] # NoRow
          /\ \A v \in Users \ {u} : held'[v] = held[v]
      BY <1>9 DEF Rotate, Members, RowInv, MembersTypeOK
    <2>2. \A v \in Users : epoch + 1 \notin held[v]
      BY DEF RowInv, HeldPast, MembersTypeOK
    <2>3. ASSUME NEW v \in named PROVE row'[v] # NoRow
      <3>1. row'[v] = Sealed(row[v], epoch + 1, fp[v], epoch + 1, "rotated")
            /\ row[v] \in Rows /\ Shaped(row[v]) /\ fp[v] \in Nat
        BY <1>9, <2>1, RotatedRow
      <3>2. epoch + 1 \in Nat
        BY DEF RowInv, MembersTypeOK
      <3> QED BY <3>1, <3>2, SealedRow, NoRowIsNoRow
    <2> QED BY <2>1, <2>2, <2>3 DEF DepartureIsFlagged, Members
  <1>10. ASSUME NEW u \in Users, Publish(u) \/ \E on \in {"on", "off"} : SetAccountActive(u, on)
         PROVE  DepartureIsFlagged'
    <2>1. /\ row' = row /\ epoch' = epoch /\ pending' = pending
          /\ given' = given /\ held' = held
      BY <1>10 DEF Publish, SetAccountActive
    <2> QED BY <2>1, KeepsFlag
  <1>11. ASSUME NEW h \in hooks, RunHook(h) PROVE DepartureIsFlagged'
    <2>1. /\ epoch' = epoch /\ pending' = pending /\ held' = held /\ given' = given
          /\ row' = IF h.user \in Members
                      THEN [row EXCEPT ![h.user] = Marked(row[h.user], h)] ELSE row
          /\ h \in Hooks /\ h.user \in Users
      BY <1>11 DEF RunHook, RowInv, MembersTypeOK, Hooks
    <2>2. h.user \in Members => Marked(row[h.user], h) # NoRow
      BY <2>1, MemberRow, MarkedRow, NoRowIsNoRow DEF Members
    <2>3. \A v \in Users : row[v] # NoRow => row'[v] # NoRow
      BY <2>1, <2>2 DEF RowInv, MembersTypeOK
    <2> QED BY <2>1, <2>3, KeepsFlag
  <1>12. CASE UNCHANGED membersVars
    BY <1>12, KeepsFlag DEF membersVars
  <1>13. ASSUME NEW u \in Users, NEW target \in Users, NEW role,
                AskCreate(u) \/ AskInvite(u, target, role) \/ AskReseal(u, target)
         PROVE  DepartureIsFlagged'
    BY <1>2, <1>13 DEF AskCreate, AskInvite, AskReseal
  <1> QED
    BY <1>1, <1>3, <1>4, <1>5, <1>6, <1>7, <1>8, <1>9, <1>10, <1>11, <1>12, <1>13

(* Whoever left with a copy of the current key, or holds it in a tab, keeps *)
(* the vault flagged until a rotation, in any order of invitations,         *)
(* re-seals, departures and rotations.                                      *)
THEOREM DepartureFlagged == MembersSpec => []DepartureIsFlagged
  <1>1. MembersInit => DepartureIsFlagged
    BY DEF MembersInit, DepartureIsFlagged
  <1>2. RowInv /\ DepartureIsFlagged /\ [MembersNext]_membersVars => DepartureIsFlagged'
    BY NextFlagged
  <1> QED BY RowInvHolds, <1>1, <1>2, PTL DEF MembersSpec

-----------------------------------------------------------------------------
(* Rows a rotation sealed follow the user key.                             *)

(* The hook a replacement owes the rows sealed to the key it replaced.     *)
Owed(u) == [user |-> u, kind |-> "stale", fp |-> fp[u]]

Follows(u) ==
    row[u] # NoRow /\ row[u].via = "rotated" /\ Standing(row[u]) # "stale" =>
        /\ fp[u] # 0
        /\ row[u].fp = fp[u] \/ Owed(u) \in hooks

FollowInv == \A u \in Users : Follows(u)

(* Steps after which a rotated row that lets its member in is one that did, *)
(* sealed to the same key.                                                  *)
LEMMA SameFollows ==
    ASSUME NEW u \in Users, Follows(u), fp'[u] = fp[u], Owed(u) \in hooks => Owed(u) \in hooks',
           \/ row'[u] = NoRow
           \/ row'[u].via = "checked"
           \/ Standing(row'[u]) = "stale"
           \/ /\ row[u] # NoRow
              /\ row'[u].via = row[u].via
              /\ row'[u].fp = row[u].fp
              /\ Standing(row'[u]) = Standing(row[u])
    PROVE  Follows(u)'
  <1>1. Owed(u)' = Owed(u)
    BY DEF Owed
  <1> QED BY <1>1 DEF Follows, Standing

LEMMA SameFollowInv ==
    ASSUME FollowInv, fp' = fp, hooks' = hooks,
           \A u \in Users :
             \/ row'[u] = row[u]
             \/ row'[u] = NoRow
             \/ row'[u].via = "checked"
             \/ Standing(row'[u]) = "stale"
             \/ /\ row[u] # NoRow
                /\ row'[u].via = row[u].via
                /\ row'[u].fp = row[u].fp
                /\ Standing(row'[u]) = Standing(row[u])
    PROVE  FollowInv'
  <1> SUFFICES ASSUME NEW u \in Users PROVE Follows(u)'
    BY DEF FollowInv
  <1>1. Follows(u)
    BY DEF FollowInv
  <1>2. CASE row'[u] = row[u]
    BY <1>1, <1>2 DEF Follows, Owed, Standing
  <1>3. CASE row'[u] # row[u]
    <2>1. \/ row'[u] = NoRow
          \/ row'[u].via = "checked"
          \/ Standing(row'[u]) = "stale"
          \/ /\ row[u] # NoRow
             /\ row'[u].via = row[u].via
             /\ row'[u].fp = row[u].fp
             /\ Standing(row'[u]) = Standing(row[u])
      BY <1>3
    <2> QED BY <1>1, <2>1, SameFollows
  <1> QED BY <1>2, <1>3

LEMMA NextFollows ==
    ASSUME RowInv, FollowInv, [MembersNext]_membersVars
    PROVE  FollowInv'
  <1> USE DEF MembersNext
  <1>1. ASSUME row' = row, fp' = fp, hooks' = hooks PROVE FollowInv'
    BY <1>1, SameFollowInv
  <1>2. ASSUME NEW u \in Users, Create(u) PROVE FollowInv'
    <2>1. fp' = fp /\ hooks' = hooks
      BY <1>2 DEF Create
    <2>2. \A v \in Users : row'[v] = row[v] \/ row'[v].via = "checked"
      BY <1>2 DEF Create, RowInv, MembersTypeOK
    <2> QED BY <2>1, <2>2, SameFollowInv
  <1>3. ASSUME NEW u \in Users, Invite(u) PROVE FollowInv'
    <2>1. fp' = fp /\ hooks' = hooks
      BY <1>3 DEF Invite
    <2>2. \A v \in Users : row'[v] = row[v] \/ row'[v].via = "checked"
      BY <1>3 DEF Invite, RowInv, MembersTypeOK
    <2> QED BY <2>1, <2>2, SameFollowInv
  <1>4. ASSUME NEW u \in Users, Reseal(u) PROVE FollowInv'
    <2> DEFINE t == req[u].target
               m == Sealed(row[t], req[u].key, req[u].fp, epoch, "checked")
    <2>1. fp' = fp /\ hooks' = hooks
      BY <1>4 DEF Reseal
    <2>2. \/ row' = row
          \/ row' = [row EXCEPT ![t] = m]
      BY <1>4 DEF Reseal
    <2>3. m.via = "checked"
      BY DEF Sealed, LandOn
    <2> HIDE DEF m, t
    <2>4. \A v \in Users : row'[v] = row[v] \/ row'[v].via = "checked"
      BY <2>2, <2>3 DEF RowInv, MembersTypeOK
    <2> QED BY <2>1, <2>4, SameFollowInv
  <1>5. ASSUME NEW u \in Users, NEW target \in Users, NEW role \in Roles,
               SetRole(u, target, role) \/ Update(u, target, role)
        PROVE  FollowInv'
    <2> DEFINE m == WithRole(row[target], role)
    <2>1. /\ fp' = fp /\ hooks' = hooks
          /\ row' = [row EXCEPT ![target] = m]
          /\ row[target] # NoRow
      BY <1>5 DEF SetRole, Update, RoleAdmits, Members
    <2>2. /\ m.via = row[target].via
          /\ m.fp = row[target].fp
          /\ Standing(m) = Standing(row[target])
      BY DEF WithRole, Standing
    <2> HIDE DEF m
    <2>3. \A v \in Users : row'[v] = row[v] \/ (v = target /\ row'[v] = m)
      BY <2>1 DEF RowInv, MembersTypeOK
    <2> QED BY <2>1, <2>2, <2>3, SameFollowInv
  <1>6. ASSUME NEW u \in Users, Accept(u) PROVE FollowInv'
    <2> DEFINE m == WithState(row[u], "active", row[u].from, 1)
    <2>1. /\ fp' = fp /\ hooks' = hooks
          /\ row' = [row EXCEPT ![u] = m]
          /\ row[u].state = "invited"
      BY <1>6 DEF Accept
    <2>2. m.via = row[u].via /\ m.fp = row[u].fp
      BY DEF WithState
    <2>3. row[u] # NoRow
      BY <2>1 DEF NoRow
    <2>4. Standing(row[u]) # "stale"
      BY <2>1 DEF Standing
    <2> HIDE DEF m
    <2> SUFFICES ASSUME NEW v \in Users PROVE Follows(v)'
      BY DEF FollowInv
    <2>5. Follows(v)
      BY DEF FollowInv
    <2>6. row'[v] = IF v = u THEN m ELSE row[v]
      BY <2>1 DEF RowInv, MembersTypeOK
    <2> QED BY <2>1, <2>2, <2>3, <2>4, <2>5, <2>6 DEF Follows, Owed
  <1>7. ASSUME NEW actor, NEW target \in Users, Remove(actor, target) PROVE FollowInv'
    <2>1. fp' = fp /\ hooks' = hooks
      BY <1>7 DEF Remove
    <2>2. \A v \in Users : row'[v] = row[v] \/ row'[v] = NoRow
      BY <1>7 DEF Remove, RowInv, MembersTypeOK
    <2> QED BY <2>1, <2>2, SameFollowInv
  <1>8. ASSUME NEW u \in Users, NEW named, NEW to, Rotate(u, named, to) PROVE FollowInv'
    <2>1. fp' = fp /\ hooks' = hooks /\ epoch + 1 \in Nat
      BY <1>8 DEF Rotate, RowInv, MembersTypeOK
    <2> SUFFICES ASSUME NEW v \in Users PROVE Follows(v)'
      BY DEF FollowInv
    <2>2. CASE row'[v] = NoRow
      BY <2>2 DEF Follows
    <2>3. CASE /\ row[v] \in Rows /\ Shaped(row[v]) /\ fp[v] \in Nat \ {0}
               /\ row'[v] = Sealed(row[v], epoch + 1, fp[v], epoch + 1, "rotated")
      <3>1. row'[v].fp = fp[v]
        BY <2>1, <2>3, SealedRow
      <3> QED BY <2>1, <2>3, <3>1 DEF Follows
    <2>4. CASE row[v] \in Rows /\ Shaped(row[v]) /\ row'[v] = LandOn(row[v], "stale")
      <3>1. Standing(LandOn(row[v], "stale")) = "stale"
        BY <2>4, LandOnRow DEF Resumable, States
      <3>2. Standing(row'[v]) = "stale"
        BY <2>4, <3>1
      <3> QED BY <3>2 DEF Follows, Standing
    <2> QED BY <1>8, <2>2, <2>3, <2>4, RotatedRow
  <1>9. ASSUME NEW u \in Users, Publish(u) PROVE FollowInv'
    <2>1. /\ row' = row
          /\ fp[u] \in Nat
          /\ fp' = [fp EXCEPT ![u] = fp[u] + 1]
          /\ hooks' = IF fp[u] = 0 THEN hooks
                      ELSE hooks \cup {[user |-> u, kind |-> "stale", fp |-> fp[u] + 1]}
      BY <1>9 DEF Publish, RowInv, MembersTypeOK
    <2> SUFFICES ASSUME NEW v \in Users PROVE Follows(v)'
      BY DEF FollowInv
    <2>2. Follows(v)
      BY DEF FollowInv
    <2>3. CASE v # u
      <3>1. fp'[v] = fp[v] /\ hooks \subseteq hooks'
        BY <2>1, <2>3 DEF RowInv, MembersTypeOK
      <3> QED BY <2>1, <2>2, <3>1 DEF Follows, Owed, Standing
    <2>4. CASE v = u
      <3>1. fp'[v] = fp[v] + 1 /\ fp'[v] # 0
        BY <2>1, <2>4 DEF RowInv, MembersTypeOK
      <3>2. fp[v] # 0 => Owed(v)' \in hooks'
        BY <2>1, <2>4, <3>1 DEF Owed
      <3> QED BY <2>1, <2>2, <3>1, <3>2 DEF Follows, Standing
    <2> QED BY <2>3, <2>4
  <1>10. ASSUME NEW u \in Users, NEW on, SetAccountActive(u, on) PROVE FollowInv'
    <2>1. row' = row /\ fp' = fp /\ hooks \subseteq hooks'
      BY <1>10 DEF SetAccountActive
    <2> QED BY <2>1 DEF FollowInv, Follows, Owed, Standing
  <1>11. ASSUME NEW h \in hooks, RunHook(h) PROVE FollowInv'
    <2>1. h \in Hooks /\ h.user \in Users
      BY <1>11 DEF RowInv, MembersTypeOK, Hooks
    <2>2. fp' = fp /\ hooks' = hooks \ {h}
      BY <1>11 DEF RunHook
    <2> SUFFICES ASSUME NEW v \in Users PROVE Follows(v)'
      BY DEF FollowInv
    <2>3. Follows(v)
      BY DEF FollowInv
    <2>4. Owed(v)' = Owed(v) /\ Owed(v).user = v /\ Owed(v).kind = "stale" /\ Owed(v).fp = fp[v]
      BY <2>2 DEF Owed
    <2>5. CASE v # h.user \/ v \notin Members
      <3>1. row'[v] = row[v]
        BY <1>11, <2>5 DEF RunHook, RowInv, MembersTypeOK
      <3>2. v # h.user => h # Owed(v)
        BY <2>4
      <3> QED BY <2>2, <2>3, <2>4, <2>5, <3>1, <3>2 DEF Follows, Standing, Members
    <2>6. CASE v = h.user /\ v \in Members
      <3>1. row[v] # NoRow /\ row[v] \in Rows /\ Shaped(row[v])
        BY <2>6, MemberRow DEF Members
      <3>2. row'[v] = Marked(row[v], h)
        BY <1>11, <2>6 DEF RunHook, RowInv, MembersTypeOK
      <3>3. /\ Standing(Marked(row[v], h)) \in {Standing(row[v]), "stale"}
            /\ Marked(row[v], h).fp = row[v].fp
            /\ Marked(row[v], h).via = row[v].via
            /\ h.kind = "stale" /\ row[v].fp # h.fp => Standing(Marked(row[v], h)) = "stale"
        BY <2>1, <3>1, MarkedRow
      <3>4. Standing(row[v])' = Standing(Marked(row[v], h))
        BY <3>2 DEF Standing
      <3>5. h = Owed(v) => row[v].fp = fp[v] \/ Standing(row[v])' = "stale"
        BY <2>4, <3>3, <3>4
      <3> QED BY <2>2, <2>3, <2>4, <3>1, <3>2, <3>3, <3>4, <3>5 DEF Follows
    <2> QED BY <2>5, <2>6
  <1>12. ASSUME NEW u \in Users, Open(u) PROVE FollowInv'
    BY <1>1, <1>12 DEF Open
  <1>13. ASSUME NEW u \in Users, NEW target \in Users, NEW role,
                AskCreate(u) \/ AskInvite(u, target, role) \/ AskReseal(u, target)
         PROVE  FollowInv'
    BY <1>1, <1>13 DEF AskCreate, AskInvite, AskReseal, Ask
  <1>14. CASE UNCHANGED membersVars
    BY <1>1, <1>14 DEF membersVars
  <1> QED
    BY <1>2, <1>3, <1>4, <1>5, <1>6, <1>7, <1>8, <1>9, <1>10, <1>11, <1>12, <1>13, <1>14

(* Once the hooks of a user have run, a row a rotation sealed lets that     *)
(* user in only while it is sealed to the key the user publishes.           *)
THEOREM RotatedFollow == MembersSpec => []RotatedRowsFollowKey
  <1>1. MembersInit => FollowInv
    BY DEF MembersInit, FollowInv, Follows
  <1>2. RowInv /\ FollowInv /\ [MembersNext]_membersVars => FollowInv'
    BY NextFollows
  <1>3. FollowInv => RotatedRowsFollowKey
    <2> SUFFICES ASSUME FollowInv, NEW u \in Members, HooksDone(u),
                        row[u].via = "rotated", Standing(row[u]) # "stale"
                 PROVE  row[u].fp = fp[u]
      BY DEF RotatedRowsFollowKey
    <2>1. Owed(u).user = u
      BY DEF Owed
    <2>2. Owed(u) \notin hooks
      BY <2>1 DEF HooksDone
    <2> QED BY <2>2 DEF FollowInv, Follows, Members
  <1> QED BY RowInvHolds, <1>1, <1>2, <1>3, PTL DEF MembersSpec

-----------------------------------------------------------------------------
(* The last owner.                                                         *)

OwnerLost ==
    \/ hooks' # hooks
    \/ /\ pending'.reason = "removed"
       /\ pending'.user \in ActiveOwners \ Members'

(* A step that spares some active owner, or that no owner is there for. *)
LEMMA SparesOwner ==
    ASSUME \A v \in Users : ActiveOwner(v) => \E w \in Users : ActiveOwner(w)'
    PROVE  ActiveOwners # {} /\ ActiveOwners' = {} => OwnerLost
  BY DEF ActiveOwners

(* A row that is sealed again leaves an active owner one: it had accepted. *)
LEMMA SealedOwner ==
    ASSUME RowInv, NEW v \in Users, ActiveOwner(v),
           NEW key \in Nat, NEW to \in Nat, NEW via \in {"checked", "rotated"}, NEW at \in Nat
    PROVE  /\ Sealed(row[v], key, to, at, via).role = "owner"
           /\ Sealed(row[v], key, to, at, via).state = "active"
  <1>1. row[v] \in Rows /\ Shaped(row[v]) /\ Good(row[v], epoch)
    BY OwnerIsMember, MemberRow
  <1>2. row[v].role = "owner" /\ row[v].state = "active" /\ Standing(row[v]) = "active"
    BY DEF ActiveOwner, Standing
  <1>3. FreshState(row[v]) = "active"
    BY <1>1, <1>2 DEF Good, FreshState
  <1>4. /\ Sealed(row[v], key, to, at, via).role = row[v].role
        /\ row[v].state # "suspended" => Sealed(row[v], key, to, at, via).state = FreshState(row[v])
    BY <1>1, SealedRow
  <1> QED BY <1>2, <1>3, <1>4

LEMMA NextOwner ==
    ASSUME RowInv, [MembersNext]_membersVars
    PROVE  ActiveOwners # {} /\ ActiveOwners' = {} => OwnerLost
  <1> DEFINE Goal == ActiveOwners # {} /\ ActiveOwners' = {} => OwnerLost
  <1> USE DEF MembersNext
  <1>1. ASSUME row' = row PROVE Goal
    BY <1>1, SparesOwner DEF ActiveOwner
  <1>2. ASSUME NEW u \in Users, Create(u) PROVE Goal
    <2>1. CASE epoch = 0
      <3>1. \A v \in Users : ~ActiveOwner(v)
        BY <2>1, OwnerIsMember DEF RowInv, NoneBefore
      <3> QED BY <3>1, SparesOwner
    <2>2. CASE epoch # 0
      BY <1>1, <1>2, <2>2 DEF Create
    <2> QED BY <2>1, <2>2
  <1>3. ASSUME NEW u \in Users, Invite(u) PROVE Goal
    <2>1. CASE row' = row
      BY <1>1, <2>1
    <2>2. CASE row' # row
      <3>1. /\ req[u].target \notin Members
            /\ \A v \in Users : v # req[u].target => row'[v] = row[v]
        BY <1>3, <2>2 DEF Invite, RowInv, MembersTypeOK
      <3>2. \A v \in Users : ActiveOwner(v) => ActiveOwner(v)'
        BY <3>1, OwnerIsMember DEF Members, ActiveOwner
      <3> QED BY <3>2, SparesOwner
    <2> QED BY <2>1, <2>2
  <1>4. ASSUME NEW u \in Users, Reseal(u) PROVE Goal
    <2> DEFINE t == req[u].target
               m == Sealed(row[t], req[u].key, req[u].fp, epoch, "checked")
    <2>1. req[u].key \in Nat /\ req[u].fp \in Nat /\ epoch \in Nat /\ t \in Users
      BY <1>4 DEF Reseal, RowInv, MembersTypeOK, Reqs, NoReq
    <2>2. row' = row \/ row' = [row EXCEPT ![t] = m]
      BY <1>4 DEF Reseal
    <2>3. ASSUME ActiveOwner(t) PROVE m.role = "owner" /\ m.state = "active"
      <3>1. "checked" \in {"checked", "rotated"}
        OBVIOUS
      <3> DEFINE k == req[u].key
                 f == req[u].fp
      <3>2. k \in Nat /\ f \in Nat /\ epoch \in Nat /\ t \in Users /\ ActiveOwner(t)
        BY <2>1, <2>3
      <3> HIDE DEF k, f, t
      <3>3. /\ Sealed(row[t], k, f, epoch, "checked").role = "owner"
            /\ Sealed(row[t], k, f, epoch, "checked").state = "active"
        BY <3>1, <3>2, SealedOwner
      <3> QED BY <3>3 DEF k, f
    <2> HIDE DEF m, t
    <2>4. \A v \in Users : row'[v] = row[v] \/ (v = t /\ row'[v] = m)
      BY <2>2 DEF RowInv, MembersTypeOK
    <2>5. \A v \in Users : ActiveOwner(v) => ActiveOwner(v)'
      BY <2>3, <2>4 DEF ActiveOwner
    <2> QED BY <2>5, SparesOwner
  <1>5. ASSUME NEW u \in Users, NEW target \in Users, NEW role \in Roles,
               SetRole(u, target, role) \/ Update(u, target, role)
        PROVE  Goal
    <2>1. /\ row' = [row EXCEPT ![target] = WithRole(row[target], role)]
          /\ Demotable(target, role)
      BY <1>5 DEF SetRole, Update, RoleAdmits
    <2>2. \A v \in Users : row'[v] = IF v = target THEN WithRole(row[v], role) ELSE row[v]
      BY <2>1 DEF RowInv, MembersTypeOK
    <2>3. \A v \in Users : v # target /\ ActiveOwner(v) => ActiveOwner(v)'
      BY <2>2 DEF ActiveOwner
    <2>4. CASE ActiveOwner(target) /\ role # "owner"
      <3>1. ActiveOwners # {target} /\ target \in ActiveOwners
        BY <2>1, <2>4 DEF Demotable, OnlyActiveOwner, ActiveOwners
      <3>2. PICK w \in ActiveOwners : w # target
        BY <3>1
      <3>3. w \in Users /\ ActiveOwner(w)'
        BY <2>3, <3>2 DEF ActiveOwners
      <3> QED BY <3>3, SparesOwner
    <2>5. CASE ActiveOwner(target) /\ role = "owner"
      <3>1. ActiveOwner(target)'
        <4>1. row'[target] = WithRole(row[target], role)
          BY <2>2
        <4>2. WithRole(row[target], role).role = role
              /\ WithRole(row[target], role).state = row[target].state
          BY DEF WithRole
        <4> QED BY <2>5, <4>1, <4>2 DEF ActiveOwner
      <3> QED BY <3>1, SparesOwner
    <2>6. CASE ~ActiveOwner(target)
      BY <2>3, <2>6, SparesOwner
    <2> QED BY <2>4, <2>5, <2>6
  <1>6. ASSUME NEW u \in Users, Accept(u) PROVE Goal
    <2>1. /\ row[u].state = "invited"
          /\ \A v \in Users : v # u => row'[v] = row[v]
      BY <1>6 DEF Accept, RowInv, MembersTypeOK
    <2>2. \A v \in Users : ActiveOwner(v) => ActiveOwner(v)'
      BY <2>1 DEF ActiveOwner
    <2> QED BY <2>2, SparesOwner
  <1>7. ASSUME NEW actor \in Users \cup {Admin}, NEW target \in Users, Remove(actor, target)
        PROVE  Goal
    <2>1. /\ row' = [row EXCEPT ![target] = NoRow]
          /\ pending' = Departure(actor, target)
          /\ ~(actor # Admin /\ ActiveOwner(target) /\ OnlyActiveOwner(target))
      BY <1>7 DEF Remove
    <2>2. \A v \in Users : row'[v] = IF v = target THEN NoRow ELSE row[v]
      BY <2>1 DEF RowInv, MembersTypeOK
    <2>3. \A v \in Users : v # target /\ ActiveOwner(v) => ActiveOwner(v)'
      BY <2>2 DEF ActiveOwner
    <2>4. CASE ~ActiveOwner(target)
      BY <2>3, <2>4, SparesOwner
    <2>5. CASE ActiveOwner(target) /\ actor # Admin
      <3>1. ActiveOwners # {target} /\ target \in ActiveOwners
        BY <2>1, <2>5 DEF OnlyActiveOwner, ActiveOwners
      <3>2. PICK w \in ActiveOwners : w # target
        BY <3>1
      <3>3. w \in Users /\ ActiveOwner(w)'
        BY <2>3, <3>2 DEF ActiveOwners
      <3> QED BY <3>3, SparesOwner
    <2>6. CASE ActiveOwner(target) /\ actor = Admin
      <3>1. pending'.user = target /\ pending'.reason = "removed"
        <4>1. actor # target
          BY <2>6, SharedVaultsAssumption
        <4>2. Departure(actor, target) = [user |-> target, reason |-> "removed"]
          BY <4>1 DEF Departure
        <4>3. pending' = [user |-> target, reason |-> "removed"]
          BY <2>1, <4>2
        <4> QED BY <4>3
      <3>2. target \in ActiveOwners \ Members'
        BY <2>2, <2>6 DEF ActiveOwners, Members
      <3> QED BY <3>1, <3>2 DEF OwnerLost
    <2> QED BY <2>4, <2>5, <2>6
  <1>8. ASSUME NEW u \in Users, NEW named, NEW to, Rotate(u, named, to) PROVE Goal
    <2>1. OwnersAfter(named) # {} /\ named \subseteq Members /\ epoch + 1 \in Nat
      BY <1>8 DEF Rotate, RowInv, MembersTypeOK
    <2>2. PICK v \in named : /\ row[v].role = "owner"
                             /\ row[v].state # "suspended"
                             /\ FreshState(row[v]) = "active"
      BY <2>1 DEF OwnersAfter
    <2>3. v \in Users /\ row[v] # NoRow
      BY <2>1, <2>2 DEF Members
    <2>4. /\ row[v] \in Rows /\ Shaped(row[v]) /\ fp[v] \in Nat
          /\ row'[v] = Sealed(row[v], epoch + 1, fp[v], epoch + 1, "rotated")
      BY <1>8, <2>2, <2>3, RotatedRow
    <2>5. row'[v].role = "owner" /\ row'[v].state = "active"
      BY <2>1, <2>2, <2>4, SealedRow
    <2> QED BY <2>3, <2>5, SparesOwner DEF ActiveOwner
  <1>9. ASSUME NEW h \in hooks, RunHook(h) PROVE Goal
    BY <1>9 DEF RunHook, OwnerLost
  <1>10. ASSUME NEW u \in Users,
                \/ Open(u) \/ AskCreate(u) \/ Publish(u)
                \/ \E on \in {"on", "off"} : SetAccountActive(u, on)
         PROVE  Goal
    BY <1>1, <1>10 DEF Open, AskCreate, Ask, Publish, SetAccountActive
  <1>11. ASSUME NEW u \in Users, NEW target \in Users, NEW role,
                AskInvite(u, target, role) \/ AskReseal(u, target)
         PROVE  Goal
    BY <1>1, <1>11 DEF AskInvite, AskReseal, Ask
  <1>12. ASSUME UNCHANGED membersVars PROVE Goal
    BY <1>1, <1>12 DEF membersVars
  <1> HIDE DEF Goal
  <1>13. Goal
    BY <1>2, <1>3, <1>4, <1>5, <1>6, <1>7, <1>8, <1>9, <1>10, <1>11, <1>12
  <1> QED BY <1>13 DEF Goal

(* Requests, rotations and re-seals in any order leave a vault with an      *)
(* active owner one; only an admin's removal or a hook takes the last.      *)
THEOREM LastOwnerKept == MembersSpec => OwnerKept
  <1>1. RowInv /\ [MembersNext]_membersVars =>
          [ActiveOwners # {} /\ ActiveOwners' = {} =>
             \/ hooks' # hooks
             \/ /\ pending'.reason = "removed"
                /\ pending'.user \in ActiveOwners \ Members']_membersVars
    BY NextOwner DEF OwnerLost
  <1> QED BY RowInvHolds, <1>1, PTL DEF MembersSpec, OwnerKept

-----------------------------------------------------------------------------
(* Rows a rotation left behind.                                            *)

ByOwner(u) ==
    \E v \in ActiveOwners \ {u} : req'[v] # req[v] \/ epoch' # epoch

LEMMA NextLeftBehind ==
    ASSUME RowInv, [MembersNext]_membersVars, NEW u \in Members \cap Members',
           row[u].epoch < epoch, row'[u].epoch = epoch'
    PROVE  ByOwner(u)
  <1> USE DEF MembersNext
  <1>1. u \in Users /\ row[u] # NoRow /\ row[u] \in Rows /\ Shaped(row[u])
        /\ Good(row[u], epoch) /\ row'[u] # NoRow /\ row[u].epoch \in Nat /\ epoch \in Nat
    BY MemberRow DEF Members, RowInv, MembersTypeOK, Rows
  <1>2. row[u].epoch # epoch
    BY <1>1
  <1>3. ~(epoch' = epoch /\ row'[u] = row[u])
    BY <1>2
  <1>4. ~ActiveOwner(u)
    BY <1>1, <1>2 DEF Good, ActiveOwner, Standing
  <1>5. ASSUME epoch' = epoch, row' = row PROVE FALSE
    BY <1>3, <1>5
  <1>6. ASSUME epoch' = epoch, row'[u].epoch = row[u].epoch PROVE FALSE
    BY <1>2, <1>6
  <1>7. ASSUME NEW w \in Users, Create(w) PROVE FALSE
    <2>1. epoch # 0
      BY <1>1, MemberRow
    <2> QED BY <1>5, <1>7, <2>1 DEF Create
  <1>8. ASSUME NEW w \in Users, Invite(w) PROVE FALSE
    <2>1. row'[u] = row[u] /\ epoch' = epoch
      BY <1>1, <1>8 DEF Invite, Members, RowInv, MembersTypeOK
    <2> QED BY <1>3, <2>1
  <1>9. ASSUME NEW w \in Users, Reseal(w) PROVE ByOwner(u)
    <2>1. epoch' = epoch /\ req'[w] # req[w]
      BY <1>9 DEF Reseal, Answered, NoReq, RowInv, MembersTypeOK
    <2> DEFINE t == req[w].target
               m == Sealed(row[t], req[w].key, req[w].fp, epoch, "checked")
    <2>2. row'[u] # row[u]
      BY <1>3, <2>1
    <2>3. row' = row \/ (ResealAdmits(w, t) /\ row' = [row EXCEPT ![t] = m])
      BY <1>9 DEF Reseal
    <2> HIDE DEF m, t
    <2>4. ResealAdmits(w, t) /\ t = u
      BY <1>1, <2>2, <2>3 DEF RowInv, MembersTypeOK
    <2>5. w # u /\ ActiveOwner(w)
      BY <1>2, <2>4 DEF ResealAdmits
    <2> QED BY <2>1, <2>5 DEF ByOwner, ActiveOwners
  <1>10. ASSUME NEW w \in Users, NEW target \in Users, NEW role \in Roles,
                SetRole(w, target, role) \/ Update(w, target, role)
         PROVE  FALSE
    <2>1. epoch' = epoch /\ row' = [row EXCEPT ![target] = WithRole(row[target], role)]
      BY <1>10 DEF SetRole, Update
    <2>2. row'[u] = IF u = target THEN WithRole(row[u], role) ELSE row[u]
      BY <1>1, <2>1 DEF RowInv, MembersTypeOK
    <2>3. row'[u].epoch = row[u].epoch
      BY <2>2 DEF WithRole
    <2> QED BY <1>6, <2>1, <2>3
  <1>11. ASSUME NEW w \in Users, Accept(w) PROVE FALSE
    <2>1. epoch' = epoch /\ row' = [row EXCEPT ![w] = WithState(row[w], "active", row[w].from, 1)]
      BY <1>11 DEF Accept
    <2>2. row'[u] = IF u = w THEN WithState(row[u], "active", row[u].from, 1) ELSE row[u]
      BY <1>1, <2>1 DEF RowInv, MembersTypeOK
    <2>3. row'[u].epoch = row[u].epoch
      BY <2>2 DEF WithState
    <2> QED BY <1>6, <2>1, <2>3
  <1>12. ASSUME NEW actor, NEW target \in Users, Remove(actor, target) PROVE FALSE
    <2>1. epoch' = epoch /\ row' = [row EXCEPT ![target] = NoRow]
      BY <1>12 DEF Remove
    <2>2. row'[u] = row[u]
      BY <1>1, <2>1 DEF RowInv, MembersTypeOK
    <2> QED BY <1>3, <2>1, <2>2
  <1>13. ASSUME NEW w \in Users, NEW named, NEW to, Rotate(w, named, to) PROVE ByOwner(u)
    <2>1. ActiveOwner(w) /\ epoch' # epoch
      BY <1>1, <1>13 DEF Rotate
    <2>2. w # u
      BY <1>4, <2>1
    <2> QED BY <2>1, <2>2 DEF ByOwner, ActiveOwners
  <1>14. ASSUME NEW h \in hooks, RunHook(h) PROVE FALSE
    <2>1. epoch' = epoch /\ h \in Hooks
      BY <1>14 DEF RunHook, RowInv, MembersTypeOK
    <2>2. row'[u] = row[u] \/ row'[u] = Marked(row[u], h)
      BY <1>1, <1>14 DEF RunHook, RowInv, MembersTypeOK
    <2>3. row'[u].epoch = row[u].epoch
      BY <1>1, <2>1, <2>2, MarkedRow
    <2> QED BY <1>6, <2>1, <2>3
  <1>15. ASSUME NEW w \in Users,
                \/ Open(w) \/ AskCreate(w) \/ Publish(w)
                \/ \E on \in {"on", "off"} : SetAccountActive(w, on)
         PROVE  FALSE
    BY <1>5, <1>15 DEF Open, AskCreate, Ask, Publish, SetAccountActive
  <1>16. ASSUME NEW w \in Users, NEW target \in Users, NEW role,
                AskInvite(w, target, role) \/ AskReseal(w, target)
         PROVE  FALSE
    BY <1>5, <1>16 DEF AskInvite, AskReseal, Ask
  <1>17. ASSUME UNCHANGED membersVars PROVE FALSE
    BY <1>5, <1>17 DEF membersVars
  <1> QED
    BY <1>7, <1>8, <1>9, <1>10, <1>11, <1>12, <1>13, <1>14, <1>15, <1>16, <1>17

(* A row a rotation left behind is brought to the current epoch only by     *)
(* another active owner, never by its member or by a hook.                  *)
THEOREM LeftBehindStays == MembersSpec => LeftBehindNeedsOwner
  <1>1. RowInv /\ [MembersNext]_membersVars =>
          [\A u \in Members \cap Members' :
             row[u].epoch < epoch /\ row'[u].epoch = epoch' =>
               \E v \in ActiveOwners \ {u} : req'[v] # req[v] \/ epoch' # epoch]_membersVars
    BY NextLeftBehind DEF ByOwner
  <1> QED BY RowInvHolds, <1>1, PTL DEF MembersSpec, LeftBehindNeedsOwner

-----------------------------------------------------------------------------
(* StoreLock: who may be where, and what a request that reads several      *)
(* files has read of them.                                                 *)

LockOps == {"RLock", "RUnlock", "Lock", "Unlock", "lock shared", "unlock shared", "read meta", "read kdbx",
        "read record", "write kdbx", "rekey kdbx", "write meta", "write record"}

Runs(s, n) == s \in Seq(LockOps) /\ Len(s) = n
Then(s, t) == s \o t

LEMMA Joined ==
    ASSUME NEW m \in Nat, NEW n \in Nat, NEW s, NEW t, Runs(s, m), Runs(t, n)
    PROVE  /\ Runs(Then(s, t), m + n)
           /\ \A i \in 1 .. m : Then(s, t)[i] = s[i]
           /\ \A i \in 1 .. n : Then(s, t)[m + i] = t[i]
<1>1. s \in Seq(LockOps) /\ t \in Seq(LockOps) /\ Len(s) = m /\ Len(t) = n
  BY DEF Runs
<1>2. /\ Then(s, t) \in Seq(LockOps) /\ Len(Then(s, t)) = Len(s) + Len(t)
      /\ \A i \in 1 .. Len(s) + Len(t) : Then(s, t)[i] = IF i <= Len(s) THEN s[i] ELSE t[i - Len(s)]
  BY <1>1, ConcatProperties DEF Then
<1>3. \A i \in 1 .. m : Then(s, t)[i] = s[i]
  BY <1>1, <1>2
<1>4. ASSUME NEW i \in 1 .. n PROVE Then(s, t)[m + i] = t[i]
  <2>1. m + i \in 1 .. m + n /\ ~(m + i <= m) /\ m + i - m = i
    OBVIOUS
  <2> QED BY <1>1, <1>2, <2>1
<1> QED BY <1>1, <1>2, <1>3, <1>4 DEF Runs

LEMMA Querying ==
    LET s == GetMetadata
    IN  Runs(s, 3) /\ s[1] = "RLock" /\ s[2] = "read meta" /\ s[3] = "RUnlock"
  BY DEF GetMetadata, Runs, LockOps

LEMMA Downloading ==
    LET s == OpenVault
    IN  /\ Len(s) = 6
        /\ s[1] = "RLock" /\ s[2] = "RLock" /\ s[3] = "read meta" /\ s[4] = "RUnlock"
        /\ s[5] = "read kdbx" /\ s[6] = "RUnlock"
<1> DEFINE a == <<"RLock">>
           b == GetMetadata
           c == <<"read kdbx", "RUnlock">>
           ab == Then(a, b)
           abc == Then(ab, c)
<1>1. Runs(a, 1) /\ Runs(b, 3) /\ Runs(c, 2)
  BY DEF Runs, LockOps, GetMetadata
<1>3. OpenVault = abc
  BY DEF OpenVault, Then
<1>2. a[1] = "RLock" /\ b[1] = "RLock" /\ b[2] = "read meta" /\ b[3] = "RUnlock" /\ c[1] = "read kdbx" /\ c[2] = "RUnlock"
  BY DEF GetMetadata
<1> HIDE DEF a, b, c
<1>5. Runs(ab, 1 + 3) /\ (\A i \in 1 .. 1 : ab[i] = a[i]) /\ (\A i \in 1 .. 3 : ab[1 + i] = b[i])
  BY <1>1, Joined
<1>6. Runs(ab, 4)
  BY <1>5
<1> HIDE DEF ab
<1>7. Runs(abc, 4 + 2) /\ (\A i \in 1 .. 4 : abc[i] = ab[i]) /\ (\A i \in 1 .. 2 : abc[4 + i] = c[i])
  BY <1>1, <1>6, Joined
<1> HIDE DEF abc
<1>8. abc[1] = a[1] /\ abc[2] = b[1] /\ abc[3] = b[2] /\ abc[4] = b[3] /\ abc[5] = c[1] /\ abc[6] = c[2]
  BY <1>5, <1>7
<1>9. Len(abc) = 6
  BY <1>7 DEF Runs
<1> QED BY <1>2, <1>3, <1>8, <1>9

LEMMA Saving ==
    LET s == WithWriter
    IN  /\ Len(s) = 7
        /\ s[1] = "lock shared" /\ s[2] = "read record" /\ s[3] = "Lock" /\ s[4] = "write kdbx"
        /\ s[5] = "write meta" /\ s[6] = "Unlock" /\ s[7] = "unlock shared"
<1> DEFINE a == <<"lock shared", "read record">>
           b == SaveVault
           c == <<"unlock shared">>
           ab == Then(a, b)
           abc == Then(ab, c)
<1>1. Runs(a, 2) /\ Runs(b, 4) /\ Runs(c, 1)
  BY DEF Runs, LockOps, SaveVault
<1>2. /\ a[1] = "lock shared" /\ a[2] = "read record" /\ c[1] = "unlock shared"
      /\ b[1] = "Lock" /\ b[2] = "write kdbx" /\ b[3] = "write meta" /\ b[4] = "Unlock"
  BY DEF SaveVault
<1>3. WithWriter = abc
  BY DEF WithWriter, Then
<1> HIDE DEF a, b, c
<1>4. Runs(ab, 2 + 4) /\ (\A i \in 1 .. 2 : ab[i] = a[i]) /\ (\A i \in 1 .. 4 : ab[2 + i] = b[i])
  BY <1>1, Joined
<1>5. Runs(ab, 6)
  BY <1>4
<1> HIDE DEF ab
<1>6. Runs(abc, 6 + 1) /\ (\A i \in 1 .. 6 : abc[i] = ab[i]) /\ (\A i \in 1 .. 1 : abc[6 + i] = c[i])
  BY <1>1, <1>5, Joined
<1> HIDE DEF abc
<1>7. /\ abc[1] = a[1] /\ abc[2] = a[2] /\ abc[3] = b[1] /\ abc[4] = b[2] /\ abc[5] = b[3] /\ abc[6] = b[4]
      /\ abc[7] = c[1]
  BY <1>4, <1>6
<1>8. Len(abc) = 7
  BY <1>6 DEF Runs
<1> QED BY <1>2, <1>3, <1>7, <1>8

LEMMA Rotates ==
    LET s == RotateRecord
    IN  /\ Len(s) = 18
        /\ s[1] = "lock shared" /\ s[2] = "read record"
        /\ s[3] = "RLock" /\ s[4] = "read meta" /\ s[5] = "RUnlock"
        /\ s[6] = "RLock" /\ s[7] = "read meta" /\ s[8] = "RUnlock"
        /\ s[9] = "Lock" /\ s[10] = "rekey kdbx" /\ s[11] = "write meta" /\ s[12] = "Unlock"
        /\ s[13] = "write record"
        /\ s[14] = "Lock" /\ s[15] = "Unlock" /\ s[16] = "Lock" /\ s[17] = "Unlock"
        /\ s[18] = "unlock shared"
<1> DEFINE a == <<"lock shared", "read record">>
           b == GetMetadata
           c == SaveRekeyed
           d == <<"write record">>
           e == AfterCommit
           f == <<"unlock shared">>
           s2 == Then(a, b)
           s3 == Then(s2, b)
           s4 == Then(s3, c)
           s5 == Then(s4, d)
           s6 == Then(s5, e)
           s7 == Then(s6, f)
<1>1. Runs(a, 2) /\ Runs(b, 3) /\ Runs(c, 4) /\ Runs(d, 1) /\ Runs(e, 4) /\ Runs(f, 1)
  BY DEF Runs, LockOps, GetMetadata, SaveRekeyed, AfterCommit
<1>2. /\ a[1] = "lock shared" /\ a[2] = "read record" /\ d[1] = "write record" /\ f[1] = "unlock shared"
      /\ b[1] = "RLock" /\ b[2] = "read meta" /\ b[3] = "RUnlock"
      /\ c[1] = "Lock" /\ c[2] = "rekey kdbx" /\ c[3] = "write meta" /\ c[4] = "Unlock"
      /\ e[1] = "Lock" /\ e[2] = "Unlock" /\ e[3] = "Lock" /\ e[4] = "Unlock"
  BY DEF GetMetadata, SaveRekeyed, AfterCommit
<1>3. RotateRecord = s7
  BY DEF RotateRecord, Then
<1> HIDE DEF a, b, c, d, e, f
<1>4. Runs(s2, 2 + 3) /\ (\A i \in 1 .. 2 : s2[i] = a[i]) /\ (\A i \in 1 .. 3 : s2[2 + i] = b[i])
  BY <1>1, Joined
<1> HIDE DEF s2
<1>5. Runs(s3, 5 + 3) /\ (\A i \in 1 .. 5 : s3[i] = s2[i]) /\ (\A i \in 1 .. 3 : s3[5 + i] = b[i])
  <2>1. Runs(s2, 5)
    BY <1>4
  <2> QED BY <1>1, <2>1, Joined
<1> HIDE DEF s3
<1>6. Runs(s4, 8 + 4) /\ (\A i \in 1 .. 8 : s4[i] = s3[i]) /\ (\A i \in 1 .. 4 : s4[8 + i] = c[i])
  <2>1. Runs(s3, 8)
    BY <1>5
  <2> QED BY <1>1, <2>1, Joined
<1> HIDE DEF s4
<1>7. Runs(s5, 12 + 1) /\ (\A i \in 1 .. 12 : s5[i] = s4[i]) /\ (\A i \in 1 .. 1 : s5[12 + i] = d[i])
  <2>1. Runs(s4, 12)
    BY <1>6
  <2> QED BY <1>1, <2>1, Joined
<1> HIDE DEF s5
<1>8. Runs(s6, 13 + 4) /\ (\A i \in 1 .. 13 : s6[i] = s5[i]) /\ (\A i \in 1 .. 4 : s6[13 + i] = e[i])
  <2>1. Runs(s5, 13)
    BY <1>7
  <2> QED BY <1>1, <2>1, Joined
<1> HIDE DEF s6
<1>9. Runs(s7, 17 + 1) /\ (\A i \in 1 .. 17 : s7[i] = s6[i]) /\ (\A i \in 1 .. 1 : s7[17 + i] = f[i])
  <2>1. Runs(s6, 17)
    BY <1>8
  <2> QED BY <1>1, <2>1, Joined
<1> HIDE DEF s7
<1>10. s7[1] = a[1] /\ s7[2] = a[2] /\ s7[3] = b[1] /\ s7[4] = b[2] /\ s7[5] = b[3]
  BY <1>4, <1>5, <1>6, <1>7, <1>8, <1>9
<1>11. s7[6] = b[1] /\ s7[7] = b[2] /\ s7[8] = b[3]
  BY <1>5, <1>6, <1>7, <1>8, <1>9
<1>12. s7[9] = c[1] /\ s7[10] = c[2] /\ s7[11] = c[3] /\ s7[12] = c[4]
  BY <1>6, <1>7, <1>8, <1>9
<1>13. s7[13] = d[1] /\ s7[14] = e[1] /\ s7[15] = e[2] /\ s7[16] = e[3] /\ s7[17] = e[4] /\ s7[18] = f[1]
  BY <1>7, <1>8, <1>9
<1>14. Len(s7) = 18
  BY <1>9 DEF Runs
<1>15. /\ s7[1] = "lock shared" /\ s7[2] = "read record"
       /\ s7[3] = "RLock" /\ s7[4] = "read meta" /\ s7[5] = "RUnlock"
  BY <1>2, <1>10
<1>16. s7[6] = "RLock" /\ s7[7] = "read meta" /\ s7[8] = "RUnlock"
  BY <1>2, <1>11
<1>17. s7[9] = "Lock" /\ s7[10] = "rekey kdbx" /\ s7[11] = "write meta" /\ s7[12] = "Unlock"
  BY <1>2, <1>12
<1>18. /\ s7[13] = "write record"
       /\ s7[14] = "Lock" /\ s7[15] = "Unlock" /\ s7[16] = "Lock" /\ s7[17] = "Unlock"
       /\ s7[18] = "unlock shared"
  BY <1>2, <1>13
<1> QED BY <1>3, <1>14, <1>15, <1>16, <1>17, <1>18, Zenon

LEMMA Capturing ==
    LET s == WithSnapshot
    IN  /\ Len(s) = 7
        /\ s[1] = "lock shared" /\ s[2] = "read record" /\ s[3] = "RLock" /\ s[4] = "read meta"
        /\ s[5] = "read kdbx" /\ s[6] = "RUnlock" /\ s[7] = "unlock shared"
  BY DEF WithSnapshot

(* Which operations of a rotation are which.                               *)
LEMMA RotatesWhere ==
    ASSUME NEW n \in 1 .. 18, NEW now, now = RotateRecord[n]
    PROVE  /\ now = "RLock" => n \in {3, 6}
           /\ now = "RUnlock" => n \in {5, 8}
           /\ now = "Lock" => n \in {9, 14, 16}
           /\ now = "Unlock" => n \in {12, 15, 17}
           /\ now = "lock shared" => n = 1
           /\ now = "unlock shared" => n = 18
           /\ now = "read record" => n = 2
           /\ now = "read meta" => n \in {4, 7}
           /\ now = "rekey kdbx" => n = 10
           /\ now = "write meta" => n = 11
           /\ now = "write record" => n = 13
           /\ now # "read kdbx" /\ now # "write kdbx"
<1>1. \/ n = 1 \/ n = 2 \/ n = 3 \/ n = 4 \/ n = 5 \/ n = 6 \/ n = 7 \/ n = 8 \/ n = 9
      \/ n = 10 \/ n = 11 \/ n = 12 \/ n = 13 \/ n = 14 \/ n = 15 \/ n = 16 \/ n = 17 \/ n = 18
  OBVIOUS
<1>2. /\ n = 1 => now = "lock shared"
      /\ n = 2 => now = "read record"
      /\ n = 3 => now = "RLock"
      /\ n = 4 => now = "read meta"
      /\ n = 5 => now = "RUnlock"
  BY Rotates
<1>3. /\ n = 6 => now = "RLock"
      /\ n = 7 => now = "read meta"
      /\ n = 8 => now = "RUnlock"
  BY Rotates
<1>4. /\ n = 9 => now = "Lock"
      /\ n = 10 => now = "rekey kdbx"
      /\ n = 11 => now = "write meta"
      /\ n = 12 => now = "Unlock"
  BY Rotates
<1>5. /\ n = 13 => now = "write record"
      /\ n = 14 => now = "Lock"
      /\ n = 15 => now = "Unlock"
  BY Rotates
<1>6. /\ n = 16 => now = "Lock"
      /\ n = 17 => now = "Unlock"
      /\ n = 18 => now = "unlock shared"
  BY Rotates
<1> QED BY <1>1, <1>2, <1>3, <1>4, <1>5, <1>6, Zenon

(* Where in its program a request is when it may do an operation.          *)
LEMMA Places ==
    ASSUME OneKindEach, NEW p \in Requests, pc[p] \in Nat \ {0}
    PROVE  /\ At(p, "RLock") =>
                \/ p \in Downloads /\ pc[p] \in {1, 2}
                \/ p \in Queries /\ pc[p] = 1
                \/ p \in Rotations /\ pc[p] \in {3, 6}
                \/ p \in Backups /\ pc[p] = 3
           /\ At(p, "RUnlock") =>
                \/ p \in Downloads /\ pc[p] \in {4, 6}
                \/ p \in Queries /\ pc[p] = 3
                \/ p \in Rotations /\ pc[p] \in {5, 8}
                \/ p \in Backups /\ pc[p] = 6
           /\ At(p, "Lock") =>
                \/ p \in Saves /\ pc[p] = 3
                \/ p \in Rotations /\ pc[p] \in {9, 14, 16}
           /\ At(p, "Unlock") =>
                \/ p \in Saves /\ pc[p] = 6
                \/ p \in Rotations /\ pc[p] \in {12, 15, 17}
           /\ At(p, "lock shared") => p \in Saves \cup Rotations \cup Backups /\ pc[p] = 1
           /\ At(p, "unlock shared") =>
                \/ p \in Saves \cup Backups /\ pc[p] = 7
                \/ p \in Rotations /\ pc[p] = 18
           /\ At(p, "read record") => p \in Saves \cup Rotations \cup Backups /\ pc[p] = 2
           /\ At(p, "read meta") =>
                \/ p \in Downloads /\ pc[p] = 3
                \/ p \in Queries /\ pc[p] = 2
                \/ p \in Rotations /\ pc[p] \in {4, 7}
                \/ p \in Backups /\ pc[p] = 4
           /\ At(p, "read kdbx") => p \in Downloads \cup Backups /\ pc[p] = 5
           /\ At(p, "write kdbx") => p \in Saves /\ pc[p] = 4
           /\ At(p, "rekey kdbx") => p \in Rotations /\ pc[p] = 10
           /\ At(p, "write meta") =>
                \/ p \in Saves /\ pc[p] = 5
                \/ p \in Rotations /\ pc[p] = 11
           /\ At(p, "write record") => p \in Rotations /\ pc[p] = 13
           /\ Done(p) => (p \in Downloads => pc[p] > 6) /\ (p \in Backups => pc[p] > 7)
<1> USE DEF At, Done
<1>1. CASE p \in Downloads
  <2>1. Program(p) = OpenVault
    BY <1>1 DEF Program, OneKindEach
  <2>2. Len(Program(p)) = 6
    BY <2>1, Downloading
  <2>3. ~Done(p) => pc[p] \in {1, 2, 3, 4, 5, 6}
    BY <2>2
  <2>4. Done(p) => pc[p] > 6
    BY <2>2
  <2> QED BY <1>1, <2>1, <2>3, <2>4, Downloading DEF OneKindEach
<1>2. CASE p \in Queries
  <2>1. Program(p) = GetMetadata
    BY <1>2 DEF Program, OneKindEach
  <2>2. Len(Program(p)) = 3
    BY <2>1, Querying DEF Runs
  <2>3. ~Done(p) => pc[p] \in {1, 2, 3}
    BY <2>2
  <2>4. Done(p) => pc[p] > 3
    BY <2>2
  <2> QED BY <1>2, <2>1, <2>3, <2>4, Querying DEF OneKindEach
<1>3. CASE p \in Saves
  <2>1. Program(p) = WithWriter
    BY <1>3 DEF Program, OneKindEach
  <2>2. Len(Program(p)) = 7
    BY <2>1, Saving
  <2>3. ~Done(p) => pc[p] \in {1, 2, 3, 4, 5, 6, 7}
    BY <2>2
  <2>4. Done(p) => pc[p] > 7
    BY <2>2
  <2> QED BY <1>3, <2>1, <2>3, <2>4, Saving DEF OneKindEach
<1>4. CASE p \in Rotations
  <2>1. Program(p) = RotateRecord
    BY <1>4 DEF Program, OneKindEach
  <2>2. Len(Program(p)) = 18
    BY <2>1, Rotates
  <2>3. ~Done(p) => pc[p] \in {1, 2, 3, 4, 5, 6, 7, 8, 9, 10, 11, 12, 13, 14, 15, 16, 17, 18}
    BY <2>2
  <2>4. Done(p) => pc[p] > 18
    BY <2>2
  <2>5. PICK now : now = RotateRecord[pc[p]]
    OBVIOUS
  <2>6. ~Done(p) => pc[p] \in 1 .. 18
    BY <2>3
  <2>7. \A op : At(p, op) => ~Done(p) /\ now = op
    BY <2>1, <2>5
  <2> HIDE DEF At, Done
  <2>8. CASE Done(p)
    <3>1. \A op : ~At(p, op)
      BY <2>7, <2>8
    <3>2. p \notin Downloads \cup Backups
      BY <1>4 DEF OneKindEach
    <3> QED BY <3>1, <3>2, Zenon
  <2>9. CASE ~Done(p)
    <3>1. pc[p] \in 1 .. 18
      BY <2>6, <2>9
    <3>2. /\ now = "RLock" => pc[p] \in {3, 6}
          /\ now = "RUnlock" => pc[p] \in {5, 8}
          /\ now = "Lock" => pc[p] \in {9, 14, 16}
          /\ now = "Unlock" => pc[p] \in {12, 15, 17}
          /\ now = "lock shared" => pc[p] = 1
          /\ now = "unlock shared" => pc[p] = 18
          /\ now = "read record" => pc[p] = 2
          /\ now = "read meta" => pc[p] \in {4, 7}
          /\ now = "rekey kdbx" => pc[p] = 10
          /\ now = "write meta" => pc[p] = 11
          /\ now = "write record" => pc[p] = 13
          /\ now # "read kdbx" /\ now # "write kdbx"
      BY <2>5, <3>1, RotatesWhere, Zenon
    <3>3. /\ At(p, "RLock") => pc[p] \in {3, 6}
          /\ At(p, "RUnlock") => pc[p] \in {5, 8}
          /\ At(p, "Lock") => pc[p] \in {9, 14, 16}
          /\ At(p, "Unlock") => pc[p] \in {12, 15, 17}
      BY <2>7, <3>2, Zenon
    <3>4. /\ At(p, "lock shared") => pc[p] = 1
          /\ At(p, "unlock shared") => pc[p] = 18
          /\ At(p, "read record") => pc[p] = 2
          /\ At(p, "read meta") => pc[p] \in {4, 7}
      BY <2>7, <3>2, Zenon
    <3>5. /\ At(p, "rekey kdbx") => pc[p] = 10
          /\ At(p, "write meta") => pc[p] = 11
          /\ At(p, "write record") => pc[p] = 13
          /\ ~At(p, "read kdbx") /\ ~At(p, "write kdbx")
      BY <2>7, <3>2, Zenon
    <3>6. p \in Saves \cup Rotations \cup Backups
      BY <1>4
    <3> HIDE <2>7, <3>2
    <3>7. /\ At(p, "RLock") => p \in Rotations /\ pc[p] \in {3, 6}
          /\ At(p, "RUnlock") => p \in Rotations /\ pc[p] \in {5, 8}
          /\ At(p, "Lock") => p \in Rotations /\ pc[p] \in {9, 14, 16}
          /\ At(p, "Unlock") => p \in Rotations /\ pc[p] \in {12, 15, 17}
      BY <1>4, <3>3, Zenon
    <3>8. /\ At(p, "lock shared") => p \in Saves \cup Rotations \cup Backups /\ pc[p] = 1
          /\ At(p, "unlock shared") => p \in Rotations /\ pc[p] = 18
          /\ At(p, "read record") => p \in Saves \cup Rotations \cup Backups /\ pc[p] = 2
          /\ At(p, "read meta") => p \in Rotations /\ pc[p] \in {4, 7}
      BY <1>4, <3>4, <3>6, Zenon
    <3>9. /\ At(p, "read kdbx") => p \in Downloads \cup Backups /\ pc[p] = 5
          /\ At(p, "write kdbx") => p \in Saves /\ pc[p] = 4
          /\ At(p, "rekey kdbx") => p \in Rotations /\ pc[p] = 10
          /\ At(p, "write meta") => p \in Rotations /\ pc[p] = 11
          /\ At(p, "write record") => p \in Rotations /\ pc[p] = 13
      BY <1>4, <3>5, Zenon
    <3> HIDE <1>4, <3>3, <3>4, <3>5, <3>6
    <3> QED BY <2>9, <3>7, <3>8, <3>9
  <2> QED BY <2>8, <2>9
<1>5. CASE p \in Backups
  <2>1. Program(p) = WithSnapshot
    BY <1>5 DEF Program, OneKindEach
  <2>2. Len(Program(p)) = 7
    BY <2>1, Capturing
  <2>3. ~Done(p) => pc[p] \in {1, 2, 3, 4, 5, 6, 7}
    BY <2>2
  <2>4. Done(p) => pc[p] > 7
    BY <2>2
  <2> QED BY <1>5, <2>1, <2>3, <2>4, Capturing DEF OneKindEach
<1> QED BY <1>1, <1>2, <1>3, <1>4, <1>5 DEF Requests

Written == [kdbx : Nat, meta : Nat, key : Nat, record : Nat]

OnCourse ==
    /\ pc \in [Requests -> Nat \ {0}]
    /\ reads \in [Requests -> Nat]
    /\ got \in [Requests -> Written]
    /\ files \in Written
    /\ parked \subseteq Requests
    /\ writer \in Requests \cup {NoOne}
    /\ owner \in Requests \cup {NoOne}

(* Read locks a request holds, by where it is.                             *)
Reading ==
    /\ \A p \in Downloads : reads[p] = IF pc[p] \in {3, 4} THEN 2 ELSE IF pc[p] \in {2, 5, 6} THEN 1 ELSE 0
    /\ \A p \in Queries : reads[p] = IF pc[p] \in {2, 3} THEN 1 ELSE 0
    /\ \A p \in Saves : reads[p] = 0
    /\ \A p \in Rotations : reads[p] = IF pc[p] \in {4, 5, 7, 8} THEN 1 ELSE 0
    /\ \A p \in Backups : reads[p] = IF pc[p] \in {4, 5, 6} THEN 1 ELSE 0

(* Where a request asks for a read lock; a parked one waits there.         *)
Asks(p) ==
    \/ p \in Downloads /\ pc[p] \in {1, 2}
    \/ p \in Queries /\ pc[p] = 1
    \/ p \in Rotations /\ pc[p] \in {3, 6}
    \/ p \in Backups /\ pc[p] = 3

(* Between Lock and Unlock of vault.mu, and of shared.mu.                  *)
Writing(p) == \/ p \in Saves /\ pc[p] \in {4, 5, 6}
              \/ p \in Rotations /\ pc[p] \in {10, 11, 12, 15, 17}
Inside(p) == \/ p \in Saves \cup Backups /\ pc[p] \in 2 .. 7
             \/ p \in Rotations /\ pc[p] \in 2 .. 18

(* A writer is alone in vault.mu, and a request is in shared.mu alone.     *)
Exclusive ==
    /\ \A p \in Requests : Writing(p) => writer = p /\ \A r \in Requests : reads[r] = 0
    /\ \A p \in Requests : Inside(p) => owner = p
    /\ \A p \in parked : Asks(p)

(* Between the two renames of a save, and between the rename of a rotation *)
(* and the record that names its key.                                      *)
Halfway(p) == \/ p \in Saves /\ pc[p] = 5
              \/ p \in Rotations /\ pc[p] = 11
Rekeying(p) == p \in Rotations /\ pc[p] \in {11, 12, 13}

(* Two files differ only while a request that holds the lock is between    *)
(* its writes of them.                                                     *)
Paired ==
    /\ (\A p \in Requests : ~Halfway(p)) => files.kdbx = files.meta
    /\ \A p \in Requests : Halfway(p) => files.kdbx = files.meta + 1
    /\ (\A p \in Rotations : ~Rekeying(p)) => files.key = files.record
    /\ \A p \in Rotations : Rekeying(p) => files.key = files.record + 1
    /\ \A p \in Rotations : pc[p] \in 3 .. 13 => got[p].record = files.record

Captured ==
    /\ \A p \in Downloads : pc[p] \in {4, 5} => got[p].meta = files.meta
    /\ \A p \in Backups : pc[p] = 5 => got[p].meta = files.meta
    /\ \A p \in Backups : pc[p] \in {3, 4, 5} => got[p].record = files.record
    /\ \A p \in Downloads \cup Backups : pc[p] > 5 => got[p].meta = got[p].kdbx
    /\ \A p \in Backups : pc[p] > 5 => got[p].record = got[p].key

LockInv == OnCourse /\ Reading /\ Exclusive /\ Paired /\ Captured

LEMMA LockInvInit == LockInit => LockInv
<1> SUFFICES ASSUME LockInit PROVE LockInv
  OBVIOUS
<1> USE DEF LockInit, Requests
<1>1. OnCourse
  BY DEF OnCourse, Written, NoFiles
<1>2. \A p \in Requests : pc[p] = 1 /\ reads[p] = 0
  OBVIOUS
<1> QED
  BY <1>1, <1>2 DEF LockInv, Reading, Exclusive, Paired, Captured, Asks, Writing, Inside, Halfway, Rekeying

(* A step of p takes p to the next operation of its program.               *)
LEMMA Advanced ==
    ASSUME OnCourse, NEW p \in Requests, Advance(p)
    PROVE  /\ pc' \in [Requests -> Nat \ {0}]
           /\ pc'[p] = pc[p] + 1
           /\ \A r \in Requests : r # p => pc'[r] = pc[r]
  BY DEF OnCourse, Advance

LEMMA RLockStep ==
    ASSUME OneKindEach, LockInv, NEW p \in Requests, RLock(p)
    PROVE  LockInv'
<1> USE DEF LockInv
<1>1. Asks(p) /\ UNCHANGED <<writer, owner, files, got>>
  BY Places DEF OnCourse, Asks, RLock
<1>2. CASE writer = NoOne
  <2>1. /\ reads' = [reads EXCEPT ![p] = @ + 1] /\ parked' = parked /\ p \notin parked
        /\ Advance(p)
    BY <1>2 DEF RLock
  <2>2. /\ reads' \in [Requests -> Nat] /\ reads'[p] = reads[p] + 1
        /\ \A r \in Requests : r # p => reads'[r] = reads[r]
    BY <2>1 DEF OnCourse
  <2>3. OnCourse'
    BY <1>1, <2>1, <2>2, Advanced DEF OnCourse
  <2>4. Reading'
    BY <1>1, <2>1, <2>2, Advanced DEF OnCourse, Reading, Asks, OneKindEach, Requests
  <2>5. \A r \in Requests : ~Writing(r) /\ ~Writing(r)'
    BY <1>1, <1>2, <2>1, Advanced DEF OnCourse, Exclusive, Writing, Asks, OneKindEach, Requests
  <2>6. Exclusive'
    BY <1>1, <2>1, <2>5, Advanced DEF OnCourse, Exclusive, Inside, Asks, OneKindEach, Requests
  <2>7. Paired'
    BY <1>1, <2>1, <2>5, Advanced DEF OnCourse, Paired, Halfway, Rekeying, Writing, Asks, OneKindEach, Requests
  <2>8. Captured'
    BY <1>1, <2>1, Advanced DEF OnCourse, Captured, Asks, OneKindEach, Requests
  <2> QED BY <2>3, <2>4, <2>6, <2>7, <2>8
<1>3. CASE writer # NoOne
  <2>1. parked' = parked \cup {p} /\ UNCHANGED <<pc, reads>>
    BY <1>3 DEF RLock
  <2> QED
    BY <1>1, <2>1 DEF OnCourse, Reading, Exclusive, Paired, Captured, Asks, Writing, Inside, Halfway, Rekeying
<1> QED BY <1>2, <1>3

LEMMA RUnlockStep ==
    ASSUME OneKindEach, LockInv, NEW p \in Requests, RUnlock(p)
    PROVE  LockInv'
<1> USE DEF LockInv
<1>1. /\ \/ p \in Downloads /\ pc[p] \in {4, 6}
         \/ p \in Queries /\ pc[p] = 3
         \/ p \in Rotations /\ pc[p] \in {5, 8}
         \/ p \in Backups /\ pc[p] = 6
      /\ reads' = [reads EXCEPT ![p] = @ - 1] /\ UNCHANGED <<parked, writer, owner, files, got>>
      /\ Advance(p)
  BY Places DEF OnCourse, RUnlock
<1>2. reads[p] \in Nat \ {0}
  BY <1>1 DEF OnCourse, Reading
<1>3. /\ reads' \in [Requests -> Nat] /\ reads'[p] = reads[p] - 1
      /\ \A r \in Requests : r # p => reads'[r] = reads[r]
  BY <1>1, <1>2 DEF OnCourse
<1>4. OnCourse'
  BY <1>1, <1>3, Advanced DEF OnCourse
<1>5. Reading'
  BY <1>1, <1>3, Advanced DEF OnCourse, Reading, OneKindEach, Requests
<1>6. \A r \in Requests : ~Writing(r) /\ ~Writing(r)'
  BY <1>1, <1>2, Advanced DEF OnCourse, Exclusive, Writing, OneKindEach, Requests
<1>7. Exclusive'
  BY <1>1, <1>6, Advanced DEF OnCourse, Exclusive, Inside, Asks, OneKindEach, Requests
<1>8. Paired'
  BY <1>1, <1>6, Advanced DEF OnCourse, Paired, Halfway, Rekeying, Writing, OneKindEach, Requests
<1>9. Captured'
  BY <1>1, Advanced DEF OnCourse, Captured, OneKindEach, Requests
<1> QED BY <1>4, <1>5, <1>7, <1>8, <1>9

LEMMA AnnounceStep ==
    ASSUME OneKindEach, LockInv, NEW p \in Requests, Announce(p)
    PROVE  LockInv'
<1> USE DEF LockInv
<1>1. writer = NoOne /\ writer' = p /\ UNCHANGED <<pc, reads, parked, owner, files, got>>
  BY DEF Announce
<1>2. \A r \in Requests : ~Writing(r)
  BY <1>1 DEF Exclusive, OneKindEach
<1> QED
  BY <1>1, <1>2 DEF OnCourse, Reading, Exclusive, Paired, Captured, Asks, Writing, Inside, Halfway, Rekeying

LEMMA LockStep ==
    ASSUME OneKindEach, LockInv, NEW p \in Requests, Lock(p)
    PROVE  LockInv'
<1> USE DEF LockInv
<1>1. /\ \/ p \in Saves /\ pc[p] = 3
         \/ p \in Rotations /\ pc[p] \in {9, 14, 16}
      /\ writer = p /\ (\A r \in Requests : reads[r] = 0)
      /\ UNCHANGED <<reads, parked, writer, owner, files, got>>
      /\ Advance(p)
  BY Places DEF OnCourse, Lock
<1>2. OnCourse'
  BY <1>1, Advanced DEF OnCourse
<1>3. Reading'
  BY <1>1, Advanced DEF OnCourse, Reading, OneKindEach, Requests
<1>4. Exclusive'
  BY <1>1, Advanced DEF OnCourse, Exclusive, Writing, Inside, Asks, OneKindEach, Requests
<1>5. Paired'
  BY <1>1, Advanced DEF OnCourse, Paired, Halfway, Rekeying, OneKindEach, Requests
<1>6. Captured'
  BY <1>1, Advanced DEF OnCourse, Captured, OneKindEach, Requests
<1> QED BY <1>2, <1>3, <1>4, <1>5, <1>6

(* The readers that were parked behind the writer get their locks.         *)
LEMMA UnlockStep ==
    ASSUME OneKindEach, LockInv, NEW p \in Requests, Unlock(p)
    PROVE  LockInv'
<1> USE DEF LockInv
<1>1. /\ \/ p \in Saves /\ pc[p] = 6
         \/ p \in Rotations /\ pc[p] \in {12, 15, 17}
      /\ writer' = NoOne /\ parked' = {} /\ UNCHANGED <<owner, files, got>>
  BY Places DEF OnCourse, Unlock
<1>2. p \notin parked
  BY <1>1 DEF OnCourse, Exclusive, Asks, OneKindEach, Requests
<1>3. /\ pc' \in [Requests -> Nat \ {0}] /\ reads' \in [Requests -> Nat]
      /\ pc'[p] = pc[p] + 1 /\ reads'[p] = reads[p]
      /\ \A r \in Requests \ {p} :
            IF r \in parked THEN pc'[r] = pc[r] + 1 /\ reads'[r] = reads[r] + 1
                            ELSE pc'[r] = pc[r] /\ reads'[r] = reads[r]
  BY <1>2 DEF OnCourse, Unlock
<1>4. OnCourse'
  BY <1>1, <1>3 DEF OnCourse
<1>5. \A r \in parked : Asks(r)
  BY DEF Exclusive
<1>6. Reading'
  BY <1>1, <1>3, <1>5 DEF OnCourse, Reading, Asks, OneKindEach, Requests
<1>7. \A r \in Requests : ~Writing(r)'
  <2>1. \A r \in Requests \ {p} : ~Writing(r)
    BY <1>1 DEF Exclusive, Writing
  <2> QED BY <1>1, <1>3, <1>5, <2>1 DEF OnCourse, Writing, Asks, OneKindEach, Requests
<1>8. Exclusive'
  BY <1>1, <1>3, <1>5, <1>7 DEF OnCourse, Exclusive, Inside, Asks, OneKindEach, Requests
<1>9. Paired'
  BY <1>1, <1>3, <1>5 DEF OnCourse, Paired, Halfway, Rekeying, Asks, OneKindEach, Requests
<1>10. Captured'
  BY <1>1, <1>3, <1>5 DEF OnCourse, Captured, Asks, OneKindEach, Requests
<1> QED BY <1>4, <1>6, <1>8, <1>9, <1>10

LEMMA SharedStep ==
    ASSUME OneKindEach, LockInv, NEW p \in Requests, LockShared(p) \/ UnlockShared(p)
    PROVE  LockInv'
<1> USE DEF LockInv
<1>1. /\ \/ /\ p \in Saves \cup Rotations \cup Backups /\ pc[p] = 1
            /\ owner = NoOne /\ owner' = p
         \/ /\ \/ p \in Saves \cup Backups /\ pc[p] = 7
               \/ p \in Rotations /\ pc[p] = 18
            /\ owner' = NoOne
      /\ UNCHANGED <<reads, parked, writer, files, got>>
      /\ Advance(p)
  BY Places DEF OnCourse, LockShared, UnlockShared
<1>2. OnCourse'
  BY <1>1, Advanced DEF OnCourse
<1>3. Reading'
  BY <1>1, Advanced DEF OnCourse, Reading, OneKindEach, Requests
<1>4. Exclusive'
  BY <1>1, Advanced DEF OnCourse, Exclusive, Writing, Inside, Asks, OneKindEach, Requests
<1>5. Paired'
  BY <1>1, Advanced DEF OnCourse, Paired, Halfway, Rekeying, OneKindEach, Requests
<1>6. Captured'
  BY <1>1, Advanced DEF OnCourse, Captured, OneKindEach, Requests
<1> QED BY <1>2, <1>3, <1>4, <1>5, <1>6

LEMMA ReadStep ==
    ASSUME OneKindEach, LockInv, NEW p \in Requests, Read(p)
    PROVE  LockInv'
<1> USE DEF LockInv
<1>1. UNCHANGED <<reads, parked, writer, owner, files>> /\ Advance(p)
  BY DEF Read
<1>2. got[p] \in Written /\ files \in Written
  BY DEF OnCourse
<1>3. /\ got' \in [Requests -> Written]
      /\ \A r \in Requests : r # p => got'[r] = got[r]
  <2>1. got \in [Requests -> Written]
    BY DEF OnCourse
  <2>2. CASE got' = [got EXCEPT ![p].meta = files.meta]
    BY <1>2, <2>1, <2>2 DEF Written
  <2>3. CASE got' = [got EXCEPT ![p].kdbx = files.kdbx, ![p].key = files.key]
    BY <1>2, <2>1, <2>3 DEF Written
  <2>4. CASE got' = [got EXCEPT ![p].record = files.record]
    BY <1>2, <2>1, <2>4 DEF Written
  <2> QED BY <2>2, <2>3, <2>4 DEF Read
<1>4. At(p, "read meta") \/ At(p, "read kdbx") \/ At(p, "read record")
  BY DEF Read
<1>5. OnCourse'
  BY <1>1, <1>3, Advanced DEF OnCourse
<1>6. Reading' /\ Exclusive'
  <2>1. \/ p \in Downloads /\ pc[p] \in {3, 5}
        \/ p \in Queries /\ pc[p] = 2
        \/ p \in Rotations /\ pc[p] \in {2, 4, 7}
        \/ p \in Backups /\ pc[p] \in {2, 4, 5}
        \/ p \in Saves /\ pc[p] = 2
    BY <1>4, Places DEF OnCourse
  <2>2. Reading'
    BY <1>1, <2>1, Advanced DEF OnCourse, Reading, OneKindEach, Requests
  <2>3. Exclusive'
    BY <1>1, <2>1, Advanced DEF OnCourse, Exclusive, Writing, Inside, Asks, OneKindEach, Requests
  <2> QED BY <2>2, <2>3
<1>7. CASE At(p, "read meta") /\ got' = [got EXCEPT ![p].meta = files.meta]
  <2>1. \/ p \in Downloads /\ pc[p] = 3
        \/ p \in Queries /\ pc[p] = 2
        \/ p \in Rotations /\ pc[p] \in {4, 7}
        \/ p \in Backups /\ pc[p] = 4
    BY <1>7, Places DEF OnCourse
  <2>2. got'[p].meta = files.meta /\ got'[p].record = got[p].record
    BY <1>2, <1>7 DEF OnCourse, Written
  <2>3. Paired'
    BY <1>1, <1>3, <2>1, <2>2, Advanced DEF OnCourse, Paired, Halfway, Rekeying, OneKindEach, Requests
  <2>4. Captured'
    BY <1>1, <1>3, <2>1, <2>2, Advanced DEF OnCourse, Captured, OneKindEach, Requests
  <2> QED BY <1>5, <1>6, <2>3, <2>4
<1>8. CASE At(p, "read kdbx") /\ got' = [got EXCEPT ![p].kdbx = files.kdbx, ![p].key = files.key]
  <2>1. p \in Downloads \cup Backups /\ pc[p] = 5
    BY <1>8, Places DEF OnCourse
  <2>2. /\ got'[p].kdbx = files.kdbx /\ got'[p].key = files.key
        /\ got'[p].meta = got[p].meta /\ got'[p].record = got[p].record
    BY <1>2, <1>8 DEF OnCourse, Written
  <2>3. Paired'
    BY <1>1, <1>3, <2>1, <2>2, Advanced DEF OnCourse, Paired, Halfway, Rekeying, OneKindEach, Requests
  <2>4. \A r \in Requests : ~Halfway(r)
    BY <2>1 DEF OnCourse, Reading, Exclusive, Halfway, Writing, OneKindEach, Requests
  <2>5. got'[p].meta = got'[p].kdbx
    BY <2>1, <2>2, <2>4 DEF Paired, Captured
  <2>6. p \in Backups => \A r \in Rotations : ~Rekeying(r)
    BY <2>1 DEF Exclusive, Inside, Rekeying, OneKindEach, Requests
  <2>7. p \in Backups => got'[p].record = got'[p].key
    BY <2>1, <2>2, <2>6 DEF Paired, Captured
  <2>8. Captured'
    BY <1>1, <1>3, <2>1, <2>5, <2>7, Advanced DEF OnCourse, Captured, OneKindEach, Requests
  <2> QED BY <1>5, <1>6, <2>3, <2>8
<1>9. CASE At(p, "read record") /\ got' = [got EXCEPT ![p].record = files.record]
  <2>1. p \in Saves \cup Rotations \cup Backups /\ pc[p] = 2
    BY <1>9, Places DEF OnCourse
  <2>2. got'[p].record = files.record
    BY <1>2, <1>9 DEF OnCourse, Written
  <2>3. Paired'
    BY <1>1, <1>3, <2>1, <2>2, Advanced DEF OnCourse, Paired, Halfway, Rekeying, OneKindEach, Requests
  <2>4. Captured'
    BY <1>1, <1>3, <2>1, <2>2, Advanced DEF OnCourse, Captured, OneKindEach, Requests
  <2> QED BY <1>5, <1>6, <2>3, <2>4
<1> QED BY <1>7, <1>8, <1>9 DEF Read

LEMMA WriteStep ==
    ASSUME OneKindEach, LockInv, NEW p \in Requests, Write(p)
    PROVE  LockInv'
<1> USE DEF LockInv
<1>1. UNCHANGED <<reads, parked, writer, owner, got>> /\ Advance(p)
  BY DEF Write
<1>2. got[p] \in Written /\ files \in Written
  BY DEF OnCourse
<1>3. \/ p \in Saves /\ pc[p] = 4 /\ files' = [files EXCEPT !.kdbx = files.meta + 1]
      \/ /\ p \in Rotations /\ pc[p] = 10
         /\ files' = [files EXCEPT !.kdbx = files.meta + 1, !.key = got[p].record + 1]
      \/ /\ \/ p \in Saves /\ pc[p] = 5
            \/ p \in Rotations /\ pc[p] = 11
         /\ files' = [files EXCEPT !.meta = files.meta + 1]
      \/ p \in Rotations /\ pc[p] = 13 /\ files' = [files EXCEPT !.record = got[p].record + 1]
  BY Places DEF OnCourse, Write
<1>4. /\ files' \in Written
      /\ files'.kdbx = IF pc[p] \in {4, 10} THEN files.meta + 1 ELSE files.kdbx
      /\ files'.meta = IF pc[p] \in {5, 11} THEN files.meta + 1 ELSE files.meta
      /\ files'.key = IF pc[p] = 10 THEN got[p].record + 1 ELSE files.key
      /\ files'.record = IF pc[p] = 13 THEN got[p].record + 1 ELSE files.record
  <2>1. /\ files.kdbx \in Nat /\ files.meta \in Nat /\ files.key \in Nat /\ got[p].record \in Nat
        /\ files = [kdbx |-> files.kdbx, meta |-> files.meta, key |-> files.key, record |-> files.record]
    BY <1>2 DEF Written
  <2>2. CASE pc[p] = 4 /\ files' = [files EXCEPT !.kdbx = files.meta + 1]
    BY <1>2, <2>1, <2>2 DEF Written
  <2>3. CASE pc[p] = 10 /\ files' = [files EXCEPT !.kdbx = files.meta + 1, !.key = got[p].record + 1]
    <3>1. files' = [kdbx |-> files.meta + 1, meta |-> files.meta, key |-> got[p].record + 1, record |-> files.record]
      BY <1>2, <2>3 DEF Written
    <3>2. files.meta + 1 \in Nat /\ got[p].record + 1 \in Nat /\ files.record \in Nat
      BY <1>2, <2>1 DEF Written
    <3>3. files' \in Written
      BY <2>1, <3>1, <3>2 DEF Written
    <3>4. /\ files'.kdbx = files.meta + 1 /\ files'.meta = files.meta
          /\ files'.key = got[p].record + 1 /\ files'.record = files.record
      BY <3>1
    <3> QED BY <2>3, <3>3, <3>4
  <2>4. CASE pc[p] \in {5, 11} /\ files' = [files EXCEPT !.meta = files.meta + 1]
    BY <1>2, <2>1, <2>4 DEF Written
  <2>5. CASE pc[p] = 13 /\ files' = [files EXCEPT !.record = got[p].record + 1]
    BY <1>2, <2>1, <2>5 DEF Written
  <2> QED BY <1>3, <2>2, <2>3, <2>4, <2>5
<1>5. OnCourse'
  BY <1>1, <1>4, Advanced DEF OnCourse
<1>6. \/ p \in Saves /\ pc[p] \in {4, 5}
      \/ p \in Rotations /\ pc[p] \in {10, 11, 13}
  BY <1>3
<1>7. Reading'
  BY <1>1, <1>6, Advanced DEF OnCourse, Reading, OneKindEach, Requests
<1>8. Exclusive'
  BY <1>1, <1>6, Advanced DEF OnCourse, Exclusive, Writing, Inside, Asks, OneKindEach, Requests
\* Everyone else is outside both locks, or between two locks of its own.
<1>9. /\ \A r \in Requests \ {p} : ~Inside(r)
      /\ pc[p] # 13 => \A r \in Requests : reads[r] = 0
  BY <1>6 DEF Exclusive, Inside, Writing
<1>10. Paired'
  <2>1. \A r \in Requests \ {p} : ~Halfway(r) /\ ~Rekeying(r) /\ ~(r \in Rotations /\ pc[r] \in 3 .. 13)
    BY <1>9 DEF Inside, Halfway, Rekeying
  <2>2. \A r \in Requests \ {p} : pc'[r] = pc[r]
    BY <1>1, Advanced
  <2>3. pc'[p] = pc[p] + 1
    BY <1>1, Advanced
  <2>5. Halfway(p) <=> pc[p] \in {5, 11}
    BY <1>6 DEF Halfway, OneKindEach
  <2>6. Halfway(p)' <=> pc[p] \in {4, 10}
    BY <1>6, <2>3 DEF Halfway, OneKindEach
  <2>7. Rekeying(p) <=> pc[p] \in {11, 13}
    BY <1>6 DEF Rekeying, OneKindEach
  <2>8. Rekeying(p)' <=> pc[p] \in {10, 11}
    BY <1>6, <2>3 DEF Rekeying, OneKindEach
  <2>9. /\ (\A r \in Requests : ~Halfway(r)') => files'.kdbx = files'.meta
        /\ \A r \in Requests : Halfway(r)' => files'.kdbx = files'.meta + 1
    BY <1>2, <1>6, <2>1, <2>2, <1>4, <2>5, <2>6 DEF Paired, Halfway, Written
  <2>10. pc[p] \in {10, 11, 13} => got[p].record = files.record
    BY <1>6 DEF Paired, OneKindEach
  <2>11. /\ (\A r \in Rotations : ~Rekeying(r)') => files'.key = files'.record
         /\ \A r \in Rotations : Rekeying(r)' => files'.key = files'.record + 1
    BY <1>2, <1>6, <2>1, <2>2, <1>4, <2>7, <2>8, <2>10 DEF Paired, Rekeying, Written, Requests
  <2>12. \A r \in Rotations : pc'[r] \in 3 .. 13 => got'[r].record = files'.record
    BY <1>1, <1>6, <2>1, <2>2, <2>3, <1>4, <2>10 DEF Requests, OneKindEach
  <2> QED BY <2>9, <2>11, <2>12 DEF Paired, Halfway, Rekeying
<1>11. Captured'
  <2>1. \A r \in Backups : pc'[r] = pc[r] /\ pc[r] \notin 2 .. 7
    BY <1>1, <1>6, <1>9, Advanced DEF Inside, OneKindEach, Requests
  <2>2. \A r \in Downloads : pc'[r] = pc[r]
    BY <1>1, <1>6, Advanced DEF OneKindEach, Requests
  <2>3. \A r \in Downloads : pc[r] \in {4, 5} => files'.meta = files.meta
    <3>1. \A r \in Downloads : pc[r] \in {4, 5} => pc[p] = 13
      BY <1>9 DEF Reading, Requests
    <3> QED BY <1>4, <3>1
  <2> QED BY <1>1, <2>1, <2>2, <2>3 DEF Captured
<1> QED BY <1>5, <1>7, <1>8, <1>10, <1>11

LEMMA LockInvStep ==
    ASSUME OneKindEach, LockInv, [LockNext]_lockVars
    PROVE  LockInv'
<1>1. CASE UNCHANGED lockVars
  BY <1>1 DEF lockVars, LockInv, OnCourse, Reading, Exclusive, Paired, Captured, Asks, Writing, Inside, Halfway, Rekeying
<1>2. CASE LockNext
  <2>1. PICK p \in Requests : Step(p)
    BY <1>2 DEF LockNext
  <2> QED
    BY <2>1, RLockStep, RUnlockStep, AnnounceStep, LockStep, UnlockStep, SharedStep, ReadStep, WriteStep DEF Step
<1> QED BY <1>1, <1>2

(* What a download or a backup took of several files is of one moment, for *)
(* any number of requests of each kind: a request that reads holds off the *)
(* writers, and a backup the rotations, until it has read them all.        *)
THEOREM CapturesHold == LockSpec => []CapturesAgree
<1>1. LockInv => CapturesAgree
  <2> SUFFICES ASSUME LockInv PROVE CapturesAgree
    OBVIOUS
  <2>1. \A p \in Requests : Done(p) => (p \in Downloads => pc[p] > 6) /\ (p \in Backups => pc[p] > 7)
    BY Places, StoreLockAssumption DEF LockInv, OnCourse, StoreLockAssumption
  <2>2. \A p \in Downloads \cup Backups : pc[p] \in Nat
    BY DEF LockInv, OnCourse, Requests
  <2> QED BY <2>1, <2>2 DEF LockInv, Captured, CapturesAgree, Requests
<1> QED BY <1>1, LockInvInit, LockInvStep, StoreLockAssumption, PTL DEF LockSpec, StoreLockAssumption

(* The types: a request gives back the read locks it took, and has two at   *)
(* most.                                                                   *)
THEOREM LockTypesHold == LockSpec => []LockTypeOK
<1>1. LockInv => LockTypeOK
  <2> SUFFICES ASSUME LockInv PROVE LockTypeOK
    OBVIOUS
  <2>1. \A p \in Requests : reads[p] \in 0 .. 2
    BY DEF LockInv, Reading, Requests
  <2>2. reads \in [Requests -> 0 .. 2]
    BY <2>1 DEF LockInv, OnCourse
  <2> QED BY <2>2 DEF LockInv, OnCourse, Written, LockTypeOK, Files
<1> QED BY <1>1, LockInvInit, LockInvStep, StoreLockAssumption, PTL DEF LockSpec, StoreLockAssumption

-----------------------------------------------------------------------------
(* Nobody waits for everybody *)

(* From a writer's announcement to its Unlock.                              *)
Announced(p) == \/ p \in Saves /\ pc[p] \in {3, 4, 5, 6}
                \/ p \in Rotations /\ pc[p] \in {9, 10, 11, 12, 14, 15, 16, 17}

(* Readers wait for a writer only, and who has a lock is in the code it     *)
(* guards.                                                                  *)
WaitInv ==
    /\ parked # {} => writer # NoOne
    /\ writer # NoOne => Announced(writer)
    /\ owner # NoOne => Inside(owner)

(* The guards of Step: p's next operation does not have to wait.            *)
CanStep(p) ==
    /\ ~Done(p)
    /\ At(p, "RLock") => p \notin parked
    /\ At(p, "Lock") => writer = NoOne \/ (writer = p /\ \A q \in Requests : reads[q] = 0)
    /\ At(p, "lock shared") => owner = NoOne

LEMMA WaitInvInit == LockInit => WaitInv
  BY DEF LockInit, WaitInv

(* An operation that takes and gives back neither lock.                     *)
LEMMA WaitsOn ==
    ASSUME LockInv, WaitInv, NEW p \in Requests, Advance(p),
           UNCHANGED <<parked, writer, owner>>,
           writer = p => Announced(p)', owner = p => Inside(p)'
    PROVE  WaitInv'
<1>1. \A r \in Requests : r # p => pc'[r] = pc[r]
  BY Advanced DEF LockInv
<1>2. writer \in Requests \cup {NoOne} /\ owner \in Requests \cup {NoOne}
  BY DEF LockInv, OnCourse
<1>3. writer # NoOne => Announced(writer)'
  BY <1>1, <1>2 DEF WaitInv, Announced
<1>4. owner # NoOne => Inside(owner)'
  BY <1>1, <1>2 DEF WaitInv, Inside
<1> QED BY <1>3, <1>4 DEF WaitInv, Announced, Inside

LEMMA WaitInvStep ==
    ASSUME OneKindEach, LockInv, WaitInv, [LockNext]_lockVars
    PROVE  WaitInv'
<1> USE DEF Requests, OneKindEach
<1>1. /\ pc \in [Requests -> Nat \ {0}] /\ parked \subseteq Requests
      /\ writer \in Requests \cup {NoOne} /\ owner \in Requests \cup {NoOne}
  BY DEF LockInv, OnCourse
<1>2. CASE UNCHANGED lockVars
  BY <1>2 DEF lockVars, WaitInv, Announced, Inside
<1>3. CASE LockNext
  <2>1. PICK p \in Requests : Step(p)
    BY <1>3 DEF LockNext
  <2>2. pc[p] \in Nat \ {0}
    BY <1>1, <2>1
  <2>3. ASSUME Advance(p) PROVE pc'[p] = pc[p] + 1
    BY <2>1, <2>3, Advanced DEF LockInv
  <2>4. CASE RLock(p)
    <3>1. Asks(p) /\ UNCHANGED <<writer, owner>>
      BY <2>1, <2>2, <2>4, Places DEF Asks, RLock
    <3>2. CASE writer = NoOne
      <4>1. Advance(p) /\ UNCHANGED parked
        BY <2>4, <3>2 DEF RLock
      <4>2. owner = p => Inside(p)'
        <5>1. owner = p => Inside(p)
          BY <2>1 DEF WaitInv
        <5> QED BY <2>3, <3>1, <4>1, <5>1 DEF Asks, Inside
      <4> QED BY <2>1, <3>1, <3>2, <4>1, <4>2, WaitsOn
    <3>3. CASE writer # NoOne
      <4>1. UNCHANGED pc
        BY <2>4, <3>3 DEF RLock
      <4> QED BY <3>1, <3>3, <4>1 DEF WaitInv, Announced, Inside
    <3> QED BY <3>2, <3>3
  <2>5. CASE RUnlock(p) \/ Read(p) \/ Write(p)
    <3>1. Advance(p) /\ UNCHANGED <<parked, writer, owner>>
      BY <2>5 DEF RUnlock, Read, Write
    <3>2. \/ p \in Downloads \cup Queries
          \/ p \in Saves /\ pc[p] \in {2, 4, 5}
          \/ p \in Backups /\ pc[p] \in {2, 4, 5, 6}
          \/ p \in Rotations /\ pc[p] \in {2, 4, 5, 7, 8, 10, 11, 13}
      BY <2>1, <2>2, <2>5, Places DEF RUnlock, Read, Write
    <3>3. writer = p => Announced(p)'
      <4>1. writer = p => Announced(p)
        BY <2>1 DEF WaitInv
      <4> QED BY <2>3, <3>1, <3>2, <4>1 DEF Announced
    <3>4. owner = p => Inside(p)'
      <4>1. owner = p => Inside(p)
        BY <2>1 DEF WaitInv
      <4> QED BY <2>3, <3>1, <3>2, <4>1 DEF Inside
    <3> QED BY <2>1, <3>1, <3>3, <3>4, WaitsOn
  <2>6. CASE Announce(p)
    <3>1. writer' = p /\ UNCHANGED <<pc, owner>> /\ Announced(p)
      BY <2>1, <2>2, <2>6, Places DEF Announce, Announced
    <3> QED BY <2>1, <3>1 DEF WaitInv, Announced, Inside
  <2>7. CASE Lock(p)
    <3>1. Advance(p) /\ UNCHANGED <<parked, writer, owner>>
      BY <2>7 DEF Lock
    <3>2. \/ p \in Saves /\ pc[p] = 3
          \/ p \in Rotations /\ pc[p] \in {9, 14, 16}
      BY <2>1, <2>2, <2>7, Places DEF Lock
    <3>3. Announced(p)' /\ Inside(p)'
      BY <2>3, <3>1, <3>2 DEF Announced, Inside
    <3> QED BY <2>1, <3>1, <3>3, WaitsOn
  <2>8. CASE Unlock(p)
    <3>1. /\ writer' = NoOne /\ parked' = {} /\ owner' = owner
          /\ pc' = [q \in Requests |-> IF q \in parked \cup {p} THEN pc[q] + 1 ELSE pc[q]]
      BY <2>8 DEF Unlock
    <3>2. \/ p \in Saves /\ pc[p] = 6
          \/ p \in Rotations /\ pc[p] \in {12, 15, 17}
      BY <2>1, <2>2, <2>8, Places DEF Unlock
    <3>3. ASSUME owner # NoOne PROVE Inside(owner)'
      <4>1. Inside(owner) /\ owner \in Requests
        BY <1>1, <3>3 DEF WaitInv
      <4>2. pc'[owner] = IF owner \in parked \cup {p} THEN pc[owner] + 1 ELSE pc[owner]
        BY <3>1, <4>1
      <4>3. owner \in parked => Asks(owner)
        BY DEF LockInv, Exclusive
      <4> QED BY <3>1, <3>2, <4>1, <4>2, <4>3 DEF Inside, Asks
    <3> QED BY <3>1, <3>3 DEF WaitInv, Inside
  <2>9. CASE LockShared(p)
    <3>1. Advance(p) /\ owner' = p /\ UNCHANGED <<parked, writer>>
      BY <2>9 DEF LockShared
    <3>2. p \in Saves \cup Rotations \cup Backups /\ pc[p] = 1
      BY <2>1, <2>2, <2>9, Places DEF LockShared
    <3>3. Inside(p)'
      BY <2>3, <3>1, <3>2 DEF Inside
    <3>4. ASSUME writer # NoOne PROVE Announced(writer)'
      <4>1. Announced(writer) /\ writer \in Requests /\ writer # p
        BY <1>1, <3>2, <3>4 DEF WaitInv, Announced
      <4>2. pc'[writer] = pc[writer]
        BY <2>1, <3>1, <4>1, Advanced DEF LockInv
      <4> QED BY <3>1, <4>1, <4>2 DEF Announced
    <3> QED BY <2>1, <3>1, <3>3, <3>4 DEF WaitInv, Announced, Inside
  <2>10. CASE UnlockShared(p)
    <3>1. Advance(p) /\ owner' = NoOne /\ UNCHANGED <<parked, writer>>
      BY <2>10 DEF UnlockShared
    <3>2. \/ p \in Saves \cup Backups /\ pc[p] = 7
          \/ p \in Rotations /\ pc[p] = 18
      BY <2>1, <2>2, <2>10, Places DEF UnlockShared
    <3>3. ASSUME writer # NoOne PROVE Announced(writer)'
      <4>1. Announced(writer) /\ writer \in Requests /\ writer # p
        BY <1>1, <3>2, <3>3 DEF WaitInv, Announced
      <4>2. pc'[writer] = pc[writer]
        BY <2>1, <3>1, <4>1, Advanced DEF LockInv
      <4> QED BY <3>1, <4>1, <4>2 DEF Announced
    <3> QED BY <3>1, <3>3 DEF WaitInv, Announced
  <2> QED BY <2>1, <2>4, <2>5, <2>6, <2>7, <2>8, <2>9, <2>10 DEF Step
<1> QED BY <1>2, <1>3

(* The ends of the programs.                                                *)
LEMMA Ended ==
    ASSUME OneKindEach, NEW p \in Requests, Done(p)
    PROVE  /\ p \in Downloads => pc[p] > 6
           /\ p \in Queries => pc[p] > 3
           /\ p \in Saves \cup Backups => pc[p] > 7
           /\ p \in Rotations => pc[p] > 18
<1>1. ASSUME p \in Downloads PROVE Len(Program(p)) = 6
  BY <1>1, Downloading DEF Program, OneKindEach
<1>2. ASSUME p \in Queries PROVE Len(Program(p)) = 3
  <2>1. Program(p) = GetMetadata
    BY <1>2 DEF Program, OneKindEach
  <2> QED BY <2>1, Querying DEF Runs
<1>3. ASSUME p \in Saves PROVE Len(Program(p)) = 7
  <2>1. Program(p) = WithWriter
    BY <1>3 DEF Program, OneKindEach
  <2> QED BY <2>1, Saving
<1>4. ASSUME p \in Rotations PROVE Len(Program(p)) = 18
  <2>1. Program(p) = RotateRecord
    BY <1>4 DEF Program, OneKindEach
  <2> QED BY <2>1, Rotates
<1>5. ASSUME p \in Backups PROVE Len(Program(p)) = 7
  <2>1. Program(p) = WithSnapshot
    BY <1>5 DEF Program, OneKindEach
  <2> QED BY <2>1, Capturing
<1> QED BY <1>1, <1>2, <1>3, <1>4, <1>5 DEF Done

LEMMA KindsApart ==
    ASSUME OneKindEach, NEW p
    PROVE  /\ p \in Saves => p \notin Downloads /\ p \notin Queries /\ p \notin Rotations /\ p \notin Backups
           /\ p \in Rotations => p \notin Downloads /\ p \notin Queries /\ p \notin Backups
  BY DEF OneKindEach

(* Where no download re-enters the lock, some request can go on.            *)
LEMMA SomeStep ==
    ASSUME OneKindEach, LockInv, WaitInv, ~Reentered,
           NEW p \in Requests, ~Done(p)
    PROVE  \E q \in Requests : CanStep(q)
<1>1. /\ pc \in [Requests -> Nat \ {0}] /\ reads \in [Requests -> Nat]
      /\ parked \subseteq Requests
      /\ writer \in Requests \cup {NoOne} /\ owner \in Requests \cup {NoOne}
  BY DEF LockInv, OnCourse
(* Who holds a read lock is not waiting. *)
<1>2. ASSUME NEW q \in Requests, reads[q] # 0 PROVE CanStep(q)
  <2>1. reads[q] > 0 /\ pc[q] \in Nat \ {0}
    BY <1>1, <1>2
  <2>2. q \notin parked
    BY <2>1 DEF Reentered
  <2>3. \/ q \in Downloads /\ pc[q] \in {2, 3, 4, 5, 6}
        \/ q \in Queries /\ pc[q] \in {2, 3}
        \/ q \in Rotations /\ pc[q] \in {4, 5, 7, 8}
        \/ q \in Backups /\ pc[q] \in {4, 5, 6}
    BY <1>2 DEF LockInv, Reading, Requests
  <2>4. ~Done(q)
    BY <2>3, Ended
  <2>5. /\ At(q, "Lock") => \/ q \in Saves /\ pc[q] = 3
                            \/ q \in Rotations /\ pc[q] \in {9, 14, 16}
        /\ At(q, "lock shared") => q \in Saves \cup Rotations \cup Backups /\ pc[q] = 1
    BY <2>1, Places
  <2>6. ~At(q, "Lock") /\ ~At(q, "lock shared")
    <3>1. /\ q \in Saves => q \notin Downloads /\ q \notin Queries /\ q \notin Rotations /\ q \notin Backups
          /\ q \in Rotations => q \notin Downloads /\ q \notin Queries /\ q \notin Backups
      BY KindsApart
    <3>2. pc[q] # 1 \/ q \notin Saves \cup Rotations \cup Backups
      BY <2>3, <3>1
    <3>3. q \notin Saves /\ (q \in Rotations => pc[q] \notin {9, 14, 16})
      BY <2>3, <3>1
    <3> QED BY <2>5, <3>2, <3>3, Zenon
  <2> QED BY <2>2, <2>4, <2>6, Zenon DEF CanStep
(* A writer that announced itself waits for those. *)
<1>3. ASSUME writer # NoOne PROVE \E q \in Requests : CanStep(q)
  <2>1. writer \in Requests /\ Announced(writer) /\ pc[writer] \in Nat \ {0}
    BY <1>1, <1>3 DEF WaitInv
  <2>2. ~Done(writer)
    BY <2>1, Ended DEF Announced
  <2>3. ~At(writer, "RLock") /\ ~At(writer, "lock shared")
    <3> DEFINE w == writer
    <3>1. w \in Requests /\ pc[w] \in Nat \ {0}
      BY <2>1
    <3>2. \/ w \in Saves /\ pc[w] \in {3, 4, 5, 6}
          \/ w \in Rotations /\ pc[w] \in {9, 10, 11, 12, 14, 15, 16, 17}
      BY <2>1 DEF Announced
    <3> HIDE DEF w
    <3>3. /\ At(w, "RLock") => \/ w \in Downloads
                               \/ w \in Queries
                               \/ w \in Rotations /\ pc[w] \in {3, 6}
                               \/ w \in Backups
          /\ At(w, "lock shared") => w \in Saves \cup Rotations \cup Backups /\ pc[w] = 1
      BY <3>1, Places
    <3>4. ~At(w, "RLock") /\ ~At(w, "lock shared")
      <4>1. /\ w \in Saves => w \notin Downloads /\ w \notin Queries /\ w \notin Rotations /\ w \notin Backups
            /\ w \in Rotations => w \notin Downloads /\ w \notin Queries /\ w \notin Backups
        BY KindsApart
      <4>2. pc[w] # 1 /\ w \notin Downloads /\ w \notin Queries /\ w \notin Backups
        BY <3>2, <4>1
      <4>3. w \in Rotations => pc[w] \notin {3, 6}
        BY <3>2, <4>1
      <4> QED BY <3>3, <4>2, <4>3, Zenon
    <3> QED BY <3>4 DEF w
  <2>4. CASE \A q \in Requests : reads[q] = 0
    BY <2>1, <2>2, <2>3, <2>4 DEF CanStep
  <2> QED BY <1>2, <2>4
(* Who is in shared.mu waits for vault.mu only. *)
<1>4. ASSUME writer = NoOne, owner # NoOne PROVE \E q \in Requests : CanStep(q)
  <2>1. owner \in Requests /\ Inside(owner) /\ pc[owner] \in Nat \ {0} /\ parked = {}
    BY <1>1, <1>4 DEF WaitInv
  <2>2. ~Done(owner)
    BY <2>1, Ended DEF Inside
  <2>3. ~At(owner, "lock shared")
    <3>1. At(owner, "lock shared") => pc[owner] = 1
      BY <2>1, Places
    <3>2. pc[owner] # 1
      BY <2>1 DEF Inside
    <3> QED BY <3>1, <3>2
  <2> QED BY <1>4, <2>1, <2>2, <2>3 DEF CanStep
<1>5. ASSUME writer = NoOne, owner = NoOne PROVE CanStep(p)
  BY <1>5 DEF CanStep, WaitInv
<1> QED BY <1>3, <1>4, <1>5

(* Taking shared.mu before vault.mu, no set of requests waits for itself:   *)
(* until all are answered one can go on, for any number of requests, unless *)
(* OpenVault re-entered its read lock around a writer that announced        *)
(* itself (vault.go:271).  This is the safety that OnlyReentryBlocks needs. *)
THEOREM OnlyReentryStops ==
    LockSpec => [](\/ Reentered
                   \/ \A p \in Requests : Done(p)
                   \/ \E p \in Requests : CanStep(p))
<1>1. LockInv /\ WaitInv => \/ Reentered
                            \/ \A p \in Requests : Done(p)
                            \/ \E p \in Requests : CanStep(p)
  BY SomeStep, StoreLockAssumption DEF StoreLockAssumption
<1> QED
  BY <1>1, LockInvInit, LockInvStep, WaitInvInit, WaitInvStep, StoreLockAssumption,
     PTL DEF LockSpec, StoreLockAssumption

=============================================================================
