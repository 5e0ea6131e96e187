-------------------------------- MODULE Sessions --------------------------------
(***************************************************************************)
(* The sessions of one account: the map internal/api keeps under sessMu    *)
(* and writes through to sessions.json, the devices and pairing codes of   *)
(* internal/devices, and the logout events KySignOn delivers, which are    *)
(* kept for a while in sso-logout.json to fence what they overtook.        *)
(*                                                                         *)
(* A login, a pairing and a redeem are several steps, and other requests   *)
(* run between them.  Any of the files can fail to be written, the server  *)
(* can stop at any point, and it starts again from the files.  Expiry, of  *)
(* a session or of a pairing code, is a session or a code that is not used *)
(* any more.                                                               *)
(***************************************************************************)
EXTENDS Integers

CONSTANTS
    Sids,          \* OpenID session IDs; 0 stands for none
    MaxClock,      \* bound: tokens KySignOn issues, of either kind
    MaxPairings,   \* bound: pairings started
    MaxRotations,  \* bound: vault key rotations
    MaxSwitches,   \* bound: deactivations of the account
    MaxFaults,     \* bound: writes that fail
    MaxRestarts    \* bound: restarts of the server

ASSUME SessionsAssumption ==
    /\ Sids \subseteq Nat
    /\ {MaxClock, MaxPairings, MaxRotations, MaxSwitches, MaxFaults, MaxRestarts} \subseteq Nat

VARIABLES
    clock,    \* KySignOn's: the tokens issued so far
    logins,   \* verified identities whose callback has yet to start a session
    tokens,   \* logout tokens that can be delivered, once or more
    events,   \* those admitted, retained until they lapse
    unsaved,  \* sessions one of them ended in memory only (logoutPending)
    live,     \* the session map
    file,     \* sessions.json
    dirty,    \* sessionsDirty
    devs,     \* registered devices in memory
    devFile,  \* devices.json
    envs,     \* devices with an envelope in the vault's metadata
    starts,   \* pairings whose session was resolved and whose code was not made
    codes,    \* pairing codes
    redeems,  \* redeemed ones on their way to a session and an envelope
    active,   \* the account's flag
    leaving,  \* TRUE between a directory deactivation and its revocation
    count,    \* what happened so far: sessions, pairings, and the bounded events
    ended     \* sessions whose end was promised, and by what

sessionsVars == <<clock, logins, tokens, events, unsaved, live, file, dirty, devs, devFile,
                  envs, starts, codes, redeems, active, leaving, count, ended>>

idpVars == <<clock, logins, tokens, events, unsaved>>
pairVars == <<starts, codes, redeems>>
userVars == <<active, leaving>>

(* sso.Identity: the issuer's session and the time of the ID token.  A     *)
(* logout token has the same shape; sid 0 names every session of the       *)
(* subject.  No two tokens have the same time, so it is also the jti.      *)
Tokens == [sid : Nat, iat : Nat]

(* What a pairing carries: the session that started it and its device.  Its *)
(* number stands for the random PIN and secret, and for the random ID of    *)
(* the one device it can register.                                          *)
Origins == [no : Nat \ {0}, sid : Nat, iat : Nat, from : Nat \ {0}, issuer : Nat]

(* A session's from is the session that started the pairing that minted    *)
(* it; a browser's has 0 there and no device.                              *)
SessionSet ==
    {s \in [id : Nat \ {0}, sid : Nat, iat : Nat, dev : Nat, from : Nat] :
       s.dev = 0 <=> s.from = 0}

Redeems == [origin : Origins, phase : {"registered", "minted"}]

Causes == {"route", "rotation"}

Counters == {"sessions", "pairings", "rotations", "switches", "faults", "restarts"}

SessionsTypeOK ==
    /\ clock \in Nat
    /\ logins \subseteq Tokens
    /\ tokens \subseteq Tokens
    /\ events \subseteq Tokens
    /\ unsaved \subseteq [by : events, id : Nat]
    /\ live \subseteq SessionSet
    /\ file \subseteq SessionSet
    /\ dirty \in BOOLEAN
    /\ devs \subseteq Nat /\ devFile \subseteq Nat /\ envs \subseteq Nat
    /\ starts \subseteq Origins
    /\ codes \subseteq Origins
    /\ redeems \subseteq Redeems
    /\ active \in BOOLEAN
    /\ leaving \in BOOLEAN
    /\ count \in [Counters -> Nat]
    /\ ended \subseteq [id : Nat, by : Causes]

SessionsInit ==
    /\ clock = 0
    /\ logins = {} /\ tokens = {} /\ events = {} /\ unsaved = {}
    /\ live = {} /\ file = {} /\ dirty = FALSE
    /\ devs = {} /\ devFile = {} /\ envs = {}
    /\ starts = {} /\ codes = {} /\ redeems = {}
    /\ active = TRUE /\ leaving = FALSE
    /\ count = [c \in Counters |-> 0]
    /\ ended = {}

-----------------------------------------------------------------------------
(* Files *)

(* A step loses the writes of the files in lost; that is one fault. *)
MayLose(lost) == lost # {} => count["faults"] < MaxFaults

Charged(lost) == IF lost = {} THEN count ELSE [count EXCEPT !["faults"] = @ + 1]

Counted(c, lost) == [Charged(lost) EXCEPT ![c] = @ + 1]

(* Mutation of SaveSessions: a failure is not remembered. *)
SaveSessionsOnce(map, lost) ==
    /\ file' = IF "sessions" \in lost THEN file ELSE map
    /\ dirty' = FALSE

(* saveSessionsLocked: the map as it is, or a file to be retried. *)
SaveSessions(map, lost) ==
    IF "sessions" \in lost
      THEN file' = file /\ dirty' = TRUE
      ELSE file' = map /\ dirty' = FALSE

(* devices.json after some were revoked one by one; each write has all of  *)
(* them, and its error is dropped.                                         *)
SaveDevices(kept, lost) ==
    IF "devices" \in lost
      THEN \E d \in SUBSET devFile : kept \subseteq d /\ devFile' = d
      ELSE devFile' = kept

Ids(s) == {x.id : x \in s}
Promised(s, by) == ended \cup [id : Ids(s), by : {by}]

-----------------------------------------------------------------------------
(* KySignOn *)

Matches(e, id) == IF e.sid # 0 THEN id.sid = e.sid ELSE id.iat <= e.iat

(* Mutation of Fenced: only a logout of the whole subject is looked for. *)
FencedBySubject(id) == \E e \in events : e.sid = 0 /\ Matches(e, id)

Fenced(id) == \E e \in events : Matches(e, id)

Issue == clock < MaxClock /\ clock' = clock + 1

(* An ID token, verified by the callback. *)
BeginLogin ==
    /\ Issue
    /\ \E sid \in Sids : logins' = logins \cup {[sid |-> sid, iat |-> clock + 1]}
    /\ UNCHANGED <<tokens, events, unsaved, live, file, dirty, devs, devFile, envs,
                   pairVars, userVars, count, ended>>

IssueLogout ==
    /\ Issue
    /\ \E sid \in Sids \cup {0} : tokens' = tokens \cup {[sid |-> sid, iat |-> clock + 1]}
    /\ UNCHANGED <<logins, events, unsaved, live, file, dirty, devs, devFile, envs,
                   pairVars, userVars, count, ended>>

(* The token expires, and with it the event's retention. *)
Lapse(e) ==
    /\ tokens' = tokens \ {e}
    /\ events' = events \ {e}
    /\ unsaved' = {u \in unsaved : u.by # e}
    /\ UNCHANGED <<clock, logins, live, file, dirty, devs, devFile, envs,
                   pairVars, userVars, count, ended>>

-----------------------------------------------------------------------------
(* Sessions *)

Admitted(id) == active /\ ~Fenced(id)

NewSession(id, dev, from) ==
    [id |-> count["sessions"] + 1, sid |-> id.sid, iat |-> id.iat, dev |-> dev, from |-> from]

(* Insert a session and save; a save that fails is not reported. *)
Mint(s, lost) ==
    /\ live' = live \cup {s}
    /\ SaveSessions(live \cup {s}, lost)
    /\ count' = Counted("sessions", lost)

(* withAuth has seen a live session of the account; what a request does    *)
(* after that may find the session gone.                                   *)
Authorised == count["sessions"] > 0

(* startSession, after the callback's own checks.                          *)
FinishLogin(id) ==
    /\ id \in logins
    /\ logins' = logins \ {id}
    /\ IF Admitted(id)
         THEN \E lost \in SUBSET {"sessions"} :
                /\ MayLose(lost)
                /\ Mint(NewSession(id, 0, 0), lost)
         ELSE UNCHANGED <<live, file, dirty, count>>
    /\ UNCHANGED <<clock, tokens, events, unsaved, devs, devFile, envs, pairVars,
                   userVars, ended>>

(* POST /api/auth/logout by cookie.  Answered as done only when the file   *)
(* was written; so are the two routes below.                               *)
Logout(s) ==
    /\ s \in live
    /\ s.dev = 0
    /\ \E lost \in SUBSET {"sessions"} :
         /\ MayLose(lost)
         /\ live' = live \ {s}
         /\ SaveSessions(live \ {s}, lost)
         /\ ended' = IF lost = {} THEN Promised({s}, "route") ELSE ended
         /\ count' = Charged(lost)
    /\ UNCHANGED <<idpVars, devs, devFile, envs, pairVars, userVars>>

(* revokeDeviceLocked ends the sessions of a device with it. *)
RevokedWith(gone) == {s \in live : s.dev \in gone}

(* The device records, envelopes and sessions of gone, and other sessions. *)
Revoke(gone, others, lost) ==
    /\ devs' = devs \ gone
    /\ IF gone = {} THEN devFile' = devFile ELSE SaveDevices(devs \ gone, lost)
    /\ envs' = IF "envelope" \in lost THEN envs ELSE envs \ gone
    /\ live' = live \ (RevokedWith(gone) \cup others)
    /\ SaveSessions(live', lost)

AllFiles == {"sessions", "devices", "envelope"}

(* DELETE /api/auth/sessions/{id} by another session: a device's ends with *)
(* the device.                                                             *)
EndSession(s) ==
    /\ count["sessions"] > 1
    /\ s \in live
    /\ \E lost \in SUBSET AllFiles :
         /\ MayLose(lost)
         /\ s.dev \notin devs => lost \subseteq {"sessions"}
         /\ Revoke({s.dev} \cap devs, {s}, lost)
         /\ ended' = IF "sessions" \in lost THEN ended ELSE Promised({s}, "route")
         /\ count' = Charged(lost)
    /\ UNCHANGED <<idpVars, pairVars, userVars>>

(* DELETE /api/devices/{id}. *)
RevokeDevice(d) ==
    /\ Authorised
    /\ d \in devs
    /\ \E lost \in SUBSET AllFiles :
         /\ MayLose(lost)
         /\ Revoke({d}, {}, lost)
         /\ ended' = IF "sessions" \in lost THEN ended
                     ELSE Promised(RevokedWith({d}), "route")
         /\ count' = Charged(lost)
    /\ UNCHANGED <<idpVars, pairVars, userVars>>

(* revokeAllDevices, after a key rotation.  The save is not answered for:  *)
(* either file alone keeps the sessions out after a restart.               *)
RevokeAll ==
    /\ Authorised
    /\ count["rotations"] < MaxRotations
    /\ codes' = {}
    /\ \E lost \in SUBSET AllFiles :
         /\ MayLose(lost)
         /\ devs = {} => lost \subseteq {"sessions"}
         /\ Revoke(devs, {}, lost)
         /\ ended' = IF "sessions" \notin lost \/ devFile' = {}
                       THEN Promised(RevokedWith(devs), "rotation") ELSE ended
         /\ count' = Counted("rotations", lost)
    /\ UNCHANGED <<idpVars, starts, redeems, userVars>>

(* PUT /api/devices/{id} writes all records; nothing else of it matters.   *)
RenameDevice ==
    /\ Authorised
    /\ devs # {}
    /\ devFile' = devs
    /\ UNCHANGED <<idpVars, live, file, dirty, devs, envs, pairVars, userVars, count, ended>>

(* The flush of every minute.                                              *)
RetrySave ==
    /\ dirty
    /\ SaveSessions(live, {})
    /\ UNCHANGED <<idpVars, live, devs, devFile, envs, pairVars, userVars, count, ended>>

-----------------------------------------------------------------------------
(* Back-channel logout *)

LoggedOut(e) == {s \in live : Matches(e, s)}

(* applySSOLogout of a token not seen.  An event that could not be written *)
(* changes nothing.  The answer is withheld when the session file was not  *)
(* written.                                                                *)
DeliverLogout(e) ==
    /\ e \in tokens \ events
    /\ events' = events \cup {e}
    /\ live' = live \ LoggedOut(e)
    /\ codes' = IF LoggedOut(e) = {} THEN codes ELSE {}
    /\ \E lost \in SUBSET {"sessions"} :
         /\ MayLose(lost)
         /\ LoggedOut(e) = {} => lost = {}
         /\ IF LoggedOut(e) = {} THEN UNCHANGED <<file, dirty>>
            ELSE SaveSessions(live \ LoggedOut(e), lost)
         /\ unsaved' = IF lost = {} THEN unsaved
                       ELSE unsaved \cup [by : {e}, id : Ids(LoggedOut(e))]
         /\ ended' = IF lost = {} THEN Promised(LoggedOut(e), "route") ELSE ended
         /\ count' = Charged(lost)
    /\ UNCHANGED <<clock, logins, tokens, devs, devFile, envs, starts, redeems, userVars>>

(* A token delivered again: complete a save that failed, and answer for it *)
(* once.                                                                   *)
RedeliverLogout(e) ==
    /\ e \in tokens \cap events
    /\ \E lost \in SUBSET {"sessions"} :
         /\ MayLose(lost)
         /\ ~dirty => lost = {}
         /\ IF dirty THEN SaveSessions(live, lost) ELSE UNCHANGED <<file, dirty>>
         /\ IF lost = {}
              THEN /\ unsaved' = {u \in unsaved : u.by # e}
                   /\ ended' = Promised({u \in unsaved : u.by = e}, "route")
              ELSE UNCHANGED <<unsaved, ended>>
         /\ count' = Charged(lost)
    /\ UNCHANGED <<clock, logins, tokens, events, live, devs, devFile, envs, pairVars, userVars>>

-----------------------------------------------------------------------------
(* Pairing *)

(* handlePairingStart resolves the session, and then makes the code.       *)
StartPairing(s) ==
    /\ s \in live
    /\ count["pairings"] < MaxPairings
    /\ starts' = starts \cup
         {[no |-> count["pairings"] + 1, sid |-> s.sid, iat |-> s.iat,
           from |-> s.id, issuer |-> s.dev]}
    /\ count' = Counted("pairings", {})
    /\ UNCHANGED <<idpVars, live, file, dirty, devs, devFile, envs, codes, redeems,
                   userVars, ended>>

CreateCode(o) ==
    /\ o \in starts
    /\ starts' = starts \ {o}
    /\ codes' = codes \cup {o}
    /\ UNCHANGED <<idpVars, live, file, dirty, devs, devFile, envs, redeems, userVars,
                   count, ended>>

(* RedeemPairing consumes the code and registers the device, or, when the  *)
(* record cannot be written, only consumes the code.                       *)
RedeemPairing(o) ==
    /\ o \in codes
    /\ codes' = codes \ {o}
    /\ \/ /\ devs' = devs \cup {o.no}
          /\ devFile' = devs \cup {o.no}
          /\ redeems' = redeems \cup {[origin |-> o, phase |-> "registered"]}
          /\ count' = count
       \/ /\ MayLose({"devices"})
          /\ count' = Charged({"devices"})
          /\ UNCHANGED <<devs, devFile, redeems>>
    /\ UNCHANGED <<idpVars, live, file, dirty, envs, starts, userVars, ended>>

(* Mutation of Pairable: the device that issued the code is not looked at. *)
PairableByAnyone(o) ==
    /\ Admitted(o)
    /\ o.no \in devs

(* startSessionWithToken's checks.                                         *)
Pairable(o) ==
    /\ Admitted(o)
    /\ o.no \in devs
    /\ o.issuer # 0 => o.issuer \in devs

(* startSessionWithToken, or the device unregistered again.                *)
StartDeviceSession(r) ==
    /\ r \in redeems
    /\ r.phase = "registered"
    /\ IF Pairable(r.origin)
         THEN /\ \E lost \in SUBSET {"sessions"} :
                   /\ MayLose(lost)
                   /\ Mint(NewSession(r.origin, r.origin.no, r.origin.from), lost)
              /\ redeems' = (redeems \ {r}) \cup {[r EXCEPT !.phase = "minted"]}
              /\ UNCHANGED <<devs, devFile>>
         ELSE /\ redeems' = redeems \ {r}
              /\ devs' = devs \ {r.origin.no}
              /\ IF r.origin.no \notin devs THEN devFile' = devFile /\ count' = count
                 ELSE \E lost \in SUBSET {"devices"} :
                        /\ MayLose(lost)
                        /\ devFile' = IF lost = {} THEN devs \ {r.origin.no} ELSE devFile
                        /\ count' = Charged(lost)
              /\ UNCHANGED <<live, file, dirty>>
    /\ UNCHANGED <<idpVars, envs, starts, codes, userVars, ended>>

(* The device's envelope, if the request has one, and the answer.          *)
FinishRedeem(r) ==
    /\ r \in redeems
    /\ r.phase = "minted"
    /\ redeems' = redeems \ {r}
    /\ envs' \in {envs, envs \cup {r.origin.no}}
    /\ UNCHANGED <<idpVars, live, file, dirty, devs, devFile, starts, codes, userVars,
                   count, ended>>

-----------------------------------------------------------------------------
(* The account, whose own file is taken to be written *)

Deactivate ==
    /\ count["switches"] < MaxSwitches
    /\ active' = FALSE
    /\ count' = Counted("switches", {})

(* An administrator's change ends no session: an inactive account's are    *)
(* refused, and accepted again with the account.                           *)
SetActive ==
    /\ \/ Deactivate
       \/ active' = TRUE /\ count' = count
    /\ UNCHANGED <<idpVars, live, file, dirty, devs, devFile, envs, pairVars, leaving, ended>>

(* The directory's deactivation, and then revokeDirectorySessions.         *)
Deprovision ==
    /\ Deactivate
    /\ leaving' = TRUE
    /\ UNCHANGED <<idpVars, live, file, dirty, devs, devFile, envs, pairVars, ended>>

RevokeDirectorySessions ==
    /\ leaving
    /\ leaving' = FALSE
    /\ codes' = {}
    /\ live' = {}
    /\ \E lost \in SUBSET {"sessions"} :
         /\ MayLose(lost)
         /\ SaveSessions({}, lost)
         /\ count' = Charged(lost)
    /\ UNCHANGED <<idpVars, devs, devFile, envs, starts, redeems, active, ended>>

-----------------------------------------------------------------------------
(* loadSessions.                                                           *)
Loaded(stored) ==
    {s \in stored : ~Fenced(s) /\ (s.dev # 0 => s.dev \in devFile)}

(* The server stops and starts: what is in memory only is gone.  Close     *)
(* retries a save that failed, a crash does not.  No session file is       *)
(* written at start.                                                       *)
Restart ==
    /\ count["restarts"] < MaxRestarts
    /\ count' = Counted("restarts", {})
    /\ \E stored \in {file, IF dirty THEN live ELSE file} :
         /\ file' = stored
         /\ live' = Loaded(stored)
    /\ dirty' = FALSE
    /\ devs' = devFile
    /\ logins' = {} /\ unsaved' = {}
    /\ starts' = {} /\ codes' = {} /\ redeems' = {}
    /\ leaving' = FALSE
    /\ UNCHANGED <<clock, tokens, events, devFile, envs, active, ended>>

SessionsNext ==
    \/ BeginLogin
    \/ IssueLogout
    \/ \E e \in tokens :
         \/ Lapse(e)
         \/ DeliverLogout(e)
         \/ RedeliverLogout(e)
    \/ \E id \in logins : FinishLogin(id)
    \/ \E s \in live :
         \/ Logout(s)
         \/ EndSession(s)
         \/ StartPairing(s)
    \/ \E d \in devs : RevokeDevice(d)
    \/ RevokeAll
    \/ RenameDevice
    \/ RetrySave
    \/ \E o \in starts : CreateCode(o)
    \/ \E o \in codes : RedeemPairing(o)
    \/ \E r \in redeems :
         \/ StartDeviceSession(r)
         \/ FinishRedeem(r)
    \/ SetActive
    \/ Deprovision
    \/ RevokeDirectorySessions
    \/ Restart

SessionsSpec == SessionsInit /\ [][SessionsNext]_sessionsVars

-----------------------------------------------------------------------------
(* PROPERTIES                                                              *)

(* applySSOLogout's comment (sso_logout.go:123-126): a login racing a      *)
(* logout lands first and is ended, or lands second and is fenced.  While  *)
(* an event is retained no session it names is live, whether it came from  *)
(* a login, a pairing or the session file of a server that stopped before  *)
(* writing it.                                                             *)
LogoutHolds == \A s \in live, e \in events : ~Matches(e, s)

(* A session whose end was answered for, or whose device a key rotation    *)
(* revoked, is not live again, through failed writes, redeliveries and     *)
(* restarts.                                                               *)
EndedStaysEnded == \A s \in live, by \in Causes : [id |-> s.id, by |-> by] \notin ended

(* A device is revoked with its sessions, in any interleaving with the     *)
(* redeem that is giving it one, and whatever is lost at a restart.        *)
DevicesHoldSessions == \A s \in live : s.dev # 0 => s.dev \in devs

(* device_handlers.go:23-24: a code issued by a device that a key rotation *)
(* revoked mints no session to replace it.                                 *)
RotationEndsPairings ==
    \A s \in live : [id |-> s.from, by |-> "rotation"] \notin ended

(* handlePairingStart's comment (device_handlers.go:20-21): a pairing must *)
(* not outlive the session it came from, so a redeem mints a session only  *)
(* while that one is live.                                                 *)
PairingNeedsItsSession ==
    [][\A s \in live' : s.id = count["sessions"] + 1 /\ s.from # 0 => s.from \in Ids(live)]_sessionsVars

=============================================================================
