----------------------------- MODULE SharedVaults -----------------------------
(***************************************************************************)
(* The membership of one shared vault: the record internal/shared keeps    *)
(* under its lock, the routes of shared_handlers.go that check a request   *)
(* before the lock and write under it, and the two hooks, run after the    *)
(* write they follow, that mirror a user key or an account onto the rows.  *)
(*                                                                         *)
(* The vault key of an epoch is named by the epoch, a user key by its      *)
(* place in the order its owner published them.  A sealed copy is the pair *)
(* of a vault key and the user key it is sealed to; the server opens       *)
(* neither, so what a row says of its copy may differ from what is in it.  *)
(***************************************************************************)
EXTENDS Integers, FiniteSets

CONSTANTS
    Users,
    Roles,       \* shared.Role; an editor and a reader differ only in WithWriter
    Admin,       \* the actor "" of internal/shared
    MaxMembers,  \* shared.MaxMembers
    MaxEpoch,    \* bound: key epochs
    MaxNotices,  \* bound: user keys published and active flags written, together
    MaxInFlight  \* bound: requests and hooks between their first step and their write

ASSUME SharedVaultsAssumption ==
    /\ Admin \notin Users
    /\ {"owner", "reader"} \subseteq Roles
    /\ {MaxMembers, MaxEpoch, MaxNotices, MaxInFlight} \subseteq Nat

VARIABLES
    epoch,    \* Vault.KeyEpoch, 0 before Create
    row,      \* Vault.Members
    pending,  \* Vault.RotationPending
    account,  \* the Active flag of each user
    flips,    \* writes of those flags so far
    fp,       \* each user's published key, 0 before the first
    hooks,    \* hooks whose write has been answered for and whose effect has not
    held,     \* the vault keys the tabs of each user hold
    req,      \* each user's request between its checks and its write
    given     \* users a copy of the current epoch's key was ever sealed for

membersVars == <<epoch, row, pending, account, flips, fp, hooks, held, req, given>>

States == {"invited", "active", "stale", "suspended"}
Resumable == States \ {"suspended"}

(* joined is 1 once AcceptedAt is set; via says which route sealed the     *)
(* copy, the rotation's, which checks fingerprints under the lock, or one  *)
(* that checked them before it.                                            *)
Rows == [role : Roles, state : States, from : Resumable \cup {"none"}, key : Nat,
         fp : Nat, epoch : Nat, joined : {0, 1}, via : {"checked", "rotated"}]
NoRow == [role |-> "none", state |-> "none", from |-> "none", key |-> 0,
          fp |-> 0, epoch |-> 0, joined |-> 0, via |-> "checked"]

NoPending == [user |-> Admin, reason |-> "none"]
Pendings == [user : Users, reason : {"removed", "left", "declined"}]

Hooks == [user : Users, kind : {"stale", "suspend", "restore"}, fp : Nat]

NoReq == [op |-> "none", target |-> Admin, role |-> "reader", key |-> 0, fp |-> 0]
Ops == {"create", "invite", "reseal", "assigned"}
Reqs == [op : Ops, target : Users, role : Roles, key : Nat, fp : Nat]

MembersTypeOK ==
    /\ epoch \in Nat
    /\ row \in [Users -> Rows \cup {NoRow}]
    /\ pending \in Pendings \cup {NoPending}
    /\ account \in [Users -> {"on", "off"}]
    /\ flips \in Nat
    /\ fp \in [Users -> Nat]
    /\ hooks \subseteq Hooks
    /\ held \in [Users -> SUBSET Nat]
    /\ req \in [Users -> Reqs \cup {NoReq}]
    /\ given \subseteq Users

MembersInit ==
    /\ epoch = 0
    /\ row = [u \in Users |-> NoRow]
    /\ pending = NoPending
    /\ account = [u \in Users |-> "on"]
    /\ flips = 0
    /\ fp = [u \in Users |-> 0]
    /\ hooks = {}
    /\ held = [u \in Users |-> {}]
    /\ req = [u \in Users |-> NoReq]
    /\ given = {}

-----------------------------------------------------------------------------
(* Rows *)

Members == {u \in Users : row[u] # NoRow}
ActiveOwner(u) == row[u].role = "owner" /\ row[u].state = "active"
ActiveOwners == {u \in Users : ActiveOwner(u)}
OnlyActiveOwner(u) == ActiveOwners = {u}

FreshState(m) == IF m.joined = 1 THEN "active" ELSE "invited"

(* Mutation of LandOn: a suspended row is left as it is. *)
LandUnlessSuspended(m, s) ==
    IF m.state = "suspended" THEN m
    ELSE [role |-> m.role, state |-> s, from |-> m.from, key |-> m.key,
          fp |-> m.fp, epoch |-> m.epoch, joined |-> m.joined, via |-> m.via]

(* A suspended row stays suspended and resumes to s instead. *)
LandOn(m, s) ==
    [role |-> m.role,
     state |-> IF m.state = "suspended" THEN "suspended" ELSE s,
     from |-> IF m.state = "suspended" THEN s ELSE m.from,
     key |-> m.key, fp |-> m.fp, epoch |-> m.epoch, joined |-> m.joined, via |-> m.via]

(* The state a row is in, or will resume to. *)
Standing(m) == IF m.state = "suspended" THEN m.from ELSE m.state

(* m with a new copy of a vault key under it. *)
Sealed(m, key, to, at, via) ==
    LandOn([role |-> m.role, state |-> m.state, from |-> m.from, key |-> key,
            fp |-> to, epoch |-> at, joined |-> m.joined, via |-> via],
           FreshState(m))

WithState(m, s, from, joined) ==
    [role |-> m.role, state |-> s, from |-> from, key |-> m.key,
     fp |-> m.fp, epoch |-> m.epoch, joined |-> joined, via |-> m.via]

WithRole(m, role) ==
    [role |-> role, state |-> m.state, from |-> m.from, key |-> m.key,
     fp |-> m.fp, epoch |-> m.epoch, joined |-> m.joined, via |-> m.via]

(* authorize: read under the lock, an admin or an active owner. *)
Authorized(actor) == actor = Admin \/ (actor \in Users /\ ActiveOwner(actor))

Given(u, key) == IF key = epoch THEN given \cup {u} ELSE given

Room == Cardinality(hooks) + Cardinality({u \in Users : req[u] # NoReq}) < MaxInFlight

Idle(u) == req[u] = NoReq /\ account[u] = "on"

-----------------------------------------------------------------------------
(* What a tab does without the server writing anything.                    *)

(* openShared: unseal the row's copy and open the vault with it; only the  *)
(* current epoch's key does.  The queue then claims that epoch.            *)
Open(u) ==
    /\ account[u] = "on"
    /\ row[u].state = "active"
    /\ row[u].key = epoch
    /\ held' = [held EXCEPT ![u] = @ \cup {epoch}]
    /\ UNCHANGED <<epoch, row, pending, account, flips, fp, hooks, req, given>>

-----------------------------------------------------------------------------
(* Routes that check before the lock and write under it.  The copy carries *)
(* the key the tab holds, which no route asks the epoch of; fingerprints   *)
(* are compared with the published keys at the check.                      *)

Ask(u, op, target, role, key) ==
    /\ Idle(u)
    /\ Room
    /\ fp[u] # 0
    /\ fp[target] # 0
    /\ req' = [req EXCEPT ![u] =
                 [op |-> op, target |-> target, role |-> role, key |-> key, fp |-> fp[target]]]
    /\ UNCHANGED <<epoch, row, pending, account, flips, fp, hooks, held, given>>

AskCreate(u) == epoch = 0 /\ Ask(u, "create", u, "owner", 1)

AskInvite(u, target, role) ==
    /\ ActiveOwner(u)
    /\ account[target] = "on"
    /\ \E key \in held[u] : Ask(u, "invite", target, role, key)

(* PUT members/{userId} with a sealed key: an owner re-seals anyone, a     *)
(* stale member the own row, unless a rotation left it behind.             *)
AskReseal(u, target) ==
    /\ target \in Members
    /\ \/ ActiveOwner(u)
       \/ target = u /\ row[u].state = "stale" /\ row[u].epoch = epoch
    /\ \E key \in held[u] : Ask(u, "reseal", target, "reader", key)

Answered(u) == req' = [req EXCEPT ![u] = NoReq]

Create(u) ==
    /\ req[u].op = "create"
    /\ Answered(u)
    /\ IF epoch = 0
         THEN /\ epoch' = 1
              /\ row' = [row EXCEPT ![u] =
                   [role |-> "owner", state |-> "active", from |-> "none", key |-> 1,
                    fp |-> req[u].fp, epoch |-> 1, joined |-> 1, via |-> "checked"]]
              /\ given' = {u}
         ELSE UNCHANGED <<epoch, row, given>>
    /\ UNCHANGED <<pending, account, flips, fp, hooks, held>>

Invite(u) ==
    LET r == req[u] IN
    /\ r.op = "invite"
    /\ Answered(u)
    /\ IF ActiveOwner(u) /\ r.target \notin Members /\ Cardinality(Members) < MaxMembers
         THEN /\ row' = [row EXCEPT ![r.target] =
                   [role |-> r.role, state |-> "invited", from |-> "none", key |-> r.key,
                    fp |-> r.fp, epoch |-> epoch, joined |-> 0, via |-> "checked"]]
              /\ given' = Given(r.target, r.key)
         ELSE UNCHANGED <<row, given>>
    /\ UNCHANGED <<epoch, pending, account, flips, fp, hooks, held>>

(* Under the lock: a row a rotation left behind is never sealed by its own *)
(* member, and only its member or an active owner seals a row.             *)
ResealAdmits(u, target) ==
    /\ target \in Members
    /\ IF u = target
         THEN row[target].epoch = epoch /\ (row[target].state = "stale" \/ ActiveOwner(u))
         ELSE ActiveOwner(u)

Reseal(u) ==
    LET r == req[u] IN
    /\ r.op \in {"reseal", "assigned"}
    /\ Answered(u)
    /\ IF ResealAdmits(u, r.target)
         THEN /\ row' = [row EXCEPT ![r.target] =
                           Sealed(row[r.target], r.key, r.fp, epoch, "checked")]
              /\ given' = Given(r.target, r.key)
         ELSE UNCHANGED <<row, given>>
    /\ UNCHANGED <<epoch, pending, account, flips, fp, hooks, held>>

(* Mutation of Demotable: another owner in any state will do. *)
DemotableWithAnyOwner(target, role) ==
    role # "owner" =>
        \/ ~ActiveOwner(target)
        \/ \E u \in Users \ {target} : row[u].role = "owner"

Demotable(target, role) ==
    ~(ActiveOwner(target) /\ role # "owner" /\ OnlyActiveOwner(target))

(* SetRole under the lock.                                                 *)
RoleAdmits(u, target, role) ==
    /\ ActiveOwner(u)
    /\ target \in Members
    /\ Demotable(target, role)

(* PUT members/{userId} with a role and a sealed key: the role first, then *)
(* the seal, and its refusal, in a second section of the lock.  What can   *)
(* run between the checks and the first section commutes with it.          *)
Update(u, target, role) ==
    /\ Idle(u)
    /\ Room
    /\ fp[u] # 0
    /\ fp[target] # 0
    /\ RoleAdmits(u, target, role)
    /\ row' = [row EXCEPT ![target] = WithRole(row[target], role)]
    /\ \E key \in held[u] :
         req' = [req EXCEPT ![u] =
           [op |-> "assigned", target |-> target, role |-> "reader", key |-> key, fp |-> fp[target]]]
    /\ UNCHANGED <<epoch, pending, account, flips, fp, hooks, held, given>>

-----------------------------------------------------------------------------
(* Routes whose checks the store repeats under its lock.                   *)

SetRole(u, target, role) ==
    /\ account[u] = "on"
    /\ RoleAdmits(u, target, role)
    /\ row' = [row EXCEPT ![target] = WithRole(row[target], role)]
    /\ UNCHANGED <<epoch, pending, account, flips, fp, hooks, held, req, given>>

Accept(u) ==
    /\ account[u] = "on"
    /\ row[u].state = "invited"
    /\ ActiveOwners # {}
    /\ row' = [row EXCEPT ![u] = WithState(row[u], "active", row[u].from, 1)]
    /\ UNCHANGED <<epoch, pending, account, flips, fp, hooks, held, req, given>>

(* Mutation of Departure: declining an invitation owes no rotation. *)
DepartureUnlessDeclined(actor, target) ==
    IF actor = target /\ row[target].state = "invited" THEN pending
    ELSE [user |-> target, reason |-> IF actor = target THEN "left" ELSE "removed"]

Departure(actor, target) ==
    [user |-> target,
     reason |-> IF actor # target THEN "removed"
                ELSE IF row[target].state = "invited" THEN "declined" ELSE "left"]

(* An owner or an admin removes anyone, a member leaves or declines.       *)
Remove(actor, target) ==
    /\ actor # Admin => account[actor] = "on"
    /\ target \in Members
    /\ actor = target \/ Authorized(actor)
    /\ ~(actor # Admin /\ ActiveOwner(target) /\ OnlyActiveOwner(target))
    /\ row' = [row EXCEPT ![target] = NoRow]
    /\ pending' = Departure(actor, target)
    /\ UNCHANGED <<epoch, account, flips, fp, hooks, held, req, given>>

(* postRotationOwners: the named owners a rotation leaves active.          *)
OwnersAfter(named) ==
    {u \in named : /\ row[u].role = "owner"
                   /\ row[u].state # "suspended"
                   /\ FreshState(row[u]) = "active"}

(* Mutation of Verified: the named rows' recorded keys are taken as theirs. *)
VerifiedByRow(named, to) == \A v \in named : to[v] \in {row[v].fp, fp[v]}

(* RotateSteps.Verify: each copy is sealed to its member's published key.  *)
Verified(named, to) == \A v \in named : to[v] = fp[v] /\ fp[v] # 0

(* The keys a plan made before the last publications seals to.             *)
PlannedFrom(rows) == [v \in Users |-> rows[v].fp]

(* Rotate, every step of it under the lock: the caller names the members   *)
(* it seals for and the keys it seals to, from the epoch its tab opened.   *)
Rotate(u, named, to) ==
    /\ account[u] = "on"
    /\ ActiveOwner(u)
    /\ epoch \in held[u]
    /\ epoch < MaxEpoch
    /\ u \in named
    /\ named \subseteq Members
    /\ OwnersAfter(named) # {}
    /\ Verified(named, to)
    /\ epoch' = epoch + 1
    /\ row' = [v \in Users |->
                 IF v \in named THEN Sealed(row[v], epoch + 1, to[v], epoch + 1, "rotated")
                 ELSE IF v \in Members THEN LandOn(row[v], "stale")
                 ELSE NoRow]
    /\ pending' = NoPending
    /\ held' = [held EXCEPT ![u] = @ \cup {epoch + 1}]
    /\ given' = named
    /\ UNCHANGED <<account, flips, fp, hooks, req>>

-----------------------------------------------------------------------------
(* The user key and the account, and the hooks that follow their writes.   *)

Notices == flips + Cardinality({p \in Users \X (1..MaxNotices) : p[2] <= fp[p[1]]})

(* SaveUserKey, in internal/vault under another lock.  A first publication *)
(* has no hook.                                                            *)
Publish(u) ==
    /\ account[u] = "on"
    /\ Notices < MaxNotices
    /\ Room
    /\ fp' = [fp EXCEPT ![u] = fp[u] + 1]
    /\ hooks' = IF fp[u] = 0 THEN hooks
                ELSE hooks \cup {[user |-> u, kind |-> "stale", fp |-> fp[u] + 1]}
    /\ UNCHANGED <<epoch, row, pending, account, flips, held, req, given>>

(* Deactivation and reactivation by an admin or the directory.             *)
SetAccountActive(u, on) ==
    /\ Notices < MaxNotices
    /\ Room
    /\ flips' = flips + 1
    /\ account' = [account EXCEPT ![u] = on]
    /\ hooks' = hooks \cup
         {[user |-> u, kind |-> IF on = "on" THEN "restore" ELSE "suspend", fp |-> 0]}
    /\ UNCHANGED <<epoch, row, pending, fp, held, req, given>>

(* MarkStale and SetSuspended on this vault's row of the user.  They run   *)
(* in any order, and one that fails or dies with the server never runs.    *)
Marked(m, h) ==
    CASE h.kind = "stale" /\ m.fp # h.fp /\ m.state # "stale" -> LandOn(m, "stale")
      [] h.kind = "suspend" /\ m.state # "suspended" -> WithState(m, "suspended", m.state, m.joined)
      [] h.kind = "restore" /\ m.state = "suspended" -> WithState(m, m.from, "none", m.joined)
      [] OTHER -> m

RunHook(h) ==
    /\ row' = IF h.user \in Members
                THEN [row EXCEPT ![h.user] = Marked(row[h.user], h)] ELSE row
    /\ hooks' = hooks \ {h}
    /\ UNCHANGED <<epoch, pending, account, flips, fp, held, req, given>>

MembersNext ==
    \/ \E u \in Users :
         \/ Open(u)
         \/ AskCreate(u)
         \/ Create(u)
         \/ Invite(u)
         \/ Reseal(u)
         \/ Accept(u)
         \/ Publish(u)
         \/ \E on \in {"on", "off"} : SetAccountActive(u, on)
         \/ \E named \in SUBSET Users, to \in {fp, PlannedFrom(row)} : Rotate(u, named, to)
         \/ \E target \in Users :
              \/ AskReseal(u, target)
              \/ \E role \in Roles :
                   \/ AskInvite(u, target, role)
                   \/ Update(u, target, role)
                   \/ SetRole(u, target, role)
    \/ \E actor \in Users \cup {Admin}, target \in Users : Remove(actor, target)
    \/ \E h \in hooks : RunHook(h)

MembersSpec == MembersInit /\ [][MembersNext]_membersVars

-----------------------------------------------------------------------------
(* PROPERTIES                                                              *)

(* A row that lets its member in, or will once the account is reactivated, *)
(* is of the vault's current epoch, and it is active exactly when the      *)
(* member accepted the invitation: rotations that leave rows behind,       *)
(* re-seals, suspensions and hooks may come in any order.                  *)
RowsAreUsable ==
    \A u \in Members : Standing(row[u]) \in {"invited", "active"} =>
        /\ row[u].epoch = epoch
        /\ Standing(row[u]) = "active" <=> row[u].joined = 1

(* A copy of the current key outside the vault is flagged until a rotation *)
(* retires that key: whoever was sealed one, or holds it in a tab, and has *)
(* no row any more.                                                        *)
DepartureIsFlagged ==
    \A u \in Users \ Members :
        u \in given \/ (epoch > 0 /\ epoch \in held[u]) => pending # NoPending

(* Rotate's comment (shared.go:602-605): a key replacement lands before    *)
(* the rotation and is refused or waits behind it and its hook marks the   *)
(* row stale, so once the hooks have run the rows it sealed that still let *)
(* a member in are sealed to the key that member publishes.                *)
HooksDone(u) == \A h \in hooks : h.user # u

RotatedRowsFollowKey ==
    \A u \in Members :
        HooksDone(u) /\ row[u].via = "rotated" /\ Standing(row[u]) # "stale" =>
            row[u].fp = fp[u]

(* A vault with an active owner loses its last one only to an admin, or to *)
(* a hook that mirrors an account or a user key.                           *)
OwnerKept ==
    [][ActiveOwners # {} /\ ActiveOwners' = {} =>
         \/ hooks' # hooks
         \/ /\ pending'.reason = "removed"
            /\ pending'.user \in ActiveOwners \ Members']_membersVars

(* A row a rotation left behind becomes current again only by another      *)
(* active owner's hand, never by its own member's.                         *)
LeftBehindNeedsOwner ==
    [][\A u \in Members \cap Members' :
         row[u].epoch < epoch /\ row'[u].epoch = epoch' =>
             \E v \in ActiveOwners \ {u} : req'[v] # req[v] \/ epoch' # epoch]_membersVars

(* The rule of Reseal (shared.go:492-496): no stale copy is republished as *)
(* current; a row of the current epoch holds a copy of the current key.    *)
CopiesOpenTheVault ==
    \A u \in Members : row[u].epoch = epoch => row[u].key = epoch

(* docs/superpowers/specs/2026-09-27-shared-vaults-server-design.md:60-61: *)
(* a copy must be sealed to the member's published key at write time;      *)
(* later replacements mark the row stale.                                  *)
SealedToPublishedKey ==
    \A u \in Members : HooksDone(u) /\ Standing(row[u]) # "stale" => row[u].fp = fp[u]

(* handleSharedMemberUpdate's comment (shared_handlers.go:527-530): the    *)
(* role is the only write that can refuse, so a refusal writes nothing: an *)
(* update whose role was written also has its copy written.                *)
RefusalWritesNothing ==
    [][\A u \in Users : req[u].op = "assigned" /\ req'[u] = NoReq =>
         /\ row'[req[u].target].key = req[u].key
         /\ row'[req[u].target].fp = req[u].fp]_membersVars

=============================================================================
