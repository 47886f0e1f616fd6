-------------------------------- MODULE Team --------------------------------
(***************************************************************************)
(* Who belongs to a workspace and what they may reach: memberships,         *)
(* invitations, API keys, device permissions and archive key grants         *)
(* (internal/store members.go, invitations.go, signup.go, apikeys.go,       *)
(* permissions.go, keys.go, reader_safety.go), and the sockets that hold a  *)
(* copy of it (internal/wsapi access.go).                                   *)
(*                                                                          *)
(* One workspace, a team.  Every write takes the workspace's row lock, so a *)
(* transaction is one step; what a handler or a socket read before is kept  *)
(* in `adding` and `sock` and may be stale when it is used.                 *)
(***************************************************************************)
EXTENDS Directory, FiniteSets

CONSTANT MaxMade   \* bound: sessions started, and keys issued, in a behaviour

VARIABLES
    member,      \* workspace_memberships: account -> its row
    perm,        \* device_permissions: account -> "none", "off" or "read"
    grants,      \* device_key_grants: the accounts that hold the number's key
    suspended,   \* accounts whose users.status is 'disabled'
    keys,        \* api_keys that are not revoked
    invites,     \* invitations that are neither spent, revoked nor expired
    sess,        \* people -> the id of their session here, 0 without one
    sock,        \* one WebSocket: what it authenticated as, and what it may read
    adding,      \* a grant.add past its checks: the account it is for
    deleted,     \* the number is deleted and not yet purged
    stranded,    \* its item.stranded was recorded
    recorded,    \* the platform names this team (contract_workspaces)
    removals,    \* ghost: how often each account was removed
    made         \* sessions started and keys issued so far: where ids come from

rows == <<member, perm, grants, suspended, keys, invites, sess>>
number == <<deleted, stranded, recorded>>
vars == <<rows, sock, adding, number, removals, made>>

Roles == {"owner", "admin", "member", "service"}
NoRow == [role |-> "none", status |-> "none", version |-> 0, deadline |-> "none"]
MemberRows == [role : Roles \cup {"none"}, status : {"none", "active", "disabled"},
               version : Nat, deadline : {"none", "running", "past"}]
Opened(who, key, session, role, version) ==
    [who |-> who, key |-> key, session |-> session, role |-> role,
     version |-> version, reads |-> FALSE]
NoSock == Opened(Nobody, 0, 0, "none", 0)

(* A session or a key with an id of its own. *)
Fresh == made < MaxMade /\ made' = made + 1

(***************************************************************************)
(* What the rows say.                                                       *)
(***************************************************************************)

Active(a) == member[a].status = "active"
Unexpired(a) == Active(a) /\ a \notin suspended /\ member[a].deadline # "past"

(* The live role under the workspace's lock: lockWorkspaceManager. *)
ManagerRole(a) == IF Active(a) /\ a \notin suspended
                     /\ member[a].role \in {"owner", "admin"}
                  THEN member[a].role ELSE "none"

(* An admin neither makes nor unmakes an owner or an admin. *)
Manages(a, role) == \/ ManagerRole(a) = "owner"
                    \/ ManagerRole(a) = "admin" /\ role \notin {"owner", "admin"}

(* An account that can stand in as the holder of the number's key. *)
Backup(a) == /\ a \in grants /\ perm[a] = "read"
             /\ Active(a) /\ a \notin suspended /\ member[a].deadline = "none"

(* sole_key_holders: a suspended person keeps their keys and stays protected,
   and a connection's service account neither counts nor is counted. *)
SoleHolder(a) == /\ a \in grants /\ Active(a) /\ member[a].deadline = "none"
                 /\ ~\E b \in Accounts \ {a} : Backup(b)

(* strandedDevicesTx; requireRemainingReader refuses what it names. *)
RemainingReader(a) == ~SoleHolder(a)

(* strandCheckTx: a live number is never stranded; a deleted one only by the
   override an owner may ask for, where the platform mails the other owners. *)
StrandCheck(actor, target) ==
    SoleHolder(target) => deleted /\ recorded /\ ManagerRole(actor) = "owner"

(* strandTx records what the override takes from the number. *)
StrandTx(target) == stranded' = (stranded \/ SoleHolder(target))

(* requireOtherOwner. *)
OtherOwner(a) == \E b \in People \ {a} : ManagerRole(b) = "owner"

(* Triggers: every update of a row, and every grant or permission that goes
   or changes, moves the membership's access_version on. *)
Changed(row, role, status, n) ==
    [role |-> role, status |-> status, version |-> row.version + n,
     deadline |-> row.deadline]

Bumped(a, n) == [member EXCEPT ![a] = Changed(@, @.role, @.status, n)]
Moves(a) == (IF a \in grants THEN 1 ELSE 0) + (IF perm[a] # "none" THEN 1 ELSE 0)

(***************************************************************************)
(* Members.                                                                 *)
(***************************************************************************)

(* Mutant: only the keys that act as the account are revoked. *)
StrippedOfItsOwn(a) ==
    /\ perm' = [perm EXCEPT ![a] = "none"]
    /\ grants' = grants \ {a}
    /\ keys' = {k \in keys : k.as # a}

(* What disabling an account takes from it, beside its role and status. *)
Stripped(a) ==
    /\ perm' = [perm EXCEPT ![a] = "none"]
    /\ grants' = grants \ {a}
    /\ keys' = {k \in keys : a \notin {k.as, k.by}}

UpdateMember(actor, a, role, status) ==
    LET old == member[a] IN
    /\ ManagerRole(actor) # "none"
    /\ old.role # "none"
    /\ (old.role = "service") = (role = "service")
    /\ Manages(actor, old.role) /\ Manages(actor, role)
    /\ <<old.role, old.status>> # <<role, status>>
    /\ (old.role = "owner" /\ old.status = "active") => OtherOwner(a) \/ (role = "owner" /\ status = "active")
    /\ IF status = "disabled"
       THEN /\ StrandCheck(actor, a) /\ StrandTx(a) /\ Stripped(a)
            /\ member' = [member EXCEPT ![a] = Changed(@, role, status, 1 + Moves(a))]
       ELSE /\ member' = [member EXCEPT ![a] = Changed(@, role, status, 1)]
            /\ UNCHANGED <<perm, grants, keys, stranded>>
    /\ sess' = IF a \in People THEN [sess EXCEPT ![a] = 0] ELSE sess
    /\ invites' = {i \in invites : i.by # a}
    /\ UNCHANGED <<suspended, sock, adding, deleted, recorded, removals, made>>

RemoveMember(actor, a) ==
    /\ ManagerRole(actor) # "none"
    /\ member[a].role # "none"
    /\ Manages(actor, member[a].role)
    /\ (member[a].role = "owner" /\ Active(a)) => OtherOwner(a)
    /\ StrandCheck(actor, a) /\ StrandTx(a) /\ Stripped(a)
    /\ sess' = IF a \in People THEN [sess EXCEPT ![a] = 0] ELSE sess
    /\ invites' = {i \in invites : a \notin {i.by, i.email}}
    /\ member' = [member EXCEPT ![a] = NoRow]
    /\ removals' = [removals EXCEPT ![a] = @ + 1]
    /\ UNCHANGED <<suspended, sock, adding, deleted, recorded, made>>

(* removeServiceAccountTx, for an account whose deadline passed. *)
ExpireService ==
    /\ member[Service].deadline = "past"
    /\ keys' = {k \in keys : k.as # Service}
    /\ grants' = grants \ {Service}
    /\ perm' = [perm EXCEPT ![Service] = "none"]
    /\ member' = [member EXCEPT ![Service] = NoRow]
    /\ removals' = [removals EXCEPT ![Service] = @ + 1]
    /\ UNCHANGED <<suspended, invites, sess, sock, adding, number, made>>

DeadlinePasses ==
    /\ member[Service].deadline = "running"
    /\ member' = [member EXCEPT ![Service].deadline = "past"]
    /\ UNCHANGED <<perm, grants, suspended, keys, invites, sess, sock, adding, number, removals, made>>

(* The platform suspends a person's account, or lifts it. *)
Suspend(p) ==
    /\ suspended' = IF p \in suspended THEN suspended \ {p} ELSE suspended \cup {p}
    /\ UNCHANGED <<member, perm, grants, keys, invites, sess, sock, adding, number, removals, made>>

(***************************************************************************)
(* Invitations.                                                             *)
(***************************************************************************)

(* invitationsPausedTx: no person is invited into a team the platform names. *)
Paused(role) == recorded /\ role # "service"

Invite(by, email, role, provisional) ==
    [by |-> by, email |-> email, role |-> role, provisional |-> provisional,
     after |-> IF email = Nobody THEN 0 ELSE removals[email]]

NewInvitation(actor, email, role, provisional) ==
    /\ Manages(actor, role)
    /\ provisional => role = "service" /\ email = Nobody
    /\ ~Paused(role)
    /\ invites' = invites \cup {Invite(actor, email, role, provisional)}
    /\ UNCHANGED <<member, perm, grants, suspended, keys, sess, sock, adding, number, removals, made>>

RevokeInvitation(actor, i) ==
    /\ Manages(actor, i.role)
    /\ invites' = invites \ {i}
    /\ UNCHANGED <<member, perm, grants, suspended, keys, sess, sock, adding, number, removals, made>>

RegenerateInvitation(actor, i) ==
    /\ Manages(actor, i.role) /\ ~Paused(i.role)
    /\ invites' = (invites \ {i}) \cup {Invite(actor, i.email, i.role, FALSE)}
    /\ UNCHANGED <<member, perm, grants, suspended, keys, sess, sock, adding, number, removals, made>>

(* lockSignupInvite: an invitation still good for this person or service. *)
Spendable(i, a) ==
    /\ (i.role = "service") = (a = Service)
    /\ ~Paused(i.role)
    /\ a \in People => i.email \in {Nobody, a}

(* AcceptWorkspaceInvite, Signup and SignupService: the membership and the
   spent invitation commit together; an existing row is left as it was, and
   a provisional account's deadline is an update of its new row. *)
Join(a, i) ==
    /\ Spendable(i, a) /\ member[a].role = "none" /\ a \notin suspended
    /\ member' = [member EXCEPT ![a] =
                     [role |-> i.role, status |-> "active", version |-> IF i.provisional THEN 2 ELSE 1,
                      deadline |-> IF i.provisional THEN "running" ELSE "none"]]
    /\ invites' = invites \ {i}
    /\ UNCHANGED <<perm, grants, suspended, keys, sess, sock, adding, number, removals, made>>

(***************************************************************************)
(* Permissions and key grants.                                              *)
(***************************************************************************)

(* SetDevicePermission; a read withdrawn takes the key's envelope with it. *)
SetDevicePermission(actor, a, read) ==
    /\ ManagerRole(actor) # "none" /\ Active(a) /\ ~deleted
    /\ ~read => RemainingReader(a)
    /\ perm' = [perm EXCEPT ![a] = IF read THEN "read" ELSE "off"]
    /\ grants' = IF read THEN grants ELSE grants \ {a}
    /\ member' = Bumped(a, (IF perm[a] # "none" THEN 1 ELSE 0)
                           + (IF ~read /\ a \in grants THEN 1 ELSE 0))
    /\ UNCHANGED <<suspended, keys, invites, sess, sock, adding, number, removals, made>>

(* requireAdmin on any other socket: its copy of a role, valid when the frame
   came, may be out of date by now. *)
AdminAsks == \E p \in People : Active(p) /\ member[p].role \in {"owner", "admin"}

(* handleGrantAdd up to its last check. *)
GrantAdd(a) ==
    /\ AdminAsks
    /\ adding = Nobody /\ ~deleted /\ member[a].role # "none"
    /\ adding' = a
    /\ UNCHANGED <<rows, sock, number, removals, made>>

(* PutGrant: an active, unexpired member of the moment, and a number that is
   still here.  Its trigger gives a member without a permission row the
   default one. *)
PutGrant ==
    /\ adding # Nobody
    /\ IF Unexpired(adding) /\ ~deleted
       THEN /\ grants' = grants \cup {adding}
            /\ perm' = [perm EXCEPT ![adding] = IF adding \notin grants /\ @ = "none" THEN "read" ELSE @]
       ELSE UNCHANGED <<grants, perm>>
    /\ adding' = Nobody
    /\ UNCHANGED <<member, suspended, keys, invites, sess, sock, number, removals, made>>

RevokeGrant(a) ==
    /\ AdminAsks /\ ~deleted
    /\ a \in grants /\ RemainingReader(a)
    /\ grants' = grants \ {a}
    /\ member' = Bumped(a, 1)
    /\ UNCHANGED <<perm, suspended, keys, invites, sess, sock, adding, number, removals, made>>

(***************************************************************************)
(* API keys.                                                                *)
(***************************************************************************)

IssueKey(actor, as) ==
    /\ ManagerRole(actor) # "none"
    /\ as # Nobody => member[as].role = "service" /\ Unexpired(as)
    /\ Fresh /\ keys' = keys \cup {[id |-> made + 1, by |-> actor, as |-> as]}
    /\ UNCHANGED <<member, perm, grants, suspended, invites, sess, sock, adding, number, removals>>

RevokeKey(k) ==
    /\ AdminAsks
    /\ keys' = keys \ {k}
    /\ UNCHANGED <<member, perm, grants, suspended, invites, sess, sock, adding, number, removals, made>>

(***************************************************************************)
(* The number, as the deletion leaves it here.                              *)
(***************************************************************************)

Quarantine ==
    /\ ~deleted /\ \E p \in People : ManagerRole(p) = "owner"
    /\ deleted' = TRUE
    /\ UNCHANGED <<rows, sock, adding, stranded, recorded, removals, made>>

Recover ==
    /\ deleted /\ \E p \in People : ManagerRole(p) = "owner"
    /\ deleted' = FALSE
    /\ UNCHANGED <<rows, sock, adding, stranded, recorded, removals, made>>

(* The platform's document names the team. *)
Record ==
    /\ ~recorded /\ recorded' = TRUE
    /\ UNCHANGED <<rows, sock, adding, deleted, stranded, removals, made>>

(***************************************************************************)
(* Sockets.                                                                 *)
(***************************************************************************)

SignIn(p) ==
    /\ Unexpired(p) /\ sess[p] = 0
    /\ Fresh /\ sess' = [sess EXCEPT ![p] = made + 1]
    /\ UNCHANGED <<member, perm, grants, suspended, keys, invites, sock, adding, number, removals>>

(* devicePermissionTx and Allows: who may read the number now. *)
MayRead(a) == Unexpired(a) /\ ~deleted /\ perm[a] = "read" /\ a \in grants

(* access.Allows for what the socket authenticated as: a key that acts as
   nobody reads every number of the workspace. *)
Allows(s) == IF s.who = Nobody THEN ~deleted ELSE MayRead(s.who)

(* credentials: the role and the version are read now. *)
Connect ==
    /\ sock = NoSock
    /\ \/ \E p \in People :
            /\ sess[p] # 0 /\ Unexpired(p)
            /\ sock' = Opened(p, 0, sess[p], member[p].role, member[p].version)
       \/ \E k \in keys :
            /\ k.as # Nobody => Unexpired(k.as)
            /\ sock' = IF k.as = Nobody THEN Opened(Nobody, k.id, 0, "none", 0)
                       ELSE Opened(k.as, k.id, 0, "service", member[k.as].version)
    /\ UNCHANGED <<rows, adding, number, removals, made>>

(* actionDevices: the set a subscription is narrowed to, taken once. *)
Snapshot ==
    /\ sock # NoSock /\ Allows(sock) /\ ~sock.reads
    /\ sock' = [sock EXCEPT !.reads = TRUE]
    /\ UNCHANGED <<rows, adding, number, removals, made>>

(* validAccess, before every command and every delivery, and each second. *)
ValidAccess(s) ==
    /\ s.key # 0 => \E k \in keys : k.id = s.key
    /\ s.who # Nobody =>
         /\ Unexpired(s.who)
         /\ s.session # 0 => sess[s.who] = s.session
         /\ member[s.who].role = s.role /\ member[s.who].version = s.version

(* The socket closes: its access changed, or its client left. *)
Close ==
    /\ sock # NoSock
    /\ sock' = NoSock
    /\ UNCHANGED <<rows, adding, number, removals, made>>

-----------------------------------------------------------------------------

Init ==
    \E helper \in {"none", "owner", "admin", "member"}, second \in People \ {Founder} :
        /\ member = [a \in Accounts |->
             CASE a = Founder -> [NoRow EXCEPT !.role = "owner", !.status = "active", !.version = 1]
               [] a = second /\ helper # "none" ->
                    [NoRow EXCEPT !.role = helper, !.status = "active", !.version = 1]
               [] OTHER -> NoRow]
        /\ perm = [a \in Accounts |-> IF a = Founder THEN "read" ELSE "none"]
        /\ grants = {Founder}
        /\ suspended = {} /\ keys = {} /\ invites = {}
        /\ sess = [p \in People |-> 0]
        /\ sock = NoSock /\ adding = Nobody
        /\ deleted = FALSE /\ stranded = FALSE /\ recorded = FALSE
        /\ removals = [a \in Accounts |-> 0]
        /\ made = 0

Next ==
    \/ \E actor \in People, a \in Accounts :
         \/ \E role \in Roles, status \in {"active", "disabled"} :
              UpdateMember(actor, a, role, status)
         \/ RemoveMember(actor, a)
    \/ ExpireService \/ DeadlinePasses
    \/ \E p \in People : Suspend(p) \/ SignIn(p)
    \/ \E actor \in People, email \in People \cup {Nobody},
          role \in Roles, provisional \in BOOLEAN :
         NewInvitation(actor, email, role, provisional)
    \/ \E actor \in People, i \in invites :
         RevokeInvitation(actor, i) \/ RegenerateInvitation(actor, i)
    \/ \E a \in Accounts, i \in invites : Join(a, i)
    \/ \E actor \in People, a \in Accounts, read \in BOOLEAN : SetDevicePermission(actor, a, read)
    \/ \E a \in Accounts : GrantAdd(a) \/ RevokeGrant(a)
    \/ PutGrant
    \/ \E actor \in People, as \in {Nobody, Service} : IssueKey(actor, as)
    \/ \E k \in keys : RevokeKey(k)
    \/ Quarantine \/ Recover \/ Record
    \/ Connect \/ Snapshot \/ Close

Spec == Init /\ [][Next]_vars

-----------------------------------------------------------------------------

(* An account is a person's or a service's for good, and only a service
   account has, or is invited with, a deadline. *)
KindsKept ==
    /\ \A a \in Accounts : member[a].role = "none" => member[a] = NoRow
    /\ \A p \in People : member[p].role # "service" /\ member[p].deadline = "none"
    /\ member[Service].role \in {"none", "service"}
    /\ \A i \in invites : i.provisional => i.role = "service"

TypeOK ==
    /\ member \in [Accounts -> MemberRows]
    /\ KindsKept
    /\ perm \in [Accounts -> {"none", "off", "read"}]
    /\ grants \subseteq Accounts /\ suspended \subseteq People
    /\ keys \subseteq [id : Nat, by : People, as : {Nobody, Service}]
    /\ invites \subseteq [by : People, email : People \cup {Nobody}, role : Roles,
                          provisional : BOOLEAN, after : Nat]
    /\ sess \in [People -> Nat]
    /\ sock \in [who : Accounts \cup {Nobody}, key : Nat, session : Nat,
                 role : Roles \cup {"none"}, version : Nat, reads : BOOLEAN]
    /\ adding \in Accounts \cup {Nobody}
    /\ deleted \in BOOLEAN /\ stranded \in BOOLEAN /\ recorded \in BOOLEAN
    /\ removals \in [Accounts -> Nat] /\ made \in Nat

(* Whatever its managers do, the workspace keeps an owner. *)
OwnerRemains == \E p \in People : Active(p) /\ member[p].role = "owner"

(* A number whose key people held keeps a holder who can share it again,
   unless an owner's override stranded it, on record, while it was deleted. *)
KeyRecoverable ==
    \/ stranded
    \/ \E a \in grants : Active(a) /\ member[a].deadline = "none"

(* Access is for members in good standing: nothing of a removed or disabled
   account goes on working, and no key outlives its maker's membership. *)
NothingLeftBehind ==
    /\ \A a \in Accounts : ~Active(a) => a \notin grants /\ perm[a] = "none"
    /\ \A p \in People : ~Active(p) => sess[p] = 0
    /\ \A k \in keys : Active(k.by) /\ (k.as # Nobody => Active(k.as))

(* An invitation is no wider than the role its maker has now, and none that
   was addressed to a person survives that person's removal. *)
InvitesStandBehind ==
    \A i \in invites :
        /\ \/ member[i.by].role = "owner"
           \/ member[i.by].role = "admin" /\ i.role \notin {"owner", "admin"}
        /\ Active(i.by)
        /\ i.email # Nobody => i.after = removals[i.email]

(* A socket that passes validAccess has the role its account has now, and
   what it was narrowed to is still readable to it (a deleted number leaves
   its subscriptions another way, see Stream). *)
SocketsAreCurrent ==
    sock # NoSock /\ ValidAccess(sock) =>
        /\ sock.reads => Allows(sock) \/ deleted
        /\ sock.role \in {"owner", "admin"} => ManagerRole(sock.who) = sock.role

(* The access rules of members.go, invitations.go, apikeys.go, keys.go and
   access.go together: an owner remains, the archive key stays recoverable,
   removal leaves nothing behind, invitations stay within their maker's
   rights and sockets act only on what the rows say now. *)
TeamSafe ==
    /\ TypeOK
    /\ OwnerRemains
    /\ KeyRecoverable
    /\ NothingLeftBehind
    /\ InvitesStandBehind
    /\ SocketsAreCurrent
=============================================================================
