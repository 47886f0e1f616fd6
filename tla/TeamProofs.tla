----------------------------- MODULE TeamProofs -----------------------------
(***************************************************************************)
(* For any number of people, invitations, keys and sessions: the workspace  *)
(* keeps an owner and a holder of the archive key, a removal leaves nothing *)
(* behind, and a socket that still passes validAccess acts on what the rows *)
(* say now.                                                                 *)
(*                                                                          *)
(* The last of these is not inductive: a removed person may join again, and *)
(* the new row starts at version 1 like the old one.  What tells the two    *)
(* apart is that sessions and keys are never handed out twice (IdsAreSpent) *)
(* and that a removal ends them, so a socket whose session or key is still  *)
(* there has seen no removal, only versions that count up (CopyIsBehind).   *)
(***************************************************************************)
EXTENDS Team, TLAPS

(* Sessions and keys have ids of their own, given out in order. *)
IdsAreSpent ==
    /\ \A p \in People : sess[p] <= made
    /\ \A k \in keys : 0 < k.id /\ k.id <= made
    /\ \A k, l \in keys : k.id = l.id => k = l
    /\ sock.key <= made /\ sock.session <= made

(* What a socket is: a person's, the service account's through a key, or a
   key's that acts as nobody. *)
SocketKinds ==
    sock # NoSock =>
        /\ sock.who \in People => sock.session # 0 /\ sock.key = 0
        /\ sock.who = Service => sock.session = 0 /\ sock.key # 0 /\ sock.role = "service"
        /\ sock.who = Nobody => sock.session = 0 /\ sock.key # 0 /\ sock.role = "none"
        /\ \A k \in keys : k.id = sock.key => k.as = sock.who

(* The session or the key the socket came with is still there. *)
Alive == /\ sock # NoSock /\ sock.who # Nobody
         /\ sock.who \in People => sess[sock.who] = sock.session
         /\ sock.who = Service => \E k \in keys : k.id = sock.key

(* Its copy is never ahead of the row, and as new as the row only while what
   it was narrowed to is still its account's. *)
CopyIsBehind ==
    Alive => /\ sock.version <= member[sock.who].version
             /\ sock.reads /\ sock.version = member[sock.who].version =>
                  perm[sock.who] = "read" /\ sock.who \in grants

Rows == OwnerRemains /\ KeyRecoverable /\ NothingLeftBehind /\ InvitesStandBehind
Sockets == IdsAreSpent /\ SocketKinds /\ CopyIsBehind
Inv == TypeOK /\ Rows /\ Sockets

-----------------------------------------------------------------------------
(* A service account is no person, and no account is nobody. *)
LEMMA Distinct ==
    /\ Service \in Accounts /\ Service \notin People
    /\ Nobody \notin Accounts /\ People \subseteq Accounts
    /\ \A a \in Accounts : a \in People \/ a = Service
  BY DirectoryAssumption DEF Accounts

(* A copy no newer than the row, of a session or key still there, is what
   validAccess needs. *)
LEMMA SocketsFollow ==
    ASSUME TypeOK, SocketKinds, CopyIsBehind
    PROVE  SocketsAreCurrent
<1> SUFFICES ASSUME sock # NoSock, ValidAccess(sock)
             PROVE  /\ sock.reads => Allows(sock) \/ deleted
                    /\ sock.role \in {"owner", "admin"} => ManagerRole(sock.who) = sock.role
  BY DEF SocketsAreCurrent
<1>1. CASE sock.who = Nobody
  BY <1>1 DEF SocketKinds, Allows
<1>2. CASE sock.who # Nobody
  <2>1. sock.who \in Accounts
    BY <1>2 DEF TypeOK
  <2>2. Alive
    BY <1>2, <2>1, Distinct DEF Alive, ValidAccess, SocketKinds
  <2>3. Unexpired(sock.who) /\ sock.version = member[sock.who].version
        /\ sock.role = member[sock.who].role
    BY <1>2 DEF ValidAccess
  <2>4. sock.reads => Allows(sock) \/ deleted
    BY <1>2, <2>2, <2>3 DEF CopyIsBehind, Allows, MayRead
  <2>5. sock.role \in {"owner", "admin"} => ManagerRole(sock.who) = sock.role
    BY <2>3 DEF ManagerRole, Unexpired
  <2> QED  BY <2>4, <2>5
<1> QED  BY <1>1, <1>2

(* The founder's workspace is in good order. *)
LEMMA InitInv == Init => Inv
<1> SUFFICES ASSUME NEW helper \in {"none", "owner", "admin", "member"},
                    NEW second \in People \ {Founder}, Init,
                    member = [a \in Accounts |->
                       CASE a = Founder -> [NoRow EXCEPT !.role = "owner", !.status = "active", !.version = 1]
                         [] a = second /\ helper # "none" ->
                              [NoRow EXCEPT !.role = helper, !.status = "active", !.version = 1]
                         [] OTHER -> NoRow],
                    perm = [a \in Accounts |-> IF a = Founder THEN "read" ELSE "none"],
                    grants = {Founder}, suspended = {}, keys = {}, invites = {},
                    sess = [p \in People |-> 0], sock = NoSock, adding = Nobody,
                    deleted = FALSE, stranded = FALSE, recorded = FALSE,
                    removals = [a \in Accounts |-> 0], made = 0
             PROVE  Inv
  BY DEF Init
<1> USE Distinct, DirectoryAssumption
<1>1. member[Founder].role = "owner" /\ Active(Founder) /\ member[Founder].deadline = "none"
  BY DEF Active, NoRow
<1>2. TypeOK
  <2>1. \A a \in Accounts : member[a] \in MemberRows
    BY DEF NoRow, Roles, MemberRows
  <2>2. member \in [Accounts -> MemberRows]
    BY <2>1
  <2>3. KindsKept
    BY DEF KindsKept, NoRow
  <2>5. sock \in [who : Accounts \cup {Nobody}, key : Nat, session : Nat,
                 role : Roles \cup {"none"}, version : Nat, reads : BOOLEAN]
    BY DEF NoSock, Opened, Roles
  <2>6. /\ perm \in [Accounts -> {"none", "off", "read"}]
        /\ sess \in [People -> Nat] /\ removals \in [Accounts -> Nat]
    OBVIOUS
  <2>7. /\ grants \subseteq Accounts /\ suspended \subseteq People
        /\ keys \subseteq [id : Nat, by : People, as : {Nobody, Service}]
        /\ invites \subseteq [by : People, email : People \cup {Nobody}, role : Roles,
                          provisional : BOOLEAN, after : Nat]
        /\ adding \in Accounts \cup {Nobody} /\ made \in Nat
    OBVIOUS
  <2>8. deleted \in BOOLEAN /\ stranded \in BOOLEAN /\ recorded \in BOOLEAN
    OBVIOUS
  <2> QED  BY <2>2, <2>3, <2>5, <2>6, <2>7, <2>8 DEF TypeOK
<1>3. Rows
  BY <1>1 DEF Rows, OwnerRemains, KeyRecoverable, NothingLeftBehind, InvitesStandBehind, Active, NoRow
<1>4. Sockets
  BY DEF Sockets, IdsAreSpent, SocketKinds, CopyIsBehind, Alive, NoSock, Opened
<1> QED  BY <1>2, <1>3, <1>4 DEF Inv


-----------------------------------------------------------------------------
(* Someone other than a holds the key, when a is not its only holder. *)
LEMMA OtherHolder ==
    ASSUME KeyRecoverable, ~stranded, NEW a \in Accounts, RemainingReader(a)
    PROVE  \E b \in grants \ {a} : Active(b) /\ member[b].deadline = "none"
<1>1. PICK b \in grants : Active(b) /\ member[b].deadline = "none"
  BY DEF KeyRecoverable
<1>2. CASE b = a
  BY <1>1, <1>2 DEF RemainingReader, SoleHolder, Backup
<1> QED  BY <1>1, <1>2

(* What every removal and disabling does: the row is another, with no role or
   none in force, and the account's rights go. *)
Ends(a, row) ==
    /\ row \in MemberRows /\ row.status # "active"
    /\ member' = [member EXCEPT ![a] = row]
    /\ a = Service => row.role \in {"none", "service"}
    /\ a \in People => row.role # "service" /\ row.deadline = "none"
    /\ row.role = "none" => row = NoRow
    /\ perm' = [perm EXCEPT ![a] = "none"]
    /\ grants' = grants \ {a}
    /\ keys' \subseteq keys /\ \A k \in keys' : a \notin {k.as, k.by}
    /\ sess' = IF a \in People THEN [sess EXCEPT ![a] = 0] ELSE sess
    /\ UNCHANGED <<suspended, sock, adding, deleted, recorded, made>>

(* The socket of an account whose rights end is not alive, and the others'
   rows are as they were. *)
LEMMA EndsSockets ==
    ASSUME Inv, NEW a \in Accounts, NEW row, Ends(a, row)
    PROVE  Sockets'
<1> USE Distinct DEF Ends
<1>1. IdsAreSpent'
  BY DEF Inv, Sockets, IdsAreSpent, TypeOK
<1>2. SocketKinds'
  BY DEF Inv, Sockets, SocketKinds, TypeOK
<1>3. CopyIsBehind'
  <2> SUFFICES ASSUME Alive' PROVE CopyIsBehind'
    BY DEF CopyIsBehind
  <2>1. sock.who # a
    BY DEF Alive, Inv, Sockets, SocketKinds, TypeOK
  <2>2. Alive
    BY <2>1 DEF Alive, Inv, Sockets, SocketKinds, TypeOK
  <2>3. member'[sock.who] = member[sock.who] /\ perm'[sock.who] = perm[sock.who]
        /\ (sock.who \in grants' <=> sock.who \in grants)
    BY <2>1 DEF Inv, TypeOK, Alive
  <2> QED  BY <2>2, <2>3 DEF CopyIsBehind, Inv, Sockets
<1> QED  BY <1>1, <1>2, <1>3 DEF Sockets

(* An ending leaves an owner, a holder of the key unless an override counts
   the number as stranded, and nothing of the account. *)
LEMMA EndsRows ==
    ASSUME Inv, NEW a \in Accounts, NEW row, Ends(a, row),
           (member[a].role = "owner" /\ Active(a)) => OtherOwner(a),
           stranded' = (stranded \/ SoleHolder(a)),
           invites' \subseteq invites, \A i \in invites' : i.by # a,
           \A b \in Accounts \ {a} : removals'[b] = removals[b],
           removals'[a] = removals[a] \/ \A i \in invites' : i.email # a
    PROVE  Rows'
<1> USE Distinct DEF Ends
<1>1. /\ \A b \in Accounts \ {a} : member'[b] = member[b] /\ perm'[b] = perm[b]
      /\ member'[a] = row /\ perm'[a] = "none"
  BY DEF Inv, TypeOK
<1>2. OwnerRemains'
  <2>1. PICK p \in People \ {a} : Active(p) /\ member[p].role = "owner"
    BY DEF Inv, Rows, OwnerRemains, OtherOwner, ManagerRole
  <2> QED  BY <1>1, <2>1 DEF OwnerRemains, Active
<1>3. KeyRecoverable'
  <2> SUFFICES ASSUME ~stranded' PROVE KeyRecoverable'
    BY DEF KeyRecoverable
  <2>1. PICK b \in grants \ {a} : Active(b) /\ member[b].deadline = "none"
    BY OtherHolder DEF Inv, Rows, TypeOK, RemainingReader
  <2>2. b \in grants' /\ member'[b] = member[b]
    BY <1>1, <2>1 DEF Inv, TypeOK
  <2> QED  BY <2>1, <2>2 DEF KeyRecoverable, Active
<1>4. NothingLeftBehind'
  <2>1. \A b \in Accounts : ~Active(b)' => b \notin grants' /\ perm'[b] = "none"
    BY <1>1 DEF NothingLeftBehind, Active, Inv, Rows
  <2>2. \A p \in People : ~Active(p)' => sess'[p] = 0
    BY <1>1 DEF NothingLeftBehind, Active, Inv, Rows, TypeOK
  <2>3. \A k \in keys' : Active(k.by)' /\ (k.as # Nobody => Active(k.as)')
    BY <1>1 DEF NothingLeftBehind, Active, Inv, Rows, TypeOK
  <2> QED  BY <2>1, <2>2, <2>3 DEF NothingLeftBehind
<1>5. InvitesStandBehind'
  <2> SUFFICES ASSUME NEW i \in invites'
               PROVE  /\ \/ member'[i.by].role = "owner"
                         \/ member'[i.by].role = "admin" /\ i.role \notin {"owner", "admin"}
                      /\ Active(i.by)'
                      /\ i.email # Nobody => i.after = removals'[i.email]
    BY DEF InvitesStandBehind
  <2>1. i \in invites /\ i.by \in People \ {a} /\ i.email \in People \cup {Nobody}
    BY DEF Inv, TypeOK
  <2>2. member'[i.by] = member[i.by]
    BY <1>1, <2>1
  <2>3. i.email # Nobody => removals'[i.email] = removals[i.email]
    BY <2>1
  <2> QED  BY <2>1, <2>2, <2>3 DEF InvitesStandBehind, Inv, Rows, Active
<1> QED  BY <1>2, <1>3, <1>4, <1>5 DEF Rows

(* An ending keeps every type, when the rest does. *)
LEMMA EndsTyped ==
    ASSUME Inv, NEW a \in Accounts, NEW row, Ends(a, row),
           stranded' \in BOOLEAN, invites' \subseteq invites,
           removals' \in [Accounts -> Nat]
    PROVE  TypeOK'
<1> USE Distinct DEF Ends
<1>1. member' \in [Accounts -> MemberRows] /\ KindsKept'
  BY DEF Inv, TypeOK, KindsKept
<1>2. /\ perm' \in [Accounts -> {"none", "off", "read"}]
      /\ sess' \in [People -> Nat]
  BY DEF Inv, TypeOK
<1> QED  BY <1>1, <1>2 DEF Inv, TypeOK

(* A change of role or status: a disabling ends the account's rights, and
   what is not a disabling leaves them, and in either case its sessions. *)
LEMMA UpdateMemberKeeps ==
    ASSUME Inv, NEW actor \in People, NEW a \in Accounts, NEW role \in Roles,
           NEW status \in {"active", "disabled"}, UpdateMember(actor, a, role, status)
    PROVE  Inv'
<1> USE Distinct
<1> DEFINE row(n) == Changed(member[a], role, status, n)
<1>1. /\ member[a] \in MemberRows /\ member[a].role # "none"
      /\ (role = "service") = (a = Service)
      /\ a \in People => member[a].deadline = "none"
  BY DEF UpdateMember, Inv, TypeOK, KindsKept
<1>2. CASE status = "disabled"
  <2>1. PICK n \in Nat : member' = [member EXCEPT ![a] = row(n)]
    <3>1. 1 + Moves(a) \in Nat
      BY DEF Moves
    <3>2. member' = [member EXCEPT ![a] = row(1 + Moves(a))]
      BY <1>2 DEF UpdateMember
    <3> QED  BY <3>1, <3>2
  <2>2. Ends(a, row(n))
    <3>1. /\ row(n) \in MemberRows /\ row(n).status = status /\ row(n).role = role
          /\ row(n).deadline = member[a].deadline
      BY <1>1 DEF Changed, MemberRows
    <3>2. \A k \in keys' : a \notin {k.as, k.by}
      BY <1>2 DEF UpdateMember, Stripped
    <3> HIDE DEF row
    <3> QED  BY <1>1, <1>2, <2>1, <3>1, <3>2 DEF Ends, UpdateMember, Stripped, Roles
  <2>3. /\ (member[a].role = "owner" /\ Active(a)) => OtherOwner(a)
        /\ stranded' = (stranded \/ SoleHolder(a))
        /\ invites' \subseteq invites /\ \A i \in invites' : i.by # a
        /\ removals' = removals
    BY <1>2 DEF UpdateMember, Active, StrandTx
  <2>4. TypeOK'
    BY <2>2, <2>3, EndsTyped DEF Inv, TypeOK
  <2>5. Rows'
    BY <2>2, <2>3, EndsRows
  <2>6. Sockets'
    BY <2>2, EndsSockets
  <2> QED  BY <2>4, <2>5, <2>6 DEF Inv
<1>3. CASE status = "active"
  <2>1. /\ member' = [member EXCEPT ![a] = row(1)]
        /\ UNCHANGED <<perm, grants, keys, stranded, suspended, sock, adding,
                       deleted, recorded, removals, made>>
        /\ sess' = IF a \in People THEN [sess EXCEPT ![a] = 0] ELSE sess
        /\ invites' = {i \in invites : i.by # a}
        /\ (member[a].role = "owner" /\ Active(a)) => OtherOwner(a) \/ role = "owner"
    BY <1>3 DEF UpdateMember, Active
  <2>2. /\ row(1) \in MemberRows /\ row(1).status = "active" /\ row(1).role = role
        /\ row(1).deadline = member[a].deadline
        /\ row(1).version = member[a].version + 1
    BY <1>1, <1>3 DEF Changed, MemberRows
  <2>3. member'[a] = row(1) /\ \A b \in Accounts \ {a} : member'[b] = member[b]
    BY <2>1 DEF Inv, TypeOK
  <2> HIDE DEF row
  <2>4. TypeOK'
    <3>1. member' \in [Accounts -> MemberRows]
      BY <2>1, <2>2 DEF Inv, TypeOK
    <3>2. KindsKept'
      BY <1>1, <2>1, <2>2, <2>3 DEF Inv, TypeOK, KindsKept, Roles
    <3>3. sess' \in [People -> Nat]
      BY <2>1 DEF Inv, TypeOK
    <3> QED  BY <2>1, <3>1, <3>2, <3>3 DEF Inv, TypeOK
  <2>5. OwnerRemains'
    <3>1. CASE role = "owner"
      BY <1>1, <2>2, <2>3, <3>1 DEF OwnerRemains, Active
    <3>2. CASE role # "owner"
      <4>1. PICK p \in People \ {a} : Active(p) /\ member[p].role = "owner"
        BY <2>1, <3>2 DEF Inv, Rows, OwnerRemains, OtherOwner, ManagerRole
      <4> QED  BY <2>3, <4>1 DEF OwnerRemains, Active
    <3> QED  BY <3>1, <3>2
  <2>6. \A b \in Accounts : Active(b) => Active(b)' /\ member'[b].deadline = member[b].deadline
    BY <2>2, <2>3 DEF Active
  <2>7. KeyRecoverable'
    BY <2>1, <2>6 DEF KeyRecoverable, Inv, Rows, TypeOK
  <2>8. NothingLeftBehind'
    BY <2>1, <2>6 DEF NothingLeftBehind, Inv, Rows, TypeOK
  <2>9. InvitesStandBehind'
    BY <2>1, <2>3 DEF InvitesStandBehind, Inv, Rows, TypeOK, Active
  <2>10. IdsAreSpent' /\ SocketKinds'
    BY <2>1 DEF Inv, Sockets, IdsAreSpent, SocketKinds, TypeOK
  <2>11. CopyIsBehind'
    <3> SUFFICES ASSUME Alive' PROVE CopyIsBehind'
      BY DEF CopyIsBehind
    <3>1. sock.who \in Accounts /\ sock.version \in Nat
      BY <2>1 DEF Alive, Inv, TypeOK
    <3>2. Alive
      BY <2>1, <3>1 DEF Alive, Inv, Sockets, SocketKinds, TypeOK
    <3>3. CASE sock.who = a
      BY <1>1, <2>1, <2>2, <2>3, <3>1, <3>2, <3>3 DEF CopyIsBehind, Inv, Sockets, MemberRows
    <3>4. CASE sock.who # a
      BY <2>1, <2>3, <3>1, <3>2, <3>4 DEF CopyIsBehind, Inv, Sockets
    <3> QED  BY <3>3, <3>4
  <2> QED  BY <2>4, <2>5, <2>7, <2>8, <2>9, <2>10, <2>11 DEF Inv, Rows, Sockets
<1> QED  BY <1>2, <1>3

(* A removal. *)
LEMMA RemoveMemberKeeps ==
    ASSUME Inv, NEW actor \in People, NEW a \in Accounts, RemoveMember(actor, a)
    PROVE  Inv'
<1> USE Distinct
<1>1. Ends(a, NoRow)
  BY DEF Ends, RemoveMember, Stripped, NoRow, MemberRows
<1>2. /\ (member[a].role = "owner" /\ Active(a)) => OtherOwner(a)
      /\ stranded' = (stranded \/ SoleHolder(a))
      /\ invites' \subseteq invites /\ \A i \in invites' : i.by # a /\ i.email # a
      /\ removals' = [removals EXCEPT ![a] = @ + 1]
  BY DEF RemoveMember, StrandTx
<1>3. removals' \in [Accounts -> Nat] /\ \A b \in Accounts \ {a} : removals'[b] = removals[b]
  BY <1>2 DEF Inv, TypeOK
<1>4. TypeOK'
  BY <1>1, <1>2, <1>3, EndsTyped DEF Inv, TypeOK
<1>5. Rows'
  BY <1>1, <1>2, <1>3, EndsRows
<1>6. Sockets'
  BY <1>1, EndsSockets
<1> QED  BY <1>4, <1>5, <1>6 DEF Inv

(* A service account past its deadline is nobody's last holder of the key. *)
LEMMA ExpireServiceKeeps ==
    ASSUME Inv, ExpireService
    PROVE  Inv'
<1> USE Distinct
<1>1. Ends(Service, NoRow)
  BY DEF Ends, ExpireService, NoRow, MemberRows, Inv, TypeOK, number
<1>2. ~SoleHolder(Service) /\ member[Service].role # "owner"
  BY DEF SoleHolder, ExpireService, Inv, TypeOK, KindsKept
<1>3. /\ stranded' = (stranded \/ SoleHolder(Service)) /\ stranded' \in BOOLEAN
      /\ invites' = invites /\ \A i \in invites' : i.by # Service /\ i.email # Service
      /\ removals' = [removals EXCEPT ![Service] = @ + 1]
  BY <1>2 DEF ExpireService, Inv, TypeOK, number
<1>4. removals' \in [Accounts -> Nat]
      /\ \A b \in Accounts \ {Service} : removals'[b] = removals[b]
  BY <1>3 DEF Inv, TypeOK
<1>5. TypeOK'
  BY <1>1, <1>3, <1>4, EndsTyped
<1>6. Rows'
  BY <1>1, <1>2, <1>3, <1>4, EndsRows
<1>7. Sockets'
  BY <1>1, EndsSockets
<1> QED  BY <1>5, <1>6, <1>7 DEF Inv

-----------------------------------------------------------------------------
(* A step that ends nobody's rights and starts no session, key or socket:
   every active row stays active, with its role and its deadline unless it
   had one, and its version moves on when it loses what a socket may use. *)
Steady ==
    /\ \A a \in Accounts :
         /\ Active(a) => /\ member'[a].status = "active"
                         /\ member'[a].role = member[a].role
                         /\ member[a].deadline = "none" => member'[a].deadline = "none"
         /\ ~Active(a)' => ~Active(a) /\ grants' \cap {a} = grants \cap {a} /\ perm'[a] = perm[a]
         /\ member[a].version <= member'[a].version
         /\ \/ member[a].version < member'[a].version
            \/ /\ a \in grants => a \in grants'
               /\ perm[a] = "read" => perm'[a] = "read"
    /\ keys' \subseteq keys
    /\ UNCHANGED <<sess, sock, made>>

(* Such a step keeps what is said of sockets, *)
LEMMA SteadySockets ==
    ASSUME Inv, Steady, TypeOK'
    PROVE  Sockets'
<1> USE Distinct DEF Steady
<1>1. IdsAreSpent' /\ SocketKinds'
  BY DEF Inv, Sockets, IdsAreSpent, SocketKinds, TypeOK
<1>2. CopyIsBehind'
  <2> SUFFICES ASSUME Alive' PROVE CopyIsBehind'
    BY DEF CopyIsBehind
  <2>1. sock.who \in Accounts /\ sock.version \in Nat
    BY DEF Alive, Inv, TypeOK
  <2>2. Alive
    BY <2>1 DEF Alive
  <2>3. member[sock.who].version \in Nat /\ member'[sock.who].version \in Nat
    BY <2>1 DEF Inv, TypeOK, MemberRows
  <2>4. /\ sock.version <= member[sock.who].version
        /\ sock.reads /\ sock.version = member[sock.who].version =>
             perm[sock.who] = "read" /\ sock.who \in grants
    BY <2>2 DEF CopyIsBehind, Inv, Sockets
  <2> QED  BY <2>1, <2>3, <2>4 DEF CopyIsBehind
<1> QED  BY <1>1, <1>2 DEF Sockets

(* and of rows, if a holder of the key remains and invitations stand. *)
LEMMA SteadyRows ==
    ASSUME Inv, Steady, TypeOK', KeyRecoverable', InvitesStandBehind'
    PROVE  Rows'
<1>1. OwnerRemains'
  BY Distinct DEF Inv, Rows, OwnerRemains, Active, Steady
<1>2. NothingLeftBehind'
  <2>1. \A a \in Accounts : ~Active(a)' => a \notin grants' /\ perm'[a] = "none"
    BY DEF Steady, Inv, Rows, NothingLeftBehind
  <2>2. \A p \in People : ~Active(p)' => sess'[p] = 0
    BY Distinct DEF Steady, Inv, Rows, NothingLeftBehind
  <2>3. \A k \in keys' : Active(k.by)' /\ (k.as # Nobody => Active(k.as)')
    BY Distinct DEF Steady, Inv, Rows, NothingLeftBehind, TypeOK, Active
  <2> QED  BY <2>1, <2>2, <2>3 DEF NothingLeftBehind
<1> QED  BY <1>1, <1>2 DEF Rows

(* Invitations that stood, behind rows and removals as they were. *)
LEMMA InvitesStay ==
    ASSUME Inv, Steady, invites' \subseteq invites, UNCHANGED removals
    PROVE  InvitesStandBehind'
  BY Distinct DEF Inv, Rows, TypeOK, InvitesStandBehind, Steady, Active

(* A step of the number, of a suspension or of a grant on its way. *)
LEMMA AsideKeeps ==
    ASSUME Inv, UNCHANGED <<member, perm, grants, invites, sess, sock, removals, made>>,
           keys' \subseteq keys, suspended' \subseteq People,
           adding' \in Accounts \cup {Nobody},
           deleted' \in BOOLEAN, recorded' \in BOOLEAN, stranded' = stranded
    PROVE  Inv'
<1>1. Steady
  BY DEF Steady, Active, Inv, TypeOK, MemberRows
<1>2. TypeOK'
  <2>1. KindsKept'
    BY DEF Inv, TypeOK, KindsKept
  <2> QED  BY <2>1 DEF Inv, TypeOK
<1>3. KeyRecoverable'
  BY DEF Inv, Rows, KeyRecoverable, Active
<1> QED  BY <1>1, <1>2, <1>3, InvitesStay, SteadyRows, SteadySockets DEF Inv

(* A provisional account's deadline passes. *)
LEMMA DeadlineKeeps ==
    ASSUME Inv, DeadlinePasses
    PROVE  Inv'
<1> USE Distinct DEF DeadlinePasses, number
<1>1. member[Service] \in MemberRows /\ member[Service].deadline = "running"
  BY DEF Inv, TypeOK
<1>2. /\ member'[Service].status = member[Service].status
      /\ member'[Service].role = member[Service].role
      /\ member'[Service].version = member[Service].version
      /\ member'[Service] \in MemberRows
      /\ \A b \in Accounts \ {Service} : member'[b] = member[b]
  BY <1>1 DEF Inv, TypeOK, MemberRows, Changed
<1>3. Steady
  BY <1>1, <1>2 DEF Steady, Active, Inv, TypeOK, MemberRows
<1>4. TypeOK'
  <2>1. member' \in [Accounts -> MemberRows]
    BY <1>2 DEF Inv, TypeOK
  <2>2. KindsKept'
    BY <1>1, <1>2 DEF Inv, TypeOK, KindsKept, NoRow
  <2> QED  BY <2>1, <2>2 DEF Inv, TypeOK
<1>5. KeyRecoverable'
  BY <1>3 DEF Inv, Rows, KeyRecoverable, Steady, TypeOK, Active
<1> QED  BY <1>3, <1>4, <1>5, InvitesStay, SteadyRows, SteadySockets DEF Inv

(* A new member of an invitation that is still good. *)
LEMMA JoinKeeps ==
    ASSUME Inv, NEW a \in Accounts, NEW i \in invites, Join(a, i)
    PROVE  Inv'
<1> USE Distinct DEF number
<1> DEFINE row == [role |-> i.role, status |-> "active", version |-> IF i.provisional THEN 2 ELSE 1,
                   deadline |-> IF i.provisional THEN "running" ELSE "none"]
<1>1. /\ i.role \in Roles /\ i.provisional \in BOOLEAN
      /\ (i.role = "service") = (a = Service)
      /\ i.provisional => i.role = "service"
  BY DEF Join, Spendable, Inv, TypeOK, KindsKept
<1>2. row \in MemberRows /\ row.role = i.role /\ row.status = "active" /\ row.version \in {1, 2}
      /\ (a # Service => row.deadline = "none")
  BY <1>1 DEF MemberRows
<1> HIDE DEF row
<1>3. member' = [member EXCEPT ![a] = row] /\ invites' = invites \ {i}
      /\ UNCHANGED <<perm, grants, suspended, keys, sess, sock, adding, deleted, stranded, recorded, removals, made>>
  BY DEF Join, row
<1>4. member'[a] = row /\ \A b \in Accounts \ {a} : member'[b] = member[b]
  BY <1>3 DEF Inv, TypeOK
<1>5. member[a] = NoRow /\ ~Active(a)
  BY DEF Join, Inv, TypeOK, KindsKept, Active, NoRow
<1>6. Steady
  BY <1>2, <1>3, <1>4, <1>5 DEF Steady, Active, Inv, TypeOK, MemberRows, NoRow
<1>7. TypeOK'
  <2>1. member' \in [Accounts -> MemberRows]
    BY <1>2, <1>3 DEF Inv, TypeOK
  <2>2. KindsKept'
    BY <1>1, <1>2, <1>3, <1>4 DEF Inv, TypeOK, KindsKept, Roles
  <2> QED  BY <1>3, <2>1, <2>2 DEF Inv, TypeOK
<1>8. KeyRecoverable'
  BY <1>3, <1>6 DEF Inv, Rows, KeyRecoverable, Steady, TypeOK, Active
<1>9. InvitesStandBehind'
  BY <1>3, <1>6, InvitesStay
<1> QED  BY <1>6, <1>7, <1>8, <1>9, SteadyRows, SteadySockets DEF Inv

(* An invitation made, made again or revoked. *)
LEMMA InvitationsKeep ==
    ASSUME Inv, UNCHANGED <<member, perm, grants, suspended, keys, sess, sock, adding, number, removals, made>>,
           NEW actor \in People, NEW email \in People \cup {Nobody}, NEW role \in Roles,
           NEW provisional \in BOOLEAN, provisional => role = "service" /\ email = Nobody,
           Manages(actor, role),
           invites' \subseteq invites \cup {Invite(actor, email, role, provisional)}
    PROVE  Inv'
<1> USE Distinct DEF number
<1>1. Steady
  BY DEF Steady, Active, Inv, TypeOK, MemberRows
<1>2. removals \in [Accounts -> Nat]
  BY DEF Inv, TypeOK
<1>3. Invite(actor, email, role, provisional) \in
        [by : People, email : People \cup {Nobody}, role : Roles,
         provisional : BOOLEAN, after : Nat]
  BY <1>2 DEF Invite
<1>4. TypeOK'
  <2>1. KindsKept'
    BY DEF Inv, TypeOK, KindsKept, Invite
  <2> QED  BY <1>3, <2>1 DEF Inv, TypeOK
<1>5. KeyRecoverable'
  BY DEF Inv, Rows, KeyRecoverable, Active
<1>6. InvitesStandBehind'
  BY DEF Inv, Rows, InvitesStandBehind, Invite, Manages, ManagerRole, Active
<1> QED  BY <1>1, <1>4, <1>5, <1>6, SteadyRows, SteadySockets DEF Inv

(* A permission given, or withdrawn with the key's envelope. *)
LEMMA SetDevicePermissionKeeps ==
    ASSUME Inv, NEW actor \in People, NEW a \in Accounts, NEW read \in BOOLEAN,
           SetDevicePermission(actor, a, read)
    PROVE  Inv'
<1> USE Distinct DEF number
<1> DEFINE n == (IF perm[a] # "none" THEN 1 ELSE 0)
                + (IF ~read /\ a \in grants THEN 1 ELSE 0)
<1>1. member' = [member EXCEPT ![a] = Changed(@, @.role, @.status, n)] /\ n \in Nat
  BY DEF SetDevicePermission, Bumped
<1>2. n = 0 => perm[a] = "none" /\ (read \/ a \notin grants)
  OBVIOUS
<1> HIDE DEF n
<1>3. /\ member[a] \in MemberRows /\ member'[a] \in MemberRows
      /\ member'[a].role = member[a].role /\ member'[a].status = member[a].status
      /\ member'[a].deadline = member[a].deadline
      /\ member'[a].version = member[a].version + n
      /\ \A b \in Accounts \ {a} : member'[b] = member[b]
  BY <1>1 DEF Inv, TypeOK, MemberRows, Changed
<1>4. /\ Active(a) /\ perm' = [perm EXCEPT ![a] = IF read THEN "read" ELSE "off"]
      /\ grants' = IF read THEN grants ELSE grants \ {a}
      /\ ~read => RemainingReader(a)
      /\ UNCHANGED <<suspended, keys, invites, sess, sock, adding, deleted, stranded, recorded, removals, made>>
  BY DEF SetDevicePermission
<1>5. Steady
  <2>1. /\ member[a].version <= member'[a].version
        /\ \/ member[a].version < member'[a].version
           \/ /\ a \in grants => a \in grants'
              /\ perm[a] = "read" => perm'[a] = "read"
    <3>1. CASE n = 0
      BY <1>2, <1>3, <1>4, <3>1 DEF MemberRows, Inv, TypeOK
    <3>2. CASE n # 0
      BY <1>1, <1>3, <3>2 DEF MemberRows
    <3> QED  BY <3>1, <3>2
  <2>2. \A b \in Accounts \ {a} :
           member[b].version \in Nat /\ perm'[b] = perm[b]
           /\ (b \in grants' <=> b \in grants)
    BY <1>4 DEF Inv, TypeOK, MemberRows
  <2> QED  BY <1>3, <1>4, <2>1, <2>2 DEF Steady, Active
<1>6. TypeOK'
  <2>1. member' \in [Accounts -> MemberRows]
    BY <1>1, <1>3 DEF Inv, TypeOK
  <2>2. KindsKept'
    BY <1>3, <1>4 DEF Inv, TypeOK, KindsKept, NoRow, Active
  <2> QED  BY <1>4, <2>1, <2>2 DEF Inv, TypeOK
<1>7. KeyRecoverable'
  <2>1. CASE stranded
    BY <1>4, <2>1 DEF KeyRecoverable
  <2>2. CASE read
    BY <1>3, <1>4, <2>2 DEF KeyRecoverable, Inv, Rows, Active, TypeOK
  <2>3. CASE ~stranded /\ ~read
    BY <1>3, <1>4, <2>3, OtherHolder DEF KeyRecoverable, Inv, Rows, Active, TypeOK
  <2> QED  BY <2>1, <2>2, <2>3
<1> QED  BY <1>4, <1>5, <1>6, <1>7, InvitesStay, SteadyRows, SteadySockets DEF Inv

(* An envelope stored for an account that is a member by then. *)
LEMMA PutGrantKeeps ==
    ASSUME Inv, PutGrant
    PROVE  Inv'
<1> USE Distinct DEF number
<1>1. CASE Unexpired(adding) /\ ~deleted
  <2>1. /\ adding \in Accounts /\ Active(adding) /\ grants' = grants \cup {adding}
        /\ perm' = [perm EXCEPT ![adding] = IF adding \notin grants /\ @ = "none" THEN "read" ELSE @]
        /\ adding' = Nobody
        /\ UNCHANGED <<member, suspended, keys, invites, sess, sock, deleted, stranded, recorded, removals, made>>
    BY <1>1 DEF PutGrant, Inv, TypeOK, Unexpired
  <2>2. Steady
    BY <2>1 DEF Steady, Active, Inv, TypeOK, MemberRows
  <2>3. TypeOK'
    <3>1. KindsKept'
      BY <2>1 DEF Inv, TypeOK, KindsKept
    <3> QED  BY <2>1, <3>1 DEF Inv, TypeOK
  <2>4. KeyRecoverable'
    BY <2>1 DEF KeyRecoverable, Inv, Rows, Active
  <2> QED  BY <2>1, <2>2, <2>3, <2>4, InvitesStay, SteadyRows, SteadySockets DEF Inv
<1>2. CASE ~(Unexpired(adding) /\ ~deleted)
  BY <1>2, AsideKeeps DEF PutGrant, Inv, TypeOK
<1> QED  BY <1>1, <1>2

(* An envelope revoked, which is nobody's last. *)
LEMMA RevokeGrantKeeps ==
    ASSUME Inv, NEW a \in Accounts, RevokeGrant(a)
    PROVE  Inv'
<1> USE Distinct DEF number
<1>1. /\ member' = [member EXCEPT ![a] = Changed(@, @.role, @.status, 1)]
      /\ grants' = grants \ {a} /\ a \in grants /\ RemainingReader(a)
      /\ UNCHANGED <<perm, suspended, keys, invites, sess, sock, adding, deleted, stranded, recorded, removals, made>>
  BY DEF RevokeGrant, Bumped
<1>2. /\ member[a] \in MemberRows /\ member'[a] \in MemberRows
      /\ member'[a].role = member[a].role /\ member'[a].status = member[a].status
      /\ member'[a].deadline = member[a].deadline
      /\ member'[a].version = member[a].version + 1
      /\ \A b \in Accounts \ {a} : member'[b] = member[b]
  BY <1>1 DEF Inv, TypeOK, MemberRows, Changed
<1>3. Active(a)
  BY <1>1 DEF Inv, Rows, NothingLeftBehind
<1>4. Steady
  BY <1>1, <1>2, <1>3 DEF Steady, Active, Inv, TypeOK, MemberRows
<1>5. TypeOK'
  <2>1. member' \in [Accounts -> MemberRows]
    BY <1>1, <1>2 DEF Inv, TypeOK
  <2>2. KindsKept'
    BY <1>1, <1>2, <1>3 DEF Inv, TypeOK, KindsKept, NoRow, Active
  <2> QED  BY <1>1, <2>1, <2>2 DEF Inv, TypeOK
<1>6. KeyRecoverable'
  <2>1. CASE stranded
    BY <1>1, <2>1 DEF KeyRecoverable
  <2>2. CASE ~stranded
    BY <1>1, <1>2, <2>2, OtherHolder DEF KeyRecoverable, Inv, Rows, Active, TypeOK
  <2> QED  BY <2>1, <2>2
<1> QED  BY <1>1, <1>4, <1>5, <1>6, InvitesStay, SteadyRows, SteadySockets DEF Inv

-----------------------------------------------------------------------------
(* A session or a key is new: no socket came with its id. *)
LEMMA SignInKeeps ==
    ASSUME Inv, NEW p \in People, SignIn(p)
    PROVE  Inv'
<1> USE Distinct DEF number
<1>1. /\ sess' = [sess EXCEPT ![p] = made + 1] /\ made' = made + 1 /\ Active(p)
      /\ UNCHANGED <<member, perm, grants, suspended, keys, invites, sock, adding, deleted, stranded, recorded, removals>>
  BY DEF SignIn, Fresh, Unexpired
<1>2. made \in Nat /\ \A q \in People : sess[q] \in Nat
  BY DEF Inv, TypeOK
<1>3. TypeOK'
  <2>1. KindsKept' /\ sess' \in [People -> Nat]
    BY <1>1, <1>2 DEF Inv, TypeOK, KindsKept
  <2> QED  BY <1>1, <1>2, <2>1 DEF Inv, TypeOK
<1>4. Rows'
  BY <1>1 DEF Inv, Rows, TypeOK, OwnerRemains, KeyRecoverable, NothingLeftBehind, InvitesStandBehind, Active
<1>5. IdsAreSpent'
  BY <1>1, <1>2 DEF Inv, TypeOK, Sockets, IdsAreSpent
<1>6. SocketKinds'
  BY <1>1 DEF Inv, Sockets, SocketKinds
<1>7. CopyIsBehind'
  <2> SUFFICES ASSUME Alive' PROVE CopyIsBehind'
    BY DEF CopyIsBehind
  <2>1. Alive
    <3>1. sock \in [who : Accounts \cup {Nobody}, key : Nat, session : Nat,
                 role : Roles \cup {"none"}, version : Nat, reads : BOOLEAN]
      BY DEF Inv, TypeOK
    <3>2. sock.session <= made /\ sock.session \in Nat
      BY <3>1 DEF Inv, Sockets, IdsAreSpent
    <3>3. sess'[p] = made + 1 /\ \A q \in People \ {p} : sess'[q] = sess[q]
      BY <1>1 DEF Inv, TypeOK
    <3>4. sock.who # p
      BY <1>1, <1>2, <3>2, <3>3 DEF Alive
    <3> QED  BY <1>1, <3>3, <3>4 DEF Alive
  <2> QED  BY <1>1, <2>1 DEF CopyIsBehind, Inv, Sockets
<1> QED  BY <1>3, <1>4, <1>5, <1>6, <1>7 DEF Inv, Sockets

LEMMA IssueKeyKeeps ==
    ASSUME Inv, NEW actor \in People, NEW as \in {Nobody, Service}, IssueKey(actor, as)
    PROVE  Inv'
<1> USE Distinct DEF number
<1> DEFINE new == [id |-> made + 1, by |-> actor, as |-> as]
<1>1. /\ keys' = keys \cup {new} /\ made' = made + 1 /\ Active(actor)
      /\ as # Nobody => Active(as)
      /\ UNCHANGED <<member, perm, grants, suspended, sess, invites, sock, adding, deleted, stranded, recorded, removals>>
  BY DEF IssueKey, Fresh, ManagerRole, Unexpired
<1>2. /\ made \in Nat /\ new \in [id : Nat, by : People, as : {Nobody, Service}]
      /\ new.id = made + 1 /\ new.by = actor /\ new.as = as
  <2>1. made \in Nat
    BY DEF Inv, TypeOK
  <2>2. new.id = made + 1 /\ new.by = actor /\ new.as = as
    OBVIOUS
  <2>3. new \in [id : Nat, by : People, as : {Nobody, Service}]
    <3>1. made + 1 \in Nat
      BY <2>1
    <3>2. \A x \in Nat, y \in People, z \in {Nobody, Service} :
             [id |-> x, by |-> y, as |-> z] \in [id : Nat, by : People, as : {Nobody, Service}]
      BY Zenon
    <3> QED  BY <3>1, <3>2, Zenon
  <2> QED  BY <2>1, <2>2, <2>3
<1> HIDE DEF new
<1>3. TypeOK'
  <2>1. KindsKept'
    BY <1>1 DEF Inv, TypeOK, KindsKept
  <2> QED  BY <1>1, <1>2, <2>1 DEF Inv, TypeOK
<1>4. Rows'
  BY <1>1, <1>2 DEF Inv, Rows, TypeOK, OwnerRemains, KeyRecoverable, NothingLeftBehind, InvitesStandBehind, Active
<1>5. \A k \in keys : k.id \in Nat /\ k.id <= made
  BY DEF Inv, TypeOK, Sockets, IdsAreSpent
<1>6. /\ sock.key \in Nat /\ sock.key <= made /\ sock.session \in Nat /\ sock.session <= made
  BY DEF Inv, TypeOK, Sockets, IdsAreSpent
<1>7. IdsAreSpent'
  BY <1>1, <1>2, <1>5, <1>6 DEF Inv, TypeOK, Sockets, IdsAreSpent
<1>8. SocketKinds'
  BY <1>1, <1>2, <1>6 DEF Inv, Sockets, SocketKinds
<1>9. CopyIsBehind'
  BY <1>1, <1>2, <1>6 DEF Inv, Sockets, CopyIsBehind, Alive
<1> QED  BY <1>3, <1>4, <1>7, <1>8, <1>9 DEF Inv, Sockets

(* A socket that opens reads the row, and one that closes forgets it. *)
LEMMA SocketStepsKeep ==
    ASSUME Inv, Connect \/ Snapshot \/ Close
    PROVE  Inv'
<1> USE Distinct DEF number
<1>1. /\ UNCHANGED <<member, perm, grants, suspended, keys, invites, sess>>
      /\ UNCHANGED <<adding, deleted, stranded, recorded, removals, made>>
  BY DEF Connect, Snapshot, Close, rows
<1>2. Rows'
  BY <1>1 DEF Inv, Rows, OwnerRemains, KeyRecoverable, NothingLeftBehind, InvitesStandBehind, Active
<1>3. SUFFICES /\ sock' \in [who : Accounts \cup {Nobody}, key : Nat, session : Nat,
                             role : Roles \cup {"none"}, version : Nat, reads : BOOLEAN]
               /\ IdsAreSpent' /\ SocketKinds' /\ CopyIsBehind'
  <2>1. KindsKept'
    BY <1>1 DEF Inv, TypeOK, KindsKept
  <2> QED  BY <1>1, <1>2, <2>1 DEF Inv, TypeOK, Sockets
<1>4. CASE Close
  <2>1. /\ sock'.who = Nobody /\ sock'.key = 0 /\ sock'.session = 0 /\ sock' = NoSock
        /\ sock' \in [who : Accounts \cup {Nobody}, key : Nat, session : Nat,
                      role : Roles \cup {"none"}, version : Nat, reads : BOOLEAN]
    BY <1>4 DEF Close, NoSock, Opened
  <2> QED
    BY <1>1, <2>1 DEF Inv, TypeOK, Sockets, IdsAreSpent, SocketKinds, CopyIsBehind, Alive
<1>5. CASE Snapshot
  <2>1. /\ sock \in [who : Accounts \cup {Nobody}, key : Nat, session : Nat,
                     role : Roles \cup {"none"}, version : Nat, reads : BOOLEAN]
        /\ sock # NoSock /\ Allows(sock) /\ sock' = [sock EXCEPT !.reads = TRUE]
    BY <1>5 DEF Snapshot, Inv, TypeOK
  <2>2. /\ sock'.who = sock.who /\ sock'.key = sock.key /\ sock'.session = sock.session
        /\ sock'.role = sock.role /\ sock'.version = sock.version
        /\ sock' \in [who : Accounts \cup {Nobody}, key : Nat, session : Nat,
                     role : Roles \cup {"none"}, version : Nat, reads : BOOLEAN]
    BY <2>1
  <2>3. IdsAreSpent' /\ SocketKinds'
    BY <1>1, <2>1, <2>2 DEF Inv, Sockets, IdsAreSpent, SocketKinds
  <2>4. CopyIsBehind'
    BY <1>1, <2>1, <2>2 DEF Inv, Sockets, CopyIsBehind, Alive, Allows, MayRead
  <2> QED  BY <2>2, <2>3, <2>4
<1>6. CASE Connect
  <2>1. /\ \A p \in People : sess[p] \in Nat /\ sess[p] <= made
        /\ \A k \in keys : k.id \in Nat /\ k.id <= made /\ k.as \in {Nobody, Service}
        /\ \A k, l \in keys : k.id = l.id => k = l
        /\ \A b \in Accounts : member[b].version \in Nat /\ member[b].role \in Roles \cup {"none"}
        /\ made \in Nat
    BY DEF Inv, TypeOK, MemberRows, Sockets, IdsAreSpent
  <2>2. CASE \E p \in People :
               /\ sess[p] # 0
               /\ sock' = Opened(p, 0, sess[p], member[p].role, member[p].version)
    <3>1. PICK p \in People :
               /\ sess[p] # 0
               /\ sock' = Opened(p, 0, sess[p], member[p].role, member[p].version)
      BY <2>2
    <3>2. /\ sock'.who = p /\ sock'.key = 0 /\ sock'.session = sess[p]
          /\ sock'.version = member[p].version /\ sock'.reads = FALSE
          /\ sock' \in [who : Accounts \cup {Nobody}, key : Nat, session : Nat,
                        role : Roles \cup {"none"}, version : Nat, reads : BOOLEAN]
      BY <2>1, <3>1 DEF Opened
    <3>3. \A k \in keys : k.id # 0
      BY DEF Inv, Sockets, IdsAreSpent
    <3> QED
      BY <1>1, <2>1, <3>1, <3>2, <3>3 DEF IdsAreSpent, SocketKinds, CopyIsBehind, Alive
  <2>3. CASE \E k \in keys : k.as = Nobody /\ sock' = Opened(Nobody, k.id, 0, "none", 0)
    <3>1. PICK k \in keys : k.as = Nobody /\ sock' = Opened(Nobody, k.id, 0, "none", 0)
      BY <2>3
    <3>2. /\ sock'.who = Nobody /\ sock'.key = k.id /\ sock'.session = 0
          /\ sock'.role = "none" /\ sock'.reads = FALSE
          /\ sock' \in [who : Accounts \cup {Nobody}, key : Nat, session : Nat,
                        role : Roles \cup {"none"}, version : Nat, reads : BOOLEAN]
      BY <2>1, <3>1 DEF Opened
    <3>3. k.id # 0
      BY DEF Inv, Sockets, IdsAreSpent
    <3>4. IdsAreSpent'
      BY <1>1, <2>1, <3>2, <3>3 DEF Inv, Sockets, IdsAreSpent
    <3>5. SocketKinds'
      BY <1>1, <2>1, <3>1, <3>2, <3>3 DEF SocketKinds
    <3> QED
      BY <3>2, <3>4, <3>5 DEF CopyIsBehind, Alive
  <2>4. CASE \E k \in keys : k.as = Service
                /\ sock' = Opened(k.as, k.id, 0, "service", member[k.as].version)
    <3>1. PICK k \in keys : k.as = Service
                /\ sock' = Opened(k.as, k.id, 0, "service", member[k.as].version)
      BY <2>4
    <3>2. /\ sock'.who = Service /\ sock'.key = k.id /\ sock'.session = 0
          /\ sock'.role = "service" /\ sock'.version = member[Service].version
          /\ sock'.reads = FALSE
          /\ sock' \in [who : Accounts \cup {Nobody}, key : Nat, session : Nat,
                        role : Roles \cup {"none"}, version : Nat, reads : BOOLEAN]
      BY <2>1, <3>1 DEF Opened, Roles
    <3>3. k.id # 0
      BY DEF Inv, Sockets, IdsAreSpent
    <3>4. IdsAreSpent'
      BY <1>1, <2>1, <3>2, <3>3 DEF Inv, Sockets, IdsAreSpent
    <3>5. SocketKinds'
      BY <1>1, <2>1, <3>1, <3>2, <3>3 DEF SocketKinds
    <3>6. CopyIsBehind'
      BY <1>1, <2>1, <3>2 DEF CopyIsBehind
    <3> QED
      BY <3>2, <3>4, <3>5, <3>6
  <2> QED  BY <1>6, <2>1, <2>2, <2>3, <2>4 DEF Connect
<1> QED  BY <1>4, <1>5, <1>6

-----------------------------------------------------------------------------
(* Every step keeps the invariant. *)
LEMMA NextKeeps == Inv /\ [Next]_vars => Inv'
<1> SUFFICES ASSUME Inv, [Next]_vars PROVE Inv'
  OBVIOUS
<1> USE Distinct
<1> USE DEF number, rows
<1>1. ASSUME NEW actor \in People, NEW a \in Accounts,
             \/ \E role \in Roles, status \in {"active", "disabled"} :
                  UpdateMember(actor, a, role, status)
             \/ RemoveMember(actor, a)
      PROVE  Inv'
  BY <1>1, UpdateMemberKeeps, RemoveMemberKeeps
<1>2. CASE ExpireService \/ DeadlinePasses
  BY <1>2, ExpireServiceKeeps, DeadlineKeeps
<1>3. ASSUME NEW p \in People, Suspend(p) \/ SignIn(p) PROVE Inv'
  <2>1. CASE Suspend(p)
    BY <2>1, AsideKeeps DEF Suspend, Inv, TypeOK
  <2> QED  BY <1>3, <2>1, SignInKeeps
<1>4. ASSUME NEW actor \in People, NEW email \in People \cup {Nobody},
             NEW role \in Roles, NEW provisional \in BOOLEAN,
             NewInvitation(actor, email, role, provisional)
      PROVE  Inv'
  BY <1>4, InvitationsKeep DEF NewInvitation
<1>5. ASSUME NEW actor \in People, NEW i \in invites,
             RevokeInvitation(actor, i) \/ RegenerateInvitation(actor, i)
      PROVE  Inv'
  <2>1. i.role \in Roles /\ i.email \in People \cup {Nobody} /\ Manages(actor, i.role)
    BY <1>5 DEF Inv, TypeOK, RevokeInvitation, RegenerateInvitation
  <2>2. invites' \subseteq invites \cup {Invite(actor, i.email, i.role, FALSE)}
    BY <1>5 DEF RevokeInvitation, RegenerateInvitation
  <2>3. UNCHANGED <<member, perm, grants, suspended, keys, sess, sock, adding, number, removals, made>>
    BY <1>5 DEF RevokeInvitation, RegenerateInvitation
  <2> QED  BY <2>1, <2>2, <2>3, InvitationsKeep
<1>6. ASSUME NEW a \in Accounts, NEW i \in invites, Join(a, i) PROVE Inv'
  BY <1>6, JoinKeeps
<1>7. ASSUME NEW actor \in People, NEW a \in Accounts, NEW read \in BOOLEAN,
             SetDevicePermission(actor, a, read)
      PROVE  Inv'
  BY <1>7, SetDevicePermissionKeeps
<1>8. ASSUME NEW a \in Accounts, GrantAdd(a) \/ RevokeGrant(a) PROVE Inv'
  <2>1. CASE GrantAdd(a)
    BY <2>1, AsideKeeps DEF GrantAdd, Inv, TypeOK
  <2> QED  BY <1>8, <2>1, RevokeGrantKeeps
<1>9. CASE PutGrant
  BY <1>9, PutGrantKeeps
<1>10. ASSUME NEW actor \in People, NEW as \in {Nobody, Service}, IssueKey(actor, as)
       PROVE  Inv'
  BY <1>10, IssueKeyKeeps
<1>11. ASSUME NEW k \in keys, RevokeKey(k) PROVE Inv'
  BY <1>11, AsideKeeps DEF RevokeKey, Inv, TypeOK
<1>12. CASE Quarantine \/ Recover \/ Record
  <2>1. /\ UNCHANGED <<member, perm, grants, suspended, keys, invites, sess, sock,
                       adding, stranded, removals, made>>
        /\ deleted' \in BOOLEAN /\ recorded' \in BOOLEAN
    BY <1>12 DEF Quarantine, Recover, Record, Inv, TypeOK
  <2> QED  BY <2>1, AsideKeeps DEF Inv, TypeOK
<1>13. CASE Connect \/ Snapshot \/ Close
  BY <1>13, SocketStepsKeep
<1>14. CASE UNCHANGED vars
  BY <1>14, AsideKeeps DEF vars, Inv, TypeOK
<1> QED
  BY <1>1, <1>2, <1>3, <1>4, <1>5, <1>6, <1>7, <1>8, <1>9, <1>10, <1>11, <1>12,
     <1>13, <1>14 DEF Next

(* The rows and the sockets are in order, whatever managers, members, keys
   and the platform do, and in whatever order they do it. *)
THEOREM TeamInvariant == Spec => []Inv
<1> QED  BY InitInv, NextKeeps, PTL DEF Spec

(* members.go, invitations.go, apikeys.go, keys.go and access.go keep, for any
   number of accounts: an owner remains, the archive key stays recoverable, a
   removal leaves nothing behind, invitations stay within their maker's
   rights, and sockets act only on what the rows say now. *)
THEOREM TeamIsSafe == Spec => []TeamSafe
<1>1. Inv => TeamSafe
  BY SocketsFollow DEF Inv, Rows, Sockets, TeamSafe
<1> QED  BY <1>1, TeamInvariant, PTL
=============================================================================
