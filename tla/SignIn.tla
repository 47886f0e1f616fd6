------------------------------- MODULE SignIn -------------------------------
(***************************************************************************)
(* Sign-in through the identity provider (authapi/platform.go and          *)
(* store/platform.go): what becomes of a person the provider names.  A     *)
(* linked account gets a session and the wrap its page opens the account   *)
(* key with; anyone else gets a ticket, for a new account, for a link to   *)
(* an account with a password, or for the wrap of a new epoch.             *)
(*                                                                         *)
(* A handler's reads, the provider's answer and its transaction are steps  *)
(* of their own: tabs race each other, the person's address and keys       *)
(* change at the provider, and the server stops between any two.  A        *)
(* password is its generation, and a product key is 1, or 2 for one the    *)
(* provider should not present.  The sessions themselves are Sessions',    *)
(* and the sign-ups' subscription is Membership's.                         *)
(***************************************************************************)
EXTENDS Naturals, FiniteSets

CONSTANTS
    Subs,        \* people at the provider
    Locals,      \* accounts with a password, of now or to come
    Emails,      \* addresses
    Tabs,        \* requests at once
    MaxEpoch,    \* epochs of a product key
    MaxTickets,  \* tickets of a behaviour
    MaxAttempts, \* wrong passwords a ticket may try (5 in the code)
    MaxTrouble   \* changes around the sign-ins in a behaviour

VARIABLES
    person,   \* external: a person's verified address and key at the provider
    pin,      \* platform_key_pins
    user,     \* users
    link,     \* platform_identities
    wrap,     \* platform_wraps
    ticket,   \* platform_login_tickets
    tab,      \* requests under way
    mode,     \* WS_LOCAL_LOGIN
    observed, \* contract_state.events_from is set
    taken,    \* people whose workspace's id at the platform a tenant here has
    trouble,  \* changes so far
    opened,   \* history: sessions started through the provider
    verified  \* history: the addresses the provider verified for each person

vars == <<person, pin, user, link, wrap, ticket, tab, mode, observed, taken, trouble, opened, verified>>
tables == <<user, link, wrap, ticket>>
around == <<person, mode, observed, taken, trouble, verified>>

Users == Subs \union Locals   \* a new account's id is its sub
Epochs == 1..MaxEpoch
Tickets == 1..MaxTickets

Nobody == [st |-> "none", src |-> "local", email |-> "", pw |-> 0, home |-> "none"]
Local(e) == [st |-> "active", src |-> "local", email |-> e, pw |-> 1, home |-> "own"]
NoLink == [who |-> "", from |-> "", email |-> ""]
NoWrap == [of |-> "", sub |-> "", key |-> 0]
NoTicket == [st |-> "none", kind |-> "none", sub |-> "", epoch |-> 0, key |-> 0, email |-> "",
             who |-> "", bad |-> 0]
Closed == [pc |-> "closed"]

Init ==
    /\ person \in [Subs -> [email : Emails, epoch : {1}, key : {1}]]
    /\ pin = [s \in Subs |-> [e \in Epochs |-> 0]]
    /\ user \in {[u \in Users |-> IF u \in DOMAIN f THEN Local(f[u]) ELSE Nobody] :
                   f \in UNION {[D -> Emails] : D \in SUBSET Locals}}
    /\ \A u, v \in Users : user[u].st # "none" /\ user[u].email = user[v].email => u = v
    /\ link = [s \in Subs |-> NoLink]
    /\ wrap = [u \in Users |-> [e \in Epochs |-> NoWrap]]
    /\ ticket = [n \in Tickets |-> NoTicket]
    /\ tab = [t \in Tabs |-> Closed]
    /\ mode \in {"on", "link_only", "off"}
    /\ observed \in BOOLEAN
    /\ taken \in SUBSET Subs
    /\ trouble = 0 /\ opened = {}
    /\ verified = [s \in Subs |-> {person[s].email}]

At(t, pc) == tab[t].pc = pc
Go(t, next) == tab' = [tab EXCEPT ![t] = next]
Close(t) == Go(t, Closed)
To(t, pc) == Go(t, [tab[t] EXCEPT !.pc = pc])

Here(u) == user[u].st # "none"
Free(e) == \A u \in Users : user[u].email # e
Linked(s) == link[s] # NoLink
Owned(u) == \E s \in Subs : link[s].who = u

(* localAllowed: of what a link needs, and of the rest.                    *)
LinkAllowed == mode # "off"
LocalAllowed == mode = "on"

(* readTicket without and with spend: live, of one of the kinds, and with  *)
(* the key that is pinned.                                                 *)
Reads(n, kinds) ==
    /\ ticket[n].st = "live" /\ ticket[n].kind \in kinds
    /\ pin[ticket[n].sub][ticket[n].epoch] = ticket[n].key
Spent(n) == [ticket EXCEPT ![n].st = "used"]

-----------------------------------------------------------------------------
(* platformSession.                                                        *)

(* Client.Login with PlatformPins.InsertPin: the provider's answer, whose  *)
(* key is pinned the first time its epoch is seen.                         *)
InsertPin(s, e, k) == IF pin[s][e] = 0 THEN [pin EXCEPT ![s][e] = k] ELSE pin

(* Another key than the pinned one is refused (accountKeyChanged).         *)
Pinned(s, e, k) == pin'[s][e] = k

Login(t, s) ==
    /\ At(t, "closed")
    /\ LET p == person[s] IN
         /\ pin' = InsertPin(s, p.epoch, p.key)
         /\ IF Pinned(s, p.epoch, p.key)
              THEN Go(t, [pc |-> "known", sub |-> s, epoch |-> p.epoch, key |-> p.key, email |-> p.email])
              ELSE Close(t)
    /\ UNCHANGED <<tables, around, opened>>

(* PlatformIdentity, and what the rest of the handler remembers of it.     *)
Identify(t) ==
    /\ At(t, "known")
    /\ LET s == tab[t].sub IN
         Go(t, IF Linked(s) THEN [pc |-> "linked", sub |-> s, epoch |-> tab[t].epoch, key |-> tab[t].key,
                                  email |-> tab[t].email, row |-> link[s]]
                            ELSE [tab[t] EXCEPT !.pc = "unlinked"])
    /\ UNCHANGED <<tables, around, pin, opened>>

(* UnlinkedLegacyAccount: an active, unlinked account with a password has  *)
(* the address.                                                            *)
Unlinked(e) == \E u \in Users : /\ user[u].st = "active" /\ user[u].src = "local"
                                /\ user[u].email = e /\ ~Owned(u)

(* platformUnlinked up to its ticket.                                      *)
PlatformUnlinked(t) ==
    /\ At(t, "unlinked")
    /\ LET legacy == Unlinked(tab[t].email) IN
         Go(t, IF legacy /\ ~LinkAllowed THEN Closed
               ELSE [pc |-> "ticket", kind |-> IF legacy THEN "link" ELSE "new", who |-> "",
                     sub |-> tab[t].sub, epoch |-> tab[t].epoch, key |-> tab[t].key, email |-> tab[t].email])
    /\ UNCHANGED <<tables, around, pin, opened>>

(* CreatePlatformTicket.                                                   *)
CreateTicket(t) ==
    /\ At(t, "ticket")
    /\ \E n \in Tickets :
         /\ ticket[n].st = "none" /\ \A m \in Tickets : m < n => ticket[m].st # "none"
         /\ LET b == tab[t] IN
              ticket' = [ticket EXCEPT ![n] = [st |-> "live", kind |-> b.kind, sub |-> b.sub, epoch |-> b.epoch,
                                               key |-> b.key, email |-> b.email, who |-> b.who, bad |-> 0]]
    /\ Close(t)
    /\ UNCHANGED <<around, pin, user, link, wrap, opened>>

(* PlatformAccount, then SyncPlatformEmail: the link takes the address     *)
(* when it is not the one read,                                            *)
SyncLink(t) ==
    /\ At(t, "linked")
    /\ IF user[tab[t].row.who].st # "active" THEN Close(t) /\ UNCHANGED link
       ELSE /\ link' = IF tab[t].email = tab[t].row.email THEN link
                       ELSE [link EXCEPT ![tab[t].sub].email = tab[t].email]
            /\ To(t, "synced")
    /\ UNCHANGED <<around, pin, user, wrap, ticket, opened>>

(* and an account created through the provider takes it too, unless        *)
(* another holds it.                                                       *)
Follows(row, e) == row.from = "new" /\ Free(e)

SyncUser(t) ==
    /\ At(t, "synced")
    /\ LET b == tab[t] IN
         user' = IF Follows(b.row, b.email) THEN [user EXCEPT ![b.row.who].email = b.email] ELSE user
    /\ To(t, "open")
    /\ UNCHANGED <<around, pin, link, wrap, ticket, opened>>

(* A session is answered with the account's wrap for the page's epoch.     *)
Open(who, s, e) == opened' = opened \union {[who |-> who, sub |-> s, epoch |-> e]}

(* PlatformWrap: none for this epoch is a rewrap ticket; else              *)
(* platformIssue.                                                          *)
PlatformWrap(t) ==
    /\ At(t, "open")
    /\ LET b == tab[t] IN
         IF wrap[b.row.who][b.epoch] = NoWrap
           THEN /\ Go(t, [pc |-> "ticket", kind |-> "rewrap", who |-> b.row.who, sub |-> b.sub,
                          epoch |-> b.epoch, key |-> b.key, email |-> b.email])
                /\ UNCHANGED opened
           ELSE Close(t) /\ Open(b.row.who, b.sub, b.epoch)
    /\ UNCHANGED <<tables, around, pin>>

-----------------------------------------------------------------------------
(* A new account.                                                          *)

(* platformAccount and platformHome: without the contract Wappie chooses   *)
(* the home; with it the ticket is read and the platform asked, which may  *)
(* have no answer.                                                         *)
PlatformAccount(t, n) ==
    /\ At(t, "closed") /\ ticket[n].st # "none"
    /\ IF ~observed THEN Go(t, [pc |-> "signup", n |-> n, home |-> "own"])
       ELSE /\ Reads(n, {"new"})
            /\ Go(t, [pc |-> "signup", n |-> n, home |-> "platform"])
    /\ UNCHANGED <<tables, around, pin, opened>>

(* Mutant: the contract's observation is not looked at again.              *)
HomeAsRead(s, home) == home = "platform" => s \notin taken

(* The home the transaction may still choose.                              *)
HomeStands(s, home) == IF home = "platform" THEN s \notin taken ELSE ~observed

(* SignupPlatform: every refusal leaves the ticket unspent, and the        *)
(* platform's document may always be one that cannot be stored.            *)
Signs(n, home) ==
    /\ Reads(n, {"new"})
    /\ ~Linked(ticket[n].sub) /\ ~Here(ticket[n].sub)
    /\ HomeStands(ticket[n].sub, home)
    /\ Free(ticket[n].email)

SignupPlatform(t) ==
    /\ At(t, "signup")
    /\ LET n == tab[t].n
           k == ticket[n]
           s == k.sub IN
         \/ /\ Signs(n, tab[t].home)
            /\ ticket' = Spent(n)
            /\ user' = [user EXCEPT ![s] = [st |-> "active", src |-> "platform", email |-> k.email, pw |-> 0,
                                            home |-> tab[t].home]]
            /\ link' = [link EXCEPT ![s] = [who |-> s, from |-> "new", email |-> k.email]]
            /\ wrap' = [wrap EXCEPT ![s][k.epoch] = [of |-> s, sub |-> s, key |-> k.key]]
            /\ Open(s, s, k.epoch)
         \/ /\ ~Signs(n, tab[t].home) \/ tab[t].home = "platform"
            /\ UNCHANGED <<tables, opened>>
    /\ Close(t)
    /\ UNCHANGED <<around, pin>>

-----------------------------------------------------------------------------
(* Linking an account that has a password.                                 *)

(* verifyLegacy: the password of u, right or wrong; right only while u is  *)
(* active and has one.                                                     *)
Verifies(u) == user[u].st = "active" /\ user[u].pw > 0

(* PrepareLegacyLink changes nothing but, for a wrong proof, an attempt.   *)
LinkPrepare(t, n) ==
    /\ At(t, "closed") /\ LinkAllowed
    /\ Reads(n, {"new", "link"})
    /\ Go(t, [pc |-> "fail", n |-> n])
    /\ UNCHANGED <<tables, around, pin, opened>>

(* platformLink: a live ticket, and the proof of u's password.             *)
PlatformLink(t, n, u) ==
    /\ At(t, "closed") /\ LinkAllowed
    /\ Reads(n, {"new", "link"})
    /\ Verifies(u)
    /\ Go(t, [pc |-> "verified", n |-> n, who |-> u, proof |-> user[u].pw])
    /\ UNCHANGED <<tables, around, pin, opened>>

(* verifyLegacy's second read: the hash to compare with later.             *)
ReadStored(t) ==
    /\ At(t, "verified")
    /\ Go(t, [pc |-> "link", n |-> tab[t].n, who |-> tab[t].who, proof |-> tab[t].proof,
              stored |-> user[tab[t].who].pw])
    /\ UNCHANGED <<tables, around, pin, opened>>

(* LinkLegacy's reads under the account's lock.                            *)
SameHash(u, stored) == user[u].st = "active" /\ user[u].pw = stored
Unbound(s, u) == ~Linked(s) /\ ~Owned(u)

LinkLegacy(t) ==
    /\ At(t, "link")
    /\ LET n == tab[t].n
           u == tab[t].who
           k == ticket[n]
           s == k.sub
           proved == SameHash(u, tab[t].stored)
           links == proved /\ user[u].src = "local" /\ Unbound(s, u) IN
         \/ /\ Reads(n, {"new", "link"}) /\ links
            /\ ticket' = Spent(n)
            /\ link' = [link EXCEPT ![s] = [who |-> u, from |-> "legacy", email |-> k.email]]
            /\ wrap' = [wrap EXCEPT ![u][k.epoch] = [of |-> u, sub |-> s, key |-> k.key]]
            /\ user' = [user EXCEPT ![u].src = "platform"]
            /\ Open(u, s, k.epoch)
            /\ Close(t)
         \/ /\ ~(Reads(n, {"new", "link"}) /\ links)
            /\ IF Reads(n, {"new", "link"}) /\ ~proved THEN Go(t, [pc |-> "fail", n |-> n]) ELSE Close(t)
            /\ UNCHANGED <<tables, opened>>
    /\ UNCHANGED <<around, pin>>

(* FailPlatformTicket: the last attempt spends the ticket.                 *)
Failed(n) == [ticket EXCEPT ![n].bad = @ + 1, ![n].st = IF ticket[n].bad + 1 >= MaxAttempts THEN "used" ELSE @]

FailTicket(t) ==
    /\ At(t, "fail")
    /\ ticket' = IF ticket[tab[t].n].st \in {"live", "expired"} THEN Failed(tab[t].n) ELSE ticket
    /\ Close(t)
    /\ UNCHANGED <<around, pin, user, link, wrap, opened>>

-----------------------------------------------------------------------------
(* A new epoch.                                                            *)

(* A browser is signed in to u, here or through the provider.              *)
SignedIn(u) == user[u].st = "active" /\ (user[u].pw > 0 \/ \E o \in opened : o.who = u)

(* Mutant: any account may spend a rewrap ticket.                          *)
ForAnyone(n, u) == Here(u) /\ ticket[n].who \in Users

(* AddPlatformWrap, for the ticket's account only; the page wraps the key  *)
(* of the account whose session it is, under the product key its ticket    *)
(* came with.                                                              *)
ForIts(n, u) == ticket[n].who = u

PlatformRewrap(n, u) ==
    /\ SignedIn(u)
    /\ Reads(n, {"rewrap"}) /\ ForIts(n, u)
    /\ wrap[u][ticket[n].epoch] = NoWrap
    /\ ticket' = Spent(n)
    /\ wrap' = [wrap EXCEPT ![u][ticket[n].epoch] = [of |-> u, sub |-> ticket[n].sub, key |-> ticket[n].key]]
    /\ UNCHANGED <<around, pin, user, link, tab, opened>>

-----------------------------------------------------------------------------
(* Around the sign-ins.                                                    *)

(* Five minutes pass.                                                      *)
Expire(n) ==
    /\ ticket[n].st = "live"
    /\ ticket' = [ticket EXCEPT ![n].st = "expired"]
    /\ UNCHANGED <<around, pin, user, link, wrap, tab, opened>>

(* At the provider: another verified address, a new epoch, or another key  *)
(* for an epoch.                                                           *)
ChangePerson(s) ==
    /\ \/ \E e \in Emails : person' = [person EXCEPT ![s].email = e]
       \/ person[s].epoch < MaxEpoch /\ person' = [person EXCEPT ![s].epoch = @ + 1, ![s].key = 1]
       \/ person' = [person EXCEPT ![s].key = 3 - @]
    /\ verified' = [verified EXCEPT ![s] = @ \union {person'[s].email}]
    /\ UNCHANGED <<user, mode, observed>>

(* Rekey, and an account made by Signup.                                   *)
Rekey(u) ==
    /\ LocalAllowed /\ user[u].st = "active" /\ user[u].pw > 0
    /\ user' = [user EXCEPT ![u].pw = @ + 1]
    /\ UNCHANGED <<person, mode, observed, verified>>
Signup(u) ==
    /\ LocalAllowed /\ ~Here(u)
    /\ \E e \in Emails : Free(e) /\ user' = [user EXCEPT ![u] = Local(e)]
    /\ UNCHANGED <<person, mode, observed, verified>>

(* An operator disables an account, or turns the contract on.              *)
Disable(u) ==
    /\ user[u].st = "active"
    /\ user' = [user EXCEPT ![u].st = "disabled"]
    /\ UNCHANGED <<person, mode, observed, verified>>
Observe ==
    /\ ~observed /\ observed' = TRUE
    /\ UNCHANGED <<user, person, mode, verified>>

Trouble ==
    /\ trouble < MaxTrouble /\ trouble' = trouble + 1
    /\ \/ \E s \in Subs : ChangePerson(s)
       \/ \E u \in Locals : Rekey(u) \/ Signup(u)
       \/ \E u \in Users : Disable(u)
       \/ Observe
    /\ UNCHANGED <<pin, link, wrap, ticket, tab, taken, opened>>

(* The server stops, and starts with what its operator set.                *)
Restart ==
    /\ trouble < MaxTrouble /\ trouble' = trouble + 1
    /\ tab' = [t \in Tabs |-> Closed]
    /\ mode' \in {"on", "link_only", "off"}
    /\ UNCHANGED <<tables, person, observed, taken, verified, pin, opened>>

Next ==
    \/ \E t \in Tabs :
         \/ \E s \in Subs : Login(t, s)
         \/ Identify(t) \/ PlatformUnlinked(t) \/ CreateTicket(t)
         \/ SyncLink(t) \/ SyncUser(t) \/ PlatformWrap(t)
         \/ SignupPlatform(t) \/ ReadStored(t) \/ LinkLegacy(t) \/ FailTicket(t)
         \/ \E n \in Tickets : \/ PlatformAccount(t, n) \/ LinkPrepare(t, n)
                               \/ \E u \in Users : PlatformLink(t, n, u)
    \/ \E n \in Tickets : Expire(n) \/ \E u \in Users : PlatformRewrap(n, u)
    \/ Trouble \/ Restart

Spec == Init /\ [][Next]_vars

-----------------------------------------------------------------------------
(* The state's types.                                                      *)
TypeOK ==
    /\ pin \in [Subs -> [Epochs -> 0..2]]
    /\ \A u \in Users : /\ user[u].st \in {"none", "active", "disabled"}
                        /\ user[u].src \in {"local", "platform"}
                        /\ user[u].email \in Emails \union {""}
    /\ \A s \in Subs : link[s] # NoLink => link[s].who \in Users
    /\ \A n \in Tickets : ticket[n].st \in {"none", "live", "used", "expired"} /\ ticket[n].bad \in 0..MaxAttempts
    /\ opened \subseteq [who : Users, sub : Subs, epoch : Epochs]

(* An account signs in through the provider exactly when one person is     *)
(* linked to it, and then some wrap opens its key: no race, no crash and   *)
(* no refused step leaves an account without a way in, or with two owners. *)
OneWayIn ==
    \A u \in Users :
        /\ Cardinality({s \in Subs : link[s].who = u}) <= 1
        /\ user[u].src = "platform" <=> Owned(u)
        /\ (\E e \in Epochs : wrap[u][e] # NoWrap) <=> Owned(u)

(* A wrap opens, with the key pinned for its person and its epoch, into    *)
(* the key of the account it is stored with.                               *)
WrapsOpen ==
    \A u \in Users, e \in Epochs : wrap[u][e] # NoWrap =>
        /\ wrap[u][e].of = u
        /\ link[wrap[u][e].sub].who = u
        /\ wrap[u][e].key = pin[wrap[u][e].sub][e]

(* A session is only ever of the account its person is linked to, and is   *)
(* answered with a wrap that person's page opens.                          *)
SessionsAreTheirs ==
    \A o \in opened :
        /\ link[o.sub].who = o.who
        /\ wrap[o.who][o.epoch].sub = o.sub

(* A ticket that may still be used was issued on the pinned key, and has   *)
(* attempts left.                                                          *)
TicketsAreGood ==
    \A n \in Tickets : ticket[n].st = "live" =>
        /\ ticket[n].key = pin[ticket[n].sub][ticket[n].epoch]
        /\ ticket[n].bad < MaxAttempts

(* No two accounts have one address, and an account created through the    *)
(* provider has only an address the provider verified for its person.      *)
AddressesAreTheirs ==
    /\ \A u, v \in Users : Here(u) /\ Here(v) /\ user[u].email = user[v].email => u = v
    /\ \A s \in Subs : Here(s) => user[s].email \in verified[s]
    /\ \A s \in Subs : Linked(s) => link[s].email \in verified[s]

(* A link never changes hands, and a wrap, once stored, is never replaced: *)
(* another key would lock its owner out.                                   *)
LinksStay ==
    /\ \A s \in Subs : Linked(s) => link'[s].who = link[s].who /\ link'[s].from = link[s].from
    /\ \A u \in Users, e \in Epochs : wrap[u][e] # NoWrap => wrap'[u][e] = wrap[u][e]

(* What a step links, creates or wraps, one ticket of that person pays     *)
(* for, in the same transaction: two tabs with one ticket make one.        *)
PaidByTicket ==
    (link' # link \/ wrap' # wrap) =>
        \/ \E n \in Tickets : /\ ticket[n].st = "live" /\ ticket'[n].st = "used"
                              /\ \A s \in Subs : link'[s].who # link[s].who => s = ticket[n].sub
        \/ wrap' = wrap /\ \A s \in Subs : link'[s].who = link[s].who

(* Wappie chooses the home of no account once the contract was observed,   *)
(* whatever a sign-up read before; and never one a tenant has already.     *)
HomesAreThePlatforms ==
    \A s \in Subs : user'[s].st # "none" /\ ~Here(s) =>
        /\ observed => user'[s].home = "platform"
        /\ user'[s].home = "platform" => s \notin taken

(* What links an account.                                                  *)
Links(u, t) == /\ user'[u].src = "platform" /\ user[u].src = "local"
               /\ At(t, "link") /\ tab[t].who = u /\ tab'[t] # tab[t]

(* No password change slips between the read of an account's hash and its  *)
(* link.                                                                   *)
LinkedUnchanged ==
    \A u \in Locals, t \in Tabs : Links(u, t) => tab[t].stored = user[u].pw

(* LinkLegacy re-reads "the hash the proof was checked against unchanged"  *)
(* (store/platform.go:708): an account is linked by a proof of the         *)
(* password it has.                                                        *)
LinkedByItsPassword ==
    [][\A u \in Locals, t \in Tabs : Links(u, t) => tab[t].proof = user[u].pw]_vars

(* Who signs in through the provider reaches their own account and its key,
   whatever their tabs, the provider and the operator do at the same time. *)
SignInSafe == TypeOK /\ OneWayIn /\ WrapsOpen /\ SessionsAreTheirs /\ TicketsAreGood /\ AddressesAreTheirs

(* What was linked stays linked, and is linked once. *)
SignInSteps == [][LinksStay /\ PaidByTicket /\ HomesAreThePlatforms /\ LinkedUnchanged]_vars
=============================================================================
