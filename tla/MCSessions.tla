----------------------------- MODULE MCSessions -----------------------------
(* Sessions for TLC: requests and passkeys are interchangeable; and SignIn,
   in behaviours of its own: what they share is the account's row, of which
   each has what it reads. *)
EXTENDS Sessions, TLC

CONSTANTS Subs, Locals, Emails, Tabs, MaxEpoch, MaxTickets, MaxAttempts, MaxTrouble

VARIABLES part, person, pin, user, link, wrap, ticket, tab, mode, observed, taken,
          trouble, opened, verified

svars == <<person, pin, user, link, wrap, ticket, tab, mode, observed, taken, trouble,
           opened, verified>>

P == INSTANCE SignIn

(* The two parts name their requests alike, and their passkeys and people. *)
Symmetry == Permutations(Tasks \union Tabs) \union Permutations(KeyIDs \union Subs)
              \union Permutations(Emails)

(* What happens to the account in one behaviour beside sign-ins and switches. *)
Happened ==
    epoch + starts + Cardinality({k \in KeyIDs : key[k].st # "none"})
      + (IF member THEN 0 ELSE 1)
      + Cardinality({s \in 1..MaxSessions : sess[s].st \in {"revoked", "expired"}})
Busy == Cardinality({t \in Tasks : task[t].op # "idle"})

(* Through the provider: the people seen, the tickets issued and the changes
   around them.  Two people race where nothing changes; a change meets two
   requests of one ticket, or one request of two. *)
Seen == Cardinality({s \in Subs : pin[s][1] # 0})
Issued == Cardinality({n \in 1..MaxTickets : ticket[n].st # "none"})

Underway == Cardinality({t \in Tabs : tab[t].pc # "closed"})

FewSignIns == part = "signin" =>
    /\ Seen + Issued + trouble <= 4
    /\ trouble > 0 => Seen < 2 /\ (Issued < 2 \/ Underway < 2)

Few == Happened + Busy <= 3 /\ FewSignIns

(* SignIn's variables where it does not run. *)
Off == /\ person = 0 /\ pin = 0 /\ user = 0 /\ link = 0 /\ wrap = 0 /\ ticket = 0 /\ tab = 0
       /\ mode = 0 /\ observed = 0 /\ taken = 0 /\ trouble = 0 /\ opened = 0 /\ verified = 0

MCInit == /\ Init
          /\ \/ part = "sessions" /\ Off
             \/ /\ part = "signin" /\ ~acc.platform
                /\ P!Init
                /\ mode = "on" /\ (taken = {} \/ (observed /\ Cardinality(taken) = 1))

MCNext == \/ part = "sessions" /\ Next /\ UNCHANGED <<part, svars>>
          \/ part = "signin" /\ P!Next /\ UNCHANGED <<part, vars>>

MCSpec == MCInit /\ [][MCNext]_<<part, vars, svars>>

(* Who signs in through the provider reaches their own account and its key,
   whatever their tabs, the provider and the operator do at the same time. *)
SignInSafe == part = "signin" => P!SignInSafe

(* What was linked stays linked, and is linked once, by a ticket of the person
   and the password read; and a home is the platform's once it chooses them. *)
SignInSteps ==
    [][part = "signin" =>
         P!LinksStay /\ P!PaidByTicket /\ P!HomesAreThePlatforms /\ P!LinkedUnchanged]_svars
=============================================================================
