---------------------------------- MODULE AI ----------------------------------
(***************************************************************************)
(* A workspace's AI authorizations (internal/store ai*.go, mcp.go,          *)
(* mcp_content.go; internal/mcpauth ai*.go; internal/aiapi): each person's   *)
(* keychain, the authorizations that name its items, what narrows them, who  *)
(* may ask for a function on a number, the results and the usage.            *)
(*                                                                          *)
(* The attested reader is external: it holds what it was handed and learns   *)
(* of an end late, so it may run, store and bill after one.  A handler's     *)
(* transactions are steps of their own; service accounts and API keys are    *)
(* Assistants'.  Models, labels, budgets and amounts are left out.           *)
(***************************************************************************)
EXTENDS Naturals, FiniteSets

CONSTANTS
    People, Tasks,
    Keys,          \* ids of keychain items, as browsers choose them
    Numbers, Messages, Features, Providers,
    NumberOf,      \* message -> its number
    Fits,          \* message -> the functions its type takes (AIFeatureFits)
    Once,          \* messages sent to be viewed once
    Configs,       \* the configurations consoles seal
    None,
    MaxAuths,      \* bound: authorizations, in the order of their consents
    MaxKeys,       \* AIKeychainMax
    MaxUses,       \* bound: increments of one counter, results of one message
    MaxTroubles    \* bound: lost answers, crashes and the reader's refusals

Auths == 1..MaxAuths
Who == {"self", "readers", "console"}

AIBounds ==
    /\ {MaxAuths, MaxKeys, MaxUses, MaxTroubles} \subseteq Nat
    /\ NumberOf \in [Messages -> Numbers] /\ Fits \in [Messages -> SUBSET Features]
    /\ Once \subseteq Messages /\ IsFiniteSet(Keys)
    /\ None \notin Providers \union Keys \union Who \union People

VARIABLES
    person,    \* who is a manager, a member or gone, and who reads the numbers
    allowed,   \* aiAllowed: the workspace may have AI now
    off,       \* functions and providers switched off everywhere
    prepared,  \* people the reader attested a pending request for
    key,       \* ai_keychain
    auth,      \* mcp_connections of kind 'ai'
    number,    \* "here", "deleted" until its purge or recovery, "moved", "purged"
    derived,   \* ai_derived: message, function -> the result stored
    usage,     \* ai_usage_daily: authorization, key -> increments
    task,      \* requests under way, and the reader's jobs
    troubles,
    emptied    \* ghost: <<authorization, number>> revoked with its results

rows == <<key, auth, derived, usage, emptied>>
world == <<person, allowed, off, number>>
vars == <<rows, world, prepared, task, troubles>>

-----------------------------------------------------------------------------
(* The rows.                                                                *)

LiveStates == {"pending", "active", "reseal"}
Live(a) == auth[a].st \in LiveStates
NoAuth == [st |-> "none", by |-> None, past |-> FALSE, cfg |-> None,
           paused |-> FALSE, off |-> {}, alert |-> FALSE]
NoResult == [n |-> 0, by |-> 0, late |-> FALSE]
Idle == [op |-> "idle", u |-> None, a |-> 0, cfg |-> None, m |-> None, f |-> None,
         redo |-> FALSE, origin |-> "console"]

At(t, op) == task[t].op = op
Goto(t, op) == task' = [task EXCEPT ![t].op = op]
Finish(t) == task' = [task EXCEPT ![t] = Idle]
Smooth == troubles' = troubles
Trouble == troubles < MaxTroubles /\ troubles' = troubles + 1

Member(u) == person[u].role # "gone"
Manager(u) == person[u].role = "manager"
(* The creator, an owner or an admin. *)
MayManage(u, a) == Member(u) /\ (auth[a].by = u \/ Manager(u))
(* devicePermissionTx: a deleted or moved number is nobody's to read. *)
Reads(u, n) == Member(u) /\ person[u].reads /\ number[n] = "here"

-----------------------------------------------------------------------------
(* The keychain.                                                            *)

Held(u) == {k \in Keys : key[k].st = "live" /\ key[k].by = u}

(* Under the workspace's row lock; an id is taken once, by anyone. *)
AddKeychainItem(u, k, p) ==
    /\ Member(u) /\ Cardinality(Held(u)) < MaxKeys
    /\ key[k].st = "none"
    /\ key' = [key EXCEPT ![k] = [st |-> "live", by |-> u, provider |-> p]]
    /\ UNCHANGED <<world, auth, derived, usage, emptied, prepared, task, troubles>>

Names(a, k) == \E p \in Providers : auth[a].cfg.keys[p] = k
EndAll(E) == [a \in Auths |-> IF a \in E THEN [auth[a] EXCEPT !.st = "ended"] ELSE auth[a]]

(* The item's envelope is emptied and every live authorization that names it *)
(* ends, in one transaction; its reader is told afterwards.                  *)
DeleteKeychainItem(u, k) ==
    /\ Member(u) /\ k \in Held(u)
    /\ key' = [key EXCEPT ![k].st = "deleted"]
    /\ auth' = EndAll({a \in Auths : Live(a) /\ Names(a, k)})
    /\ UNCHANGED <<world, derived, usage, emptied, prepared, task, troubles>>

(* SettleAI: a deleted item's row after 30 days, a day's counters after 400. *)
SettleAI ==
    \/ \E k \in Keys : /\ key[k].st = "deleted" /\ key' = [key EXCEPT ![k].st = "settled"]
                       /\ usage' = usage
    \/ \E a \in Auths, k \in Keys : /\ usage[a][k] > 0
                                    /\ usage' = [usage EXCEPT ![a][k] = 0]
                                    /\ key' = key
SettlePass ==
    SettleAI /\ UNCHANGED <<world, auth, derived, emptied, prepared, task, troubles>>

-----------------------------------------------------------------------------
(* Configurations.                                                          *)

(* ParseAIConfig: keys for exactly the providers the functions use, and each *)
(* number's functions among the configuration's.                             *)
WellFormed(c) ==
    /\ c.on # {} /\ \E f \in Features : c.fn[f] # None
    /\ \A p \in Providers : c.keys[p] # None <=> \E f \in Features : c.fn[f] = p
    /\ \A n \in Numbers, f \in Features :
         c.who[n][f] # None => n \in c.on /\ c.fn[f] # None

(* FunctionsOff: a function it uses, or its provider, is switched off. *)
FunctionsOff(c) == \E f \in Features : c.fn[f] # None /\ {f, c.fn[f]} \cap off # {}

(* checkAIConfigTx: exactly the key's numbers, and for each provider one of  *)
(* the actor's own live items for it.                                        *)
ConfigHolds(u, c, on) ==
    /\ c.on = on
    /\ \A p \in Providers : c.keys[p] # None =>
         /\ c.keys[p] \in Held(u) /\ key[c.keys[p]].provider = p

(* sameAIRenewal: all of it but the keys. *)
Consented(c) == [on |-> c.on, fn |-> c.fn, who |-> c.who]
SameRenewal(current, next) == Consented(current) = Consented(next)

-----------------------------------------------------------------------------
(* Consent.                                                                 *)

(* The reader attests a pending request over the browser's nonce, for a      *)
(* manager; only they may answer it.                                         *)
Request(u) ==
    /\ Manager(u) /\ allowed /\ u \notin prepared
    /\ prepared' = prepared \union {u}
    /\ UNCHANGED <<rows, world, task, troubles>>

(* createAI up to the ledger, and Create: a key restricted to the numbers    *)
(* `on`, and the row, pending.                                               *)
Consent(t, u, a, c, on) ==
    /\ At(t, "idle") /\ auth[a].st = "none" /\ \A b \in 1..(a - 1) : auth[b].st # "none"
    /\ u \in prepared /\ allowed /\ WellFormed(c) /\ ~FunctionsOff(c)
    /\ Manager(u) /\ ConfigHolds(u, c, on)
    /\ auth' = [auth EXCEPT ![a] = [NoAuth EXCEPT !.st = "pending", !.by = u, !.cfg = c]]
    /\ prepared' = prepared \ {u}
    /\ task' = [task EXCEPT ![t] = [Idle EXCEPT !.op = "relay", !.u = u, !.a = a]]
    /\ UNCHANGED <<key, derived, usage, emptied, world, troubles>>

(* AIBundle: the reader tries every key and model before it answers; its     *)
(* refusal, and an answer that is lost, undo the consent.                    *)
RelayBundle(t) ==
    /\ At(t, "relay")
    /\ \/ Finish(t) /\ Smooth
       \/ Goto(t, "undo") /\ Trouble
    /\ UNCHANGED <<rows, world, prepared>>

(* DeleteFailed: a row the reader activated meanwhile stays. *)
DeleteFailed(t) ==
    /\ At(t, "undo")
    /\ auth' = EndAll({a \in {task[t].a} : auth[a].st = "pending"})
    /\ Finish(t)
    /\ UNCHANGED <<key, derived, usage, emptied, world, prepared, troubles>>

(* The reader's handshake, its report of a key it lost, its own revocation   *)
(* and the deadline.                                                         *)
Turn(a, from, to) ==
    /\ auth[a].st \in from
    /\ auth' = [auth EXCEPT ![a].st = to]
    /\ UNCHANGED <<key, derived, usage, emptied, world, prepared, task, troubles>>
Activate(a) == ~auth[a].past /\ Turn(a, {"pending"}, "active")
ReportReseal(a) == ~auth[a].past /\ Turn(a, {"active"}, "reseal")
ReaderRevokes(a) == Turn(a, LiveStates, "ended")
Expire(a) == auth[a].past /\ Turn(a, LiveStates, "ended")
DeadlinePasses(a) ==
    /\ Live(a) /\ ~auth[a].past
    /\ auth' = [auth EXCEPT ![a].past = TRUE]
    /\ UNCHANGED <<key, derived, usage, emptied, world, prepared, task, troubles>>

-----------------------------------------------------------------------------
(* Renewal: a new key for the same consent.                                 *)

(* renewableTx and, for an AI row, the configuration's checks. *)
RenewalStands(u, a, c) ==
    /\ Manager(u) /\ auth[a].by = u
    /\ auth[a].st \in {"active", "reseal"} /\ ~auth[a].past
    /\ SameRenewal(auth[a].cfg, c)
    /\ ConfigHolds(u, c, auth[a].cfg.on)

(* renew as far as CheckRenewal, a dry run. *)
StartRenewal(t, u, a, c) ==
    /\ At(t, "idle") /\ allowed /\ WellFormed(c) /\ ~FunctionsOff(c)
    /\ RenewalStands(u, a, c)
    /\ task' = [task EXCEPT ![t] = [Idle EXCEPT !.op = "bundle", !.u = u, !.a = a, !.cfg = c]]
    /\ UNCHANGED <<rows, world, prepared, troubles>>

(* AIRenewalBundle: the reader stages the key, or the renewal ends here. *)
RelayRenewal(t) ==
    /\ At(t, "bundle")
    /\ \/ Goto(t, "renew") /\ Smooth
       \/ Finish(t) /\ Trouble
    /\ UNCHANGED <<rows, world, prepared>>

(* Mutant: the checks made before the relay are trusted after it. *)
RenewUnchecked(t) ==
    /\ At(t, "renew")
    /\ LET a == task[t].a
       IN  auth' = IF auth[a].st \in {"active", "reseal"} /\ ~auth[a].past
                   THEN [auth EXCEPT ![a].st = "active", ![a].cfg = task[t].cfg, ![a].alert = FALSE]
                   ELSE auth
    /\ Finish(t)
    /\ UNCHANGED <<key, derived, usage, emptied, world, prepared, troubles>>

(* Renew: every check again, then the new configuration; what narrows the    *)
(* authorization stays, what the reader reported of the old one goes.        *)
Renew(t) ==
    /\ At(t, "renew")
    /\ LET a == task[t].a
       IN  auth' = IF RenewalStands(task[t].u, a, task[t].cfg)
                   THEN [auth EXCEPT ![a].st = "active", ![a].cfg = task[t].cfg, ![a].alert = FALSE]
                   ELSE auth
    /\ Finish(t)
    /\ UNCHANGED <<key, derived, usage, emptied, world, prepared, troubles>>

-----------------------------------------------------------------------------
(* What a person narrows.                                                   *)

(* Whether the controls undo a pause or a function switched off. *)
Widens(a, paused, fs) == (auth[a].paused /\ ~paused) \/ ~(auth[a].off \subseteq fs)

SetAIControls(u, a, paused, fs) ==
    /\ MayManage(u, a) /\ Live(a) /\ ~auth[a].past
    /\ Widens(a, paused, fs) => auth[a].by = u
    /\ auth' = [auth EXCEPT ![a].paused = paused, ![a].off = fs]
    /\ UNCHANGED <<key, derived, usage, emptied, world, prepared, task, troubles>>

(* The results of an authorization, or of a number, that a deletion takes: a *)
(* deleted number's stay for its recovery.                                   *)
Without(gone) ==
    [m \in Messages |-> [f \in Features |->
        IF number[NumberOf[m]] = "here" /\ <<m, f>> \in gone THEN NoResult ELSE derived[m][f]]]
ResultsBy(a) == {r \in Messages \X Features : derived[r[1]][r[2]].by = a}

RowsHere(a) == {<<a, n>> : n \in {n \in Numbers : number[n] = "here"}}

(* RevokeAI: the authorization ends and, if asked for, its results go. *)
RevokeAI(u, a, deleteResults) ==
    /\ auth[a].st # "none" /\ MayManage(u, a)
    /\ auth' = EndAll({a})
    /\ IF deleteResults
       THEN /\ derived' = Without(ResultsBy(a))
            /\ emptied' = emptied \union RowsHere(a)
       ELSE UNCHANGED <<derived, emptied>>
    /\ UNCHANGED <<key, usage, world, prepared, task, troubles>>

(* DeleteAIDerived and DeleteAIDerivedOf. *)
DeleteResults(u) ==
    /\ Member(u)
    /\ \/ \E m \in Messages, f \in Features :
            /\ derived[m][f].n > 0 /\ number[NumberOf[m]] = "here"
            /\ Manager(u) \/ (derived[m][f].by # 0 /\ auth[derived[m][f].by].by = u)
            /\ derived' = [derived EXCEPT ![m][f] = NoResult]
       \/ \E a \in Auths : /\ auth[a].st # "none" /\ MayManage(u, a)
                            /\ derived' = Without(ResultsBy(a))
       \/ \E n \in Numbers : /\ Manager(u)
                              /\ derived' = Without({r \in Messages \X Features : NumberOf[r[1]] = n})
    /\ UNCHANGED <<key, auth, usage, emptied, world, prepared, task, troubles>>

-----------------------------------------------------------------------------
(* Who may ask.                                                             *)

(* PickAIAuthorization's rows for a function on a number. *)
Candidates(n, f) ==
    {a \in Auths : /\ auth[a].st \in {"active", "reseal"} /\ ~auth[a].past
                   /\ ~auth[a].paused /\ f \notin auth[a].off
                   /\ auth[a].cfg.who[n][f] # None}

Admitted(a, u, n, f, origin) ==
    /\ auth[a].cfg.fn[f] \notin off
    /\ IF auth[a].by = u
       THEN auth[a].cfg.who[n][f] = "console" => origin = "console"
       ELSE auth[a].cfg.who[n][f] = "readers" /\ Reads(u, n)

Newest(S) == CHOOSE a \in S : \A b \in S : b <= a
Oldest(S) == CHOOSE a \in S : \A b \in S : a <= b

(* The requester's own, newest first; another person's, oldest first; the    *)
(* requester's own that waits for a renewal; 0 for none.                     *)
Pick(u, n, f, origin) ==
    LET all == {a \in Candidates(n, f) : Admitted(a, u, n, f, origin)}
        own == {a \in all : auth[a].by = u /\ auth[a].st = "active"}
        others == {a \in all : auth[a].by # u /\ auth[a].st = "active"}
        waiting == {a \in all : auth[a].by = u /\ auth[a].st = "reseal"}
    IN  IF ~allowed \/ f \in off THEN 0
        ELSE IF own # {} THEN Newest(own)
        ELSE IF others # {} THEN Oldest(others)
        ELSE IF waiting # {} THEN Newest(waiting) ELSE 0

(* process: the person reads the number, and the message is one of it that   *)
(* the function takes and was not sent to be viewed once.                    *)
Process(t, u, m, f, redo) ==
    /\ At(t, "idle") /\ Reads(u, NumberOf[m])
    /\ m \notin Once /\ f \in Fits[m]
    /\ task' = [task EXCEPT ![t] = [Idle EXCEPT !.op = "pick", !.u = u, !.m = m, !.f = f, !.redo = redo]]
    /\ UNCHANGED <<rows, world, prepared, troubles>>

(* The pick, and the job at the reader for an active one. *)
PickForJob(t) ==
    /\ At(t, "pick")
    /\ LET x == task[t]
           a == Pick(x.u, NumberOf[x.m], x.f, x.origin)
       IN  IF a # 0 /\ auth[a].st = "active"
           THEN task' = [task EXCEPT ![t].op = "job", ![t].a = a]
           ELSE Finish(t)
    /\ UNCHANGED <<rows, world, prepared, troubles>>

(* enclaveAIPick: the reader asks for a media connection's creator. *)
ConnectorAsks(t, u, m, f, redo) ==
    /\ At(t, "idle") /\ Member(u) /\ allowed /\ number[NumberOf[m]] = "here"
    /\ f \in Fits[m]
    /\ task' = [task EXCEPT ![t] = [Idle EXCEPT !.op = "pick", !.u = u, !.m = m, !.f = f, !.redo = redo,
                                              !.origin = "connector"]]
    /\ UNCHANGED <<rows, world, prepared, troubles>>

-----------------------------------------------------------------------------
(* What the reader stores and bills.                                        *)

(* The reader paid the provider, or drops the job: paused, busy, out of      *)
(* budget, or restarted.                                                     *)
RunJob(t) ==
    /\ At(t, "job")
    /\ Goto(t, "store") \/ Finish(t)
    /\ UNCHANGED <<rows, world, prepared, troubles>>

(* enclaveAIStore reads the row: it must run now, and have the function on   *)
(* the number, which a deletion takes from it.                               *)
StoreAsks(t) ==
    /\ At(t, "store")
    /\ LET a == task[t].a
           n == NumberOf[task[t].m]
       IN  Goto(t, IF /\ allowed /\ auth[a].st = "active" /\ ~auth[a].past
                      /\ number[n] = "here" /\ auth[a].cfg.who[n][task[t].f] # None
                   THEN "put" ELSE "bill")
    /\ UNCHANGED <<rows, world, prepared, troubles>>

(* PutAIDerived: the message is on a number that is here; only a redo        *)
(* replaces.  A workspace whose storage is paused refuses it.                *)
PutAIDerived(t) ==
    /\ At(t, "put")
    /\ LET x == task[t]
           takes == /\ number[NumberOf[x.m]] = "here" /\ x.f \in Fits[x.m]
                    /\ derived[x.m][x.f].n = 0 \/ (x.redo /\ derived[x.m][x.f].n < MaxUses)
       IN  \/ /\ takes
              /\ derived' = [derived EXCEPT ![x.m][x.f] =
                                [n |-> @.n + 1, by |-> x.a, late |-> auth[x.a].st = "ended"]]
           \/ derived' = derived
    /\ Goto(t, "bill")
    /\ UNCHANGED <<key, auth, usage, emptied, world, prepared, troubles>>

(* enclaveAIUsage reads the row, whatever the switches say: it must be live. *)
BillAsks(t) ==
    /\ At(t, "bill")
    /\ IF Live(task[t].a) /\ ~auth[task[t].a].past /\ number[NumberOf[task[t].m]] = "here"
       THEN Goto(t, "book") ELSE Finish(t)
    /\ UNCHANGED <<rows, world, prepared, troubles>>

(* RecordAIUsage: booked to the key the configuration names by now. *)
RecordAIUsage(t) ==
    /\ At(t, "book")
    /\ LET a == task[t].a
           k == auth[a].cfg.keys[auth[a].cfg.fn[task[t].f]]
       IN  usage[a][k] < MaxUses /\ usage' = [usage EXCEPT ![a][k] = @ + 1]
    /\ Finish(t)
    /\ UNCHANGED <<key, auth, derived, emptied, world, prepared, troubles>>

(* RecordAIAlert: a key rejected, a model gone, a quota spent. *)
RecordAIAlert(a) ==
    /\ Live(a) /\ ~auth[a].alert
    /\ auth' = [auth EXCEPT ![a].alert = TRUE]
    /\ UNCHANGED <<key, derived, usage, emptied, world, prepared, task, troubles>>

-----------------------------------------------------------------------------
(* The people and the numbers.                                              *)

(* A removal ends the person's authorizations; a change of role does not. *)
ChangeMember(u, role) ==
    /\ Member(u) /\ role # person[u].role
    /\ person' = [person EXCEPT ![u].role = role]
    /\ auth' = EndAll({a \in Auths : role = "gone" /\ Live(a) /\ auth[a].by = u})
    /\ UNCHANGED <<key, derived, usage, emptied, allowed, off, number, prepared, task, troubles>>
ChangeReading(u) ==
    /\ person' = [person EXCEPT ![u].reads = ~@]
    /\ UNCHANGED <<rows, allowed, off, number, prepared, task, troubles>>
Switch ==
    /\ \/ allowed' = ~allowed /\ off' = off
       \/ allowed' = allowed /\ \E x \in Features \union Providers :
            off' = IF x \in off THEN off \ {x} ELSE off \union {x}
    /\ UNCHANGED <<rows, person, number, prepared, task, troubles>>

Hide(n) ==
    /\ number[n] \in {"here", "deleted"}
    /\ number' = [number EXCEPT ![n] = IF @ = "here" THEN "deleted" ELSE "here"]
    /\ UNCHANGED <<rows, person, allowed, off, prepared, task, troubles>>

(* A move gives the results to the other workspace, of no authorization; a   *)
(* purge deletes them.                                                       *)
Leave(n) ==
    /\ \/ number[n] = "here" /\ number' = [number EXCEPT ![n] = "moved"]
       \/ number[n] = "deleted" /\ number' = [number EXCEPT ![n] = "purged"]
    /\ derived' = [m \in Messages |-> [f \in Features |->
                     IF NumberOf[m] # n THEN derived[m][f]
                     ELSE IF number[n] = "here" THEN [derived[m][f] EXCEPT !.by = 0] ELSE NoResult]]
    /\ UNCHANGED <<key, auth, usage, emptied, person, allowed, off, prepared, task, troubles>>

(* A process ends: its requests go, and so do the requests it prepared. *)
Crash(t) ==
    /\ ~At(t, "idle") /\ Finish(t) /\ Trouble
    /\ prepared' = {}
    /\ UNCHANGED <<rows, world>>

-----------------------------------------------------------------------------
Init ==
    /\ person \in [People -> [role : {"manager", "member"}, reads : BOOLEAN]]
    /\ allowed = TRUE /\ off = {} /\ prepared = {} /\ emptied = {} /\ troubles = 0
    /\ key = [k \in Keys |-> [st |-> "none", by |-> None, provider |-> None]]
    /\ auth = [a \in Auths |-> NoAuth]
    /\ number = [n \in Numbers |-> "here"]
    /\ derived = [m \in Messages |-> [f \in Features |-> NoResult]]
    /\ usage = [a \in Auths |-> [k \in Keys |-> 0]]
    /\ task = [t \in Tasks |-> Idle]

Requests(t) ==
    \/ RelayBundle(t) \/ DeleteFailed(t) \/ RelayRenewal(t) \/ Renew(t)
    \/ PickForJob(t) \/ RunJob(t) \/ StoreAsks(t) \/ PutAIDerived(t)
    \/ BillAsks(t) \/ RecordAIUsage(t) \/ Crash(t)
    \/ \E u \in People, a \in Auths, c \in Configs :
         \/ StartRenewal(t, u, a, c)
         \/ \E on \in SUBSET Numbers : Consent(t, u, a, c, on)
    \/ \E u \in People, m \in Messages, f \in Features, redo \in BOOLEAN :
         Process(t, u, m, f, redo) \/ ConnectorAsks(t, u, m, f, redo)

Console(u) ==
    \/ \E k \in Keys : DeleteKeychainItem(u, k) \/ \E p \in Providers : AddKeychainItem(u, k, p)
    \/ Request(u) \/ DeleteResults(u) \/ ChangeReading(u)
    \/ \E role \in {"manager", "member", "gone"} : ChangeMember(u, role)
    \/ \E a \in Auths :
         \/ \E d \in BOOLEAN : RevokeAI(u, a, d)
         \/ \E b \in BOOLEAN, fs \in SUBSET Features : SetAIControls(u, a, b, fs)

Reader(a) ==
    \/ Activate(a) \/ ReportReseal(a) \/ ReaderRevokes(a) \/ Expire(a)
    \/ DeadlinePasses(a) \/ RecordAIAlert(a)

Next ==
    \/ \E t \in Tasks : Requests(t)
    \/ \E u \in People : Console(u)
    \/ \E a \in Auths : Reader(a)
    \/ \E n \in Numbers : Hide(n) \/ Leave(n)
    \/ Switch \/ SettlePass

Spec == Init /\ [][Next]_vars

-----------------------------------------------------------------------------
(* Types. *)
TypeOK ==
    /\ person \in [People -> [role : {"manager", "member", "gone"}, reads : BOOLEAN]]
    /\ allowed \in BOOLEAN /\ off \subseteq Features \union Providers /\ prepared \subseteq People
    /\ key \in [Keys -> [st : {"none", "live", "deleted", "settled"}, by : People \union {None},
                         provider : Providers \union {None}]]
    /\ auth \in [Auths -> [st : LiveStates \union {"none", "ended"}, by : People \union {None},
                           past : BOOLEAN, cfg : Configs \union {None}, paused : BOOLEAN,
                           off : SUBSET Features, alert : BOOLEAN]]
    /\ number \in [Numbers -> {"here", "deleted", "moved", "purged"}]
    /\ derived \in [Messages -> [Features -> [n : 0..MaxUses, by : 0..MaxAuths, late : BOOLEAN]]]
    /\ usage \in [Auths -> [Keys -> 0..MaxUses]]
    /\ troubles \in 0..MaxTroubles /\ emptied \subseteq Auths \X Numbers

(* A live authorization names live items of its creator's own keychain, each *)
(* of the provider it is named for, also when an item is deleted between a   *)
(* renewal's dry run and its commit (DeleteKeychainItem, Renew).             *)
LiveKeys ==
    \A a \in Auths, p \in Providers : Live(a) /\ auth[a].cfg.keys[p] # None =>
        /\ auth[a].cfg.keys[p] \in Held(auth[a].by)
        /\ key[auth[a].cfg.keys[p]].provider = p

(* What was billed was billed to a key of the authorization's creator, though *)
(* keys are renewed and deleted while a job runs (RecordAIUsage).             *)
OwnKeysPay ==
    \A a \in Auths, k \in Keys : usage[a][k] > 0 => key[k].by = auth[a].by

(* A revocation that takes the results leaves none on a number that was      *)
(* there, but what a store under way brings after it (RevokeAI,              *)
(* enclaveAIStore's two reads).                                              *)
RevokedTakesResults ==
    \A m \in Messages, f \in Features :
        <<derived[m][f].by, NumberOf[m]>> \in emptied => derived[m][f].late

(* A moved number's results are of no authorization of the old workspace. *)
MovedUnowned ==
    \A m \in Messages, f \in Features :
        number[NumberOf[m]] \in {"moved", "purged"} => derived[m][f].by = 0

AISafe ==
    /\ TypeOK /\ LiveKeys /\ OwnKeysPay
    /\ RevokedTakesResults /\ MovedUnowned

(* An authorization that ended is never touched again: no renewal, relay,    *)
(* control or report under way brings it back or changes it.                 *)
EndedStays == \A a \in Auths : auth[a].st = "ended" => auth'[a].st = "ended"
                                                       /\ auth'[a].cfg = auth[a].cfg

(* A renewal changes no part of the consent but the keys, and lifts no       *)
(* narrowing, though both were read before the reader was asked.             *)
ConsentStands ==
    \A a \in Auths : auth[a].st # "none" /\ auth'[a].cfg # auth[a].cfg =>
        /\ Consented(auth'[a].cfg) = Consented(auth[a].cfg)
        /\ auth'[a].st = "active" /\ auth[a].st \in {"active", "reseal"}
        /\ <<auth'[a].paused, auth'[a].off>> = <<auth[a].paused, auth[a].off>>

(* A deleted number's results wait for its recovery or its purge, whatever   *)
(* is stored, revoked or deleted meanwhile; a moved number's are out of      *)
(* reach.                                                                    *)
KeptForRecovery ==
    \A m \in Messages : number[NumberOf[m]] # "here" /\ number'[NumberOf[m]] # "purged" =>
        derived'[m] = derived[m]

(* A stored result is replaced by a redo only: of two jobs for one message   *)
(* the first to store wins.                                                  *)
FirstStays ==
    \A m \in Messages, f \in Features : derived[m][f].n > 0 /\ derived'[m][f].n > derived[m][f].n =>
        \E t \in Tasks : At(t, "put") /\ task[t].redo /\ task[t].m = m /\ task'[t] # task[t]

AISteps == [][EndedStays /\ ConsentStands /\ KeptForRecovery /\ FirstStays]_vars
=============================================================================
