----------------------------- MODULE Membership -----------------------------
(* The membership contract: how this server follows the platform's accounts.
   A leader reads the platform's feed and stores the documents it carries;
   sign-ins, sign-ups, the round and the freshness hook ask for one document
   at a time and subscribe its sub; a sweep unsubscribes subs that never
   became accounts here.  Every writer may be late, lose its answer or stop
   half way, and the platform's database may be replaced by another one.

   A document is its generation and version: version v of a sub names the
   workspaces 1..v of that sub.  Time is left out: an intent (subscribed_at)
   is a value that differs from every one still remembered, and a
   published_through is what the platform held when it was stated. *)
EXTENDS Naturals, FiniteSets, Sequences

CONSTANTS
    Subs, Leaders, Tasks,
    None,            \* no generation, no version, nobody
    MaxVersion,      \* how often a document changes
    MaxGeneration,   \* how often the platform's database is replaced
    MaxPage,         \* items of one feed page
    MaxBad,          \* unreadable documents and clocks ahead
    MaxLost,         \* calls that fail or whose answer is lost
    MaxStops,        \* locks lost and tasks that end half way
    MaxSwitches      \* switches of the contract's mode

ASSUME MembershipAssumption ==
    /\ {MaxVersion, MaxGeneration, MaxPage} \subseteq Nat \ {0}
    /\ {MaxBad, MaxLost, MaxStops, MaxSwitches} \subseteq Nat
    /\ None \notin Nat \cup Leaders

VARIABLES
    platform,   \* the platform: its generation, documents, followers and feed
    state,      \* the row of contract_state
    accounts,   \* contract_accounts: the row of each sub
    held,       \* platform_identities: the subs that are accounts here
    recorded,   \* contract_workspaces: the workspaces recorded, <<sub, n>>
    lock,       \* the holder of the leader's advisory lock
    leading,    \* the processes that believe they lead
    follower,   \* each leader's feed call
    task,       \* requests, rounds and sweeps under way
    spent,      \* what of the bounds is used
    adrift,     \* subs unsubscribed by a call nobody followed up
    late        \* subs whose forgotten version an older answer replaced
vars == <<platform, state, accounts, held, recorded, lock, leading, follower,
          task, spent, adrift, late>>

Generations == 1..MaxGeneration
Versions == 1..MaxVersion
Docs == [sub : Subs, gen : Generations, ver : Versions, ok : BOOLEAN]
Intents == 0..(Cardinality(Subs) + Cardinality(Tasks))

NoRow == [here |-> FALSE, intent |-> None, gen |-> None, ver |-> None]
Idle == [pc |-> "idle"]

\* The platform starts with its first database, which knows every account.
Init ==
    /\ platform = [gen |-> 1, ver |-> [s \in Subs |-> 1], follows |-> {}, log |-> <<>>]
    /\ state = [mode |-> "off", observed |-> FALSE, gen |-> None, cursor |-> 0, pub |-> None]
    /\ accounts = [s \in Subs |-> NoRow]
    /\ held = {}
    /\ recorded = {}
    /\ lock = None
    /\ leading = {}
    /\ follower = [l \in Leaders |-> Idle]
    /\ task = [t \in Tasks |-> Idle]
    /\ spent = [bad |-> 0, lost |-> 0, stops |-> 0, switches |-> 0]
    /\ adrift = {}
    /\ late = {}

(* ---- What rows and documents say ---- *)

On == state.mode # "off"

\* The stored document counts: a version of the stored generation.
Versioned(s) == accounts[s].ver # None /\ accounts[s].gen = state.gen

\* Held subs with no document of the stored generation, which the round PUTs.
Unsubscribed == {s \in held : ~Versioned(s)}

Remembered(t) == IF "intent" \in DOMAIN task[t] THEN {task[t].intent} ELSE {}

\* A subscribed_at no row and no task remembers.
NewIntent ==
    CHOOSE i \in Intents :
        i \notin {accounts[s].intent : s \in Subs} \cup UNION {Remembered(t) : t \in Tasks}

Intend(s) == [accounts EXCEPT ![s].here = TRUE, ![s].intent = NewIntent]

Row(acc, s) == IF acc[s].here THEN acc[s] ELSE [NoRow EXCEPT !.here = TRUE, !.intent = NewIntent]

Newer(row, doc) == row.ver = None \/ row.gen # doc.gen \/ doc.ver > row.ver

\* The account's row after a document: its columns are newer-only.
storeAccountTx(acc, doc) ==
    LET row == Row(acc, doc.sub)
    IN  [acc EXCEPT ![doc.sub] =
            IF Newer(row, doc) THEN [row EXCEPT !.gen = doc.gen, !.ver = doc.ver] ELSE row]

Named(doc) == {doc.sub} \X (1..doc.ver)

\* The workspaces a document records: its own, and when it is kept those of
\* the stored one, for a sub Wappie holds.
RecordedBy(acc, doc) ==
    LET row == Row(acc, doc.sub)
    IN  Named(doc) \cup
        (IF Newer(row, doc) THEN {} ELSE Named([doc EXCEPT !.ver = row.ver]))

\* A document of the stored generation that the database can hold.
Storable(doc, gen) == doc.ok /\ doc.gen = gen

Adopted(doc) == IF state.gen = None THEN doc.gen ELSE state.gen

\* The document is behind one the cursor has passed, or its sub is unfollowed.
Outdated(doc) ==
    \/ \E i \in 1..Len(platform.log) :
         /\ i <= state.cursor
         /\ platform.log[i].sub = doc.sub /\ platform.log[i].ver > doc.ver
    \/ doc.sub \in held \ platform.follows

\* A forgotten version came back by an answer the platform gave earlier.
Lateness(doc) ==
    CASE Outdated(doc) /\ accounts[doc.sub].ver = None -> late \cup {doc.sub}
      [] ~Outdated(doc) -> late \ {doc.sub}
      [] OTHER -> late

Current(doc) ==
    doc.sub \in held \cap platform.follows /\ doc.gen = platform.gen /\ doc.ver = platform.ver[doc.sub]

\* An answer's document stored in one transaction: the first document after a
\* gone brings its generation.
StoreAnswer(doc, undoing) ==
    LET gen == Adopted(doc)
    IN  /\ state' = [state EXCEPT !.gen = gen]
        /\ IF Storable(doc, gen)
           THEN /\ accounts' = storeAccountTx(accounts, doc)
                /\ recorded' = recorded \cup RecordedBy(accounts, doc)
                /\ late' = Lateness(doc)
                /\ adrift' = IF Current(doc) THEN adrift \ {doc.sub} ELSE adrift
           ELSE /\ adrift' = IF undoing THEN adrift \cup {doc.sub} ELSE adrift
                /\ UNCHANGED <<accounts, recorded, late>>

(* ---- The platform (external) ---- *)

Left(what, bound) == spent[what] < bound
Spend(what) == spent' = [spent EXCEPT ![what] = @ + 1]

\* A call answers, fails, or loses its answer.
Answer == {"ok"} \cup (IF Left("lost", MaxLost) THEN {"fail", "lost"} ELSE {})
Counted(how) == IF how = "ok" THEN UNCHANGED spent ELSE Spend("lost")

\* A document is read, or is one this server cannot read or hold.
Readable == {TRUE} \cup (IF Left("bad", MaxBad) THEN {FALSE} ELSE {})

\* An account changes, and the feed of its followers tells it.
PlatformChanges(s) ==
    /\ platform.ver[s] < MaxVersion
    /\ \E ok \in Readable :
        /\ platform' = [platform EXCEPT
              !.ver[s] = @ + 1,
              !.log = IF s \in platform.follows
                      THEN Append(@, [sub |-> s, gen |-> platform.gen, ver |-> platform.ver[s] + 1, ok |-> ok])
                      ELSE @]
        /\ IF ok THEN UNCHANGED spent ELSE Spend("bad") /\ s \in platform.follows
    /\ UNCHANGED <<state, accounts, held, recorded, lock, leading, follower, task, adrift, late>>

\* The platform's database is another one: nobody is followed, the feed is new.
PlatformReplaced ==
    /\ platform.gen < MaxGeneration
    /\ platform' = [gen |-> platform.gen + 1, ver |-> [s \in Subs |-> 1], follows |-> {}, log |-> <<>>]
    /\ UNCHANGED <<state, accounts, held, recorded, lock, leading, follower, task, spent, adrift, late>>

(* ---- The leader ---- *)

SetMode ==
    /\ Left("switches", MaxSwitches)
    /\ Spend("switches")
    /\ state' = IF On THEN [state EXCEPT !.mode = "off"]
                ELSE [state EXCEPT !.mode = "observe", !.observed = TRUE]
    /\ UNCHANGED <<platform, accounts, held, recorded, lock, leading, follower, task, adrift, late>>

Lead(l) ==
    /\ On /\ lock = None /\ l \notin leading
    /\ lock' = l
    /\ leading' = leading \cup {l}
    /\ UNCHANGED <<platform, state, accounts, held, recorded, follower, task, spent, adrift, late>>

\* The session that holds the lock dies; its process learns of it later.
LockLost ==
    /\ lock # None
    /\ Left("stops", MaxStops)
    /\ Spend("stops")
    /\ lock' = None
    /\ UNCHANGED <<platform, state, accounts, held, recorded, leading, follower, task, adrift, late>>

\* A process that finds its lock lost, or the contract off, stops leading.
StopLeading(l) ==
    /\ l \in leading
    /\ lock # l \/ ~On
    /\ leading' = leading \ {l}
    /\ lock' = IF lock = l THEN None ELSE lock
    /\ follower' = [follower EXCEPT ![l] = Idle]
    /\ UNCHANGED <<platform, state, accounts, held, recorded, task, spent, adrift, late>>

PageAfter(c) == SubSeq(platform.log, c + 1, IF Len(platform.log) < c + MaxPage THEN Len(platform.log) ELSE c + MaxPage)

\* The leader asks for the feed after its cursor and the platform answers: a
\* page, with what it held, gone for a cursor it cannot serve, or nothing.  A
\* page's published_through may be ahead of the clock.
Feed(l) ==
    LET seen == [gen |-> state.gen, cursor |-> state.cursor]
        more == Len(platform.log) > state.cursor + MaxPage
    IN  /\ l \in leading /\ follower[l].pc = "idle"
        /\ \/ \E trusted \in Readable :
                /\ more => trusted
                /\ follower' = [follower EXCEPT ![l] =
                     [pc |-> "page", seen |-> seen, of |-> platform.gen, items |-> PageAfter(state.cursor),
                      pub |-> IF more \/ ~trusted THEN None ELSE platform.ver]]
                /\ IF trusted THEN UNCHANGED spent ELSE Spend("bad")
           \/ /\ state.cursor > 0
              /\ state.gen # platform.gen \/ state.cursor > Len(platform.log)
              /\ follower' = [follower EXCEPT ![l] = [pc |-> "gone", seen |-> seen]]
              /\ UNCHANGED spent
        /\ UNCHANGED <<platform, state, accounts, held, recorded, lock, leading, task, adrift, late>>

\* The leader's writes hold only on the generation and cursor it asked with.
Unmoved(f) == state.cursor = f.seen.cursor /\ state.gen = f.seen.gen

Largest(vs) == CHOOSE v \in vs : \A w \in vs : w <= v

\* The versions of s a page brings that can be stored, and whether it brings
\* one that cannot.
PageVersions(f, s) == {f.items[i].ver : i \in {j \in DOMAIN f.items : f.items[j].sub = s /\ f.items[j].ok}}
PageSpoils(f, s) == \E i \in DOMAIN f.items : f.items[i].sub = s /\ ~f.items[i].ok

PageDoc(f, s) == [sub |-> s, gen |-> f.of, ver |-> Largest(PageVersions(f, s)), ok |-> TRUE]

(* Mutant: an unreadable document leaves the version as it was. *)
VersionsRemembered(row) == row

forgetVersionsTx(row) == [row EXCEPT !.gen = None, !.ver = None]

PageRow(f, s) ==
    LET row == IF PageVersions(f, s) = {} THEN accounts[s] ELSE storeAccountTx(accounts, PageDoc(f, s))[s]
    IN  IF PageSpoils(f, s) THEN forgetVersionsTx(row) ELSE row

\* A page is committed as one: documents, cursor and, when it is the last and
\* its time is trusted, published_through.
CommitPage(l) ==
    LET f == follower[l]
        carried == {s \in Subs : PageVersions(f, s) # {}}
    IN  /\ f.pc = "page" /\ f.seen.gen \in {None, f.of}
        /\ IF Unmoved(f)
           THEN /\ state' = [state EXCEPT !.gen = f.of, !.cursor = @ + Len(f.items),
                                          !.pub = IF f.pub # None THEN f.pub ELSE @]
                /\ accounts' = [s \in Subs |-> PageRow(f, s)]
                /\ recorded' = recorded \cup
                      UNION {RecordedBy(accounts, PageDoc(f, s)) : s \in carried \cap held}
                /\ late' = (late \ carried) \cup {s \in carried : s \in Lateness(PageDoc(f, s))}
                /\ adrift' = adrift \ {s \in carried : Current(PageDoc(f, s))}
           ELSE UNCHANGED <<state, accounts, recorded, late, adrift>>
        /\ follower' = [follower EXCEPT ![l] = Idle]
        /\ UNCHANGED <<platform, held, lock, leading, task, spent>>

\* Another generation, or gone: every document is forgotten and the feed is
\* read from its start.
Restart(l) ==
    LET f == follower[l]
        gen == IF f.pc = "gone" THEN None ELSE f.of
    IN  /\ \/ f.pc = "gone"
           \/ f.pc = "page" /\ f.seen.gen \notin {None, f.of}
        /\ IF Unmoved(f)
           THEN /\ state' = [state EXCEPT !.gen = gen, !.cursor = 0, !.pub = None]
                /\ accounts' = [s \in Subs |-> forgetVersionsTx(accounts[s])]
           ELSE UNCHANGED <<state, accounts>>
        /\ follower' = [follower EXCEPT ![l] = Idle]
        /\ UNCHANGED <<platform, held, recorded, lock, leading, task, spent, adrift, late>>

(* ---- Tasks: sign-ins, sign-ups, the round, the sweep, the hook's GETs ---- *)

Go(t, next) == task' = [task EXCEPT ![t] = next]
Free(t) == task[t].pc = "idle"

\* Every PUT is preceded by its intent.
StartPut(t, s, save, again) ==
    /\ accounts' = Intend(s)
    /\ Go(t, [pc |-> "put", sub |-> s, save |-> save, again |-> again, intent |-> accounts'[s].intent])

\* A returning account signs in.
SignIn(t, s) ==
    /\ Free(t) /\ On /\ s \in held
    /\ StartPut(t, s, TRUE, FALSE)
    /\ UNCHANGED <<platform, state, held, recorded, lock, leading, follower, spent, adrift, late>>

\* The leader's round subscribes each held sub with no document.
RoundPut(t, s) ==
    /\ Free(t) /\ leading # {} /\ s \in Unsubscribed
    /\ StartPut(t, s, TRUE, FALSE)
    /\ UNCHANGED <<platform, state, held, recorded, lock, leading, follower, spent, adrift, late>>

\* A new account: its document is asked for before the account is made.
SignUp(t, s) ==
    /\ Free(t) /\ state.observed /\ s \notin held
    /\ accounts' = Intend(s)
    /\ Go(t, [pc |-> "signup", sub |-> s, intent |-> accounts'[s].intent])
    /\ UNCHANGED <<platform, state, held, recorded, lock, leading, follower, spent, adrift, late>>

\* Before the contract was ever observed an account needs no document; an
\* older account may be linked to its sub at any time.
SignUpUnobserved(s) ==
    /\ ~state.observed /\ s \notin held
    /\ held' = held \cup {s}
    /\ UNCHANGED <<platform, state, accounts, recorded, lock, leading, follower, task, spent, adrift, late>>

\* The sub is linked to an account that exists, which then signs in.
LinkLegacy(t, s) ==
    /\ Free(t) /\ s \notin held
    /\ held' = held \cup {s}
    /\ IF On THEN StartPut(t, s, TRUE, FALSE) ELSE UNCHANGED <<accounts, task>>
    /\ adrift' = IF accounts[s].ver = None THEN adrift ELSE adrift \cup {s}
    /\ UNCHANGED <<platform, state, recorded, lock, leading, follower, spent, late>>

\* The PUT at the platform: the sub is followed and its document answered.
\* A failed or lost answer ends the task; a sign-up leaves its intent.
PutDoc(s, ok) == [sub |-> s, gen |-> platform.gen, ver |-> platform.ver[s], ok |-> ok]

\* A task that unsubscribed a sub and has yet to make good.
Undoing(t) == task[t].pc = "forget" \/ ("again" \in DOMAIN task[t] /\ task[t].again)

\* A PUT whose intent is no longer the row's: another sign-up's refusal may
\* remove the row under it.
Unlisted(t) == Remembered(t) # {} /\ accounts[task[t].sub].intent \notin Remembered(t)

Excused(t) ==
    adrift' = IF Undoing(t) \/ Unlisted(t) THEN adrift \cup {task[t].sub} ELSE adrift

Put(t) ==
    LET s == task[t].sub
    IN  /\ task[t].pc \in {"put", "signup"}
        /\ \E how \in Answer :
            /\ Counted(how)
            /\ platform' = IF how = "fail" THEN platform ELSE [platform EXCEPT !.follows = @ \cup {s}]
            /\ CASE how # "ok" -> Go(t, Idle) /\ Excused(t)
                 [] task[t].pc = "signup" ->
                      /\ Go(t, [pc |-> "answered", sub |-> s, intent |-> task[t].intent, doc |-> PutDoc(s, TRUE)])
                      /\ UNCHANGED adrift
                 [] ~task[t].save -> Go(t, Idle) /\ Excused(t)
                 [] OTHER ->
                      /\ Go(t, [pc |-> "keep", sub |-> s, again |-> task[t].again, doc |-> PutDoc(s, TRUE)])
                      /\ UNCHANGED adrift
    /\ UNCHANGED <<state, accounts, held, recorded, lock, leading, follower, late>>

\* The freshness hook or a step-up asks for a held sub's document: the
\* platform answers it, or not_found for a sub it does not follow.
Get(t, s) ==
    /\ Free(t) /\ On /\ s \in held
    /\ Go(t, IF s \in platform.follows
             THEN [pc |-> "keep", sub |-> s, again |-> FALSE, doc |-> PutDoc(s, TRUE)]
             ELSE [pc |-> "unfollowed", sub |-> s])
    /\ UNCHANGED <<platform, state, accounts, held, recorded, lock, leading, follower, spent, adrift, late>>

\* The version of an unfollowed sub is forgotten, and the round PUTs it again.
Unfollowed(t) ==
    LET s == task[t].sub
    IN  /\ task[t].pc = "unfollowed"
        /\ accounts' = [accounts EXCEPT ![s] = forgetVersionsTx(@)]
        /\ Go(t, Idle)
        /\ UNCHANGED <<platform, state, held, recorded, lock, leading, follower, spent, adrift, late>>

\* The answered document is stored.
Keep(t) ==
    /\ task[t].pc = "keep"
    /\ StoreAnswer(task[t].doc, Undoing(t))
    /\ Go(t, Idle)
    /\ UNCHANGED <<platform, held, lock, leading, follower, spent>>

\* The account, its link and its document in one transaction; a document of
\* another generation, or one that cannot be stored, makes no account.
SignupPlatform(t) ==
    LET doc == task[t].doc
    IN  /\ task[t].pc = "answered"
        /\ IF doc.sub \notin held /\ Storable(doc, Adopted(doc))
           THEN StoreAnswer(doc, FALSE) /\ held' = held \cup {doc.sub}
           ELSE Excused(t) /\ UNCHANGED <<state, accounts, recorded, late, held>>
        /\ Go(t, Idle)
        /\ UNCHANGED <<platform, lock, leading, follower, spent>>

\* The account is refused (not active, its home or email taken, a workspace's
\* kind changed) and its subscription given up.
RefuseSignUp(t) ==
    /\ task[t].pc = "answered"
    /\ Go(t, IF task[t].sub \in held THEN Idle
             ELSE [pc |-> "unsubscribe", sub |-> task[t].sub, intent |-> task[t].intent])
    /\ UNCHANGED <<platform, state, accounts, held, recorded, lock, leading, follower, spent, adrift, late>>

\* An intent is an orphan's when nobody holds its sub and it is older than any
\* task that could still act on it.
Orphan(s) ==
    /\ accounts[s].here /\ s \notin held
    /\ \A t \in Tasks : accounts[s].intent \notin Remembered(t)

SweepStart(t, s) ==
    /\ Free(t) /\ leading # {} /\ Orphan(s)
    /\ Go(t, [pc |-> "unsubscribe", sub |-> s, intent |-> accounts[s].intent])
    /\ UNCHANGED <<platform, state, accounts, held, recorded, lock, leading, follower, spent, adrift, late>>

\* The DELETE at the platform; one without an answer is left to the sweep.
Unsubscribe(t) ==
    LET s == task[t].sub
    IN  /\ task[t].pc = "unsubscribe"
        /\ \E how \in Answer :
            /\ Counted(how)
            /\ platform' = IF how = "fail" THEN platform ELSE [platform EXCEPT !.follows = @ \ {s}]
            /\ CASE how = "ok" -> UNCHANGED adrift
                 [] how = "fail" -> Excused(t)
                 [] how = "lost" -> adrift' = adrift \cup {s}
            /\ Go(t, IF how = "ok" THEN [pc |-> "forget", sub |-> s, intent |-> task[t].intent] ELSE Idle)
        /\ UNCHANGED <<state, accounts, held, recorded, lock, leading, follower, late>>

\* A sign-up of s has its document and no account yet, or is giving up.
SigningUp(s) == \E t \in Tasks : ~Free(t) /\ task[t].sub = s /\ task[t].pc \in {"answered", "unsubscribe"}

\* The intent is removed only as it was seen and while nobody holds the sub;
\* else somebody wants the sub, and it is subscribed again: its document is
\* kept once it is an account.
CanForget(s, seen) == accounts[s].here /\ accounts[s].intent = seen /\ s \notin held

ForgetIntent(t) ==
    LET s == task[t].sub
    IN  /\ task[t].pc = "forget"
        /\ IF CanForget(s, task[t].intent)
           THEN /\ accounts' = [accounts EXCEPT ![s] = NoRow]
                /\ Go(t, Idle)
                /\ adrift' = IF SigningUp(s) THEN adrift \cup {s} ELSE adrift \ ({s} \ platform.follows)
           ELSE /\ StartPut(t, s, s \in held, TRUE)
                /\ UNCHANGED adrift
        /\ UNCHANGED <<platform, state, held, recorded, lock, leading, follower, spent, late>>

\* A process ends, or its leader's context does, between two steps.
TaskStops(t) ==
    /\ ~Free(t)
    /\ Left("stops", MaxStops) /\ Spend("stops")
    /\ Excused(t)
    /\ Go(t, Idle)
    /\ UNCHANGED <<platform, state, accounts, held, recorded, lock, leading, follower, late>>

LeaderStep(l) == Feed(l) \/ CommitPage(l) \/ Restart(l)
TaskStep(t) ==
    \/ Put(t) \/ Unfollowed(t) \/ Keep(t) \/ SignupPlatform(t) \/ RefuseSignUp(t)
    \/ Unsubscribe(t) \/ ForgetIntent(t)

Next ==
    \/ \E s \in Subs : PlatformChanges(s) \/ SignUpUnobserved(s)
    \/ PlatformReplaced \/ SetMode \/ LockLost
    \/ \E l \in Leaders : Lead(l) \/ StopLeading(l) \/ LeaderStep(l)
    \/ \E t \in Tasks :
        \/ TaskStep(t) \/ TaskStops(t)
        \/ \E s \in Subs : SignIn(t, s) \/ RoundPut(t, s) \/ SignUp(t, s) \/ LinkLegacy(t, s)
                           \/ Get(t, s) \/ SweepStart(t, s)

Spec == Init /\ [][Next]_vars

(* ---- Properties ---- *)

\* The shape of the rows, and the lock is held by a process that leads.
TypeOK ==
    /\ platform \in [gen : Generations, ver : [Subs -> Versions], follows : SUBSET Subs, log : Seq(Docs)]
    /\ state.mode \in {"off", "observe"} /\ state.gen \in Generations \cup {None}
    /\ state.pub \in [Subs -> Versions] \cup {None}
    /\ \A s \in Subs :
        /\ accounts[s].intent \in Intents \cup {None}
        /\ (accounts[s].ver = None) <=> (accounts[s].gen = None)
        /\ ~accounts[s].here => accounts[s] = NoRow
    /\ lock \in leading \cup {None}

WorkedOn(s) == \E t \in Tasks : ~Free(t) /\ task[t].sub = s /\ Undoing(t)

\* published_through vouches for the stored document of a held sub
\* (vouchedThroughSQL): the document is then at least the one the platform had
\* at that time, so freshness never rests on a document that was already
\* replaced.  It takes the CAS of CommitPage, the forgotten versions of
\* unreadable documents and Restart together.  What the code does not follow
\* up (adrift, late) is excepted, as is a sub a task is subscribing again.
VouchedTruly ==
    \A s \in held :
        Versioned(s) /\ state.pub # None /\ state.gen = platform.gen =>
            \/ accounts[s].ver >= state.pub[s]
            \/ s \in adrift \cup late \/ WorkedOn(s)

\* A held sub whose document is stored is one the platform follows, so its
\* changes reach the feed: the round subscribes only subs without a document,
\* and an unsubscribe that raced a newer PUT or a link is made good.
FollowedWhenStored ==
    \A s \in held :
        Versioned(s) /\ state.gen = platform.gen =>
            s \in platform.follows \cup adrift \cup late \/ WorkedOn(s)

\* A sub the platform follows is an account here, or has the intent row by
\* which the sweep finds it, or a sign-up that is still under way.
NoStrayFollow ==
    \A s \in platform.follows : s \in held \cup adrift \/ accounts[s].here \/ SigningUp(s)

\* A workspace is recorded only through a sub that is held, and every
\* workspace the stored document of a held sub names is recorded, also when
\* the document came by a page before the account was made.
RecordsHeldOnly ==
    /\ \A w \in recorded : w[1] \in held
    /\ \A s \in held \ adrift : Versioned(s) => {s} \X (1..accounts[s].ver) \subseteq recorded

\* Within a generation no page, answer or late leader replaces a stored
\* document by an older one.
NeverBackwards ==
    \A s \in Subs :
        Versioned(s) /\ state'.gen = state.gen /\ accounts'[s].ver # None =>
            accounts'[s].ver >= accounts[s].ver

(* What is stored of the platform is vouched for, followed and recorded only
   as the platform has it. *)
MembershipSafe ==
    /\ TypeOK
    /\ VouchedTruly
    /\ FollowedWhenStored
    /\ NoStrayFollow
    /\ RecordsHeldOnly
=============================================================================
