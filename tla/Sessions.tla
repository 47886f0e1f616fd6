------------------------------ MODULE Sessions ------------------------------
(***************************************************************************)
(* The sessions of one account: its password and recovery code, its        *)
(* passkeys, the browser sign-ins and the workspace sessions derived from  *)
(* them, and its step-ups (store/users.go, store/passkeys.go,              *)
(* store/platform_stepup.go and their handlers in authapi).                *)
(*                                                                         *)
(* A handler proves something first and then runs a transaction: between   *)
(* the two it is a task.  Transactions that take the account's lock, or    *)
(* are one statement, are one step.  A secret is its generation, the       *)
(* provider's clock counts step-up starts, and a session's family is the   *)
(* session of the browser's sign-in.                                       *)
(***************************************************************************)
EXTENDS Naturals, FiniteSets

CONSTANTS
    Tasks,       \* requests at once
    KeyIDs,      \* passkeys in a behaviour
    Flows,       \* passkey challenges in a behaviour
    MaxSessions, \* sessions in a behaviour
    MaxChanges,  \* password changes, recoveries and links in a behaviour
    MaxStarts,   \* step-ups started at the provider in a behaviour
    KeyMax       \* passkeys of one account (12 in the code)

(* The bounds are numbers, and 0 stands for no passkey. *)
SessionsBounds ==
    /\ MaxSessions \in Nat /\ MaxChanges \in Nat /\ MaxStarts \in Nat
    /\ KeyMax \in Nat
    /\ 0 \notin KeyIDs

ASSUME SessionsAssumption == SessionsBounds

VARIABLES
    acc,      \* the account's row: password and auth_source
    member,   \* an active member of the team workspace
    key,      \* user_passkeys
    counter,  \* the authenticators' own signature counters
    flow,     \* passkey_challenges
    sess,     \* sessions
    task,     \* requests between their proof and their transaction
    asked,    \* the provider's last re-authentication of the person
    starts,   \* step-ups started so far
    answered, \* history: the starts that proofs answered
    epoch,    \* history: changes that revoked every session
    keyEpoch, \* history: changes that revoked every passkey
    closed,   \* history: families a sign-out ended
    proved    \* history: families whose person proved themselves within stepup.Window

vars == <<acc, member, key, counter, flow, sess, task, asked, starts, answered, epoch, keyEpoch, closed, proved>>
ghosts == <<answered, epoch, keyEpoch, closed, proved>>

Slots == 1..MaxSessions
NoSession == [st |-> "none", fam |-> 0, team |-> FALSE, key |-> 0, fresh |-> FALSE,
              start |-> 0, born |-> 0]
NoFlow == [kind |-> "none", s |-> 0]
Idle == [op |-> "idle", s |-> 0, k |-> 0, n |-> 0, c |-> 0, via |-> FALSE]
Ops == {"idle", "issue", "rekey", "recover", "addKey",
        "assert", "mark", "switch", "revokeKey", "finish", "legacy", "link"}

Init ==
    /\ acc \in [pw : {1}, platform : BOOLEAN]
    /\ member = TRUE
    /\ key = [k \in KeyIDs |-> [st |-> "none", ver |-> 0, count |-> 0, born |-> 0]]
    /\ counter = [k \in KeyIDs |-> 0]
    /\ flow = [f \in Flows |-> NoFlow]
    /\ sess = [s \in Slots |-> NoSession]
    /\ task = [t \in Tasks |-> Idle]
    /\ asked = 0 /\ starts = 0 /\ answered = {}
    /\ epoch = 0 /\ keyEpoch = 0 /\ closed = {} /\ proved = {}

At(t, op) == task[t].op = op
Done(t) == task' = [task EXCEPT ![t] = Idle]
Begin(t, op, s, k, n) ==
    /\ At(t, "idle")
    /\ task' = [task EXCEPT ![t] = [Idle EXCEPT !.op = op, !.s = s, !.k = k, !.n = n]]
Becomes(t, op) == task' = [task EXCEPT ![t].op = op, ![t].n = 0]

(* Users.ActiveSession: what authenticate lets in.  A session of the team  *)
(* workspace needs its membership (Get).                                   *)
Live(s) == sess[s].st = "live"
Active(s) == Live(s) /\ (sess[s].team => member)

(* Passkeys and passkeyUser: the account's live credentials.               *)
LiveKeys == {k \in KeyIDs : key[k].st = "live"}

(* stepsUpAtProvider, with the provider configured.                        *)
AtProvider == acc.platform

(* A revoked row names its family; nobody reads the rest of it.            *)
Revoked(s) == IF Live(s) THEN [NoSession EXCEPT !.st = "revoked", !.fam = sess[s].fam] ELSE sess[s]
RevokeAll == [s \in Slots |-> Revoked(s)]
RevokeKeys == [k \in KeyIDs |-> IF key[k].st = "live" THEN [key[k] EXCEPT !.st = "revoked"] ELSE key[k]]
(* passkey_challenges rows that name the account: a sign-in's names none.  *)
DropFlows == [f \in Flows |-> IF flow[f].kind \in {"register", "stepUp"} THEN NoFlow ELSE flow[f]]

-----------------------------------------------------------------------------
(* Proofs: the first half of a request.                                    *)

(* login: Users.Authenticate against auth_hash, then issue.                *)
Login(t) ==
    /\ Begin(t, "issue", 0, 0, 0)
    /\ UNCHANGED <<acc, member, key, counter, flow, sess, asked, starts, ghosts>>

(* recoverFinish: OpenRecovery, after recoverOpen's of the same code.      *)
RecoverFinish(t) ==
    /\ Begin(t, "recover", 0, 0, 0)
    /\ UNCHANGED <<acc, member, key, counter, flow, sess, asked, starts, ghosts>>

(* password and deletePasskey: a live session and the password again;      *)
(* nothing later reads either.                                             *)
Password(t, s) == Active(s) /\ Begin(t, "rekey", 0, 0, 0)
DeletePasskey(t, s, k) == Active(s) /\ k \in LiveKeys /\ Begin(t, "revokeKey", 0, k, 0)

(* stepUpPassword: its markStepUp is MarkStepUp.                           *)
StepUpPassword(t, s) == Active(s) /\ ~AtProvider /\ Begin(t, "mark", s, 0, 0)

(* workspaceSession: the person is a member as far as this read says.      *)
WorkspaceSession(t, s) == Active(s) /\ member /\ Begin(t, "switch", s, 0, 0)

(* platformLink: verifyLegacy against the password or the recovery code.   *)
PlatformLink(t) == ~acc.platform /\ Begin(t, "legacy", 0, 0, 0)

(* platformSession for a linked account: the provider's sign-in is its     *)
(* proof.                                                                  *)
PlatformSession(t) ==
    /\ acc.platform /\ At(t, "idle")
    /\ task' = [task EXCEPT ![t] = [Idle EXCEPT !.op = "issue", !.via = TRUE]]

Prove(t) ==
    /\ \/ \E s \in Slots : Password(t, s)
       \/ \E s \in Slots, k \in KeyIDs : DeletePasskey(t, s, k)
       \/ \E s \in Slots : StepUpPassword(t, s)
       \/ \E s \in Slots : WorkspaceSession(t, s)
       \/ PlatformLink(t)
       \/ PlatformSession(t)
    /\ UNCHANGED <<acc, member, key, counter, flow, sess, asked, starts, ghosts>>

-----------------------------------------------------------------------------
(* Starting sessions.                                                      *)

NextSlot == CHOOSE s \in Slots : sess[s].st = "none" /\ \A r \in Slots : sess[r].st = "none" => s <= r
Room == \E s \in Slots : sess[s].st = "none"

(* startSession's insert; team is the workspace its token is bound to.     *)
Insert(fam, team, k, fresh, born) ==
    sess' = [sess EXCEPT ![NextSlot] =
        [st |-> "live", fam |-> fam, team |-> team, key |-> k, fresh |-> fresh, start |-> 0, born |-> born]]

(* The passkey of a session is read under the account's lock.              *)
KeyStands(k) == k = 0 \/ k \in LiveKeys

(* issue, StartSession, StartPasskeySession, StartPlatformSession and      *)
(* StartLinkedSession: a new family.  A sign-in at the provider proves     *)
(* what its auth_time says, or nothing; any other proves the person now.   *)
StartSession(t) ==
    /\ At(t, "issue")
    /\ \/ /\ KeyStands(task[t].k) /\ Room
          /\ \E fresh \in (IF task[t].via /\ task[t].n = 0 THEN BOOLEAN ELSE {TRUE}) :
               /\ Insert(NextSlot, FALSE, task[t].k, fresh, epoch)
               /\ proved' = IF fresh THEN proved \union {NextSlot} ELSE proved
       \/ ~KeyStands(task[t].k) /\ UNCHANGED <<sess, proved>>
    /\ Done(t)
    /\ UNCHANGED <<acc, member, key, counter, flow, asked, starts, answered, epoch, keyEpoch, closed>>

(* The source of a switch is read again under the family's lock.           *)
SourceStands(s) == Live(s)

(* The membership is read again under the workspace's shared lock.         *)
MemberStill == member

(* A switch proves nothing: it copies the source's proof.                  *)
Inherited(s) == sess[s].fresh

(* StartWorkspaceSession: the source's family, passkey, expiry and proof,  *)
(* never its step-up start.                                                *)
StartWorkspaceSession(t) ==
    /\ At(t, "switch")
    /\ LET s == task[t].s IN
         \/ /\ MemberStill /\ SourceStands(s) /\ KeyStands(sess[s].key) /\ Room
            /\ Insert(sess[s].fam, TRUE, sess[s].key, Inherited(s), sess[s].born)
         \/ /\ ~(MemberStill /\ SourceStands(s) /\ KeyStands(sess[s].key))
            /\ UNCHANGED sess
    /\ Done(t)
    /\ UNCHANGED <<acc, member, key, counter, flow, asked, starts, ghosts>>

-----------------------------------------------------------------------------
(* Changing credentials.                                                   *)

Changes == epoch < MaxChanges

(* Rekey: the password replaced, with the recovery code and without the    *)
(* passkeys after a recovery, and every session ended; the handler then    *)
(* signs the browser in again (rekey).                                     *)
Rekey(t) ==
    /\ task[t].op \in {"rekey", "recover"} /\ Changes
    /\ LET lost == At(t, "recover") IN
         /\ acc' = [acc EXCEPT !.pw = @ + 1]
         /\ key' = IF lost THEN RevokeKeys ELSE key
         /\ flow' = IF lost THEN DropFlows ELSE flow
         /\ keyEpoch' = IF lost THEN keyEpoch + 1 ELSE keyEpoch
    /\ sess' = RevokeAll
    /\ epoch' = epoch + 1
    /\ Becomes(t, "issue")
    /\ UNCHANGED <<member, counter, asked, starts, answered, closed, proved>>

(* verifyLegacy's second read: the hash to compare with later, which a     *)
(* change since the proof may have written.                                *)
VerifyLegacy(t) ==
    /\ At(t, "legacy")
    /\ task' = [task EXCEPT ![t].op = "link", ![t].n = acc.pw]
    /\ UNCHANGED <<acc, member, key, counter, flow, sess, asked, starts, ghosts>>

(* LinkLegacy: the hash read after the proof is the one of now.            *)
ProofStands(t) == task[t].n = acc.pw

(* LinkLegacy's transaction; the handler then starts a linked session,     *)
(* whose proof is now (n marks it).                                        *)
LinkLegacy(t) ==
    /\ At(t, "link")
    /\ \/ /\ ProofStands(t) /\ ~acc.platform /\ Changes
          /\ acc' = [acc EXCEPT !.platform = TRUE]
          /\ key' = RevokeKeys /\ flow' = DropFlows /\ sess' = RevokeAll
          /\ epoch' = epoch + 1 /\ keyEpoch' = keyEpoch + 1
          /\ task' = [task EXCEPT ![t] = [Idle EXCEPT !.op = "issue", !.via = TRUE, !.n = 1]]
       \/ /\ ~(ProofStands(t) /\ ~acc.platform)
          /\ Done(t)
          /\ UNCHANGED <<acc, key, flow, sess, epoch, keyEpoch>>
    /\ UNCHANGED <<member, counter, asked, starts, answered, closed, proved>>

-----------------------------------------------------------------------------
(* Passkeys.                                                               *)

(* savePasskeyFlow and CreatePasskeyChallenge.                             *)
NewFlow(kind, s) == \E f \in Flows : flow[f] = NoFlow /\ flow' = [flow EXCEPT ![f] = [kind |-> kind, s |-> s]]

(* registerPasskeyOptions asks for the password, stepUpPasskeyOptions for  *)
(* a passkey; loginPasskeyOptions needs no session.                        *)
RegisterOptions(s) ==
    /\ Active(s) /\ ~AtProvider
    /\ Cardinality(LiveKeys) < KeyMax
    /\ NewFlow("register", s)
    /\ UNCHANGED <<acc, member, key, counter, sess, task, asked, starts, ghosts>>
StepUpPasskeyOptions(s) ==
    /\ Active(s) /\ ~AtProvider
    /\ LiveKeys # {}
    /\ NewFlow("stepUp", s)
    /\ UNCHANGED <<acc, member, key, counter, sess, task, asked, starts, ghosts>>
LoginPasskeyOptions ==
    /\ NewFlow("login", 0)
    /\ UNCHANGED <<acc, member, key, counter, sess, task, asked, starts, ghosts>>

(* ConsumePasskeyChallenge: the challenge is spent whatever follows.       *)
Consume(f, kind, s) == flow[f] = [kind |-> kind, s |-> s] /\ flow' = [flow EXCEPT ![f] = NoFlow]

(* registerPasskeyFinish up to AddPasskey.                                 *)
RegisterFinish(t, s) ==
    /\ Active(s)
    /\ \E f \in Flows : Consume(f, "register", s)
    /\ Begin(t, "addKey", s, 0, 0)
    /\ UNCHANGED <<acc, member, key, counter, sess, asked, starts, ghosts>>

(* AddPasskey's checks, under the account's lock.                          *)
MayAdd(s) == Live(s) /\ Cardinality(LiveKeys) < KeyMax

AddPasskey(t) ==
    /\ At(t, "addKey")
    /\ \/ /\ MayAdd(task[t].s)
          /\ \E k \in KeyIDs : key[k].st = "none"
               /\ key' = [key EXCEPT ![k] = [@ EXCEPT !.st = "live", !.born = keyEpoch]]
       \/ ~MayAdd(task[t].s) /\ UNCHANGED key
    /\ Done(t)
    /\ UNCHANGED <<acc, member, counter, flow, sess, asked, starts, ghosts>>

(* loginPasskeyFinish and stepUpPasskey up to UpdatePasskey: an assertion  *)
(* of a live passkey, whose counter is above the stored one.  The          *)
(* authenticator counts every assertion it makes.                          *)
Assertion(t, k, s) ==
    /\ \E f \in Flows : Consume(f, IF s = 0 THEN "login" ELSE "stepUp", s)
    /\ k \in LiveKeys /\ counter[k] < MaxSessions
    /\ counter' = [counter EXCEPT ![k] = @ + 1]
    /\ counter[k] + 1 > key[k].count
    /\ At(t, "idle")
    /\ task' = [task EXCEPT ![t] = [Idle EXCEPT !.op = "assert", !.s = s, !.k = k,
                                                !.n = key[k].ver, !.c = counter[k] + 1]]
LoginPasskeyFinish(t) ==
    /\ \E k \in KeyIDs : Assertion(t, k, 0)
    /\ UNCHANGED <<acc, member, key, sess, asked, starts, ghosts>>
StepUpPasskey(t, s) ==
    /\ Active(s) /\ ~AtProvider
    /\ \E k \in KeyIDs : Assertion(t, k, s)
    /\ UNCHANGED <<acc, member, key, sess, asked, starts, ghosts>>

(* UpdatePasskey's version guard; n holds the version read and c the       *)
(* counter asserted.                                                       *)
SameVersion(t) == key[task[t].k].st = "live" /\ key[task[t].k].ver = task[t].n

UpdatePasskey(t) ==
    /\ At(t, "assert")
    /\ LET k == task[t].k IN
         \/ /\ SameVersion(t)
            /\ key' = [key EXCEPT ![k].ver = @ + 1, ![k].count = task[t].c]
            /\ task' = [task EXCEPT ![t] = IF @.s = 0 THEN [Idle EXCEPT !.op = "issue", !.k = k]
                                                      ELSE [Idle EXCEPT !.op = "mark", !.s = task[t].s]]
         \/ ~SameVersion(t) /\ Done(t) /\ UNCHANGED key
    /\ UNCHANGED <<acc, member, counter, flow, sess, asked, starts, ghosts>>

(* RevokePasskey and the sessions it opened, workspace sessions included.  *)
RevokePasskey(t) ==
    /\ At(t, "revokeKey")
    /\ LET k == task[t].k IN
         \/ /\ k \in LiveKeys
            /\ key' = [key EXCEPT ![k].st = "revoked"]
            /\ sess' = [s \in Slots |-> IF sess[s].key = k THEN Revoked(s) ELSE sess[s]]
         \/ k \notin LiveKeys /\ UNCHANGED <<key, sess>>
    /\ Done(t)
    /\ UNCHANGED <<acc, member, counter, flow, asked, starts, ghosts>>

-----------------------------------------------------------------------------
(* Step-ups.                                                               *)

(* markStepUp and MarkStepUp: a session that is not live records nothing.  *)
MarkStepUp(t) ==
    /\ At(t, "mark")
    /\ LET s == task[t].s IN
         \/ Live(s) /\ sess' = [sess EXCEPT ![s].fresh = TRUE] /\ proved' = proved \union {sess[s].fam}
         \/ ~Live(s) /\ UNCHANGED <<sess, proved>>
    /\ Done(t)
    /\ UNCHANGED <<acc, member, key, counter, flow, asked, starts, answered, epoch, keyEpoch, closed>>

Family(s) == {r \in Slots : sess[r].fam = sess[s].fam}

(* StartProviderStepUp: a start voids every other of its family.           *)
Started(s) == [r \in Slots |-> IF r = s THEN [sess[r] EXCEPT !.start = starts + 1]
                               ELSE IF r \in Family(s) THEN [sess[r] EXCEPT !.start = 0] ELSE sess[r]]

PlatformStepUpStart(s) ==
    /\ Active(s) /\ AtProvider /\ starts < MaxStarts
    /\ starts' = starts + 1
    /\ sess' = Started(s)
    /\ UNCHANGED <<acc, member, key, counter, flow, task, asked, ghosts>>

(* PendingProviderStepUp: the newest start of the live family.             *)
Pending(s) == {r \in Family(s) : Live(r) /\ sess[r].start > 0}
Newest(s) == CHOOSE r \in Pending(s) : \A q \in Pending(s) : sess[q].start <= sess[r].start

(* platformStepUpFinish up to FinishProviderStepUp: what is pending, and   *)
(* then the provider's answer; the token names a re-authentication of now  *)
(* or of before.  k holds the starter, n the start, via that auth_time is  *)
(* not before it.                                                          *)
PlatformStepUpFinish(t, s) ==
    /\ Active(s) /\ AtProvider /\ Pending(s) # {}
    /\ At(t, "idle")
    /\ \E authTime \in 0..asked :
         task' = [task EXCEPT ![t] = [op |-> "finish", s |-> s, k |-> Newest(s), n |-> sess[Newest(s)].start,
                                      c |-> 0, via |-> authTime >= sess[Newest(s)].start]]
    /\ UNCHANGED <<acc, member, key, counter, flow, sess, asked, starts, ghosts>>

(* Mutant: any start of the starter will do.                               *)
AnyPending(t) == sess[task[t].k].start > 0
(* FinishProviderStepUp: the start is still the one the caller read.       *)
StillPending(t) == sess[task[t].k].start = task[t].n

FinishProviderStepUp(t) ==
    /\ At(t, "finish")
    /\ LET s == task[t].s
           r == task[t].k
           proves == task[t].via /\ Live(s) /\ Live(r) /\ StillPending(t) IN
         /\ answered' = IF proves THEN answered \union {sess[r].start} ELSE answered
         /\ proved' = IF proves THEN proved \union {sess[s].fam} ELSE proved
         /\ sess' = IF proves
                      THEN [q \in Slots |->
                             IF q \in {s, r} THEN [sess[q] EXCEPT !.fresh = TRUE, !.start = 0]
                             ELSE IF q \in Family(s) /\ sess[q].start <= task[t].n
                                    THEN [sess[q] EXCEPT !.start = 0] ELSE sess[q]]
                      ELSE sess
    /\ Done(t)
    /\ UNCHANGED <<acc, member, key, counter, flow, asked, starts, epoch, keyEpoch, closed>>

-----------------------------------------------------------------------------
(* Ends.                                                                   *)

(* Mutant: a token that was signed out ends nothing more.                  *)
EndsLiveFamily(s) == IF Live(s) THEN [r \in Slots |-> IF r \in Family(s) THEN Revoked(r) ELSE sess[r]]
                                ELSE sess
(* endSession of one token, or of its family: a token signed out before,   *)
(* and not expired, still names its family.                                *)
Names(s) == sess[s].st \in {"live", "revoked"}
EndsFamily(s) == [r \in Slots |-> IF r \in Family(s) THEN Revoked(r) ELSE sess[r]]

Logout(s) ==
    /\ Names(s)
    /\ \/ Live(s) /\ sess' = [sess EXCEPT ![s] = Revoked(s)] /\ UNCHANGED closed
       \/ sess' = EndsFamily(s) /\ closed' = closed \union {sess[s].fam}
    /\ UNCHANGED <<acc, member, key, counter, flow, task, asked, starts, answered, epoch, keyEpoch, proved>>

(* updateMember and removeMember: the workspace's sessions end with the    *)
(* membership; an accepted invitation brings it back.                      *)
RemoveMember ==
    /\ member
    /\ member' = FALSE
    /\ sess' = [s \in Slots |-> IF sess[s].team THEN Revoked(s) ELSE sess[s]]
    /\ UNCHANGED <<acc, key, counter, flow, task, asked, starts, ghosts>>
JoinAgain ==
    /\ ~member
    /\ member' = TRUE
    /\ UNCHANGED <<acc, key, counter, flow, sess, task, asked, starts, ghosts>>

(* Time: a family's sessions expire together (expires_at is copied).       *)
Expire(f) ==
    /\ \E s \in Slots : sess[s].fam = f /\ Names(s)
    /\ sess' = [s \in Slots |-> IF sess[s].fam = f THEN [NoSession EXCEPT !.st = "expired"] ELSE sess[s]]
    /\ UNCHANGED <<acc, member, key, counter, flow, task, asked, starts, ghosts>>

(* stepup.Window passes: a proof no longer counts, a start no longer waits.*)
WindowPasses ==
    /\ \E s \in Slots : sess[s].fresh \/ sess[s].start > 0
    /\ sess' = [s \in Slots |-> [sess[s] EXCEPT !.fresh = FALSE, !.start = 0]]
    /\ proved' = {}
    /\ UNCHANGED <<acc, member, key, counter, flow, task, asked, starts, answered, epoch, keyEpoch, closed>>

(* The identity provider asks the person again.                            *)
ProviderAsks ==
    /\ asked < starts
    /\ asked' = starts
    /\ UNCHANGED <<acc, member, key, counter, flow, sess, task, starts, ghosts>>

Next ==
    \/ \E t \in Tasks :
         \/ Login(t) \/ RecoverFinish(t) \/ Prove(t)
         \/ StartSession(t) \/ StartWorkspaceSession(t)
         \/ Rekey(t) \/ VerifyLegacy(t) \/ LinkLegacy(t)
         \/ AddPasskey(t) \/ LoginPasskeyFinish(t) \/ UpdatePasskey(t)
         \/ RevokePasskey(t) \/ MarkStepUp(t) \/ FinishProviderStepUp(t)
         \/ \E s \in Slots : RegisterFinish(t, s) \/ StepUpPasskey(t, s) \/ PlatformStepUpFinish(t, s)
    \/ LoginPasskeyOptions
    \/ \E s \in Slots : \/ RegisterOptions(s) \/ StepUpPasskeyOptions(s)
                       \/ PlatformStepUpStart(s) \/ Logout(s) \/ Expire(s)
    \/ RemoveMember \/ JoinAgain \/ WindowPasses \/ ProviderAsks

Spec == Init /\ [][Next]_vars

-----------------------------------------------------------------------------
(* The state's types.                                                      *)
TypeOK ==
    /\ acc \in [pw : 1..MaxChanges + 1, platform : BOOLEAN]
    /\ member \in BOOLEAN
    /\ key \in [KeyIDs -> [st : {"none", "live", "revoked"}, ver : 0..MaxSessions, count : 0..MaxSessions,
                           born : 0..MaxChanges]]
    /\ counter \in [KeyIDs -> 0..MaxSessions]
    /\ flow \in [Flows -> [kind : {"none", "register", "login", "stepUp"}, s : 0..MaxSessions]]
    /\ sess \in [Slots -> [st : {"none", "live", "revoked", "expired"}, fam : 0..MaxSessions, team : BOOLEAN,
                           key : KeyIDs \union {0}, fresh : BOOLEAN, start : 0..MaxStarts,
                           born : 0..MaxChanges]]
    /\ \A t \in Tasks : task[t].op \in Ops
    /\ asked \in 0..starts /\ starts \in 0..MaxStarts /\ answered \subseteq 1..starts
    /\ epoch \in 0..MaxChanges /\ keyEpoch \in 0..epoch /\ closed \subseteq Slots /\ proved \subseteq Slots

(* After a password change, a recovery or a link, no session whose browser *)
(* signed in before it is live: none that a workspace switch, let in       *)
(* before the change, started from one of them after it either.            *)
NothingOlder == \A s \in Slots : Live(s) => sess[s].born = epoch

(* After a recovery or a link, no passkey from before it opens the         *)
(* account, whatever registration was under way; a linked account has none.*)
KeysOfNow == \A k \in LiveKeys : key[k].born = keyEpoch /\ ~acc.platform

(* A live session that a passkey opened, or that was derived from one, has *)
(* a passkey that is not revoked.                                          *)
KeyedSessions == \A s \in Slots : Live(s) /\ sess[s].key # 0 => sess[s].key \in LiveKeys

(* A browser that signed out everywhere has no session left, in any        *)
(* workspace, whatever tab was switching.                                  *)
SignedOut == \A s \in Slots : Live(s) => sess[s].fam \notin closed

(* Nobody works in a workspace they were removed from.                     *)
MembersOnly == \A s \in Slots : Live(s) /\ sess[s].team => member

(* Registrations at once do not pass the limit of passkeys.                *)
WithinKeyLimit == Cardinality(LiveKeys) <= KeyMax

(* What asks for a fresh proof finds one only where the person proved      *)
(* themselves to that browser within the window: opening a workspace       *)
(* proves nothing.                                                         *)
FreshIsProved == \A s \in Slots : Live(s) /\ sess[s].fresh => sess[s].fam \in proved

(* A family waits for one step-up at most, and never for one that was      *)
(* answered.                                                               *)
OneStart ==
    \A s \in Slots : Live(s) =>
        /\ Cardinality(Pending(s)) <= 1
        /\ sess[s].start \notin answered

(* A proof at the provider answers a start that nothing has answered, that *)
(* no other tab has replaced, and that the person's re-authentication      *)
(* followed.                                                               *)
ProofAnswersStart ==
    \A n \in answered' \ answered :
         /\ n <= asked
         /\ \E s \in Slots : /\ sess[s].start = n
                             /\ \A r \in Family(s) : sess[r].start <= n
         /\ \E t \in Tasks : At(t, "finish") /\ task[t].n = n

(* A passkey's stored signature counter never goes back, whatever          *)
(* assertions finish in whatever order.                                    *)
CounterNeverBack ==
    \A k \in KeyIDs : key'[k].count >= key[k].count

(* No password change slips between verifyLegacy's read of the hash and    *)
(* the link.  One may slip between the proof and that read (SignIn).       *)
LinkedByCurrent ==
    (acc'.platform /\ ~acc.platform) => \E t \in Tasks : At(t, "link") /\ task[t].n = acc.pw

(* Only sessions the account, its passkeys and its memberships still stand
   behind are live, and only proved ones are fresh. *)
SessionsSafe ==
    /\ TypeOK
    /\ NothingOlder
    /\ KeysOfNow
    /\ KeyedSessions
    /\ SignedOut
    /\ MembersOnly
    /\ WithinKeyLimit
    /\ FreshIsProved
    /\ OneStart

(* A proof counts for what it was asked for, once. *)
SessionSteps == [][ProofAnswersStart /\ CounterNeverBack /\ LinkedByCurrent]_vars
=============================================================================
