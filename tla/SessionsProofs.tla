--------------------------- MODULE SessionsProofs ---------------------------
(***************************************************************************)
(* One account's sessions, proved for any number of requests, passkeys,    *)
(* sessions and changes.                                                   *)
(*                                                                         *)
(* A request proves something, and its transaction checks again only some  *)
(* of it.  What the rest may rely on is TaskStands: that a session, once   *)
(* used, is never another's (Onward), that an account which is linked has  *)
(* no session left that could still add a passkey, that an assertion whose *)
(* version still stands has counted past the stored counter, and that the  *)
(* starter of a step-up is of the family that finishes it.                 *)
(***************************************************************************)
EXTENDS Sessions, TLAPS, FiniteSetTheorems, WellFoundedInduction

(* A row that was taken, and is never another session's.                   *)
Used(s) == sess[s].st # "none"

(* The records of the account's tables and of its requests under way.      *)
Requests == [op : Ops, s : 0..MaxSessions, k : KeyIDs \union Slots \union {0},
             n : Nat, c : Nat, via : BOOLEAN]

Rows == [st : {"none", "live", "revoked", "expired"}, fam : 0..MaxSessions, team : BOOLEAN,
         key : KeyIDs \union {0}, fresh : BOOLEAN, start : 0..MaxStarts, born : 0..MaxChanges]
Keys == [st : {"none", "live", "revoked"}, ver : 0..MaxSessions, count : 0..MaxSessions,
         born : 0..MaxChanges]

(* Only a live session is fresh or has a start, and a session's family was *)
(* begun.                                                                  *)
Shape ==
    \A s \in Slots :
        /\ ~Live(s) => sess[s].start = 0 /\ ~sess[s].fresh
        /\ Names(s) => sess[s].fam \in Slots /\ Used(sess[s].fam)
        /\ ~Used(s) => sess[s].fam = 0

(* A family that signed out everywhere had begun.                          *)
ClosedBegan == \A f \in closed : Used(f)

(* A start is of the past, was not answered, is one session's and the only *)
(* one of its family.                                                      *)
StartsStand ==
    /\ \A s \in Slots : sess[s].start <= starts /\ sess[s].start \notin answered
    /\ \A r, s \in Slots :
         sess[r].start > 0 /\ (sess[r].start = sess[s].start \/ (sess[s].start > 0 /\ sess[r].fam = sess[s].fam))
           => r = s

(* What is known of the sessions alone.                                    *)
SessInv ==
    /\ sess \in [Slots -> Rows]
    /\ starts \in 0..MaxStarts /\ answered \subseteq 1..starts
    /\ closed \subseteq Slots /\ proved \subseteq Slots
    /\ Shape
    /\ ClosedBegan
    /\ StartsStand
    /\ SignedOut
    /\ FreshIsProved

(* Of the passkeys alone.                                                  *)
KeyInv ==
    /\ key \in [KeyIDs -> Keys]
    /\ counter \in [KeyIDs -> 0..MaxSessions]
    /\ \A k \in KeyIDs : key[k].ver <= key[k].count /\ key[k].count <= counter[k]
    /\ IsFiniteSet(LiveKeys)
    /\ WithinKeyLimit

(* Of the account's row and of the histories.                              *)
NumberInv ==
    /\ acc \in [pw : 1..MaxChanges + 1, platform : BOOLEAN]
    /\ member \in BOOLEAN
    /\ asked \in 0..starts
    /\ epoch \in 0..MaxChanges /\ keyEpoch \in 0..epoch
    /\ acc.pw <= epoch + 1

(* Of the challenges: the session that asked for one.                      *)
FlowStands(f) ==
    flow[f].kind \in {"register", "stepUp"} =>
        /\ flow[f].s \in Slots /\ Used(flow[f].s)
        /\ flow[f].kind = "register" /\ Live(flow[f].s) => ~acc.platform

FlowInv ==
    /\ flow \in [Flows -> [kind : {"none", "register", "login", "stepUp"}, s : 0..MaxSessions]]
    /\ \A f \in Flows : FlowStands(f)

(* What a request read still stands, as far as its transaction relies on it. *)
Starter(x) == x.s \in Slots /\ Used(x.s)
AssertStands(x) ==
    /\ x.k \in KeyIDs
    /\ x.s # 0 => Starter(x)
    /\ x.c <= counter[x.k]
    /\ x.n <= key[x.k].ver
    /\ x.n = key[x.k].ver => x.c > key[x.k].count
FinishStands(x) ==
    /\ Starter(x)
    /\ x.k \in Slots /\ Used(x.k)
    /\ x.n \in 1..starts
    /\ x.via => x.n <= asked
    /\ Live(x.s) /\ Live(x.k) => sess[x.s].fam = sess[x.k].fam
TaskStands(x) ==
    /\ x.op \in {"issue", "rekey", "recover"} => x.k \in KeyIDs \union {0}
    /\ x.op \in {"switch", "mark", "addKey"} => Starter(x)
    /\ x.op = "addKey" /\ Live(x.s) => ~acc.platform
    /\ x.op = "revokeKey" => x.k \in KeyIDs
    /\ x.op = "assert" => AssertStands(x)
    /\ x.op = "finish" => FinishStands(x)

TaskInv ==
    /\ task \in [Tasks -> Requests]
    /\ \A t \in Tasks : TaskStands(task[t])

(* What relates the sessions to the account, its passkeys and its membership. *)
Crossed == NothingOlder /\ KeysOfNow /\ KeyedSessions /\ MembersOnly

(* What no step takes back: a session that ended stays ended, a family stays *)
(* one's own, counters and versions rise, and a link ends every session.     *)
Onward ==
    /\ \A s \in Slots : Used(s) => /\ Used(s)'
                                   /\ Live(s)' => Live(s) /\ sess'[s].fam = sess[s].fam
    /\ \A k \in KeyIDs : /\ counter[k] <= counter'[k]
                         /\ \/ key'[k].ver > key[k].ver
                            \/ key'[k].ver = key[k].ver /\ key'[k].count = key[k].count
    /\ acc'.platform => acc.platform \/ \A s \in Slots : ~Live(s)'
    /\ starts <= starts' /\ asked <= asked'

(* The inductive invariant.                                                *)
SessionsInv == NumberInv /\ KeyInv /\ SessInv /\ FlowInv /\ TaskInv /\ Crossed

(* A new session takes the lowest free row (the insert of startSession).   *)
LEMMA NextSlotIsFree ==
    ASSUME SessionsBounds, Room
    PROVE  NextSlot \in Slots /\ sess[NextSlot].st = "none"
<1> DEFINE Free == {s \in Slots : sess[s].st = "none"}
<1>1. Free \subseteq Nat /\ Free # {}
    BY DEF SessionsBounds, Slots, Room
<1>2. IsWellFoundedOn(OpToRel(<, Nat), Nat)
    BY NatLessThanWellFounded
<1>3. PICK s \in Free : \A r \in Free : ~(<<r, s>> \in OpToRel(<, Nat))
    BY <1>1, <1>2, WFMin
<1>4. ASSUME NEW r \in Free PROVE s <= r
    <2>1. <<r, s>> \in Nat \X Nat /\ ~(<<r, s>> \in OpToRel(<, Nat))
        BY <1>1, <1>3
    <2>2. ~(r < s)
        BY <2>1 DEF OpToRel
    <2> QED BY <2>2, <1>1, r \in Nat, s \in Nat
<1>5. s \in Slots /\ sess[s].st = "none" /\ \A r \in Slots : sess[r].st = "none" => s <= r
    BY <1>4
<1> QED BY <1>5 DEF NextSlot

(* A family waits for one step-up at most.                                 *)
LEMMA AtMostOne ==
    ASSUME NEW S, \A x, y \in S : x = y
    PROVE  Cardinality(S) <= 1
<1>1. CASE S = {}
    BY <1>1, FS_EmptySet
<1>2. CASE S # {}
    <2>1. PICK x \in S : TRUE
        BY <1>2
    <2>2. S = {x}
        BY <2>1
    <2>3. Cardinality({x}) = 1
        BY FS_Singleton
    <2> QED BY <2>2, <2>3
<1> QED BY <1>1, <1>2

(* What is inductive says what the run checks: the types, and everything a *)
(* change of the account promises.                                         *)
LEMMA SessionsInvIsSafe == ASSUME SessionsBounds, SessionsInv PROVE SessionsSafe
<1> USE DEF SessionsInv
<1>1. TypeOK
    <2>1. \A t \in Tasks : task[t].op \in Ops
        BY DEF TaskInv, Requests
    <2> QED BY <2>1 DEF NumberInv, KeyInv, SessInv, FlowInv, TypeOK, Rows, Keys
<1>2. OneStart
    <2> SUFFICES ASSUME NEW s \in Slots, Live(s)
                 PROVE  Cardinality(Pending(s)) <= 1 /\ sess[s].start \notin answered
        BY DEF OneStart
    <2>1. \A x, y \in Pending(s) : x = y
        BY DEF Pending, Family, SessInv, StartsStand
    <2> QED BY <2>1, AtMostOne DEF SessInv, StartsStand
<1> QED BY <1>1, <1>2 DEF SessionsSafe, Crossed, KeyInv, SessInv

(* An account begins with no session, no passkey and no challenge.         *)
LEMMA SessionsBegin == ASSUME SessionsBounds, Init PROVE SessionsInv
<1> USE DEF Init, SessionsBounds
<1>1. \A s \in Slots : sess[s] = NoSession
    OBVIOUS
<1>2. ~\E s \in Slots : Live(s) \/ Names(s) \/ sess[s].fresh \/ sess[s].start # 0
    BY <1>1 DEF Live, Names, NoSession
<1>3. LiveKeys = {}
    BY DEF LiveKeys
<1>4. NumberInv
    BY DEF NumberInv
<1>5. KeyInv
    <2>1. IsFiniteSet(LiveKeys) /\ Cardinality(LiveKeys) = 0
        BY <1>3, FS_EmptySet
    <2>2. key \in [KeyIDs -> Keys] /\ counter \in [KeyIDs -> 0..MaxSessions]
        BY DEF Keys
    <2> QED BY <2>1, <2>2 DEF KeyInv, WithinKeyLimit
<1>6. SessInv
    <2>1. NoSession \in Rows
        BY DEF NoSession, Rows
    <2>2. sess \in [Slots -> Rows]
        BY <2>1
    <2>3. SignedOut /\ FreshIsProved /\ Shape /\ StartsStand
        BY <1>1, <1>2 DEF SignedOut, FreshIsProved, Shape, StartsStand, NoSession
    <2> QED BY <2>2, <2>3 DEF SessInv, ClosedBegan
<1>7. FlowInv
    BY DEF FlowInv, FlowStands, NoFlow
<1>8. TaskInv
    BY DEF TaskInv, TaskStands, Idle, Requests, Ops
<1>9. Crossed
    BY <1>2, <1>3 DEF Crossed, NothingOlder, KeysOfNow, KeyedSessions, MembersOnly
<1> QED BY <1>4, <1>5, <1>6, <1>7, <1>8, <1>9 DEF SessionsInv

-----------------------------------------------------------------------------
(* What an action that touches one part leaves of the others. *)

(* A request between its proof and its transaction still relies on what    *)
(* holds, whatever another one did meanwhile, as long as the step took     *)
(* nothing back.                                                           *)
LEMMA TaskGoesOn ==
    ASSUME SessionsBounds, SessionsInv, Onward,
           starts' \in Nat, asked' \in Nat,
           NEW t \in Tasks, task'[t] = task[t],
           counter' \in [KeyIDs -> Nat], key' \in [KeyIDs -> Keys]
    PROVE  TaskStands(task[t])'
<1> DEFINE x == task[t]
<1>1. TaskStands(task[t]) /\ task[t] \in Requests
    BY DEF SessionsInv, TaskInv
<1>2. Starter(task[t]) => Starter(task[t])'
    BY DEF Starter, Onward, Used
<1>3. AssertStands(task[t]) => AssertStands(task[t])'
    <2> SUFFICES ASSUME AssertStands(task[t]) PROVE AssertStands(task[t])'
        OBVIOUS
    <2>1. task[t].k \in KeyIDs /\ task[t].n \in Nat /\ task[t].c \in Nat
        BY <1>1 DEF AssertStands, Requests
    <2> DEFINE k == task[t].k
    <2>2. /\ counter[k] \in Nat /\ counter'[k] \in Nat /\ key[k].ver \in Nat /\ key'[k].ver \in Nat
          /\ key[k].count \in Nat /\ key'[k].count \in Nat
        BY <2>1 DEF SessionsInv, KeyInv, Keys, SessionsBounds
    <2>3. /\ counter[k] <= counter'[k]
          /\ \/ key'[k].ver > key[k].ver
             \/ key'[k].ver = key[k].ver /\ key'[k].count = key[k].count
        BY <2>1 DEF Onward
    <2>4. task[t].c <= counter[k] /\ task[t].n <= key[k].ver /\ (task[t].n = key[k].ver => task[t].c > key[k].count)
        BY DEF AssertStands
    <2>5. task[t].c <= counter'[k] /\ task[t].n <= key'[k].ver /\ (task[t].n = key'[k].ver => task[t].c > key'[k].count)
        BY <2>1, <2>2, <2>3, <2>4
    <2> HIDE DEF k
    <2> QED BY <1>2, <2>1, <2>5 DEF AssertStands, k
<1>4. FinishStands(task[t]) => FinishStands(task[t])'
    <2> SUFFICES ASSUME FinishStands(task[t]) PROVE FinishStands(task[t])'
        OBVIOUS
    <2>1. task'[t].n \in 1..starts'
        BY DEF FinishStands, Onward, SessionsInv, SessInv, SessionsBounds
    <2>2. task'[t].via => task'[t].n <= asked'
        BY <1>1 DEF FinishStands, Onward, SessionsInv, NumberInv, SessInv, Requests, SessionsBounds
    <2> QED BY <1>2, <2>1, <2>2 DEF FinishStands, Onward, Starter
<1> QED BY <1>1, <1>2, <1>3, <1>4 DEF TaskStands, Onward, Starter

(* One request moves on, the others stand.                                 *)
LEMMA TasksGoOn ==
    ASSUME SessionsBounds, SessionsInv, Onward,
           starts' \in Nat, asked' \in Nat, counter' \in [KeyIDs -> Nat], key' \in [KeyIDs -> Keys],
           NEW t \in Tasks, NEW x \in Requests, task' = [task EXCEPT ![t] = x],
           TaskStands(task[t])'
    PROVE  TaskInv'
<1>1. task' \in [Tasks -> Requests]
    BY DEF SessionsInv, TaskInv
<1>2. ASSUME NEW u \in Tasks, u # t PROVE TaskStands(task[u])'
    <2>1. task'[u] = task[u]
        BY <1>2 DEF SessionsInv, TaskInv
    <2> QED BY <2>1, TaskGoesOn
<1> QED BY <1>1, <1>2 DEF TaskInv

(* No request moves.                                                       *)
LEMMA TasksStay ==
    ASSUME SessionsBounds, SessionsInv, Onward, UNCHANGED task,
           starts' \in Nat, asked' \in Nat, counter' \in [KeyIDs -> Nat], key' \in [KeyIDs -> Keys]
    PROVE  TaskInv'
<1>1. task' \in [Tasks -> Requests]
    BY DEF SessionsInv, TaskInv
<1>2. ASSUME NEW u \in Tasks PROVE TaskStands(task[u])'
    BY TaskGoesOn
<1> QED BY <1>1, <1>2 DEF TaskInv

(* A request that is over relies on nothing.                               *)
LEMMA TaskEnds ==
    ASSUME SessionsBounds, SessionsInv, Onward,
           starts' \in Nat, asked' \in Nat, counter' \in [KeyIDs -> Nat], key' \in [KeyIDs -> Keys],
           NEW t \in Tasks, Done(t)
    PROVE  TaskInv'
<1>1. Idle \in Requests
    BY DEF Idle, Requests, Ops, SessionsBounds
<1>2. task' = [task EXCEPT ![t] = Idle] /\ task'[t] = Idle
    BY DEF Done, SessionsInv, TaskInv
<1>3. TaskStands(task[t])'
    BY <1>2 DEF TaskStands, Idle
<1> QED BY <1>1, <1>2, <1>3, TasksGoOn

(* Challenges that stay, or go, stand: the session that asked for one may  *)
(* only have ended.                                                        *)
LEMMA FlowsGoOn ==
    ASSUME SessionsInv, Onward, \A f \in Flows : flow'[f] \in {flow[f], NoFlow},
           flow' \in [Flows -> [kind : {"none", "register", "login", "stepUp"}, s : 0..MaxSessions]]
    PROVE  FlowInv'
<1> SUFFICES ASSUME NEW f \in Flows PROVE FlowStands(f)'
    BY DEF FlowInv
<1>1. CASE flow'[f] = NoFlow
    BY <1>1 DEF FlowStands, NoFlow
<1>2. CASE flow'[f] = flow[f]
    BY <1>2 DEF FlowStands, Onward, SessionsInv, FlowInv
<1> QED BY <1>1, <1>2

(* No challenge moves.                                                     *)
LEMMA FlowsStay ==
    ASSUME SessionsInv, Onward, UNCHANGED flow
    PROVE  FlowInv'
BY FlowsGoOn DEF SessionsInv, FlowInv

(* A step that leaves the account, its passkeys and its sessions takes     *)
(* nothing back.                                                           *)
LEMMA NothingLost ==
    ASSUME SessionsBounds, SessionsInv, UNCHANGED <<sess, key, counter, acc, starts, asked>>
    PROVE  Onward
BY DEF Onward, SessionsInv, SessInv, NumberInv, KeyInv, SessionsBounds, Keys, Live, Used

(* A step that leaves the sessions keeps what is known of them.            *)
LEMMA SessionsStay ==
    ASSUME SessInv, UNCHANGED <<sess, starts, answered, closed, proved>>
    PROVE  SessInv'
BY DEF SessInv, Shape, ClosedBegan, StartsStand, SignedOut, FreshIsProved, Live, Names, Used

(* A step that leaves the passkeys keeps what is known of them.            *)
LEMMA KeysStay ==
    ASSUME KeyInv, UNCHANGED <<key, counter>>
    PROVE  KeyInv' /\ LiveKeys' = LiveKeys
BY DEF KeyInv, LiveKeys, WithinKeyLimit

(* A step that leaves the sessions, the passkeys and the account keeps     *)
(* what relates them.                                                      *)
LEMMA CrossedStays ==
    ASSUME Crossed, UNCHANGED <<sess, key, acc, member, epoch, keyEpoch>>
    PROVE  Crossed'
BY DEF Crossed, NothingOlder, KeysOfNow, KeyedSessions, MembersOnly, Live, LiveKeys

-----------------------------------------------------------------------------
(* Proofs, challenges and the provider: the account and its sessions stay.  *)

(* A request that begins relies on what it read.                           *)
LEMMA BeginStands ==
    ASSUME SessionsBounds, SessionsInv, UNCHANGED <<sess, key, acc, starts, asked>>,
           Onward, counter' \in [KeyIDs -> Nat],
           NEW t \in Tasks, NEW x \in Requests, task' = [task EXCEPT ![t] = x], TaskStands(task[t])'
    PROVE  TaskInv'
<1>1. starts' \in Nat /\ asked' \in Nat /\ key' \in [KeyIDs -> Keys]
    BY DEF SessionsInv, SessInv, NumberInv, KeyInv, SessionsBounds
<1> QED BY <1>1, TasksGoOn

(* What a request under way relies on.                                     *)
LEMMA RequestsTaken ==
    ASSUME SessionsBounds, SessionsInv, NEW t \in Tasks
    PROVE  task[t] \in Requests /\ TaskStands(task[t])
BY DEF SessionsInv, TaskInv

(* The record of a request that begins.                                    *)
LEMMA BeginIs ==
    ASSUME NEW t \in Tasks, NEW op, NEW s, NEW k, NEW n, Begin(t, op, s, k, n)
    PROVE  task' = [task EXCEPT ![t] = [op |-> op, s |-> s, k |-> k, n |-> n, c |-> 0, via |-> FALSE]]
<1> DEFINE r == [op |-> op, s |-> s, k |-> k, n |-> n, c |-> 0, via |-> FALSE]
<1>1. ASSUME NEW x, x = [Idle EXCEPT !.op = op, !.s = s, !.k = k, !.n = n] PROVE x = r
    BY <1>1 DEF Idle
<1>2. [Idle EXCEPT !.op = op, !.s = s, !.k = k, !.n = n] = r
    BY <1>1
<1> HIDE DEF r
<1>3. task' = [task EXCEPT ![t] = r]
    BY <1>2 DEF Begin
<1> QED BY <1>3 DEF r

(* Requests that begin: what each one read is what it relies on. *)
LEMMA ProofsKeep ==
    ASSUME SessionsBounds, SessionsInv, NEW t \in Tasks,
           Login(t) \/ RecoverFinish(t) \/ Prove(t) \/ \E s \in Slots : PlatformStepUpFinish(t, s)
    PROVE  SessionsInv'
<1>1. UNCHANGED <<acc, member, key, counter, flow, sess, asked, starts, ghosts>>
    BY DEF Login, RecoverFinish, Prove, PlatformStepUpFinish
<1>2. UNCHANGED <<acc, member, key, counter, flow, sess, asked, starts, answered, epoch, keyEpoch, closed, proved>>
    BY <1>1 DEF ghosts
<1>3. Onward
    BY <1>2, NothingLost
<1>4. counter' \in [KeyIDs -> Nat]
    BY <1>2 DEF SessionsInv, KeyInv, SessionsBounds
<1>5. task \in [Tasks -> Requests] /\ acc.pw \in Nat
    BY DEF SessionsInv, TaskInv, NumberInv, SessionsBounds
<1>6. TaskInv'
    <2>1. ASSUME NEW op \in {"issue", "recover", "rekey", "legacy"}, NEW n \in Nat, NEW via \in BOOLEAN,
                 task' = [task EXCEPT ![t] = [op |-> op, s |-> 0, k |-> 0, n |-> n, c |-> 0, via |-> via]]
          PROVE  TaskInv'
        <3> DEFINE x == [op |-> op, s |-> 0, k |-> 0, n |-> n, c |-> 0, via |-> via]
        <3>1. x \in Requests
            BY DEF Requests, Ops, SessionsBounds
        <3>2. task'[t] = x
            BY <1>5, <2>1
        <3>3. TaskStands(task[t])'
            BY <3>2 DEF TaskStands
        <3> QED BY <1>2, <1>3, <1>4, <2>1, <3>1, <3>3, BeginStands
    <2>2. ASSUME NEW s \in Slots, NEW op \in {"mark", "switch"}, Live(s),
                 task' = [task EXCEPT ![t] = [op |-> op, s |-> s, k |-> 0, n |-> 0, c |-> 0, via |-> FALSE]]
          PROVE  TaskInv'
        <3> DEFINE x == [op |-> op, s |-> s, k |-> 0, n |-> 0, c |-> 0, via |-> FALSE]
        <3>1. x \in Requests
            BY DEF Requests, Ops, SessionsBounds, Slots
        <3>2. task'[t] = x
            BY <1>5, <2>2
        <3>3. TaskStands(task[t])'
            BY <1>2, <2>2, <3>2 DEF TaskStands, Starter, Used, Live
        <3> QED BY <1>2, <1>3, <1>4, <2>2, <3>1, <3>3, BeginStands
    <2>3. ASSUME NEW k \in KeyIDs,
                 task' = [task EXCEPT ![t] = [op |-> "revokeKey", s |-> 0, k |-> k, n |-> 0, c |-> 0, via |-> FALSE]]
          PROVE  TaskInv'
        <3> DEFINE x == [op |-> "revokeKey", s |-> 0, k |-> k, n |-> 0, c |-> 0, via |-> FALSE]
        <3>1. x \in Requests
            BY DEF Requests, Ops, SessionsBounds
        <3>2. task'[t] = x
            BY <1>5, <2>3
        <3>3. TaskStands(task[t])'
            BY <3>2 DEF TaskStands
        <3> QED BY <1>2, <1>3, <1>4, <2>3, <3>1, <3>3, BeginStands
    <2>4. ASSUME NEW s \in Slots, PlatformStepUpFinish(t, s) PROVE TaskInv'
        <3> DEFINE r == Newest(s)
        <3>1. \A p, q \in Pending(s) : p = q
            BY DEF Pending, Family, SessionsInv, SessInv, StartsStand
        <3>2. PICK q \in Pending(s) : TRUE
            BY <2>4 DEF PlatformStepUpFinish
        <3>3. q \in Pending(s) /\ \A p \in Pending(s) : sess[p].start <= sess[q].start
            <4>1. q \in Slots /\ sess[q].start \in Nat
                BY <3>2 DEF Pending, Family, SessionsInv, SessInv, Rows, SessionsBounds
            <4>2. sess[q].start <= sess[q].start
                BY <4>1
            <4> QED BY <3>1, <3>2, <4>2
        <3>4. r \in Pending(s)
            BY <3>3 DEF Newest
        <3>5. PICK authTime \in 0..asked :
                 task' = [task EXCEPT ![t] = [op |-> "finish", s |-> s, k |-> r, n |-> sess[r].start, c |-> 0,
                                              via |-> authTime >= sess[r].start]]
            BY <2>4 DEF PlatformStepUpFinish
        <3> DEFINE n == sess[r].start
                   via == authTime >= n
                   x == [op |-> "finish", s |-> s, k |-> r, n |-> n, c |-> 0, via |-> via]
        <3>6. r \in Slots /\ Live(r) /\ sess[r].fam = sess[s].fam /\ n > 0
            BY <3>4 DEF Pending, Family
        <3>7. Live(s)
            BY <2>4 DEF PlatformStepUpFinish, Active
        <3>8. n \in Nat /\ n \in 1..starts
            BY <3>6 DEF SessionsInv, SessInv, Rows, StartsStand, SessionsBounds
        <3>9. via => n <= asked
            BY <3>8 DEF SessionsInv, NumberInv, SessInv, SessionsBounds
        <3> HIDE DEF r
        <3>10. x \in Requests
            BY <3>6, <3>8 DEF Requests, Ops, SessionsBounds, Slots
        <3>11. task'[t] = x
            BY <1>5, <3>5
        <3> HIDE DEF n, via
        <3>12. TaskStands(task[t])'
            BY <1>2, <3>6, <3>7, <3>8, <3>9, <3>11 DEF TaskStands, FinishStands, Starter, Used, Live
        <3>13. task' = [task EXCEPT ![t] = x]
            BY <3>5 DEF n, via
        <3> QED BY <1>2, <1>3, <1>4, <3>10, <3>12, <3>13, BeginStands
    <2>5. Login(t) \/ RecoverFinish(t) => TaskInv'
        <3>1. Login(t) => task' = [task EXCEPT ![t] = [op |-> "issue", s |-> 0, k |-> 0, n |-> 0, c |-> 0, via |-> FALSE]]
            BY BeginIs DEF Login
        <3>2. RecoverFinish(t) => task' = [task EXCEPT ![t] = [op |-> "recover", s |-> 0, k |-> 0, n |-> 0, c |-> 0, via |-> FALSE]]
            BY BeginIs DEF RecoverFinish
        <3> QED BY <2>1, <3>1, <3>2
    <2>6. Prove(t) => TaskInv'
        <3>1. ASSUME NEW s \in Slots, Password(t, s) PROVE TaskInv'
            <4>1. task' = [task EXCEPT ![t] = [op |-> "rekey", s |-> 0, k |-> 0, n |-> 0, c |-> 0, via |-> FALSE]]
                BY <3>1, BeginIs DEF Password
            <4> QED BY <4>1, <2>1
        <3>2. ASSUME NEW s \in Slots, NEW k \in KeyIDs, DeletePasskey(t, s, k) PROVE TaskInv'
            <4>1. task' = [task EXCEPT ![t] = [op |-> "revokeKey", s |-> 0, k |-> k, n |-> 0, c |-> 0, via |-> FALSE]]
                BY <3>2, BeginIs DEF DeletePasskey
            <4> QED BY <4>1, <2>3
        <3>3. ASSUME NEW s \in Slots, StepUpPassword(t, s) PROVE TaskInv'
            <4>1. task' = [task EXCEPT ![t] = [op |-> "mark", s |-> s, k |-> 0, n |-> 0, c |-> 0, via |-> FALSE]] /\ Live(s)
                BY <3>3, BeginIs DEF StepUpPassword, Active
            <4> QED BY <4>1, <2>2
        <3>4. ASSUME NEW s \in Slots, WorkspaceSession(t, s) PROVE TaskInv'
            <4>1. task' = [task EXCEPT ![t] = [op |-> "switch", s |-> s, k |-> 0, n |-> 0, c |-> 0, via |-> FALSE]] /\ Live(s)
                BY <3>4, BeginIs DEF WorkspaceSession, Active
            <4> QED BY <4>1, <2>2
        <3>5. ASSUME PlatformLink(t) PROVE TaskInv'
            <4>1. task' = [task EXCEPT ![t] = [op |-> "legacy", s |-> 0, k |-> 0, n |-> 0, c |-> 0, via |-> FALSE]]
                BY <3>5, BeginIs DEF PlatformLink
            <4> QED BY <4>1, <2>1, <1>5
        <3>6. ASSUME PlatformSession(t) PROVE TaskInv'
            <4>1. task' = [task EXCEPT ![t] = [op |-> "issue", s |-> 0, k |-> 0, n |-> 0, c |-> 0, via |-> TRUE]]
                <5>1. [Idle EXCEPT !.op = "issue", !.via = TRUE]
                      = [op |-> "issue", s |-> 0, k |-> 0, n |-> 0, c |-> 0, via |-> TRUE]
                    <6>1. ASSUME NEW x, x = [Idle EXCEPT !.op = "issue", !.via = TRUE]
                          PROVE  x = [op |-> "issue", s |-> 0, k |-> 0, n |-> 0, c |-> 0, via |-> TRUE]
                        BY <6>1 DEF Idle
                    <6> QED BY <6>1
                <5> QED BY <3>6, <5>1 DEF PlatformSession
            <4> QED BY <4>1, <2>1
        <3> QED BY <3>1, <3>2, <3>3, <3>4, <3>5, <3>6 DEF Prove
    <2> QED BY <2>4, <2>5, <2>6
<1>7. FlowInv'
    BY <1>2, <1>3, FlowsStay
<1> QED BY <1>2, <1>6, <1>7, SessionsStay, KeysStay, CrossedStays DEF SessionsInv, NumberInv

(* A link under way reads the hash it will compare.                        *)
LEMMA VerifyLegacyKeeps ==
    ASSUME SessionsBounds, SessionsInv, NEW t \in Tasks, VerifyLegacy(t)
    PROVE  SessionsInv'
<1>1. UNCHANGED <<acc, member, key, counter, flow, sess, asked, starts, answered, epoch, keyEpoch, closed, proved>>
    BY DEF VerifyLegacy, ghosts
<1>2. Onward
    BY <1>1, NothingLost
<1>3. counter' \in [KeyIDs -> Nat]
    BY <1>1 DEF SessionsInv, KeyInv, SessionsBounds
<1>4. task \in [Tasks -> Requests] /\ acc.pw \in Nat
    BY DEF SessionsInv, TaskInv, NumberInv, SessionsBounds
<1> DEFINE x == [task[t] EXCEPT !.op = "link", !.n = acc.pw]
<1>5. task[t] \in Requests
    BY <1>4
<1>6. x \in Requests /\ x.op = "link"
    BY <1>4, <1>5 DEF Requests, Ops
<1>7. task' = [task EXCEPT ![t] = x]
    BY DEF VerifyLegacy
<1> HIDE DEF x
<1>8. task'[t] = x
    BY <1>4, <1>7
<1>9. TaskStands(task[t])'
    BY <1>6, <1>8 DEF TaskStands
<1>10. TaskInv'
    BY <1>1, <1>2, <1>3, <1>6, <1>7, <1>9, BeginStands
<1>11. FlowInv'
    BY <1>1, <1>2, FlowsStay
<1> QED BY <1>1, <1>10, <1>11, SessionsStay, KeysStay, CrossedStays DEF SessionsInv, NumberInv

FlowRows == [kind : {"none", "register", "login", "stepUp"}, s : 0..MaxSessions]

(* A challenge names the live session that asked for it, or none           *)
(* (registerPasskeyOptions, stepUpPasskeyOptions, loginPasskeyOptions).    *)
LEMMA ChallengesKeep ==
    ASSUME SessionsBounds, SessionsInv,
           LoginPasskeyOptions \/ \E s \in Slots : RegisterOptions(s) \/ StepUpPasskeyOptions(s)
    PROVE  SessionsInv'
<1>1. UNCHANGED <<acc, member, key, counter, sess, task, asked, starts, answered, epoch, keyEpoch, closed, proved>>
    BY DEF LoginPasskeyOptions, RegisterOptions, StepUpPasskeyOptions, ghosts
<1>2. Onward
    BY <1>1, NothingLost
<1>3. TaskInv'
    BY <1>1, <1>2, TasksStay DEF SessionsInv, SessInv, NumberInv, KeyInv, SessionsBounds
<1>4. ASSUME NEW kind \in {"register", "stepUp", "login"}, NEW s \in 0..MaxSessions, NewFlow(kind, s),
             kind # "login" => Active(s) /\ ~AtProvider /\ s \in Slots
      PROVE  FlowInv'
    <2>1. PICK f \in Flows : flow' = [flow EXCEPT ![f] = [kind |-> kind, s |-> s]]
        BY <1>4 DEF NewFlow
    <2>2. flow \in [Flows -> FlowRows]
        BY DEF SessionsInv, FlowInv, FlowRows
    <2>3. [kind |-> kind, s |-> s] \in FlowRows
        BY DEF FlowRows
    <2>4. flow' \in [Flows -> FlowRows] /\ flow'[f] = [kind |-> kind, s |-> s]
        BY <2>1, <2>2, <2>3
    <2>5. ASSUME NEW g \in Flows PROVE FlowStands(g)'
        <3>1. CASE g = f
            BY <1>1, <1>4, <2>4, <3>1 DEF FlowStands, Active, AtProvider, Live, Used
        <3>2. CASE g # f
            <4>1. flow'[g] = flow[g]
                BY <2>1, <2>2, <3>2
            <4> QED BY <1>1, <4>1 DEF FlowStands, SessionsInv, FlowInv, Live, Used
        <3> QED BY <3>1, <3>2
    <2> QED BY <2>4, <2>5 DEF FlowInv, FlowRows
<1>5. FlowInv'
    <2>1. LoginPasskeyOptions => FlowInv'
        BY <1>4 DEF LoginPasskeyOptions, SessionsBounds
    <2>2. ASSUME NEW s \in Slots PROVE RegisterOptions(s) \/ StepUpPasskeyOptions(s) => FlowInv'
        BY <1>4 DEF RegisterOptions, StepUpPasskeyOptions, SessionsBounds, Slots
    <2> QED BY <2>1, <2>2
<1> QED BY <1>1, <1>3, <1>5, SessionsStay, KeysStay, CrossedStays DEF SessionsInv, NumberInv

(* A challenge is spent (ConsumePasskeyChallenge), the others stand.       *)
LEMMA ChallengeSpent ==
    ASSUME SessionsBounds, SessionsInv, Onward, NEW f \in Flows, NEW kind, NEW s, Consume(f, kind, s)
    PROVE  FlowInv'
<1>1. flow \in [Flows -> FlowRows] /\ NoFlow \in FlowRows
    BY DEF SessionsInv, FlowInv, FlowRows, NoFlow, SessionsBounds
<1>2. flow' = [flow EXCEPT ![f] = NoFlow]
    BY DEF Consume
<1>3. flow' \in [Flows -> FlowRows] /\ \A g \in Flows : flow'[g] \in {flow[g], NoFlow}
    BY <1>1, <1>2
<1> QED BY <1>3, FlowsGoOn DEF FlowRows

(* registerPasskeyFinish: the challenge named the live session that asked, *)
(* so the account is not linked.                                           *)
LEMMA RegisterFinishKeeps ==
    ASSUME SessionsBounds, SessionsInv, NEW t \in Tasks, NEW s \in Slots, RegisterFinish(t, s)
    PROVE  SessionsInv'
<1>1. UNCHANGED <<acc, member, key, counter, sess, asked, starts, answered, epoch, keyEpoch, closed, proved>>
    BY DEF RegisterFinish, ghosts
<1>2. Onward
    BY <1>1, NothingLost
<1>3. PICK f \in Flows : Consume(f, "register", s)
    BY DEF RegisterFinish
<1>4. FlowInv'
    BY <1>2, <1>3, ChallengeSpent
<1> DEFINE x == [op |-> "addKey", s |-> s, k |-> 0, n |-> 0, c |-> 0, via |-> FALSE]
<1>5. task' = [task EXCEPT ![t] = x] /\ Live(s)
    BY BeginIs DEF RegisterFinish, Active
<1>6. Used(s) /\ ~acc.platform
    <2>1. flow[f].kind = "register" /\ flow[f].s = s
        BY <1>3 DEF Consume
    <2> QED BY <1>5, <2>1 DEF SessionsInv, FlowInv, FlowStands
<1>7. x \in Requests
    BY DEF Requests, Ops, SessionsBounds, Slots
<1>8. task'[t] = x
    BY <1>5 DEF SessionsInv, TaskInv
<1>9. TaskStands(task[t])'
    BY <1>1, <1>6, <1>8 DEF TaskStands, Starter, Used
<1> HIDE DEF x
<1>10. counter' \in [KeyIDs -> Nat]
    BY <1>1 DEF SessionsInv, KeyInv, SessionsBounds
<1>11. TaskInv'
    BY <1>1, <1>2, <1>5, <1>7, <1>9, <1>10, BeginStands
<1> QED BY <1>1, <1>4, <1>11, SessionsStay, KeysStay, CrossedStays DEF SessionsInv, NumberInv

(* The authenticator's counter passes the stored one. *)
LEMMA AssertionKeeps ==
    ASSUME SessionsBounds, SessionsInv, NEW t \in Tasks, NEW k \in KeyIDs, NEW s \in 0..MaxSessions,
           Assertion(t, k, s), s # 0 => Active(s),
           UNCHANGED <<acc, member, key, sess, asked, starts, answered, epoch, keyEpoch, closed, proved>>
    PROVE  SessionsInv'
<1>1. counter' = [counter EXCEPT ![k] = counter[k] + 1] /\ counter[k] < MaxSessions /\ k \in LiveKeys
      /\ counter[k] + 1 > key[k].count
    BY DEF Assertion
<1>2. counter \in [KeyIDs -> 0..MaxSessions] /\ key \in [KeyIDs -> Keys]
    BY DEF SessionsInv, KeyInv
<1>3. counter' \in [KeyIDs -> 0..MaxSessions] /\ counter'[k] = counter[k] + 1
      /\ \A q \in KeyIDs : counter[q] <= counter'[q]
    BY <1>1, <1>2 DEF SessionsBounds
<1>4. Onward
    BY <1>2, <1>3 DEF Onward, SessionsInv, SessInv, NumberInv, SessionsBounds, Live, Used
<1>5. KeyInv'
    <2>1. key[k].count \in Nat /\ key' = key
        BY <1>2 DEF Keys, SessionsBounds
    <2>2. \A q \in KeyIDs : key'[q].ver <= key'[q].count /\ key'[q].count <= counter'[q]
        BY <1>2, <1>3, <2>1 DEF SessionsInv, KeyInv, Keys, SessionsBounds
    <2>3. LiveKeys' = LiveKeys
        BY <2>1 DEF LiveKeys
    <2> QED BY <1>2, <1>3, <2>1, <2>2, <2>3 DEF SessionsInv, KeyInv, WithinKeyLimit
<1>6. FlowInv'
    <2>1. PICK f \in Flows : Consume(f, IF s = 0 THEN "login" ELSE "stepUp", s)
        BY DEF Assertion
    <2> QED BY <2>1, <1>4, ChallengeSpent
<1> DEFINE v == key[k].ver
           c == counter[k] + 1
           x == [op |-> "assert", s |-> s, k |-> k, n |-> v, c |-> c, via |-> FALSE]
<1>7. v \in Nat /\ c \in Nat
    BY <1>2 DEF Keys, SessionsBounds
<1>8. task' = [task EXCEPT ![t] = x]
    <2>1. ASSUME NEW y, y = [Idle EXCEPT !.op = "assert", !.s = s, !.k = k, !.n = key[k].ver, !.c = counter[k] + 1]
          PROVE  y = x
        BY <2>1 DEF Idle
    <2>2. task' = [task EXCEPT ![t] = [Idle EXCEPT !.op = "assert", !.s = s, !.k = k, !.n = key[k].ver, !.c = counter[k] + 1]]
        BY DEF Assertion
    <2> HIDE DEF x
    <2> QED BY <2>1, <2>2
<1>9. x \in Requests
    BY <1>7 DEF Requests, Ops, SessionsBounds
<1>10. task'[t] = x
    BY <1>8 DEF SessionsInv, TaskInv
<1>11. TaskStands(task[t])'
    <2>1. AssertStands(task[t])'
        BY <1>1, <1>3, <1>7, <1>10 DEF AssertStands, Starter, Used, Active, Live, Slots, SessionsBounds
    <2> QED BY <1>10, <2>1 DEF TaskStands
<1> HIDE DEF x
<1>12. counter' \in [KeyIDs -> Nat]
    BY <1>3 DEF SessionsBounds
<1>13. TaskInv'
    BY <1>4, <1>8, <1>9, <1>11, <1>12, BeginStands
<1> QED BY <1>5, <1>6, <1>13, SessionsStay, CrossedStays DEF SessionsInv, NumberInv

(* The uses of a passkey, up to their transaction.                         *)
LEMMA PasskeyUsesKeep ==
    ASSUME SessionsBounds, SessionsInv, NEW t \in Tasks,
           LoginPasskeyFinish(t) \/ \E s \in Slots : RegisterFinish(t, s) \/ StepUpPasskey(t, s)
    PROVE  SessionsInv'
<1>1. ASSUME LoginPasskeyFinish(t) PROVE SessionsInv'
    BY <1>1, AssertionKeeps DEF LoginPasskeyFinish, ghosts, SessionsBounds
<1>2. ASSUME NEW s \in Slots, StepUpPasskey(t, s) PROVE SessionsInv'
    BY <1>2, AssertionKeeps DEF StepUpPasskey, ghosts, SessionsBounds, Slots
<1> QED BY <1>1, <1>2, RegisterFinishKeeps

(* A membership that comes back and a re-authentication at the provider.   *)
LEMMA OthersKeep ==
    ASSUME SessionsBounds, SessionsInv, JoinAgain \/ ProviderAsks
    PROVE  SessionsInv'
<1>1. UNCHANGED <<acc, key, counter, flow, sess, task, starts, answered, epoch, keyEpoch, closed, proved>>
    BY DEF JoinAgain, ProviderAsks, ghosts
<1>2. asked' \in 0..starts /\ asked <= asked' /\ member' \in BOOLEAN /\ (member => member')
    <2>1. asked \in Nat /\ starts \in Nat /\ asked \in 0..starts /\ member \in BOOLEAN
        BY DEF SessionsInv, NumberInv, SessInv, SessionsBounds
    <2>2. CASE JoinAgain
        BY <2>1, <2>2 DEF JoinAgain
    <2>3. CASE ProviderAsks
        BY <2>1, <2>3 DEF ProviderAsks
    <2> QED BY <2>2, <2>3
<1>3. Onward
    BY <1>1, <1>2 DEF Onward, SessionsInv, SessInv, NumberInv, KeyInv, SessionsBounds, Keys, Live, Used
<1>4. TaskInv' /\ FlowInv'
    BY <1>1, <1>2, <1>3, TasksStay, FlowsStay DEF SessionsInv, SessInv, NumberInv, KeyInv, SessionsBounds
<1>5. Crossed'
    BY <1>1, <1>2 DEF SessionsInv, Crossed, NothingOlder, KeysOfNow, KeyedSessions, MembersOnly, Live, LiveKeys
<1> QED BY <1>1, <1>2, <1>4, <1>5, SessionsStay, KeysStay DEF SessionsInv, NumberInv

-----------------------------------------------------------------------------
(* Sessions that end. *)

(* A row that Rekey, endSession and the others revoke.                     *)
LEMMA RevokedIs ==
    ASSUME SessionsBounds, SessInv, NEW s \in Slots
    PROVE  /\ Live(s) => Revoked(s) = [st |-> "revoked", fam |-> sess[s].fam, team |-> FALSE, key |-> 0,
                                       fresh |-> FALSE, start |-> 0, born |-> 0]
           /\ ~Live(s) => Revoked(s) = sess[s]
           /\ Revoked(s) \in Rows
<1> DEFINE row == [st |-> "revoked", fam |-> sess[s].fam, team |-> FALSE, key |-> 0,
                   fresh |-> FALSE, start |-> 0, born |-> 0]
<1>1. ASSUME NEW x, x = [NoSession EXCEPT !.st = "revoked", !.fam = sess[s].fam] PROVE x = row
    BY <1>1 DEF NoSession
<1>2. row \in Rows /\ sess[s] \in Rows
    BY DEF Rows, SessInv, SessionsBounds
<1> HIDE DEF row
<1>3. Live(s) => Revoked(s) = row
    BY <1>1 DEF Revoked
<1>4. ~Live(s) => Revoked(s) = sess[s]
    BY DEF Revoked
<1> QED BY <1>2, <1>3, <1>4 DEF row

Ended(s) ==
    /\ Used(s) /\ Used(s)' /\ ~Live(s)'
    /\ sess'[s].start = 0 /\ ~sess'[s].fresh
    /\ Names(s)' => Names(s) /\ sess'[s].fam = sess[s].fam
Ending == sess' \in [Slots -> Rows] /\ \A s \in Slots : sess'[s] = sess[s] \/ Ended(s)
SessionsOnward == \A s \in Slots : Used(s) => Used(s)' /\ (Live(s)' => Live(s) /\ sess'[s].fam = sess[s].fam)

(* Revoking a row ends it, or leaves it.                                   *)
LEMMA EndedBy ==
    ASSUME SessionsBounds, SessInv, NEW s \in Slots, sess'[s] = Revoked(s)
    PROVE  sess'[s] = sess[s] \/ Ended(s)
<1>1. CASE ~Live(s)
    BY <1>1, RevokedIs
<1>2. CASE Live(s)
    <2> DEFINE row == [st |-> "revoked", fam |-> sess[s].fam, team |-> FALSE, key |-> 0,
                       fresh |-> FALSE, start |-> 0, born |-> 0]
    <2>1. sess'[s] = row
        BY <1>2, RevokedIs
    <2> QED BY <1>2, <2>1 DEF Ended, Used, Live, Names
<1> QED BY <1>1, <1>2

(* Sessions that only end keep what is known of the rest, and a family     *)
(* that is closed has none left.                                           *)
LEMMA EndingKeeps ==
    ASSUME SessionsBounds, SessInv, Ending, UNCHANGED <<starts, answered, proved>>,
           \/ closed' = closed
           \/ \E f \in Slots : /\ Used(f) /\ closed' = closed \union {f}
                               /\ \A s \in Slots : sess[s].fam = f => ~Live(s)'
    PROVE  /\ SessInv' /\ SessionsOnward
           /\ \A s \in Slots : Live(s)' => Live(s) /\ sess'[s] = sess[s]
<1>1. \A s \in Slots : Used(s) => Used(s)'
    BY DEF Ending, Ended, Used
<1>2. \A s \in Slots : Live(s)' => Live(s) /\ sess'[s] = sess[s]
    BY DEF Ending, Ended, Live
<1>3. SessionsOnward
    BY <1>1, <1>2 DEF SessionsOnward
<1>4. Shape'
    <2> SUFFICES ASSUME NEW s \in Slots
                 PROVE  /\ ~Live(s)' => sess'[s].start = 0 /\ ~sess'[s].fresh
                        /\ Names(s)' => sess'[s].fam \in Slots /\ Used(sess[s].fam)'
                        /\ ~Used(s)' => sess'[s].fam = 0
        BY DEF Shape
    <2>1. CASE sess'[s] = sess[s]
        <3>1. ~Live(s)' => sess'[s].start = 0 /\ ~sess'[s].fresh
            BY <2>1 DEF SessInv, Shape, Live
        <3>2. Names(s)' => sess'[s].fam \in Slots /\ Used(sess[s].fam)'
            BY <1>1, <2>1 DEF SessInv, Shape, Names, Used
        <3>3. ~Used(s)' => sess'[s].fam = 0
            BY <2>1 DEF SessInv, Shape, Used
        <3> QED BY <3>1, <3>2, <3>3
    <2>2. CASE Ended(s)
        <3>1. Names(s)' => sess'[s].fam \in Slots /\ Used(sess[s].fam)'
            BY <1>1, <2>2 DEF SessInv, Shape, Ended, Used
        <3> QED BY <2>2, <3>1 DEF Ended
    <2> QED BY <2>1, <2>2 DEF Ending
<1>5. closed' \subseteq Slots /\ ClosedBegan'
    BY <1>1 DEF ClosedBegan, SessInv, Used
<1>6. StartsStand'
    <2>1. \A s \in Slots : sess'[s].start = sess[s].start \/ sess'[s].start = 0
        BY DEF Ending, Ended
    <2>2. \A s \in Slots : sess'[s].start > 0 => sess'[s] = sess[s]
        BY DEF Ending, Ended
    <2>3. \A s \in Slots : sess'[s].start <= starts /\ sess'[s].start \notin answered
        BY <2>1 DEF SessInv, StartsStand, SessionsBounds
    <2>4. \A s \in Slots : sess'[s].start \in Nat
        BY DEF Ending, Rows, SessionsBounds
    <2> QED BY <2>2, <2>3, <2>4 DEF SessInv, StartsStand
<1>7. SignedOut' /\ FreshIsProved'
    BY <1>2 DEF SignedOut, FreshIsProved, SessInv
<1> QED BY <1>2, <1>3, <1>4, <1>5, <1>6, <1>7 DEF SessInv, Ending

(* Sessions that only end, or begin in a free row, take nothing back.      *)
LEMMA OnwardIs ==
    ASSUME SessionsBounds, SessionsInv, SessionsOnward, UNCHANGED <<key, counter, acc, starts, asked>>
    PROVE  Onward
BY DEF Onward, SessionsOnward, SessionsInv, SessInv, NumberInv, KeyInv, SessionsBounds, Keys

(* What a passkey's end, a sign-out, a removal and an expiry leave. *)
LEMMA EndingActionKeeps ==
    ASSUME SessionsBounds, SessionsInv, Ending,
           UNCHANGED <<acc, key, counter, flow, task, asked, starts, answered, epoch, keyEpoch, proved>>,
           \/ closed' = closed
           \/ \E f \in Slots : /\ Used(f) /\ closed' = closed \union {f}
                               /\ \A s \in Slots : sess[s].fam = f => ~Live(s)',
           member' = member \/ (member' = FALSE /\ \A s \in Slots : sess[s].team => ~Live(s)')
    PROVE  SessionsInv'
<1>1. SessInv' /\ SessionsOnward /\ \A s \in Slots : Live(s)' => Live(s) /\ sess'[s] = sess[s]
    BY EndingKeeps DEF SessionsInv
<1>2. Onward
    BY <1>1, OnwardIs
<1>3. TaskInv' /\ FlowInv'
    BY <1>2, TasksStay, FlowsStay DEF SessionsInv, SessInv, NumberInv, KeyInv, SessionsBounds
<1>4. Crossed'
    <2>1. LiveKeys' = LiveKeys
        BY DEF LiveKeys
    <2> QED BY <1>1, <2>1 DEF SessionsInv, Crossed, NothingOlder, KeysOfNow, KeyedSessions, MembersOnly
<1>5. NumberInv'
    BY DEF SessionsInv, NumberInv
<1> QED BY <1>1, <1>3, <1>4, <1>5, KeysStay DEF SessionsInv

(* endSession, removeMember and the expiry.                                *)
LEMMA SignOutsKeep ==
    ASSUME SessionsBounds, SessionsInv,
           RemoveMember \/ \E s \in Slots : Logout(s) \/ Expire(s)
    PROVE  SessionsInv'
<1>1. SessInv /\ sess \in [Slots -> Rows]
    BY DEF SessionsInv, SessInv
<1>2. ASSUME NEW s \in Slots, Logout(s) PROVE SessionsInv'
    <2>1. UNCHANGED <<acc, member, key, counter, flow, task, asked, starts, answered, epoch, keyEpoch, proved>>
        BY <1>2 DEF Logout
    <2>2. CASE Live(s) /\ sess' = [sess EXCEPT ![s] = Revoked(s)] /\ UNCHANGED closed
        <3>1. \A r \in Slots : sess'[r] = IF r = s THEN Revoked(s) ELSE sess[r]
            BY <1>1, <2>2
        <3>2. Revoked(s) \in Rows
            BY <1>1, RevokedIs
        <3>3. sess' \in [Slots -> Rows]
            BY <1>1, <2>2, <3>2
        <3>4. Ending
            BY <1>1, <3>1, <3>3, EndedBy DEF Ending
        <3> QED BY <2>1, <2>2, <3>4, EndingActionKeeps
    <2>3. CASE sess' = EndsFamily(s) /\ closed' = closed \union {sess[s].fam}
        <3>1. \A r \in Slots : sess'[r] = IF r \in Family(s) THEN Revoked(r) ELSE sess[r]
            BY <2>3 DEF EndsFamily
        <3>2. \A r \in Slots : Revoked(r) \in Rows
            BY <1>1, RevokedIs
        <3>3. sess' \in [Slots -> Rows]
            BY <1>1, <2>3, <3>2 DEF EndsFamily
        <3>4. Ending
            BY <1>1, <3>1, <3>3, EndedBy DEF Ending
        <3>5. sess[s].fam \in Slots /\ Used(sess[s].fam)
            BY <1>1, <1>2 DEF Logout, SessInv, Shape
        <3>6. ASSUME NEW r \in Slots, sess[r].fam = sess[s].fam PROVE ~Live(r)'
            <4>1. sess'[r] = Revoked(r)
                BY <3>1, <3>6 DEF Family
            <4> QED BY <1>1, <4>1, RevokedIs DEF Live
        <3> QED BY <2>1, <2>3, <3>4, <3>5, <3>6, EndingActionKeeps
    <2> QED BY <1>2, <2>2, <2>3 DEF Logout
<1>3. ASSUME NEW f \in Slots, Expire(f) PROVE SessionsInv'
    <2>1. UNCHANGED <<acc, member, key, counter, flow, task, asked, starts, answered, epoch, keyEpoch, closed, proved>>
        BY <1>3 DEF Expire, ghosts
    <2> DEFINE row == [NoSession EXCEPT !.st = "expired"]
    <2>2. row \in Rows /\ row.st = "expired" /\ row.start = 0 /\ row.fresh = FALSE
        <3> DEFINE none == [st |-> "expired", fam |-> 0, team |-> FALSE, key |-> 0,
                            fresh |-> FALSE, start |-> 0, born |-> 0]
        <3>1. ASSUME NEW x, x = [NoSession EXCEPT !.st = "expired"] PROVE x = none
            BY <3>1 DEF NoSession
        <3>2. none \in Rows
            BY DEF Rows, SessionsBounds
        <3>3. row = none
            BY <3>1
        <3> HIDE DEF row
        <3> QED BY <3>2, <3>3
    <2> HIDE DEF row
    <2>3. sess' = [s \in Slots |-> IF sess[s].fam = f THEN row ELSE sess[s]]
        BY <1>3 DEF Expire, row
    <2>4. sess' \in [Slots -> Rows]
        BY <1>1, <2>2, <2>3
    <2>5. ASSUME NEW s \in Slots PROVE sess'[s] = sess[s] \/ Ended(s)
        <3>1. CASE sess[s].fam = f /\ Used(s)
            BY <2>2, <2>3, <3>1 DEF Ended, Used, Live, Names
        <3>2. CASE sess[s].fam = f /\ ~Used(s)
            BY <1>1, <3>2 DEF SessInv, Shape, Slots, SessionsBounds
        <3>3. CASE sess[s].fam # f
            BY <2>3, <3>3
        <3> QED BY <3>1, <3>2, <3>3
    <2>6. Ending
        BY <2>4, <2>5 DEF Ending
    <2> QED BY <2>1, <2>6, EndingActionKeeps
<1>4. ASSUME RemoveMember PROVE SessionsInv'
    <2>1. UNCHANGED <<acc, key, counter, flow, task, asked, starts, answered, epoch, keyEpoch, closed, proved>>
        BY <1>4 DEF RemoveMember, ghosts
    <2>2. member' = FALSE /\ sess' = [s \in Slots |-> IF sess[s].team THEN Revoked(s) ELSE sess[s]]
        BY <1>4 DEF RemoveMember
    <2>3. \A r \in Slots : Revoked(r) \in Rows
        BY <1>1, RevokedIs
    <2>4. sess' \in [Slots -> Rows]
        BY <1>1, <2>2, <2>3
    <2>5. Ending
        BY <1>1, <2>2, <2>4, EndedBy DEF Ending
    <2>6. ASSUME NEW s \in Slots, sess[s].team PROVE ~Live(s)'
        <3>1. sess'[s] = Revoked(s)
            BY <2>2, <2>6
        <3> QED BY <1>1, <3>1, RevokedIs DEF Live
    <2> QED BY <2>1, <2>2, <2>5, <2>6, EndingActionKeeps
<1> QED BY <1>2, <1>3, <1>4

-----------------------------------------------------------------------------
(* Credentials that change. *)

(* Passkeys that are revoked, or counted, leave a part of the live ones.   *)
LEMMA FewerKeys ==
    ASSUME SessionsBounds, KeyInv, LiveKeys' \subseteq LiveKeys
    PROVE  IsFiniteSet(LiveKeys') /\ Cardinality(LiveKeys') <= KeyMax
<1>1. IsFiniteSet(LiveKeys') /\ Cardinality(LiveKeys') <= Cardinality(LiveKeys)
    BY FS_Subset DEF KeyInv
<1>2. Cardinality(LiveKeys) \in Nat /\ Cardinality(LiveKeys') \in Nat
    BY <1>1, FS_CardinalityType DEF KeyInv
<1> QED BY <1>1, <1>2 DEF KeyInv, WithinKeyLimit, SessionsBounds

(* Every passkey revoked. *)
LEMMA RevokeKeysIs ==
    ASSUME SessionsBounds, KeyInv, key' = RevokeKeys, UNCHANGED counter
    PROVE  /\ KeyInv' /\ LiveKeys' = {}
           /\ \A k \in KeyIDs : key'[k].ver = key[k].ver /\ key'[k].count = key[k].count
<1>1. key \in [KeyIDs -> Keys]
    BY DEF KeyInv
<1>2. ASSUME NEW k \in KeyIDs
      PROVE  /\ key'[k] \in Keys /\ key'[k].st # "live"
             /\ key'[k].ver = key[k].ver /\ key'[k].count = key[k].count
    <2>1. key'[k] = IF key[k].st = "live" THEN [key[k] EXCEPT !.st = "revoked"] ELSE key[k]
        BY DEF RevokeKeys
    <2>2. ASSUME NEW x, x = [key[k] EXCEPT !.st = "revoked"]
          PROVE  x \in Keys /\ x.st = "revoked" /\ x.ver = key[k].ver /\ x.count = key[k].count
        BY <1>1, <2>2 DEF Keys
    <2> QED BY <1>1, <2>1, <2>2
<1>3. key' \in [KeyIDs -> Keys]
    BY <1>2 DEF RevokeKeys
<1>4. LiveKeys' = {}
    BY <1>2 DEF LiveKeys
<1>5. IsFiniteSet(LiveKeys') /\ Cardinality(LiveKeys') <= KeyMax
    BY <1>4, FewerKeys
<1> QED BY <1>2, <1>3, <1>4, <1>5 DEF KeyInv, WithinKeyLimit

(* Every session ended. *)
LEMMA RevokeAllIs ==
    ASSUME SessionsBounds, SessionsInv, sess' = RevokeAll, UNCHANGED <<starts, answered, closed, proved>>
    PROVE  SessInv' /\ SessionsOnward /\ \A s \in Slots : ~Live(s)'
<1>1. SessInv /\ sess \in [Slots -> Rows]
    BY DEF SessionsInv, SessInv
<1>2. \A s \in Slots : sess'[s] = Revoked(s) /\ Revoked(s) \in Rows
    BY <1>1, RevokedIs DEF RevokeAll
<1>3. sess' \in [Slots -> Rows]
    BY <1>2 DEF RevokeAll
<1>4. Ending
    BY <1>1, <1>2, <1>3, EndedBy DEF Ending
<1>5. \A s \in Slots : ~Live(s)'
    BY <1>1, <1>2, RevokedIs DEF Live
<1> QED BY <1>1, <1>4, <1>5, EndingKeeps

(* The account's challenges dropped, the others kept.                      *)
LEMMA DropFlowsIs ==
    ASSUME SessionsBounds, SessionsInv, flow' = DropFlows
    PROVE  /\ \A f \in Flows : flow'[f] \in {flow[f], NoFlow}
           /\ flow' \in [Flows -> FlowRows]
<1>1. flow \in [Flows -> FlowRows] /\ NoFlow \in FlowRows
    BY DEF SessionsInv, FlowInv, FlowRows, NoFlow, SessionsBounds
<1> QED BY <1>1 DEF DropFlows

(* A request that goes on as a sign-in. *)
LEMMA BecomesStands ==
    ASSUME SessionsBounds, SessionsInv, Onward,
           starts' \in Nat, asked' \in Nat, counter' \in [KeyIDs -> Nat], key' \in [KeyIDs -> Keys],
           NEW t \in Tasks, NEW x \in Requests, task' = [task EXCEPT ![t] = x],
           x.op = "issue", x.k \in KeyIDs \union {0}
    PROVE  TaskInv'
<1>1. task'[t] = x
    BY DEF SessionsInv, TaskInv
<1>2. TaskStands(task[t])'
    BY <1>1 DEF TaskStands
<1> QED BY <1>2, TasksGoOn

(* Rekey ends every session, and after a recovery every passkey.           *)
LEMMA RekeyKeeps ==
    ASSUME SessionsBounds, SessionsInv, NEW t \in Tasks, Rekey(t)
    PROVE  SessionsInv'
<1> DEFINE lost == At(t, "recover")
<1>1. /\ task[t].op \in {"rekey", "recover"} /\ epoch < MaxChanges
      /\ acc' = [acc EXCEPT !.pw = acc.pw + 1]
      /\ key' = IF lost THEN RevokeKeys ELSE key
      /\ flow' = IF lost THEN DropFlows ELSE flow
      /\ keyEpoch' = IF lost THEN keyEpoch + 1 ELSE keyEpoch
      /\ sess' = RevokeAll /\ epoch' = epoch + 1
      /\ Becomes(t, "issue")
      /\ UNCHANGED <<member, counter, asked, starts, answered, closed, proved>>
    BY DEF Rekey, Changes
<1>2. SessInv' /\ SessionsOnward /\ \A s \in Slots : ~Live(s)'
    BY <1>1, RevokeAllIs
<1>3. /\ KeyInv' /\ LiveKeys' \subseteq LiveKeys /\ (lost => LiveKeys' = {})
      /\ \A k \in KeyIDs : key'[k].ver = key[k].ver /\ key'[k].count = key[k].count
    <2>1. CASE lost
        BY <1>1, <2>1, RevokeKeysIs DEF SessionsInv
    <2>2. CASE ~lost
        BY <1>1, <2>2, KeysStay DEF SessionsInv
    <2> QED BY <2>1, <2>2
<1>4. NumberInv' /\ acc'.platform = acc.platform
    <2>1. acc \in [pw : 1..MaxChanges + 1, platform : BOOLEAN] /\ epoch \in Nat /\ keyEpoch \in 0..epoch /\ acc.pw <= epoch + 1
        BY DEF SessionsInv, NumberInv, SessionsBounds
    <2>2. acc' \in [pw : 1..MaxChanges + 1, platform : BOOLEAN] /\ acc'.pw = acc.pw + 1 /\ acc'.platform = acc.platform
        BY <1>1, <2>1 DEF SessionsBounds
    <2>3. keyEpoch' \in 0..epoch'
        BY <1>1, <2>1
    <2>4. epoch' \in 0..MaxChanges
        BY <1>1, <2>1 DEF SessionsBounds
    <2>5. acc'.pw <= epoch' + 1
        BY <1>1, <2>1, <2>2 DEF SessionsBounds
    <2> QED BY <1>1, <2>2, <2>3, <2>4, <2>5 DEF SessionsInv, NumberInv
<1>5. counter' \in [KeyIDs -> Nat] /\ key' \in [KeyIDs -> Keys] /\ starts' \in Nat /\ asked' \in Nat
    BY <1>1, <1>3 DEF SessionsInv, KeyInv, SessInv, NumberInv, SessionsBounds
<1>6. Onward
    BY <1>1, <1>2, <1>3, <1>4, <1>5 DEF Onward, SessionsOnward, SessionsInv, KeyInv, Keys, SessionsBounds
<1>7. TaskInv'
    <2>1. task[t] \in Requests /\ task[t].k \in KeyIDs \union {0}
        BY <1>1, RequestsTaken DEF TaskStands
    <2> DEFINE x == [task[t] EXCEPT !.op = "issue", !.n = 0]
    <2>2. x \in Requests /\ x.op = "issue" /\ x.k = task[t].k
        <3>1. ASSUME NEW y, y = [task[t] EXCEPT !.op = "issue", !.n = 0]
              PROVE  y \in Requests /\ y.op = "issue" /\ y.k = task[t].k
            BY <2>1, <3>1 DEF Requests, Ops
        <3> QED BY <3>1
    <2>3. task' = [task EXCEPT ![t] = x]
        BY <1>1 DEF Becomes, SessionsInv, TaskInv
    <2> HIDE DEF x
    <2> QED BY <1>5, <1>6, <2>1, <2>2, <2>3, BecomesStands
<1>8. FlowInv'
    <2>1. CASE lost
        BY <1>1, <1>6, <2>1, DropFlowsIs, FlowsGoOn DEF FlowRows
    <2>2. CASE ~lost
        BY <1>1, <1>6, <2>2, FlowsStay
    <2> QED BY <2>1, <2>2
<1>9. Crossed'
    <2>1. NothingOlder' /\ KeyedSessions' /\ MembersOnly'
        BY <1>2 DEF NothingOlder, KeyedSessions, MembersOnly
    <2>2. KeysOfNow'
        <3>1. CASE lost
            BY <1>3, <3>1 DEF KeysOfNow
        <3>2. CASE ~lost
            BY <1>1, <1>3, <1>4, <3>2 DEF KeysOfNow, SessionsInv, Crossed
        <3> QED BY <3>1, <3>2
    <2> QED BY <2>1, <2>2 DEF Crossed
<1> QED BY <1>2, <1>3, <1>4, <1>7, <1>8, <1>9 DEF SessionsInv

(* LinkLegacy ends every session and every passkey.                        *)
LEMMA LinkLegacyKeeps ==
    ASSUME SessionsBounds, SessionsInv, NEW t \in Tasks, LinkLegacy(t)
    PROVE  SessionsInv'
<1>1. CASE Done(t) /\ UNCHANGED <<acc, member, key, counter, flow, sess, asked, starts, answered, epoch, keyEpoch, closed, proved>>
    <2>1. Onward
        BY <1>1, NothingLost
    <2>2. counter' \in [KeyIDs -> Nat] /\ key' \in [KeyIDs -> Keys] /\ starts' \in Nat /\ asked' \in Nat
        BY <1>1 DEF SessionsInv, KeyInv, SessInv, NumberInv, SessionsBounds
    <2>3. TaskInv' /\ FlowInv'
        BY <1>1, <2>1, <2>2, TaskEnds, FlowsStay
    <2> QED BY <1>1, <2>3, SessionsStay, KeysStay, CrossedStays DEF SessionsInv, NumberInv
<1>2. CASE /\ acc' = [acc EXCEPT !.platform = TRUE] /\ epoch < MaxChanges
           /\ key' = RevokeKeys /\ flow' = DropFlows /\ sess' = RevokeAll
           /\ epoch' = epoch + 1 /\ keyEpoch' = keyEpoch + 1
           /\ task' = [task EXCEPT ![t] = [Idle EXCEPT !.op = "issue", !.via = TRUE, !.n = 1]]
           /\ UNCHANGED <<member, counter, asked, starts, answered, closed, proved>>
    <2>1. SessInv' /\ SessionsOnward /\ \A s \in Slots : ~Live(s)'
        BY <1>2, RevokeAllIs
    <2>2. /\ KeyInv' /\ LiveKeys' = {}
          /\ \A k \in KeyIDs : key'[k].ver = key[k].ver /\ key'[k].count = key[k].count
        BY <1>2, RevokeKeysIs DEF SessionsInv
    <2>3. NumberInv'
        <3>1. acc \in [pw : 1..MaxChanges + 1, platform : BOOLEAN] /\ epoch \in Nat /\ keyEpoch \in 0..epoch /\ acc.pw <= epoch + 1
            BY DEF SessionsInv, NumberInv, SessionsBounds
        <3>2. acc' \in [pw : 1..MaxChanges + 1, platform : BOOLEAN] /\ acc'.pw = acc.pw
            BY <1>2, <3>1
        <3>3. keyEpoch' \in 0..epoch' /\ epoch' \in 0..MaxChanges /\ acc'.pw <= epoch' + 1
            BY <1>2, <3>1, <3>2 DEF SessionsBounds
        <3> QED BY <1>2, <3>2, <3>3 DEF SessionsInv, NumberInv
    <2>4. counter' \in [KeyIDs -> Nat] /\ key' \in [KeyIDs -> Keys] /\ starts' \in Nat /\ asked' \in Nat
        BY <1>2, <2>2 DEF SessionsInv, KeyInv, SessInv, NumberInv, SessionsBounds
    <2>5. Onward
        BY <1>2, <2>1, <2>2, <2>4 DEF Onward, SessionsOnward, SessionsInv, KeyInv, Keys, SessionsBounds
    <2>6. TaskInv'
        <3> DEFINE x == [op |-> "issue", s |-> 0, k |-> 0, n |-> 1, c |-> 0, via |-> TRUE]
        <3>1. ASSUME NEW y, y = [Idle EXCEPT !.op = "issue", !.via = TRUE, !.n = 1] PROVE y = x
            BY <3>1 DEF Idle
        <3>2. x \in Requests /\ x.op = "issue" /\ x.k = 0
            BY DEF Requests, Ops, SessionsBounds
        <3> HIDE DEF x
        <3>3. task' = [task EXCEPT ![t] = x]
            BY <1>2, <3>1
        <3> QED BY <2>4, <2>5, <3>2, <3>3, BecomesStands
    <2>7. FlowInv'
        BY <1>2, <2>5, DropFlowsIs, FlowsGoOn DEF FlowRows
    <2>8. Crossed'
        BY <2>1, <2>2 DEF Crossed, NothingOlder, KeysOfNow, KeyedSessions, MembersOnly
    <2> QED BY <2>1, <2>2, <2>3, <2>6, <2>7, <2>8 DEF SessionsInv
<1> QED BY <1>1, <1>2 DEF LinkLegacy, Changes

(* A new passkey stays within the limit, and is of now. *)
LEMMA AddPasskeyKeeps ==
    ASSUME SessionsBounds, SessionsInv, NEW t \in Tasks, AddPasskey(t)
    PROVE  SessionsInv'
<1>1. At(t, "addKey") /\ Done(t) /\ UNCHANGED <<acc, member, counter, flow, sess, asked, starts, answered, epoch, keyEpoch, closed, proved>>
    BY DEF AddPasskey, ghosts
<1>2. key \in [KeyIDs -> Keys]
    BY DEF SessionsInv, KeyInv
<1>3. /\ KeyInv' /\ KeysOfNow'
      /\ LiveKeys \subseteq LiveKeys'
      /\ \A k \in KeyIDs : key'[k].ver = key[k].ver /\ key'[k].count = key[k].count
    <2>1. CASE UNCHANGED key
        BY <1>1, <2>1, KeysStay DEF SessionsInv, Crossed, KeysOfNow
    <2>2. ASSUME MayAdd(task[t].s), NEW k \in KeyIDs, key[k].st = "none",
                 key' = [key EXCEPT ![k] = [key[k] EXCEPT !.st = "live", !.born = keyEpoch]]
          PROVE  /\ KeyInv' /\ KeysOfNow'
                 /\ LiveKeys \subseteq LiveKeys'
                 /\ \A q \in KeyIDs : key'[q].ver = key[q].ver /\ key'[q].count = key[q].count
        <3>1. keyEpoch \in 0..MaxChanges
            BY DEF SessionsInv, NumberInv, SessionsBounds
        <3> DEFINE row == [key[k] EXCEPT !.st = "live", !.born = keyEpoch]
        <3>2. row \in Keys /\ row.st = "live" /\ row.born = keyEpoch /\ row.ver = key[k].ver /\ row.count = key[k].count
            <4>1. ASSUME NEW y, y = row
                  PROVE  y \in Keys /\ y.st = "live" /\ y.born = keyEpoch /\ y.ver = key[k].ver /\ y.count = key[k].count
                BY <1>2, <3>1, <4>1 DEF Keys
            <4> QED BY <4>1
        <3> HIDE DEF row
        <3>3. key' = [key EXCEPT ![k] = row]
            BY <2>2 DEF row
        <3>4. key' \in [KeyIDs -> Keys] /\ key'[k] = row /\ \A q \in KeyIDs : q # k => key'[q] = key[q]
            BY <1>2, <3>2, <3>3
        <3>5. LiveKeys' = LiveKeys \union {k} /\ k \notin LiveKeys
            BY <2>2, <3>2, <3>4 DEF LiveKeys
        <3>6. IsFiniteSet(LiveKeys) /\ Cardinality(LiveKeys) < KeyMax
            BY <2>2 DEF MayAdd, SessionsInv, KeyInv
        <3>7. IsFiniteSet(LiveKeys') /\ Cardinality(LiveKeys') <= KeyMax
            <4>1. IsFiniteSet(LiveKeys \union {k}) /\ Cardinality(LiveKeys \union {k}) = Cardinality(LiveKeys) + 1
                BY <3>5, <3>6, FS_AddElement
            <4>2. Cardinality(LiveKeys) \in Nat
                BY <3>6, FS_CardinalityType
            <4> QED BY <3>5, <3>6, <4>1, <4>2 DEF SessionsBounds
        <3>8. ~acc.platform
            BY <1>1, <2>2, RequestsTaken DEF TaskStands, At, MayAdd
        <3>9. KeysOfNow'
            BY <1>1, <3>2, <3>4, <3>5, <3>8 DEF KeysOfNow, SessionsInv, Crossed, LiveKeys
        <3>10. \A q \in KeyIDs : key'[q].ver = key[q].ver /\ key'[q].count = key[q].count
            BY <3>2, <3>4
        <3> QED BY <1>1, <3>4, <3>5, <3>7, <3>9, <3>10 DEF KeyInv, WithinKeyLimit, SessionsInv
    <2> QED BY <2>1, <2>2 DEF AddPasskey
<1>4. counter' \in [KeyIDs -> Nat] /\ key' \in [KeyIDs -> Keys] /\ starts' \in Nat /\ asked' \in Nat
    BY <1>1, <1>3 DEF SessionsInv, KeyInv, SessInv, NumberInv, SessionsBounds
<1>5. Onward
    BY <1>1, <1>3, <1>4 DEF Onward, SessionsInv, KeyInv, SessInv, NumberInv, Keys, SessionsBounds, Live, Used
<1>6. TaskInv' /\ FlowInv'
    BY <1>1, <1>4, <1>5, TaskEnds, FlowsStay
<1>7. Crossed'
    BY <1>1, <1>3 DEF SessionsInv, Crossed, NothingOlder, KeyedSessions, MembersOnly, Live
<1> QED BY <1>1, <1>3, <1>6, <1>7, SessionsStay DEF SessionsInv, NumberInv

(* The version guard keeps the counter of the latest assertion. *)
LEMMA UpdatePasskeyKeeps ==
    ASSUME SessionsBounds, SessionsInv, NEW t \in Tasks, UpdatePasskey(t)
    PROVE  SessionsInv' /\ CounterNeverBack
<1> DEFINE k == task[t].k
           s == task[t].s
<1>1. At(t, "assert") /\ UNCHANGED <<acc, member, counter, flow, sess, asked, starts, answered, epoch, keyEpoch, closed, proved>>
    BY DEF UpdatePasskey, ghosts
<1>2. key \in [KeyIDs -> Keys] /\ counter \in [KeyIDs -> 0..MaxSessions]
    BY DEF SessionsInv, KeyInv
<1>3. task[t] \in Requests /\ AssertStands(task[t])
    BY <1>1, RequestsTaken DEF TaskStands, At
<1>4. k \in KeyIDs /\ task[t].c \in Nat /\ task[t].n \in Nat /\ task[t].c <= counter[k]
      /\ (s # 0 => s \in Slots /\ Used(s)) /\ s \in 0..MaxSessions
    BY <1>3 DEF AssertStands, Requests, Starter
<1>5. key[k].ver \in Nat /\ key[k].count \in Nat /\ counter[k] \in Nat /\ key[k].ver <= key[k].count /\ counter[k] <= MaxSessions
    BY <1>2, <1>4 DEF Keys, SessionsBounds, SessionsInv, KeyInv
<1>6. CASE ~SameVersion(t) /\ Done(t) /\ UNCHANGED key
    <2>1. Onward
        BY <1>1, <1>6, NothingLost
    <2>2. counter' \in [KeyIDs -> Nat] /\ key' \in [KeyIDs -> Keys] /\ starts' \in Nat /\ asked' \in Nat
        BY <1>1, <1>6 DEF SessionsInv, KeyInv, SessInv, NumberInv, SessionsBounds
    <2>3. TaskInv' /\ FlowInv'
        BY <1>1, <1>6, <2>1, <2>2, TaskEnds, FlowsStay
    <2>4. CounterNeverBack
        BY <1>2, <1>6 DEF CounterNeverBack, Keys, SessionsBounds
    <2> QED BY <1>1, <1>6, <2>3, <2>4, SessionsStay, KeysStay, CrossedStays DEF SessionsInv, NumberInv
<1>7. CASE /\ SameVersion(t)
           /\ key' = [key EXCEPT ![k].ver = key[k].ver + 1, ![k].count = task[t].c]
           /\ task' = [task EXCEPT ![t] = IF task[t].s = 0 THEN [Idle EXCEPT !.op = "issue", !.k = k]
                                                          ELSE [Idle EXCEPT !.op = "mark", !.s = task[t].s]]
    <2>1. key[k].st = "live" /\ task[t].c > key[k].count
        BY <1>3, <1>7 DEF SameVersion, AssertStands
    <2> DEFINE row == [st |-> "live", ver |-> key[k].ver + 1, count |-> task[t].c, born |-> key[k].born]
    <2>2. row \in Keys
        BY <1>2, <1>4, <1>5, <2>1 DEF Keys, SessionsBounds
    <2>3. key' \in [KeyIDs -> Keys] /\ key'[k] = row /\ \A q \in KeyIDs : q # k => key'[q] = key[q]
        <3>1. \A q \in KeyIDs : q # k => key'[q] = key[q]
            BY <1>2, <1>4, <1>7
        <3>2. key'[k].st = "live" /\ key'[k].ver = key[k].ver + 1 /\ key'[k].count = task[t].c /\ key'[k].born = key[k].born
            BY <1>2, <1>4, <1>7, <2>1 DEF Keys
        <3>3. key' \in [KeyIDs -> Keys]
            BY <1>2, <1>4, <1>5, <1>7, <2>1, <2>2 DEF Keys, SessionsBounds
        <3>4. key'[k] \in Keys
            BY <1>4, <3>3
        <3> QED BY <3>1, <3>2, <3>3, <3>4 DEF Keys
    <2> HIDE DEF k, s
    <2>4. LiveKeys' = LiveKeys
        BY <1>4, <2>1, <2>3 DEF LiveKeys
    <2>5. KeyInv'
        <3>1. \A q \in KeyIDs : key'[q].ver <= key'[q].count /\ key'[q].count <= counter[q]
            BY <1>4, <1>5, <2>1, <2>3 DEF SessionsInv, KeyInv, k
        <3> QED BY <1>1, <2>3, <2>4, <3>1 DEF SessionsInv, KeyInv, WithinKeyLimit
    <2>6. counter' \in [KeyIDs -> Nat] /\ starts' \in Nat /\ asked' \in Nat
        BY <1>1 DEF SessionsInv, KeyInv, SessInv, NumberInv, SessionsBounds
    <2>7. Onward
        <3>1. \A q \in KeyIDs : counter[q] <= counter'[q] /\ (key'[q].ver > key[q].ver \/ (key'[q].ver = key[q].ver /\ key'[q].count = key[q].count))
            BY <1>1, <1>2, <1>5, <2>3 DEF SessionsBounds
        <3>2. starts <= starts' /\ asked <= asked'
            BY <1>1, <2>6
        <3> QED BY <1>1, <3>1, <3>2 DEF Onward, Live, Used
    <2>8. TaskInv'
        <3>1. CASE s = 0
            <4> DEFINE x == [op |-> "issue", s |-> 0, k |-> k, n |-> 0, c |-> 0, via |-> FALSE]
            <4>1. ASSUME NEW y, y = [Idle EXCEPT !.op = "issue", !.k = k] PROVE y = x
                BY <4>1 DEF Idle
            <4>2. x \in Requests /\ x.op = "issue" /\ x.k = k
                BY <1>4 DEF Requests, Ops, SessionsBounds
            <4> HIDE DEF x
            <4>3. task' = [task EXCEPT ![t] = x]
                BY <1>7, <3>1, <4>1 DEF s
            <4> QED BY <1>4, <2>3, <2>6, <2>7, <4>2, <4>3, BecomesStands
        <3>2. CASE s # 0
            <4> DEFINE x == [op |-> "mark", s |-> s, k |-> 0, n |-> 0, c |-> 0, via |-> FALSE]
            <4>1. ASSUME NEW y, y = [Idle EXCEPT !.op = "mark", !.s = s] PROVE y = x
                BY <4>1 DEF Idle
            <4>2. x \in Requests
                BY <1>4 DEF Requests, Ops, SessionsBounds
            <4> HIDE DEF x
            <4>3. task' = [task EXCEPT ![t] = x]
                BY <1>7, <3>2, <4>1 DEF s
            <4>4. task'[t] = x
                BY <4>3 DEF SessionsInv, TaskInv
            <4>5. TaskStands(task[t])'
                BY <1>1, <1>4, <3>2, <4>4 DEF TaskStands, Starter, Used, x
            <4> QED BY <2>3, <2>6, <2>7, <4>2, <4>3, <4>5, TasksGoOn
        <3> QED BY <3>1, <3>2
    <2>9. FlowInv'
        BY <1>1, <2>7, FlowsStay
    <2>10. Crossed'
        <3>1. \A q \in LiveKeys : key'[q].born = key[q].born
            BY <2>3 DEF LiveKeys
        <3> QED BY <1>1, <2>4, <3>1 DEF SessionsInv, Crossed, NothingOlder, KeysOfNow, KeyedSessions, MembersOnly, Live
    <2>11. CounterNeverBack
        BY <1>2, <1>5, <1>4, <2>1, <2>3 DEF CounterNeverBack, Keys, SessionsBounds, k
    <2> QED BY <1>1, <2>5, <2>8, <2>9, <2>10, <2>11, SessionsStay DEF SessionsInv, NumberInv
<1> QED BY <1>6, <1>7 DEF UpdatePasskey

(* A passkey ends with the sessions it opened. *)
LEMMA RevokePasskeyKeeps ==
    ASSUME SessionsBounds, SessionsInv, NEW t \in Tasks, RevokePasskey(t)
    PROVE  SessionsInv'
<1> DEFINE k == task[t].k
<1>1. At(t, "revokeKey") /\ Done(t) /\ UNCHANGED <<acc, member, counter, flow, asked, starts, answered, epoch, keyEpoch, closed, proved>>
    BY DEF RevokePasskey, ghosts
<1>2. key \in [KeyIDs -> Keys] /\ SessInv
    BY DEF SessionsInv, KeyInv
<1>3. k \in KeyIDs
    BY <1>1, RequestsTaken DEF TaskStands, At
<1>4. CASE k \notin LiveKeys /\ UNCHANGED <<key, sess>>
    <2>1. Onward
        BY <1>1, <1>4, NothingLost
    <2>2. counter' \in [KeyIDs -> Nat] /\ key' \in [KeyIDs -> Keys] /\ starts' \in Nat /\ asked' \in Nat
        BY <1>1, <1>4 DEF SessionsInv, KeyInv, SessInv, NumberInv, SessionsBounds
    <2>3. TaskInv' /\ FlowInv'
        BY <1>1, <2>1, <2>2, TaskEnds, FlowsStay
    <2> QED BY <1>1, <1>4, <2>3, SessionsStay, KeysStay, CrossedStays DEF SessionsInv, NumberInv
<1>5. CASE /\ k \in LiveKeys
           /\ key' = [key EXCEPT ![k].st = "revoked"]
           /\ sess' = [s \in Slots |-> IF sess[s].key = k THEN Revoked(s) ELSE sess[s]]
    <2>1. /\ key' \in [KeyIDs -> Keys] /\ key'[k].st = "revoked"
          /\ \A q \in KeyIDs : /\ q # k => key'[q] = key[q]
                               /\ key'[q].ver = key[q].ver /\ key'[q].count = key[q].count
        BY <1>2, <1>3, <1>5 DEF Keys
    <2>2. LiveKeys' = LiveKeys \ {k}
        BY <1>3, <2>1 DEF LiveKeys
    <2>3. KeyInv'
        <3>1. IsFiniteSet(LiveKeys') /\ Cardinality(LiveKeys') <= KeyMax
            BY <2>2, FewerKeys DEF SessionsInv
        <3> QED BY <1>1, <2>1, <3>1 DEF SessionsInv, KeyInv, WithinKeyLimit
    <2>4. \A s \in Slots : Revoked(s) \in Rows /\ sess[s] \in Rows
        BY <1>2, RevokedIs DEF SessInv
    <2>5. sess' \in [Slots -> Rows]
        BY <1>5, <2>4
    <2>6. Ending
        BY <1>2, <1>5, <2>5, EndedBy DEF Ending
    <2>7. SessInv' /\ SessionsOnward /\ \A s \in Slots : Live(s)' => Live(s) /\ sess'[s] = sess[s]
        BY <1>1, <1>2, <2>6, EndingKeeps
    <2>8. ASSUME NEW s \in Slots, Live(s)' PROVE sess[s].key # k
        <3>1. SUFFICES ASSUME sess[s].key = k PROVE FALSE
            OBVIOUS
        <3>2. sess'[s] = Revoked(s)
            BY <1>5, <3>1
        <3> QED BY <1>2, <2>8, <3>2, RevokedIs DEF Live
    <2>9. counter' \in [KeyIDs -> Nat] /\ starts' \in Nat /\ asked' \in Nat
        BY <1>1 DEF SessionsInv, KeyInv, SessInv, NumberInv, SessionsBounds
    <2>10. Onward
        BY <1>1, <2>1, <2>7, <2>9 DEF Onward, SessionsOnward, SessionsInv, KeyInv, Keys, SessionsBounds
    <2>11. TaskInv' /\ FlowInv'
        BY <1>1, <2>1, <2>9, <2>10, TaskEnds, FlowsStay
    <2>12. Crossed'
        <3>1. KeyedSessions'
            BY <2>2, <2>7, <2>8 DEF SessionsInv, Crossed, KeyedSessions
        <3>2. KeysOfNow'
            <4>1. \A q \in LiveKeys' : q \in LiveKeys /\ key'[q] = key[q]
                BY <2>1, <2>2 DEF LiveKeys
            <4> QED BY <1>1, <4>1 DEF SessionsInv, Crossed, KeysOfNow
        <3> QED BY <1>1, <2>7, <3>1, <3>2 DEF SessionsInv, Crossed, NothingOlder, MembersOnly
    <2> QED BY <1>1, <2>3, <2>7, <2>11, <2>12 DEF SessionsInv, NumberInv
<1> QED BY <1>4, <1>5 DEF RevokePasskey

-----------------------------------------------------------------------------
(* Sessions that begin. *)

NewRow(fam, team, k, fresh, born) ==
    [st |-> "live", fam |-> fam, team |-> team, key |-> k, fresh |-> fresh, start |-> 0, born |-> born]

(* A row of a new family, or of the family of a live session whose proof   *)
(* it copies. *)
LEMMA InsertKeeps ==
    ASSUME SessionsBounds, SessInv, Room,
           NEW fam \in Slots, NEW team \in BOOLEAN, NEW k \in KeyIDs \union {0}, NEW fresh \in BOOLEAN,
           NEW born \in 0..MaxChanges, Insert(fam, team, k, fresh, born),
           UNCHANGED <<starts, answered, closed>>,
           fam = NextSlot \/ Used(fam), fam \notin closed,
           proved \subseteq proved', proved' \subseteq Slots, fresh => fam \in proved'
    PROVE  /\ SessInv' /\ SessionsOnward
           /\ NextSlot \in Slots
           /\ \A s \in Slots : s # NextSlot => sess'[s] = sess[s]
           /\ sess'[NextSlot] = NewRow(fam, team, k, fresh, born)
<1> DEFINE n == NextSlot
           row == NewRow(fam, team, k, fresh, born)
<1>1. n \in Slots /\ sess[n].st = "none"
    BY NextSlotIsFree
<1>2. sess \in [Slots -> Rows]
    BY DEF SessInv
<1>3. row \in Rows
    BY DEF NewRow, Rows, SessionsBounds, Slots
<1>4. sess' = [sess EXCEPT ![n] = row]
    BY DEF Insert, NewRow
<1> HIDE DEF n, row
<1>5. sess' \in [Slots -> Rows] /\ sess'[n] = row /\ \A s \in Slots : s # n => sess'[s] = sess[s]
    BY <1>1, <1>2, <1>3, <1>4
<1>6. row.st = "live" /\ row.fam = fam /\ row.start = 0 /\ row.fresh = fresh
    BY DEF row, NewRow
<1>7. SessionsOnward
    BY <1>1, <1>5 DEF SessionsOnward, Used, Live
<1>8. fam = n \/ Used(fam)
    BY DEF n
<1>9. Shape'
    <2> SUFFICES ASSUME NEW s \in Slots
                 PROVE  /\ ~Live(s)' => sess'[s].start = 0 /\ ~sess'[s].fresh
                        /\ Names(s)' => sess'[s].fam \in Slots /\ Used(sess[s].fam)'
                        /\ ~Used(s)' => sess'[s].fam = 0
        BY DEF Shape
    <2>1. CASE s = n
        BY <1>1, <1>5, <1>6, <1>8, <2>1 DEF Live, Used
    <2>2. CASE s # n
        <3>1. sess'[s] = sess[s]
            BY <1>5, <2>2
        <3>2. \A r \in Slots : Used(r) => Used(r)'
            BY <1>7 DEF SessionsOnward
        <3> QED BY <3>1, <3>2 DEF SessInv, Shape, Live, Names, Used
    <2> QED BY <2>1, <2>2
<1>10. ClosedBegan'
    BY <1>7 DEF ClosedBegan, SessInv, SessionsOnward
<1>11. StartsStand'
    <2>1. \A s \in Slots : sess'[s].start <= starts /\ sess'[s].start \notin answered
        BY <1>5, <1>6 DEF SessInv, StartsStand, SessionsBounds
    <2>2. \A s \in Slots : sess'[s].start > 0 => s # n
        BY <1>5, <1>6
    <2>3. \A s \in Slots : sess'[s].start \in Nat
        BY <1>5 DEF Rows, SessionsBounds
    <2> QED BY <1>5, <2>1, <2>2, <2>3 DEF SessInv, StartsStand
<1>12. SignedOut' /\ FreshIsProved'
    BY <1>5, <1>6 DEF SignedOut, FreshIsProved, SessInv, Live
<1> QED BY <1>1, <1>5, <1>7, <1>9, <1>10, <1>11, <1>12 DEF SessInv, n, row

(* What both kinds of start leave. *)
LEMMA StartKeeps ==
    ASSUME SessionsBounds, SessionsInv, Room, NEW t \in Tasks, Done(t),
           NEW fam \in Slots, NEW team \in BOOLEAN, NEW k \in KeyIDs \union {0}, NEW fresh \in BOOLEAN,
           Insert(fam, team, k, fresh, epoch), KeyStands(k),
           UNCHANGED <<acc, member, key, counter, flow, asked, starts, answered, epoch, keyEpoch, closed>>,
           fam = NextSlot \/ Used(fam), fam \notin closed, team => member,
           proved \subseteq proved', proved' \subseteq Slots, fresh => fam \in proved'
    PROVE  SessionsInv'
<1>1. epoch \in 0..MaxChanges
    BY DEF SessionsInv, NumberInv
<1>2. /\ SessInv' /\ SessionsOnward
      /\ NextSlot \in Slots
      /\ \A s \in Slots : s # NextSlot => sess'[s] = sess[s]
      /\ sess'[NextSlot] = NewRow(fam, team, k, fresh, epoch)
    BY <1>1, InsertKeeps DEF SessionsInv
<1>3. Onward
    BY <1>2, OnwardIs
<1>4. counter' \in [KeyIDs -> Nat] /\ key' \in [KeyIDs -> Keys] /\ starts' \in Nat /\ asked' \in Nat
    BY DEF SessionsInv, KeyInv, SessInv, NumberInv, SessionsBounds
<1>5. TaskInv' /\ FlowInv'
    BY <1>3, <1>4, TaskEnds, FlowsStay
<1>6. Crossed'
    <2> DEFINE n == NextSlot
    <2>1. sess'[n].team = team /\ sess'[n].key = k /\ sess'[n].born = epoch
        BY <1>2 DEF NewRow
    <2>2. LiveKeys' = LiveKeys
        BY DEF LiveKeys
    <2>3. \A s \in Slots : s # n => sess'[s] = sess[s]
        BY <1>2
    <2> HIDE DEF n
    <2> QED BY <2>1, <2>2, <2>3 DEF SessionsInv, Crossed, NothingOlder, KeysOfNow, KeyedSessions, MembersOnly, KeyStands, Live
<1> QED BY <1>2, <1>5, <1>6, KeysStay DEF SessionsInv, NumberInv

(* A transaction that finds its proof gone changes nothing.                *)
LEMMA TurnedAwayKeeps ==
    ASSUME SessionsBounds, SessionsInv, NEW t \in Tasks, Done(t),
           UNCHANGED <<acc, member, key, counter, flow, sess, asked, starts, answered, epoch, keyEpoch, closed, proved>>
    PROVE  SessionsInv'
<1>1. Onward
    BY NothingLost
<1>2. counter' \in [KeyIDs -> Nat] /\ key' \in [KeyIDs -> Keys] /\ starts' \in Nat /\ asked' \in Nat
    BY DEF SessionsInv, KeyInv, SessInv, NumberInv, SessionsBounds
<1>3. TaskInv' /\ FlowInv'
    BY <1>1, <1>2, TaskEnds, FlowsStay
<1> QED BY <1>3, SessionsStay, KeysStay, CrossedStays DEF SessionsInv, NumberInv

(* startSession, for a sign-in and for a switch of workspace.              *)
LEMMA StartsOfSessionsKeep ==
    ASSUME SessionsBounds, SessionsInv, NEW t \in Tasks, StartSession(t) \/ StartWorkspaceSession(t)
    PROVE  SessionsInv'
<1>1. task[t] \in Requests /\ TaskStands(task[t])
    BY RequestsTaken
<1>2. CASE StartSession(t)
    <2>1. At(t, "issue") /\ Done(t) /\ UNCHANGED <<acc, member, key, counter, flow, asked, starts, answered, epoch, keyEpoch, closed>>
        BY <1>2 DEF StartSession
    <2>2. task[t].k \in KeyIDs \union {0}
        BY <1>1, <2>1 DEF TaskStands, At
    <2>3. ASSUME KeyStands(task[t].k), Room, NEW fresh \in BOOLEAN,
                 Insert(NextSlot, FALSE, task[t].k, fresh, epoch),
                 proved' = IF fresh THEN proved \union {NextSlot} ELSE proved
          PROVE  SessionsInv'
        <3>1. NextSlot \in Slots /\ ~Used(NextSlot)
            BY <2>3, NextSlotIsFree DEF Used
        <3>2. NextSlot \notin closed
            BY <3>1 DEF SessionsInv, SessInv, ClosedBegan
        <3>3. proved \subseteq proved' /\ proved' \subseteq Slots /\ (fresh => NextSlot \in proved')
            BY <2>3, <3>1 DEF SessionsInv, SessInv
        <3> DEFINE fam == NextSlot
                   k == task[t].k
        <3>4. fam \in Slots /\ k \in KeyIDs \union {0} /\ Insert(fam, FALSE, k, fresh, epoch) /\ KeyStands(k)
            BY <2>2, <2>3, <3>1
        <3>5. fam = NextSlot /\ fam \notin closed /\ (fresh => fam \in proved')
            BY <3>2, <3>3
        <3> HIDE DEF fam, k
        <3> QED BY <2>1, <2>3, <3>3, <3>4, <3>5, StartKeeps
    <2>4. CASE UNCHANGED <<sess, proved>>
        BY <2>1, <2>4, TurnedAwayKeeps
    <2> QED BY <1>2, <2>3, <2>4 DEF StartSession
<1>3. CASE StartWorkspaceSession(t)
    <2> DEFINE s == task[t].s
    <2>1. At(t, "switch") /\ Done(t) /\ UNCHANGED <<acc, member, key, counter, flow, asked, starts, answered, epoch, keyEpoch, closed, proved>>
        BY <1>3 DEF StartWorkspaceSession, ghosts
    <2>2. s \in Slots /\ Used(s)
        BY <1>1, <2>1 DEF TaskStands, At, Starter
    <2>3. ASSUME member, Live(s), KeyStands(sess[s].key), Room,
                 Insert(sess[s].fam, TRUE, sess[s].key, sess[s].fresh, sess[s].born)
          PROVE  SessionsInv'
        <3> DEFINE fam == sess[s].fam
                   k == sess[s].key
                   fresh == sess[s].fresh
        <3>1. sess[s] \in Rows /\ sess[s].born = epoch
            BY <2>2, <2>3 DEF SessionsInv, SessInv, Crossed, NothingOlder
        <3>2. fam \in Slots /\ Used(fam) /\ fam \notin closed /\ (fresh => fam \in proved)
            BY <2>2, <2>3 DEF SessionsInv, SessInv, Shape, SignedOut, FreshIsProved, Names, Live
        <3>3. k \in KeyIDs \union {0} /\ fresh \in BOOLEAN
            BY <3>1 DEF Rows
        <3>4. Insert(fam, TRUE, k, fresh, epoch) /\ KeyStands(k)
            BY <2>3, <3>1
        <3>5. proved \subseteq proved' /\ proved' \subseteq Slots /\ (fresh => fam \in proved')
            BY <2>1, <3>2 DEF SessionsInv, SessInv
        <3> HIDE DEF fam, k, fresh
        <3> QED BY <2>1, <2>3, <3>2, <3>3, <3>4, <3>5, StartKeeps
    <2>4. CASE UNCHANGED sess
        BY <2>1, <2>4, TurnedAwayKeeps
    <2> HIDE DEF s
    <2> QED BY <1>3, <2>3, <2>4 DEF StartWorkspaceSession, MemberStill, SourceStands, Inherited, s
<1> QED BY <1>2, <1>3

-----------------------------------------------------------------------------
(* Step-ups: what changes of a session is its proof and its start. *)

Marked(s) ==
    /\ sess'[s].st = sess[s].st /\ sess'[s].fam = sess[s].fam /\ sess'[s].team = sess[s].team
    /\ sess'[s].key = sess[s].key /\ sess'[s].born = sess[s].born
    /\ ~Live(s) => sess'[s].start = 0 /\ ~sess'[s].fresh

(* Proofs and starts change nothing else of a session.                     *)
LEMMA MarksKeep ==
    ASSUME SessionsBounds, SessionsInv, sess' \in [Slots -> Rows], \A s \in Slots : Marked(s),
           starts' \in 0..MaxStarts, starts <= starts', answered' \subseteq 1..starts', proved' \subseteq Slots,
           StartsStand', FreshIsProved',
           UNCHANGED <<acc, member, key, counter, flow, asked, epoch, keyEpoch, closed>>,
           TaskInv' \/ UNCHANGED task \/ \E t \in Tasks : Done(t)
    PROVE  SessionsInv'
<1>1. SessionsOnward
    BY DEF SessionsOnward, Marked, Used, Live
<1>2. counter' \in [KeyIDs -> Nat] /\ key' \in [KeyIDs -> Keys] /\ starts' \in Nat /\ asked' \in Nat
    BY DEF SessionsInv, KeyInv, SessInv, NumberInv, SessionsBounds
<1>3. Onward
    BY <1>1, <1>2 DEF Onward, SessionsOnward, SessionsInv, KeyInv, NumberInv, Keys, SessionsBounds
<1>4. TaskInv' /\ FlowInv'
    BY <1>2, <1>3, TaskEnds, TasksStay, FlowsStay
<1>5. Crossed'
    <2>1. LiveKeys' = LiveKeys
        BY DEF LiveKeys
    <2> QED BY <2>1 DEF SessionsInv, Crossed, NothingOlder, KeysOfNow, KeyedSessions, MembersOnly, Marked, Live
<1>6. SessInv'
    <2>1. Shape'
        BY DEF SessionsInv, SessInv, Shape, Marked, Live, Used, Names
    <2>2. ClosedBegan' /\ SignedOut'
        BY DEF SessionsInv, SessInv, ClosedBegan, SignedOut, Marked, Used, Live
    <2> QED BY <2>1, <2>2 DEF SessionsInv, SessInv
<1>7. NumberInv'
    <2>1. asked \in 0..starts /\ starts \in Nat
        BY DEF SessionsInv, NumberInv, SessInv, SessionsBounds
    <2>2. asked' \in 0..starts'
        BY <2>1, <1>2
    <2> QED BY <2>2 DEF SessionsInv, NumberInv
<1> QED BY <1>4, <1>5, <1>6, <1>7, KeysStay DEF SessionsInv

(* Fewer starts: those that are left stand. *)
LEMMA FewerStarts ==
    ASSUME SessionsBounds, SessInv, sess' \in [Slots -> Rows], UNCHANGED starts,
           \A s \in Slots : sess'[s].fam = sess[s].fam /\ (sess'[s].start = 0 \/ sess'[s].start = sess[s].start),
           answered' \subseteq 1..starts,
           \A s \in Slots : sess'[s].start > 0 => sess'[s].start \notin answered'
    PROVE  StartsStand'
<1>1. \A s \in Slots : sess'[s].start \in Nat /\ sess[s].start \in Nat /\ starts \in Nat
    BY DEF SessInv, Rows, SessionsBounds
<1>2. \A s \in Slots : sess'[s].start <= starts /\ sess'[s].start \notin answered'
    BY <1>1 DEF SessInv, StartsStand
<1> QED BY <1>1, <1>2 DEF SessInv, StartsStand

(* markStepUp of a session that is live.                                   *)
LEMMA MarkStepUpKeeps ==
    ASSUME SessionsBounds, SessionsInv, NEW t \in Tasks, MarkStepUp(t)
    PROVE  SessionsInv'
<1> DEFINE s == task[t].s
<1>1. At(t, "mark") /\ Done(t) /\ UNCHANGED <<acc, member, key, counter, flow, asked, starts, answered, epoch, keyEpoch, closed>>
    BY DEF MarkStepUp
<1>2. s \in Slots
    BY <1>1, RequestsTaken DEF TaskStands, At, Starter
<1>3. SessInv /\ sess \in [Slots -> Rows]
    BY DEF SessionsInv, SessInv
<1>4. CASE UNCHANGED <<sess, proved>>
    BY <1>1, <1>4, TurnedAwayKeeps
<1>5. CASE Live(s) /\ sess' = [sess EXCEPT ![s].fresh = TRUE] /\ proved' = proved \union {sess[s].fam}
    <2>1. /\ sess' \in [Slots -> Rows] /\ sess'[s].fresh = TRUE
          /\ \A r \in Slots : /\ r # s => sess'[r] = sess[r]
                              /\ sess'[r].st = sess[r].st /\ sess'[r].fam = sess[r].fam /\ sess'[r].team = sess[r].team
                              /\ sess'[r].key = sess[r].key /\ sess'[r].born = sess[r].born
                              /\ sess'[r].start = sess[r].start
        BY <1>2, <1>3, <1>5 DEF Rows
    <2> HIDE DEF s
    <2>2. \A r \in Slots : Marked(r)
        BY <1>2, <1>3, <1>5, <2>1 DEF Marked, SessInv, Shape, Live
    <2>3. proved' \subseteq Slots /\ sess[s].fam \in proved' /\ proved \subseteq proved'
        BY <1>2, <1>3, <1>5 DEF SessInv, Shape, Live, Names
    <2>4. FreshIsProved'
        BY <1>3, <2>1, <2>3 DEF SessInv, FreshIsProved, Live
    <2>5. StartsStand'
        <3>1. \A r \in Slots : sess'[r].start \notin answered
            BY <1>3, <2>1 DEF SessInv, StartsStand
        <3> QED BY <1>1, <1>3, <2>1, <3>1, FewerStarts DEF SessInv
    <2>6. starts' \in 0..MaxStarts /\ starts <= starts' /\ answered' \subseteq 1..starts'
        BY <1>1, <1>3 DEF SessInv, SessionsBounds
    <2> QED BY <1>1, <2>1, <2>2, <2>3, <2>4, <2>5, <2>6, MarksKeep
<1> HIDE DEF s
<1> QED BY <1>4, <1>5 DEF MarkStepUp, s

(* StartProviderStepUp voids every other start of the family.              *)
LEMMA PlatformStepUpStartKeeps ==
    ASSUME SessionsBounds, SessionsInv, NEW s \in Slots, PlatformStepUpStart(s)
    PROVE  SessionsInv'
<1>1. /\ starts < MaxStarts /\ starts' = starts + 1 /\ sess' = Started(s) /\ Live(s)
      /\ UNCHANGED <<acc, member, key, counter, flow, task, asked, answered, epoch, keyEpoch, closed, proved>>
    BY DEF PlatformStepUpStart, Active, ghosts
<1>2. SessInv /\ sess \in [Slots -> Rows] /\ starts \in Nat
    BY DEF SessionsInv, SessInv, SessionsBounds
<1>3. starts' \in 0..MaxStarts /\ starts <= starts' /\ answered' \subseteq 1..starts' /\ proved' \subseteq Slots
    BY <1>1, <1>2 DEF SessInv, SessionsBounds
<1>4. \A r \in Slots : sess'[r] = IF r = s THEN [sess[r] EXCEPT !.start = starts + 1]
                                  ELSE IF r \in Family(s) THEN [sess[r] EXCEPT !.start = 0] ELSE sess[r]
    BY <1>1 DEF Started
<1>5. ASSUME NEW r \in Slots, NEW n \in 0..MaxStarts, sess'[r] = [sess[r] EXCEPT !.start = n]
      PROVE  /\ sess'[r] \in Rows /\ sess'[r].start = n
             /\ sess'[r].st = sess[r].st /\ sess'[r].fam = sess[r].fam /\ sess'[r].team = sess[r].team
             /\ sess'[r].key = sess[r].key /\ sess'[r].born = sess[r].born /\ sess'[r].fresh = sess[r].fresh
    BY <1>2, <1>5 DEF Rows
<1>6. ASSUME NEW r \in Slots
      PROVE  /\ sess'[r] \in Rows
             /\ sess'[r].start = IF r = s THEN starts + 1 ELSE IF r \in Family(s) THEN 0 ELSE sess[r].start
             /\ sess'[r].st = sess[r].st /\ sess'[r].fam = sess[r].fam /\ sess'[r].team = sess[r].team
             /\ sess'[r].key = sess[r].key /\ sess'[r].born = sess[r].born /\ sess'[r].fresh = sess[r].fresh
    <2>1. 0 \in 0..MaxStarts /\ starts + 1 \in 0..MaxStarts
        BY <1>1, <1>2 DEF SessionsBounds
    <2>2. CASE r = s
        BY <1>4, <1>5, <2>1, <2>2
    <2>3. CASE r # s /\ r \in Family(s)
        BY <1>4, <1>5, <2>1, <2>3
    <2>4. CASE r # s /\ r \notin Family(s)
        BY <1>2, <1>4, <2>4
    <2> QED BY <2>2, <2>3, <2>4
<1>7. sess' \in [Slots -> Rows]
    BY <1>1, <1>6 DEF Started
<1>8. \A r \in Slots : Marked(r)
    BY <1>1, <1>2, <1>6 DEF Marked, SessInv, Shape, Live
<1>9. FreshIsProved'
    BY <1>1, <1>2, <1>6 DEF FreshIsProved, SessInv, Live
<1>10. StartsStand'
    <2>1. \A r \in Slots : sess[r].start \in Nat /\ sess[r].start <= starts /\ sess[r].start \notin answered
        BY <1>2 DEF SessInv, Rows, StartsStand, SessionsBounds
    <2>2. \A r \in Slots : sess'[r].start <= starts' /\ sess'[r].start \notin answered'
        BY <1>1, <1>2, <1>6, <2>1 DEF SessInv
    <2>3. ASSUME NEW q \in Slots, NEW r \in Slots, sess'[r].start > 0,
                 sess'[r].start = sess'[q].start \/ (sess'[q].start > 0 /\ sess'[r].fam = sess'[q].fam)
          PROVE  r = q
        <3>1. CASE r = s /\ q # s
            BY <1>2, <1>6, <2>1, <2>3, <3>1 DEF Family
        <3>2. CASE q = s /\ r # s
            BY <1>2, <1>6, <2>1, <2>3, <3>2 DEF Family
        <3>3. CASE r # s /\ q # s
            BY <1>2, <1>6, <2>1, <2>3, <3>3 DEF SessInv, StartsStand
        <3> QED BY <3>1, <3>2, <3>3
    <2> QED BY <2>2, <2>3 DEF StartsStand
<1> QED BY <1>1, <1>3, <1>7, <1>8, <1>9, <1>10, MarksKeep

(* stepup.Window passes.                                                   *)
LEMMA WindowPassesKeeps ==
    ASSUME SessionsBounds, SessionsInv, WindowPasses
    PROVE  SessionsInv'
<1>1. /\ sess' = [s \in Slots |-> [sess[s] EXCEPT !.fresh = FALSE, !.start = 0]] /\ proved' = {}
      /\ UNCHANGED <<acc, member, key, counter, flow, task, asked, starts, answered, epoch, keyEpoch, closed>>
    BY DEF WindowPasses
<1>2. SessInv /\ sess \in [Slots -> Rows] /\ starts \in Nat
    BY DEF SessionsInv, SessInv, SessionsBounds
<1>3. ASSUME NEW r \in Slots
      PROVE  /\ sess'[r] \in Rows /\ sess'[r].start = 0 /\ sess'[r].fresh = FALSE
             /\ sess'[r].st = sess[r].st /\ sess'[r].fam = sess[r].fam /\ sess'[r].team = sess[r].team
             /\ sess'[r].key = sess[r].key /\ sess'[r].born = sess[r].born
    <2>1. sess'[r] = [sess[r] EXCEPT !.fresh = FALSE, !.start = 0]
        BY <1>1
    <2>2. ASSUME NEW x, x = [sess[r] EXCEPT !.fresh = FALSE, !.start = 0]
          PROVE  /\ x \in Rows /\ x.start = 0 /\ x.fresh = FALSE
                 /\ x.st = sess[r].st /\ x.fam = sess[r].fam /\ x.team = sess[r].team
                 /\ x.key = sess[r].key /\ x.born = sess[r].born
        <3>1. 0 \in 0..MaxStarts /\ sess[r] \in Rows
            BY <1>2 DEF SessionsBounds
        <3> QED BY <2>2, <3>1 DEF Rows
    <2> QED BY <2>1, <2>2
<1>4. sess' \in [Slots -> Rows]
    BY <1>1, <1>3
<1>5. \A r \in Slots : Marked(r)
    BY <1>3 DEF Marked
<1>6. FreshIsProved'
    BY <1>3 DEF FreshIsProved
<1>7. starts' \in 0..MaxStarts /\ starts <= starts' /\ answered' \subseteq 1..starts' /\ proved' \subseteq Slots
    <2>1. starts' = starts /\ answered' = answered
        BY <1>1
    <2>2. starts \in 0..MaxStarts /\ answered \subseteq 1..starts
        BY <1>2 DEF SessInv
    <2>3. starts <= starts'
        BY <1>2, <2>1
    <2>4. proved' \subseteq Slots
        BY <1>1
    <2> QED BY <2>1, <2>2, <2>3, <2>4
<1>8. StartsStand'
    <2>1. \A s \in Slots : sess'[s].fam = sess[s].fam /\ (sess'[s].start = 0 \/ sess'[s].start = sess[s].start)
        BY <1>3
    <2>2. \A s \in Slots : sess'[s].start > 0 => sess'[s].start \notin answered'
        <3>1. \A s \in Slots : sess'[s].start = 0
            BY <1>3
        <3> QED BY <3>1
    <2>3. answered' \subseteq 1..starts
        BY <1>1, <1>7
    <2> QED BY <1>1, <1>2, <1>4, <2>1, <2>2, <2>3, FewerStarts
<1> QED BY <1>1, <1>4, <1>5, <1>6, <1>7, <1>8, MarksKeep

(* A proof at the provider answers the start it was read from, and is the   *)
(* one answer of it.                                                        *)
LEMMA FinishKeeps ==
    ASSUME SessionsBounds, SessionsInv, NEW t \in Tasks, FinishProviderStepUp(t)
    PROVE  SessionsInv' /\ ProofAnswersStart
<1> DEFINE s == task[t].s
           r == task[t].k
           n == task[t].n
           proves == task[t].via /\ Live(s) /\ Live(r) /\ StillPending(t)
<1>1. At(t, "finish") /\ Done(t) /\ UNCHANGED <<acc, member, key, counter, flow, asked, starts, epoch, keyEpoch, closed>>
    BY DEF FinishProviderStepUp
<1>2. /\ s \in Slots /\ r \in Slots /\ n \in 1..starts
      /\ task[t].via => n <= asked
      /\ Live(s) /\ Live(r) => sess[s].fam = sess[r].fam
    BY <1>1, RequestsTaken DEF TaskStands, At, FinishStands, Starter
<1>3. SessInv /\ sess \in [Slots -> Rows] /\ starts \in Nat /\ n \in Nat
    BY <1>2 DEF SessionsInv, SessInv, SessionsBounds
<1>4. CASE ~proves
    <2>1. UNCHANGED <<answered, proved, sess>>
        BY <1>4 DEF FinishProviderStepUp
    <2>2. SessionsInv'
        BY <1>1, <2>1, TurnedAwayKeeps
    <2> QED BY <2>1, <2>2 DEF ProofAnswersStart
<1>5. CASE proves
    <2>1. /\ Live(s) /\ Live(r) /\ sess[r].start = n /\ sess[s].fam = sess[r].fam /\ n <= asked
        BY <1>2, <1>5 DEF StillPending
    <2>2. /\ answered' = answered \union {n} /\ proved' = proved \union {sess[s].fam}
          /\ sess' = [q \in Slots |->
                        IF q \in {s, r} THEN [sess[q] EXCEPT !.fresh = TRUE, !.start = 0]
                        ELSE IF q \in Family(s) /\ sess[q].start <= n
                               THEN [sess[q] EXCEPT !.start = 0] ELSE sess[q]]
        BY <1>5, <2>1 DEF FinishProviderStepUp
    <2>answers. answered' = answered \union {n} /\ proved' = proved \union {sess[s].fam}
        BY <2>2
    <2> HIDE DEF s, r, n, proves
    <2>3. \A q \in Slots : sess[q] \in Rows /\ 0 \in 0..MaxStarts
        BY <1>3 DEF SessionsBounds
    <2>4. ASSUME NEW q \in Slots
          PROVE  /\ sess'[q] \in Rows
                 /\ q \in {s, r} => sess'[q].start = 0 /\ sess'[q].fresh = TRUE
                 /\ q \notin {s, r} => sess'[q].fresh = sess[q].fresh
                 /\ sess'[q].start \in {0, sess[q].start}
                 /\ sess'[q].st = sess[q].st /\ sess'[q].fam = sess[q].fam /\ sess'[q].team = sess[q].team
                 /\ sess'[q].key = sess[q].key /\ sess'[q].born = sess[q].born
        <3>1. ASSUME NEW x, x = [sess[q] EXCEPT !.fresh = TRUE, !.start = 0]
              PROVE  /\ x \in Rows /\ x.start = 0 /\ x.fresh = TRUE
                     /\ x.st = sess[q].st /\ x.fam = sess[q].fam /\ x.team = sess[q].team
                     /\ x.key = sess[q].key /\ x.born = sess[q].born
            BY <2>3, <3>1 DEF Rows
        <3>2. ASSUME NEW x, x = [sess[q] EXCEPT !.start = 0]
              PROVE  /\ x \in Rows /\ x.start = 0 /\ x.fresh = sess[q].fresh
                     /\ x.st = sess[q].st /\ x.fam = sess[q].fam /\ x.team = sess[q].team
                     /\ x.key = sess[q].key /\ x.born = sess[q].born
            BY <2>3, <3>2 DEF Rows
        <3>3. CASE q \in {s, r}
            <4>1. sess'[q] = [sess[q] EXCEPT !.fresh = TRUE, !.start = 0]
                BY <2>2, <3>3
            <4> QED BY <3>1, <3>3, <4>1
        <3>4. CASE q \notin {s, r} /\ q \in Family(s) /\ sess[q].start <= n
            <4>1. sess'[q] = [sess[q] EXCEPT !.start = 0]
                BY <2>2, <3>4
            <4> QED BY <3>2, <3>4, <4>1
        <3>5. CASE q \notin {s, r} /\ ~(q \in Family(s) /\ sess[q].start <= n)
            <4>1. sess'[q] = sess[q]
                BY <2>2, <3>5
            <4> QED BY <2>3, <3>5, <4>1
        <3> QED BY <3>3, <3>4, <3>5
    <2>5. sess' \in [Slots -> Rows]
        BY <2>2, <2>4
    <2>6. \A q \in Slots : Marked(q)
        <3>1. \A q \in Slots : ~Live(q) => q \notin {s, r} /\ sess[q].start = 0 /\ ~sess[q].fresh
            BY <1>3, <2>1 DEF SessInv, Shape
        <3> QED BY <2>4, <3>1 DEF Marked
    <2>7. proved' \subseteq Slots /\ answered' \subseteq 1..starts
        BY <1>2, <1>3, <2>1, <2>2 DEF SessInv, Shape, Live, Names
    <2>8. FreshIsProved'
        <3> SUFFICES ASSUME NEW q \in Slots, Live(q)', sess'[q].fresh PROVE sess'[q].fam \in proved'
            BY DEF FreshIsProved
        <3>1. CASE q \in {s, r}
            <4>1. sess'[q].fam = sess[q].fam
                BY <2>4
            <4> QED BY <2>1, <2>answers, <3>1, <4>1
        <3>2. CASE q \notin {s, r}
            <4>1. sess'[q].fresh = sess[q].fresh /\ sess'[q].fam = sess[q].fam /\ Live(q)
                BY <2>4, <3>2 DEF Live
            <4>2. sess[q].fresh
                BY <4>1
            <4>3. sess[q].fam \in proved
                BY <1>3, <4>1, <4>2 DEF SessInv, FreshIsProved
            <4>4. sess'[q].fam = sess[q].fam
                BY <4>1
            <4> QED BY <2>answers, <4>3, <4>4
        <3> QED BY <3>1, <3>2
    <2>9. \A q \in Slots : sess[q].start = n => q = r
        BY <1>2, <1>3, <2>1 DEF SessInv, StartsStand
    <2>10. StartsStand'
        <3>1. \A q \in Slots : sess'[q].start > 0 => sess'[q].start \notin answered'
            <4> SUFFICES ASSUME NEW q \in Slots, sess'[q].start > 0 PROVE sess'[q].start \notin answered'
                OBVIOUS
            <4>1. sess'[q].start \in {0, sess[q].start} /\ (q = r => sess'[q].start = 0)
                BY <2>4
            <4>2. sess'[q].start = sess[q].start /\ q # r
                BY <4>1
            <4>3. sess[q].start # n
                BY <2>9, <4>2
            <4>4. sess[q].start \notin answered
                BY <1>3 DEF SessInv, StartsStand
            <4> QED BY <2>answers, <4>2, <4>3, <4>4
        <3>2. \A q \in Slots : sess'[q].fam = sess[q].fam /\ (sess'[q].start = 0 \/ sess'[q].start = sess[q].start)
            BY <2>4
        <3> QED BY <1>1, <1>3, <2>5, <2>7, <3>1, <3>2, FewerStarts
    <2>11. SessionsInv'
        <3>1. starts' \in 0..MaxStarts /\ starts <= starts' /\ answered' \subseteq 1..starts'
            BY <1>1, <1>3, <2>7 DEF SessInv, SessionsBounds
        <3> QED BY <1>1, <2>5, <2>6, <2>7, <2>8, <2>10, <3>1, MarksKeep
    <2>12. \A q \in Family(r) : sess[q].start <= n
        <3>1. \A q \in Slots : sess[q].start \in Nat
            BY <1>3 DEF Rows, SessionsBounds
        <3> QED BY <1>2, <1>3, <2>1, <3>1 DEF Family, SessInv, StartsStand
    <2>13. ProofAnswersStart
        <3> SUFFICES ASSUME NEW m \in answered' \ answered
                     PROVE  /\ m <= asked
                            /\ \E q \in Slots : /\ sess[q].start = m
                                                /\ \A p \in Family(q) : sess[p].start <= m
                            /\ \E u \in Tasks : At(u, "finish") /\ task[u].n = m
            BY DEF ProofAnswersStart
        <3>1. m = n
            BY <2>2
        <3> QED BY <1>1, <1>2, <2>1, <2>12, <3>1 DEF n
    <2> QED BY <2>11, <2>13
<1> QED BY <1>4, <1>5

-----------------------------------------------------------------------------
(* Every step. *)

(* Every handler, transaction and passing of time keeps the invariant.     *)
LEMMA SessionsStep ==
    ASSUME SessionsBounds, SessionsInv, [Next]_vars
    PROVE  SessionsInv'
<1>1. CASE UNCHANGED vars
    <2>1. UNCHANGED <<acc, member, key, counter, flow, sess, task, asked, starts, answered, epoch, keyEpoch, closed, proved>>
        BY <1>1 DEF vars
    <2>2. Onward
        BY <2>1, NothingLost
    <2>3. TaskInv' /\ FlowInv'
        BY <2>1, <2>2, TasksStay, FlowsStay DEF SessionsInv, SessInv, NumberInv, KeyInv, SessionsBounds
    <2> QED BY <2>1, <2>3, SessionsStay, KeysStay, CrossedStays DEF SessionsInv, NumberInv
<1>2. ASSUME NEW t \in Tasks,
             \/ Login(t) \/ RecoverFinish(t) \/ Prove(t)
             \/ StartSession(t) \/ StartWorkspaceSession(t)
             \/ Rekey(t) \/ VerifyLegacy(t) \/ LinkLegacy(t)
             \/ AddPasskey(t) \/ LoginPasskeyFinish(t) \/ UpdatePasskey(t)
             \/ RevokePasskey(t) \/ MarkStepUp(t) \/ FinishProviderStepUp(t)
             \/ \E s \in Slots : RegisterFinish(t, s) \/ StepUpPasskey(t, s) \/ PlatformStepUpFinish(t, s)
      PROVE  SessionsInv'
    <2>1. CASE Login(t) \/ RecoverFinish(t) \/ Prove(t) \/ \E s \in Slots : PlatformStepUpFinish(t, s)
        BY <2>1, ProofsKeep
    <2>2. CASE StartSession(t) \/ StartWorkspaceSession(t)
        BY <2>2, StartsOfSessionsKeep
    <2>3. CASE Rekey(t)
        BY <2>3, RekeyKeeps
    <2>4. CASE LinkLegacy(t)
        BY <2>4, LinkLegacyKeeps
    <2>5. CASE AddPasskey(t)
        BY <2>5, AddPasskeyKeeps
    <2>6. CASE LoginPasskeyFinish(t) \/ \E s \in Slots : RegisterFinish(t, s) \/ StepUpPasskey(t, s)
        BY <2>6, PasskeyUsesKeep
    <2>7. CASE UpdatePasskey(t)
        BY <2>7, UpdatePasskeyKeeps
    <2>8. CASE RevokePasskey(t)
        BY <2>8, RevokePasskeyKeeps
    <2>9. CASE MarkStepUp(t)
        BY <2>9, MarkStepUpKeeps
    <2>10. CASE FinishProviderStepUp(t)
        BY <2>10, FinishKeeps
    <2>11. CASE VerifyLegacy(t)
        BY <2>11, VerifyLegacyKeeps
    <2> QED BY <1>2, <2>1, <2>2, <2>3, <2>4, <2>5, <2>6, <2>7, <2>8, <2>9, <2>10, <2>11
<1>3. CASE LoginPasskeyOptions \/ \E s \in Slots : RegisterOptions(s) \/ StepUpPasskeyOptions(s)
    BY <1>3, ChallengesKeep
<1>4. ASSUME NEW s \in Slots, PlatformStepUpStart(s) PROVE SessionsInv'
    BY <1>4, PlatformStepUpStartKeeps
<1>5. CASE RemoveMember \/ \E s \in Slots : Logout(s) \/ Expire(s)
    BY <1>5, SignOutsKeep
<1>6. CASE JoinAgain \/ ProviderAsks
    BY <1>6, OthersKeep
<1>7. CASE WindowPasses
    BY <1>7, WindowPassesKeeps
<1> QED BY <1>1, <1>2, <1>3, <1>4, <1>5, <1>6, <1>7 DEF Next

(* The inductive invariant of the account: each request's proof, each      *)
(* challenge, session, passkey and step-up is of the account as it is.     *)
THEOREM SessionsInvariant == Spec => []SessionsInv
<1>1. Init => SessionsInv
    BY SessionsBegin, SessionsAssumption
<1>2. SessionsInv /\ [Next]_vars => SessionsInv'
    BY SessionsStep, SessionsAssumption
<1> QED BY <1>1, <1>2, PTL DEF Spec

(* Whatever requests cross, nothing from before a change of the password,  *)
(* a recovery, a link, a sign-out, a revoked passkey or a removal is       *)
(* signed in, and only the sessions of a person who proved themselves are  *)
(* fresh (store/users.go, store/passkeys.go, store/platform.go,            *)
(* store/platform_stepup.go).                                              *)
THEOREM SessionsAreSafe == Spec => []SessionsSafe
<1>1. SessionsInv => SessionsSafe
    BY SessionsInvIsSafe, SessionsAssumption
<1> QED BY <1>1, SessionsInvariant, PTL

(* A provider's proof is counted for what it was asked for, a stored       *)
(* signature counter never goes back, and a link rests on a hash that      *)
(* nothing changed since it was read.                                      *)
LEMMA StepsAnswer ==
    ASSUME SessionsBounds, SessionsInv, Next
    PROVE  ProofAnswersStart /\ CounterNeverBack /\ LinkedByCurrent
<1>1. ProofAnswersStart
    <2>1. CASE UNCHANGED answered
        BY <2>1 DEF ProofAnswersStart
    <2>2. CASE \E t \in Tasks : FinishProviderStepUp(t)
        BY <2>2, FinishKeeps
    <2> QED BY <2>1, <2>2 DEF Next, ghosts, Login, RecoverFinish, Prove, StartSession, StartWorkspaceSession,
              Rekey, VerifyLegacy, LinkLegacy, AddPasskey, LoginPasskeyFinish, UpdatePasskey, RevokePasskey, MarkStepUp,
              RegisterFinish, StepUpPasskey, PlatformStepUpFinish, LoginPasskeyOptions, RegisterOptions,
              StepUpPasskeyOptions, PlatformStepUpStart, Logout, Expire, RemoveMember, JoinAgain, WindowPasses,
              ProviderAsks
<1>2. CounterNeverBack
    <2>1. key \in [KeyIDs -> Keys]
        BY DEF SessionsInv, KeyInv
    <2>2. ASSUME \A k \in KeyIDs : key'[k].count = key[k].count PROVE CounterNeverBack
        BY <2>1, <2>2 DEF CounterNeverBack, Keys, SessionsBounds
    <2>3. CASE UNCHANGED key
        BY <2>2, <2>3
    <2>4. CASE key' = RevokeKeys /\ UNCHANGED counter
        BY <2>2, <2>4, RevokeKeysIs DEF SessionsInv
    <2>5. ASSUME NEW t \in Tasks, AddPasskey(t) PROVE CounterNeverBack
        <3>1. ASSUME NEW k \in KeyIDs, key' = [key EXCEPT ![k] = [key[k] EXCEPT !.st = "live", !.born = keyEpoch]]
              PROVE  \A q \in KeyIDs : key'[q].count = key[q].count
            BY <2>1, <3>1 DEF Keys
        <3> QED BY <2>2, <2>3, <2>5, <3>1 DEF AddPasskey
    <2>6. ASSUME NEW t \in Tasks, UpdatePasskey(t) PROVE CounterNeverBack
        BY <2>6, UpdatePasskeyKeeps
    <2>7. ASSUME NEW t \in Tasks, RevokePasskey(t) PROVE CounterNeverBack
        <3>1. ASSUME NEW k, key' = [key EXCEPT ![k].st = "revoked"]
              PROVE  \A q \in KeyIDs : key'[q].count = key[q].count
            BY <2>1, <3>1 DEF Keys
        <3> QED BY <2>2, <2>3, <2>7, <3>1 DEF RevokePasskey
    <2>8. ASSUME NEW t \in Tasks, Rekey(t) PROVE CounterNeverBack
        BY <2>3, <2>4, <2>8 DEF Rekey
    <2>9. ASSUME NEW t \in Tasks, LinkLegacy(t) PROVE CounterNeverBack
        BY <2>3, <2>4, <2>9 DEF LinkLegacy
    <2> QED BY <2>3, <2>5, <2>6, <2>7, <2>8, <2>9 DEF Next, Login, RecoverFinish, Prove, StartSession, StartWorkspaceSession,
              LoginPasskeyFinish, MarkStepUp, FinishProviderStepUp, VerifyLegacy,
              RegisterFinish, StepUpPasskey, PlatformStepUpFinish, LoginPasskeyOptions, RegisterOptions,
              StepUpPasskeyOptions, PlatformStepUpStart, Logout, Expire, RemoveMember, JoinAgain, WindowPasses,
              ProviderAsks
<1>3. LinkedByCurrent
    <2>1. CASE UNCHANGED acc
        BY <2>1 DEF LinkedByCurrent
    <2>2. ASSUME NEW t \in Tasks, Rekey(t) PROVE LinkedByCurrent
        <3>1. acc' = [acc EXCEPT !.pw = acc.pw + 1] /\ acc \in [pw : 1..MaxChanges + 1, platform : BOOLEAN]
            BY <2>2 DEF Rekey, SessionsInv, NumberInv
        <3> QED BY <3>1 DEF LinkedByCurrent
    <2>3. ASSUME NEW t \in Tasks, LinkLegacy(t) PROVE LinkedByCurrent
        BY <2>1, <2>3 DEF LinkLegacy, ProofStands, LinkedByCurrent
    <2> QED BY <2>1, <2>2, <2>3 DEF Next, Login, RecoverFinish, Prove, StartSession, StartWorkspaceSession,
              LoginPasskeyFinish, MarkStepUp, FinishProviderStepUp, VerifyLegacy,
              RegisterFinish, StepUpPasskey, PlatformStepUpFinish, LoginPasskeyOptions, RegisterOptions,
              StepUpPasskeyOptions, PlatformStepUpStart, Logout, Expire, RemoveMember, JoinAgain, WindowPasses,
              ProviderAsks, AddPasskey, UpdatePasskey, RevokePasskey
<1> QED BY <1>1, <1>2, <1>3

(* Every proof the provider gives is counted once, for the start that the  *)
(* family still waits for and that the person's re-authentication followed *)
(* (FinishProviderStepUp); the counter that UpdatePasskey stores never     *)
(* falls; no change of the password slips between the read of its hash and *)
(* the link that rests on it (LinkLegacy).                                 *)
THEOREM SessionStepsHold == Spec => SessionSteps
<1>1. SessionsInv /\ [Next]_vars => [ProofAnswersStart /\ CounterNeverBack /\ LinkedByCurrent]_vars
    BY StepsAnswer, SessionsAssumption
<1> QED BY <1>1, SessionsInvariant, PTL DEF Spec, SessionSteps
=============================================================================
