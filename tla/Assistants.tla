----------------------------- MODULE Assistants -----------------------------
(***************************************************************************)
(* The ledger of one person's assistant connections (store/mcp*.go,        *)
(* mcpauth/*.go): a consent recorded and relayed to the attested reader,   *)
(* its activation, the renewals of its key, the status the reader asks     *)
(* for, and every way a connection ends.                                   *)
(*                                                                         *)
(* A connection reads as a service account; the account, its API key and   *)
(* its grants are one entry of svc.  An HTTP handler, or a pass of the     *)
(* janitor, is a task: what it read before it waited for the reader, for   *)
(* another transaction or for its turn is in its record.  Deadlines are    *)
(* flags that time raises.  The reader (packages/mcp-http) is external.    *)
(***************************************************************************)
EXTENDS Naturals, FiniteSets

CONSTANTS
    Conns,       \* connection ids, in the order they are consented
    Services,    \* service accounts the console makes, one per consent or renewal
    Kinds,       \* of "assistant", "token", "ai"
    Tasks,       \* handlers and janitor passes at once
    MaxLive,     \* maxLiveMCPConnections
    MaxTroubles  \* lost answers, restarts and stops in a behaviour

ASSUME AssistantsAssumption ==
    /\ Conns \subseteq Nat
    /\ MaxLive \in Nat \ {0}
    /\ MaxTroubles \in Nat

VARIABLES
    conn,      \* mcp_connections
    svc,       \* service accounts: membership, key, grants
    person,    \* whether the consenting person is an active member
    allowed,   \* the switches that are on, of "content" and "ai"
    reader,    \* what the reader holds of each connection
    task,      \* the handlers and passes under way
    troubles   \* so far

vars == <<conn, svc, person, allowed, reader, task, troubles>>

None == "none"
Ended == {"revoked", "expired", "deleted"}
Statuses == {"none", "pending", "active", "reseal"} \union Ended
Idle == [op |-> "idle", c |-> 0, s |-> None, st |-> "none"]
Nothing == [has |-> "no", svc |-> None, key |-> FALSE, stages |-> {}, owes |-> FALSE]

(* liveStatus                                                              *)
Live(c) == conn[c].status \in {"pending", "active", "reseal"}

(* The account's key reads the archive.                                    *)
Opens(s) == svc[s].state \in {"provisional", "bound"} /\ svc[s].key /\ ~ svc[s].due

Init ==
    /\ conn = [c \in Conns |-> [status |-> "none", reason |-> None, svc |-> None,
                                kind |-> None, replaces |-> FALSE, past |-> FALSE,
                                stale |-> FALSE, unused |-> FALSE, told |-> FALSE,
                                raised |-> FALSE, mailed |-> FALSE, link |-> FALSE]]
    /\ svc = [s \in Services |-> [state |-> "none", key |-> FALSE, due |-> FALSE]]
    /\ person = TRUE /\ allowed = {"content", "ai"}
    /\ reader = [c \in Conns |-> Nothing]
    /\ task = [t \in Tasks |-> Idle]
    /\ troubles = 0

Free(t) == task[t].op = "idle"
At(t, op) == task[t].op = op
Goto(t, op) == task' = [task EXCEPT ![t].op = op]
Finish(t) == task' = [task EXCEPT ![t] = Idle]
Begin(t, op, c, s) ==
    /\ Free(t)
    /\ task' = [task EXCEPT ![t] = [op |-> op, c |-> c, s |-> s, st |-> conn[c].status]]
Trouble == troubles < MaxTroubles /\ troubles' = troubles + 1
Smooth == troubles' = troubles

-----------------------------------------------------------------------------
(* How a connection ends.                                                  *)

(* removeServiceAccountTx: its keys, grants, permissions and membership.   *)
Removed(sv) == IF sv.state = "none" THEN sv
               ELSE [state |-> "gone", key |-> FALSE, due |-> sv.due]

(* The accounts of the connections that end.                               *)
EndedServices(E) ==
    [s \in Services |-> IF \E c \in E : conn[c].svc = s THEN Removed(svc[s]) ELSE svc[s]]

(* The row, if it still holds its consent; its revoke links go with it.    *)
EndedRow(c, status, reason) ==
    IF Live(c)
    THEN [conn[c] EXCEPT !.status = status, !.reason = reason, !.link = FALSE]
    ELSE conn[c]

(* endMCPConnectionTx for the connections of E, under the workspace's lock. *)
EndAll(E, status, reason) ==
    /\ conn' = [c \in Conns |-> IF c \in E THEN EndedRow(c, status, reason) ELSE conn[c]]
    /\ svc' = EndedServices(E)

(* endInTenant(..., notified): the reader asked, or is told in the answer. *)
EndTold(c, status, reason) ==
    /\ conn' = [conn EXCEPT ![c] = [EndedRow(c, status, reason) EXCEPT !.told = TRUE]]
    /\ svc' = EndedServices({c})

-----------------------------------------------------------------------------
(* Consent.                                                                *)

(* The console registers a provisional service account, grants it the      *)
(* numbers and mints its key, each with the thirty-minute deadline.        *)
MakeService(s) ==
    /\ person /\ svc[s].state = "none"
    /\ svc' = [svc EXCEPT ![s] = [state |-> "provisional", key |-> TRUE, due |-> FALSE]]
    /\ UNCHANGED <<conn, person, allowed, reader, task, troubles>>

(* checkContentServiceTx and the key's own checks: an account of the       *)
(* person's, provisional, in time, that no connection names.               *)
ServiceFits(s) ==
    /\ svc[s].state = "provisional" /\ Opens(s)
    /\ \A c \in Conns : conn[c].svc # s

(* sameClient: the earlier connections this consent takes the place of.    *)
Replaced(c) ==
    {d \in Conns : /\ d < c /\ conn[d].kind = "assistant"
                   /\ conn[d].status \in {"active", "reseal"}}

(* The live connections a consent is counted with.                         *)
Counted(c, replaces) ==
    {d \in Conns : /\ Live(d) /\ ~ conn[d].past /\ conn[d].kind # "ai"
                   /\ ~ (replaces /\ d \in Replaced(c))}

(* create, tokenBundle and createAI before the ledger: who asks, and the   *)
(* switch of what they ask for.                                            *)
CreateGate(kind) == kind = "assistant" /\ person /\ "content" \in allowed
TokenGate(kind) == kind = "token" /\ person /\ "content" \in allowed
AIGate(kind) == kind = "ai" /\ person /\ "ai" \in allowed

(* Create: the row, pending, and the account bound for its lifetime.       *)
Create(t, c, s, kind, replaces) ==
    /\ conn[c].status = "none" /\ \A d \in Conns : d < c => conn[d].status # "none"
    /\ CreateGate(kind) \/ TokenGate(kind) \/ AIGate(kind)
    /\ ServiceFits(s)
    /\ replaces => kind = "assistant"
    /\ kind # "ai" => Cardinality(Counted(c, replaces)) < MaxLive
    /\ conn' = [conn EXCEPT ![c].status = "pending", ![c].svc = s,
                            ![c].kind = kind, ![c].replaces = replaces]
    /\ svc' = [svc EXCEPT ![s].state = "bound"]
    /\ Begin(t, "relay", c, s)
    /\ UNCHANGED <<person, allowed, reader, troubles>>

(* The bundle goes to the reader, which holds it with the request; the     *)
(* answer may be lost.  A failure undoes the consent.                      *)
RelayBundle(t) ==
    /\ At(t, "relay")
    /\ LET c == task[t].c
           took == [reader EXCEPT ![c] = [Nothing EXCEPT !.has = "asked", !.svc = conn[c].svc]]
       IN  \/ reader' = took /\ Finish(t) /\ Smooth
           \/ reader' = took /\ Goto(t, "undo") /\ Trouble
           \/ reader' = reader /\ Goto(t, "undo") /\ Smooth
    /\ UNCHANGED <<conn, svc, person, allowed>>

(* DeleteFailed looks at the status under the row's lock.                  *)
Undoable(c) == conn[c].status = "pending"

(* DeleteFailed: the row goes, with its key and account.                   *)
DeleteFailed(t) ==
    /\ At(t, "undo")
    /\ IF Undoable(task[t].c)
       THEN EndAll({task[t].c}, "deleted", "relay_failed")
       ELSE UNCHANGED <<conn, svc>>
    /\ Finish(t)
    /\ UNCHANGED <<person, allowed, reader, troubles>>

-----------------------------------------------------------------------------
(* Activation, the earlier connections it replaces, and its notice.        *)

(* The reader completed the handshake.  A refusal, or a lost answer, makes *)
(* it forget the request.                                                  *)
Activate(t, c) ==
    /\ Free(t) /\ reader[c].has = "asked"
    /\ LET ok == conn[c].status = "pending" /\ ~ conn[c].past
           holds == [reader EXCEPT ![c].has = "yes", ![c].key = TRUE]
           forgets == [reader EXCEPT ![c] = Nothing]
       IN  IF ok
           THEN /\ conn' = [conn EXCEPT ![c].status = "active"]
                /\ Begin(t, "activated", c, None)
                /\ \/ reader' = holds /\ Smooth
                   \/ reader' = forgets /\ Trouble
           ELSE /\ reader' = forgets /\ Smooth
                /\ UNCHANGED <<conn, task>>
    /\ UNCHANGED <<svc, person, allowed>>

(* ReplacePrevious reads the reconnect outside its transaction.            *)
ReadReconnect(t) ==
    /\ At(t, "activated")
    /\ LET c == task[t].c
       IN  Goto(t, IF conn[c].status = "active" /\ conn[c].replaces
                   THEN "replace" ELSE "announce")
    /\ UNCHANGED <<conn, svc, person, allowed, reader, troubles>>

(* ReplacePrevious ends the earlier ones; their readers are told by the    *)
(* round of WatchRevocations in any case.                                  *)
ReplacePrevious(t) ==
    /\ At(t, "replace")
    /\ EndAll(Replaced(task[t].c), "revoked", "replaced")
    /\ Goto(t, "announce")
    /\ UNCHANGED <<person, allowed, reader, troubles>>

(* RaiseNotice: for a live connection; its e-mail goes the first time.     *)
RaiseNotice(t) ==
    /\ At(t, "announce")
    /\ LET c == task[t].c
       IN  IF Live(c) /\ conn[c].kind # "ai"
           THEN /\ conn' = [conn EXCEPT ![c].raised = TRUE]
                /\ IF conn[c].raised THEN Finish(t) ELSE Goto(t, "mail")
           ELSE conn' = conn /\ Finish(t)
    /\ UNCHANGED <<svc, person, allowed, reader, troubles>>

(* ClaimNoticeMail, under the connection's lock.                           *)
MailClaimable(c) == Live(c) /\ ~ conn[c].mailed

ClaimNoticeMail(t) ==
    /\ At(t, "mail")
    /\ LET c == task[t].c
       IN  conn' = IF MailClaimable(c)
                   THEN [conn EXCEPT ![c].mailed = TRUE, ![c].link = TRUE] ELSE conn
    /\ Finish(t)
    /\ UNCHANGED <<svc, person, allowed, reader, troubles>>

(* budgetHit: the reader says the connection reached a reading limit; the  *)
(* notice is raised again and goes the same way.                           *)
BudgetHit(t, c) ==
    /\ reader[c].key /\ conn[c].kind # "ai" /\ ~ conn[c].raised
    /\ Begin(t, "announce", c, None)
    /\ UNCHANGED <<conn, svc, person, allowed, reader, troubles>>

-----------------------------------------------------------------------------
(* Renewal: a new key and account for the same consent.                    *)

(* renewableTx: active or resealed, inside its lifetime, the person's own. *)
Renewable(c) ==
    /\ conn[c].status \in {"active", "reseal"} /\ ~ conn[c].past
    /\ person

(* renewalAllowed: the switch of the connection's kind.                    *)
RenewalAllowed(c) == (IF conn[c].kind = "ai" THEN "ai" ELSE "content") \in allowed

(* renewal, then renew as far as CheckRenewal.  The same account may be    *)
(* posted twice.                                                           *)
StartRenewal(t, c, s) ==
    /\ Renewable(c) /\ RenewalAllowed(c) /\ reader[c].has = "yes"
    /\ ServiceFits(s)
    /\ Begin(t, "bundle", c, s)
    /\ UNCHANGED <<conn, svc, person, allowed, reader, troubles>>

(* The reader proves the grants open and stages the key; a second bundle   *)
(* for the account, or a record it no longer has, is refused.              *)
RelayRenewal(t) ==
    /\ At(t, "bundle")
    /\ LET c == task[t].c
           s == task[t].s
           staged == [reader EXCEPT ![c].stages = @ \union {s}]
           takes == reader[c].has = "yes" /\ Opens(s) /\ s \notin reader[c].stages
       IN  \/ takes /\ reader' = staged /\ Goto(t, "renew") /\ Smooth
           \/ takes /\ reader' = staged /\ Goto(t, "discard") /\ Trouble
           \/ reader' = reader /\ Goto(t, "discard") /\ Smooth
    /\ UNCHANGED <<conn, svc, person, allowed>>

(* The old account and key go first; the new ones live as long as the      *)
(* connection.                                                             *)
Swapped(c, s) ==
    [svc EXCEPT ![conn[c].svc] = Removed(@), ![s].state = "bound"]

(* Renew: every check again, then the swap, in one transaction.            *)
Renew(t) ==
    /\ At(t, "renew")
    /\ LET c == task[t].c
           s == task[t].s
       IN  IF Renewable(c) /\ ServiceFits(s)
           THEN /\ conn' = [conn EXCEPT ![c].svc = s, ![c].status = "active",
                                        ![c].unused = FALSE]
                /\ svc' = Swapped(c, s)
                /\ Finish(t)
           ELSE UNCHANGED <<conn, svc>> /\ Goto(t, "discard")
    /\ UNCHANGED <<person, allowed, reader, troubles>>

(* Mutant: whether or not a connection names it. *)
DiscardableAny(s) == svc[s].state \in {"provisional", "bound"}

(* An account a connection names is not DiscardService's to remove.        *)
Discardable(s) ==
    /\ svc[s].state \in {"provisional", "bound"}
    /\ \A c \in Conns : conn[c].svc # s

DiscardService(t) ==
    /\ At(t, "discard")
    /\ svc' = IF Discardable(task[t].s)
              THEN [svc EXCEPT ![task[t].s] = Removed(@)] ELSE svc
    /\ Finish(t)
    /\ UNCHANGED <<conn, person, allowed, reader, troubles>>

-----------------------------------------------------------------------------
(* The reader's question, and what it does with the answer.                *)

(* StatusFor's first statement: the row's status and account, read and     *)
(* noted.                                                                  *)
AskStatus(t, c) ==
    /\ reader[c].has = "yes"
    /\ Begin(t, "status", c, conn[c].svc)
    /\ UNCHANGED <<conn, svc, person, allowed, reader, troubles>>

(* The key or a membership is gone.                                        *)
AccessLost(c) == ~ (svc[conn[c].svc].state = "bound" /\ svc[conn[c].svc].key /\ person)

(* decide (external): wipe, drop the key, commit a stage the answer names, *)
(* or find the key missing and owe a reseal.                               *)
Decided(c, st, s) ==
    CASE st \notin {"active", "reseal"} -> Nothing
      [] st = "reseal" -> [reader[c] EXCEPT !.key = FALSE]
      [] st = "active" /\ s \in reader[c].stages ->
            [reader[c] EXCEPT !.svc = s, !.key = TRUE, !.stages = {}, !.owes = FALSE]
      [] st = "active" /\ s \notin reader[c].stages /\ s # reader[c].svc -> Nothing
      [] OTHER -> [reader[c] EXCEPT !.owes = ~ reader[c].key]

(* standingReply: with its switch off a live connection reads as reseal.   *)
Standing(c, st) == IF RenewalAllowed(c) THEN st ELSE "reseal"

(* The answer reaches the reader, or is lost.                              *)
Answer(t, st) ==
    /\ \/ reader' = [reader EXCEPT ![task[t].c] = Decided(task[t].c, st, task[t].s)] /\ Smooth
       \/ reader' = reader /\ Trouble
    /\ Finish(t)

(* The rest of StatusFor for a connection that holds a key: past its       *)
(* deadline it is ended; its access is looked up; the switches make it     *)
(* answer reseal and nothing is written.                                   *)
AnswerStatus(t) ==
    /\ At(t, "status")
    /\ LET c == task[t].c
           st == task[t].st
       IN  \/ st \in Ended /\ Answer(t, st) /\ UNCHANGED <<conn, svc>>
           \/ /\ st \notin Ended /\ conn[c].past
              /\ EndTold(c, "expired", "expired") /\ Answer(t, "expired")
           \/ /\ st \notin Ended /\ ~ conn[c].past /\ AccessLost(c)
              /\ Goto(t, "lost")
              /\ UNCHANGED <<conn, svc, reader, troubles>>
           \/ /\ st \notin Ended /\ ~ conn[c].past /\ ~ AccessLost(c)
              /\ Answer(t, Standing(c, st))
              /\ UNCHANGED <<conn, svc>>
    /\ UNCHANGED <<person, allowed>>

(* Its access was lost: the connection ends in a transaction of its own.   *)
EndLost(t) ==
    /\ At(t, "lost")
    /\ EndTold(task[t].c, "revoked", "access_lost")
    /\ Answer(t, "revoked")
    /\ UNCHANGED <<person, allowed>>

Resealable(c) == conn[c].status \in {"active", "reseal"} /\ ~ conn[c].past

(* Reseal: the reader holds no key; without a live row it forgets the      *)
(* connection.                                                             *)
Reseal(c) ==
    /\ reader[c].owes
    /\ IF Resealable(c)
       THEN /\ conn' = [conn EXCEPT ![c].status = "reseal"]
            /\ reader' = [reader EXCEPT ![c].owes = FALSE]
       ELSE conn' = conn /\ reader' = [reader EXCEPT ![c] = Nothing]
    /\ UNCHANGED <<svc, person, allowed, task, troubles>>

(* The reader restarts (external): keys, stages and pending requests are   *)
(* lost, its records are not.                                              *)
ReaderRestarts ==
    /\ Trouble
    /\ reader' = [c \in Conns |->
                    IF reader[c].has = "yes"
                    THEN [reader[c] EXCEPT !.key = FALSE, !.stages = {}, !.owes = TRUE]
                    ELSE Nothing]
    /\ UNCHANGED <<conn, svc, person, allowed, task>>

(* A stage or a pending request dies of its twenty minutes (external).     *)
ReaderForgets(c) ==
    /\ reader[c].has = "asked" \/ reader[c].stages # {}
    /\ \A t \in Tasks : task[t].c # c
    /\ reader' = [reader EXCEPT ![c] = IF @.has = "asked" THEN Nothing
                                       ELSE [@ EXCEPT !.stages = {}]]
    /\ UNCHANGED <<conn, svc, person, allowed, task, troubles>>

(* RevokeByID: the reader ends a connection itself (a replayed token).     *)
RevokeByID(c) ==
    /\ reader[c].has = "yes"
    /\ EndTold(c, "revoked", "reader")
    /\ reader' = [reader EXCEPT ![c] = Nothing]
    /\ UNCHANGED <<person, allowed, task, troubles>>

(* The assistant reads with the key: last_used_at.                         *)
Use(c) ==
    /\ reader[c].key /\ conn[c].unused /\ Opens(reader[c].svc)
    /\ conn' = [conn EXCEPT ![c].unused = FALSE]
    /\ UNCHANGED <<svc, person, allowed, reader, task, troubles>>

-----------------------------------------------------------------------------
(* Ends a person asks for.                                                 *)

(* Revoke, in the console.                                                 *)
Remove(t, c) ==
    /\ Live(c)
    /\ EndAll({c}, "revoked", "console")
    /\ Begin(t, "tell", c, None)
    /\ UNCHANGED <<person, allowed, reader, troubles>>

(* RevokeByLink: the link is spent with the connection's end.              *)
RevokeByLink(t, c) ==
    /\ conn[c].link
    /\ EndAll({c}, "revoked", "console")
    /\ Begin(t, "tell", c, None)
    /\ UNCHANGED <<person, allowed, reader, troubles>>

(* A notice: confirmed and recorded, taken and not recorded, or lost.      *)
Told(c) ==
    \/ /\ reader' = [reader EXCEPT ![c] = Nothing]
       /\ conn' = [conn EXCEPT ![c].told = TRUE] /\ Smooth
    \/ /\ reader' = [reader EXCEPT ![c] = Nothing] /\ conn' = conn /\ Trouble
    \/ reader' = reader /\ conn' = conn /\ Trouble

(* tellRevoked                                                             *)
TellRevoked(t) ==
    /\ At(t, "tell") /\ Told(task[t].c) /\ Finish(t)
    /\ UNCHANGED <<svc, person, allowed>>

(* resendRevocations, every thirty seconds.                                *)
ResendRevocation(c) ==
    /\ conn[c].status \in {"revoked", "expired"} /\ ~ conn[c].told
    /\ Told(c)
    /\ UNCHANGED <<svc, person, allowed, task>>

(* endConnectionsOfMemberTx, then the member's keys: the person who        *)
(* consented is disabled or removed.                                       *)
MemberGone ==
    /\ person /\ person' = FALSE
    /\ LET E == {c \in Conns : Live(c)}
       IN  /\ conn' = [c \in Conns |-> IF c \in E THEN EndedRow(c, "revoked", "member")
                                       ELSE conn[c]]
           /\ svc' = [s \in Services |-> [EndedServices(E)[s] EXCEPT !.key = FALSE]]
    /\ UNCHANGED <<allowed, reader, task, troubles>>

(* The same, of a connection's service account.                            *)
ServiceGone(s) ==
    /\ svc[s].state = "bound"
    /\ LET E == {c \in Conns : Live(c) /\ conn[c].svc = s}
       IN  EndAll(E, "revoked", "service")
    /\ UNCHANGED <<person, allowed, reader, task, troubles>>

(* A person revokes the connection's API key on its own.                   *)
RevokeKey(s) ==
    /\ svc[s].key
    /\ svc' = [svc EXCEPT ![s].key = FALSE]
    /\ UNCHANGED <<conn, person, allowed, reader, task, troubles>>

(* The workspace's switches.                                               *)
Switch ==
    /\ Trouble
    /\ \E w \in {"content", "ai"} : allowed' = IF w \in allowed THEN allowed \ {w}
                                                ELSE allowed \union {w}
    /\ UNCHANGED <<conn, svc, person, reader, task>>

-----------------------------------------------------------------------------
(* The janitor.                                                            *)

(* The candidates of ExpireMCPConnections and RevokeIdleMCPConnections,    *)
(* found outside any lock.                                                 *)
Stale(c) == conn[c].status = "pending" /\ conn[c].stale
RunOut(c) == conn[c].status \in {"active", "reseal"} /\ conn[c].past
Unused(c) ==
    /\ conn[c].status \in {"active", "reseal"} /\ ~ conn[c].past
    /\ conn[c].kind = "assistant" /\ conn[c].unused

ListDue(t, c) ==
    \/ Stale(c) /\ Begin(t, "stale", c, None) /\ UNCHANGED <<conn, svc, person, allowed, reader, troubles>>
    \/ RunOut(c) /\ Begin(t, "runout", c, None) /\ UNCHANGED <<conn, svc, person, allowed, reader, troubles>>
    \/ Unused(c) /\ Begin(t, "unused", c, None) /\ UNCHANGED <<conn, svc, person, allowed, reader, troubles>>

(* ExpireMCPConnections ends what it listed.                               *)
EndDue(t) ==
    /\ \/ At(t, "stale") /\ EndAll({task[t].c}, "revoked", "pending_expired")
       \/ At(t, "runout") /\ EndAll({task[t].c}, "expired", "expired")
    /\ Finish(t)
    /\ UNCHANGED <<person, allowed, reader, troubles>>

(* Mutant: what the sweep picked is ended as picked. *)
StillUnusedPicked(c) == Live(c)

(* endIfIdle looks again under the row's lock.                             *)
StillUnused(c) == Unused(c)

EndIfIdle(t) ==
    /\ At(t, "unused")
    /\ IF StillUnused(task[t].c)
       THEN EndAll({task[t].c}, "revoked", "idle") ELSE UNCHANGED <<conn, svc>>
    /\ Finish(t)
    /\ UNCHANGED <<person, allowed, reader, troubles>>

(* ExpireServiceAccounts: a deadline passed, and no live connection names  *)
(* the account.                                                            *)
ExpireService(s) ==
    /\ svc[s].state \in {"provisional", "bound"} /\ svc[s].due
    /\ \A c \in Conns : ~ (Live(c) /\ conn[c].svc = s)
    /\ svc' = [svc EXCEPT ![s] = Removed(@)]
    /\ UNCHANGED <<conn, person, allowed, reader, task, troubles>>

-----------------------------------------------------------------------------
(* Time.  The reader's request is older than the row, and is gone when the *)
(* row is twenty minutes old; the account's deadline is the connection's.  *)

PendingAges(c) ==
    /\ conn[c].status = "pending" /\ ~ conn[c].stale /\ reader[c].has = "no"
    /\ \A t \in Tasks : ~ (At(t, "relay") /\ task[t].c = c)
    /\ conn' = [conn EXCEPT ![c].stale = TRUE]
    /\ UNCHANGED <<svc, person, allowed, reader, task, troubles>>

LifetimeEnds(c) ==
    /\ conn[c].status \in {"active", "reseal"} /\ ~ conn[c].past
    /\ conn' = [conn EXCEPT ![c].past = TRUE]
    /\ svc' = [svc EXCEPT ![conn[c].svc].due = TRUE]
    /\ UNCHANGED <<person, allowed, reader, task, troubles>>

IdleTime(c) ==
    /\ conn[c].status \in {"active", "reseal"} /\ ~ conn[c].unused
    /\ conn' = [conn EXCEPT ![c].unused = TRUE]
    /\ UNCHANGED <<svc, person, allowed, reader, task, troubles>>

ProvisionEnds(s) ==
    /\ svc[s].state = "provisional" /\ ~ svc[s].due
    /\ svc' = [svc EXCEPT ![s].due = TRUE]
    /\ UNCHANGED <<conn, person, allowed, reader, task, troubles>>

(* The process stops in the middle of a handler.                           *)
Stop(t) ==
    /\ ~ Free(t) /\ Trouble /\ Finish(t)
    /\ UNCHANGED <<conn, svc, person, allowed, reader>>

Step(t) ==
    \/ RelayBundle(t) \/ DeleteFailed(t) \/ ReadReconnect(t) \/ ReplacePrevious(t)
    \/ RaiseNotice(t) \/ ClaimNoticeMail(t)
    \/ RelayRenewal(t) \/ Renew(t) \/ DiscardService(t)
    \/ AnswerStatus(t) \/ EndLost(t) \/ TellRevoked(t) \/ EndDue(t) \/ EndIfIdle(t)

Next ==
    \/ \E t \in Tasks, c \in Conns, s \in Services, k \in Kinds, r \in BOOLEAN :
            Create(t, c, s, k, r)
    \/ \E t \in Tasks, c \in Conns, s \in Services : StartRenewal(t, c, s)
    \/ \E t \in Tasks, c \in Conns :
            \/ Activate(t, c) \/ BudgetHit(t, c) \/ AskStatus(t, c)
            \/ Remove(t, c) \/ RevokeByLink(t, c) \/ ListDue(t, c)
    \/ \E c \in Conns :
            \/ Reseal(c) \/ ReaderForgets(c) \/ RevokeByID(c) \/ Use(c)
            \/ ResendRevocation(c) \/ PendingAges(c) \/ LifetimeEnds(c) \/ IdleTime(c)
    \/ \E s \in Services :
            \/ MakeService(s) \/ ServiceGone(s) \/ RevokeKey(s)
            \/ ExpireService(s) \/ ProvisionEnds(s)
    \/ \E t \in Tasks : Step(t) \/ Stop(t)
    \/ ReaderRestarts \/ MemberGone \/ Switch

Spec == Init /\ [][Next]_vars

-----------------------------------------------------------------------------
Ops == {"idle", "relay", "undo", "activated", "replace", "announce", "mail",
        "bundle", "renew", "discard", "status", "lost", "tell",
        "stale", "runout", "unused"}

(* Every variable has its type.                                            *)
TypeOK ==
    /\ conn \in [Conns -> [status : Statuses,
                           reason : {None, "relay_failed", "replaced", "expired",
                                     "access_lost", "reader", "console", "member",
                                     "service", "pending_expired", "idle"},
                           svc : Services \union {None}, kind : Kinds \union {None},
                           replaces : BOOLEAN, past : BOOLEAN, stale : BOOLEAN,
                           unused : BOOLEAN, told : BOOLEAN, raised : BOOLEAN,
                           mailed : BOOLEAN, link : BOOLEAN]]
    /\ svc \in [Services -> [state : {"none", "provisional", "bound", "gone"},
                             key : BOOLEAN, due : BOOLEAN]]
    /\ person \in BOOLEAN /\ allowed \subseteq {"content", "ai"}
    /\ reader \in [Conns -> [has : {"no", "asked", "yes"}, svc : Services \union {None},
                             key : BOOLEAN, stages : SUBSET Services, owes : BOOLEAN]]
    /\ task \in [Tasks -> [op : Ops, c : Conns \union {0},
                           s : Services \union {None}, st : Statuses]]
    /\ troubles \in 0..MaxTroubles

(* An account that was ever given to a connection reads only while a live  *)
(* connection names it: whatever ended the connection, and whichever       *)
(* renewal took the account's place (endMCPConnectionTx, Renew).           *)
NothingOutlives ==
    \A s \in Services : svc[s].state = "bound" =>
        \E c \in Conns : Live(c) /\ conn[c].svc = s

(* A live connection's account is there for it: no failed renewal, undone  *)
(* consent or sweep of another takes it away (DiscardService,              *)
(* ExpireServiceAccounts, DeleteFailed).                                   *)
LiveHasAccount ==
    \A c \in Conns : Live(c) =>
        /\ svc[conn[c].svc].state = "bound"
        /\ svc[conn[c].svc].due => conn[c].past
        /\ \A d \in Conns \ {c} : conn[d].svc # conn[c].svc

(* A revoke-only link is kept only for a connection that still lives: an   *)
(* e-mail claimed while the connection ends leaves none (ClaimNoticeMail). *)
LinkNamesLive == \A c \in Conns : conn[c].link => Live(c)

(* An ended connection stays ended, for the reason it first ended: no late *)
(* reseal, renewal, activation or second end rewrites it.                  *)
EndStands ==
    \A c \in Conns : conn[c].status \in Ended =>
            conn'[c].status = conn[c].status /\ conn'[c].reason = conn[c].reason

(* A connection whose handshake completed is never undone as one whose     *)
(* handshake did not: by the handler that lost the reader's answer         *)
(* (DeleteFailed) or by the janitor's list (pending_expired).              *)
HandshakeStands ==
    \A c \in Conns : conn[c].status \in {"active", "reseal"} =>
            conn'[c].reason \notin {"relay_failed", "pending_expired"}

(* A connection ends as idle only while it is unused: one renewed or read  *)
(* with after the sweep picked it is kept (endIfIdle).                     *)
IdleOnlyUnused ==
    \A c \in Conns : conn'[c].reason = "idle" /\ conn[c].reason # "idle" =>
            conn[c].unused

(* Connections and the accounts they read with live and end together. *)
AssistantsSafe ==
    /\ TypeOK
    /\ NothingOutlives
    /\ LiveHasAccount
    /\ LinkNamesLive

(* A connection ends once, for a reason that is true when it ends. *)
AssistantSteps == [][EndStands /\ HandshakeStands /\ IdleOnlyUnused]_vars
=============================================================================
