------------------------------ MODULE Outbound ------------------------------
(***************************************************************************)
(* The ledger of what one person's assistant connections draft and send    *)
(* (store/mcp_send.go), the reader's requests that write it                *)
(* (mcpauth/send.go) and the confirmation of a draft over the WebSocket    *)
(* (wsapi/mcpsend.go).                                                     *)
(*                                                                         *)
(* A transaction that waits between two statements is two steps, with the  *)
(* lock it holds in the task's record: of the connection's row (a send);   *)
(* a confirmation, which holds the draft's row alone, is three, with the   *)
(* permission read between the lock and the update.  Ends, pauses and the  *)
(* janitor wait for those locks as PostgreSQL makes them.  Ages of rows    *)
(* are flags that time changes.  WhatsApp is what left of each row.        *)
(***************************************************************************)
EXTENDS Naturals, FiniteSets

CONSTANTS
    Conns,        \* connections of one workspace, consented by one person
    DraftIDs,     \* draft ids the readers draw
    Refs,         \* client references of sends
    Tasks,        \* requests and frames at once
    MaxRows,      \* rows of the ledger
    PerDay,       \* SendLimits.PerDay
    TenantPerDay, \* SendLimits.TenantPerDay
    DraftsPending,\* SendLimits.DraftsPending
    MaxRefusals,  \* maxRefusalsPerDay
    MaxFaults     \* crashes and failed statements in a behaviour

ASSUME OutboundAssumption ==
    /\ {MaxRows, PerDay, TenantPerDay, DraftsPending, MaxRefusals} \subseteq Nat \ {0}
    /\ MaxFaults \in Nat
    /\ 0 \notin Conns \union DraftIDs \union Refs

VARIABLES
    conn,      \* what the routes read of mcp_connections
    permitted, \* the person may send on the number
    allowed,   \* the workspace's send switch
    row,       \* mcp_outbound
    left,      \* messages of a row that reached WhatsApp
    task,      \* requests and frames under way
    faults     \* so far

vars == <<conn, permitted, allowed, row, left, task, faults>>

Rows == 1..MaxRows
Names == DraftIDs \union Refs
Kinds == {"draft", "self"}
Ops == {"idle", "draft", "self", "limits", "refuse", "claimed", "cleared", "send", "finish"}
Settled == {"sent", "uncertain", "discarded", "expired", "revoked", "refused"}
NoRow == [status |-> "none", conn |-> 0, kind |-> "draft", name |-> 0, sealed |-> FALSE,
          today |-> FALSE, old |-> FALSE]

(* A request of a connection, and a send of a row.  may records whether     *)
(* the person might send when a confirmation locked its draft's row.       *)
Request(op, c, name, kind, key) ==
    [op |-> op, c |-> c, name |-> name, kind |-> kind, key |-> key, r |-> 0, out |-> "none",
     may |-> TRUE]
OfRow(op, r, out) ==
    [op |-> op, c |-> 0, name |-> 0, kind |-> "draft", key |-> 0, r |-> r, out |-> out,
     may |-> TRUE]
Idle == Request("idle", 0, 0, "draft", 0)

Init ==
    /\ conn = [c \in Conns |-> [status |-> "active", paused |-> FALSE, key |-> 1]]
    /\ permitted = TRUE /\ allowed = TRUE
    /\ row = [r \in Rows |-> NoRow]
    /\ left = [r \in Rows |-> 0]
    /\ task = [t \in Tasks |-> Idle]
    /\ faults = 0

At(t, op) == task[t].op = op
Becomes(t, next) == task' = [task EXCEPT ![t] = next]
Done(t) == Becomes(t, Idle)
Refuse(t) == Becomes(t, Request("refuse", task[t].c, 0, task[t].kind, 0))
Fault == faults < MaxFaults /\ faults' = faults + 1

(* A row written, and a row that waits or is under way settled or taken:    *)
(* the envelope goes with the change.                                      *)
Written(status, c, kind, name, sealed) ==
    [status |-> status, conn |-> c, kind |-> kind, name |-> name, sealed |-> sealed,
     today |-> status # "pending", old |-> FALSE]
Changed(r, status) ==
    [status |-> status, conn |-> row[r].conn, kind |-> row[r].kind, name |-> row[r].name,
     sealed |-> FALSE, today |-> row[r].today, old |-> FALSE]
Settles(r, status) == row' = [row EXCEPT ![r] = Changed(r, status)]

(* An unused place; the bound of the ledger.                               *)
Room == \E r \in Rows : row[r].status = "none"
Fresh == CHOOSE r \in Rows : row[r].status = "none"

(* lockSendingTx: a send's transaction holds the connection's row, and     *)
(* shares the workspace's.                                                 *)
Locked(c) == \E t \in Tasks : At(t, "limits") /\ task[t].c = c
Shared == \E t \in Tasks : At(t, "limits")

(* ClaimDraft's FOR UPDATE OF o, held until it commits.                    *)
Claiming(t) == At(t, "claimed") \/ At(t, "cleared")
RowLocked(r) == \E t \in Tasks : Claiming(t) /\ task[t].r = r

-----------------------------------------------------------------------------
(* The reader's requests.                                                  *)

(* sendingConnection: the connection's key, as it is now, and the switch.  *)
(* A request that does not pass the switch is refused.                     *)
SendingConnection(c, kind, name) ==
    Request(IF allowed THEN kind ELSE "refuse", c, name, kind, conn[c].key)

(* enclaveDraft, as far as its transaction.                                *)
AskDraft(t, c, name) ==
    /\ At(t, "idle") /\ conn[c].status # "ended"
    /\ Becomes(t, SendingConnection(c, "draft", name))
    /\ UNCHANGED <<conn, permitted, allowed, row, left, faults>>

(* enclaveSend, as far as its transaction: the text goes to the person.    *)
AskSend(t, c, name) ==
    /\ At(t, "idle") /\ conn[c].status # "ended"
    /\ Becomes(t, SendingConnection(c, "self", name))
    /\ UNCHANGED <<conn, permitted, allowed, row, left, faults>>

(* liveForSending, for the key the request presented.                      *)
LiveForSending(t) ==
    LET c == task[t].c
    IN  conn[c].status = "active" /\ conn[c].key = task[t].key /\ ~ conn[c].paused

(* draftLimitsTx                                                           *)
DraftsWaiting(c) ==
    {r \in Rows : row[r].conn = c /\ row[r].status = "pending" /\ ~ row[r].old}

(* The chat, the reply and the text are the connection's to reach, or not. *)
Eligible == BOOLEAN

(* CreateDraft, under the connection's lock.                               *)
CreateDraft(t) ==
    /\ At(t, "draft") /\ ~ Locked(task[t].c)
    /\ LET c == task[t].c
           exists == \E r \in Rows : row[r].kind = "draft" /\ row[r].name = task[t].name
           refused == \/ ~ LiveForSending(t) \/ ~ permitted
                      \/ Cardinality(DraftsWaiting(c)) >= DraftsPending
       IN  \E fits \in Eligible :
           \/ /\ refused \/ ~ fits
              /\ Refuse(t) /\ row' = row
           \/ /\ ~ refused /\ fits /\ exists
              /\ Done(t) /\ row' = row
           \/ /\ ~ refused /\ fits /\ ~ exists /\ Room
              /\ row' = [row EXCEPT ![Fresh] = Written("pending", c, "draft", task[t].name, TRUE)]
              /\ Done(t)
    /\ UNCHANGED <<conn, permitted, allowed, left, faults>>

(* outboundByRefTx                                                         *)
Recorded(c, name) ==
    \E r \in Rows : row[r].conn = c /\ row[r].kind = "self" /\ row[r].name = name

(* The sends the limits count: those that left, or may have.               *)
Counted(r) == row[r].kind = "self" /\ row[r].status \in {"sending", "sent", "uncertain"}
SentToday == {r \in Rows : Counted(r) /\ row[r].today}
SentBy(c) == {r \in SentToday : row[r].conn = c}

(* sendLimitsTx, the connection's part: its caps, one window standing for  *)
(* the interval, the hour and the day.                                     *)
ConnLimit(c) == Cardinality(SentBy(c)) >= PerDay

(* StartSend as far as the connection's limits: a reference already in the *)
(* ledger is answered with what it recorded.                               *)
StartSend(t) ==
    /\ At(t, "self") /\ ~ Locked(task[t].c)
    /\ LET c == task[t].c
           refused == ~ LiveForSending(t) \/ ~ permitted
       IN  \E fits \in Eligible :
           \/ /\ refused \/ ~ fits
              /\ Refuse(t)
           \/ /\ ~ refused /\ fits /\ Recorded(c, task[t].name)
              /\ Done(t)
           \/ /\ ~ refused /\ fits /\ ~ Recorded(c, task[t].name)
              /\ IF ConnLimit(c) THEN Refuse(t)
                 ELSE Becomes(t, Request("limits", c, task[t].name, "self", task[t].key))
    /\ UNCHANGED <<conn, permitted, allowed, row, left, faults>>

(* sendLimitsTx, the workspace's part, under its advisory lock.            *)
WorkspaceFull == Cardinality(SentToday) >= TenantPerDay

(* The row is written sending, before anything leaves.                     *)
RecordSend(t) ==
    /\ At(t, "limits")
    /\ LET c == task[t].c
       IN  \/ WorkspaceFull /\ Refuse(t) /\ row' = row
           \/ /\ ~ WorkspaceFull /\ Room
              /\ row' = [row EXCEPT ![Fresh] = Written("sending", c, "self", task[t].name, FALSE)]
              /\ Becomes(t, OfRow("send", Fresh, "none"))
    /\ UNCHANGED <<conn, permitted, allowed, left, faults>>

(* RecordRefusal: a row that never changes and carries no reference, up to *)
(* the day's cap; past it the refusal is only counted for the log.         *)
RecordRefusal(t) ==
    /\ At(t, "refuse") /\ ~ Locked(task[t].c)
    /\ LET c == task[t].c
           full == Cardinality({r \in Rows : row[r].conn = c /\ row[r].status = "refused"
                                             /\ row[r].today}) >= MaxRefusals
       IN  \/ full /\ row' = row
           \/ /\ ~ full /\ Room
              /\ row' = [row EXCEPT ![Fresh] = Written("refused", c, task[t].kind, 0, FALSE)]
    /\ Done(t)
    /\ UNCHANGED <<conn, permitted, allowed, left, faults>>

(* enclaveRefusal: the reader decided it itself.                           *)
ReaderRefusal(t, c, kind) ==
    /\ At(t, "idle") /\ conn[c].status # "ended"
    /\ Becomes(t, Request("refuse", c, 0, kind, 0))
    /\ UNCHANGED <<conn, permitted, allowed, row, left, faults>>

-----------------------------------------------------------------------------
(* The send itself, and its record.                                        *)

(* SendText: it refuses before anything leaves, it fails with nobody       *)
(* knowing, or it is sent.  A confirmed draft's failure is never a         *)
(* refusal.                                                                *)
SendText(t) ==
    /\ At(t, "send")
    /\ LET r == task[t].r
           never == IF row[r].kind = "draft" THEN "uncertain" ELSE "refused"
       IN  \/ /\ left' = left
              /\ \E out \in {never, "uncertain"} : Becomes(t, OfRow("finish", r, out))
           \/ /\ left' = [left EXCEPT ![r] = @ + 1]
              /\ \E out \in {"sent", "uncertain"} : Becomes(t, OfRow("finish", r, out))
    /\ UNCHANGED <<conn, permitted, allowed, row, faults>>

(* Only a send still in flight is changed.                                 *)
Finishable(r) == row[r].status = "sending"

(* FinishSend                                                              *)
FinishSend(t) ==
    /\ At(t, "finish") /\ row[task[t].r].kind = "self"
    /\ IF Finishable(task[t].r) THEN Settles(task[t].r, task[t].out) ELSE row' = row
    /\ Done(t)
    /\ UNCHANGED <<conn, permitted, allowed, left, faults>>

(* FinishDraft                                                             *)
FinishDraft(t) ==
    /\ At(t, "finish") /\ row[task[t].r].kind = "draft" /\ ~ RowLocked(task[t].r)
    /\ IF Finishable(task[t].r) THEN Settles(task[t].r, task[t].out) ELSE row' = row
    /\ Done(t)
    /\ UNCHANGED <<conn, permitted, allowed, left, faults>>

(* finishSend and finishDraft log a failed record and go on; a process     *)
(* that stops leaves the same row.                                         *)
Crash(t) ==
    /\ ~ At(t, "idle") /\ Fault /\ Done(t)
    /\ UNCHANGED <<conn, permitted, allowed, row, left>>

-----------------------------------------------------------------------------
(* The console.                                                            *)

(* A draft that waits: pending, and not past its expiry.                   *)
Waiting(r) == row[r].status = "pending" /\ ~ row[r].old

(* Mutant: a draft is taken whether or not it was taken before. *)
ClaimableTaken(r) ==
    /\ Waiting(r) \/ row[r].status = "sending"
    /\ conn[row[r].conn].status # "ended" /\ ~ conn[row[r].conn].paused /\ allowed

(* ClaimDraft's rules: the draft waits, and its connection, active or to   *)
(* be resealed, may send.                                                  *)
Claimable(r) ==
    /\ Waiting(r)
    /\ conn[row[r].conn].status # "ended" /\ ~ conn[row[r].conn].paused /\ allowed

(* handleDraftSend, then ClaimDraft's first statement: the draft's row is  *)
(* locked, the connection's is read as it stands.                          *)
Confirm(t, r) ==
    /\ At(t, "idle") /\ row[r].kind = "draft" /\ ~ RowLocked(r)
    /\ Claimable(r)
    /\ Becomes(t, [OfRow("claimed", r, "none") EXCEPT !.may = permitted])
    /\ UNCHANGED <<conn, permitted, allowed, row, left, faults>>

(* ClaimDraft's second statement, sendPermittedTx: no lock is taken on     *)
(* what it reads.                                                          *)
PermitDraft(t) ==
    /\ At(t, "claimed")
    /\ IF permitted THEN Becomes(t, [task[t] EXCEPT !.op = "cleared"]) ELSE Done(t)
    /\ UNCHANGED <<conn, permitted, allowed, row, left, faults>>

(* ClaimDraft's update: sending from now, and its envelope gone.           *)
ClaimDraft(t) ==
    /\ At(t, "cleared")
    /\ Settles(task[t].r, "sending") /\ Becomes(t, OfRow("send", task[t].r, "none"))
    /\ UNCHANGED <<conn, permitted, allowed, left, faults>>

(* DiscardDraft                                                            *)
DiscardDraft(r) ==
    /\ row[r].kind = "draft" /\ Waiting(r) /\ ~ RowLocked(r)
    /\ Settles(r, "discarded")
    /\ UNCHANGED <<conn, permitted, allowed, left, task, faults>>

(* Mutant: the row is updated without its lock. *)
PausableUnlocked(c) == conn[c].status # "ended"

(* SetSendPaused waits for the connection's lock.                          *)
Pausable(c) == conn[c].status # "ended" /\ ~ Locked(c)

(* The person who consented, or a manager, pauses; only the first takes    *)
(* the pause off.                                                          *)
SetSendPaused(c, consenter, paused) ==
    /\ Pausable(c) /\ (paused \/ consenter) /\ conn[c].paused # paused
    /\ conn' = [conn EXCEPT ![c].paused = paused]
    /\ UNCHANGED <<permitted, allowed, row, left, task, faults>>

-----------------------------------------------------------------------------
(* What changes around a request.                                          *)

(* endMCPConnectionTx: the workspace's and the connection's lock, then the *)
(* drafts that wait, text and all.                                         *)
EndConnection(c) ==
    /\ conn[c].status # "ended" /\ ~ Shared
    /\ \A r \in Rows : row[r].conn = c => ~ RowLocked(r)
    /\ conn' = [conn EXCEPT ![c].status = "ended"]
    /\ row' = [r \in Rows |-> IF row[r].conn = c /\ row[r].status = "pending"
                              THEN Changed(r, "revoked") ELSE row[r]]
    /\ UNCHANGED <<permitted, allowed, left, task, faults>>

(* A renewal swaps the connection's key, a reseal takes it out of use.     *)
Rekey(c) ==
    /\ ~ Shared
    /\ \/ conn[c].status = "active" /\ conn' = [conn EXCEPT ![c].status = "reseal"]
       \/ /\ conn[c].status = "reseal" /\ conn[c].key = 1
          /\ conn' = [conn EXCEPT ![c] = [status |-> "active", paused |-> conn[c].paused, key |-> 2]]
    /\ UNCHANGED <<permitted, allowed, row, left, task, faults>>

(* A manager takes the person's permission away, under the workspace's     *)
(* lock; or the operator switches sending off.                             *)
Withdraw ==
    /\ \/ permitted /\ ~ Shared /\ permitted' = FALSE /\ allowed' = allowed
       \/ allowed /\ allowed' = FALSE /\ permitted' = permitted
    /\ UNCHANGED <<conn, row, left, task, faults>>

(* Time: a draft's day, or a send's ten minutes; the window of the caps.   *)
Passes(r) ==
    /\ \/ /\ row[r].status \in {"pending", "sending"} /\ ~ row[r].old
          /\ row' = [row EXCEPT ![r].old = TRUE]
       \/ /\ row[r].today /\ row[r].status \in Settled
          /\ row' = [row EXCEPT ![r].today = FALSE]
    /\ UNCHANGED <<conn, permitted, allowed, left, task, faults>>

-----------------------------------------------------------------------------
(* The janitor.                                                            *)

(* SettleMCPOutbound: a draft past its expiry.                             *)
ExpireDraft(r) ==
    /\ row[r].status = "pending" /\ row[r].old /\ ~ RowLocked(r)
    /\ Settles(r, "expired")
    /\ UNCHANGED <<conn, permitted, allowed, left, task, faults>>

(* What nobody knows the outcome of.                                       *)
StaleSettled == "uncertain"

(* A send in flight for longer than any send takes.                        *)
SettleStale(r) ==
    /\ row[r].status = "sending" /\ row[r].old /\ ~ RowLocked(r)
    /\ Settles(r, StaleSettled)
    /\ UNCHANGED <<conn, permitted, allowed, left, task, faults>>

Step(t) ==
    \/ CreateDraft(t) \/ StartSend(t) \/ RecordSend(t) \/ RecordRefusal(t)
    \/ SendText(t) \/ FinishSend(t) \/ FinishDraft(t) \/ PermitDraft(t) \/ ClaimDraft(t)

Next ==
    \/ \E t \in Tasks : Step(t) \/ Crash(t)
    \/ \E t \in Tasks, c \in Conns, id \in DraftIDs : AskDraft(t, c, id)
    \/ \E t \in Tasks, c \in Conns, ref \in Refs : AskSend(t, c, ref)
    \/ \E t \in Tasks, c \in Conns, kind \in Kinds : ReaderRefusal(t, c, kind)
    \/ \E t \in Tasks, r \in Rows : Confirm(t, r)
    \/ \E r \in Rows : DiscardDraft(r) \/ Passes(r) \/ ExpireDraft(r) \/ SettleStale(r)
    \/ \E c \in Conns, consenter, paused \in BOOLEAN : SetSendPaused(c, consenter, paused)
    \/ \E c \in Conns : EndConnection(c) \/ Rekey(c)
    \/ Withdraw

Spec == Init /\ [][Next]_vars

-----------------------------------------------------------------------------
(* Every variable has its type.                                            *)
TypeOK ==
    /\ conn \in [Conns -> [status : {"active", "reseal", "ended"}, paused : BOOLEAN, key : {1, 2}]]
    /\ permitted \in BOOLEAN /\ allowed \in BOOLEAN
    /\ row \in [Rows -> [status : Settled \union {"none", "pending", "sending"},
                         conn : Conns \union {0}, kind : Kinds, name : Names \union {0},
                         sealed : BOOLEAN, today : BOOLEAN, old : BOOLEAN]]
    /\ left \in [Rows -> Nat]
    /\ task \in [Tasks -> [op : Ops, c : Conns \union {0}, name : Names \union {0}, kind : Kinds,
                           key : 0..2, r : Rows \union {0}, out : Settled \union {"none"},
                           may : BOOLEAN]]
    /\ faults \in 0..MaxFaults

(* One draft, and one reference of a connection, never make two messages:  *)
(* a second confirmation, a repeated request and a request that lost its   *)
(* answer find the first in the ledger (ClaimDraft, outboundByRefTx).      *)
NeverTwice ==
    /\ \A r \in Rows : left[r] <= 1
    /\ \A q, r \in Rows : q # r /\ left[q] = 1 /\ left[r] = 1 =>
            <<row[q].conn, row[q].kind, row[q].name>> # <<row[r].conn, row[r].kind, row[r].name>>

(* What the ledger says of a message is true: sent means it left, and      *)
(* refused, discarded, expired or revoked that it did not and never will.  *)
LedgerTrue ==
    \A r \in Rows :
        /\ row[r].status = "sent" => left[r] = 1
        /\ row[r].status \in {"refused", "discarded", "expired", "revoked", "pending"} => left[r] = 0

(* An outcome, once written, stands: a late answer, a second decision and  *)
(* the janitor leave it alone.                                             *)
OutcomeStands ==
    \A r \in Rows : row[r].status \in Settled => row'[r].status = row[r].status

(* The envelope of a draft is held only while the draft waits.             *)
EnvelopeGone == \A r \in Rows : row[r].sealed => row[r].status = "pending"

(* An ended connection leaves no draft to confirm: one being created when  *)
(* it ends is refused, or revoked with the rest (lockSendingTx).           *)
EndedLeavesNone ==
    \A r \in Rows : row[r].status = "pending" => conn[row[r].conn].status # "ended"

(* The caps of a connection and of the workspace hold for connections that *)
(* send at once: the counts are read under the locks of lockSendingTx and  *)
(* of sendLimitsTx, and a send in flight counts.                           *)
WithinLimits ==
    /\ Cardinality(SentToday) <= TenantPerDay
    /\ \A c \in Conns : Cardinality(SentBy(c)) <= PerDay

(* A send starts only for a connection that is active and not paused and a *)
(* person who may send: an end, a pause and a withdrawal that committed    *)
(* before are obeyed (lockSendingTx).  A draft starts only while its       *)
(* connection lives, for a person who might send when the draft's row was  *)
(* locked: a withdrawal between sendPermittedTx and the update is not seen *)
(* (ClaimDraft), one from before the confirmation always is.               *)
StartsOnlyAllowed ==
    \A r \in Rows : row[r].status # "sending" /\ row'[r].status = "sending" =>
            LET c == row'[r].conn
            IN  \/ /\ row'[r].kind = "self" /\ permitted
                   /\ conn[c].status = "active" /\ ~ conn[c].paused
                \/ /\ row'[r].kind = "draft" /\ conn[c].status # "ended"
                   /\ \E t \in Tasks : At(t, "cleared") /\ task[t].r = r /\ task[t].may

(* The ledger of sends is true, no message leaves twice, and the limits hold. *)
OutboundSafe ==
    /\ TypeOK
    /\ NeverTwice
    /\ LedgerTrue
    /\ EnvelopeGone
    /\ EndedLeavesNone
    /\ WithinLimits

(* No send starts that is no longer allowed, and no outcome is rewritten. *)
OutboundSteps == [][OutcomeStands /\ StartsOnlyAllowed]_vars
=============================================================================
