------------------------------ MODULE Deletion ------------------------------
(***************************************************************************)
(* Deleting one number: the owner's deletion and the WhatsApp logout after *)
(* its commit, the janitor's retry of that logout, the recovery, the purge *)
(* and its objects, and the move to Personal, which pauses the same row.   *)
(*                                                                         *)
(* Each transaction is one action.  What lies between two of them is what  *)
(* can go wrong: the logout runs after the deletion's commit, outside any  *)
(* transaction, and cannot be undone; the device lock ("device:<id>") is   *)
(* what keeps a recovery, a purge and a move away from it.                 *)
(*                                                                         *)
(* How a client gets and keeps the lock is module Supervision's; here a    *)
(* client is held or not.                                                  *)
(***************************************************************************)
EXTENDS Integers, FiniteSets

CONSTANTS
    Procs,              \* the server's processes
    Supervisors,        \* those whose supervisor may run the number
    Deleters,           \* those that may get a device.delete
    Janitors,           \* those whose hourly pass is modelled
    Operators,          \* those with "devices purge-deleted -now" running
    Movers,             \* those that may get a device.transfer
    MaxUnlinkAttempts,  \* logouts one session gets (3 in the code)
    Batches,            \* batches of archive rows the number has
    MaxDeletes,         \* bound: deletions of the number
    MaxRegs,            \* bound: sessions WhatsApp ever links
    MaxTroubles         \* bound: crashes, failed calls, bans, phones that unlink,
                        \* and requests that cross a deletion (pauses, -now
                        \* purges and moves)

ASSUME DeletionAssumption ==
    /\ Supervisors \subseteq Procs /\ Deleters \subseteq Procs
    /\ Janitors \subseteq Procs /\ Operators \subseteq Procs
    /\ Movers \subseteq Procs
    /\ MaxUnlinkAttempts \in Nat \ {0}
    /\ {Batches, MaxDeletes, MaxTroubles} \subseteq Nat
    /\ MaxRegs \in Nat \ {0}

VARIABLES
    row,      \* the devices row
    wa,       \* WhatsApp and whatsmeow's session store, under the number's JID
    lock,     \* who holds the advisory lock "device:<id>"
    client,   \* client[p]: the session p's running client was started with
    claimed,  \* processes whose supervisor has read the row as one to start
    task,     \* task[x]: where the request or pass x is
    archive,  \* batches of the number's archive rows left
    orphans,  \* objects a purge released that are still in the bucket
    used      \* how much of each bound is spent (in no code state)

vars == <<row, wa, lock, client, claimed, task, archive, orphans, used>>

-----------------------------------------------------------------------------
NoReg == 0                  \* no session; sessions are registration ids
Regs == 1 .. MaxRegs
NoOne == <<"no process", "no one">>

Deletes == Deleters \X {"delete"}
Passes == Janitors \X {"janitor"}
Purges == Operators \X {"operator"}
Moves == Movers \X {"move"}
Tasks == Deletes \cup Passes \cup Purges \cup Moves

(* The lock's name for process p's running client. *)
Running(p) == <<p, "client">>

Steps == {"idle",
          "marked", "committed",                        \* a deletion
          "list", "retry", "confirm",                   \* the leftover retry
          "recheck", "logout", "record", "unrecorded", "stop",
          "purge", "batch", "released", "end", "orphans",
          "pause", "halt", "move", "undo"}              \* a transfer

Idle == [step |-> "idle", at |-> 0, reg |-> NoReg, flag |-> FALSE]

(* at: the deletion's deleted_at, or a move's pause_seq.  reg: the session  *)
(* a logout would end.  flag: the logout was acknowledged, or the move's    *)
(* pause changed the row.                                                   *)
TaskStates == [step : Steps, at : Nat, reg : Regs \cup {NoReg}, flag : BOOLEAN]

Rows == [exists : BOOLEAN, deletedAt : 0 .. MaxDeletes, due : BOOLEAN,
         started : BOOLEAN, status : {"open", "logged_out", "banned"},
         reason : {"", "deleted", "no session", "unlinked", "moved"},
         left : Regs \cup {NoReg}, tries : Nat,
         paused : BOOLEAN, cause : {"none", "person", "deletion", "move"},
         seq : Nat, home : {"team", "personal"}]

TypeOK ==
    /\ row \in Rows
    /\ wa \in [session : Regs \cup {NoReg}, phone : Regs \cup {NoReg},
               last : Regs, other : BOOLEAN,
               endedBy : {"none", "whatsapp", "deletion", "janitor", "purge"}]
    /\ lock \in {NoOne} \cup Tasks \cup {Running(p) : p \in Procs}
    /\ client \in [Procs -> Regs \cup {NoReg}]
    /\ claimed \subseteq Procs
    /\ task \in [Tasks -> TaskStates]
    /\ archive \in 0 .. Batches
    /\ orphans \in 0 .. Batches
    /\ used \in [deletes : 0 .. MaxDeletes, troubles : 0 .. MaxTroubles]

Init ==
    /\ row = [exists |-> TRUE, deletedAt |-> 0, due |-> FALSE,
              started |-> FALSE, status |-> "open", reason |-> "",
              left |-> NoReg, tries |-> 0, paused |-> FALSE,
              cause |-> "none", seq |-> 0, home |-> "team"]
    /\ wa = [session |-> 1, phone |-> 1, last |-> 1, other |-> FALSE,
             endedBy |-> "none"]
    /\ lock = NoOne
    /\ client = [p \in Procs |-> NoReg]
    /\ claimed = {}
    /\ task = [x \in Tasks |-> Idle]
    /\ archive = Batches
    /\ orphans = 0
    /\ used = [deletes |-> 0, troubles |-> 0]

-----------------------------------------------------------------------------
(* The row-level security of 0050 hides an excluded row from everything but *)
(* a quarantine scope.                                                      *)
Live == row.exists /\ row.deletedAt = 0
Excluded == row.exists /\ row.deletedAt # 0
ExcludedBy(at) == row.exists /\ row.deletedAt = at

(* BeginUnlink's mark stands from before the deletion's commit to the end. *)
Unlinking(p) == <<p, "delete">> \in Tasks /\ task[<<p, "delete">>].step # "idle"

(* The process has an entry for the number: a client, or a reservation.    *)
Held(p) == client[p] # NoReg \/ \E x \in Tasks : x[1] = p /\ lock = x

At(x, step) == task[x].step = step
Goes(x, step, reg, flag) ==
    task' = [task EXCEPT ![x] = [step |-> step, at |-> task[x].at, reg |-> reg, flag |-> flag]]
Goto(x, step) == Goes(x, step, task[x].reg, task[x].flag)
Finish(x) == task' = [task EXCEPT ![x] = Idle]

Trouble == /\ used.troubles < MaxTroubles
           /\ used' = [used EXCEPT !.troubles = @ + 1]

-----------------------------------------------------------------------------
(* Supervision, in short: the supervisor reads the row, then starts.       *)
Claim(p) ==
    /\ p \in Supervisors
    /\ Live /\ ~row.paused /\ row.status = "open"
    /\ p \notin claimed /\ client[p] = NoReg
    /\ claimed' = claimed \cup {p}
    /\ UNCHANGED <<row, wa, lock, client, task, archive, orphans, used>>

Start(p) ==
    /\ p \in claimed
    /\ claimed' = claimed \ {p}
    /\ IF ~Held(p) /\ lock = NoOne /\ wa.session # NoReg
       THEN /\ lock' = Running(p)
            /\ client' = [client EXCEPT ![p] = wa.session]
       ELSE UNCHANGED <<lock, client>>
    /\ UNCHANGED <<row, wa, task, archive, orphans, used>>

(* The tick's release, the exclusion notice's, and device.stop's: of a      *)
(* number that is no longer one to run, unless a deletion is logging it out *)
(* here.                                                                    *)
Release(p) ==
    /\ client[p] # NoReg
    /\ ~Live \/ row.paused \/ row.status # "open"
    /\ ~Unlinking(p)
    /\ client' = [client EXCEPT ![p] = NoReg]
    /\ lock' = NoOne
    /\ UNCHANGED <<row, wa, claimed, task, archive, orphans, used>>

(* WhatsApp tells a client it is logged out: whatsmeow drops the session,   *)
(* and the status is written if the row can be seen.                        *)
LoggedOut(p) ==
    /\ client[p] # NoReg /\ wa.phone # client[p] /\ wa.session = client[p]
    /\ wa' = [wa EXCEPT !.session = NoReg, !.endedBy = "whatsapp"]
    /\ row' = IF Live THEN [row EXCEPT !.status = "logged_out"] ELSE row
    /\ UNCHANGED <<lock, client, claimed, task, archive, orphans, used>>

Banned(p) ==
    /\ client[p] # NoReg /\ Live /\ row.status = "open"
    /\ Trouble
    /\ row' = [row EXCEPT !.status = "banned"]
    /\ UNCHANGED <<wa, lock, client, claimed, task, archive, orphans>>

(* The person removes the linked device on the phone, and may link the     *)
(* phone again: to this row while it is live and logged out, or, while the *)
(* row is excluded, as another number under the same JID.                  *)
PhoneUnlinks ==
    /\ wa.phone # NoReg
    /\ Trouble
    /\ wa' = [wa EXCEPT !.phone = NoReg]
    /\ UNCHANGED <<row, lock, client, claimed, task, archive, orphans>>

Link ==
    /\ wa.phone = NoReg /\ wa.last < MaxRegs
    /\ \/ /\ Live /\ row.status = "logged_out" /\ lock = NoOne
          /\ row' = [row EXCEPT !.status = "open", !.reason = ""]
          /\ wa' = [wa EXCEPT !.session = wa.last + 1, !.phone = wa.last + 1,
                              !.last = @ + 1]
       \/ /\ Excluded
          /\ row' = row
          /\ wa' = [wa EXCEPT !.session = wa.last + 1, !.phone = wa.last + 1,
                              !.last = @ + 1, !.other = TRUE]
    /\ UNCHANGED <<lock, client, claimed, task, archive, orphans, used>>

(* Devices.Pause and Devices.SetPaused(false), by a person or a key. *)
Pause ==
    /\ Live
    /\ Trouble
    /\ row' = [row EXCEPT !.paused = TRUE, !.cause = "person", !.seq = @ + 1]
    /\ UNCHANGED <<wa, lock, client, claimed, task, archive, orphans>>

Resume ==
    /\ Live /\ row.paused /\ row.status = "open"
    /\ row' = [row EXCEPT !.paused = FALSE, !.cause = "none"]
    /\ UNCHANGED <<wa, lock, client, claimed, task, archive, orphans, used>>

-----------------------------------------------------------------------------
(* handleDeviceDelete, up to BeginUnlink: the row was read live. *)
DeleteBegin(x) ==
    /\ x \in Deletes /\ At(x, "idle")
    /\ Live /\ used.deletes < MaxDeletes
    /\ Goto(x, "marked")
    /\ UNCHANGED <<row, wa, lock, client, claimed, archive, orphans, used>>

(* The row Devices.Quarantine leaves, deleted at the instant at. *)
QuarantinedRow(at) ==
    LET none == wa.session = NoReg
        dead == row.status \in {"logged_out", "banned"}
    IN  [row EXCEPT
            !.deletedAt = at, !.due = FALSE, !.paused = TRUE,
            !.cause = "deletion",
            !.status = IF none /\ row.status # "banned" THEN "logged_out"
                       ELSE row.status,
            !.reason = IF none THEN "no session"
                       ELSE IF dead THEN row.reason ELSE "deleted",
            !.left = wa.session, !.tries = 0]

(* Devices.Quarantine's transaction: a number already excluded, or gone,    *)
(* ends the request, and so do readers the owner did not acknowledge.       *)
Quarantine(x) ==
    /\ At(x, "marked")
    /\ \/ /\ Live /\ used.deletes < MaxDeletes
          /\ used' = [used EXCEPT !.deletes = @ + 1]
          /\ row' = QuarantinedRow(used.deletes + 1)
          /\ task' = [task EXCEPT ![x] = [step |-> "committed",
                                          at |-> used.deletes + 1,
                                          reg |-> wa.session, flag |-> FALSE]]
       \/ Finish(x) /\ UNCHANGED <<row, used>>
    /\ UNCHANGED <<wa, lock, client, claimed, archive, orphans>>

-----------------------------------------------------------------------------
(* Registry.unlink.  Without a client here it reserves the number, takes    *)
(* the lock and loads the session; it is refused while the number is        *)
(* reserved here or locked elsewhere.                                       *)
CanReserve(p) == ~Held(p) /\ lock = NoOne

LoadSession(x) ==
    /\ lock' = x
    /\ Goes(x, IF wa.session = NoReg THEN "record" ELSE "recheck",
            IF x \in Passes THEN task[x].reg ELSE wa.session, wa.session = NoReg)

UnlinkDeleted(x) ==
    /\ At(x, "committed")
    /\ \/ /\ task[x].reg = NoReg              \* nothing to log out
          /\ Goto(x, "unrecorded") /\ UNCHANGED lock
       \/ /\ task[x].reg # NoReg /\ client[x[1]] # NoReg
          /\ Goes(x, "recheck", client[x[1]], task[x].flag)
          /\ UNCHANGED lock
       \/ /\ task[x].reg # NoReg /\ CanReserve(x[1])
          /\ LoadSession(x)
       \/ /\ task[x].reg # NoReg /\ client[x[1]] = NoReg
          /\ ~CanReserve(x[1])
          /\ Goto(x, "unrecorded") /\ UNCHANGED lock
    /\ UNCHANGED <<row, wa, client, claimed, archive, orphans, used>>

(* Devices.StillExcluded: by stamp, and for the janitor by the fingerprint  *)
(* and the session store too.                                               *)
StillExcluded(x) ==
    /\ ExcludedBy(task[x].at)
    /\ x \in Passes => row.left = task[x].reg /\ wa.session = task[x].reg

(* done(), once Unlink returns: the lock, then the reservation. *)
Unreserve(x) ==
    /\ lock' = IF lock = x THEN NoOne ELSE lock
    /\ Goto(x, IF x \in Deletes THEN "stop" ELSE "purge")

Recheck(x) ==
    /\ At(x, "recheck")
    /\ IF StillExcluded(x) THEN Goto(x, "logout") /\ UNCHANGED lock
       ELSE Unreserve(x)
    /\ UNCHANGED <<row, wa, client, claimed, archive, orphans, used>>

(* The connection a logout runs on is still there: its own, or the running *)
(* client's, which a stop may have taken away since.                       *)
Connected(x) ==
    lock = x \/ (client[x[1]] # NoReg /\ client[x[1]] = task[x].reg)

(* Client.Logout (whatsmeow): acknowledged, with the session dropped; done  *)
(* but its answer lost; refused or timed out; or the session found dead,    *)
(* and dropped, with an error.                                              *)
LogoutOutcome(x, outcome) ==
    LET r == task[x].reg
        who == IF x \in Passes THEN "janitor" ELSE "deletion"
    IN  /\ outcome \in {"ok", "lost"} => Connected(x) /\ wa.phone = r
        /\ outcome = "dead" => Connected(x) /\ wa.phone # r
        /\ wa' = [wa EXCEPT
                     !.phone = IF outcome \in {"ok", "lost"} THEN NoReg ELSE @,
                     !.session = IF outcome \in {"ok", "dead"} /\ @ = r
                                 THEN NoReg ELSE @,
                     !.endedBy = IF outcome = "ok" /\ wa.session = r THEN who
                                 ELSE IF outcome = "dead" /\ wa.session = r
                                 THEN "whatsapp" ELSE @]
        /\ Goes(x, "record", r, outcome = "ok")

Logout(x) ==
    /\ At(x, "logout")
    /\ \E outcome \in {"ok", "lost", "failed", "dead"} : LogoutOutcome(x, outcome)
    /\ UNCHANGED <<row, lock, client, claimed, archive, orphans, used>>

(* Mutant: a failed logout is not counted. *)
RecordedUncounted(at, acknowledged) ==
    IF ExcludedBy(at) /\ row.left # NoReg /\ acknowledged /\ wa.session # row.left
    THEN [row EXCEPT !.status = IF @ = "banned" THEN @ ELSE "logged_out",
                     !.reason = "unlinked", !.left = NoReg, !.tries = 0]
    ELSE row

(* Devices.RecordUnlink's row, for the deletion at `at`. *)
RecordedRow(at, acknowledged) ==
    IF ~ExcludedBy(at) \/ row.left = NoReg THEN row
    ELSE IF acknowledged /\ wa.session # row.left
    THEN [row EXCEPT !.status = IF @ = "banned" THEN @ ELSE "logged_out",
                     !.reason = "unlinked", !.left = NoReg, !.tries = 0]
    ELSE [row EXCEPT !.tries = @ + 1]

(* The record inside Unlink, with the lock still held. *)
Record(x) ==
    /\ At(x, "record")
    /\ row' = RecordedRow(task[x].at, task[x].flag)
    /\ Unreserve(x)
    /\ UNCHANGED <<wa, client, claimed, archive, orphans, used>>

(* The record of a logout that never started, with no lock. *)
RecordUnasked(x) ==
    /\ At(x, "unrecorded")
    /\ row' = RecordedRow(task[x].at, FALSE)
    /\ Goto(x, IF x \in Deletes THEN "stop" ELSE "purge")
    /\ UNCHANGED <<wa, lock, client, claimed, archive, orphans, used>>

(* Registry.Stop, which takes the running client's lock with it. *)
StopClient(p) ==
    /\ client' = [client EXCEPT ![p] = NoReg]
    /\ lock' = IF lock = Running(p) THEN NoOne ELSE lock

(* A logout on a client that is stopped under it has nothing to run on, even *)
(* if a new client starts.                                                   *)
CutLogout(p) ==
    [t \in Tasks |-> IF /\ t = <<p, "delete">> /\ lock = Running(p)
                        /\ task[t].step \in {"recheck", "logout"}
                     THEN [step |-> task[t].step, at |-> task[t].at,
                           reg |-> NoReg, flag |-> task[t].flag]
                     ELSE task[t]]

DeleteEnd(x) ==
    /\ At(x, "stop")
    /\ StopClient(x[1])
    /\ Finish(x)
    /\ UNCHANGED <<row, wa, claimed, archive, orphans, used>>

-----------------------------------------------------------------------------
(* Devices.Recover.  A fingerprinted session that is gone was logged out    *)
(* and only its record is missing.                                          *)
RecoveredRow ==
    LET gone == row.left # NoReg /\ wa.session # row.left
    IN  [row EXCEPT !.deletedAt = 0, !.left = NoReg, !.tries = 0,
                    !.cause = "person",
                    !.status = IF gone /\ @ # "banned" THEN "logged_out" ELSE @,
                    !.reason = IF gone THEN "unlinked" ELSE @]

(* Mutants: the recovery does not look at the lock, or at the window. *)
RecoverUnlocked ==
    /\ Excluded /\ ~row.started /\ ~row.due /\ ~wa.other
    /\ row' = RecoveredRow
    /\ UNCHANGED <<wa, lock, client, claimed, task, archive, orphans, used>>

RecoverLate ==
    /\ Excluded /\ lock = NoOne /\ ~wa.other
    /\ row' = RecoveredRow
    /\ UNCHANGED <<wa, lock, client, claimed, task, archive, orphans, used>>

Recover ==
    /\ Excluded
    /\ ~row.started /\ ~row.due
    /\ lock = NoOne
    /\ ~wa.other
    /\ row' = RecoveredRow
    /\ UNCHANGED <<wa, lock, client, claimed, task, archive, orphans, used>>

(* The database's clock passes purge_after.  30 days are longer than any    *)
(* request, so no deletion's request is still running.                      *)
Expire ==
    /\ Excluded /\ ~row.due
    /\ \A x \in Deletes : task[x].at # row.deletedAt
    /\ row' = [row EXCEPT !.due = TRUE]
    /\ UNCHANGED <<wa, lock, client, claimed, task, archive, orphans, used>>

-----------------------------------------------------------------------------
(* maintainOnce: the leftover logouts, then the purge, then the orphans.    *)
Leftover ==
    /\ Excluded /\ row.left # NoReg /\ ~row.started
    /\ row.status # "logged_out" /\ row.tries < MaxUnlinkAttempts

PassBegin(x) ==
    /\ x \in Passes /\ At(x, "idle")
    /\ Excluded \/ orphans > 0
    /\ task' = [task EXCEPT ![x] =
                  IF Leftover
                  THEN [step |-> IF wa.session = row.left THEN "retry"
                                 ELSE "confirm",
                        at |-> row.deletedAt, reg |-> row.left, flag |-> FALSE]
                  ELSE [step |-> "purge", at |-> 0, reg |-> NoReg, flag |-> FALSE]]
    /\ UNCHANGED <<row, wa, lock, client, claimed, archive, orphans, used>>

(* UnlinkLeftover, for a session still in the store: never a number this    *)
(* process holds or is logging out, or that another has locked.  A lock or  *)
(* a load that fails counts as an attempt.                                  *)
RetryLeftover(x) ==
    /\ At(x, "retry")
    /\ \/ /\ CanReserve(x[1]) /\ ~Unlinking(x[1])
          /\ LoadSession(x) /\ UNCHANGED used
       \/ /\ ~(CanReserve(x[1]) /\ ~Unlinking(x[1]))
          /\ Goto(x, "purge") /\ UNCHANGED <<lock, used>>
       \/ /\ Trouble
          /\ Goto(x, "unrecorded") /\ UNCHANGED lock
    /\ UNCHANGED <<row, wa, client, claimed, archive, orphans>>

(* LockIdle, for a session already gone: only its record was lost. *)
ConfirmLeftover(x) ==
    /\ At(x, "confirm")
    /\ IF CanReserve(x[1]) /\ ~Unlinking(x[1])
       THEN /\ lock' = x
            /\ Goes(x, "record", task[x].reg, TRUE)
       ELSE Goto(x, "purge") /\ UNCHANGED lock
    /\ UNCHANGED <<row, wa, client, claimed, archive, orphans, used>>

(* Mutant: the session goes by its JID, not by its fingerprint. *)
PurgeStartByJID(x) ==
    /\ At(x, "purge")
    /\ IF Excluded /\ (row.due \/ row.started \/ x \in Purges) /\ lock = NoOne
       THEN /\ row' = [row EXCEPT !.started = TRUE, !.due = TRUE]
            /\ wa' = IF row.left # NoReg
                     THEN [wa EXCEPT !.session = NoReg, !.endedBy = "purge"]
                     ELSE wa
            /\ Goto(x, "batch")
       ELSE /\ IF x \in Purges THEN Finish(x) ELSE Goto(x, "orphans")
            /\ UNCHANGED <<row, wa>>
    /\ UNCHANGED <<lock, client, claimed, archive, orphans, used>>

(* PurgeDevice's start: due, begun, or the operator's -now; never under a   *)
(* client or a logout.  The leftover session goes by its exact fingerprint. *)
PurgeStart(x) ==
    /\ At(x, "purge")
    /\ IF Excluded /\ (row.due \/ row.started \/ x \in Purges) /\ lock = NoOne
       THEN /\ row' = [row EXCEPT !.started = TRUE, !.due = TRUE]
            /\ wa' = IF row.left # NoReg /\ wa.session = row.left
                     THEN [wa EXCEPT !.session = NoReg, !.endedBy = "purge"]
                     ELSE wa
            /\ Goto(x, "batch")
       ELSE /\ IF x \in Purges THEN Finish(x) ELSE Goto(x, "orphans")
            /\ UNCHANGED <<row, wa>>
    /\ UNCHANGED <<lock, client, claimed, archive, orphans, used>>

(* One batch; or none is left; or another purger has finished the number;   *)
(* or the pass's budget is spent.                                           *)
PurgeBatch(x) ==
    LET begun == row.exists /\ row.started
        leave == IF x \in Purges THEN Finish(x) ELSE Goto(x, "orphans")
    IN  /\ At(x, "batch")
        /\ \/ /\ begun /\ archive > 0
              /\ archive' = archive - 1 /\ orphans' = orphans + 1
              /\ Goto(x, "released") /\ UNCHANGED used
           \/ /\ begun /\ archive = 0
              /\ Goto(x, "end") /\ UNCHANGED <<archive, orphans, used>>
           \/ /\ ~begun
              /\ leave /\ UNCHANGED <<archive, orphans, used>>
           \/ /\ Trouble
              /\ leave /\ UNCHANGED <<archive, orphans>>
        /\ UNCHANGED <<row, wa, lock, client, claimed>>

(* deleteReleased: the bucket's delete of what the batch released; one that *)
(* fails is left, charged, for the orphan pass.                             *)
DeleteReleased(x) ==
    /\ At(x, "released")
    /\ \/ /\ orphans > 0
          /\ orphans' = orphans - 1 /\ UNCHANGED used
       \/ /\ orphans = 0 \/ used.troubles < MaxTroubles
          /\ used' = IF orphans = 0 THEN used
                     ELSE [used EXCEPT !.troubles = @ + 1]
          /\ UNCHANGED orphans
    /\ Goto(x, "batch")
    /\ UNCHANGED <<row, wa, lock, client, claimed, archive>>

PurgeEnd(x) ==
    /\ At(x, "end")
    /\ row' = IF row.exists /\ row.started
              THEN [row EXCEPT !.exists = FALSE, !.left = NoReg] ELSE row
    /\ IF x \in Purges THEN Finish(x) ELSE Goto(x, "orphans")
    /\ UNCHANGED <<wa, lock, client, claimed, archive, orphans, used>>

(* deleteOrphans: every unreferenced object still in the bucket. *)
DeleteOrphans(x) ==
    /\ At(x, "orphans")
    /\ \/ orphans' = 0 /\ UNCHANGED used
       \/ orphans > 0 /\ Trouble /\ UNCHANGED orphans
    /\ Finish(x)
    /\ UNCHANGED <<row, wa, lock, client, claimed, archive>>

(* An operator's "devices purge-deleted -device <id> -now". *)
PurgeNow(x) ==
    /\ x \in Purges /\ At(x, "idle") /\ Excluded
    /\ Trouble
    /\ Goto(x, "purge")
    /\ UNCHANGED <<row, wa, lock, client, claimed, archive, orphans>>

-----------------------------------------------------------------------------
(* transferPreviewTx: the number is live in the team its owner moves it from. *)
Movable == Live /\ row.home = "team"

(* handleDeviceTransfer, once the preview finds the move possible. *)
MoveBegin(x) ==
    /\ x \in Moves /\ At(x, "idle")
    /\ Movable
    /\ Trouble
    /\ Goto(x, "pause")
    /\ UNCHANGED <<row, wa, lock, client, claimed, archive, orphans>>

(* Devices.PauseForMove. *)
PauseForMove(x) ==
    /\ At(x, "pause")
    /\ IF ~Movable
       THEN Finish(x) /\ UNCHANGED row
       ELSE /\ row' = IF row.paused THEN row
                      ELSE [row EXCEPT !.paused = TRUE, !.cause = "move",
                                       !.seq = @ + 1]
            /\ task' = [task EXCEPT ![x] = [step |-> "halt", at |-> row'.seq,
                                            reg |-> NoReg,
                                            flag |-> ~row.paused]]
    /\ UNCHANGED <<wa, lock, client, claimed, archive, orphans, used>>

MoveHalt(x) ==
    /\ At(x, "halt")
    /\ StopClient(x[1])
    /\ task' = [CutLogout(x[1]) EXCEPT
                   ![x] = [step |-> "move", at |-> task[x].at, reg |-> task[x].reg, flag |-> task[x].flag]]
    /\ UNCHANGED <<row, wa, claimed, archive, orphans, used>>

(* Devices.TransferPersonal: moved, or refused or failed and rolled back. *)
TransferPersonal(x) ==
    /\ At(x, "move")
    /\ \/ /\ Movable /\ row.paused /\ lock = NoOne
          /\ row' = [row EXCEPT !.home = "personal", !.status = "open",
                                !.reason = "moved",
                                !.cause = IF @ = "person" THEN @ ELSE "move"]
          /\ Finish(x)
       \/ Goto(x, "undo") /\ UNCHANGED row
    /\ UNCHANGED <<wa, lock, client, claimed, archive, orphans, used>>

(* settleFailedTransfer and Devices.UndoMovePause. *)
UndoMovePause(x) ==
    /\ At(x, "undo")
    /\ row' = IF /\ task[x].flag /\ Movable
                 /\ row.paused /\ row.seq = task[x].at
              THEN [row EXCEPT !.paused = FALSE, !.cause = "none"] ELSE row
    /\ Finish(x)
    /\ UNCHANGED <<wa, lock, client, claimed, archive, orphans, used>>

-----------------------------------------------------------------------------
(* A process dies: its requests and passes with it, and with its database   *)
(* connections the lock.                                                    *)
Crash(p) ==
    /\ Trouble
    /\ client' = [client EXCEPT ![p] = NoReg]
    /\ claimed' = claimed \ {p}
    /\ task' = [x \in Tasks |-> IF x[1] = p THEN Idle ELSE task[x]]
    /\ lock' = IF lock # NoOne /\ lock[1] = p THEN NoOne ELSE lock
    /\ UNCHANGED <<row, wa, archive, orphans>>

Unlink(x) == Recheck(x) \/ Logout(x) \/ Record(x) \/ RecordUnasked(x)

DeleteStep(x) == Quarantine(x) \/ UnlinkDeleted(x) \/ DeleteEnd(x)

Purge(x) == PurgeStart(x) \/ PurgeBatch(x) \/ DeleteReleased(x) \/ PurgeEnd(x)

PassStep(x) == \/ PassBegin(x) \/ RetryLeftover(x) \/ ConfirmLeftover(x)
               \/ DeleteOrphans(x)

MoveStep(x) == \/ PauseForMove(x) \/ MoveHalt(x) \/ TransferPersonal(x)
               \/ UndoMovePause(x)

TaskStep(x) == Unlink(x) \/ DeleteStep(x) \/ Purge(x) \/ PassStep(x) \/ MoveStep(x)

Next ==
    \/ \E p \in Procs : \/ Claim(p) \/ Start(p) \/ Release(p) \/ LoggedOut(p)
                        \/ Banned(p) \/ Crash(p)
    \/ PhoneUnlinks \/ Link \/ Pause \/ Resume \/ Recover \/ Expire
    \/ \E x \in Tasks : \/ DeleteBegin(x) \/ PurgeNow(x) \/ MoveBegin(x)
                        \/ TaskStep(x)

(* Requests and passes run on, the supervisor ticks and the clock advances. *)
Fairness ==
    /\ \A x \in Tasks : WF_vars(TaskStep(x))
    /\ \A p \in Procs : WF_vars(Release(p)) /\ WF_vars(Start(p))

Spec == Init /\ [][Next]_vars

FairSpec == Spec /\ Fairness

-----------------------------------------------------------------------------
(* A logout, which cannot be undone, is only ever asked of WhatsApp for the *)
(* deletion it belongs to: while it holds a connection the number has not   *)
(* been recovered, nor recovered and deleted again.                         *)
LogoutOnlyExcluded ==
    \A x \in Tasks : At(x, "logout") /\ Connected(x) /\ row.exists
                        => row.deletedAt = task[x].at

(* A number a deletion logged out, or whose session a purge removed, never  *)
(* comes back as one that can resume: every crash between the logout and    *)
(* its record is made good by the retry or the recovery.  (A move resets    *)
(* the status, so this is about numbers that have not moved.)               *)
RecoveredHonest ==
    Live /\ row.status = "open" /\ row.home = "team" /\ wa.session = NoReg
        => wa.endedBy = "whatsapp"

(* The janitor and the purge never take away a session the phone linked     *)
(* again, as another number, under the same JID.                            *)
RelinkedSurvives ==
    wa.other /\ wa'.session # wa.session
         => wa'.endedBy \notin {"janitor", "purge"} \/ wa'.session # NoReg

(* What a deletion's logout achieved is written once: no second record, and *)
(* no retry, rewrites a confirmed outcome while the deletion stands.        *)
OutcomeStands ==
    row.deletedAt # 0 /\ row.left = NoReg /\ row'.deletedAt = row.deletedAt
         => /\ row'.left = NoReg
            /\ row'.status = row.status /\ row'.reason = row.reason

(* A leftover session is not retried for ever, nor forgotten: it is settled, *)
(* or out of attempts, or its number is purged or recovered.                 *)
LeftoverSettles == Leftover ~> ~Leftover

(* The objects of a purged number leave the bucket, whichever delete failed. *)
ObjectsGo == (~row.exists) ~> (orphans = 0)

(* Deleting a number does what NumberLife promises. *)
Life == INSTANCE NumberLife WITH
            life <- IF ~row.exists THEN "gone"
                    ELSE IF row.deletedAt = 0 THEN "live"
                    ELSE IF row.started THEN "purging" ELSE "excluded",
            due <- row.due

KeepsItsPromise == Life!Spec

(* A deletion never asks for a logout that is not its own, and what it did to
   the session is never lost. *)
DeletionSafe ==
    /\ TypeOK
    /\ LogoutOnlyExcluded
    /\ RecoveredHonest

(* No step of a deletion, its janitor or its purge takes away what is not its
   own, or rewrites an outcome. *)
DeletionSteps == [][RelinkedSurvives /\ OutcomeStands]_vars

(* What a deletion leaves behind -- a session, objects -- is cleared away. *)
CleanupSettles == LeftoverSettles /\ ObjectsGo
=============================================================================
