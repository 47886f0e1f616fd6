----------------------------- MODULE Snapshots -----------------------------
(***************************************************************************)
(* The access snapshots of one recorded platform workspace: when one is    *)
(* due (contract_workspaces), the leader's sender that measures, numbers,  *)
(* sends and records it, and the other writers of its due time             *)
(* (store/contract_snapshot.go, membership/snapshots.go).                  *)
(*                                                                         *)
(* What a snapshot shows is the number of changes it includes.  A due time *)
(* is one of four, each sooner than the next: now, soon (within the        *)
(* debounce), after a backoff, or an hour later; the last three become now *)
(* whenever time passes.  Whether a due time was written after a           *)
(* measurement is kept with the measurement.                               *)
(***************************************************************************)
EXTENDS Naturals, FiniteSets

CONSTANTS
    Leaders,     \* processes whose sender may run
    None,        \* no process holds the lock
    MaxContent, MaxSeq, MaxFaults, MaxTurns   \* bounds of the model

VARIABLES
    content,   \* changes committed that the snapshot shows
    due,       \* the workspace's row of contract_workspaces
    holder,    \* who holds the leader's lock, and hears the changes
    sender,    \* each process's sender
    told,      \* the changes the platform has been told of
    asked,     \* the changes committed when someone last asked for a snapshot
    cut,       \* a sender without the lock put off what was owed
    faults,    \* calls and writes that failed so far
    turns      \* documents, restarts and recoveries so far

vars == <<content, due, holder, sender, told, asked, cut, faults, turns>>

Off == [phase |-> "off", seq |-> 0, saw |-> 0, heard |-> FALSE,
        late |-> FALSE, moved |-> FALSE, answer |-> "none"]

(* A process at its loop, holding no snapshot.                             *)
Waiting(l) == [Off EXCEPT !.phase = "loop", !.heard = sender[l].heard]

Init ==
    /\ content = 0
    /\ due = [at |-> "now", seq |-> 0, tries |-> FALSE, since |-> "none",
              parked |-> FALSE, ok |-> FALSE]
    /\ holder = None
    /\ sender = [l \in Leaders |-> Off]
    /\ told = 0 /\ asked = 0 /\ cut = FALSE /\ faults = 0 /\ turns = 0

Rank == [now |-> 0, soon |-> 1, backoff |-> 2, later |-> 2]

(* The due time was written: every snapshot in hand learns that it was     *)
(* after it was chosen (moved) and after it was measured (late).           *)
Wrote(ss) == [l \in Leaders |-> [ss[l] EXCEPT
                 !.moved = @ \/ ss[l].phase \notin {"off", "start", "loop"},
                 !.late = @ \/ ss[l].phase \in {"measured", "numbered", "answered"}]]

Fault == faults < MaxFaults /\ faults' = faults + 1

-----------------------------------------------------------------------------
(* What makes a snapshot due.                                              *)

(* A change the snapshot shows commits; 0051's triggers notify the lock's  *)
(* holder, on the connection that holds the lock.                          *)
Commit ==
    /\ content < MaxContent /\ content' = content + 1
    /\ sender' = [l \in Leaders |-> [sender[l] EXCEPT !.heard = @ \/ l = holder]]
    /\ UNCHANGED <<due, holder, told, asked, cut, faults, turns>>

(* Time passes.                                                            *)
FallsDue ==
    /\ due.at # "now" /\ due' = [due EXCEPT !.at = "now"]
    /\ UNCHANGED <<content, holder, sender, told, asked, cut, faults, turns>>

NotFoundForADay ==
    /\ due.since = "recent" /\ due' = [due EXCEPT !.since = "day"]
    /\ UNCHANGED <<content, holder, sender, told, asked, cut, faults, turns>>

DueNow(row) ==
    /\ turns < MaxTurns /\ turns' = turns + 1
    /\ due' = [row EXCEPT !.at = "now"] /\ asked' = content
    /\ sender' = Wrote(sender)
    /\ UNCHANGED <<content, holder, told, cut, faults>>

(* workspacesDueTx: a document names the workspace, or changes its         *)
(* members; refused is a not_found of the event queue's own.               *)
Document(named, changed, refused) ==
    LET back == named /\ (due.since # "none" \/ ~due.ok \/ refused)
    IN  /\ back \/ changed
        /\ DueNow(IF ~back THEN due
                  ELSE [due EXCEPT !.tries = FALSE, !.since = "none",
                                   !.parked = @ /\ due.since = "none"])

Restart ==
    DueNow([due EXCEPT !.tries = FALSE, !.ok = FALSE, !.since = "none", !.parked = FALSE])

(* Recovered, of a row that backs off, for its snapshot or for its events. *)
Recovered == DueNow([due EXCEPT !.tries = FALSE])

-----------------------------------------------------------------------------
(* The leader and its sender.                                              *)

Lead(l) ==
    /\ holder = None /\ sender[l].phase = "off"
    /\ holder' = l /\ sender' = [sender EXCEPT ![l].phase = "start"]
    /\ UNCHANGED <<content, due, told, asked, cut, faults, turns>>

(* The lock's session ends; its process does not know it yet.              *)
LoseLock ==
    /\ holder # None /\ holder' = None
    /\ UNCHANGED <<content, due, sender, told, asked, cut, faults, turns>>

(* The leader's context ends, wherever its sender is.                      *)
Stop(l) ==
    /\ sender[l].phase # "off" /\ sender' = [sender EXCEPT ![l] = Off]
    /\ holder' = IF holder = l THEN None ELSE holder
    /\ UNCHANGED <<content, due, told, asked, cut, faults, turns>>

(* SnapshotsDue, at the leader's start; parks are lifted for one try.      *)
SnapshotsDue(l) ==
    /\ sender[l].phase = "start"
    /\ due' = [due EXCEPT !.at = "now", !.parked = FALSE]
    /\ sender' = [Wrote(sender) EXCEPT ![l].phase = "loop"]
    /\ asked' = content /\ cut' = (cut /\ l # holder)
    /\ UNCHANGED <<content, holder, told, faults, turns>>

(* take, then SnapshotsDirty: due within the debounce, unless it is sooner, *)
(* backing off or parked.  The notices go back when the write fails.       *)
SnapshotsDirty(l) ==
    LET sooner == ~due.parked /\ ~due.tries /\ Rank[due.at] > Rank["soon"]
    IN  /\ sender[l].phase = "loop" /\ sender[l].heard
        /\ due' = IF sooner THEN [due EXCEPT !.at = "soon"] ELSE due
        /\ asked' = IF sooner THEN content ELSE asked
        /\ sender' = [IF sooner THEN Wrote(sender) ELSE sender EXCEPT ![l].heard = FALSE]
        /\ UNCHANGED <<content, holder, told, cut, faults, turns>>

(* NextSnapshot chooses the workspace.  A notice not yet delivered waits.  *)
NextSnapshot(l) ==
    /\ sender[l].phase = "loop" /\ due.at = "now" /\ ~due.parked
    /\ sender' = [sender EXCEPT ![l] = [Waiting(l) EXCEPT !.phase = "chosen", !.seq = due.seq]]
    /\ UNCHANGED <<content, due, holder, told, asked, cut, faults, turns>>

(* Snapshot, read in one transaction.  A due time still to come was        *)
(* written by another leader meanwhile.                                    *)
Snapshot(l) ==
    /\ sender[l].phase = "chosen"
    /\ sender' = [sender EXCEPT ![l].phase = "measured", ![l].saw = content,
                                ![l].late = due.at # "now"]
    /\ UNCHANGED <<content, due, holder, told, asked, cut, faults, turns>>

Number(ms, last) == IF ms > last THEN ms ELSE last + 1

(* SnapshotSeq: a clock may step back, so ms may be any.                   *)
SnapshotSeq(l, ms) ==
    LET seq == Number(ms, due.seq)
    IN  /\ sender[l].phase = "measured" /\ seq <= MaxSeq
        /\ IF due.parked
           THEN due' = due /\ sender' = [sender EXCEPT ![l] = Waiting(l)]
           ELSE /\ due' = [due EXCEPT !.seq = seq]
                /\ sender' = [sender EXCEPT ![l].phase = "numbered", ![l].seq = seq]
        /\ UNCHANGED <<content, holder, told, asked, cut, faults, turns>>

(* The snapshot could not be read, or not be numbered: recorded as a       *)
(* failure against the seq and the due time it was chosen with.            *)
NotRead(l) ==
    /\ sender[l].phase \in {"chosen", "measured"} /\ Fault
    /\ sender' = [sender EXCEPT ![l].phase = "answered", ![l].answer = "failed",
                                ![l].late = sender[l].moved]
    /\ UNCHANGED <<content, due, holder, told, asked, cut, turns>>

(* PutAccess and snapshotResult.  A snapshot Wappie would not send         *)
(* (snapshotRule), a call that fails and a lost answer are one failure.    *)
PutAccess(l, answer, reached) ==
    /\ sender[l].phase = "numbered"
    /\ answer = "accepted" => reached
    /\ reached => answer \in {"accepted", "failed"}
    /\ IF answer = "accepted" THEN faults' = faults ELSE Fault
    /\ told' = IF reached /\ sender[l].saw > told THEN sender[l].saw ELSE told
    /\ sender' = [sender EXCEPT ![l].phase = "answered", ![l].answer = answer]
    /\ UNCHANGED <<content, due, holder, asked, cut, turns>>

(* Mutant: the outcome's due time replaces whatever was asked meanwhile. *)
NextDueOutcome(again, at) == {at}

(* The outcome's next due time; one written since the measurement stands,  *)
(* unless the outcome's is sooner, which of two far ones either may be.    *)
NextDue(again, at) ==
    IF ~again \/ Rank[at] < Rank[due.at] THEN {at}
    ELSE IF Rank[at] = Rank[due.at] THEN {at, due.at} ELSE {due.at}

BackOff(again, row) ==
    {[row EXCEPT !.at = x, !.tries = @ \/ ~again] : x \in NextDue(again, "backoff")}

(* A not_found: its run's start is kept, and parks it a day later.         *)
NotFound(again, row) ==
    CASE again -> BackOff(again, row)
      [] ~again /\ row.since = "day" -> {[row EXCEPT !.parked = TRUE]}
      [] OTHER -> BackOff(again, [row EXCEPT !.since = "recent"])

(* SnapshotSent's row for each outcome.                                    *)
Outcome(answer, again) ==
    CASE answer = "accepted" ->
            {[due EXCEPT !.at = x, !.tries = FALSE, !.since = "none", !.parked = FALSE, !.ok = TRUE]
               : x \in NextDue(again, "later")}
      [] answer = "not_found" -> NotFound(again, due)
      [] answer = "refused" -> {[due EXCEPT !.parked = TRUE, !.since = "none"]}
      [] answer = "failed" -> BackOff(again, due)

(* SnapshotSent, by compare-and-set on the seq.                            *)
SnapshotSent(l) ==
    LET s == sender[l]
    IN  /\ s.phase = "answered"
        /\ IF due.seq # s.seq THEN due' = due ELSE due' \in Outcome(s.answer, s.late)
        /\ sender' = [IF due'.at # due.at THEN Wrote(sender) ELSE sender EXCEPT ![l] = Waiting(l)]
        /\ cut' = (cut \/ (l # holder /\ due' # due /\ s.saw < content))
        /\ UNCHANGED <<content, holder, told, asked, faults, turns>>

(* Its outcome could not be stored: it is due as it was.                   *)
NotRecorded(l) ==
    /\ sender[l].phase = "answered" /\ Fault
    /\ sender' = [sender EXCEPT ![l] = Waiting(l)]
    /\ UNCHANGED <<content, due, holder, told, asked, cut, turns>>

Send(l) ==
    \/ SnapshotsDue(l) \/ SnapshotsDirty(l) \/ NextSnapshot(l) \/ Snapshot(l)
    \/ \E ms \in 1..MaxSeq : SnapshotSeq(l, ms)
    \/ NotRead(l)
    \/ \E answer \in {"accepted", "not_found", "refused", "failed"}, reached \in BOOLEAN :
          PutAccess(l, answer, reached)
    \/ SnapshotSent(l) \/ NotRecorded(l)

Next ==
    \/ Commit \/ FallsDue \/ NotFoundForADay
    \/ \E named, changed, refused \in BOOLEAN : Document(named, changed, refused)
    \/ Restart \/ Recovered
    \/ LoseLock
    \/ \E l \in Leaders : Lead(l) \/ Stop(l) \/ Send(l)

Spec == Init /\ [][Next]_vars

-----------------------------------------------------------------------------
(* What the variables hold.                                                *)
SnapshotsTypeOK ==
    /\ content \in 0..MaxContent /\ told \in 0..content /\ asked \in 0..content
    /\ due \in [at : {"now", "soon", "backoff", "later"}, seq : 0..MaxSeq, tries : BOOLEAN,
                since : {"none", "recent", "day"}, parked : BOOLEAN, ok : BOOLEAN]
    /\ holder \in Leaders \cup {None}
    /\ \A l \in Leaders :
          /\ sender[l].phase \in {"off", "start", "loop", "chosen", "measured", "numbered", "answered"}
          /\ sender[l].saw \in 0..content /\ sender[l].seq \in 0..due.seq
    /\ cut \in BOOLEAN /\ faults \in 0..MaxFaults /\ turns \in 0..MaxTurns

(* A change the platform has not been told of is owed to it: a leader has  *)
(* heard of it or is still to start, its snapshot is due now or soon, it   *)
(* is backing off after a failure, or parked.  Only an outcome that a      *)
(* process recorded after losing the lock can put it off for an hour.      *)
Owed ==
    \/ holder = None \/ sender[holder].phase = "start" \/ sender[holder].heard
    \/ due.at \in {"now", "soon"} \/ due.tries \/ due.parked

ChangesAreOwed == told < content => Owed \/ cut

(* No two snapshots go out under one seq.                                  *)
NoSeqTwice ==
    \A l, m \in Leaders :
        l # m /\ {sender[l].phase, sender[m].phase} = {"numbered"} => sender[l].seq # sender[m].seq

SnapshotsSafe == SnapshotsTypeOK /\ ChangesAreOwed /\ NoSeqTwice

(* What was asked for is put off only by a snapshot measured after it was  *)
(* asked, or that failed.                                                  *)
NeverPutOff ==
    \A l \in Leaders :
        sender[l].phase = "answered" /\ sender'[l].phase = "loop"
            /\ due.at \in {"now", "soon"} /\ due'.at = "later"
        => sender[l].saw >= asked

(* A park ends by a leader's start, a restart, or, of a workspace the      *)
(* platform did not know, by a document that names it; an acceptance of    *)
(* what was sent before ends it too.                                       *)
ParksStand ==
    due.parked /\ ~due'.parked =>
        \/ due.since # "none" \/ due'.ok # due.ok
        \/ \E l \in Leaders : sender[l].phase \in {"start", "answered"} /\ sender'[l].phase = "loop"
        \/ ~due'.ok

SnapshotSteps == [][NeverPutOff /\ ParksStand]_vars
=============================================================================
