------------------------------- MODULE Ledger -------------------------------
(***************************************************************************)
(* The deletion ledger: a file, outside the database, of every deletion,   *)
(* recovery, purge and move of a number, which a restore from an older     *)
(* snapshot replays before the server starts.                              *)
(*                                                                         *)
(* The numbers of the model are one phone linked again and again, so that  *)
(* a recovery and a new link compete for the same identity; a number is in *)
(* the team, or was moved to Personal.  What a deletion does meanwhile is  *)
(* module Deletion's.                                                      *)
(***************************************************************************)
EXTENDS Integers, FiniteSets, Sequences, SequencesExt

CONSTANTS
    Numbers,     \* the numbers, in the order they are linked
    Skips,       \* how far the clock may skip at once
    Window,      \* how long a deletion can be recovered (30 days)
    EventAge,    \* how long an exported event keeps its row (30 days)
    BackupAge,   \* how old a restorable snapshot may be (90 days)
    LedgerKeep,  \* how long the ledger keeps a quiet number (93 days)
    MaxEvents,   \* bound: events ever recorded
    MaxTurns,    \* bound: skips of the clock, and exports cut short
    MaxRestores  \* bound: restores

(* What the numbers are, and the ledger outlives every snapshot. *)
LedgerBounds ==
    /\ Skips \cup {Window, EventAge, BackupAge, LedgerKeep} \subseteq Nat \ {0}
    /\ {MaxEvents, MaxTurns, MaxRestores} \subseteq Nat
    /\ BackupAge < LedgerKeep

VARIABLES
    clock,   \* the database's clock
    rows,    \* the devices rows
    events,  \* the item_events rows
    file,    \* the ledger's whole lines, in file order
    snap,    \* the newest snapshot, with the ledger's copy beside it
    mode,    \* "serving"; "restored" until a replay finishes; then "level"
    told,    \* the newest exported event of each number (in no code state)
    must,    \* what a replay must make of each number (in no code state)
    used     \* how much of each bound is spent (in no code state)

vars == <<clock, rows, events, file, snap, mode, told, must, used>>

Places == {"team", "personal"}
Types == {"deleted", "recovered", "purged", "moved_out"}

(* at is the event's instant; a number deleted at an instant carries it as  *)
(* its stamp, which is also what a recovery or a purge names.               *)
Lines == [id : Nat, type : Types, number : Numbers, ws : Places,
          stamp : Nat, after : Nat, at : Nat]

NoRow == [ws |-> "none", stamp |-> 0, after |-> 0, started |-> FALSE]

Never == [type |-> "none", stamp |-> 0, after |-> 0, at |-> 0, moved |-> FALSE]

RowOK(r) == r \in [ws : Places \cup {"none"}, stamp : Nat, after : Nat,
                   started : BOOLEAN]

TypeOK ==
    /\ clock \in Nat
    /\ DOMAIN rows = Numbers /\ \A d \in Numbers : RowOK(rows[d])
    /\ \A e \in events : e.line \in Lines /\ e.made \in Nat
                         /\ {e.ledgered, e.replayed} \subseteq BOOLEAN
    /\ \A i \in DOMAIN file : file[i] \in Lines
    /\ mode \in {"serving", "restored", "level"}
    /\ \A d, e \in Numbers : d # e /\ rows[d].ws = rows[e].ws
           /\ rows[d].ws # "none" /\ rows[d].stamp = 0 => rows[e].stamp # 0

Init ==
    /\ clock = 1
    /\ rows = [d \in Numbers |-> NoRow]
    /\ events = {}
    /\ file = <<>>
    /\ snap = [at |-> 0, rows |-> rows, events |-> {}, file |-> <<>>]
    /\ mode = "serving"
    /\ told = [d \in Numbers |-> Never]
    /\ must = [d \in Numbers |-> "any"]
    /\ used = [events |-> 0, turns |-> 0, restores |-> 0,
               snaps |-> 0, born |-> {}]

-----------------------------------------------------------------------------
Exists(d) == rows[d].ws # "none"
LiveRow(r) == r.ws # "none" /\ r.stamp = 0
Live(d) == LiveRow(rows[d])
Excluded(d) == Exists(d) /\ rows[d].stamp # 0
Due(r) == r.stamp # 0 /\ r.after <= clock

(* devices_pn is unique among a workspace's live rows. *)
IdentityFree(ws) == \A d \in Numbers : ~(Live(d) /\ rows[d].ws = ws)

Serving == mode \in {"serving", "level"} /\ used.events < MaxEvents

(* recordEvent's dedupe key: type, number and instant, in a workspace. *)
SameEvent(l, m) == \/ l.id = m.id
                   \/ /\ l.ws = m.ws /\ l.type = m.type /\ l.number = m.number
                      /\ (IF l.type = "moved_out" THEN l.at = m.at
                          ELSE l.stamp = m.stamp)

Record(evs, line, replayed) ==
    IF \E e \in evs : SameEvent(e.line, line) THEN evs
    ELSE evs \cup {[line |-> line, made |-> clock, ledgered |-> replayed,
                    replayed |-> replayed]}

(* A transaction that changes a number and records its event. *)
Happens(d, type, stamp, after, row) ==
    /\ clock' = clock + 1
    /\ rows' = [rows EXCEPT ![d] = row]
    /\ events' = Record(events, [id |-> used.events + 1, type |-> type,
                                 number |-> d, ws |-> rows[d].ws,
                                 stamp |-> stamp, after |-> after,
                                 at |-> clock + 1], FALSE)
    /\ used' = [used EXCEPT !.events = @ + 1]
    /\ mode' = "serving"
    /\ UNCHANGED <<file, snap, told, must>>

(* A phone is linked as a new number of the team. *)
Link(d) ==
    /\ Serving /\ d \notin used.born /\ IdentityFree("team")
    /\ \A e \in Numbers : e < d => e \in used.born
    /\ rows' = [rows EXCEPT ![d] = [NoRow EXCEPT !.ws = "team"]]
    /\ used' = [used EXCEPT !.born = @ \cup {d}]
    /\ mode' = "serving"
    /\ UNCHANGED <<clock, events, file, snap, told, must>>

Delete(d) ==
    /\ Serving /\ Live(d)
    /\ Happens(d, "deleted", clock + 1, clock + 1 + Window,
               [rows[d] EXCEPT !.stamp = clock + 1, !.after = clock + 1 + Window])

Recover(d) ==
    /\ Serving /\ Excluded(d) /\ ~Due(rows[d]) /\ ~rows[d].started
    /\ IdentityFree(rows[d].ws)
    /\ Happens(d, "recovered", rows[d].stamp, 0,
               [rows[d] EXCEPT !.stamp = 0, !.after = 0])

(* PurgeDevice: the start, on its date or by an operator before it ... *)
PurgeStart(d) ==
    /\ Serving /\ Excluded(d) /\ ~rows[d].started
    /\ rows' = [rows EXCEPT ![d].started = TRUE,
                            ![d].after = IF @ < clock THEN @ ELSE clock]
    /\ mode' = "serving"
    /\ UNCHANGED <<clock, events, file, snap, told, must, used>>

(* ... and the end, which takes the row. *)
PurgeEnd(d) ==
    /\ Serving /\ Excluded(d) /\ rows[d].started
    /\ Happens(d, "purged", rows[d].stamp, rows[d].after, NoRow)

MoveOut(d) ==
    /\ Serving /\ Live(d) /\ rows[d].ws = "team" /\ IdentityFree("personal")
    /\ Happens(d, "moved_out", 0, 0, [rows[d] EXCEPT !.ws = "personal"])

-----------------------------------------------------------------------------
(* ExportLedger, under the ledger's lock: the workspace's unexported events *)
(* are appended in order and synced, then marked.  A crash or an error      *)
(* leaves any part of the write and marks nothing; the torn line it may end *)
(* in is skipped by every reader and cut before the next write.             *)
Pending(ws) == {e \in events : ~e.ledgered /\ e.line.ws = ws}

PendingLines(ws) ==
    SetToSortSeq({e.line : e \in Pending(ws)}, LAMBDA l, m : l.id < m.id)

AppendLines(lines) == file' = file \o lines

Mark(es) == events' = (events \ es) \cup {[e EXCEPT !.ledgered = TRUE] : e \in es}

(* What the ledger has been told of each number, after these lines. *)
Told(lines) ==
    [d \in Numbers |->
        LET of == {l \in Range(lines) : l.number = d}
            last == CHOOSE l \in of : \A m \in of : m.id <= l.id
            moved == told[d].moved
                     \/ \E l \in of : l.type = "moved_out" \/ l.ws = "personal"
        IN  IF of # {} /\ told[d].at < last.at
            THEN [type |-> last.type, stamp |-> last.stamp,
                  after |-> last.after, at |-> last.at, moved |-> moved]
            ELSE [told[d] EXCEPT !.moved = moved]]

ExportLedger(ws) ==
    LET lines == PendingLines(ws)
    IN  /\ Pending(ws) # {} /\ mode # "restored"
        /\ AppendLines(lines)
        /\ told' = Told(lines)
        /\ Mark(Pending(ws))
        /\ mode' = "serving"
        /\ UNCHANGED <<clock, rows, snap, must, used>>

ExportCut(ws) ==
    /\ Pending(ws) # {} /\ mode # "restored"
    /\ used.turns < MaxTurns
    /\ used' = [used EXCEPT !.turns = @ + 1]
    /\ \E n \in 0 .. Len(PendingLines(ws)) :
          LET written == SubSeq(PendingLines(ws), 1, n)
          IN  AppendLines(written) /\ told' = Told(written)
    /\ mode' = "serving"
    /\ UNCHANGED <<clock, rows, events, snap, must>>

(* Read: the first line of each event. *)
Read(lines) ==
    {i \in DOMAIN lines : \A j \in 1 .. (i - 1) : lines[j].id # lines[i].id}

LinesOf(lines, d) == {l \in {lines[i] : i \in Read(lines)} : l.number = d}

(* Mutant: the lines go with their events' rows. *)
QuietWithItsRow(d) == \A l \in LinesOf(file, d) : l.at < clock - EventAge

(* Compact: a number goes once its newest line is older than LedgerKeep. *)
Quiet(d) == \A l \in LinesOf(file, d) : l.at < clock - LedgerKeep

Compact ==
    /\ mode # "restored"
    /\ LET kept == SelectSeq([i \in DOMAIN file |-> [line |-> file[i], n |-> i]],
                             LAMBDA x : x.n \in Read(file) /\ ~Quiet(x.line.number))
           new == [i \in DOMAIN kept |-> kept[i].line]
       IN  new # file /\ file' = new
    /\ mode' = "serving"
    /\ UNCHANGED <<clock, rows, events, snap, told, must, used>>

(* DeletionHousekeeping: an old event's row goes once the ledger has it. *)
Forgettable == {e \in events : e.ledgered /\ e.made < clock - EventAge}

DeletionHousekeeping ==
    /\ mode # "restored" /\ Forgettable # {}
    /\ events' = events \ Forgettable
    /\ mode' = "serving"
    /\ UNCHANGED <<clock, rows, file, snap, told, must, used>>

(* Time passes. *)
Skip ==
    /\ used.turns < MaxTurns
    /\ \E n \in Skips : clock' = clock + n
    /\ used' = [used EXCEPT !.turns = @ + 1]
    /\ UNCHANGED <<rows, events, file, snap, mode, told, must>>

-----------------------------------------------------------------------------
(* The nightly backup a restore will use: the database, and the ledger's    *)
(* copy beside it.                                                          *)
Snapshot ==
    /\ mode # "restored" /\ used.snaps < MaxRestores
    /\ snap' = [at |-> clock, rows |-> rows, events |-> events, file |-> file]
    /\ used' = [used EXCEPT !.snaps = @ + 1]
    /\ UNCHANGED <<clock, rows, events, file, mode, told, must>>

(* What the newest exported event since the snapshot says of a number; the  *)
(* snapshot's own row where there is none.  Nothing is promised of a number *)
(* whose snapshot holds an event the ledger never got: the ledger is then   *)
(* the older of the two, and the replay follows the ledger.                 *)
LedgerBehind(d) ==
    \E e \in snap.events : e.line.number = d /\ e.line.at > told[d].at

Expected(d) ==
    LET r == snap.rows[d]
        t == told[d]
    IN  CASE t.type = "purged" -> "purged"
          [] t.type # "purged" /\ LedgerBehind(d) -> "any"
          [] OTHER -> IF t.moved /\ r.ws = "team" THEN "hidden"
                      ELSE IF t.at > snap.at /\ t.type = "deleted" THEN "excluded"
                      ELSE IF (t.at > snap.at /\ t.type = "recovered") \/ LiveRow(r)
                      THEN "live" ELSE "kept"

(* The database is lost and the snapshot put back. *)
Restore ==
    /\ used.restores < MaxRestores
    /\ snap.at > 0 /\ clock - snap.at <= BackupAge
    /\ rows' = snap.rows /\ events' = snap.events
    /\ mode' = "restored"
    /\ must' = [d \in Numbers |-> Expected(d)]
    /\ used' = [used EXCEPT !.restores = @ + 1]
    /\ UNCHANGED <<clock, file, snap, told>>

-----------------------------------------------------------------------------
(* ledger.Fold: by cause, never by time. *)
Stamps(ls, type) == {l.stamp : l \in {m \in ls : m.type = type}}

Open(ls) == Stamps(ls, "deleted") \ Stamps(ls, "recovered")

Reversed(ls) == Stamps(ls, "deleted") \cap Stamps(ls, "recovered")

Moved(ls) == \E l \in ls : l.type = "moved_out"

WhereIs(ls) == IF Moved(ls) THEN "personal" ELSE (CHOOSE l \in ls : TRUE).ws

Problem(ls) ==
    \/ ~Moved(ls) /\ Cardinality({l.ws : l \in ls}) # 1
    \/ Stamps(ls, "purged") = {} /\ Cardinality(Open(ls)) > 1

State(ls) == IF Stamps(ls, "purged") # {} THEN "purged"
             ELSE IF Open(ls) # {} THEN "excluded" ELSE "live"

(* The line that gives the state its dates. *)
Cause(ls) ==
    IF State(ls) = "purged"
    THEN CHOOSE l \in ls : /\ l.type = "purged"
                           /\ \A m \in ls : m.type = "purged" => l.after <= m.after
    ELSE CHOOSE l \in ls : l.type = "deleted" /\ l.stamp \in Open(ls)

(* Mutant: a number that only moved is excluded again by each replay. *)
ActionAgain(d, ls) ==
    LET r == rows[d]
        same == State(ls) # "live" /\ r.stamp = Cause(ls).stamp
    IN  CASE r.ws # WhereIs(ls) ->
               IF State(ls) = "excluded" /\ same
               THEN "unchanged" ELSE "left_excluded"
          [] r.ws = WhereIs(ls) /\ State(ls) = "purged" -> "purge_due"
          [] r.ws = WhereIs(ls) /\ State(ls) = "excluded" ->
               IF same THEN "unchanged" ELSE "excluded"
          [] OTHER -> IF r.stamp = 0 THEN "unchanged"
                      ELSE IF r.stamp \notin Reversed(ls) THEN "kept"
                      ELSE IF r.started THEN "refused" ELSE "recovered"

(* ReplayLedger's decision for a number that is in some workspace. *)
Action(d, ls) ==
    LET r == rows[d]
        same == State(ls) # "live" /\ r.stamp = Cause(ls).stamp
    IN  CASE r.ws # WhereIs(ls) ->
               IF \/ State(ls) = "excluded" /\ same
                  \/ State(ls) = "live" /\ r.stamp # 0
               THEN "unchanged" ELSE "left_excluded"
          [] r.ws = WhereIs(ls) /\ State(ls) = "purged" -> "purge_due"
          [] r.ws = WhereIs(ls) /\ State(ls) = "excluded" ->
               IF same THEN "unchanged" ELSE "excluded"
          [] OTHER -> IF r.stamp = 0 THEN "unchanged"
                      ELSE IF r.stamp \notin Reversed(ls) THEN "kept"
                      ELSE IF r.started THEN "refused" ELSE "recovered"

(* replayStepTx. *)
ReplayedRow(d, ls) ==
    LET r == rows[d]
        c == Cause(ls)
        least(a, b) == IF a < b THEN a ELSE b
        purge == State(ls) = "purged"
    IN  CASE Action(d, ls) = "recovered" -> [r EXCEPT !.stamp = 0, !.after = 0]
          [] Action(d, ls) = "left_excluded" /\ State(ls) = "live" ->
               [r EXCEPT !.stamp = clock, !.after = clock + Window]
          [] Action(d, ls) \in {"excluded", "purge_due", "left_excluded"}
             /\ ~(State(ls) = "live") ->
               IF r.stamp = c.stamp
               THEN [r EXCEPT !.after = least(@, least(c.after, clock))]
               ELSE [r EXCEPT !.stamp = c.stamp,
                              !.after = IF purge THEN least(c.after, clock)
                                        ELSE c.after]
          [] OTHER -> r

(* The event row a step writes: the line's own, already ledgered. *)
ReplayedLine(d, ls) ==
    CASE Action(d, ls) = "recovered" ->
           {[CHOOSE l \in ls : l.type = "recovered" /\ l.stamp = rows[d].stamp
               EXCEPT !.ws = rows[d].ws]}
      [] Action(d, ls) = "purge_due"
         \/ (Action(d, ls) \in {"excluded", "left_excluded"}
             /\ State(ls) # "live" /\ rows[d].stamp # Cause(ls).stamp)
         \/ (Action(d, ls) = "left_excluded" /\ State(ls) = "purged") ->
           {[Cause(ls) EXCEPT !.ws = rows[d].ws]}
      [] OTHER -> {}

(* A recovery may need the identity another number's exclusion frees: the   *)
(* exclusions come first, so only what is live at the end can collide.      *)
Collides(ws, new) ==
    Cardinality({d \in Numbers : LiveRow(new[d]) /\ new[d].ws = ws}) > 1

LedgerNewest(lines) ==
    LET at == {lines[i].at : i \in DOMAIN lines}
    IN  IF at = {} THEN 0 ELSE CHOOSE a \in at : \A b \in at : b <= a

(* NewestLedgeredEvent, or the snapshot's stamp if that is later. *)
RestoredNewest ==
    LET at == {snap.at} \cup {e.line.at : e \in {f \in events : f.ledgered /\ ~f.replayed}}
    IN  CHOOSE a \in at : \A b \in at : b <= a

AddsNothing(lines) == LedgerNewest(lines) <= RestoredNewest

Found(lines) == {d \in Numbers : Exists(d) /\ LinesOf(lines, d) # {}}

Refused(lines, leave) ==
    \/ \E d \in Numbers : LinesOf(lines, d) # {} /\ Problem(LinesOf(lines, d))
    \/ \E d \in Found(lines) :
          \/ Action(d, LinesOf(lines, d)) = "refused"
          \/ rows[d].ws # WhereIs(LinesOf(lines, d)) /\ ~leave

(* ReplayLedger over a ledger's copy, which the operator may force when it   *)
(* is the host's own.  Each workspace is one transaction: a crash leaves the *)
(* others as they were, a collision leaves its own, and either way the       *)
(* replay is run again.                                                      *)
ReplayLedger(lines, places) ==
    LET new == [d \in Numbers |->
                  IF d \in Found(lines) THEN ReplayedRow(d, LinesOf(lines, d))
                  ELSE rows[d]]
        done == {ws \in places : ~Collides(ws, new)}
        lineset == UNION {ReplayedLine(d, LinesOf(lines, d)) :
                            d \in {e \in Found(lines) : rows[e].ws \in done}}
    IN  /\ {leave \in BOOLEAN : ~Refused(lines, leave)} # {}
        /\ rows' = [d \in Numbers |-> IF rows[d].ws \in done THEN new[d]
                                      ELSE rows[d]]
        /\ events' = events \cup
             {[line |-> l, made |-> clock, ledgered |-> TRUE, replayed |-> TRUE] :
                l \in {m \in lineset : ~\E e \in events : SameEvent(e.line, m)}}
        /\ mode' = IF done = Places THEN "level" ELSE mode
        /\ UNCHANGED <<clock, file, snap, told, must, used>>

Replay ==
    /\ mode \in {"restored", "level"}
    /\ \E copy \in {file, snap.file}, places \in {{"personal"}, Places} :
          /\ AddsNothing(copy) => copy = file    \* and forced
          /\ ReplayLedger(copy, places)

-----------------------------------------------------------------------------
Next ==
    \/ \E d \in Numbers : \/ Link(d) \/ Delete(d) \/ Recover(d)
                          \/ PurgeStart(d) \/ PurgeEnd(d) \/ MoveOut(d)
    \/ \E ws \in Places : ExportLedger(ws) \/ ExportCut(ws)
    \/ Compact \/ DeletionHousekeeping \/ Skip
    \/ Snapshot \/ Restore \/ Replay

Spec == Init /\ [][Next]_vars

-----------------------------------------------------------------------------
(* A replay brings the database level with the ledger: every number is what *)
(* its newest exported event says, or what the snapshot has of it.  None    *)
(* deleted, purged or moved since is readable again, and none recovered     *)
(* since is left to the first janitor pass.                                 *)
ReplayLevels ==
    mode = "level" => \A d \in Numbers : Exists(d) =>
        CASE must[d] = "purged" -> Excluded(d) /\ Due(rows[d])
          [] must[d] = "hidden" -> Excluded(d)
          [] must[d] = "excluded" -> /\ rows[d].stamp = told[d].stamp
                                     /\ rows[d].after = told[d].after
          [] must[d] = "live" -> Live(d)
          [] must[d] = "any" -> TRUE
          [] OTHER -> rows[d] = snap.rows[d]

(* A number's row is put back only by a restore and its replay: an event     *)
(* marked exported is in the file a crash left, or too old for any snapshot. *)
ExportedIsWritten ==
    \A e \in events : e.ledgered /\ ~e.replayed =>
        \/ \E i \in DOMAIN file : file[i].id = e.line.id
        \/ e.line.at < clock - LedgerKeep

(* A replay that finished changes nothing when it is run again. *)
ReplayRepeats == [][mode = "level" /\ rows' # rows => ~Replay]_vars

(* One deletion is purged once, however often a restore brings it back: for *)
(* as long as its row is kept, the janitor's purge after a replay finds the *)
(* ledger's own event.                                                      *)
PurgedOnce ==
    \A i, j \in DOMAIN file :
        /\ file[i].type = "purged" /\ file[j].type = "purged"
        /\ file[i].number = file[j].number /\ file[i].stamp = file[j].stamp
        => file[i].id = file[j].id \/ file[i].at + EventAge < file[j].at
                                   \/ file[j].at + EventAge < file[i].at

(* The ledger holds what a restore needs, and a replay of it brings the
   database level. *)
LedgerSafe ==
    /\ TypeOK
    /\ ReplayLevels
    /\ ExportedIsWritten
    /\ PurgedOnce
=============================================================================
