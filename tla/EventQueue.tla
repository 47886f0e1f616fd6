----------------------------- MODULE EventQueue -----------------------------
(***************************************************************************)
(* One platform workspace's queue of contract events: the rows of          *)
(* item_events as the leader's sender reads, folds, sends, settles, parks  *)
(* and releases them (store/contract_events.go, membership/events.go).     *)
(*                                                                         *)
(* A row's id is its place in rows (seq order is commit order).  A pause's *)
(* item and actor are one `subject'; its readers are kept as whether anyone *)
(* but the actor is among them.  Time is a counter of which Hour steps are *)
(* an hour; the 24 hours of a not_found run and the 29 days of an event    *)
(* pass by steps of their own (DayPasses, Age), never within the hour.      *)
(* Two leaders run: one that lost its lock goes on until it notices.       *)
(***************************************************************************)
EXTENDS Naturals, Sequences, FiniteSets, SequencesExt

CONSTANTS
    Leaders,       \* processes whose sender may run
    Subjects,      \* a number and an actor
    Limit,         \* events a batch holds at most (kc.MaxEvents)
    Hour,          \* clock steps in an hour
    MaxRows, MaxClock, MaxFaults, MaxTurns   \* bounds of the model

(* A batch holds an event at least, and an hour is not nothing. *)
QueueBounds == {Limit, Hour} \subseteq Nat \ {0}

VARIABLES
    rows,      \* item_events of the workspace, in seq order
    clock,     \* the database's clock, in fractions of an hour
    aged,      \* the first `aged' rows are past their 29 days
    queue,     \* contract_workspaces: events_due_at, events_not_found_since
    flight,    \* each leader's send in progress
    known,     \* whether the platform knows the workspace
    mailed,    \* ids the platform ever took
    dropped,   \* ids of them its inbox has forgotten (30 days)
    twice,     \* ids it took a second time
    outcast,   \* ids ever parked not_found
    faults,    \* lost calls and stopped leaders so far
    turns      \* times the platform lost or found the workspace

vars == <<rows, clock, aged, queue, flight, known, mailed, dropped, twice,
          outcast, faults, turns>>
platform == <<known, mailed, dropped, twice, turns>>

NoFold == 0
Ids == 1..Len(rows)

(* What a row is settled or parked as; open is neither.                    *)
Settled == {"delivered", "coalesced", "not_sent"}
Parked == {"expired", "not_found", "invalid"}

IsPause(i) == rows[i].kind = "paused"
Expired(i) == i <= aged

(* owedEventSQL: neither settled nor parked, and not a pause of an off     *)
(* period.                                                                 *)
Owed(i) == rows[i].status = "open" /\ ~ rows[i].off
OwedIds == {i \in Ids : Owed(i)}

(* EventWorkspaces lists the workspace.                                    *)
OwesAnything == OwedIds # {}

(* Under an hour after, of the same number and actor (sameActor).          *)
WithinHour(i, j) ==
    /\ IsPause(i) /\ IsPause(j)
    /\ rows[i].subject = rows[j].subject
    /\ i < j /\ rows[j].at < rows[i].at + Hour

-----------------------------------------------------------------------------
(* EventBatch: what reading the queue decides.                             *)

(* An owed row past its 29 days, and a row folded into one that heads.     *)
ExpiredOwed ==
    {i \in OwedIds : \/ Expired(i)
                     \/ /\ rows[i].into \in OwedIds
                        /\ Expired(rows[i].into)
                        /\ rows[rows[i].into].into = NoFold}

(* A row folded into one that is not an owed head heads its own event.     *)
KeptFold ==
    LET kept[i \in Ids] ==
            LET h == rows[i].into
            IN  IF h \in OwedIds \ ExpiredOwed /\ h < i
                THEN IF kept[h] = NoFold THEN h ELSE NoFold
                ELSE NoFold
    IN  kept

(* deliveredPausesTx, deliveredWithin: the pauses the platform took that i *)
(* folds into.                                                             *)
DeliveredWithin(i) == {d \in Ids : rows[d].status = "delivered" /\ WithinHour(d, i)}

(* One row of foldEvents' last loop; st is [into, done, events].           *)
FoldRow(st, i) ==
    LET taken == DeliveredWithin(i)
        folding == [k \in Ids |->
            IF k \in OwedIds \ st.done /\ st.into[k] = NoFold /\ WithinHour(i, k)
            THEN i ELSE st.into[k]]
        folded == {k \in OwedIds \ st.done : folding[k] = i}
    IN  CASE i \in st.done \/ st.into[i] # NoFold \/ Len(st.events) = Limit -> st
          [] ~ IsPause(i) -> [st EXCEPT !.events = Append(@, i)]
          [] IsPause(i) /\ taken # {} ->
                [st EXCEPT !.done = @ \union {i},
                           !.into = [k \in Ids |->
                                CASE k = i -> CHOOSE d \in taken : \A e \in taken : e <= d
                                  [] k \in OwedIds \ st.done /\ @[k] = i -> NoFold
                                  [] OTHER -> @[k]]]
          [] OTHER ->
                IF \E k \in folded \union {i} : rows[k].others
                THEN [st EXCEPT !.into = folding, !.events = Append(@, i)]
                ELSE [st EXCEPT !.into = folding, !.done = @ \union folded \union {i}]

(* Mutant: the pauses last. *)
FoldPausesLast ==
    FoldLeft(FoldRow,
             [into |-> [i \in Ids |-> IF i \in OwedIds \ ExpiredOwed
                                      THEN KeptFold[i] ELSE rows[i].into],
              done |-> ExpiredOwed, events |-> <<>>],
             SetToSortSeq({i \in OwedIds : ~ IsPause(i)}, <)
                 \o SetToSortSeq({i \in OwedIds : IsPause(i)}, <))

FoldEvents ==
    FoldLeft(FoldRow,
             [into |-> [i \in Ids |-> IF i \in OwedIds \ ExpiredOwed
                                      THEN KeptFold[i] ELSE rows[i].into],
              done |-> ExpiredOwed, events |-> <<>>],
             SetToSortSeq(OwedIds, <))

(* writeFoldsTx: the expired parked, the folded pauses settled, the links  *)
(* of the others written.                                                  *)
WriteFolds(st) ==
    rows' = [i \in Ids |->
        CASE i \in ExpiredOwed -> [rows[i] EXCEPT !.status = "expired"]
          [] i \in st.done \ ExpiredOwed ->
                [rows[i] EXCEPT !.into = st.into[i],
                                !.status = IF st.into[i] # NoFold THEN "coalesced"
                                           ELSE "not_sent"]
          [] i \in OwedIds \ st.done -> [rows[i] EXCEPT !.into = st.into[i]]
          [] OTHER -> rows[i]]

-----------------------------------------------------------------------------
NoAnswer == [kind |-> "none", took |-> {}, unknown |-> FALSE]
Idle == [phase |-> "idle", events |-> <<>>, rest |-> <<>>, alone |-> FALSE,
         touched |-> FALSE, answer |-> NoAnswer]

Init ==
    /\ rows = <<>> /\ clock = 0 /\ aged = 0
    /\ queue = [due |-> "none", since |-> "none"]
    /\ flight = [l \in Leaders |-> Idle]
    /\ known \in BOOLEAN /\ mailed = {} /\ dropped = {} /\ twice = {}
    /\ outcast = {} /\ faults = 0 /\ turns = 0

(* recordEvent: a row of the writer's transaction; a pause written while   *)
(* the contract was off after an observe is local only.  `bad' events fail *)
(* Wappie's own check, or the platform's.                                  *)
RecordEvent(kind, subject, others, off, bad) ==
    /\ Len(rows) < MaxRows
    /\ kind = "deleted" => others /\ ~ off /\ bad # "platform"
    /\ kind = "paused" => bad # "local" /\ (off \/ bad # "no" => others)
    /\ off => bad = "no"
    /\ rows' = Append(rows, [kind |-> kind, subject |-> subject,
                             others |-> others, off |-> off, bad |-> bad,
                             at |-> clock, into |-> NoFold, status |-> "open"])
    /\ UNCHANGED <<clock, aged, queue, flight, platform, outcast, faults>>

Tick ==
    /\ clock < MaxClock /\ clock' = clock + 1
    /\ UNCHANGED <<rows, aged, queue, flight, platform, outcast, faults>>

Age ==
    /\ aged < Len(rows) /\ clock + Hour <= MaxClock
    /\ aged' = aged + 1 /\ clock' = clock + Hour
    /\ UNCHANGED <<rows, queue, flight, platform, outcast, faults>>

(* The not_found run is 24 hours old, as the row it began with.            *)
DayPasses ==
    /\ queue.since = "recent" /\ \E i \in Ids : rows[i].at + Hour <= clock
    /\ queue' = [queue EXCEPT !.since = "day"]
    /\ UNCHANGED <<rows, clock, aged, flight, platform, outcast, faults>>

BackoffEnds ==
    /\ queue.due = "waiting" /\ queue' = [queue EXCEPT !.due = "due"]
    /\ UNCHANGED <<rows, clock, aged, flight, platform, outcast, faults>>

-----------------------------------------------------------------------------
(* The sender.                                                             *)

(* EventQueues: not backing off.                                           *)
QueueDue == queue.due # "waiting"

(* send: EventBatch, then the events Wappie would not send set aside to be *)
(* parked and the rest to be posted.                                       *)
EventBatch(l) ==
    LET st == FoldEvents
    IN  /\ flight[l].phase = "idle" /\ QueueDue /\ OwesAnything
        /\ WriteFolds(st)
        /\ flight' = [flight EXCEPT ![l] =
              IF st.events = <<>> THEN Idle
              ELSE [Idle EXCEPT !.events = st.events,
                                !.phase = IF \E i \in Range(st.events) : rows[i].bad = "local"
                                          THEN "park" ELSE "post"]]
        /\ UNCHANGED <<clock, aged, queue, platform, outcast, faults>>

(* The rows of ids still owed by name or by fold, parked.                  *)
Park(ids, code) ==
    [i \in Ids |-> IF rows[i].status = "open" /\ (i \in ids \/ rows[i].into \in ids)
                   THEN [rows[i] EXCEPT !.status = code] ELSE rows[i]]

(* EventsParked of the events that failed Wappie's own check.              *)
EventsParked(l) ==
    LET f == flight[l]
        good == SelectSeq(f.events, LAMBDA i : rows[i].bad # "local")
    IN  /\ f.phase = "park"
        /\ rows' = Park(Range(f.events) \ Range(good), "invalid")
        /\ flight' = [flight EXCEPT ![l] =
              IF good = <<>> THEN Idle ELSE [f EXCEPT !.events = good, !.phase = "post"]]
        /\ UNCHANGED <<clock, aged, queue, platform, outcast, faults>>

(* The platform, by its contract: it takes each event it can take once,    *)
(* told apart by id while its inbox holds it (30 days); of a workspace it  *)
(* does not know it takes none.                                            *)
Takes(ids) ==
    LET new == ids \ (mailed \ dropped)
    IN  /\ mailed' = mailed \union new
        /\ twice' = twice \union (new \intersect mailed)
        /\ dropped' = dropped \ new

Good(f) == {i \in Range(f.events) : rows[i].bad = "no"}

(* post: PostEvents and the verdict the leader reads.                      *)
PostEvents(l) ==
    LET f == flight[l]
        answered(a) == flight' = [flight EXCEPT ![l].phase = "answer", ![l].answer = a]
    IN  /\ f.phase = "post"
        /\ UNCHANGED <<rows, clock, aged, queue, known, outcast, turns>>
        /\ \/ /\ known /\ Takes(Good(f)) /\ UNCHANGED faults
              /\ answered([kind |-> "results", took |-> Good(f), unknown |-> FALSE])
           \/ /\ ~ known /\ UNCHANGED <<mailed, dropped, twice, faults>>
              /\ answered([kind |-> "results", took |-> {}, unknown |-> TRUE])
           \/ (* invalid_request for the whole body *)
              /\ known /\ (Len(f.events) > 1 \/ Good(f) = {})
              /\ UNCHANGED <<mailed, dropped, twice, faults>>
              /\ answered([kind |-> "whole", took |-> {}, unknown |-> FALSE])
           \/ (* no verdict: the call, or its answer, is lost *)
              /\ faults < MaxFaults /\ faults' = faults + 1
              /\ answered([kind |-> "failed", took |-> {}, unknown |-> FALSE])
              /\ \/ UNCHANGED <<mailed, dropped, twice>>
                 \/ known /\ Takes(Good(f))

(* backoffTx: wait, unless someone made the queue due since it was read.   *)
BackoffTx(l) ==
    IF queue.due # "none" /\ flight[l].touched THEN queue.due ELSE "waiting"

Touch(fs) == [l \in Leaders |-> [fs[l] EXCEPT !.touched = fs[l].phase # "idle"]]

(* What follows one event of a batch refused whole: the next alone, while  *)
(* the queue is due.                                                       *)
AfterOne(l, due) ==
    LET f == flight[l]
    IN  IF f.rest = <<>> \/ due = "waiting" THEN Idle
        ELSE [f EXCEPT !.phase = "post", !.events = <<Head(f.rest)>>,
                       !.rest = Tail(f.rest), !.answer = NoAnswer]

Releasable(i) == rows[i].status = "not_found" /\ ~ Expired(i)

(* releaseEventsTx *)
Release(rs) ==
    [i \in Ids |-> IF Releasable(i) /\ rs[i].status = "not_found"
                   THEN [rs[i] EXCEPT !.status = "open"] ELSE rs[i]]

(* EventsSent, of an answer with a verdict for each event.                 *)
EventsSent(l) ==
    LET f == flight[l]
        took == f.answer.took
        refused == f.answer.unknown
        since == IF refused /\ queue.since = "none" THEN "recent" ELSE queue.since
        parkAll == refused /\ since = "day"
        release == ~ refused /\ took # {} /\ queue.since # "none"
        (* delivered, with the rows folded into them, parked or not *)
        settle == [i \in Ids |->
            CASE rows[i].status \in Settled -> rows[i]
              [] i \in took -> [rows[i] EXCEPT !.status = "delivered"]
              [] i \notin took /\ rows[i].into \in took -> [rows[i] EXCEPT !.status = "coalesced"]
              [] OTHER -> rows[i]]
        bad == IF refused THEN {} ELSE Range(f.events) \ took
        park == [i \in Ids |-> IF settle[i].status = "open" /\ (i \in bad \/ rows[i].into \in bad)
                               THEN [settle[i] EXCEPT !.status = "invalid"] ELSE settle[i]]
        due == CASE parkAll -> "none"
                 [] refused /\ ~ parkAll -> BackoffTx(l)
                 [] OTHER -> "none"
    IN  /\ f.phase = "answer" /\ f.answer.kind = "results"
        /\ rows' = CASE parkAll -> [i \in Ids |-> IF Owed(i) THEN [rows[i] EXCEPT !.status = "not_found"]
                                                  ELSE rows[i]]
                     [] release -> Release(park)
                     [] OTHER -> park
        /\ outcast' = IF parkAll THEN outcast \union OwedIds ELSE outcast
        /\ queue' = [due |-> due, since |-> IF ~ refused /\ took # {} THEN "none" ELSE since]
        /\ flight' = LET fs == [flight EXCEPT ![l] = AfterOne(l, due)]
                     IN  IF due = "waiting" THEN Touch(fs) ELSE fs
        /\ UNCHANGED <<clock, aged, platform, faults>>

(* post, of a batch refused whole: one event per call; an event refused    *)
(* alone is parked.                                                        *)
RefusedWhole(l) ==
    LET f == flight[l]
    IN  /\ f.phase = "answer" /\ f.answer.kind = "whole"
        /\ IF Len(f.events) > 1
           THEN /\ rows' = rows
                /\ flight' = [flight EXCEPT ![l] = [f EXCEPT !.phase = "post",
                        !.events = <<Head(f.events)>>, !.rest = Tail(f.events), !.alone = TRUE,
                        !.answer = NoAnswer]]
           ELSE /\ rows' = Park(Range(f.events), "invalid")
                /\ flight' = [flight EXCEPT ![l] = AfterOne(l, queue.due)]
        /\ UNCHANGED <<clock, aged, queue, platform, outcast, faults>>

EventsFailed(l) ==
    LET due == BackoffTx(l)
    IN  /\ flight[l].phase = "answer" /\ flight[l].answer.kind = "failed"
        /\ queue' = [queue EXCEPT !.due = due]
        /\ flight' = Touch([flight EXCEPT ![l] = AfterOne(l, due)])
        /\ UNCHANGED <<rows, clock, aged, platform, outcast, faults>>

(* The leader stops, or loses its process, wherever it is.                 *)
Stop(l) ==
    /\ flight[l].phase # "idle" /\ faults < MaxFaults /\ faults' = faults + 1
    /\ flight' = [flight EXCEPT ![l] = Idle]
    /\ UNCHANGED <<rows, clock, aged, queue, platform, outcast>>

-----------------------------------------------------------------------------
(* The other writers of the queue.                                         *)

DueNow == IF queue.due = "none" THEN "none" ELSE "due"
TouchDue == IF queue.due = "none" THEN flight ELSE Touch(flight)

(* workspacesDueTx, of a document that names a workspace the platform had  *)
(* refused; Restart does the same of every workspace.                      *)
NamedAgain ==
    /\ queue' = [due |-> DueNow, since |-> "none"]
    /\ flight' = TouchDue
    /\ rows' = IF queue.since # "none" THEN Release(rows) ELSE rows
    /\ UNCHANGED <<clock, aged, platform, outcast, faults>>

(* Recovered: the queues backing off are due now.                          *)
Recovered ==
    /\ queue.due # "none"
    /\ queue' = [queue EXCEPT !.due = "due"] /\ flight' = Touch(flight)
    /\ UNCHANGED <<rows, clock, aged, platform, outcast, faults>>

(* expireEventsTx: the hourly housekeeping, in every mode.                 *)
ExpireEvents ==
    /\ ExpiredOwed # {}
    /\ rows' = [i \in Ids |-> IF i \in ExpiredOwed
                              THEN [rows[i] EXCEPT !.status = "expired"] ELSE rows[i]]
    /\ UNCHANGED <<clock, aged, queue, flight, platform, outcast, faults>>

(* The platform: it forgets or learns of the workspace, and its inbox lets *)
(* go of an event at 30 days, which no call in flight at 29 lives to see.  *)
PlatformTurns ==
    /\ turns < MaxTurns /\ turns' = turns + 1 /\ known' = ~ known
    /\ UNCHANGED <<rows, clock, aged, queue, flight, mailed, dropped, twice, outcast, faults>>

InboxForgets(i) ==
    /\ i \in mailed \ dropped /\ Expired(i)
    /\ \A l \in Leaders : i \notin Range(flight[l].events) \union Range(flight[l].rest)
    /\ dropped' = dropped \union {i}
    /\ UNCHANGED <<rows, clock, aged, queue, flight, known, mailed, twice, outcast, faults, turns>>

Send(l) == EventBatch(l) \/ EventsParked(l) \/ PostEvents(l) \/ EventsSent(l)
           \/ RefusedWhole(l) \/ EventsFailed(l)

Next ==
    \/ \E kind \in {"paused", "deleted"}, s \in Subjects, others, off \in BOOLEAN,
          bad \in {"no", "local", "platform"} : RecordEvent(kind, s, others, off, bad)
    \/ Tick \/ Age \/ DayPasses \/ BackoffEnds
    \/ \E l \in Leaders : Send(l) \/ Stop(l)
    \/ NamedAgain \/ Recovered \/ ExpireEvents
    \/ PlatformTurns \/ \E i \in Ids : InboxForgets(i)

Spec == Init /\ [][Next]_vars

-----------------------------------------------------------------------------
(* What the variables hold.                                                *)
TypeOK ==
    /\ \A i \in Ids : /\ rows[i].status \in {"open"} \union Settled \union Parked
                      /\ rows[i].into \in 0..(i - 1)
                      /\ rows[i].at \in 0..clock
    /\ clock \in 0..MaxClock /\ aged \in 0..Len(rows)
    /\ queue \in [due : {"none", "waiting", "due"}, since : {"none", "recent", "day"}]
    /\ \A l \in Leaders : /\ flight[l].phase \in {"idle", "park", "post", "answer"}
                          /\ Range(flight[l].events) \subseteq Ids
                          /\ flight[l].phase = "idle" => flight[l] = Idle
    /\ known \in BOOLEAN /\ dropped \subseteq mailed /\ mailed \subseteq Ids
    /\ twice \subseteq mailed /\ outcast \subseteq Ids
    /\ faults \in 0..MaxFaults /\ turns \in 0..MaxTurns

(* Whoever a settled row had to tell was told: its own event was taken, or *)
(* that of the pause of the same number and actor under an hour before it. *)
NobodyUntold ==
    \A i \in Ids : rows[i].status \in Settled /\ rows[i].others =>
        \E h \in mailed : h = i \/ WithinHour(h, i)

(* The platform never takes an event twice: a row is sent again only while *)
(* the platform's inbox still knows it (contract_events.go:51-55).         *)
NoSecondMail == twice = {}

(* One pause of a number and an actor an hour (contract-events.md:124),    *)
(* unless the first was never answered for and its 29 days ran out.        *)
OnePauseAnHour ==
    \A i, j \in mailed : WithinHour(i, j) => Expired(i) \/ i \in outcast

(* Rows are parked not_found only in a queue's not_found run, so ending    *)
(* the run releases every one of them (contract.go:650, leader.go:268).    *)
ParkedInRun ==
    (\E i \in Ids : Releasable(i)) => queue.since # "none"

(* What is settled stays so, and a park but not_found ends only because    *)
(* the platform took the event after all.                                  *)
SettledStands ==
    \A i \in Ids :
        /\ rows[i].status \in Settled => rows'[i] = rows[i]
        /\ rows[i].status \in {"expired", "invalid"} /\ rows'[i] # rows[i] =>
                rows'[i].status \in {"delivered", "coalesced"}

(* The platform is told in the order things happened: when it takes an     *)
(* event, every earlier one still owed has been taken with it or before,   *)
(* itself or as the pause it is folded into, unless it was parked once or  *)
(* its batch goes one by one (a queue made due again then sends on).       *)
InOrder ==
    \A j \in mailed' \ mailed : \A i \in 1..(j - 1) :
        LET head == IF rows[i].into = NoFold THEN i ELSE rows[i].into
        IN  /\ \A l \in Leaders : ~ flight[l].alone
            /\ Owed(i) /\ rows[head].bad = "no" /\ i \notin outcast
            => {i, head} \intersect mailed' # {}

(* Everyone who must be told is told, once, and what waits is still waited
   for. *)
EventsSafe ==
    /\ TypeOK
    /\ NobodyUntold
    /\ NoSecondMail
    /\ OnePauseAnHour
    /\ ParkedInRun

(* Events are taken in order, and what is settled stays so. *)
EventSteps == [][SettledStands /\ InOrder]_vars
=============================================================================
