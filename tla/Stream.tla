------------------------------- MODULE Stream -------------------------------
(***************************************************************************)
(* One tenant's live stream, from the commit of a row to the frame a       *)
(* connected client receives.                                              *)
(*                                                                         *)
(*   ingest workers    store a row (the tenant row's lock makes allocation *)
(*                     order the commit order), then publish it: copy the  *)
(*                     bus's registrations, then offer to each             *)
(*   deletions         hide a number, then take it out of every filter     *)
(*   subscribe handler grant, register, look again, watermark, replay,     *)
(*                     hand over                                           *)
(*   pump              the bus's queue to the connection's stream          *)
(*   writer            the stream to the client                            *)
(*                                                                         *)
(* One connection is modelled; subscriptions share nothing but the archive *)
(* and publishing never blocks on one.  It may subscribe again after its   *)
(* subscription ended.                                                     *)
(***************************************************************************)
EXTENDS Subscription, ReplayPage

CONSTANTS
    Workers,      \* ingest goroutines of the tenant
    NoDevice,     \* stands for uuid.Nil: a frame that is no number's traffic
    StreamDepth,  \* streamBuffer: frames that may wait for the writer (64)
    MaxSeq,       \* bound: sequence numbers ever allocated
    MaxSubs,      \* bound: subscriptions the connection ever makes
    Classes,      \* what arrives: messages, acknowledgements, lost duplicates
    Chatty,       \* the numbers with ephemeral traffic
    Deletable     \* the numbers that may be deleted

ASSUME StreamAssumption ==
    /\ StreamDepth \in Nat \ {0}
    /\ MaxSeq \in Nat
    /\ MaxSubs \in Nat
    /\ Classes \subseteq {"msg", "ack", "none"}
    /\ Chatty \subseteq Devices /\ Deletable \subseteq Devices
    /\ NoDevice \notin Devices
    /\ Page > 1   \* a page one acknowledgement fills is not seen as cut

VARIABLES
    rows,      \* messages and receipts of the tenant, by sequence number
    worker,    \* worker[w]: where an ingest is between its commit and offer
    deletion,  \* deletion[d]: how far the deletion of a number has got
    sub,       \* the connection's latest subscription
    conn,      \* the session: s.sub, its stream queue, its context
    h,         \* the subscribe handler's locals
    p,         \* the pump's locals
    hist       \* observer: what became of each entry (in no code state)

vars == <<rows, worker, deletion, sub, conn, h, p, hist>>

-----------------------------------------------------------------------------
Entries == [cls : {"msg", "ack", "none"}, dev : Devices, ids : {1}]

NoEvent == [seq |-> 0, dev |-> NoDevice, eph |-> TRUE]

(* A frame carries its request's id, here the number of the subscription. *)
Frames == [kind : {"begin", "row", "eph", "end", "lag", "ended"},
           sub : Nat, seq : Nat, dev : Devices \cup {NoDevice}]

Frame(kind, id, seq, dev) ==
    [kind |-> kind, sub |-> id, seq |-> seq, dev |-> dev]

WorkerStates == [step : {"idle", "stored", "offering"}, seq : Nat, sub : Nat]

DeletionStates == [step : {"none", "committed", "listed", "done"}, sub : Nat]

ConnStates == [sub : Nat, made : Nat, stream : Seq(Frames),
               ending : SUBSET Nat, live : BOOLEAN, torn : BOOLEAN]

HandlerStates ==
    [step : {"idle", "granted", "recheck", "mark", "begin", "read", "page",
             "emit", "handover", "end"},
     asked : SUBSET Devices, since : Nat, live : BOOLEAN,
     mark : Nat, last : Nat, horizon : Nat, page : SUBSET Nat]

PumpStates ==
    [step : {"none", "lag", "clear", "tell", "select", "deliver", "push"},
     ev : Events \cup {NoEvent}, from : Nat]

Histories ==
    [since : Nat, got : SUBSET Nat, missed : SUBSET Nat, told : SUBSET Nat,
     skipped : SUBSET Nat, gap : SUBSET Nat, top : Nat, leaked : SUBSET Nat,
     failed : BOOLEAN]

(* Every variable has its type, and the two queues their bounds. *)
TypeOK ==
    /\ rows \in Seq(Entries)
    /\ worker \in [Workers -> WorkerStates]
    /\ deletion \in [Devices -> DeletionStates]
    /\ sub \in Subscriptions /\ Len(sub.queue) <= Depth
    /\ conn \in ConnStates /\ Len(conn.stream) <= StreamDepth
    /\ h \in HandlerStates
    /\ p \in PumpStates
    /\ hist \in Histories

NoHistory(since) ==
    [since |-> since, got |-> {}, missed |-> {}, told |-> {}, skipped |-> {},
     gap |-> {}, top |-> 0, leaked |-> {}, failed |-> FALSE]

Idle == [step |-> "idle", asked |-> {}, since |-> 0, live |-> FALSE,
         mark |-> 0, last |-> 0, horizon |-> 0, page |-> {}]

NoPump == [step |-> "none", ev |-> NoEvent, from |-> 0]

Init ==
    /\ rows = <<>>
    /\ worker = [w \in Workers |-> [step |-> "idle", seq |-> 0, sub |-> 0]]
    /\ deletion = [d \in Devices |-> [step |-> "none", sub |-> 0]]
    /\ sub = ClosedSubscription
    /\ conn = [sub |-> 0, made |-> 0, stream |-> <<>>, ending |-> {},
               live |-> TRUE, torn |-> FALSE]
    /\ h = Idle
    /\ p = NoPump
    /\ hist = NoHistory(0)

(* The devices view: a deleted number is in no list and in no read. *)
Visible == {d \in Devices : deletion[d].step = "none"}

(* What the bus has registered: nothing once the subscription is closed. *)
Registered == IF sub.closed THEN 0 ELSE conn.made

(* The subscription becomes s, and what it drops now is noted as missed. *)
Becomes(s) ==
    /\ sub' = s
    /\ hist' = [hist EXCEPT !.missed = @ \cup (s.dropped \ sub.dropped)]

Room == Len(conn.stream) < StreamDepth

(* pushOf: waits for room; a connection going away takes no more. *)
Push(f) ==
    /\ conn.live /\ Room
    /\ conn' = [conn EXCEPT !.stream = Append(@, f)]

-----------------------------------------------------------------------------
(* Ingest: commit, then publish holding nothing. *)

(* Messages.Insert and Receipts.Insert commit one entry. *)
Store(w, d, c) ==
    /\ worker[w].step = "idle"
    /\ Len(rows) < MaxSeq
    /\ rows' = Append(rows, [cls |-> c, dev |-> d, ids |-> 1])
    /\ worker' = [worker EXCEPT
                    ![w] = [step |-> "stored", seq |-> Len(rows) + 1, sub |-> 0]]
    /\ UNCHANGED <<deletion, sub, conn, h, p, hist>>

(* The loser of a race over one message: the sequence number is spent and
   nothing is published. *)
StoreDuplicate(w, d) ==
    /\ worker[w].step = "idle"
    /\ Len(rows) < MaxSeq
    /\ rows' = Append(rows, [cls |-> "none", dev |-> d, ids |-> 1])
    /\ UNCHANGED <<worker, deletion, sub, conn, h, p, hist>>

(* Bus.Publish, first half: the registrations are copied under the bus's
   lock and offered to outside it. *)
Publish(w) ==
    /\ worker[w].step = "stored"
    /\ worker' = [worker EXCEPT ![w].step = "offering", ![w].sub = Registered]
    /\ UNCHANGED <<rows, deletion, sub, conn, h, p, hist>>

PublishOffer(w) ==
    LET n  == worker[w].seq
        ev == [seq |-> n, dev |-> rows[n].dev, eph |-> FALSE]
    IN /\ worker[w].step = "offering"
       /\ worker' = [worker EXCEPT ![w] = [step |-> "idle", seq |-> 0, sub |-> 0]]
       /\ Becomes(IF worker[w].sub = conn.made THEN Offer(sub, ev) ELSE sub)
       /\ UNCHANGED <<rows, deletion, conn, h, p>>

(* Presence, a badge, a chat's timer: no row behind it. *)
PublishEphemeral(d) ==
    /\ Becomes(Offer(sub, [seq |-> 0, dev |-> d, eph |-> TRUE]))
    /\ UNCHANGED <<rows, worker, deletion, conn, h, p>>

-----------------------------------------------------------------------------
(* Deletion of a number: hidden at its commit, dropped right after it. *)

DeleteCommit(d) ==
    /\ deletion[d].step = "none"
    /\ deletion' = [deletion EXCEPT ![d].step = "committed"]
    /\ UNCHANGED <<rows, worker, sub, conn, h, p, hist>>

DropDevice(d) ==
    /\ deletion[d].step = "committed"
    /\ deletion' = [deletion EXCEPT ![d] = [step |-> "listed", sub |-> Registered]]
    /\ UNCHANGED <<rows, worker, sub, conn, h, p, hist>>

DropDeviceFrom(d) ==
    /\ deletion[d].step = "listed"
    /\ deletion' = [deletion EXCEPT ![d].step = "done"]
    /\ Becomes(IF deletion[d].sub = conn.made THEN Drop(sub, d) ELSE sub)
    /\ UNCHANGED <<rows, worker, conn, h, p>>

-----------------------------------------------------------------------------
(* handleSubscribe.  A database read fails when the context is cancelled,
   and may fail at any time. *)

(* The access check: the request names some of the devices granted now. *)
Grant ==
    /\ h.step = "idle"
    /\ conn.live
    /\ conn.made < MaxSubs
    /\ \E asked \in SUBSET Visible \ {{}}, since \in 0 .. Len(rows),
          live \in BOOLEAN :
         h' = [Idle EXCEPT !.step = "granted", !.asked = asked,
                           !.since = since, !.live = live]
    /\ UNCHANGED <<rows, worker, deletion, sub, conn, p, hist>>

(* A pump still winding down here belongs to a connection already gone and to
   the subscription before this one, and can do nothing more. *)
Register ==
    /\ h.step = "granted"
    /\ conn.sub = 0
    /\ sub' = NewSubscription(h.asked)
    /\ conn' = [conn EXCEPT !.made = @ + 1, !.sub = conn.made + 1]
    /\ h' = [h EXCEPT !.step = "recheck"]
    /\ hist' = NoHistory(h.since)
    /\ p' = NoPump
    /\ UNCHANGED <<rows, worker, deletion>>

(* ErrCodeConflict: "this connection is already subscribed". *)
RegisterConflict ==
    /\ h.step = "granted"
    /\ conn.sub # 0
    /\ h' = Idle
    /\ UNCHANGED <<rows, worker, deletion, sub, conn, p, hist>>

(* A deletion that committed before the registration dropped its number from
   no filter: what is no longer visible is dropped here. *)
Recheck ==
    /\ h.step = "recheck"
    /\ conn.live
    /\ Becomes(DropAll(sub, h.asked \ Visible))
    /\ h' = [h EXCEPT !.step = "mark"]
    /\ UNCHANGED <<rows, worker, deletion, conn, p>>

(* Mutant: the failure is reported and the subscription left behind. *)
RecheckFailsLeaving ==
    /\ h.step = "recheck"
    /\ h' = Idle
    /\ UNCHANGED <<rows, worker, deletion, sub, conn, p, hist>>

RecheckFails ==
    /\ h.step = "recheck"
    /\ sub' = Close(sub)
    /\ conn' = [conn EXCEPT !.sub = 0]
    /\ h' = Idle
    /\ UNCHANGED <<rows, worker, deletion, p, hist>>

(* The watermark, read after the registration.  A client that wants live
   traffic only is handed over at once. *)
ReadMark ==
    /\ h.step = "mark"
    /\ conn.live
    /\ LET mark == Len(rows)
       IN IF h.live
          THEN /\ sub' = EndReplay(sub, mark)
               /\ h' = [h EXCEPT !.step = "end", !.mark = mark, !.last = mark]
               /\ hist' = [hist EXCEPT
                             !.since = mark,
                             !.missed = @ \cup (sub'.dropped \ sub.dropped)]
          ELSE /\ h' = [h EXCEPT !.step = "begin", !.mark = mark,
                                 !.last = h.since]
               /\ UNCHANGED <<sub, hist>>
    /\ UNCHANGED <<rows, worker, deletion, conn, p>>

ReadMarkFails ==
    /\ h.step = "mark"
    /\ sub' = EndReplay(sub, 0)
    /\ h' = Idle
    /\ hist' = [hist EXCEPT !.failed = TRUE,
                            !.missed = @ \cup (sub'.dropped \ sub.dropped)]
    /\ UNCHANGED <<rows, worker, deletion, conn, p>>

ReplayBegin ==
    /\ h.step = "begin"
    /\ Push(Frame("begin", conn.made, h.mark, NoDevice))
    /\ h' = [h EXCEPT !.step = "read"]
    /\ UNCHANGED <<rows, worker, deletion, sub, p, hist>>

(* One round: two paged reads and the entries up to their horizon. *)
ReadPage ==
    /\ h.step = "read"
    /\ h.last < h.mark /\ ~sub.ended
    /\ conn.live
    /\ LET msgs == MessagesSince(rows, h.last, Visible)
           acks == ReceiptsSince(rows, h.last, Visible)
           top  == Horizon(h.mark, msgs, acks)
       IN h' = IF msgs = {} /\ acks.batches = {}
               THEN [h EXCEPT !.step = "handover"]
               ELSE [h EXCEPT !.step = "page", !.horizon = top,
                              !.page = {n \in msgs \cup acks.batches : n <= top}]
    /\ UNCHANGED <<rows, worker, deletion, sub, conn, p, hist>>

(* A failed read ends the replay short of the watermark. *)
ReadPageFails ==
    /\ h.step = "read"
    /\ h.last < h.mark /\ ~sub.ended
    /\ h' = [h EXCEPT !.step = "handover"]
    /\ UNCHANGED <<rows, worker, deletion, sub, conn, p, hist>>

ReplayReached ==
    /\ h.step = "read"
    /\ h.last >= h.mark \/ sub.ended
    /\ h' = [h EXCEPT !.step = "handover"]
    /\ UNCHANGED <<rows, worker, deletion, sub, conn, p, hist>>

(* The lowest entry of the page is checked against the filter as it is now. *)
PageRow ==
    /\ h.step = "page"
    /\ h.page # {}
    /\ h' = IF Allows(sub, rows[Min(h.page)].dev)
            THEN [h EXCEPT !.step = "emit"]
            ELSE [h EXCEPT !.page = @ \ {Min(h.page)}]
    /\ UNCHANGED <<rows, worker, deletion, sub, conn, p, hist>>

EmitRow ==
    LET n == Min(h.page)
    IN /\ h.step = "emit"
       /\ Push(Frame("row", conn.made, n, rows[n].dev))
       /\ h' = [h EXCEPT !.step = "page", !.page = @ \ {n}]
       /\ hist' = [hist EXCEPT !.top = n]
       /\ UNCHANGED <<rows, worker, deletion, sub, p>>

PageEnd ==
    /\ h.step = "page"
    /\ h.page = {}
    /\ h' = IF h.horizon <= h.last
            THEN [h EXCEPT !.step = "handover"]
            ELSE [h EXCEPT !.step = "read", !.last = h.horizon]
    /\ UNCHANGED <<rows, worker, deletion, sub, conn, p, hist>>

(* Mutant: the handover discards one event too many. *)
HandoverPastMark ==
    /\ h.step = "handover"
    /\ sub' = EndReplay(sub, h.last + 1)
    /\ hist' = [hist EXCEPT !.gap = (h.last + 1) .. h.mark,
                            !.missed = @ \cup (sub'.dropped \ sub.dropped)]
    /\ h' = [h EXCEPT !.step = "end"]
    /\ UNCHANGED <<rows, worker, deletion, conn, p>>

(* Ending the replay, and (ReplayEnd) saying where it stopped: what lies
   between there and the watermark the client was promised is a gap it can
   see. *)
Handover ==
    /\ h.step = "handover"
    /\ sub' = EndReplay(sub, h.last)
    /\ hist' = [hist EXCEPT !.gap = (h.last + 1) .. h.mark,
                            !.missed = @ \cup (sub'.dropped \ sub.dropped)]
    /\ h' = [h EXCEPT !.step = "end"]
    /\ UNCHANGED <<rows, worker, deletion, conn, p>>

(* Mutant: the pump starts at its select, telling no lag first. *)
ReplayEndNoLag ==
    /\ h.step = "end"
    /\ Push(Frame("end", conn.made, h.last, NoDevice))
    /\ h' = Idle
    /\ p' = [NoPump EXCEPT !.step = "select"]
    /\ UNCHANGED <<rows, worker, deletion, sub, hist>>

ReplayEnd ==
    /\ h.step = "end"
    /\ Push(Frame("end", conn.made, h.last, NoDevice))
    /\ h' = Idle
    /\ p' = [NoPump EXCEPT !.step = "lag"]
    /\ UNCHANGED <<rows, worker, deletion, sub, hist>>

(* A push on a connection going away ends the handler; the teardown closes
   the subscription. *)
HandlerGone ==
    /\ h.step \in {"begin", "emit", "end"}
    /\ ~conn.live
    /\ h' = Idle
    /\ UNCHANGED <<rows, worker, deletion, sub, conn, p, hist>>

-----------------------------------------------------------------------------
(* The pump. *)

(* Where pushLag returns to: the loop, or the event just taken. *)
AfterLag == IF p.ev = NoEvent THEN "select" ELSE "deliver"

(* pushLag reads the mark in one critical section ... *)
PumpLag ==
    /\ p.step = "lag"
    /\ p' = IF sub.lagged
            THEN [p EXCEPT !.step = "clear", !.from = sub.laggedAt]
            ELSE [p EXCEPT !.step = AfterLag]
    /\ UNCHANGED <<rows, worker, deletion, sub, conn, h, hist>>

(* ... and clears it in another. *)
PumpClearLag ==
    /\ p.step = "clear"
    /\ sub' = ClearLag(sub)
    /\ p' = [p EXCEPT !.step = "tell"]
    /\ UNCHANGED <<rows, worker, deletion, conn, h, hist>>

PumpTellLag ==
    /\ p.step = "tell"
    /\ Push(Frame("lag", conn.made, p.from, NoDevice))
    /\ p' = [p EXCEPT !.step = AfterLag, !.from = 0]
    /\ hist' = [hist EXCEPT !.told = @ \cup hist.missed, !.missed = {}]
    /\ UNCHANGED <<rows, worker, deletion, sub, h>>

(* Mutant: a lag is told at the pump's start only. *)
PumpTakeLate ==
    /\ p.step = "select"
    /\ sub.queue # <<>>
    /\ p' = [p EXCEPT !.step = "deliver", !.ev = Head(sub.queue)]
    /\ sub' = [sub EXCEPT !.queue = Tail(@)]
    /\ UNCHANGED <<rows, worker, deletion, conn, h, hist>>

PumpTake ==
    /\ p.step = "select"
    /\ sub.queue # <<>>
    /\ p' = [p EXCEPT !.step = "lag", !.ev = Head(sub.queue)]
    /\ sub' = [sub EXCEPT !.queue = Tail(@)]
    /\ UNCHANGED <<rows, worker, deletion, conn, h, hist>>

(* The event is decided by the filter as it is now, then read back; what
   cannot be read back is logged and skipped. *)
PumpRefuse ==
    /\ p.step = "deliver"
    /\ ~Allows(sub, p.ev.dev)
    /\ p' = [p EXCEPT !.step = "select", !.ev = NoEvent]
    /\ UNCHANGED <<rows, worker, deletion, sub, conn, h, hist>>

PumpReadBack ==
    /\ p.step = "deliver"
    /\ Allows(sub, p.ev.dev)
    /\ p.ev.eph \/ (conn.live /\ p.ev.dev \in Visible)
    /\ p' = [p EXCEPT !.step = "push"]
    /\ UNCHANGED <<rows, worker, deletion, sub, conn, h, hist>>

PumpReadBackFails ==
    /\ p.step = "deliver"
    /\ Allows(sub, p.ev.dev)
    /\ ~p.ev.eph
    /\ p' = [p EXCEPT !.step = "select", !.ev = NoEvent]
    /\ hist' = [hist EXCEPT !.skipped = @ \cup {p.ev.seq}]
    /\ UNCHANGED <<rows, worker, deletion, sub, conn, h>>

PumpPush ==
    /\ p.step = "push"
    /\ Push(Frame(IF p.ev.eph THEN "eph" ELSE "row",
                  conn.made, p.ev.seq, p.ev.dev))
    /\ p' = [p EXCEPT !.step = "select", !.ev = NoEvent]
    /\ UNCHANGED <<rows, worker, deletion, sub, h, hist>>

(* The last number of the filter was deleted: the subscription is taken off
   the connection and closed, and its end is pushed behind its frames. *)
PumpEnded ==
    /\ p.step = "select"
    /\ sub.ended
    /\ p' = NoPump
    /\ sub' = Close(sub)
    /\ conn' = [conn EXCEPT !.sub = 0, !.ending = @ \cup {conn.made}]
    /\ UNCHANGED <<rows, worker, deletion, h, hist>>

PushEnded(id) ==
    /\ id \in conn.ending
    /\ IF conn.live
       THEN /\ Room
            /\ conn' = [conn EXCEPT
                          !.ending = @ \ {id},
                          !.stream = Append(@, Frame("ended", id, 0, NoDevice))]
       ELSE conn' = [conn EXCEPT !.ending = @ \ {id}]
    /\ UNCHANGED <<rows, worker, deletion, sub, h, p, hist>>

(* The context is done, or the events channel closed and drained. *)
PumpGone ==
    /\ p.step \in {"select", "tell", "push"}
    /\ ~conn.live
    /\ p' = NoPump
    /\ UNCHANGED <<rows, worker, deletion, sub, conn, h, hist>>

-----------------------------------------------------------------------------
(* The writer and the end of the connection. *)

(* carries: s.sub, and what it delivers now. *)
Carries(d) == conn.sub # 0 /\ Allows(sub, d)

(* The head of the stream leaves the queue, and reaches the client if it is
   still to be written. *)
WriteIf(written) ==
    LET f == Head(conn.stream)
    IN /\ conn.live
       /\ conn.stream # <<>>
       /\ conn' = [conn EXCEPT !.stream = Tail(@)]
       /\ hist' =
            IF ~written THEN hist
            ELSE [hist EXCEPT
                    !.got = IF f.kind = "row" /\ f.sub = conn.made
                            THEN @ \cup {f.seq} ELSE @,
                    !.leaked = IF f.dev # NoDevice
                                  /\ deletion[f.dev].step = "done"
                               THEN @ \cup {f.sub} ELSE @]
       /\ UNCHANGED <<rows, worker, deletion, sub, h, p>>

(* Mutant: the writer trusts what was checked when the frame was queued. *)
WriteUnchecked == WriteIf(TRUE)

(* writeLoop: a number's frame is dropped if the subscription has stopped
   carrying the number by the time it goes out.  The check and the socket
   write that follows it are one step: a frame that has passed its check
   counts as written. *)
Write == WriteIf(LET d == Head(conn.stream).dev
                 IN d = NoDevice \/ Carries(d))

(* The client leaves, stops reading past the write deadline, misses a ping,
   or loses its access.  Frames still queued are never written, and the
   observer's interest ends. *)
Disconnect ==
    /\ conn.live
    /\ conn' = [conn EXCEPT !.live = FALSE, !.stream = <<>>]
    /\ hist' = NoHistory(0)
    /\ UNCHANGED <<rows, worker, deletion, sub, h, p>>

(* run's deferred teardown, after the context is cancelled. *)
Teardown ==
    /\ ~conn.live /\ ~conn.torn
    /\ conn' = [conn EXCEPT !.torn = TRUE, !.sub = 0]
    /\ sub' = IF conn.sub # 0 THEN Close(sub) ELSE sub
    /\ UNCHANGED <<rows, worker, deletion, h, p, hist>>

-----------------------------------------------------------------------------
Ingest(w) ==
    \/ \E d \in Devices, c \in Classes \ {"none"} : Store(w, d, c)
    \/ \E d \in Devices : "none" \in Classes /\ StoreDuplicate(w, d)

Publishing(w) == Publish(w) \/ PublishOffer(w)

Deleting(d) == DropDevice(d) \/ DropDeviceFrom(d)

Handler ==
    \/ Register \/ RegisterConflict \/ Recheck \/ RecheckFails
    \/ ReadMark \/ ReadMarkFails
    \/ ReplayBegin \/ ReadPage \/ ReadPageFails \/ ReplayReached
    \/ PageRow \/ EmitRow \/ PageEnd
    \/ Handover \/ ReplayEnd \/ HandlerGone

Pump ==
    \/ PumpLag \/ PumpClearLag \/ PumpTellLag
    \/ PumpTake \/ PumpRefuse \/ PumpReadBack \/ PumpReadBackFails
    \/ PumpPush \/ PumpEnded \/ PumpGone

Next ==
    \/ \E w \in Workers : Ingest(w) \/ Publishing(w)
    \/ \E d \in Chatty : PublishEphemeral(d)
    \/ \E d \in Deletable : DeleteCommit(d)
    \/ \E d \in Devices : Deleting(d)
    \/ Grant \/ Handler \/ Pump
    \/ \E id \in 1 .. MaxSubs : PushEnded(id)
    \/ Write \/ Disconnect \/ Teardown

(* What has begun goes on: an ingest publishes what it committed, a deletion
   drops what it hid, a goroutine takes its next step, and the writer writes
   or the connection ends (its 15-second deadline).  Nothing says a client
   subscribes, a row arrives or a read succeeds. *)
Fairness ==
    /\ \A w \in Workers : WF_vars(Publishing(w))
    /\ \A d \in Devices : WF_vars(Deleting(d))
    /\ WF_vars(Handler) /\ WF_vars(Pump)
    /\ \A id \in 1 .. MaxSubs : WF_vars(PushEnded(id))
    /\ WF_vars(Write) /\ WF_vars(Teardown)

Spec == Init /\ [][Next]_vars

FairSpec == Spec /\ Fairness

-----------------------------------------------------------------------------
(* Properties. *)

Seqs(events) == {events[k].seq : k \in 1 .. Len(events)}

(* The subscription is one the server has not given up on. *)
Streaming == conn.live /\ Serving(sub) /\ ~hist.failed

(* The replay has yet to reach entry n. *)
ToReplay(n) ==
    \/ h.step \in {"begin", "read", "handover"} /\ n \in h.last + 1 .. h.mark
    \/ h.step \in {"page", "emit"}
       /\ (n \in h.page \/ n \in h.horizon + 1 .. h.mark)

(* The frame of entry n waits for the writer. *)
InStream(n) ==
    \E k \in 1 .. Len(conn.stream) :
        /\ conn.stream[k].kind = "row"
        /\ conn.stream[k].sub = conn.made
        /\ conn.stream[k].seq = n

(* Entry n is still on its way to the client by some path: an ingest has yet
   to offer it, the bus holds it, the pump has it, the replay will reach it,
   or its frame waits for the writer. *)
OnItsWay(n) ==
    \/ \E w \in Workers :
         /\ worker[w].seq = n
         /\ worker[w].step = "offering" => worker[w].sub = conn.made
    \/ n \in Seqs(sub.buffer) \cup Seqs(sub.queue) \cup {p.ev.seq}
    \/ h.step \in {"recheck", "mark"}
    \/ ToReplay(n)
    \/ InStream(n)

(* The client has entry n, or has been told by a lag notice or by where the
   replay ended that it may lack it, or the server logged that it could not
   read it back. *)
Settled(n) ==
    n \in hist.got \cup hist.told \cup hist.skipped \cup hist.gap

Wanted(n) ==
    /\ n \in hist.since + 1 .. Len(rows)
    /\ rows[n].cls # "none"
    /\ rows[n].dev \in sub.filter \cap Visible

(* No entry is lost in silence.  Whatever the interleaving of commits,
   publishes, the registration, the watermark, the pages and the handover,
   every entry past the client's cursor is with the client, told to it as
   missing, marked to be told, or still on its way (the replay race of the
   bus package: "nothing missing"). *)
NoSilentLoss ==
    Streaming =>
        \A n \in 1 .. Len(rows) :
            Wanted(n) => Settled(n) \/ n \in hist.missed \/ OnItsWay(n)

(* A drop is never stranded: while an entry is missed and untold, the pump
   is telling it, or the lag mark is set and something will bring the pump
   to look at it -- the pump's start, or an event still queued (pushLag runs
   only then). *)
MissedWillBeTold ==
    Streaming /\ hist.missed # {} =>
        \/ p.step \in {"clear", "tell"}
        \/ sub.lagged /\ (\/ sub.replaying \/ h.step = "end"
                          \/ p.step = "lag" \/ sub.queue # <<>>)

(* The lag mark names an entry of the archive that was really dropped: an
   ephemeral event never tells a client to refetch from zero. *)
LagNamesAnEntry ==
    sub.lagged => sub.laggedAt \in sub.dropped \cap 1 .. Len(rows)

(* No frame of a subscription carries a number whose deletion has finished,
   whenever the number was granted, replayed, buffered, queued or pumped. *)
NoDeletedFrame == conn.made \notin hist.leaked

(* The handover never overflows: the replay buffer is bounded by what the
   empty queue can take, so ending a replay drops nothing (bus.offer). *)
HandoverFits ==
    [][sub.replaying /\ ~sub'.replaying /\ conn'.made = conn.made
       => sub'.dropped = sub.dropped]_vars

(* The replay sends entries in sequence order, none past the watermark it
   announced. *)
ReplayInOrder ==
    [][hist'.top # hist.top /\ conn'.made = conn.made /\ conn'.live
       => hist'.top > hist.top /\ hist'.top <= h.mark]_vars

(* Every subscribe request comes to an end: refused, failed, abandoned with
   its connection, or handed to a pump. *)
SubscribeSettles == h.step # "idle" ~> h.step = "idle"

(* Every entry a serving subscription covers settles: received, told as
   missed, or logged as unreadable -- unless the subscription stops serving
   it first. *)
EveryEntrySettles ==
    \A n \in 1 .. MaxSeq :
        (Streaming /\ Wanted(n)) ~> (~Streaming \/ ~Wanted(n) \/ Settled(n))

(* A connection that is gone leaves no subscription registered, even one a
   handler registered after the teardown had run. *)
NothingLeaks == <>(conn.torn) => <>[](Registered = 0)


(* A subscribe request leads somewhere: it replays in order, it ends, with an
   answer or with its connection, and what it registered does not outlive the
   connection. *)
RequestsSettle == ReplayInOrder /\ SubscribeSettles /\ NothingLeaks
=============================================================================
