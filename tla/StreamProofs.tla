---------------------------- MODULE StreamProofs ----------------------------
(* The stream's safety properties, for any numbers of devices, workers and
   subscriptions and any queue depths. *)
EXTENDS StreamLemmas

(* An ingest that has something to publish publishes an entry it stored. *)
WorkersInArchive ==
    \A w \in Workers :
        worker[w].step # "idle" => worker[w].seq \in 1 .. Len(rows)

(* The page being sent is of the archive, and what is being emitted is in it. *)
PageInArchive ==
    /\ h.page \subseteq 1 .. Len(rows)
    /\ h.step = "emit" => h.page # {}

(* The inductive invariant: the types need the bus's bounds (Held) to bound
   the queue across a handover, the entries' numbers to name what is dropped
   (Names), and the two facts above to type what is published and sent. *)
Inv ==
    /\ TypeOK
    /\ Held(sub)
    /\ Names(sub, Len(rows))
    /\ WorkersInArchive
    /\ PageInArchive

(* A connection that never subscribed satisfies the invariant. *)
LEMMA InitInv == Init => Inv
<1> SUFFICES ASSUME Init PROVE Inv
  OBVIOUS
<1>1. Held(sub) /\ Names(sub, 0)
  <2>1. Held(NewSubscription({})) /\ Names(NewSubscription({}), 0)
    BY NewSubscriptionHeld
  <2> QED BY <2>1, CloseHeld DEF Init, ClosedSubscription, Close
<1>2. rows \in Seq(Entries) /\ Len(rows) = 0
  BY DEF Init
<1>3. worker \in [Workers -> WorkerStates] /\ WorkersInArchive
  BY DEF Init, WorkerStates, WorkersInArchive
<1>4. deletion \in [Devices -> DeletionStates]
  BY DEF Init, DeletionStates
<1>5. conn \in ConnStates /\ Len(conn.stream) <= StreamDepth
  BY StreamAssumption DEF Init, ConnStates
<1>6. h \in HandlerStates /\ PageInArchive
  BY DEF Init, Idle, HandlerStates, PageInArchive
<1>7. p \in PumpStates
  BY DEF Init, NoPump, PumpStates
<1>8. hist \in Histories
  BY DEF Init, NoHistory, Histories
<1> QED BY <1>1, <1>2, <1>3, <1>4, <1>5, <1>6, <1>7, <1>8 DEF Inv, TypeOK, Held

(* Frames of the right kinds are frames, and the stream takes no more than it
   has room for. *)
LEMMA PushTyped ==
  ASSUME NEW kind \in {"begin", "row", "eph", "end", "lag", "ended"},
         NEW id \in Nat, NEW n \in Nat, NEW d \in Devices \cup {NoDevice},
         conn \in ConnStates, Len(conn.stream) <= StreamDepth,
         Push(Frame(kind, id, n, d))
  PROVE  conn' \in ConnStates /\ Len(conn'.stream) <= StreamDepth
<1>1. Frame(kind, id, n, d) \in Frames
  BY DEF Frame, Frames
<1> DEFINE q == Append(conn.stream, Frame(kind, id, n, d))
<1>2. conn' = [conn EXCEPT !.stream = q] /\ Len(conn.stream) < StreamDepth
  BY DEF Push, Room
<1>3. q \in Seq(Frames) /\ Len(q) <= StreamDepth
  BY <1>1, <1>2, StreamAssumption DEF ConnStates
<1> HIDE DEF q
<1> QED BY <1>2, <1>3 DEF ConnStates

(* What a subscription drops as it changes is a set of numbers. *)
LEMMA BecomesTyped ==
  ASSUME NEW t, Held(t), Held(sub), hist \in Histories, Becomes(t)
  PROVE  sub' = t /\ hist' \in Histories
BY DEF Becomes, Held, Subscriptions, Histories

(* A commit adds one entry: everything named stays in the archive. *)
LEMMA AppendInv ==
  ASSUME Inv, NEW d \in Devices, NEW c \in {"msg", "ack", "none"},
         rows' = Append(rows, [cls |-> c, dev |-> d, ids |-> 1]),
         sub' = sub, h' = h
  PROVE  /\ rows' \in Seq(Entries) /\ Len(rows') = Len(rows) + 1
         /\ Len(rows) \in Nat
         /\ Names(sub', Len(rows')) /\ PageInArchive'
<1>1. rows \in Seq(Entries) /\ [cls |-> c, dev |-> d, ids |-> 1] \in Entries
  BY DEF Inv, TypeOK, Entries
<1>2. /\ rows' \in Seq(Entries) /\ Len(rows') = Len(rows) + 1
      /\ Len(rows) \in Nat
  BY <1>1
<1>3. 1 .. Len(rows) \subseteq 1 .. Len(rows')
  BY <1>2
<1>4. Names(sub', Len(rows'))
  BY <1>3 DEF Inv, Names
<1>5. PageInArchive'
  BY <1>3 DEF Inv, PageInArchive
<1> QED BY <1>2, <1>4, <1>5

(* The steps of ingest. *)
LEMMA IngestInv ==
  ASSUME Inv, NEW w \in Workers, Ingest(w) \/ Publishing(w)
  PROVE  Inv'
<1>0. /\ rows \in Seq(Entries) /\ Len(rows) \in Nat
      /\ worker \in [Workers -> WorkerStates]
  BY DEF Inv, TypeOK
<1>1. ASSUME NEW d \in Devices, NEW c \in Classes \ {"none"}, Store(w, d, c)
      PROVE  Inv'
  <2>1. c \in {"msg", "ack", "none"}
    BY StreamAssumption
  <2>2. /\ rows' \in Seq(Entries) /\ Len(rows') = Len(rows) + 1
        /\ Names(sub', Len(rows')) /\ PageInArchive'
    BY <2>1, <1>1, AppendInv DEF Store
  <2>3. worker' \in [Workers -> WorkerStates]
    BY <1>0, <1>1 DEF Store, WorkerStates
  <2>4. WorkersInArchive'
    BY <1>0, <1>1, <2>2 DEF Store, Inv, WorkersInArchive, WorkerStates
  <2> QED BY <2>2, <2>3, <2>4, <1>1 DEF Store, Inv, TypeOK
<1>2. ASSUME NEW d \in Devices, StoreDuplicate(w, d) PROVE Inv'
  <2>1. /\ rows' \in Seq(Entries) /\ Len(rows') = Len(rows) + 1
        /\ Names(sub', Len(rows')) /\ PageInArchive'
    BY <1>2, AppendInv DEF StoreDuplicate
  <2>2. WorkersInArchive'
    BY <1>0, <1>2, <2>1 DEF StoreDuplicate, Inv, WorkersInArchive, WorkerStates
  <2> QED BY <2>1, <2>2, <1>2 DEF StoreDuplicate, Inv, TypeOK
<1>3. CASE Publish(w)
  BY <1>3 DEF Publish, Inv, TypeOK, WorkerStates, WorkersInArchive,
    PageInArchive, ConnStates, Registered
<1>4. CASE PublishOffer(w)
  <2> DEFINE ev == [seq |-> worker[w].seq, dev |-> rows[worker[w].seq].dev,
                    eph |-> FALSE]
             t == IF worker[w].sub = conn.made THEN Offer(sub, ev) ELSE sub
  <2>1. worker[w].seq \in 1 .. Len(rows)
    BY <1>4 DEF PublishOffer, Inv, WorkersInArchive
  <2>2. rows[worker[w].seq] \in Entries
    BY <1>0, <2>1
  <2>3. ev \in Events /\ ev.seq \in 1 .. Len(rows)
    BY <1>0, <2>1, <2>2 DEF Events, Entries
  <2>4. Held(sub) /\ Names(sub, Len(rows))
    BY DEF Inv
  <2>5. Held(t) /\ Names(t, Len(rows))
    <3> HIDE DEF ev
    <3> QED BY <1>0, <2>3, <2>4, OfferHeld
  <2>6. Becomes(t)
    BY <1>4 DEF PublishOffer
  <2> HIDE DEF t
  <2>7. Held(sub') /\ Names(sub', Len(rows')) /\ hist' \in Histories
    BY <2>5, <2>6, <1>4, BecomesTyped DEF PublishOffer, Inv, TypeOK
  <2>8. worker' \in [Workers -> WorkerStates] /\ WorkersInArchive'
    BY <1>0, <1>4 DEF PublishOffer, WorkerStates, Inv, WorkersInArchive
  <2> QED BY <2>7, <2>8, <1>4 DEF PublishOffer, Inv, TypeOK, Held, PageInArchive
<1> QED BY <1>1, <1>2, <1>3, <1>4 DEF Ingest, Publishing

(* An ephemeral event and the deletion of a number. *)
LEMMA DeletionInv ==
  ASSUME Inv, NEW d \in Devices,
         PublishEphemeral(d) \/ DeleteCommit(d) \/ Deleting(d)
  PROVE  Inv'
<1>0. /\ Len(rows) \in Nat /\ Held(sub) /\ Names(sub, Len(rows))
      /\ deletion \in [Devices -> DeletionStates] /\ hist \in Histories
  BY DEF Inv, TypeOK
<1>1. CASE PublishEphemeral(d)
  <2> DEFINE ev == [seq |-> 0, dev |-> d, eph |-> TRUE]
  <2>1. ev \in Events /\ ev.eph
    BY DEF Events
  <2>2. Becomes(Offer(sub, ev))
    BY <1>1 DEF PublishEphemeral
  <2> HIDE DEF ev
  <2>3. Held(Offer(sub, ev)) /\ Names(Offer(sub, ev), Len(rows))
    BY <1>0, <2>1, OfferHeld
  <2>4. Held(sub') /\ Names(sub', Len(rows)) /\ hist' \in Histories
    BY <1>0, <2>2, <2>3, BecomesTyped
  <2> QED BY <2>4, <1>1
    DEF PublishEphemeral, Inv, TypeOK, Held, WorkersInArchive, PageInArchive
<1>2. CASE DeleteCommit(d)
  BY <1>0, <1>2 DEF DeleteCommit, Inv, TypeOK, DeletionStates,
    WorkersInArchive, PageInArchive
<1>3. CASE DropDevice(d)
  BY <1>0, <1>3 DEF DropDevice, Inv, TypeOK, DeletionStates, Registered,
    ConnStates, WorkersInArchive, PageInArchive
<1>4. CASE DropDeviceFrom(d)
  <2> DEFINE t == IF deletion[d].sub = conn.made THEN Drop(sub, d) ELSE sub
  <2>1. Held(t) /\ Names(t, Len(rows))
    BY <1>0, DropHeld
  <2>2. Becomes(t)
    BY <1>4 DEF DropDeviceFrom
  <2> HIDE DEF t
  <2>3. Held(sub') /\ Names(sub', Len(rows)) /\ hist' \in Histories
    BY <1>0, <2>1, <2>2, BecomesTyped
  <2>4. deletion' \in [Devices -> DeletionStates]
    BY <1>0, <1>4 DEF DropDeviceFrom, DeletionStates
  <2> QED BY <2>3, <2>4, <1>4
    DEF DropDeviceFrom, Inv, TypeOK, Held, WorkersInArchive, PageInArchive
<1> QED BY <1>1, <1>2, <1>3, <1>4 DEF Deleting

(* The subscribe handler up to the watermark. *)
LEMMA RegistrationInv ==
  ASSUME Inv,
         \/ Grant \/ Register \/ RegisterConflict \/ Recheck \/ RecheckFails
         \/ ReadMark \/ ReadMarkFails
  PROVE  Inv'
<1>0. /\ rows \in Seq(Entries) /\ Len(rows) \in Nat
      /\ Held(sub) /\ Names(sub, Len(rows))
      /\ h \in HandlerStates /\ conn \in ConnStates /\ hist \in Histories
      /\ PageInArchive
  BY DEF Inv, TypeOK
<1>1. Idle \in HandlerStates /\ Idle.page = {} /\ Idle.step = "idle"
  BY DEF Idle, HandlerStates
<1>2. \A n \in Nat : NoHistory(n) \in Histories
  BY DEF NoHistory, Histories
<1>3. CASE Grant
  <2>1. PICK asked \in SUBSET Visible, since \in 0 .. Len(rows),
             live \in BOOLEAN :
          h' = [Idle EXCEPT !.step = "granted", !.asked = asked,
                            !.since = since, !.live = live]
    BY <1>3 DEF Grant
  <2>2. asked \in SUBSET Devices
    BY DEF Visible
  <2>3. since \in Nat
    BY <1>0
  <2>4. h' \in HandlerStates /\ h'.page = {} /\ h'.step = "granted"
    BY <1>1, <2>1, <2>2, <2>3 DEF HandlerStates
  <2> QED BY <2>4, <1>3
    DEF Grant, Inv, TypeOK, WorkersInArchive, PageInArchive
<1>4. CASE Register
  <2>1. Held(sub') /\ Names(sub', Len(rows))
    BY <1>0, <1>4, NewSubscriptionHeld DEF Register, HandlerStates
  <2>2. conn' \in ConnStates /\ conn'.stream = conn.stream
    <3>1. conn.made \in Nat /\ conn.made + 1 \in Nat
      BY <1>0 DEF ConnStates
    <3> DEFINE next == conn.made + 1
    <3>2. conn' = [conn EXCEPT !.made = next, !.sub = next]
      BY <1>4 DEF Register
    <3> HIDE DEF next
    <3> QED BY <1>0, <3>1, <3>2 DEF ConnStates, next
  <2>3. h' \in HandlerStates /\ h'.page = h.page /\ h'.step = "recheck"
    BY <1>0, <1>4 DEF Register, HandlerStates
  <2>4. hist' \in Histories
    BY <1>0, <1>2, <1>4 DEF Register, HandlerStates
  <2>5. p' \in PumpStates
    BY <1>4 DEF Register, NoPump, PumpStates
  <2> QED BY <2>1, <2>2, <2>3, <2>4, <2>5, <1>4
    DEF Register, Inv, TypeOK, Held, WorkersInArchive, PageInArchive
<1>5. CASE RegisterConflict
  BY <1>1, <1>5
  DEF RegisterConflict, Inv, TypeOK, WorkersInArchive, PageInArchive
<1>6. CASE Recheck
  <2> DEFINE t == DropAll(sub, h.asked \ Visible)
  <2>1. Held(t) /\ Names(t, Len(rows))
    BY <1>0, DropAllHeld
  <2>2. Becomes(t)
    BY <1>6 DEF Recheck
  <2> HIDE DEF t
  <2>3. Held(sub') /\ Names(sub', Len(rows)) /\ hist' \in Histories
    BY <1>0, <2>1, <2>2, BecomesTyped
  <2>4. h' \in HandlerStates /\ h'.page = h.page /\ h'.step = "mark"
    BY <1>0, <1>6 DEF Recheck, HandlerStates
  <2> QED BY <2>3, <2>4, <1>6
    DEF Recheck, Inv, TypeOK, Held, WorkersInArchive, PageInArchive
<1>7. CASE RecheckFails
  <2>1. Held(sub') /\ Names(sub', Len(rows))
    BY <1>0, <1>7, CloseHeld DEF RecheckFails
  <2>2. conn' \in ConnStates /\ conn'.stream = conn.stream
    BY <1>0, <1>7 DEF RecheckFails, ConnStates
  <2> QED BY <2>1, <2>2, <1>1, <1>7
    DEF RecheckFails, Inv, TypeOK, Held, WorkersInArchive, PageInArchive
<1>8. CASE ReadMark
  <2>1. CASE h.live
    <3>1. sub' = EndReplay(sub, Len(rows))
      BY <2>1, <1>8 DEF ReadMark
    <3>2. /\ Held(sub') /\ Names(sub', Len(rows))
          /\ sub'.dropped = sub.dropped
      BY <3>1, <1>0, EndReplayHeld
    <3>3. hist' = [hist EXCEPT !.since = Len(rows),
                               !.missed = @ \cup (sub'.dropped \ sub.dropped)]
      BY <2>1, <1>8 DEF ReadMark
    <3>4. hist' \in Histories
      BY <1>0, <3>2, <3>3 DEF Histories
    <3>5. h' \in HandlerStates /\ h'.page = h.page /\ h'.step = "end"
      BY <2>1, <1>0, <1>8 DEF ReadMark, HandlerStates
    <3> QED BY <3>2, <3>4, <3>5, <1>8
      DEF ReadMark, Inv, TypeOK, Held, WorkersInArchive, PageInArchive
  <2>2. CASE ~h.live
    <3>1. h' \in HandlerStates /\ h'.page = h.page /\ h'.step = "begin"
      BY <2>2, <1>0, <1>8 DEF ReadMark, HandlerStates
    <3> QED BY <3>1, <2>2, <1>8
      DEF ReadMark, Inv, TypeOK, WorkersInArchive, PageInArchive
  <2> QED BY <2>1, <2>2
<1>9. CASE ReadMarkFails
  <2>1. /\ Held(sub') /\ Names(sub', Len(rows))
        /\ sub'.dropped = sub.dropped
    BY <1>0, <1>9, EndReplayHeld DEF ReadMarkFails
  <2>2. hist' \in Histories
    BY <1>0, <1>9, <2>1 DEF ReadMarkFails, Histories
  <2> QED BY <2>1, <2>2, <1>1, <1>9
    DEF ReadMarkFails, Inv, TypeOK, Held, WorkersInArchive, PageInArchive
<1> QED BY <1>3, <1>4, <1>5, <1>6, <1>7, <1>8, <1>9

(* The subscribe handler from the first page to the pump's start. *)
LEMMA ReplayInv ==
  ASSUME Inv,
         \/ ReplayBegin \/ ReadPage \/ ReadPageFails \/ ReplayReached
         \/ PageRow \/ EmitRow \/ PageEnd \/ Handover \/ ReplayEnd
         \/ HandlerGone
  PROVE  Inv'
<1>0. /\ rows \in Seq(Entries) /\ Len(rows) \in Nat
      /\ Held(sub) /\ Names(sub, Len(rows))
      /\ h \in HandlerStates /\ conn \in ConnStates /\ hist \in Histories
      /\ PageInArchive /\ conn.made \in Nat
      /\ Len(conn.stream) <= StreamDepth
  BY DEF Inv, TypeOK, ConnStates
<1>1. Idle \in HandlerStates /\ Idle.page = {} /\ Idle.step = "idle"
  BY DEF Idle, HandlerStates
<1>2. CASE ReplayBegin
  <2>1. conn' \in ConnStates /\ Len(conn'.stream) <= StreamDepth
    BY <1>0, <1>2, PushTyped DEF ReplayBegin, HandlerStates
  <2>2. h' \in HandlerStates /\ h'.page = h.page /\ h'.step = "read"
    BY <1>0, <1>2 DEF ReplayBegin, HandlerStates
  <2> QED BY <2>1, <2>2, <1>2
    DEF ReplayBegin, Inv, TypeOK, WorkersInArchive, PageInArchive
<1>3. CASE ReadPage
  <2> DEFINE msgs == MessagesSince(rows, h.last, Visible)
             acks == ReceiptsSince(rows, h.last, Visible)
             top  == Horizon(h.mark, msgs, acks)
             page == {n \in msgs \cup acks.batches : n <= top}
  <2>1. h.last \in Nat /\ h.mark \in Nat
    BY <1>0 DEF HandlerStates
  <2>2. msgs \subseteq 1 .. Len(rows) /\ acks.batches \subseteq 1 .. Len(rows)
    BY <1>0, <2>1, PagesInArchive
  <2>3. h' = IF msgs = {} /\ acks.batches = {}
             THEN [h EXCEPT !.step = "handover"]
             ELSE [h EXCEPT !.step = "page", !.horizon = top, !.page = page]
    BY <1>3 DEF ReadPage
  <2> HIDE DEF msgs, acks
  <2>4. top \in Nat
    BY <1>0, <2>1, <2>2, HorizonBounded
  <2> HIDE DEF top
  <2>5. page \subseteq 1 .. Len(rows) /\ page \in SUBSET Nat
    <3>1. page \subseteq 1 .. Len(rows)
      BY <2>2
    <3>2. 1 .. Len(rows) \subseteq Nat
      BY <1>0
    <3> QED BY <3>1, <3>2
  <2> HIDE DEF page
  <2>6. h' \in HandlerStates /\ h'.step # "emit"
        /\ h'.page \subseteq 1 .. Len(rows)
    BY <1>0, <2>3, <2>4, <2>5 DEF HandlerStates, PageInArchive
  <2> QED BY <2>6, <1>3
    DEF ReadPage, Inv, TypeOK, WorkersInArchive, PageInArchive
<1>4. CASE ReadPageFails \/ ReplayReached
  <2>1. h' \in HandlerStates /\ h'.page = h.page /\ h'.step = "handover"
    BY <1>0, <1>4 DEF ReadPageFails, ReplayReached, HandlerStates
  <2> QED BY <2>1, <1>4 DEF ReadPageFails, ReplayReached, Inv, TypeOK,
    WorkersInArchive, PageInArchive
<1>5. CASE PageRow
  <2>1. h' \in HandlerStates /\ h'.page \subseteq h.page
        /\ (h'.step = "emit" => h'.page # {})
    BY <1>0, <1>5 DEF PageRow, HandlerStates
  <2> QED BY <2>1, <1>5
    DEF PageRow, Inv, TypeOK, WorkersInArchive, PageInArchive
<1>6. CASE EmitRow
  <2> DEFINE n == Min(h.page)
  <2>1. h.page \subseteq Nat /\ h.page # {} /\ h.page \subseteq 1 .. Len(rows)
    BY <1>0, <1>6 DEF EmitRow, PageInArchive
  <2>2. n \in Nat /\ n \in 1 .. Len(rows)
    BY <2>1, MinExists
  <2>3. rows[n].dev \in Devices
    <3>1. rows[n] \in Entries
      BY <1>0, <2>2
    <3> QED BY <3>1 DEF Entries
  <2>4. /\ Push(Frame("row", conn.made, n, rows[n].dev))
        /\ h' = [h EXCEPT !.step = "page", !.page = @ \ {n}]
        /\ hist' = [hist EXCEPT !.top = n]
    BY <1>6 DEF EmitRow
  <2> HIDE DEF n
  <2>5. conn' \in ConnStates /\ Len(conn'.stream) <= StreamDepth
    BY <1>0, <2>2, <2>3, <2>4, PushTyped
  <2>6. h' \in HandlerStates /\ h'.page \subseteq h.page /\ h'.step = "page"
    BY <1>0, <2>4 DEF HandlerStates
  <2>7. hist' \in Histories
    BY <1>0, <2>2, <2>4 DEF Histories
  <2> QED BY <2>5, <2>6, <2>7, <1>6
    DEF EmitRow, Inv, TypeOK, WorkersInArchive, PageInArchive
<1>7. CASE PageEnd
  <2>1. h' \in HandlerStates /\ h'.page = h.page /\ h'.step # "emit"
    BY <1>0, <1>7 DEF PageEnd, HandlerStates
  <2> QED BY <2>1, <1>7
    DEF PageEnd, Inv, TypeOK, WorkersInArchive, PageInArchive
<1>8. CASE Handover
  <2>1. /\ Held(sub') /\ Names(sub', Len(rows))
        /\ sub'.dropped = sub.dropped
    BY <1>0, <1>8, EndReplayHeld DEF Handover
  <2>2. (h.last + 1) .. h.mark \subseteq Nat
    BY <1>0 DEF HandlerStates
  <2>3. hist' \in Histories
    BY <1>0, <1>8, <2>1, <2>2 DEF Handover, Histories
  <2>4. h' \in HandlerStates /\ h'.page = h.page /\ h'.step = "end"
    BY <1>0, <1>8 DEF Handover, HandlerStates
  <2> QED BY <2>1, <2>3, <2>4, <1>8
    DEF Handover, Inv, TypeOK, Held, WorkersInArchive, PageInArchive
<1>9. CASE ReplayEnd
  <2>1. conn' \in ConnStates /\ Len(conn'.stream) <= StreamDepth
    BY <1>0, <1>9, PushTyped DEF ReplayEnd, HandlerStates
  <2>2. p' \in PumpStates
    BY <1>9 DEF ReplayEnd, NoPump, PumpStates
  <2> QED BY <2>1, <2>2, <1>1, <1>9
    DEF ReplayEnd, Inv, TypeOK, WorkersInArchive, PageInArchive
<1>10. CASE HandlerGone
  BY <1>1, <1>10
  DEF HandlerGone, Inv, TypeOK, WorkersInArchive, PageInArchive
<1> QED BY <1>2, <1>3, <1>4, <1>5, <1>6, <1>7, <1>8, <1>9, <1>10

(* The pump. *)
LEMMA PumpInv ==
  ASSUME Inv, Pump
  PROVE  Inv'
<1>0. /\ rows \in Seq(Entries) /\ Len(rows) \in Nat
      /\ Held(sub) /\ Names(sub, Len(rows))
      /\ p \in PumpStates /\ conn \in ConnStates /\ hist \in Histories
      /\ conn.made \in Nat /\ Len(conn.stream) <= StreamDepth
  BY DEF Inv, TypeOK, ConnStates
<1>1. NoPump \in PumpStates
  BY DEF NoPump, PumpStates
<1>2. AfterLag \in {"select", "deliver"}
  BY DEF AfterLag
<1>3. p.ev.seq \in Nat /\ p.ev.dev \in Devices \cup {NoDevice}
  <2>1. p.ev \in Events \cup {NoEvent}
    BY <1>0 DEF PumpStates
  <2>2. CASE p.ev \in Events
    BY <2>2 DEF Events
  <2>3. CASE p.ev = NoEvent
    BY <2>3 DEF NoEvent
  <2> QED BY <2>1, <2>2, <2>3
<1>4. CASE PumpLag
  <2>1. sub.laggedAt \in Nat
    BY <1>0 DEF Held, Subscriptions
  <2>2. p' \in PumpStates
    BY <1>0, <1>2, <1>4, <2>1 DEF PumpLag, PumpStates
  <2> QED BY <2>2, <1>4
    DEF PumpLag, Inv, TypeOK, WorkersInArchive, PageInArchive
<1>5. CASE PumpClearLag
  <2>1. Held(sub') /\ Names(sub', Len(rows))
    BY <1>0, <1>5, ClearLagHeld DEF PumpClearLag
  <2>2. p' \in PumpStates
    BY <1>0, <1>5 DEF PumpClearLag, PumpStates
  <2> QED BY <2>1, <2>2, <1>5
    DEF PumpClearLag, Inv, TypeOK, Held, WorkersInArchive, PageInArchive
<1>6. CASE PumpTellLag
  <2>1. p.from \in Nat
    BY <1>0 DEF PumpStates
  <2>2. conn' \in ConnStates /\ Len(conn'.stream) <= StreamDepth
    BY <1>0, <1>6, <2>1, PushTyped DEF PumpTellLag
  <2>3. p' \in PumpStates
    BY <1>0, <1>2, <1>6 DEF PumpTellLag, PumpStates
  <2>4. hist' \in Histories
    BY <1>0, <1>6 DEF PumpTellLag, Histories
  <2> QED BY <2>2, <2>3, <2>4, <1>6
    DEF PumpTellLag, Inv, TypeOK, WorkersInArchive, PageInArchive
<1>7. CASE PumpTake
  <2>1. Head(sub.queue) \in Events /\ Held(sub') /\ Names(sub', Len(rows))
    BY <1>0, <1>7, TakeHeld DEF PumpTake
  <2>2. p' \in PumpStates
    BY <1>0, <1>7, <2>1 DEF PumpTake, PumpStates
  <2> QED BY <2>1, <2>2, <1>7
    DEF PumpTake, Inv, TypeOK, Held, WorkersInArchive, PageInArchive
<1>8. CASE PumpRefuse \/ PumpReadBack
  <2>1. p' \in PumpStates
    BY <1>0, <1>8 DEF PumpRefuse, PumpReadBack, PumpStates
  <2> QED BY <2>1, <1>8 DEF PumpRefuse, PumpReadBack, Inv, TypeOK,
    WorkersInArchive, PageInArchive
<1>9. CASE PumpReadBackFails
  <2>1. p' \in PumpStates
    BY <1>0, <1>9 DEF PumpReadBackFails, PumpStates
  <2>2. hist' \in Histories
    BY <1>0, <1>3, <1>9 DEF PumpReadBackFails, Histories
  <2> QED BY <2>1, <2>2, <1>9
    DEF PumpReadBackFails, Inv, TypeOK, WorkersInArchive, PageInArchive
<1>10. CASE PumpPush
  <2> DEFINE kind == IF p.ev.eph THEN "eph" ELSE "row"
  <2>1. kind \in {"begin", "row", "eph", "end", "lag", "ended"}
    OBVIOUS
  <2>2. Push(Frame(kind, conn.made, p.ev.seq, p.ev.dev))
    BY <1>10 DEF PumpPush
  <2> HIDE DEF kind
  <2>3. conn' \in ConnStates /\ Len(conn'.stream) <= StreamDepth
    BY <1>0, <1>3, <2>1, <2>2, PushTyped
  <2>4. p' \in PumpStates
    BY <1>0, <1>10 DEF PumpPush, PumpStates
  <2> QED BY <2>3, <2>4, <1>10
    DEF PumpPush, Inv, TypeOK, WorkersInArchive, PageInArchive
<1>11. CASE PumpEnded
  <2>1. Held(sub') /\ Names(sub', Len(rows))
    BY <1>0, <1>11, CloseHeld DEF PumpEnded
  <2>2. conn' \in ConnStates /\ conn'.stream = conn.stream
    BY <1>0, <1>11 DEF PumpEnded, ConnStates
  <2> QED BY <2>1, <2>2, <1>1, <1>11
    DEF PumpEnded, Inv, TypeOK, Held, WorkersInArchive, PageInArchive
<1>12. CASE PumpGone
  BY <1>1, <1>12
  DEF PumpGone, Inv, TypeOK, WorkersInArchive, PageInArchive
<1> QED BY <1>4, <1>5, <1>6, <1>7, <1>8, <1>9, <1>10, <1>11, <1>12 DEF Pump

(* The writer and the end of the connection. *)
LEMMA ConnectionInv ==
  ASSUME Inv,
         (\E id \in 1 .. MaxSubs : PushEnded(id)) \/ Write \/ Disconnect \/ Teardown
  PROVE  Inv'
<1>0. /\ Len(rows) \in Nat /\ Held(sub) /\ Names(sub, Len(rows))
      /\ conn \in ConnStates /\ hist \in Histories
      /\ conn.stream \in Seq(Frames) /\ Len(conn.stream) <= StreamDepth
      /\ StreamDepth \in Nat /\ NoDevice \notin Devices
  BY StreamAssumption DEF Inv, TypeOK, ConnStates
<1>1. ASSUME NEW id \in 1 .. MaxSubs, PushEnded(id) PROVE Inv'
  <2> DEFINE f == Frame("ended", id, 0, NoDevice)
             q == Append(conn.stream, f)
  <2>1. f \in Frames
    BY <1>0 DEF Frame, Frames
  <2> HIDE DEF f
  <2>2. q \in Seq(Frames) /\ (Room => Len(q) <= StreamDepth)
    BY <1>0, <2>1 DEF Room
  <2>3. \/ conn' = [conn EXCEPT !.ending = @ \ {id}]
        \/ Room /\ conn' = [conn EXCEPT !.ending = @ \ {id}, !.stream = q]
    BY <1>1 DEF PushEnded, f
  <2> HIDE DEF q
  <2>4. conn' \in ConnStates /\ Len(conn'.stream) <= StreamDepth
    BY <1>0, <2>2, <2>3 DEF ConnStates
  <2> QED BY <2>4, <1>1
    DEF PushEnded, Inv, TypeOK, WorkersInArchive, PageInArchive
<1>2. CASE Write
  <2> DEFINE f == Head(conn.stream)
             q == Tail(conn.stream)
  <2>1. PICK written \in BOOLEAN :
          /\ conn.stream # <<>>
          /\ conn' = [conn EXCEPT !.stream = q]
          /\ hist' =
               IF ~written THEN hist
               ELSE [hist EXCEPT
                       !.got = IF f.kind = "row" /\ f.sub = conn.made
                               THEN @ \cup {f.seq} ELSE @,
                       !.leaked = IF f.dev # NoDevice
                                     /\ deletion[f.dev].step = "done"
                                  THEN @ \cup {f.sub} ELSE @]
    BY <1>2 DEF Write, WriteIf
  <2>2. f \in Frames /\ q \in Seq(Frames) /\ Len(q) <= StreamDepth
    BY <1>0, <2>1
  <2>3. f.seq \in Nat /\ f.sub \in Nat
    BY <2>2 DEF Frames
  <2> HIDE DEF f, q
  <2>4. conn' \in ConnStates /\ Len(conn'.stream) <= StreamDepth
    BY <1>0, <2>1, <2>2 DEF ConnStates
  <2>5. hist' \in Histories
    BY <1>0, <2>1, <2>3 DEF Histories
  <2> QED BY <2>4, <2>5, <1>2
    DEF Write, WriteIf, Inv, TypeOK, WorkersInArchive, PageInArchive
<1>3. CASE Disconnect
  <2>1. conn' \in ConnStates /\ Len(conn'.stream) <= StreamDepth
    <3> DEFINE e == <<>>
    <3>1. e \in Seq(Frames) /\ Len(e) <= StreamDepth
      BY <1>0
    <3>2. conn' = [conn EXCEPT !.live = FALSE, !.stream = e]
      BY <1>3 DEF Disconnect
    <3> HIDE DEF e
    <3> QED BY <1>0, <3>1, <3>2 DEF ConnStates
  <2>2. hist' \in Histories
    BY <1>3 DEF Disconnect, NoHistory, Histories
  <2> QED BY <2>1, <2>2, <1>3
    DEF Disconnect, Inv, TypeOK, WorkersInArchive, PageInArchive
<1>4. CASE Teardown
  <2>1. Held(sub') /\ Names(sub', Len(rows))
    BY <1>0, <1>4, CloseHeld DEF Teardown
  <2>2. conn' \in ConnStates /\ conn'.stream = conn.stream
    BY <1>0, <1>4 DEF Teardown, ConnStates
  <2> QED BY <2>1, <2>2, <1>4
    DEF Teardown, Inv, TypeOK, Held, WorkersInArchive, PageInArchive
<1> QED BY <1>1, <1>2, <1>3, <1>4

(* Every step keeps the inductive invariant. *)
LEMMA NextInv == Inv /\ [Next]_vars => Inv'
<1> SUFFICES ASSUME Inv, [Next]_vars PROVE Inv'
  OBVIOUS
<1>1. CASE UNCHANGED vars
  BY <1>1 DEF vars, Inv, TypeOK, WorkersInArchive, PageInArchive, Held, Names
<1>2. ASSUME NEW w \in Workers, Ingest(w) \/ Publishing(w) PROVE Inv'
  BY <1>2, IngestInv
<1>3. ASSUME NEW d \in Chatty, PublishEphemeral(d) PROVE Inv'
  BY <1>3, DeletionInv, StreamAssumption
<1>4. ASSUME NEW d \in Deletable, DeleteCommit(d) PROVE Inv'
  BY <1>4, DeletionInv, StreamAssumption
<1>5. ASSUME NEW d \in Devices, Deleting(d) PROVE Inv'
  BY <1>5, DeletionInv
<1>6. CASE Grant \/ Handler
  BY <1>6, RegistrationInv, ReplayInv DEF Handler
<1>7. CASE Pump
  BY <1>7, PumpInv
<1>8. CASE (\E id \in 1 .. MaxSubs : PushEnded(id)) \/ Write \/ Disconnect
           \/ Teardown
  BY <1>8, ConnectionInv
<1> QED BY <1>1, <1>2, <1>3, <1>4, <1>5, <1>6, <1>7, <1>8 DEF Next

(* The inductive invariant holds throughout. *)
THEOREM StreamInvariant == Spec => []Inv
<1>1. Init => Inv
  BY InitInv
<1>2. Inv /\ [Next]_vars => Inv'
  BY NextInv
<1> QED BY <1>1, <1>2, PTL DEF Spec

(* Every variable keeps its type, and neither the bus's queue nor the
   connection's stream ever holds more than its bound, whatever the number
   of publishers and deletions (bus.deliverLocked, EndReplay, pushOf). *)
THEOREM TypeCorrect == Spec => []TypeOK
<1>1. Inv => TypeOK
  BY DEF Inv
<1> QED BY <1>1, StreamInvariant, PTL

(* The lag mark names an entry of the archive that was really dropped
   (bus.dropLocked). *)
THEOREM LagIsReal == Spec => []LagNamesAnEntry
<1>1. Inv => LagNamesAnEntry
  BY DEF Inv, Names, LagNamesAnEntry
<1> QED BY <1>1, StreamInvariant, PTL

-----------------------------------------------------------------------------
(* What the steps that go through the bus do to the subscription. *)
LEMMA BusSteps ==
  ASSUME Inv,
         \/ \E w \in Workers : PublishOffer(w)
         \/ \E d \in Devices : PublishEphemeral(d) \/ DropDeviceFrom(d)
         \/ Recheck
  PROVE  \E t : KeepsTelling(sub, t) /\ Becomes(t)
<1>0. /\ rows \in Seq(Entries) /\ Len(rows) \in Nat
      /\ worker \in [Workers -> WorkerStates]
      /\ Held(sub) /\ Names(sub, Len(rows)) /\ KeepsTelling(sub, sub)
  BY DEF Inv, TypeOK, KeepsTelling
<1>1. ASSUME NEW w \in Workers, PublishOffer(w)
      PROVE  \E t : KeepsTelling(sub, t) /\ Becomes(t)
  <2> DEFINE ev == [seq |-> worker[w].seq, dev |-> rows[worker[w].seq].dev,
                    eph |-> FALSE]
             t == IF worker[w].sub = conn.made THEN Offer(sub, ev) ELSE sub
  <2>1. worker[w].seq \in 1 .. Len(rows)
    BY <1>1 DEF PublishOffer, Inv, WorkersInArchive
  <2>2. rows[worker[w].seq] \in Entries
    BY <1>0, <2>1
  <2>3. ev \in Events /\ ev.seq \in 1 .. Len(rows)
    BY <1>0, <2>1, <2>2 DEF Events, Entries
  <2>4. KeepsTelling(sub, t)
    <3> HIDE DEF ev
    <3> QED BY <1>0, <2>3, OfferHeld
  <2>5. Becomes(t)
    BY <1>1 DEF PublishOffer
  <2> HIDE DEF t
  <2> QED BY <2>4, <2>5
<1>2. ASSUME NEW d \in Devices, PublishEphemeral(d)
      PROVE  \E t : KeepsTelling(sub, t) /\ Becomes(t)
  <2> DEFINE ev == [seq |-> 0, dev |-> d, eph |-> TRUE]
  <2>1. ev \in Events /\ ev.eph
    BY DEF Events
  <2>2. Becomes(Offer(sub, ev))
    BY <1>2 DEF PublishEphemeral
  <2> HIDE DEF ev
  <2> QED BY <1>0, <2>1, <2>2, OfferHeld
<1>3. ASSUME NEW d \in Devices, DropDeviceFrom(d)
      PROVE  \E t : KeepsTelling(sub, t) /\ Becomes(t)
  <2>1. KeepsTelling(sub, Drop(sub, d))
    BY <1>0, DropHeld
  <2> QED BY <1>0, <1>3, <2>1 DEF DropDeviceFrom
<1>4. CASE Recheck
  <2>1. KeepsTelling(sub, DropAll(sub, h.asked \ Visible))
    BY <1>0, DropAllHeld
  <2> QED BY <1>4, <2>1 DEF Recheck
<1> QED BY <1>1, <1>2, <1>3, <1>4

(* A handover, whatever it follows, drops nothing. *)
LEMMA HandoverSteps ==
  ASSUME Inv, NEW through, sub' = EndReplay(sub, through)
  PROVE  sub'.dropped = sub.dropped /\ sub'.lagged = sub.lagged
<1>1. Held(sub) /\ Names(sub, Len(rows)) /\ Len(rows) \in Nat
  BY DEF Inv, TypeOK
<1> QED BY <1>1, EndReplayHeld

(* Ending a replay drops nothing, for any depth of the queue: the buffer is
   bounded by what the queue, empty until then, can take (bus.offer,
   EndReplay). *)
THEOREM HandoverLosesNothing == Spec => HandoverFits
<1> DEFINE Fits == sub.replaying /\ ~sub'.replaying /\ conn'.made = conn.made
                   => sub'.dropped = sub.dropped
<1>1. ASSUME Inv, [Next]_vars PROVE Fits
  <2>0. sub \in Subscriptions /\ conn.made \in Nat
    BY <1>1 DEF Inv, TypeOK, ConnStates
  <2>1. CASE sub' = sub
    BY <2>1
  <2>2. ASSUME NEW t, KeepsTelling(sub, t), Becomes(t) PROVE Fits
    BY <2>2 DEF KeepsTelling, Becomes
  <2>3. ASSUME NEW through, sub' = EndReplay(sub, through) PROVE Fits
    BY <1>1, <2>3, HandoverSteps
  <2>4. CASE sub' = Close(sub)
    BY <2>0, <2>4 DEF Close, Subscriptions
  <2>5. CASE Register
    <3>1. conn'.made = conn.made + 1
      BY <1>1, <2>5 DEF Register, Inv, TypeOK, ConnStates
    <3> QED BY <2>0, <3>1
  <2>6. CASE PumpClearLag
    BY <2>0, <2>6 DEF PumpClearLag, ClearLag, Subscriptions
  <2>7. CASE PumpTake
    BY <2>0, <2>7 DEF PumpTake, Subscriptions
  <2>8. ASSUME NEW w \in Workers, Ingest(w) \/ Publish(w) PROVE sub' = sub
    BY <2>8 DEF Ingest, Store, StoreDuplicate, Publish
  <2>9. ASSUME NEW d \in Devices, DeleteCommit(d) \/ DropDevice(d)
        PROVE  sub' = sub
    BY <2>9 DEF DeleteCommit, DropDevice
  <2>10. CASE \/ Grant \/ RegisterConflict \/ ReplayBegin \/ ReadPage
              \/ ReadPageFails \/ ReplayReached \/ PageRow \/ EmitRow
              \/ PageEnd \/ ReplayEnd \/ HandlerGone \/ PumpLag
              \/ PumpTellLag \/ PumpRefuse \/ PumpReadBack
              \/ PumpReadBackFails \/ PumpPush \/ PumpGone \/ Write
              \/ Disconnect \/ \E id \in 1 .. MaxSubs : PushEnded(id)
    <3>1. sub' = sub
      BY <2>10 DEF Grant, RegisterConflict, ReplayBegin, ReadPage,
        ReadPageFails, ReplayReached, PageRow, EmitRow, PageEnd, ReplayEnd,
        HandlerGone, PumpLag, PumpTellLag, PumpRefuse, PumpReadBack,
        PumpReadBackFails, PumpPush, PumpGone, Write, WriteIf, Disconnect,
        PushEnded
    <3> QED BY <3>1
  <2>11. CASE \/ \E w \in Workers : PublishOffer(w)
              \/ \E d \in Devices : PublishEphemeral(d) \/ DropDeviceFrom(d)
              \/ Recheck
    BY <1>1, <2>2, <2>11, BusSteps
  <2>12. CASE ReadMark \/ ReadMarkFails \/ Handover
    BY <2>1, <2>3, <2>12 DEF ReadMark, ReadMarkFails, Handover
  <2>13. CASE RecheckFails \/ PumpEnded \/ Teardown
    BY <2>1, <2>4, <2>13 DEF RecheckFails, PumpEnded, Teardown
  <2>14. CASE UNCHANGED vars
    BY <2>1, <2>14 DEF vars
  <2> HIDE DEF Fits
  <2> QED BY <1>1, <2>1, <2>5, <2>6, <2>7, <2>8, <2>9, <2>10, <2>11, <2>12,
        <2>13, <2>14, StreamAssumption
    DEF Next, Publishing, Deleting, Handler, Pump
<1>2. Inv /\ [Next]_vars => [Fits]_vars
  BY <1>1
<1> QED BY <1>2, StreamInvariant, PTL DEF Spec, HandoverFits

-----------------------------------------------------------------------------
(* The pump starts when the handler is done: while a subscription is being
   replayed nothing else reads its queue. *)
PumpWaits ==
    h.step \notin {"idle", "granted"} => p.step = "none"

(* The pump waits for the handler: every step keeps it that way. *)
LEMMA PumpWaitsStep ==
  ASSUME Inv, PumpWaits, [Next]_vars
  PROVE  PumpWaits'
<1>0. h \in HandlerStates /\ p \in PumpStates
  BY DEF Inv, TypeOK
<1> USE DEF PumpWaits
<1>1. CASE UNCHANGED <<h, p>>
  BY <1>1
<1>2. CASE Grant
  BY <1>2 DEF Grant, Idle
<1>3. CASE Register
  BY <1>3 DEF Register, NoPump
<1>4. CASE RegisterConflict \/ RecheckFails \/ ReadMarkFails \/ ReplayEnd
           \/ HandlerGone
  BY <1>4 DEF RegisterConflict, RecheckFails, ReadMarkFails, ReplayEnd,
    HandlerGone, Idle
<1>5. CASE Recheck \/ ReadMark \/ ReplayBegin \/ ReadPage \/ ReadPageFails
           \/ ReplayReached \/ PageRow \/ EmitRow \/ PageEnd \/ Handover
  BY <1>0, <1>5 DEF Recheck, ReadMark, ReplayBegin, ReadPage, ReadPageFails,
    ReplayReached, PageRow, EmitRow, PageEnd, Handover, HandlerStates
<1>6. CASE Pump
  BY <1>0, <1>6 DEF Pump, PumpLag, PumpClearLag, PumpTellLag, PumpTake,
    PumpRefuse, PumpReadBack, PumpReadBackFails, PumpPush, PumpEnded,
    PumpGone, PumpStates
<1>7. ASSUME NEW w \in Workers, Ingest(w) \/ Publishing(w)
      PROVE  UNCHANGED <<h, p>>
  BY <1>7 DEF Ingest, Publishing, Store, StoreDuplicate, Publish, PublishOffer
<1>8. ASSUME NEW d \in Devices,
             PublishEphemeral(d) \/ DeleteCommit(d) \/ Deleting(d)
      PROVE  UNCHANGED <<h, p>>
  BY <1>8 DEF PublishEphemeral, DeleteCommit, Deleting, DropDevice,
    DropDeviceFrom
<1>9. ASSUME (\E id \in 1 .. MaxSubs : PushEnded(id)) \/ Write \/ Disconnect
             \/ Teardown
      PROVE  UNCHANGED <<h, p>>
  BY <1>9 DEF PushEnded, Write, WriteIf, Disconnect, Teardown
<1>10. CASE UNCHANGED vars
  BY <1>1, <1>10 DEF vars
<1> QED BY <1>1, <1>2, <1>3, <1>4, <1>5, <1>6, <1>7, <1>8, <1>9, <1>10,
    StreamAssumption DEF Next, Handler

(* A change of the subscription that keeps telling leaves no drop untold. *)
LEMMA ToldThroughBus ==
  ASSUME Inv, MissedWillBeTold, NEW t, KeepsTelling(sub, t), Becomes(t),
         conn' = conn, p' = p, h.step = "end" => h'.step = "end"
  PROVE  MissedWillBeTold'
<1>1. /\ sub' = t /\ hist'.failed = hist.failed
      /\ hist'.missed = hist.missed \cup (t.dropped \ sub.dropped)
  BY DEF Becomes, Inv, TypeOK, Histories
<1>2. SUFFICES ASSUME Streaming', hist'.missed # {}
               PROVE  \/ p'.step \in {"clear", "tell"}
                      \/ /\ sub'.lagged
                         /\ \/ sub'.replaying \/ h'.step = "end"
                            \/ p'.step = "lag" \/ sub'.queue # <<>>
  BY DEF MissedWillBeTold
<1>3. Streaming
  BY <1>1, <1>2 DEF Streaming, Serving, KeepsTelling
<1>4. CASE hist.missed # {}
  BY <1>1, <1>3, <1>4 DEF MissedWillBeTold, KeepsTelling
<1>5. CASE hist.missed = {}
  <2>1. t.dropped # sub.dropped
    BY <1>1, <1>2, <1>5
  <2> QED BY <1>1, <2>1 DEF KeepsTelling
<1> QED BY <1>4, <1>5

(* Every step keeps the promise that a dropped entry will be told. *)
LEMMA ToldStep ==
  ASSUME Inv, PumpWaits, MissedWillBeTold, [Next]_vars
  PROVE  MissedWillBeTold'
<1>0. /\ sub \in Subscriptions /\ conn \in ConnStates /\ h \in HandlerStates
      /\ p \in PumpStates /\ hist \in Histories
  BY DEF Inv, TypeOK
<1> USE DEF MissedWillBeTold, Streaming, Serving
<1>1. CASE UNCHANGED <<sub, conn, h, p, hist>>
  BY <1>1
<1>2. CASE \/ \E w \in Workers : PublishOffer(w)
           \/ \E d \in Devices : PublishEphemeral(d) \/ DropDeviceFrom(d)
           \/ Recheck
  <2>1. conn' = conn /\ p' = p /\ (h.step = "end" => h'.step = "end")
    BY <1>2 DEF PublishOffer, PublishEphemeral, DropDeviceFrom, Recheck
  <2>2. PICK t : KeepsTelling(sub, t) /\ Becomes(t)
    BY <1>2, BusSteps
  <2> QED BY <2>1, <2>2, ToldThroughBus
<1>3. CASE Grant \/ RegisterConflict
  BY <1>0, <1>3 DEF Grant, RegisterConflict
<1>4. CASE Register
  BY <1>4 DEF Register, NoHistory
<1>5. CASE RecheckFails \/ PumpEnded
  BY <1>0, <1>5 DEF RecheckFails, PumpEnded, Close, Subscriptions
<1>6. CASE ReadMark
  <2>1. CASE h.live
    <3>1. sub' = EndReplay(sub, Len(rows))
      BY <1>6, <2>1 DEF ReadMark
    <3>2. sub'.dropped = sub.dropped /\ sub'.lagged = sub.lagged
      BY <3>1, HandoverSteps
    <3>3. /\ h'.step = "end" /\ h.step = "mark" /\ conn' = conn /\ p' = p
          /\ hist'.missed = hist.missed \cup (sub'.dropped \ sub.dropped)
          /\ hist'.failed = hist.failed
      BY <1>0, <1>6, <2>1 DEF ReadMark, HandlerStates, Histories
    <3>4. sub'.closed = sub.closed /\ sub'.ended = sub.ended
      BY <1>0, <3>1 DEF EndReplay, Subscriptions
    <3> QED BY <3>2, <3>3, <3>4
  <2>2. CASE ~h.live
    BY <1>0, <1>6, <2>2 DEF ReadMark
  <2> QED BY <2>1, <2>2
<1>7. CASE ReadMarkFails
  BY <1>0, <1>7 DEF ReadMarkFails, Histories
<1>8. CASE Handover
  <2>1. sub' = EndReplay(sub, h.last)
    BY <1>8 DEF Handover
  <2>2. sub'.dropped = sub.dropped /\ sub'.lagged = sub.lagged
    BY <2>1, HandoverSteps
  <2>3. /\ h'.step = "end" /\ conn' = conn /\ p' = p
        /\ hist'.missed = hist.missed \cup (sub'.dropped \ sub.dropped)
        /\ hist'.failed = hist.failed
    BY <1>0, <1>8 DEF Handover, HandlerStates, Histories
  <2>4. sub'.closed = sub.closed /\ sub'.ended = sub.ended
    BY <1>0, <2>1 DEF EndReplay, Subscriptions
  <2> QED BY <2>2, <2>3, <2>4
<1>9. CASE ReplayBegin \/ EmitRow
  BY <1>0, <1>9 DEF ReplayBegin, EmitRow, Push, ConnStates, Histories
<1>10. CASE ReadPage \/ ReadPageFails \/ ReplayReached \/ PageRow \/ PageEnd
  BY <1>10 DEF ReadPage, ReadPageFails, ReplayReached, PageRow, PageEnd
<1>11. CASE ReplayEnd
  <2>1. p'.step = "lag" /\ conn'.live = conn.live
    BY <1>0, <1>11 DEF ReplayEnd, NoPump, Push, ConnStates
  <2>2. p.step = "none"
    BY <1>11 DEF ReplayEnd, PumpWaits
  <2> QED BY <2>1, <2>2, <1>11 DEF ReplayEnd
<1>12. CASE HandlerGone \/ PumpGone
  BY <1>12 DEF HandlerGone, PumpGone
<1>13. CASE PumpLag \/ PumpClearLag
  BY <1>0, <1>13 DEF PumpLag, PumpClearLag, ClearLag, PumpStates, Subscriptions
<1>14. CASE PumpTellLag
  BY <1>0, <1>14 DEF PumpTellLag, Histories
<1>15. CASE PumpTake
  BY <1>0, <1>15 DEF PumpTake, PumpStates, Subscriptions
<1>16. CASE PumpRefuse \/ PumpReadBack \/ PumpReadBackFails \/ PumpPush
  BY <1>0, <1>16 DEF PumpRefuse, PumpReadBack, PumpReadBackFails, PumpPush,
    Push, PumpStates, ConnStates, Histories
<1>17. CASE Write \/ \E id \in 1 .. MaxSubs : PushEnded(id)
  BY <1>0, <1>17 DEF Write, WriteIf, PushEnded, ConnStates, Histories
<1>18. CASE Disconnect \/ Teardown
  BY <1>0, <1>18 DEF Disconnect, Teardown, ConnStates
<1>19. ASSUME NEW w \in Workers, Ingest(w) \/ Publish(w)
       PROVE  UNCHANGED <<sub, conn, h, p, hist>>
  BY <1>19 DEF Ingest, Store, StoreDuplicate, Publish
<1>20. ASSUME NEW d \in Devices, DeleteCommit(d) \/ DropDevice(d)
       PROVE  UNCHANGED <<sub, conn, h, p, hist>>
  BY <1>20 DEF DeleteCommit, DropDevice
<1>21. CASE UNCHANGED vars
  BY <1>1, <1>21 DEF vars
<1> HIDE DEF MissedWillBeTold, Streaming, Serving
<1> QED BY <1>1, <1>2, <1>3, <1>4, <1>5, <1>6, <1>7, <1>8, <1>9, <1>10,
    <1>11, <1>12, <1>13, <1>14, <1>15, <1>16, <1>17, <1>18, <1>19, <1>20,
    <1>21, StreamAssumption
  DEF Next, Publishing, Deleting, Handler, Pump

(* No drop is ever stranded: while an entry is missed and untold, the lag
   mark is set and something still to happen brings the pump to look at it
   (wsapi.pump and pushLag; bus.dropLocked). *)
THEOREM DropsWillBeTold == Spec => []MissedWillBeTold
<1>1. Init => PumpWaits /\ MissedWillBeTold
  BY DEF Init, Idle, NoHistory, PumpWaits, MissedWillBeTold
<1>2. Inv /\ PumpWaits /\ MissedWillBeTold /\ [Next]_vars
        => PumpWaits' /\ MissedWillBeTold'
  BY PumpWaitsStep, ToldStep
<1> QED BY <1>1, <1>2, StreamInvariant, PTL DEF Spec

-----------------------------------------------------------------------------
(* What waits for the client is of the archive. *)

(* An event is ephemeral, or carries the number and the device of an entry. *)
Known(ev) ==
    IF ev.eph THEN ev.seq = 0
    ELSE ev.seq \in 1 .. Len(rows) /\ ev.dev = rows[ev.seq].dev

(* So does every event the bus holds, and the one the pump has. *)
EventsKnown == Known(p.ev) /\ \A e : Holds(sub, e) => Known(e)

(* And every entry's frame. *)
FramesKnown ==
    \A f : In(f, conn.stream) /\ f.kind = "row" =>
        f.seq \in 1 .. Len(rows) /\ f.dev = rows[f.seq].dev

TakesIn ==
    /\ \A d : Allows(sub', d) => Allows(sub, d)
    /\ \A e : Holds(sub', e) => Holds(sub, e) \/ Known(e)

(* Only a registration makes a subscription. *)
LEMMA MadeOnlyByRegister ==
  ASSUME Inv, [Next]_vars
  PROVE  /\ ~Register => conn'.made = conn.made
         /\ Register => conn'.made = conn.made + 1
<1>0. conn \in ConnStates /\ conn.made \in Nat
  BY DEF Inv, TypeOK, ConnStates
<1>1. Register => conn'.made = conn.made + 1
  BY <1>0 DEF Register, ConnStates
<1>2. ASSUME ~Register PROVE conn'.made = conn.made
  <2>1. CASE conn' = conn
    BY <2>1
  <2>2. CASE \/ Grant \/ RegisterConflict \/ Recheck \/ ReadMark
             \/ ReadMarkFails \/ ReadPage \/ ReadPageFails \/ ReplayReached
             \/ PageRow \/ PageEnd \/ Handover \/ HandlerGone
    BY <2>1, <2>2 DEF Grant, RegisterConflict, Recheck, ReadMark,
      ReadMarkFails, ReadPage, ReadPageFails, ReplayReached, PageRow, PageEnd,
      Handover, HandlerGone
  <2>3. CASE RecheckFails \/ ReplayBegin \/ EmitRow \/ ReplayEnd
    BY <1>0, <2>3
    DEF RecheckFails, ReplayBegin, EmitRow, ReplayEnd, Push, ConnStates
  <2>4. CASE Pump
    BY <1>0, <2>4 DEF Pump, PumpLag, PumpClearLag, PumpTellLag, PumpTake,
      PumpRefuse, PumpReadBack, PumpReadBackFails, PumpPush, PumpEnded,
      PumpGone, Push, ConnStates
  <2>5. CASE (\E id \in 1 .. MaxSubs : PushEnded(id)) \/ Write \/ Disconnect
             \/ Teardown
    BY <1>0, <2>5
    DEF PushEnded, Write, WriteIf, Disconnect, Teardown, ConnStates
  <2>6. ASSUME NEW w \in Workers, Ingest(w) \/ Publishing(w)
        PROVE  conn' = conn
    BY <2>6 DEF Ingest, Publishing, Store, StoreDuplicate, Publish,
      PublishOffer
  <2>7. ASSUME NEW d \in Devices,
               PublishEphemeral(d) \/ DeleteCommit(d) \/ Deleting(d)
        PROVE  conn' = conn
    BY <2>7 DEF PublishEphemeral, DeleteCommit, Deleting, DropDevice,
      DropDeviceFrom
  <2>8. CASE UNCHANGED vars
    BY <2>1, <2>8 DEF vars
  <2> QED BY <1>2, <2>1, <2>2, <2>3, <2>4, <2>5, <2>6, <2>7, <2>8,
        StreamAssumption DEF Next, Handler
<1> QED BY <1>1, <1>2

(* Until the next registration, no step allows a number that was not allowed
   before it, or has the bus hold an event that is not of the archive. *)
LEMMA BusTakesIn ==
  ASSUME Inv, [Next]_vars, conn'.made = conn.made
  PROVE  TakesIn
<1> USE DEF TakesIn
<1>0. Held(sub) /\ sub \in Subscriptions
  BY DEF Inv, TypeOK
<1>1. CASE sub' = sub
  BY <1>1 DEF Allows, Serving, Holds
<1>2. ASSUME Narrows(sub, sub') PROVE TakesIn
  BY <1>2 DEF Narrows, Allows
<1>3. ASSUME NEW ev \in Events, Known(ev), sub' = Offer(sub, ev)
      PROVE  TakesIn
  <2>1. /\ sub'.filter = sub.filter /\ sub'.closed = sub.closed
        /\ sub'.ended = sub.ended
        /\ \A e : Holds(sub', e) => Holds(sub, e) \/ e = ev
    BY <1>0, <1>3, OfferHolds
  <2> QED BY <1>3, <2>1 DEF Allows, Serving
<1>4. ASSUME NEW w \in Workers, PublishOffer(w)
      PROVE  TakesIn
  <2> DEFINE ev == [seq |-> worker[w].seq, dev |-> rows[worker[w].seq].dev,
                    eph |-> FALSE]
  <2>1. worker[w].seq \in 1 .. Len(rows) /\ rows \in Seq(Entries)
    BY <1>4 DEF PublishOffer, Inv, TypeOK, WorkersInArchive
  <2>2. rows[worker[w].seq] \in Entries /\ Len(rows) \in Nat
    BY <2>1
  <2>3. ev \in Events /\ Known(ev)
    BY <2>1, <2>2 DEF Events, Entries, Known
  <2>4. sub' = sub \/ sub' = Offer(sub, ev)
    BY <1>4 DEF PublishOffer, Becomes
  <2> HIDE DEF ev
  <2> QED BY <2>3, <2>4, <1>1, <1>3
<1>5. ASSUME NEW d \in Devices, PublishEphemeral(d)
      PROVE  TakesIn
  <2> DEFINE ev == [seq |-> 0, dev |-> d, eph |-> TRUE]
  <2>1. ev \in Events /\ Known(ev) /\ sub' = Offer(sub, ev)
    BY <1>5 DEF Events, Known, PublishEphemeral, Becomes
  <2> HIDE DEF ev
  <2> QED BY <2>1, <1>3
<1>6. ASSUME NEW d \in Devices, DropDeviceFrom(d)
      PROVE  TakesIn
  <2>1. sub' = sub \/ sub' = Drop(sub, d)
    BY <1>6 DEF DropDeviceFrom, Becomes
  <2> QED BY <2>1, <1>0, <1>1, <1>2, DropNarrows
<1>7. CASE Recheck
  <2>1. sub' = DropAll(sub, h.asked \ Visible)
    BY <1>7 DEF Recheck, Becomes
  <2> QED BY <2>1, <1>0, <1>2, DropAllNarrows
<1>8. ASSUME NEW through, sub' = EndReplay(sub, through)
      PROVE  TakesIn
  BY <1>0, <1>8, EndReplayHolds DEF Allows, Serving
<1>9. CASE ReadMark \/ ReadMarkFails \/ Handover
  BY <1>1, <1>8, <1>9 DEF ReadMark, ReadMarkFails, Handover
<1>10. CASE RecheckFails \/ PumpEnded \/ Teardown
  <2>1. sub' = sub \/ sub' = Close(sub)
    BY <1>10 DEF RecheckFails, PumpEnded, Teardown
  <2> QED BY <2>1, <1>0, <1>1
        DEF Close, Allows, Serving, Subscriptions, Holds
<1>11. CASE PumpClearLag
  BY <1>0, <1>11
  DEF PumpClearLag, ClearLag, Allows, Serving, Subscriptions, Holds
<1>17. CASE PumpTake
  <2> DEFINE q == Tail(sub.queue)
  <2>1. sub' = [sub EXCEPT !.queue = q] /\ \A e : In(e, q) => In(e, sub.queue)
    BY <1>0, <1>17, TailIn DEF PumpTake, Subscriptions
  <2> HIDE DEF q
  <2> QED BY <1>0, <2>1 DEF Allows, Serving, Subscriptions, Holds
<1>12. ASSUME NEW w \in Workers, Ingest(w) \/ Publish(w) PROVE sub' = sub
  BY <1>12 DEF Ingest, Store, StoreDuplicate, Publish
<1>13. ASSUME NEW d \in Devices, DeleteCommit(d) \/ DropDevice(d)
       PROVE  sub' = sub
  BY <1>13 DEF DeleteCommit, DropDevice
<1>14. CASE \/ Grant \/ RegisterConflict \/ ReplayBegin \/ ReadPage
            \/ ReadPageFails \/ ReplayReached \/ PageRow \/ EmitRow
            \/ PageEnd \/ ReplayEnd \/ HandlerGone \/ PumpLag
            \/ PumpTellLag \/ PumpRefuse \/ PumpReadBack
            \/ PumpReadBackFails \/ PumpPush \/ PumpGone \/ Write
            \/ Disconnect \/ \E id \in 1 .. MaxSubs : PushEnded(id)
  <2>1. sub' = sub
    BY <1>14 DEF Grant, RegisterConflict, ReplayBegin, ReadPage,
      ReadPageFails, ReplayReached, PageRow, EmitRow, PageEnd, ReplayEnd,
      HandlerGone, PumpLag, PumpTellLag, PumpRefuse, PumpReadBack,
      PumpReadBackFails, PumpPush, PumpGone, Write, WriteIf, Disconnect,
      PushEnded
  <2> QED BY <2>1, <1>1
<1>15. CASE UNCHANGED vars
  BY <1>1, <1>15 DEF vars
<1>16. ~Register
  BY MadeOnlyByRegister DEF Inv, TypeOK, ConnStates
<1> HIDE DEF TakesIn
<1> QED BY <1>1, <1>4, <1>5, <1>6, <1>7, <1>9, <1>10, <1>11, <1>12, <1>13,
    <1>14, <1>15, <1>16, <1>17, StreamAssumption
  DEF Next, Publishing, Deleting, Handler, Pump

(* An entry is what it is for good. *)
LEMMA RowsGrow ==
  ASSUME Inv, [Next]_vars
  PROVE  /\ Len(rows) \in Nat /\ Len(rows') \in Nat /\ Len(rows) <= Len(rows')
         /\ \A n \in 1 .. Len(rows) : n \in 1 .. Len(rows') /\ rows'[n] = rows[n]
<1>1. rows \in Seq(Entries) /\ Len(rows) \in Nat
  BY DEF Inv, TypeOK
<1>2. CASE rows' = rows
  BY <1>1, <1>2
<1>3. ASSUME NEW r, rows' = Append(rows, r)
      PROVE  /\ Len(rows') \in Nat /\ Len(rows) <= Len(rows')
             /\ \A n \in 1 .. Len(rows) :
                   n \in 1 .. Len(rows') /\ rows'[n] = rows[n]
  BY <1>1, <1>3
<1>4. ASSUME NEW w \in Workers, Ingest(w) \/ Publishing(w)
      PROVE  rows' = rows \/ \E r : rows' = Append(rows, r)
  BY <1>4 DEF Ingest, Publishing, Store, StoreDuplicate, Publish, PublishOffer
<1>5. ASSUME NEW d \in Devices,
             PublishEphemeral(d) \/ DeleteCommit(d) \/ Deleting(d)
      PROVE  rows' = rows
  BY <1>5 DEF PublishEphemeral, DeleteCommit, Deleting, DropDevice,
    DropDeviceFrom
<1>6. CASE Grant \/ Handler
  BY <1>2, <1>6 DEF Grant, Handler, Register, RegisterConflict, Recheck,
    RecheckFails, ReadMark, ReadMarkFails, ReplayBegin, ReadPage,
    ReadPageFails, ReplayReached, PageRow, EmitRow, PageEnd, Handover,
    ReplayEnd, HandlerGone
<1>7. CASE Pump
  BY <1>2, <1>7 DEF Pump, PumpLag, PumpClearLag, PumpTellLag, PumpTake,
    PumpRefuse, PumpReadBack, PumpReadBackFails, PumpPush, PumpEnded,
    PumpGone
<1>8. CASE (\E id \in 1 .. MaxSubs : PushEnded(id)) \/ Write \/ Disconnect
           \/ Teardown
  BY <1>2, <1>8 DEF PushEnded, Write, WriteIf, Disconnect, Teardown
<1>9. CASE UNCHANGED vars
  BY <1>2, <1>9 DEF vars
<1> QED BY <1>1, <1>2, <1>3, <1>4, <1>5, <1>6, <1>7, <1>8, <1>9,
    StreamAssumption DEF Next

(* What is known stays known. *)
LEMMA KnownStays ==
  ASSUME Inv, [Next]_vars, NEW e, Known(e)
  PROVE  Known(e)'
BY RowsGrow DEF Known

(* Every step keeps the events of the bus and the pump known. *)
LEMMA EventsKnownStep ==
  ASSUME Inv, EventsKnown, [Next]_vars
  PROVE  EventsKnown'
<1>0. sub \in Subscriptions /\ p \in PumpStates /\ Known(NoEvent)
  BY DEF Inv, TypeOK, Known, NoEvent
<1>1. CASE Register
  <2>1. p' = NoPump /\ sub'.buffer = <<>> /\ sub'.queue = <<>>
    BY <1>1 DEF Register, NewSubscription
  <2>2. \A e : ~Holds(sub', e)
    BY <2>1 DEF Holds, In
  <2>3. Known(p'.ev)
    BY <1>0, <2>1 DEF NoPump
  <2> QED BY <2>2, <2>3, KnownStays DEF EventsKnown
<1>2. CASE ~Register
  <2>1. p'.ev = p.ev \/ p'.ev = NoEvent \/ Holds(sub, p'.ev)
    <3>1. CASE Pump
      <4>1. CASE PumpTake
        <5>1. In(Head(sub.queue), sub.queue)
          BY <1>0, <4>1, TailIn DEF PumpTake, Subscriptions
        <5> QED BY <1>0, <4>1, <5>1 DEF PumpTake, PumpStates, Holds
      <4>2. CASE PumpLag \/ PumpClearLag \/ PumpTellLag \/ PumpRefuse
                 \/ PumpReadBack \/ PumpReadBackFails \/ PumpPush
        BY <1>0, <4>2 DEF PumpLag, PumpClearLag, PumpTellLag, PumpRefuse,
          PumpReadBack, PumpReadBackFails, PumpPush, PumpStates
      <4>3. CASE PumpEnded \/ PumpGone
        BY <4>3 DEF PumpEnded, PumpGone, NoPump
      <4> QED BY <3>1, <4>1, <4>2, <4>3 DEF Pump
    <3>2. CASE ReplayEnd
      BY <3>2 DEF ReplayEnd, NoPump
    <3>3. CASE p' = p
      BY <3>3
    <3>4. CASE Grant \/ (Handler /\ ~ReplayEnd)
      BY <1>2, <3>3, <3>4 DEF Grant, Handler, RegisterConflict, Recheck,
        RecheckFails, ReadMark, ReadMarkFails, ReplayBegin, ReadPage,
        ReadPageFails, ReplayReached, PageRow, EmitRow, PageEnd, Handover,
        HandlerGone
    <3>5. CASE (\E id \in 1 .. MaxSubs : PushEnded(id)) \/ Write
               \/ Disconnect \/ Teardown
      BY <3>3, <3>5 DEF PushEnded, Write, WriteIf, Disconnect, Teardown
    <3>6. ASSUME NEW w \in Workers, Ingest(w) \/ Publishing(w) PROVE p' = p
      BY <3>6 DEF Ingest, Publishing, Store, StoreDuplicate, Publish,
        PublishOffer
    <3>7. ASSUME NEW d \in Devices,
                 PublishEphemeral(d) \/ DeleteCommit(d) \/ Deleting(d)
          PROVE  p' = p
      BY <3>7 DEF PublishEphemeral, DeleteCommit, Deleting, DropDevice,
        DropDeviceFrom
    <3>8. CASE UNCHANGED vars
      BY <3>3, <3>8 DEF vars
    <3> QED BY <3>1, <3>2, <3>3, <3>4, <3>5, <3>6, <3>7, <3>8,
          StreamAssumption DEF Next, Handler
  <2>2. \A e : Holds(sub', e) => Holds(sub, e) \/ Known(e)
    BY <1>2, MadeOnlyByRegister, BusTakesIn DEF TakesIn
  <2>3. Known(p'.ev)
    BY <1>0, <2>1 DEF EventsKnown
  <2>4. Known(p.ev)' /\ \A e : Holds(sub, e)' => Known(e)'
    BY <2>2, <2>3, KnownStays DEF EventsKnown
  <2> QED BY <2>4 DEF EventsKnown
<1> QED BY <1>1, <1>2

(* What a push adds to the stream. *)
LEMMA PushAdds ==
  ASSUME conn \in ConnStates, NEW f \in Frames, Push(f)
  PROVE  /\ \A g : In(g, conn'.stream) <=> In(g, conn.stream) \/ g = f
         /\ conn'.made = conn.made /\ conn'.sub = conn.sub
         /\ conn'.live = conn.live /\ conn.live
<1> DEFINE q == Append(conn.stream, f)
<1>1. conn.stream \in Seq(Frames)
  BY DEF ConnStates
<1>2. \A g : In(g, q) <=> In(g, conn.stream) \/ g = f
  BY <1>1, AppendIn
<1>3. conn' = [conn EXCEPT !.stream = q] /\ conn.live
  BY DEF Push
<1> HIDE DEF q
<1> QED BY <1>2, <1>3 DEF ConnStates

(* The frame a step pushes, if it pushes one. *)
LEMMA PushedFrame ==
  ASSUME Inv, NEW kind \in {"begin", "row", "eph", "end", "lag", "ended"},
         NEW id \in Nat, NEW n \in Nat, NEW d \in Devices \cup {NoDevice}
  PROVE  /\ Frame(kind, id, n, d) \in Frames
         /\ Frame(kind, id, n, d).kind = kind /\ Frame(kind, id, n, d).sub = id
         /\ Frame(kind, id, n, d).seq = n /\ Frame(kind, id, n, d).dev = d
BY DEF Frame, Frames

(* Which step puts which frame into the stream. *)
Pushes(f) ==
    /\ f \in Frames
    /\ f.dev # NoDevice => f.sub = conn.made
    /\ f.kind = "row" =>
         f.seq \in 1 .. Len(rows) /\ f.dev = rows[f.seq].dev
    /\ \A g : In(g, conn'.stream) => In(g, conn.stream) \/ g = f
    /\ conn'.made = conn.made

PushesAtMostOne ==
    \/ conn'.stream = conn.stream
    \/ \A g : In(g, conn'.stream) => In(g, conn.stream)
    \/ \E f : Pushes(f) /\ (h.step = "recheck" => f.dev = NoDevice)

(* A step of the handler or the pump pushes at most one frame, of the latest
   subscription and of the archive, and none of a number while the handler
   has yet to look again. *)
LEMMA StepsPush ==
  ASSUME Inv, PumpWaits, Known(p.ev), [Next]_vars
  PROVE  PushesAtMostOne
<1> USE DEF PushesAtMostOne
<1>0. /\ conn \in ConnStates /\ h \in HandlerStates /\ p \in PumpStates
      /\ rows \in Seq(Entries) /\ Len(rows) \in Nat /\ conn.made \in Nat
      /\ conn.stream \in Seq(Frames)
  BY DEF Inv, TypeOK, ConnStates
<1>1. ASSUME NEW kind \in {"begin", "row", "eph", "end", "lag", "ended"},
             NEW n \in Nat, NEW d \in Devices \cup {NoDevice},
             Push(Frame(kind, conn.made, n, d)),
             h.step = "recheck" => d = NoDevice,
             kind = "row" => n \in 1 .. Len(rows) /\ d = rows[n].dev
      PROVE  PushesAtMostOne
  <2> DEFINE f == Frame(kind, conn.made, n, d)
  <2>1. /\ f \in Frames /\ f.sub = conn.made /\ f.dev = d
        /\ f.kind = kind /\ f.seq = n
    BY <1>0, PushedFrame
  <2>2. Push(f)
    BY <1>1
  <2> HIDE DEF f
  <2>3. Pushes(f)
    BY <1>0, <1>1, <2>1, <2>2, PushAdds DEF Pushes
  <2> QED BY <1>1, <2>1, <2>3
<1>2. CASE ReplayBegin \/ ReplayEnd
  <2>1. h.mark \in Nat /\ h.last \in Nat /\ h.step # "recheck"
    BY <1>0, <1>2 DEF HandlerStates, ReplayBegin, ReplayEnd
  <2> HIDE DEF PushesAtMostOne
  <2> QED BY <1>1, <1>2, <2>1 DEF ReplayBegin, ReplayEnd
<1>3. CASE EmitRow
  <2> DEFINE n == Min(h.page)
  <2>1. h.page \subseteq Nat /\ h.page # {} /\ h.page \subseteq 1 .. Len(rows)
    BY <1>0, <1>3 DEF EmitRow, Inv, PageInArchive, HandlerStates
  <2>2. n \in Nat /\ n \in 1 .. Len(rows)
    BY <2>1, MinExists
  <2>3. rows[n] \in Entries
    BY <1>0, <2>2
  <2>4. Push(Frame("row", conn.made, n, rows[n].dev)) /\ h.step # "recheck"
    BY <1>3 DEF EmitRow
  <2> HIDE DEF n, PushesAtMostOne
  <2> QED BY <1>1, <2>2, <2>3, <2>4 DEF Entries
<1>4. CASE PumpTellLag
  <2>1. p.from \in Nat
    BY <1>0 DEF PumpStates
  <2> HIDE DEF PushesAtMostOne
  <2> QED BY <1>1, <1>4, <2>1 DEF PumpTellLag
<1>5. CASE PumpPush
  <2> DEFINE kind == IF p.ev.eph THEN "eph" ELSE "row"
  <2>1. p.ev.seq \in Nat /\ p.ev.dev \in Devices \cup {NoDevice}
    <3>1. p.ev \in Events \cup {NoEvent}
      BY <1>0 DEF PumpStates
    <3>2. CASE p.ev \in Events
      BY <3>2 DEF Events
    <3>3. CASE p.ev = NoEvent
      BY <3>3 DEF NoEvent
    <3> QED BY <3>1, <3>2, <3>3
  <2>2. kind \in {"begin", "row", "eph", "end", "lag", "ended"}
    OBVIOUS
  <2>3. Push(Frame(kind, conn.made, p.ev.seq, p.ev.dev))
    BY <1>5 DEF PumpPush
  <2>4. h.step # "recheck"
    BY <1>5 DEF PumpPush, PumpWaits
  <2>5. kind = "row" =>
          p.ev.seq \in 1 .. Len(rows) /\ p.ev.dev = rows[p.ev.seq].dev
    BY DEF Known
  <2> HIDE DEF kind, PushesAtMostOne
  <2> QED BY <1>1, <2>1, <2>2, <2>3, <2>4, <2>5
<1>6. ASSUME NEW id \in 1 .. MaxSubs, PushEnded(id) PROVE PushesAtMostOne
  <2> DEFINE f == Frame("ended", id, 0, NoDevice)
             q == Append(conn.stream, f)
  <2>1. f \in Frames /\ f.dev = NoDevice /\ f.kind = "ended"
    BY PushedFrame, StreamAssumption
  <2> HIDE DEF f
  <2>2. \A g : In(g, q) <=> In(g, conn.stream) \/ g = f
    BY <1>0, <2>1, AppendIn
  <2>3. \/ conn' = [conn EXCEPT !.ending = @ \ {id}]
        \/ conn' = [conn EXCEPT !.ending = @ \ {id}, !.stream = q]
    BY <1>6 DEF PushEnded, f
  <2> HIDE DEF q
  <2>4. /\ conn'.made = conn.made
        /\ conn'.stream = conn.stream \/ conn'.stream = q
    BY <1>0, <2>3 DEF ConnStates
  <2> QED BY <2>1, <2>2, <2>4 DEF Pushes
<1>7. CASE Write
  <2>1. conn.stream # <<>> /\ conn'.stream = Tail(conn.stream)
    BY <1>0, <1>7 DEF Write, WriteIf, ConnStates
  <2> QED BY <1>0, <2>1, TailIn
<1>8. CASE Disconnect
  BY <1>0, <1>8 DEF Disconnect, In, ConnStates
<1>9. CASE Register \/ RecheckFails \/ PumpEnded \/ Teardown
  BY <1>0, <1>9 DEF Register, RecheckFails, PumpEnded, Teardown, ConnStates
<1>10. CASE \/ Grant \/ RegisterConflict \/ Recheck \/ ReadMark
            \/ ReadMarkFails \/ ReadPage \/ ReadPageFails \/ ReplayReached
            \/ PageRow \/ PageEnd \/ Handover \/ HandlerGone \/ PumpLag
            \/ PumpClearLag \/ PumpTake \/ PumpRefuse \/ PumpReadBack
            \/ PumpReadBackFails \/ PumpGone
  <2>1. conn' = conn
    BY <1>10 DEF Grant, RegisterConflict, Recheck, ReadMark, ReadMarkFails,
      ReadPage, ReadPageFails, ReplayReached, PageRow, PageEnd, Handover,
      HandlerGone, PumpLag, PumpClearLag, PumpTake, PumpRefuse, PumpReadBack,
      PumpReadBackFails, PumpGone
  <2> QED BY <2>1
<1>11. ASSUME NEW w \in Workers, Ingest(w) \/ Publishing(w)
       PROVE  conn' = conn
  BY <1>11 DEF Ingest, Publishing, Store, StoreDuplicate, Publish, PublishOffer
<1>12. ASSUME NEW d \in Devices,
              PublishEphemeral(d) \/ DeleteCommit(d) \/ Deleting(d)
       PROVE  conn' = conn
  BY <1>12 DEF PublishEphemeral, DeleteCommit, Deleting, DropDevice,
    DropDeviceFrom
<1>13. CASE UNCHANGED vars
  BY <1>13 DEF vars
<1>14. conn' = conn => PushesAtMostOne
  OBVIOUS
<1> HIDE DEF PushesAtMostOne
<1> QED BY <1>2, <1>3, <1>4, <1>5, <1>6, <1>7, <1>8, <1>9, <1>10, <1>11,
    <1>12, <1>13, <1>14, StreamAssumption DEF Next, Handler, Pump

(* Every step keeps the entries' frames those of the archive. *)
LEMMA FramesKnownStep ==
  ASSUME Inv, PumpWaits, EventsKnown, FramesKnown, [Next]_vars
  PROVE  FramesKnown'
<1>1. \A n \in 1 .. Len(rows) : n \in 1 .. Len(rows') /\ rows'[n] = rows[n]
  BY RowsGrow
<1>2. CASE conn'.stream = conn.stream
           \/ \A g : In(g, conn'.stream) => In(g, conn.stream)
  BY <1>1, <1>2 DEF FramesKnown
<1>3. CASE \E f : Pushes(f)
  <2>1. PICK f : Pushes(f)
    BY <1>3
  <2> QED BY <1>1, <2>1 DEF FramesKnown, Pushes
<1>4. PushesAtMostOne
  BY StepsPush DEF EventsKnown
<1> QED BY <1>2, <1>3, <1>4 DEF PushesAtMostOne

-----------------------------------------------------------------------------
(* No frame of a deleted number. *)

(* The deletion of a number is past taking it out of the latest
   subscription's filter. *)
PastFilter(d) ==
    \/ deletion[d].step = "done"
    \/ deletion[d].step = "listed" /\ deletion[d].sub # conn.made

(* What a deletion is past, the filter lacks -- unless the registration came
   after the deletion looked and the handler has yet to look again. *)
OutOfFilter ==
    \A d \in Devices :
        PastFilter(d) /\ Allows(sub, d) => h.step = "recheck" /\ d \in h.asked

(* A number's frame belongs to a subscription already made; one that has yet
   to look again has sent none. *)
FramesOfMade ==
    \A f : In(f, conn.stream) /\ f.dev # NoDevice =>
        /\ f.sub <= conn.made
        /\ h.step = "recheck" => f.sub < conn.made

(* Every step keeps the filter clear of what a deletion is past. *)
LEMMA OutOfFilterStep ==
  ASSUME Inv, OutOfFilter, [Next]_vars
  PROVE  OutOfFilter'
<1>0. /\ sub \in Subscriptions /\ conn \in ConnStates /\ h \in HandlerStates
      /\ deletion \in [Devices -> DeletionStates] /\ Held(sub)
  BY DEF Inv, TypeOK
<1> USE DEF OutOfFilter
<1>1. ASSUME deletion' = deletion, conn'.made = conn.made,
             h.step = "recheck" => h' = h
      PROVE  OutOfFilter'
  BY <1>1, BusTakesIn DEF PastFilter, TakesIn
<1>2. CASE Register
  <2>1. h'.step = "recheck" /\ h'.asked = h.asked /\ sub'.filter = h.asked
    BY <1>0, <1>2 DEF Register, NewSubscription, HandlerStates
  <2> QED BY <2>1 DEF Allows
<1>3. ASSUME NEW d \in Devices, DeleteCommit(d) PROVE OutOfFilter'
  BY <1>0, <1>3 DEF DeleteCommit, PastFilter, DeletionStates
<1>4. ASSUME NEW d \in Devices, DropDevice(d) PROVE OutOfFilter'
  BY <1>0, <1>4
  DEF DropDevice, PastFilter, DeletionStates, Registered, Allows, Serving
<1>5. ASSUME NEW d \in Devices, DropDeviceFrom(d) PROVE OutOfFilter'
  <2>1. /\ deletion' = [deletion EXCEPT ![d].step = "done"]
        /\ deletion[d].step = "listed" /\ UNCHANGED <<conn, h>>
    BY <1>5 DEF DropDeviceFrom
  <2>2. \A c : Allows(sub', c) => Allows(sub, c)
    BY <2>1, BusTakesIn DEF TakesIn
  <2>3. deletion[d].sub = conn.made => ~Allows(sub', d)
    BY <1>0, <1>5, DropNarrows DEF DropDeviceFrom, Becomes
  <2>4. ASSUME NEW c \in Devices, PastFilter(c)', Allows(sub', c)
        PROVE  h.step = "recheck" /\ c \in h.asked
    <3>1. PastFilter(c)
      BY <1>0, <2>1, <2>3, <2>4 DEF PastFilter
    <3> QED BY <3>1, <2>2, <2>4
  <2> QED BY <2>1, <2>4
<1>6. CASE Recheck
  <2>1. /\ \A d \in h.asked \ Visible : ~Allows(sub', d)
        /\ UNCHANGED <<deletion, conn>>
    BY <1>0, <1>6, DropAllNarrows DEF Recheck, Becomes
  <2>2. \A d : Allows(sub', d) => Allows(sub, d)
    BY <2>1, BusTakesIn DEF TakesIn
  <2>3. ASSUME NEW d \in Devices, PastFilter(d)', Allows(sub', d) PROVE FALSE
    <3>1. PastFilter(d) /\ d \notin Visible
      BY <2>1, <2>3 DEF PastFilter, Visible
    <3> QED BY <2>1, <2>2, <2>3, <3>1
  <2> QED BY <2>3
<1>7. CASE RecheckFails
  BY <1>0, <1>7 DEF RecheckFails, Close, Allows, Serving, Subscriptions
<1> HIDE DEF OutOfFilter
<1>8. ASSUME NEW w \in Workers, Ingest(w) \/ Publishing(w) PROVE OutOfFilter'
  BY <1>1, <1>8
  DEF Ingest, Publishing, Store, StoreDuplicate, Publish, PublishOffer
<1>9. ASSUME NEW d \in Devices, PublishEphemeral(d) PROVE OutOfFilter'
  BY <1>1, <1>9 DEF PublishEphemeral
<1>10. CASE \/ Grant \/ RegisterConflict \/ ReadMark \/ ReadMarkFails
            \/ ReadPage \/ ReadPageFails \/ ReplayReached \/ PageRow
            \/ PageEnd \/ Handover \/ HandlerGone
  BY <1>1, <1>10 DEF Grant, RegisterConflict, ReadMark, ReadMarkFails,
    ReadPage, ReadPageFails, ReplayReached, PageRow, PageEnd, Handover,
    HandlerGone
<1>11. CASE ReplayBegin \/ EmitRow \/ ReplayEnd
  BY <1>0, <1>1, <1>11
  DEF ReplayBegin, EmitRow, ReplayEnd, Push, ConnStates
<1>12. CASE Pump
  <2>1. deletion' = deletion /\ h' = h /\ conn'.made = conn.made
    BY <1>0, <1>12 DEF Pump, PumpLag, PumpClearLag, PumpTellLag, PumpTake,
    PumpRefuse, PumpReadBack, PumpReadBackFails, PumpPush, PumpEnded,
    PumpGone, Push, ConnStates
  <2> QED BY <2>1, <1>1
<1>13. CASE (\E id \in 1 .. MaxSubs : PushEnded(id)) \/ Write \/ Disconnect
            \/ Teardown
  <2>1. deletion' = deletion /\ h' = h /\ conn'.made = conn.made
    BY <1>0, <1>13
    DEF PushEnded, Write, WriteIf, Disconnect, Teardown, ConnStates
  <2> QED BY <2>1, <1>1
<1>14. CASE UNCHANGED vars
  BY <1>14 DEF vars, OutOfFilter, PastFilter, Allows, Serving
<1> QED BY <1>2, <1>3, <1>4, <1>5, <1>6, <1>7, <1>8, <1>9, <1>10, <1>11,
    <1>12, <1>13, <1>14, StreamAssumption
  DEF Next, Deleting, Handler

(* The frames in the stream stay those of subscriptions made. *)
LEMMA FramesOfMadeStep ==
  ASSUME Inv, PumpWaits, EventsKnown, FramesOfMade, [Next]_vars
  PROVE  FramesOfMade'
<1>0. /\ conn \in ConnStates /\ conn.made \in Nat
      /\ conn.stream \in Seq(Frames)
      /\ \A g : In(g, conn.stream) => g \in Frames /\ g.sub \in Nat
  <2>1. conn.stream \in Seq(Frames)
    BY DEF Inv, TypeOK, ConnStates
  <2>2. \A k \in 1 .. Len(conn.stream) : conn.stream[k] \in Frames
    BY <2>1
  <2> QED BY <2>1, <2>2 DEF Inv, TypeOK, ConnStates, In, Frames
<1>1. CASE Register
  <2>1. conn'.made = conn.made + 1 /\ conn'.stream = conn.stream
    BY <1>0, <1>1 DEF Register, ConnStates
  <2> QED BY <1>0, <2>1 DEF FramesOfMade
<1>2. CASE ~Register
  <2>1. h'.step = "recheck" => h.step = "recheck"
    <3>0. h \in HandlerStates /\ Idle.step = "idle"
      BY DEF Inv, TypeOK, Idle
    <3>1. CASE h' = h
      BY <3>1
    <3>2. CASE Grant \/ RegisterConflict \/ Recheck \/ ReadMark
               \/ ReadMarkFails \/ ReadPageFails \/ ReplayReached \/ PageRow
               \/ PageEnd \/ Handover \/ HandlerGone \/ RecheckFails
      BY <3>0, <3>2 DEF Grant, RegisterConflict, Recheck, ReadMark, Idle,
        ReadMarkFails, ReadPageFails, ReplayReached, PageRow, PageEnd,
        Handover, HandlerGone, RecheckFails, HandlerStates
    <3>3. CASE ReadPage \/ ReplayBegin \/ EmitRow \/ ReplayEnd
      BY <3>0, <3>3
      DEF ReadPage, ReplayBegin, EmitRow, ReplayEnd, HandlerStates
    <3>4. CASE Pump
      BY <3>4 DEF Pump, PumpLag, PumpClearLag, PumpTellLag, PumpTake,
        PumpRefuse, PumpReadBack, PumpReadBackFails, PumpPush, PumpEnded,
        PumpGone
    <3>5. CASE (\E id \in 1 .. MaxSubs : PushEnded(id)) \/ Write
               \/ Disconnect \/ Teardown
      BY <3>5 DEF PushEnded, Write, WriteIf, Disconnect, Teardown
    <3>6. ASSUME NEW w \in Workers, Ingest(w) \/ Publishing(w) PROVE h' = h
      BY <3>6 DEF Ingest, Publishing, Store, StoreDuplicate, Publish,
        PublishOffer
    <3>7. ASSUME NEW d \in Devices,
                 PublishEphemeral(d) \/ DeleteCommit(d) \/ Deleting(d)
          PROVE  h' = h
      BY <3>7 DEF PublishEphemeral, DeleteCommit, Deleting, DropDevice,
        DropDeviceFrom
    <3>8. CASE UNCHANGED vars
      BY <3>8 DEF vars
    <3> QED BY <1>2, <3>1, <3>2, <3>3, <3>4, <3>5, <3>6, <3>7, <3>8,
          StreamAssumption DEF Next, Handler
  <2>6. conn'.made = conn.made
    BY <1>2, MadeOnlyByRegister
  <2>2. CASE conn'.stream = conn.stream
             \/ \A g : In(g, conn'.stream) => In(g, conn.stream)
    BY <2>1, <2>6, <2>2 DEF FramesOfMade
  <2>3. ASSUME NEW f, Pushes(f), h.step = "recheck" => f.dev = NoDevice
        PROVE  FramesOfMade'
    <3>1. ASSUME NEW g, In(g, conn'.stream), g.dev # NoDevice
          PROVE  /\ g.sub <= conn'.made
                 /\ h'.step = "recheck" => g.sub < conn'.made
      <4>1. CASE In(g, conn.stream)
        BY <2>1, <2>6, <3>1, <4>1 DEF FramesOfMade
      <4>2. CASE g = f
        BY <1>0, <2>1, <2>6, <2>3, <3>1, <4>2 DEF Pushes
      <4> QED BY <2>3, <3>1, <4>1, <4>2 DEF Pushes
    <3> QED BY <3>1 DEF FramesOfMade
  <2>4. PushesAtMostOne
    BY StepsPush DEF EventsKnown
  <2>5. CASE \E f : Pushes(f) /\ (h.step = "recheck" => f.dev = NoDevice)
    <3>1. PICK f : Pushes(f) /\ (h.step = "recheck" => f.dev = NoDevice)
      BY <2>5
    <3> QED BY <3>1, <2>3
  <2> QED BY <2>2, <2>4, <2>5 DEF PushesAtMostOne
<1> QED BY <1>1, <1>2

(* The writer lets no frame of a deleted number through. *)
LEMMA NoDeletedFrameStep ==
  ASSUME Inv, OutOfFilter, FramesOfMade, NoDeletedFrame, [Next]_vars
  PROVE  NoDeletedFrame'
<1>0. /\ conn \in ConnStates /\ conn.made \in Nat /\ hist \in Histories
      /\ conn.stream \in Seq(Frames)
  BY DEF Inv, TypeOK, ConnStates
<1>1. CASE hist'.leaked = hist.leaked /\ conn'.made = conn.made
  BY <1>1 DEF NoDeletedFrame
<1>2. CASE Register \/ Disconnect
  BY <1>2 DEF Register, Disconnect, NoHistory, NoDeletedFrame
<1>3. CASE Write
  <2> DEFINE f == Head(conn.stream)
             written == f.dev = NoDevice \/ Carries(f.dev)
  <2>1. /\ conn.stream # <<>> /\ conn'.made = conn.made
        /\ hist' =
              IF ~written THEN hist
              ELSE [hist EXCEPT
                      !.got = IF f.kind = "row" /\ f.sub = conn.made
                              THEN @ \cup {f.seq} ELSE @,
                      !.leaked = IF f.dev # NoDevice
                                    /\ deletion[f.dev].step = "done"
                                 THEN @ \cup {f.sub} ELSE @]
    BY <1>0, <1>3 DEF Write, WriteIf, ConnStates
  <2>2. f \in Frames /\ In(f, conn.stream)
    BY <1>0, <2>1, TailIn
  <2> HIDE DEF f
  <2>3. CASE written /\ f.dev # NoDevice /\ deletion[f.dev].step = "done"
    <3>1. f.dev \in Devices /\ Allows(sub, f.dev)
      BY <2>2, <2>3 DEF Frames, Carries
    <3>2. h.step = "recheck"
      BY <2>3, <3>1 DEF OutOfFilter, PastFilter
    <3>3. f.sub < conn.made /\ f.sub \in Nat
      BY <2>2, <2>3, <3>2 DEF FramesOfMade, Frames
    <3>4. hist'.leaked = hist.leaked \cup {f.sub}
      BY <1>0, <2>1, <2>3 DEF Histories
    <3> QED BY <1>0, <2>1, <3>3, <3>4 DEF NoDeletedFrame
  <2>4. CASE ~(written /\ f.dev # NoDevice /\ deletion[f.dev].step = "done")
    <3>1. hist'.leaked = hist.leaked
      BY <1>0, <2>1, <2>4 DEF Histories
    <3> QED BY <1>1, <2>1, <3>1
  <2> QED BY <2>3, <2>4
<1>4. CASE Pump
  BY <1>0, <1>1, <1>4 DEF Pump, PumpLag, PumpClearLag, PumpTellLag, PumpTake,
    PumpRefuse, PumpReadBack, PumpReadBackFails, PumpPush, PumpEnded,
    PumpGone, Push, ConnStates, Histories
<1>5. CASE \/ Grant \/ RegisterConflict \/ Recheck \/ ReadMark
           \/ ReadMarkFails \/ ReadPage \/ ReadPageFails \/ ReplayReached
           \/ PageRow \/ PageEnd \/ Handover \/ HandlerGone
           \/ RecheckFails \/ Teardown
           \/ \E id \in 1 .. MaxSubs : PushEnded(id)
  BY <1>0, <1>1, <1>5 DEF Grant, RegisterConflict, Recheck, ReadMark,
    ReadMarkFails, ReadPage, ReadPageFails, ReplayReached, PageRow,
    PageEnd, Handover, HandlerGone, RecheckFails, Teardown, PushEnded,
    Becomes, ConnStates, Histories
<1>6. CASE ReplayBegin \/ EmitRow \/ ReplayEnd
  BY <1>0, <1>1, <1>6 DEF ReplayBegin, EmitRow, ReplayEnd, Push, ConnStates,
    Histories
<1>7. ASSUME NEW w \in Workers, Ingest(w) \/ Publishing(w)
      PROVE  hist'.leaked = hist.leaked /\ conn'.made = conn.made
  BY <1>0, <1>7 DEF Ingest, Publishing, Store, StoreDuplicate, Publish,
    PublishOffer, Becomes, Histories
<1>8. ASSUME NEW d \in Devices,
             PublishEphemeral(d) \/ DeleteCommit(d) \/ Deleting(d)
      PROVE  hist'.leaked = hist.leaked /\ conn'.made = conn.made
  BY <1>0, <1>8 DEF PublishEphemeral, DeleteCommit, Deleting, DropDevice,
    DropDeviceFrom, Becomes, Histories
<1>9. CASE UNCHANGED vars
  BY <1>1, <1>9 DEF vars
<1> QED BY <1>1, <1>2, <1>3, <1>4, <1>5, <1>6, <1>7, <1>8, <1>9,
    StreamAssumption DEF Next, Handler

(* No frame of a subscription carries a number whose deletion has finished,
   however its filter, its replay, the bus and the writer interleave with the
   deletion (bus.drop, handleSubscribe's second look, writeLoop's carries). *)
THEOREM NoFrameOfDeleted == Spec => []NoDeletedFrame
<1>1. Init => /\ PumpWaits /\ EventsKnown /\ OutOfFilter /\ FramesOfMade
              /\ NoDeletedFrame
  <2> SUFFICES ASSUME Init
               PROVE  PumpWaits /\ OutOfFilter /\ FramesOfMade
                      /\ NoDeletedFrame /\ EventsKnown
    OBVIOUS
  <2>5. h.step = "idle" /\ hist.leaked = {}
    BY DEF Init, Idle, NoHistory
  <2>6. sub.filter = {}
    BY DEF Init, ClosedSubscription, NewSubscription
  <2>7. conn.stream = <<>>
    BY DEF Init
  <2>2. PumpWaits /\ NoDeletedFrame
    BY <2>5 DEF PumpWaits, NoDeletedFrame
  <2>3. OutOfFilter
    BY <2>6 DEF OutOfFilter, Allows
  <2>4. \A f : ~In(f, conn.stream)
    BY <2>7 DEF In
  <2>8. EventsKnown
    <3>1. p.ev = NoEvent /\ sub.buffer = <<>> /\ sub.queue = <<>>
      BY DEF Init, NoPump, ClosedSubscription, NewSubscription
    <3> QED BY <3>1 DEF EventsKnown, Known, NoEvent, Holds, In
  <2> QED BY <2>2, <2>3, <2>4, <2>8 DEF FramesOfMade
<1>2. ASSUME Inv, PumpWaits, EventsKnown, OutOfFilter, FramesOfMade,
             NoDeletedFrame, [Next]_vars
      PROVE  /\ PumpWaits' /\ EventsKnown' /\ OutOfFilter' /\ FramesOfMade'
             /\ NoDeletedFrame'
  BY <1>2, PumpWaitsStep, EventsKnownStep, OutOfFilterStep,
     FramesOfMadeStep, NoDeletedFrameStep
<1> QED BY <1>1, <1>2, StreamInvariant, PTL DEF Spec

-----------------------------------------------------------------------------
(* Nothing is lost in silence. *)

(* The steps of the handler between the watermark and the handover. *)
Replaying == {"begin", "read", "page", "emit", "handover"}

(* A worker, or a pump, with nothing in hand names nothing. *)
EmptyHands ==
    /\ \A w \in Workers : worker[w].step = "idle" => worker[w].seq = 0
    /\ p.step \in {"none", "select"} => p.ev = NoEvent

(* A live connection keeps hold of its subscription until it is closed: what
   the writer is to send of it, it carries. *)
CarriesItsOwn == conn.live /\ conn.sub = 0 => sub.closed

(* Every event dropped since the lag mark was cleared is noted. *)
DropsNoted == conn.live => sub.dropped \subseteq hist.missed \cup hist.told

(* Where the replay stands: behind the watermark, itself of the archive, with
   the bus holding events back. *)
Cursors ==
    /\ h.step \in {"granted", "recheck", "mark"} => h.since <= Len(rows)
    /\ h.step \in {"recheck", "mark"} /\ conn.live => hist.since = h.since
    /\ h.step \in {"recheck", "mark"} \cup Replaying =>
         sub.replaying /\ hist.gap = {}
    /\ h.step \in Replaying => h.last <= h.mark /\ h.mark <= Len(rows)
    /\ h.step \in {"page", "emit"} =>
         h.last <= h.horizon /\ h.horizon <= h.mark

(* What the replay has passed is with the client or before the writer: the
   handover discards buffered events on the strength of that. *)
Covered ==
    Streaming /\ h.step \in Replaying =>
        \A n \in 1 .. h.mark :
            Wanted(n) => n \in hist.got \/ InStream(n) \/ ToReplay(n)

LossInv ==
    /\ PumpWaits /\ EventsKnown /\ FramesKnown
    /\ EmptyHands /\ CarriesItsOwn /\ DropsNoted /\ Cursors /\ Covered
    /\ NoSilentLoss

(* The paths of NoSilentLoss, one by one. *)
Accounted(n) == Settled(n) \/ n \in hist.missed

AtIngest(n) ==
    \E w \in Workers :
        /\ worker[w].seq = n
        /\ worker[w].step = "offering" => worker[w].sub = conn.made

InBus(n) == \E e : Holds(sub, e) /\ e.seq = n

AtReplay(n) == h.step \in {"recheck", "mark"} \/ ToReplay(n)

Safe(n) ==
    \/ Accounted(n) \/ AtIngest(n) \/ InBus(n) \/ p.ev.seq = n \/ AtReplay(n)
    \/ InStream(n)

(* An entry is safe when one of the paths has it. *)
LEMMA SafeIsOnItsWay ==
  ASSUME NEW n
  PROVE  Safe(n) <=> Settled(n) \/ n \in hist.missed \/ OnItsWay(n)
<1>1. n \in Seqs(sub.buffer) \cup Seqs(sub.queue) <=> InBus(n)
  BY DEF Seqs, InBus, Holds, In
<1> QED BY <1>1 DEF Safe, Accounted, AtIngest, AtReplay, OnItsWay

(* A frame of an entry waits for the writer if it is in the stream. *)
LEMMA InStreamIsIn ==
  ASSUME NEW n
  PROVE  InStream(n) <=> \E f : /\ In(f, conn.stream) /\ f.kind = "row"
                                /\ f.sub = conn.made /\ f.seq = n
BY DEF InStream, In

(* What a step may undo: the history only grows, until the connection ends
   or subscribes again. *)
LEMMA HistoryGrows ==
  ASSUME Inv, Cursors, [Next]_vars, conn'.made = conn.made, conn'.live
  PROVE  /\ conn.live
         /\ hist.failed => hist'.failed
         /\ hist.got \subseteq hist'.got
         /\ hist.skipped \subseteq hist'.skipped
         /\ hist.gap \subseteq hist'.gap
         /\ hist.told \subseteq hist'.told
         /\ hist.missed \subseteq hist'.missed \cup hist'.told
         /\ ~ReadMark => hist'.since = hist.since
<1> DEFINE Goal == /\ conn.live
                   /\ hist.failed => hist'.failed
                   /\ hist.got \subseteq hist'.got
                   /\ hist.skipped \subseteq hist'.skipped
                   /\ hist.gap \subseteq hist'.gap
                   /\ hist.told \subseteq hist'.told
                   /\ hist.missed \subseteq hist'.missed \cup hist'.told
                   /\ ~ReadMark => hist'.since = hist.since
<1> SUFFICES Goal
  OBVIOUS
<1>0. conn \in ConnStates /\ hist \in Histories
  BY DEF Inv, TypeOK
<1>1. ASSUME hist' = hist, conn'.live => conn.live PROVE Goal
  BY <1>1
<1>2. ASSUME NEW t, Becomes(t), conn' = conn PROVE Goal
  BY <1>0, <1>2 DEF Becomes, Histories
<1>3. CASE ReadMark
  BY <1>0, <1>3 DEF ReadMark, Histories
<1>4. CASE ReadMarkFails
  BY <1>0, <1>4 DEF ReadMarkFails, Histories
<1>5. CASE Handover
  BY <1>0, <1>5 DEF Handover, Histories, Cursors, Replaying
<1>6. CASE EmitRow
  BY <1>0, <1>6 DEF EmitRow, Push, Histories, ConnStates
<1>7. CASE PumpTellLag
  BY <1>0, <1>7 DEF PumpTellLag, Push, Histories, ConnStates
<1>8. CASE PumpReadBackFails
  BY <1>0, <1>8 DEF PumpReadBackFails, Histories
<1>9. CASE Write
  BY <1>0, <1>9 DEF Write, WriteIf, Histories, ConnStates
<1>10. CASE Disconnect
  BY <1>0, <1>10 DEF Disconnect, ConnStates
<1>11. CASE Register
  BY <1>11, MadeOnlyByRegister DEF Inv, TypeOK, ConnStates
<1>12. CASE Recheck
  BY <1>2, <1>12 DEF Recheck
<1>13. ASSUME NEW w \in Workers, PublishOffer(w) PROVE Goal
  BY <1>2, <1>13 DEF PublishOffer
<1>14. ASSUME NEW d \in Devices, PublishEphemeral(d) \/ DropDeviceFrom(d)
       PROVE  Goal
  BY <1>2, <1>14 DEF PublishEphemeral, DropDeviceFrom
<1>15. CASE \/ Grant \/ RegisterConflict \/ RecheckFails \/ ReplayBegin
            \/ ReadPage \/ ReadPageFails \/ ReplayReached \/ PageRow
            \/ PageEnd \/ ReplayEnd \/ HandlerGone \/ PumpLag
            \/ PumpClearLag \/ PumpTake \/ PumpRefuse \/ PumpReadBack
            \/ PumpPush \/ PumpEnded \/ PumpGone \/ Teardown
            \/ \E id \in 1 .. MaxSubs : PushEnded(id)
  <2>1. hist' = hist
    BY <1>15 DEF Grant, RegisterConflict, RecheckFails, ReplayBegin, ReadPage,
      ReadPageFails, ReplayReached, PageRow, PageEnd, ReplayEnd, HandlerGone,
      PumpLag, PumpClearLag, PumpTake, PumpRefuse, PumpReadBack, PumpPush,
      PumpEnded, PumpGone, Teardown, PushEnded
  <2>2. conn'.live => conn.live
    BY <1>0, <1>15 DEF Grant, RegisterConflict, RecheckFails, ReplayBegin,
      ReadPage, ReadPageFails, ReplayReached, PageRow, PageEnd, ReplayEnd,
      HandlerGone, PumpLag, PumpClearLag, PumpTake, PumpRefuse, PumpReadBack,
      PumpPush, PumpEnded, PumpGone, Teardown, PushEnded, Push, ConnStates
  <2> QED BY <2>1, <2>2, <1>1
<1>16. ASSUME NEW w \in Workers, Ingest(w) \/ Publish(w) PROVE Goal
  <2>1. UNCHANGED <<conn, hist>>
    BY <1>16 DEF Ingest, Store, StoreDuplicate, Publish
  <2> QED BY <2>1, <1>1
<1>17. ASSUME NEW d \in Devices, DeleteCommit(d) \/ DropDevice(d) PROVE Goal
  <2>1. UNCHANGED <<conn, hist>>
    BY <1>17 DEF DeleteCommit, DropDevice
  <2> QED BY <2>1, <1>1
<1>18. CASE UNCHANGED vars
  BY <1>1, <1>18 DEF vars
<1> HIDE DEF Goal
<1> QED BY <1>3, <1>4, <1>5, <1>6, <1>7, <1>8, <1>9, <1>10, <1>11, <1>12,
    <1>13, <1>14, <1>15, <1>16, <1>17, <1>18, StreamAssumption
  DEF Next, Publishing, Deleting, Handler, Pump

(* A deleted number stays out of sight. *)
LEMMA VisibleShrinks ==
  ASSUME Inv, [Next]_vars
  PROVE  Visible' \subseteq Visible
<1>0. deletion \in [Devices -> DeletionStates]
  BY DEF Inv, TypeOK
<1>1. CASE deletion' = deletion
  BY <1>1 DEF Visible
<1>2. ASSUME NEW d \in Devices, DeleteCommit(d) \/ Deleting(d)
      PROVE  Visible' \subseteq Visible
  BY <1>0, <1>2 DEF DeleteCommit, Deleting, DropDevice, DropDeviceFrom,
    Visible, DeletionStates
<1>3. ASSUME NEW w \in Workers, Ingest(w) \/ Publishing(w)
      PROVE  deletion' = deletion
  BY <1>3 DEF Ingest, Publishing, Store, StoreDuplicate, Publish, PublishOffer
<1>4. ASSUME NEW d \in Devices, PublishEphemeral(d)
      PROVE  deletion' = deletion
  BY <1>4 DEF PublishEphemeral
<1>5. CASE Grant \/ Handler
  BY <1>1, <1>5 DEF Grant, Handler, Register, RegisterConflict, Recheck,
    RecheckFails, ReadMark, ReadMarkFails, ReplayBegin, ReadPage,
    ReadPageFails, ReplayReached, PageRow, EmitRow, PageEnd, Handover,
    ReplayEnd, HandlerGone
<1>6. CASE Pump
  BY <1>1, <1>6 DEF Pump, PumpLag, PumpClearLag, PumpTellLag, PumpTake,
    PumpRefuse, PumpReadBack, PumpReadBackFails, PumpPush, PumpEnded,
    PumpGone
<1>7. CASE (\E id \in 1 .. MaxSubs : PushEnded(id)) \/ Write \/ Disconnect
           \/ Teardown
  BY <1>1, <1>7 DEF PushEnded, Write, WriteIf, Disconnect, Teardown
<1>8. CASE UNCHANGED vars
  BY <1>1, <1>8 DEF vars
<1> QED BY <1>1, <1>2, <1>3, <1>4, <1>5, <1>6, <1>7, <1>8, StreamAssumption
  DEF Next

(* What the client is owed after a step of the same subscription it was owed
   before it, but for an entry the step stored. *)
LEMMA WantedBefore ==
  ASSUME Inv, Cursors, [Next]_vars, conn'.made = conn.made,
         hist'.since = hist.since, Streaming',
         NEW n \in 1 .. Len(rows), Wanted(n)'
  PROVE  Streaming /\ Wanted(n)
<1>0. rows \in Seq(Entries) /\ Len(rows) \in Nat /\ hist.since \in Nat
  BY DEF Inv, TypeOK, Histories
<1>1. conn.live /\ ~hist.failed
  BY HistoryGrows DEF Streaming
<1>2. rows'[n] = rows[n] /\ Len(rows') \in Nat
  BY RowsGrow
<1>3. n \in hist.since + 1 .. Len(rows) /\ rows[n].cls # "none"
  BY <1>0, <1>2 DEF Wanted
<1>4. rows[n].dev \in sub'.filter /\ rows[n].dev \in Visible
  BY <1>2, VisibleShrinks DEF Wanted
<1>5. Allows(sub', rows[n].dev)
  BY <1>4 DEF Allows, Streaming
<1>6. Allows(sub, rows[n].dev)
  BY <1>5, BusTakesIn DEF TakesIn
<1> QED BY <1>1, <1>3, <1>4, <1>6 DEF Allows, Streaming, Wanted

(* Workers and the pump name nothing once they are done. *)
LEMMA EmptyHandsStep ==
  ASSUME Inv, EmptyHands, [Next]_vars
  PROVE  EmptyHands'
<1>0. worker \in [Workers -> WorkerStates] /\ p \in PumpStates
  BY DEF Inv, TypeOK
<1> USE DEF EmptyHands
<1>1. ASSUME p' = p, worker' = worker PROVE EmptyHands'
  BY <1>1
<1>2. ASSUME NEW w \in Workers, Ingest(w) \/ Publishing(w) PROVE EmptyHands'
  <2>1. p' = p
    BY <1>2 DEF Ingest, Publishing, Store, StoreDuplicate, Publish, PublishOffer
  <2>2. \A v \in Workers : worker'[v].step = "idle" => worker'[v].seq = 0
    <3>1. CASE Ingest(w)
      <4>1. ASSUME NEW d, NEW c, Store(w, d, c)
            PROVE  \A v \in Workers :
                      worker'[v].step = "idle" => worker'[v].seq = 0
        BY <1>0, <4>1 DEF Store, WorkerStates
      <4>2. ASSUME NEW d, StoreDuplicate(w, d) PROVE worker' = worker
        BY <4>2 DEF StoreDuplicate
      <4> QED BY <3>1, <4>1, <4>2 DEF Ingest
    <3>2. CASE Publish(w)
      BY <1>0, <3>2 DEF Publish, WorkerStates
    <3>3. CASE PublishOffer(w)
      BY <1>0, <3>3 DEF PublishOffer, WorkerStates
    <3> QED BY <1>2, <3>1, <3>2, <3>3 DEF Publishing
  <2> QED BY <2>1, <2>2
<1>3. CASE Pump
  <2>1. worker' = worker
    BY <1>3 DEF Pump, PumpLag, PumpClearLag, PumpTellLag, PumpTake,
      PumpRefuse, PumpReadBack, PumpReadBackFails, PumpPush, PumpEnded,
      PumpGone
  <2>2. p'.step \in {"none", "select"} => p'.ev = NoEvent
    <3>1. CASE PumpLag \/ PumpTellLag
      BY <1>0, <3>1 DEF PumpLag, PumpTellLag, AfterLag, PumpStates
    <3>2. CASE PumpClearLag \/ PumpTake \/ PumpReadBack
      BY <1>0, <3>2 DEF PumpClearLag, PumpTake, PumpReadBack, PumpStates
    <3>3. CASE PumpRefuse \/ PumpReadBackFails \/ PumpPush
      BY <1>0, <3>3 DEF PumpRefuse, PumpReadBackFails, PumpPush, PumpStates
    <3>4. CASE PumpEnded \/ PumpGone
      BY <3>4 DEF PumpEnded, PumpGone, NoPump
    <3> QED BY <1>3, <3>1, <3>2, <3>3, <3>4 DEF Pump
  <2> QED BY <2>1, <2>2
<1>4. CASE Register \/ ReplayEnd
  BY <1>4 DEF Register, ReplayEnd, NoPump
<1> HIDE DEF EmptyHands
<1>5. CASE \/ Grant \/ RegisterConflict \/ Recheck \/ RecheckFails
           \/ ReadMark \/ ReadMarkFails \/ ReplayBegin \/ ReadPage
           \/ ReadPageFails \/ ReplayReached \/ PageRow \/ EmitRow
           \/ PageEnd \/ Handover \/ HandlerGone
  BY <1>1, <1>5 DEF Grant, RegisterConflict, Recheck, RecheckFails, ReadMark,
    ReadMarkFails, ReplayBegin, ReadPage, ReadPageFails, ReplayReached,
    PageRow, EmitRow, PageEnd, Handover, HandlerGone
<1>6. CASE (\E id \in 1 .. MaxSubs : PushEnded(id)) \/ Write \/ Disconnect
           \/ Teardown
  BY <1>1, <1>6 DEF PushEnded, Write, WriteIf, Disconnect, Teardown
<1>7. ASSUME NEW d \in Devices,
             PublishEphemeral(d) \/ DeleteCommit(d) \/ Deleting(d)
      PROVE  EmptyHands'
  BY <1>1, <1>7 DEF PublishEphemeral, DeleteCommit, Deleting, DropDevice,
    DropDeviceFrom
<1>8. CASE UNCHANGED vars
  BY <1>1, <1>8 DEF vars
<1> QED BY <1>2, <1>3, <1>4, <1>5, <1>6, <1>7, <1>8, StreamAssumption
    DEF Next, Handler

(* What a step keeps of the subscription, until the next registration: what
   was closed stays closed, what drops is noted, and only the handler's last
   steps end the replay. *)
Keeps ==
    /\ sub.closed => sub'.closed
    /\ sub'.dropped \subseteq sub.dropped \cup hist'.missed
    /\ sub'.replaying = sub.replaying \/ ReadMark \/ ReadMarkFails \/ Handover

LEMMA BusKeeps ==
  ASSUME Inv, [Next]_vars, conn'.made = conn.made
  PROVE  Keeps
<1>0. Held(sub) /\ sub \in Subscriptions /\ hist \in Histories
  BY DEF Inv, TypeOK
<1> USE DEF Keeps
<1>1. CASE sub' = sub
  BY <1>1
<1>2. ASSUME NEW t, KeepsTelling(sub, t), Becomes(t) PROVE Keeps
  BY <1>0, <1>2 DEF KeepsTelling, Becomes, Histories
<1>3. CASE \/ \E w \in Workers : PublishOffer(w)
           \/ \E d \in Devices : PublishEphemeral(d) \/ DropDeviceFrom(d)
           \/ Recheck
  <2> HIDE DEF Keeps
  <2> QED BY <1>2, <1>3, BusSteps
<1>4. CASE RecheckFails \/ PumpEnded \/ Teardown
  BY <1>0, <1>4
  DEF RecheckFails, PumpEnded, Teardown, Close, Subscriptions
<1>5. CASE ReadMark \/ ReadMarkFails \/ Handover
  <2>1. ASSUME NEW through, sub' = EndReplay(sub, through) PROVE Keeps
    <3>1. sub'.dropped = sub.dropped
      BY <2>1, HandoverSteps
    <3>2. sub'.closed = sub.closed
      BY <1>0, <2>1, EndReplayHolds
    <3> QED BY <1>5, <3>1, <3>2
  <2> HIDE DEF Keeps
  <2> QED BY <1>1, <1>5, <2>1 DEF ReadMark, ReadMarkFails, Handover
<1>6. CASE PumpClearLag
  BY <1>0, <1>6 DEF PumpClearLag, ClearLag, Subscriptions
<1>7. CASE PumpTake
  BY <1>0, <1>7 DEF PumpTake, Subscriptions
<1> HIDE DEF Keeps
<1>8. ASSUME NEW w \in Workers, Ingest(w) \/ Publish(w) PROVE sub' = sub
  BY <1>8 DEF Ingest, Store, StoreDuplicate, Publish
<1>9. ASSUME NEW d \in Devices, DeleteCommit(d) \/ DropDevice(d)
      PROVE  sub' = sub
  BY <1>9 DEF DeleteCommit, DropDevice
<1>10. CASE \/ Grant \/ RegisterConflict \/ ReplayBegin \/ ReadPage
            \/ ReadPageFails \/ ReplayReached \/ PageRow \/ EmitRow
            \/ PageEnd \/ ReplayEnd \/ HandlerGone \/ PumpLag
            \/ PumpTellLag \/ PumpRefuse \/ PumpReadBack
            \/ PumpReadBackFails \/ PumpPush \/ PumpGone \/ Write
            \/ Disconnect \/ \E id \in 1 .. MaxSubs : PushEnded(id)
  <2>1. sub' = sub
    BY <1>10 DEF Grant, RegisterConflict, ReplayBegin, ReadPage,
      ReadPageFails, ReplayReached, PageRow, EmitRow, PageEnd, ReplayEnd,
      HandlerGone, PumpLag, PumpTellLag, PumpRefuse, PumpReadBack,
      PumpReadBackFails, PumpPush, PumpGone, Write, WriteIf, Disconnect,
      PushEnded
  <2> QED BY <2>1, <1>1
<1>11. CASE UNCHANGED vars
  BY <1>1, <1>11 DEF vars
<1>12. ~Register
  BY MadeOnlyByRegister DEF Inv, TypeOK, ConnStates
<1> QED BY <1>1, <1>3, <1>4, <1>5, <1>6, <1>7, <1>8, <1>9, <1>10, <1>11,
    <1>12, StreamAssumption
  DEF Next, Publishing, Deleting, Handler, Pump

(* What drops is noted, and stays noted until it is told. *)
LEMMA DropsNotedStep ==
  ASSUME Inv, Cursors, DropsNoted, [Next]_vars
  PROVE  DropsNoted'
<1>1. CASE Register
  BY <1>1 DEF Register, NewSubscription, DropsNoted
<1>2. CASE ~Register
  <2> SUFFICES ASSUME conn'.live
               PROVE  sub'.dropped \subseteq hist'.missed \cup hist'.told
    BY DEF DropsNoted
  <2>1. conn'.made = conn.made
    BY <1>2, MadeOnlyByRegister
  <2>2. Keeps
    BY <2>1, BusKeeps
  <2>3. /\ conn.live /\ hist.told \subseteq hist'.told
        /\ hist.missed \subseteq hist'.missed \cup hist'.told
    BY <2>1, HistoryGrows
  <2> QED BY <2>2, <2>3 DEF Keeps, DropsNoted
<1> QED BY <1>1, <1>2

(* A live connection's subscription is taken off it only with its close. *)
LEMMA CarriesItsOwnStep ==
  ASSUME Inv, Cursors, CarriesItsOwn, [Next]_vars
  PROVE  CarriesItsOwn'
<1>0. conn \in ConnStates /\ conn.made \in Nat /\ sub \in Subscriptions
  BY DEF Inv, TypeOK, ConnStates
<1>1. CASE Register
  <2>1. conn'.sub = conn.made + 1
    BY <1>0, <1>1 DEF Register, ConnStates
  <2> QED BY <1>0, <2>1 DEF CarriesItsOwn
<1>2. CASE RecheckFails \/ PumpEnded
  BY <1>0, <1>2 DEF RecheckFails, PumpEnded, Close, Subscriptions,
    CarriesItsOwn
<1>3. CASE Teardown
  BY <1>0, <1>3 DEF Teardown, ConnStates, CarriesItsOwn
<1>4. ASSUME ~Register, conn'.sub = conn.sub PROVE CarriesItsOwn'
  BY <1>4, MadeOnlyByRegister, HistoryGrows, BusKeeps DEF CarriesItsOwn, Keeps
<1>5. CASE Handler /\ ~Register /\ ~RecheckFails
  BY <1>0, <1>4, <1>5 DEF Handler, RegisterConflict, Recheck, ReadMark,
    ReadMarkFails, ReplayBegin, ReadPage, ReadPageFails, ReplayReached,
    PageRow, EmitRow, PageEnd, Handover, ReplayEnd, HandlerGone, Push,
    ConnStates
<1>6. CASE Pump /\ ~PumpEnded
  BY <1>0, <1>4, <1>6, MadeOnlyByRegister
  DEF Pump, PumpLag, PumpClearLag, PumpTellLag, PumpTake, PumpRefuse,
      PumpReadBack, PumpReadBackFails, PumpPush, PumpGone, Push, ConnStates,
      Register
<1>7. CASE (\E id \in 1 .. MaxSubs : PushEnded(id)) \/ Write \/ Disconnect
  <2>1. conn'.sub = conn.sub /\ conn'.made = conn.made
    BY <1>0, <1>7 DEF PushEnded, Write, WriteIf, Disconnect, ConnStates
  <2> QED BY <1>0, <1>4, <2>1, MadeOnlyByRegister
<1>8. ASSUME NEW w \in Workers, Ingest(w) \/ Publishing(w)
      PROVE  conn' = conn
  BY <1>8 DEF Ingest, Publishing, Store, StoreDuplicate, Publish, PublishOffer
<1>9. ASSUME NEW d \in Devices,
             PublishEphemeral(d) \/ DeleteCommit(d) \/ Deleting(d)
      PROVE  conn' = conn
  BY <1>9 DEF PublishEphemeral, DeleteCommit, Deleting, DropDevice,
    DropDeviceFrom
<1>10. ASSUME Grant \/ UNCHANGED vars PROVE conn' = conn
  BY <1>10 DEF Grant, vars
<1> QED BY <1>1, <1>2, <1>3, <1>4, <1>5, <1>6, <1>7, <1>8, <1>9, <1>10,
    StreamAssumption DEF Next, Handler, Pump

(* The replay's cursors stay where they belong. *)
LEMMA CursorsStep ==
  ASSUME Inv, Cursors, [Next]_vars
  PROVE  Cursors'
<1>0. /\ rows \in Seq(Entries) /\ Len(rows) \in Nat /\ h \in HandlerStates
      /\ hist \in Histories /\ conn \in ConnStates /\ h.since \in Nat
      /\ h.last \in Nat /\ h.mark \in Nat /\ h.horizon \in Nat
  BY DEF Inv, TypeOK, HandlerStates
<1>1. ASSUME h' = h, ~Register, hist'.gap \in {hist.gap, {}} PROVE Cursors'
  <2>1. conn'.made = conn.made /\ Keeps
    BY <1>1, MadeOnlyByRegister, BusKeeps
  <2>2. ~ReadMark /\ ~ReadMarkFails /\ ~Handover
    <3>1. ReadMark => h.step = "mark" /\ h'.step \in {"begin", "end"}
      BY <1>0 DEF ReadMark, HandlerStates
    <3>2. ReadMarkFails => h.step = "mark" /\ h'.step = "idle"
      BY DEF ReadMarkFails, Idle
    <3>3. Handover => h.step = "handover" /\ h'.step = "end"
      BY <1>0 DEF Handover, HandlerStates
    <3> QED BY <1>1, <3>1, <3>2, <3>3
  <2>3. sub'.replaying = sub.replaying
    BY <2>1, <2>2 DEF Keeps
  <2>4. conn'.live => conn.live /\ hist'.since = hist.since
    BY <2>1, <2>2, HistoryGrows
  <2>5. Len(rows') \in Nat /\ Len(rows) <= Len(rows')
    BY RowsGrow
  <2> QED BY <1>0, <1>1, <2>3, <2>4, <2>5 DEF Cursors
<1>2. CASE Grant
  BY <1>0, <1>2 DEF Grant, Idle, Cursors, Replaying
<1>3. CASE Register
  <2>1. /\ h'.step = "recheck" /\ h'.since = h.since
        /\ sub'.replaying = TRUE /\ hist'.gap = {} /\ hist'.since = h.since
        /\ rows' = rows /\ h.since <= Len(rows)
    BY <1>0, <1>3
    DEF Register, NewSubscription, NoHistory, HandlerStates, Cursors
  <2> QED BY <2>1 DEF Cursors, Replaying
<1>4. CASE RegisterConflict \/ RecheckFails \/ ReadMarkFails \/ ReplayEnd
           \/ HandlerGone
  <2>1. h'.step = "idle"
    BY <1>4 DEF RegisterConflict, RecheckFails, ReadMarkFails, ReplayEnd,
      HandlerGone, Idle
  <2> QED BY <2>1 DEF Cursors, Replaying
<1>5. CASE Recheck
  <2>1. /\ h.step = "recheck" /\ h'.step = "mark" /\ h'.since = h.since
        /\ UNCHANGED <<conn, rows>>
        /\ hist'.since = hist.since /\ hist'.gap = hist.gap
    BY <1>0, <1>5 DEF Recheck, Becomes, HandlerStates, Histories
  <2>2. sub'.replaying = sub.replaying
    BY <1>5, <2>1, BusKeeps
    DEF Keeps, Recheck, ReadMark, ReadMarkFails, Handover
  <2> QED BY <2>1, <2>2 DEF Cursors, Replaying
<1>6. CASE ReadMark
  <2>1. CASE h.live
    <3>1. h'.step = "end"
      BY <1>0, <1>6, <2>1 DEF ReadMark, HandlerStates
    <3> QED BY <3>1 DEF Cursors, Replaying
  <2>2. CASE ~h.live
    <3>1. /\ h.step = "mark" /\ h'.step = "begin" /\ h'.last = h.since
          /\ h'.mark = Len(rows) /\ UNCHANGED <<sub, hist, rows>>
      BY <1>0, <1>6, <2>2 DEF ReadMark, HandlerStates
    <3> QED BY <3>1 DEF Cursors, Replaying
  <2> QED BY <2>1, <2>2
<1>7. CASE Handover
  <2>1. h'.step = "end"
    BY <1>0, <1>7 DEF Handover, HandlerStates
  <2> QED BY <2>1 DEF Cursors, Replaying
<1>8. CASE ReplayBegin \/ ReadPageFails \/ ReplayReached
  <2>1. /\ h.step \in {"begin", "read"} /\ h'.step \in {"read", "handover"}
        /\ h'.last = h.last /\ h'.mark = h.mark
        /\ UNCHANGED <<sub, hist, rows>>
    BY <1>0, <1>8 DEF ReplayBegin, ReadPageFails, ReplayReached, HandlerStates
  <2> QED BY <2>1 DEF Cursors, Replaying
<1>9. CASE PageRow \/ EmitRow
  <2>1. /\ h.step \in {"page", "emit"} /\ h'.step \in {"page", "emit"}
        /\ h'.last = h.last /\ h'.mark = h.mark /\ h'.horizon = h.horizon
        /\ UNCHANGED <<sub, rows>> /\ hist'.gap = hist.gap
    BY <1>0, <1>9 DEF PageRow, EmitRow, HandlerStates, Histories
  <2> QED BY <2>1 DEF Cursors, Replaying
<1>10. CASE PageEnd
  <2>1. /\ h.step = "page" /\ h'.step \in {"read", "handover"}
        /\ h'.last \in {h.last, h.horizon} /\ h'.mark = h.mark
        /\ UNCHANGED <<sub, rows, hist>>
    BY <1>0, <1>10 DEF PageEnd, HandlerStates
  <2> QED BY <2>1 DEF Cursors, Replaying
<1>11. CASE ReadPage
  <2> DEFINE msgs == MessagesSince(rows, h.last, Visible)
             acks == ReceiptsSince(rows, h.last, Visible)
             top == Horizon(h.mark, msgs, acks)
  <2>1. /\ msgs \subseteq h.last + 1 .. Len(rows)
        /\ acks.batches \subseteq h.last + 1 .. Len(rows)
    BY <1>0, PagesPastCursor
  <2>2. h.last <= h.mark /\ h.step = "read"
    BY <1>11 DEF ReadPage, Cursors, Replaying
  <2>3. /\ UNCHANGED <<sub, rows, hist>> /\ h'.last = h.last /\ h'.mark = h.mark
        /\ \/ h'.step = "handover"
           \/ h'.step = "page" /\ h'.horizon = top
    BY <1>0, <1>11 DEF ReadPage, HandlerStates
  <2> HIDE DEF msgs, acks, top
  <2>4. top <= h.mark /\ h.last <= top
    <3>1. msgs \subseteq 1 .. Len(rows) /\ acks.batches \subseteq 1 .. Len(rows)
      BY <1>0, <2>1
    <3> QED BY <1>0, <2>1, <2>2, <3>1, HorizonBounded DEF top
  <2> QED BY <2>2, <2>3, <2>4 DEF Cursors, Replaying
<1>12. ASSUME NEW w \in Workers, Ingest(w) \/ Publishing(w) PROVE Cursors'
  <2>1. h' = h /\ hist'.gap = hist.gap /\ conn' = conn
    BY <1>0, <1>12 DEF Ingest, Publishing, Store, StoreDuplicate, Publish,
      PublishOffer, Becomes, Histories
  <2> QED BY <1>0, <1>1, <2>1, MadeOnlyByRegister DEF ConnStates
<1>13. ASSUME NEW d \in Devices,
             PublishEphemeral(d) \/ DeleteCommit(d) \/ Deleting(d)
       PROVE  Cursors'
  <2>1. h' = h /\ hist'.gap = hist.gap /\ conn' = conn
    BY <1>0, <1>13 DEF PublishEphemeral, DeleteCommit, Deleting, DropDevice,
    DropDeviceFrom, Becomes, Histories
  <2> QED BY <1>0, <1>1, <2>1, MadeOnlyByRegister DEF ConnStates
<1>14. CASE Pump
  <2>1. h' = h /\ hist'.gap = hist.gap
    BY <1>0, <1>14 DEF Pump, PumpLag, PumpClearLag, PumpTellLag, PumpTake,
      PumpRefuse, PumpReadBack, PumpReadBackFails, PumpPush, PumpEnded,
      PumpGone, Histories
  <2>2. ~Register
    BY <1>0, <2>1 DEF Register, HandlerStates
  <2> QED BY <1>1, <2>1, <2>2
<1>15. CASE (\E id \in 1 .. MaxSubs : PushEnded(id)) \/ Write
            \/ Disconnect \/ Teardown
  <2>1. h' = h /\ hist'.gap \in {hist.gap, {}}
    <3>1. ASSUME NEW written, WriteIf(written)
          PROVE  h' = h /\ hist'.gap = hist.gap
      BY <1>0, <3>1 DEF WriteIf, Histories
    <3>2. CASE Write
      BY <3>1, <3>2 DEF Write
    <3>3. CASE (\E id \in 1 .. MaxSubs : PushEnded(id)) \/ Teardown
      BY <3>3 DEF PushEnded, Teardown
    <3>4. CASE Disconnect
      BY <3>4 DEF Disconnect, NoHistory
    <3> QED BY <1>15, <3>2, <3>3, <3>4
  <2>2. ~Register
    BY <1>0, <2>1 DEF Register, HandlerStates
  <2> QED BY <1>1, <2>1, <2>2
<1>16. CASE UNCHANGED vars
  BY <1>16 DEF vars, Cursors
<1> QED BY <1>2, <1>3, <1>4, <1>5, <1>6, <1>7, <1>8, <1>9, <1>10, <1>11,
    <1>12, <1>13, <1>14, <1>15, <1>16, StreamAssumption DEF Next, Handler

(* Only the writer takes frames off the stream, while the connection lives. *)
LEMMA StreamKeeps ==
  ASSUME Inv, [Next]_vars, ~Write, conn'.live, NEW f, In(f, conn.stream)
  PROVE  In(f, conn'.stream)
<1>0. conn \in ConnStates /\ conn.stream \in Seq(Frames)
  BY DEF Inv, TypeOK, ConnStates
<1>1. CASE conn'.stream = conn.stream
  BY <1>1
<1>2. ASSUME NEW g, g \in Frames, Push(g) PROVE In(f, conn'.stream)
  BY <1>0, <1>2, PushAdds
<1>3. ASSUME NEW kind \in {"begin", "row", "eph", "end", "lag", "ended"},
             NEW n \in Nat, NEW d \in Devices \cup {NoDevice},
             Push(Frame(kind, conn.made, n, d))
      PROVE  In(f, conn'.stream)
  <2>1. Frame(kind, conn.made, n, d) \in Frames
    BY <1>0, PushedFrame DEF ConnStates
  <2> QED BY <1>2, <1>3, <2>1
<1>4. CASE ReplayBegin \/ ReplayEnd \/ PumpTellLag
  <2>1. h.mark \in Nat /\ h.last \in Nat /\ p.from \in Nat
    BY DEF Inv, TypeOK, HandlerStates, PumpStates
  <2> QED BY <1>3, <1>4, <2>1 DEF ReplayBegin, ReplayEnd, PumpTellLag
<1>5. CASE EmitRow
  <2> DEFINE n == Min(h.page)
  <2>1. /\ h.page # {} /\ h.page \subseteq 1 .. Len(rows)
        /\ rows \in Seq(Entries) /\ Len(rows) \in Nat
    BY <1>5 DEF EmitRow, Inv, TypeOK, PageInArchive
  <2>2. h.page \subseteq Nat
    BY <2>1
  <2>3. n \in Nat /\ n \in 1 .. Len(rows)
    BY <2>1, <2>2, MinExists
  <2>4. rows[n] \in Entries
    BY <2>1, <2>3
  <2>5. Push(Frame("row", conn.made, n, rows[n].dev))
    BY <1>5 DEF EmitRow
  <2> HIDE DEF n
  <2> QED BY <1>3, <2>3, <2>4, <2>5 DEF Entries
<1>6. CASE PumpPush
  <2> DEFINE kind == IF p.ev.eph THEN "eph" ELSE "row"
  <2>1. p.ev.seq \in Nat /\ p.ev.dev \in Devices \cup {NoDevice}
    <3>1. p.ev \in Events \cup {NoEvent}
      BY DEF Inv, TypeOK, PumpStates
    <3>2. CASE p.ev \in Events
      BY <3>2 DEF Events
    <3>3. CASE p.ev = NoEvent
      BY <3>3 DEF NoEvent
    <3> QED BY <3>1, <3>2, <3>3
  <2>2. kind \in {"begin", "row", "eph", "end", "lag", "ended"}
    OBVIOUS
  <2>3. Push(Frame(kind, conn.made, p.ev.seq, p.ev.dev))
    BY <1>6 DEF PumpPush
  <2> HIDE DEF kind
  <2> QED BY <1>3, <2>1, <2>2, <2>3
<1>7. ASSUME NEW id \in 1 .. MaxSubs, PushEnded(id)
      PROVE  In(f, conn'.stream)
  <2> DEFINE g == Frame("ended", id, 0, NoDevice)
             q == Append(conn.stream, g)
  <2>1. g \in Frames
    BY PushedFrame, StreamAssumption
  <2> HIDE DEF g
  <2>2. In(f, q)
    BY <1>0, <2>1, AppendIn
  <2>3. \/ conn' = [conn EXCEPT !.ending = @ \ {id}]
        \/ conn' = [conn EXCEPT !.ending = @ \ {id}, !.stream = q]
    BY <1>7 DEF PushEnded, g
  <2> HIDE DEF q
  <2> QED BY <1>0, <2>2, <2>3 DEF ConnStates
<1>8. ~Disconnect
  BY <1>0 DEF Disconnect, ConnStates
<1>9. CASE Register \/ RecheckFails \/ PumpEnded \/ Teardown
  BY <1>0, <1>1, <1>9
  DEF Register, RecheckFails, PumpEnded, Teardown, ConnStates
<1>10. CASE \/ Grant \/ RegisterConflict \/ Recheck \/ ReadMark
            \/ ReadMarkFails \/ ReadPage \/ ReadPageFails \/ ReplayReached
            \/ PageRow \/ PageEnd \/ Handover \/ HandlerGone \/ PumpLag
            \/ PumpClearLag \/ PumpTake \/ PumpRefuse \/ PumpReadBack
            \/ PumpReadBackFails \/ PumpGone
  <2>1. conn' = conn
    BY <1>10 DEF Grant, RegisterConflict, Recheck, ReadMark, ReadMarkFails,
      ReadPage, ReadPageFails, ReplayReached, PageRow, PageEnd, Handover,
      HandlerGone, PumpLag, PumpClearLag, PumpTake, PumpRefuse, PumpReadBack,
      PumpReadBackFails, PumpGone
  <2> QED BY <1>1, <2>1
<1>11. ASSUME NEW w \in Workers, Ingest(w) \/ Publishing(w)
       PROVE  conn' = conn
  BY <1>11 DEF Ingest, Publishing, Store, StoreDuplicate, Publish, PublishOffer
<1>12. ASSUME NEW d \in Devices,
              PublishEphemeral(d) \/ DeleteCommit(d) \/ Deleting(d)
       PROVE  conn' = conn
  BY <1>12 DEF PublishEphemeral, DeleteCommit, Deleting, DropDevice,
    DropDeviceFrom
<1>13. CASE UNCHANGED vars
  BY <1>1, <1>13 DEF vars
<1> QED BY <1>1, <1>4, <1>5, <1>6, <1>7, <1>8, <1>9, <1>10, <1>11, <1>12,
    <1>13, StreamAssumption DEF Next, Handler, Pump

(* The frame of an entry the client is owed stays before the writer, or the
   writer lets it through. *)
LEMMA StreamDelivers ==
  ASSUME Inv, FramesKnown, CarriesItsOwn, [Next]_vars,
         conn'.made = conn.made, conn'.live,
         NEW n, InStream(n), Streaming, Wanted(n)
  PROVE  n \in hist'.got \/ InStream(n)'
<1>0. conn \in ConnStates /\ conn.stream \in Seq(Frames) /\ hist \in Histories
  BY DEF Inv, TypeOK, ConnStates
<1>1. PICK f : /\ In(f, conn.stream) /\ f.kind = "row"
               /\ f.sub = conn.made /\ f.seq = n
  BY InStreamIsIn
<1>2. CASE In(f, conn'.stream)
  BY <1>1, <1>2 DEF InStream, In
<1>3. CASE Write /\ ~In(f, conn'.stream)
  <2> DEFINE g == Head(conn.stream)
             written == g.dev = NoDevice \/ Carries(g.dev)
             q == Tail(conn.stream)
  <2>1. /\ conn.stream # <<>> /\ conn'.stream = q
        /\ hist' =
              IF ~written THEN hist
              ELSE [hist EXCEPT
                      !.got = IF g.kind = "row" /\ g.sub = conn.made
                              THEN @ \cup {g.seq} ELSE @,
                      !.leaked = IF g.dev # NoDevice
                                    /\ deletion[g.dev].step = "done"
                                 THEN @ \cup {g.sub} ELSE @]
    BY <1>0, <1>3 DEF Write, WriteIf, ConnStates
  <2>2. In(f, q) \/ f = g
    BY <1>0, <1>1, <2>1, TailIn
  <2> HIDE DEF q, g
  <2>3. f = g
    BY <1>3, <2>1, <2>2
  <2>4. Carries(g.dev)
    <3>1. g.dev = rows[n].dev
      BY <1>1, <2>3 DEF FramesKnown
    <3> QED BY <3>1 DEF Carries, Allows, Streaming, Serving, CarriesItsOwn,
          Wanted
  <2> QED BY <1>0, <1>1, <2>1, <2>3, <2>4 DEF Histories
<1> QED BY <1>1, <1>2, <1>3, StreamKeeps

(* Only the handler moves the replay. *)
LEMMA HandlerOnly ==
  ASSUME Inv, [Next]_vars
  PROVE  h' = h \/ Grant \/ Handler
<1>1. ASSUME NEW w \in Workers, Ingest(w) \/ Publishing(w) PROVE h' = h
  BY <1>1 DEF Ingest, Publishing, Store, StoreDuplicate, Publish, PublishOffer
<1>2. ASSUME NEW d \in Devices,
             PublishEphemeral(d) \/ DeleteCommit(d) \/ Deleting(d)
      PROVE  h' = h
  BY <1>2 DEF PublishEphemeral, DeleteCommit, Deleting, DropDevice,
    DropDeviceFrom
<1>3. CASE Pump
  BY <1>3 DEF Pump, PumpLag, PumpClearLag, PumpTellLag, PumpTake, PumpRefuse,
    PumpReadBack, PumpReadBackFails, PumpPush, PumpEnded, PumpGone
<1>4. CASE (\E id \in 1 .. MaxSubs : PushEnded(id)) \/ Write \/ Disconnect
           \/ Teardown
  BY <1>4 DEF PushEnded, Write, WriteIf, Disconnect, Teardown
<1>5. CASE UNCHANGED vars
  BY <1>5 DEF vars
<1> QED BY <1>1, <1>2, <1>3, <1>4, <1>5, StreamAssumption DEF Next

(* The steps that are no part of the replay leave the handler outside it. *)
LEMMA OutsideReplay ==
  ASSUME Inv,
         \/ Grant \/ RegisterConflict \/ Register \/ Recheck \/ RecheckFails
         \/ ReadMarkFails \/ Handover \/ ReplayEnd \/ HandlerGone
  PROVE  h'.step \notin Replaying
<1>0. h \in HandlerStates
  BY DEF Inv, TypeOK
<1> USE DEF Replaying
<1>1. CASE RegisterConflict \/ RecheckFails \/ ReadMarkFails \/ ReplayEnd
           \/ HandlerGone
  BY <1>1 DEF RegisterConflict, RecheckFails, ReadMarkFails, ReplayEnd,
    HandlerGone, Idle
<1>2. CASE Grant
  BY <1>2 DEF Grant, Idle
<1>3. CASE Register \/ Recheck \/ Handover
  <2>1. h'.step \in {"recheck", "mark", "end"}
    BY <1>0, <1>3 DEF Register, Recheck, Handover, HandlerStates
  <2> QED BY <2>1
<1> QED BY <1>1, <1>2, <1>3

(* What the replay has yet to reach it still has yet to reach, or puts before
   the writer, until the handover. *)
LEMMA ReplayReaches ==
  ASSUME Inv, Cursors, [Next]_vars, ~Handover, h.step \in Replaying,
         h'.step \in Replaying,
         Streaming, NEW n \in 1 .. Len(rows), Wanted(n), ToReplay(n)
  PROVE  ToReplay(n)' \/ InStream(n)'
<1>0. /\ rows \in Seq(Entries) /\ Len(rows) \in Nat /\ h \in HandlerStates
      /\ conn \in ConnStates
      /\ h.last \in Nat /\ h.mark \in Nat /\ h.horizon \in Nat
      /\ h.page \subseteq Nat /\ rows[n] \in Entries
      /\ h.last <= h.mark
  BY DEF Inv, TypeOK, HandlerStates, Cursors
<1>1. CASE h' = h
  BY <1>1 DEF ToReplay
<1>2. CASE ReplayBegin \/ ReadPageFails \/ ReplayReached
  <2>1. /\ h.step \in {"begin", "read"} /\ h'.step \in {"read", "handover"}
        /\ h'.last = h.last /\ h'.mark = h.mark
    BY <1>0, <1>2 DEF ReplayBegin, ReadPageFails, ReplayReached, HandlerStates
  <2> QED BY <2>1 DEF ToReplay
<1>3. CASE ReadPage
  <2> DEFINE msgs == MessagesSince(rows, h.last, Visible)
             acks == ReceiptsSince(rows, h.last, Visible)
             top == Horizon(h.mark, msgs, acks)
             page == {m \in msgs \cup acks.batches : m <= top}
  <2>1. h.step = "read" /\ n \in h.last + 1 .. h.mark
    BY <1>3 DEF ReadPage, ToReplay
  <2>2. /\ msgs \subseteq 1 .. Len(rows) /\ acks.batches \subseteq 1 .. Len(rows)
    BY <1>0, PagesInArchive
  <2>3. top \in Nat
    <3> HIDE DEF msgs, acks
    <3> QED BY <1>0, <2>2, HorizonBounded
  <2>4. n \in msgs \cup acks.batches \/ n > top
    <3>1. n \in h.last + 1 .. Len(rows)
      BY <1>0, <2>1
    <3>2. rows[n].cls \in {"msg", "ack"} /\ rows[n].dev \in Visible
      BY <1>0 DEF Wanted, Entries
    <3> QED BY <1>0, <3>1, <3>2, PageCovers
  <2>5. \/ h' = [h EXCEPT !.step = "handover"]
        \/ h' = [h EXCEPT !.step = "page", !.horizon = top, !.page = page]
    BY <1>3 DEF ReadPage
  <2> HIDE DEF msgs, acks, top
  <2>6. n \in page \/ n \in top + 1 .. h.mark
    BY <1>0, <2>1, <2>3, <2>4
  <2> HIDE DEF page
  <2>7. \/ h'.step = "handover" /\ h'.last = h.last /\ h'.mark = h.mark
        \/ h'.step = "page" /\ h'.horizon = top /\ h'.page = page
           /\ h'.mark = h.mark
    BY <1>0, <2>5 DEF HandlerStates
  <2> QED BY <2>1, <2>6, <2>7 DEF ToReplay
<1>4. CASE PageRow
  <2>1. /\ h.step = "page" /\ h'.horizon = h.horizon /\ h'.mark = h.mark
        /\ h'.step \in {"page", "emit"}
        /\ \/ h'.page = h.page
           \/ /\ h'.page = h.page \ {Min(h.page)}
              /\ ~Allows(sub, rows[Min(h.page)].dev)
    BY <1>0, <1>4 DEF PageRow, HandlerStates
  <2>2. Allows(sub, rows[n].dev)
    BY DEF Wanted, Allows, Streaming
  <2> QED BY <2>1, <2>2 DEF ToReplay
<1>5. CASE EmitRow
  <2>1. /\ h.step = "emit" /\ h'.horizon = h.horizon /\ h'.mark = h.mark
        /\ h'.step = "page" /\ h'.page = h.page \ {Min(h.page)}
    BY <1>0, <1>5 DEF EmitRow, HandlerStates
  <2>2. CASE n = Min(h.page)
    <3> DEFINE f == Frame("row", conn.made, n, rows[n].dev)
    <3>1. /\ f \in Frames /\ f.kind = "row" /\ f.sub = conn.made /\ f.seq = n
      <4>1. conn.made \in Nat /\ n \in Nat /\ rows[n].dev \in Devices
        BY <1>0 DEF ConnStates, Entries
      <4> QED BY <4>1, PushedFrame
    <3>2. Push(f)
      BY <1>5, <2>2 DEF EmitRow
    <3> HIDE DEF f
    <3>3. In(f, conn'.stream) /\ conn'.made = conn.made
      BY <1>0, <3>1, <3>2, PushAdds
    <3> QED BY <3>1, <3>3 DEF InStream, In
  <2>3. CASE n # Min(h.page)
    BY <2>1, <2>3 DEF ToReplay
  <2> QED BY <2>2, <2>3
<1>6. CASE PageEnd
  <2>1. /\ h.step = "page" /\ h.page = {} /\ h'.mark = h.mark
        /\ \/ h'.step = "handover" /\ h'.last = h.last /\ h.horizon <= h.last
           \/ h'.step = "read" /\ h'.last = h.horizon
    BY <1>0, <1>6 DEF PageEnd, HandlerStates
  <2>2. n \in h.horizon + 1 .. h.mark
    BY <2>1 DEF ToReplay
  <2>3. h.last <= h.horizon
    BY <2>1 DEF Cursors
  <2>4. n \in h'.last + 1 .. h.mark
    BY <1>0, <2>1, <2>2, <2>3
  <2> QED BY <2>1, <2>4 DEF ToReplay
<1>7. CASE Grant \/ RegisterConflict \/ RecheckFails \/ ReadMarkFails
           \/ ReplayEnd \/ HandlerGone \/ Register \/ Recheck \/ ReadMark
  <2>1. h'.step \notin Replaying \/ h.step \notin Replaying
    BY <1>7, OutsideReplay DEF ReadMark, Replaying
  <2> QED BY <2>1
<1> QED BY <1>1, <1>2, <1>3, <1>4, <1>5, <1>6, <1>7, HandlerOnly DEF Handler

(* Every step of the replay keeps what it has passed in hand. *)
LEMMA CoveredStep ==
  ASSUME Inv, LossInv, [Next]_vars
  PROVE  Covered'
<1>0. /\ rows \in Seq(Entries) /\ Len(rows) \in Nat /\ h \in HandlerStates
      /\ conn \in ConnStates /\ hist \in Histories
      /\ h.last \in Nat /\ h.mark \in Nat /\ h.since \in Nat
      /\ Cursors /\ FramesKnown /\ CarriesItsOwn /\ Covered
  BY DEF Inv, TypeOK, HandlerStates, LossInv
<1> SUFFICES ASSUME Streaming', h'.step \in Replaying,
                    NEW n \in 1 .. h'.mark, Wanted(n)'
             PROVE  n \in hist'.got \/ InStream(n)' \/ ToReplay(n)'
  BY DEF Covered
<1>1. CASE ReadMark
  <2>1. /\ h.step = "mark" /\ h'.step = "begin" /\ h'.last = h.since
        /\ h'.mark = Len(rows) /\ UNCHANGED <<sub, hist, rows, conn>>
    BY <1>0, <1>1 DEF ReadMark, HandlerStates, Replaying
  <2>2. hist.since = h.since
    BY <1>0, <2>1 DEF Cursors, Streaming
  <2>3. n \in hist'.since + 1 .. Len(rows)
    BY <2>1 DEF Wanted
  <2> QED BY <1>0, <2>1, <2>2, <2>3 DEF ToReplay
<1>2. CASE ~ReadMark
  <2>1. h.step \in Replaying /\ h'.mark = h.mark /\ ~Register /\ ~Handover
    <3>1. CASE h' = h
      BY <1>0, <3>1 DEF Register, Handover, HandlerStates
    <3>2. CASE \/ ReplayBegin \/ ReadPage \/ ReadPageFails \/ ReplayReached
               \/ PageRow \/ EmitRow \/ PageEnd
      <4>1. h.step \in Replaying \ {"handover"} /\ h'.mark = h.mark
        BY <1>0, <3>2 DEF ReplayBegin, ReadPage, ReadPageFails, ReplayReached,
          PageRow, EmitRow, PageEnd, HandlerStates, Replaying
      <4> QED BY <4>1 DEF Register, Handover, Replaying
    <3>3. CASE Grant \/ RegisterConflict \/ RecheckFails \/ ReadMarkFails
               \/ ReplayEnd \/ HandlerGone \/ Register \/ Recheck \/ Handover
      <4>1. h'.step \notin Replaying
        BY <3>3, OutsideReplay
      <4> QED BY <4>1
    <3> QED BY <1>2, <3>1, <3>2, <3>3, HandlerOnly DEF Handler
  <2>2. conn'.made = conn.made /\ conn'.live
    BY <2>1, MadeOnlyByRegister DEF Streaming
  <2>3. hist'.since = hist.since /\ hist.got \subseteq hist'.got
    BY <1>0, <1>2, <2>2, HistoryGrows
  <2>4. n \in 1 .. Len(rows)
    BY <1>0, <2>1 DEF Cursors
  <2>5. Streaming /\ Wanted(n)
    BY <1>0, <2>2, <2>3, <2>4, WantedBefore
  <2>6. n \in hist.got \/ InStream(n) \/ ToReplay(n)
    BY <1>0, <2>1, <2>5 DEF Covered
  <2>7. InStream(n) => n \in hist'.got \/ InStream(n)'
    BY <1>0, <2>2, <2>5, StreamDelivers
  <2>8. ToReplay(n) => ToReplay(n)' \/ InStream(n)'
    BY <1>0, <2>1, <2>4, <2>5, ReplayReaches
  <2> QED BY <2>3, <2>6, <2>7, <2>8
<1> QED BY <1>1, <1>2

(* Entry n is owed to the client, whose subscription is served. *)
Owed(n) == n \in 1 .. Len(rows) /\ Streaming /\ Wanted(n)

(* The number of a waiting event is one the bus holds. *)
LEMMA SeqsIn ==
  ASSUME NEW n, NEW q
  PROVE  n \in Seqs(q) <=> \E e : In(e, q) /\ e.seq = n
BY DEF Seqs, In

(* What is with the client, or told, or noted, stays so. *)
LEMMA AccountedStays ==
  ASSUME Inv, LossInv, [Next]_vars, conn'.made = conn.made, conn'.live,
         NEW n, Accounted(n)
  PROVE  Accounted(n)'
BY HistoryGrows DEF LossInv, Accounted, Settled

(* An entry the replay has yet to reach is reached, or lies in the gap the
   handover reports. *)
LEMMA ReplayHands ==
  ASSUME Inv, LossInv, [Next]_vars, ~Register, ~ReadMark,
         NEW n, Owed(n), Owed(n)', AtReplay(n)
  PROVE  Safe(n)'
<1>0. /\ h \in HandlerStates /\ hist \in Histories /\ Cursors
      /\ n \in 1 .. Len(rows) /\ Streaming /\ Wanted(n) /\ conn.live
      /\ ~hist'.failed /\ ~sub'.closed
  BY DEF Inv, TypeOK, LossInv, Owed, Streaming, Serving
<1>1. CASE h.step \in {"recheck", "mark"}
  <2>1. CASE h' = h
    BY <1>1, <2>1 DEF Safe, AtReplay
  <2>2. CASE Recheck
    <3>1. h'.step = "mark"
      BY <1>0, <2>2 DEF Recheck, HandlerStates
    <3> QED BY <3>1 DEF Safe, AtReplay
  <2>3. ~RecheckFails
    <3>1. sub \in Subscriptions
      BY DEF Inv, TypeOK
    <3> QED BY <1>0, <3>1 DEF RecheckFails, Close, Subscriptions
  <2>4. ~ReadMarkFails
    BY <1>0 DEF ReadMarkFails, Histories
  <2> QED BY <1>1, <2>1, <2>2, <2>3, <2>4, HandlerOnly
        DEF Handler, Grant, RegisterConflict, ReplayBegin, ReadPage,
            ReadPageFails, ReplayReached, PageRow, EmitRow, PageEnd,
            Handover, ReplayEnd, HandlerGone
<1>2. CASE ToReplay(n)
  <2>1. h.step \in Replaying
    BY <1>2 DEF ToReplay, Replaying
  <2>2. CASE Handover
    <3>1. n \in h.last + 1 .. h.mark
      BY <1>2, <2>2 DEF ToReplay, Handover
    <3>2. hist'.gap = (h.last + 1) .. h.mark
      BY <1>0, <2>2 DEF Handover, Histories
    <3> QED BY <3>1, <3>2 DEF Safe, Accounted, Settled
  <2>3. CASE ~Handover /\ h'.step \in Replaying
    <3>1. ToReplay(n)' \/ InStream(n)'
      BY <1>0, <1>2, <2>1, <2>3, ReplayReaches
    <3> QED BY <3>1 DEF Safe, AtReplay
  <2>4. CASE ~Handover /\ h'.step \notin Replaying
    <3>1. h' # h
      BY <2>1, <2>4
    <3>2. ~(\/ Grant \/ RegisterConflict \/ Recheck \/ RecheckFails
            \/ ReadMarkFails \/ ReplayEnd \/ HandlerGone)
      BY <1>0, <2>1 DEF Grant, RegisterConflict, Recheck, RecheckFails,
        ReadMarkFails, ReplayEnd, HandlerGone, Replaying
    <3>3. \/ ReplayBegin \/ ReadPage \/ ReadPageFails \/ ReplayReached
          \/ PageRow \/ EmitRow \/ PageEnd
      BY <2>4, <3>1, <3>2, HandlerOnly DEF Handler
    <3>4. h'.step \in Replaying
      BY <1>0, <3>3 DEF ReplayBegin, ReadPage, ReadPageFails, ReplayReached,
        PageRow, EmitRow, PageEnd, HandlerStates, Replaying
    <3> QED BY <2>4, <3>4
  <2> QED BY <2>2, <2>3, <2>4
<1> QED BY <1>1, <1>2 DEF AtReplay

(* An entry an ingest has yet to offer is offered: the bus takes it, or
   notes the drop. *)
LEMMA IngestHands ==
  ASSUME Inv, LossInv, [Next]_vars, ~Register,
         NEW n, Owed(n), Owed(n)', AtIngest(n)
  PROVE  Safe(n)'
<1>0. /\ worker \in [Workers -> WorkerStates] /\ hist \in Histories
      /\ Held(sub) /\ rows \in Seq(Entries) /\ Len(rows) \in Nat
      /\ n \in 1 .. Len(rows) /\ Streaming /\ Wanted(n)
      /\ conn'.made = conn.made
  BY MadeOnlyByRegister DEF Inv, TypeOK, Owed
<1>1. PICK w \in Workers :
         /\ worker[w].seq = n
         /\ worker[w].step = "offering" => worker[w].sub = conn.made
  BY DEF AtIngest
<1>2. worker[w].step # "idle" /\ worker[w] \in WorkerStates
  BY <1>0, <1>1 DEF LossInv, EmptyHands
<1>3. CASE worker'[w] = worker[w]
  BY <1>0, <1>1, <1>3 DEF Safe, AtIngest
<1>4. CASE Publish(w)
  <2>1. worker'[w].seq = n /\ worker'[w].sub = Registered
    BY <1>0, <1>1, <1>4 DEF Publish, WorkerStates
  <2>2. Registered = conn.made
    BY <1>0 DEF Registered, Streaming, Serving
  <2> QED BY <1>0, <2>1, <2>2 DEF Safe, AtIngest
<1>5. CASE PublishOffer(w)
  <2> DEFINE ev == [seq |-> n, dev |-> rows[n].dev, eph |-> FALSE]
  <2>1. Becomes(Offer(sub, ev))
    BY <1>1, <1>2, <1>5 DEF PublishOffer
  <2>2. rows[n] \in Entries
    BY <1>0
  <2>3. ev \in Events /\ ev.seq = n /\ ~ev.eph /\ ev.dev = rows[n].dev
    BY <1>0, <2>2 DEF Events, Entries
  <2> HIDE DEF ev
  <2>4. Allows(sub, ev.dev)
    BY <1>0, <2>3 DEF Allows, Streaming, Wanted
  <2>5. Holds(sub', ev) \/ n \in sub'.dropped
    BY <1>0, <2>1, <2>3, <2>4, OfferHolds DEF Becomes
  <2>6. n \in sub'.dropped => n \in sub.dropped \/ n \in hist'.missed
    BY <1>0, <2>1 DEF Becomes, Histories
  <2>7. n \in sub.dropped => Accounted(n)
    BY <1>0 DEF LossInv, DropsNoted, Streaming, Accounted, Settled
  <2>8. Accounted(n) => Accounted(n)'
    BY <1>0, AccountedStays DEF Owed, Streaming
  <2> QED BY <2>3, <2>5, <2>6, <2>7, <2>8 DEF Safe, InBus, Accounted
<1>6. ASSUME NEW v \in Workers, Ingest(v) \/ Publishing(v)
      PROVE  worker'[w] = worker[w] \/ Publish(w) \/ PublishOffer(w)
  <2>1. CASE v = w
    <3>1. Ingest(w) => worker'[w] = worker[w]
      BY <1>2 DEF Ingest, Store, StoreDuplicate
    <3> QED BY <1>6, <2>1, <3>1 DEF Publishing
  <2>2. CASE v # w
    BY <1>0, <1>6, <2>2 DEF Ingest, Publishing, Store, StoreDuplicate,
      Publish, PublishOffer
  <2> QED BY <2>1, <2>2
<1>7. ASSUME NEW d \in Devices,
             PublishEphemeral(d) \/ DeleteCommit(d) \/ Deleting(d)
      PROVE  worker' = worker
  BY <1>7 DEF PublishEphemeral, DeleteCommit, Deleting, DropDevice,
    DropDeviceFrom
<1>8. CASE Grant \/ Handler
  BY <1>3, <1>8 DEF Grant, Handler, Register, RegisterConflict, Recheck,
    RecheckFails, ReadMark, ReadMarkFails, ReplayBegin, ReadPage,
    ReadPageFails, ReplayReached, PageRow, EmitRow, PageEnd, Handover,
    ReplayEnd, HandlerGone
<1>9. CASE Pump
  BY <1>3, <1>9 DEF Pump, PumpLag, PumpClearLag, PumpTellLag, PumpTake,
    PumpRefuse, PumpReadBack, PumpReadBackFails, PumpPush, PumpEnded,
    PumpGone
<1>10. CASE (\E id \in 1 .. MaxSubs : PushEnded(id)) \/ Write \/ Disconnect
            \/ Teardown \/ UNCHANGED vars
  BY <1>3, <1>10
  DEF PushEnded, Write, WriteIf, Disconnect, Teardown, vars
<1> QED BY <1>3, <1>4, <1>5, <1>6, <1>7, <1>8, <1>9, <1>10,
    StreamAssumption DEF Next

(* An entry the bus holds stays there, goes to the pump, or is behind what
   the replay has covered. *)
LEMMA BusHands ==
  ASSUME Inv, LossInv, [Next]_vars, ~Register, ~ReadMark,
         NEW n, Owed(n), Owed(n)', InBus(n)
  PROVE  Safe(n)'
<1>0. /\ sub \in Subscriptions /\ Held(sub) /\ h \in HandlerStates
      /\ hist \in Histories /\ p \in PumpStates
      /\ rows \in Seq(Entries) /\ Len(rows) \in Nat /\ n \in 1 .. Len(rows)
      /\ Streaming /\ Wanted(n) /\ ~hist'.failed /\ ~sub'.closed
      /\ Serving(sub) /\ Serving(sub') /\ conn'.made = conn.made /\ conn'.live
  BY MadeOnlyByRegister DEF Inv, TypeOK, Owed, Streaming, Serving
<1>1. PICK e : Holds(sub, e) /\ e.seq = n
  BY DEF InBus
<1>2. ~e.eph /\ e.dev = rows[n].dev
  BY <1>0, <1>1 DEF LossInv, EventsKnown, Known
<1>3. e.dev \in sub.filter /\ e.dev \in sub'.filter
  <2>1. rows'[n] = rows[n]
    BY <1>0, RowsGrow
  <2> QED BY <1>2, <2>1 DEF Owed, Wanted
<1>4. Holds(sub', e) => Safe(n)'
  BY <1>1 DEF Safe, InBus
<1>5. CASE sub' = sub
  BY <1>1, <1>4, <1>5
<1>6. ASSUME Narrows(sub, sub') PROVE Safe(n)'
  BY <1>0, <1>1, <1>3, <1>4, <1>6 DEF Narrows
<1>7. ASSUME NEW ev \in Events, sub' = Offer(sub, ev) PROVE Safe(n)'
  <2>1. Holds(sub', e)
    BY <1>0, <1>1, <1>7, OfferHolds
  <2> QED BY <1>4, <2>1
<1>8. ASSUME NEW w \in Workers, PublishOffer(w) PROVE Safe(n)'
  <2> DEFINE ev == [seq |-> worker[w].seq, dev |-> rows[worker[w].seq].dev,
                    eph |-> FALSE]
  <2>1. worker[w].seq \in 1 .. Len(rows)
    BY <1>8 DEF PublishOffer, Inv, WorkersInArchive
  <2>2. rows[worker[w].seq] \in Entries
    BY <1>0, <2>1
  <2>3. ev \in Events
    BY <1>0, <2>1, <2>2 DEF Events, Entries
  <2>4. sub' = sub \/ sub' = Offer(sub, ev)
    BY <1>8 DEF PublishOffer, Becomes
  <2> HIDE DEF ev
  <2> QED BY <2>3, <2>4, <1>5, <1>7
<1>9. ASSUME NEW d \in Devices, PublishEphemeral(d) PROVE Safe(n)'
  <2> DEFINE ev == [seq |-> 0, dev |-> d, eph |-> TRUE]
  <2>1. ev \in Events /\ sub' = Offer(sub, ev)
    BY <1>9 DEF Events, PublishEphemeral, Becomes
  <2> HIDE DEF ev
  <2> QED BY <2>1, <1>7
<1>10. ASSUME NEW d \in Devices, DropDeviceFrom(d) PROVE Safe(n)'
  <2>1. sub' = sub \/ sub' = Drop(sub, d)
    BY <1>10 DEF DropDeviceFrom, Becomes
  <2> QED BY <2>1, <1>0, <1>5, <1>6, DropNarrows
<1>11. CASE Recheck
  <2>1. sub' = DropAll(sub, h.asked \ Visible)
    BY <1>11 DEF Recheck, Becomes
  <2> QED BY <2>1, <1>0, <1>6, DropAllNarrows
<1>12. CASE Handover
  <2>1. sub' = EndReplay(sub, h.last) /\ h.step = "handover"
    BY <1>12 DEF Handover
  <2>2. sub.replaying /\ h.last \in Nat /\ h.mark \in Nat /\ h.last <= h.mark
    BY <1>0, <2>1 DEF LossInv, Cursors, Replaying, HandlerStates
  <2>3. CASE n > h.last
    <3>1. Holds(sub', e)
      BY <1>0, <1>1, <1>3, <2>1, <2>2, <2>3, EndReplayHolds
    <3> QED BY <1>4, <3>1
  <2>4. CASE n <= h.last
    <3>1. n \in 1 .. h.mark /\ ~ToReplay(n)
      BY <1>0, <2>1, <2>2, <2>4 DEF ToReplay
    <3>2. n \in hist.got \/ InStream(n)
      BY <1>0, <2>1, <3>1 DEF LossInv, Covered, Replaying
    <3>3. n \in hist.got => Accounted(n)'
      BY <1>0, AccountedStays DEF Accounted, Settled
    <3>4. InStream(n) => n \in hist'.got \/ InStream(n)'
      BY <1>0, StreamDelivers DEF LossInv
    <3> QED BY <3>2, <3>3, <3>4 DEF Safe, Accounted, Settled
  <2> QED BY <1>0, <2>2, <2>3, <2>4
<1>13. ~ReadMarkFails
  BY <1>0 DEF ReadMarkFails, Histories
<1>14. CASE RecheckFails \/ PumpEnded \/ Teardown
  <2>1. sub' = sub \/ sub' = Close(sub)
    BY <1>14 DEF RecheckFails, PumpEnded, Teardown
  <2>2. sub' # Close(sub)
    BY <1>0 DEF Close, Subscriptions
  <2> QED BY <1>5, <2>1, <2>2
<1>15. CASE PumpClearLag
  <2>1. Holds(sub', e)
    BY <1>0, <1>1, <1>15 DEF PumpClearLag, ClearLag, Subscriptions, Holds
  <2> QED BY <1>4, <2>1
<1>16. CASE PumpTake
  <2> DEFINE q == Tail(sub.queue)
  <2>1. /\ sub' = [sub EXCEPT !.queue = q] /\ p'.ev = Head(sub.queue)
        /\ In(e, sub.queue) => In(e, q) \/ e = Head(sub.queue)
    BY <1>0, <1>16, TailIn DEF PumpTake, Subscriptions, PumpStates
  <2> HIDE DEF q
  <2>2. Holds(sub', e) \/ p'.ev = e
    BY <1>0, <1>1, <2>1 DEF Subscriptions, Holds
  <2> QED BY <1>1, <1>4, <2>2 DEF Safe
<1>17. ASSUME NEW w \in Workers, Ingest(w) \/ Publish(w) PROVE sub' = sub
  BY <1>17 DEF Ingest, Store, StoreDuplicate, Publish
<1>18. ASSUME NEW d \in Devices, DeleteCommit(d) \/ DropDevice(d)
       PROVE  sub' = sub
  BY <1>18 DEF DeleteCommit, DropDevice
<1>19. CASE \/ Grant \/ RegisterConflict \/ ReplayBegin \/ ReadPage
            \/ ReadPageFails \/ ReplayReached \/ PageRow \/ EmitRow
            \/ PageEnd \/ ReplayEnd \/ HandlerGone \/ PumpLag
            \/ PumpTellLag \/ PumpRefuse \/ PumpReadBack
            \/ PumpReadBackFails \/ PumpPush \/ PumpGone \/ Write
            \/ Disconnect \/ \E id \in 1 .. MaxSubs : PushEnded(id)
  <2>1. sub' = sub
    BY <1>19 DEF Grant, RegisterConflict, ReplayBegin, ReadPage,
      ReadPageFails, ReplayReached, PageRow, EmitRow, PageEnd, ReplayEnd,
      HandlerGone, PumpLag, PumpTellLag, PumpRefuse, PumpReadBack,
      PumpReadBackFails, PumpPush, PumpGone, Write, WriteIf, Disconnect,
      PushEnded
  <2> QED BY <2>1, <1>5
<1>20. CASE UNCHANGED vars
  BY <1>5, <1>20 DEF vars
<1> QED BY <1>5, <1>8, <1>9, <1>10, <1>11, <1>12, <1>13, <1>14, <1>15,
    <1>16, <1>17, <1>18, <1>19, <1>20, StreamAssumption
  DEF Next, Publishing, Deleting, Handler, Pump

(* An entry the pump has is pushed, or logged as unreadable. *)
LEMMA PumpHands ==
  ASSUME Inv, LossInv, [Next]_vars, ~Register,
         NEW n, Owed(n), Owed(n)', p.ev.seq = n
  PROVE  Safe(n)'
<1>0. /\ p \in PumpStates /\ hist \in Histories /\ conn \in ConnStates
      /\ rows \in Seq(Entries) /\ Len(rows) \in Nat /\ n \in 1 .. Len(rows)
      /\ Streaming /\ Wanted(n) /\ conn.live
  BY DEF Inv, TypeOK, Owed, Streaming
<1>1. p.ev # NoEvent /\ p.step \notin {"none", "select"}
  BY <1>0 DEF LossInv, EmptyHands, NoEvent
<1>2. ~p.ev.eph /\ p.ev.dev = rows[n].dev /\ Allows(sub, p.ev.dev)
  BY <1>0 DEF LossInv, EventsKnown, Known, Streaming, Wanted, Allows
<1>3. CASE p'.ev = p.ev
  BY <1>3 DEF Safe
<1>4. CASE Pump
  <2>1. CASE PumpLag \/ PumpClearLag \/ PumpTellLag \/ PumpReadBack
    BY <1>0, <1>3, <2>1 DEF PumpLag, PumpClearLag, PumpTellLag, PumpReadBack,
      PumpStates
  <2>2. ~PumpTake /\ ~PumpEnded /\ ~PumpGone /\ ~PumpRefuse
    BY <1>0, <1>1, <1>2 DEF PumpTake, PumpEnded, PumpGone, PumpRefuse
  <2>3. CASE PumpReadBackFails
    <3>1. n \in hist'.skipped
      BY <1>0, <2>3 DEF PumpReadBackFails, Histories
    <3> QED BY <3>1 DEF Safe, Accounted, Settled
  <2>4. CASE PumpPush
    <3> DEFINE f == Frame("row", conn.made, n, rows[n].dev)
    <3>0. rows[n] \in Entries
      BY <1>0
    <3>1. conn.made \in Nat /\ n \in Nat /\ rows[n].dev \in Devices
      BY <1>0, <3>0 DEF ConnStates, Entries
    <3>2. /\ f \in Frames /\ f.kind = "row" /\ f.sub = conn.made /\ f.seq = n
      BY <3>1, PushedFrame
    <3>3. Push(f)
      BY <1>2, <2>4 DEF PumpPush
    <3> HIDE DEF f
    <3>4. In(f, conn'.stream) /\ conn'.made = conn.made
      BY <1>0, <3>2, <3>3, PushAdds
    <3> QED BY <3>2, <3>4 DEF Safe, InStream, In
  <2> QED BY <1>4, <2>1, <2>2, <2>3, <2>4 DEF Pump
<1>5. ~ReplayEnd
  BY <1>1 DEF ReplayEnd, LossInv, PumpWaits
<1>6. CASE Grant \/ (Handler /\ ~ReplayEnd)
  BY <1>3, <1>6 DEF Grant, Handler, RegisterConflict, Recheck,
    RecheckFails, ReadMark, ReadMarkFails, ReplayBegin, ReadPage,
    ReadPageFails, ReplayReached, PageRow, EmitRow, PageEnd, Handover,
    HandlerGone
<1>7. CASE (\E id \in 1 .. MaxSubs : PushEnded(id)) \/ Write
           \/ Disconnect \/ Teardown \/ UNCHANGED vars
  BY <1>3, <1>7
  DEF PushEnded, Write, WriteIf, Disconnect, Teardown, vars
<1>8. ASSUME NEW w \in Workers, Ingest(w) \/ Publishing(w) PROVE p' = p
  BY <1>8 DEF Ingest, Publishing, Store, StoreDuplicate, Publish,
    PublishOffer
<1>9. ASSUME NEW d \in Devices,
             PublishEphemeral(d) \/ DeleteCommit(d) \/ Deleting(d)
      PROVE  p' = p
  BY <1>9 DEF PublishEphemeral, DeleteCommit, Deleting, DropDevice,
    DropDeviceFrom
<1> QED BY <1>3, <1>4, <1>5, <1>6, <1>7, <1>8, <1>9, StreamAssumption
    DEF Next

(* Every step hands each entry on along its path. *)
LEMMA NoSilentLossStep ==
  ASSUME Inv, LossInv, [Next]_vars
  PROVE  NoSilentLoss'
<1>0. /\ rows \in Seq(Entries) /\ Len(rows) \in Nat /\ h \in HandlerStates
      /\ worker \in [Workers -> WorkerStates] /\ hist \in Histories
      /\ h.since \in Nat /\ hist.since \in Nat /\ Cursors
  BY DEF Inv, TypeOK, HandlerStates, Histories, LossInv
<1> SUFFICES ASSUME NEW n \in 1 .. Len(rows'), Streaming', Wanted(n)'
             PROVE  Safe(n)'
  <2>1. ASSUME NEW n, Safe(n)'
        PROVE  (Settled(n) \/ n \in hist.missed \/ OnItsWay(n))'
    <3>1. /\ n \in Seqs(sub'.buffer) <=> \E e : In(e, sub'.buffer) /\ e.seq = n
          /\ n \in Seqs(sub'.queue) <=> \E e : In(e, sub'.queue) /\ e.seq = n
      BY SeqsIn
    <3>2. InBus(n)' => n \in Seqs(sub'.buffer) \cup Seqs(sub'.queue)
      BY <3>1 DEF InBus, Holds
    <3> QED BY <2>1, <3>2 DEF Safe, Accounted, AtIngest, AtReplay, OnItsWay
  <2> QED BY <2>1 DEF NoSilentLoss
<1>1. CASE Register
  <2>1. h'.step = "recheck"
    BY <1>0, <1>1 DEF Register, HandlerStates
  <2> QED BY <2>1 DEF Safe, AtReplay
<1>2. CASE ReadMark
  <2>1. rows' = rows /\ n \in hist'.since + 1 .. Len(rows)
    BY <1>2 DEF ReadMark, Wanted
  <2>2. CASE h.live
    <3>1. hist'.since = Len(rows)
      BY <1>0, <1>2, <2>2 DEF ReadMark, Histories
    <3> QED BY <1>0, <2>1, <3>1
  <2>3. CASE ~h.live
    <3>1. /\ h.step = "mark" /\ conn.live /\ hist' = hist
          /\ h'.step = "begin" /\ h'.last = h.since /\ h'.mark = Len(rows)
      BY <1>0, <1>2, <2>3 DEF ReadMark, HandlerStates
    <3>2. hist.since = h.since
      BY <1>0, <3>1 DEF Cursors
    <3> QED BY <2>1, <3>1, <3>2 DEF Safe, AtReplay, ToReplay
  <2> QED BY <2>2, <2>3
<1>3. CASE ~Register /\ ~ReadMark /\ n \in 1 .. Len(rows)
  <2>1. conn'.made = conn.made /\ conn'.live
    BY <1>3, MadeOnlyByRegister DEF Streaming
  <2>2. hist'.since = hist.since
    BY <1>0, <1>3, <2>1, HistoryGrows
  <2>3. Owed(n)
    BY <1>0, <1>3, <2>1, <2>2, WantedBefore DEF Owed
  <2>4. Owed(n)'
    BY DEF Owed
  <2>5. Safe(n)
    BY <2>3, SafeIsOnItsWay DEF LossInv, NoSilentLoss, Owed
  <2>6. CASE Accounted(n)
    BY <2>1, <2>6, AccountedStays DEF Safe
  <2>7. CASE AtIngest(n)
    BY <1>3, <2>3, <2>4, <2>7, IngestHands
  <2>8. CASE InBus(n)
    BY <1>3, <2>3, <2>4, <2>8, BusHands
  <2>9. CASE p.ev.seq = n
    BY <1>3, <2>3, <2>4, <2>9, PumpHands
  <2>10. CASE AtReplay(n)
    BY <1>3, <2>3, <2>4, <2>10, ReplayHands
  <2>11. CASE InStream(n)
    <3>1. n \in hist'.got \/ InStream(n)'
      BY <2>1, <2>3, <2>11, StreamDelivers DEF LossInv, Owed
    <3> QED BY <3>1 DEF Safe, Accounted, Settled
  <2> QED BY <2>5, <2>6, <2>7, <2>8, <2>9, <2>10, <2>11 DEF Safe
<1>4. CASE n \notin 1 .. Len(rows)
  <2>1. ASSUME NEW w \in Workers, NEW d, NEW c, Store(w, d, c)
        PROVE  AtIngest(n)'
    <3>1. n = Len(rows) + 1
      BY <1>0, <1>4, <2>1 DEF Store
    <3>2. worker'[w].seq = n /\ worker'[w].step = "stored"
      BY <1>0, <2>1, <3>1 DEF Store
    <3> QED BY <3>2 DEF AtIngest
  <2>2. ASSUME NEW w \in Workers, NEW d, StoreDuplicate(w, d) PROVE FALSE
    <3>1. n = Len(rows) + 1
      BY <1>0, <1>4, <2>2 DEF StoreDuplicate
    <3>2. rows'[n].cls = "none"
      BY <1>0, <2>2, <3>1 DEF StoreDuplicate
    <3> QED BY <3>2 DEF Wanted
  <2>3. rows' # rows
    BY <1>4
  <2>4. PICK w \in Workers : Ingest(w)
    <3>1. ASSUME NEW w \in Workers, Publishing(w) PROVE rows' = rows
      BY <3>1 DEF Publishing, Publish, PublishOffer
    <3>2. ASSUME NEW d \in Devices,
                 PublishEphemeral(d) \/ DeleteCommit(d) \/ Deleting(d)
          PROVE  rows' = rows
      BY <3>2 DEF PublishEphemeral, DeleteCommit, Deleting, DropDevice,
        DropDeviceFrom
    <3>3. ~(Grant \/ Handler)
      BY <2>3 DEF Grant, Handler, Register, RegisterConflict, Recheck,
        RecheckFails, ReadMark, ReadMarkFails, ReplayBegin, ReadPage,
        ReadPageFails, ReplayReached, PageRow, EmitRow, PageEnd, Handover,
        ReplayEnd, HandlerGone
    <3>4. ~Pump
      BY <2>3 DEF Pump, PumpLag, PumpClearLag, PumpTellLag, PumpTake,
        PumpRefuse, PumpReadBack, PumpReadBackFails, PumpPush, PumpEnded,
        PumpGone
    <3>5. ~((\E id \in 1 .. MaxSubs : PushEnded(id)) \/ Write \/ Disconnect
            \/ Teardown)
      BY <2>3 DEF PushEnded, Write, WriteIf, Disconnect, Teardown
    <3>6. ~UNCHANGED vars
      BY <2>3 DEF vars
    <3> QED BY <2>3, <3>1, <3>2, <3>3, <3>4, <3>5, <3>6, StreamAssumption
          DEF Next
  <2> QED BY <2>1, <2>2, <2>4 DEF Ingest, Safe
<1> QED BY <1>1, <1>2, <1>3, <1>4

(* No entry is lost in silence, whatever the interleaving of commits,
   publishes, registration, watermark, pages, handover and pump, for any
   depth of the queue and any page of two rows or more (bus.offer,
   handleSubscribe, pump, writeLoop). *)
THEOREM NothingLostInSilence == Spec => []NoSilentLoss
<1>1. Init => LossInv
  <2> SUFFICES ASSUME Init PROVE LossInv
    OBVIOUS
  <2>1. /\ h.step = "idle" /\ sub.closed /\ sub.dropped = {}
        /\ sub.buffer = <<>> /\ sub.queue = <<>>
    BY DEF Init, Idle, ClosedSubscription, NewSubscription
  <2>2. p.ev = NoEvent /\ conn.stream = <<>>
    BY DEF Init, NoPump
  <2>3. \A w \in Workers : worker[w].seq = 0
    BY DEF Init
  <2>4. PumpWaits /\ EmptyHands
    BY <2>1, <2>2, <2>3 DEF PumpWaits, EmptyHands
  <2>5. EventsKnown /\ FramesKnown
    BY <2>1, <2>2 DEF EventsKnown, FramesKnown, Known, NoEvent, Holds, In
  <2>6. CarriesItsOwn /\ DropsNoted
    BY <2>1 DEF CarriesItsOwn, DropsNoted
  <2>7. Cursors /\ Covered
    BY <2>1 DEF Cursors, Covered, Replaying
  <2>8. NoSilentLoss
    BY <2>1 DEF NoSilentLoss, Streaming, Serving
  <2> QED BY <2>4, <2>5, <2>6, <2>7, <2>8 DEF LossInv
<1>2. Inv /\ LossInv /\ [Next]_vars => LossInv'
  <2> SUFFICES ASSUME Inv, LossInv, [Next]_vars PROVE LossInv'
    OBVIOUS
  <2>0. /\ PumpWaits /\ EventsKnown /\ FramesKnown /\ EmptyHands
        /\ CarriesItsOwn /\ DropsNoted /\ Cursors
    BY DEF LossInv
  <2>1. PumpWaits' /\ EventsKnown' /\ FramesKnown' /\ EmptyHands'
    BY <2>0, PumpWaitsStep, EventsKnownStep, FramesKnownStep, EmptyHandsStep
  <2>2. CarriesItsOwn' /\ DropsNoted' /\ Cursors'
    BY <2>0, CarriesItsOwnStep, DropsNotedStep, CursorsStep
  <2>3. Covered' /\ NoSilentLoss'
    BY CoveredStep, NoSilentLossStep
  <2> QED BY <2>1, <2>2, <2>3 DEF LossInv
<1>3. LossInv => NoSilentLoss
  BY DEF LossInv
<1> QED BY <1>1, <1>2, <1>3, StreamInvariant, PTL DEF Spec
=============================================================================
