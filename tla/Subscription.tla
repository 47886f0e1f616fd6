---------------------------- MODULE Subscription ----------------------------
(***************************************************************************)
(* One client's stream, as internal/bus keeps it: the value of a           *)
(* bus.Subscription and what each method does to it under its lock.  Every *)
(* operator takes a subscription and returns the one the method leaves.    *)
(*                                                                         *)
(* `dropped' is the set of sequence numbers of the events that did not fit *)
(* since the lag mark was last cleared; the code keeps their number.       *)
(***************************************************************************)
EXTENDS Subsequences

CONSTANTS
    Devices,    \* the tenant's numbers
    Depth       \* queueDepth: events that may wait for one subscriber (512)

ASSUME DepthAssumption == Depth \in Nat \ {0}

(* An ephemeral event (presence, a badge, a chat timer) has no row and
   sequence zero. *)
Events == [seq : Nat, dev : Devices, eph : BOOLEAN]

Subscriptions ==
    [filter : SUBSET Devices, replaying : BOOLEAN, buffer : Seq(Events),
     queue : Seq(Events), closed : BOOLEAN, ended : BOOLEAN,
     lagged : BOOLEAN, laggedAt : Nat, dropped : SUBSET Nat]

(* Bus.Subscribe: replay mode is set before the registration. *)
NewSubscription(devices) ==
    [filter |-> devices, replaying |-> TRUE, buffer |-> <<>>, queue |-> <<>>,
     closed |-> FALSE, ended |-> FALSE,
     lagged |-> FALSE, laggedAt |-> 0, dropped |-> {}]

(* A connection that never subscribed, or whose subscription is over. *)
ClosedSubscription == [NewSubscription({}) EXCEPT !.closed = TRUE]

Serving(s) == ~s.closed /\ ~s.ended

(* Subscription.Allows; an empty filter delivers nothing. *)
Allows(s, d) == Serving(s) /\ d \in s.filter

(* Mutant: an ephemeral event that does not fit marks the lag too. *)
DropLockedEvenEphemeral(s, ev) ==
    [s EXCEPT !.lagged = TRUE,
              !.laggedAt = IF s.lagged THEN s.laggedAt ELSE ev.seq,
              !.dropped = @ \cup {ev.seq}]

(* dropLocked: an ephemeral event goes in silence, and only the first drop
   since the mark was cleared sets where to resume. *)
DropLocked(s, ev) ==
    IF ev.eph THEN s
    ELSE [s EXCEPT !.lagged = TRUE,
                   !.laggedAt = IF s.lagged THEN s.laggedAt ELSE ev.seq,
                   !.dropped = @ \cup {ev.seq}]

(* Mutant: the queue takes one event too many. *)
DeliverOneTooMany(s, ev) ==
    IF ~Serving(s) THEN s
    ELSE IF Len(s.queue) <= Depth THEN [s EXCEPT !.queue = Append(@, ev)]
    ELSE DropLocked(s, ev)

(* deliverLocked: a send that never blocks. *)
DeliverLocked(s, ev) ==
    IF ~Serving(s) THEN s
    ELSE IF Len(s.queue) < Depth THEN [s EXCEPT !.queue = Append(@, ev)]
    ELSE DropLocked(s, ev)

(* Mutant: the buffer takes one event more than the handover can deliver. *)
OfferOneTooMany(s, ev) ==
    IF ~Allows(s, ev.dev) THEN s
    ELSE IF ~s.replaying THEN DeliverLocked(s, ev)
    ELSE IF ev.eph THEN s
    ELSE IF Len(s.buffer) <= Depth THEN [s EXCEPT !.buffer = Append(@, ev)]
    ELSE DropLocked(s, ev)

(* Subscription.offer: held back while history replays, in a buffer bounded
   at what the handover can deliver. *)
Offer(s, ev) ==
    IF ~Allows(s, ev.dev) THEN s
    ELSE IF ~s.replaying THEN DeliverLocked(s, ev)
    ELSE IF ev.eph THEN s
    ELSE IF Len(s.buffer) < Depth THEN [s EXCEPT !.buffer = Append(@, ev)]
    ELSE DropLocked(s, ev)

(* The buffered events of a set of devices. *)
BufferedOf(s, devices) ==
    Subsequence(s.buffer,
                {k \in 1 .. Len(s.buffer) : s.buffer[k].dev \in devices})

(* What the handover releases: the buffered events past what history
   covered, of the devices the filter still has. *)
Released(s, through) ==
    Subsequence(s.buffer,
                {k \in 1 .. Len(s.buffer) : /\ s.buffer[k].seq > through
                                            /\ s.buffer[k].dev \in s.filter})

(* EndReplay: the flag is cleared and the buffer released in one critical
   section.  The reader is not running yet, so what does not fit behind the
   first Depth events is dropped in order. *)
EndReplay(s, through) ==
    LET quiet == [s EXCEPT !.replaying = FALSE, !.buffer = <<>>]
        all   == s.queue \o Released(s, through)
        lost  == SubSeq(all, Depth + 1, Len(all))
    IN IF ~s.replaying \/ ~Serving(s) THEN quiet
       ELSE IF Len(all) <= Depth THEN [quiet EXCEPT !.queue = all]
       ELSE [quiet EXCEPT !.queue = SubSeq(all, 1, Depth),
                          !.lagged = TRUE,
                          !.laggedAt = IF s.lagged THEN s.laggedAt
                                       ELSE Head(lost).seq,
                          !.dropped = @ \cup {lost[k].seq : k \in 1 .. Len(lost)}]

ClearLag(s) == [s EXCEPT !.lagged = FALSE, !.laggedAt = 0, !.dropped = {}]

Close(s) == [s EXCEPT !.closed = TRUE]

(* Subscription.drop: the last device ends the subscription; otherwise the
   filter narrows and the device's held events go with it. *)
Drop(s, d) ==
    IF ~Allows(s, d) THEN s
    ELSE IF s.filter = {d} THEN [s EXCEPT !.ended = TRUE, !.buffer = <<>>]
    ELSE [s EXCEPT !.filter = @ \ {d},
                   !.buffer = BufferedOf(s, Devices \ {d})]

(* handleSubscribe's second look: every device no longer visible goes, one
   Drop after another.  What is offered in between of a device about to go
   goes with it, so the loop is one step here; the filter of an ended
   subscription is never read. *)
DropAll(s, gone) ==
    LET left == s.filter \ gone
    IN IF ~Serving(s) \/ left = s.filter THEN s
       ELSE IF left = {} THEN [s EXCEPT !.ended = TRUE, !.buffer = <<>>]
       ELSE [s EXCEPT !.filter = left,
                      !.buffer = BufferedOf(s, Devices \ gone)]
=============================================================================
