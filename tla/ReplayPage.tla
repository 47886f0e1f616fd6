----------------------------- MODULE ReplayPage -----------------------------
(***************************************************************************)
(* What one round of a subscription's replay reads from the archive.       *)
(*                                                                         *)
(* Messages and acknowledgements share one sequence per tenant and live in *)
(* two tables.  The archive is a sequence of entries, entry n being what   *)
(* sequence number n stored: a message, an acknowledgement event of `ids'  *)
(* rows, or nothing (a number spent by the loser of a duplicate race).     *)
(* store.Messages.Since and store.Receipts.Since are queries with a LIMIT; *)
(* handleSubscribe turns the two pages into a horizon it may trust.        *)
(***************************************************************************)
EXTENDS Integers, Sequences, FiniteSets, FiniteSetsExt

CONSTANTS
    Page      \* replayPage: rows one replay query fetches (500)

ASSUME PageAssumption == Page \in Nat \ {0}

(* The sequence numbers after `since' that hold an entry of class `cls' of
   a device still visible (both queries join the devices view, which hides
   a deleted number). *)
After(archive, since, cls, visible) ==
    {n \in (since + 1) .. Len(archive) :
        archive[n].cls = cls /\ archive[n].dev \in visible}

(* The first k members of a set of sequence numbers. *)
First(S, k) == {n \in S : Cardinality({m \in S : m < n}) < k}

(* store.Messages.Since: ORDER BY seq LIMIT Page. *)
MessagesSince(archive, since, visible) ==
    First(After(archive, since, "msg", visible), Page)

(* Rows of the receipts table that a set of batches takes. *)
RowCount(archive, S) == MapThenSumSet(LAMBDA m : archive[m].ids, S)

(* Those before batch n, in the order the query reads them. *)
RowsBefore(archive, S, n) == RowCount(archive, {m \in S : m < n})

(* store.Receipts.Since: the limit counts rows, so a batch may be cut; the
   last batch of a full page is given up and the page called truncated --
   unless it is the only one. *)
ReceiptsSince(archive, since, visible) ==
    LET all     == After(archive, since, "ack", visible)
        touched == {n \in all : RowsBefore(archive, all, n) < Page}
        full    == RowCount(archive, all) >= Page
        cut     == full /\ Cardinality(touched) > 1
        kept    == IF cut THEN touched \ {Max(touched)} ELSE touched
    IN [batches   |-> kept,
        truncated |-> cut,
        whole     |-> {n \in kept :
                         RowsBefore(archive, all, n) + archive[n].ids <= Page}]

(* How far a round can be trusted (handleSubscribe). *)
Horizon(mark, msgs, acks) ==
    LET fromMessages == IF Cardinality(msgs) = Page THEN {Max(msgs)} ELSE {}
        fromReceipts == IF acks.truncated /\ acks.batches # {}
                        THEN {Max(acks.batches)} ELSE {}
    IN Min({mark} \cup fromMessages \cup fromReceipts)
=============================================================================
