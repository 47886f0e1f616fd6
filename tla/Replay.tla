------------------------------- MODULE Replay -------------------------------
(***************************************************************************)
(* The replay loop of wsapi.handleSubscribe and mergeReplay, alone: from a *)
(* cursor to the watermark, page by page, over an archive that nothing     *)
(* else touches.  Stream.tla has the concurrency; this module has the      *)
(* paging in full, with acknowledgement events of several rows.            *)
(***************************************************************************)
EXTENDS ReplayPage, SequencesExt

CONSTANTS
    MaxSeq,     \* bound on the archive's length
    AckIds,     \* how many ids one acknowledgement event may carry
    Dev         \* the one device of this archive

VARIABLES
    archive,    \* the tenant's stored entries
    since,      \* the client's cursor
    mark,       \* the watermark, read before the first page
    step,       \* "read", "merge" or "done"
    last,       \* how far the replay has got
    rows, i,    \* this round's messages in order, and the next of them
    acks, j,    \* this round's acknowledgements in order, and the next
    horizon,    \* this round's horizon
    sent,       \* what the client was sent, in order
    short       \* acknowledgement events sent with some of their ids missing

vars == <<archive, since, mark, step, last, rows, i, acks, j, horizon, sent,
          short>>

Entry == [cls : {"msg", "none"}, dev : {Dev}, ids : {1}]
         \cup [cls : {"ack"}, dev : {Dev}, ids : AckIds]

(* Entries past the watermark were committed after it was read. *)
Init ==
    /\ \E n \in 0 .. MaxSeq : archive \in [1 .. n -> Entry]
    /\ mark \in 0 .. Len(archive)
    /\ since \in 0 .. mark
    /\ step = "read"
    /\ last = since
    /\ rows = <<>> /\ i = 1
    /\ acks = <<>> /\ j = 1
    /\ horizon = 0
    /\ sent = <<>>
    /\ short = {}

Sorted(S) == SetToSortSeq(S, <)

(* The loop's condition and its two reads.  Nothing at all after the cursor
   ends the replay. *)
ReadPage ==
    /\ step = "read"
    /\ last < mark
    /\ LET msgs == MessagesSince(archive, last, {Dev})
           page == ReceiptsSince(archive, last, {Dev})
       IN IF msgs = {} /\ page.batches = {}
          THEN /\ step' = "done"
               /\ UNCHANGED <<rows, i, acks, j, horizon, short>>
          ELSE /\ step' = "merge"
               /\ rows' = Sorted(msgs) /\ i' = 1
               /\ acks' = Sorted(page.batches) /\ j' = 1
               /\ horizon' = Horizon(mark, msgs, page)
               /\ short' = short \cup
                    {n \in page.batches \ page.whole : n <= horizon'}
    /\ UNCHANGED <<archive, since, mark, last, sent>>

ReachedMark ==
    /\ step = "read"
    /\ last >= mark
    /\ step' = "done"
    /\ UNCHANGED <<archive, since, mark, last, rows, i, acks, j, horizon,
                   sent, short>>

(* mergeReplay takes the lower of the two heads; a head past the horizon
   ends its stream. *)
NextIsMessage ==
    \/ j > Len(acks)
    \/ j <= Len(acks) /\ i <= Len(rows) /\ rows[i] < acks[j]

MergeMessage ==
    /\ step = "merge"
    /\ i <= Len(rows) \/ j <= Len(acks)
    /\ NextIsMessage
    /\ IF rows[i] > horizon
       THEN i' = Len(rows) + 1 /\ UNCHANGED sent
       ELSE i' = i + 1 /\ sent' = Append(sent, rows[i])
    /\ UNCHANGED <<archive, since, mark, step, last, rows, acks, j, horizon,
                   short>>

MergeReceipt ==
    /\ step = "merge"
    /\ i <= Len(rows) \/ j <= Len(acks)
    /\ ~NextIsMessage
    /\ IF acks[j] > horizon
       THEN j' = Len(acks) + 1 /\ UNCHANGED sent
       ELSE j' = j + 1 /\ sent' = Append(sent, acks[j])
    /\ UNCHANGED <<archive, since, mark, step, last, rows, i, acks, horizon,
                   short>>

(* The round is merged: go on from the horizon, or stop if it did not move. *)
RoundEnd ==
    /\ step = "merge"
    /\ i > Len(rows) /\ j > Len(acks)
    /\ IF horizon <= last
       THEN step' = "done" /\ UNCHANGED last
       ELSE step' = "read" /\ last' = horizon
    /\ UNCHANGED <<archive, since, mark, rows, i, acks, j, horizon, sent,
                   short>>

Done == step = "done" /\ UNCHANGED vars

Next == ReadPage \/ ReachedMark \/ MergeMessage \/ MergeReceipt \/ RoundEnd
        \/ Done

Spec == Init /\ [][Next]_vars

-----------------------------------------------------------------------------
TypeOK ==
    /\ archive \in Seq(Entry) /\ Len(archive) <= MaxSeq
    /\ mark \in 0 .. Len(archive) /\ since \in 0 .. mark
    /\ step \in {"read", "merge", "done"}
    /\ last \in since .. mark
    /\ rows \in Seq(1 .. MaxSeq) /\ i \in 1 .. Len(rows) + 1
    /\ acks \in Seq(1 .. MaxSeq) /\ j \in 1 .. Len(acks) + 1
    /\ horizon \in 0 .. mark
    /\ sent \in Seq(1 .. MaxSeq)
    /\ short \subseteq 1 .. MaxSeq

(* What the client asked for: every stored entry after its cursor, up to
   the watermark. *)
Wanted == {n \in (since + 1) .. mark : archive[n].cls # "none"}

(* A replay hands the client the merged stream in sequence order, each
   entry once and none left out behind one already sent, whatever the page
   boundaries (mergeReplay: "emitting the other stream past that point
   would deliver a sequence the client then treats as covered when it is
   not"). *)
NoHoles ==
    /\ \A m, n \in 1 .. Len(sent) : m < n => sent[m] < sent[n]
    /\ sent # <<>> => ToSet(sent) = {n \in Wanted : n <= Last(sent)}

(* When the loop ends, everything up to the watermark has been sent: ending
   replay discards buffered live events on the strength of that. *)
ReplayComplete == step = "done" => ToSet(sent) = Wanted

(* An acknowledgement event is sent with all of its ids (Receipts.Since: "a
   batch cut in half by it is dropped rather than returned short"). *)
BatchesWhole == \A n \in 1 .. Len(sent) : sent[n] \notin short

=============================================================================
