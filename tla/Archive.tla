------------------------------ MODULE Archive ------------------------------
(***************************************************************************)
(* One number's archive: what ingest writes (store.Messages.Insert behind  *)
(* ingest.Router and Pipeline), the badge of each conversation             *)
(* (store.Unread), the summary the chat list shows, and the                *)
(* reclassification of what an older build could not read.                 *)
(*                                                                         *)
(* Writers run at the same time: the number's event stream ("live", one    *)
(* event after another), the history worker, a console session and the     *)
(* reclassification tool.  A transaction is two steps where it reads       *)
(* before it takes the lock its writes need: Insert looks for a duplicate  *)
(* and its target before nextSeq locks the workspace's row, a mark reads   *)
(* its position before lockChats.  What follows the lock is one step.      *)
(*                                                                         *)
(* A message's payload is abstracted to whether there is one and, once     *)
(* stored, whether it is sealed for the row that holds it.  Media rows,    *)
(* names, timers and the publish that follows a commit are elsewhere       *)
(* (Media, Stream) or left out.                                            *)
(***************************************************************************)
EXTENDS Naturals, Sequences, FiniteSets, FiniteSetsExt, TLC

CONSTANTS
    Chats,       \* the conversations
    Incoming,    \* envelopes the event stream may deliver
    Outgoing,    \* envelopes a console may send
    Chunks,      \* history payloads: [chat, unread, msgs]
    Receipts,    \* acknowledgements: [ids, kind, own]
    ReadTimes,   \* times up to which the phone may say it has read; 0: all
    QueueDepth,  \* historyQueueDepth
    MaxStarts,   \* bound: operations begun
    MaxCrashes   \* bound: restarts of the process

VARIABLES
    rows,        \* messages, by conversation and WhatsApp id
    chats,       \* the chat list's rows
    lastSeq,     \* tenants.last_seq
    acks,        \* receipts stored: kind, reader, id
    job,         \* what each writer is in the middle of
    queue,       \* Router.history
    used,        \* operations begun and crashes
    stated,      \* chats whose badge is not a count of rows (see Astray)
    retyped      \* chats whose summary a reclassification rewrote

vars == <<rows, chats, lastSeq, acks, job, queue, used, stated, retyped>>

Writers == {"live", "history", "session", "tool"}

Idle == [op |-> "idle"]

NotStated == 99  \* a chunk that does not mention the count

Key(e) == <<e.chat, e.id>>

Init ==
    /\ rows = << >>
    /\ chats = [c \in Chats |-> [known |-> FALSE, unread |-> 0, through |-> 0,
                                 ts |-> 0, type |-> "none", seq |-> 0]]
    /\ lastSeq = 0
    /\ acks = {}
    /\ job = [w \in Writers |-> Idle]
    /\ queue = <<>>
    /\ used = [starts |-> 0, crashes |-> 0]
    /\ stated = {}
    /\ retyped = {}

(* A writer takes up an operation. *)
Begin(w) ==
    /\ job[w] = Idle
    /\ used.starts < MaxStarts
    /\ used' = [used EXCEPT !.starts = @ + 1]

-----------------------------------------------------------------------------
(* What the tables say. *)

(* messages.counts_unread, a column computed from the row: what somebody
   else wrote, as it happened, and a poll's answer is no message. *)
CountsUnread(r) ==
    /\ r.kind = "message"
    /\ ~r.fromMe
    /\ r.src # "history"
    /\ r.type # "poll_vote"

InChat(rs, c) == {k \in DOMAIN rs : k[1] = c}

Counted(rs, c, above) ==
    {k \in InChat(rs, c) : CountsUnread(rs[k]) /\ rs[k].seq > above}

Highest(S) == IF S = {} THEN 0 ELSE Max(S)

(* What a control row acts on: a target not seen yet stays open, except a
   reaction's, which is always a message. *)
ResolveTarget(rs, e) ==
    IF e.target = "" THEN "none"
    ELSE IF <<e.chat, e.target>> \in DOMAIN rs
         THEN IF rs[<<e.chat, e.target>>].kind = "reaction"
              THEN "reaction" ELSE "message"
         ELSE IF e.kind = "reaction" THEN "message" ELSE "none"

(* Pipeline.seal: the content is bound to the identity Ingest has just chosen
   for the row. *)
Seal(e) == IF e.content THEN "bound" ELSE "none"

NewRow(e, seq, rel) ==
    [seq |-> seq, kind |-> e.kind, type |-> e.type, later |-> e.later,
     first |-> e.type, src |-> e.src, ts |-> e.ts, fromMe |-> e.fromMe,
     target |-> e.target, rel |-> rel,
     content |-> Seal(e)]

(* fillStub: an empty placeholder gives way to a message that carries
   something.  The content was sealed for the identity chosen for the
   newcomer, and the row keeps its own. *)
FillStub(rs, e) ==
    IF /\ e.type # "unsupported" /\ e.kind = "message" /\ e.content
       /\ rs[Key(e)].type = "unsupported" /\ rs[Key(e)].content = "none"
    THEN [rs EXCEPT ![Key(e)].type = e.type, ![Key(e)].content = "foreign"]
    ELSE rs

(* upsertChat: the newest by the time it was sent gives the summary, and the
   badge moves with the row. *)
UpsertChat(ch, e, seq, counts) ==
    [known |-> TRUE,
     unread |-> ch.unread + (IF counts /\ seq > ch.through THEN 1 ELSE 0),
     through |-> ch.through,
     ts |-> Max({ch.ts, e.ts}),
     type |-> IF ch.ts = 0 \/ e.ts > ch.ts THEN e.type ELSE ch.type,
     seq |-> Max({ch.seq, seq})]

(* The ways a badge stops being a count of rows until the next recount: the
   phone stated one, somebody marked the chat unread, or a row stopped
   counting because it turned out to be a poll's answer. *)
Astray(before, after) ==
    {c \in Chats : Cardinality(Counted(before, c, chats[c].through))
                   # Cardinality(Counted(after, c, chats[c].through))}

-----------------------------------------------------------------------------
(* Pipeline.Ingest and Messages.Insert. *)

(* validate refuses what cannot be a row; normalize.ErrSkip never gets this
   far. *)
Validate(e) ==
    /\ e.id # ""
    /\ e.kind \in {"message", "edit", "delete", "reaction"}
    /\ e.kind # "message" => e.target # ""

(* Ingest up to nextSeq.  A duplicate ends here, without a sequence number,
   and may fill the placeholder it duplicates. *)
Check(w, e, rest) ==
    IF Key(e) \in DOMAIN rows
    THEN /\ rows' = FillStub(rows, e)
         /\ stated' = stated \cup Astray(rows, rows')
         /\ job' = [job EXCEPT ![w] = rest]
    ELSE /\ job' = [job EXCEPT ![w] =
                      [op |-> "ingest", env |-> e,
                       rel |-> ResolveTarget(rows, e), rest |-> rest]]
         /\ UNCHANGED <<rows, stated>>

(* Insert from nextSeq to its commit.  The loser of a race for one id has
   spent a sequence number and stores nothing of its own. *)
Commit(w) ==
    LET e == job[w].env
        new == NewRow(e, lastSeq + 1, job[w].rel)
    IN /\ job[w].op = "ingest"
       /\ lastSeq' = lastSeq + 1
       /\ job' = [job EXCEPT ![w] = job[w].rest]
       /\ IF Key(e) \in DOMAIN rows
          THEN /\ rows' = FillStub(rows, e)
               /\ stated' = stated \cup Astray(rows, rows')
               /\ UNCHANGED chats
          ELSE /\ rows' = [k \in DOMAIN rows \cup {Key(e)} |->
                             IF k = Key(e) THEN new ELSE rows[k]]
               /\ chats' = [chats EXCEPT ![e.chat] =
                              UpsertChat(@, e, lastSeq + 1, CountsUnread(new))]
               /\ UNCHANGED stated
       /\ UNCHANGED <<acks, queue, used, retyped>>

-----------------------------------------------------------------------------
(* Router.Handle: the number's events, one at a time. *)

(* handleMessage. *)
HandleMessage(e) ==
    /\ Begin("live")
    /\ Validate(e)
    /\ Check("live", e, Idle)
    /\ UNCHANGED <<chats, lastSeq, acks, queue, retyped>>

(* unknownIDs: what this reader has not acknowledged in this way before. *)
UnknownIDs(r) == {id \in r.ids : <<r.kind, r.own, id>> \notin acks}

(* clearOnOwnRead: one of our own devices read it. *)
ClearsBadge(r) == r.own /\ r.kind \in {"read", "played"}

(* handleReceipt and ingestReceipt: nothing new is nothing at all, and the
   badge follows only what was new. *)
HandleReceipt(r) ==
    /\ Begin("live")
    /\ IF UnknownIDs(r) = {}
       THEN UNCHANGED <<acks, lastSeq, job>>
       ELSE /\ acks' = acks \cup {<<r.kind, r.own, id>> : id \in UnknownIDs(r)}
            /\ lastSeq' = lastSeq + 1
            /\ job' = IF ClearsBadge(r)
                      THEN [job EXCEPT !["live"] =
                              [op |-> "through", ids |-> r.ids]]
                      ELSE job
    /\ UNCHANGED <<rows, chats, queue, stated, retyped>>

(* handleHistorySync: the chunk is queued, or the stream waits for room. *)
HandleHistorySync(ch) ==
    /\ Begin("live")
    /\ IF Len(queue) < QueueDepth
       THEN queue' = Append(queue, ch) /\ UNCHANGED job
       ELSE /\ job' = [job EXCEPT !["live"] = [op |-> "queue", chunk |-> ch]]
            /\ UNCHANGED queue
    /\ UNCHANGED <<rows, chats, lastSeq, acks, stated, retyped>>

QueueRoom ==
    /\ job["live"].op = "queue"
    /\ Len(queue) < QueueDepth
    /\ queue' = Append(queue, job["live"].chunk)
    /\ job' = [job EXCEPT !["live"] = Idle]
    /\ UNCHANGED <<rows, chats, lastSeq, acks, used, stated, retyped>>

(* MarkChatUnread, from handleMarkChatAsRead: a reminder, never a count.  A
   replay of the phone's whole state leaves it out. *)
MarkChatUnread(c) ==
    /\ Begin("live")
    /\ chats' = IF chats[c].known
                THEN [chats EXCEPT ![c].unread = Max({@, 1})] ELSE chats
    /\ stated' = IF chats[c].known THEN stated \cup {c} ELSE stated
    /\ UNCHANGED <<rows, lastSeq, acks, job, queue, retyped>>

(* MarkChatReadAt's position: among the rows that can count, unless the
   phone said all of it. *)
Anchor(rs, c, at) ==
    Highest({rs[k].seq : k \in {x \in InChat(rs, c) :
                                   \/ at = 0
                                   \/ CountsUnread(rs[x]) /\ rs[x].ts <= at}})

(* handleMarkChatAsRead's read branch. *)
HandleMarkChatAsRead(c, at) ==
    /\ Begin("live")
    /\ chats[c].known
    /\ job' = [job EXCEPT !["live"] =
                 [op |-> "mark", at |-> at, ids |-> {},
                  marks |-> (c :> Anchor(rows, c, at))]]
    /\ UNCHANGED <<rows, chats, lastSeq, acks, queue, stated, retyped>>

-----------------------------------------------------------------------------
(* store.Unread. *)

(* MarkReadThrough's positions, found from the ids: reading a message clears
   everything under it. *)
Positions(rs, ids) ==
    LET named(c) == {k \in InChat(rs, c) : k[2] \in ids}
    IN [c \in {x \in Chats : named(x) # {}} |->
            Highest({rs[k].seq : k \in named(c)})]

ReadMarks(w) ==
    /\ job[w].op = "through"
    /\ LET marks == Positions(rows, job[w].ids)
       IN job' = [job EXCEPT ![w] =
                    IF DOMAIN marks = {} THEN Idle
                    ELSE [op |-> "mark", at |-> 0, ids |-> job[w].ids,
                          marks |-> marks]]
    /\ UNCHANGED <<rows, chats, lastSeq, acks, queue, used, stated, retyped>>

(* Mutant: what was read is subtracted, whoever subtracted it before. *)
RecountSubtracting(w) ==
    /\ job[w].op = "mark"
    /\ chats' = [c \in Chats |->
         IF c \notin DOMAIN job[w].marks THEN chats[c]
         ELSE LET m == job[w].marks[c]
                  n == Cardinality(Counted(rows, c, 0) \ Counted(rows, c, m))
              IN [chats[c] EXCEPT !.through = Max({@, m}),
                                  !.unread = IF n > @ THEN 0 ELSE @ - n]]
    /\ stated' = stated \ DOMAIN job[w].marks
    /\ job' = [job EXCEPT ![w] = Idle]
    /\ UNCHANGED <<rows, lastSeq, acks, queue, used, retyped>>

(* lockChats has been waited for, and recount counts everything committed
   before it; a position already passed moves nothing. *)
Recount(w) ==
    /\ job[w].op = "mark"
    /\ chats' = [c \in Chats |->
         IF c \notin DOMAIN job[w].marks THEN chats[c]
         ELSE LET t == Max({chats[c].through, job[w].marks[c]})
              IN [chats[c] EXCEPT !.through = t,
                                  !.unread = Cardinality(Counted(rows, c, t))]]
    /\ stated' = stated \ DOMAIN job[w].marks
    /\ job' = [job EXCEPT ![w] = Idle]
    /\ UNCHANGED <<rows, lastSeq, acks, queue, used, retyped>>

-----------------------------------------------------------------------------
(* RunHistory: one worker, one chunk after another. *)

TakeChunk ==
    /\ job["history"] = Idle
    /\ queue # <<>>
    /\ queue' = Tail(queue)
    /\ job' = [job EXCEPT !["history"] = [op |-> "chunk", chunk |-> Head(queue)]]
    /\ UNCHANGED <<rows, chats, lastSeq, acks, used, stated, retyped>>

(* UpsertChatMeta: a count the phone states replaces the badge, zero
   included, and moves no watermark. *)
UpsertChatMeta(ch, unread) ==
    [ch EXCEPT !.known = TRUE,
               !.unread = IF unread = NotStated THEN @ ELSE unread]

StoreChatMeta ==
    LET ch == job["history"].chunk
    IN /\ job["history"].op = "chunk"
       /\ chats' = [chats EXCEPT ![ch.chat] = UpsertChatMeta(@, ch.unread)]
       /\ stated' = IF ch.unread = NotStated THEN stated
                    ELSE stated \cup {ch.chat}
       /\ job' = [job EXCEPT !["history"] = [op |-> "msgs", msgs |-> ch.msgs]]
       /\ UNCHANGED <<rows, lastSeq, acks, queue, used, retyped>>

(* ingestMessages: the next of the chunk, or its end. *)
IngestNext ==
    LET ms == job["history"].msgs
    IN /\ job["history"].op = "msgs"
       /\ IF ms = <<>>
          THEN /\ job' = [job EXCEPT !["history"] = Idle]
               /\ UNCHANGED <<rows, stated>>
          ELSE Check("history", Head(ms), [op |-> "msgs", msgs |-> Tail(ms)])
       /\ UNCHANGED <<chats, lastSeq, acks, queue, used, retyped>>

-----------------------------------------------------------------------------
(* A console's requests.  Each of the send handlers checks the request, hands
   the message to WhatsApp and, once it has gone, archives what was sent
   through IngestOutbound; a request that is refused does neither. *)

IngestOutbound(e) ==
    /\ Begin("session")
    /\ Check("session", e, Idle)
    /\ UNCHANGED <<chats, lastSeq, acks, queue, retyped>>

HandleSend == \E e \in Outgoing : e.type = "text" /\ e.kind = "message"
                                  /\ IngestOutbound(e)

HandleSendMedia == \E e \in Outgoing : e.type = "image" /\ IngestOutbound(e)

HandleEdit == \E e \in Outgoing : e.kind = "edit" /\ IngestOutbound(e)

HandleRevoke == \E e \in Outgoing : e.kind = "delete" /\ IngestOutbound(e)

HandlePollVote == \E e \in Outgoing : e.type = "poll_vote" /\ IngestOutbound(e)

HandleReact == \E e \in Outgoing : e.kind = "reaction" /\ IngestOutbound(e)

(* handleMarkRead and markRead, of a reader whose policy is active: the
   shared badge first.  A discreet reader's view does nothing. *)
HandleMarkRead(ids) ==
    /\ Begin("session")
    /\ job' = [job EXCEPT !["session"] =
                 [op |-> "through", ids |-> ids]]
    /\ UNCHANGED <<rows, chats, lastSeq, acks, queue, stated, retyped>>

-----------------------------------------------------------------------------
(* Reclassification.  What the classifier makes of a row is later. *)

(* UnsupportedByUID: the type is part of the lookup. *)
StillFiled(k) == rows[k].type = "unsupported"

(* Router.Reproject up to its write. *)
Reclassify(w, k) ==
    /\ Begin(w)
    /\ StillFiled(k)
    /\ job' = [job EXCEPT ![w] = [op |-> "reproject", key |-> k,
                                  type |-> rows[k].later]]
    /\ UNCHANGED <<rows, chats, lastSeq, acks, queue, stated, retyped>>

(* handleReprojectApply: a console opened the raw message and sent it back. *)
HandleReprojectApply(k) == Reclassify("session", k)

(* The tool works from a list it read, and leaves alone what it cannot
   classify, what is no message and what carries an attachment. *)
ReprojectTool(k) ==
    /\ rows[k].later \notin {"unsupported", "protocol", "image"}
    /\ Reclassify("tool", k)

(* Still nothing this build can read. *)
StillUnsupported(w) ==
    /\ job[w].op = "reproject"
    /\ job[w].type = "unsupported"
    /\ job' = [job EXCEPT ![w] = Idle]
    /\ UNCHANGED <<rows, chats, lastSeq, acks, queue, used, stated, retyped>>

(* Mutant: the row is retyped as it was read. *)
MarkProtocolUnguarded(w) ==
    /\ job[w].op = "reproject"
    /\ job[w].type = "protocol"
    /\ rows' = [rows EXCEPT ![job[w].key].type = "protocol"]
    /\ job' = [job EXCEPT ![w] = Idle]
    /\ UNCHANGED <<chats, lastSeq, acks, queue, used, stated, retyped>>

(* MarkProtocol, and the error it answers for a row classified meanwhile. *)
MarkProtocol(w) ==
    LET k == job[w].key
    IN /\ job[w].op = "reproject"
       /\ job[w].type = "protocol"
       /\ rows' = IF rows[k].type = "unsupported"
                  THEN [rows EXCEPT ![k].type = "protocol"] ELSE rows
       /\ job' = [job EXCEPT ![w] = Idle]
       /\ UNCHANGED <<chats, lastSeq, acks, queue, used, stated, retyped>>

(* Messages.Reproject: guarded by the type, and the summary of a chat whose
   last stored row it is goes with it. *)
Reproject(w) ==
    LET k == job[w].key
        c == job[w].key[1]
        still == rows[k].type = "unsupported"
        last == still /\ chats[c].seq = rows[k].seq
    IN /\ job[w].op = "reproject"
       /\ job[w].type \notin {"unsupported", "protocol"}
       /\ rows' = IF still
                  THEN [rows EXCEPT ![k].type = job[w].type,
                                    ![k].content = "bound"]
                  ELSE rows
       /\ chats' = IF last THEN [chats EXCEPT ![c].type = job[w].type] ELSE chats
       /\ stated' = stated \cup Astray(rows, rows')
       /\ retyped' = IF last THEN retyped \cup {c} ELSE retyped
       /\ job' = [job EXCEPT ![w] = Idle]
       /\ UNCHANGED <<lastSeq, acks, queue, used>>

-----------------------------------------------------------------------------
(* The process stops: what its writers had not committed is gone, and so are
   the chunks that waited in memory. *)
Crash ==
    /\ used.crashes < MaxCrashes
    /\ used' = [used EXCEPT !.crashes = @ + 1]
    /\ job' = [w \in Writers |-> Idle]
    /\ queue' = <<>>
    /\ UNCHANGED <<rows, chats, lastSeq, acks, stated, retyped>>

Live ==
    \/ \E e \in Incoming : HandleMessage(e)
    \/ \E r \in Receipts : HandleReceipt(r)
    \/ \E ch \in Chunks : HandleHistorySync(ch)
    \/ QueueRoom
    \/ \E c \in Chats : MarkChatUnread(c)
    \/ \E c \in Chats, at \in ReadTimes : HandleMarkChatAsRead(c, at)

Session ==
    \/ HandleSend \/ HandleSendMedia \/ HandleEdit \/ HandleRevoke
    \/ HandlePollVote \/ HandleReact
    \/ \E k \in DOMAIN rows : HandleMarkRead({k[2]})

Writing(w) ==
    \/ Commit(w) \/ ReadMarks(w) \/ Recount(w)
    \/ StillUnsupported(w) \/ MarkProtocol(w) \/ Reproject(w)

Next ==
    \/ Live
    \/ TakeChunk \/ StoreChatMeta \/ IngestNext
    \/ Session
    \/ \E k \in DOMAIN rows : HandleReprojectApply(k) \/ ReprojectTool(k)
    \/ \E w \in Writers : Writing(w)
    \/ Crash

Spec == Init /\ [][Next]_vars

-----------------------------------------------------------------------------
Types == {"text", "image", "poll_vote", "unsupported", "protocol", "none"}

TypeOK ==
    /\ \A k \in DOMAIN rows :
         /\ rows[k].seq \in 1 .. lastSeq
         /\ rows[k].type \in Types
         /\ rows[k].content \in {"none", "bound", "foreign"}
         /\ rows[k].rel \in {"none", "message", "reaction"}
    /\ \A j, k \in DOMAIN rows : rows[j].seq = rows[k].seq => j = k
    /\ \A c \in Chats : /\ chats[c].unread \in Nat
                        /\ chats[c].through \in 0 .. lastSeq
                        /\ chats[c].type \in Types
    /\ Len(queue) <= QueueDepth
    /\ \A w \in Writers : job[w].op \in {"idle", "ingest", "through", "mark",
                                         "queue", "chunk", "msgs", "reproject"}

(* A conversation's badge is the number of rows that count above its read
   position, whatever arrived, was redelivered or was marked read by three
   paths that know nothing of each other, unless the phone or a person said
   otherwise since the last recount (store/unread.go: "a count derived from
   the rows is right however many times it runs"). *)
BadgeExact ==
    \A c \in Chats \ stated :
        chats[c].unread = Cardinality(Counted(rows, c, chats[c].through))

(* Once a row has been read as something, no redelivery, no reclassification
   and no race between them changes what it is or what it carries (fillStub:
   "A real message is never overwritten by anything, including another copy
   of itself"; Reproject: "a concurrent ingest that had already reclassified
   it wins"). *)
ContentStands ==
    \A k \in DOMAIN rows :
         rows[k].type # "unsupported" =>
             /\ rows'[k].type = rows[k].type
             /\ rows'[k].content = rows[k].content

(* A phone that says it has read up to a time clears no message that arrived
   after everything sent by then: a backfilled row is old by its time and new
   by its number, and must not carry the position past live messages nobody
   has read (MarkChatReadAt). *)
ReadNotPast ==
    \A c \in Chats, k \in DOMAIN rows :
         ( /\ job["live"].op = "mark" /\ job["live"].at > 0
           /\ job'["live"] = Idle /\ job # job'
           /\ k \in Counted(rows, c, chats[c].through)
           /\ rows[k].seq <= chats'[c].through )
         => \E j \in InChat(rows, c) :
                /\ CountsUnread(rows[j])
                /\ rows[j].ts <= job["live"].at
                /\ rows[j].seq >= rows[k].seq

(* A chat's summary speaks of the newest message by the time it was sent,
   however late an older one is stored (upsertChat). *)
SummaryIsNewest ==
    \A c \in Chats :
        InChat(rows, c) # {} =>
            /\ chats[c].ts = Max({rows[k].ts : k \in InChat(rows, c)})
            /\ c \notin retyped =>
                 \E k \in InChat(rows, c) :
                     rows[k].ts = chats[c].ts /\ rows[k].first = chats[c].type

(* Whatever a control row was told of its target stays true when the target
   turns up late: a withdrawn reaction is never shown as a deleted message
   (resolveTarget). *)
TargetsTrue ==
    \A k \in DOMAIN rows :
        LET t == <<k[1], rows[k].target>>
        IN t \in DOMAIN rows =>
               rows[k].rel \in
                   {"none", IF rows[t].kind = "reaction" THEN "reaction"
                            ELSE "message"}

(* What a conversation's list shows is what its rows say. *)
ArchiveSafe ==
    /\ TypeOK
    /\ BadgeExact
    /\ SummaryIsNewest
    /\ TargetsTrue

(* No step rewrites a message that was read as one, or reads past one. *)
ArchiveSteps == [][ContentStands /\ ReadNotPast]_vars
=============================================================================
