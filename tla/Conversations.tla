--------------------------- MODULE Conversations ---------------------------
(***************************************************************************)
(* What a number's archive calls a conversation.  WhatsApp addresses one   *)
(* contact by phone number or by LID, each message is stored under what it *)
(* came with, and the rows of one person are put together at every read:   *)
(* the chat list (Messages.Chats), the pages of a conversation             *)
(* (Messages.Page), a scan of the archive (Messages.Scan), and the         *)
(* disappearing timer a message is sent with (Messages.ChatTimer).         *)
(*                                                                         *)
(* A list is an operator of the state; a reader takes a page at a time     *)
(* while rows arrive and halves of identities are learned.                 *)
(***************************************************************************)
EXTENDS Naturals, FiniteSets, SequencesExt

CONSTANTS
    People, Groups,
    MaxTime,       \* what a message's clock says is 1..MaxTime, or nothing
    Windows,       \* from and until of the scans a client asks for
    PageLimit,     \* rows of a page
    ListLimit,     \* chatListLimit
    MaxRows, MaxSettings, MaxTrouble

VARIABLES
    chats,     \* the chats table, by chat_key
    messages,  \* the messages table, by seq
    setting,   \* settings of a timer under way: the keys found, not yet written
    said,      \* the setting that was recorded last, until anything else is
    settings,  \* how many there were
    reader,    \* the pages a client has read
    trouble    \* how many lookups failed

vars == <<chats, messages, setting, said, settings, reader, trouble>>

(* A chat's key is what it was addressed by, and one half of its address.  *)
Keys == ({"lid", "pn"} \X People) \union ({"group"} \X Groups)
IsGroup(k) == k[1] = "group"
AddressOf(k) == IF IsGroup(k) THEN {} ELSE {k[1]}

Undated == 0
Now == MaxTime   \* created_at: nothing is stored before it is sent

NoReader == [state |-> "idle"]
Unsaid == [key |-> <<>>, seconds |-> 0]

Init ==
    /\ chats = <<>> /\ messages = <<>>
    /\ setting = {} /\ said = Unsaid /\ settings = 0
    /\ reader = NoReader /\ trouble = 0

-----------------------------------------------------------------------------
(* Which rows are one conversation.                                        *)

KnowsPhone(k) == k \in DOMAIN chats /\ ~IsGroup(k) /\ "pn" \in chats[k].halves
SamePhone(k) == IF KnowsPhone(k) THEN {j \in DOMAIN chats : KnowsPhone(j) /\ j[2] = k[2]} ELSE {}

SiblingKeys(k) == {k} \union SamePhone(k)

(* max() over the conversation's rows.                                     *)
ChatTimer(k) == Max({0} \union {chats[j].timer : j \in ({k} \intersect DOMAIN chats) \union SamePhone(k)})

(* personOf: the phone number, where it is known, and a key is one too.    *)
PersonOf(k) == IF KnowsPhone(k) THEN <<"pn", k[2]>> ELSE k

Entry(k) == [key |-> k, keys |-> {k}] @@ chats[k]

(* A name and its key move together, and a half that is known stays.       *)
MergeInto(head, other) ==
    [key |-> IF other.named /\ ~head.named THEN other.key ELSE head.key,
     keys |-> head.keys \union other.keys,
     halves |-> head.halves \union other.halves,
     named |-> head.named \/ other.named,
     at |-> Max({head.at, other.at}),
     timer |-> IF head.timer = 0 THEN other.timer ELSE head.timer]

FoldChats(order) ==
    LET of(p) == SelectSeq(order, LAMBDA k : PersonOf(k) = p)
        entries(p) == [i \in DOMAIN of(p) |-> Entry(of(p)[i])]
    IN {FoldLeft(MergeInto, Head(entries(p)), Tail(entries(p))) : p \in {PersonOf(k) : k \in ToSet(order)}}

(* chatRows: most recent first, what was never spoken in last; and of one   *)
(* time, the row that was made last.                                       *)
ChatRows ==
    SetToSortSeq(DOMAIN chats,
        LAMBDA j, k : \/ chats[j].at > chats[k].at
                      \/ chats[j].at = chats[k].at /\ chats[j].made > chats[k].made)
Chats == FoldChats(SubSeq(ChatRows, 1, IF Len(ChatRows) < ListLimit THEN Len(ChatRows) ELSE ListLimit))

-----------------------------------------------------------------------------
(* What is written.                                                        *)

(* created_at is the order rows are made in: each has its own transaction.  *)
NewChat == [halves |-> {}, at |-> Undated, timer |-> 0, named |-> FALSE,
            made |-> Cardinality(DOMAIN chats)]
Stored(k) == IF k \in DOMAIN chats THEN chats[k] ELSE NewChat
Put(k, c) == chats' = (k :> c) @@ chats

(* upsertChat: only a timer that is on is taken from a message.            *)
UpsertChat(k, halves, ts, expiration) ==
    Put(k, [Stored(k) EXCEPT !.halves = @ \union halves, !.at = Max({@, ts}),
                             !.timer = IF expiration > 0 THEN expiration ELSE @])

(* resolvePhones: to a LID, the phone number, if the map knows it.         *)
Resolved(k) == {AddressOf(k)} \union IF k[1] = "lid" THEN {{"lid", "pn"}} ELSE {}

Insert(k, ts, expiration) ==
    /\ Len(messages) < MaxRows
    /\ messages' = Append(messages, [key |-> k, ts |-> ts])
    /\ \E halves \in Resolved(k) : UpsertChat(k, halves, ts, expiration)
    /\ said' = Unsaid /\ UNCHANGED <<setting, settings, reader>>

(* Live or out of a history, in any order.                                 *)
Ingest ==
    \E k \in Keys, ts \in Undated..MaxTime, expiration \in {0, 1} :
        Insert(k, ts, expiration) /\ UNCHANGED trouble

Fails == trouble < MaxTrouble /\ trouble' = trouble + 1

(* What a client sends through a chat goes out with the chat's timer, and  *)
(* without if that cannot be read.  A timer that changes between the read  *)
(* and the record leaves a row such as Ingest's.                           *)
Send ==
    \E k \in DOMAIN chats :
        \/ Insert(k, Now, ChatTimer(k)) /\ UNCHANGED trouble
        \/ Insert(k, Now, 0) /\ Fails

UpsertChatMeta(k, halves, name, timer) ==
    LET c == Stored(k) IN
    /\ Put(k, [c EXCEPT !.halves = @ \union halves, !.named = @ \/ name, !.timer = timer])
    /\ said' = Unsaid /\ UNCHANGED <<messages, setting, settings, reader, trouble>>

(* A history's conversation may say that its timer is on; that it is off    *)
(* looks like saying nothing.                                              *)
StoreChatMeta ==
    \E k \in Keys, name, on \in BOOLEAN :
        UpsertChatMeta(k, AddressOf(k), name, IF on THEN 1 ELSE Stored(k).timer)

(* A group's description says both.                                        *)
RecordGroup ==
    \E k \in Keys, name \in BOOLEAN, timer \in {0, 1} :
        IsGroup(k) /\ UpsertChatMeta(k, AddressOf(k), name, timer)

(* A client opens a conversation with a number it names: WhatsApp answers  *)
(* with one half, or with the phone number too.                           *)
OpenConversation ==
    \E k \in Keys : \E halves \in {{k[1]}, {k[1], "pn"}} :
        ~IsGroup(k) /\ UpsertChatMeta(k, halves, FALSE, Stored(k).timer)

(* LinkPhoneNumbers, at a boot, of those whose LID the map knows.          *)
LinkPhoneNumbers ==
    \E known \in SUBSET People :
        /\ chats' = [k \in DOMAIN chats |->
                        IF "lid" \in chats[k].halves /\ k[2] \in known
                          THEN [chats[k] EXCEPT !.halves = @ \union {"pn"}] ELSE chats[k]]
        /\ said' = Unsaid /\ UNCHANGED <<messages, setting, settings, reader, trouble>>

(* SetChatTimer looks the other keys up in one transaction, and goes on     *)
(* with the key it was given if it cannot ...                              *)
SetChatTimer(k, seconds) ==
    \E found \in BOOLEAN :
        /\ IF found THEN UNCHANGED trouble ELSE Fails
        /\ setting' = setting \union
              {[key |-> k, seconds |-> seconds, keys |-> IF found THEN SiblingKeys(k) ELSE {k}]}

(* ... and writes to those it found in another: a row is made for the key   *)
(* that was named and for no other.  Or the write fails, and is logged.    *)
WriteChatTimer(s) ==
    /\ setting' = setting \ {s}
    /\ \/ /\ chats' = [j \in DOMAIN chats \union {s.key} |->
                          IF j \in s.keys THEN [Stored(j) EXCEPT !.timer = s.seconds] ELSE chats[j]]
          /\ said' = IF SiblingKeys(s.key) \subseteq s.keys
                      THEN [key |-> s.key, seconds |-> s.seconds] ELSE Unsaid
          /\ UNCHANGED trouble
       \/ Fails /\ UNCHANGED <<chats, said>>
    /\ UNCHANGED <<messages, settings, reader>>

Sets(k) ==
    /\ settings < MaxSettings /\ settings' = settings + 1
    /\ \E seconds \in {0, 1} : SetChatTimer(k, seconds)
    /\ UNCHANGED <<chats, messages, said, reader>>

(* The other side changed it, in a message addressed by either half.       *)
ApplyEphemeralSetting == \E k \in Keys : ~IsGroup(k) /\ Sets(k)

(* A client did, once WhatsApp has accepted it.                            *)
HandleChatTimer == \E k \in Keys : Sets(k)

-----------------------------------------------------------------------------
(* What is read, a page at a time.                                         *)

At(i) == IF messages[i].ts = Undated THEN Now ELSE messages[i].ts
Earlier(i, at, seq) == At(i) < at \/ (At(i) = at /\ i < seq)
Newest(S, n) == {i \in S : Cardinality({j \in S : Earlier(i, At(j), j)}) < n}
InOrder(S) == SetToSortSeq(S, LAMBDA i, j : Earlier(i, At(j), j))

(* A client's instants fall on what the database stores, or between two:   *)
(* they count twice as fast.  timestampCeiling rounds them up.             *)
End == 2 * MaxTime + 2
Instants == 0..End
TimestampCeiling(t) == (t + 1) \div 2

Latest == [at |-> 0, seq |-> 0]

(* Messages.Page: no window, and a cursor cut down to what is stored.      *)
PageOf(keys, before, n) ==
    Newest({i \in DOMAIN messages : /\ messages[i].key \in keys
                                    /\ (before = Latest \/ Earlier(i, before.at \div 2, before.seq))}, n)

ScanCursor(before) == IF before.at % 2 = 1 THEN [at |-> before.at + 1, seq |-> 0] ELSE before

Matches(keys, from, until, before) ==
    LET cursor == ScanCursor(before) IN
    {i \in DOMAIN messages :
        /\ messages[i].key \in keys
        /\ At(i) >= TimestampCeiling(from) /\ At(i) < TimestampCeiling(until)
        /\ (before = Latest \/ Earlier(i, cursor.at \div 2, cursor.seq))}

Scan(keys, from, until, before, n) == Newest(Matches(keys, from, until, before), n)

(* Mutant: an undated row gives a cursor without a time.                   *)
BeforeUndated(rows) == IF rows = <<>> THEN Latest ELSE [at |-> 2 * messages[rows[1]].ts, seq |-> rows[1]]

(* The cursor of the next page: the oldest row of this one.                *)
Before(rows) == IF rows = <<>> THEN Latest ELSE [at |-> 2 * At(rows[1]), seq |-> rows[1]]

Within(i, from, until) == 2 * At(i) >= from /\ 2 * At(i) < until

Open ==
    /\ reader.state = "idle"
    /\ \E k \in Keys, scan \in BOOLEAN : \E w \in IF scan THEN Windows ELSE {<<0, End>>} :
         reader' = [state |-> "open", scan |-> scan, key |-> k, from |-> w[1], until |-> w[2],
                    keys |-> {}, cursor |-> Latest, shown |-> <<>>, short |-> FALSE,
                    start |-> {i \in DOMAIN messages : /\ messages[i].key \in SiblingKeys(k)
                                                       /\ Within(i, w[1], w[2])}]
    /\ said' = Unsaid /\ UNCHANGED <<chats, messages, setting, settings, trouble>>

(* Over a socket, a page whose other keys cannot be looked up is that of   *)
(* the key that was named; over HTTP it is refused.                        *)
LookUp ==
    /\ reader.state = "open"
    /\ \E found \in BOOLEAN :
         /\ IF found THEN UNCHANGED trouble ELSE ~reader.scan /\ Fails
         /\ reader' = [reader EXCEPT !.state = "found", !.short = @ \/ ~found,
                          !.keys = IF found THEN SiblingKeys(reader.key) ELSE {reader.key}]
    /\ said' = Unsaid /\ UNCHANGED <<chats, messages, setting, settings>>

(* The page of the keys that were found, in a transaction of its own.      *)
Turn ==
    /\ reader.state = "found"
    /\ LET rows == IF reader.scan
                   THEN Scan(reader.keys, reader.from, reader.until, reader.cursor, PageLimit + 1)
                   ELSE PageOf(reader.keys, reader.cursor, PageLimit + 1)
           more == Cardinality(rows) > PageLimit
           page == InOrder(Newest(rows, PageLimit)) IN
       reader' = [reader EXCEPT !.shown = page \o @, !.cursor = Before(page), !.keys = {},
                                !.state = IF more THEN "open" ELSE "done"]
    /\ said' = Unsaid /\ UNCHANGED <<chats, messages, setting, settings, trouble>>

Next ==
    \/ Ingest \/ Send \/ LinkPhoneNumbers
    \/ StoreChatMeta \/ RecordGroup \/ OpenConversation
    \/ ApplyEphemeralSetting \/ HandleChatTimer \/ (\E s \in setting : WriteChatTimer(s))
    \/ Open \/ LookUp \/ Turn

Spec == Init /\ [][Next]_vars

-----------------------------------------------------------------------------
(* The state's types. *)
TypeOK ==
    /\ \A k \in DOMAIN chats : /\ k \in Keys
                               /\ chats[k].halves \subseteq {"lid", "pn"} /\ chats[k].timer \in {0, 1}
    /\ \A i \in DOMAIN messages : messages[i].key \in DOMAIN chats

(* A row that SetChatTimer made, and nothing else wrote, does not know     *)
(* that its key is a phone number.                                         *)
Bare(k) == k[1] = "pn" /\ ~KnowsPhone(k)
Whole(e) == \A k \in e.keys : ~Bare(k)
Truncated == Cardinality(DOMAIN chats) > ListLimit

(* Whoever opens an entry of the list sees all that it stands for, and no  *)
(* message is in two: whichever of its rows has the name, in whatever      *)
(* order its halves were learned.                                          *)
ListedIsReachable ==
    LET list == Chats IN
    \A e \in list : Whole(e) =>
        /\ e.key \in e.keys /\ e.keys \subseteq SiblingKeys(e.key)
        /\ \A other \in list \ {e} : SiblingKeys(e.key) \intersect other.keys = {}

(* What the list promises of a message, that it will disappear, is what it *)
(* is sent with.                                                           *)
PromisedTimer ==
    ~Truncated => \A e \in Chats : Whole(e) => (e.timer > 0) = (ChatTimer(e.key) > 0)

(* Read across the whole conversation, not one row: the composer has been  *)
(* promising the reader what the list shows, and the message goes out so.  *)
ChatTimerKeepsPromise ==
    ~Truncated => \A e \in Chats : (e.timer > 0) = (ChatTimer(e.key) > 0)

(* A setting reaches every row of its conversation: turned off, it is not  *)
(* resurrected from the other half -- unless a row joined the conversation *)
(* between the look for its keys and the write.                            *)
TimerReaches ==
    said # Unsaid /\ ~Truncated => \A e \in Chats :
        said.key \in e.keys /\ Whole(e) =>
            e.timer = said.seconds /\ ChatTimer(e.key) = said.seconds

(* A conversation read to its beginning, or a window scanned to its start, *)
(* was shown in order, nothing twice, nobody else's, and all that was      *)
(* there when the reading began -- while rows came in between, with any    *)
(* clock, and halves of the conversation were learned -- unless a page     *)
(* could not look the other half up.                                       *)
ShownInOrder ==
    reader.state # "idle" =>
        /\ \A i, j \in DOMAIN reader.shown : i < j =>
             Earlier(reader.shown[i], At(reader.shown[j]), reader.shown[j])
        /\ \A i \in ToSet(reader.shown) : messages[i].key[2] = reader.key[2]
NothingMissed ==
    reader.state = "done" /\ ~reader.short => reader.start \subseteq ToSet(reader.shown)

(* A scan returns what lies in its window before its cursor, at instants   *)
(* between those the database can tell apart too.                          *)
ScanExact ==
    \A t \in Instants :
        /\ Matches(Keys, t, End, Latest) = {i \in DOMAIN messages : 2 * At(i) >= t}
        /\ Matches(Keys, 0, t, Latest) = {i \in DOMAIN messages : 2 * At(i) < t}
        /\ \A seq \in 1..MaxRows : Matches(Keys, 0, End, [at |-> t, seq |-> seq]) =
              {i \in DOMAIN messages : 2 * At(i) < t \/ (2 * At(i) = t /\ i < seq)}

(* A conversation is one, whichever half it is read, listed or set by. *)
ConversationsSafe ==
    /\ TypeOK /\ ListedIsReachable /\ PromisedTimer /\ TimerReaches
    /\ ShownInOrder /\ NothingMissed /\ ScanExact
=============================================================================
