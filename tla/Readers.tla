------------------------------ MODULE Readers ------------------------------
(***************************************************************************)
(* What one chat says of a message: its history (store/history.go) and the *)
(* ticks of a page (Receipts.AcksForPage), both put together at every read *)
(* from rows and receipts that are kept exactly as WhatsApp addressed      *)
(* them, by which device and under which half of an identity.              *)
(*                                                                         *)
(* Rows and receipts come in any order.  A read changes nothing, so it is  *)
(* an operator of the state and of the order its query returns rows in.    *)
(***************************************************************************)
EXTENDS Naturals, FiniteSets, SequencesExt

CONSTANTS
    Ids,          \* WhatsApp's message ids in the chat, from 1
    Us,           \* the number's own person
    Senders,      \* the addresses rows come from
    Wire,         \* receipts on the wire: their type and the reader's address
    MaxTime,      \* their moments are 1..MaxTime
    MaxThreadHops,\* maxThreadHops
    MaxRows, MaxReceipts

VARIABLES
    group,    \* whether the chat is a group
    rows,     \* its rows, by sequence number
    receipts  \* its receipts

vars == <<group, rows, receipts>>

NoId == 0
Never == MaxTime + 1

(***************************************************************************)
(* An address is a person's device and the halves of the identity it came  *)
(* with: the LID, the phone number, or both.                               *)
(***************************************************************************)
Primary(a) == IF "lid" \in a.halves THEN "lid" ELSE "pn"
Key(a) == IF a.halves = {} THEN <<>> ELSE <<Primary(a), a.who, a.dev>>
NonAD(a) == {<<half, a.who>> : half \in a.halves}
PersonKey(a) == <<Primary(a), a.who>>
Mine(a) == a.who = Us

RowKinds == {"message", "edit", "delete", "reaction"}

Init == group \in BOOLEAN /\ rows = <<>> /\ receipts = {}

(* Messages.Insert of a row the archive does not have.  In a direct chat   *)
(* only the author can revoke a message, or correct it.                    *)
StoredAs(id) == {i \in DOMAIN rows : rows[i].id = id}

StoreRow ==
    /\ Len(rows) < MaxRows
    /\ \E id \in Ids, kind \in RowKinds, target \in Ids \union {NoId}, by \in Senders :
         /\ StoredAs(id) = {}
         /\ (target = NoId) = (kind = "message") /\ target # id
         /\ ~group /\ kind \in {"edit", "delete"} =>
              \A i \in StoredAs(target) : rows[i].by.who = by.who
         /\ ~group => \A i \in DOMAIN rows : rows[i].target = id /\ rows[i].kind \in {"edit", "delete"} =>
                                               rows[i].by.who = by.who
         /\ rows' = Append(rows, [id |-> id, kind |-> kind, target |-> target, by |-> by])
    /\ UNCHANGED <<group, receipts>>

(* receiptKind: the wire's types, of which our own devices have their own. *)
ReceiptKind == [
    delivered |-> "delivered", inactive |-> "delivered", sender |-> "delivered",
    read |-> "read", readself |-> "read", played |-> "played", playedself |-> "played",
    retry |-> "retry", servererror |-> "error"]
OwnTypes == {"sender", "readself", "playedself"}

ReceiptFrom(w) == [kind |-> ReceiptKind[w.type], mine |-> w.type \in OwnTypes \/ Mine(w.by)]

(* unknownIDs: the chat is no part of the key, nor is the other half.      *)
Fresh(ids, by, kind) ==
    {id \in ids : ~\E r \in receipts : r.id = id /\ Key(r.by) = Key(by) /\ r.kind = kind}

(* Receipts.Insert of what the wire brought. *)
Receive ==
    \E w \in Wire, ids \in (SUBSET Ids) \ {{}}, ts \in 1..MaxTime :
      /\ w.type \in DOMAIN ReceiptKind   \* others are not archive traffic
      /\ LET from == ReceiptFrom(w)
             new == {[id |-> id, by |-> w.by, mine |-> from.mine, kind |-> from.kind, ts |-> ts] :
                       id \in Fresh(ids, w.by, from.kind)} IN
           /\ Cardinality(receipts \union new) <= MaxReceipts
           /\ receipts' = receipts \union new
      /\ UNCHANGED <<group, rows>>

Next == StoreRow \/ Receive
Spec == Init /\ [][Next]_vars

-----------------------------------------------------------------------------
(* Messages.History: the thread.                                           *)

(* What rootOf steps to: a row never stored is its own root.               *)
Above(id) ==
    LET targets == {rows[i].target : i \in StoredAs(id)} \ {NoId}
    IN IF targets = {} THEN id ELSE CHOOSE t \in targets : TRUE

RootOf(id) ==
    LET up[n \in 0..MaxThreadHops] == IF n = 0 THEN id ELSE Above(up[n - 1]) IN up[MaxThreadHops]

Thread(root) ==
    LET down[n \in 0..MaxRows] ==
          IF n = 0 THEN StoredAs(root)
          ELSE down[n - 1] \union {i \in DOMAIN rows : \E j \in down[n - 1] : rows[i].target = rows[j].id}
    IN down[MaxRows]

(* Without its message a thread is no history: pgx.ErrNoRows.              *)
Found(root) == \E i \in StoredAs(root) : rows[i].kind = "message"
RootRow(root) == CHOOSE i \in StoredAs(root) : TRUE

(* Edits by sequence, whatever the clock on them says.                     *)
Targeting(id, kind) == {i \in DOMAIN rows : rows[i].target = id /\ rows[i].kind = kind}
Versions(root) == <<RootRow(root)>> \o SetToSortSeq(Targeting(root, "edit"), <)

DeletionRow(root) == CHOOSE i \in Targeting(root, "delete") : \A j \in Targeting(root, "delete") : i <= j

(* deletionAttribution: by the author, by an admin, or not known.          *)
Attribution(first, revoke) ==
    LET left == NonAD(first.by)
        right == NonAD(revoke.by) IN
    IF \/ ~group
       \/ Mine(first.by) /\ Mine(revoke.by)
       \/ left \intersect right # {} THEN "author"
    ELSE IF \/ Mine(first.by) # Mine(revoke.by) /\ left # {} /\ right # {}
            \/ \E a \in left, b \in right : a[1] = b[1] THEN "admin"
    ELSE "unknown"

Reactions(root) == {i \in Thread(root) : rows[i].kind = "reaction"}
Revoked(i) == Targeting(rows[i].id, "delete") # {}
Superseded(i, root) == \E j \in Reactions(root) : i < j /\ Key(rows[i].by) = Key(rows[j].by)

-----------------------------------------------------------------------------
(* The aliases of a read: the name each identifier is counted under.       *)

(* Mutant: a receipt links its key and its LID only.                       *)
LinkNoPhone(top, r) ==
    LET joined == {top[PersonKey(r.by)]}
    IN [n \in DOMAIN top |-> IF top[n] \in joined THEN top[PersonKey(r.by)] ELSE top[n]]

(* aliases.link: what a receipt names is one person, under the name its    *)
(* PersonKey has.                                                          *)
Link(top, r) ==
    LET joined == {top[n] : n \in NonAD(r.by)}
    IN [n \in DOMAIN top |-> IF top[n] \in joined THEN top[PersonKey(r.by)] ELSE top[n]]

Aliases(seq) ==
    LET names == UNION {NonAD(r.by) : r \in ToSet(seq)}
    IN FoldLeft(Link, [n \in names |-> n], seq)

First(times) == CHOOSE t \in times \union {Never} : \A u \in times : t <= u
Moments(acks, kind) == {r.ts : r \in {s \in acks : s.kind = kind}}
Shown(r) == r.kind \in {"delivered", "read", "played"}

(* perRevision, of one device: only a receipt that names a version says it *)
(* was read, and our own devices name the original whatever is shown.      *)
Names(r, id, edited, root) == r.id = id /\ (edited /\ r.mine => r.id # root)

PerRevision(acks, ids) ==
    [v \in DOMAIN ids |->
        LET named == {r \in acks : Names(r, ids[v], Len(ids) > 1, ids[1])} IN
        [delivered |-> First({r.ts : r \in {s \in acks : s.kind = "delivered" /\ s.id = ids[v]}}),
         read |-> First(Moments(named, "read")), played |-> First(Moments(named, "played"))]]

(* A device's first read, and the lowest revision it names at that moment; *)
(* 0 is none.                                                              *)
Saw(revisions, read) ==
    LET at == {v \in DOMAIN revisions : read # Never /\ revisions[v].read = read}
    IN IF at = {} THEN 0 ELSE First(at)

Device(key, seq, ids) ==
    LET acks == {r \in ToSet(seq) : Key(r.by) = key}
        read == First(Moments(acks, "read"))
        revisions == PerRevision(acks, ids) IN
    [key |-> key, mine |-> \E r \in acks : r.mine, revisions |-> revisions,
     delivered |-> First(Moments(acks, "delivered")), read |-> read,
     played |-> First(Moments(acks, "played")), saw |-> Saw(revisions, read)]

FoldRevisions(devices) ==
    [v \in DOMAIN devices[1].revisions |->
        [f \in {"delivered", "read", "played"} |-> First({d.revisions[v][f] : d \in ToSet(devices)})]]

(* A person's devices in the order they were first heard of: of those that *)
(* read first, the first says what was seen.                               *)
Fold(devices) ==
    LET of(field) == First({d[field] : d \in ToSet(devices)})
        readers == SelectSeq(devices, LAMBDA d : d.read = of("read") /\ d.read # Never) IN
    [mine |-> \E d \in ToSet(devices) : d.mine,
     delivered |-> of("delivered"), read |-> of("read"), played |-> of("played"),
     saw |-> IF readers = <<>> THEN 0 ELSE readers[1].saw,
     device |-> IF readers = <<>> THEN <<>> ELSE readers[1].key,
     revisions |-> FoldRevisions(devices)]

(* readersOf: whom the receipts of a message's versions name.              *)
Readers(seq, ids) ==
    LET heard == SelectSeq(seq, Shown)
        top == Aliases(heard)
        person(r) == top[PersonKey(r.by)]
        keys(p) == FoldLeft(LAMBDA ks, r : IF person(r) # p \/ Key(r.by) \in ToSet(ks) THEN ks
                                           ELSE Append(ks, Key(r.by)), <<>>, heard)
        devices(p) == [i \in DOMAIN keys(p) |-> Device(keys(p)[i], heard, ids)]
    IN [p \in {person(r) : r \in ToSet(heard)} |-> Fold(devices(p))]

(* AcksForPage, of one message: people, never devices, and never ourselves.*)
PageAcks(seq) ==
    LET others == SelectSeq(seq, LAMBDA r : Shown(r) /\ ~r.mine)
        top == Aliases(others)
        folded(kind) == {top[PersonKey(r.by)] : r \in {s \in ToSet(others) : s.kind = kind}}
        at(kind) == First(Moments(ToSet(others), kind)) IN
    [delivered |-> folded("delivered"), read |-> folded("read"), played |-> folded("played"),
     deliveredAt |-> at("delivered"), readAt |-> at("read"), playedAt |-> at("played"),
     readByUs |-> \E r \in ToSet(seq) : r.mine /\ r.kind \in {"read", "played"},
     retrying |-> \E r \in ToSet(seq) : r.kind = "retry",
     failed |-> \E r \in ToSet(seq) : r.kind = "error"]

(* The ids whose receipts a history reads.                                 *)
VersionIds(root) == [v \in DOMAIN Versions(root) |-> rows[Versions(root)[v]].id]

(* The whole of it, of whichever row was asked about.                      *)
HistoryFrame(id, seq) ==
    LET root == RootOf(id) IN
    [root |-> root, versions |-> Versions(root),
     deletion |-> IF Targeting(root, "delete") = {} THEN "none"
                  ELSE Attribution(rows[RootRow(root)], rows[DeletionRow(root)]),
     standing |-> {i \in Reactions(root) : ~Revoked(i) /\ ~Superseded(i, root)},
     readers |-> Readers(seq, VersionIds(root))]

(* Receipts.ForMessages, by time; a page's receipts come in no order.      *)
ForMessages(ids) == {r \in receipts : r.id \in ToSet(ids)}
InTime(seq) == \A i, j \in DOMAIN seq : i < j => seq[i].ts <= seq[j].ts

-----------------------------------------------------------------------------
(* The state's types. *)
TypeOK ==
    /\ rows \in Seq([id : Ids, kind : RowKinds, target : Ids \union {NoId}, by : Senders])
    /\ \A r \in receipts : r.id \in Ids /\ r.kind \in {ReceiptKind[t] : t \in DOMAIN ReceiptKind}

(* The history of any row is that of the message it leads to, and has that *)
(* row in it: in whatever order they came, at the depth a message, an edit *)
(* or reaction and its revocation have, and however else the ids from the  *)
(* network point at each other.                                            *)
Acts(i, j) == rows[i].target = rows[j].id
OneHistory ==
    \A i \in DOMAIN rows : LET root == RootOf(rows[i].id) IN
        /\ Found(root) => i \in Thread(root)
        /\ \A j, k \in DOMAIN rows :
             Acts(i, j) /\ Acts(j, k) /\ rows[k].kind = "message" => {root, RootOf(rows[j].id)} = {rows[k].id}

(* A deletion said to be the author's is, and one said to be an admin's is *)
(* somebody else's: under whichever halves the two came.                   *)
AttributionTrue ==
    \A r \in Ids : Found(r) /\ Targeting(r, "delete") # {} =>
        LET by == HistoryFrame(r, <<>>).deletion
            same == rows[RootRow(r)].by.who = rows[DeletionRow(r)].by.who IN
        (by = "author" => same) /\ (by = "admin" => ~same)

(* The name a receipt's person has among these: the LID if any receipt     *)
(* gives it, and else the phone number.                                    *)
NameIn(acks, r) ==
    IF "lid" \in r.by.halves \/ \E s \in acks : s.by.who = r.by.who /\ s.by.halves = {"lid", "pn"}
      THEN <<"lid", r.by.who>> ELSE <<"pn", r.by.who>>

(* A reader is one person with everything their devices said: two readers  *)
(* are one person only if nothing stored about the message links the two   *)
(* names.                                                                  *)
ReadersAreTrue(acks, shown) ==
    /\ DOMAIN shown = {NameIn(acks, r) : r \in acks}
    /\ \A p \in DOMAIN shown :
         LET own == {r \in acks : NameIn(acks, r) = p} IN
         /\ shown[p].delivered = First(Moments(own, "delivered"))
         /\ shown[p].read = First(Moments(own, "read"))
         /\ shown[p].played = First(Moments(own, "played"))

(* What a version's panel says was read is what a receipt naming that      *)
(* version said; our own devices' never say it of an edited message.       *)
RevisionsExact(acks, ids, shown) ==
    \A p \in DOMAIN shown, v \in DOMAIN ids :
        shown[p].revisions[v].read =
            First({r.ts : r \in {s \in acks : /\ NameIn(acks, s) = p /\ s.kind = "read" /\ s.id = ids[v]
                                             /\ ~(s.mine /\ v = 1 /\ Len(ids) > 1)}})

(* A version is said to have been seen only by the device that read first, *)
(* at that moment, and only if that device named it.                       *)
SawOnlyWhatWasNamed(acks, ids, shown) ==
    \A p \in DOMAIN shown : shown[p].saw # 0 =>
        \E r \in acks : /\ NameIn(acks, r) = p /\ Key(r.by) = shown[p].device
                        /\ r.kind = "read" /\ r.id = ids[shown[p].saw] /\ r.ts = shown[p].read
                        /\ \A s \in acks : NameIn(acks, s) = p /\ s.kind = "read" => r.ts <= s.ts

(* The ticks of a page and the readers of the history are the same people, *)
(* at the same moments, for a message that was never edited.               *)
TicksAgree(ticks, shown) ==
    \A kind \in {"delivered", "read"} :
        LET people == {p \in DOMAIN shown : ~shown[p].mine /\ shown[p][kind] # Never} IN
        /\ ticks[kind] = people
        /\ ticks[IF kind = "read" THEN "readAt" ELSE "deliveredAt"] = First({shown[p][kind] : p \in people})

ReceiptsTrue ==
    \A root \in Ids : Found(root) =>
        LET ids == VersionIds(root)
            acks == {r \in ForMessages(ids) : Shown(r)} IN
        \A seq \in SetToSeqs(ForMessages(ids)) :
            /\ InTime(seq) =>
                 LET shown == HistoryFrame(root, seq).readers IN
                 /\ ReadersAreTrue(acks, shown)
                 /\ RevisionsExact(acks, ids, shown)
                 /\ SawOnlyWhatWasNamed(acks, ids, shown)
            /\ Len(ids) = 1 =>
                 \E other \in SetToSeqs(ForMessages(ids)) : InTime(other) /\ TicksAgree(PageAcks(seq), Readers(other, ids))

(* One reaction of a party stands, unless it was revoked, and it is the    *)
(* last: an earlier one falls to nobody else's.                            *)
LastReactionStands ==
    \A i \in DOMAIN rows : rows[i].kind = "reaction" /\ Found(RootOf(rows[i].id)) =>
        LET root == RootOf(rows[i].id)
            standing == HistoryFrame(root, <<>>).standing IN
        \/ i \in standing \/ Targeting(rows[i].id, "delete") # {}
        \/ \E j \in Reactions(root) : i < j /\ rows[j].by.who = rows[i].by.who

(* What a chat says of a message is true of its rows and receipts. *)
ReadersSafe == TypeOK /\ OneHistory /\ AttributionTrue /\ LastReactionStands /\ ReceiptsTrue
=============================================================================
