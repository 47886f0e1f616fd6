--------------------------- MODULE OutboundProofs ---------------------------
(***************************************************************************)
(* For any number of connections, requests and rows: no draft and no       *)
(* reference makes two messages, what the ledger says of a message is      *)
(* true, and the caps hold.                                                *)
(*                                                                         *)
(* None of it is inductive alone.  What carries it is what the locks give: *)
(* a request past the connection's limits is the only one of its           *)
(* connection there, its reference is new and its connection may send      *)
(* (Limits); a draft being taken is taken once (Claims); and a row under   *)
(* way has one request, which knows whether the message left (Flights).    *)
(***************************************************************************)
EXTENDS Outbound, FiniteSetTheorems, TLAPS

(* What a row says of itself. *)
RowShape ==
    \A r \in Rows :
        /\ row[r].status = "none" => left[r] = 0
        /\ row[r].status # "none" => row[r].conn \in Conns
        /\ row[r].name = 0 => row[r].status \in {"none", "refused"}
        /\ row[r].status = "pending" => row[r].kind = "draft"

(* A draft's id names one row, and a reference one row of its connection. *)
NamesOnce ==
    \A q, r \in Rows :
        q # r /\ row[q].name # 0 /\ row[q].name = row[r].name /\ row[q].kind = row[r].kind =>
            row[q].kind = "self" /\ row[q].conn # row[r].conn

(* At most one message of a row left, and only of one that says it may have. *)
LeftTrue ==
    \A r \in Rows :
        /\ left[r] \in {0, 1}
        /\ left[r] = 1 => row[r].status \in {"sending", "sent", "uncertain"}
        /\ row[r].status = "sent" => left[r] = 1

(* What a request has in hand. *)
InHand(t) ==
    /\ task[t].op \in {"draft", "self", "limits", "refuse"} => task[t].c \in Conns
    /\ task[t].op = "draft" => task[t].name \in DraftIDs
    /\ task[t].op \in {"self", "limits"} => task[t].name \in Refs
    /\ task[t].op \in {"claimed", "cleared", "send", "finish"} => task[t].r \in Rows

(* A request past its connection's limits holds the connection's lock. *)
Limits(t) ==
    At(t, "limits") =>
        /\ permitted
        /\ conn[task[t].c].status = "active" /\ ~conn[task[t].c].paused
        /\ ~Recorded(task[t].c, task[t].name)
        /\ Cardinality(SentBy(task[t].c)) < PerDay
        /\ \A u \in Tasks \ {t} : At(u, "limits") => task[u].c # task[t].c

(* A draft being taken waits, its row is locked by one request, and the    *)
(* person who still may send might when it was locked.                     *)
Claims(t) ==
    Claiming(t) =>
        /\ row[task[t].r].status = "pending"
        /\ permitted \/ At(t, "cleared") => task[t].may
        /\ \A u \in Tasks \ {t} : Claiming(u) => task[u].r # task[t].r

(* A row under way has one request, which knows what became of it. *)
Flying(t) == At(t, "send") \/ At(t, "finish")
Flights(t) ==
    Flying(t) =>
        /\ row[task[t].r].status \in {"sending", "uncertain"}
        /\ At(t, "send") => left[task[t].r] = 0
        /\ At(t, "finish") => /\ task[t].out \in {"sent", "uncertain", "refused"}
                              /\ task[t].out = "sent" => left[task[t].r] = 1
                              /\ task[t].out = "refused" => left[task[t].r] = 0
        /\ \A u \in Tasks \ {t} : Flying(u) => task[u].r # task[t].r

Own(t) == InHand(t) /\ Limits(t) /\ Claims(t) /\ Flights(t)

RowsInv == RowShape /\ NamesOnce /\ LeftTrue /\ EnvelopeGone /\ EndedLeavesNone /\ WithinLimits
TasksInv == \A t \in Tasks : Own(t)
Inv == TypeOK /\ RowsInv /\ TasksInv

-----------------------------------------------------------------------------
(* Sets of rows are finite, and smaller ones have no more elements. *)
LEMMA RowSets ==
    ASSUME NEW A, NEW B, A \subseteq B, B \subseteq Rows
    PROVE  Cardinality(A) \in Nat /\ Cardinality(B) \in Nat /\ Cardinality(A) <= Cardinality(B)
<1>1. IsFiniteSet(Rows)
  BY FS_Interval, OutboundAssumption DEF Rows
<1>2. IsFiniteSet(A) /\ IsFiniteSet(B)
  BY <1>1, FS_Subset
<1> QED  BY <1>2, FS_Subset, FS_CardinalityType

(* One row more is one more. *)
LEMMA OneMore ==
    ASSUME NEW A, NEW B, B \subseteq Rows, NEW r, A \subseteq B \cup {r}
    PROVE  Cardinality(A) \in Nat /\ Cardinality(B) \in Nat /\ Cardinality(A) <= Cardinality(B) + 1
<1>1. IsFiniteSet(Rows)
  BY FS_Interval, OutboundAssumption DEF Rows
<1>2. IsFiniteSet(B) /\ IsFiniteSet(B \cup {r})
  BY <1>1, FS_Subset, FS_AddElement
<1>3. Cardinality(B \cup {r}) <= Cardinality(B) + 1
  BY <1>2, FS_AddElement, FS_CardinalityType
<1>4. IsFiniteSet(A) /\ Cardinality(A) <= Cardinality(B \cup {r})
  BY <1>2, FS_Subset
<1> QED  BY <1>2, <1>3, <1>4, FS_CardinalityType

(* An unused place of a ledger with room. *)
LEMMA FreshIsFree ==
    ASSUME Room
    PROVE  Fresh \in Rows /\ row[Fresh].status = "none"
  BY DEF Room, Fresh

(* Types of what is written. *)
RowType == [status : Settled \union {"none", "pending", "sending"},
            conn : Conns \union {0}, kind : Kinds, name : Names \union {0},
            sealed : BOOLEAN, today : BOOLEAN, old : BOOLEAN]
TaskType == [op : Ops,
             c : Conns \union {0}, name : Names \union {0}, kind : Kinds,
             key : 0..2, r : Rows \union {0}, out : Settled \union {"none"}, may : BOOLEAN]

LEMMA Typed ==
    ASSUME NEW status \in Settled \union {"none", "pending", "sending"},
           NEW c \in Conns \union {0}, NEW kind \in Kinds, NEW name \in Names \union {0},
           NEW b \in BOOLEAN
    PROVE  Written(status, c, kind, name, b) \in RowType
  BY DEF Written, RowType

LEMMA TypedTask ==
    ASSUME NEW op \in Ops,
           NEW c \in Conns \union {0}, NEW name \in Names \union {0}, NEW kind \in Kinds,
           NEW key \in 0..2, NEW r \in Rows \union {0}, NEW out \in Settled \union {"none"}
    PROVE  Request(op, c, name, kind, key) \in TaskType /\ OfRow(op, r, out) \in TaskType
           /\ Idle \in TaskType
  BY DEF Request, OfRow, Idle, TaskType, Kinds, Ops

-----------------------------------------------------------------------------
(* A step that adds no row and takes rows no way but their own: a waiting  *)
(* draft is taken or settled, what is under way is settled as it went, and *)
(* a row only leaves the window of the caps.                               *)
Onward(r) ==
    /\ row'[r].conn = row[r].conn /\ row'[r].kind = row[r].kind /\ row'[r].name = row[r].name
    /\ row'[r].today => row[r].today
    /\ row'[r].sealed => row[r].sealed /\ row'[r].status = row[r].status
    /\ \/ row'[r].status = row[r].status
       \/ row[r].status = "pending" /\ row'[r].status \in {"sending", "discarded", "expired", "revoked"}
       \/ row[r].status = "sending" /\ row'[r].status = "uncertain"
       \/ row[r].status = "sending" /\ row'[r].status = "sent" /\ left[r] = 1
       \/ row[r].status = "sending" /\ row'[r].status = "refused" /\ left[r] = 0

(* Such a step counts no send that was not counted. *)
LEMMA OnwardCounts ==
    ASSUME RowShape, \A r \in Rows : Onward(r)
    PROVE  /\ SentToday' \subseteq SentToday /\ SentToday \subseteq Rows
           /\ \A c : SentBy(c)' \subseteq SentBy(c) /\ SentBy(c) \subseteq Rows
           /\ \A c, n : Recorded(c, n)' => Recorded(c, n)
           /\ \A c : /\ Cardinality(SentBy(c)') \in Nat /\ Cardinality(SentBy(c)) \in Nat
                     /\ Cardinality(SentBy(c)') <= Cardinality(SentBy(c))
<1>1. \A r \in Rows : Counted(r)' => Counted(r)
  BY DEF Onward, Counted, RowShape
<1>2. SentToday' \subseteq SentToday /\ SentToday \subseteq Rows
  BY <1>1 DEF SentToday, Onward
<1>3. \A c : SentBy(c)' \subseteq SentBy(c) /\ SentBy(c) \subseteq Rows
  BY <1>2 DEF SentBy, Onward
<1>4. \A c, n : Recorded(c, n)' => Recorded(c, n)
  BY DEF Recorded, Onward
<1>5. \A c : /\ Cardinality(SentBy(c)') \in Nat /\ Cardinality(SentBy(c)) \in Nat
             /\ Cardinality(SentBy(c)') <= Cardinality(SentBy(c))
  BY <1>3, RowSets
<1> QED  BY <1>2, <1>3, <1>4, <1>5

(* It keeps what is said of the rows, when no waiting draft is left to an  *)
(* ended connection.                                                       *)
LEMMA OnwardRows ==
    ASSUME RowsInv, \A r \in Rows : Onward(r), left' = left,
           \A r \in Rows : row'[r].status = "pending" => conn'[row'[r].conn].status # "ended"
    PROVE  RowsInv'
<1>1. RowShape'
  BY DEF RowsInv, RowShape, Onward
<1>2. NamesOnce'
  BY DEF RowsInv, NamesOnce, Onward
<1>3. EnvelopeGone'
  BY DEF RowsInv, EnvelopeGone, Onward
<1>4. WithinLimits'
  <2>1. /\ SentToday' \subseteq SentToday /\ SentToday \subseteq Rows
        /\ \A c : /\ Cardinality(SentBy(c)') \in Nat /\ Cardinality(SentBy(c)) \in Nat
                  /\ Cardinality(SentBy(c)') <= Cardinality(SentBy(c))
    BY OnwardCounts DEF RowsInv
  <2>2. Cardinality(SentToday') <= Cardinality(SentToday)
        /\ Cardinality(SentToday') \in Nat /\ Cardinality(SentToday) \in Nat
    BY <2>1, RowSets
  <2> QED  BY <2>1, <2>2, OutboundAssumption DEF RowsInv, WithinLimits
<1>5. LeftTrue'
  BY DEF RowsInv, LeftTrue, Onward
<1>6. EndedLeavesNone'
  BY DEF EndedLeavesNone
<1> QED  BY <1>1, <1>2, <1>3, <1>4, <1>5, <1>6 DEF RowsInv

-----------------------------------------------------------------------------
(* A request that a step of another leaves as it is: what it holds by its  *)
(* lock or its row still stands.                                           *)
Undisturbed(u) ==
    /\ At(u, "limits") =>
          /\ permitted'
          /\ conn'[task[u].c].status = "active" /\ ~conn'[task[u].c].paused
          /\ \A c, n : c = task[u].c /\ n = task[u].name =>
                ~Recorded(c, n)' /\ Cardinality(SentBy(c)') < PerDay
    /\ Claiming(u) => row'[task[u].r].status = "pending" /\ (permitted' => permitted)
    /\ Flying(u) => row'[task[u].r].status \in {"sending", "uncertain"}
                    /\ left'[task[u].r] = left[task[u].r]

(* Each request is left as it is, or answers for itself. *)
LEMMA TaskStep ==
    ASSUME TasksInv,
           \A u \in Tasks : (task'[u] = task[u] /\ Undisturbed(u)) \/ Own(u)'
    PROVE  TasksInv'
<1> SUFFICES ASSUME NEW u \in Tasks, ~Own(u)'
             PROVE  Own(u)'
  BY DEF TasksInv
<1>1. task'[u] = task[u] /\ Undisturbed(u) /\ Own(u)
  BY DEF TasksInv
<1>2. InHand(u)'
  BY <1>1 DEF InHand, Own
<1>3. Limits(u)'
  <2>1. \A v \in Tasks \ {u} : At(u, "limits") /\ At(v, "limits")' => task'[v].c # task'[u].c
    <3> SUFFICES ASSUME NEW v \in Tasks \ {u}, At(u, "limits"), At(v, "limits")'
                 PROVE  task'[v].c # task'[u].c
      OBVIOUS
    <3>1. CASE task'[v] = task[v]
      BY <1>1, <3>1 DEF Own, Limits, At
    <3>2. CASE Own(v)'
      BY <1>1, <3>2 DEF Own, Limits, At
    <3> QED  BY <3>1, <3>2
  <2> QED  BY <1>1, <2>1 DEF Limits, Undisturbed, At
<1>4. Claims(u)'
  <2>1. \A v \in Tasks \ {u} : Claiming(u) /\ Claiming(v)' => task'[v].r # task'[u].r
    <3> SUFFICES ASSUME NEW v \in Tasks \ {u}, Claiming(u), Claiming(v)'
                 PROVE  task'[v].r # task'[u].r
      OBVIOUS
    <3>1. CASE task'[v] = task[v]
      BY <1>1, <3>1 DEF Own, Claims, At, Claiming
    <3>2. CASE Own(v)'
      BY <1>1, <3>2 DEF Own, Claims, At, Claiming
    <3> QED  BY <3>1, <3>2
  <2> QED  BY <1>1, <2>1 DEF Own, Claims, Undisturbed, At, Claiming
<1>5. Flights(u)'
  <2>1. \A v \in Tasks \ {u} : Flying(u) /\ Flying(v)' => task'[v].r # task'[u].r
    <3> SUFFICES ASSUME NEW v \in Tasks \ {u}, Flying(u), Flying(v)'
                 PROVE  task'[v].r # task'[u].r
      OBVIOUS
    <3>1. CASE task'[v] = task[v]
      BY <1>1, <3>1 DEF Own, Flights, Flying, At
    <3>2. CASE Own(v)'
      BY <1>1, <3>2 DEF Own, Flights, Flying, At
    <3> QED  BY <3>1, <3>2
  <2> QED  BY <1>1, <2>1 DEF Flights, Undisturbed, Flying, At, Own
<1> QED  BY <1>2, <1>3, <1>4, <1>5 DEF Own

(* Nothing changed but requests: none is disturbed. *)
LEMMA Unmoved ==
    ASSUME RowsInv, TasksInv, UNCHANGED <<conn, permitted, row, left>>
    PROVE  RowsInv' /\ \A u \in Tasks : Undisturbed(u)
<1>1. RowsInv'
  BY DEF RowsInv, RowShape, NamesOnce, LeftTrue, EnvelopeGone, EndedLeavesNone, WithinLimits,
         SentToday, SentBy, Counted
<1>2. \A c, n : (Recorded(c, n)' <=> Recorded(c, n)) /\ SentBy(c)' = SentBy(c)
  BY DEF Recorded, SentBy, SentToday, Counted
<1>3. \A u \in Tasks : Undisturbed(u)
  BY <1>2 DEF Undisturbed, TasksInv, Own, Limits, Claims, Flights
<1> QED  BY <1>1, <1>3

(* A row settled or taken: only its own request, or one that is taking it, *)
(* is disturbed.                                                           *)
LEMMA OneRow ==
    ASSUME TypeOK, RowsInv, TasksInv, NEW r \in Rows, NEW status \in Settled \union {"sending"},
           Settles(r, status), UNCHANGED <<conn, permitted, left>>,
           \/ row[r].status = "pending" /\ status \in {"sending", "discarded", "expired", "revoked"}
           \/ row[r].status = "sending" /\ status = "uncertain"
           \/ row[r].status = "sending" /\ status = "sent" /\ left[r] = 1
           \/ row[r].status = "sending" /\ status = "refused" /\ left[r] = 0
    PROVE  /\ row' \in [Rows -> RowType]
           /\ RowsInv'
           /\ \A u \in Tasks : \/ Undisturbed(u)
                               \/ Claiming(u) /\ task[u].r = r
                               \/ Flying(u) /\ task[u].r = r /\ status # "uncertain"
<1> DEFINE w == Changed(r, status)
<1>0. row \in [Rows -> RowType]
  BY DEF TypeOK, RowType
<1>1. w \in RowType /\ w.status = status /\ w.conn = row[r].conn /\ w.kind = row[r].kind
      /\ w.name = row[r].name /\ w.today = row[r].today /\ w.sealed = FALSE
  BY <1>0 DEF RowType, Changed
<1>2. row' = [row EXCEPT ![r] = w]
  BY DEF Settles
<1> HIDE DEF w
<1>3. row' \in [Rows -> RowType]
  BY <1>0, <1>1, <1>2
<1>4. \A q \in Rows : q # r => row'[q] = row[q]
  BY <1>0, <1>2
<1>5. row'[r] = w
  BY <1>0, <1>2
<1>6. \A q \in Rows : Onward(q)
  BY <1>1, <1>4, <1>5 DEF Onward
<1>7. \A q \in Rows : row'[q].status = "pending" => conn'[row'[q].conn].status # "ended"
  BY <1>1, <1>4, <1>5 DEF RowsInv, EndedLeavesNone, Settled
<1>8. RowsInv'
  BY <1>6, <1>7, OnwardRows
<1>9. ASSUME NEW u \in Tasks
      PROVE  \/ Undisturbed(u)
             \/ Claiming(u) /\ task[u].r = r
             \/ Flying(u) /\ task[u].r = r /\ status # "uncertain"
  <2>1. /\ \A c, n : Recorded(c, n)' => Recorded(c, n)
        /\ \A c : /\ Cardinality(SentBy(c)') \in Nat /\ Cardinality(SentBy(c)) \in Nat
                  /\ Cardinality(SentBy(c)') <= Cardinality(SentBy(c))
    BY <1>6, OnwardCounts DEF RowsInv
  <2>2. PerDay \in Nat
    BY OutboundAssumption
  <2>3. At(u, "limits") =>
          /\ permitted'
          /\ conn'[task[u].c].status = "active" /\ ~conn'[task[u].c].paused
          /\ \A c, n : c = task[u].c /\ n = task[u].name =>
                ~Recorded(c, n)' /\ Cardinality(SentBy(c)') < PerDay
    BY <2>1, <2>2 DEF TasksInv, Own, Limits
  <2>4. Claiming(u) => task[u].r = r \/ row'[task[u].r].status = "pending"
    BY <1>4 DEF TasksInv, Own, InHand, Claims, At, Claiming
  <2>5. Flying(u) => \/ task[u].r = r /\ status # "uncertain"
                     \/ row'[task[u].r].status \in {"sending", "uncertain"}
    BY <1>1, <1>4, <1>5 DEF TasksInv, Own, InHand, Flights, Flying, At
  <2>6. ~(Claiming(u) /\ Flying(u))
    BY DEF At, Claiming, Flying
  <2> QED  BY <2>3, <2>4, <2>5, <2>6 DEF Undisturbed
<1> QED  BY <1>3, <1>8, <1>9

(* A row written: a send of a request that holds its limits, a draft with  *)
(* an id not seen, or a refusal, which carries no name.  Only a send's own *)
(* request is disturbed.                                                   *)
Adds(status, c, kind, name) ==
    \/ /\ status = "pending" /\ kind = "draft" /\ name \in DraftIDs
       /\ ~\E r \in Rows : row[r].kind = "draft" /\ row[r].name = name
       /\ conn[c].status # "ended"
    \/ status = "refused" /\ name = 0
    \/ /\ status = "sending" /\ kind = "self" /\ name \in Refs /\ ~Recorded(c, name)
       /\ Cardinality(SentBy(c)) < PerDay /\ Cardinality(SentToday) < TenantPerDay

LEMMA NewRow ==
    ASSUME TypeOK, RowsInv, TasksInv, Room, UNCHANGED <<conn, permitted, left>>,
           NEW status \in {"pending", "refused", "sending"}, NEW c \in Conns, NEW kind \in Kinds,
           NEW name \in Names \union {0},
           row' = [row EXCEPT ![Fresh] = Written(status, c, kind, name, status = "pending")],
           Adds(status, c, kind, name)
    PROVE  /\ row' \in [Rows -> RowType]
           /\ RowsInv'
           /\ Fresh \in Rows /\ row'[Fresh].status = status /\ row'[Fresh].kind = kind
           /\ left[Fresh] = 0
           /\ \A u \in Tasks : Flying(u) \/ Claiming(u) => task[u].r # Fresh
           /\ \A u \in Tasks : \/ Undisturbed(u)
                               \/ At(u, "limits") /\ task[u].c = c /\ status = "sending"
<1> DEFINE w == Written(status, c, kind, name, status = "pending")
           f == Fresh
<1>0. row \in [Rows -> RowType]
  BY DEF TypeOK, RowType
<1>1. w \in RowType /\ w.status = status /\ w.conn = c /\ w.kind = kind /\ w.name = name
      /\ w.sealed = (status = "pending")
  <2>1. status \in Settled \union {"none", "pending", "sending"} /\ c \in Conns \union {0}
        /\ (status = "pending") \in BOOLEAN
    BY DEF Settled
  <2>2. w \in RowType
    BY <2>1, Typed
  <2> QED  BY <2>2 DEF Written
<1>2. row' = [row EXCEPT ![f] = w]
  OBVIOUS
<1>3. f \in Rows /\ row[f].status = "none"
  BY FreshIsFree
<1> HIDE DEF w, f
<1>4. row' \in [Rows -> RowType] /\ row'[f] = w /\ \A q \in Rows : q # f => row'[q] = row[q]
  BY <1>0, <1>1, <1>2, <1>3
<1>5. left[f] = 0 /\ ~row[f].sealed
  BY <1>3 DEF RowsInv, RowShape, EnvelopeGone
<1>6. 0 \notin DraftIDs \union Refs \union Conns
  BY OutboundAssumption
<1>7. RowShape' /\ LeftTrue' /\ EnvelopeGone' /\ EndedLeavesNone'
  <2>1. RowShape'
    BY <1>1, <1>4, <1>5, <1>6 DEF RowsInv, RowShape, Adds
  <2>2. LeftTrue'
    BY <1>1, <1>4, <1>5 DEF RowsInv, LeftTrue
  <2>3. EnvelopeGone'
    BY <1>1, <1>4 DEF RowsInv, EnvelopeGone
  <2>4. EndedLeavesNone'
    BY <1>1, <1>4 DEF RowsInv, EndedLeavesNone, Adds
  <2> QED  BY <2>1, <2>2, <2>3, <2>4
<1>8. NamesOnce'
  <2>1. \A q \in Rows : q # f /\ name # 0 /\ row[q].name = name /\ row[q].kind = kind =>
            kind = "self" /\ row[q].conn # c
    BY <1>6 DEF Adds, Recorded
  <2> QED  BY <1>1, <1>4, <2>1 DEF RowsInv, NamesOnce
<1>9. /\ status # "sending" => SentToday' \subseteq SentToday
      /\ SentToday' \subseteq SentToday \union {f} /\ SentToday \subseteq Rows
  BY <1>1, <1>4 DEF SentToday, Counted
<1>10. \A d : /\ status # "sending" \/ d # c => SentBy(d)' \subseteq SentBy(d)
              /\ SentBy(d)' \subseteq SentBy(d) \union {f} /\ SentBy(d) \subseteq Rows
  <2>1. SentToday \subseteq Rows
    BY DEF SentToday
  <2> SUFFICES ASSUME NEW d, NEW q \in SentToday', row'[q].conn = d
               PROVE  \/ q \in SentToday /\ row[q].conn = d
                      \/ q = f /\ status = "sending" /\ d = c
    BY <2>1 DEF SentBy
  <2>2. CASE q = f
    BY <1>1, <1>3, <1>4, <1>9, <2>2 DEF SentToday, Counted
  <2>3. CASE q # f
    BY <1>4, <1>9, <2>1, <2>3
  <2> QED  BY <2>2, <2>3
<1>11. \A d : /\ Cardinality(SentBy(d)') \in Nat /\ Cardinality(SentBy(d)) \in Nat
              /\ status # "sending" \/ d # c => Cardinality(SentBy(d)') <= Cardinality(SentBy(d))
              /\ Cardinality(SentBy(d)') <= Cardinality(SentBy(d)) + 1
  BY <1>10, RowSets, OneMore
<1>12. /\ Cardinality(SentToday') \in Nat /\ Cardinality(SentToday) \in Nat
       /\ status # "sending" => Cardinality(SentToday') <= Cardinality(SentToday)
       /\ Cardinality(SentToday') <= Cardinality(SentToday) + 1
  BY <1>9, RowSets, OneMore
<1>13. PerDay \in Nat /\ TenantPerDay \in Nat
  BY OutboundAssumption
<1>14. WithinLimits'
  <2>1. Cardinality(SentToday') <= TenantPerDay
    BY <1>12, <1>13 DEF RowsInv, WithinLimits, Adds
  <2>2. \A d \in Conns : Cardinality(SentBy(d)') <= PerDay
    BY <1>11, <1>13 DEF RowsInv, WithinLimits, Adds
  <2> QED  BY <2>1, <2>2 DEF WithinLimits
<1>15. ASSUME NEW u \in Tasks
       PROVE  /\ Flying(u) \/ Claiming(u) => task[u].r # f
              /\ Undisturbed(u) \/ (At(u, "limits") /\ task[u].c = c /\ status = "sending")
  <2>1. Flying(u) \/ Claiming(u) => task[u].r # f /\ task[u].r \in Rows
    BY <1>3 DEF TasksInv, Own, InHand, Claims, Flights, Flying, At, Claiming
  <2>2. /\ Claiming(u) => row'[task[u].r].status = "pending"
        /\ Flying(u) => row'[task[u].r].status \in {"sending", "uncertain"}
                        /\ left'[task[u].r] = left[task[u].r]
    BY <1>4, <2>1 DEF TasksInv, Own, Claims, Flights
  <2>3. ASSUME At(u, "limits"), status # "sending" \/ task[u].c # c
        PROVE  \A n : n = task[u].name => ~Recorded(task[u].c, n) /\ n \in Refs
    BY <2>3 DEF TasksInv, Own, Limits, InHand, At
  <2>4. ASSUME At(u, "limits"), status # "sending" \/ task[u].c # c,
               NEW d, NEW n, d = task[u].c, n = task[u].name
        PROVE  ~Recorded(d, n)' /\ Cardinality(SentBy(d)') < PerDay
    <3>1. ~Recorded(d, n) /\ n \in Refs /\ n # 0 /\ Cardinality(SentBy(d)) < PerDay
      BY <1>6, <2>3, <2>4 DEF TasksInv, Own, Limits
    <3>2. ~(w.conn = d /\ w.kind = "self" /\ w.name = n)
      BY <1>1, <2>4, <3>1 DEF Adds
    <3> QED  BY <1>4, <1>11, <1>13, <2>4, <3>1, <3>2 DEF Recorded
  <2> QED  BY <2>1, <2>2, <2>4 DEF Undisturbed, TasksInv, Own, Limits
<1> QED  BY <1>1, <1>3, <1>4, <1>5, <1>7, <1>8, <1>14, <1>15 DEF RowsInv, f

-----------------------------------------------------------------------------
(* A request that holds nothing answers for itself. *)
LEMMA Quiet ==
    ASSUME TypeOK, NEW t \in Tasks,
           NEW op \in {"idle", "draft", "self", "refuse"}, NEW c \in Conns \union {0},
           NEW name \in Names \union {0}, NEW kind \in Kinds, NEW key \in 0..2,
           op # "idle" => c \in Conns, op = "draft" => name \in DraftIDs,
           op = "self" => name \in Refs,
           Becomes(t, Request(op, c, name, kind, key))
    PROVE  /\ task' \in [Tasks -> TaskType]
           /\ \A u \in Tasks \ {t} : task'[u] = task[u]
           /\ Own(t)'
<1> DEFINE v == Request(op, c, name, kind, key)
<1>1. task \in [Tasks -> TaskType]
  BY DEF TypeOK, TaskType
<1>2. v \in TaskType
  <2>1. op \in Ops
        /\ 0 \in Rows \union {0} /\ "none" \in Settled \union {"none"}
    BY DEF Ops
  <2> QED  BY <2>1, TypedTask
<1>3. v.op = op /\ v.c = c /\ v.name = name
  BY DEF Request
<1>4. task' = [task EXCEPT ![t] = v]
  BY DEF Becomes
<1> HIDE DEF v
<1>5. task' \in [Tasks -> TaskType] /\ task'[t] = v /\ \A u \in Tasks \ {t} : task'[u] = task[u]
  BY <1>1, <1>2, <1>4
<1>6. Own(t)'
  BY <1>3, <1>5 DEF Own, InHand, Limits, Claims, Flights, Flying, At, Claiming
<1> QED  BY <1>5, <1>6

LEMMA IsDone ==
    ASSUME TypeOK, NEW t \in Tasks, Done(t)
    PROVE  /\ task' \in [Tasks -> TaskType]
           /\ \A u \in Tasks \ {t} : task'[u] = task[u]
           /\ Own(t)'
<1>1. Becomes(t, Request("idle", 0, 0, "draft", 0))
  BY DEF Done, Idle
<1>2. "draft" \in Kinds /\ 0 \in 0..2
  BY DEF Kinds
<1> QED  BY <1>1, <1>2, Quiet

LEMMA IsRefused ==
    ASSUME TypeOK, TasksInv, NEW t \in Tasks, Refuse(t), task[t].op \in {"draft", "self", "limits"}
    PROVE  /\ task' \in [Tasks -> TaskType]
           /\ \A u \in Tasks \ {t} : task'[u] = task[u]
           /\ Own(t)'
<1>1. Becomes(t, Request("refuse", task[t].c, 0, task[t].kind, 0))
  BY DEF Refuse
<1>2. task[t].c \in Conns /\ task[t].kind \in Kinds /\ 0 \in 0..2
  BY DEF TasksInv, Own, InHand, TypeOK
<1> QED  BY <1>1, <1>2, Quiet

(* A step of one request that changes no row. *)
LEMMA Alone ==
    ASSUME Inv, NEW t \in Tasks, UNCHANGED <<conn, permitted, allowed, row, left>>,
           faults' \in 0..MaxFaults,
           task' \in [Tasks -> TaskType], \A u \in Tasks \ {t} : task'[u] = task[u], Own(t)'
    PROVE  Inv'
<1>1. TypeOK'
  BY DEF Inv, TypeOK, TaskType
<1>2. RowsInv' /\ \A u \in Tasks : Undisturbed(u)
  BY Unmoved DEF Inv
<1>3. TasksInv'
  <2>1. \A u \in Tasks : (task'[u] = task[u] /\ Undisturbed(u)) \/ Own(u)'
    BY <1>2
  <2> QED  BY <2>1, TaskStep DEF Inv
<1> QED  BY <1>1, <1>2, <1>3 DEF Inv

-----------------------------------------------------------------------------
(* The reader's requests. *)
LEMMA SendingTyped ==
    ASSUME TypeOK, NEW c \in Conns, NEW kind \in {"draft", "self"}
    PROVE  /\ (IF allowed THEN kind ELSE "refuse") \in {"idle", "draft", "self", "refuse"}
           /\ conn[c].key \in 0..2 /\ kind \in Kinds
  BY DEF TypeOK, Kinds

LEMMA AskDraftKeeps ==
    ASSUME Inv, NEW t \in Tasks, NEW c \in Conns, NEW id \in DraftIDs, AskDraft(t, c, id)
    PROVE  Inv'
<1>1. Becomes(t, Request(IF allowed THEN "draft" ELSE "refuse", c, id, "draft", conn[c].key))
  BY DEF AskDraft, SendingConnection
<1>2. task' \in [Tasks -> TaskType] /\ Own(t)' /\ \A u \in Tasks \ {t} : task'[u] = task[u]
  BY <1>1, SendingTyped, Quiet DEF Inv, Names
<1>3. UNCHANGED <<conn, permitted, allowed, row, left>> /\ faults' \in 0..MaxFaults
  BY DEF AskDraft, Inv, TypeOK
<1> QED  BY <1>2, <1>3, Alone

LEMMA AskSendKeeps ==
    ASSUME Inv, NEW t \in Tasks, NEW c \in Conns, NEW ref \in Refs, AskSend(t, c, ref)
    PROVE  Inv'
<1>1. Becomes(t, Request(IF allowed THEN "self" ELSE "refuse", c, ref, "self", conn[c].key))
  BY DEF AskSend, SendingConnection
<1>2. task' \in [Tasks -> TaskType] /\ Own(t)' /\ \A u \in Tasks \ {t} : task'[u] = task[u]
  BY <1>1, SendingTyped, Quiet DEF Inv, Names
<1>3. UNCHANGED <<conn, permitted, allowed, row, left>> /\ faults' \in 0..MaxFaults
  BY DEF AskSend, Inv, TypeOK
<1> QED  BY <1>2, <1>3, Alone

LEMMA ReaderRefusalKeeps ==
    ASSUME Inv, NEW t \in Tasks, NEW c \in Conns, NEW kind \in Kinds, ReaderRefusal(t, c, kind)
    PROVE  Inv'
<1>1. Becomes(t, Request("refuse", c, 0, kind, 0))
  BY DEF ReaderRefusal
<1>2. task' \in [Tasks -> TaskType] /\ Own(t)' /\ \A u \in Tasks \ {t} : task'[u] = task[u]
  BY <1>1, Quiet DEF Inv
<1>3. UNCHANGED <<conn, permitted, allowed, row, left>> /\ faults' \in 0..MaxFaults
  BY DEF ReaderRefusal, Inv, TypeOK
<1> QED  BY <1>2, <1>3, Alone

LEMMA CrashKeeps ==
    ASSUME Inv, NEW t \in Tasks, Crash(t)
    PROVE  Inv'
<1>1. task' \in [Tasks -> TaskType] /\ Own(t)' /\ \A u \in Tasks \ {t} : task'[u] = task[u]
  BY IsDone DEF Crash, Inv
<1>2. UNCHANGED <<conn, permitted, allowed, row, left>> /\ faults' \in 0..MaxFaults
  BY OutboundAssumption DEF Crash, Fault, Inv, TypeOK
<1> QED  BY <1>1, <1>2, Alone

(* The request takes its connection's lock: it is the only one to hold it. *)
LEMMA StartSendKeeps ==
    ASSUME Inv, NEW t \in Tasks, StartSend(t)
    PROVE  Inv'
<1>0. UNCHANGED <<conn, permitted, allowed, row, left>> /\ faults' \in 0..MaxFaults
  BY DEF StartSend, Inv, TypeOK
<1>1. CASE Refuse(t)
  <2>1. task[t].op \in {"draft", "self", "limits"}
    BY DEF StartSend, At
  <2> QED  BY <1>0, <1>1, <2>1, IsRefused, Alone DEF Inv
<1>2. CASE Done(t)
  BY <1>0, <1>2, IsDone, Alone DEF Inv
<1>3. CASE /\ LiveForSending(t) /\ permitted /\ ~Recorded(task[t].c, task[t].name)
           /\ ~ConnLimit(task[t].c)
           /\ Becomes(t, Request("limits", task[t].c, task[t].name, "self", task[t].key))
  <2> DEFINE v == Request("limits", task[t].c, task[t].name, "self", task[t].key)
  <2>1. task[t] \in TaskType /\ task \in [Tasks -> TaskType]
    BY DEF Inv, TypeOK, TaskType
  <2>2. At(t, "self") /\ ~Locked(task[t].c) /\ task[t].c \in Conns /\ task[t].name \in Refs
    BY DEF StartSend, Inv, TasksInv, Own, InHand, At
  <2>3. v \in TaskType
    <3>1. /\ "limits" \in Ops
          /\ task[t].c \in Conns \union {0} /\ task[t].name \in Names \union {0}
          /\ task[t].key \in 0..2 /\ "self" \in Kinds
          /\ 0 \in Rows \union {0} /\ "none" \in Settled \union {"none"}
      BY <2>1, <2>2 DEF TaskType, Kinds, Names, Ops
    <3> QED  BY <3>1, TypedTask
  <2>4. v.op = "limits" /\ v.c = task[t].c /\ v.name = task[t].name
    BY DEF Request
  <2>5. task' = [task EXCEPT ![t] = v]
    BY <1>3 DEF Becomes
  <2> HIDE DEF v
  <2>6. task' \in [Tasks -> TaskType] /\ task'[t] = v /\ \A u \in Tasks \ {t} : task'[u] = task[u]
    BY <2>1, <2>3, <2>5
  <2>7. \A c : SentBy(c) \subseteq Rows
    BY DEF SentBy, SentToday
  <2>8. \A c : Cardinality(SentBy(c)) \in Nat
    BY <2>7, RowSets
  <2>9. Limits(t)'
    <3>1. /\ permitted' /\ conn'[task'[t].c].status = "active" /\ ~conn'[task'[t].c].paused
      BY <1>0, <1>3, <2>4, <2>6 DEF LiveForSending
    <3>2. ~Recorded(task[t].c, task[t].name) /\ Cardinality(SentBy(task[t].c)) < PerDay
      BY <1>3, <2>8, OutboundAssumption DEF ConnLimit
    <3>3. Recorded(task[t].c, task[t].name)' = Recorded(task[t].c, task[t].name)
          /\ SentBy(task[t].c)' = SentBy(task[t].c)
      BY <1>0, <2>4, <2>6 DEF Recorded, SentBy, SentToday, Counted
    <3>4. \A u \in Tasks \ {t} : At(u, "limits")' => task'[u].c # task'[t].c
      BY <2>2, <2>4, <2>6 DEF Locked, At
    <3> QED  BY <3>1, <3>2, <3>3, <3>4 DEF Limits
  <2>10. Own(t)'
    BY <2>2, <2>4, <2>6, <2>9 DEF Own, InHand, Claims, Flights, Flying, At, Claiming
  <2> QED  BY <1>0, <2>6, <2>10, Alone
<1> QED  BY <1>1, <1>2, <1>3 DEF StartSend

(* The draft's row is locked: it is taken by one request. *)
LEMMA ConfirmKeeps ==
    ASSUME Inv, NEW t \in Tasks, NEW r \in Rows, Confirm(t, r)
    PROVE  Inv'
<1>0. UNCHANGED <<conn, permitted, allowed, row, left>> /\ faults' \in 0..MaxFaults
  BY DEF Confirm, Inv, TypeOK
<1> DEFINE v == [OfRow("claimed", r, "none") EXCEPT !.may = permitted]
<1>1. task \in [Tasks -> TaskType] /\ permitted \in BOOLEAN
  BY DEF Inv, TypeOK, TaskType
<1>2. v \in TaskType
  BY <1>1 DEF OfRow, TaskType, Kinds, Ops
<1>3. v.op = "claimed" /\ v.r = r /\ v.may = permitted
  BY DEF OfRow
<1>4. task' = [task EXCEPT ![t] = v]
  BY DEF Confirm, Becomes
<1> HIDE DEF v
<1>5. task' \in [Tasks -> TaskType] /\ task'[t] = v /\ \A u \in Tasks \ {t} : task'[u] = task[u]
  BY <1>1, <1>2, <1>4
<1>6. Claims(t)'
  <2>1. row'[r].status = "pending"
    BY <1>0 DEF Confirm, Claimable, Waiting
  <2>2. \A u \in Tasks \ {t} : Claiming(u)' => task'[u].r # r
    BY <1>5 DEF Confirm, RowLocked, At, Claiming
  <2> QED  BY <1>0, <1>3, <1>5, <2>1, <2>2 DEF Claims, At
<1>7. Own(t)'
  BY <1>3, <1>5, <1>6 DEF Own, InHand, Limits, Flights, Flying, At
<1> QED  BY <1>0, <1>5, <1>7, Alone

(* The permission is read: the request goes on with its lock, or ends. *)
LEMMA PermitDraftKeeps ==
    ASSUME Inv, NEW t \in Tasks, PermitDraft(t)
    PROVE  Inv'
<1>0. UNCHANGED <<conn, permitted, allowed, row, left>> /\ faults' \in 0..MaxFaults
  BY DEF PermitDraft, Inv, TypeOK
<1>1. CASE Done(t)
  BY <1>0, <1>1, IsDone, Alone DEF Inv
<1>2. CASE permitted /\ Becomes(t, [task[t] EXCEPT !.op = "cleared"])
  <2>1. task \in [Tasks -> TaskType]
    BY DEF Inv, TypeOK, TaskType
  <2>2. At(t, "claimed") /\ task[t].r \in Rows /\ Claims(t)
    BY DEF PermitDraft, Inv, TasksInv, Own, InHand, At
  <2> DEFINE v == [task[t] EXCEPT !.op = "cleared"]
  <2>3. v \in TaskType /\ v.op = "cleared" /\ v.r = task[t].r /\ v.may = task[t].may
    BY <2>1 DEF TaskType, Ops
  <2>4. task' = [task EXCEPT ![t] = v]
    BY <1>2 DEF Becomes
  <2> HIDE DEF v
  <2>5. task' \in [Tasks -> TaskType] /\ task'[t] = v /\ \A u \in Tasks \ {t} : task'[u] = task[u]
    BY <2>1, <2>3, <2>4
  <2>6. Claims(t)'
    BY <1>0, <1>2, <2>2, <2>3, <2>5 DEF Claims, Claiming, At
  <2>7. Own(t)'
    BY <2>2, <2>3, <2>5, <2>6 DEF Own, InHand, Limits, Flights, Flying, At
  <2> QED  BY <1>0, <2>5, <2>7, Alone
<1> QED  BY <1>1, <1>2 DEF PermitDraft

-----------------------------------------------------------------------------
(* The steps that write a row. *)

(* A request that ends, or goes on to be refused, and adds its row. *)
LEMMA CreateDraftKeeps ==
    ASSUME Inv, NEW t \in Tasks, CreateDraft(t)
    PROVE  Inv'
<1>0. UNCHANGED <<conn, permitted, allowed, left>> /\ faults' \in 0..MaxFaults
  BY DEF CreateDraft, Inv, TypeOK
<1>1. CASE Refuse(t) /\ row' = row
  <2>1. task[t].op \in {"draft", "self", "limits"}
    BY DEF CreateDraft, At
  <2> QED  BY <1>0, <1>1, <2>1, IsRefused, Alone DEF Inv
<1>2. CASE Done(t) /\ row' = row
  BY <1>0, <1>2, IsDone, Alone DEF Inv
<1>3. CASE /\ LiveForSending(t) /\ Room /\ Done(t)
           /\ ~\E r \in Rows : row[r].kind = "draft" /\ row[r].name = task[t].name
           /\ row' = [row EXCEPT ![Fresh] = Written("pending", task[t].c, "draft", task[t].name, TRUE)]
  <2>1. task[t].c \in Conns /\ task[t].name \in DraftIDs
    BY DEF CreateDraft, Inv, TasksInv, Own, InHand, At
  <2>2. Adds("pending", task[t].c, "draft", task[t].name)
    BY <1>3, <2>1 DEF Adds, LiveForSending
  <2>3. /\ row' \in [Rows -> RowType] /\ RowsInv'
        /\ \A u \in Tasks : Undisturbed(u)
    <3>1. "pending" \in {"pending", "refused", "sending"} /\ "draft" \in Kinds
          /\ task[t].name \in Names \union {0} /\ ("pending" = "pending") = TRUE
      BY <2>1 DEF Kinds, Names
    <3>2. row' = [row EXCEPT ![Fresh] = Written("pending", task[t].c, "draft", task[t].name,
                                                "pending" = "pending")]
      BY <1>3
    <3> QED  BY <1>0, <1>3, <2>1, <2>2, <3>1, <3>2, NewRow DEF Inv
  <2>4. task' \in [Tasks -> TaskType] /\ Own(t)' /\ \A u \in Tasks \ {t} : task'[u] = task[u]
    BY <1>3, IsDone DEF Inv
  <2>5. TypeOK'
    BY <1>0, <2>3, <2>4 DEF Inv, TypeOK, RowType, TaskType
  <2>6. TasksInv'
    BY <2>3, <2>4, TaskStep DEF Inv
  <2> QED  BY <2>3, <2>5, <2>6 DEF Inv
<1> QED  BY <1>1, <1>2, <1>3 DEF CreateDraft

LEMMA RecordRefusalKeeps ==
    ASSUME Inv, NEW t \in Tasks, RecordRefusal(t)
    PROVE  Inv'
<1>0. UNCHANGED <<conn, permitted, allowed, left>> /\ faults' \in 0..MaxFaults /\ Done(t)
  BY DEF RecordRefusal, Inv, TypeOK
<1>1. CASE row' = row
  BY <1>0, <1>1, IsDone, Alone DEF Inv
<1>2. CASE Room /\ row' = [row EXCEPT ![Fresh] = Written("refused", task[t].c, task[t].kind, 0, FALSE)]
  <2>1. task[t].c \in Conns /\ task[t].kind \in Kinds
    BY DEF RecordRefusal, Inv, TasksInv, Own, InHand, At, TypeOK
  <2>2. /\ row' \in [Rows -> RowType] /\ RowsInv'
        /\ \A u \in Tasks : Undisturbed(u)
    <3>1. "refused" \in {"pending", "refused", "sending"} /\ 0 \in Names \union {0}
          /\ ("refused" = "pending") = FALSE /\ "refused" # "sending"
      OBVIOUS
    <3>2. row' = [row EXCEPT ![Fresh] = Written("refused", task[t].c, task[t].kind, 0,
                                                "refused" = "pending")]
      BY <1>2
    <3>3. Adds("refused", task[t].c, task[t].kind, 0)
      BY DEF Adds
    <3> QED  BY <1>0, <1>2, <2>1, <3>1, <3>2, <3>3, NewRow DEF Inv
  <2>4. task' \in [Tasks -> TaskType] /\ Own(t)' /\ \A u \in Tasks \ {t} : task'[u] = task[u]
    BY <1>0, IsDone DEF Inv
  <2>5. TypeOK'
    BY <1>0, <2>2, <2>4 DEF Inv, TypeOK, RowType, TaskType
  <2>6. TasksInv'
    BY <2>2, <2>4, TaskStep DEF Inv
  <2> QED  BY <2>2, <2>5, <2>6 DEF Inv
<1> QED  BY <1>1, <1>2 DEF RecordRefusal

(* A request that goes on with a row. *)
LEMMA WithRow ==
    ASSUME TypeOK, NEW t \in Tasks, NEW op \in {"send", "finish"}, NEW r \in Rows,
           NEW out \in Settled \union {"none"}, Becomes(t, OfRow(op, r, out))
    PROVE  /\ task' \in [Tasks -> TaskType]
           /\ \A u \in Tasks \ {t} : task'[u] = task[u]
           /\ task'[t].op = op /\ task'[t].r = r /\ task'[t].out = out
           /\ InHand(t)' /\ Limits(t)' /\ Claims(t)'
<1> DEFINE v == OfRow(op, r, out)
<1>1. task \in [Tasks -> TaskType]
  BY DEF TypeOK, TaskType
<1>2. v \in TaskType
  <2>1. /\ op \in Ops
        /\ 0 \in Conns \union {0} /\ 0 \in Names \union {0} /\ 0 \in 0..2 /\ "draft" \in Kinds
        /\ r \in Rows \union {0}
    BY DEF Kinds, Ops
  <2> QED  BY <2>1, TypedTask
<1>3. v.op = op /\ v.r = r /\ v.out = out
  BY DEF OfRow
<1>4. task' = [task EXCEPT ![t] = v]
  BY DEF Becomes
<1> HIDE DEF v
<1>5. task' \in [Tasks -> TaskType] /\ task'[t] = v /\ \A u \in Tasks \ {t} : task'[u] = task[u]
  BY <1>1, <1>2, <1>4
<1> QED  BY <1>3, <1>5 DEF InHand, Limits, Claims, At, Claiming

LEMMA RecordSendKeeps ==
    ASSUME Inv, NEW t \in Tasks, RecordSend(t)
    PROVE  Inv'
<1>0. UNCHANGED <<conn, permitted, allowed, left>> /\ faults' \in 0..MaxFaults /\ At(t, "limits")
  BY DEF RecordSend, Inv, TypeOK
<1>1. CASE Refuse(t) /\ row' = row
  <2>1. task[t].op \in {"draft", "self", "limits"}
    BY <1>0 DEF At
  <2> QED  BY <1>0, <1>1, <2>1, IsRefused, Alone DEF Inv
<1>2. CASE /\ ~WorkspaceFull /\ Room
           /\ row' = [row EXCEPT ![Fresh] = Written("sending", task[t].c, "self", task[t].name, FALSE)]
           /\ Becomes(t, OfRow("send", Fresh, "none"))
  <2>1. task[t].c \in Conns /\ task[t].name \in Refs
    BY <1>0 DEF Inv, TasksInv, Own, InHand, At
  <2>2. Adds("sending", task[t].c, "self", task[t].name)
    <3>1. SentToday \subseteq Rows
      BY DEF SentToday
    <3>2. Cardinality(SentToday) < TenantPerDay
      BY <1>2, <3>1, RowSets, OutboundAssumption DEF WorkspaceFull
    <3> QED  BY <1>0, <2>1, <3>2 DEF Adds, Inv, TasksInv, Own, Limits
  <2>3. /\ row' \in [Rows -> RowType] /\ RowsInv'
        /\ Fresh \in Rows /\ row'[Fresh].status = "sending" /\ left[Fresh] = 0
        /\ \A u \in Tasks : Flying(u) \/ Claiming(u) => task[u].r # Fresh
        /\ \A u \in Tasks : Undisturbed(u) \/ (At(u, "limits") /\ task[u].c = task[t].c)
    <3>1. "sending" \in {"pending", "refused", "sending"} /\ "self" \in Kinds
          /\ task[t].name \in Names \union {0} /\ ("sending" = "pending") = FALSE
      BY <2>1 DEF Kinds, Names
    <3>2. row' = [row EXCEPT ![Fresh] = Written("sending", task[t].c, "self", task[t].name,
                                                "sending" = "pending")]
      BY <1>2
    <3> QED  BY <1>0, <1>2, <2>1, <2>2, <3>1, <3>2, NewRow DEF Inv
  <2>4. /\ task' \in [Tasks -> TaskType] /\ task'[t].op = "send" /\ task'[t].r = Fresh
        /\ InHand(t)' /\ Limits(t)' /\ Claims(t)'
        /\ \A u \in Tasks \ {t} : task'[u] = task[u]
    BY <1>2, <2>3, WithRow DEF Inv
  <2> DEFINE f == Fresh
  <2>5. /\ f \in Rows /\ row'[f].status = "sending" /\ left'[f] = 0 /\ task'[t].r = f
        /\ \A u \in Tasks : Flying(u) => task[u].r # f
    BY <1>0, <2>3, <2>4
  <2> HIDE DEF f
  <2>6. Flights(t)'
    BY <2>4, <2>5 DEF Flights, Flying, At
  <2>7. \A u \in Tasks \ {t} : Undisturbed(u)
    BY <1>0, <2>3 DEF Inv, TasksInv, Own, Limits
  <2>8. TypeOK'
    BY <1>0, <2>3, <2>4 DEF Inv, TypeOK, RowType, TaskType
  <2>9. TasksInv'
    BY <2>4, <2>6, <2>7, TaskStep DEF Inv, Own
  <2> QED  BY <2>3, <2>8, <2>9 DEF Inv
<1> QED  BY <1>1, <1>2 DEF RecordSend

(* What left is what the request knows. *)
LEMMA SendTextKeeps ==
    ASSUME Inv, NEW t \in Tasks, SendText(t)
    PROVE  Inv'
<1>0. UNCHANGED <<conn, permitted, allowed, row>> /\ faults' \in 0..MaxFaults /\ At(t, "send")
  BY DEF SendText, Inv, TypeOK
<1> DEFINE r == task[t].r
<1>1. r \in Rows /\ left[r] = 0 /\ row[r].status \in {"sending", "uncertain"}
  BY <1>0 DEF Inv, TasksInv, Own, InHand, Flights, Flying, At
<1>2. \A u \in Tasks \ {t} : Flying(u) => task[u].r # r
  BY <1>0 DEF Inv, TasksInv, Own, Flights, Flying
<1>3. left \in [Rows -> Nat]
  BY DEF Inv, TypeOK
<1>4. PICK out \in {"sent", "uncertain", "refused"} :
        /\ Becomes(t, OfRow("finish", r, out))
        /\ \/ left' = left /\ out # "sent"
           \/ left' = [left EXCEPT ![r] = @ + 1] /\ out # "refused"
  BY DEF SendText
<1> HIDE DEF r
<1>5. /\ left' \in [Rows -> Nat] /\ \A q \in Rows : q # r => left'[q] = left[q]
      /\ left'[r] \in {0, 1}
      /\ out = "sent" => left'[r] = 1
      /\ out = "refused" => left'[r] = 0
  BY <1>1, <1>3, <1>4
<1>6. /\ task' \in [Tasks -> TaskType] /\ task'[t].op = "finish" /\ task'[t].r = r
      /\ task'[t].out = out /\ InHand(t)' /\ Limits(t)' /\ Claims(t)'
      /\ \A u \in Tasks \ {t} : task'[u] = task[u]
  BY <1>1, <1>4, WithRow DEF Inv, Settled
<1>7. RowsInv'
  <2>1. RowShape' /\ LeftTrue'
    BY <1>0, <1>1, <1>5 DEF Inv, RowsInv, RowShape, LeftTrue
  <2> QED  BY <1>0, <2>1 DEF Inv, RowsInv, NamesOnce, EnvelopeGone, EndedLeavesNone,
                          WithinLimits, SentToday, SentBy, Counted
<1>8. \A u \in Tasks \ {t} : Undisturbed(u)
  <2>1. \A c, n : (Recorded(c, n)' <=> Recorded(c, n)) /\ SentBy(c)' = SentBy(c)
    BY <1>0 DEF Recorded, SentBy, SentToday, Counted
  <2>2. \A u \in Tasks \ {t} : Flying(u) => left'[task[u].r] = left[task[u].r]
    BY <1>2, <1>5 DEF Inv, TasksInv, Own, InHand, Flying, At
  <2> QED  BY <1>0, <2>1, <2>2 DEF Undisturbed, Inv, TasksInv, Own, Limits, Claims, Flights
<1>9. Flights(t)'
  BY <1>0, <1>1, <1>2, <1>5, <1>6 DEF Flights, Flying, At
<1>10. TypeOK'
  BY <1>0, <1>5, <1>6 DEF Inv, TypeOK, TaskType
<1>11. TasksInv'
  BY <1>6, <1>8, <1>9, TaskStep DEF Inv, Own
<1> QED  BY <1>7, <1>10, <1>11 DEF Inv

(* The record of a send, on a row that is still under way. *)
LEMMA FinishKeeps ==
    ASSUME Inv, NEW t \in Tasks, At(t, "finish"), Done(t),
           UNCHANGED <<conn, permitted, allowed, left, faults>>,
           IF Finishable(task[t].r) THEN Settles(task[t].r, task[t].out) ELSE row' = row
    PROVE  Inv'
<1>0. faults' \in 0..MaxFaults
  BY DEF Inv, TypeOK
<1>1. CASE row' = row
  BY <1>0, <1>1, IsDone, Alone DEF Inv
<1>2. CASE Finishable(task[t].r) /\ Settles(task[t].r, task[t].out)
  <2> DEFINE r == task[t].r
             out == task[t].out
  <2>1. /\ r \in Rows /\ row[r].status = "sending" /\ out \in {"sent", "uncertain", "refused"}
        /\ out = "sent" => left[r] = 1
        /\ out = "refused" => left[r] = 0
    BY <1>2 DEF Inv, TasksInv, Own, InHand, Flights, Flying, At, Finishable
  <2>2. \A u \in Tasks \ {t} : Flying(u) => task[u].r # r
    BY DEF Inv, TasksInv, Own, Flights, Flying
  <2>3. \A u \in Tasks : Claiming(u) => task[u].r # r
    BY <2>1 DEF Inv, TasksInv, Own, Claims
  <2>4. Settles(r, out)
    BY <1>2
  <2> HIDE DEF r, out
  <2>5. /\ row' \in [Rows -> RowType] /\ RowsInv'
        /\ \A u \in Tasks : \/ Undisturbed(u)
                            \/ Claiming(u) /\ task[u].r = r
                            \/ Flying(u) /\ task[u].r = r
    <3>1. out \in Settled \union {"sending"}
      BY <2>1 DEF Settled
    <3>2. \/ row[r].status = "sending" /\ out = "uncertain"
          \/ row[r].status = "sending" /\ out = "sent" /\ left[r] = 1
          \/ row[r].status = "sending" /\ out = "refused" /\ left[r] = 0
      BY <2>1
    <3> QED  BY <2>1, <2>4, <3>1, <3>2, OneRow DEF Inv
  <2>6. task' \in [Tasks -> TaskType] /\ Own(t)' /\ \A u \in Tasks \ {t} : task'[u] = task[u]
    BY IsDone DEF Inv
  <2>7. TypeOK'
    BY <1>0, <2>5, <2>6 DEF Inv, TypeOK, RowType, TaskType
  <2>8. TasksInv'
    BY <2>2, <2>3, <2>5, <2>6, TaskStep DEF Inv
  <2> QED  BY <2>5, <2>7, <2>8 DEF Inv
<1> QED  BY <1>1, <1>2

(* A draft is taken by the request that holds its row. *)
LEMMA ClaimDraftKeeps ==
    ASSUME Inv, NEW t \in Tasks, ClaimDraft(t)
    PROVE  Inv'
<1>0. UNCHANGED <<conn, permitted, allowed, left>> /\ faults' \in 0..MaxFaults /\ At(t, "cleared")
  BY DEF ClaimDraft, Inv, TypeOK
<1> DEFINE r == task[t].r
<1>1. /\ r \in Rows /\ row[r].status = "pending"
      /\ \A u \in Tasks \ {t} : Claiming(u) => task[u].r # r
  BY <1>0 DEF Inv, TasksInv, Own, InHand, Claims, At, Claiming
<1>2. \A u \in Tasks : Flying(u) => task[u].r # r
  BY <1>1 DEF Inv, TasksInv, Own, Flights
<1>3. Settles(r, "sending") /\ Becomes(t, OfRow("send", r, "none"))
  BY DEF ClaimDraft
<1> HIDE DEF r
<1>4. left[r] = 0
  BY <1>1 DEF Inv, RowsInv, LeftTrue, TypeOK
<1>5. /\ row' \in [Rows -> RowType] /\ RowsInv'
      /\ \A u \in Tasks : \/ Undisturbed(u)
                          \/ Claiming(u) /\ task[u].r = r
                          \/ Flying(u) /\ task[u].r = r
  BY <1>0, <1>1, <1>3, OneRow DEF Inv
<1>6. /\ task' \in [Tasks -> TaskType] /\ task'[t].op = "send" /\ task'[t].r = r
      /\ InHand(t)' /\ Limits(t)' /\ Claims(t)'
      /\ \A u \in Tasks \ {t} : task'[u] = task[u]
  BY <1>1, <1>3, WithRow DEF Inv
<1>7. row'[r].status = "sending"
  BY <1>1, <1>3 DEF Settles, Changed, Inv, TypeOK
<1>8. Flights(t)'
  BY <1>0, <1>2, <1>4, <1>6, <1>7 DEF Flights, Flying, At
<1>9. TypeOK'
  BY <1>0, <1>5, <1>6 DEF Inv, TypeOK, RowType, TaskType
<1>10. TasksInv'
  BY <1>1, <1>2, <1>5, <1>6, <1>8, TaskStep DEF Inv, Own
<1> QED  BY <1>5, <1>9, <1>10 DEF Inv

(* A row settled by nobody's request: it is locked by none. *)
LEMMA SettledAlone ==
    ASSUME Inv, NEW r \in Rows, ~RowLocked(r), NEW status \in Settled, Settles(r, status),
           UNCHANGED <<conn, permitted, allowed, left, task, faults>>,
           \/ row[r].status = "pending" /\ status \in {"discarded", "expired"}
           \/ row[r].status = "sending" /\ status = "uncertain"
    PROVE  Inv'
<1>1. /\ row' \in [Rows -> RowType] /\ RowsInv'
      /\ \A u \in Tasks : \/ Undisturbed(u)
                          \/ Claiming(u) /\ task[u].r = r
                          \/ Flying(u) /\ task[u].r = r /\ status # "uncertain"
  BY OneRow DEF Inv
<1>2. \A u \in Tasks : Undisturbed(u)
  BY <1>1 DEF RowLocked, Inv, TasksInv, Own, Flights
<1>3. TasksInv'
  BY <1>2, TaskStep DEF Inv
<1>4. TypeOK'
  BY <1>1 DEF Inv, TypeOK, RowType
<1> QED  BY <1>1, <1>3, <1>4 DEF Inv

(* Steps that take no request's row out of its state. *)
LEMMA Apart ==
    ASSUME Inv, TypeOK', \A r \in Rows : Onward(r), left' = left, task' = task, permitted' = permitted,
           \A r \in Rows : row'[r].status = "pending" => conn'[row'[r].conn].status # "ended",
           \A u \in Tasks : At(u, "limits") => conn'[task[u].c] = conn[task[u].c],
           \A u \in Tasks : Claiming(u) => row'[task[u].r].status = row[task[u].r].status,
           \A r \in Rows : row[r].status = "sending" => row'[r].status = "sending"
    PROVE  Inv'
<1>1. RowsInv'
  BY OnwardRows DEF Inv
<1>2. /\ \A c, n : Recorded(c, n)' => Recorded(c, n)
      /\ \A c : /\ Cardinality(SentBy(c)') \in Nat /\ Cardinality(SentBy(c)) \in Nat
                /\ Cardinality(SentBy(c)') <= Cardinality(SentBy(c))
  BY OnwardCounts DEF Inv, RowsInv
<1>3. \A u \in Tasks : Undisturbed(u)
  <2> SUFFICES ASSUME NEW u \in Tasks
               PROVE  Undisturbed(u)
    OBVIOUS
  <2>1. PerDay \in Nat
    BY OutboundAssumption
  <2>2. At(u, "limits") =>
          /\ permitted'
          /\ conn'[task[u].c].status = "active" /\ ~conn'[task[u].c].paused
          /\ \A c, n : c = task[u].c /\ n = task[u].name =>
                ~Recorded(c, n)' /\ Cardinality(SentBy(c)') < PerDay
    BY <1>2, <2>1 DEF Inv, TasksInv, Own, Limits
  <2>3. Claiming(u) => row'[task[u].r].status = "pending"
    BY DEF Inv, TasksInv, Own, Claims
  <2>4. Flying(u) => row'[task[u].r].status \in {"sending", "uncertain"}
    BY DEF Inv, TasksInv, Own, InHand, Flights, Flying, At, Onward
  <2> QED  BY <2>2, <2>3, <2>4 DEF Undisturbed
<1>4. TasksInv'
  BY <1>3, TaskStep DEF Inv
<1> QED  BY <1>1, <1>4 DEF Inv

(* Time changes a row's age, and nothing else. *)
LEMMA PassesKeeps ==
    ASSUME Inv, NEW r \in Rows, Passes(r)
    PROVE  Inv'
<1>0. row \in [Rows -> RowType]
  BY DEF Inv, TypeOK, RowType
<1>1. /\ row' \in [Rows -> RowType]
      /\ \A q \in Rows : /\ row'[q].status = row[q].status /\ row'[q].conn = row[q].conn
                         /\ row'[q].kind = row[q].kind /\ row'[q].name = row[q].name
                         /\ row'[q].sealed = row[q].sealed
                         /\ row'[q].today => row[q].today
  <2>1. CASE row' = [row EXCEPT ![r].old = TRUE]
    BY <1>0, <2>1 DEF RowType
  <2>2. CASE row' = [row EXCEPT ![r].today = FALSE]
    BY <1>0, <2>2 DEF RowType
  <2> QED  BY <2>1, <2>2 DEF Passes
<1>2. TypeOK'
  BY <1>1 DEF Passes, Inv, TypeOK, RowType
<1>3. \A q \in Rows : Onward(q)
  BY <1>1 DEF Onward
<1>4. UNCHANGED <<conn, permitted, left, task>>
  BY DEF Passes
<1>5. \A q \in Rows : row'[q].status = "pending" => conn'[row'[q].conn].status # "ended"
  BY <1>1, <1>4 DEF Inv, RowsInv, EndedLeavesNone
<1>6. \A u \in Tasks : Claiming(u) => row'[task[u].r].status = row[task[u].r].status
  BY <1>1 DEF Inv, TasksInv, Own, InHand, At, Claiming
<1> QED  BY <1>1, <1>2, <1>3, <1>4, <1>5, <1>6, Apart

(* An end waits for the requests that hold a lock, and takes every waiting *)
(* draft of its connection.                                                *)
LEMMA EndConnectionKeeps ==
    ASSUME Inv, NEW c \in Conns, EndConnection(c)
    PROVE  Inv'
<1>0. row \in [Rows -> RowType]
  BY DEF Inv, TypeOK, RowType
<1>1. \A r \in Rows : /\ Changed(r, "revoked") \in RowType
                      /\ Changed(r, "revoked").status = "revoked"
                      /\ Changed(r, "revoked").conn = row[r].conn
                      /\ Changed(r, "revoked").kind = row[r].kind
                      /\ Changed(r, "revoked").name = row[r].name
                      /\ Changed(r, "revoked").today = row[r].today
                      /\ Changed(r, "revoked").sealed = FALSE
  BY <1>0 DEF Changed, RowType, Settled
<1>2. \A r \in Rows : row'[r] = IF row[r].conn = c /\ row[r].status = "pending"
                                THEN Changed(r, "revoked") ELSE row[r]
  BY DEF EndConnection
<1>3. row' \in [Rows -> RowType]
  BY <1>0, <1>1 DEF EndConnection
<1>4. \A r \in Rows : Onward(r)
  BY <1>1, <1>2 DEF Onward
<1>5. /\ conn' \in [Conns -> [status : {"active", "reseal", "ended"}, paused : BOOLEAN, key : {1, 2}]]
      /\ \A d \in Conns : d # c => conn'[d] = conn[d]
  BY DEF EndConnection, Inv, TypeOK
<1>6. UNCHANGED <<permitted, allowed, left, task, faults>> /\ ~Shared
  BY DEF EndConnection
<1>7. TypeOK'
  BY <1>3, <1>5, <1>6 DEF Inv, TypeOK, RowType
<1>8. \A r \in Rows : row'[r].status = "pending" => conn'[row'[r].conn].status # "ended"
  BY <1>1, <1>2, <1>5 DEF Inv, RowsInv, EndedLeavesNone, RowShape
<1>9. \A u \in Tasks : Claiming(u) => row'[task[u].r].status = row[task[u].r].status
  BY <1>2 DEF EndConnection, RowLocked, Inv, TasksInv, Own, InHand, At, Claiming
<1>10. \A r \in Rows : row[r].status = "sending" => row'[r].status = "sending"
  BY <1>2
<1>11. \A u \in Tasks : At(u, "limits") => conn'[task[u].c] = conn[task[u].c]
  BY <1>6 DEF Shared
<1> QED  BY <1>4, <1>6, <1>7, <1>8, <1>9, <1>10, <1>11, Apart

(* What changes a connection or a permission waits for the requests that   *)
(* rest on it.                                                             *)
LEMMA AroundKeeps ==
    ASSUME Inv, UNCHANGED <<row, left, task, faults>>, TypeOK',
           \A c \in Conns : conn'[c].status = "ended" <=> conn[c].status = "ended",
           permitted' => permitted,
           \A u \in Tasks : At(u, "limits") => conn'[task[u].c] = conn[task[u].c]
                                              /\ permitted' = permitted
    PROVE  Inv'
<1>1. RowsInv'
  BY DEF Inv, RowsInv, RowShape, NamesOnce, LeftTrue, EnvelopeGone, EndedLeavesNone, WithinLimits,
         SentToday, SentBy, Counted
<1>2. \A c, n : (Recorded(c, n)' <=> Recorded(c, n)) /\ SentBy(c)' = SentBy(c)
  BY DEF Recorded, SentBy, SentToday, Counted
<1>3. \A u \in Tasks : Undisturbed(u)
  BY <1>2 DEF Undisturbed, Inv, TasksInv, Own, Limits, Claims, Flights
<1>4. TasksInv'
  BY <1>3, TaskStep DEF Inv
<1> QED  BY <1>1, <1>4 DEF Inv

LEMMA SetSendPausedKeeps ==
    ASSUME Inv, NEW c \in Conns, NEW consenter \in BOOLEAN, NEW paused \in BOOLEAN,
           SetSendPaused(c, consenter, paused)
    PROVE  Inv'
<1>1. /\ conn' \in [Conns -> [status : {"active", "reseal", "ended"}, paused : BOOLEAN, key : {1, 2}]]
      /\ \A d \in Conns : conn'[d].status = conn[d].status /\ (d # c => conn'[d] = conn[d])
  BY DEF SetSendPaused, Inv, TypeOK
<1>2. UNCHANGED <<row, left, task, faults, permitted, allowed>> /\ ~Locked(c)
  BY DEF SetSendPaused, Pausable
<1>3. TypeOK'
  BY <1>1, <1>2 DEF Inv, TypeOK
<1>4. \A u \in Tasks : At(u, "limits") => conn'[task[u].c] = conn[task[u].c]
  BY <1>1, <1>2 DEF Locked, Inv, TasksInv, Own, InHand, At
<1> QED  BY <1>1, <1>2, <1>3, <1>4, AroundKeeps

LEMMA RekeyKeeps ==
    ASSUME Inv, NEW c \in Conns, Rekey(c)
    PROVE  Inv'
<1>1. /\ conn' \in [Conns -> [status : {"active", "reseal", "ended"}, paused : BOOLEAN, key : {1, 2}]]
      /\ \A d \in Conns : conn'[d].status = "ended" <=> conn[d].status = "ended"
  <2>1. CASE conn[c].status = "active" /\ conn' = [conn EXCEPT ![c].status = "reseal"]
    BY <2>1 DEF Inv, TypeOK
  <2>2. CASE /\ conn[c].status = "reseal"
             /\ conn' = [conn EXCEPT ![c] = [status |-> "active", paused |-> conn[c].paused, key |-> 2]]
    BY <2>2 DEF Inv, TypeOK
  <2> QED  BY <2>1, <2>2 DEF Rekey
<1>2. UNCHANGED <<row, left, task, faults, permitted, allowed>> /\ ~Shared
  BY DEF Rekey
<1>3. TypeOK'
  BY <1>1, <1>2 DEF Inv, TypeOK
<1> QED  BY <1>1, <1>2, <1>3, AroundKeeps DEF Shared

LEMMA WithdrawKeeps ==
    ASSUME Inv, Withdraw
    PROVE  Inv'
<1>1. UNCHANGED <<conn, row, left, task, faults>> /\ permitted' \in BOOLEAN /\ allowed' \in BOOLEAN
  BY DEF Withdraw, Inv, TypeOK
<1>2. TypeOK'
  BY <1>1 DEF Inv, TypeOK
<1>3. (permitted' => permitted) /\ \A u \in Tasks : At(u, "limits") => permitted' = permitted
  BY DEF Withdraw, Shared
<1> QED  BY <1>1, <1>2, <1>3, AroundKeeps

-----------------------------------------------------------------------------
LEMMA InitHolds == Init => Inv
<1> SUFFICES ASSUME Init
             PROVE  Inv
  OBVIOUS
<1>1. /\ \A t \in Tasks : task[t] = Idle
      /\ \A r \in Rows : row[r] = NoRow /\ left[r] = 0
  BY DEF Init
<1>2. Idle \in TaskType /\ Idle.op = "idle"
  <2>1. /\ "idle" \in Ops
        /\ 0 \in Conns \union {0} /\ 0 \in Names \union {0} /\ 0 \in 0..2 /\ "draft" \in Kinds
        /\ 0 \in Rows \union {0} /\ "none" \in Settled \union {"none"}
    BY DEF Kinds, Ops
  <2>2. Idle \in TaskType
    BY <2>1, TypedTask
  <2> QED  BY <2>2 DEF Idle, Request
<1>3. NoRow \in RowType
  BY DEF NoRow, RowType, Kinds
<1>4. TypeOK
  <2>1. row \in [Rows -> RowType] /\ task \in [Tasks -> TaskType]
    BY <1>2, <1>3 DEF Init
  <2>2. conn \in [Conns -> [status : {"active", "reseal", "ended"}, paused : BOOLEAN, key : {1, 2}]]
    BY DEF Init
  <2> QED  BY <2>1, <2>2, OutboundAssumption DEF Init, TypeOK, RowType, TaskType
<1>5. WithinLimits
  <2>1. SentToday = {} /\ \A c : SentBy(c) = {}
    BY <1>1 DEF SentToday, SentBy, NoRow, Counted
  <2> QED  BY <2>1, FS_EmptySet, OutboundAssumption DEF WithinLimits
<1>6. RowsInv
  BY <1>1, <1>5 DEF RowsInv, RowShape, NamesOnce, LeftTrue, EnvelopeGone, EndedLeavesNone, NoRow
<1>7. TasksInv
  BY <1>1, <1>2 DEF TasksInv, Own, InHand, Limits, Claims, Flights, Flying, At, Claiming
<1> QED  BY <1>4, <1>6, <1>7 DEF Inv

LEMMA NextKeeps == Inv /\ [Next]_vars => Inv'
<1> SUFFICES ASSUME Inv, [Next]_vars
             PROVE  Inv'
  OBVIOUS
<1>1. CASE UNCHANGED vars
  <2>1. RowsInv' /\ \A u \in Tasks : Undisturbed(u)
    BY <1>1, Unmoved DEF vars, Inv
  <2>2. TasksInv'
    BY <1>1, <2>1, TaskStep DEF vars, Inv
  <2> QED  BY <1>1, <2>1, <2>2 DEF vars, Inv, TypeOK
<1>2. ASSUME NEW t \in Tasks, Step(t)
      PROVE  Inv'
  <2>1. CASE CreateDraft(t)
    BY <2>1, CreateDraftKeeps
  <2>2. CASE StartSend(t)
    BY <2>2, StartSendKeeps
  <2>3. CASE RecordSend(t)
    BY <2>3, RecordSendKeeps
  <2>4. CASE RecordRefusal(t)
    BY <2>4, RecordRefusalKeeps
  <2>5. CASE SendText(t)
    BY <2>5, SendTextKeeps
  <2>6. CASE FinishSend(t) \/ FinishDraft(t)
    BY <2>6, FinishKeeps DEF FinishSend, FinishDraft
  <2>7. CASE PermitDraft(t)
    BY <2>7, PermitDraftKeeps
  <2>8. CASE ClaimDraft(t)
    BY <2>8, ClaimDraftKeeps
  <2> QED  BY <1>2, <2>1, <2>2, <2>3, <2>4, <2>5, <2>6, <2>7, <2>8 DEF Step
<1>3. ASSUME NEW t \in Tasks, Crash(t)
      PROVE  Inv'
  BY <1>3, CrashKeeps
<1>4. ASSUME NEW t \in Tasks, NEW c \in Conns, NEW id \in DraftIDs, AskDraft(t, c, id)
      PROVE  Inv'
  BY <1>4, AskDraftKeeps
<1>5. ASSUME NEW t \in Tasks, NEW c \in Conns, NEW ref \in Refs, AskSend(t, c, ref)
      PROVE  Inv'
  BY <1>5, AskSendKeeps
<1>6. ASSUME NEW t \in Tasks, NEW c \in Conns, NEW kind \in Kinds, ReaderRefusal(t, c, kind)
      PROVE  Inv'
  BY <1>6, ReaderRefusalKeeps
<1>7. ASSUME NEW t \in Tasks, NEW r \in Rows, Confirm(t, r)
      PROVE  Inv'
  BY <1>7, ConfirmKeeps
<1>8. ASSUME NEW r \in Rows, DiscardDraft(r) \/ Passes(r) \/ ExpireDraft(r) \/ SettleStale(r)
      PROVE  Inv'
  <2>1. CASE DiscardDraft(r)
    BY <2>1, SettledAlone DEF DiscardDraft, Waiting, Settled
  <2>2. CASE Passes(r)
    BY <2>2, PassesKeeps
  <2>3. CASE ExpireDraft(r)
    BY <2>3, SettledAlone DEF ExpireDraft, Settled
  <2>4. CASE SettleStale(r)
    BY <2>4, SettledAlone DEF SettleStale, StaleSettled, Settled
  <2> QED  BY <1>8, <2>1, <2>2, <2>3, <2>4
<1>9. ASSUME NEW c \in Conns, NEW consenter \in BOOLEAN, NEW paused \in BOOLEAN,
             SetSendPaused(c, consenter, paused)
      PROVE  Inv'
  BY <1>9, SetSendPausedKeeps
<1>10. ASSUME NEW c \in Conns, EndConnection(c) \/ Rekey(c)
       PROVE  Inv'
  BY <1>10, EndConnectionKeeps, RekeyKeeps
<1>11. CASE Withdraw
  BY <1>11, WithdrawKeeps
<1> QED  BY <1>1, <1>2, <1>3, <1>4, <1>5, <1>6, <1>7, <1>8, <1>9, <1>10, <1>11 DEF Next

(* The inductive invariant holds in every reachable state: a lock or a row  *)
(* under way belongs to one request, and what that request knows is true   *)
(* (StartSend, ClaimDraft, FinishSend).                                    *)
THEOREM OutboundInvariant == Spec => []Inv
<1>1. Init => Inv
  BY InitHolds
<1>2. Inv /\ [Next]_vars => Inv'
  BY NextKeeps
<1> QED  BY <1>1, <1>2, PTL DEF Spec

(* For every number of connections, requests and rows, no draft and no     *)
(* reference makes two messages, the ledger's outcomes are true, an ended  *)
(* connection leaves no draft, and the caps hold (store/mcp_send.go).      *)
THEOREM OutboundIsSafe == Spec => []OutboundSafe
<1>1. Inv => OutboundSafe
  <2> SUFFICES ASSUME Inv
               PROVE  OutboundSafe
    OBVIOUS
  <2>1. NeverTwice
    <3>1. \A r \in Rows : left[r] <= 1
      BY DEF Inv, RowsInv, LeftTrue
    <3>2. \A q, r \in Rows : q # r /\ left[q] = 1 /\ left[r] = 1 =>
            <<row[q].conn, row[q].kind, row[q].name>> # <<row[r].conn, row[r].kind, row[r].name>>
      BY DEF Inv, RowsInv, LeftTrue, RowShape, NamesOnce
    <3> QED  BY <3>1, <3>2 DEF NeverTwice
  <2>2. LedgerTrue
    BY DEF Inv, RowsInv, LeftTrue, LedgerTrue, TypeOK
  <2> QED  BY <2>1, <2>2 DEF OutboundSafe, Inv, RowsInv
<1> QED  BY <1>1, OutboundInvariant, PTL

(* A send starts only where it is allowed, and an outcome written is       *)
(* final: late answers, second decisions and the janitor find it settled.  *)
LEMMA StepHolds == Inv /\ [Next]_vars => OutcomeStands /\ StartsOnlyAllowed
<1> SUFFICES ASSUME Inv, [Next]_vars, NEW r \in Rows
             PROVE  /\ row[r].status \in Settled => row'[r].status = row[r].status
                    /\ row[r].status # "sending" /\ row'[r].status = "sending" =>
                         LET c == row'[r].conn
                         IN  \/ /\ row'[r].kind = "self" /\ permitted
                                /\ conn[c].status = "active" /\ ~ conn[c].paused
                             \/ /\ row'[r].kind = "draft" /\ conn[c].status # "ended"
                                /\ \E t \in Tasks : At(t, "cleared") /\ task[t].r = r /\ task[t].may
  BY DEF OutcomeStands, StartsOnlyAllowed
<1> DEFINE Final == row[r].status \in Settled => row'[r].status = row[r].status
           NoStart == row[r].status # "sending" => row'[r].status # "sending"
<1>0. row \in [Rows -> RowType]
  BY DEF Inv, TypeOK, RowType
<1>1. ASSUME NEW q \in Rows, NEW status, Settles(q, status)
      PROVE  row'[q].status = status /\ row'[q].kind = row[q].kind /\ row'[q].conn = row[q].conn
             /\ (r # q => row'[r] = row[r])
  BY <1>0, <1>1 DEF Settles, Changed, RowType
<1>2. ASSUME row' = row
      PROVE  Final /\ NoStart
  BY <1>2
<1>3. ASSUME NEW q \in Rows, NEW status, Settles(q, status), row[q].status \in {"pending", "sending"},
             status # "sending"
      PROVE  Final /\ NoStart
  BY <1>1, <1>3 DEF Settled
<1>4. ASSUME NEW c, NEW kind, NEW name, NEW b, NEW status, Room,
             row' = [row EXCEPT ![Fresh] = Written(status, c, kind, name, b)]
      PROVE  /\ Final
             /\ row[r].status # "sending" /\ row'[r].status = "sending" =>
                  row'[r].kind = kind /\ row'[r].conn = c
  BY <1>0, <1>4, FreshIsFree DEF Written, Settled
<1>5. ASSUME NEW t \in Tasks, RecordSend(t), row' # row
      PROVE  /\ Final
             /\ row[r].status # "sending" /\ row'[r].status = "sending" =>
                  /\ row'[r].kind = "self" /\ permitted
                  /\ conn[row'[r].conn].status = "active" /\ ~conn[row'[r].conn].paused
  <2>1. Room /\ row' = [row EXCEPT ![Fresh] = Written("sending", task[t].c, "self", task[t].name, FALSE)]
        /\ At(t, "limits")
    BY <1>5 DEF RecordSend
  <2> QED  BY <1>4, <2>1 DEF Inv, TasksInv, Own, Limits
<1>6. ASSUME NEW t \in Tasks, ClaimDraft(t), row' # row
      PROVE  /\ Final
             /\ row[r].status # "sending" /\ row'[r].status = "sending" =>
                  /\ row'[r].kind = "draft" /\ conn[row'[r].conn].status # "ended"
                  /\ At(t, "cleared") /\ task[t].r = r /\ task[t].may
  <2>1. Settles(task[t].r, "sending") /\ At(t, "cleared")
    BY <1>6 DEF ClaimDraft
  <2>2. task[t].r \in Rows /\ row[task[t].r].status = "pending" /\ task[t].may
    BY <2>1 DEF Inv, TasksInv, Own, InHand, Claims, Claiming, At
  <2> QED  BY <1>1, <2>1, <2>2 DEF Inv, RowsInv, RowShape, EndedLeavesNone, Settled
<1>7. ASSUME NEW t \in Tasks, CreateDraft(t) \/ RecordRefusal(t)
      PROVE  Final /\ NoStart
  <2>1. CASE row' = row
    BY <1>2, <2>1
  <2>2. CASE Room /\ row' = [row EXCEPT ![Fresh] = Written("pending", task[t].c, "draft", task[t].name, TRUE)]
    <3>1. row'[r] = row[r] \/ (row[r].status = "none" /\ row'[r].status = "pending")
      BY <1>0, <2>2, FreshIsFree DEF Written
    <3> QED  BY <3>1 DEF Settled
  <2>3. CASE Room /\ row' = [row EXCEPT ![Fresh] = Written("refused", task[t].c, task[t].kind, 0, FALSE)]
    <3>1. row'[r] = row[r] \/ (row[r].status = "none" /\ row'[r].status = "refused")
      BY <1>0, <2>3, FreshIsFree DEF Written
    <3> QED  BY <3>1 DEF Settled
  <2> QED  BY <1>7, <2>1, <2>2, <2>3 DEF CreateDraft, RecordRefusal
<1>8. ASSUME NEW t \in Tasks, FinishSend(t) \/ FinishDraft(t)
      PROVE  Final /\ NoStart
  <2>1. task[t].r \in Rows /\ task[t].out # "sending"
    BY <1>8 DEF FinishSend, FinishDraft, Inv, TasksInv, Own, InHand, Flights, Flying, At
  <2>2. CASE row' = row
    BY <1>2, <2>2
  <2>3. CASE Finishable(task[t].r) /\ Settles(task[t].r, task[t].out)
    BY <1>3, <2>1, <2>3 DEF Finishable
  <2> QED  BY <1>8, <2>2, <2>3 DEF FinishSend, FinishDraft
<1>9. ASSUME NEW q \in Rows, DiscardDraft(q) \/ ExpireDraft(q) \/ SettleStale(q)
      PROVE  Final /\ NoStart
  BY <1>3, <1>9 DEF DiscardDraft, ExpireDraft, SettleStale, StaleSettled, Waiting
<1>10. ASSUME NEW q \in Rows, Passes(q)
       PROVE  Final /\ NoStart
  <2>1. row'[r].status = row[r].status
    BY <1>0, <1>10 DEF Passes, RowType
  <2> QED  BY <2>1
<1>11. ASSUME NEW c \in Conns, EndConnection(c)
       PROVE  Final /\ NoStart
  BY <1>11 DEF EndConnection, Changed, Settled
<1>12. row' = row \/ (Final /\ NoStart)
       \/ \E t \in Tasks : RecordSend(t) \/ ClaimDraft(t)
  BY <1>7, <1>8, <1>9, <1>10, <1>11
     DEF Next, Step, vars, Crash, AskDraft, AskSend, ReaderRefusal, Confirm, PermitDraft, StartSend,
         SendText, SetSendPaused, Rekey, Withdraw
<1> HIDE DEF Final, NoStart
<1>13. CASE Final /\ NoStart
  BY <1>13 DEF Final, NoStart
<1>14. CASE row' # row /\ \E t \in Tasks : RecordSend(t) \/ ClaimDraft(t)
  BY <1>5, <1>6, <1>14 DEF Final
<1> QED  BY <1>2, <1>12, <1>13, <1>14

(* For every instance, no send starts that is not allowed any more, and no *)
(* outcome is rewritten (ClaimDraft, StartSend, FinishSend).               *)
THEOREM OutboundStepsHold == Spec => OutboundSteps
<1>1. Inv /\ [Next]_vars => [OutcomeStands /\ StartsOnlyAllowed]_vars
  BY StepHolds
<1> QED  BY <1>1, OutboundInvariant, PTL DEF Spec, OutboundSteps
=============================================================================
