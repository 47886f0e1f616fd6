------------------------------- MODULE Media -------------------------------
(***************************************************************************)
(* Attachments: the download queue (store.Media, media.Worker), the        *)
(* accounting of stored objects and the pause of a full workspace          *)
(* (store.Storage and the triggers of migrations 0034, 0037 and 0050),     *)
(* retention, erasure and the deletion of objects nobody names, the        *)
(* re-upload of an expired attachment (media.Retrier), and the move of a   *)
(* number's attachments to another workspace.                              *)
(*                                                                         *)
(* One ciphertext is forwarded everywhere: every row has the same hash, so *)
(* the object key of a row is the workspace it was stored under.  Time is  *)
(* not kept: a failed row's next attempt, a claim's 15 minutes and a held  *)
(* key's 10 minutes may pass at any step.                                  *)
(***************************************************************************)
EXTENDS Naturals, FiniteSets, Sequences

CONSTANTS
    Rows,         \* messages with an attachment
    Workspaces,
    HomeOf,       \* HomeOf[r]: the workspace its number belongs to at first
    Moving,       \* the rows of the number that may be moved
    Target,       \* the workspace it may be moved to
    Workers,      \* goroutines of media.Worker, each in its own process
    Limit,        \* Limit[ws]: storage_limit_bytes, in objects
    MaxPending,   \* retries outstanding in one process (4096)
    Patience,     \* attempts after which corrupt bytes are final (2)
    MaxTrouble    \* bound: failed fetches, failed deletes, crashes, retries

None == "none"

VARIABLES
    row,      \* the media table
    owned,    \* storage_objects: <<workspace, key>> pairs, each one charged
    quota,    \* per workspace: over its limit ("no", "grace", "late"), paused
    bucket,   \* the keys object storage holds bytes under
    worker,   \* what each worker has in hand
    doomed,   \* <<workspace, key>> pairs a pass is about to delete
    asked,    \* media.Retrier.pending: rows whose key is held
    borrowed, \* ghost: rows pointed at an object under another workspace's key
    trouble   \* how much of MaxTrouble is spent

vars == <<row, owned, quota, bucket, worker, doomed, asked, borrowed, trouble>>

NoRow(why) == [at |-> why, ws |-> None, key |-> None, tries |-> 0]
Stored(r) == row[r].ws # None
Idle == [at |-> "idle", of |-> None, ws |-> None, key |-> None, tries |-> 0,
         final |-> FALSE]

Init ==
    /\ row = [r \in Rows |-> NoRow("absent")]
    /\ owned = {}
    /\ quota = [ws \in Workspaces |-> [over |-> "no", paused |-> FALSE]]
    /\ bucket = {}
    /\ worker = [w \in Workers |-> Idle]
    /\ doomed = {}
    /\ asked = {}
    /\ borrowed = {}
    /\ trouble = 0

Troubled == trouble < MaxTrouble /\ trouble' = trouble + 1

-----------------------------------------------------------------------------
(* Accounting. *)

Used(pairs, ws) == Cardinality({p \in pairs : p[1] = ws})

(* storage_delta for a change that takes `owned' to `pairs': what the
   workspace's quota becomes.  An object is far more than a twentieth of the
   limit, so 105% is passed with the first one over it. *)
Charged(ws, pairs) ==
    LET total == Used(pairs, ws)
        over  == IF total < Limit[ws] THEN "no"
                 ELSE IF quota[ws].over = "no" THEN "grace" ELSE quota[ws].over
    IN [over   |-> over,
        paused |-> \/ quota[ws].paused
                   \/ total > Limit[ws]
                   \/ quota[ws].over = "late"]

(* storage_delta raises WS001 and the whole transaction is undone. *)
Refused(ws, pairs) ==
    /\ Used(pairs, ws) > Used(owned, ws)
    /\ \/ quota[ws].paused
       \/ quota[ws].over = "late"
       \/ Used(pairs, ws) > Limit[ws]

(* Some workspaces' objects become `pairs', and are accounted for. *)
Account(pairs) ==
    /\ owned' = pairs
    /\ quota' = [ws \in Workspaces |-> IF Used(pairs, ws) = Used(owned, ws)
                                       THEN quota[ws] ELSE Charged(ws, pairs)]

(* StorageUsageTx: any reading of a workspace's usage records a due pause. *)
DuePause(ws) ==
    quota[ws].paused \/ Used(owned, ws) > Limit[ws] \/ quota[ws].over = "late"

(* Storage.Check, before an upload is passed on to WhatsApp: nothing of the
   attachment is stored here, but a due pause is recorded. *)
CheckUpload(ws) ==
    /\ DuePause(ws) /\ ~quota[ws].paused
    /\ quota' = [quota EXCEPT ![ws].paused = TRUE]
    /\ UNCHANGED <<row, owned, bucket, worker, doomed, asked, borrowed, trouble>>

(* 72 hours over the limit. *)
GraceEnds(ws) ==
    /\ quota[ws].over = "grace"
    /\ quota' = [quota EXCEPT ![ws].over = "late"]
    /\ UNCHANGED <<row, owned, bucket, worker, doomed, asked, borrowed, trouble>>

(* Storage.Resume: an administrator's, and only below the limit. *)
Resume(ws) ==
    /\ quota[ws].paused
    /\ Used(owned, ws) < Limit[ws]
    /\ quota' = [quota EXCEPT ![ws] = [over |-> "no", paused |-> FALSE]]
    /\ UNCHANGED <<row, owned, bucket, worker, doomed, asked, borrowed, trouble>>

-----------------------------------------------------------------------------
(* The queue. *)

(* Ingest stores a message with an attachment. *)
Arrive(r) ==
    /\ row[r].at = "absent"
    /\ row' = [row EXCEPT ![r] = [at |-> "pending", ws |-> HomeOf[r],
                                  key |-> None, tries |-> 0]]
    /\ UNCHANGED <<owned, quota, bucket, worker, doomed, asked, borrowed, trouble>>

(* Media.Claim reads the workspace's usage in a transaction of its own, and
   a paused one offers nothing ... *)
CheckClaim(w, ws) ==
    /\ worker[w].at = "idle"
    /\ \/ CheckUpload(ws)
       \/ /\ ~DuePause(ws)
          /\ worker' = [worker EXCEPT ![w] = [Idle EXCEPT !.at = "checked", !.ws = ws]]
          /\ UNCHANGED <<row, owned, quota, bucket, doomed, asked, borrowed, trouble>>

(* ... then takes one attachment that is due, paused meanwhile or not ... *)
Claim(w, r) ==
    /\ worker[w].at = "checked" /\ row[r].ws = worker[w].ws
    /\ row[r].at \in {"pending", "failed"}
    /\ row' = [row EXCEPT ![r].at = "downloading"]
    /\ worker' = [worker EXCEPT ![w].at = "claimed", ![w].of = r, ![w].tries = row[r].tries]
    /\ UNCHANGED <<owned, quota, bucket, doomed, asked, borrowed, trouble>>

(* ... or finds none: a failed row's time may not have come, and another
   claim may hold the rows that are due. *)
ClaimNothing(w) ==
    /\ worker[w].at = "checked"
    /\ worker' = [worker EXCEPT ![w] = Idle]
    /\ UNCHANGED <<row, owned, quota, bucket, doomed, asked, borrowed, trouble>>

(* Media.Sweep, at the head of a worker's pass: a claim 15 minutes old goes
   back to the queue, whether its worker died or is only slow. *)
Sweep(w, r) ==
    /\ worker[w].at = "idle"
    /\ row[r].at = "downloading"
    /\ row' = [row EXCEPT ![r].at = "pending"]
    /\ UNCHANGED <<owned, quota, bucket, worker, doomed, asked, borrowed, trouble>>

(* A transaction of a workspace sees that workspace's rows only. *)
Visible(w) == row[worker[w].of].ws = worker[w].ws

(* Media.AdoptExisting: the keys of stored copies of the same ciphertext. *)
Existing(ws) == {row[r].key : r \in {s \in Rows : /\ row[s].ws = ws
                                                  /\ row[s].at = "done"}}

(* Worker.one looks for a stored copy, and finds one. *)
Adopt(w) ==
    /\ worker[w].at = "claimed"
    /\ \E k \in Existing(worker[w].ws) :
          worker' = [worker EXCEPT ![w].at = "adopting", ![w].key = k]
    /\ UNCHANGED <<row, owned, quota, bucket, doomed, asked, borrowed, trouble>>

(* Worker.fail's verdict on what Fetcher.Fetch returned. *)
Final(cause, tries) == \/ cause \in {"gone", "large"}
                       \/ cause = "corrupt" /\ tries >= Patience

(* Fetcher.fetchOne, for one address: the bytes, verified against the
   published hash, or why not.  An origin refused, a request that failed and
   any other status are "other". *)
FetchOne == {"bytes", "gone", "large", "corrupt", "other"}

(* candidateURLs: the sender's address, the direct path, both or neither. *)
Answers == UNION {[1 .. n -> FetchOne] : n \in 0 .. 2}

(* Fetcher.Fetch: the addresses in turn until one answers with the bytes or
   is too large, else the last one's failure; an attachment without an address
   is gone. *)
Outcome(answers) ==
    LET ends == {n \in DOMAIN answers : answers[n] \in {"bytes", "large"}} IN
    IF answers = <<>> THEN "gone"
    ELSE IF ends = {} THEN answers[Len(answers)]
    ELSE answers[CHOOSE n \in ends : \A m \in ends : n <= m]

(* Worker.one downloads: the bytes verified against the published hash are
   in a temporary file, or the attempt failed. *)
Fetch(w) ==
    /\ worker[w].at = "claimed"
    /\ Existing(worker[w].ws) = {}
    /\ \E cause \in {Outcome(answers) : answers \in Answers} :
          IF cause = "bytes"
          THEN worker' = [worker EXCEPT ![w].at = "fetched"] /\ UNCHANGED trouble
          ELSE /\ Troubled
               /\ worker' = [worker EXCEPT ![w].at = "failing",
                               ![w].final = Final(cause, worker[w].tries)]
    /\ UNCHANGED <<row, owned, quota, bucket, doomed, asked, borrowed>>

(* Storage.ReserveObject: the key is charged before anything is written. *)
Reserve(w) ==
    LET pairs == owned \cup {<<worker[w].ws, worker[w].ws>>} IN
    /\ worker[w].at = "fetched"
    /\ IF Refused(worker[w].ws, pairs)
       THEN /\ worker' = [worker EXCEPT ![w].at = "failing"]
            /\ UNCHANGED <<owned, quota>>
       ELSE /\ worker' = [worker EXCEPT ![w].at = "reserved"]
            /\ Account(pairs)
    /\ UNCHANGED <<row, bucket, doomed, asked, borrowed, trouble>>

Done(r, k) == [row EXCEPT ![r].at = "done", ![r].key = k]

(* Media.StoreReservedObject: under the workspace's lock, the row and the
   reservation are still there, the bytes are put, and the row is done.  A
   failed put may have written the bytes. *)
Store(w) ==
    LET k == worker[w].ws IN
    /\ worker[w].at = "reserved"
    /\ \/ /\ Visible(w) /\ <<worker[w].ws, k>> \in owned
          /\ bucket' = bucket \cup {k}
          /\ row' = Done(worker[w].of, k)
          /\ worker' = [worker EXCEPT ![w] = Idle]
          /\ borrowed' = borrowed \ {worker[w].of}
          /\ UNCHANGED trouble
       \/ /\ Visible(w) /\ <<worker[w].ws, k>> \in owned
          /\ Troubled
          /\ bucket' \in {bucket, bucket \cup {k}}
          /\ worker' = [worker EXCEPT ![w].at = "failing"]
          /\ UNCHANGED <<row, borrowed>>
       \/ /\ ~(Visible(w) /\ <<worker[w].ws, k>> \in owned)
          /\ worker' = [worker EXCEPT ![w].at = "failing"]
          /\ UNCHANGED <<row, bucket, borrowed, trouble>>
    /\ UNCHANGED <<owned, quota, doomed, asked>>

(* Media.MarkDone for an adopted object; the media table's trigger charges
   the key to the row's workspace again.  Refused or invisible, the row stays
   as it is and the worker goes on. *)
MarkDone(w) ==
    LET pairs == owned \cup {<<worker[w].ws, worker[w].key>>} IN
    /\ worker[w].at = "adopting"
    /\ IF Visible(w) /\ ~Refused(worker[w].ws, pairs)
       THEN /\ row' = Done(worker[w].of, worker[w].key)
            /\ Account(pairs)
            /\ borrowed' = IF worker[w].key = worker[w].ws
                           THEN borrowed \ {worker[w].of}
                           ELSE borrowed \cup {worker[w].of}
       ELSE UNCHANGED <<row, owned, quota, borrowed>>
    /\ worker' = [worker EXCEPT ![w] = Idle]
    /\ UNCHANGED <<bucket, doomed, asked, trouble>>

(* Media.MarkFailed, whatever the row has become meanwhile. *)
MarkFailed(w) ==
    LET r == worker[w].of IN
    /\ worker[w].at = "failing"
    /\ row' = IF Visible(w)
              THEN [row EXCEPT ![r].at = IF worker[w].final THEN "gone" ELSE "failed",
                               ![r].tries = IF @ < Patience THEN @ + 1 ELSE @]
              ELSE row
    /\ worker' = [worker EXCEPT ![w] = Idle]
    /\ UNCHANGED <<owned, quota, bucket, doomed, asked, borrowed, trouble>>

(* The process dies: its download is abandoned and its held keys are gone. *)
Crash(w) ==
    /\ worker[w].at # "idle" \/ asked # {}
    /\ Troubled
    /\ worker' = [worker EXCEPT ![w] = Idle]
    /\ asked' = {}
    /\ UNCHANGED <<row, owned, quota, bucket, doomed, borrowed>>

-----------------------------------------------------------------------------
(* Re-upload: the client opens the media key and hands it over. *)

(* Retrier.remember: a key is held, unless too many are. *)
Remembered(r) == Cardinality(asked) < MaxPending

(* handleMediaRetry: any caller who may see the number, for a message it can
   see; the attachment need not have expired. *)
Askable(r) == Stored(r)

(* Retrier.Request: the key is remembered and the receipt is sent; a failed
   send forgets it again. *)
RetryRequest(r) ==
    /\ Askable(r)
    /\ Troubled
    /\ Remembered(r)
    /\ asked' = asked \cup {r}
    /\ UNCHANGED <<row, owned, quota, bucket, worker, doomed, borrowed>>

(* Retrier.take: ten minutes are over, or the sender has nothing. *)
RetryNothing(r) ==
    /\ r \in asked
    /\ asked' = asked \ {r}
    /\ UNCHANGED <<row, owned, quota, bucket, worker, doomed, borrowed, trouble>>

(* Media.Refresh queues the row again at its new path, in the workspace it was
   asked from, whatever it has become meanwhile. *)
Refreshed(r) == IF row[r].ws = HomeOf[r]
                THEN [row EXCEPT ![r].at = "pending", ![r].tries = 0]
                ELSE row

(* Retrier.Handle: the sender uploaded it again. *)
RetryAnswer(r) ==
    /\ r \in asked
    /\ asked' = asked \ {r}
    /\ row' = Refreshed(r)
    /\ UNCHANGED <<owned, quota, bucket, worker, doomed, borrowed, trouble>>

-----------------------------------------------------------------------------
(* Removal. *)

(* The two lookups of DeleteObject and UnreferencedObjects: a row names its
   object, and its hash names the object its download would make. *)
References(table, ws) ==
    UNION {{table[r].key, table[r].ws} : r \in {s \in Rows : table[s].ws = ws}}

(* unreferenced, after the rows are gone: the object keys no row of the
   workspace names any more. *)
Unreferenced(left, ws, keys) ==
    {k \in keys \ {None} : \A s \in Rows : left[s].ws = ws => left[s].key # k}

(* The messages of some rows of one workspace go, their attachments with them
   by cascade, and the objects nobody names are released. *)
Remove(ws, gone) ==
    LET left == [r \in Rows |-> IF r \in gone THEN NoRow("removed") ELSE row[r]]
        keys == {row[r].key : r \in gone}
    IN /\ gone # {}
       /\ row' = left
       /\ doomed' = doomed \cup {<<ws, k>> : k \in Unreferenced(left, ws, keys)}
       /\ borrowed' = borrowed \ gone
       /\ UNCHANGED <<owned, quota, bucket, worker, asked, trouble>>

RowsOf(ws) == {r \in Rows : row[r].ws = ws}

(* Purge: everything of the workspace that is older than its retention. *)
Purge(ws) == Remove(ws, RowsOf(ws))

(* Erase: one person's messages; each attachment is another person's. *)
Erase(ws, r) == Remove(ws, {r} \cap RowsOf(ws))

(* deleteOrphans lists what no attachment of the workspace names: the only
   retry of a delete that failed. *)
ListOrphans(ws) ==
    LET found == {p \in owned : p[1] = ws /\ p[2] \notin References(row, ws)} IN
    /\ ~(found \subseteq doomed)
    /\ doomed' = doomed \cup found
    /\ UNCHANGED <<row, owned, quota, bucket, worker, asked, borrowed, trouble>>

(* Mutant: the references are not looked up again under the lock. *)
DeleteObjectUnchecked(p) ==
    /\ p \in doomed
    /\ doomed' = doomed \ {p}
    /\ IF p \notin owned
       THEN UNCHANGED <<owned, quota, bucket, trouble>>
       ELSE /\ bucket' = IF \E q \in owned : q[2] = p[2] /\ q # p
                         THEN bucket ELSE bucket \ {p[2]}
            /\ Account(owned \ {p})
            /\ UNCHANGED trouble
    /\ UNCHANGED <<row, worker, asked, borrowed>>

(* Storage.DeleteObject, under the locks of the workspace and of the key:
   nothing is done for a key not owned or named again; the bytes stay while
   another workspace owns them.  A failed removal keeps the charge, gone
   bytes or not. *)
DeleteObject(p) ==
    /\ p \in doomed
    /\ doomed' = doomed \ {p}
    /\ IF p \notin owned \/ p[2] \in References(row, p[1])
       THEN UNCHANGED <<owned, quota, bucket, trouble>>
       ELSE LET shared == \E q \in owned : q[2] = p[2] /\ q # p
                rest   == IF shared THEN bucket ELSE bucket \ {p[2]}
            IN \/ /\ bucket' = rest
                  /\ Account(owned \ {p})
                  /\ UNCHANGED trouble
               \/ /\ ~shared /\ Troubled
                  /\ bucket' \in {bucket, rest}
                  /\ UNCHANGED <<owned, quota>>
    /\ UNCHANGED <<row, worker, asked, borrowed>>

(* ObjectDeletes after its third failure in a row, or a pass out of time:
   what is left waits for the next orphan pass. *)
SkipDelete(p) ==
    /\ p \in doomed
    /\ doomed' = doomed \ {p}
    /\ UNCHANGED <<row, owned, quota, bucket, worker, asked, borrowed, trouble>>

(* TransferPersonal's two statements on storage_objects: the destination
   owns every object the number's rows name, then the source gives up those
   no remaining row of it names or may still download. *)
Moved(source, moved, keys) ==
    {p \in owned \cup {<<Target, k>> : k \in keys} :
        ~(p[1] = source /\ p[2] \in keys \ References(moved, source))}

(* TransferPersonal recounts both workspaces: over the limit or not, and a
   pause as it was. *)
Recounted(ws, pairs) ==
    [quota[ws] EXCEPT !.over = IF Used(pairs, ws) < Limit[ws] THEN "no"
                               ELSE IF @ = "no" THEN "grace" ELSE @]

(* TransferPersonal, for the attachments: the number's rows and charges
   change workspace, the objects keep their keys, a download under way is
   queued again.  The destination must have room and not be paused. *)
Move ==
    LET mine  == {r \in Moving : Stored(r) /\ row[r].ws # Target}
        keys  == {row[r].key : r \in mine} \ {None}
        moved == [r \in Rows |->
                    IF r \notin mine THEN row[r]
                    ELSE [row[r] EXCEPT !.ws = Target,
                            !.at = IF @ = "downloading" THEN "pending" ELSE @]]
    IN /\ mine # {}
       /\ ~quota[Target].paused
       /\ Used(owned \cup {<<Target, k>> : k \in keys}, Target) <= Limit[Target]
       /\ row' = moved
       /\ \E r \in mine :
             LET pairs == Moved(row[r].ws, moved, keys) IN
             /\ owned' = pairs
             /\ quota' = [ws \in Workspaces |-> Recounted(ws, pairs)]
       /\ UNCHANGED <<bucket, worker, doomed, asked, borrowed, trouble>>

(* Handler.ServeHTTP, for a reader of the number: not there, not yet, the
   bytes, or recorded as stored and missing from the bucket. *)
Served(r) == CASE row[r].ws = None -> "unknown"
               [] row[r].ws # None /\ row[r].at # "done" -> "later"
               [] row[r].at = "done" -> IF row[r].key \in bucket THEN "bytes"
                                        ELSE "missing"

-----------------------------------------------------------------------------
Work(w) ==
    \/ \E ws \in Workspaces : CheckClaim(w, ws)
    \/ \E r \in Rows : Claim(w, r) \/ Sweep(w, r)
    \/ ClaimNothing(w)
    \/ Adopt(w) \/ Fetch(w) \/ Reserve(w) \/ Store(w)
    \/ MarkDone(w) \/ MarkFailed(w)

Next ==
    \/ \E w \in Workers : Work(w) \/ Crash(w)
    \/ \E r \in Rows : \/ Arrive(r)
                       \/ RetryRequest(r) \/ RetryNothing(r) \/ RetryAnswer(r)
    \/ \E ws \in Workspaces : \/ GraceEnds(ws) \/ Resume(ws) \/ CheckUpload(ws)
                              \/ Purge(ws) \/ ListOrphans(ws)
                              \/ \E r \in Rows : Erase(ws, r)
    \/ \E p \in doomed : DeleteObject(p) \/ SkipDelete(p)
    \/ Move

Spec == Init /\ [][Next]_vars

-----------------------------------------------------------------------------
Keys == Workspaces \cup {None}

TypeOK ==
    /\ row \in [Rows -> [at : {"absent", "removed", "pending", "downloading",
                               "failed", "gone", "done"},
                         ws : Keys, key : Keys, tries : 0 .. Patience]]
    /\ owned \subseteq Workspaces \X Workspaces
    /\ quota \in [Workspaces -> [over : {"no", "grace", "late"}, paused : BOOLEAN]]
    /\ bucket \subseteq Workspaces
    /\ worker \in [Workers -> [at : {"idle", "checked", "claimed", "adopting", "fetched",
                                     "reserved", "failing"},
                               of : Rows \cup {None}, ws : Keys, key : Keys,
                               tries : 0 .. Patience, final : BOOLEAN]]
    /\ doomed \subseteq Workspaces \X Workspaces
    /\ asked \subseteq Rows /\ Cardinality(asked) <= MaxPending
    /\ borrowed \subseteq Rows
    /\ trouble \in 0 .. MaxTrouble

(* An attachment recorded as stored has its bytes, however many rows,
   workspaces, deletes and moves shared the object (DeleteObject "serializes
   physical deletion with new references and uploads").  A row adopted under
   another workspace's key is excepted: the lookup and the record are two
   transactions, and nothing protects that key between them. *)
StoredHasBytes == \A r \in Rows \ borrowed : Served(r) # "missing"

(* Bytes in the bucket are charged to a workspace, so the orphan pass can
   still find and remove them: no crash, failed put, failed delete or move
   leaves an object nobody accounts for. *)
BytesCharged == \A k \in bucket : \E p \in owned : p[2] = k
=============================================================================
