----------------------------- MODULE MCArchive -----------------------------
(* Archive with one conversation and few envelopes, and Media with two rows
   of one ciphertext, in one workspace or in two, one of them movable, the
   paging of Replay over every short archive, and the directories of Rotation.
   The four share no state here: a behaviour exercises one and the others stay
   as they began. *)
EXTENDS Archive, TLC

CONSTANTS Rows, Workspaces, Moving, Target, Workers, MaxPending, Patience,
          MaxTrouble, ReplayPageSize, ReplayLength, AckIds, NoDevice,
          MaxSecrets, MaxSeals, MaxStops, MaxRestores

VARIABLES part, row, owned, quota, bucket, worker, doomed, asked, borrowed,
          trouble, archive, since, mark, step, last, page, i, ackpage, j, horizon,
          sent, short, dir, cmd, todo, told, server, loaded, platform, spent

mvars == <<row, owned, quota, bucket, worker, doomed, asked, borrowed, trouble>>
rvars == <<archive, since, mark, step, last, page, i, ackpage, j, horizon, sent,
           short>>
svars == <<dir, cmd, todo, told, server, loaded, platform, spent>>

MCLimit == [ws \in Workspaces |-> IF ws = "t1" THEN 1 ELSE 2]
Together == [r \in Rows |-> "t1"]
Apart == [r \in Rows |-> IF r \in Moving THEN "t1" ELSE "t2"]

M == INSTANCE Media WITH HomeOf <- Together, Limit <- MCLimit
N == INSTANCE Media WITH HomeOf <- Apart, Limit <- MCLimit
R == INSTANCE Replay WITH Page <- ReplayPageSize, MaxSeq <- ReplayLength,
                          Dev <- NoDevice, rows <- page,
                          acks <- ackpage
S == INSTANCE Rotation WITH MaxTroubles <- MaxStops, step <- todo, used <- spent

Symmetry == Permutations(Workers)

Envelope == [chat |-> "a", id |-> "m1", kind |-> "message", type |-> "text",
             later |-> "text", target |-> "", src |-> "live", ts |-> 2,
             fromMe |-> FALSE, content |-> TRUE]

Stub == [Envelope EXCEPT !.type = "unsupported", !.later = "protocol",
                         !.content = FALSE]
Vote == [Envelope EXCEPT !.id = "m2", !.type = "unsupported",
                         !.later = "poll_vote", !.ts = 3]
Reaction == [Envelope EXCEPT !.id = "r1", !.kind = "reaction",
                             !.type = "none", !.target = "m1", !.ts = 3]
Withdrawal == [Envelope EXCEPT !.id = "w1", !.kind = "delete", !.type = "none",
                               !.target = "r1", !.ts = 3, !.content = FALSE]

MCIncoming == {Envelope, Stub, Vote, Reaction, Withdrawal}

Sent == [Envelope EXCEPT !.id = "s1", !.src = "outbox", !.fromMe = TRUE, !.ts = 3]

MCOutgoing ==
    {Sent, [Sent EXCEPT !.type = "image"],
     [Sent EXCEPT !.id = "s2", !.type = "poll_vote"],
     [Sent EXCEPT !.id = "s2", !.kind = "edit", !.type = "none", !.target = "s1"],
     [Sent EXCEPT !.id = "s2", !.kind = "delete", !.type = "none", !.target = "s1"],
     [Sent EXCEPT !.id = "s2", !.kind = "reaction", !.type = "none", !.target = "m1"]}

Old == [Envelope EXCEPT !.id = "h1", !.src = "history", !.ts = 1]

MCChunks == {[chat |-> "a", unread |-> 0,
              msgs |-> <<Old, [Envelope EXCEPT !.src = "history"]>>],
             [chat |-> "a", unread |-> NotStated,
              msgs |-> <<[Old EXCEPT !.type = "unsupported"]>>]}

MCReceipts == {[ids |-> {"m1", "s1"}, kind |-> k, own |-> TRUE] :
                 k \in {"read", "delivered"}}
              \cup {[ids |-> {"s1"}, kind |-> "read", own |-> FALSE]}

MCInit == /\ Init /\ M!Init /\ R!Init /\ S!Init
          /\ \/ part \in {"archive", "together", "apart"} /\ archive = <<>>
             \/ part = "replay"
             \/ part = "rotation" /\ archive = <<>>

(* One worker at a time is between its look at the usage and its claim, where
   an attachment waits. *)
FewChecked ==
    \A w \in Workers : worker'[w].at = "checked" =>
        /\ \E r \in Rows : row'[r].ws = worker'[w].ws /\ row'[r].at \in {"pending", "failed"}
        /\ \A v \in Workers \ {w} : worker'[v].at # "checked"

MCNext == \/ part = "archive" /\ Next /\ UNCHANGED <<part, mvars, rvars, svars>>
          \/ part = "together" /\ M!Next /\ FewChecked /\ UNCHANGED <<part, vars, rvars, svars>>
          \/ part = "apart" /\ N!Next /\ FewChecked /\ UNCHANGED <<part, vars, rvars, svars>>
          \/ part = "replay" /\ R!Next /\ UNCHANGED <<part, vars, mvars, svars>>
          \/ part = "rotation" /\ S!Next /\ UNCHANGED <<part, vars, mvars, rvars>>

MCSpec == MCInit /\ [][MCNext]_<<part, vars, mvars, rvars, svars>>

(* No step rewrites a message that was read as one, or reads past one; and a
   paused workspace's charge does not grow by any path -- reservation,
   adoption or a number moved into it -- until it is resumed; and no row of a
   rotation is called done that the server has not taken. *)
StorageSteps ==
    /\ [][/\ ContentStands /\ ReadNotPast
          /\ \A ws \in Workspaces : quota[ws].paused =>
               \/ M!Used(owned', ws) <= M!Used(owned, ws)
               \/ ~quota'[ws].paused]_<<vars, mvars>>
    /\ S!RotationSteps

(* Replay.after pages through the archive so that what the client was sent is
   what the log holds between its two ends: nothing missing below where the
   replay stands, nothing missing at its end, and no message split from the
   receipts of its page. *)
ReplayExact == R!TypeOK /\ R!NoHoles /\ R!ReplayComplete /\ R!BatchesWhole

(* What the media table, the charges and the bucket say of an attachment
   agrees, through slow workers, sweeps, failed puts and deletes, erasures and
   a moved number; and a replay is exact. *)
MediaAndReplaySafe ==
    /\ M!TypeOK /\ M!StoredHasBytes /\ M!BytesCharged
    /\ ReplayExact

(* A rotation never cuts Wappie off from the platform, wherever its steps
   stop, and what stops in the middle of it can be finished. *)
RotationSafe == S!RotationSafe
=============================================================================
