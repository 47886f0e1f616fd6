-------------------------- MODULE AssistantsProofs --------------------------
(***************************************************************************)
(* Theorems about Assistants, for any number of connections, accounts and  *)
(* handlers.  A step is proved by what it does to the rows and accounts:   *)
(* it leaves them, ends connections (endMCPConnectionTx), marks a row, or  *)
(* is one of the few that give a connection its account or its status.     *)
(***************************************************************************)
EXTENDS Assistants, TLAPS

Reasons == {None, "relay_failed", "replaced", "expired", "access_lost", "reader", "console",
            "member", "service", "pending_expired", "idle"}
Rows == [status : Statuses, reason : Reasons, svc : Services \union {None},
         kind : Kinds \union {None}, replaces : BOOLEAN, past : BOOLEAN, stale : BOOLEAN,
         unused : BOOLEAN, told : BOOLEAN, raised : BOOLEAN, mailed : BOOLEAN, link : BOOLEAN]
Accounts == [state : {"none", "provisional", "bound", "gone"}, key : BOOLEAN, due : BOOLEAN]
Records == [has : {"no", "asked", "yes"}, svc : Services \union {None}, key : BOOLEAN,
            stages : SUBSET Services, owes : BOOLEAN]
Work == [op : Ops, c : Conns \union {0}, s : Services \union {None}, st : Statuses]

(* Every variable has its type, one by one.                                *)
ConnTyped == conn \in [Conns -> Rows]
SvcTyped == svc \in [Services -> Accounts]
ReaderTyped == reader \in [Conns -> Records]
TaskTyped == task \in [Tasks -> Work]
RestTyped == person \in BOOLEAN /\ allowed \subseteq {"content", "ai"} /\ troubles \in 0..MaxTroubles

LEMMA TypeIs == TypeOK <=> ConnTyped /\ SvcTyped /\ ReaderTyped /\ TaskTyped /\ RestTyped
BY DEF TypeOK, ConnTyped, SvcTyped, ReaderTyped, TaskTyped, RestTyped, Rows, Reasons, Accounts,
       Records, Work

(* A row that was consented has its account, and no reason before it ends. *)
RowsStand ==
    \A c \in Conns :
        /\ conn[c].status # "none" => conn[c].svc \in Services
        /\ conn[c].status \notin Ended => conn[c].reason = None

(* What a handler works on exists.                                         *)
Works(t) ==
    Free(t) \/ /\ task[t].c \in Conns
               /\ conn[task[t].c].status # "none"
               /\ task[t].op \in {"bundle", "renew", "discard"} => task[t].s \in Services
TasksStand == \A t \in Tasks : Works(t)

(* A consent that aged was never completed, and cannot be any more: the    *)
(* reader's request is older than the row.                                 *)
RequestGone(c) ==
    /\ conn[c].status \in {"pending"} \union Ended
    /\ reader[c].has = "no"
    /\ \A t \in Tasks : ~ (At(t, "relay") /\ task[t].c = c)
StaleGone ==
    /\ \A c \in Conns : conn[c].stale => RequestGone(c)
    /\ \A t \in Tasks : At(t, "stale") => conn[task[t].c].stale

(* The reader has records of what was consented only.                      *)
ReaderKnows == \A c \in Conns : conn[c].status = "none" => reader[c] = Nothing

AssistantsInv ==
    /\ ConnTyped /\ SvcTyped /\ ReaderTyped /\ TaskTyped /\ RestTyped
    /\ NothingOutlives /\ LiveHasAccount /\ LinkNamesLive
    /\ RowsStand /\ TasksStand /\ StaleGone /\ ReaderKnows

-----------------------------------------------------------------------------
(* What the parts of the invariant rest on.                                *)

(* The rows say the same of lives and accounts.                            *)
Alike ==
    \A c \in Conns :
        /\ conn'[c].svc = conn[c].svc
        /\ conn'[c].past = conn[c].past
        /\ conn'[c].status \in {"pending", "active", "reseal"} <=> Live(c)
AccountsAlike ==
    \A s \in Services : svc'[s].state = svc[s].state /\ svc'[s].due = svc[s].due

(* No consent comes undone, and what aged has aged.                        *)
Onward ==
    \A c \in Conns :
        /\ conn[c].status # "none" => conn'[c].status # "none"
        /\ conn[c].stale => conn'[c].stale

(* A step that leaves lives and accounts keeps what relates them.          *)
LEMMA AccountsStay ==
    ASSUME RowsStand, NothingOutlives, LiveHasAccount, Alike, AccountsAlike
    PROVE  NothingOutlives' /\ LiveHasAccount'
<1>1. \A c \in Conns : Live(c)' <=> Live(c)
    BY DEF Alike, Live
<1>2. \A c \in Conns : Live(c) => conn[c].svc \in Services
    BY DEF RowsStand, Live
<1>3. NothingOutlives'
    BY <1>1 DEF NothingOutlives, Alike, AccountsAlike
<1>4. LiveHasAccount'
    BY <1>1, <1>2 DEF LiveHasAccount, Alike, AccountsAlike
<1> QED BY <1>3, <1>4

(* Connections that end take their accounts along, and no others.          *)
LEMMA EndsKeepAccounts ==
    ASSUME RowsStand, NothingOutlives, LiveHasAccount, NEW E \in SUBSET Conns,
           \A c \in Conns : /\ conn'[c].svc = conn[c].svc
                            /\ conn'[c].past = conn[c].past
                            /\ conn'[c].status \in {"pending", "active", "reseal"} <=> Live(c) /\ c \notin E,
           \A s \in Services :
                /\ svc'[s].due = svc[s].due
                /\ (\E c \in E : conn[c].svc = s) => svc'[s].state # "bound"
                /\ ~ (\E c \in E : conn[c].svc = s) => svc'[s].state = svc[s].state
    PROVE  NothingOutlives' /\ LiveHasAccount'
<1>1. \A c \in Conns : Live(c)' <=> Live(c) /\ c \notin E
    BY DEF Live
<1>2. \A c \in Conns : Live(c) => conn[c].svc \in Services
    BY DEF RowsStand, Live
<1>3. NothingOutlives'
    BY <1>1 DEF NothingOutlives
<1>4. ASSUME NEW c \in Conns, Live(c)'
      PROVE  ~ \E e \in E : conn[e].svc = conn[c].svc
    BY <1>1, <1>4 DEF LiveHasAccount
<1>5. LiveHasAccount'
    BY <1>1, <1>2, <1>4 DEF LiveHasAccount
<1> QED BY <1>3, <1>5

(* Handlers that stay, end, or have what they work on.                     *)
LEMMA TasksKeep ==
    ASSUME TasksStand, Onward,
           \A t \in Tasks : task'[t] = task[t] \/ Works(t)'
    PROVE  TasksStand'
BY DEF TasksStand, Works, Onward, Free

(* No handler relays or lists anew, and what the reader lacks stays so.    *)
LEMMA StaleKeeps ==
    ASSUME TasksStand, StaleGone,
           \A c \in Conns : conn'[c].stale = conn[c].stale,
           \A c \in Conns : conn[c].stale => conn'[c].status \in {"pending"} \union Ended,
           \A c \in Conns : conn[c].stale => reader'[c].has = reader[c].has,
           \A t \in Tasks : task'[t] = task[t] \/ task'[t].op \notin {"relay", "stale"}
    PROVE  StaleGone'
<1>1. ASSUME NEW c \in Conns, conn'[c].stale PROVE RequestGone(c)'
    BY <1>1 DEF StaleGone, RequestGone, At
<1>2. ASSUME NEW t \in Tasks, At(t, "stale")' PROVE (conn[task[t].c].stale)'
    <2>1. task'[t] = task[t]
        BY <1>2 DEF At
    <2>2. task[t].c \in Conns
        BY <1>2, <2>1 DEF TasksStand, Works, Free, At
    <2> QED BY <1>2, <2>1, <2>2 DEF StaleGone, At
<1> QED BY <1>1, <1>2 DEF StaleGone

(* How the record of a handler moves.                                      *)
LEMMA BeginIs ==
    ASSUME ConnTyped, TaskTyped, NEW t \in Tasks, NEW op \in Ops, NEW c \in Conns,
           NEW s \in Services \union {None}, Begin(t, op, c, s)
    PROVE  /\ TaskTyped'
           /\ task'[t] = [op |-> op, c |-> c, s |-> s, st |-> conn[c].status]
           /\ \A u \in Tasks : u # t => task'[u] = task[u]
BY DEF Begin, TaskTyped, Work, ConnTyped, Rows

LEMMA FinishIs ==
    ASSUME TaskTyped, NEW t \in Tasks, Finish(t)
    PROVE  /\ TaskTyped'
           /\ task'[t] = Idle
           /\ \A u \in Tasks : u # t => task'[u] = task[u]
BY DEF Finish, TaskTyped, Work, Idle, Ops, Statuses

LEMMA GotoIs ==
    ASSUME TaskTyped, NEW t \in Tasks, NEW op \in Ops, Goto(t, op)
    PROVE  /\ TaskTyped'
           /\ task'[t] = [task[t] EXCEPT !.op = op]
           /\ \A u \in Tasks : u # t => task'[u] = task[u]
BY DEF Goto, TaskTyped, Work

-----------------------------------------------------------------------------
(* What most steps do: no row ages, a row keeps its status and account or  *)
(* is a live one that ends or goes on; no handler relays or lists an old   *)
(* consent anew; the reader is asked nothing about what was not consented. *)
TypesNext == ConnTyped' /\ SvcTyped' /\ ReaderTyped' /\ TaskTyped' /\ RestTyped'
AccountsNext == NothingOutlives' /\ LiveHasAccount'
Kept(c) ==
    conn'[c].status = conn[c].status /\ conn'[c].reason = conn[c].reason /\ conn'[c].svc = conn[c].svc
Ends(c) == Live(c) /\ conn'[c].status \in Ended /\ conn'[c].svc = conn[c].svc
GoesOn(c) ==
    /\ Live(c) /\ ~ conn[c].stale
    /\ conn'[c].status \in {"active", "reseal"} /\ conn'[c].reason = conn[c].reason
    /\ conn'[c].svc \in Services
RowsMove ==
    \A c \in Conns :
        /\ conn'[c].stale = conn[c].stale
        /\ Kept(c) \/ Ends(c) \/ GoesOn(c)
        /\ conn'[c].link => conn'[c].status \in {"pending", "active", "reseal"}
TasksMove ==
    \A t \in Tasks :
        \/ task'[t] = task[t]
        \/ Works(t)' /\ task'[t].op \notin {"relay", "stale"}
ReaderMoves ==
    \A c \in Conns :
        /\ conn[c].stale => reader'[c].has = reader[c].has
        /\ conn[c].status = "none" => reader'[c] = reader[c]

LEMMA StepKeeps ==
    ASSUME AssistantsInv, TypesNext, AccountsNext, RowsMove, TasksMove, ReaderMoves
    PROVE  AssistantsInv'
<1>1. Onward
    BY DEF Onward, RowsMove, Kept, Ends, GoesOn, Ended
<1>2. TasksStand'
    BY <1>1, TasksKeep DEF AssistantsInv, TasksMove
<1>3. ASSUME NEW c \in Conns, conn[c].stale
      PROVE  conn'[c].status \in {"pending"} \union Ended
    BY <1>3 DEF RowsMove, Kept, Ends, GoesOn, AssistantsInv, StaleGone, RequestGone
<1>4. StaleGone'
    BY <1>3, StaleKeeps DEF AssistantsInv, TasksMove, RowsMove, ReaderMoves
<1>5. LinkNamesLive'
    BY DEF LinkNamesLive, RowsMove, Live
<1>6. RowsStand'
    BY DEF RowsStand, RowsMove, Kept, Ends, GoesOn, AssistantsInv, Live, Ended
<1>7. ReaderKnows'
    BY DEF ReaderKnows, ReaderMoves, RowsMove, Kept, Ends, GoesOn, AssistantsInv, Ended
<1> QED BY <1>2, <1>4, <1>5, <1>6, <1>7 DEF AssistantsInv, TypesNext, AccountsNext

(* A step that leaves the rows.                                            *)
LEMMA RowsStay ==
    ASSUME AssistantsInv, UNCHANGED conn
    PROVE  RowsMove /\ ConnTyped' /\ Onward
BY DEF RowsMove, Kept, AssistantsInv, ConnTyped, LinkNamesLive, Live, Onward

LEMMA AllStays ==
    ASSUME AssistantsInv, UNCHANGED <<conn, svc>>
    PROVE  RowsMove /\ ConnTyped' /\ SvcTyped' /\ AccountsNext /\ Onward
<1>1. RowsMove /\ ConnTyped' /\ Onward
    BY RowsStay
<1>2. Alike /\ AccountsAlike
    BY DEF Alike, AccountsAlike, Live
<1> QED BY <1>1, <1>2, AccountsStay DEF AssistantsInv, AccountsNext, SvcTyped

LEMMA TasksStay ==
    ASSUME AssistantsInv, UNCHANGED task
    PROVE  TasksMove /\ TaskTyped'
BY DEF TasksMove, AssistantsInv, TaskTyped

LEMMA ReaderStays ==
    ASSUME AssistantsInv, UNCHANGED reader
    PROVE  ReaderMoves /\ ReaderTyped'
BY DEF ReaderMoves, AssistantsInv, ReaderTyped

LEMMA RestStays ==
    ASSUME AssistantsInv, UNCHANGED <<person, allowed>>, Smooth \/ Trouble
    PROVE  RestTyped'
BY AssistantsAssumption DEF AssistantsInv, RestTyped, Smooth, Trouble

(* A handler that ends, and one that goes on with what it works on.        *)
LEMMA FinishMoves ==
    ASSUME AssistantsInv, NEW t \in Tasks, Finish(t)
    PROVE  TasksMove /\ TaskTyped'
<1>1. TaskTyped' /\ task'[t] = Idle /\ \A u \in Tasks : u # t => task'[u] = task[u]
    BY FinishIs DEF AssistantsInv
<1> QED BY <1>1 DEF TasksMove, Works, Free, Idle

LEMMA GotoMoves ==
    ASSUME AssistantsInv, Onward, NEW t \in Tasks, ~ Free(t), NEW op \in Ops \ {"relay", "stale"}, Goto(t, op),
           op \in {"bundle", "renew", "discard"} => task[t].op \in {"bundle", "renew", "discard"}
    PROVE  TasksMove /\ TaskTyped'
<1>1. TaskTyped' /\ task'[t] = [task[t] EXCEPT !.op = op] /\ \A u \in Tasks : u # t => task'[u] = task[u]
    BY GotoIs DEF AssistantsInv
<1>2. task'[t].op = op /\ task'[t].c = task[t].c /\ task'[t].s = task[t].s
    BY <1>1 DEF AssistantsInv, TaskTyped, Work
<1> QED BY <1>1, <1>2 DEF TasksMove, Works, Free, AssistantsInv, TasksStand, Onward

LEMMA BeginMoves ==
    ASSUME AssistantsInv, NEW t \in Tasks, NEW op \in Ops \ {"relay", "stale"}, NEW c \in Conns,
           NEW s \in Services \union {None}, Begin(t, op, c, s), conn'[c].status # "none",
           op \in {"bundle", "renew", "discard"} => s \in Services
    PROVE  TasksMove /\ TaskTyped'
<1>1. TaskTyped' /\ task'[t] = [op |-> op, c |-> c, s |-> s, st |-> conn[c].status]
        /\ \A u \in Tasks : u # t => task'[u] = task[u]
    BY BeginIs DEF AssistantsInv
<1> QED BY <1>1 DEF TasksMove, Works, Free

(* The reader forgets a connection, or says of one what is not `has'.      *)
LEMMA ReaderForgetsOne ==
    ASSUME AssistantsInv, NEW c \in Conns, reader' = [reader EXCEPT ![c] = Nothing]
    PROVE  ReaderMoves /\ ReaderTyped'
BY DEF AssistantsInv, ReaderMoves, ReaderTyped, Records, Nothing, StaleGone, RequestGone, ReaderKnows

-----------------------------------------------------------------------------
(* Ends.                                                                   *)

LEMMA EndedServicesAre ==
    ASSUME AssistantsInv, NEW E \in SUBSET Conns, NEW s \in Services
    PROVE  /\ EndedServices(E)[s] \in Accounts
           /\ EndedServices(E)[s].due = svc[s].due
           /\ (\E c \in E : conn[c].svc = s) => EndedServices(E)[s].state # "bound"
           /\ ~ (\E c \in E : conn[c].svc = s) => EndedServices(E)[s].state = svc[s].state
<1>1. svc[s] \in Accounts
    BY DEF AssistantsInv, SvcTyped
<1>2. EndedServices(E)[s] = IF \E c \in E : conn[c].svc = s THEN Removed(svc[s]) ELSE svc[s]
    BY DEF EndedServices
<1>3. Removed(svc[s]) \in Accounts /\ Removed(svc[s]).due = svc[s].due /\ Removed(svc[s]).state # "bound"
    BY <1>1 DEF Removed, Accounts
<1> QED BY <1>1, <1>2, <1>3

LEMMA EndedRowIs ==
    ASSUME AssistantsInv, NEW c \in Conns, NEW status \in Ended, NEW reason \in Reasons
    PROVE  /\ EndedRow(c, status, reason) \in Rows
           /\ EndedRow(c, status, reason).svc = conn[c].svc
           /\ EndedRow(c, status, reason).past = conn[c].past
           /\ EndedRow(c, status, reason).stale = conn[c].stale
           /\ EndedRow(c, status, reason).unused = conn[c].unused
           /\ Live(c) => /\ EndedRow(c, status, reason).status = status
                         /\ EndedRow(c, status, reason).reason = reason
                         /\ ~ EndedRow(c, status, reason).link
           /\ ~ Live(c) => EndedRow(c, status, reason) = conn[c]
<1>1. conn[c] \in Rows
    BY DEF AssistantsInv, ConnTyped
<1>2. CASE ~ Live(c)
    BY <1>1, <1>2 DEF EndedRow
<1>3. CASE Live(c)
    <2>1. EndedRow(c, status, reason) = [conn[c] EXCEPT !.status = status, !.reason = reason, !.link = FALSE]
        BY <1>3 DEF EndedRow
    <2>2. ASSUME NEW r, r = [conn[c] EXCEPT !.status = status, !.reason = reason, !.link = FALSE]
          PROVE  /\ r \in Rows /\ r.svc = conn[c].svc /\ r.past = conn[c].past
                 /\ r.stale = conn[c].stale /\ r.unused = conn[c].unused
                 /\ r.status = status /\ r.reason = reason /\ r.link = FALSE
        BY <1>1, <2>2 DEF Rows, Statuses
    <2> QED BY <1>3, <2>1, <2>2
<1> QED BY <1>2, <1>3

(* Whatever ends the connections of E ends their accounts, and nothing     *)
(* else: EndAll, EndTold and MemberGone.                                   *)
LEMMA EndsMove ==
    ASSUME AssistantsInv, NEW E \in SUBSET Conns, ConnTyped', SvcTyped',
           \A c \in Conns : /\ conn'[c].svc = conn[c].svc /\ conn'[c].past = conn[c].past
                            /\ conn'[c].stale = conn[c].stale,
           \A c \in E : Live(c) => conn'[c].status \in Ended /\ ~ conn'[c].link,
           \A c \in Conns : c \notin E \/ ~ Live(c) =>
                /\ conn'[c].status = conn[c].status /\ conn'[c].reason = conn[c].reason
                /\ conn'[c].link = conn[c].link,
           \A s \in Services : /\ svc'[s].due = EndedServices(E)[s].due
                               /\ svc'[s].state = EndedServices(E)[s].state
    PROVE  RowsMove /\ AccountsNext /\ Onward
<1>1. RowsMove
    BY DEF RowsMove, Kept, Ends, AssistantsInv, LinkNamesLive, Live
<1>2. Onward
    BY <1>1 DEF RowsMove, Kept, Ends, GoesOn, Onward, Ended
<1>3. \A c \in Conns : conn'[c].status \in {"pending", "active", "reseal"} <=> Live(c) /\ c \notin E
    BY DEF Live, Ended
<1>4. NothingOutlives' /\ LiveHasAccount'
    BY <1>3, EndedServicesAre, EndsKeepAccounts DEF AssistantsInv
<1> QED BY <1>1, <1>2, <1>4 DEF AccountsNext

LEMMA EndAllMoves ==
    ASSUME AssistantsInv, NEW E \in SUBSET Conns, NEW status \in Ended, NEW reason \in Reasons,
           EndAll(E, status, reason)
    PROVE  ConnTyped' /\ SvcTyped' /\ RowsMove /\ AccountsNext /\ Onward
<1>1. \A c \in Conns : conn'[c] = IF c \in E THEN EndedRow(c, status, reason) ELSE conn[c]
    BY DEF EndAll
<1>2. \A s \in Services : svc'[s] = EndedServices(E)[s]
    BY DEF EndAll
<1>3. ConnTyped'
    BY EndedRowIs DEF EndAll, ConnTyped, AssistantsInv
<1>4. SvcTyped'
    BY EndedServicesAre DEF EndAll, EndedServices, SvcTyped
<1> QED BY <1>1, <1>2, <1>3, <1>4, EndedRowIs, EndsMove

LEMMA EndToldMoves ==
    ASSUME AssistantsInv, NEW c \in Conns, NEW status \in Ended, NEW reason \in Reasons,
           EndTold(c, status, reason)
    PROVE  ConnTyped' /\ SvcTyped' /\ RowsMove /\ AccountsNext /\ Onward
<1>1. /\ EndedRow(c, status, reason) \in Rows
      /\ EndedRow(c, status, reason).svc = conn[c].svc
      /\ EndedRow(c, status, reason).past = conn[c].past
      /\ EndedRow(c, status, reason).stale = conn[c].stale
      /\ Live(c) => EndedRow(c, status, reason).status \in Ended /\ ~ EndedRow(c, status, reason).link
      /\ ~ Live(c) => EndedRow(c, status, reason) = conn[c]
    BY EndedRowIs
<1>2. conn'[c] = [EndedRow(c, status, reason) EXCEPT !.told = TRUE]
        /\ \A d \in Conns : d # c => conn'[d] = conn[d]
    BY DEF EndTold, AssistantsInv, ConnTyped
<1>3. /\ conn'[c] \in Rows
      /\ conn'[c].svc = EndedRow(c, status, reason).svc
      /\ conn'[c].past = EndedRow(c, status, reason).past
      /\ conn'[c].stale = EndedRow(c, status, reason).stale
      /\ conn'[c].status = EndedRow(c, status, reason).status
      /\ conn'[c].reason = EndedRow(c, status, reason).reason
      /\ conn'[c].link = EndedRow(c, status, reason).link
    BY <1>1, <1>2 DEF Rows
<1>4. ConnTyped'
    BY <1>2, <1>3 DEF EndTold, ConnTyped, AssistantsInv
<1>5. svc' = EndedServices({c})
    BY DEF EndTold
<1>6. SvcTyped'
    <2>1. \A s \in Services : EndedServices({c})[s] \in Accounts
        BY EndedServicesAre
    <2> QED BY <1>5, <2>1 DEF EndedServices, SvcTyped
<1>7. \A d \in Conns : /\ conn'[d].svc = conn[d].svc /\ conn'[d].past = conn[d].past
                        /\ conn'[d].stale = conn[d].stale
    BY <1>1, <1>2, <1>3
<1>8. \A d \in {c} : Live(d) => conn'[d].status \in Ended /\ ~ conn'[d].link
    BY <1>1, <1>3
<1>9. \A d \in Conns : d \notin {c} \/ ~ Live(d) =>
        /\ conn'[d].status = conn[d].status /\ conn'[d].reason = conn[d].reason
        /\ conn'[d].link = conn[d].link
    BY <1>1, <1>2, <1>3
<1> QED BY <1>4, <1>5, <1>6, <1>7, <1>8, <1>9, EndsMove

(* A row that is marked, or goes on, with its account where it was.        *)
LEMMA AccountsOfRows ==
    ASSUME AssistantsInv, Alike, AccountsAlike
    PROVE  AccountsNext
BY AccountsStay DEF AssistantsInv, AccountsNext

-----------------------------------------------------------------------------
(* The steps.                                                              *)

(* Those that change neither rows nor accounts, of handlers.               *)
LEMMA BeginsKeep ==
    ASSUME AssistantsInv, NEW t \in Tasks, NEW c \in Conns,
           \/ BudgetHit(t, c)
           \/ AskStatus(t, c)
           \/ \E s \in Services : StartRenewal(t, c, s)
    PROVE  AssistantsInv'
<1>1. UNCHANGED <<conn, svc, person, allowed, reader>> /\ Smooth
    BY DEF BudgetHit, AskStatus, StartRenewal, Smooth
<1>2. conn[c].status # "none" /\ conn[c].svc \in Services \union {None}
    BY DEF BudgetHit, AskStatus, StartRenewal, Renewable, AssistantsInv, ReaderKnows, Nothing, ConnTyped, Rows
<1>3. TasksMove /\ TaskTyped'
    BY <1>1, <1>2, BeginMoves DEF BudgetHit, AskStatus, StartRenewal, Ops
<1> QED BY <1>1, <1>3, AllStays, ReaderStays, RestStays, StepKeeps DEF TypesNext

LEMMA ReadReconnectKeeps ==
    ASSUME AssistantsInv, NEW t \in Tasks, ReadReconnect(t)
    PROVE  AssistantsInv'
<1>1. UNCHANGED <<conn, svc, person, allowed, reader>> /\ Smooth /\ ~ Free(t)
    BY DEF ReadReconnect, Smooth, At, Free
<1>2. TasksMove /\ TaskTyped'
    BY <1>1, AllStays, GotoMoves DEF ReadReconnect, Ops
<1> QED BY <1>1, <1>2, AllStays, ReaderStays, RestStays, StepKeeps DEF TypesNext

(* The relays change what the reader has of the handler's connection only. *)
LEMMA RelayBundleKeeps ==
    ASSUME AssistantsInv, NEW t \in Tasks, RelayBundle(t)
    PROVE  AssistantsInv'
<1>1. UNCHANGED <<conn, svc, person, allowed>> /\ (Smooth \/ Trouble) /\ ~ Free(t)
    BY DEF RelayBundle, At, Free
<1>2. TasksMove /\ TaskTyped'
    BY <1>1, AllStays, GotoMoves, FinishMoves DEF RelayBundle, Ops
<1>3. task[t].c \in Conns /\ conn[task[t].c].status # "none" /\ ~ conn[task[t].c].stale
    BY <1>1 DEF AssistantsInv, TasksStand, Works, StaleGone, RequestGone, RelayBundle
<1>4. ReaderMoves /\ ReaderTyped'
    <2>1. CASE UNCHANGED reader
        BY <2>1, ReaderStays
    <2>2. CASE reader' = [reader EXCEPT ![task[t].c] =
                              [Nothing EXCEPT !.has = "asked", !.svc = conn[task[t].c].svc]]
        <3>1. conn[task[t].c].svc \in Services \union {None}
            BY <1>3 DEF AssistantsInv, ConnTyped, Rows
        <3>2. [Nothing EXCEPT !.has = "asked", !.svc = conn[task[t].c].svc] \in Records
            BY <3>1 DEF Nothing, Records
        <3> QED BY <1>3, <2>2, <3>2 DEF ReaderMoves, ReaderTyped, AssistantsInv
    <2> QED BY <2>1, <2>2 DEF RelayBundle
<1> QED BY <1>1, <1>2, <1>4, AllStays, RestStays, StepKeeps DEF TypesNext

LEMMA RelayRenewalKeeps ==
    ASSUME AssistantsInv, NEW t \in Tasks, RelayRenewal(t)
    PROVE  AssistantsInv'
<1>1. UNCHANGED <<conn, svc, person, allowed>> /\ (Smooth \/ Trouble) /\ ~ Free(t) /\ At(t, "bundle")
    BY DEF RelayRenewal, At, Free
<1>2. TasksMove /\ TaskTyped'
    BY <1>1, AllStays, GotoMoves DEF RelayRenewal, Ops, At
<1>3. task[t].c \in Conns /\ conn[task[t].c].status # "none" /\ task[t].s \in Services
    BY <1>1 DEF AssistantsInv, TasksStand, Works, At
<1>4. ReaderMoves /\ ReaderTyped'
    <2>1. CASE UNCHANGED reader
        BY <2>1, ReaderStays
    <2>2. CASE reader' = [reader EXCEPT ![task[t].c].stages = @ \union {task[t].s}]
        BY <1>3, <2>2 DEF ReaderMoves, ReaderTyped, AssistantsInv, Records
    <2> QED BY <2>1, <2>2 DEF RelayRenewal
<1> QED BY <1>1, <1>2, <1>4, AllStays, RestStays, StepKeeps DEF TypesNext

LEMMA OtherQuietKeep ==
    ASSUME AssistantsInv,
           \/ \E t \in Tasks : Stop(t)
           \/ \E c \in Conns : ReaderForgets(c)
           \/ ReaderRestarts \/ Switch
    PROVE  AssistantsInv'
<1>1. CASE \E t \in Tasks : Stop(t)
    BY <1>1, AllStays, ReaderStays, RestStays, FinishMoves, StepKeeps DEF Stop, TypesNext
<1>2. CASE \E c \in Conns : ReaderForgets(c)
    <2>1. UNCHANGED <<conn, svc, person, allowed, task>> /\ Smooth
        BY <1>2 DEF ReaderForgets, Smooth
    <2>2. ReaderMoves /\ ReaderTyped'
        BY <1>2 DEF ReaderForgets, ReaderMoves, ReaderTyped, AssistantsInv, Records, Nothing,
                    ReaderKnows, StaleGone, RequestGone
    <2> QED BY <2>1, <2>2, AllStays, RestStays, TasksStay, StepKeeps DEF TypesNext
<1>3. CASE ReaderRestarts
    <2>1. UNCHANGED <<conn, svc, person, allowed, task>> /\ Trouble
        BY <1>3 DEF ReaderRestarts
    <2>2. ReaderMoves /\ ReaderTyped'
        <3>1. ASSUME NEW r \in Records, NEW q, q = [r EXCEPT !.key = FALSE, !.stages = {}, !.owes = TRUE]
              PROVE  q \in Records /\ q.has = r.has
            BY <3>1 DEF Records
        <3>2. \A c \in Conns : reader[c] \in Records
            BY DEF AssistantsInv, ReaderTyped
        <3>3. Nothing \in Records /\ Nothing.has = "no"
            BY DEF Nothing, Records
        <3>4. \A c \in Conns : reader'[c] \in Records /\ (reader[c].has = "yes" => reader'[c].has = "yes")
                               /\ (reader[c].has # "yes" => reader'[c] = Nothing)
            BY <1>3, <3>1, <3>2, <3>3 DEF ReaderRestarts
        <3>5. ReaderTyped'
            BY <1>3, <3>4 DEF ReaderRestarts, ReaderTyped
        <3>6. ReaderMoves
            BY <3>3, <3>4 DEF ReaderMoves, AssistantsInv, ReaderKnows, StaleGone, RequestGone
        <3> QED BY <3>5, <3>6
    <2> QED BY <2>1, <2>2, AllStays, RestStays, TasksStay, StepKeeps DEF TypesNext
<1>4. CASE Switch
    <2>1. UNCHANGED <<conn, svc, person, reader, task>> /\ Trouble
        BY <1>4 DEF Switch
    <2>2. RestTyped'
        BY <1>4, AssistantsAssumption DEF Switch, Trouble, RestTyped, AssistantsInv
    <2> QED BY <2>1, <2>2, AllStays, ReaderStays, TasksStay, StepKeeps DEF TypesNext
<1> QED BY <1>1, <1>2, <1>3, <1>4

(* Those that change an account that no connection reads with, or nothing  *)
(* of it but its key.                                                      *)
LEMMA SvcStepsKeep ==
    ASSUME AssistantsInv, NEW s \in Services, UNCHANGED <<conn, person, allowed, reader>>, Smooth,
           SvcTyped', TasksMove, TaskTyped',
           \A u \in Services \ {s} : svc'[u] = svc[u],
           \/ svc'[s].state = svc[s].state /\ svc'[s].due = svc[s].due
           \/ svc'[s].state # "bound" /\ \A c \in Conns : ~ (Live(c) /\ conn[c].svc = s)
    PROVE  AssistantsInv'
<1>1. RowsMove /\ ConnTyped'
    BY RowsStay
<1>2. AccountsNext
    <2>1. CASE svc'[s].state = svc[s].state /\ svc'[s].due = svc[s].due
        <3>1. Alike /\ AccountsAlike
            BY <2>1 DEF Alike, AccountsAlike, Live
        <3> QED BY <3>1, AccountsOfRows
    <2>2. CASE svc'[s].state # "bound" /\ \A c \in Conns : ~ (Live(c) /\ conn[c].svc = s)
        <3>1. \A c \in Conns : Live(c)' <=> Live(c)
            BY DEF Live
        <3>2. \A c \in Conns : Live(c) => conn[c].svc \in Services \ {s}
            BY <2>2 DEF AssistantsInv, RowsStand, Live
        <3>3. NothingOutlives'
            BY <2>2, <3>1 DEF NothingOutlives, AssistantsInv
        <3>4. LiveHasAccount'
            BY <3>1, <3>2 DEF LiveHasAccount, AssistantsInv
        <3> QED BY <3>3, <3>4 DEF AccountsNext
    <2> QED BY <2>1, <2>2
<1> QED BY <1>1, <1>2, ReaderStays, RestStays, StepKeeps DEF TypesNext

LEMMA RemovedIs ==
    ASSUME AssistantsInv, NEW s \in Services
    PROVE  /\ Removed(svc[s]) \in Accounts
           /\ Removed(svc[s]).state # "bound" /\ Removed(svc[s]).due = svc[s].due
           /\ svc[s] \in Accounts
BY DEF AssistantsInv, SvcTyped, Removed, Accounts

LEMMA AccountsChangeKeep ==
    ASSUME AssistantsInv, NEW s \in Services,
           MakeService(s) \/ RevokeKey(s) \/ ExpireService(s) \/ ProvisionEnds(s)
    PROVE  AssistantsInv'
<1>1. UNCHANGED <<conn, person, allowed, reader, task>> /\ Smooth
    BY DEF MakeService, RevokeKey, ExpireService, ProvisionEnds, Smooth
<1>2. \A c \in Conns : Live(c) => svc[conn[c].svc].state = "bound"
    BY DEF AssistantsInv, LiveHasAccount
<1>3. svc \in [Services -> Accounts]
    BY DEF AssistantsInv, SvcTyped
<1>4. CASE MakeService(s)
    <2>1. SvcTyped' /\ \A u \in Services \ {s} : svc'[u] = svc[u]
        BY <1>3, <1>4 DEF MakeService, SvcTyped, Accounts
    <2>2. svc'[s].state # "bound" /\ \A c \in Conns : ~ (Live(c) /\ conn[c].svc = s)
        BY <1>2, <1>3, <1>4 DEF MakeService
    <2> QED BY <1>1, <2>1, <2>2, TasksStay, SvcStepsKeep
<1>5. CASE RevokeKey(s)
    <2>1. SvcTyped' /\ \A u \in Services \ {s} : svc'[u] = svc[u]
        BY <1>3, <1>5 DEF RevokeKey, SvcTyped, Accounts
    <2>2. svc'[s].state = svc[s].state /\ svc'[s].due = svc[s].due
        BY <1>3, <1>5 DEF RevokeKey, Accounts
    <2> QED BY <1>1, <2>1, <2>2, TasksStay, SvcStepsKeep
<1>6. CASE ExpireService(s)
    <2>1. SvcTyped' /\ \A u \in Services \ {s} : svc'[u] = svc[u]
        BY <1>3, <1>6, RemovedIs DEF ExpireService, SvcTyped
    <2>2. svc'[s].state # "bound" /\ \A c \in Conns : ~ (Live(c) /\ conn[c].svc = s)
        BY <1>3, <1>6, RemovedIs DEF ExpireService
    <2> QED BY <1>1, <2>1, <2>2, TasksStay, SvcStepsKeep
<1>7. CASE ProvisionEnds(s)
    <2>1. SvcTyped' /\ \A u \in Services \ {s} : svc'[u] = svc[u]
        BY <1>3, <1>7 DEF ProvisionEnds, SvcTyped, Accounts
    <2>2. svc'[s].state # "bound" /\ \A c \in Conns : ~ (Live(c) /\ conn[c].svc = s)
        BY <1>2, <1>3, <1>7 DEF ProvisionEnds, Accounts
    <2> QED BY <1>1, <2>1, <2>2, TasksStay, SvcStepsKeep
<1> QED BY <1>4, <1>5, <1>6, <1>7

LEMMA DiscardServiceKeeps ==
    ASSUME AssistantsInv, NEW t \in Tasks, DiscardService(t)
    PROVE  AssistantsInv'
<1>1. UNCHANGED <<conn, person, allowed, reader>> /\ Smooth /\ At(t, "discard")
    BY DEF DiscardService, Smooth
<1>2. TasksMove /\ TaskTyped'
    BY FinishMoves DEF DiscardService
<1>3. CASE ~ Discardable(task[t].s)
    BY <1>1, <1>2, <1>3, AllStays, ReaderStays, RestStays, StepKeeps DEF DiscardService, TypesNext
<1>4. CASE Discardable(task[t].s)
    <2>1. task[t].s \in Services
        BY <1>1 DEF AssistantsInv, TasksStand, Works, Free, At
    <2>2. SvcTyped' /\ \A u \in Services \ {task[t].s} : svc'[u] = svc[u]
        BY <1>4, <2>1, RemovedIs DEF DiscardService, SvcTyped, AssistantsInv
    <2>3. svc'[task[t].s].state # "bound" /\ \A c \in Conns : ~ (Live(c) /\ conn[c].svc = task[t].s)
        BY <1>4, <2>1, RemovedIs DEF DiscardService, Discardable, SvcTyped, AssistantsInv
    <2> QED BY <1>1, <1>2, <2>1, <2>2, <2>3, SvcStepsKeep
<1> QED BY <1>3, <1>4

-----------------------------------------------------------------------------
(* Ends, by whom they are asked.                                           *)

LEMMA EndsKeep ==
    ASSUME AssistantsInv, NEW E \in SUBSET Conns, NEW status \in Ended, NEW reason \in Reasons,
           EndAll(E, status, reason), UNCHANGED <<person, allowed, reader>>, Smooth,
           TasksMove, TaskTyped'
    PROVE  AssistantsInv'
BY EndAllMoves, ReaderStays, RestStays, StepKeeps DEF TypesNext

LEMMA HandlersEndKeep ==
    ASSUME AssistantsInv, NEW t \in Tasks,
           DeleteFailed(t) \/ ReplacePrevious(t) \/ EndDue(t) \/ EndIfIdle(t)
    PROVE  AssistantsInv'
<1>1. UNCHANGED <<person, allowed, reader>> /\ Smooth /\ ~ Free(t)
    BY DEF DeleteFailed, ReplacePrevious, EndDue, EndIfIdle, Smooth, At, Free
<1>2. task[t].c \in Conns
    BY <1>1 DEF AssistantsInv, TasksStand, Works
<1>3. CASE ReplacePrevious(t)
    <2>1. EndAll(Replaced(task[t].c), "revoked", "replaced") /\ Goto(t, "announce")
        BY <1>3 DEF ReplacePrevious
    <2>2. Replaced(task[t].c) \in SUBSET Conns
        BY DEF Replaced
    <2>3. Onward
        BY <2>1, <2>2, EndAllMoves DEF Ended, Reasons
    <2>4. TasksMove /\ TaskTyped'
        BY <1>1, <2>1, <2>3, GotoMoves DEF Ops
    <2> QED BY <1>1, <2>1, <2>2, <2>4, EndsKeep DEF Ended, Reasons
<1>4. CASE Finish(t) /\ \E status \in Ended, reason \in Reasons : EndAll({task[t].c}, status, reason)
    <2>1. TasksMove /\ TaskTyped'
        BY <1>4, FinishMoves
    <2>2. {task[t].c} \in SUBSET Conns
        BY <1>2
    <2> QED BY <1>1, <1>4, <2>1, <2>2, EndsKeep
<1>5. CASE Finish(t) /\ UNCHANGED <<conn, svc>>
    BY <1>1, <1>5, AllStays, ReaderStays, RestStays, FinishMoves, StepKeeps DEF TypesNext
<1> QED BY <1>3, <1>4, <1>5 DEF DeleteFailed, EndDue, EndIfIdle, Ended, Reasons

LEMMA AskedEndsKeep ==
    ASSUME AssistantsInv, NEW t \in Tasks, NEW c \in Conns, Remove(t, c) \/ RevokeByLink(t, c)
    PROVE  AssistantsInv'
<1>1. UNCHANGED <<person, allowed, reader>> /\ Smooth /\ EndAll({c}, "revoked", "console") /\ Begin(t, "tell", c, None)
    BY DEF Remove, RevokeByLink, Smooth
<1>2. Live(c)
    BY DEF Remove, RevokeByLink, AssistantsInv, LinkNamesLive
<1>3. Onward
    BY <1>1, EndAllMoves DEF Ended, Reasons
<1>4. conn'[c].status # "none"
    BY <1>2, <1>3 DEF Onward, Live
<1>5. TasksMove /\ TaskTyped'
    BY <1>1, <1>4, BeginMoves DEF Ops
<1> QED BY <1>1, <1>5, EndsKeep DEF Ended, Reasons

LEMMA GoneKeep ==
    ASSUME AssistantsInv, MemberGone \/ \E s \in Services : ServiceGone(s)
    PROVE  AssistantsInv'
<1>1. CASE \E s \in Services : ServiceGone(s)
    <2>1. PICK s \in Services : ServiceGone(s)
        BY <1>1
    <2>2. UNCHANGED <<person, allowed, reader, task>> /\ Smooth
        BY <2>1 DEF ServiceGone, Smooth
    <2>3. EndAll({c \in Conns : Live(c) /\ conn[c].svc = s}, "revoked", "service")
        BY <2>1 DEF ServiceGone
    <2>4. {c \in Conns : Live(c) /\ conn[c].svc = s} \in SUBSET Conns
        OBVIOUS
    <2> QED BY <2>2, <2>3, <2>4, TasksStay, EndsKeep DEF Ended, Reasons
<1>2. CASE MemberGone
    <2> DEFINE E == {c \in Conns : Live(c)}
    <2>1. UNCHANGED <<allowed, reader, task>> /\ Smooth /\ person' = FALSE
        BY <1>2 DEF MemberGone, Smooth
    <2>2. \A c \in Conns : conn'[c] = IF Live(c) THEN EndedRow(c, "revoked", "member") ELSE conn[c]
        BY <1>2 DEF MemberGone
    <2>3. conn' = [c \in Conns |-> IF c \in E THEN EndedRow(c, "revoked", "member") ELSE conn[c]]
        BY <1>2 DEF MemberGone
    <2>4. svc' = [s \in Services |-> [EndedServices(E)[s] EXCEPT !.key = FALSE]]
        BY <1>2 DEF MemberGone
    <2>5. ConnTyped'
        BY <2>3, EndedRowIs DEF ConnTyped, AssistantsInv, Ended, Reasons
    <2>6. \A s \in Services : /\ svc'[s] \in Accounts
                              /\ svc'[s].due = EndedServices(E)[s].due
                              /\ svc'[s].state = EndedServices(E)[s].state
        <3>1. ASSUME NEW r \in Accounts, NEW q, q = [r EXCEPT !.key = FALSE]
              PROVE  q \in Accounts /\ q.due = r.due /\ q.state = r.state
            BY <3>1 DEF Accounts
        <3>2. E \in SUBSET Conns
            OBVIOUS
        <3>3. \A s \in Services : EndedServices(E)[s] \in Accounts
            BY <3>2, EndedServicesAre
        <3> HIDE DEF E
        <3> QED BY <2>4, <3>1, <3>3
    <2>7. SvcTyped'
        BY <2>4, <2>6 DEF SvcTyped
    <2>8. RowsMove /\ AccountsNext /\ Onward
        <3>1. "revoked" \in Ended /\ "member" \in Reasons
            BY DEF Ended, Reasons
        <3>2. \A c \in Conns : /\ conn'[c].svc = conn[c].svc /\ conn'[c].past = conn[c].past
                              /\ conn'[c].stale = conn[c].stale
            BY <2>2, <3>1, EndedRowIs
        <3>3. \A c \in E : Live(c) => conn'[c].status \in Ended /\ ~ conn'[c].link
            BY <2>2, <3>1, EndedRowIs
        <3>4. \A c \in Conns : c \notin E \/ ~ Live(c) =>
                /\ conn'[c].status = conn[c].status /\ conn'[c].reason = conn[c].reason
                /\ conn'[c].link = conn[c].link
            BY <2>2
        <3>5. E \in SUBSET Conns
            OBVIOUS
        <3> HIDE DEF E
        <3> QED BY <2>5, <2>6, <2>7, <3>2, <3>3, <3>4, <3>5, EndsMove
    <2>9. RestTyped'
        BY <2>1 DEF RestTyped, AssistantsInv, Smooth
    <2> QED BY <2>1, <2>5, <2>7, <2>8, <2>9, TasksStay, ReaderStays, StepKeeps DEF TypesNext
<1> QED BY <1>1, <1>2

(* The connection the reader is told of ends, or has ended.                *)
LEMMA ToldEndsKeep ==
    ASSUME AssistantsInv, NEW c \in Conns, NEW status \in Ended, NEW reason \in Reasons,
           EndTold(c, status, reason), UNCHANGED <<person, allowed>>, Smooth \/ Trouble,
           ReaderMoves, ReaderTyped', TasksMove, TaskTyped'
    PROVE  AssistantsInv'
BY EndToldMoves, RestStays, StepKeeps DEF TypesNext

(* What the reader makes of an answer (decide).                            *)
LEMMA DecidedIs ==
    ASSUME AssistantsInv, NEW c \in Conns, conn[c].status # "none", NEW st, NEW s \in Services \union {None},
           reader' = [reader EXCEPT ![c] = Decided(c, st, s)]
    PROVE  ReaderMoves /\ ReaderTyped'
<1>1. reader[c] \in Records
    BY DEF AssistantsInv, ReaderTyped
<1>2. ASSUME NEW q, q = [reader[c] EXCEPT !.svc = s, !.key = TRUE, !.stages = {}, !.owes = FALSE], s \in reader[c].stages
      PROVE  q \in Records /\ q.has = reader[c].has
    BY <1>1, <1>2 DEF Records
<1>3. ASSUME NEW q, q = [reader[c] EXCEPT !.key = FALSE] \/ q = [reader[c] EXCEPT !.owes = ~ reader[c].key]
      PROVE  q \in Records /\ q.has = reader[c].has
    BY <1>1, <1>3 DEF Records
<1>4. Nothing \in Records /\ Nothing.has = "no"
    BY DEF Nothing, Records
<1>5. Decided(c, st, s) \in Records /\ (Decided(c, st, s).has = reader[c].has \/ Decided(c, st, s) = Nothing)
    <2>1. CASE st \notin {"active", "reseal"}
        BY <1>4, <2>1 DEF Decided
    <2>2. CASE st = "reseal"
        BY <1>3, <2>2 DEF Decided
    <2>3. CASE st = "active" /\ s \in reader[c].stages
        BY <1>2, <2>3 DEF Decided
    <2>4. CASE st = "active" /\ s \notin reader[c].stages
        BY <1>3, <1>4, <2>4 DEF Decided
    <2> QED BY <2>1, <2>2, <2>3, <2>4
<1>6. ReaderTyped'
    BY <1>5 DEF ReaderTyped, AssistantsInv
<1>7. ReaderMoves
    BY <1>4, <1>5 DEF ReaderMoves, AssistantsInv, ReaderTyped, StaleGone, RequestGone
<1> QED BY <1>6, <1>7

LEMMA StatusKeeps ==
    ASSUME AssistantsInv, NEW t \in Tasks, AnswerStatus(t) \/ EndLost(t)
    PROVE  AssistantsInv'
<1>1. UNCHANGED <<person, allowed>> /\ ~ Free(t)
    BY DEF AnswerStatus, EndLost, At, Free
<1>2. task[t].c \in Conns /\ conn[task[t].c].status # "none" /\ task[t].s \in Services \union {None}
    BY <1>1 DEF AssistantsInv, TasksStand, Works, TaskTyped, Work
<1>3. ASSUME NEW st, Answer(t, st)
      PROVE  ReaderMoves /\ ReaderTyped' /\ TasksMove /\ TaskTyped' /\ (Smooth \/ Trouble)
    BY <1>2, <1>3, DecidedIs, ReaderStays, FinishMoves DEF Answer
<1>4. CASE \E st : Answer(t, st) /\ UNCHANGED <<conn, svc>>
    BY <1>1, <1>3, <1>4, AllStays, RestStays, StepKeeps DEF TypesNext
<1>5. CASE \E st, status \in Ended, reason \in Reasons : EndTold(task[t].c, status, reason) /\ Answer(t, st)
    BY <1>1, <1>2, <1>3, <1>5, ToldEndsKeep
<1>6. CASE Goto(t, "lost") /\ UNCHANGED <<conn, svc, reader, troubles>>
    <2>1. TasksMove /\ TaskTyped'
        BY <1>1, <1>6, AllStays, GotoMoves DEF Ops
    <2> QED BY <1>1, <1>6, <2>1, AllStays, ReaderStays, RestStays, StepKeeps DEF TypesNext, Smooth
<1> QED BY <1>4, <1>5, <1>6 DEF AnswerStatus, EndLost, Ended, Reasons

LEMMA RevokeByIDKeeps ==
    ASSUME AssistantsInv, NEW c \in Conns, RevokeByID(c)
    PROVE  AssistantsInv'
BY ReaderForgetsOne, TasksStay, ToldEndsKeep DEF RevokeByID, Ended, Reasons, Smooth

-----------------------------------------------------------------------------
(* Marks: a row says more of itself, of its life and account the same.     *)

OnlyMarked ==
    \A c \in Conns :
        /\ Kept(c)
        /\ conn'[c].past = conn[c].past /\ conn'[c].stale = conn[c].stale
        /\ conn'[c].link => Live(c)

LEMMA MarkedIs ==
    ASSUME AssistantsInv, NEW c \in Conns,
           \/ conn' = [conn EXCEPT ![c].told = TRUE]
           \/ conn' = [conn EXCEPT ![c].raised = TRUE]
           \/ Live(c) /\ conn' = [conn EXCEPT ![c].mailed = TRUE, ![c].link = TRUE]
           \/ \E b \in BOOLEAN : conn' = [conn EXCEPT ![c].unused = b]
    PROVE  ConnTyped' /\ OnlyMarked
<1>1. ASSUME NEW r, conn' = [conn EXCEPT ![c] = r], r \in Rows, r.status = conn[c].status,
             r.reason = conn[c].reason, r.svc = conn[c].svc, r.past = conn[c].past,
             r.stale = conn[c].stale, r.link => Live(c)
      PROVE  ConnTyped' /\ OnlyMarked
    BY <1>1 DEF OnlyMarked, Kept, AssistantsInv, ConnTyped, LinkNamesLive
<1>2. conn[c] \in Rows /\ (conn[c].link => Live(c))
    BY DEF AssistantsInv, ConnTyped, LinkNamesLive
<1>3. ASSUME NEW r, \/ r = [conn[c] EXCEPT !.told = TRUE]
                    \/ r = [conn[c] EXCEPT !.raised = TRUE]
                    \/ Live(c) /\ r = [conn[c] EXCEPT !.mailed = TRUE, !.link = TRUE]
                    \/ \E b \in BOOLEAN : r = [conn[c] EXCEPT !.unused = b]
      PROVE  /\ r \in Rows /\ r.status = conn[c].status /\ r.reason = conn[c].reason
             /\ r.svc = conn[c].svc /\ r.past = conn[c].past /\ r.stale = conn[c].stale
             /\ r.link => Live(c)
    BY <1>2, <1>3 DEF Rows
<1>4. CASE conn' = [conn EXCEPT ![c].told = TRUE]
    BY <1>1, <1>3, <1>4
<1>5. CASE conn' = [conn EXCEPT ![c].raised = TRUE]
    BY <1>1, <1>3, <1>5
<1>6. CASE Live(c) /\ conn' = [conn EXCEPT ![c].mailed = TRUE, ![c].link = TRUE]
    <2>1. conn' = [conn EXCEPT ![c] = [conn[c] EXCEPT !.mailed = TRUE, !.link = TRUE]]
        BY <1>6
    <2> QED BY <1>1, <1>3, <1>6, <2>1
<1>7. CASE \E b \in BOOLEAN : conn' = [conn EXCEPT ![c].unused = b]
    BY <1>1, <1>3, <1>7
<1> QED BY <1>4, <1>5, <1>6, <1>7

LEMMA NothingMarked ==
    ASSUME AssistantsInv, UNCHANGED conn
    PROVE  ConnTyped' /\ OnlyMarked
BY RowsStay DEF OnlyMarked, Kept, AssistantsInv, LinkNamesLive

LEMMA MarksKeep ==
    ASSUME AssistantsInv, ConnTyped',
           OnlyMarked, UNCHANGED <<svc, person, allowed>>, Smooth \/ Trouble,
           ReaderMoves, ReaderTyped', TasksMove, TaskTyped'
    PROVE  AssistantsInv'
<1>1. RowsMove
    BY DEF RowsMove, Live, Kept, OnlyMarked
<1>2. Alike /\ AccountsAlike
    BY DEF Alike, AccountsAlike, Live, Kept, OnlyMarked
<1> QED BY <1>1, <1>2, AccountsOfRows, RestStays, StepKeeps DEF TypesNext, SvcTyped, AssistantsInv

LEMMA ToldKeeps ==
    ASSUME AssistantsInv, NEW c \in Conns, Told(c), UNCHANGED <<svc, person, allowed>>, TasksMove, TaskTyped'
    PROVE  AssistantsInv'
<1>1. ReaderMoves /\ ReaderTyped' /\ (Smooth \/ Trouble)
    BY ReaderForgetsOne, ReaderStays DEF Told
<1>2. CASE UNCHANGED conn
    BY <1>1, <1>2, MarksKeep, NothingMarked
<1>3. CASE conn' = [conn EXCEPT ![c].told = TRUE]
    <2>1. ConnTyped' /\ OnlyMarked
        BY <1>3, MarkedIs
    <2> QED BY <1>1, <2>1, MarksKeep
<1> QED BY <1>2, <1>3 DEF Told

LEMMA ToldOfKeep ==
    ASSUME AssistantsInv,
           (\E t \in Tasks : TellRevoked(t)) \/ (\E c \in Conns : ResendRevocation(c))
    PROVE  AssistantsInv'
<1>1. ASSUME NEW t \in Tasks, TellRevoked(t) PROVE AssistantsInv'
    <2>1. task[t].c \in Conns
        BY <1>1 DEF AssistantsInv, TasksStand, Works, TellRevoked, At, Free
    <2> QED BY <1>1, <2>1, FinishMoves, ToldKeeps DEF TellRevoked
<1>2. ASSUME NEW c \in Conns, ResendRevocation(c) PROVE AssistantsInv'
    BY <1>2, TasksStay, ToldKeeps DEF ResendRevocation
<1> QED BY <1>1, <1>2

LEMMA RowMarksKeep ==
    ASSUME AssistantsInv, NEW c \in Conns, Use(c) \/ IdleTime(c)
    PROVE  AssistantsInv'
<1>1. UNCHANGED <<svc, person, allowed, reader, task>> /\ Smooth
    BY DEF Use, IdleTime, Smooth
<1>2. ConnTyped' /\ OnlyMarked
    BY MarkedIs DEF Use, IdleTime
<1> QED BY <1>1, <1>2, MarksKeep, ReaderStays, TasksStay

LEMMA NoticesKeep ==
    ASSUME AssistantsInv, NEW t \in Tasks, RaiseNotice(t) \/ ClaimNoticeMail(t)
    PROVE  AssistantsInv'
<1>1. UNCHANGED <<svc, person, allowed, reader>> /\ Smooth /\ ~ Free(t)
    BY DEF RaiseNotice, ClaimNoticeMail, Smooth, At, Free
<1>2. task[t].c \in Conns
    BY <1>1 DEF AssistantsInv, TasksStand, Works
<1>3. ConnTyped' /\ OnlyMarked
    <2>1. CASE UNCHANGED conn
        BY <2>1, NothingMarked
    <2>2. CASE conn' = [conn EXCEPT ![task[t].c].raised = TRUE]
        BY <1>2, <2>2, MarkedIs
    <2>3. CASE /\ conn' = [conn EXCEPT ![task[t].c].mailed = TRUE, ![task[t].c].link = TRUE]
               /\ Live(task[t].c)
        BY <1>2, <2>3, MarkedIs
    <2> QED BY <2>1, <2>2, <2>3 DEF RaiseNotice, ClaimNoticeMail, MailClaimable
<1>4. Onward
    BY <1>3 DEF Onward, Kept, OnlyMarked
<1>5. TasksMove /\ TaskTyped'
    BY <1>1, <1>4, FinishMoves, GotoMoves DEF RaiseNotice, ClaimNoticeMail, Ops
<1> QED BY <1>1, <1>3, <1>5, MarksKeep, ReaderStays

-----------------------------------------------------------------------------
(* Activation, renewal and reseal: a live connection goes on.              *)

(* A row that goes on with its status changed.                             *)
LEMMA StatusIs ==
    ASSUME AssistantsInv, NEW c \in Conns, NEW st \in {"active", "reseal"}, Live(c), ~ conn[c].stale,
           conn' = [conn EXCEPT ![c].status = st]
    PROVE  ConnTyped' /\ RowsMove /\ Alike /\ Onward
<1>1. /\ conn'[c].status = st /\ conn'[c].reason = conn[c].reason /\ conn'[c].svc = conn[c].svc
      /\ conn'[c].past = conn[c].past /\ conn'[c].stale = conn[c].stale /\ conn'[c].link = conn[c].link
      /\ conn'[c] \in Rows
    <2>1. conn[c] \in Rows
        BY DEF AssistantsInv, ConnTyped
    <2>2. ASSUME NEW r, r = [conn[c] EXCEPT !.status = st]
          PROVE  /\ r.status = st /\ r.reason = conn[c].reason /\ r.svc = conn[c].svc
                 /\ r.past = conn[c].past /\ r.stale = conn[c].stale /\ r.link = conn[c].link
                 /\ r \in Rows
        BY <2>1, <2>2 DEF Rows, Statuses
    <2>3. conn'[c] = [conn[c] EXCEPT !.status = st]
        BY DEF AssistantsInv, ConnTyped
    <2> QED BY <2>2, <2>3
<1>2. \A d \in Conns : d # c => conn'[d] = conn[d]
    BY DEF AssistantsInv, ConnTyped
<1>3. ConnTyped'
    BY <1>1 DEF ConnTyped, AssistantsInv
<1>4. conn[c].svc \in Services
    BY DEF AssistantsInv, RowsStand, Live
<1>5. RowsMove
    BY <1>1, <1>2, <1>4 DEF RowsMove, Kept, GoesOn, AssistantsInv, LinkNamesLive, Live
<1>6. Alike
    BY <1>1, <1>2 DEF Alike, Live
<1>7. Onward
    BY <1>1, <1>2 DEF Onward
<1> QED BY <1>3, <1>5, <1>6, <1>7

LEMMA ActivateKeeps ==
    ASSUME AssistantsInv, NEW t \in Tasks, NEW c \in Conns, Activate(t, c)
    PROVE  AssistantsInv'
<1>1. UNCHANGED <<svc, person, allowed>> /\ (Smooth \/ Trouble) /\ reader[c].has = "asked"
    BY DEF Activate
<1>2. ~ conn[c].stale /\ conn[c].status # "none"
    BY <1>1 DEF AssistantsInv, StaleGone, RequestGone, ReaderKnows, Nothing
<1>3. CASE reader' = [reader EXCEPT ![c] = Nothing] /\ UNCHANGED <<conn, task>>
    BY <1>1, <1>3, AllStays, TasksStay, RestStays, ReaderForgetsOne, StepKeeps DEF TypesNext
<1>4. CASE conn[c].status = "pending" /\ ~ conn[c].past
    <2>1. conn' = [conn EXCEPT ![c].status = "active"] /\ Begin(t, "activated", c, None)
        BY <1>4 DEF Activate
    <2>2. ConnTyped' /\ RowsMove /\ Alike /\ Onward
        BY <1>2, <1>4, <2>1, StatusIs DEF Live
    <2>3. TasksMove /\ TaskTyped'
        BY <1>2, <2>1, <2>2, BeginMoves DEF Onward, Ops
    <2>4. ReaderMoves /\ ReaderTyped'
        <3>1. CASE reader' = [reader EXCEPT ![c] = Nothing]
            BY <3>1, ReaderForgetsOne
        <3>2. CASE reader' = [reader EXCEPT ![c].has = "yes", ![c].key = TRUE]
            <4>1. reader[c] \in Records
                BY DEF AssistantsInv, ReaderTyped
            <4>2. ASSUME NEW q, q = [reader[c] EXCEPT !.has = "yes", !.key = TRUE] PROVE q \in Records
                BY <4>1, <4>2 DEF Records
            <4>3. reader' = [reader EXCEPT ![c] = [reader[c] EXCEPT !.has = "yes", !.key = TRUE]]
                BY <3>2
            <4> QED BY <1>2, <4>2, <4>3 DEF ReaderMoves, ReaderTyped, AssistantsInv
        <3> QED BY <1>4, <3>1, <3>2 DEF Activate
    <2>5. AccountsAlike
        BY <1>1 DEF AccountsAlike
    <2> QED BY <1>1, <2>2, <2>3, <2>4, <2>5, AccountsOfRows, RestStays, StepKeeps
            DEF TypesNext, SvcTyped, AssistantsInv
<1> QED BY <1>3, <1>4 DEF Activate

LEMMA ResealKeeps ==
    ASSUME AssistantsInv, NEW c \in Conns, Reseal(c)
    PROVE  AssistantsInv'
<1>1. UNCHANGED <<svc, person, allowed, task>> /\ Smooth
    BY DEF Reseal, Smooth
<1>2. CASE Resealable(c)
    <2>1. conn' = [conn EXCEPT ![c].status = "reseal"] /\ reader' = [reader EXCEPT ![c].owes = FALSE]
        BY <1>2 DEF Reseal
    <2>2. Live(c) /\ ~ conn[c].stale /\ conn[c].status # "none"
        BY <1>2 DEF Resealable, Live, AssistantsInv, StaleGone, RequestGone, Ended
    <2>3. ConnTyped' /\ RowsMove /\ Alike
        BY <2>1, <2>2, StatusIs
    <2>4. ReaderMoves /\ ReaderTyped'
        BY <2>1, <2>2 DEF ReaderMoves, ReaderTyped, AssistantsInv, Records
    <2>5. AccountsAlike
        BY <1>1 DEF AccountsAlike
    <2> QED BY <1>1, <2>3, <2>4, <2>5, AccountsOfRows, TasksStay, RestStays, StepKeeps
            DEF TypesNext, SvcTyped, AssistantsInv
<1>3. CASE ~ Resealable(c)
    BY <1>1, <1>3, AllStays, TasksStay, RestStays, ReaderForgetsOne, StepKeeps DEF Reseal, TypesNext
<1> QED BY <1>2, <1>3

(* Renew swaps the account of a connection for one nobody names.           *)
LEMMA RenewKeeps ==
    ASSUME AssistantsInv, NEW t \in Tasks, Renew(t)
    PROVE  AssistantsInv'
<1> DEFINE c == task[t].c
           s == task[t].s
<1>1. UNCHANGED <<person, allowed, reader>> /\ Smooth /\ ~ Free(t) /\ At(t, "renew")
    BY DEF Renew, Smooth, At, Free
<1>2. c \in Conns /\ s \in Services /\ conn[c].status # "none"
    BY <1>1 DEF AssistantsInv, TasksStand, Works, At
<1>3. CASE ~ (Renewable(c) /\ ServiceFits(s))
    <2>1. Goto(t, "discard") /\ UNCHANGED <<conn, svc>>
        BY <1>3 DEF Renew
    <2>2. TasksMove /\ TaskTyped'
        BY <1>1, <2>1, AllStays, GotoMoves DEF Ops, At
    <2> QED BY <1>1, <2>1, <2>2, AllStays, ReaderStays, RestStays, StepKeeps DEF TypesNext
<1>4. CASE Renewable(c) /\ ServiceFits(s)
    <2>1. /\ conn' = [conn EXCEPT ![c] = [conn[c] EXCEPT !.svc = s, !.status = "active", !.unused = FALSE]]
          /\ svc' = [svc EXCEPT ![conn[c].svc] = Removed(@), ![s].state = "bound"]
          /\ Finish(t)
        BY <1>4 DEF Renew, Swapped
    <2>2. Live(c) /\ ~ conn[c].stale
        BY <1>2, <1>4 DEF Renewable, Live, AssistantsInv, StaleGone, RequestGone, Ended
    <2>3. conn[c].svc \in Services /\ s # conn[c].svc /\ \A d \in Conns : conn[d].svc # s
        BY <1>2, <1>4, <2>2 DEF ServiceFits, AssistantsInv, RowsStand
    <2> HIDE DEF c, s
    <2>4. conn[c] \in Rows
        BY <1>2 DEF AssistantsInv, ConnTyped
    <2>5. ASSUME NEW r, r = [conn[c] EXCEPT !.svc = s, !.status = "active", !.unused = FALSE]
          PROVE  /\ r \in Rows /\ r.svc = s /\ r.status = "active" /\ r.reason = conn[c].reason
                 /\ r.past = conn[c].past /\ r.stale = conn[c].stale /\ r.link = conn[c].link
        BY <1>2, <2>4, <2>5 DEF Rows, Statuses
    <2>6. /\ conn'[c] \in Rows /\ conn'[c].svc = s /\ conn'[c].status = "active"
          /\ conn'[c].reason = conn[c].reason /\ conn'[c].past = conn[c].past
          /\ conn'[c].stale = conn[c].stale /\ conn'[c].link = conn[c].link
          /\ \A d \in Conns : d # c => conn'[d] = conn[d]
        BY <1>2, <2>1, <2>5 DEF AssistantsInv, ConnTyped
    <2>7. ConnTyped'
        BY <1>2, <2>1, <2>5 DEF AssistantsInv, ConnTyped
    <2>8. RowsMove
        BY <1>2, <2>2, <2>6 DEF RowsMove, Kept, GoesOn, AssistantsInv, LinkNamesLive, Live
    <2>9. svc[s] \in Accounts /\ svc[s].state = "provisional" /\ ~ svc[s].due
        BY <1>2, <1>4 DEF ServiceFits, Opens, AssistantsInv, SvcTyped
    <2>10. /\ svc'[s].state = "bound" /\ svc'[s].due = svc[s].due /\ svc'[s] \in Accounts
           /\ svc'[conn[c].svc] = Removed(svc[conn[c].svc])
           /\ \A u \in Services : u \notin {s, conn[c].svc} => svc'[u] = svc[u]
        BY <1>2, <2>1, <2>3, <2>9 DEF AssistantsInv, SvcTyped, Accounts
    <2>11. SvcTyped'
        <3>1. \A u \in Services : svc'[u] \in Accounts
            BY <1>2, <2>3, <2>10, RemovedIs
        <3> QED BY <2>1, <3>1 DEF SvcTyped, AssistantsInv
    <2>12. \A d \in Conns : Live(d)' <=> Live(d)
        BY <1>2, <2>2, <2>6 DEF Live
    <2>13. NothingOutlives'
        <3>1. ASSUME NEW u \in Services, svc'[u].state = "bound"
              PROVE  \E d \in Conns : Live(d)' /\ conn'[d].svc = u
            <4>1. CASE u = s
                BY <1>2, <2>2, <2>6, <2>12, <4>1
            <4>2. CASE u # s
                <5>1. u # conn[c].svc
                    BY <2>3, <2>10, <3>1, RemovedIs
                <5>2. PICK d \in Conns : Live(d) /\ conn[d].svc = u
                    BY <2>10, <3>1, <4>2, <5>1 DEF AssistantsInv, NothingOutlives
                <5> QED BY <2>6, <2>12, <5>1, <5>2
            <4> QED BY <4>1, <4>2
        <3> QED BY <3>1 DEF NothingOutlives
    <2>14. LiveHasAccount'
        <3>1. ASSUME NEW d \in Conns, Live(d)'
              PROVE  /\ svc'[conn'[d].svc].state = "bound"
                     /\ svc'[conn'[d].svc].due => conn'[d].past
                     /\ \A e \in Conns \ {d} : conn'[e].svc # conn'[d].svc
            <4>1. CASE d = c
                BY <1>2, <2>3, <2>6, <2>9, <2>10, <4>1
            <4>2. CASE d # c
                <5>1. Live(d) /\ conn'[d] = conn[d]
                    BY <2>6, <2>12, <3>1, <4>2
                <5>2. conn[d].svc # conn[c].svc /\ conn[d].svc # s /\ conn[d].svc \in Services
                    BY <1>2, <2>3, <4>2, <5>1 DEF AssistantsInv, LiveHasAccount, RowsStand, Live
                <5>3. svc'[conn'[d].svc] = svc[conn[d].svc]
                    BY <2>10, <5>1, <5>2
                <5> QED BY <2>6, <5>1, <5>2, <5>3 DEF AssistantsInv, LiveHasAccount
            <4> QED BY <4>1, <4>2
        <3> QED BY <3>1 DEF LiveHasAccount
    <2>15. TasksMove /\ TaskTyped'
        BY <2>1, FinishMoves
    <2> QED BY <1>1, <2>7, <2>8, <2>11, <2>13, <2>14, <2>15, ReaderStays, RestStays, StepKeeps
            DEF TypesNext, AccountsNext
<1> QED BY <1>3, <1>4

-----------------------------------------------------------------------------
(* Time, and the janitor's lists.                                          *)

(* The end of a lifetime is the account's deadline, of no other's.         *)
LEMMA LifetimeEndsKeeps ==
    ASSUME AssistantsInv, NEW c \in Conns, LifetimeEnds(c)
    PROVE  AssistantsInv'
<1>1. UNCHANGED <<person, allowed, reader, task>> /\ Smooth
    BY DEF LifetimeEnds, Smooth
<1>2. Live(c) /\ conn[c].svc \in Services
    BY DEF LifetimeEnds, Live, AssistantsInv, RowsStand
<1>3. conn' = [conn EXCEPT ![c].past = TRUE] /\ svc' = [svc EXCEPT ![conn[c].svc].due = TRUE]
    BY DEF LifetimeEnds
<1>4. /\ ConnTyped'
      /\ conn'[c].past = TRUE
      /\ \A d \in Conns \ {c} : conn'[d] = conn[d]
      /\ \A d \in Conns : /\ Kept(d) /\ conn'[d].stale = conn[d].stale /\ conn'[d].link = conn[d].link
    BY <1>3 DEF Kept, AssistantsInv, ConnTyped, Rows
<1>5. /\ SvcTyped'
      /\ \A s \in Services : svc'[s].state = svc[s].state
      /\ \A s \in Services \ {conn[c].svc} : svc'[s] = svc[s]
    BY <1>2, <1>3 DEF AssistantsInv, SvcTyped, Accounts
<1>6. RowsMove
    BY <1>4 DEF RowsMove, Kept, AssistantsInv, LinkNamesLive, Live
<1>7. \A d \in Conns : (Live(d)' <=> Live(d)) /\ conn'[d].svc = conn[d].svc
    BY <1>4 DEF Kept, Live
<1>8. NothingOutlives'
    BY <1>5, <1>7 DEF NothingOutlives, AssistantsInv
<1>9. \A d \in Conns : Live(d) => conn[d].svc \in Services
    BY DEF AssistantsInv, RowsStand, Live
<1>10. LiveHasAccount'
    <2>1. ASSUME NEW d \in Conns, Live(d)'
          PROVE  /\ svc'[conn'[d].svc].state = "bound"
                 /\ svc'[conn'[d].svc].due => conn'[d].past
                 /\ \A e \in Conns \ {d} : conn'[e].svc # conn'[d].svc
        <3>1. Live(d) /\ conn'[d].svc = conn[d].svc /\ conn[d].svc \in Services
            BY <1>7, <1>9, <2>1
        <3>2. svc'[conn[d].svc].state = "bound" /\ \A e \in Conns \ {d} : conn'[e].svc # conn'[d].svc
            BY <1>5, <1>7, <3>1 DEF AssistantsInv, LiveHasAccount
        <3>3. CASE d = c
            BY <1>4, <3>1, <3>2, <3>3
        <3>4. CASE d # c
            <4>1. conn[d].svc # conn[c].svc
                BY <3>1, <3>4 DEF AssistantsInv, LiveHasAccount
            <4>2. svc'[conn[d].svc] = svc[conn[d].svc] /\ conn'[d] = conn[d]
                BY <1>4, <1>5, <3>1, <3>4, <4>1
            <4> QED BY <3>1, <3>2, <4>2 DEF AssistantsInv, LiveHasAccount
        <3> QED BY <3>3, <3>4
    <2> QED BY <2>1 DEF LiveHasAccount
<1> QED BY <1>1, <1>4, <1>5, <1>6, <1>8, <1>10, TasksStay, ReaderStays, RestStays, StepKeeps
        DEF TypesNext, AccountsNext

(* A consent ages when the reader's request of it is gone.                 *)
LEMMA PendingAgesKeeps ==
    ASSUME AssistantsInv, NEW c \in Conns, PendingAges(c)
    PROVE  AssistantsInv'
<1>1. UNCHANGED <<svc, person, allowed, reader, task>> /\ Smooth
    BY DEF PendingAges, Smooth
<1>2. RequestGone(c) /\ conn[c].status = "pending" /\ conn' = [conn EXCEPT ![c].stale = TRUE]
    BY DEF PendingAges, RequestGone
<1>3. /\ ConnTyped'
      /\ conn'[c].stale = TRUE
      /\ \A d \in Conns : d # c => conn'[d] = conn[d]
      /\ \A d \in Conns : Kept(d) /\ conn'[d].past = conn[d].past /\ conn'[d].link = conn[d].link
    BY <1>2 DEF Kept, AssistantsInv, ConnTyped, Rows
<1>4. Alike /\ AccountsAlike /\ Onward
    BY <1>1, <1>3 DEF Alike, AccountsAlike, Onward, Live, Kept
<1>5. AccountsNext
    BY <1>4, AccountsOfRows
<1>6. RowsStand' /\ LinkNamesLive' /\ ReaderKnows'
    BY <1>1, <1>3 DEF AssistantsInv, RowsStand, LinkNamesLive, ReaderKnows, Kept, Live
<1>7. TasksStand'
    BY <1>1, <1>4, TasksKeep DEF AssistantsInv
<1>8. StaleGone'
    <2>1. ASSUME NEW d \in Conns, conn'[d].stale PROVE RequestGone(d)'
        BY <1>1, <1>2, <1>3, <2>1 DEF RequestGone, At, Kept, AssistantsInv, StaleGone
    <2>2. ASSUME NEW t \in Tasks, At(t, "stale")' PROVE (conn[task[t].c].stale)'
        BY <1>1, <1>4, <2>2 DEF At, AssistantsInv, StaleGone, TasksStand, Works, Free, Onward
    <2> QED BY <2>1, <2>2 DEF StaleGone
<1> QED BY <1>1, <1>3, <1>5, <1>6, <1>7, <1>8, RestStays
        DEF AssistantsInv, AccountsNext, SvcTyped, ReaderTyped, TaskTyped

LEMMA ListDueKeeps ==
    ASSUME AssistantsInv, NEW t \in Tasks, NEW c \in Conns, ListDue(t, c)
    PROVE  AssistantsInv'
<1>1. UNCHANGED <<conn, svc, person, allowed, reader>> /\ Smooth /\ conn[c].status # "none"
    BY DEF ListDue, Smooth, Stale, RunOut, Unused
<1>2. CASE Begin(t, "runout", c, None) \/ Begin(t, "unused", c, None)
    <2>1. TasksMove /\ TaskTyped'
        BY <1>1, <1>2, BeginMoves DEF Ops
    <2> QED BY <1>1, <2>1, AllStays, ReaderStays, RestStays, StepKeeps DEF TypesNext
<1>3. CASE Begin(t, "stale", c, None) /\ Stale(c)
    <2>1. /\ TaskTyped'
          /\ task'[t] = [op |-> "stale", c |-> c, s |-> None, st |-> conn[c].status]
          /\ \A u \in Tasks : u # t => task'[u] = task[u]
        BY <1>3, BeginIs DEF AssistantsInv, Ops
    <2>2. TasksStand'
        BY <1>1, <2>1 DEF TasksStand, Works, Free, AssistantsInv
    <2>3. StaleGone'
        BY <1>1, <1>3, <2>1 DEF StaleGone, RequestGone, At, AssistantsInv, Stale
    <2>4. ConnTyped' /\ SvcTyped' /\ AccountsNext /\ ReaderTyped' /\ RestTyped'
        BY <1>1, AllStays, ReaderStays, RestStays
    <2> QED BY <1>1, <2>1, <2>2, <2>3, <2>4
            DEF AssistantsInv, AccountsNext, RowsStand, LinkNamesLive, ReaderKnows, Live
<1> QED BY <1>2, <1>3 DEF ListDue

(* Create gives a consent an account that no connection names.             *)
LEMMA CreateKeeps ==
    ASSUME AssistantsInv, NEW t \in Tasks, NEW c \in Conns, NEW s \in Services, NEW kind \in Kinds,
           NEW replaces \in BOOLEAN, Create(t, c, s, kind, replaces)
    PROVE  AssistantsInv'
<1>1. /\ UNCHANGED <<person, allowed, reader>> /\ Smooth
      /\ conn[c].status = "none" /\ ~ conn[c].stale
      /\ svc[s].state = "provisional" /\ ~ svc[s].due /\ \A d \in Conns : conn[d].svc # s
    BY DEF Create, Smooth, ServiceFits, Opens, AssistantsInv, StaleGone, RequestGone, Ended
<1>2. /\ conn' = [conn EXCEPT ![c] =
              [conn[c] EXCEPT !.status = "pending", !.svc = s, !.kind = kind, !.replaces = replaces]]
      /\ svc' = [svc EXCEPT ![s].state = "bound"]
      /\ Begin(t, "relay", c, s)
    BY DEF Create
<1>3. conn[c] \in Rows
    BY DEF AssistantsInv, ConnTyped
<1>4. ASSUME NEW r,
             r = [conn[c] EXCEPT !.status = "pending", !.svc = s, !.kind = kind, !.replaces = replaces]
      PROVE  /\ r \in Rows /\ r.status = "pending" /\ r.svc = s /\ r.reason = conn[c].reason
             /\ r.past = conn[c].past /\ r.stale = conn[c].stale /\ r.link = conn[c].link
    BY <1>3, <1>4 DEF Rows, Statuses
<1>5. /\ conn'[c].status = "pending" /\ conn'[c].svc = s /\ conn'[c].reason = conn[c].reason
      /\ conn'[c].past = conn[c].past /\ conn'[c].stale = conn[c].stale /\ conn'[c].link = conn[c].link
      /\ \A d \in Conns : d # c => conn'[d] = conn[d]
    BY <1>2, <1>4 DEF AssistantsInv, ConnTyped
<1>6. ConnTyped'
    BY <1>2, <1>4 DEF AssistantsInv, ConnTyped
<1>7. /\ SvcTyped' /\ svc'[s].state = "bound" /\ ~ svc'[s].due
      /\ \A u \in Services : u # s => svc'[u] = svc[u]
    BY <1>1, <1>2 DEF AssistantsInv, SvcTyped, Accounts
<1>8. TaskTyped' /\ task'[t] = [op |-> "relay", c |-> c, s |-> s, st |-> conn[c].status]
        /\ \A u \in Tasks : u # t => task'[u] = task[u]
    BY <1>2, BeginIs DEF AssistantsInv, Ops
<1>9. \A d \in Conns : Live(d)' <=> Live(d) \/ d = c
    BY <1>5 DEF Live
<1>10. ~ Live(c)
    BY <1>1 DEF Live
<1>11. NothingOutlives'
    <2>1. ASSUME NEW u \in Services, svc'[u].state = "bound"
          PROVE  \E d \in Conns : Live(d)' /\ conn'[d].svc = u
        <3>1. CASE u = s
            BY <1>5, <1>9, <3>1
        <3>2. CASE u # s
            <4>1. PICK d \in Conns : Live(d) /\ conn[d].svc = u
                BY <1>7, <2>1, <3>2 DEF AssistantsInv, NothingOutlives
            <4> QED BY <1>5, <1>9, <1>10, <4>1
        <3> QED BY <3>1, <3>2
    <2> QED BY <2>1 DEF NothingOutlives
<1>12. LiveHasAccount'
    <2>1. ASSUME NEW d \in Conns, Live(d)'
          PROVE  /\ svc'[conn'[d].svc].state = "bound"
                 /\ svc'[conn'[d].svc].due => conn'[d].past
                 /\ \A e \in Conns \ {d} : conn'[e].svc # conn'[d].svc
        <3>1. CASE d = c
            BY <1>1, <1>5, <1>7, <3>1
        <3>2. CASE d # c
            <4>1. Live(d) /\ conn'[d] = conn[d] /\ conn[d].svc # s /\ conn[d].svc \in Services
                BY <1>1, <1>5, <1>9, <2>1, <3>2 DEF AssistantsInv, RowsStand, Live
            <4>2. svc'[conn[d].svc] = svc[conn[d].svc]
                BY <1>7, <4>1
            <4> QED BY <1>5, <4>1, <4>2 DEF AssistantsInv, LiveHasAccount
        <3> QED BY <3>1, <3>2
    <2> QED BY <2>1 DEF LiveHasAccount
<1>13. RowsStand' /\ LinkNamesLive'
    BY <1>1, <1>5 DEF RowsStand, LinkNamesLive, AssistantsInv, Live, Ended
<1>14. ReaderKnows'
    BY <1>1, <1>5 DEF ReaderKnows, AssistantsInv
<1>15. TasksStand'
    BY <1>5, <1>8 DEF TasksStand, Works, Free, AssistantsInv
<1>16. StaleGone'
    <2>1. ASSUME NEW d \in Conns, conn'[d].stale PROVE RequestGone(d)'
        BY <1>1, <1>5, <1>8, <2>1 DEF RequestGone, At, AssistantsInv, StaleGone
    <2>2. ASSUME NEW u \in Tasks, At(u, "stale")' PROVE (conn[task[u].c].stale)'
        BY <1>1, <1>5, <1>8, <2>2 DEF At, AssistantsInv, StaleGone, TasksStand, Works, Free
    <2> QED BY <2>1, <2>2 DEF StaleGone
<1> QED BY <1>1, <1>6, <1>7, <1>8, <1>11, <1>12, <1>13, <1>14, <1>15, <1>16, ReaderStays, RestStays
        DEF AssistantsInv

-----------------------------------------------------------------------------
LEMMA AssistantsBegin == Init => AssistantsInv
<1> SUFFICES ASSUME Init PROVE AssistantsInv
    OBVIOUS
<1>1. ConnTyped /\ SvcTyped /\ ReaderTyped /\ TaskTyped /\ RestTyped
    BY AssistantsAssumption DEF Init, ConnTyped, SvcTyped, ReaderTyped, TaskTyped, RestTyped, Rows, Statuses,
           Reasons, Accounts, Records, Work, Nothing, Idle, Ops
<1>2. NothingOutlives /\ LiveHasAccount /\ LinkNamesLive
    BY DEF Init, NothingOutlives, LiveHasAccount, LinkNamesLive, Live
<1>3. RowsStand /\ TasksStand /\ StaleGone /\ ReaderKnows
    BY DEF Init, RowsStand, TasksStand, StaleGone, ReaderKnows, Works, Free, Idle, At
<1> QED BY <1>1, <1>2, <1>3 DEF AssistantsInv

LEMMA StutterKeeps == ASSUME AssistantsInv, UNCHANGED vars PROVE AssistantsInv'
BY AllStays, TasksStay, ReaderStays, RestStays, StepKeeps DEF vars, TypesNext, Smooth

(* Every handler's step, pass, deadline and outside event keeps the        *)
(* invariant.                                                              *)
LEMMA AssistantsStep == ASSUME AssistantsInv, [Next]_vars PROVE AssistantsInv'
<1>1. ASSUME NEW t \in Tasks, Step(t) PROVE AssistantsInv'
    BY <1>1, RelayBundleKeeps, HandlersEndKeep, ReadReconnectKeeps, NoticesKeep, RelayRenewalKeeps,
       RenewKeeps, DiscardServiceKeeps, StatusKeeps, ToldOfKeep DEF Step
<1>2. ASSUME NEW c \in Conns,
             \/ Reseal(c) \/ ReaderForgets(c) \/ RevokeByID(c) \/ Use(c)
             \/ ResendRevocation(c) \/ PendingAges(c) \/ LifetimeEnds(c) \/ IdleTime(c)
      PROVE  AssistantsInv'
    BY <1>2, ResealKeeps, OtherQuietKeep, RevokeByIDKeeps, RowMarksKeep, ToldOfKeep, PendingAgesKeeps,
       LifetimeEndsKeeps
<1>3. ASSUME NEW s \in Services,
             MakeService(s) \/ ServiceGone(s) \/ RevokeKey(s) \/ ExpireService(s) \/ ProvisionEnds(s)
      PROVE  AssistantsInv'
    BY <1>3, AccountsChangeKeep, GoneKeep
<1>4. ASSUME NEW t \in Tasks, NEW c \in Conns,
             \/ Activate(t, c) \/ BudgetHit(t, c) \/ AskStatus(t, c)
             \/ Remove(t, c) \/ RevokeByLink(t, c) \/ ListDue(t, c)
             \/ \E s \in Services : StartRenewal(t, c, s)
      PROVE  AssistantsInv'
    BY <1>4, ActivateKeeps, BeginsKeep, AskedEndsKeep, ListDueKeeps
<1>5. CASE UNCHANGED vars
    BY <1>5, StutterKeeps
<1> QED BY <1>1, <1>2, <1>3, <1>4, <1>5, CreateKeeps, OtherQuietKeep, GoneKeep DEF Next

(* Whatever handlers, passes and the reader do, in whatever order: rows,   *)
(* accounts, the handlers' records and the reader agree.                   *)
THEOREM AssistantsInvariant == Spec => []AssistantsInv
<1>1. Init => AssistantsInv
    BY AssistantsBegin
<1>2. AssistantsInv /\ [Next]_vars => AssistantsInv'
    BY AssistantsStep
<1> QED BY <1>1, <1>2, PTL DEF Spec

(* Connections and the accounts they read with live and end together: an   *)
(* account opens nothing once its connection ended, no other's failure     *)
(* takes a live one's account, and an ended connection leaves no link      *)
(* (store/mcp.go, mcp_renew.go, mcp_notices.go).                           *)
THEOREM AssistantsAreSafe == Spec => []AssistantsSafe
<1>1. AssistantsInv => AssistantsSafe
    BY TypeIs DEF AssistantsInv, AssistantsSafe
<1> QED BY <1>1, AssistantsInvariant, PTL

-----------------------------------------------------------------------------
(* What a step may do to a row that the three action properties are about: *)
(* leave its reason, or end a live row for a reason that is true of it.    *)
EndsTruly(c, reason) ==
    /\ reason = "idle" => conn[c].unused
    /\ conn[c].status \in {"active", "reseal"} => reason \notin {"relay_failed", "pending_expired"}
RowSteps(c) ==
    \/ conn'[c].reason = conn[c].reason /\ (conn[c].status \in Ended => conn'[c].status = conn[c].status)
    \/ Live(c) /\ EndsTruly(c, conn'[c].reason)

LEMMA RowStepsSuffice ==
    ASSUME AssistantsInv, \A c \in Conns : RowSteps(c)
    PROVE  EndStands /\ HandshakeStands /\ IdleOnlyUnused
<1>1. \A c \in Conns : conn[c].status \in {"active", "reseal"} => conn[c].reason = None
    BY DEF AssistantsInv, RowsStand, Ended
<1>2. EndStands
    BY DEF EndStands, RowSteps, Live, Ended
<1>3. HandshakeStands
    BY <1>1 DEF HandshakeStands, RowSteps, EndsTruly, None
<1>4. IdleOnlyUnused
    BY DEF IdleOnlyUnused, RowSteps, EndsTruly
<1> QED BY <1>2, <1>3, <1>4

LEMMA EndAllSteps ==
    ASSUME AssistantsInv, NEW E \in SUBSET Conns, NEW status \in Ended, NEW reason \in Reasons,
           EndAll(E, status, reason), \A c \in E : Live(c) => EndsTruly(c, reason)
    PROVE  \A c \in Conns : RowSteps(c)
<1>1. \A c \in Conns : conn'[c] = IF c \in E THEN EndedRow(c, status, reason) ELSE conn[c]
    BY DEF EndAll
<1> QED BY <1>1, EndedRowIs DEF RowSteps

LEMMA EndToldSteps ==
    ASSUME AssistantsInv, NEW c \in Conns, NEW status \in Ended, NEW reason \in Reasons,
           EndTold(c, status, reason), Live(c) => EndsTruly(c, reason)
    PROVE  \A d \in Conns : RowSteps(d)
<1>1. EndedRow(c, status, reason) \in Rows
    BY EndedRowIs
<1>2. conn'[c] = [EndedRow(c, status, reason) EXCEPT !.told = TRUE]
        /\ \A d \in Conns : d # c => conn'[d] = conn[d]
    BY DEF EndTold, AssistantsInv, ConnTyped
<1>3. conn'[c].status = EndedRow(c, status, reason).status /\ conn'[c].reason = EndedRow(c, status, reason).reason
    BY <1>1, <1>2 DEF Rows
<1>4. RowSteps(c)
    BY <1>3, EndedRowIs DEF RowSteps
<1> QED BY <1>2, <1>4 DEF RowSteps

(* The ends, each for its reason.                                          *)
LEMMA EndsHaveReason ==
    ASSUME AssistantsInv,
           \/ \E t \in Tasks : \/ DeleteFailed(t) \/ ReplacePrevious(t) \/ EndDue(t) \/ EndIfIdle(t)
                             \/ AnswerStatus(t) \/ EndLost(t)
           \/ \E t \in Tasks, c \in Conns : Remove(t, c) \/ RevokeByLink(t, c)
           \/ \E c \in Conns : RevokeByID(c)
           \/ \E s \in Services : ServiceGone(s)
           \/ MemberGone
    PROVE  \A c \in Conns : RowSteps(c)
<1>1. CASE UNCHANGED conn
    BY <1>1 DEF RowSteps
<1>2. \A t \in Tasks : ~ Free(t) => task[t].c \in Conns
    BY DEF AssistantsInv, TasksStand, Works
<1>3. ASSUME NEW t \in Tasks, DeleteFailed(t), Undoable(task[t].c) PROVE \A c \in Conns : RowSteps(c)
    <2>1. task[t].c \in Conns /\ EndAll({task[t].c}, "deleted", "relay_failed")
        BY <1>2, <1>3 DEF DeleteFailed, At, Free
    <2> QED BY <1>3, <2>1, EndAllSteps DEF EndsTruly, Undoable, Ended, Reasons
<1>4. ASSUME NEW t \in Tasks, ReplacePrevious(t) PROVE \A c \in Conns : RowSteps(c)
    <2>1. EndAll(Replaced(task[t].c), "revoked", "replaced") /\ Replaced(task[t].c) \in SUBSET Conns
        BY <1>4 DEF ReplacePrevious, Replaced
    <2> QED BY <2>1, EndAllSteps DEF EndsTruly, Ended, Reasons
<1>5. ASSUME NEW t \in Tasks, EndDue(t) PROVE \A c \in Conns : RowSteps(c)
    <2>1. task[t].c \in Conns
        BY <1>2, <1>5 DEF EndDue, At, Free
    <2>2. CASE At(t, "stale") /\ EndAll({task[t].c}, "revoked", "pending_expired")
        <3>1. conn[task[t].c].status \notin {"active", "reseal"}
            BY <2>1, <2>2 DEF AssistantsInv, StaleGone, RequestGone, Ended
        <3> QED BY <2>1, <2>2, <3>1, EndAllSteps DEF EndsTruly, Ended, Reasons
    <2>3. CASE EndAll({task[t].c}, "expired", "expired")
        BY <2>1, <2>3, EndAllSteps DEF EndsTruly, Ended, Reasons
    <2> QED BY <1>5, <2>2, <2>3 DEF EndDue
<1>6. ASSUME NEW t \in Tasks, EndIfIdle(t), StillUnused(task[t].c) PROVE \A c \in Conns : RowSteps(c)
    <2>1. task[t].c \in Conns /\ EndAll({task[t].c}, "revoked", "idle")
        BY <1>2, <1>6 DEF EndIfIdle, At, Free
    <2> QED BY <1>6, <2>1, EndAllSteps DEF EndsTruly, StillUnused, Unused, Ended, Reasons
<1>7. ASSUME NEW t \in Tasks, AnswerStatus(t) \/ EndLost(t) PROVE \A c \in Conns : RowSteps(c)
    <2>1. task[t].c \in Conns
        BY <1>2, <1>7 DEF AnswerStatus, EndLost, At, Free
    <2>2. CASE EndTold(task[t].c, "expired", "expired")
        BY <2>1, <2>2, EndToldSteps DEF EndsTruly, Ended, Reasons
    <2>3. CASE EndTold(task[t].c, "revoked", "access_lost")
        BY <2>1, <2>3, EndToldSteps DEF EndsTruly, Ended, Reasons
    <2> QED BY <1>1, <1>7, <2>2, <2>3 DEF AnswerStatus, EndLost
<1>8. ASSUME NEW t \in Tasks, NEW c \in Conns, Remove(t, c) \/ RevokeByLink(t, c)
      PROVE  \A d \in Conns : RowSteps(d)
    <2>1. EndAll({c}, "revoked", "console")
        BY <1>8 DEF Remove, RevokeByLink
    <2> QED BY <2>1, EndAllSteps DEF EndsTruly, Ended, Reasons
<1>9. ASSUME NEW c \in Conns, RevokeByID(c) PROVE \A d \in Conns : RowSteps(d)
    BY <1>9, EndToldSteps DEF RevokeByID, EndsTruly, Ended, Reasons
<1>10. ASSUME NEW s \in Services, ServiceGone(s) PROVE \A c \in Conns : RowSteps(c)
    <2>1. EndAll({c \in Conns : Live(c) /\ conn[c].svc = s}, "revoked", "service")
        BY <1>10 DEF ServiceGone
    <2>2. {c \in Conns : Live(c) /\ conn[c].svc = s} \in SUBSET Conns
        OBVIOUS
    <2> QED BY <2>1, <2>2, EndAllSteps DEF EndsTruly, Ended, Reasons
<1>11. ASSUME MemberGone PROVE \A c \in Conns : RowSteps(c)
    <2>1. \A c \in Conns : conn'[c] = IF Live(c) THEN EndedRow(c, "revoked", "member") ELSE conn[c]
        BY <1>11 DEF MemberGone
    <2> QED BY <2>1, EndedRowIs DEF RowSteps, EndsTruly, Ended, Reasons
<1> QED BY <1>1, <1>3, <1>4, <1>5, <1>6, <1>7, <1>8, <1>9, <1>10, <1>11 DEF DeleteFailed, EndIfIdle

(* The others leave a row's reason, and an ended row's status.             *)
LEMMA MarksHaveNone ==
    ASSUME AssistantsInv, NEW c \in Conns, conn' = [conn EXCEPT ![c].told = TRUE] \/ Use(c) \/ IdleTime(c)
    PROVE  \A d \in Conns : RowSteps(d)
BY MarkedIs DEF Use, IdleTime, RowSteps, OnlyMarked, Kept

LEMMA OthersHaveNone ==
    ASSUME AssistantsInv,
           \/ \E t \in Tasks, c \in Conns : Activate(t, c)
           \/ \E t \in Tasks : Renew(t) \/ RaiseNotice(t) \/ ClaimNoticeMail(t) \/ TellRevoked(t)
           \/ \E c \in Conns : Reseal(c) \/ ResendRevocation(c) \/ PendingAges(c) \/ LifetimeEnds(c)
           \/ \E t \in Tasks, c \in Conns, s \in Services, k \in Kinds, r \in BOOLEAN : Create(t, c, s, k, r)
    PROVE  \A d \in Conns : RowSteps(d)
<1>1. \A d \in Conns : conn[d] \in Rows
    BY DEF AssistantsInv, ConnTyped
<1>2. CASE UNCHANGED conn
    BY <1>2 DEF RowSteps
<1>3. ASSUME NEW c \in Conns, conn[c].status \notin Ended,
             NEW r, conn' = [conn EXCEPT ![c] = r], r.reason = conn[c].reason
      PROVE  \A d \in Conns : RowSteps(d)
    BY <1>3 DEF RowSteps, AssistantsInv, ConnTyped
<1>4. ASSUME NEW c \in Conns, Live(c), NEW st \in {"active", "reseal"}, conn' = [conn EXCEPT ![c].status = st]
      PROVE  \A d \in Conns : RowSteps(d)
    BY <1>1, <1>3, <1>4 DEF Rows, Live, Ended
<1>5. ASSUME NEW t \in Tasks, NEW c \in Conns, Activate(t, c) PROVE \A d \in Conns : RowSteps(d)
    BY <1>2, <1>4, <1>5 DEF Activate, Live
<1>6. ASSUME NEW t \in Tasks, Renew(t), ~ UNCHANGED conn PROVE \A d \in Conns : RowSteps(d)
    <2> DEFINE c == task[t].c
    <2>1. c \in Conns
        BY <1>6 DEF AssistantsInv, TasksStand, Works, Renew, At, Free
    <2>2. conn[c].status \notin Ended
        BY <1>6 DEF Renew, Renewable, Ended
    <2>3. conn' = [conn EXCEPT ![c] = [conn[c] EXCEPT !.svc = task[t].s, !.status = "active", !.unused = FALSE]]
        BY <1>6 DEF Renew
    <2> HIDE DEF c
    <2>4. ASSUME NEW r, r = [conn[c] EXCEPT !.svc = task[t].s, !.status = "active", !.unused = FALSE]
          PROVE  r.reason = conn[c].reason
        BY <1>1, <2>1, <2>4 DEF Rows
    <2> QED BY <1>3, <2>1, <2>2, <2>3, <2>4
<1>7. ASSUME NEW t \in Tasks, RaiseNotice(t) \/ ClaimNoticeMail(t) \/ TellRevoked(t), ~ UNCHANGED conn
      PROVE  \A d \in Conns : RowSteps(d)
    <2>1. task[t].c \in Conns
        BY <1>7 DEF AssistantsInv, TasksStand, Works, RaiseNotice, ClaimNoticeMail, TellRevoked, At, Free
    <2>2. OnlyMarked
        BY <1>7, <2>1, MarkedIs DEF RaiseNotice, ClaimNoticeMail, MailClaimable, TellRevoked, Told
    <2> QED BY <2>2 DEF RowSteps, OnlyMarked, Kept
<1>8. ASSUME NEW c \in Conns, Reseal(c), ~ UNCHANGED conn PROVE \A d \in Conns : RowSteps(d)
    BY <1>4, <1>8 DEF Reseal, Resealable, Live
<1>9. ASSUME NEW c \in Conns, ResendRevocation(c), ~ UNCHANGED conn PROVE \A d \in Conns : RowSteps(d)
    BY <1>9, MarksHaveNone DEF ResendRevocation, Told
<1>10. ASSUME NEW c \in Conns, PendingAges(c) \/ LifetimeEnds(c) PROVE \A d \in Conns : RowSteps(d)
    <2>1. conn[c].status \notin Ended
        BY <1>10 DEF PendingAges, LifetimeEnds, Ended
    <2>2. conn' = [conn EXCEPT ![c].stale = TRUE] \/ conn' = [conn EXCEPT ![c].past = TRUE]
        BY <1>10 DEF PendingAges, LifetimeEnds
    <2> QED BY <1>1, <1>3, <2>1, <2>2 DEF Rows
<1>11. ASSUME NEW t \in Tasks, NEW c \in Conns, NEW s \in Services, NEW k \in Kinds, NEW b \in BOOLEAN,
              Create(t, c, s, k, b)
       PROVE  \A d \in Conns : RowSteps(d)
    <2>1. conn[c].status \notin Ended
        BY <1>11 DEF Create, Ended
    <2>2. conn' = [conn EXCEPT ![c] =
              [conn[c] EXCEPT !.status = "pending", !.svc = s, !.kind = k, !.replaces = b]]
        BY <1>11 DEF Create
    <2>3. ASSUME NEW r, r = [conn[c] EXCEPT !.status = "pending", !.svc = s, !.kind = k, !.replaces = b]
          PROVE  r.reason = conn[c].reason
        BY <1>1, <2>3 DEF Rows
    <2> QED BY <1>3, <2>1, <2>2, <2>3
<1> QED BY <1>2, <1>5, <1>6, <1>7, <1>8, <1>9, <1>10, <1>11

(* An ended connection keeps its end and its reason; a completed handshake *)
(* is never undone as an uncompleted one (DeleteFailed, pending_expired);  *)
(* and only a connection unused at that moment ends as idle (endIfIdle).   *)
THEOREM AssistantStepsHold == Spec => AssistantSteps
<1>1. AssistantsInv /\ [Next]_vars => [EndStands /\ HandshakeStands /\ IdleOnlyUnused]_vars
    <2> SUFFICES ASSUME AssistantsInv, Next
                 PROVE  \A d \in Conns : RowSteps(d)
        BY RowStepsSuffice
    <2>1. CASE UNCHANGED conn
        BY <2>1 DEF RowSteps
    <2>2. ASSUME NEW t \in Tasks, Step(t) PROVE \A d \in Conns : RowSteps(d)
        BY <2>1, <2>2, EndsHaveReason, OthersHaveNone DEF Step, RelayBundle, ReadReconnect, RelayRenewal,
           DiscardService
    <2>3. ASSUME NEW c \in Conns,
                 \/ Reseal(c) \/ ReaderForgets(c) \/ RevokeByID(c) \/ Use(c)
                 \/ ResendRevocation(c) \/ PendingAges(c) \/ LifetimeEnds(c) \/ IdleTime(c)
          PROVE  \A d \in Conns : RowSteps(d)
        BY <2>1, <2>3, EndsHaveReason, OthersHaveNone, MarksHaveNone DEF ReaderForgets
    <2>4. ASSUME NEW s \in Services,
                 MakeService(s) \/ ServiceGone(s) \/ RevokeKey(s) \/ ExpireService(s) \/ ProvisionEnds(s)
          PROVE  \A d \in Conns : RowSteps(d)
        BY <2>1, <2>4, EndsHaveReason DEF MakeService, RevokeKey, ExpireService, ProvisionEnds
    <2>5. ASSUME NEW t \in Tasks, NEW c \in Conns,
                 \/ Activate(t, c) \/ BudgetHit(t, c) \/ AskStatus(t, c)
                 \/ Remove(t, c) \/ RevokeByLink(t, c) \/ ListDue(t, c)
                 \/ \E s \in Services : StartRenewal(t, c, s)
          PROVE  \A d \in Conns : RowSteps(d)
        BY <2>1, <2>5, EndsHaveReason, OthersHaveNone DEF BudgetHit, AskStatus, ListDue, StartRenewal
    <2> QED BY <2>1, <2>2, <2>3, <2>4, <2>5, EndsHaveReason, OthersHaveNone DEF Next, Stop, ReaderRestarts, Switch
<1> QED BY <1>1, AssistantsInvariant, PTL DEF Spec, AssistantSteps
=============================================================================
