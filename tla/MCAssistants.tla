---------------------------- MODULE MCAssistants ----------------------------
(* Assistants on a small instance; and Readers, what an archive read says   *)
(* of a message, over short threads and few receipts.  They share no state: *)
(* a behaviour exercises one and the other stays as it began.               *)
EXTENDS Assistants, Sequences, TLC

VARIABLES part, group, rows, receipts

rvars == <<group, rows, receipts>>

Both == {"lid", "pn"}
By(who, halves, dev) == [who |-> who, halves |-> halves, dev |-> dev]
MCSenders == {By("us", {}, 0), By("x", Both, 0), By("x", {"lid"}, 1), By("y", {"pn"}, 0)}
MCWire ==
    {[type |-> t, by |-> By("x", Both, 0)] : t \in {"delivered", "read"}}
    \union {[type |-> t, by |-> By("x", {"pn"}, 0)] : t \in {"inactive", "read"}}
    \union {[type |-> t, by |-> By("y", {"lid"}, 0)] : t \in {"read", "retry"}}
    \union {[type |-> t, by |-> By("us", Both, 0)] : t \in {"readself", "histsync"}}
    \union {[type |-> "read", by |-> By("x", {"lid"}, 1)]}

R == INSTANCE Readers WITH Ids <- 1..3, Us <- "us", Senders <- MCSenders, Wire <- MCWire,
                           MaxTime <- 2, MaxThreadHops <- 2, MaxRows <- 3, MaxReceipts <- 3

(* Ids are numbered as their rows come.  A thread has up to three rows, or  *)
(* a message, edited or not, has receipts.                                  *)
ShortThread ==
    /\ \A i \in DOMAIN rows :
         /\ rows[i].id = i
         /\ rows[i].kind = "edit" => rows[i].by = By("x", Both, 0)
         /\ rows[i].kind = "reaction" => rows[i].by.who = "x"
    /\ receipts # {} =>
         /\ group /\ Len(rows) \in {1, 2}
         /\ \A i \in DOMAIN rows :
              rows[i].kind = <<"message", "edit">>[i] /\ rows[i].by = By("x", Both, 0)
         /\ \A r \in receipts : r.id # 3

MCInit ==
    /\ Init /\ R!Init
    /\ part \in {"assistants", "readers"} /\ (part = "assistants" => group)
MCNext ==
    \/ part = "assistants" /\ Next /\ UNCHANGED <<part, rvars>>
    \/ part = "readers" /\ R!Next /\ ShortThread' /\ UNCHANGED <<part, vars>>
MCSpec == MCInit /\ [][MCNext]_<<part, vars, rvars>>

(* What a chat says of a message -- its thread, who deleted it, who read    *)
(* which version, a page's ticks -- is true of its rows and receipts.       *)
ReadersSafe == part = "readers" => R!ReadersSafe

Symmetry == Permutations(Tasks) \union Permutations(Services)

(* What time, people and faults did so far.                                 *)
Happened ==
    troubles + (IF person THEN 0 ELSE 1)
    + Cardinality({c \in Conns : conn[c].past})
    + Cardinality({c \in Conns : conn[c].stale})
    + Cardinality({c \in Conns : conn[c].unused})
    + Cardinality({s \in Services : svc[s].due /\ svc[s].state # "bound"})
    + Cardinality({s \in Services : ~ svc[s].key /\ svc[s].state \in {"provisional", "bound"}})

(* With one connection two of them and two tasks; with two connections, of  *)
(* which the second is an assistant's, two tasks or one of them and a task. *)
(* One account at a time waits for its connection.                          *)
Few ==
    /\ Happened <= 2
    /\ conn[2].status # "none" =>
        conn[2].kind # "ai" /\ Happened + Cardinality({t \in Tasks : ~ Free(t)}) <= 2
    /\ Cardinality({s \in Services : svc[s].state = "provisional"}) <= 1
=============================================================================
