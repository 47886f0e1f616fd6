----------------------------- MODULE MCOutbound -----------------------------
(* Outbound for TLC; and Calls, the calls of one number, in behaviours of    *)
(* their own: the two share the number and no state.                         *)
EXTENDS Outbound, TLC, FiniteSetsExt

CONSTANTS Calls, Owners, Peers, None, Limit, MaxDevices, MaxRosters, MaxOdd

VARIABLES part, attached, active, owner, rec, ticket, bridge, roster, streams,
          op, ending, signal, native, step

cvars == <<attached, active, owner, rec, ticket, bridge, roster, streams,
           op, ending, signal, native, step>>

C == INSTANCE Calls WITH task <- step

ASSUME CallsAssumption == C!CallBounds

(* References and calls, and connections and sessions, trade places          *)
(* together: a behaviour knows one of the two.                               *)
Swap(S) == {p \in Permutations(S) : \A x \in S : p[x] # x}
Twins(S, T) == {p @@ q : p \in Swap(S), q \in Swap(T)}
Symmetry == Permutations(Tasks) \union Permutations(Peers)
              \union Twins(Refs, Calls) \union Twins(Conns, Owners)

(* What happens to the requests in one behaviour: a fault, a withdrawal, a  *)
(* pause, an end, a change of key, or a refusal in the ledger.              *)
Happened ==
    faults + (IF permitted THEN 0 ELSE 1) + (IF allowed THEN 0 ELSE 1)
      + Cardinality({c \in Conns : conn[c].paused})
      + Cardinality({c \in Conns : conn[c].status # "active" \/ conn[c].key # 1})
      + Cardinality({r \in Rows : row[r].status = "refused"})

Busy == Cardinality({t \in Tasks : ~ At(t, "idle")})

(* What is out of the ordinary at once in Calls, a call counting twice and   *)
(* an open media socket not at all.                                          *)
One(b) == IF b THEN 1 ELSE 0
Odd ==
    MapThenSumSet(LAMBDA r :
        2 * One(rec[r].st # "none") + One(r \in ending) + One(ticket[r] # None)
          + One(bridge[r].used /\ ~bridge[r].capable) + One(bridge[r].mic)
          + One(native[r].phase = "over" /\ rec[r].st # "ended")
          + One(\E q \in Peers : roster[r][q].clock # "unset")
          + One(\E q \in Peers : roster[r][q].clock = "past")
          + IF rec[r].st # "ended" THEN 0
            ELSE 2 * One(rec[r].group)
                   + One(~bridge[r].closed \/ signal[r] # "none"
                           \/ native[r].phase \notin {"over", "none"}), Calls)
      + Cardinality({t \in Tasks : step[t].op \notin {"idle", "stream"}})
      + Cardinality({o \in Owners : owner[o] # "new"}) + One(attached = 0)

(* In Outbound one of them beside one request, or two requests without.     *)
Few == IF part = "calls" THEN Odd <= MaxOdd ELSE Happened <= 1 /\ Happened + Busy <= 2

MCInit == Init /\ C!Init /\ part \in {"outbound", "calls"}

MCNext == \/ part = "outbound" /\ Next /\ UNCHANGED <<part, cvars>>
          \/ part = "calls" /\ C!Next /\ UNCHANGED <<part, vars>>

MCSpec == MCInit /\ [][MCNext]_<<part, vars, cvars>>

(* A call has one device, one living owner and one microphone; whatever ends *)
(* it, it ends for the peer too; and a group keeps to its limit.             *)
CallsSafe == C!CallsSafe

(* What ended stays so and is answered no more, the owner stands, and        *)
(* rosters are taken in their order.                                         *)
CallSteps == [][C!EndedForGood /\ C!OwnerStands /\ C!RostersInOrder]_cvars
=============================================================================
