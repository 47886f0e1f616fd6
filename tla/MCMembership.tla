---------------------------- MODULE MCMembership ----------------------------
(* Membership and EventQueue for TLC, each in behaviours of its own: the two *)
(* share the leaders' lock in the code, which both models let be lost, and   *)
(* no other state.  Leaders and tasks are interchangeable.                   *)
EXTENDS Membership, TLC

CONSTANTS Subjects, Limit, Hour, MaxRows, MaxClock, MaxFaults, MaxTurns

VARIABLES part, rows, clock, aged, queue, flight, known, mailed, dropped,
          twice, outcast, faults, turns

evars == <<rows, clock, aged, queue, flight, known, mailed, dropped, twice,
           outcast, faults, turns>>

E == INSTANCE EventQueue

ASSUME QueueAssumption == E!QueueBounds

Symmetry == Permutations(Leaders) \cup Permutations(Tasks)

(* Of the feed: two tasks race, or one thing goes wrong beside one task. *)
Busy == Cardinality({t \in Tasks : task[t].pc # "idle"})
Troubles == spent.bad + spent.lost + spent.stops + platform.gen - 1

(* Of the queue: the clock starts with the first row.  One odd row; two
   leaders at it, three rows, or an aged row, with at most one more thing
   that is odd, which two leaders at two rows meet within the hour. *)
Sending == Cardinality({l \in Leaders : flight[l].phase # "idle"})
Odd == Cardinality({i \in E!Ids : rows[i].bad # "no" \/ rows[i].off})

FewEvents ==
    /\ rows = <<>> => clock = 0
    /\ Odd <= 1
    /\ Len(rows) = 3 => Sending <= 1 /\ Odd = 0 /\ aged = 0 /\ faults + turns = 0
    /\ faults + turns + Odd > 1 => Sending <= 1 /\ aged = 0
    /\ aged > 0 => Sending <= 1
    /\ Sending = 2 /\ Len(rows) > 1 => faults + turns = 0 \/ clock <= 1

Few == Troubles <= 1 /\ Troubles + Busy <= 2 /\ FewEvents

MCInit == /\ Init /\ E!Init
          /\ \/ part = "events"
             \/ part = "membership" /\ ~known

MCNext == \/ part = "membership" /\ Next /\ UNCHANGED <<part, evars>>
          \/ part = "events" /\ E!Next /\ UNCHANGED <<part, vars>>

MCSpec == MCInit /\ [][MCNext]_<<part, vars, evars>>

(* What is stored of the platform is vouched for, followed and recorded only
   as the platform has it; and nobody is left untold by a fold, no event is
   mailed twice, a pause goes once an hour, and a park for not_found lasts as
   long as its run. *)
ContractSafe == MembershipSafe /\ E!EventsSafe

(* No page, answer or late leader replaces a document by an older one of its
   generation; events are taken in order, and what is settled stays so. *)
ContractSteps == [][NeverBackwards /\ E!SettledStands /\ E!InOrder]_<<vars, evars>>
=============================================================================
