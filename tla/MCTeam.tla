------------------------------- MODULE MCTeam -------------------------------
(* Team for TLC: one workspace with two people and a service account; AI with
   the same two; and the snapshots that tell the platform who they are.  Each
   in behaviours of its own: they share the people, whose changes a snapshot
   counts, and the workspace's row lock, and no other state. *)
EXTENDS Team, TLC, FiniteSetsExt

CONSTANTS Tasks, Keys, Numbers, Messages, Features, Providers, Once, None,
          MaxAuths, MaxKeys, MaxUses, MaxTroubles, MaxOdd,
          Leaders, MaxContent, MaxSeq, MaxFaults, MaxTurns

VARIABLES part, person, allowed, off, prepared, key, auth, place, derived,
          usage, task, troubles, emptied,
          content, due, holder, sender, told, asked, cut, faults, turns

avars == <<person, allowed, off, prepared, key, auth, place, derived, usage, task,
           troubles, emptied>>

svars == <<content, due, holder, sender, told, asked, cut, faults, turns>>

(* One function of one provider on every number, by either key, for its
   creator's console or for every reader. *)
MCConfigs ==
    {[on |-> Numbers, fn |-> [f \in Features |-> p], keys |-> [q \in Providers |-> k],
      who |-> [n \in Numbers |-> [f \in Features |-> w]]] :
       p \in Providers, k \in Keys, w \in {"readers", "console"}}
Mine == {c \in MCConfigs : \E n \in Numbers, f \in Features : c.who[n][f] = "console"}
MCNumberOf == [m \in Messages |-> CHOOSE n \in Numbers : TRUE]
MCFits == [m \in Messages |-> Features]

A == INSTANCE AI WITH NumberOf <- MCNumberOf, Fits <- MCFits, Configs <- MCConfigs,
                      number <- place
S == INSTANCE Snapshots

ASSUME AIAssumption == A!AIBounds

Symmetry == Permutations(Tasks) \cup Permutations(Keys) \cup Permutations(Leaders)

(* What happens in one behaviour; an invitation counts twice unless it can
   bring a removed account back. *)
One(b) == IF b THEN 1 ELSE 0
Happened ==
    MapThenSumSet(LAMBDA a : member[a].version + removals[a], Accounts)
      + made + One(deleted) + One(adding # Nobody) + 2 * Cardinality(suspended)
      + (IF deleted THEN 1 ELSE 2) * One(recorded)
      + Cardinality(invites) * (IF \E a \in Accounts : removals[a] > 0 THEN 1 ELSE 2)

(* What is out of the ordinary at once in AI, each request under way being
   one such thing. *)
Odd ==
    MapThenSumSet(LAMBDA u : One(person[u].role # "manager") + One(~person[u].reads)
                               + One(u \in prepared), People)
      + MapThenSumSet(LAMBDA a : One(auth[a].past) + One(auth[a].paused) + One(auth[a].alert)
                                   + Cardinality(auth[a].off)
                                   + One(auth[a].st # "none" /\ auth[a].cfg \in Mine)
                                   + One(auth[a].st \in {"reseal", "ended"})
                                   + MapThenSumSet(LAMBDA k : usage[a][k], Keys), 1..MaxAuths)
      + MapThenSumSet(LAMBDA k : One(key[k].st \in {"deleted", "settled"}), Keys)
      + Cardinality({t \in Tasks : task[t].op # "idle"})
      + Cardinality({n \in Numbers : place[n] # "here"})
      + Cardinality({m \in Messages : \E f \in Features : derived[m][f].n > 1})
      + One(~allowed) + Cardinality(off) + troubles
      + One(\E k, l \in Keys : key[k].by # key[l].by /\ None \notin {key[k].by, key[l].by})

(* Of the snapshots, two at once: a fault, a turn, a third send, a run of
   not_founds, a second process that sends, and a second that holds one. *)
Holding(l) == sender[l].phase \notin {"off", "start", "loop"}
Unusual ==
    faults + turns + One(due.since # "none") + One(due.seq = MaxSeq)
      + One(\A l \in Leaders : sender[l].phase # "off")
      + One(\A l \in Leaders : Holding(l))

Few == Happened <= 4 /\ Odd <= MaxOdd /\ Unusual <= 2

Alike == \A u \in People : person[u] = person[Founder]
OneMember == \A p \in People : member[p].role = (IF p = Founder THEN "owner" ELSE "member")

MCInit == /\ Init /\ A!Init /\ S!Init
          /\ person[Founder] = [role |-> "manager", reads |-> TRUE]
          /\ \/ part = "team" /\ Alike
             \/ part = "ai" /\ OneMember
             \/ part = "snapshots" /\ Alike /\ OneMember

MCNext == \/ part = "team" /\ Next /\ UNCHANGED <<part, avars, svars>>
          \/ part = "ai" /\ A!Next /\ UNCHANGED <<part, vars, svars>>
          \/ part = "snapshots" /\ S!Next /\ UNCHANGED <<part, vars, avars>>

MCSpec == MCInit /\ [][MCNext]_<<part, vars, avars, svars>>

(* A live authorization names its creator's own live keys, and no result or
   counter outlives what took it, through renewals, deletions and jobs; and a
   change a snapshot shows is owed to the platform until it is told, unless a
   process that lost the lock put it off, and no two snapshots share a seq. *)
AIAndSnapshotsSafe == A!AISafe /\ S!SnapshotsSafe

(* What ended stays so; a renewal changes keys alone; a deleted number's
   results are kept; only a redo replaces a result; and a snapshot that was
   asked for is put off only by one measured after, and parks stand. *)
AIAndSnapshotSteps ==
    [][/\ A!EndedStays /\ A!ConsentStands /\ A!KeptForRecovery /\ A!FirstStays
       /\ S!NeverPutOff /\ S!ParksStand]_<<avars, svars>>
=============================================================================
