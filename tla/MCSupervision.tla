---------------------------- MODULE MCSupervision ----------------------------
(* Supervision for TLC.  What must never happen is checked where two things
   do: requests, or what goes wrong.  What must come about is checked in calm
   behaviours: one request, one exit, and nothing else goes wrong. *)
EXTENDS Supervision

VARIABLE calm

Quiet == INSTANCE Supervision WITH
           MaxRequests <- 1, MaxExits <- 1, MaxFaults <- 0, MaxUnlinks <- 0,
           MaxDenials <- 0, MaxDrops <- 0, MaxLost <- 0

TwoThings ==
    used.requests + used.exits + used.faults + used.unlinks + used.denials
      + used.drops + used.lost <= 2

MCInit == Init /\ calm \in BOOLEAN

MCNext == \/ calm /\ Quiet!Next /\ UNCHANGED calm
          \/ ~calm /\ Next /\ TwoThings' /\ UNCHANGED calm

(* Quiet!Fairness, asked of calm behaviours. *)
MCFairness ==
    /\ \A x \in Tasks : /\ WF_vars(calm /\ Quiet!Step(x))
                        /\ SF_vars(calm /\ Quiet!TickClaim(x))
    /\ \A c \in Clients : WF_vars(calm /\ Quiet!LoggedOut(c))

MCSpec == MCInit /\ [][MCNext]_<<vars, calm>> /\ MCFairness

(* SomeoneHolds and PausedLetsGo of Supervision, in a calm behaviour: a
   number that should be held ends up registered under the lock in a process
   that runs, and a paused one is let go of wherever it is held. *)
CalmSomeoneHolds == calm => SomeoneHolds
CalmPausedLetsGo == calm => PausedLetsGo
=============================================================================
