----------------------------- MODULE NumberLife -----------------------------
(***************************************************************************)
(* What deleting a number promises its owner, whatever processes, logouts, *)
(* crashes and purges do meanwhile: a deleted number keeps its whole       *)
(* archive for as long as it can be recovered, a recovery brings back a    *)
(* number nobody has begun to purge, a purge once begun is never undone    *)
(* and ends, and a number is gone only when its archive is.                *)
(***************************************************************************)
EXTENDS Naturals

CONSTANT Batches   \* how many batches a purge takes to empty the archive

VARIABLES life,    \* "live", "excluded", "purging" or "gone"
          due,     \* the 30 days of an excluded number are over
          archive  \* batches of the number's rows that are left

lifeVars == <<life, due, archive>>

Init == life = "live" /\ due = FALSE /\ archive = Batches

Delete == life = "live" /\ life' = "excluded" /\ UNCHANGED <<due, archive>>

Recover == /\ life = "excluded" /\ ~due
           /\ life' = "live"
           /\ UNCHANGED <<due, archive>>

Expire == life \in {"excluded", "purging"} /\ due' = TRUE /\ UNCHANGED <<life, archive>>

(* An operator may begin before the date; the number is due from then on. *)
BeginPurge == /\ life = "excluded"
              /\ life' = "purging" /\ due' = TRUE
              /\ UNCHANGED archive

DropBatch == /\ life = "purging" /\ archive > 0
             /\ archive' = archive - 1
             /\ UNCHANGED <<life, due>>

EndPurge == /\ life = "purging" /\ archive = 0
            /\ life' = "gone"
            /\ UNCHANGED <<due, archive>>

Next == Delete \/ Recover \/ Expire \/ BeginPurge \/ DropBatch \/ EndPurge

Spec == Init /\ [][Next]_lifeVars
             /\ WF_lifeVars(due /\ (BeginPurge \/ DropBatch \/ EndPurge))
=============================================================================
