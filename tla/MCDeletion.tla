----------------------------- MODULE MCDeletion -----------------------------
(* Deletion, and the ledger its events end in, each in behaviours of its    *)
(* own: a replay of the ledger runs before the server that deletes starts,  *)
(* and what an export writes is committed by then.                          *)
EXTENDS Deletion

CONSTANTS Numbers, Skips, Window, EventAge, BackupAge, LedgerKeep,
          MaxEvents, MaxTurns, MaxRestores

VARIABLES part, clock, rows, events, file, snap, mode, told, must, spent

lvars == <<clock, rows, events, file, snap, mode, told, must, spent>>

L == INSTANCE Ledger WITH used <- spent

ASSUME LedgerAssumption == L!LedgerBounds

(* Three events of one number meet a skip of the clock or a cut export; of  *)
(* two numbers, two.                                                        *)
FewTurns == spent.born = Numbers /\ spent.turns > 0 => spent.events <= 2

MCInit == Init /\ L!Init /\ part \in {"deletion", "ledger"}

MCNext == \/ part = "deletion" /\ Next /\ UNCHANGED <<part, lvars>>
          \/ part = "ledger" /\ L!Next /\ FewTurns' /\ UNCHANGED <<part, vars>>

MCSpec == MCInit /\ [][MCNext]_<<part, vars, lvars>> /\ Fairness

(* The ledger holds what a restore needs, and a replay of it brings the
   database level (ledger.go, maintain.go's restore). *)
LedgerSafe == L!LedgerSafe

(* A replay that finished changes nothing when it is run again. *)
ReplayRepeats == [][mode = "level" /\ rows' # rows => ~L!Replay]_lvars
=============================================================================
