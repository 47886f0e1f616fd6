----------------------------- MODULE Directory -----------------------------
(***************************************************************************)
(* The accounts that modules about one workspace speak of: persons, one of  *)
(* whom founded it, and one service account.                                *)
(***************************************************************************)
EXTENDS Naturals

CONSTANTS
    People,      \* accounts of persons
    Service,     \* the service account
    Founder,     \* the person who paired the number and owns the workspace
    Nobody       \* no account

Accounts == People \cup {Service}

ASSUME DirectoryAssumption ==
    /\ Founder \in People
    /\ Service \notin People
    /\ Nobody \notin Accounts
=============================================================================
