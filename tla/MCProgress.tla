----------------------------- MODULE MCProgress -----------------------------
(* Stream for TLC's liveness run: two entries under one subscription, or one
   under two of them. *)
EXTENDS Stream

(* A second request was granted, or a second subscription made. *)
Twice == conn.made = 2 \/ (conn.made = 1 /\ h.step = "granted")

Duplicated == \E n \in DOMAIN rows : rows[n].cls = "none"

(* Only commits and requests are held back, and those are asked no fairness. *)
FewThings == Twice \/ Duplicated => Len(rows) <= 1

MCNext == Next /\ FewThings'

MCSpec == Init /\ [][MCNext]_vars /\ Fairness
=============================================================================
