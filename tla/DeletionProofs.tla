--------------------------- MODULE DeletionProofs ---------------------------
(***************************************************************************)
(* For any number of processes, deletions, sessions and purge batches: a   *)
(* logout is only ever asked for the deletion it belongs to, no crash      *)
(* makes a logged-out number look resumable, a phone linked again is       *)
(* spared, a recorded outcome stands, and deleting a number implements     *)
(* NumberLife's safety.                                                    *)
(*                                                                         *)
(* The argument is the lock.  A running client holds it (Locks); a task    *)
(* that may still ask for a logout holds it itself, or through the client  *)
(* of its process, or has been cut off (Asked); and a recovery needs it    *)
(* free, so what such a task checked about the row stays true.             *)
(***************************************************************************)
EXTENDS Deletion, TLAPS

(* What the row says of its own life. *)
LifeInv ==
    /\ row.started => row.due
    /\ row.exists /\ row.deletedAt = 0 => ~row.due /\ ~row.started

(* A number that no session is left of no longer looks open. *)
Settled == Excluded /\ row.left = NoReg => row.status # "open"

(* Sessions are numbered as they are linked; a phone linked again as       *)
(* another number has one that no deletion fingerprinted.                  *)
Numbered == row.left <= wa.last /\ wa.session <= wa.last
Relinked == wa.other => ~Live /\ (wa.session # NoReg => row.left # wa.session)

RowInv == LifeInv /\ RecoveredHonest /\ Settled /\ Numbered /\ Relinked

(* A running client holds the lock, and nothing else holds it for a client. *)
Locks == \A p \in Procs : client[p] # NoReg <=> lock = Running(p)

(* Whose steps are whose, and the deletion a task acts for. *)
Stamped(x) ==
    /\ task[x].step \in {"marked", "committed", "stop"} => x \in Deletes
    /\ task[x].step \in {"pause", "halt"} => x \in Moves
    /\ task[x].step \in {"retry", "confirm"} => x \in Passes
    /\ task[x].step \in {"committed", "retry", "confirm", "recheck", "logout", "record", "unrecorded"}
         => x \in Deletes \cup Passes /\ task[x].at # 0

(* A task that may still ask for a logout holds the lock, or its process's  *)
(* client does, or it was cut off.                                         *)
Asking(x) == At(x, "recheck") \/ At(x, "logout")
Asked(x) ==
    Asking(x) => \/ lock = x
                 \/ x \in Deletes /\ (task[x].reg = NoReg \/ client[x[1]] = task[x].reg)

(* A logout is asked for its own deletion (LogoutOnlyExcluded, of a task). *)
OfItsOwn(x) == At(x, "logout") /\ Connected(x) /\ row.exists => row.deletedAt = task[x].at

(* A pass's fingerprint is older than a phone linked again. *)
Older(x) ==
    x \in Passes => /\ task[x].reg <= wa.last
                    /\ wa.other /\ wa.session # NoReg => task[x].reg # wa.session

(* A purge that found no batch left has left none. *)
Emptied(x) == At(x, "end") => archive = 0

Own(x) == Stamped(x) /\ Asked(x) /\ OfItsOwn(x) /\ Older(x) /\ Emptied(x)

(* What a purge released is part of what the number had. *)
Typed == TypeOK /\ archive + orphans <= Batches

Inv == Typed /\ RowInv /\ Locks /\ \A x \in Tasks : Own(x)

-----------------------------------------------------------------------------
(* Names of tasks and of clients. *)
LEMMA TaskNames ==
    \A x \in Tasks : x[1] \in Procs /\ x[2] \in {"delete", "janitor", "operator", "move"}
                     /\ x = <<x[1], x[2]>>
  BY DeletionAssumption DEF Tasks, Deletes, Passes, Purges, Moves

LEMMA ClientNames ==
    /\ \A x \in Tasks : \A p : Running(p) # x
    /\ \A p : Running(p) # NoOne
    /\ \A p, q : Running(p) = Running(q) => p = q
<1>1. \A x \in Tasks : \A p : Running(p) # x
  BY TaskNames DEF Running
<1>2. \A p : Running(p) # NoOne
  BY DEF Running, NoOne
<1>3. \A p, q : Running(p) = Running(q) => p = q
  BY DEF Running
<1> QED  BY <1>1, <1>2, <1>3

LEMMA NoOneIsNoTask == \A x \in Tasks : x # NoOne
<1>1. NoOne[2] = "no one"
  BY DEF NoOne
<1>2. \A x \in Tasks : x[2] # "no one"
  BY TaskNames
<1> QED  BY <1>1, <1>2

LEMMA Kinds ==
    /\ Deletes \cap Passes = {} /\ Deletes \cap Purges = {} /\ Deletes \cap Moves = {}
    /\ Passes \cap Purges = {} /\ Passes \cap Moves = {} /\ Purges \cap Moves = {}
  BY DEF Deletes, Passes, Purges, Moves

LEMMA OneDeletion ==
    /\ \A x \in Deletes : x = <<x[1], "delete">>
    /\ \A x, y \in Deletes : x[1] = y[1] => x = y
    /\ \A x \in Tasks : x[2] = "delete" => x \in Deletes
<1>1. \A x \in Deletes : x = <<x[1], "delete">>
  BY DEF Deletes
<1>2. \A x, y \in Deletes : x[1] = y[1] => x = y
  BY <1>1
<1>3. \A x \in Tasks : x[2] = "delete" => x \in Deletes
  BY DEF Tasks, Deletes, Passes, Purges, Moves
<1> QED  BY <1>1, <1>2, <1>3

-----------------------------------------------------------------------------
(* A step of others leaves a task what it rests on. *)
Undisturbed(y) ==
    /\ Asking(y) => /\ lock' = y <=> lock = y
                    /\ y \in Deletes /\ lock # y =>
                          client'[y[1]] = client[y[1]] \/ task[y].reg = NoReg
    /\ At(y, "logout") /\ Connected(y) /\ row'.exists =>
          row.exists /\ row'.deletedAt = row.deletedAt
    /\ At(y, "end") /\ archive = 0 => archive' = 0
    /\ y \in Passes => /\ wa.last <= wa'.last
                       /\ wa'.other /\ wa'.session # NoReg => task[y].reg # wa'.session

LEMMA StaysOwn ==
    ASSUME Typed, Typed', NEW y \in Tasks, Own(y), task'[y] = task[y], Undisturbed(y)
    PROVE  Own(y)'
<1>1. Stamped(y)' /\ Emptied(y)'
  BY DEF Own, Stamped, Emptied, Undisturbed, At
<1>2. Asked(y)'
  BY DEF Own, Asked, Asking, Undisturbed, At
<1>3. OfItsOwn(y)'
  <2> SUFFICES ASSUME At(y, "logout"), Connected(y)', row'.exists
               PROVE  row'.deletedAt = task[y].at
    BY DEF OfItsOwn, At
  <2>1. Connected(y)
    BY DEF Own, Asked, Asking, Undisturbed, Connected, At
  <2> QED  BY <2>1 DEF Own, OfItsOwn, Undisturbed
<1>4. Older(y)'
  <2>1. y \in Passes => task[y].reg \in Nat /\ wa.last \in Nat /\ wa'.last \in Nat
    BY DEF Typed, TypeOK, TaskStates, Regs, NoReg
  <2> QED  BY <2>1 DEF Own, Older, Undisturbed
<1> QED  BY <1>1, <1>2, <1>3, <1>4 DEF Own

(* Each task is left as it is, or answers for itself. *)
LEMMA TaskParts ==
    ASSUME Inv, Typed',
           \A y \in Tasks : (task'[y] = task[y] /\ Undisturbed(y)) \/ Own(y)'
    PROVE  \A y \in Tasks : Own(y)'
  BY StaysOwn DEF Inv

-----------------------------------------------------------------------------
(* A row that changes mildly: it is neither deleted, recovered nor purged, *)
(* and a session left is forgotten only with a status that is not open.    *)
Mild ==
    /\ row'.exists = row.exists /\ row'.deletedAt = row.deletedAt
    /\ row'.due = row.due /\ row'.started = row.started
    /\ row'.left = row.left \/ (row'.left = NoReg /\ row'.status # "open")
    /\ row'.status = "open" => row.status = "open" \/ (Live /\ row'.home = "personal")
    /\ row'.home = "team" => row.home = "team"

LEMMA MildRow ==
    ASSUME Typed, RowInv, Mild, wa' = wa
    PROVE  RowInv'
<1>1. LifeInv' /\ RecoveredHonest' /\ Settled' /\ Relinked'
  BY DEF RowInv, Mild, LifeInv, RecoveredHonest, Settled, Relinked, Live, Excluded
<1>2. Numbered'
  BY DEF RowInv, Mild, Numbered, Typed, TypeOK, Regs, NoReg
<1> QED  BY <1>1, <1>2 DEF RowInv

LEMMA MildUndisturbed ==
    ASSUME Inv, Mild, wa' = wa, archive' = archive \/ archive' < archive, archive' \in 0 .. Batches,
           NEW y \in Tasks,
           Asking(y) => /\ lock' = y <=> lock = y
                        /\ y \in Deletes /\ lock # y =>
                              client'[y[1]] = client[y[1]] \/ task[y].reg = NoReg
    PROVE  Undisturbed(y)
<1>1. At(y, "end") /\ archive = 0 => archive' = 0
  BY DeletionAssumption DEF Inv, Typed, TypeOK
<1>2. y \in Passes => /\ wa.last <= wa'.last
                      /\ wa'.other /\ wa'.session # NoReg => task[y].reg # wa'.session
  BY DEF Inv, Own, Older, Typed, TypeOK, Regs
<1> QED  BY <1>1, <1>2 DEF Undisturbed, Mild

(* A task that goes on, and one that ends. *)
LEMMA GoesOn ==
    ASSUME Typed, NEW x \in Tasks, NEW step \in Steps, NEW reg \in Regs \cup {NoReg},
           NEW flag \in BOOLEAN, Goes(x, step, reg, flag)
    PROVE  /\ task' \in [Tasks -> TaskStates]
           /\ \A y \in Tasks \ {x} : task'[y] = task[y]
           /\ task'[x].step = step /\ task'[x].at = task[x].at
           /\ task'[x].reg = reg /\ task'[x].flag = flag
<1> DEFINE v == [step |-> step, at |-> task[x].at, reg |-> reg, flag |-> flag]
<1>1. v \in TaskStates
  BY DEF Typed, TypeOK, TaskStates
<1>2. task' = [task EXCEPT ![x] = v]
  BY DEF Goes
<1>3. v.step = step /\ v.at = task[x].at /\ v.reg = reg /\ v.flag = flag
  OBVIOUS
<1> HIDE DEF v
<1> QED  BY <1>1, <1>2, <1>3 DEF Typed, TypeOK

LEMMA GoesTo ==
    ASSUME Typed, NEW x \in Tasks, NEW step \in Steps, Goto(x, step)
    PROVE  /\ task' \in [Tasks -> TaskStates]
           /\ \A y \in Tasks \ {x} : task'[y] = task[y]
           /\ task'[x].step = step /\ task'[x].at = task[x].at
           /\ task'[x].reg = task[x].reg /\ task'[x].flag = task[x].flag
<1>1. task[x].reg \in Regs \cup {NoReg} /\ task[x].flag \in BOOLEAN
  BY DEF Typed, TypeOK, TaskStates
<1> QED  BY <1>1, GoesOn DEF Goto

LEMMA IsFinished ==
    ASSUME Typed, NEW x \in Tasks, Finish(x)
    PROVE  /\ task' \in [Tasks -> TaskStates]
           /\ \A y \in Tasks \ {x} : task'[y] = task[y]
           /\ task'[x] = Idle
<1>1. Idle \in TaskStates
  BY DEF Idle, TaskStates, Steps, NoReg
<1> QED  BY <1>1 DEF Typed, TypeOK, Finish

(* No session is linked, and the one there is may be gone. *)
NoneLinked ==
    /\ wa'.last = wa.last /\ wa'.other = wa.other
    /\ wa'.session = wa.session \/ wa'.session = NoReg

(* A task that asks for nothing answers for itself. *)
LEMMA CalmOwn ==
    ASSUME Typed, RowInv, wa' = wa \/ NoneLinked, NEW x \in Tasks,
           task'[x].step \notin {"recheck", "logout"}, Stamped(x)', Emptied(x)',
           \/ Own(x) /\ task'[x].reg = task[x].reg
           \/ task'[x].reg = NoReg
           \/ task'[x].reg = row.left
    PROVE  Own(x)'
<1>1. Older(x)'
  BY DEF NoneLinked, Older, Own, RowInv, Numbered, Relinked, Typed, TypeOK, Regs, NoReg
<1> QED  BY <1>1 DEF Own, Asked, Asking, OfItsOwn, At

LEMMA IdleOwn ==
    ASSUME Typed, RowInv, wa' = wa \/ NoneLinked, NEW x \in Tasks, task'[x] = Idle
    PROVE  Own(x)'
<1>1. task'[x].step = "idle" /\ task'[x].reg = NoReg
  BY DEF Idle
<1>2. Stamped(x)' /\ Emptied(x)'
  BY <1>1 DEF Stamped, Emptied, At
<1> QED  BY <1>1, <1>2, CalmOwn

(* A task's step that asks for no logout, on a row that changes mildly. *)
LEMMA Calm ==
    ASSUME Inv, Typed', Mild, wa' = wa, client' = client,
           archive' = archive \/ archive' < archive,
           NEW x \in Tasks, \A y \in Tasks \ {x} : task'[y] = task[y], Own(x)',
           lock' = lock \/ (lock = x /\ lock' = NoOne) \/ (lock = NoOne /\ lock' = x)
    PROVE  Inv'
<1>1. RowInv'
  BY MildRow DEF Inv
<1>2. Locks'
  BY ClientNames DEF Inv, Locks
<1>3. \A y \in Tasks \ {x} : lock' = y <=> lock = y
  BY NoOneIsNoTask
<1>4. \A y \in Tasks \ {x} : Undisturbed(y)
  BY <1>3, MildUndisturbed DEF Typed, TypeOK
<1>5. \A y \in Tasks : Own(y)'
  BY <1>4, TaskParts
<1> QED  BY <1>1, <1>2, <1>5 DEF Inv

(* A step of nobody's task, on a row that changes mildly. *)
LEMMA Still ==
    ASSUME Inv, Typed', Mild, UNCHANGED <<wa, lock, client, task, archive>>
    PROVE  Inv'
<1>1. RowInv'
  BY MildRow DEF Inv
<1>2. Locks'
  BY DEF Inv, Locks
<1>3. \A y \in Tasks : Undisturbed(y)
  BY MildUndisturbed DEF Typed, TypeOK
<1>4. \A y \in Tasks : Own(y)'
  BY <1>3, TaskParts
<1> QED  BY <1>1, <1>2, <1>4 DEF Inv

LEMMA SameRow == row' = row => Mild
  BY DEF Mild

LEMMA TroubleTyped ==
    Typed /\ Trouble => used' \in [deletes : 0 .. MaxDeletes, troubles : 0 .. MaxTroubles]
  BY DeletionAssumption DEF Typed, TypeOK, Trouble

-----------------------------------------------------------------------------
(* Supervision, the phone and the person's own requests. *)
LEMMA ClaimKeeps ==
    ASSUME Inv, NEW p \in Procs, Claim(p)
    PROVE  Inv'
<1>1. UNCHANGED <<row, wa, lock, client, task, archive>>
  BY DEF Claim
<1>2. Typed'
  BY DEF Claim, Inv, Typed, TypeOK
<1> QED  BY <1>1, <1>2, SameRow, Still

(* The client takes the lock, which was free, so no task rested on it. *)
LEMMA StartKeeps ==
    ASSUME Inv, NEW p \in Procs, Start(p)
    PROVE  Inv'
<1>0. UNCHANGED <<row, wa, task, archive, orphans, used>> /\ claimed' \subseteq Procs
  BY DEF Start, Inv, Typed, TypeOK
<1>1. CASE UNCHANGED <<lock, client>>
  <2>1. Typed'
    BY <1>0, <1>1 DEF Inv, Typed, TypeOK
  <2> QED  BY <1>0, <1>1, <2>1, SameRow, Still
<1>2. CASE /\ lock = NoOne /\ wa.session # NoReg
           /\ lock' = Running(p) /\ client' = [client EXCEPT ![p] = wa.session]
  <2>1. /\ client' \in [Procs -> Regs \cup {NoReg}] /\ client'[p] = wa.session
        /\ \A q \in Procs : q # p => client'[q] = client[q]
    BY <1>2 DEF Inv, Typed, TypeOK
  <2>2. Typed'
    BY <1>0, <1>2, <2>1 DEF Inv, Typed, TypeOK
  <2>3. \A q \in Procs : client[q] = NoReg
    BY <1>2, ClientNames DEF Inv, Locks
  <2>4. Locks'
    BY <1>2, <2>1, <2>3, ClientNames DEF Locks
  <2>5. \A y \in Tasks : lock # y /\ lock' # y
    BY <1>2, ClientNames, NoOneIsNoTask
  <2>6. \A y \in Tasks : Asking(y) => task[y].reg = NoReg
    BY <2>3, <2>5, TaskNames DEF Inv, Own, Asked
  <2>7. Mild
    BY <1>0, SameRow
  <2>8. \A y \in Tasks : Undisturbed(y)
    BY <1>0, <2>5, <2>6, <2>7, MildUndisturbed DEF Inv, Typed, TypeOK
  <2>9. \A y \in Tasks : Own(y)'
    BY <1>0, <2>2, <2>8, TaskParts
  <2>10. RowInv'
    BY <1>0, <2>7, MildRow DEF Inv
  <2> QED  BY <2>2, <2>4, <2>9, <2>10 DEF Inv
<1> QED  BY <1>1, <1>2 DEF Start

(* The client leaves and frees the lock: no deletion was logging it out. *)
LEMMA ReleaseKeeps ==
    ASSUME Inv, NEW p \in Procs, Release(p)
    PROVE  Inv'
<1>0. UNCHANGED <<row, wa, task, archive, orphans, used, claimed>> /\ lock' = NoOne
      /\ client' = [client EXCEPT ![p] = NoReg] /\ client[p] # NoReg /\ ~Unlinking(p)
  BY DEF Release
<1>1. /\ client' \in [Procs -> Regs \cup {NoReg}] /\ client'[p] = NoReg
      /\ \A q \in Procs : q # p => client'[q] = client[q]
  BY <1>0 DEF Inv, Typed, TypeOK
<1>2. Typed'
  BY <1>0, <1>1 DEF Inv, Typed, TypeOK
<1>3. lock = Running(p)
  BY <1>0 DEF Inv, Locks
<1>4. Locks'
  BY <1>0, <1>1, <1>3, ClientNames DEF Inv, Locks
<1>5. \A y \in Tasks : lock # y /\ lock' # y
  BY <1>0, <1>3, ClientNames, NoOneIsNoTask
<1>6. \A y \in Deletes : Asking(y) => y[1] # p
  BY <1>0, OneDeletion DEF Unlinking, Asking, At, Tasks
<1>7. Mild
  BY <1>0, SameRow
<1>8. \A y \in Tasks : Undisturbed(y)
  BY <1>0, <1>1, <1>5, <1>6, <1>7, TaskNames, MildUndisturbed DEF Inv, Typed, TypeOK
<1>9. \A y \in Tasks : Own(y)'
  BY <1>0, <1>2, <1>8, TaskParts
<1>10. RowInv'
  BY <1>0, <1>7, MildRow DEF Inv
<1> QED  BY <1>2, <1>4, <1>9, <1>10 DEF Inv

LEMMA LoggedOutKeeps ==
    ASSUME Inv, NEW p \in Procs, LoggedOut(p)
    PROVE  Inv'
<1>0. UNCHANGED <<lock, client, claimed, task, archive, orphans, used>>
  BY DEF LoggedOut
<1>1. /\ wa'.session = NoReg /\ wa'.endedBy = "whatsapp" /\ wa'.last = wa.last
      /\ wa'.other = wa.other
      /\ wa' \in [session : Regs \cup {NoReg}, phone : Regs \cup {NoReg}, last : Regs, other : BOOLEAN,
                  endedBy : {"none", "whatsapp", "deletion", "janitor", "purge"}]
  BY DEF LoggedOut, Inv, Typed, TypeOK, NoReg
<1>2. /\ row' \in Rows /\ row'.exists = row.exists /\ row'.deletedAt = row.deletedAt
      /\ row'.due = row.due /\ row'.started = row.started /\ row'.left = row.left
      /\ row'.status # row.status => Live
  <2>1. CASE row' = row
    BY <2>1 DEF Inv, Typed, TypeOK
  <2>2. CASE Live /\ row' = [row EXCEPT !.status = "logged_out"]
    BY <2>2 DEF Inv, Typed, TypeOK, Rows
  <2> QED  BY <2>1, <2>2 DEF LoggedOut
<1>3. Typed'
  BY <1>0, <1>1, <1>2 DEF Inv, Typed, TypeOK
<1>4. RowInv'
  <2>1. LifeInv' /\ RecoveredHonest' /\ Settled' /\ Relinked'
    BY <1>1, <1>2 DEF Inv, RowInv, LifeInv, RecoveredHonest, Settled, Relinked, Live, Excluded
  <2>2. Numbered'
    BY <1>1, <1>2 DEF Inv, RowInv, Numbered, Typed, TypeOK, Regs, NoReg
  <2> QED  BY <2>1, <2>2 DEF RowInv
<1>5. Locks'
  BY <1>0 DEF Inv, Locks
<1>6. \A y \in Tasks : Undisturbed(y)
  BY <1>0, <1>1, <1>2 DEF Undisturbed, Inv, Typed, TypeOK, Regs
<1>7. \A y \in Tasks : Own(y)'
  BY <1>0, <1>3, <1>6, TaskParts
<1> QED  BY <1>3, <1>4, <1>5, <1>7 DEF Inv

LEMMA BannedKeeps ==
    ASSUME Inv, NEW p \in Procs, Banned(p)
    PROVE  Inv'
<1>1. UNCHANGED <<wa, lock, client, claimed, task, archive, orphans>> /\ Trouble
  BY DEF Banned
<1>2. row' \in Rows /\ Mild
  BY DEF Banned, Mild, Inv, Typed, TypeOK, Rows
<1>3. Typed'
  BY <1>1, <1>2, TroubleTyped DEF Inv, Typed, TypeOK
<1> QED  BY <1>1, <1>2, <1>3, Still

WaStates == [session : Regs \cup {NoReg}, phone : Regs \cup {NoReg}, last : Regs, other : BOOLEAN,
             endedBy : {"none", "whatsapp", "deletion", "janitor", "purge"}]

LEMMA PhoneUnlinksKeeps ==
    ASSUME Inv, PhoneUnlinks
    PROVE  Inv'
<1>0. UNCHANGED <<row, lock, client, claimed, task, archive, orphans>> /\ Trouble
  BY DEF PhoneUnlinks
<1>1. wa' \in WaStates /\ wa'.session = wa.session /\ wa'.last = wa.last /\ wa'.other = wa.other
      /\ wa'.endedBy = wa.endedBy
  BY DEF PhoneUnlinks, Inv, Typed, TypeOK, WaStates
<1>2. Typed'
  BY <1>0, <1>1, TroubleTyped DEF Inv, Typed, TypeOK, WaStates
<1>3. RowInv'
  BY <1>0, <1>1 DEF Inv, RowInv, LifeInv, RecoveredHonest, Settled, Numbered, Relinked, Live, Excluded
<1>4. Locks'
  BY <1>0 DEF Inv, Locks
<1>5. \A y \in Tasks : Undisturbed(y)
  BY <1>0, <1>1 DEF Undisturbed, Inv, Own, Older, Typed, TypeOK, Regs
<1>6. \A y \in Tasks : Own(y)'
  BY <1>0, <1>2, <1>5, TaskParts
<1> QED  BY <1>2, <1>3, <1>4, <1>6 DEF Inv

(* A session newer than every fingerprint. *)
LEMMA LinkKeeps ==
    ASSUME Inv, Link
    PROVE  Inv'
<1>0. UNCHANGED <<lock, client, claimed, task, archive, orphans, used>>
  BY DEF Link
<1>1. wa.last \in Nat /\ wa.last + 1 \in Regs /\ wa.last + 1 # NoReg
  BY DeletionAssumption DEF Link, Inv, Typed, TypeOK, Regs, NoReg
<1>2. /\ wa' \in WaStates /\ wa'.session = wa.last + 1 /\ wa'.last = wa.last + 1
      /\ row' \in Rows /\ row'.exists = row.exists /\ row'.deletedAt = row.deletedAt
      /\ row'.due = row.due /\ row'.started = row.started /\ row'.left = row.left
      /\ \/ Live /\ wa'.other = wa.other
         \/ Excluded /\ row' = row
  <2>1. CASE /\ Live
             /\ row' = [row EXCEPT !.status = "open", !.reason = ""]
             /\ wa' = [wa EXCEPT !.session = wa.last + 1, !.phone = wa.last + 1, !.last = @ + 1]
    BY <1>1, <2>1 DEF Inv, Typed, TypeOK, WaStates, Rows
  <2>2. CASE /\ Excluded /\ row' = row
             /\ wa' = [wa EXCEPT !.session = wa.last + 1, !.phone = wa.last + 1, !.last = @ + 1, !.other = TRUE]
    BY <1>1, <2>2 DEF Inv, Typed, TypeOK, WaStates
  <2> QED  BY <2>1, <2>2 DEF Link
<1>3. Typed'
  BY <1>0, <1>2 DEF Inv, Typed, TypeOK, WaStates
<1>4. wa.other => ~Live
  BY DEF Inv, RowInv, Relinked
<1>5. RowInv'
  <2>1. LifeInv' /\ RecoveredHonest' /\ Settled'
    BY <1>1, <1>2 DEF Inv, RowInv, LifeInv, RecoveredHonest, Settled, Live, Excluded
  <2>2. row.left \in Nat /\ row.left <= wa.last
    <3>1. row.left \in Regs \cup {NoReg}
      BY DEF Inv, Typed, TypeOK, Rows
    <3> QED  BY <3>1 DEF Inv, RowInv, Numbered, Regs, NoReg
  <2>3. Numbered' /\ Relinked'
    BY <1>1, <1>2, <1>4, <2>2 DEF Numbered, Relinked, Live, Excluded
  <2> QED  BY <2>1, <2>3 DEF RowInv
<1>6. Locks'
  BY <1>0 DEF Inv, Locks
<1>7. \A y \in Tasks : Undisturbed(y)
  <2>1. \A y \in Passes : task[y].reg \in Nat /\ task[y].reg <= wa.last
    BY DEF Inv, Own, Older, Typed, TypeOK, TaskStates, Regs, NoReg, Tasks
  <2> QED  BY <1>0, <1>1, <1>2, <2>1 DEF Undisturbed
<1>8. \A y \in Tasks : Own(y)'
  BY <1>0, <1>3, <1>7, TaskParts
<1> QED  BY <1>3, <1>5, <1>6, <1>8 DEF Inv

LEMMA PauseKeeps ==
    ASSUME Inv, Pause
    PROVE  Inv'
<1>1. UNCHANGED <<wa, lock, client, claimed, task, archive, orphans>> /\ Trouble
  BY DEF Pause
<1>2. row' \in Rows
  <2>1. row \in Rows
    BY DEF Inv, Typed, TypeOK
  <2>2. row.seq + 1 \in Nat
    <3>1. row.seq \in Nat
      BY <2>1 DEF Rows
    <3> QED  BY <3>1
  <2>3. row' = [row EXCEPT !.paused = TRUE, !.cause = "person", !.seq = row.seq + 1]
    BY <2>1 DEF Pause, Rows
  <2> QED  BY <2>1, <2>2, <2>3 DEF Rows
<1>3. Mild
  BY DEF Pause, Mild, Inv, Typed, TypeOK, Rows
<1>4. Typed'
  BY <1>1, <1>2, TroubleTyped DEF Inv, Typed, TypeOK
<1> QED  BY <1>1, <1>3, <1>4, Still

LEMMA ResumeKeeps ==
    ASSUME Inv, Resume
    PROVE  Inv'
<1>1. UNCHANGED <<wa, lock, client, claimed, task, archive, orphans, used>>
  BY DEF Resume
<1>2. row' \in Rows /\ Mild
  BY DEF Resume, Mild, Inv, Typed, TypeOK, Rows
<1>3. Typed'
  BY <1>1, <1>2 DEF Inv, Typed, TypeOK
<1> QED  BY <1>1, <1>2, <1>3, Still

-----------------------------------------------------------------------------
(* The row's own steps. *)

(* A row deleted, recovered or ended: no logout that holds a connection is *)
(* under way.                                                              *)
LEMMA RowStep ==
    ASSUME Inv, Typed', RowInv', UNCHANGED <<wa, client, lock, archive>>,
           \A y \in Tasks : task'[y] = task[y] \/ Own(y)',
           \A y \in Tasks : At(y, "logout") /\ Connected(y) /\ row'.exists =>
              row.exists /\ row'.deletedAt = row.deletedAt
    PROVE  Inv'
<1>1. Locks'
  BY DEF Inv, Locks
<1>2. \A y \in Tasks : Undisturbed(y)
  BY DEF Undisturbed, Inv, Own, Older, Typed, TypeOK, Regs
<1>3. \A y \in Tasks : Own(y)'
  BY <1>2, TaskParts
<1> QED  BY <1>1, <1>3 DEF Inv

(* The row a recovery leaves: what was logged out is not open. *)
LEMMA RecoverKeeps ==
    ASSUME Inv, Recover
    PROVE  Inv'
<1>0. UNCHANGED <<wa, lock, client, claimed, task, archive, orphans, used>>
      /\ Excluded /\ ~row.started /\ ~row.due /\ lock = NoOne /\ ~wa.other
  BY DEF Recover
<1>1. /\ row' \in Rows /\ row'.exists = row.exists /\ row'.deletedAt = 0
      /\ row'.due = row.due /\ row'.started = row.started /\ row'.left = NoReg
      /\ row'.home = row.home
      /\ row'.status = "open" => row.status = "open" /\ ~(row.left # NoReg /\ wa.session # row.left)
  <2>1. row' = [row EXCEPT !.deletedAt = 0, !.left = NoReg, !.tries = 0, !.cause = "person",
                  !.status = IF row.left # NoReg /\ wa.session # row.left /\ row.status # "banned"
                             THEN "logged_out" ELSE row.status,
                  !.reason = IF row.left # NoReg /\ wa.session # row.left THEN "unlinked"
                             ELSE row.reason]
    BY DEF Recover, RecoveredRow, Inv, Typed, TypeOK, Rows
  <2>2. row \in Rows
    BY DEF Inv, Typed, TypeOK
  <2>3. 0 \in 0 .. MaxDeletes
    BY DeletionAssumption
  <2> QED  BY <2>1, <2>2, <2>3 DEF Rows
<1>2. Typed'
  BY <1>0, <1>1 DEF Inv, Typed, TypeOK
<1>3. RowInv'
  <2>1. LifeInv' /\ RecoveredHonest' /\ Settled' /\ Relinked'
    BY <1>0, <1>1 DEF Inv, RowInv, LifeInv, RecoveredHonest, Settled, Relinked, Live, Excluded
  <2>2. Numbered'
    BY <1>0, <1>1 DEF Inv, RowInv, Numbered, Typed, TypeOK, Regs, NoReg
  <2> QED  BY <2>1, <2>2 DEF RowInv
<1>4. \A y \in Tasks : ~Connected(y)
  BY <1>0, ClientNames, NoOneIsNoTask, TaskNames DEF Connected, Inv, Locks
<1> QED  BY <1>0, <1>2, <1>3, <1>4, RowStep

LEMMA ExpireKeeps ==
    ASSUME Inv, Expire
    PROVE  Inv'
<1>0. UNCHANGED <<wa, lock, client, claimed, task, archive, orphans, used>> /\ Excluded
  BY DEF Expire
<1>1. /\ row' \in Rows /\ row'.exists = row.exists /\ row'.deletedAt = row.deletedAt
      /\ row'.due = TRUE /\ row'.left = row.left /\ row'.status = row.status
  BY DEF Expire, Inv, Typed, TypeOK, Rows
<1>2. Typed'
  BY <1>0, <1>1 DEF Inv, Typed, TypeOK
<1>3. RowInv'
  BY <1>0, <1>1 DEF Inv, RowInv, LifeInv, RecoveredHonest, Settled, Numbered, Relinked, Live, Excluded
<1> QED  BY <1>0, <1>1, <1>2, <1>3, RowStep

-----------------------------------------------------------------------------
(* The deletion and its logout. *)
LEMMA DeleteBeginKeeps ==
    ASSUME Inv, NEW x \in Tasks, DeleteBegin(x)
    PROVE  Inv'
<1>0. UNCHANGED <<row, wa, lock, client, claimed, archive, orphans, used>>
      /\ x \in Deletes /\ Goto(x, "marked")
  BY DEF DeleteBegin
<1>1. /\ task' \in [Tasks -> TaskStates] /\ task'[x].step = "marked" /\ task'[x].reg = task[x].reg
      /\ \A y \in Tasks \ {x} : task'[y] = task[y]
  BY <1>0, GoesTo DEF Inv, Steps
<1>2. Typed'
  BY <1>0, <1>1 DEF Inv, Typed, TypeOK
<1>3. Own(x)'
  BY <1>0, <1>1, CalmOwn DEF Inv, Stamped, Emptied, At
<1> QED  BY <1>0, <1>1, <1>2, <1>3, SameRow, Calm

(* The deletion's commit: the number was live, so no logout of an earlier  *)
(* deletion has a connection left.                                         *)
LEMMA QuarantineKeeps ==
    ASSUME Inv, NEW x \in Tasks, Quarantine(x)
    PROVE  Inv'
<1>0. UNCHANGED <<wa, lock, client, claimed, archive, orphans>> /\ x \in Deletes
  BY DEF Quarantine, Inv, Own, Stamped, At
<1>1. CASE Finish(x) /\ UNCHANGED <<row, used>>
  <2>1. /\ task' \in [Tasks -> TaskStates] /\ task'[x] = Idle
        /\ \A y \in Tasks \ {x} : task'[y] = task[y]
    BY <1>1, IsFinished DEF Inv
  <2>2. Typed'
    BY <1>0, <1>1, <2>1 DEF Inv, Typed, TypeOK
  <2>3. Own(x)'
    BY <1>0, <2>1, IdleOwn DEF Inv
  <2> QED  BY <1>0, <1>1, <2>1, <2>2, <2>3, SameRow, Calm
<1>2. CASE /\ Live /\ used.deletes < MaxDeletes
           /\ used' = [used EXCEPT !.deletes = @ + 1]
           /\ row' = QuarantinedRow(used.deletes + 1)
           /\ task' = [task EXCEPT ![x] = [step |-> "committed", at |-> used.deletes + 1,
                                           reg |-> wa.session, flag |-> FALSE]]
  <2> DEFINE at == used.deletes + 1
             v == [step |-> "committed", at |-> at, reg |-> wa.session, flag |-> FALSE]
  <2>1. at \in 1 .. MaxDeletes /\ at \in Nat /\ at # 0
    BY <1>2, DeletionAssumption DEF Inv, Typed, TypeOK
  <2>2. used' \in [deletes : 0 .. MaxDeletes, troubles : 0 .. MaxTroubles]
    BY <1>2, <2>1 DEF Inv, Typed, TypeOK
  <2>3. row' = QuarantinedRow(at) /\ task' = [task EXCEPT ![x] = v]
    BY <1>2
  <2>4. v \in TaskStates
    BY <2>1 DEF TaskStates, Steps, Inv, Typed, TypeOK
  <2>5. v.step = "committed" /\ v.at = at /\ v.reg = wa.session
    OBVIOUS
  <2> HIDE DEF at, v
  <2>6. /\ task' \in [Tasks -> TaskStates] /\ task'[x] = v
        /\ \A y \in Tasks \ {x} : task'[y] = task[y]
    BY <2>3, <2>4 DEF Inv, Typed, TypeOK
  <2>7. /\ row' \in Rows /\ row'.exists = row.exists /\ row'.deletedAt = at
        /\ row'.due = FALSE /\ row'.started = row.started /\ row'.left = wa.session
        /\ wa.session = NoReg => row'.status # "open"
    <3>1. row \in Rows /\ wa.session \in Regs \cup {NoReg} /\ at \in 0 .. MaxDeletes
      BY <2>1 DEF Inv, Typed, TypeOK
    <3> QED  BY <2>3, <3>1 DEF QuarantinedRow, Rows
  <2>8. Typed'
    BY <1>0, <2>2, <2>6, <2>7 DEF Inv, Typed, TypeOK
  <2>9. RowInv'
    <3>1. LifeInv' /\ RecoveredHonest' /\ Settled'
      BY <1>2, <2>1, <2>7 DEF Inv, RowInv, LifeInv, RecoveredHonest, Settled, Live, Excluded
    <3>2. Numbered' /\ Relinked'
      BY <1>0, <1>2, <2>1, <2>7 DEF Inv, RowInv, Numbered, Relinked, Live
    <3> QED  BY <3>1, <3>2 DEF RowInv
  <2>10. Own(x)'
    <3>1. x \notin Passes
      BY <1>0, Kinds
    <3> QED  BY <1>0, <2>1, <2>5, <2>6, <3>1
             DEF Own, Stamped, Asked, Asking, OfItsOwn, Older, Emptied, At
  <2>11. \A y \in Tasks : ~(At(y, "logout") /\ Connected(y))
    BY <1>2 DEF Inv, Own, Stamped, OfItsOwn, Live, At
  <2> QED  BY <1>0, <2>6, <2>8, <2>9, <2>10, <2>11, RowStep
<1> QED  BY <1>1, <1>2 DEF Quarantine

(* The lock is free, and the task takes it with the session it loads. *)
LEMMA Loads ==
    ASSUME Inv, NEW x \in Tasks, LoadSession(x), x \in Deletes \cup Passes, task[x].at # 0,
           UNCHANGED <<wa, archive>>
    PROVE  /\ task' \in [Tasks -> TaskStates] /\ \A y \in Tasks \ {x} : task'[y] = task[y]
           /\ lock' = x /\ Own(x)'
<1> DEFINE step == IF wa.session = NoReg THEN "record" ELSE "recheck"
           reg == IF x \in Passes THEN task[x].reg ELSE wa.session
           flag == wa.session = NoReg
<1>1. step \in Steps /\ reg \in Regs \cup {NoReg} /\ flag \in BOOLEAN
  BY DEF Steps, Inv, Typed, TypeOK, TaskStates
<1>2. Goes(x, step, reg, flag) /\ lock' = x
  BY DEF LoadSession
<1>3. step \in {"record", "recheck"} /\ (x \in Passes => reg = task[x].reg)
  OBVIOUS
<1> HIDE DEF step, reg, flag
<1>4. /\ task' \in [Tasks -> TaskStates] /\ \A y \in Tasks \ {x} : task'[y] = task[y]
      /\ task'[x].step = step /\ task'[x].at = task[x].at /\ task'[x].reg = reg
  BY <1>1, <1>2, GoesOn DEF Inv
<1>5. Stamped(x)' /\ Emptied(x)' /\ Asked(x)' /\ OfItsOwn(x)'
  BY <1>2, <1>3, <1>4 DEF Stamped, Emptied, Asked, OfItsOwn, At
<1>6. Older(x)'
  BY <1>3, <1>4 DEF Inv, Own, Older
<1> QED  BY <1>2, <1>4, <1>5, <1>6 DEF Own

(* A step of a task's own that asks for nothing, on the row as it is. *)
LEMMA StepsOn ==
    ASSUME Inv, NEW x \in Tasks, NEW step \in Steps \ {"recheck", "logout", "end"}, Goto(x, step),
           wa' = wa \/ NoneLinked,
           step \in {"marked", "committed", "stop"} => x \in Deletes,
           step \in {"pause", "halt"} => x \in Moves,
           step \in {"retry", "confirm"} => x \in Passes,
           step \in {"committed", "retry", "confirm", "record", "unrecorded"}
             => x \in Deletes \cup Passes /\ task[x].at # 0
    PROVE  /\ task' \in [Tasks -> TaskStates] /\ \A y \in Tasks \ {x} : task'[y] = task[y]
           /\ task'[x].step = step /\ Own(x)'
<1>1. /\ task' \in [Tasks -> TaskStates] /\ \A y \in Tasks \ {x} : task'[y] = task[y]
      /\ task'[x].step = step /\ task'[x].at = task[x].at /\ task'[x].reg = task[x].reg
  BY GoesTo DEF Inv
<1>2. Stamped(x)' /\ Emptied(x)'
  BY <1>1 DEF Stamped, Emptied, At
<1>3. Own(x)'
  BY <1>1, <1>2, CalmOwn DEF Inv
<1> QED  BY <1>1, <1>3

LEMMA UnlinkDeletedKeeps ==
    ASSUME Inv, NEW x \in Tasks, UnlinkDeleted(x)
    PROVE  Inv'
<1>0. UNCHANGED <<row, wa, client, claimed, archive, orphans, used>>
      /\ x \in Deletes /\ task[x].at # 0
  BY DEF UnlinkDeleted, Inv, Own, Stamped, At
<1>1. CASE Goto(x, "unrecorded") /\ UNCHANGED lock
  <2>1. /\ task' \in [Tasks -> TaskStates] /\ \A y \in Tasks \ {x} : task'[y] = task[y]
    BY <1>0, <1>1, StepsOn DEF Steps
  <2>2. Typed'
    BY <1>0, <1>1, <2>1 DEF Inv, Typed, TypeOK
  <2>3. Own(x)'
    BY <1>0, <1>1, StepsOn DEF Steps
  <2> QED  BY <1>0, <1>1, <2>1, <2>2, <2>3, SameRow, Calm
<1>2. CASE client[x[1]] # NoReg /\ Goes(x, "recheck", client[x[1]], task[x].flag) /\ UNCHANGED lock
  <2>1. client[x[1]] \in Regs \cup {NoReg} /\ task[x].flag \in BOOLEAN
    BY TaskNames DEF Inv, Typed, TypeOK, TaskStates
  <2>2. /\ task' \in [Tasks -> TaskStates] /\ \A y \in Tasks \ {x} : task'[y] = task[y]
        /\ task'[x].step = "recheck" /\ task'[x].at = task[x].at /\ task'[x].reg = client[x[1]]
    BY <1>2, <2>1, GoesOn DEF Inv, Steps
  <2>3. Typed'
    BY <1>0, <1>2, <2>2 DEF Inv, Typed, TypeOK
  <2>4. x \notin Passes
    BY <1>0, Kinds
  <2>5. Own(x)'
    BY <1>0, <2>2, <2>4 DEF Own, Stamped, Asked, Asking, OfItsOwn, Older, Emptied, At
  <2> QED  BY <1>0, <1>2, <2>2, <2>3, <2>5, SameRow, Calm
<1>3. CASE lock = NoOne /\ LoadSession(x)
  <2>1. /\ task' \in [Tasks -> TaskStates] /\ \A y \in Tasks \ {x} : task'[y] = task[y]
        /\ lock' = x
    BY <1>0, <1>3, Loads
  <2>2. Own(x)'
    BY <1>0, <1>3, Loads
  <2>3. Typed'
    BY <1>0, <2>1 DEF Inv, Typed, TypeOK
  <2> QED  BY <1>0, <1>3, <2>1, <2>2, <2>3, SameRow, Calm
<1> QED  BY <1>1, <1>2, <1>3 DEF UnlinkDeleted, CanReserve

(* Once Unlink has returned, with or without the lock. *)
LEMMA Leaves ==
    ASSUME Inv, NEW x \in Tasks, Goto(x, IF x \in Deletes THEN "stop" ELSE "purge"),
           UNCHANGED wa
    PROVE  /\ task' \in [Tasks -> TaskStates] /\ \A y \in Tasks \ {x} : task'[y] = task[y]
           /\ Own(x)'
<1>1. CASE x \in Deletes
  BY <1>1, StepsOn DEF Steps
<1>2. CASE x \notin Deletes
  BY <1>2, StepsOn DEF Steps
<1> QED  BY <1>1, <1>2

LEMMA RecheckKeeps ==
    ASSUME Inv, NEW x \in Tasks, Recheck(x)
    PROVE  Inv'
<1>0. UNCHANGED <<row, wa, client, claimed, archive, orphans, used>> /\ At(x, "recheck")
  BY DEF Recheck
<1>1. CASE StillExcluded(x) /\ Goto(x, "logout") /\ UNCHANGED lock
  <2>1. /\ task' \in [Tasks -> TaskStates] /\ \A y \in Tasks \ {x} : task'[y] = task[y]
        /\ task'[x].step = "logout" /\ task'[x].at = task[x].at /\ task'[x].reg = task[x].reg
    BY <1>1, GoesTo DEF Inv, Steps
  <2>2. Typed'
    BY <1>0, <1>1, <2>1 DEF Inv, Typed, TypeOK
  <2>3. Stamped(x)' /\ Asked(x)' /\ Older(x)' /\ Emptied(x)'
    BY <1>0, <1>1, <2>1 DEF Inv, Own, Stamped, Asked, Asking, Older, Emptied, At
  <2>4. OfItsOwn(x)'
    BY <1>0, <1>1, <2>1 DEF OfItsOwn, StillExcluded, ExcludedBy
  <2>5. Own(x)'
    BY <2>3, <2>4 DEF Own
  <2> QED  BY <1>0, <1>1, <2>1, <2>2, <2>5, SameRow, Calm
<1>2. CASE Unreserve(x)
  <2>1. /\ task' \in [Tasks -> TaskStates] /\ \A y \in Tasks \ {x} : task'[y] = task[y]
    BY <1>0, <1>2, Leaves DEF Unreserve
  <2>2. Own(x)'
    BY <1>0, <1>2, Leaves DEF Unreserve
  <2>3. lock' = lock \/ (lock = x /\ lock' = NoOne)
    BY <1>2 DEF Unreserve
  <2>4. Typed'
    BY <1>0, <2>1, <2>3 DEF Inv, Typed, TypeOK
  <2> QED  BY <1>0, <2>1, <2>2, <2>3, <2>4, SameRow, Calm
<1> QED  BY <1>1, <1>2 DEF Recheck

(* A step that ends the session, or leaves it, for a task that asks for    *)
(* nothing any more.                                                       *)
LEMMA WaStep ==
    ASSUME Inv, Typed', RowInv', NoneLinked, UNCHANGED <<lock, client, archive>>,
           row'.exists = row.exists, row'.deletedAt = row.deletedAt,
           NEW x \in Tasks, \A y \in Tasks \ {x} : task'[y] = task[y], Own(x)'
    PROVE  Inv'
<1>1. Locks'
  BY DEF Inv, Locks
<1>2. \A y \in Tasks : Undisturbed(y)
  BY DEF Undisturbed, NoneLinked, Inv, Own, Older, Typed, TypeOK, Regs
<1>3. \A y \in Tasks : Own(y)'
  BY <1>2, TaskParts
<1> QED  BY <1>1, <1>3 DEF Inv

(* The logout: the session it ends is its own deletion's. *)
LEMMA LogoutKeeps ==
    ASSUME Inv, NEW x \in Tasks, Logout(x)
    PROVE  Inv'
<1>0. UNCHANGED <<row, lock, client, claimed, archive, orphans, used>> /\ At(x, "logout")
  BY DEF Logout
<1>1. PICK outcome \in {"ok", "lost", "failed", "dead"} : LogoutOutcome(x, outcome)
  BY DEF Logout
<1>2. task[x].reg \in Regs \cup {NoReg} /\ (outcome = "ok") \in BOOLEAN
  BY DEF Inv, Typed, TypeOK, TaskStates
<1>3. Goes(x, "record", task[x].reg, outcome = "ok")
  BY <1>1 DEF LogoutOutcome
<1>4. /\ task' \in [Tasks -> TaskStates] /\ \A y \in Tasks \ {x} : task'[y] = task[y]
      /\ task'[x].step = "record" /\ task'[x].at = task[x].at /\ task'[x].reg = task[x].reg
  BY <1>2, <1>3, GoesOn DEF Inv, Steps
<1>5. /\ wa' \in WaStates /\ NoneLinked
      /\ \/ wa'.session = wa.session /\ wa'.endedBy = wa.endedBy
         \/ Connected(x)
  BY <1>1 DEF LogoutOutcome, NoneLinked, Inv, Typed, TypeOK, WaStates, NoReg
<1>6. Typed'
  BY <1>0, <1>4, <1>5 DEF Inv, Typed, TypeOK, WaStates
<1>7. Connected(x) => ~Live
  BY <1>0 DEF Inv, Own, OfItsOwn, Stamped, Live, At
<1>8. RowInv'
  <2>1. LifeInv' /\ RecoveredHonest' /\ Settled' /\ Relinked'
    BY <1>0, <1>5, <1>7 DEF Inv, RowInv, LifeInv, RecoveredHonest, Settled, Relinked, Live, Excluded, NoneLinked
  <2>2. Numbered'
    BY <1>0, <1>5 DEF Inv, RowInv, Numbered, NoneLinked, Typed, TypeOK, Regs, NoReg
  <2> QED  BY <2>1, <2>2 DEF RowInv
<1>9. Own(x)'
  <2>1. Stamped(x)' /\ Emptied(x)'
    BY <1>0, <1>4 DEF Inv, Own, Stamped, Emptied, At
  <2> QED  BY <1>4, <1>5, <2>1, CalmOwn DEF Inv
<1> QED  BY <1>0, <1>4, <1>5, <1>6, <1>8, <1>9, WaStep

(* What a logout achieved is recorded: a session forgotten is not open. *)
LEMMA RecordedMild ==
    ASSUME Inv, NEW x \in Tasks, NEW flag \in BOOLEAN, row' = RecordedRow(task[x].at, flag)
    PROVE  row' \in Rows /\ Mild
<1>1. row \in Rows
  BY DEF Inv, Typed, TypeOK
<1>2. CASE row' = row
  BY <1>1, <1>2, SameRow
<1>3. CASE row' = [row EXCEPT !.tries = @ + 1]
  <2>1. row.tries \in Nat
    BY <1>1 DEF Rows
  <2>2. row.tries + 1 \in Nat
    BY <2>1
  <2>3. row' = [row EXCEPT !.tries = row.tries + 1]
    BY <1>1, <1>3 DEF Rows
  <2> QED  BY <1>1, <2>2, <2>3 DEF Mild, Rows
<1>4. CASE row' = [row EXCEPT !.status = IF @ = "banned" THEN @ ELSE "logged_out",
                              !.reason = "unlinked", !.left = NoReg, !.tries = 0]
  <2> DEFINE status == IF row.status = "banned" THEN row.status ELSE "logged_out"
  <2>1. status \in {"logged_out", "banned"}
    OBVIOUS
  <2>2. row' = [row EXCEPT !.status = status, !.reason = "unlinked", !.left = NoReg, !.tries = 0]
    BY <1>1, <1>4 DEF Rows
  <2> HIDE DEF status
  <2>3. row' \in Rows
    <3> DEFINE settled == [row EXCEPT !.status = status, !.reason = "unlinked"]
    <3>1. settled \in Rows
      BY <1>1, <2>1 DEF Rows
    <3>2. row' = [settled EXCEPT !.left = NoReg, !.tries = 0]
      BY <1>1, <2>2 DEF Rows
    <3> HIDE DEF settled
    <3>3. [settled EXCEPT !.left = NoReg] \in Rows
      BY <3>1 DEF Rows
    <3>4. [[settled EXCEPT !.left = NoReg] EXCEPT !.tries = 0] \in Rows
      BY <3>3 DEF Rows
    <3> QED  BY <3>1, <3>2, <3>4 DEF Rows
  <2>4. row'.left = NoReg
    BY <1>1, <2>1, <2>2 DEF Rows
  <2>5. row'.status = status
    BY <1>1, <2>1, <2>2 DEF Rows
  <2>6. UNCHANGED <<row.exists, row.deletedAt, row.due, row.started, row.home>>
    BY <1>1, <2>1, <2>2 DEF Rows
  <2> QED  BY <2>1, <2>3, <2>4, <2>5, <2>6 DEF Mild
<1> QED  BY <1>2, <1>3, <1>4 DEF RecordedRow

LEMMA RecordKeeps ==
    ASSUME Inv, NEW x \in Tasks, Record(x)
    PROVE  Inv'
<1>0. UNCHANGED <<wa, client, claimed, archive, orphans, used>> /\ Unreserve(x)
  BY DEF Record
<1>1. row' \in Rows /\ Mild
  <2>1. task[x].flag \in BOOLEAN
    BY DEF Inv, Typed, TypeOK, TaskStates
  <2> QED  BY <2>1, RecordedMild DEF Record
<1>2. /\ task' \in [Tasks -> TaskStates] /\ \A y \in Tasks \ {x} : task'[y] = task[y]
  BY <1>0, Leaves DEF Unreserve
<1>3. Own(x)'
  BY <1>0, Leaves DEF Unreserve
<1>4. lock' = lock \/ (lock = x /\ lock' = NoOne)
  BY <1>0 DEF Unreserve
<1>5. Typed'
  BY <1>0, <1>1, <1>2, <1>4 DEF Inv, Typed, TypeOK
<1> QED  BY <1>0, <1>1, <1>2, <1>3, <1>4, <1>5, Calm

LEMMA RecordUnaskedKeeps ==
    ASSUME Inv, NEW x \in Tasks, RecordUnasked(x)
    PROVE  Inv'
<1>0. UNCHANGED <<wa, lock, client, claimed, archive, orphans, used>>
      /\ Goto(x, IF x \in Deletes THEN "stop" ELSE "purge")
  BY DEF RecordUnasked
<1>1. row' \in Rows /\ Mild
  BY RecordedMild DEF RecordUnasked
<1>2. /\ task' \in [Tasks -> TaskStates] /\ \A y \in Tasks \ {x} : task'[y] = task[y]
  BY <1>0, Leaves
<1>3. Own(x)'
  BY <1>0, Leaves
<1>4. Typed'
  BY <1>0, <1>1, <1>2 DEF Inv, Typed, TypeOK
<1> QED  BY <1>0, <1>1, <1>2, <1>3, <1>4, Calm

(* A process stops its client: of its deletion's logout nothing is left to *)
(* run on, so it is cut off, or over.                                      *)
LEMMA StopKeeps ==
    ASSUME Inv, NEW x \in Tasks, StopClient(x[1]),
           UNCHANGED <<row, wa, claimed, archive, orphans, used>>,
           task' \in [Tasks -> TaskStates],
           \A y \in Tasks : \/ Own(y)'
                            \/ /\ task'[y] = task[y]
                               /\ y \in Deletes /\ Asking(y) /\ lock = Running(x[1]) => y[1] # x[1]
    PROVE  Inv'
<1> DEFINE p == x[1]
<1>0. p \in Procs
  BY TaskNames
<1> HIDE DEF p
<1>1. /\ client' = [client EXCEPT ![p] = NoReg]
      /\ lock' = IF lock = Running(p) THEN NoOne ELSE lock
  BY DEF StopClient, p
<1>2. /\ client' \in [Procs -> Regs \cup {NoReg}] /\ client'[p] = NoReg
      /\ \A q \in Procs : q # p => client'[q] = client[q]
  BY <1>0, <1>1 DEF Inv, Typed, TypeOK
<1>3. Typed'
  BY <1>1, <1>2 DEF Inv, Typed, TypeOK
<1>4. client[p] # NoReg <=> lock = Running(p)
  BY <1>0 DEF Inv, Locks
<1>5. Locks'
  BY <1>1, <1>2, <1>4, ClientNames DEF Inv, Locks
<1>6. \A y \in Tasks : lock' = y <=> lock = y
  BY <1>1, ClientNames, NoOneIsNoTask
<1>7. \A y \in Deletes : lock # Running(p) \/ y[1] # p => client'[y[1]] = client[y[1]]
  <2>1. \A y \in Deletes : y[1] \in Procs
    BY TaskNames DEF Tasks
  <2> QED  BY <1>2, <1>4, <2>1
<1>8. Mild
  BY SameRow
<1>9. \A y \in Tasks : (task'[y] = task[y] /\ Undisturbed(y)) \/ Own(y)'
  <2> SUFFICES ASSUME NEW y \in Tasks, ~Own(y)'
               PROVE  task'[y] = task[y] /\ Undisturbed(y)
    OBVIOUS
  <2>1. task'[y] = task[y] /\ (y \in Deletes /\ Asking(y) /\ lock = Running(p) => y[1] # p)
    BY DEF p
  <2> QED  BY <1>6, <1>7, <1>8, <2>1, MildUndisturbed DEF Inv, Typed, TypeOK
<1>10. \A y \in Tasks : Own(y)'
  BY <1>3, <1>9, TaskParts
<1>11. RowInv'
  BY <1>8, MildRow DEF Inv
<1> QED  BY <1>3, <1>5, <1>10, <1>11 DEF Inv

LEMMA DeleteEndKeeps ==
    ASSUME Inv, NEW x \in Tasks, DeleteEnd(x)
    PROVE  Inv'
<1>0. UNCHANGED <<row, wa, claimed, archive, orphans, used>> /\ StopClient(x[1]) /\ Finish(x)
      /\ x \in Deletes
  BY DEF DeleteEnd, Inv, Own, Stamped, At
<1>1. /\ task' \in [Tasks -> TaskStates] /\ task'[x] = Idle
      /\ \A y \in Tasks \ {x} : task'[y] = task[y]
  BY <1>0, IsFinished DEF Inv
<1>2. Own(x)'
  BY <1>0, <1>1, IdleOwn DEF Inv
<1>3. \A y \in Deletes : y # x => y[1] # x[1]
  BY <1>0, OneDeletion
<1>4. \A y \in Tasks : \/ Own(y)'
                       \/ /\ task'[y] = task[y]
                          /\ y \in Deletes /\ Asking(y) /\ lock = Running(x[1]) => y[1] # x[1]
  BY <1>1, <1>2, <1>3
<1> QED  BY <1>0, <1>1, <1>4, StopKeeps

-----------------------------------------------------------------------------
(* The janitor's pass and the purge. *)
LEMMA PassBeginKeeps ==
    ASSUME Inv, NEW x \in Tasks, PassBegin(x)
    PROVE  Inv'
<1>0. UNCHANGED <<row, wa, lock, client, claimed, archive, orphans, used>> /\ x \in Passes
  BY DEF PassBegin
<1> DEFINE step == IF Leftover THEN IF wa.session = row.left THEN "retry" ELSE "confirm" ELSE "purge"
           at == IF Leftover THEN row.deletedAt ELSE 0
           reg == IF Leftover THEN row.left ELSE NoReg
           v == [step |-> step, at |-> at, reg |-> reg, flag |-> FALSE]
<1>1. task' = [task EXCEPT ![x] = v]
  BY DEF PassBegin
<1>2. /\ step \in {"retry", "confirm", "purge"} /\ at \in Nat /\ reg \in Regs \cup {NoReg}
      /\ step # "purge" => at # 0
      /\ reg = NoReg \/ reg = row.left
  <2>1. row.deletedAt \in Nat /\ row.left \in Regs \cup {NoReg}
    <3>1. row \in Rows
      BY DEF Inv, Typed, TypeOK
    <3>2. row.deletedAt \in 0 .. MaxDeletes /\ row.left \in Regs \cup {NoReg}
      BY <3>1 DEF Rows
    <3> QED  BY <3>2, DeletionAssumption
  <2>2. Leftover => row.deletedAt # 0
    BY DEF Leftover, Excluded
  <2> QED  BY <2>1, <2>2
<1> HIDE DEF step, at, reg
<1>3. v \in TaskStates
  BY <1>2 DEF TaskStates, Steps
<1>4. v.step = step /\ v.at = at /\ v.reg = reg
  OBVIOUS
<1> HIDE DEF v
<1>5. /\ task' \in [Tasks -> TaskStates] /\ task'[x] = v
      /\ \A y \in Tasks \ {x} : task'[y] = task[y]
  BY <1>1, <1>3 DEF Inv, Typed, TypeOK
<1>6. Typed'
  BY <1>0, <1>5 DEF Inv, Typed, TypeOK
<1>7. Own(x)'
  <2>1. Stamped(x)' /\ Emptied(x)' /\ task'[x].step \notin {"recheck", "logout"}
    BY <1>0, <1>2, <1>4, <1>5 DEF Stamped, Emptied, At
  <2> QED  BY <1>0, <1>2, <1>4, <1>5, <2>1, CalmOwn DEF Inv
<1> QED  BY <1>0, <1>5, <1>6, <1>7, SameRow, Calm

LEMMA RetryLeftoverKeeps ==
    ASSUME Inv, NEW x \in Tasks, RetryLeftover(x)
    PROVE  Inv'
<1>0. UNCHANGED <<row, wa, client, claimed, archive, orphans>> /\ x \in Passes /\ task[x].at # 0
  BY DEF RetryLeftover, Inv, Own, Stamped, At
<1>1. used' \in [deletes : 0 .. MaxDeletes, troubles : 0 .. MaxTroubles]
  BY TroubleTyped DEF RetryLeftover, Inv, Typed, TypeOK
<1>2. /\ task' \in [Tasks -> TaskStates] /\ \A y \in Tasks \ {x} : task'[y] = task[y]
      /\ lock' = lock \/ (lock = NoOne /\ lock' = x)
  BY <1>0, StepsOn, Loads DEF RetryLeftover, CanReserve, Steps
<1>3. Own(x)'
  BY <1>0, StepsOn, Loads DEF RetryLeftover, CanReserve, Steps
<1>4. Typed'
  BY <1>0, <1>1, <1>2 DEF Inv, Typed, TypeOK
<1> QED  BY <1>0, <1>2, <1>3, <1>4, SameRow, Calm

LEMMA ConfirmLeftoverKeeps ==
    ASSUME Inv, NEW x \in Tasks, ConfirmLeftover(x)
    PROVE  Inv'
<1>0. UNCHANGED <<row, wa, client, claimed, archive, orphans, used>> /\ x \in Passes /\ task[x].at # 0
  BY DEF ConfirmLeftover, Inv, Own, Stamped, At
<1>1. CASE lock = NoOne /\ lock' = x /\ Goes(x, "record", task[x].reg, TRUE)
  <2>1. task[x].reg \in Regs \cup {NoReg}
    BY DEF Inv, Typed, TypeOK, TaskStates
  <2>2. /\ task' \in [Tasks -> TaskStates] /\ \A y \in Tasks \ {x} : task'[y] = task[y]
        /\ task'[x].step = "record" /\ task'[x].at = task[x].at /\ task'[x].reg = task[x].reg
    BY <1>1, <2>1, GoesOn DEF Inv, Steps
  <2>3. Stamped(x)' /\ Emptied(x)'
    BY <1>0, <2>2 DEF Stamped, Emptied, At
  <2>4. Own(x)'
    BY <1>0, <2>2, <2>3, CalmOwn DEF Inv
  <2>5. Typed'
    BY <1>0, <1>1, <2>2 DEF Inv, Typed, TypeOK
  <2> QED  BY <1>0, <1>1, <2>2, <2>4, <2>5, SameRow, Calm
<1>2. CASE Goto(x, "purge") /\ UNCHANGED lock
  <2>1. /\ task' \in [Tasks -> TaskStates] /\ \A y \in Tasks \ {x} : task'[y] = task[y]
    BY <1>0, <1>2, StepsOn DEF Steps
  <2>2. Own(x)'
    BY <1>0, <1>2, StepsOn DEF Steps
  <2>3. Typed'
    BY <1>0, <1>2, <2>1 DEF Inv, Typed, TypeOK
  <2> QED  BY <1>0, <1>2, <2>1, <2>2, <2>3, SameRow, Calm
<1> QED  BY <1>1, <1>2 DEF ConfirmLeftover, CanReserve

(* A purge that leaves the number, or begins a round. *)
LEMMA PurgeLeaves ==
    ASSUME Inv, NEW x \in Tasks, IF x \in Purges THEN Finish(x) ELSE Goto(x, "orphans"), UNCHANGED wa
    PROVE  /\ task' \in [Tasks -> TaskStates] /\ \A y \in Tasks \ {x} : task'[y] = task[y]
           /\ Own(x)'
<1>1. CASE Finish(x)
  BY <1>1, IsFinished, IdleOwn DEF Inv
<1>2. CASE Goto(x, "orphans")
  BY <1>2, StepsOn DEF Steps
<1> QED  BY <1>1, <1>2

LEMMA PurgeStartKeeps ==
    ASSUME Inv, NEW x \in Tasks, PurgeStart(x)
    PROVE  Inv'
<1>0. UNCHANGED <<lock, client, claimed, archive, orphans, used>>
  BY DEF PurgeStart
<1>1. CASE /\ IF x \in Purges THEN Finish(x) ELSE Goto(x, "orphans")
           /\ UNCHANGED <<row, wa>>
  <2>1. /\ task' \in [Tasks -> TaskStates] /\ \A y \in Tasks \ {x} : task'[y] = task[y]
    BY <1>1, PurgeLeaves
  <2>2. Own(x)'
    BY <1>1, PurgeLeaves
  <2>3. Typed'
    BY <1>0, <1>1, <2>1 DEF Inv, Typed, TypeOK
  <2> QED  BY <1>0, <1>1, <2>1, <2>2, <2>3, SameRow, Calm
<1>2. CASE /\ Excluded
           /\ row' = [row EXCEPT !.started = TRUE, !.due = TRUE]
           /\ wa' = IF row.left # NoReg /\ wa.session = row.left
                    THEN [wa EXCEPT !.session = NoReg, !.endedBy = "purge"] ELSE wa
           /\ Goto(x, "batch")
  <2>1. /\ row' \in Rows /\ row'.exists = row.exists /\ row'.deletedAt = row.deletedAt
        /\ row'.due = TRUE /\ row'.started = TRUE /\ row'.left = row.left /\ row'.status = row.status
    BY <1>2 DEF Inv, Typed, TypeOK, Rows
  <2>2. wa' \in WaStates /\ NoneLinked
    BY <1>2 DEF NoneLinked, Inv, Typed, TypeOK, WaStates, NoReg
  <2>3. /\ task' \in [Tasks -> TaskStates] /\ \A y \in Tasks \ {x} : task'[y] = task[y]
    BY <1>2, <2>2, StepsOn DEF Steps
  <2>4. Own(x)'
    BY <1>2, <2>2, StepsOn DEF Steps
  <2>5. Typed'
    BY <1>0, <2>1, <2>2, <2>3 DEF Inv, Typed, TypeOK, WaStates
  <2>6. RowInv'
    <3>1. LifeInv' /\ RecoveredHonest' /\ Settled' /\ Relinked'
      BY <1>2, <2>1, <2>2 DEF Inv, RowInv, LifeInv, RecoveredHonest, Settled, Relinked, Live, Excluded, NoneLinked
    <3>2. Numbered'
      BY <2>1, <2>2 DEF Inv, RowInv, Numbered, NoneLinked, Typed, TypeOK, Regs, NoReg
    <3> QED  BY <3>1, <3>2 DEF RowInv
  <2> QED  BY <1>0, <2>1, <2>2, <2>3, <2>4, <2>5, <2>6, WaStep
<1> QED  BY <1>1, <1>2 DEF PurgeStart

LEMMA PurgeBatchKeeps ==
    ASSUME Inv, NEW x \in Tasks, PurgeBatch(x)
    PROVE  Inv'
<1>0. UNCHANGED <<row, wa, lock, client, claimed>>
  BY DEF PurgeBatch
<1>1. CASE /\ archive > 0 /\ archive' = archive - 1 /\ orphans' = orphans + 1
           /\ Goto(x, "released") /\ UNCHANGED used
  <2>1. /\ task' \in [Tasks -> TaskStates] /\ \A y \in Tasks \ {x} : task'[y] = task[y]
    BY <1>0, <1>1, StepsOn DEF Steps
  <2>2. Own(x)'
    BY <1>0, <1>1, StepsOn DEF Steps
  <2>3. /\ archive' \in 0 .. Batches /\ orphans' \in 0 .. Batches /\ archive' + orphans' <= Batches
        /\ archive' < archive
    BY <1>1, DeletionAssumption DEF Inv, Typed, TypeOK
  <2>4. Typed'
    BY <1>0, <1>1, <2>1, <2>3 DEF Inv, Typed, TypeOK
  <2> QED  BY <1>0, <2>1, <2>2, <2>3, <2>4, SameRow, Calm
<1>2. CASE archive = 0 /\ Goto(x, "end") /\ UNCHANGED <<archive, orphans, used>>
  <2>1. /\ task' \in [Tasks -> TaskStates] /\ \A y \in Tasks \ {x} : task'[y] = task[y]
        /\ task'[x].step = "end" /\ task'[x].reg = task[x].reg
    BY <1>2, GoesTo DEF Inv, Steps
  <2>2. Stamped(x)' /\ Emptied(x)'
    BY <1>2, <2>1 DEF Stamped, Emptied, At
  <2>3. Own(x)'
    BY <1>0, <2>1, <2>2, CalmOwn DEF Inv
  <2>4. Typed'
    BY <1>0, <1>2, <2>1 DEF Inv, Typed, TypeOK
  <2> QED  BY <1>0, <1>2, <2>1, <2>3, <2>4, SameRow, Calm
<1>3. CASE /\ IF x \in Purges THEN Finish(x) ELSE Goto(x, "orphans")
           /\ UNCHANGED <<archive, orphans>>
           /\ UNCHANGED used \/ Trouble
  <2>1. /\ task' \in [Tasks -> TaskStates] /\ \A y \in Tasks \ {x} : task'[y] = task[y]
    BY <1>0, <1>3, PurgeLeaves
  <2>2. Own(x)'
    BY <1>0, <1>3, PurgeLeaves
  <2>3. Typed'
    BY <1>0, <1>3, <2>1, TroubleTyped DEF Inv, Typed, TypeOK
  <2> QED  BY <1>0, <1>3, <2>1, <2>2, <2>3, SameRow, Calm
<1> QED  BY <1>1, <1>2, <1>3 DEF PurgeBatch

LEMMA DeleteReleasedKeeps ==
    ASSUME Inv, NEW x \in Tasks, DeleteReleased(x)
    PROVE  Inv'
<1>0. UNCHANGED <<row, wa, lock, client, claimed, archive>> /\ Goto(x, "batch")
  BY DEF DeleteReleased
<1>1. orphans' \in 0 .. Batches /\ archive' + orphans' <= Batches
  BY DeletionAssumption DEF DeleteReleased, Inv, Typed, TypeOK
<1>2. used' \in [deletes : 0 .. MaxDeletes, troubles : 0 .. MaxTroubles]
  <2>1. CASE used' = used
    BY <2>1 DEF Inv, Typed, TypeOK
  <2>2. CASE Trouble
    BY <2>2, TroubleTyped DEF Inv
  <2> QED  BY <2>1, <2>2 DEF DeleteReleased, Trouble
<1>3. /\ task' \in [Tasks -> TaskStates] /\ \A y \in Tasks \ {x} : task'[y] = task[y]
  BY <1>0, StepsOn DEF Steps
<1>4. Own(x)'
  BY <1>0, StepsOn DEF Steps
<1>5. Typed'
  BY <1>0, <1>1, <1>2, <1>3 DEF Inv, Typed, TypeOK
<1> QED  BY <1>0, <1>3, <1>4, <1>5, SameRow, Calm

(* The row goes last: nothing is asked of a number that is gone. *)
LEMMA PurgeEndKeeps ==
    ASSUME Inv, NEW x \in Tasks, PurgeEnd(x)
    PROVE  Inv'
<1>0. UNCHANGED <<wa, lock, client, claimed, archive, orphans, used>>
      /\ IF x \in Purges THEN Finish(x) ELSE Goto(x, "orphans")
  BY DEF PurgeEnd
<1>1. /\ task' \in [Tasks -> TaskStates] /\ \A y \in Tasks \ {x} : task'[y] = task[y]
  BY <1>0, PurgeLeaves
<1>2. Own(x)'
  BY <1>0, PurgeLeaves
<1>3. CASE row' = row
  <2>1. Typed'
    BY <1>0, <1>1, <1>3 DEF Inv, Typed, TypeOK
  <2> QED  BY <1>0, <1>1, <1>2, <1>3, <2>1, SameRow, Calm
<1>4. CASE row.started /\ row' = [row EXCEPT !.exists = FALSE, !.left = NoReg]
  <2>1. row' \in Rows /\ row'.exists = FALSE /\ row'.left = NoReg /\ row'.started = row.started
        /\ row'.due = row.due
    BY <1>4 DEF Inv, Typed, TypeOK, Rows
  <2>2. Typed'
    BY <1>0, <1>1, <2>1 DEF Inv, Typed, TypeOK
  <2>3. RowInv'
    BY <1>0, <2>1 DEF Inv, RowInv, LifeInv, RecoveredHonest, Settled, Numbered, Relinked, Live, Excluded,
                      Typed, TypeOK, Regs, NoReg
  <2>4. \A y \in Tasks : task'[y] = task[y] \/ Own(y)'
    BY <1>1, <1>2
  <2> QED  BY <1>0, <2>1, <2>2, <2>3, <2>4, RowStep
<1> QED  BY <1>3, <1>4 DEF PurgeEnd

LEMMA DeleteOrphansKeeps ==
    ASSUME Inv, NEW x \in Tasks, DeleteOrphans(x)
    PROVE  Inv'
<1>0. UNCHANGED <<row, wa, lock, client, claimed, archive>> /\ Finish(x)
  BY DEF DeleteOrphans
<1>1. orphans' \in 0 .. Batches /\ archive' + orphans' <= Batches
  BY DeletionAssumption DEF DeleteOrphans, Inv, Typed, TypeOK
<1>2. used' \in [deletes : 0 .. MaxDeletes, troubles : 0 .. MaxTroubles]
  BY TroubleTyped DEF DeleteOrphans, Inv, Typed, TypeOK
<1>3. /\ task' \in [Tasks -> TaskStates] /\ task'[x] = Idle
      /\ \A y \in Tasks \ {x} : task'[y] = task[y]
  BY <1>0, IsFinished DEF Inv
<1>4. Own(x)'
  BY <1>0, <1>3, IdleOwn DEF Inv
<1>5. Typed'
  BY <1>0, <1>1, <1>2, <1>3 DEF Inv, Typed, TypeOK
<1> QED  BY <1>0, <1>3, <1>4, <1>5, SameRow, Calm

(* A task that begins, at an operator's or a person's request. *)
LEMMA BeginKeeps ==
    ASSUME Inv, NEW x \in Tasks, NEW step \in {"purge", "pause"}, step = "pause" => x \in Moves,
           Goto(x, step), Trouble, UNCHANGED <<row, wa, lock, client, claimed, archive, orphans>>
    PROVE  Inv'
<1>1. step \in Steps \ {"recheck", "logout", "end"} /\ step \in {"purge", "pause"}
  BY DEF Steps
<1>2. /\ task' \in [Tasks -> TaskStates] /\ \A y \in Tasks \ {x} : task'[y] = task[y]
  BY <1>1, StepsOn
<1>3. Own(x)'
  BY <1>1, StepsOn
<1>4. Typed'
  BY <1>2, TroubleTyped DEF Inv, Typed, TypeOK
<1> QED  BY <1>2, <1>3, <1>4, SameRow, Calm

LEMMA PurgeNowKeeps ==
    ASSUME Inv, NEW x \in Tasks, PurgeNow(x)
    PROVE  Inv'
  BY BeginKeeps DEF PurgeNow

LEMMA MoveBeginKeeps ==
    ASSUME Inv, NEW x \in Tasks, MoveBegin(x)
    PROVE  Inv'
  BY BeginKeeps DEF MoveBegin

-----------------------------------------------------------------------------
(* The move to Personal. *)
LEMMA PauseForMoveKeeps ==
    ASSUME Inv, NEW x \in Tasks, PauseForMove(x)
    PROVE  Inv'
<1>0. UNCHANGED <<wa, lock, client, claimed, archive, orphans, used>> /\ x \in Moves
  BY DEF PauseForMove, Inv, Own, Stamped, At
<1>1. CASE Finish(x) /\ UNCHANGED row
  <2>1. /\ task' \in [Tasks -> TaskStates] /\ task'[x] = Idle
        /\ \A y \in Tasks \ {x} : task'[y] = task[y]
    BY <1>1, IsFinished DEF Inv
  <2>2. Own(x)'
    BY <1>0, <2>1, IdleOwn DEF Inv
  <2>3. Typed'
    BY <1>0, <1>1, <2>1 DEF Inv, Typed, TypeOK
  <2> QED  BY <1>0, <1>1, <2>1, <2>2, <2>3, SameRow, Calm
<1>2. CASE /\ row' = IF row.paused THEN row
                     ELSE [row EXCEPT !.paused = TRUE, !.cause = "move", !.seq = @ + 1]
           /\ task' = [task EXCEPT ![x] = [step |-> "halt", at |-> row'.seq, reg |-> NoReg,
                                           flag |-> ~row.paused]]
  <2>1. row \in Rows /\ row.seq \in Nat
    BY DEF Inv, Typed, TypeOK, Rows
  <2>2. row.seq + 1 \in Nat
    BY <2>1
  <2>3. row' = IF row.paused THEN row
               ELSE [row EXCEPT !.paused = TRUE, !.cause = "move", !.seq = row.seq + 1]
    BY <1>2, <2>1 DEF Rows
  <2>4. row' \in Rows
    BY <2>1, <2>2, <2>3 DEF Rows
  <2>5. Mild
    BY <2>1, <2>3 DEF Mild, Rows
  <2> DEFINE v == [step |-> "halt", at |-> row'.seq, reg |-> NoReg, flag |-> ~row.paused]
  <2>6. row'.seq \in Nat /\ (~row.paused) \in BOOLEAN
    BY <2>4 DEF Rows
  <2>7. v \in TaskStates /\ v.step = "halt" /\ v.reg = NoReg
    BY <2>6 DEF TaskStates, Steps
  <2>8. task' = [task EXCEPT ![x] = v]
    BY <1>2
  <2> HIDE DEF v
  <2>9. /\ task' \in [Tasks -> TaskStates] /\ task'[x] = v
        /\ \A y \in Tasks \ {x} : task'[y] = task[y]
    BY <2>7, <2>8 DEF Inv, Typed, TypeOK
  <2>10. Own(x)'
    <3>1. Stamped(x)' /\ Emptied(x)'
      BY <1>0, <2>7, <2>9 DEF Stamped, Emptied, At
    <3> QED  BY <1>0, <2>7, <2>9, <3>1, CalmOwn DEF Inv
  <2>11. Typed'
    BY <1>0, <2>4, <2>9 DEF Inv, Typed, TypeOK
  <2> QED  BY <1>0, <2>5, <2>9, <2>10, <2>11, Calm
<1> QED  BY <1>1, <1>2 DEF PauseForMove

(* The move stops the number's client here, and with it a logout on it. *)
LEMMA MoveHaltKeeps ==
    ASSUME Inv, NEW x \in Tasks, MoveHalt(x)
    PROVE  Inv'
<1>0. UNCHANGED <<row, wa, claimed, archive, orphans, used>> /\ StopClient(x[1])
      /\ x \in Moves /\ x \notin Deletes /\ x \notin Passes
  BY Kinds DEF MoveHalt, Inv, Own, Stamped, At
<1> DEFINE p == x[1]
           cut(y) == y = <<p, "delete">> /\ lock = Running(p) /\ task[y].step \in {"recheck", "logout"}
           moved == [step |-> "move", at |-> task[x].at, reg |-> task[x].reg, flag |-> task[x].flag]
           stopped(y) == [step |-> task[y].step, at |-> task[y].at, reg |-> NoReg, flag |-> task[y].flag]
<1>1. task' = [y \in Tasks |-> IF y = x THEN moved ELSE IF cut(y) THEN stopped(y) ELSE task[y]]
  BY DEF MoveHalt, CutLogout
<1>2. moved \in TaskStates /\ moved.step = "move" /\ moved.reg = task[x].reg
  BY DEF Inv, Typed, TypeOK, TaskStates, Steps
<1>3. \A y \in Tasks : /\ stopped(y) \in TaskStates /\ stopped(y).step = task[y].step
                       /\ stopped(y).at = task[y].at /\ stopped(y).reg = NoReg
  BY DEF Inv, Typed, TypeOK, TaskStates
<1>4. \A y \in Tasks : cut(y) <=> y = <<p, "delete">> /\ lock = Running(p) /\ Asking(y)
  BY DEF Asking, At
<1> HIDE DEF moved, stopped, cut
<1>5. /\ task' \in [Tasks -> TaskStates] /\ task'[x] = moved
      /\ \A y \in Tasks \ {x} : task'[y] = IF cut(y) THEN stopped(y) ELSE task[y]
  BY <1>1, <1>2, <1>3 DEF Inv, Typed, TypeOK
<1>6. Own(x)'
  <2>1. Stamped(x)' /\ Emptied(x)'
    BY <1>2, <1>5 DEF Stamped, Emptied, At
  <2> QED  BY <1>0, <1>2, <1>5, <2>1, CalmOwn DEF Inv
<1>7. \A y \in Tasks \ {x} : cut(y) => Own(y)'
  <2> SUFFICES ASSUME NEW y \in Tasks \ {x}, cut(y)
               PROVE  Own(y)'
    OBVIOUS
  <2>1. y = <<p, "delete">> /\ lock = Running(p) /\ Asking(y) /\ y \in Deletes /\ y \notin Passes /\ y[1] = p
    BY <1>4, OneDeletion, Kinds
  <2>2. /\ task'[y].step = task[y].step /\ task'[y].at = task[y].at /\ task'[y].reg = NoReg
    BY <1>3, <1>5
  <2>3. lock' = NoOne /\ lock' # y
    BY <1>0, <2>1, NoOneIsNoTask DEF StopClient
  <2>4. client'[y[1]] = NoReg
    <3>1. p \in Procs /\ client' = [client EXCEPT ![p] = NoReg]
      BY <1>0, TaskNames DEF StopClient
    <3> QED  BY <2>1, <3>1 DEF Inv, Typed, TypeOK
  <2>5. Stamped(y)' /\ Asked(y)' /\ Older(y)'
    BY <2>1, <2>2 DEF Inv, Own, Stamped, Asked, Asking, Older, At
  <2>6. OfItsOwn(y)' /\ Emptied(y)'
    BY <2>1, <2>2, <2>3, <2>4 DEF OfItsOwn, Connected, Emptied, Asking, At
  <2> QED  BY <2>5, <2>6 DEF Own
<1>8. \A y \in Tasks : \/ Own(y)'
                       \/ /\ task'[y] = task[y]
                          /\ y \in Deletes /\ Asking(y) /\ lock = Running(x[1]) => y[1] # x[1]
  <2> SUFFICES ASSUME NEW y \in Tasks, y # x, ~cut(y)
               PROVE  /\ task'[y] = task[y]
                      /\ y \in Deletes /\ Asking(y) /\ lock = Running(p) => y[1] # p
    BY <1>6, <1>7
  <2> QED  BY <1>4, <1>5, OneDeletion
<1> HIDE DEF p
<1> QED  BY <1>0, <1>5, <1>8, StopKeeps

LEMMA TransferPersonalKeeps ==
    ASSUME Inv, NEW x \in Tasks, TransferPersonal(x)
    PROVE  Inv'
<1>0. UNCHANGED <<wa, lock, client, claimed, archive, orphans, used>>
  BY DEF TransferPersonal
<1>1. CASE /\ Movable /\ Finish(x)
           /\ row' = [row EXCEPT !.home = "personal", !.status = "open", !.reason = "moved",
                                 !.cause = IF @ = "person" THEN @ ELSE "move"]
  <2> DEFINE cause == IF row.cause = "person" THEN row.cause ELSE "move"
  <2>1. cause \in {"person", "move"}
    OBVIOUS
  <2>2. row' = [row EXCEPT !.home = "personal", !.status = "open", !.reason = "moved", !.cause = cause]
    BY <1>1 DEF Inv, Typed, TypeOK, Rows
  <2> HIDE DEF cause
  <2>3. row' \in Rows
    BY <2>1, <2>2 DEF Inv, Typed, TypeOK, Rows
  <2>4. Mild
    BY <1>1, <2>2 DEF Mild, Movable, Inv, Typed, TypeOK, Rows
  <2>5. /\ task' \in [Tasks -> TaskStates] /\ task'[x] = Idle
        /\ \A y \in Tasks \ {x} : task'[y] = task[y]
    BY <1>1, IsFinished DEF Inv
  <2>6. Own(x)'
    BY <1>0, <2>5, IdleOwn DEF Inv
  <2>7. Typed'
    BY <1>0, <2>3, <2>5 DEF Inv, Typed, TypeOK
  <2> QED  BY <1>0, <2>4, <2>5, <2>6, <2>7, Calm
<1>2. CASE Goto(x, "undo") /\ UNCHANGED row
  <2>1. /\ task' \in [Tasks -> TaskStates] /\ \A y \in Tasks \ {x} : task'[y] = task[y]
    BY <1>0, <1>2, StepsOn DEF Steps
  <2>2. Own(x)'
    BY <1>0, <1>2, StepsOn DEF Steps
  <2>3. Typed'
    BY <1>0, <1>2, <2>1 DEF Inv, Typed, TypeOK
  <2> QED  BY <1>0, <1>2, <2>1, <2>2, <2>3, SameRow, Calm
<1> QED  BY <1>1, <1>2 DEF TransferPersonal

LEMMA UndoMovePauseKeeps ==
    ASSUME Inv, NEW x \in Tasks, UndoMovePause(x)
    PROVE  Inv'
<1>0. UNCHANGED <<wa, lock, client, claimed, archive, orphans, used>> /\ Finish(x)
  BY DEF UndoMovePause
<1>1. row' \in Rows /\ Mild
  BY DEF UndoMovePause, Mild, Inv, Typed, TypeOK, Rows
<1>2. /\ task' \in [Tasks -> TaskStates] /\ task'[x] = Idle
      /\ \A y \in Tasks \ {x} : task'[y] = task[y]
  BY <1>0, IsFinished DEF Inv
<1>3. Own(x)'
  BY <1>0, <1>2, IdleOwn DEF Inv
<1>4. Typed'
  BY <1>0, <1>1, <1>2 DEF Inv, Typed, TypeOK
<1> QED  BY <1>0, <1>1, <1>2, <1>3, <1>4, Calm

-----------------------------------------------------------------------------
(* A crash takes the process's tasks and its lock together. *)
LEMMA CrashKeeps ==
    ASSUME Inv, NEW p \in Procs, Crash(p)
    PROVE  Inv'
<1>0. UNCHANGED <<row, wa, archive, orphans>> /\ Trouble
  BY DEF Crash
<1>1. /\ client' \in [Procs -> Regs \cup {NoReg}] /\ client'[p] = NoReg
      /\ \A q \in Procs : q # p => client'[q] = client[q]
  BY DEF Crash, Inv, Typed, TypeOK
<1>2. Idle \in TaskStates
  BY DEF Idle, TaskStates, Steps, NoReg
<1>3. /\ task' \in [Tasks -> TaskStates]
      /\ \A y \in Tasks : task'[y] = IF y[1] = p THEN Idle ELSE task[y]
  BY <1>2 DEF Crash, Inv, Typed, TypeOK
<1>4. lock' = IF lock # NoOne /\ lock[1] = p THEN NoOne ELSE lock
  BY DEF Crash
<1>5. Typed'
  <2>1. claimed' \subseteq Procs /\ lock' \in {NoOne, lock}
    BY <1>4 DEF Crash, Inv, Typed, TypeOK
  <2> QED  BY <1>0, <1>1, <1>3, <2>1, TroubleTyped DEF Inv, Typed, TypeOK
<1>6. Locks'
  <2>1. \A q : Running(q)[1] = q
    BY DEF Running
  <2>2. \A q \in Procs : q # p => (lock' = Running(q) <=> lock = Running(q))
    BY <1>4, <2>1, ClientNames
  <2>3. lock' # Running(p)
    BY <1>4, <2>1, ClientNames
  <2> QED  BY <1>1, <2>2, <2>3 DEF Inv, Locks
<1>7. Mild
  BY <1>0, SameRow
<1>8. \A y \in Tasks : (task'[y] = task[y] /\ Undisturbed(y)) \/ Own(y)'
  <2> SUFFICES ASSUME NEW y \in Tasks
               PROVE  (task'[y] = task[y] /\ Undisturbed(y)) \/ Own(y)'
    OBVIOUS
  <2>1. CASE y[1] = p
    BY <1>0, <1>3, <2>1, IdleOwn DEF Inv
  <2>2. CASE y[1] # p
    <3>1. task'[y] = task[y] /\ client'[y[1]] = client[y[1]]
      BY <1>1, <1>3, <2>2, TaskNames
    <3>2. lock' = y <=> lock = y
      BY <1>4, <2>2, NoOneIsNoTask
    <3> QED  BY <1>0, <1>7, <3>1, <3>2, MildUndisturbed DEF Inv, Typed, TypeOK
  <2> QED  BY <2>1, <2>2
<1>9. \A y \in Tasks : Own(y)'
  BY <1>5, <1>8, TaskParts
<1>10. RowInv'
  BY <1>0, <1>7, MildRow DEF Inv
<1> QED  BY <1>5, <1>6, <1>9, <1>10 DEF Inv

-----------------------------------------------------------------------------
LEMMA InitHolds == Init => Inv
<1> SUFFICES ASSUME Init
             PROVE  Inv
  OBVIOUS
<1>1. /\ 1 \in Regs /\ 0 \in Nat /\ 0 \in 0 .. MaxDeletes /\ 0 \in 0 .. MaxTroubles
      /\ 0 \in 0 .. Batches /\ Batches \in 0 .. Batches /\ Batches + 0 <= Batches
  <2>1. MaxDeletes \in Nat /\ MaxTroubles \in Nat /\ Batches \in Nat /\ MaxRegs \in Nat \ {0}
    BY DeletionAssumption
  <2> QED  BY <2>1 DEF Regs
<1>2. /\ row.exists /\ row.deletedAt = 0 /\ ~row.due /\ ~row.started /\ row.left = NoReg
      /\ wa.session = 1 /\ wa.last = 1 /\ ~wa.other
  BY DEF Init
<1>3. \A x \in Tasks : task[x] = Idle
  BY DEF Init
<1>4. Typed
  <2>1. row \in Rows
    BY <1>1 DEF Init, Rows, NoReg
  <2>2. wa \in WaStates
    BY <1>1 DEF Init, WaStates
  <2>3. task \in [Tasks -> TaskStates]
    BY DEF Init, Idle, TaskStates, Steps, NoReg
  <2>4. used \in [deletes : 0 .. MaxDeletes, troubles : 0 .. MaxTroubles]
    BY <1>1 DEF Init
  <2>5. client \in [Procs -> Regs \cup {NoReg}]
    BY DEF Init
  <2>6. archive \in 0 .. Batches /\ orphans \in 0 .. Batches /\ archive + orphans <= Batches
    BY <1>1 DEF Init
  <2>7. lock = NoOne /\ claimed = {}
    BY DEF Init
  <2> QED  BY <2>1, <2>2, <2>3, <2>4, <2>5, <2>6, <2>7 DEF Typed, TypeOK, WaStates
<1>5. RowInv
  BY <1>2 DEF RowInv, LifeInv, RecoveredHonest, Settled, Numbered, Relinked, Live, Excluded, NoReg
<1>6. Locks
  BY ClientNames DEF Init, Locks
<1>7. \A x \in Tasks : Own(x)
  <2>1. Idle.step = "idle" /\ Idle.reg = NoReg
    BY DEF Idle
  <2> QED  BY <1>2, <1>3, <2>1 DEF Own, Stamped, Asked, Asking, OfItsOwn, Older, Emptied, At, NoReg
<1> QED  BY <1>4, <1>5, <1>6, <1>7 DEF Inv

LEMMA TaskStepKeeps ==
    ASSUME Inv, NEW x \in Tasks, TaskStep(x)
    PROVE  Inv'
<1>1. CASE Unlink(x)
  BY <1>1, RecheckKeeps, LogoutKeeps, RecordKeeps, RecordUnaskedKeeps DEF Unlink
<1>2. CASE DeleteStep(x)
  BY <1>2, QuarantineKeeps, UnlinkDeletedKeeps, DeleteEndKeeps DEF DeleteStep
<1>3. CASE Purge(x)
  BY <1>3, PurgeStartKeeps, PurgeBatchKeeps, DeleteReleasedKeeps, PurgeEndKeeps DEF Purge
<1>4. CASE PassStep(x)
  BY <1>4, PassBeginKeeps, RetryLeftoverKeeps, ConfirmLeftoverKeeps, DeleteOrphansKeeps DEF PassStep
<1>5. CASE MoveStep(x)
  BY <1>5, PauseForMoveKeeps, MoveHaltKeeps, TransferPersonalKeeps, UndoMovePauseKeeps DEF MoveStep
<1> QED  BY <1>1, <1>2, <1>3, <1>4, <1>5 DEF TaskStep

LEMMA NextKeeps == Inv /\ [Next]_vars => Inv'
<1> SUFFICES ASSUME Inv, [Next]_vars
             PROVE  Inv'
  OBVIOUS
<1>1. CASE \E p \in Procs : \/ Claim(p) \/ Start(p) \/ Release(p) \/ LoggedOut(p)
                            \/ Banned(p) \/ Crash(p)
  BY <1>1, ClaimKeeps, StartKeeps, ReleaseKeeps, LoggedOutKeeps, BannedKeeps, CrashKeeps
<1>2. CASE PhoneUnlinks \/ Link \/ Pause \/ Resume \/ Recover \/ Expire
  BY <1>2, PhoneUnlinksKeeps, LinkKeeps, PauseKeeps, ResumeKeeps, RecoverKeeps, ExpireKeeps
<1>3. CASE \E x \in Tasks : DeleteBegin(x) \/ PurgeNow(x) \/ MoveBegin(x) \/ TaskStep(x)
  BY <1>3, DeleteBeginKeeps, PurgeNowKeeps, MoveBeginKeeps, TaskStepKeeps
<1>4. CASE UNCHANGED vars
  <2>1. UNCHANGED <<row, wa, lock, client, task, archive, orphans, used, claimed>>
    BY <1>4 DEF vars
  <2>2. Typed'
    BY <2>1 DEF Inv, Typed, TypeOK
  <2> QED  BY <2>1, <2>2, SameRow, Still
<1> QED  BY <1>1, <1>2, <1>3, <1>4 DEF Next

(* The invariant: who holds the lock, what the row says, and what each     *)
(* request and pass rests on.                                              *)
THEOREM DeletionInvariant == Spec => []Inv
  BY InitHolds, NextKeeps, PTL DEF Spec

(* Devices.Unlink and the janitor's retry ask WhatsApp for a logout only   *)
(* while the deletion they act for stands; and a number that a deletion or *)
(* a purge ended never comes back as one that looks resumable.             *)
THEOREM DeletionIsSafe == Spec => []DeletionSafe
<1>1. Inv => DeletionSafe
  BY DEF Inv, Typed, RowInv, DeletionSafe, LogoutOnlyExcluded, Own, OfItsOwn
<1> QED  BY <1>1, DeletionInvariant, PTL

-----------------------------------------------------------------------------
(* What a step takes away.  Most leave the session as it is, and the row of *)
(* a number that is not live.                                              *)
Quiet == wa'.session = wa.session /\ (row' = row \/ Live)

LEMMA QuietHolds == Quiet => RelinkedSurvives /\ OutcomeStands
  BY DEF Quiet, RelinkedSurvives, OutcomeStands, Live

LEMMA RecordHolds ==
    ASSUME Inv, NEW x \in Tasks, Record(x) \/ RecordUnasked(x)
    PROVE  RelinkedSurvives /\ OutcomeStands
<1>1. wa' = wa /\ (row.left = NoReg => row' = row)
  BY DEF Record, RecordUnasked, RecordedRow
<1> QED  BY <1>1 DEF RelinkedSurvives, OutcomeStands

(* A pass's logout is by a fingerprint that no phone linked again has. *)
LEMMA LogoutHolds ==
    ASSUME Inv, NEW x \in Tasks, Logout(x)
    PROVE  RelinkedSurvives /\ OutcomeStands
<1>1. row' = row
  BY DEF Logout
<1>2. PICK outcome \in {"ok", "lost", "failed", "dead"} : LogoutOutcome(x, outcome)
  BY DEF Logout
<1>3. SUFFICES ASSUME wa.other, wa'.session # wa.session
               PROVE  wa'.endedBy \notin {"janitor", "purge"}
  BY <1>1 DEF RelinkedSurvives, OutcomeStands
<1>4. outcome \in {"ok", "dead"} /\ wa.session = task[x].reg /\ wa.session # NoReg
  BY <1>2, <1>3 DEF LogoutOutcome, Inv, Typed, TypeOK
<1>5. x \notin Passes
  BY <1>3, <1>4 DEF Inv, Own, Older
<1> QED  BY <1>2, <1>4, <1>5 DEF LogoutOutcome, Inv, Typed, TypeOK

LEMMA PurgeStartHolds ==
    ASSUME Inv, NEW x \in Tasks, PurgeStart(x)
    PROVE  RelinkedSurvives /\ OutcomeStands
<1>1. wa.other => wa'.session = wa.session
  BY DEF PurgeStart, Inv, RowInv, Relinked
<1>2. row'.left = row.left /\ row'.status = row.status /\ row'.reason = row.reason
  BY DEF PurgeStart, Inv, Typed, TypeOK, Rows
<1> QED  BY <1>1, <1>2 DEF RelinkedSurvives, OutcomeStands

LEMMA RowHolds ==
    ASSUME Inv, Recover \/ Expire \/ (\E x \in Tasks : PurgeEnd(x))
    PROVE  RelinkedSurvives /\ OutcomeStands
<1>1. wa' = wa
  BY DEF Recover, Expire, PurgeEnd
<1>2. CASE Recover
  <2>1. row.deletedAt # 0
    BY <1>2 DEF Recover, Excluded
  <2>2. row'.deletedAt = 0
    BY <1>2 DEF Recover, RecoveredRow, Inv, Typed, TypeOK, Rows
  <2> QED  BY <1>1, <2>1, <2>2 DEF RelinkedSurvives, OutcomeStands
<1>3. CASE Expire
  BY <1>1, <1>3 DEF Expire, RelinkedSurvives, OutcomeStands, Inv, Typed, TypeOK, Rows
<1>4. CASE \E x \in Tasks : PurgeEnd(x)
  BY <1>1, <1>4 DEF PurgeEnd, RelinkedSurvives, OutcomeStands, Inv, Typed, TypeOK, Rows
<1> QED  BY <1>2, <1>3, <1>4

LEMMA SessionHolds ==
    ASSUME Inv, Link \/ \E p \in Procs : LoggedOut(p)
    PROVE  RelinkedSurvives /\ OutcomeStands
<1>1. row' = row \/ Live
  BY DEF Link, LoggedOut
<1>2. OutcomeStands
  BY <1>1 DEF OutcomeStands, Live
<1>3. CASE Link
  <2>1. wa'.session = wa.last + 1
    BY <1>3 DEF Link, Inv, Typed, TypeOK
  <2>2. wa.last + 1 # NoReg
    BY DEF Inv, Typed, TypeOK, Regs, NoReg
  <2> QED  BY <1>2, <2>1, <2>2 DEF RelinkedSurvives
<1>4. CASE \E p \in Procs : LoggedOut(p)
  <2>1. wa'.endedBy = "whatsapp"
    BY <1>4 DEF LoggedOut, Inv, Typed, TypeOK
  <2> QED  BY <1>2, <2>1 DEF RelinkedSurvives
<1> QED  BY <1>3, <1>4

LEMMA QuietTaskSteps ==
    ASSUME Inv, NEW x \in Tasks,
           \/ Recheck(x) \/ DeleteStep(x) \/ PurgeBatch(x) \/ DeleteReleased(x)
           \/ PassStep(x) \/ MoveStep(x)
    PROVE  Quiet
<1>1. CASE Recheck(x) \/ DeleteStep(x)
  BY <1>1 DEF Quiet, Recheck, DeleteStep, Quarantine, UnlinkDeleted, DeleteEnd
<1>2. CASE PurgeBatch(x) \/ DeleteReleased(x) \/ PassStep(x)
  BY <1>2 DEF Quiet, PurgeBatch, DeleteReleased, PassStep, PassBegin, RetryLeftover, ConfirmLeftover,
              DeleteOrphans
<1>3. CASE MoveStep(x)
  BY <1>3 DEF Quiet, MoveStep, PauseForMove, MoveHalt, TransferPersonal, UndoMovePause, Movable
<1> QED  BY <1>1, <1>2, <1>3

LEMMA StepsKeepTheirs == Inv /\ [Next]_vars => RelinkedSurvives /\ OutcomeStands
<1> SUFFICES ASSUME Inv, [Next]_vars
             PROVE  RelinkedSurvives /\ OutcomeStands
  OBVIOUS
<1>1. CASE \E p \in Procs : Claim(p) \/ Start(p) \/ Release(p) \/ Banned(p) \/ Crash(p)
  <2>1. Quiet
    BY <1>1 DEF Quiet, Claim, Start, Release, Banned, Crash
  <2> QED  BY <2>1, QuietHolds
<1>2. CASE PhoneUnlinks \/ Pause \/ Resume
  <2>1. Quiet
    BY <1>2 DEF Quiet, PhoneUnlinks, Pause, Resume, Inv, Typed, TypeOK
  <2> QED  BY <2>1, QuietHolds
<1>3. CASE Link \/ \E p \in Procs : LoggedOut(p)
  BY <1>3, SessionHolds
<1>4. CASE Recover \/ Expire
  BY <1>4, RowHolds
<1>5. CASE \E x \in Tasks : DeleteBegin(x) \/ PurgeNow(x) \/ MoveBegin(x)
  <2>1. Quiet
    BY <1>5 DEF Quiet, DeleteBegin, PurgeNow, MoveBegin
  <2> QED  BY <2>1, QuietHolds
<1>6. CASE \E x \in Tasks : TaskStep(x)
  <2>1. PICK x \in Tasks : TaskStep(x)
    BY <1>6
  <2>2. CASE Logout(x)
    BY <2>2, LogoutHolds
  <2>3. CASE Record(x) \/ RecordUnasked(x)
    BY <2>3, RecordHolds
  <2>4. CASE PurgeStart(x)
    BY <2>4, PurgeStartHolds
  <2>5. CASE PurgeEnd(x)
    BY <2>5, RowHolds
  <2>6. CASE \/ Recheck(x) \/ DeleteStep(x) \/ PurgeBatch(x) \/ DeleteReleased(x)
             \/ PassStep(x) \/ MoveStep(x)
    BY <2>6, QuietTaskSteps, QuietHolds
  <2> QED  BY <2>1, <2>2, <2>3, <2>4, <2>5, <2>6 DEF TaskStep, Unlink, Purge
<1>7. CASE UNCHANGED vars
  <2>1. Quiet
    BY <1>7 DEF Quiet, vars
  <2> QED  BY <2>1, QuietHolds
<1> QED  BY <1>1, <1>2, <1>3, <1>4, <1>5, <1>6, <1>7 DEF Next

(* The janitor's retry and PurgeDevice go by a session's fingerprint, so a *)
(* phone linked again under the same JID is spared; and RecordUnlink       *)
(* writes an outcome once.                                                 *)
THEOREM DeletionStepsHold == Spec => DeletionSteps
<1>1. Inv /\ [Next]_vars => [RelinkedSurvives /\ OutcomeStands]_vars
  BY StepsKeepTheirs
<1> QED  BY <1>1, DeletionInvariant, PTL DEF Spec, DeletionSteps

-----------------------------------------------------------------------------
(* The number's life: a step is one of NumberLife's, or shows nothing. *)
Unseen == /\ row'.exists = row.exists /\ row'.deletedAt = row.deletedAt
          /\ row'.started = row.started /\ row'.due = row.due
          /\ archive' = archive

Shown == Life!Next \/ UNCHANGED Life!lifeVars

LEMMA UnseenShown == Unseen => Shown
  BY DEF Unseen, Shown, Life!lifeVars

LEMMA UnseenTaskSteps ==
    ASSUME Inv, NEW x \in Tasks,
           \/ Unlink(x) \/ UnlinkDeleted(x) \/ DeleteEnd(x) \/ DeleteReleased(x)
           \/ PassStep(x) \/ MoveStep(x)
    PROVE  Unseen
<1>1. CASE Recheck(x) \/ Logout(x) \/ UnlinkDeleted(x) \/ DeleteEnd(x)
  BY <1>1 DEF Unseen, Recheck, Logout, UnlinkDeleted, DeleteEnd
<1>2. CASE Record(x) \/ RecordUnasked(x)
  <2>1. task[x].flag \in BOOLEAN
    BY DEF Inv, Typed, TypeOK, TaskStates
  <2>2. Mild /\ archive' = archive
    BY <1>2, <2>1, RecordedMild DEF Record, RecordUnasked
  <2> QED  BY <2>2 DEF Mild, Unseen
<1>3. CASE DeleteReleased(x) \/ PassStep(x)
  BY <1>3 DEF Unseen, DeleteReleased, PassStep, PassBegin, RetryLeftover, ConfirmLeftover, DeleteOrphans
<1>4. CASE PauseForMove(x) \/ MoveHalt(x)
  BY <1>4 DEF Unseen, PauseForMove, MoveHalt, Inv, Typed, TypeOK, Rows
<1>5. CASE TransferPersonal(x)
  BY <1>5 DEF Unseen, TransferPersonal, Inv, Typed, TypeOK, Rows
<1>6. CASE UndoMovePause(x)
  BY <1>6 DEF Unseen, UndoMovePause, Inv, Typed, TypeOK, Rows
<1> QED  BY <1>1, <1>2, <1>3, <1>4, <1>5, <1>6 DEF Unlink, PassStep, MoveStep

LEMMA QuarantineShown ==
    ASSUME Inv, NEW x \in Tasks, Quarantine(x)
    PROVE  Shown
<1>1. CASE UNCHANGED row
  BY <1>1, UnseenShown DEF Unseen, Quarantine
<1>2. CASE Live /\ row' = QuarantinedRow(used.deletes + 1)
  <2>1. used.deletes + 1 # 0
    BY DEF Inv, Typed, TypeOK
  <2>2. /\ row'.exists = row.exists /\ row'.deletedAt = used.deletes + 1
        /\ row'.due = FALSE /\ row'.started = row.started
    BY <1>2 DEF QuarantinedRow, Inv, Typed, TypeOK, Rows
  <2>3. archive' = archive
    BY DEF Quarantine
  <2>4. row.exists /\ row.deletedAt = 0 /\ row.due = FALSE /\ ~row.started
    BY <1>2 DEF Live, Inv, RowInv, LifeInv, Typed, TypeOK, Rows
  <2>5. Life!Delete
    BY <2>1, <2>2, <2>3, <2>4 DEF Life!Delete
  <2> QED  BY <2>5 DEF Shown, Life!Next
<1> QED  BY <1>1, <1>2 DEF Quarantine

LEMMA RecoverShown == ASSUME Inv, Recover PROVE Shown
<1>1. /\ row'.exists = row.exists /\ row'.deletedAt = 0 /\ row'.due = row.due
      /\ row'.started = row.started /\ archive' = archive
  BY DEF Recover, RecoveredRow, Inv, Typed, TypeOK, Rows
<1>2. row.exists /\ row.deletedAt # 0 /\ ~row.due /\ ~row.started
  BY DEF Recover, Excluded
<1>3. Life!Recover
  BY <1>1, <1>2 DEF Life!Recover
<1> QED  BY <1>3 DEF Shown, Life!Next

LEMMA ExpireShown == ASSUME Inv, Expire PROVE Shown
<1>1. /\ row'.exists = row.exists /\ row'.deletedAt = row.deletedAt /\ row'.due = TRUE
      /\ row'.started = row.started /\ archive' = archive
  BY DEF Expire, Inv, Typed, TypeOK, Rows
<1>2. row.exists /\ row.deletedAt # 0
  BY DEF Expire, Excluded
<1>3. Life!Expire
  BY <1>1, <1>2 DEF Life!Expire
<1> QED  BY <1>3 DEF Shown, Life!Next

LEMMA PurgeStartShown == ASSUME Inv, NEW x \in Tasks, PurgeStart(x) PROVE Shown
<1>1. CASE row' = row
  BY <1>1, UnseenShown DEF Unseen, PurgeStart
<1>2. CASE Excluded /\ row' = [row EXCEPT !.started = TRUE, !.due = TRUE]
  <2>1. /\ row'.exists = row.exists /\ row'.deletedAt = row.deletedAt /\ row'.due = TRUE
        /\ row'.started = TRUE /\ archive' = archive
    BY <1>2 DEF PurgeStart, Inv, Typed, TypeOK, Rows
  <2>2. row.exists /\ row.deletedAt # 0 /\ row.started \in BOOLEAN /\ row.due \in BOOLEAN
    BY <1>2 DEF Excluded, Inv, Typed, TypeOK, Rows
  <2>3. CASE row.started
    <3>1. row.due = TRUE /\ row.started = TRUE
      BY <2>2, <2>3 DEF Inv, RowInv, LifeInv
    <3> QED  BY <2>1, <3>1, UnseenShown DEF Unseen
  <2>4. CASE ~row.started
    <3>1. Life!BeginPurge
      BY <2>1, <2>2, <2>4 DEF Life!BeginPurge
    <3> QED  BY <3>1 DEF Shown, Life!Next
  <2> QED  BY <2>3, <2>4
<1> QED  BY <1>1, <1>2 DEF PurgeStart

LEMMA PurgeBatchShown == ASSUME Inv, NEW x \in Tasks, PurgeBatch(x) PROVE Shown
<1>1. row' = row
  BY DEF PurgeBatch
<1>2. CASE archive' = archive
  BY <1>1, <1>2, UnseenShown DEF Unseen
<1>3. CASE row.exists /\ row.started /\ archive > 0 /\ archive' = archive - 1
  <2>1. row.deletedAt # 0
    BY <1>3 DEF Inv, RowInv, LifeInv
  <2>2. Life!DropBatch
    BY <1>1, <1>3, <2>1 DEF Life!DropBatch
  <2> QED  BY <2>2 DEF Shown, Life!Next
<1> QED  BY <1>2, <1>3 DEF PurgeBatch

LEMMA PurgeEndShown == ASSUME Inv, NEW x \in Tasks, PurgeEnd(x) PROVE Shown
<1>1. archive' = archive /\ archive = 0
  BY DEF PurgeEnd, Inv, Own, Emptied
<1>2. CASE row' = row
  BY <1>1, <1>2, UnseenShown DEF Unseen
<1>3. CASE row.exists /\ row.started /\ row' = [row EXCEPT !.exists = FALSE, !.left = NoReg]
  <2>1. row'.exists = FALSE /\ row'.due = row.due
    BY <1>3 DEF Inv, Typed, TypeOK, Rows
  <2>2. row.deletedAt # 0
    BY <1>3 DEF Inv, RowInv, LifeInv
  <2>3. Life!EndPurge
    BY <1>1, <1>3, <2>1, <2>2 DEF Life!EndPurge
  <2> QED  BY <2>3 DEF Shown, Life!Next
<1> QED  BY <1>2, <1>3 DEF PurgeEnd

LEMMA LifeSteps == Inv /\ [Next]_vars => Shown
<1> SUFFICES ASSUME Inv, [Next]_vars
             PROVE  Shown
  OBVIOUS
<1>1. CASE \E p \in Procs : \/ Claim(p) \/ Start(p) \/ Release(p) \/ LoggedOut(p)
                            \/ Banned(p) \/ Crash(p)
  <2>1. Unseen
    BY <1>1 DEF Unseen, Claim, Start, Release, LoggedOut, Banned, Crash, Inv, Typed, TypeOK, Rows
  <2> QED  BY <2>1, UnseenShown
<1>2. CASE PhoneUnlinks \/ Link \/ Pause \/ Resume
  <2>1. Unseen
    BY <1>2 DEF Unseen, PhoneUnlinks, Link, Pause, Resume, Inv, Typed, TypeOK, Rows
  <2> QED  BY <2>1, UnseenShown
<1>3. CASE Recover
  BY <1>3, RecoverShown
<1>4. CASE Expire
  BY <1>4, ExpireShown
<1>5. CASE \E x \in Tasks : DeleteBegin(x) \/ PurgeNow(x) \/ MoveBegin(x)
  <2>1. Unseen
    BY <1>5 DEF Unseen, DeleteBegin, PurgeNow, MoveBegin
  <2> QED  BY <2>1, UnseenShown
<1>6. CASE \E x \in Tasks : TaskStep(x)
  <2>1. PICK x \in Tasks : TaskStep(x)
    BY <1>6
  <2>2. CASE Quarantine(x)
    BY <2>2, QuarantineShown
  <2>3. CASE PurgeStart(x) \/ PurgeBatch(x) \/ PurgeEnd(x)
    BY <2>3, PurgeStartShown, PurgeBatchShown, PurgeEndShown
  <2>4. CASE \/ Unlink(x) \/ UnlinkDeleted(x) \/ DeleteEnd(x) \/ DeleteReleased(x)
             \/ PassStep(x) \/ MoveStep(x)
    BY <2>4, UnseenTaskSteps, UnseenShown
  <2> QED  BY <2>1, <2>2, <2>3, <2>4 DEF TaskStep, DeleteStep, Purge
<1>7. CASE UNCHANGED vars
  <2>1. Unseen
    BY <1>7 DEF Unseen, vars
  <2> QED  BY <2>1, UnseenShown
<1> QED  BY <1>1, <1>2, <1>3, <1>4, <1>5, <1>6, <1>7 DEF Next

(* Deleting a number does what NumberLife promises, step by step: the      *)
(* archive is whole until the purge begins, a purge is never undone, and a *)
(* number is gone only when nothing of it is left.  (That a purge ends, the *)
(* promise's fairness, is model-checked.)                                  *)
THEOREM LifeIsKept == Spec => Life!Init /\ [][Life!Next]_(Life!lifeVars)
<1>1. Init => Life!Init
  <2> SUFFICES ASSUME Init
               PROVE  Life!Init
    OBVIOUS
  <2>1. row.exists /\ row.deletedAt = 0 /\ archive = Batches
    BY DEF Init
  <2>2. row.due = FALSE
    BY DEF Init
  <2> QED  BY <2>1, <2>2 DEF Life!Init
<1>2. Inv /\ [Next]_vars => [Life!Next]_(Life!lifeVars)
  BY LifeSteps DEF Shown
<1> QED  BY <1>1, <1>2, DeletionInvariant, PTL DEF Spec
=============================================================================
