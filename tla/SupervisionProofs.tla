-------------------------- MODULE SupervisionProofs --------------------------
(***************************************************************************)
(* The lock and the registries agree, for any number of processes, clients *)
(* and faults: a registered device holds the lock, and a lock that is held *)
(* has someone who will release it.                                        *)
(***************************************************************************)
EXTENDS Supervision, TLAPS

(* What holds in every reachable state. *)
Agreement ==
    /\ Local /\ FreshClients /\ StoppedIsOut /\ InstallsUnderLock
    /\ RegisteredUnderLock /\ LockHasOwner

Inv == TypeOK /\ Agreement

-----------------------------------------------------------------------------
(* A goroutine belongs to a process, and each process has the three. *)
LEMMA TaskParts ==
    /\ \A x \in Tasks : x[1] \in Procs /\ x[2] \in {"tick", "start", "stop"}
                        /\ x = <<x[1], x[2]>>
    /\ \A p \in Procs : \A k \in {"tick", "start", "stop"} :
         <<p, k>> \in Tasks /\ <<p, k>>[1] = p /\ <<p, k>>[2] = k
  BY DEF Tasks

(* A client is never nil, and belongs to a process. *)
LEMMA ClientParts ==
    /\ NoClient \notin Clients
    /\ \A c \in Clients : c[1] \in Procs
    /\ \A p \in Procs : \A i \in 1 .. PerProc :
         <<p, i>> \in Clients /\ <<p, i>>[1] = p
  BY SupervisionAssumption DEF Clients

(* Spending from a bound keeps the counters typed and forgets no lost lock. *)
LEMMA SpendTyped ==
    ASSUME used \in [Bounds -> Nat], NEW b \in Bounds, Spend(b)
    PROVE  used' \in [Bounds -> Nat] /\ (used'["lost"] = 0 => used["lost"] = 0)
  BY DEF Spend, Bounds

(* What every step keeps, whatever it does to the goroutines. *)
WorldTyped ==
    /\ row \in [paused : BOOLEAN, live : BOOLEAN]
    /\ session \in {"linked", "revoked", "gone"}
    /\ workspace \in {"active", "denied", "inactive"}
    /\ running \subseteq Clients
    /\ up \subseteq Clients
    /\ used \in [Bounds -> Nat]

(* A lock once lost stays counted. *)
StillLost == used'["lost"] = 0 => used["lost"] = 0

(* A step of one goroutine that starts nothing, stops nothing new and leaves
   the lock, the registries and the processes alone. *)
Quiet(x, t) ==
    /\ x[1] \in alive /\ t \in TaskStates
    /\ task' = [task EXCEPT ![x] = t]
    /\ lock' = lock /\ entry' = entry /\ alive' = alive
    /\ closing' \subseteq alive
    /\ WorldTyped' /\ StillLost
    /\ task[x].step # "install"
    /\ t.step \notin {"lock", "install"}
    /\ t.step \in {"begin", "connect", "dial"} => t.own # NoClient
    /\ t.own \in {NoClient, task[x].own}
    /\ t.target \in {NoClient, task[x].target}
    /\ task[x].step \in {"halt", "cut", "release"} <=>
         t.step \in {"halt", "cut", "release"}
    /\ task[x].step \in {"halt", "cut", "release"} =>
         t.target = task[x].target

(* Such a step keeps the invariant. *)
LEMMA QuietStep ==
    ASSUME Inv, NEW x \in Tasks, NEW t, Quiet(x, t)
    PROVE  Inv'
<1> USE DEF Quiet
<1>1. \A y \in Tasks : task'[y] = IF y = x THEN t ELSE task[y]
  BY DEF Inv, TypeOK
<1>2. Local'
  BY <1>1 DEF Inv, Agreement, Local, TypeOK
<1>3. FreshClients'
  BY <1>1 DEF Inv, Agreement, FreshClients
<1>4. StoppedIsOut'
  BY <1>1 DEF Inv, Agreement, StoppedIsOut
<1>5. InstallsUnderLock' /\ RegisteredUnderLock'
  BY <1>1 DEF Inv, Agreement, InstallsUnderLock, RegisteredUnderLock,
              StillLost
<1>6. LockHasOwner'
  BY <1>1 DEF Inv, Agreement, LockHasOwner
<1>7. TypeOK'
  BY DEF Inv, TypeOK, WorldTyped
<1> QED BY <1>2, <1>3, <1>4, <1>5, <1>6, <1>7 DEF Inv, Agreement

(* The records the goroutines move to are typed. *)
LEMMA TaskRecords ==
    ASSUME TypeOK, NEW x \in Tasks
    PROVE  /\ task[x] \in TaskStates
           /\ IdleTask \in TaskStates
           /\ \A s \in Starting \cup Stopping \cup Between :
                /\ [task[x] EXCEPT !.step = s] \in TaskStates
                /\ [IdleTask EXCEPT !.step = s] \in TaskStates
                /\ \A l \in Between :
                     [IdleTask EXCEPT !.step = s, !.then = l] \in TaskStates
<1>1. task[x] \in TaskStates
  BY DEF TypeOK
<1>2. IdleTask \in TaskStates
  BY DEF TaskStates, IdleTask, Between
<1>3. ASSUME NEW u \in TaskStates,
             NEW s \in Starting \cup Stopping \cup Between
      PROVE  /\ [u EXCEPT !.step = s] \in TaskStates
             /\ \A l \in Between :
                  [u EXCEPT !.step = s, !.then = l] \in TaskStates
  BY DEF TaskStates
<1> QED BY <1>1, <1>2, <1>3

(* A goroutine that goes on keeps the client it starts and the one it stops. *)
LEMMA Going ==
    ASSUME TypeOK, NEW x \in Tasks,
           NEW s \in Starting \cup Stopping \cup Between, Goto(x, s)
    PROVE  LET t == [task[x] EXCEPT !.step = s] IN
           /\ task' = [task EXCEPT ![x] = t]
           /\ t \in TaskStates
           /\ t.step = s /\ t.own = task[x].own /\ t.target = task[x].target
<1>1. task[x] \in TaskStates
  BY DEF TypeOK
<1>2. [task[x] EXCEPT !.step = s] \in TaskStates
  BY TaskRecords
<1>3. task' = [task EXCEPT ![x] = [task[x] EXCEPT !.step = s]]
  BY DEF Goto, TypeOK
<1> QED BY <1>1, <1>2, <1>3 DEF TaskStates

(* A quiet step that only moves on keeps the invariant. *)
LEMMA QuietGoto ==
    ASSUME Inv, NEW x \in Tasks,
           NEW s \in Starting \cup Stopping \cup Between, Goto(x, s),
           x[1] \in alive, UNCHANGED <<lock, entry, alive>>,
           closing' \subseteq alive, WorldTyped', StillLost,
           task[x].step # "install", s \notin {"lock", "install"},
           s \in {"begin", "connect", "dial"} => task[x].own # NoClient,
           task[x].step \in {"halt", "cut", "release"} <=>
             s \in {"halt", "cut", "release"}
    PROVE  Inv'
<1> DEFINE t == [task[x] EXCEPT !.step = s]
<1>1. /\ task' = [task EXCEPT ![x] = t]
      /\ t \in TaskStates
      /\ t.step = s /\ t.own = task[x].own /\ t.target = task[x].target
  BY Going DEF Inv
<1> HIDE DEF t
<1>2. Quiet(x, t)
  BY <1>1 DEF Quiet
<1> QED BY <1>2, QuietStep

(* A quiet step that finishes a start or a pass keeps the invariant. *)
LEMMA QuietFinish ==
    ASSUME Inv, NEW x \in Tasks,
           NEW s \in Starting \cup Stopping \cup Between, Finish(x, s),
           x[1] \in alive, UNCHANGED <<lock, entry, alive>>,
           closing' \subseteq alive, WorldTyped', StillLost,
           task[x].step \notin {"install", "halt", "cut", "release"},
           s \notin {"lock", "install", "begin", "connect", "dial",
                    "halt", "cut", "release"}
    PROVE  Inv'
<1> DEFINE t == [IdleTask EXCEPT !.step = s]
<1>1. /\ task' = [task EXCEPT ![x] = t] /\ t \in TaskStates
      /\ t.step = s /\ t.own = NoClient /\ t.target = NoClient
  BY TaskRecords DEF Finish, Inv, IdleTask
<1> HIDE DEF t
<1>2. Quiet(x, t)
  BY <1>1 DEF Quiet
<1> QED BY <1>2, QuietStep

(* What a failed start does next. *)
LEMMA FailureSteps ==
    ASSUME NEW x \in Tasks, NEW l \in {"idle", "lost"}
    PROVE  AfterFailure(x, l) \in {"restore", "idle", "lost"}
  BY DEF AfterFailure

-----------------------------------------------------------------------------
(* Registry.start keeps the invariant: the steps that neither reserve, lock,
   install nor cancel. *)
LEMMA StartQuiet ==
    ASSUME Inv, NEW x \in Tasks,
           \/ StartNoSession(x) \/ StartDenied(x) \/ StartHeldHere(x)
           \/ Begin(x) \/ Attempt(x) \/ Connect(x) \/ ConnectFails(x)
           \/ ConnectGivesUp(x) \/ StartFailed(x)
           \/ RecheckPaused(x) \/ RecheckLive(x)
    PROVE  Inv'
<1> USE DEF Inv, WorldTyped, StillLost, At, Quiet, world, registry, procs,
            Starting, Stopping, Between
<1>0. /\ TypeOK /\ task[x] \in TaskStates
      /\ task[x].own \in Clients \cup {NoClient}
      /\ task[x].step \in {"lock", "install", "begin", "connect", "dial"} =>
           task[x].own \in Clients /\ task[x].own # NoClient
  <2>1. TypeOK /\ task[x] \in TaskStates
    BY TaskRecords
  <2>2. task[x].own \in Clients \cup {NoClient}
    BY <2>1 DEF TaskStates
  <2>3. task[x].step \in {"lock", "install", "begin", "connect", "dial"} =>
          task[x].own # NoClient
    BY DEF Agreement, Local
  <2> QED BY <2>1, <2>2, <2>3
<1>a. \A b \in Bounds : Spend(b) => /\ used' \in [Bounds -> Nat]
                                    /\ StillLost
  BY SpendTyped DEF TypeOK
<1>b. "faults" \in Bounds
  BY DEF Bounds
<1>1. CASE StartNoSession(x)
  <2>1. Quiet(x, [IdleTask EXCEPT !.step = AfterFailure(x, "lost"),
                                  !.then = "lost"])
    BY <1>0, <1>1, <1>a, <1>b, TaskRecords, FailureSteps
       DEF StartNoSession, FailsWith, IdleTask, TypeOK
  <2> QED BY <2>1, QuietStep
<1>2. CASE StartDenied(x)
  <2>1. Quiet(x, [IdleTask EXCEPT !.step = AfterFailure(x, "idle"),
                                  !.then = "idle"])
    BY <1>0, <1>2, <1>a, <1>b, TaskRecords, FailureSteps
       DEF StartDenied, FailsWith, IdleTask, TypeOK
  <2> QED BY <2>1, QuietStep
<1>3. CASE StartHeldHere(x)
  <2>1. Quiet(x, [IdleTask EXCEPT
                    !.step = IF x[2] = "start" THEN "recheck" ELSE "idle"])
    BY <1>0, <1>3, <1>a, <1>b, TaskRecords
       DEF StartHeldHere, AlreadyRunning, Finish, IdleTask, TypeOK
  <2> QED BY <2>1, QuietStep
<1>4. CASE Begin(x)
  <2>1. WorldTyped' /\ StillLost
    BY <1>0, <1>4, <1>a, <1>b DEF Begin, TypeOK
  <2> QED BY <1>0, <1>4, <2>1, QuietGoto DEF Begin, TypeOK
<1>5. CASE Attempt(x)
  <2>1. WorldTyped' /\ StillLost
    BY <1>0, <1>5, <1>a, <1>b DEF Attempt, TypeOK
  <2> QED BY <1>0, <1>5, <2>1, QuietGoto DEF Attempt, TypeOK
<1>6. CASE Connect(x)
  <2>1. Quiet(x, [IdleTask EXCEPT !.step = "recheck"])
    BY <1>0, <1>6, <1>a, <1>b, TaskRecords
       DEF Connect, Finish, IdleTask, TypeOK
  <2> QED BY <2>1, QuietStep
<1>7. CASE ConnectFails(x)
  <2>1. WorldTyped' /\ StillLost
    BY <1>0, <1>7, <1>a, <1>b DEF ConnectFails, TypeOK
  <2> QED BY <1>0, <1>7, <2>1, QuietGoto DEF ConnectFails, TypeOK
<1>8. CASE ConnectGivesUp(x)
  <2>1. WorldTyped' /\ StillLost
    BY <1>0, <1>8, <1>a, <1>b DEF ConnectGivesUp, TypeOK
  <2> QED BY <1>0, <1>8, <2>1, QuietGoto DEF ConnectGivesUp, TypeOK
<1>9. CASE StartFailed(x)
  <2> DEFINE t == [IdleTask EXCEPT !.step = "unregister",
                     !.lifted = task[x].lifted, !.then = AfterFailure(x, "idle")]
  <2>1. t \in TaskStates
    BY <1>0, FailureSteps DEF TaskStates, IdleTask
  <2>2. Quiet(x, t)
    BY <1>0, <1>9, <2>1 DEF StartFailed, IdleTask, TypeOK
  <2> QED BY <2>2, QuietStep
<1>10. CASE RecheckPaused(x)
  <2>1. Quiet(x, [IdleTask EXCEPT !.step = "unregister"])
    BY <1>0, <1>10, <1>a, <1>b, TaskRecords
       DEF RecheckPaused, Finish, IdleTask, TypeOK
  <2> QED BY <2>1, QuietStep
<1>11. CASE RecheckLive(x)
  <2>1. Quiet(x, [IdleTask EXCEPT !.step = "idle"])
    BY <1>0, <1>11, <1>a, <1>b, TaskRecords
       DEF RecheckLive, Finish, IdleTask, TypeOK
  <2> QED BY <2>1, QuietStep
<1> QED BY <1>1, <1>2, <1>3, <1>4, <1>5, <1>6, <1>7, <1>8, <1>9, <1>10,
         <1>11

-----------------------------------------------------------------------------
(* The supervisor's pass, and the requests' own writes, keep it. *)
LEMMA CallersQuiet ==
    ASSUME Inv, NEW x \in Tasks,
           \/ TickHeld(x) \/ TickList(x) \/ TickListFails(x) \/ TickClaim(x)
           \/ TickSkip(x) \/ TickRelease(x) \/ RecordLost(x)
           \/ LiftPause(x) \/ LiftPauseFails(x) \/ RestorePause(x)
           \/ StopStatus(x)
    PROVE  Inv'
<1> USE DEF Inv, WorldTyped, StillLost, At, world, registry, procs,
            Starting, Stopping, Between
<1>0. TypeOK /\ task[x] \in TaskStates
  BY TaskRecords
<1>a. \A b \in Bounds : Spend(b) => /\ used' \in [Bounds -> Nat]
                                    /\ StillLost
  BY SpendTyped DEF TypeOK
<1>b. {"faults", "requests", "exits"} \subseteq Bounds
  BY DEF Bounds
<1>1. CASE TickHeld(x)
  <2> DEFINE t == [task[x] EXCEPT !.step = "list", !.held = entry[x[1]].kind]
  <2>1. x[1] \in Procs /\ entry[x[1]].kind \in {"none", "reserved", "device"}
    BY <1>0, TaskParts DEF TypeOK, Entries
  <2>2. /\ t \in TaskStates /\ t.step = "list" /\ t.own = task[x].own
        /\ t.target = task[x].target
    BY <1>0, <2>1 DEF TaskStates
  <2>3. task' = [task EXCEPT ![x] = t]
    BY <1>1 DEF TickHeld, TypeOK
  <2> HIDE DEF t
  <2>4. Quiet(x, t)
    BY <1>0, <1>1, <2>2, <2>3 DEF Quiet, TickHeld, TypeOK
  <2> QED BY <2>4, QuietStep
<1>2. CASE TickList(x)
  <2>1. PICK s \in {"unregister", "idle", "get", "claim"} : Finish(x, s)
    BY <1>2 DEF TickList
  <2>2. WorldTyped' /\ StillLost
    BY <1>0, <1>2 DEF TickList, TypeOK
  <2> QED BY <1>0, <1>2, <2>1, <2>2, QuietFinish DEF TickList, TypeOK
<1>3. CASE TickListFails(x)
  <2>1. WorldTyped' /\ StillLost
    BY <1>0, <1>3, <1>a, <1>b DEF TickListFails, TypeOK
  <2> QED BY <1>0, <1>3, <2>1, QuietFinish DEF TickListFails, TypeOK
<1>4. CASE TickClaim(x)
  <2>1. WorldTyped' /\ StillLost
    BY <1>0, <1>4, <1>a, <1>b DEF TickClaim, TypeOK
  <2> QED BY <1>0, <1>4, <2>1, QuietGoto DEF TickClaim, TypeOK
<1>5. CASE TickSkip(x)
  <2>1. WorldTyped' /\ StillLost
    BY <1>0, <1>5, <1>a, <1>b DEF TickSkip, TypeOK
  <2> QED BY <1>0, <1>5, <2>1, QuietFinish DEF TickSkip, TypeOK
<1>6. CASE TickRelease(x)
  <2>1. PICK s \in {"unregister", "idle"} : Finish(x, s)
    BY <1>6 DEF TickRelease
  <2>2. WorldTyped' /\ StillLost
    BY <1>0, <1>6 DEF TickRelease, TypeOK
  <2> QED BY <1>0, <1>6, <2>1, <2>2, QuietFinish DEF TickRelease, TypeOK
<1>7. CASE RecordLost(x)
  <2>1. WorldTyped' /\ StillLost
    BY <1>0, <1>7, <1>a, <1>b DEF RecordLost, Writes, TypeOK
  <2> QED BY <1>0, <1>7, <2>1, QuietFinish DEF RecordLost, TypeOK
<1>8. CASE LiftPause(x)
  <2>1. WorldTyped' /\ StillLost
    BY <1>0, <1>8, <1>a, <1>b DEF LiftPause, TypeOK
  <2> QED BY <1>0, <1>8, <2>1, QuietGoto DEF LiftPause, TypeOK
<1>9. CASE RestorePause(x)
  <2>1. PICK s \in {"lost", "idle"} : Finish(x, s)
    BY <1>9 DEF RestorePause
  <2>2. WorldTyped' /\ StillLost
    BY <1>0, <1>9, <1>a, <1>b DEF RestorePause, Writes, TypeOK
  <2> QED BY <1>0, <1>9, <2>1, <2>2, QuietFinish DEF RestorePause, TypeOK
<1>10. CASE StopStatus(x)
  <2>1. WorldTyped' /\ StillLost
    BY <1>0, <1>10, <1>a, <1>b DEF StopStatus, Writes, TypeOK
  <2> QED BY <1>0, <1>10, <2>1, QuietFinish DEF StopStatus, TypeOK
<1>11. CASE LiftPauseFails(x)
  <2>1. WorldTyped' /\ StillLost
    BY <1>0, <1>11, <1>a, <1>b DEF LiftPauseFails, TypeOK
  <2> QED BY <1>0, <1>11, <2>1, QuietFinish DEF LiftPauseFails, TypeOK
<1> QED BY <1>1, <1>2, <1>3, <1>4, <1>5, <1>6, <1>7, <1>8, <1>9, <1>10,
           <1>11

(* The arrival of a request or of a shutdown keeps it. *)
LEMMA ArrivalsQuiet ==
    ASSUME Inv, NEW p \in Procs,
           StartRequest(p) \/ StopRequest(p) \/ Shutdown(p)
    PROVE  Inv'
<1> USE DEF Inv, WorldTyped, StillLost, At, world, registry, procs,
            Starting, Stopping, Between
<1>a. \A b \in Bounds : Spend(b) => /\ used' \in [Bounds -> Nat]
                                    /\ StillLost
  BY SpendTyped DEF TypeOK
<1>b. {"requests", "exits"} \subseteq Bounds
  BY DEF Bounds
<1>1. CASE StartRequest(p)
  <2> DEFINE x == <<p, "start">>
             t == [task[x] EXCEPT !.lifted = row.paused, !.step =
                     IF row.paused THEN "unpause" ELSE "reserve"]
  <2>1. x \in Tasks /\ x[1] = p /\ task[x] \in TaskStates
    BY TaskParts, TaskRecords
  <2>2. task' = [task EXCEPT ![x] = t]
    BY <1>1, <2>1 DEF StartRequest, TypeOK
  <2>3. /\ t \in TaskStates /\ t.step \in {"unpause", "reserve"}
        /\ t.own = task[x].own /\ t.target = task[x].target
    BY <2>1 DEF TaskStates, TypeOK
  <2>4. task[x].step = "idle" /\ p \in alive
    BY <1>1, <2>1 DEF StartRequest
  <2> HIDE DEF x, t
  <2>5. Quiet(x, t)
    BY <1>1, <1>a, <1>b, <2>1, <2>2, <2>3, <2>4 DEF Quiet, StartRequest, TypeOK
  <2> QED BY <2>1, <2>5, QuietStep
<1>2. CASE StopRequest(p)
  <2> DEFINE x == <<p, "stop">>
             t == [task[x] EXCEPT !.step = "unregister", !.then = "status"]
  <2>1. x \in Tasks /\ x[1] = p /\ task[x] \in TaskStates
    BY TaskParts, TaskRecords
  <2>2. task' = [task EXCEPT ![x] = t]
    BY <1>2, <2>1 DEF StopRequest, TypeOK
  <2>3. /\ t \in TaskStates /\ t.step = "unregister"
        /\ t.own = task[x].own /\ t.target = task[x].target
    BY <2>1 DEF TaskStates
  <2>4. task[x].step = "idle" /\ p \in alive
    BY <1>2, <2>1 DEF StopRequest
  <2> HIDE DEF x, t
  <2>5. Quiet(x, t)
    BY <1>2, <1>a, <1>b, <2>1, <2>2, <2>3, <2>4 DEF Quiet, StopRequest, TypeOK
  <2> QED BY <2>1, <2>5, QuietStep
<1>3. CASE Shutdown(p)
  <2> DEFINE x == <<p, "stop">>
             t == [task[x] EXCEPT !.step = "unregister", !.then = "exit"]
  <2>1. x \in Tasks /\ x[1] = p /\ task[x] \in TaskStates
    BY TaskParts, TaskRecords
  <2>2. task' = [task EXCEPT ![x] = t]
    BY <1>3, <2>1 DEF Shutdown, TypeOK
  <2>3. /\ t \in TaskStates /\ t.step = "unregister"
        /\ t.own = task[x].own /\ t.target = task[x].target
    BY <2>1 DEF TaskStates
  <2>4. task[x].step = "idle" /\ p \in alive
    BY <1>3, <2>1 DEF Shutdown
  <2> HIDE DEF x, t
  <2>5. Quiet(x, t)
    BY <1>3, <1>a, <1>b, <2>1, <2>2, <2>3, <2>4 DEF Quiet, Shutdown, TypeOK
  <2> QED BY <2>1, <2>5, QuietStep
<1> QED BY <1>1, <1>2, <1>3

-----------------------------------------------------------------------------
(* Registry.Stop's middle steps keep it: the device stops, its entry gone and
   its lock still held. *)
LEMMA StopQuiet ==
    ASSUME Inv, NEW x \in Tasks, Halt(x) \/ Cut(x)
    PROVE  Inv'
<1> USE DEF Inv, WorldTyped, StillLost, At, world, registry, procs,
            Starting, Stopping, Between
<1>0. TypeOK /\ task[x] \in TaskStates
  BY TaskRecords
<1>a. \A b \in Bounds : Spend(b) => /\ used' \in [Bounds -> Nat]
                                    /\ StillLost
  BY SpendTyped DEF TypeOK
<1>b. {"faults", "requests", "exits"} \subseteq Bounds
  BY DEF Bounds
<1>1. CASE Halt(x)
  <2>1. PICK s \in {"cut", "release"} : Goto(x, s)
    BY <1>1 DEF Halt
  <2>2. WorldTyped' /\ StillLost
    BY <1>0, <1>1 DEF Halt, TypeOK
  <2> QED BY <1>0, <1>1, <2>1, <2>2, QuietGoto DEF Halt, TypeOK
<1>2. CASE Cut(x)
  <2>1. WorldTyped' /\ StillLost
    BY <1>0, <1>2, <1>a, <1>b DEF Cut, TypeOK
  <2> QED BY <1>0, <1>2, <2>1, QuietGoto DEF Cut, TypeOK
<1> QED BY <1>1, <1>2

-----------------------------------------------------------------------------
(* What happens outside the goroutines touches neither registry nor lock. *)
LEMMA WorldStep ==
    ASSUME Inv,
           \/ PhoneUnlinks
           \/ \E c \in Clients : LoggedOut(c) \/ ReconnectDenied(c)
           \/ \E w \in {"active", "denied", "inactive"} : Standing(w)
    PROVE  Inv'
<1> USE DEF Inv, world, registry, procs
<1>1. UNCHANGED <<lock, entry, alive, closing, task>>
  BY DEF PhoneUnlinks, LoggedOut, ReconnectDenied, Standing
<1>2. {"unlinks", "drops", "denials"} \subseteq Bounds
  BY DEF Bounds
<1>3. StillLost /\ used' \in [Bounds -> Nat]
  BY <1>2, SpendTyped
     DEF PhoneUnlinks, LoggedOut, ReconnectDenied, Standing, StillLost, TypeOK
<1>4. TypeOK'
  BY <1>1, <1>3
     DEF PhoneUnlinks, LoggedOut, ReconnectDenied, Standing, TypeOK
<1>5. Agreement'
  BY <1>1, <1>3 DEF Agreement, Local, FreshClients, StoppedIsOut,
       InstallsUnderLock, RegisteredUnderLock, LockHasOwner, StillLost
<1> QED BY <1>4, <1>5

(* A lost lock is counted, so that it promises nothing any more. *)
LEMMA LoseLockStep ==
    ASSUME Inv, LoseLock
    PROVE  Inv'
<1> USE DEF Inv, world, registry, procs
<1>1. UNCHANGED <<entry, alive, closing, task>> /\ lock' = NoClient
  BY DEF LoseLock
<1>2. used' \in [Bounds -> Nat] /\ used'["lost"] # 0
  BY DEF LoseLock, Spend, TypeOK, Bounds
<1>3. TypeOK'
  BY <1>1, <1>2 DEF LoseLock, TypeOK
<1>4. Agreement'
  BY <1>1, <1>2 DEF Agreement, Local, FreshClients, StoppedIsOut,
       InstallsUnderLock, RegisteredUnderLock, LockHasOwner
<1> QED BY <1>3, <1>4

-----------------------------------------------------------------------------
(* adopt reserves the slot for a client nobody else has. *)
LEMMA ReserveStep ==
    ASSUME Inv, NEW x \in Tasks, Reserve(x)
    PROVE  Inv'
<1> USE DEF Inv, world, procs, At
<1>0. x[1] \in Procs /\ x[1] \in alive /\ task[x].step = "reserve"
  BY TaskParts DEF Reserve
<1>1. PICK i \in 1 .. PerProc :
        /\ Unused(<<x[1], i>>)
        /\ entry' = [entry EXCEPT ![x[1]] = Reserved(<<x[1], i>>)]
        /\ running' = running \ {<<x[1], i>>}
        /\ task' = [task EXCEPT ![x].own = <<x[1], i>>, ![x].step = "lock"]
  BY DEF Reserve
<1> DEFINE c == <<x[1], i>>
<1>2. c \in Clients /\ c # NoClient /\ c[1] = x[1]
  BY <1>0, ClientParts
<1>3. Unused(c)
  BY <1>1
<1>4. entry[x[1]] = NoEntry
  BY DEF Reserve
<1>5. \A p \in Procs : entry'[p] = IF p = x[1] THEN Reserved(c) ELSE entry[p]
  BY <1>0, <1>1 DEF TypeOK
<1>6. task[x] \in TaskStates
  BY DEF TypeOK
<1>7. task' = [task EXCEPT ![x] = [task[x] EXCEPT !.own = c, !.step = "lock"]]
  BY <1>1 DEF TypeOK
<1>8. [task[x] EXCEPT !.own = c, !.step = "lock"] \in TaskStates
  BY <1>2, <1>6 DEF TaskStates, Starting
<1>9. /\ \A y \in Tasks : y # x => task'[y] = task[y]
      /\ task'[x].own = c /\ task'[x].step = "lock"
      /\ task'[x].target = task[x].target
  BY <1>6, <1>7 DEF TypeOK, TaskStates
<1>10. UNCHANGED <<row, session, workspace, lock, up, alive, closing, used>>
  BY DEF Reserve
<1>11. running' \subseteq Clients
  BY <1>1 DEF TypeOK
<1>12. Reserved(c) \in Entries
  BY <1>2 DEF Reserved, Entries
<1> HIDE DEF c
<1>13. TypeOK'
  <2>1. entry' \in [Procs -> Entries]
    BY <1>1, <1>12 DEF TypeOK, c
  <2>2. task' \in [Tasks -> TaskStates]
    BY <1>7, <1>8 DEF TypeOK
  <2> QED BY <2>1, <2>2, <1>10, <1>11 DEF TypeOK
<1>14. Local'
  BY <1>0, <1>2, <1>5, <1>9, <1>10 DEF Agreement, Local, Reserved
<1>15. FreshClients'
  BY <1>0, <1>2, <1>3, <1>5, <1>9, <1>10
     DEF Agreement, FreshClients, Unused, Reserved
<1>16. StoppedIsOut'
  BY <1>0, <1>2, <1>3, <1>5, <1>9, <1>10
     DEF Agreement, StoppedIsOut, Unused, Reserved
<1>17. InstallsUnderLock' /\ RegisteredUnderLock'
  BY <1>0, <1>5, <1>9, <1>10
     DEF Agreement, InstallsUnderLock, RegisteredUnderLock, Reserved
<1>18. LockHasOwner'
  <2>1. \A p \in Procs : entry[p].kind = "device" => entry'[p] = entry[p]
    BY <1>4, <1>5 DEF NoEntry
  <2>2. \A y \in Tasks : task[y].step # "reserve" => task'[y] = task[y]
    BY <1>0, <1>9
  <2>3. alive \subseteq Procs
    BY DEF TypeOK
  <2> QED BY <1>10, <2>1, <2>2, <2>3 DEF Agreement, LockHasOwner
<1> QED BY <1>13, <1>14, <1>15, <1>16, <1>17, <1>18 DEF Agreement

(* The lock, taken while it is free, is the start's from then on. *)
LEMMA TryLockStep ==
    ASSUME Inv, NEW x \in Tasks, TryLock(x)
    PROVE  Inv'
<1> USE DEF Inv, world, procs, At
<1> DEFINE c == task[x].own
<1>0. task[x] \in TaskStates /\ task[x].step = "lock" /\ x[1] \in alive
  BY DEF TypeOK, TryLock
<1>1. c \in Clients /\ c # NoClient
  BY <1>0 DEF Agreement, Local, TaskStates
<1>2. task' \in [Tasks -> TaskStates]
  BY Going DEF TryLock, Starting, TypeOK
<1>3. /\ \A y \in Tasks : y # x => task'[y] = task[y]
      /\ task'[x].step = "install" /\ task'[x].own = c
      /\ task'[x].target = task[x].target
  BY <1>0 DEF TryLock, Goto, TypeOK, TaskStates
<1>4. /\ lock = NoClient /\ lock' = c
      /\ UNCHANGED <<row, session, workspace, entry, running, up, alive,
                     closing, used>>
  BY DEF TryLock
<1> HIDE DEF c
<1>5. TypeOK'
  BY <1>1, <1>2, <1>4 DEF TypeOK
<1>6. Local'
  <2>1. task[x].own = c
    BY DEF c
  <2> QED BY <1>0, <1>1, <1>3, <1>4, <2>1 DEF Agreement, Local
<1>7. FreshClients'
  BY <1>0, <1>3, <1>4 DEF Agreement, FreshClients, c
<1>8. StoppedIsOut'
  BY <1>0, <1>3, <1>4 DEF Agreement, StoppedIsOut
<1>9. InstallsUnderLock'
  <2>1. used["lost"] = 0 => \A y \in Tasks : task[y].step # "install"
    BY <1>4 DEF Agreement, InstallsUnderLock, FreshClients
  <2> QED BY <1>3, <1>4, <2>1 DEF InstallsUnderLock
<1>10. RegisteredUnderLock'
  <2>1. used["lost"] = 0 => \A p \in Procs : entry[p].kind # "device"
    BY <1>4 DEF Agreement, RegisteredUnderLock, Local
  <2> QED BY <1>4, <2>1 DEF RegisteredUnderLock
<1>11. LockHasOwner'
  BY <1>0, <1>3, <1>4 DEF LockHasOwner
<1> QED BY <1>5, <1>6, <1>7, <1>8, <1>9, <1>10, <1>11 DEF Agreement

(* A start that does not get the lock takes its reservation back. *)
LEMMA NoLockStep ==
    ASSUME Inv, NEW x \in Tasks, TryLockRefused(x) \/ TryLockFails(x)
    PROVE  Inv'
<1> USE DEF Inv, world, procs, At
<1>0. /\ task[x] \in TaskStates /\ task[x].step = "lock" /\ x[1] \in alive
      /\ x[1] \in Procs
  BY TaskParts DEF TypeOK, TryLockRefused, TryLockFails
<1>1. PICK t \in TaskStates :
        /\ task' = [task EXCEPT ![x] = t]
        /\ t.step \in {"recheck", "idle", "restore", "lost"}
        /\ t.own = NoClient /\ t.target = NoClient
  <2>1. CASE TryLockRefused(x)
    <3> DEFINE s == IF x[2] = "start" THEN "recheck" ELSE "idle"
               t == [IdleTask EXCEPT !.step = s]
    <3>1. t \in TaskStates
      BY TaskRecords DEF Between
    <3> QED BY <2>1, <3>1 DEF TryLockRefused, AlreadyRunning, Finish, IdleTask
  <2>2. CASE TryLockFails(x)
    <3> DEFINE t == [IdleTask EXCEPT !.step = AfterFailure(x, "idle"),
                                     !.then = "idle"]
    <3>1. AfterFailure(x, "idle") \in {"restore", "idle", "lost"}
      BY FailureSteps
    <3>2. t \in TaskStates
      BY <3>1, TaskRecords DEF Between
    <3> QED BY <2>2, <3>1, <3>2 DEF TryLockFails, FailsWith, IdleTask
  <2> QED BY <2>1, <2>2
<1>2. \A y \in Tasks : task'[y] = IF y = x THEN t ELSE task[y]
  BY <1>1 DEF TypeOK
<1>3. /\ entry' \in [Procs -> Entries]
      /\ \A p \in Procs : \/ entry'[p] = entry[p]
                          \/ /\ entry'[p] = NoEntry
                             /\ entry[p].kind = "reserved"
  <2>1. entry' = [entry EXCEPT ![x[1]] =
                    IF @ = Reserved(task[x].own) THEN NoEntry ELSE @]
    BY DEF TryLockRefused, TryLockFails, Unreserve
  <2>2. NoEntry \in Entries /\ Reserved(task[x].own).kind = "reserved"
    BY DEF NoEntry, Entries, Reserved
  <2> QED BY <1>0, <2>1, <2>2 DEF TypeOK
<1>4. "faults" \in Bounds
  BY DEF Bounds
<1>5. StillLost /\ used' \in [Bounds -> Nat]
  BY <1>4, SpendTyped DEF TryLockRefused, TryLockFails, StillLost, TypeOK
<1>6. UNCHANGED <<row, session, workspace, lock, running, up, alive, closing>>
  BY DEF TryLockRefused, TryLockFails
<1>7. TypeOK'
  BY <1>1, <1>3, <1>5, <1>6 DEF TypeOK
<1>8. Local'
  BY <1>0, <1>1, <1>2, <1>3, <1>6 DEF Agreement, Local, NoEntry
<1>9. FreshClients'
  BY <1>0, <1>1, <1>2, <1>3 DEF Agreement, FreshClients, NoEntry
<1>10. StoppedIsOut'
  BY <1>0, <1>1, <1>2, <1>3 DEF Agreement, StoppedIsOut, NoEntry
<1>11. InstallsUnderLock' /\ RegisteredUnderLock'
  BY <1>1, <1>2, <1>3, <1>5, <1>6
     DEF Agreement, InstallsUnderLock, RegisteredUnderLock, NoEntry, StillLost
<1>12. LockHasOwner'
  <2>1. \A p \in Procs : entry[p].kind = "device" => entry'[p] = entry[p]
    BY <1>3
  <2>2. \A y \in Tasks : task[y].step # "lock" => task'[y] = task[y]
    BY <1>0, <1>2
  <2>3. alive \subseteq Procs
    BY DEF TypeOK
  <2> QED BY <1>6, <2>1, <2>2, <2>3 DEF Agreement, LockHasOwner
<1> QED BY <1>7, <1>8, <1>9, <1>10, <1>11, <1>12 DEF Agreement

(* The reservation becomes the device, under the lock. *)
LEMMA InstallStep ==
    ASSUME Inv, NEW x \in Tasks, Install(x)
    PROVE  Inv'
<1> USE DEF Inv, world, procs, At
<1> DEFINE c == task[x].own
<1>0. /\ task[x] \in TaskStates /\ task[x].step = "install"
      /\ x[1] \in alive /\ x[1] \in Procs
  BY TaskParts DEF TypeOK, Install
<1>1. c \in Clients /\ c # NoClient /\ c[1] = x[1] /\ task[x].own = c
  BY <1>0 DEF Agreement, Local, TaskStates
<1>2. task' \in [Tasks -> TaskStates]
  BY Going DEF Install, Starting, TypeOK
<1>3. /\ \A y \in Tasks : y # x => task'[y] = task[y]
      /\ task'[x].step = "begin" /\ task'[x].own = c
      /\ task'[x].target = task[x].target
  BY <1>0 DEF Install, Goto, TypeOK, TaskStates
<1>4. UNCHANGED <<row, session, workspace, lock, running, up, alive, closing,
                  used>>
  BY DEF Install
<1>5. /\ entry' \in [Procs -> Entries]
      /\ \A p \in Procs : p # x[1] => entry'[p] = entry[p]
      /\ entry'[x[1]].kind = "device" /\ entry'[x[1]].client = c
      /\ entry[x[1]].kind = "reserved"
  <2>1. Installed(c) \in Entries
    BY <1>1 DEF Installed, Entries
  <2>2. /\ entry' = [entry EXCEPT ![x[1]] = Installed(c)]
        /\ entry[x[1]] = Reserved(c)
    BY DEF Install
  <2> QED BY <1>0, <2>1, <2>2 DEF TypeOK, Installed, Reserved
<1>a. \A y \in Tasks : /\ y # x => task[y].own # c
                       /\ task[y].target # c
  BY <1>0 DEF Agreement, FreshClients
<1> HIDE DEF c
<1>6. TypeOK'
  BY <1>2, <1>4, <1>5 DEF TypeOK
<1>7. Local'
  <2>1. \A p \in Procs :
          /\ entry'[p].kind = "none" <=> entry'[p].client = NoClient
          /\ entry'[p].client # NoClient =>
               p \in alive /\ entry'[p].client[1] = p
    BY <1>0, <1>1, <1>5 DEF Agreement, Local
  <2>2. \A y \in Tasks :
          /\ task'[y].own = task[y].own /\ task'[y].target = task[y].target
          /\ y # x => task'[y] = task[y]
    BY <1>1, <1>3
  <2> QED BY <1>0, <1>1, <1>3, <1>4, <2>1, <2>2 DEF Agreement, Local
<1>8. FreshClients'
  <2> SUFFICES ASSUME NEW y \in Tasks, task'[y].step \in {"lock", "install"}
               PROVE  /\ task'[y].own # NoClient
                      /\ \A p \in Procs : entry'[p].kind = "device" =>
                                            entry'[p].client # task'[y].own
                      /\ \A z \in Tasks : /\ z # y => task'[z].own # task'[y].own
                                          /\ task'[z].target # task'[y].own
    BY DEF FreshClients
  <2>1. /\ y # x /\ task'[y] = task[y]
        /\ task[y].step \in {"lock", "install"}
    BY <1>3
  <2>2. task[y].own # c
    BY <1>a, <2>1
  <2>3. /\ task[y].own # NoClient
        /\ \A p \in Procs : entry[p].kind = "device" =>
                              entry[p].client # task[y].own
        /\ \A z \in Tasks : /\ z # y => task[z].own # task[y].own
                            /\ task[z].target # task[y].own
    <3>1. FreshClients
      BY DEF Agreement
    <3>2. task[y].own # NoClient
      BY <2>1, <3>1 DEF FreshClients
    <3>3. \A p \in Procs : entry[p].kind = "device" =>
                             entry[p].client # task[y].own
      BY <2>1, <3>1 DEF FreshClients
    <3>4. \A z \in Tasks : z # y => task[z].own # task[y].own
      BY <2>1, <3>1 DEF FreshClients
    <3>5. \A z \in Tasks : task[z].target # task[y].own
      BY <2>1, <3>1 DEF FreshClients
    <3> QED BY <3>2, <3>3, <3>4, <3>5
  <2>4. \A p \in Procs : entry'[p].kind = "device" =>
                            entry'[p].client # task[y].own
    BY <1>5, <2>2, <2>3
  <2>5. \A z \in Tasks : /\ task'[z].own = task[z].own
                         /\ task'[z].target = task[z].target
    BY <1>1, <1>3
  <2> QED BY <2>1, <2>3, <2>4, <2>5
<1>9. StoppedIsOut'
  BY <1>3, <1>5, <1>a DEF Agreement, StoppedIsOut
<1>10. InstallsUnderLock'
  BY <1>3, <1>4 DEF Agreement, InstallsUnderLock
<1>11. RegisteredUnderLock'
  BY <1>0, <1>1, <1>4, <1>5
     DEF Agreement, InstallsUnderLock, RegisteredUnderLock
<1>12. LockHasOwner'
  <2>1. \A p \in Procs : entry[p].kind = "device" => entry'[p] = entry[p]
    BY <1>5
  <2>2. alive \subseteq Procs
    BY DEF TypeOK
  <2> QED BY <1>0, <1>1, <1>3, <1>4, <1>5, <2>1, <2>2
          DEF Agreement, LockHasOwner
<1> QED BY <1>6, <1>7, <1>8, <1>9, <1>10, <1>11, <1>12 DEF Agreement

(* A cancelled start frees the lock, which nobody else had. *)
LEMMA InstallCancelledStep ==
    ASSUME Inv, NEW x \in Tasks, InstallCancelled(x)
    PROVE  Inv'
<1> USE DEF Inv, world, procs, At
<1>0. /\ task[x] \in TaskStates /\ task[x].step = "install"
      /\ x[1] \in alive
  BY DEF TypeOK, InstallCancelled
<1>1. PICK t \in TaskStates :
        /\ task' = [task EXCEPT ![x] = t]
        /\ t.step \in {"idle", "restore", "lost"}
        /\ t.own = NoClient /\ t.target = NoClient
  <2> DEFINE t == [IdleTask EXCEPT !.step = AfterFailure(x, "idle"),
                                   !.then = "idle"]
  <2>1. AfterFailure(x, "idle") \in {"restore", "idle", "lost"}
    BY FailureSteps
  <2>2. t \in TaskStates
    BY <2>1, TaskRecords DEF Between
  <2> QED BY <2>1, <2>2 DEF InstallCancelled, FailsWith, IdleTask
<1>2. \A y \in Tasks : task'[y] = IF y = x THEN t ELSE task[y]
  BY <1>1 DEF TypeOK
<1>3. /\ UNCHANGED <<row, session, workspace, entry, running, up, alive,
                     closing, used>>
      /\ lock' = IF lock = task[x].own THEN NoClient ELSE lock
  BY DEF InstallCancelled, Free
<1>4. TypeOK'
  BY <1>1, <1>3 DEF TypeOK
<1>5. Local'
  BY <1>0, <1>1, <1>2, <1>3 DEF Agreement, Local
<1>6. FreshClients' /\ StoppedIsOut'
  BY <1>0, <1>1, <1>2, <1>3 DEF Agreement, FreshClients, StoppedIsOut
<1>7. InstallsUnderLock'
  BY <1>0, <1>1, <1>2, <1>3 DEF Agreement, FreshClients, InstallsUnderLock
<1>8. RegisteredUnderLock'
  BY <1>0, <1>3 DEF Agreement, FreshClients, RegisteredUnderLock
<1>9. LockHasOwner'
  BY <1>0, <1>2, <1>3 DEF Agreement, LockHasOwner
<1> QED BY <1>4, <1>5, <1>6, <1>7, <1>8, <1>9 DEF Agreement

-----------------------------------------------------------------------------
(* Registry.Stop takes the entry out, and with a device the duty to release
   its lock. *)
LEMMA UnregisterStep ==
    ASSUME Inv, NEW x \in Tasks, Unregister(x)
    PROVE  Inv'
<1> USE DEF Inv, world, procs, At
<1> DEFINE e == entry[x[1]]
<1>0. /\ task[x] \in TaskStates /\ task[x].step = "unregister"
      /\ x[1] \in alive /\ x[1] \in Procs /\ e \in Entries
  BY TaskParts DEF TypeOK, Unregister
<1>1. UNCHANGED <<row, session, workspace, lock, running, up, alive, closing,
                  used>>
  BY DEF Unregister
<1>2. /\ entry' \in [Procs -> Entries]
      /\ \A p \in Procs : entry'[p] = IF p = x[1] THEN NoEntry ELSE entry[p]
  <2>1. NoEntry \in Entries
    BY DEF NoEntry, Entries
  <2> QED BY <1>0, <2>1 DEF Unregister, TypeOK
<1>3. CASE e.kind = "device"
  <2> DEFINE t == [task[x] EXCEPT !.target = e.client, !.step = "halt"]
  <2>1. e.client \in Clients /\ e.client # NoClient /\ e.client[1] = x[1]
    BY <1>0, <1>3 DEF Agreement, Local, Entries
  <2>2. task' = [task EXCEPT ![x] = t]
    BY <1>3 DEF Unregister, TypeOK
  <2>3. /\ t \in TaskStates /\ t.step = "halt" /\ t.target = e.client
        /\ t.own = task[x].own
    BY <1>0, <2>1 DEF TaskStates, Stopping
  <2> HIDE DEF t
  <2>4. \A y \in Tasks : task'[y] = IF y = x THEN t ELSE task[y]
    BY <2>2 DEF TypeOK
  <2>5. TypeOK'
    BY <1>1, <1>2, <2>2, <2>3 DEF TypeOK
  <2>6. Local'
    BY <1>0, <1>1, <1>2, <2>1, <2>3, <2>4 DEF Agreement, Local, NoEntry
  <2>7. FreshClients'
    BY <1>0, <1>2, <1>3, <2>3, <2>4 DEF Agreement, FreshClients, NoEntry
  <2>8. StoppedIsOut'
    <3>1. \A p \in Procs : entry'[p].client # e.client
      BY <1>0, <1>2, <2>1 DEF Agreement, Local, NoEntry
    <3>2. \A y \in Tasks : task[y].step \in {"halt", "cut", "release"} =>
            task[y].target # NoClient
      BY DEF Agreement, StoppedIsOut
    <3> QED BY <1>2, <2>1, <2>3, <2>4, <3>1, <3>2
            DEF Agreement, StoppedIsOut, NoEntry
  <2>9. InstallsUnderLock' /\ RegisteredUnderLock'
    BY <1>1, <1>2, <2>3, <2>4
       DEF Agreement, InstallsUnderLock, RegisteredUnderLock, NoEntry
  <2>10. LockHasOwner'
    <3>1. \A p \in Procs : p # x[1] => entry'[p] = entry[p]
      BY <1>2
    <3>2. \A y \in Tasks : task[y].step # "unregister" => task'[y] = task[y]
      BY <1>0, <2>4
    <3>3. task'[x].step = "halt" /\ task'[x].target = entry[x[1]].client
      BY <2>3, <2>4
    <3>4. alive \subseteq Procs
      BY DEF TypeOK
    <3> QED BY <1>0, <1>1, <3>1, <3>2, <3>3, <3>4 DEF Agreement, LockHasOwner
  <2> QED BY <2>5, <2>6, <2>7, <2>8, <2>9, <2>10 DEF Agreement
<1>4. CASE e.kind # "device"
  <2> DEFINE s == task[x].then
             t == [task[x] EXCEPT !.step = s]
  <2>1. /\ s \in Between
        /\ s \notin {"lock", "install", "begin", "connect", "dial",
                     "halt", "cut", "release"}
    BY <1>0 DEF TaskStates, Between
  <2>2. task' = [task EXCEPT ![x] = t]
    BY <1>4 DEF Unregister, TypeOK
  <2>3. /\ t \in TaskStates /\ t.step = s /\ t.target = task[x].target
        /\ t.own = task[x].own
    BY <1>0, <2>1 DEF TaskStates
  <2> HIDE DEF t, s
  <2>4. \A y \in Tasks : task'[y] = IF y = x THEN t ELSE task[y]
    BY <2>2 DEF TypeOK
  <2>5. TypeOK'
    BY <1>1, <1>2, <2>2, <2>3 DEF TypeOK
  <2>6. Local'
    BY <1>0, <1>1, <1>2, <2>1, <2>3, <2>4 DEF Agreement, Local, NoEntry
  <2>7. FreshClients'
    BY <1>0, <1>2, <2>1, <2>3, <2>4 DEF Agreement, FreshClients, NoEntry
  <2>8. StoppedIsOut'
    BY <1>2, <2>1, <2>3, <2>4 DEF Agreement, StoppedIsOut, NoEntry
  <2>9. InstallsUnderLock' /\ RegisteredUnderLock'
    BY <1>1, <1>2, <2>1, <2>3, <2>4
       DEF Agreement, InstallsUnderLock, RegisteredUnderLock, NoEntry
  <2>10. LockHasOwner'
    <3>1. \A p \in Procs : entry[p].kind = "device" => entry'[p] = entry[p]
      BY <1>2, <1>4
    <3>2. \A y \in Tasks : task[y].step # "unregister" => task'[y] = task[y]
      BY <1>0, <2>4
    <3>3. alive \subseteq Procs
      BY DEF TypeOK
    <3> QED BY <1>1, <3>1, <3>2, <3>3 DEF Agreement, LockHasOwner
  <2> QED BY <2>5, <2>6, <2>7, <2>8, <2>9, <2>10 DEF Agreement
<1> QED BY <1>3, <1>4

(* The lock released is the stopped client's alone. *)
LEMMA ReleaseStep ==
    ASSUME Inv, NEW x \in Tasks, Release(x)
    PROVE  Inv'
<1> USE DEF Inv, world, procs, At
<1> DEFINE s == task[x].then
           t == [task[x] EXCEPT !.step = s, !.target = NoClient]
<1>0. /\ task[x] \in TaskStates /\ task[x].step = "release"
      /\ x[1] \in alive
  BY DEF TypeOK, Release
<1>1. /\ s \in Between
      /\ s \notin {"lock", "install", "begin", "connect", "dial",
                   "halt", "cut", "release"}
  BY <1>0 DEF TaskStates, Between
<1>2. task' = [task EXCEPT ![x] = t]
  BY DEF Release, TypeOK
<1>3. /\ t \in TaskStates /\ t.step = s /\ t.target = NoClient
      /\ t.own = task[x].own
  BY <1>0, <1>1 DEF TaskStates
<1> HIDE DEF t, s
<1>4. \A y \in Tasks : task'[y] = IF y = x THEN t ELSE task[y]
  BY <1>2 DEF TypeOK
<1>5. /\ UNCHANGED <<row, session, workspace, entry, running, up, alive,
                     closing, used>>
      /\ lock' = IF lock = task[x].target THEN NoClient ELSE lock
  BY DEF Release, Free
<1>6. TypeOK'
  BY <1>2, <1>3, <1>5 DEF TypeOK
<1>7. Local'
  BY <1>0, <1>1, <1>3, <1>4, <1>5 DEF Agreement, Local
<1>8. FreshClients'
  BY <1>1, <1>3, <1>4, <1>5 DEF Agreement, FreshClients
<1>9. StoppedIsOut'
  BY <1>1, <1>3, <1>4, <1>5 DEF Agreement, StoppedIsOut
<1>10. InstallsUnderLock'
  BY <1>1, <1>3, <1>4, <1>5 DEF Agreement, FreshClients, InstallsUnderLock
<1>11. RegisteredUnderLock'
  BY <1>0, <1>5 DEF Agreement, StoppedIsOut, RegisteredUnderLock
<1>12. LockHasOwner'
  <2> SUFFICES ASSUME lock' # NoClient PROVE LockHasOwner'
    BY DEF LockHasOwner
  <2>1. lock' = lock /\ lock # task[x].target
    BY <1>5
  <2>2. \A y \in Tasks : y # x => task'[y] = task[y]
    BY <1>4
  <2> QED BY <1>0, <1>5, <2>1, <2>2 DEF Agreement, LockHasOwner
<1> QED BY <1>6, <1>7, <1>8, <1>9, <1>10, <1>11, <1>12 DEF Agreement

-----------------------------------------------------------------------------
(* A process that ends takes its entry, its goroutines and its lock along. *)
LEMMA GoneStep ==
    ASSUME Inv, NEW p \in Procs, Gone(p), WorldTyped', StillLost
    PROVE  Inv'
<1> USE DEF Inv
<1>0. IdleTask \in TaskStates /\ NoEntry \in Entries
  BY DEF IdleTask, TaskStates, Between, NoEntry, Entries
<1>1. /\ task' \in [Tasks -> TaskStates]
      /\ \A x \in Tasks : task'[x] = IF x[1] = p THEN IdleTask ELSE task[x]
  BY <1>0 DEF Gone, TypeOK
<1>2. /\ entry' \in [Procs -> Entries]
      /\ \A q \in Procs : entry'[q] = IF q = p THEN NoEntry ELSE entry[q]
  BY <1>0 DEF Gone, TypeOK
<1>3. /\ alive' = alive \ {p} /\ closing' = closing \ {p}
      /\ lock' = IF lock # NoClient /\ lock[1] = p THEN NoClient ELSE lock
  BY DEF Gone
<1>4. TypeOK'
  BY <1>1, <1>2, <1>3 DEF TypeOK, WorldTyped
<1>5. Local'
  BY <1>1, <1>2, <1>3 DEF Agreement, Local, NoEntry, IdleTask
<1>6. FreshClients'
  BY <1>1, <1>2 DEF Agreement, FreshClients, NoEntry, IdleTask
<1>7. StoppedIsOut'
  BY <1>1, <1>2 DEF Agreement, StoppedIsOut, NoEntry, IdleTask
<1>8. InstallsUnderLock'
  BY <1>1, <1>3 DEF Agreement, InstallsUnderLock, FreshClients, Local,
                    StillLost, IdleTask
<1>9. RegisteredUnderLock'
  BY <1>2, <1>3 DEF Agreement, RegisteredUnderLock, Local, StillLost, NoEntry
<1>10. LockHasOwner'
  <2> SUFFICES ASSUME lock' # NoClient PROVE LockHasOwner'
    BY DEF LockHasOwner
  <2>1. lock' = lock /\ lock # NoClient /\ lock[1] # p
    BY <1>3
  <2>2. CASE \E q \in alive : entry[q].kind = "device" /\ entry[q].client = lock
    <3>1. PICK q \in alive : entry[q].kind = "device" /\ entry[q].client = lock
      BY <2>2
    <3>2. q \in Procs /\ q # p
      BY <2>1, <3>1 DEF Agreement, Local, TypeOK
    <3> QED BY <1>2, <1>3, <2>1, <3>1, <3>2 DEF LockHasOwner
  <2>3. CASE \E x \in Tasks :
               /\ x[1] \in alive
               /\ \/ task[x].step = "install" /\ task[x].own = lock
                  \/ task[x].step \in {"halt", "cut", "release"}
                     /\ task[x].target = lock
    <3>1. PICK x \in Tasks :
               /\ x[1] \in alive
               /\ \/ task[x].step = "install" /\ task[x].own = lock
                  \/ task[x].step \in {"halt", "cut", "release"}
                     /\ task[x].target = lock
      BY <2>3
    <3>2. x[1] # p
      BY <2>1, <3>1 DEF Agreement, Local
    <3> QED BY <1>1, <1>3, <2>1, <3>1, <3>2 DEF LockHasOwner
  <2> QED BY <2>1, <2>2, <2>3 DEF Agreement, LockHasOwner
<1> QED BY <1>4, <1>5, <1>6, <1>7, <1>8, <1>9, <1>10 DEF Agreement

(* A process that starts has nothing yet. *)
LEMMA BootStep ==
    ASSUME Inv, NEW p \in Procs, Boot(p)
    PROVE  Inv'
<1> USE DEF Inv, world, registry
<1> DEFINE x == <<p, "tick">>
           t == [task[x] EXCEPT !.step = "list"]
<1>0. x \in Tasks /\ x[1] = p /\ p \notin alive /\ task[x] = IdleTask
  BY TaskParts DEF Boot, Agreement, Local
<1>1. task' = [task EXCEPT ![x] = t]
  BY <1>0 DEF Boot, TypeOK
<1>2. /\ t \in TaskStates /\ t.step = "list"
      /\ t.own = NoClient /\ t.target = NoClient
  <2>1. t = [IdleTask EXCEPT !.step = "list"]
    BY <1>0
  <2>2. t \in TaskStates
    BY <1>0, <2>1, TaskRecords DEF Between
  <2> QED BY <2>1, <2>2 DEF IdleTask
<1> HIDE DEF x, t
<1>3. \A y \in Tasks : task'[y] = IF y = x THEN t ELSE task[y]
  BY <1>1 DEF TypeOK
<1>4. /\ alive' = alive \cup {p}
      /\ UNCHANGED <<row, session, workspace, lock, entry, running, up,
                     closing, used>>
  BY DEF Boot
<1>5. TypeOK'
  BY <1>1, <1>2, <1>4 DEF TypeOK
<1>6. Local'
  BY <1>0, <1>2, <1>3, <1>4 DEF Agreement, Local
<1>7. FreshClients' /\ StoppedIsOut'
  BY <1>0, <1>2, <1>3, <1>4
     DEF Agreement, FreshClients, StoppedIsOut, IdleTask
<1>8. InstallsUnderLock' /\ RegisteredUnderLock'
  BY <1>2, <1>3, <1>4 DEF Agreement, InstallsUnderLock, RegisteredUnderLock
<1>9. LockHasOwner'
  BY <1>0, <1>3, <1>4 DEF Agreement, LockHasOwner, IdleTask
<1> QED BY <1>5, <1>6, <1>7, <1>8, <1>9 DEF Agreement

-----------------------------------------------------------------------------
(* Nothing is held before the first process starts. *)
LEMMA InitInv == Init => Inv
<1> SUFFICES ASSUME Init PROVE Inv
  OBVIOUS
<1>1. IdleTask \in TaskStates /\ NoEntry \in Entries
  BY DEF IdleTask, TaskStates, Between, NoEntry, Entries
<1>2. TypeOK
  BY <1>1 DEF Init, TypeOK, Bounds
<1>3. Agreement
  BY DEF Init, Agreement, Local, FreshClients, StoppedIsOut,
         InstallsUnderLock, RegisteredUnderLock, LockHasOwner, NoEntry,
         IdleTask
<1> QED BY <1>2, <1>3 DEF Inv

(* Every step keeps the invariant. *)
LEMMA NextInv == Inv /\ [Next]_vars => Inv'
<1> SUFFICES ASSUME Inv, [Next]_vars PROVE Inv'
  OBVIOUS
<1>1. ASSUME NEW x \in Tasks, Start(x) \/ TryLockFails(x) \/ ConnectFails(x)
      PROVE  Inv'
  BY <1>1, StartQuiet, ReserveStep, TryLockStep, NoLockStep, InstallStep,
     InstallCancelledStep DEF Start
<1>2. ASSUME NEW x \in Tasks, Stop(x)
      PROVE  Inv'
  BY <1>2, StopQuiet, UnregisterStep, ReleaseStep DEF Stop
<1>3. ASSUME NEW x \in Tasks,
             \/ Tick(x) \/ Request(x) \/ TickClaim(x) \/ TickSkip(x)
             \/ TickListFails(x) \/ LiftPauseFails(x)
      PROVE  Inv'
  BY <1>3, CallersQuiet DEF Tick, Request
<1>4. ASSUME NEW x \in Tasks, Exit(x)
      PROVE  Inv'
  <2>1. x[1] \in Procs /\ Gone(x[1])
    BY <1>4, TaskParts DEF Exit
  <2>2. WorldTyped' /\ StillLost
    BY <1>4, <2>1
       DEF Exit, Gone, world, Inv, TypeOK, WorldTyped, StillLost
  <2> QED BY <2>1, <2>2, GoneStep
<1>5. ASSUME NEW p \in Procs, Crash(p)
      PROVE  Inv'
  <2>1. "exits" \in Bounds
    BY DEF Bounds
  <2>2. StillLost /\ used' \in [Bounds -> Nat]
    BY <1>5, <2>1, SpendTyped DEF Crash, Inv, TypeOK, StillLost
  <2>3. WorldTyped'
    BY <1>5, <2>2 DEF Crash, Gone, world, Inv, TypeOK, WorldTyped
  <2> QED BY <1>5, <2>2, <2>3, GoneStep DEF Crash
<1>6. CASE Environment
  BY <1>1, <1>3, <1>5, <1>6, ArrivalsQuiet, BootStep, WorldStep, LoseLockStep
     DEF Environment
<1>7. CASE UNCHANGED vars
  BY <1>7 DEF vars, Inv, TypeOK, Agreement, Local, FreshClients, StoppedIsOut,
              InstallsUnderLock, RegisteredUnderLock, LockHasOwner
<1> QED BY <1>1, <1>2, <1>3, <1>4, <1>6, <1>7 DEF Next, Step

-----------------------------------------------------------------------------
(* The inductive invariant holds in every reachable state, for any number of
   processes, clients, requests, exits and faults. *)
THEOREM SupervisionInvariant == Spec => []Inv
<1> QED BY InitInv, NextInv, PTL DEF Spec

(* A registered device holds the number's lock (adopt, Registry.Stop): no two
   processes have the number registered while no lock connection was lost. *)
THEOREM LockGuardsRegistry == Spec => []RegisteredUnderLock
<1>1. Inv => RegisteredUnderLock
  BY DEF Inv, Agreement
<1> QED BY <1>1, SupervisionInvariant, PTL

(* The lock is never left behind: whoever holds it is registered, or is about
   to install or to release it, so that a cancelled start, a failed connect or
   a stop that finds the device not running leaks nothing. *)
THEOREM LockNeverLeaks == Spec => []LockHasOwner
<1>1. Inv => LockHasOwner
  BY DEF Inv, Agreement
<1> QED BY <1>1, SupervisionInvariant, PTL

-----------------------------------------------------------------------------
(* What a step may do to a process's slot. *)
SlotMoves(p) ==
    \/ entry'[p] = entry[p]
    \/ entry[p] = NoEntry /\ entry'[p].kind = "reserved"
    \/ entry'[p] = NoEntry
    \/ entry[p].kind = "reserved" /\ entry'[p] = Installed(entry[p].client)

(* Every step of a goroutine does one of those to every slot. *)
LEMMA TaskSlots ==
    ASSUME TypeOK, NEW p \in Procs, NEW x \in Tasks,
           \/ Step(x) \/ TickClaim(x) \/ TryLockFails(x) \/ ConnectFails(x)
           \/ TickListFails(x) \/ TickSkip(x) \/ LiftPauseFails(x)
    PROVE  SlotMoves(p)
<1>0. x[1] \in Procs
  BY TaskParts
<1>1. CASE Reserve(x)
  <2>1. PICK i \in 1 .. PerProc :
          entry' = [entry EXCEPT ![x[1]] = Reserved(<<x[1], i>>)]
    BY <1>1 DEF Reserve
  <2>2. entry[x[1]] = NoEntry
    BY <1>1 DEF Reserve
  <2> QED BY <1>0, <2>1, <2>2 DEF SlotMoves, TypeOK, Reserved
<1>2. CASE TryLockRefused(x) \/ TryLockFails(x)
  <2>1. entry' = [entry EXCEPT ![x[1]] =
                    IF @ = Reserved(task[x].own) THEN NoEntry ELSE @]
    BY <1>2 DEF TryLockRefused, TryLockFails, Unreserve
  <2> QED BY <1>0, <2>1 DEF SlotMoves, TypeOK
<1>3. CASE Install(x)
  <2>1. /\ entry[x[1]] = Reserved(task[x].own)
        /\ entry' = [entry EXCEPT ![x[1]] = Installed(task[x].own)]
    BY <1>3 DEF Install
  <2> QED BY <1>0, <2>1 DEF SlotMoves, TypeOK, Reserved
<1>4. CASE Unregister(x)
  BY <1>0, <1>4 DEF Unregister, SlotMoves, TypeOK
<1>5. CASE Exit(x)
  BY <1>0, <1>5 DEF Exit, Gone, SlotMoves, TypeOK
<1>6. CASE UNCHANGED entry
  BY <1>6 DEF SlotMoves
<1>7. \/ Reserve(x) \/ TryLockRefused(x) \/ TryLockFails(x) \/ Install(x)
      \/ Unregister(x) \/ Exit(x) \/ UNCHANGED entry
  BY DEF Step, Start, Stop, Tick, Request, registry, StartNoSession,
         StartDenied, StartHeldHere, TryLock, InstallCancelled, Begin,
         Attempt, Connect, ConnectGivesUp, StartFailed, RecheckPaused,
         RecheckLive, Halt, Cut, Release, TickHeld, TickList, TickRelease,
         RecordLost, LiftPause, RestorePause, StopStatus, TickClaim,
         ConnectFails, TickListFails, TickSkip, LiftPauseFails
<1> QED BY <1>1, <1>2, <1>3, <1>4, <1>5, <1>6, <1>7

(* So does every step of the system. *)
LEMMA NextSlots ==
    ASSUME TypeOK, [Next]_vars, NEW p \in Procs
    PROVE  SlotMoves(p)
<1>1. ASSUME NEW q \in Procs, Crash(q)
      PROVE  SlotMoves(p)
  BY <1>1 DEF Crash, Gone, SlotMoves, TypeOK
<1>2. CASE Environment
  <2>1. \/ \E q \in Procs : Crash(q)
        \/ \E x \in Tasks : TryLockFails(x) \/ ConnectFails(x)
                            \/ TickListFails(x) \/ TickSkip(x)
                            \/ LiftPauseFails(x)
        \/ UNCHANGED entry
    BY <1>2 DEF Environment, StartRequest, StopRequest, Boot, Shutdown,
                PhoneUnlinks, LoggedOut, ReconnectDenied, Standing, LoseLock,
                registry
  <2> QED BY <1>1, <2>1, TaskSlots DEF SlotMoves
<1>3. CASE UNCHANGED vars
  BY <1>3 DEF vars, SlotMoves
<1> QED BY <1>2, <1>3, TaskSlots DEF Next

(* A slot is never stolen: a device enters a registry only through the
   reservation of its own start (adopt), in every process. *)
THEOREM SlotsKeptApart == Spec => SlotNeverStolen
<1>1. Inv /\ [Next]_vars =>
        [\A p \in Procs :
           entry'[p] # entry[p] =>
              \/ entry[p] = NoEntry /\ entry'[p].kind = "reserved"
              \/ entry'[p] = NoEntry
              \/ entry[p].kind = "reserved"
                 /\ entry'[p] = Installed(entry[p].client)]_vars
  BY NextSlots DEF Inv, SlotMoves
<1> QED BY <1>1, SupervisionInvariant, PTL DEF Spec, SlotNeverStolen
=============================================================================
