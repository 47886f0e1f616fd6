----------------------------- MODULE Supervision -----------------------------
(***************************************************************************)
(* Who holds one WhatsApp number: the registries of the server processes,  *)
(* the advisory lock they share, the clients they connect, and the row     *)
(* that says whether the number should be held at all.                     *)
(*                                                                         *)
(* Each process runs three goroutines that matter here:                    *)
(*   "tick"   the supervisor's pass (and, at boot, the resume, which is a  *)
(*            pass with nothing held)                                      *)
(*   "start"  a device.start request                                       *)
(*   "stop"   a device.stop request, or the shutdown's StopAll             *)
(* All three end in Registry.start or Registry.Stop, whose steps they      *)
(* take in turn: neither holds the registry's mutex while it waits on the  *)
(* database or on WhatsApp.  Numbers share nothing but the processes, so   *)
(* one number is modelled.                                                 *)
(***************************************************************************)
EXTENDS Integers, FiniteSets

CONSTANTS
    Procs,        \* the server's processes
    PerProc,      \* bound: clients of one process in use at a time
    MaxRequests,  \* bound: device.start and device.stop requests
    MaxExits,     \* bound: crashes and shutdowns
    MaxFaults,    \* bound: failed reads, lock calls and connects
    MaxUnlinks,   \* bound: times the phone removes the linked device
    MaxDenials,   \* bound: changes of the workspace's standing
    MaxDrops,     \* bound: connections lost while capture is denied
    MaxLost,      \* bound: lock connections lost under a running client
    NoClient      \* stands for nil

(* A client of process p is <<p, i>>: it dies with its process. *)
Clients == Procs \X (1 .. PerProc)

ASSUME SupervisionAssumption ==
    /\ PerProc \in Nat
    /\ {MaxRequests, MaxExits, MaxFaults, MaxUnlinks, MaxDenials, MaxDrops,
        MaxLost} \subseteq Nat
    /\ NoClient \notin Clients

VARIABLES
    row,        \* the devices row: paused, and whether its status is live
    session,    \* whatsmeow's stored session, and the phone's view of it
    workspace,  \* the tenant's status and the storage policy's answer
    lock,       \* the client whose lock connection holds "device:<id>"
    alive,      \* the processes that run
    closing,    \* those whose root context a shutdown has cancelled
    entry,      \* entry[p]: r.devices[id] in process p
    running,    \* the clients whose Device.running is set, handler attached
    up,         \* the clients with a connection to WhatsApp
    task,       \* task[x]: where goroutine x = <<process, kind>> is
    used        \* how much of each bound is spent (in no code state)

vars == <<row, session, workspace, lock, alive, closing, entry, running,
          up, task, used>>

-----------------------------------------------------------------------------
Tasks == Procs \X {"tick", "start", "stop"}

Entries == [kind : {"none", "reserved", "device"},
            client : Clients \cup {NoClient}]

NoEntry == [kind |-> "none", client |-> NoClient]
Reserved(c) == [kind |-> "reserved", client |-> c]
Installed(c) == [kind |-> "device", client |-> c]

(* Registry.start's steps, Registry.Stop's, and the callers' own. *)
Starting == {"reserve", "lock", "install", "begin", "connect", "dial",
             "failed"}
Stopping == {"unregister", "halt", "cut", "release"}
Between == {"idle", "list", "claim", "get", "unpause", "recheck", "restore",
            "lost", "status", "exit"}

TaskStates == [step : Starting \cup Stopping \cup Between,
               own : Clients \cup {NoClient},     \* the client it starts
               target : Clients \cup {NoClient},  \* the client it stops
               then : Between,                    \* where it goes after that
               held : {"none", "reserved", "device"}, \* the tick's snapshot
               lifted : BOOLEAN]                  \* the start took a pause away

IdleTask == [step |-> "idle", own |-> NoClient, target |-> NoClient,
             then |-> "idle", held |-> "none", lifted |-> FALSE]

Bounds == {"requests", "exits", "faults", "unlinks", "denials", "drops",
           "lost"}

Budget == [requests |-> MaxRequests, exits |-> MaxExits, faults |-> MaxFaults,
           unlinks |-> MaxUnlinks, denials |-> MaxDenials, drops |-> MaxDrops,
           lost |-> MaxLost]

(* Every variable has its type. *)
TypeOK ==
    /\ row \in [paused : BOOLEAN, live : BOOLEAN]
    /\ session \in {"linked", "revoked", "gone"}
    /\ workspace \in {"active", "denied", "inactive"}
    /\ lock \in Clients \cup {NoClient}
    /\ alive \subseteq Procs /\ closing \subseteq alive
    /\ entry \in [Procs -> Entries]
    /\ running \subseteq Clients
    /\ up \subseteq Clients
    /\ task \in [Tasks -> TaskStates]
    /\ used \in [Bounds -> Nat]

(* A linked number that no process holds yet, before any of them started. *)
Init ==
    /\ row = [paused |-> FALSE, live |-> TRUE]
    /\ session = "linked"
    /\ workspace = "active"
    /\ lock = NoClient
    /\ alive = {} /\ closing = {}
    /\ entry = [p \in Procs |-> NoEntry]
    /\ running = {}
    /\ up = {}
    /\ task = [x \in Tasks |-> IdleTask]
    /\ used = [b \in Bounds |-> 0]

Spend(b) == used[b] < Budget[b] /\ used' = [used EXCEPT ![b] = @ + 1]

At(x, step) == task[x].step = step /\ x[1] \in alive

Goto(x, step) == task' = [task EXCEPT ![x].step = step]

Finish(x, step) == task' = [task EXCEPT ![x] = [IdleTask EXCEPT !.step = step]]

(* A write of the row whose failure is logged and changes nothing else. *)
Writes(r) == \/ row' = r /\ UNCHANGED used
             \/ row' = row /\ Spend("faults")

registry == <<lock, entry, running, up>>
world == <<row, session, workspace>>
procs == <<alive, closing>>

(* A client value nobody refers to any more. *)
Unused(c) ==
    /\ c \notin up /\ lock # c
    /\ \A p \in Procs : entry[p].client # c
    /\ \A x \in Tasks : c \notin {task[x].own, task[x].target}

-----------------------------------------------------------------------------
(* Registry.start: reserve, lock, install, connect. *)

(* How StartExisting's failure goes on: a start puts back the pause it took
   away; a session that is gone is written into the row.  *)
AfterFailure(x, last) ==
    IF x[2] = "start" /\ task[x].lifted THEN "restore" ELSE last

FailsWith(x, last) ==
    task' = [task EXCEPT ![x] = [IdleTask EXCEPT
               !.step = AfterFailure(x, last), !.then = last]]

(* loadSession finds nothing: ErrNoSession. *)
StartNoSession(x) ==
    /\ At(x, "reserve") /\ session = "gone"
    /\ FailsWith(x, "lost")
    /\ UNCHANGED <<world, registry, procs, used>>

(* CheckStart: the storage policy allows capture, and the context still lets
   it be asked. *)
MayStart(x) == workspace # "denied" /\ x[1] \notin closing

(* CheckStart refuses before anything is reserved, or the session could not
   be read. *)
StartDenied(x) ==
    /\ At(x, "reserve") /\ session # "gone"
    /\ \/ ~MayStart(x) /\ UNCHANGED used
       \/ Spend("faults")
    /\ FailsWith(x, "idle")
    /\ UNCHANGED <<world, registry, procs>>

(* ErrAlreadyRunning: the supervisor leaves it, a start request goes on to
   report the persisted state. *)
AlreadyRunning(x) == Finish(x, IF x[2] = "start" THEN "recheck" ELSE "idle")

StartHeldHere(x) ==
    /\ At(x, "reserve") /\ session # "gone" /\ MayStart(x)
    /\ entry[x[1]] # NoEntry
    /\ AlreadyRunning(x)
    /\ UNCHANGED <<world, registry, procs, used>>

(* The session loaded, CheckStart passed and a new client built, adopt
   reserves the slot under the registry's mutex. *)
Reserve(x) ==
    /\ At(x, "reserve") /\ session # "gone" /\ MayStart(x)
    /\ entry[x[1]] = NoEntry
    /\ \E i \in 1 .. PerProc :
         LET c == <<x[1], i>> IN
         /\ Unused(c)
         /\ \A j \in 1 .. (i - 1) : ~Unused(<<x[1], j>>)
         /\ entry' = [entry EXCEPT ![x[1]] = Reserved(c)]
         /\ running' = running \ {c}
         /\ task' = [task EXCEPT ![x].own = c, ![x].step = "lock"]
    /\ UNCHANGED <<world, lock, up, procs, used>>

(* adopt's fail: the reservation goes, if it is still this one. *)
Unreserve(x) ==
    entry' = [entry EXCEPT ![x[1]] =
                IF @ = Reserved(task[x].own) THEN NoEntry ELSE @]

(* Mutant: the answer of pg_try_advisory_lock is not looked at. *)
TryLockUnasked(x) ==
    /\ At(x, "lock")
    /\ lock' = task[x].own
    /\ Goto(x, "install")
    /\ UNCHANGED <<world, entry, running, up, procs, used>>

(* pg_try_advisory_lock on a connection of its own. *)
TryLock(x) ==
    /\ At(x, "lock") /\ lock = NoClient
    /\ lock' = task[x].own
    /\ Goto(x, "install")
    /\ UNCHANGED <<world, entry, running, up, procs, used>>

(* Mutant: the refusal leaves the reservation behind. *)
TryLockRefusedReserved(x) ==
    /\ At(x, "lock") /\ lock # NoClient
    /\ AlreadyRunning(x)
    /\ UNCHANGED <<world, registry, procs, used>>

(* Another session holds it. *)
TryLockRefused(x) ==
    /\ At(x, "lock") /\ lock # NoClient
    /\ Unreserve(x)
    /\ AlreadyRunning(x)
    /\ UNCHANGED <<world, lock, running, up, procs, used>>

TryLockFails(x) ==
    /\ At(x, "lock") /\ Spend("faults")
    /\ Unreserve(x)
    /\ FailsWith(x, "idle")
    /\ UNCHANGED <<world, lock, running, up, procs>>

Free(c) == lock' = IF lock = c THEN NoClient ELSE lock

(* Mutant: the reservation is not looked at again. *)
InstallAnyway(x) ==
    /\ At(x, "install")
    /\ entry' = [entry EXCEPT ![x[1]] = Installed(task[x].own)]
    /\ Goto(x, "begin")
    /\ UNCHANGED <<world, lock, running, up, procs, used>>

(* The reservation becomes the device. *)
Install(x) ==
    /\ At(x, "install") /\ entry[x[1]] = Reserved(task[x].own)
    /\ entry' = [entry EXCEPT ![x[1]] = Installed(task[x].own)]
    /\ Goto(x, "begin")
    /\ UNCHANGED <<world, lock, running, up, procs, used>>

(* Mutant: a cancelled start keeps its lock. *)
InstallCancelledLocked(x) ==
    /\ At(x, "install") /\ entry[x[1]] # Reserved(task[x].own)
    /\ FailsWith(x, "idle")
    /\ UNCHANGED <<world, registry, procs, used>>

(* A stop took the reservation away meanwhile: the start is cancelled. *)
InstallCancelled(x) ==
    /\ At(x, "install") /\ entry[x[1]] # Reserved(task[x].own)
    /\ Free(task[x].own)
    /\ FailsWith(x, "idle")
    /\ UNCHANGED <<world, entry, running, up, procs, used>>

(* Device.Start attaches the handler and marks the device running. *)
Begin(x) ==
    /\ At(x, "begin")
    /\ running' = running \cup {task[x].own}
    /\ Goto(x, "connect")
    /\ UNCHANGED <<world, lock, entry, up, procs, used>>

(* connectWithBackoff asks the context and CheckStart before each attempt. *)
Attempt(x) ==
    /\ At(x, "connect") /\ MayStart(x)
    /\ Goto(x, "dial")
    /\ UNCHANGED <<world, registry, procs, used>>

(* Connect gets through.  WhatsApp keeps one connection per session and drops
   the other (StreamReplaced).  A handler that is attached records the number
   online. *)
Connect(x) ==
    /\ At(x, "dial")
    /\ up' = {task[x].own}
    /\ row' = IF task[x].own \in running THEN [row EXCEPT !.live = TRUE]
                                         ELSE row
    /\ Finish(x, "recheck")
    /\ UNCHANGED <<session, workspace, lock, entry, running, procs, used>>

(* It fails, or the transport's own check refuses it, and is tried again. *)
ConnectFails(x) ==
    /\ At(x, "dial")
    /\ \/ workspace = "denied" /\ UNCHANGED used
       \/ Spend("faults")
    /\ Goto(x, "connect")
    /\ UNCHANGED <<world, registry, procs>>

(* Start gives up, refused or out of attempts, and stops its device, which
   never connected. *)
ConnectGivesUp(x) ==
    /\ At(x, "connect")
    /\ \/ ~MayStart(x) /\ UNCHANGED used
       \/ Spend("faults")
    /\ running' = running \ {task[x].own}
    /\ Goto(x, "failed")
    /\ UNCHANGED <<world, lock, entry, up, procs>>

(* Registry.start then stops whatever is registered under the id. *)
StartFailed(x) ==
    /\ At(x, "failed")
    /\ task' = [task EXCEPT ![x] = [IdleTask EXCEPT
                  !.step = "unregister", !.lifted = task[x].lifted,
                  !.then = AfterFailure(x, "idle")]]
    /\ UNCHANGED <<world, registry, procs, used>>

(* Both callers read the row again once connected, and stop what a pause
   that landed meanwhile should have stopped. *)
RecheckPaused(x) ==
    /\ At(x, "recheck")
    /\ \/ (row.paused \/ x[1] \in closing) /\ UNCHANGED used
       \/ Spend("faults")
    /\ Finish(x, "unregister")
    /\ UNCHANGED <<world, registry, procs>>

RecheckLive(x) ==
    /\ At(x, "recheck") /\ ~row.paused /\ x[1] \notin closing
    /\ Finish(x, "idle")
    /\ UNCHANGED <<world, registry, procs, used>>

Start(x) ==
    \/ StartNoSession(x) \/ StartDenied(x) \/ StartHeldHere(x) \/ Reserve(x)
    \/ TryLock(x) \/ TryLockRefused(x) \/ Install(x) \/ InstallCancelled(x)
    \/ Begin(x) \/ Attempt(x) \/ Connect(x) \/ ConnectGivesUp(x)
    \/ StartFailed(x) \/ RecheckPaused(x) \/ RecheckLive(x)

-----------------------------------------------------------------------------
(* Registry.Stop: take the entry out, stop the device, release the lock. *)

(* A reservation has no device and no lock to release yet. *)
Unregister(x) ==
    /\ At(x, "unregister")
    /\ entry' = [entry EXCEPT ![x[1]] = NoEntry]
    /\ task' = IF entry[x[1]].kind = "device"
               THEN [task EXCEPT ![x].target = entry[x[1]].client,
                                 ![x].step = "halt"]
               ELSE [task EXCEPT ![x].step = task[x].then]
    /\ UNCHANGED <<world, lock, running, up, procs, used>>

(* Device.Stop does nothing to a device that is not running. *)
Halt(x) ==
    /\ At(x, "halt")
    /\ Goto(x, IF task[x].target \in running THEN "cut" ELSE "release")
    /\ running' = running \ {task[x].target}
    /\ UNCHANGED <<world, lock, entry, up, procs, used>>

(* The presence withdrawn, the client disconnects. *)
Cut(x) ==
    /\ At(x, "cut")
    /\ up' = up \ {task[x].target}
    /\ Goto(x, "release")
    /\ UNCHANGED <<world, lock, entry, running, procs, used>>

Release(x) ==
    /\ At(x, "release")
    /\ Free(task[x].target)
    /\ task' = [task EXCEPT ![x].step = task[x].then, ![x].target = NoClient]
    /\ UNCHANGED <<world, entry, running, up, procs, used>>

Stop(x) == Unregister(x) \/ Halt(x) \/ Cut(x) \/ Release(x)

-----------------------------------------------------------------------------
(* The supervisor. *)

(* One pass of claimUnheldDevices begins with the snapshot of what is held. *)
TickHeld(x) ==
    /\ x[2] = "tick" /\ At(x, "idle") /\ x[1] \notin closing
    /\ task' = [task EXCEPT ![x].step = "list", ![x].held = entry[x[1]].kind]
    /\ UNCHANGED <<world, registry, procs, used>>

ShouldResume == ~row.paused /\ row.live

(* Mutant: a paused number is not released where it is held. *)
ToReleaseInactive(held) == held = "device" /\ workspace = "inactive"

(* toRelease, for a snapshot with this number in it. *)
ToRelease(held) ==
    /\ held = "device"
    /\ workspace = "inactive" \/ row.paused

(* The row and the workspace are read, and the pass decides. *)
TickList(x) ==
    /\ At(x, "list")
    /\ LET held == task[x].held IN
       Finish(x, CASE workspace = "denied" ->
                        IF held # "none" THEN "unregister" ELSE "idle"
                   [] workspace # "denied" /\ ToRelease(held) -> "get"
                   [] workspace = "active" /\ held = "none" /\ ShouldResume ->
                        "claim"
                   [] OTHER -> "idle")
    /\ UNCHANGED <<world, registry, procs, used>>

(* A list that failed releases nothing and claims nothing. *)
TickListFails(x) ==
    /\ At(x, "list") /\ Spend("faults")
    /\ Finish(x, "idle")
    /\ UNCHANGED <<world, registry, procs>>

TickClaim(x) ==
    /\ At(x, "claim")
    /\ Goto(x, "reserve")
    /\ UNCHANGED <<world, registry, procs, used>>

(* A number that failed before is tried at random passes only; how often it
   failed is left out, so any pass may skip it. *)
TickSkip(x) ==
    /\ At(x, "claim")
    /\ Finish(x, "idle")
    /\ UNCHANGED <<world, registry, procs, used>>

(* app.release stops what is held here, never a reservation. *)
TickRelease(x) ==
    /\ At(x, "get")
    /\ Finish(x, IF entry[x[1]].kind = "device" THEN "unregister" ELSE "idle")
    /\ UNCHANGED <<world, registry, procs, used>>

(* ErrNoSession, recorded by the supervisor and by a start alike. *)
RecordLost(x) ==
    /\ At(x, "lost")
    /\ Writes([row EXCEPT !.live = FALSE])
    /\ Finish(x, "idle")
    /\ UNCHANGED <<session, workspace, registry, procs>>

Tick(x) ==
    \/ TickHeld(x) \/ TickList(x) \/ TickRelease(x) \/ RecordLost(x)

-----------------------------------------------------------------------------
(* The requests. *)

(* device.start: the row is read, and its pause lifted on that read. *)
StartRequest(p) ==
    /\ At(<<p, "start">>, "idle") /\ p \notin closing
    /\ row.live /\ Spend("requests")
    /\ task' = [task EXCEPT ![<<p, "start">>].lifted = row.paused,
                            ![<<p, "start">>].step =
                              IF row.paused THEN "unpause" ELSE "reserve"]
    /\ UNCHANGED <<world, registry, procs>>

LiftPause(x) ==
    /\ At(x, "unpause")
    /\ row' = [row EXCEPT !.paused = FALSE]
    /\ Goto(x, "reserve")
    /\ UNCHANGED <<session, workspace, registry, procs, used>>

(* The pause cannot be lifted: the request ends there. *)
LiftPauseFails(x) ==
    /\ At(x, "unpause") /\ Spend("faults")
    /\ Finish(x, "idle")
    /\ UNCHANGED <<world, registry, procs>>

(* RestorePause, after a start that failed. *)
RestorePause(x) ==
    /\ At(x, "restore")
    /\ Writes([row EXCEPT !.paused = TRUE])
    /\ Finish(x, IF task[x].then = "lost" THEN "lost" ELSE "idle")
    /\ UNCHANGED <<session, workspace, registry, procs>>

(* device.stop: the pause commits, then the registry stops what is here. *)
StopRequest(p) ==
    /\ At(<<p, "stop">>, "idle") /\ p \notin closing /\ Spend("requests")
    /\ row' = [row EXCEPT !.paused = TRUE]
    /\ task' = [task EXCEPT ![<<p, "stop">>].step = "unregister",
                            ![<<p, "stop">>].then = "status"]
    /\ UNCHANGED <<session, workspace, registry, procs>>

(* ... and its display status becomes offline, whatever it was. *)
StopStatus(x) ==
    /\ At(x, "status")
    /\ Writes([row EXCEPT !.live = TRUE])
    /\ Finish(x, "idle")
    /\ UNCHANGED <<session, workspace, registry, procs>>

Request(x) == LiftPause(x) \/ RestorePause(x) \/ StopStatus(x)

-----------------------------------------------------------------------------
(* Processes. *)

(* A process starts with the resume, a pass with nothing held. *)
Boot(p) ==
    /\ p \notin alive
    /\ alive' = alive \cup {p}
    /\ task' = [task EXCEPT ![<<p, "tick">>].step = "list"]
    /\ UNCHANGED <<world, registry, closing, used>>

(* The process is gone: its memory, its connections, and with the database's
   the lock. *)
Gone(p) ==
    /\ alive' = alive \ {p} /\ closing' = closing \ {p}
    /\ entry' = [entry EXCEPT ![p] = NoEntry]
    /\ running' = {c \in running : c[1] # p}
    /\ up' = {c \in up : c[1] # p}
    /\ lock' = IF lock # NoClient /\ lock[1] = p THEN NoClient ELSE lock
    /\ task' = [x \in Tasks |-> IF x[1] = p THEN IdleTask ELSE task[x]]

Crash(p) ==
    /\ p \in alive /\ Spend("exits")
    /\ Gone(p)
    /\ UNCHANGED world

(* A shutdown cancels every context, then StopAll stops every device before
   the process ends. *)
Shutdown(p) ==
    /\ At(<<p, "stop">>, "idle") /\ p \notin closing /\ Spend("exits")
    /\ closing' = closing \cup {p}
    /\ task' = [task EXCEPT ![<<p, "stop">>].step = "unregister",
                            ![<<p, "stop">>].then = "exit"]
    /\ UNCHANGED <<world, registry, alive>>

(* The process ends once its devices are stopped. *)
Exit(x) ==
    /\ At(x, "exit")
    /\ Gone(x[1])
    /\ UNCHANGED <<world, used>>

-----------------------------------------------------------------------------
(* WhatsApp, the phone, the workspace and the database's connections. *)

PhoneUnlinks ==
    /\ session = "linked" /\ Spend("unlinks")
    /\ session' = "revoked"
    /\ UNCHANGED <<row, workspace, registry, procs, task>>

(* A connected client learns of it: the session is deleted and the client is
   down; with its handler attached, the row says logged out and Device.Stop
   runs, which leaves the entry and the lock. *)
LoggedOut(c) ==
    /\ c \in up /\ session # "linked"
    /\ session' = "gone"
    /\ up' = up \ {c}
    /\ running' = running \ {c}
    /\ row' = IF c \in running THEN [row EXCEPT !.live = FALSE] ELSE row
    /\ UNCHANGED <<workspace, lock, entry, procs, task, used>>

(* The storage policy pauses or resumes capture, the tenant is suspended or
   active again. *)
Standing(w) ==
    /\ w # workspace /\ Spend("denials")
    /\ workspace' = w
    /\ UNCHANGED <<row, session, registry, procs, task>>

(* A connection lost while capture is denied: the transport refuses the
   reconnect and the hook ends whatsmeow's attempts. *)
ReconnectDenied(c) ==
    /\ c \in up /\ workspace = "denied" /\ Spend("drops")
    /\ up' = up \ {c}
    /\ UNCHANGED <<world, lock, entry, running, procs, task>>

(* The lock's database connection dies under a running client: the server
   frees the lock, and nothing here notices. *)
LoseLock ==
    /\ lock # NoClient /\ Spend("lost")
    /\ lock' = NoClient
    /\ UNCHANGED <<world, entry, running, up, procs, task>>

Step(x) == Start(x) \/ Stop(x) \/ Tick(x) \/ Request(x) \/ Exit(x)

Environment ==
    \/ \E p \in Procs : StartRequest(p) \/ StopRequest(p) \/ Boot(p)
                        \/ Crash(p) \/ Shutdown(p)
    \/ \E x \in Tasks : TryLockFails(x) \/ ConnectFails(x)
                        \/ TickListFails(x) \/ TickSkip(x)
                        \/ LiftPauseFails(x)
    \/ PhoneUnlinks
    \/ \E c \in Clients : LoggedOut(c) \/ ReconnectDenied(c)
    \/ \E w \in {"active", "denied", "inactive"} : Standing(w)
    \/ LoseLock

Next == \/ \E x \in Tasks : Step(x) \/ TickClaim(x)
        \/ Environment

Spec == Init /\ [][Next]_vars

(* Goroutines that can go on do; what chance decides at random passes is not
   skipped for ever; a logout reaches a client that is connected. *)
Fairness ==
    /\ \A x \in Tasks : WF_vars(Step(x)) /\ SF_vars(TickClaim(x))
    /\ \A c \in Clients : WF_vars(LoggedOut(c))

FairSpec == Spec /\ Fairness
-----------------------------------------------------------------------------
(* Why the lock and the registries agree: the parts of the invariant that
   the proofs use. *)

(* The clients a process knows are its own, only a process that runs knows
   any, and a start has one from its reservation to its connection. *)
Local ==
    /\ \A p \in Procs :
         /\ entry[p].kind = "none" <=> entry[p].client = NoClient
         /\ entry[p].client # NoClient =>
              p \in alive /\ entry[p].client[1] = p
    /\ \A x \in Tasks :
         /\ task[x].own # NoClient => task[x].own[1] = x[1]
         /\ task[x].target # NoClient => task[x].target[1] = x[1]
         /\ task[x].step \in {"lock", "install", "begin", "connect", "dial"} =>
              task[x].own # NoClient
         /\ x[1] \notin alive => task[x] = IdleTask

(* A start that is not installed yet has a client of its own: no other start
   has it, no entry has it as a device, and nothing stops it. *)
FreshClients ==
    \A x \in Tasks :
        task[x].step \in {"lock", "install"} =>
            /\ task[x].own # NoClient
            /\ \A p \in Procs : entry[p].kind = "device" =>
                                  entry[p].client # task[x].own
            /\ \A y \in Tasks : /\ y # x => task[y].own # task[x].own
                                /\ task[y].target # task[x].own

(* What is being stopped is registered nowhere. *)
StoppedIsOut ==
    \A x \in Tasks :
        task[x].step \in {"halt", "cut", "release"} =>
            /\ task[x].target # NoClient
            /\ \A p \in Procs : entry[p].client # task[x].target

(* A start about to install holds the lock. *)
InstallsUnderLock ==
    used["lost"] = 0 =>
        \A x \in Tasks : task[x].step = "install" => lock = task[x].own

-----------------------------------------------------------------------------
(* A device in a process's registry holds the number's lock, so no two
   processes have it registered, whatever starts, stops, cancelled
   adoptions, crashes and failed connects are in progress.  A lock whose
   connection died under its client is the one exception. *)
RegisteredUnderLock ==
    used["lost"] = 0 =>
        \A p \in Procs : entry[p].kind = "device" => lock = entry[p].client

(* The lock never leaks: while it is held, its client is registered, or a
   goroutine that runs is about to install it or to release it.  A lock held
   by nobody would keep the number from every process until a restart. *)
LockHasOwner ==
    lock # NoClient =>
        \/ \E p \in alive :
             entry[p].kind = "device" /\ entry[p].client = lock
        \/ \E x \in Tasks :
             /\ x[1] \in alive
             /\ \/ task[x].step = "install" /\ task[x].own = lock
                \/ task[x].step \in {"halt", "cut", "release"}
                   /\ task[x].target = lock

(* A slot of a registry is never stolen: a device enters it only through the
   reservation of its own start, so a start that a stop cancelled and another
   start has overtaken cannot put its client over the other's (adopt's check
   of the reservation before it installs). *)
SlotNeverStolen ==
    [][\A p \in Procs :
         entry'[p] # entry[p] =>
            \/ entry[p] = NoEntry /\ entry'[p].kind = "reserved"
            \/ entry'[p] = NoEntry
            \/ entry[p].kind = "reserved"
               /\ entry'[p] = Installed(entry[p].client)]_vars

Supervised ==
    \E p \in alive : /\ entry[p].kind = "device"
                     /\ entry[p].client \in running \cap up
                     /\ lock = entry[p].client

Wanted == /\ ShouldResume /\ session = "linked" /\ workspace = "active"
          /\ alive \ closing # {}

(* A number that should be held comes to be held while a process runs: the
   one that lost the race for the lock picks it up when the winner is gone
   (superviseDevices). *)
SomeoneHolds ==
    Wanted ~> (~Wanted \/ \E p \in alive : /\ entry[p].kind = "device"
                                           /\ lock = entry[p].client)

(* A paused number is let go of everywhere: no process keeps it registered
   and the lock comes free, for a deletion's logout or a recovery to take. *)
PausedLetsGo ==
    row.paused ~> (~row.paused \/ (/\ lock = NoClient
                                   /\ \A p \in Procs :
                                        entry[p].kind # "device"))

(* What comments claim and the code does not do. *)

(* A pause ends the connection, also one that was being made: "the check
   after the start below stops the connection it paused". *)
PauseStops == row.paused ~> (~row.paused \/ up = {})

(* A number that should be held comes to be connected under supervision: the
   supervisor "keeps trying to hold every device that should be held". *)
KeepsTrying == Wanted ~> (~Wanted \/ Supervised)
=============================================================================
