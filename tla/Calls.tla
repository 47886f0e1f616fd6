--------------------------------- MODULE Calls ---------------------------------
(***************************************************************************)
(* The calls of one number (internal/calling, internal/wsapi/calls.go): the *)
(* device's one slot, the browser session that owns a call, its media        *)
(* socket, and the roster of a group call.                                   *)
(*                                                                          *)
(* The service's mutex makes a critical section one action; what a handler,  *)
(* a timer or a callback does after it left the mutex is a step of its own.  *)
(* A record's `op` mutex orders what is told to WhatsApp.  WhatsApp and the  *)
(* calling library are external: `native` is the call as they have it, and   *)
(* its callbacks come at any time once they are installed.  Samples, frames, *)
(* orientation and the reasons a call ends with are left out.                *)
(***************************************************************************)
EXTENDS Naturals, FiniteSets

CONSTANTS
    Calls,      \* bound: call records, in no order
    Owners,     \* control sessions
    Tasks,      \* requests and media sockets under way
    Peers,      \* people who may be in a group call
    None,
    Limit,      \* ParticipantLimit, the person's own place included
    MaxDevices, \* bound: clients attached one after another
    MaxRosters  \* bound: a roster's transaction number

Devices == 1..MaxDevices
(* The bounds are numbers, and the people are finitely many. *)
CallBounds == {Limit, MaxDevices, MaxRosters} \subseteq Nat /\ IsFiniteSet(Peers)

VARIABLES
    attached,  \* the device in Service.devices, 0 for none
    active,    \* device.active
    owner,     \* Service.owners: "new", "alive" or "gone"
    rec,       \* the records
    ticket,    \* the owner a record's ticket is for; None without one
    bridge,    \* a record's mediaBridge
    roster,    \* a record's participants, the person excepted
    streams,   \* the people a record's bridge has a video queue for
    op,        \* who holds a record's op mutex
    ending,    \* records that a timer, handler or callback is about to end
    signal,    \* what a record's goroutine is about to tell WhatsApp
    native,    \* the call at WhatsApp
    task

call == <<rec, ticket, bridge, roster, streams, signal>>
service == <<attached, active, owner>>
vars == <<call, service, op, ending, native, task>>

-----------------------------------------------------------------------------
NoCall == [st |-> "none", dir |-> "out", dev |-> 0, owner |-> None,
           pending |-> FALSE, bound |-> FALSE, wired |-> FALSE,
           flowing |-> FALSE, accepted |-> FALSE, group |-> FALSE, tx |-> 0]
NewBridge == [used |-> FALSE, closed |-> FALSE, capable |-> FALSE, audio |-> FALSE, mic |-> FALSE]
NoNative == [phase |-> "none", answered |-> FALSE, told |-> FALSE]
Absent == [st |-> "none", clock |-> "unset", local |-> FALSE]
Idle == [op |-> "idle", o |-> None, r |-> None, todo |-> {}, p |-> None]

At(t, step) == task[t].op = step
Goto(t, step) == task' = [task EXCEPT ![t].op = step]
Finish(t) == task' = [task EXCEPT ![t] = Idle]
Live(r) == rec[r].st \in {"ringing", "connecting", "active"}
Unused == {r \in Calls : rec[r].st = "none"}
OwnerAlive(o) == o # None /\ owner[o] = "alive"

(* lookup: a call is found by the id it has once the library made it; only an *)
(* unclaimed incoming one may be claimed.                                    *)
Found(o, r, claim) ==
    /\ OwnerAlive(o) /\ Live(r) /\ rec[r].bound
    /\ rec[r].owner = o \/ (claim /\ rec[r].owner = None)

GroupCapable(r) == bridge[r].used /\ ~bridge[r].closed /\ bridge[r].capable
(* inviteAllowed. *)
InviteAllowed(r, o) ==
    /\ OwnerAlive(o) /\ rec[r].owner = o /\ rec[r].dir = "out" /\ rec[r].st = "active"
    /\ attached = rec[r].dev /\ GroupCapable(r)

(* The fields of the record, the slot, the tickets and the goroutine that end *)
(* changes in its critical section.                                          *)
EndRecord(r) == [rec EXCEPT ![r].st = "ended"]
FreeSlot(r) == IF active[rec[r].dev] = r THEN [active EXCEPT ![rec[r].dev] = None] ELSE active
EndSlot(r) == IF rec[r].pending THEN active ELSE FreeSlot(r)
EndSignal(r, tell) ==
    IF tell /\ rec[r].bound
    THEN [signal EXCEPT ![r] = IF rec[r].dir = "in" /\ rec[r].st = "ringing"
                               THEN "reject" ELSE "hangup"]
    ELSE signal
End(r, tell) ==
    IF Live(r)
    THEN /\ rec' = EndRecord(r) /\ active' = EndSlot(r)
         /\ signal' = EndSignal(r, tell)
         /\ ticket' = [ticket EXCEPT ![r] = None]
    ELSE UNCHANGED <<rec, active, signal, ticket>>

(* Whoever decided to end a call does so. *)
EndDue(r) ==
    /\ r \in ending /\ End(r, TRUE)
    /\ ending' = ending \ {r}
    /\ UNCHANGED <<bridge, roster, streams, attached, owner, op, native, task>>
(* end closes the bridge after the critical section. *)
CloseBridge(r) ==
    /\ rec[r].st = "ended" /\ ~bridge[r].closed
    /\ bridge' = [bridge EXCEPT ![r].closed = TRUE]
    /\ UNCHANGED <<rec, ticket, roster, streams, signal, service, op, ending, native, task>>
(* Its goroutine tells WhatsApp, after whatever holds op. *)
Signal(r) ==
    /\ signal[r] # "none" /\ op[r] = None
    /\ signal' = [signal EXCEPT ![r] = "none"]
    /\ native' = [native EXCEPT ![r].told = TRUE]
    /\ UNCHANGED <<rec, ticket, bridge, roster, streams, service, op, ending, task>>

-----------------------------------------------------------------------------
(* Devices and sessions.                                                    *)

Attach(d) ==
    /\ attached = 0 /\ \A e \in Devices : e < d => \E r \in Calls : rec[r].dev = e
    /\ \A r \in Calls : rec[r].dev # d
    /\ attached' = d
    /\ UNCHANGED <<call, active, owner, op, ending, native, task>>

(* detach reads the slot in the section that takes the device away. *)
Active == IF attached # 0 THEN {active[attached]} \ {None} ELSE {}
Detach ==
    /\ attached # 0 /\ attached' = 0
    /\ ending' = ending \union Active
    /\ UNCHANGED <<call, active, owner, op, native, task>>
(* The client's Disconnected or LoggedOut event. *)
Disconnected ==
    /\ Active # {} /\ ending' = ending \union Active
    /\ UNCHANGED <<call, service, op, native, task>>

(* The library's log says that a call's media stopped (failure.go). *)
MediaFailed(r) ==
    /\ r \in Active /\ rec[r].bound /\ ending' = ending \union {r}
    /\ UNCHANGED <<call, service, op, native, task>>

(* A session has one owner id, from its first request until it closes. *)
RegisterOwner(o) ==
    /\ owner[o] = "new" /\ owner' = [owner EXCEPT ![o] = "alive"]
    /\ UNCHANGED <<call, attached, active, op, ending, native, task>>
ReleaseOwner(o) ==
    /\ owner[o] = "alive" /\ owner' = [owner EXCEPT ![o] = "gone"]
    /\ ending' = ending \union {r \in Calls : rec[r].owner = o}
    /\ ticket' = [r \in Calls |-> IF ticket[r] = o THEN None ELSE ticket[r]]
    /\ UNCHANGED <<rec, bridge, roster, streams, signal, attached, active, op, native, task>>

-----------------------------------------------------------------------------
(* An outgoing call.                                                        *)

Reserved(o) ==
    [NoCall EXCEPT !.st = "ringing", !.dev = attached, !.owner = o, !.pending = TRUE]

(* The slot is taken before the library is asked. *)
Start(t, o, r) ==
    /\ At(t, "idle") /\ r \in Unused
    /\ OwnerAlive(o) /\ attached # 0 /\ active[attached] = None
    /\ rec' = [rec EXCEPT ![r] = Reserved(o)]
    /\ active' = [active EXCEPT ![attached] = r]
    /\ task' = [task EXCEPT ![t] = [Idle EXCEPT !.op = "dial", !.o = o, !.r = r]]
    /\ UNCHANGED <<ticket, bridge, roster, streams, signal, attached, owner, op, ending, native>>

(* engine.call: the library makes the call, or fails. *)
Dial(t) ==
    /\ At(t, "dial")
    /\ \/ /\ Goto(t, "made")
          /\ native' = [native EXCEPT ![task[t].r] = [NoNative EXCEPT !.phase = "ringing"]]
       \/ Goto(t, "unmade") /\ native' = native
    /\ UNCHANGED <<call, service, op, ending>>

Invited == [Absent EXCEPT !.st = "invited"]
FirstRoster(p) == [q \in Peers |-> IF q = p THEN Invited ELSE Absent]

(* Mutant: the slot is left to end, which a call that is pending keeps it from. *)
StartBoundKeeping(t) ==
    /\ \/ At(t, "made") \/ At(t, "unmade")
    /\ LET r == task[t].r
           stands == /\ attached = rec[r].dev /\ OwnerAlive(task[t].o) /\ Live(r)
       IN  \/ /\ stands /\ At(t, "made")
              /\ rec' = [rec EXCEPT ![r].pending = FALSE, ![r].bound = TRUE]
              /\ \E p \in Peers : roster' = [roster EXCEPT ![r] = FirstRoster(p)]
              /\ active' = active /\ Finish(t)
           \/ /\ rec' = [rec EXCEPT ![r].pending = FALSE]
              /\ active' = active /\ roster' = roster
              /\ Goto(t, IF At(t, "made") THEN "lost" ELSE "failed")
    /\ UNCHANGED <<ticket, bridge, streams, signal, attached, owner, op, ending, native>>

(* The call takes its record unless the device, the owner, the record or the *)
(* request went meanwhile; then the slot is freed here.                      *)
StartBound(t) ==
    /\ \/ At(t, "made") \/ At(t, "unmade")
    /\ LET r == task[t].r
           stands == /\ attached = rec[r].dev /\ OwnerAlive(task[t].o) /\ Live(r)
       IN  \/ /\ stands /\ At(t, "made")
              /\ rec' = [rec EXCEPT ![r].pending = FALSE, ![r].bound = TRUE]
              /\ \E p \in Peers : roster' = [roster EXCEPT ![r] = FirstRoster(p)]
              /\ active' = active /\ Finish(t)
           \/ /\ rec' = [rec EXCEPT ![r].pending = FALSE]
              /\ active' \in {FreeSlot(r)} \union (IF stands /\ At(t, "unmade") THEN {active} ELSE {})
              /\ roster' = roster
              /\ Goto(t, IF At(t, "made") THEN "lost" ELSE "failed")
    /\ UNCHANGED <<ticket, bridge, streams, signal, attached, owner, op, ending, native>>

(* The failed start ends its record and, when the library made the call, has *)
(* it hung up.                                                               *)
StartFails(t) ==
    /\ \/ At(t, "lost") \/ At(t, "failed")
    /\ LET r == task[t].r
       IN  /\ rec' = IF Live(r) THEN EndRecord(r) ELSE rec
           /\ active' = IF Live(r) THEN EndSlot(r) ELSE active
           /\ ticket' = [ticket EXCEPT ![r] = None]
           /\ signal' = IF At(t, "lost") THEN [signal EXCEPT ![r] = "hangup"] ELSE signal
    /\ Finish(t)
    /\ UNCHANGED <<bridge, roster, streams, attached, owner, op, ending, native>>

-----------------------------------------------------------------------------
(* An incoming call, and what the library reports of any.                   *)

(* A busy device refuses it; one that was detached has no other. *)
Incoming(r, p) ==
    /\ r \in Unused /\ attached # 0 /\ active[attached] = None
    /\ rec' = [rec EXCEPT ![r] = [NoCall EXCEPT !.st = "ringing", !.dir = "in", !.dev = attached,
                                     !.bound = TRUE]]
    /\ roster' = [roster EXCEPT ![r] = FirstRoster(p)]
    /\ active' = [active EXCEPT ![attached] = r]
    /\ native' = [native EXCEPT ![r] = [NoNative EXCEPT !.phase = "ringing"]]
    /\ UNCHANGED <<ticket, bridge, streams, signal, attached, owner, op, ending, task>>

(* WhatsApp: relays are prepared before anyone accepts. *)
Proceeds(r, phase) ==
    /\ native[r].phase \in {"ringing", "connecting", "active"}
    /\ <<native[r].phase, phase>> \in {<<"ringing", "connecting">>, <<"connecting", "active">>}
                                        \union ({"ringing", "connecting", "active"} \X {"over"})
    /\ native' = [native EXCEPT ![r].phase = phase]
    /\ UNCHANGED <<call, service, op, ending, task>>

(* phase: nothing shows before the person, or the peer, took the call. *)
Taken(r) == IF rec[r].dir = "in" THEN rec[r].owner # None ELSE rec[r].accepted
Phased(r, phase) ==
    LET flowing == rec[r].flowing \/ phase = "active"
        x == [rec[r] EXCEPT !.flowing = flowing, !.wired = TRUE]
    IN  IF ~Taken(r) THEN x
        ELSE IF flowing THEN [x EXCEPT !.st = "active"]
        ELSE IF phase = "connecting" \/ x.accepted THEN [x EXCEPT !.st = "connecting"]
        ELSE x
Connect(r) ==
    [q \in Peers |-> IF roster[r][q].st = "none" THEN Absent
                     ELSE [roster[r][q] EXCEPT !.st = "connected"]]
Phase(r, phase) ==
    IF phase = "over"
    THEN End(r, FALSE) /\ roster' = roster
    ELSE /\ rec' = [rec EXCEPT ![r] = Phased(r, phase)]
         /\ roster' = IF Phased(r, phase).st = "active" /\ ~rec[r].group
                      THEN [roster EXCEPT ![r] = Connect(r)] ELSE roster
         /\ UNCHANGED <<active, signal, ticket>>

(* configure: under op, the callbacks, then the phase they may have missed. *)
Configure(r) ==
    /\ Live(r) /\ rec[r].bound /\ ~rec[r].wired /\ op[r] = None
    /\ Phase(r, native[r].phase)
    /\ UNCHANGED <<bridge, streams, attached, owner, op, ending, native, task>>
(* OnStateChange, OnEnd: a phase the call has reached, late or not. *)
Reached(r) ==
    CASE native[r].phase = "connecting" -> {"connecting"}
      [] native[r].phase = "active" -> {"connecting", "active"}
      [] native[r].phase = "over" -> {"connecting", "active", "over"}
      [] OTHER -> {}
Report(r, phase) ==
    /\ rec[r].wired /\ Live(r) /\ phase \in Reached(r) /\ Phase(r, phase)
    /\ UNCHANGED <<bridge, streams, attached, owner, op, ending, native, task>>

(* OnPeerAccept: the mark, then the microphone and the phase. *)
OnPeerAccept(r) ==
    /\ rec[r].wired /\ ~rec[r].accepted /\ native[r].phase # "over"
    /\ rec[r].dir = "out" /\ OwnerAlive(rec[r].owner) /\ Live(r)
    /\ rec' = [rec EXCEPT ![r].accepted = TRUE]
    /\ UNCHANGED <<ticket, bridge, roster, streams, signal, service, op, ending, native, task>>
AcceptAudio(r) ==
    /\ rec[r].accepted /\ ~bridge[r].closed /\ ~bridge[r].audio
    /\ bridge' = [bridge EXCEPT ![r].audio = TRUE, ![r].mic = FALSE]
    /\ UNCHANGED <<rec, ticket, roster, streams, signal, service, op, ending, native, task>>

(* The ring timer runs from the start until the call is active or over. *)
RingTimeout(r) ==
    /\ rec[r].st \in {"ringing", "connecting"} /\ ending' = ending \union {r}
    /\ UNCHANGED <<call, service, op, native, task>>
(* The media timer runs from the call, or the claim; expireMedia looks at the *)
(* bridge before it ends the call.                                           *)
ExpireMedia(r) ==
    /\ Live(r) /\ rec[r].bound /\ ~bridge[r].used
    /\ rec[r].dir = "in" => rec[r].st # "ringing"
    /\ ending' = ending \union {r}
    /\ UNCHANGED <<call, service, op, native, task>>

-----------------------------------------------------------------------------
(* Answer, reject, hang up.                                                 *)

(* The claim. *)
Answer(t, o, r) ==
    /\ At(t, "idle") /\ Found(o, r, TRUE)
    /\ rec[r].dir = "in" /\ rec[r].st = "ringing"
    /\ rec' = [rec EXCEPT ![r].owner = o, ![r].st = "connecting"]
    /\ task' = [task EXCEPT ![t] = [Idle EXCEPT !.op = "answer", !.o = o, !.r = r]]
    /\ UNCHANGED <<ticket, bridge, roster, streams, signal, service, op, ending, native>>

(* Mutant: the claim is taken for the state it was made in. *)
AnswerUnchecked(t) ==
    /\ At(t, "answer") /\ op[task[t].r] = None
    /\ op' = [op EXCEPT ![task[t].r] = t] /\ Goto(t, "send")
    /\ UNCHANGED <<call, service, ending, native>>

(* Under op, a claim that was lost meanwhile answers nothing. *)
AnswerChecked(t) ==
    /\ At(t, "answer") /\ op[task[t].r] = None
    /\ IF OwnerAlive(task[t].o) /\ Live(task[t].r)
       THEN op' = [op EXCEPT ![task[t].r] = t] /\ Goto(t, "send")
       ELSE op' = op /\ Finish(t)
    /\ UNCHANGED <<call, service, ending, native>>

SendAnswer(t) ==
    /\ At(t, "send")
    /\ LET r == task[t].r
       IN  /\ op' = [op EXCEPT ![r] = None]
           /\ \/ /\ native' = [native EXCEPT ![r].answered = TRUE]
                 /\ Goto(t, "microphone") /\ ending' = ending
              \/ /\ ending' = ending \union {r} /\ Finish(t)
                 /\ native' = native
    /\ UNCHANGED <<call, service>>

AllowAudio(t) ==
    /\ At(t, "microphone")
    /\ bridge' = IF bridge[task[t].r].closed THEN bridge
                 ELSE [bridge EXCEPT ![task[t].r].audio = TRUE, ![task[t].r].mic = FALSE]
    /\ Finish(t)
    /\ UNCHANGED <<rec, ticket, roster, streams, signal, service, op, ending, native>>

Reject(o, r) ==
    /\ Found(o, r, TRUE) /\ rec[r].dir = "in" /\ rec[r].st = "ringing"
    /\ rec' = [rec EXCEPT ![r].owner = o]
    /\ ending' = ending \union {r}
    /\ UNCHANGED <<ticket, bridge, roster, streams, signal, service, op, native, task>>
Hangup(o, r) ==
    /\ Found(o, r, FALSE) /\ ending' = ending \union {r}
    /\ UNCHANGED <<call, service, op, native, task>>

-----------------------------------------------------------------------------
(* The media socket.                                                        *)

(* A new ticket replaces the record's older one. *)
MediaTicket(o, r) ==
    /\ Found(o, r, FALSE) /\ ~bridge[r].used
    /\ ticket' = [ticket EXCEPT ![r] = o]
    /\ UNCHANGED <<rec, bridge, roster, streams, signal, service, op, ending, native, task>>
TicketAges(r) ==
    /\ ticket[r] # None /\ ticket' = [ticket EXCEPT ![r] = None]
    /\ UNCHANGED <<rec, bridge, roster, streams, signal, service, op, ending, native, task>>

(* A ticket is spent by whoever shows it, whether it holds or not. *)
ConsumeTicket(t, r) ==
    /\ At(t, "idle") /\ ticket[r] # None
    /\ ticket' = [ticket EXCEPT ![r] = None]
    /\ task' = IF /\ OwnerAlive(ticket[r]) /\ rec[r].owner = ticket[r] /\ Live(r)
                  /\ attached = rec[r].dev
               THEN [task EXCEPT ![t] = [Idle EXCEPT !.op = "bind", !.o = ticket[r], !.r = r]]
               ELSE task
    /\ UNCHANGED <<rec, bridge, roster, streams, signal, service, op, ending, native>>

Bind(t, capable) ==
    /\ At(t, "bind")
    /\ IF bridge[task[t].r].closed \/ bridge[task[t].r].used
       THEN bridge' = bridge /\ Finish(t)
       ELSE /\ bridge' = [bridge EXCEPT ![task[t].r].used = TRUE, ![task[t].r].capable = capable]
            /\ Goto(t, "bound")
    /\ UNCHANGED <<rec, ticket, roster, streams, signal, service, op, ending, native>>

(* The owner and the call once more; from here a socket that ends, ends the  *)
(* call.                                                                     *)
MediaReady(t) ==
    /\ At(t, "bound")
    /\ LET r == task[t].r
       IN  Goto(t, IF OwnerAlive(rec[r].owner) /\ Live(r) THEN "stream" ELSE "leave")
    /\ UNCHANGED <<call, service, op, ending, native>>
(* receive and ReadFrame: nothing is queued before the call was taken. *)
Microphone(t) ==
    /\ At(t, "stream") /\ ~bridge[task[t].r].closed
    /\ bridge' = [bridge EXCEPT ![task[t].r].mic = bridge[task[t].r].audio]
    /\ UNCHANGED <<rec, ticket, roster, streams, signal, service, op, ending, native, task>>
MediaEnds(t) ==
    /\ \/ At(t, "stream") \/ At(t, "leave")
    /\ bridge' = IF At(t, "stream") THEN [bridge EXCEPT ![task[t].r].closed = TRUE] ELSE bridge
    /\ ending' = ending \union {task[t].r}
    /\ Finish(t)
    /\ UNCHANGED <<rec, ticket, roster, streams, signal, service, op, native>>

-----------------------------------------------------------------------------
(* Groups.                                                                  *)

Present(people) == {q \in Peers : people[q].st \in {"invited", "connected"}}
Fits(people) == Cardinality(Present(people)) + 1 <= Limit

(* expireInvites, which every look at the roster runs first. *)
Expired(people) ==
    [q \in Peers |-> IF people[q].st = "invited" /\ people[q].clock = "past"
                     THEN [people[q] EXCEPT !.st = "out", !.local = FALSE] ELSE people[q]]
InviteAges(r, q) ==
    /\ roster[r][q].clock = "running"
    /\ roster' = [roster EXCEPT ![r][q].clock = "past"]
    /\ UNCHANGED <<rec, ticket, bridge, streams, signal, service, op, ending, native, task>>
Look(r) ==
    /\ roster[r] # Expired(roster[r]) /\ roster' = [roster EXCEPT ![r] = Expired(@)]
    /\ UNCHANGED <<rec, ticket, bridge, streams, signal, service, op, ending, native, task>>

Invite(t, o, r, who) ==
    /\ At(t, "idle") /\ Found(o, r, FALSE)
    /\ task' = [task EXCEPT ![t] = [Idle EXCEPT !.op = "invite", !.o = o, !.r = r, !.todo = who]]
    /\ UNCHANGED <<call, service, op, ending, native>>
(* Under op, all of it again. *)
InviteChecked(t) ==
    /\ At(t, "invite") /\ op[task[t].r] = None
    /\ IF Found(task[t].o, task[t].r, FALSE) /\ InviteAllowed(task[t].r, task[t].o)
       THEN op' = [op EXCEPT ![task[t].r] = t] /\ Goto(t, "next")
       ELSE op' = op /\ Finish(t)
    /\ UNCHANGED <<call, service, ending, native>>

(* One person: a place is reserved, unless they are in already, the call     *)
(* stands no more, it is full, or their number did not resolve.              *)
ReservePlace(t, q) ==
    /\ At(t, "next") /\ q \in task[t].todo
    /\ LET r == task[t].r
           people == Expired(roster[r])
           joined == [people EXCEPT ![q] = [st |-> "invited", clock |-> "running", local |-> TRUE]]
       IN  \/ /\ InviteAllowed(r, task[t].o) /\ q \notin Present(people) /\ Fits(joined)
              /\ roster' = [roster EXCEPT ![r] = joined]
              /\ task' = [task EXCEPT ![t].op = "place", ![t].p = q, ![t].todo = @ \ {q}]
           \/ /\ roster' = [roster EXCEPT ![r] = people]
              /\ task' = [task EXCEPT ![t].todo = @ \ {q}]
    /\ UNCHANGED <<rec, ticket, bridge, streams, signal, service, op, ending, native>>
(* The library's answer; a roster may have come meanwhile. *)
SettlePlace(t) ==
    /\ At(t, "place")
    /\ LET r == task[t].r
           q == task[t].p
       IN  roster' \in
             {[roster EXCEPT ![r][q] = IF @.st = "invited" THEN [@ EXCEPT !.st = "out", !.local = FALSE] ELSE @]}
               \union (IF InviteAllowed(r, task[t].o) THEN {roster} ELSE {})
    /\ Goto(t, "next")
    /\ UNCHANGED <<rec, ticket, bridge, streams, signal, service, op, ending, native>>
InviteEnds(t) ==
    /\ At(t, "next") /\ task[t].todo = {}
    /\ op' = [op EXCEPT ![task[t].r] = None] /\ Finish(t)
    /\ UNCHANGED <<call, service, ending, native>>

(* groupState: who was there before a roster, who it names, and who is left  *)
(* of both.  One with no number of its own comes before any that has.        *)
Before(people, tx) ==
    [q \in Peers |->
        CASE tx = 0 /\ people[q].st = "connected" ->
               [people[q] EXCEPT !.st = "invited", !.clock = "running"]
          [] tx # 0 /\ ~people[q].local /\ people[q].st \in {"connected", "invited"} ->
               [people[q] EXCEPT !.st = "out"]
          [] OTHER -> people[q]]
Named(person, tx, said) ==
    LET st == IF tx = 0 THEN "invited" ELSE said
        clock == IF person.clock = "unset" THEN "running" ELSE person.clock
    IN  CASE st = "connected" -> [st |-> st, clock |-> "unset", local |-> FALSE]
          [] st = "invited" -> [st |-> IF clock = "past" THEN "out" ELSE st,
                                clock |-> clock, local |-> FALSE]
          [] OTHER -> [st |-> st, clock |-> person.clock, local |-> FALSE]
NextRoster(r, tx, said) ==
    LET people == Before(Expired(roster[r]), tx)
    IN  [q \in Peers |-> IF said[q] = "unnamed" THEN people[q] ELSE Named(people[q], tx, said[q])]

Stale(r, tx) == rec[r].tx # 0 /\ tx <= rec[r].tx
Connected(people) == {q \in Peers : people[q].st = "connected"}

GroupState(r, tx, said) ==
    /\ rec[r].wired /\ Live(r)
    /\ \/ /\ rec[r].dir # "out" \/ ~OwnerAlive(rec[r].owner) \/ ~GroupCapable(r)
          /\ ending' = ending \union {r} /\ UNCHANGED <<rec, roster, streams>>
       \/ /\ rec[r].dir = "out" /\ OwnerAlive(rec[r].owner) /\ GroupCapable(r)
          /\ ~Stale(r, tx)
          /\ IF Fits(NextRoster(r, tx, said))
             THEN /\ roster' = [roster EXCEPT ![r] = NextRoster(r, tx, said)]
                  /\ rec' = [rec EXCEPT ![r].group = TRUE, ![r].tx = IF tx = 0 THEN @ ELSE tx]
                  /\ streams' = [streams EXCEPT ![r] = Connected(NextRoster(r, tx, said))]
                  /\ ending' = ending
             ELSE /\ roster' = [roster EXCEPT ![r] = Expired(@)]
                  /\ ending' = ending \union {r} /\ UNCHANGED <<rec, streams>>
    /\ UNCHANGED <<ticket, bridge, signal, service, op, native, task>>

-----------------------------------------------------------------------------
Init ==
    /\ attached = 0 /\ ending = {}
    /\ active = [d \in Devices |-> None]
    /\ owner = [o \in Owners |-> "new"]
    /\ rec = [r \in Calls |-> NoCall]
    /\ ticket = [r \in Calls |-> None] /\ op = [r \in Calls |-> None]
    /\ bridge = [r \in Calls |-> NewBridge]
    /\ roster = [r \in Calls |-> [q \in Peers |-> Absent]]
    /\ streams = [r \in Calls |-> {}]
    /\ signal = [r \in Calls |-> "none"]
    /\ native = [r \in Calls |-> NoNative]
    /\ task = [t \in Tasks |-> Idle]

Said(tx) == {"unnamed", "invited"} \union (IF tx = 0 THEN {} ELSE {"connected", "out"})

OfCall(r) ==
    \/ EndDue(r) \/ CloseBridge(r) \/ Signal(r) \/ Configure(r)
    \/ OnPeerAccept(r) \/ AcceptAudio(r) \/ RingTimeout(r) \/ ExpireMedia(r) \/ MediaFailed(r)
    \/ TicketAges(r) \/ Look(r)
    \/ \E phase \in {"connecting", "active", "over"} : Proceeds(r, phase) \/ Report(r, phase)
    \/ \E p \in Peers : Incoming(r, p) \/ InviteAges(r, p)
    \/ \E o \in Owners : Reject(o, r) \/ Hangup(o, r) \/ MediaTicket(o, r)
    \/ \E tx \in 0..MaxRosters : \E said \in [Peers -> Said(tx)] : GroupState(r, tx, said)

OfTask(t) ==
    \/ Dial(t) \/ StartBound(t) \/ StartFails(t)
    \/ AnswerChecked(t) \/ SendAnswer(t) \/ AllowAudio(t)
    \/ MediaReady(t) \/ Microphone(t) \/ MediaEnds(t) \/ \E b \in BOOLEAN : Bind(t, b)
    \/ InviteChecked(t) \/ SettlePlace(t) \/ InviteEnds(t) \/ \E q \in Peers : ReservePlace(t, q)
    \/ \E r \in Calls : \/ ConsumeTicket(t, r)
                        \/ \E o \in Owners : \/ Start(t, o, r) \/ Answer(t, o, r)
                                             \/ \E who \in SUBSET Peers \ {{}} : Invite(t, o, r, who)

Next ==
    \/ \E d \in Devices : Attach(d)
    \/ Detach \/ Disconnected
    \/ \E o \in Owners : RegisterOwner(o) \/ ReleaseOwner(o)
    \/ \E r \in Calls : OfCall(r)
    \/ \E t \in Tasks : OfTask(t)

Spec == Init /\ [][Next]_vars

-----------------------------------------------------------------------------
(* Types. *)
TypeOK ==
    /\ attached \in 0..MaxDevices /\ active \in [Devices -> Calls \union {None}]
    /\ owner \in [Owners -> {"new", "alive", "gone"}]
    /\ rec \in [Calls -> [st : {"none", "ringing", "connecting", "active", "ended"},
                          dir : {"in", "out"}, dev : 0..MaxDevices, owner : Owners \union {None},
                          pending : BOOLEAN, bound : BOOLEAN, wired : BOOLEAN,
                          flowing : BOOLEAN, accepted : BOOLEAN, group : BOOLEAN, tx : 0..MaxRosters]]
    /\ ticket \in [Calls -> Owners \union {None}] /\ op \in [Calls -> Tasks \union {None}]
    /\ signal \in [Calls -> {"none", "reject", "hangup"}]
    /\ ending \subseteq Calls /\ streams \in [Calls -> SUBSET Peers]

Failing(r) == \E t \in Tasks : task[t].r = r /\ (At(t, "lost") \/ At(t, "failed"))
Starting(r) == \E t \in Tasks : task[t].r = r /\ task[t].op \in {"dial", "made", "unmade", "lost", "failed"}

(* The device's slot is never held by a call that is over, whatever ended it *)
(* while the library was still making it (Start, end); and of two live calls *)
(* of a device one is a start that failed and is about to end its record.    *)
SlotIsHonest ==
    /\ \A d \in Devices : active[d] # None =>
         rec[active[d]].dev = d /\ (Live(active[d]) \/ rec[active[d]].pending)
    /\ \A r, s \in Calls : r # s /\ Live(r) /\ Live(s) /\ rec[r].dev = rec[s].dev =>
         Failing(r) \/ Failing(s)

(* A session that closed, and a device that was taken away, leave no call    *)
(* behind but one that somebody is about to end (ReleaseOwner, detach).      *)
NothingOutlives ==
    \A r \in Calls : Live(r) =>
        \/ r \in ending \/ Failing(r)
        \/ /\ rec[r].dev = attached
           /\ rec[r].owner # None => owner[rec[r].owner] = "alive"

(* No microphone is heard before the person answered, or the peer accepted;  *)
(* and it is the owner's, through one socket.                                *)
MicrophoneIsOwners ==
    /\ \A r \in Calls : bridge[r].audio =>
         /\ rec[r].owner # None
         /\ IF rec[r].dir = "in" THEN native[r].answered ELSE rec[r].accepted
    /\ \A r \in Calls : bridge[r].mic => bridge[r].audio /\ bridge[r].used
    /\ \A t, u \in Tasks : At(t, "stream") =>
         /\ task[t].o = rec[task[t].r].owner
         /\ At(u, "stream") /\ task[u].r = task[t].r => t = u

(* A call that ended here ends at WhatsApp: it is over there, or was told,   *)
(* or is about to be (end's goroutine, a start whose call came too late).    *)
NobodyLeftHanging ==
    \A r \in Calls : rec[r].st = "ended" /\ native[r].phase \notin {"none", "over"} =>
        native[r].told \/ signal[r] # "none" \/ Starting(r)

(* A group's reserved, reported and expired places never exceed the limit,   *)
(* and video is taken from the people who are in the call and no others.     *)
RosterStands ==
    \A r \in Calls : rec[r].group => Fits(roster[r]) /\ streams[r] = Connected(roster[r])

CallsSafe ==
    /\ TypeOK /\ SlotIsHonest /\ NothingOutlives /\ MicrophoneIsOwners
    /\ NobodyLeftHanging /\ RosterStands

(* A call that ended does not come back, and nothing answers it at WhatsApp  *)
(* after it was hung up (op and the check under it).                         *)
EndedForGood ==
    \A r \in Calls : /\ rec[r].st = "ended" => rec'[r].st = "ended"
                     /\ native[r].told => native'[r].answered = native[r].answered

(* The session that claimed a call keeps it to its end. *)
OwnerStands == \A r \in Calls : rec[r].owner # None => rec'[r].owner = rec[r].owner

(* Rosters are taken in their order. *)
RostersInOrder == \A r \in Calls : rec'[r].tx >= rec[r].tx

CallSteps == [][EndedForGood /\ OwnerStands /\ RostersInOrder]_vars
=============================================================================
