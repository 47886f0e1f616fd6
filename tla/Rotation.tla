------------------------------ MODULE Rotation ------------------------------
(***************************************************************************)
(* The contract's secret (cmd/whatserverd/contract_secret.go and           *)
(* contract.go, membership/sealdir.go, secrets.go and probe.go): the       *)
(* directory of sealed envelopes, the commands that move it through a      *)
(* rotation, the server that loads what it holds, and the probes that tell *)
(* the installer it may go on.                                             *)
(*                                                                         *)
(* Each file a command writes, exchanges or removes is a step, synced      *)
(* before the next; the command is killed, the host crashes, or the server *)
(* reads the files between any two.  A secret is its number at the         *)
(* platform, and an envelope's id is its fingerprint: a secret sealed      *)
(* twice has two.                                                          *)
(***************************************************************************)
EXTENDS Naturals, Sequences

CONSTANTS
    MaxSecrets,  \* secrets the platform ever makes
    MaxSeals,    \* envelopes ever sealed
    MaxTroubles, \* stops, crashes, failed loads and lost publications
    MaxRestores  \* restores of the platform, and resets of the directory

VARIABLES
    dir,      \* the sealed directory: current, other, and the state's word
    cmd,      \* the contract-secret command under way
    step,     \* external: the installer's row, and its commands yet to run
    told,     \* external: the owner's last row, whether it is done, and whether Wappie
              \* may have promoted
    server,   \* the process: its run (0 none), what it holds, its load, a SIGHUP
    loaded,   \* what it published: under which run, the fingerprints, the error
    platform, \* external: the secret it signs with, the other it accepts
    used      \* how much of each bound is spent, and whether a restore is unhealed

vars == <<dir, cmd, step, told, server, loaded, platform, used>>

NoFile == [sec |-> 0, id |-> 0]
NoPair == [current |-> NoFile, other |-> NoFile]
NoCmd == [op |-> "none"]
NoStep == [row |-> "none", todo |-> <<>>]
Stopped == [run |-> 0, held |-> NoPair, load |-> "no", read |-> NoFile, hup |-> FALSE, silent |-> FALSE]

Init ==
    /\ dir = [current |-> NoFile, other |-> NoFile, word |-> "none", names |-> 0]
    /\ cmd = NoCmd /\ step = NoStep
    /\ told = [row |-> "none", done |-> TRUE, promoted |-> FALSE]
    /\ server = Stopped
    /\ loaded = [run |-> 0, current |-> 0, other |-> 0, error |-> "none"]
    /\ platform = [stage |-> "steady", sec |-> 1, other |-> 0]
    /\ used = [secrets |-> 1, seals |-> 0, troubles |-> 0, restores |-> 0, runs |-> 0, unhealed |-> FALSE]

Idle == cmd = NoCmd /\ step.todo = <<>>
Spend(what) == used' = [used EXCEPT ![what] = @ + 1]
Trouble == used.troubles < MaxTroubles /\ Spend("troubles")

-----------------------------------------------------------------------------
(* The directory.                                                          *)
There(f) == f # NoFile

(* SealDir.State: the files and the state tell one story.                  *)
Agrees ==
    \/ dir.word = "none" /\ ~There(dir.current) /\ ~There(dir.other)
    \/ dir.word = "steady" /\ There(dir.current) /\ ~There(dir.other)
    \/ dir.word \in {"next", "promoted"} /\ There(dir.current) /\ There(dir.other)
InState(word) == Agrees /\ dir.word = word

(* What a crash leaves inside a step, which that step alone finishes.      *)
HalfDone(before, other) ==
    ~Agrees /\ dir.word \in before /\ There(dir.current) /\ There(dir.other) = other
SwapIntent(word) == dir.word = word /\ There(dir.current) /\ There(dir.other)

WriteState(word) == dir' = [dir EXCEPT !.word = word, !.names = 0]

(* kc.CheckSecrets: the other one is another.                              *)
CheckSecrets(current, other) == current # 0 /\ other # current

-----------------------------------------------------------------------------
(* The installer runs a row's commands in order; one that fails stops it.  *)
Runs(token) == cmd = NoCmd /\ step.todo # <<>> /\ Head(step.todo) = token

GoOn ==
    /\ step' = IF Len(step.todo) = 1 THEN NoStep ELSE [step EXCEPT !.todo = Tail(@)]
    /\ told' = IF Len(step.todo) = 1 /\ step.row # "finish"
                 THEN [row |-> step.row, done |-> TRUE,
                       promoted |-> told.promoted /\ step.row \notin {"drop", "cancel"}]
                 ELSE told
GiveUp == step' = NoStep /\ UNCHANGED told

Does(c) == cmd' = c /\ UNCHANGED <<step, told>>

(* A load reads its two files next to each other, and each command is a    *)
(* process of its own: one command's steps may fall between the reads, the *)
(* end of one and all of the next do not.                                  *)
Starts(token) == Runs(token) /\ server.load = "no"
Refuses == GiveUp /\ UNCHANGED cmd

(* seal: what export-contract-secret gives, which may be nothing.          *)
Gives(slot) == IF slot = "current" THEN platform.sec
               ELSE IF platform.stage = "next" THEN platform.other ELSE 0

SealTurn(slot) ==
    IF slot = "current" THEN InState("none")
    ELSE InState("steady") \/ HalfDone({"steady"}, TRUE)

SealRefused(slot) ==
    \/ ~SealTurn(slot) \/ Gives(slot) = 0
    \/ slot = "other" /\ ~CheckSecrets(dir.current.sec, Gives(slot))

Seal(slot) ==
    /\ Starts(<<"seal", slot>>)
    /\ IF SealRefused(slot) THEN Refuses /\ UNCHANGED used
       ELSE /\ used.seals < MaxSeals /\ Spend("seals")
            /\ Does([op |-> "seal", slot |-> slot, pc |-> "file",
                     file |-> [sec |-> Gives(slot), id |-> used.seals + 1]])
    /\ UNCHANGED <<dir, server, loaded, platform>>

SealFile ==
    /\ cmd.op = "seal" /\ cmd.pc = "file"
    /\ dir' = [dir EXCEPT ![cmd.slot] = cmd.file]
    /\ Does([cmd EXCEPT !.pc = "state"])
    /\ UNCHANGED <<server, loaded, platform, used>>

SealState ==
    /\ cmd.op = "seal" /\ cmd.pc = "state"
    /\ WriteState(IF cmd.slot = "current" THEN "steady" ELSE "next")
    /\ cmd' = NoCmd /\ GoOn
    /\ UNCHANGED <<server, loaded, platform, used>>

(* swap: promote and unpromote.                                            *)
From(op) == IF op = "promote" THEN "next" ELSE "promoted"
To(op) == IF op = "promote" THEN "promoted" ELSE "next"
Word(op) == IF op = "promote" THEN "promoting" ELSE "unpromoting"

(* Mutant: a swap that finishes exchanges the files, done or not.          *)
ExchangeAgain(names) == names # 0

(* Whether the file the intent names is still to be made current.          *)
ToExchange(names) == names = dir.other.id

Swap(op) ==
    /\ Starts(<<op>>)
    /\ LET resuming == SwapIntent(Word(op))
           pc == IF ~resuming THEN "intent"
                 ELSE IF ToExchange(dir.names) THEN "exchange"
                 ELSE IF dir.names = dir.current.id THEN "state" ELSE "neither" IN
         IF /\ InState(From(op)) \/ resuming
            /\ dir.current.id # dir.other.id
            /\ pc # "neither"
           THEN Does([op |-> op, pc |-> pc]) ELSE Refuses
    /\ UNCHANGED <<dir, server, loaded, platform, used>>

Swapping(pc) == cmd.op \in {"promote", "unpromote"} /\ cmd.pc = pc

WriteIntent ==
    /\ Swapping("intent")
    /\ dir' = [dir EXCEPT !.word = Word(cmd.op), !.names = dir.other.id]
    /\ Does([cmd EXCEPT !.pc = "exchange"])
    /\ UNCHANGED <<server, loaded, platform, used>>

Exchange ==
    /\ Swapping("exchange")
    /\ dir' = [dir EXCEPT !.current = dir.other, !.other = dir.current]
    /\ Does([cmd EXCEPT !.pc = "state"])
    /\ UNCHANGED <<server, loaded, platform, used>>

(* A refused exchange changed nothing, and the state goes back.            *)
ExchangeRefused ==
    /\ Swapping("exchange") /\ Trouble
    /\ WriteState(From(cmd.op))
    /\ cmd' = NoCmd /\ GiveUp
    /\ UNCHANGED <<server, loaded, platform>>

SwapState ==
    /\ Swapping("state")
    /\ WriteState(To(cmd.op))
    /\ cmd' = NoCmd /\ GoOn
    /\ UNCHANGED <<server, loaded, platform, used>>

(* drop, or what is left of one.                                           *)
Drop ==
    /\ Starts(<<"drop">>)
    /\ IF InState("next") \/ InState("promoted") THEN Does([op |-> "drop", pc |-> "file"])
       ELSE IF HalfDone({"next", "promoted"}, FALSE) THEN Does([op |-> "drop", pc |-> "state"])
       ELSE Refuses
    /\ UNCHANGED <<dir, server, loaded, platform, used>>

DropFile ==
    /\ cmd.op = "drop" /\ cmd.pc = "file"
    /\ dir' = [dir EXCEPT !.other = NoFile]
    /\ Does([cmd EXCEPT !.pc = "state"])
    /\ UNCHANGED <<server, loaded, platform, used>>

DropState ==
    /\ cmd.op = "drop" /\ cmd.pc = "state"
    /\ WriteState("steady")
    /\ cmd' = NoCmd /\ GoOn
    /\ UNCHANGED <<server, loaded, platform, used>>

(* reset: the state, the other file, the current one, from any state.      *)
Reset ==
    /\ \/ /\ Starts(<<"reset">>) /\ WriteState("none")
          /\ Does([op |-> "reset", pc |-> "other"])
       \/ /\ cmd = [op |-> "reset", pc |-> "other"] /\ dir' = [dir EXCEPT !.other = NoFile]
          /\ Does([op |-> "reset", pc |-> "current"])
       \/ /\ cmd = [op |-> "reset", pc |-> "current"] /\ dir' = [dir EXCEPT !.current = NoFile]
          /\ cmd' = NoCmd /\ GoOn
    /\ UNCHANGED <<server, loaded, platform, used>>

(* The command is killed or a write of it fails, or its probe, its signal  *)
(* or its wait ends without an answer.                                     *)
Killed ==
    /\ ~Idle /\ Trouble
    /\ cmd' = NoCmd /\ GiveUp
    /\ UNCHANGED <<dir, server, loaded, platform>>

-----------------------------------------------------------------------------
(* The server.                                                             *)
Up == server.run # 0
Loaded == There(server.held.current)

(* startContract, and a stop of the process.                               *)
Start ==
    /\ ~Up
    /\ server' = [Stopped EXCEPT !.run = used.runs + 1] /\ Spend("runs")
    /\ UNCHANGED <<dir, cmd, step, told, loaded, platform>>

Stop ==
    /\ Up /\ Trouble /\ server' = Stopped
    /\ \/ UNCHANGED <<cmd, step, told>>
       \/ ~Idle /\ cmd' = NoCmd /\ GiveUp   \* the host crashes
    /\ UNCHANGED <<dir, loaded, platform>>

(* publish: what is held now, and the step the load failed at.             *)
Publishes(held, error) ==
    loaded' = [run |-> server.run, current |-> held.current.id, other |-> held.other.id, error |-> error]

(* Run's load until one succeeds, and Watch's on a SIGHUP, one at a time:  *)
(* the current file is read first.                                         *)
BeginLoad ==
    /\ Up /\ server.load = "no" /\ (server.hup \/ ~Loaded)
    /\ \E hup \in {h \in BOOLEAN : (h => server.hup) /\ (~h => ~Loaded)} :
         LET s == [server EXCEPT !.hup = @ /\ ~hup] IN
         IF There(dir.current)
           THEN server' = [s EXCEPT !.load = "current", !.read = dir.current] /\ UNCHANGED loaded
           ELSE server' = s /\ Publishes(server.held, "missing")
    /\ UNCHANGED <<dir, cmd, step, told, platform, used>>

(* The other file is, then both are opened, checked and used at once, or   *)
(* the ones before are kept.                                               *)
EndLoad ==
    /\ server.load = "current"
    /\ LET pair == [current |-> server.read, other |-> dir.other]
           fine == CheckSecrets(pair.current.sec, pair.other.sec)
           idle == [server EXCEPT !.load = "no", !.read = NoFile] IN
         \/ /\ fine /\ server' = [idle EXCEPT !.held = pair] /\ Publishes(pair, "none")
            /\ UNCHANGED used
         \/ /\ ~fine /\ server' = idle /\ Publishes(server.held, "check")
            /\ UNCHANGED used
         \/ /\ Trouble /\ server' = idle /\ Publishes(server.held, "kms")
         \/ /\ Trouble /\ fine /\ server' = [idle EXCEPT !.held = pair, !.silent = TRUE] /\ UNCHANGED loaded
    /\ UNCHANGED <<dir, cmd, step, told, platform>>

-----------------------------------------------------------------------------
(* The signal and the wait, left out when the server has published what is *)
(* on disk.                                                                *)

Published ==
    /\ loaded.run = server.run /\ Up /\ loaded.error = "none"
    /\ loaded.current = dir.current.id /\ loaded.other = dir.other.id

Signal ==
    /\ Runs(<<"signal">>)
    /\ IF Published THEN GoOn /\ UNCHANGED server
       ELSE IF Up THEN server' = [server EXCEPT !.hup = TRUE] /\ GoOn
       ELSE GiveUp /\ UNCHANGED server
    /\ UNCHANGED <<dir, cmd, loaded, platform, used>>

Wait ==
    /\ Runs(<<"wait">>) /\ Published /\ GoOn
    /\ UNCHANGED <<dir, cmd, server, loaded, platform, used>>

(* contract check: the secrets on disk, of which a flag says which one     *)
(* signs and which are accepted on the answer.                             *)
Takes(secret) == secret # 0 /\ secret \in {platform.sec, platform.other}

Probe(flag) ==
    LET current == dir.current.sec
        other == dir.other.sec
        signs == IF flag \in {"other", "only-other"} THEN other ELSE current
        accepts == IF flag = "only-current" THEN {current}
                   ELSE IF flag = "only-other" THEN {other} ELSE {current, other} IN
    /\ CheckSecrets(current, other)
    /\ Takes(signs) /\ platform.sec \in accepts

Check(flag) ==
    /\ Runs(<<"check", flag>>)
    /\ IF Probe(flag) THEN GoOn ELSE GiveUp
    /\ UNCHANGED <<dir, cmd, server, loaded, platform>>
    /\ used' = [used EXCEPT !.unhealed = @ /\ ~(Probe(flag) /\ step.row = "install" /\ Len(step.todo) = 1)]

(* The rows of the rotation: the word each starts from, and its commands.  *)
Load == << <<"signal">>, <<"wait">> >>
Loads(first, flag) == first \o Load \o << <<"check", flag>> >>

RotationRows == {
    [row |-> "install", from |-> "none", todo |-> Loads(<< <<"seal", "current">> >>, "none")],
    [row |-> "next", from |-> "steady", todo |-> Loads(<< <<"seal", "other">> >>, "other")],
    [row |-> "promote", from |-> "next", todo |-> Loads(<< <<"check", "other">>, <<"promote">> >>, "none")],
    [row |-> "drop", from |-> "promoted", todo |-> << <<"check", "only-current">>, <<"drop">> >> \o Load],
    [row |-> "cancel", from |-> "next", todo |-> Loads(<< <<"check", "only-current">>, <<"drop">> >>, "only-current")],
    [row |-> "cancel", from |-> "promoted",
     todo |-> Loads(<< <<"check", "only-other">>, <<"unpromote">> >>, "only-current")
              \o Loads(<< <<"drop">> >>, "only-current")],
    [row |-> "install", from |-> "steady", todo |-> Loads(<<>>, "none")],
    [row |-> "next", from |-> "next", todo |-> Loads(<<>>, "other")],
    [row |-> "promote", from |-> "promoted", todo |-> Loads(<<>>, "none")],
    [row |-> "drop", from |-> "steady", todo |-> Load],
    [row |-> "cancel", from |-> "steady", todo |-> Loads(<<>>, "only-current")]}

Begin ==
    /\ Idle
    /\ \E r \in RotationRows :
         /\ InState(r.from)
         /\ step' = [row |-> r.row, todo |-> r.todo]
         /\ told' = [row |-> r.row, done |-> FALSE, promoted |-> told.promoted \/ r.row = "promote"]
    /\ UNCHANGED <<dir, cmd, server, loaded, platform, used>>

(* A reinstall, from any state.                                            *)
Reinstall ==
    /\ Idle /\ used.restores < MaxRestores
    /\ used' = [used EXCEPT !.restores = @ + 1, !.unhealed = TRUE]
    /\ step' = [row |-> "install", todo |-> Loads(<< <<"reset">>, <<"seal", "current">> >>, "none")]
    /\ told' = [row |-> "install", done |-> FALSE, promoted |-> FALSE]
    /\ UNCHANGED <<dir, cmd, server, loaded, platform>>

(* A command that stopped is run again: every other refuses the files.     *)
Finish ==
    /\ Idle /\ ~Agrees
    /\ \E c \in { <<"seal", "other">>, <<"promote">>, <<"unpromote">>, <<"drop">> } :
         step' = [row |-> "finish", todo |-> << c >>]
    /\ UNCHANGED <<dir, cmd, told, server, loaded, platform, used>>

-----------------------------------------------------------------------------
(* The platform's own steps, by the owner, between Wappie's: it promotes   *)
(* once Wappie takes the next secret, drops the old one once Wappie did,   *)
(* and cancels before Wappie's promote or after Wappie's cancel.           *)
ToldOf(rows) == told.row \in rows /\ told.done

Turns(p) == platform' = p

SecretNext ==
    /\ platform.stage = "steady" /\ used.secrets < MaxSecrets /\ Spend("secrets")
    /\ Turns([stage |-> "next", sec |-> platform.sec, other |-> used.secrets + 1])
    /\ told' = [row |-> "none", done |-> TRUE, promoted |-> FALSE]
SecretPromote ==
    /\ platform.stage = "next" /\ ToldOf({"next", "promote"})
    /\ Turns([stage |-> "promoted", sec |-> platform.other, other |-> platform.sec])
    /\ UNCHANGED <<told, used>>
SecretDrop ==
    /\ platform.stage = "promoted" /\ ToldOf({"drop"})
    /\ Turns([stage |-> "steady", sec |-> platform.sec, other |-> 0])
    /\ UNCHANGED <<told, used>>
SecretCancel ==
    /\ platform.stage = "next" /\ ~told.promoted
    /\ Turns([stage |-> "steady", sec |-> platform.sec, other |-> 0])
    /\ UNCHANGED <<told, used>>
(* A restore: a secret Wappie has never seen.                              *)
Restored ==
    /\ used.secrets < MaxSecrets /\ used.restores < MaxRestores
    /\ used' = [used EXCEPT !.secrets = @ + 1, !.restores = @ + 1, !.unhealed = TRUE]
    /\ Turns([stage |-> "steady", sec |-> used.secrets + 1, other |-> 0])
    /\ told' = [row |-> "none", done |-> TRUE, promoted |-> FALSE]

Platform ==
    /\ Idle
    /\ SecretNext \/ SecretPromote \/ SecretDrop \/ SecretCancel \/ Restored
    /\ UNCHANGED <<dir, cmd, step, server, loaded>>

Next ==
    \/ \E slot \in {"current", "other"} : Seal(slot)
    \/ SealFile \/ SealState
    \/ \E op \in {"promote", "unpromote"} : Swap(op)
    \/ WriteIntent \/ Exchange \/ ExchangeRefused \/ SwapState
    \/ Drop \/ DropFile \/ DropState \/ Reset \/ Killed
    \/ Start \/ Stop \/ BeginLoad \/ EndLoad
    \/ Signal \/ Wait \/ \E flag \in {"none", "other", "only-current", "only-other"} : Check(flag)
    \/ Begin \/ Reinstall \/ Finish \/ Platform

Spec == Init /\ [][Next]_vars

-----------------------------------------------------------------------------
(* The state's types.                                                      *)
TypeOK ==
    /\ dir.word \in {"none", "steady", "next", "promoted", "promoting", "unpromoting"}
    /\ {dir.current.id, dir.other.id, dir.names} \subseteq 0..MaxSeals
    /\ platform.stage \in {"steady", "next", "promoted"}
    /\ server.load \in {"no", "current"}
    /\ loaded.error \in {"none", "missing", "check", "kms"}

(* These two secrets sign what the platform takes, and open what it signs. *)
Understood(pair) == /\ Takes(pair.current.sec)
                    /\ platform.sec \in {pair.current.sec, pair.other.sec}

(* No call of a server that holds the secret ever fails for a rotation,    *)
(* wherever its steps stop and whatever order the server loads them in.    *)
FeedNeverFails == ~used.unhealed /\ Loaded => Understood(server.held)

(* Nor of one that starts now and loads the files as they are.             *)
FilesServe == ~used.unhealed /\ dir.word # "none" => Understood(dir)

(* Current is the old secret before the promote and the new one after it,  *)
(* however often either swap was begun; a swap's intent names the one it   *)
(* makes current.                                                          *)
OldAndNew ==
    /\ dir.word = "next" /\ There(dir.other) => dir.current.sec < dir.other.sec
    /\ dir.word = "promoted" /\ There(dir.other) => dir.other.sec < dir.current.sec
    /\ dir.word \in {"promoting", "unpromoting"} =>
         \E f, g \in {dir.current, dir.other} :
            /\ There(f) /\ There(g) /\ dir.names = f.id
            /\ IF dir.word = "promoting" THEN g.sec < f.sec ELSE f.sec < g.sec

(* Whatever stopped, one command finishes it; only what a reset or an      *)
(* install left needs a reset.                                             *)
OneWayOn ==
    cmd = NoCmd =>
        \/ Agrees
        \/ dir.word = "none" /\ There(dir.current)
        \/ HalfDone({"steady"}, TRUE)
        \/ HalfDone({"next", "promoted"}, FALSE)
        \/ SwapIntent("promoting") \/ SwapIntent("unpromoting")

(* observeReady: the contract may be observed.                             *)
Ready == loaded.run = server.run /\ Up /\ loaded.error = "none" /\ loaded.current # 0

(* statusFindings' finding of the secret.                                  *)
Finding ==
    \/ loaded.error \notin {"none", "missing"}
    \/ There(dir.current) /\ (loaded.current # dir.current.id \/ loaded.other # dir.other.id)

(* What the server published is what it holds: observing is allowed only   *)
(* to one that can sign, and the daily check tells of one that does not    *)
(* hold what is on disk.                                                   *)
PublishedIsHeld ==
    loaded.run = server.run /\ Up =>
        /\ Ready => Loaded
        /\ ~server.silent /\ There(dir.current) =>
             (server.held = [current |-> dir.current, other |-> dir.other] \/ Finding)

(* A row is done, and the owner goes on at the platform, only when the     *)
(* server, if it runs and published its loads, holds exactly the files.    *)
DoneIsHeld ==
    told'.done /\ ~told.done /\ told'.row = told.row /\ Up /\ Loaded /\ ~server.silent =>
        server.held = [current |-> dir.current, other |-> dir.other]

(* A load that fails takes nothing away: a running server that has a       *)
(* secret keeps one, and never one secret as both.                         *)
HeldIsKept ==
    server'.run = server.run /\ Loaded =>
        server'.held.current.sec # 0 /\ server'.held.current.sec # server'.held.other.sec

(* A rotation never cuts Wappie off from the platform, and what stops in   *)
(* the middle of it can be finished. *)
RotationSafe == TypeOK /\ FeedNeverFails /\ FilesServe /\ OldAndNew /\ OneWayOn /\ PublishedIsHeld

(* No step is called done that the server has not taken. *)
RotationSteps == [][DoneIsHeld /\ HeldIsKept]_vars
=============================================================================
