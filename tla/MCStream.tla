------------------------------ MODULE MCStream ------------------------------
(* Stream for TLC's safety run, where numbers and ingest workers are
   interchangeable; and Conversations, one person under two keys and a group.
   They share no state: a behaviour exercises one and the other stays as it
   began. *)
EXTENDS Stream, TLC

VARIABLES part, chats, messages, setting, said, settings, reader, trouble

cvars == <<chats, messages, setting, said, settings, reader, trouble>>

C == INSTANCE Conversations WITH
       People <- {"x"}, Groups <- {"g"}, MaxTime <- 2, PageLimit <- 1,
       Windows <- {<<0, 6>>, <<3, 6>>, <<0, 4>>, <<1, 3>>},
       ListLimit <- 3, MaxRows <- 3, MaxSettings <- 1, MaxTrouble <- 1

Symmetry == Permutations(Devices) \cup Permutations(Workers)

(* Names, timers, settings and the group's row are exercised over two
   messages, one once a setting or a failed lookup has come, and before
   anything is read; three messages are read in pages, or in a few windows,
   while halves are learned. *)
Named == {k \in DOMAIN chats : chats[k].named}
Timed == {k \in DOMAIN chats : chats[k].timer > 0}
Group == <<"group", "g">>

Plain == Named = {} /\ Timed = {} /\ Group \notin DOMAIN chats /\ settings = 0

FewThings ==
    /\ reader.state # "idle" =>
         /\ reader.key = IF reader.scan THEN <<"lid", "x">> ELSE <<reader.key[1], "x">>
         /\ trouble > 0 => Len(messages) <= 2
    /\ ~Plain => /\ Len(messages) <= IF settings = 0 /\ trouble = 0 THEN 2 ELSE 1
                 /\ Group \notin Named \cup Timed
                 /\ Cardinality(Named) <= 1

MCInit == Init /\ C!Init /\ part \in {"stream", "conversations"}

(* What brings rows and halves while somebody reads. *)
Reads == C!Ingest \/ C!LinkPhoneNumbers \/ C!OpenConversation \/ C!LookUp \/ C!Turn

Converses ==
    /\ IF reader.state = "idle" THEN C!Next ELSE Reads
    /\ FewThings'
    /\ reader'.state = "idle" \/ Plain'

MCNext ==
    \/ part = "stream" /\ Next /\ UNCHANGED <<part, cvars>>
    \/ part = "conversations" /\ Converses /\ UNCHANGED <<part, vars>>

MCSpec == MCInit /\ [][MCNext]_<<part, vars, cvars>>

(* A conversation is one, whichever of its keys it is listed, read, scanned or
   set by.  A reader changes nothing but itself: what does not speak of it is
   checked where nobody reads. *)
ConversationsSafe ==
    part = "conversations" =>
        IF reader.state = "idle" THEN C!ConversationsSafe
        ELSE C!ShownInOrder /\ C!NothingMissed
=============================================================================
