---------------------------- MODULE TurnAgreement ----------------------------
(***************************************************************************)
(* When a client's replica of the turn agrees with the host's: module      *)
(* TurnReplication with one history variable, the clients that have an     *)
(* excuse to differ from the host.                                         *)
(***************************************************************************)
EXTENDS TurnReplication

VARIABLE excused

agreementVars == <<vars, excused>>

\* A broadcast of the host that is not sent to c, which has not joined yet.
Missed(c) ==
    /\ flushed'[Host] = flushed[Host] + 1
    /\ c \notin initialized
    /\ outgoing[Host][flushed'[Host]].caller # c

\* A broadcast that MAIN appended while the host's vector was flushed, and that
\* is cleared with what was sent.
Lost(c) ==
    /\ outgoing[Host] # <<>> /\ outgoing'[Host] = <<>>
    /\ \E i \in (flush_end[Host] + 1)..Len(outgoing[Host]) : outgoing[Host][i].caller # c

\* c drops an event of the host.
Refused(c) ==
    /\ batch[c] # <<>>
    /\ batch'[c] = Tail(batch[c])
    /\ Head(batch[c]).source = "SERVER"
    /\ ~Validate(c, Head(batch[c]))

\* The host answers an event of c,
AnswersOf(c) ==
    /\ batch[Host] # <<>> /\ stage = "idle"
    /\ stage' = "answered" \/ batch'[Host] = Tail(batch[Host])
    /\ Head(batch[Host]).caller = c

\* with a rejection,
Rejected(c) == AnswersOf(c) /\ ~Validate(Host, Head(batch[Host]))

\* or for the turn it is in, while c has not come to that turn yet.
Belated(c) == AnswersOf(c) /\ turn[c] # turn[Host]

AgreementInit == Init /\ excused = {}

AgreementNext ==
    /\ Next
    /\ excused' = excused \cup
          {c \in Clients : Missed(c) \/ Lost(c) \/ Refused(c) \/ Rejected(c) \/ Belated(c)}

AgreementSpec == AgreementInit /\ [][AgreementNext]_agreementVars

-----------------------------------------------------------------------------
(* Properties *)

\* Nothing of the host or of c is queued or on its way.
Settled(c) ==
    /\ \A n \in {Host, c} : pending[n] = <<>> /\ batch[n] = <<>> /\ outgoing[n] = <<>>
    /\ to_host[c] = <<>> /\ to_client[c] = <<>>
    /\ responses[c] = <<>> /\ waiting[c] = {}

\* The replicas agree once everything has arrived, unless a broadcast was missed
\* or lost, an event of the host was refused, or one of the client's rejected or
\* accepted for a turn the client had not come to.  Optimistic application, the
\* second application on the answer and the order in which answers and
\* broadcasts arrive do no harm of their own.
SettledReplicasAgree ==
    \A c \in Clients \ excused :
        Settled(c) /\ client_state[c] = "running" =>
            turn[c] = turn[Host] /\ done[c] = done[Host]

\* What the host has told c: what it has, or will have once it has applied the
\* event that it answered c or queued for the clients.
Told(c) ==
    stage = "queued" \/ (stage = "answered" /\ Head(batch[Host]).caller = c)

ToldTurn(c) == IF Told(c) THEN TurnAfter(Host, Head(batch[Host])) ELSE turn[Host]

ToldDone(c) == IF Told(c) THEN DoneAfter(Host, Head(batch[Host])) ELSE done[Host]

(* Why.  What c has of another player p, or of the turn, is what the last event *)
(* about it leaves; as long as such events are on their way to c the last of    *)
(* them leaves what the host told c, and once there are none c has the same.    *)
(* Below, who is {p} for the completion of player p, and {} for the turn.       *)

About(e, who) == e.name = "advance_turn" \/ e.caller \in who

Leaves(e, who, D, t) ==
    /\ e.name = "advance_turn" => e.turn_id = t
    /\ \A p \in who : p \in D <=> e.name = "complete_turn"

\* In a queue after its first k events,
NoneAbout(q, k, who) == \A i \in 1..Len(q) : i > k => ~About(q[i], who)

LastLeaves(q, k, who, D, t) ==
    \E i \in 1..Len(q) :
        /\ i > k /\ About(q[i], who) /\ Leaves(q[i], who, D, t)
        /\ \A j \in 1..Len(q) : j > i => ~About(q[j], who)

\* and in a channel.
NoPacketAbout(q, who) ==
    \A i \in 1..Len(q) : q[i].type = "event" => ~About(q[i].event, who)

LastPacketLeaves(q, who, D, t) ==
    \E i \in 1..Len(q) :
        /\ q[i].type = "event" /\ About(q[i].event, who) /\ Leaves(q[i].event, who, D, t)
        /\ \A j \in 1..Len(q) : j > i /\ q[j].type = "event" => ~About(q[j].event, who)

Agrees(c, who) ==
    /\ who = {} /\ client_state[c] = "running" => turn[c] = ToldTurn(c)
    /\ \A p \in who : p \in done[c] <=> p \in ToldDone(c)

Follows(c, who) ==
    \/ LastLeaves(outgoing[Host], flushed[Host], who, ToldDone(c), ToldTurn(c))
    \/ /\ NoneAbout(outgoing[Host], flushed[Host], who)
       /\ \/ LastPacketLeaves(to_client[c], who, ToldDone(c), ToldTurn(c))
          \/ /\ NoPacketAbout(to_client[c], who)
             /\ \/ LastLeaves(pending[c], 0, who, ToldDone(c), ToldTurn(c))
                \/ /\ NoneAbout(pending[c], 0, who)
                   /\ \/ LastLeaves(batch[c], 0, who, ToldDone(c), ToldTurn(c))
                      \/ NoneAbout(batch[c], 0, who) /\ Agrees(c, who)

\* What c has of its own completion is left by a turn on its way, which clears
\* it, else by the last answer, else by the events that c still waits for.
NoTurnComing(c) ==
    /\ NoneAbout(outgoing[Host], flushed[Host], {})
    /\ NoPacketAbout(to_client[c], {})
    /\ NoneAbout(pending[c], 0, {})
    /\ NoneAbout(batch[c], 0, {})

NoAnswer(q) == \A i \in 1..Len(q) : q[i].type # "response"

LastAnswerLeaves(q, events, c, D) ==
    \E i \in 1..Len(q) :
        /\ q[i].type = "response"
        /\ \A ev \in events : ev.id = q[i].id => (c \in D <=> ev.name = "complete_turn")
        /\ \A j \in 1..Len(q) : j > i => q[j].type # "response"

OwnFollows(c) ==
    IF NoTurnComing(c)
    THEN \/ LastAnswerLeaves(to_client[c], waiting[c], c, ToldDone(c))
         \/ /\ NoAnswer(to_client[c])
            /\ \/ LastAnswerLeaves(responses[c], waiting[c], c, ToldDone(c))
               \/ /\ NoAnswer(responses[c])
                  /\ waiting[c] = {} => (c \in done[c] <=> c \in ToldDone(c))
    ELSE c \notin ToldDone(c)

\* An answer to an event of the old turn arrives before the new turn.
AllAccepted(q) == \A i \in 1..Len(q) : q[i].type = "response" => q[i].accepted

NoAnswerBehind(q) ==
    \A i, j \in 1..Len(q) :
        i < j /\ q[i].type = "event" /\ About(q[i].event, {}) => q[j].type # "response"

AnswersFirst(c) ==
    /\ AllAccepted(to_client[c]) /\ AllAccepted(responses[c])
    /\ NoAnswerBehind(to_client[c])
    /\ (NoneAbout(pending[c], 0, {}) /\ NoneAbout(batch[c], 0, {})) \/ NoAnswer(to_client[c])
    /\ NoneAbout(batch[c], 0, {}) \/ NoAnswer(responses[c])

ReplicasFollow ==
    \A c \in Clients \ excused :
        /\ Follows(c, {})
        /\ \A p \in Nodes \ {c} : Follows(c, {p})
        /\ OwnFollows(c)
        /\ AnswersFirst(c)
=============================================================================
