----------------------------- MODULE LiveQuery ------------------------------
(***************************************************************************)
(* GraphQL live queries, composed with the broker that wakes them:         *)
(* wake_on, live and read_live of postrust-graphql/src/handler.rs, and     *)
(* init_subscriptions, which starts the broker and keeps it.               *)
(*                                                                         *)
(* The table is what the query answers.  A trigger notifies the broker's   *)
(* listener of every write; a slow refresh runs beside it.  Each           *)
(* subscription is a subscriber of the broker and reads the table in a     *)
(* snapshot of its own.                                                    *)
(***************************************************************************)
EXTENDS NotifyBroker

CONSTANTS
    Answers,    \* what the query can answer
    Triggered   \* whether the table has its notification trigger

ASSUME LiveAssumption == Answers # {} /\ Triggered \in BOOLEAN

VARIABLES
    table,  \* the answer now
    live,   \* the unfold state of each subscription's stream
    gap     \* history: per subscription, whether a change since its last read was
            \* made where no notification of it can arrive

vars == <<running, sender, task, sub, count, table, live, gap>>

None == "none"

Live == [pc : {"new", "start", "reading", "wait", "ended"},
         seen : Answers \cup {None}, sent : Answers \cup {None}]

LiveTypeOK ==
    /\ TypeOK
    /\ table \in Answers
    /\ DOMAIN live = Subscribers /\ \A q \in Subscribers : live[q] \in Live

Init ==
    /\ BInit
    /\ table \in Answers
    /\ live = [q \in Subscribers |-> [pc |-> "new", seen |-> None, sent |-> None]]
    /\ gap = [q \in Subscribers |-> FALSE]

\* init_subscriptions keeps the broker only if start succeeded.
Stored == \E t \in Starters : task[t].pc \in Looping \cup {"exited"}

StreamsUnchanged == UNCHANGED <<table, live, gap>>

\* A listener's connection ends with notifications that were not read.
LosesNotes(t) == task[t].inbox > 0

EndConnection(t) ==
    /\ Exit(t) \/ Lose(t)
    /\ gap' = [q \in Subscribers |-> gap[q] \/ LosesNotes(t)]
    /\ UNCHANGED <<table, live>>

\* What the broker does otherwise.
BrokerStep ==
    /\ \/ \E t \in Starters : StartCall(t)
       \/ Stop
       \/ \E t \in Tasks : \/ Keep(t) \/ Receive(t) \/ Reconnect(t) \/ ReconnectFails(t)
                           \/ Broadcast(t)
    /\ StreamsUnchanged

\* Some listener will hear of a write.
Heard == Triggered /\ \E t \in Tasks : task[t].connected

Write ==
    /\ \E a \in Answers : table' = a
    /\ IF Triggered THEN Notify
       ELSE /\ count.notes < MaxNotes
            /\ count' = [count EXCEPT !.notes = @ + 1]
            /\ UNCHANGED task
    /\ gap' = [q \in Subscribers |-> gap[q] \/ ~Heard]
    /\ UNCHANGED <<running, sender, sub, live>>

-----------------------------------------------------------------------------
(* wake_on *)

\* The subscription subscribes to the channel before anything is read.
WakeOn(q) ==
    /\ live[q].pc = "new" /\ Stored
    /\ SubscribeCall(q)
    /\ live' = [live EXCEPT ![q].pc = IF sub'[q].pc = "open" THEN "start" ELSE @]
    /\ UNCHANGED <<table, gap>>

\* There is no broker, and only the refresh wakes it.
WakeOnRefresh(q) ==
    /\ live[q].pc = "new" /\ ~Stored
    /\ live' = [live EXCEPT ![q].pc = "start"]
    /\ gap' = [gap EXCEPT ![q] = TRUE]
    /\ UNCHANGED <<running, sender, task, sub, count, table>>

-----------------------------------------------------------------------------
(* live and read_live *)

\* The first answer is read at once.
FirstRead(q) ==
    /\ live[q].pc = "start"
    /\ live' = [live EXCEPT ![q] = [@ EXCEPT !.pc = "reading", !.seen = None]]
    /\ UNCHANGED <<running, sender, task, sub, count, table, gap>>

\* A notification wakes it ...
WakeByNotification(q) ==
    /\ live[q].pc = "wait"
    /\ Take(q)
    /\ live' = [live EXCEPT ![q] = [@ EXCEPT !.pc = "reading", !.seen = None]]
    /\ UNCHANGED <<running, sender, task, count, table, gap>>

\* A mutant: the refresh runs only where there is no broker.
TickWithoutBroker(q) ==
    /\ live[q].pc = "wait" /\ ~Stored
    /\ live' = [live EXCEPT ![q] = [@ EXCEPT !.pc = "reading", !.seen = None]]
    /\ UNCHANGED <<running, sender, task, sub, count, table, gap>>

\* ... or the refresh does.
Tick(q) ==
    /\ live[q].pc = "wait"
    /\ live' = [live EXCEPT ![q] = [@ EXCEPT !.pc = "reading", !.seen = None]]
    /\ UNCHANGED <<running, sender, task, sub, count, table, gap>>

\* The query takes its snapshot.
Snapshot(q) ==
    /\ live[q].pc = "reading" /\ live[q].seen = None
    /\ live' = [live EXCEPT ![q].seen = table]
    /\ gap' = [gap EXCEPT ![q] = sub[q].pc # "open"]
    /\ UNCHANGED <<running, sender, task, sub, count, table>>

\* A mutant: an answer is taken for the one the client has if it has any.
UnchangedOnceSent(q) == live[q].sent # None

\* The answer is what the client has already.
Unchanged(q) == live[q].sent = live[q].seen

\* An answer the client has is not sent again.
Skip(q) ==
    /\ live[q].pc = "reading" /\ live[q].seen # None
    /\ Unchanged(q)
    /\ live' = [live EXCEPT ![q].pc = "wait"]
    /\ UNCHANGED <<running, sender, task, sub, count, table, gap>>

Send(q) ==
    /\ live[q].pc = "reading" /\ live[q].seen # None
    /\ ~Unchanged(q)
    /\ live' = [live EXCEPT ![q].sent = live[q].seen, ![q].pc = "wait"]
    /\ UNCHANGED <<running, sender, task, sub, count, table, gap>>

\* The error is sent, and the stream ends with it; or the client closes it.
End(q) ==
    /\ live[q].pc \in {"start", "reading", "wait"}
    /\ live' = [live EXCEPT ![q].pc = "ended"]
    /\ UNCHANGED <<running, sender, task, sub, count, table, gap>>

Stream(q) == FirstRead(q) \/ WakeByNotification(q) \/ Snapshot(q) \/ Skip(q) \/ Send(q)

Next ==
    \/ BrokerStep
    \/ \E t \in Tasks : EndConnection(t)
    \/ Write
    \/ \E q \in Subscribers : WakeOn(q) \/ WakeOnRefresh(q) \/ Stream(q) \/ Tick(q) \/ End(q)

Spec == Init /\ [][Next]_vars

\* The runtime polls a stream that can go on, and the interval ticks while it
\* waits.  Nothing is assumed of the broker, of its connections or of writes.
FairSpec == Spec /\ \A q \in Subscribers : WF_vars(Stream(q)) /\ WF_vars(Tick(q))

-----------------------------------------------------------------------------
(* Properties *)

\* A subscription whose answer is out of date is about to be woken: a
\* notification is unread, in a listener's hand or on its connection, however
\* far the receiver lags -- unless a write fell where no listener could hear of
\* it, which is what the refresh is for.
WakeOnTheWay ==
    \A q \in Subscribers :
        live[q].pc = "wait" /\ live[q].sent # table /\ ~gap[q] =>
            \/ sub[q].unread > 0
            \/ \E t \in Tasks : task[t].pc = "got" \/ task[t].inbox > 0

\* "the answer is sent again whenever it stops being true": once the table is
\* left alone, every open subscription comes to hold its answer, whether or not
\* there is a trigger, a broker or a connection.
Converges ==
    \A q \in Subscribers :
        <>[](live[q].pc \in {"new", "ended"} \/ live[q].sent = table)

=============================================================================
