---------------------------- MODULE NotifyBroker ----------------------------
(***************************************************************************)
(* The notification broker of postrust-graphql/src/subscription/broker.rs: *)
(* one `running` flag and one map of broadcast senders, each behind its    *)
(* own lock, shared by the callers of start, stop, listen_channel and      *)
(* subscribe and by the listener tasks that start and listen_channel       *)
(* spawn.  A step is what happens under one lock or between two awaits.    *)
(*                                                                         *)
(* Channels do not meet but in the map, so one channel is modelled.  A     *)
(* notification is only ever counted: no property tells two apart.         *)
(***************************************************************************)
EXTENDS Naturals

CONSTANTS
    Starters,     \* calls of start
    Dynamics,     \* calls of listen_channel
    Subscribers,  \* calls of subscribe and subscribe_or_create
    Capacity,     \* channel_capacity
    MaxNotes,     \* bound: notifications sent by PostgreSQL
    MaxStops,     \* bound: calls of stop
    MaxLosses     \* bound: connections lost

ASSUME BrokerAssumption ==
    /\ Starters \cap Dynamics = {}
    /\ Capacity \in Nat \ {0}
    /\ {MaxNotes, MaxStops, MaxLosses} \subseteq Nat

Tasks == Starters \cup Dynamics

VARIABLES
    running,  \* the flag
    sender,   \* the sender in the map, 0 for none; they are numbered as made
    task,     \* each start or listen_channel, and the listener it spawns
    sub,      \* each subscription, and its receiver
    count     \* history: notifications, stops and lost connections so far

bvars == <<running, sender, task, sub, count>>

\* The listener's loop.
Looping == {"check", "recv", "got"}

\* `inbox` is what its connection holds for the listener; `late` counts, as a
\* history, what it has broadcast since the last stop.
Task == [pc : {"idle", "checked", "marked", "created", "connected", "refused", "failed", "exited"}
              \cup Looping,
         connected : BOOLEAN, inbox : Nat, late : Nat]

\* `from` is the sender its receiver hangs on.
Sub == [pc : {"idle", "missing", "made", "open"}, from : Nat, unread : 0..Capacity]

Counters == {"notes", "stops", "losses", "senders"}

TypeOK ==
    /\ running \in BOOLEAN
    /\ sender \in Nat
    /\ task \in [Tasks -> Task]
    /\ sub \in [Subscribers -> Sub]
    /\ count \in [Counters -> Nat]

BInit ==
    /\ running = FALSE
    /\ sender = 0
    /\ task = [t \in Tasks |-> [pc |-> "idle", connected |-> FALSE, inbox |-> 0, late |-> 0]]
    /\ sub = [r \in Subscribers |-> [pc |-> "idle", from |-> 0, unread |-> 0]]
    /\ count = [k \in Counters |-> 0]

GoTo(t, pc) == task' = [task EXCEPT ![t].pc = pc]

\* A new sender takes the place in the map: on its own, without looking for one
\* first, a mutant of EnsureSender.
NewSender ==
    /\ sender' = count.senders + 1
    /\ count' = [count EXCEPT !.senders = @ + 1]

\* Under the write lock: a sender is made where there is none.
EnsureSender ==
    \/ sender = 0 /\ NewSender
    \/ sender # 0 /\ UNCHANGED <<sender, count>>

-----------------------------------------------------------------------------
(* start *)

\* The flag is read ...
StartCheck(t) ==
    /\ task[t].pc = "idle"
    /\ GoTo(t, IF running THEN "refused" ELSE "checked")
    /\ UNCHANGED <<running, sender, sub, count>>

\* ... and set, under a lock of its own.
StartMark(t) ==
    /\ task[t].pc = "checked"
    /\ running' = TRUE
    /\ task' = [u \in Tasks |-> [task[u] EXCEPT !.pc = IF u = t THEN "marked" ELSE @,
                                                !.late = 0]]
    /\ UNCHANGED <<sender, sub, count>>

StartChannels(t) ==
    /\ task[t].pc = "marked"
    /\ EnsureSender
    /\ GoTo(t, "created")
    /\ UNCHANGED <<running, sub>>

\* The listener connects and listens, and its task is spawned.
StartListen(t) ==
    /\ task[t].pc = "created"
    /\ task' = [task EXCEPT ![t] = [@ EXCEPT !.pc = "check", !.connected = TRUE]]
    /\ UNCHANGED <<running, sender, sub, count>>

\* The connection or the LISTEN fails: the flag stays as it was set.
StartFails(t) ==
    /\ task[t].pc = "created"
    /\ GoTo(t, "failed")
    /\ UNCHANGED <<running, sender, sub, count>>

Stop ==
    /\ count.stops < MaxStops
    /\ running' = FALSE
    /\ count' = [count EXCEPT !.stops = @ + 1]
    /\ UNCHANGED <<sender, task, sub>>

-----------------------------------------------------------------------------
(* listen_channel *)

DynamicListen(t) ==
    /\ task[t].pc = "idle"
    /\ task' = [task EXCEPT ![t] = [@ EXCEPT !.pc = "connected", !.connected = TRUE]]
    /\ UNCHANGED <<running, sender, sub, count>>

DynamicFails(t) ==
    /\ task[t].pc = "idle"
    /\ GoTo(t, "failed")
    /\ UNCHANGED <<running, sender, sub, count>>

DynamicChannel(t) ==
    /\ task[t].pc = "connected"
    /\ EnsureSender
    /\ GoTo(t, "check")
    /\ UNCHANGED <<running, sub>>

-----------------------------------------------------------------------------
(* The listener's loop *)

Keep(t) ==
    /\ task[t].pc = "check" /\ running
    /\ GoTo(t, "recv")
    /\ UNCHANGED <<running, sender, sub, count>>

\* The listener is dropped, and its connection with it.
Exit(t) ==
    /\ task[t].pc = "check" /\ ~running
    /\ task' = [task EXCEPT ![t] = [@ EXCEPT !.pc = "exited", !.connected = FALSE, !.inbox = 0]]
    /\ UNCHANGED <<running, sender, sub, count>>

\* try_recv waits for a notification; nothing else wakes it, stop included.
Receive(t) ==
    /\ task[t].pc = "recv" /\ task[t].connected /\ task[t].inbox > 0
    /\ task' = [task EXCEPT ![t] = [@ EXCEPT !.pc = "got", !.inbox = task[t].inbox - 1]]
    /\ UNCHANGED <<running, sender, sub, count>>

\* The connection is lost: try_recv answers Ok(None), and what had not been
\* read is gone.
Lose(t) ==
    /\ task[t].pc = "recv" /\ task[t].connected
    /\ count.losses < MaxLosses
    /\ task' = [task EXCEPT ![t] = [@ EXCEPT !.pc = "check", !.connected = FALSE, !.inbox = 0]]
    /\ count' = [count EXCEPT !.losses = @ + 1]
    /\ UNCHANGED <<running, sender, sub>>

\* The next try_recv connects and listens again, or fails and the loop goes
\* round after a second.
Reconnect(t) ==
    /\ task[t].pc = "recv" /\ ~task[t].connected
    /\ task' = [task EXCEPT ![t].connected = TRUE]
    /\ UNCHANGED <<running, sender, sub, count>>

ReconnectFails(t) ==
    /\ task[t].pc = "recv" /\ ~task[t].connected
    /\ GoTo(t, "check")
    /\ UNCHANGED <<running, sender, sub, count>>

\* A full buffer loses its oldest, so what is unread stays at the capacity.
Pushed(n) == IF n < Capacity THEN n + 1 ELSE Capacity

\* A mutant: the loop goes straight back to try_recv.
AfterBroadcastReceive == "recv"

\* Where the loop goes once it has broadcast.
AfterBroadcast == "check"

Broadcast(t) ==
    /\ task[t].pc = "got"
    /\ sub' = [r \in Subscribers |->
                 IF sub[r].pc = "open" /\ sub[r].from = sender /\ sender # 0
                 THEN [sub[r] EXCEPT !.unread = Pushed(@)] ELSE sub[r]]
    /\ task' = [task EXCEPT ![t] = [@ EXCEPT !.pc = AfterBroadcast,
                                             !.late = IF running THEN 0 ELSE task[t].late + 1]]
    /\ UNCHANGED <<running, sender, count>>

Listener(t) ==
    Keep(t) \/ Exit(t) \/ Receive(t) \/ Reconnect(t) \/ ReconnectFails(t) \/ Broadcast(t)

-----------------------------------------------------------------------------
(* subscribe and subscribe_or_create *)

Open(r) ==
    sub' = [sub EXCEPT ![r] = [pc |-> "open", from |-> sender, unread |-> 0]]

\* The sender is there.
Subscribe(r) ==
    /\ sub[r].pc = "idle" /\ sender # 0
    /\ Open(r)
    /\ UNCHANGED <<running, sender, task, count>>

\* subscribe_or_create finds none, and lets go of the read lock ...
FindNone(r) ==
    /\ sub[r].pc = "idle" /\ sender = 0
    /\ sub' = [sub EXCEPT ![r].pc = "missing"]
    /\ UNCHANGED <<running, sender, task, count>>

\* ... looks again under the write lock ...
Create(r) ==
    /\ sub[r].pc = "missing"
    /\ EnsureSender
    /\ sub' = [sub EXCEPT ![r].pc = "made"]
    /\ UNCHANGED <<running, task>>

\* ... and subscribes under a third.
SubscribeMade(r) ==
    /\ sub[r].pc = "made"
    /\ Open(r)
    /\ UNCHANGED <<running, sender, task, count>>

\* The stream's next item.  A lagged receiver's error is filtered out.
Take(r) ==
    /\ sub[r].pc = "open" /\ sub[r].unread > 0
    /\ sub' = [sub EXCEPT ![r].unread = @ - 1]

\* PostgreSQL delivers a NOTIFY to every connection that listens.
Notify ==
    /\ count.notes < MaxNotes
    /\ count' = [count EXCEPT !.notes = @ + 1]
    /\ task' = [t \in Tasks |-> IF task[t].connected
                                THEN [task[t] EXCEPT !.inbox = @ + 1] ELSE task[t]]

StartCall(t) == StartCheck(t) \/ StartMark(t) \/ StartChannels(t) \/ StartListen(t) \/ StartFails(t)

DynamicCall(t) == DynamicListen(t) \/ DynamicFails(t) \/ DynamicChannel(t)

SubscribeCall(r) == Subscribe(r) \/ FindNone(r) \/ Create(r) \/ SubscribeMade(r)

BNext ==
    \/ \E t \in Starters : StartCall(t)
    \/ \E t \in Dynamics : DynamicCall(t)
    \/ Stop
    \/ \E t \in Tasks : Listener(t) \/ Lose(t)
    \/ \E r \in Subscribers : SubscribeCall(r)
    \/ \E r \in Subscribers : Take(r) /\ UNCHANGED <<running, sender, task, count>>
    \/ Notify /\ UNCHANGED <<running, sender, sub>>

BSpec == BInit /\ [][BNext]_bvars

-----------------------------------------------------------------------------
(* Properties *)

\* The map's sender is never replaced, however start, listen_channel and
\* subscribe_or_create meet: every open stream hangs on the sender that the
\* listeners broadcast to.
SharedSender == \A r \in Subscribers : sub[r].pc = "open" => sub[r].from = sender

\* A stopped listener was waiting in try_recv or had a notification in hand: it
\* broadcasts at most one more before it sees the flag.
AtMostOneLate == \A t \in Tasks : task[t].late <= 1

\* What start's two critical sections and stop's flag leave behind does no harm:
\* overlapping starts, or a stop and a start around a waiting listener, make two
\* listeners, which share the sender and end after the one note they may hold.
LeftoversAreHarmless == SharedSender /\ AtMostOneLate

=============================================================================
