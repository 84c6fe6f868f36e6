------------------------ MODULE NotifyBrokerProofs ------------------------
(***************************************************************************)
(* Proofs about the notification broker and the live queries it wakes, for *)
(* any number of calls of start, listen_channel and subscribe, any number  *)
(* of subscriptions and any bounds on the environment.                     *)
(*                                                                         *)
(* No property is inductive.  That no sender is replaced under a stream    *)
(* needs that there is a sender as soon as a subscription is open or its   *)
(* sender made (SenderThere).  That a stopped listener is late at most     *)
(* once needs that one which was late is back at the check of the flag,    *)
(* and that nobody is late while the flag is set (LateAtCheck).  That a    *)
(* stale subscription is about to be woken needs the same of an answer     *)
(* that was read and not yet sent (StaleIsComing), and that a subscription *)
(* which missed nothing hangs on the broker (HangsOn).                     *)
(***************************************************************************)
EXTENDS LiveQuery, TLAPS

\* A subscription past subscribe_or_create's second lookup has a sender.
SenderThere ==
    \A r \in Subscribers : sub[r].pc \in {"made", "open"} => sender # 0

\* A listener that was late is about to see the flag, or has seen it.
LateAtCheck ==
    \A t \in Tasks :
        \/ task[t].late = 0
        \/ task[t].late = 1 /\ ~running /\ task[t].pc \in {"check", "exited"}

BInv == TypeOK /\ SenderThere /\ SharedSender /\ LateAtCheck

-----------------------------------------------------------------------------
(* The initial state *)

\* The invariant holds before any call.
LEMMA InitBInv == BInit => BInv
  <1> SUFFICES ASSUME BInit PROVE BInv
    OBVIOUS
  <1>1. TypeOK
    <2>1. 0 \in 0..Capacity
      BY BrokerAssumption
    <2>2. [pc |-> "idle", connected |-> FALSE, inbox |-> 0, late |-> 0] \in Task
      BY DEF Task
    <2>3. [pc |-> "idle", from |-> 0, unread |-> 0] \in Sub
      BY <2>1 DEF Sub
    <2> QED BY <2>2, <2>3 DEF BInit, TypeOK
  <1>2. SenderThere /\ SharedSender /\ LateAtCheck
    BY DEF BInit, SenderThere, SharedSender, LateAtCheck
  <1> QED BY <1>1, <1>2 DEF BInv

-----------------------------------------------------------------------------
(* What is common to several actions *)

\* A step of one task that leaves `late` and the rest alone keeps the invariant,
\* if a late task only moves from the check of the flag to its exit.
LEMMA TaskStep ==
    ASSUME BInv, NEW t \in Tasks, NEW new \in Task,
           task' = [task EXCEPT ![t] = new],
           new.late = task[t].late,
           task[t].pc \notin {"check", "exited"} \/ running \/ new.pc \in {"check", "exited"},
           sender' = sender, running' = running, sub' = sub,
           count' \in [Counters -> Nat]
    PROVE  BInv'
  <1>1. TypeOK'
    BY DEF BInv, TypeOK
  <1>2. SenderThere' /\ SharedSender'
    BY DEF BInv, SenderThere, SharedSender
  <1>3. LateAtCheck'
    BY DEF BInv, TypeOK, LateAtCheck
  <1> QED BY <1>1, <1>2, <1>3 DEF BInv

\* The write lock's section: a sender appears where there was none, and no
\* stream can have been open then.
LEMMA SenderMade ==
    ASSUME BInv, EnsureSender
    PROVE  /\ sender' \in Nat /\ sender' # 0
           /\ count' \in [Counters -> Nat]
           /\ sender # 0 => sender' = sender
  BY DEF BInv, TypeOK, Counters, EnsureSender, NewSender

\* Making a sender, whoever does it, keeps what the streams rely on.
LEMMA SenderKept ==
    ASSUME BInv, EnsureSender, sub' = sub
    PROVE  SenderThere' /\ SharedSender'
  <1>1. sender' # 0 /\ (sender # 0 => sender' = sender)
    BY SenderMade
  <1> QED BY <1>1 DEF BInv, SenderThere, SharedSender

-----------------------------------------------------------------------------
(* start and stop *)

\* start preserves the invariant at each of its steps.
LEMMA StartBInv ==
    ASSUME BInv, NEW t \in Starters, StartCall(t)
    PROVE  BInv'
  <1> t \in Tasks
    BY DEF Tasks
  <1>0. task[t] \in Task /\ task \in [Tasks -> Task]
    BY DEF BInv, TypeOK
  <1>c. count \in [Counters -> Nat]
    BY DEF BInv, TypeOK
  <1>1. CASE StartCheck(t)
    <2> DEFINE pc == IF running THEN "refused" ELSE "checked"
    <2>1. [task[t] EXCEPT !.pc = pc] \in Task
      BY <1>0 DEF Task
    <2>2. task' = [task EXCEPT ![t] = [task[t] EXCEPT !.pc = pc]]
      BY <1>0, <1>1 DEF StartCheck, GoTo
    <2>3. task[t].pc = "idle" /\ UNCHANGED <<running, sender, sub, count>>
      BY <1>1 DEF StartCheck
    <2>4. [task[t] EXCEPT !.pc = pc].late = task[t].late
      BY <1>0 DEF Task
    <2> HIDE DEF pc
    <2> QED BY <1>c, <2>1, <2>2, <2>3, <2>4, TaskStep
  <1>2. CASE StartMark(t)
    <2>1. \A u \in Tasks : \E pc \in {task[u].pc, "marked"} :
            task'[u] = [task[u] EXCEPT !.pc = pc, !.late = 0]
      BY <1>0, <1>2 DEF StartMark
    <2>2. \A u \in Tasks : task'[u] \in Task /\ task'[u].late = 0
      <3> SUFFICES ASSUME NEW u \in Tasks PROVE task'[u] \in Task /\ task'[u].late = 0
        OBVIOUS
      <3>1. PICK pc \in {task[u].pc, "marked"} :
              task'[u] = [task[u] EXCEPT !.pc = pc, !.late = 0]
        BY <2>1
      <3>2. task[u] \in Task
        BY <1>0
      <3>3. pc \in {"idle", "checked", "marked", "created", "connected", "refused", "failed",
                   "exited"} \cup Looping
        BY <3>2 DEF Task
      <3>4. [task[u] EXCEPT !.pc = pc, !.late = 0] \in Task
        BY <3>2, <3>3 DEF Task
      <3>5. [task[u] EXCEPT !.pc = pc, !.late = 0].late = 0
        BY <3>2 DEF Task
      <3> QED BY <3>1, <3>4, <3>5
    <2>3. TypeOK'
      BY <1>2, <2>2 DEF BInv, TypeOK, StartMark
    <2>4. SenderThere' /\ SharedSender'
      BY <1>2 DEF BInv, SenderThere, SharedSender, StartMark
    <2>5. LateAtCheck'
      BY <2>2 DEF LateAtCheck
    <2> QED BY <2>3, <2>4, <2>5 DEF BInv
  <1>3. CASE StartChannels(t)
    <2>1. SenderThere' /\ SharedSender'
      BY <1>3, SenderKept DEF StartChannels
    <2>2. /\ task' = [task EXCEPT ![t] = [task[t] EXCEPT !.pc = "created"]]
          /\ task[t].pc = "marked" /\ running' = running /\ sub' = sub
      BY <1>0, <1>3 DEF StartChannels, GoTo
    <2>3. [task[t] EXCEPT !.pc = "created"] \in Task
      BY <1>0 DEF Task
    <2>4. TypeOK'
      BY <1>3, <2>2, <2>3, SenderMade DEF BInv, TypeOK, StartChannels
    <2>5. LateAtCheck'
      BY <1>0, <2>2 DEF BInv, LateAtCheck, Task
    <2> QED BY <2>1, <2>4, <2>5 DEF BInv
  <1>4. CASE StartListen(t)
    <2> DEFINE new == [task[t] EXCEPT !.pc = "check", !.connected = TRUE]
    <2>1. new \in Task /\ new.late = task[t].late
      BY <1>0 DEF Task, Looping
    <2>2. /\ task' = [task EXCEPT ![t] = new]
          /\ task[t].pc = "created" /\ UNCHANGED <<running, sender, sub, count>>
      BY <1>4 DEF StartListen
    <2> HIDE DEF new
    <2> QED BY <1>c, <2>1, <2>2, TaskStep
  <1>5. CASE StartFails(t)
    <2> DEFINE new == [task[t] EXCEPT !.pc = "failed"]
    <2>1. new \in Task /\ new.late = task[t].late
      BY <1>0 DEF Task
    <2>2. /\ task' = [task EXCEPT ![t] = new]
          /\ task[t].pc = "created" /\ UNCHANGED <<running, sender, sub, count>>
      BY <1>0, <1>5 DEF StartFails, GoTo
    <2> HIDE DEF new
    <2> QED BY <1>c, <2>1, <2>2, TaskStep
  <1> QED BY <1>1, <1>2, <1>3, <1>4, <1>5 DEF StartCall

\* stop clears the flag and nothing else: nobody becomes late by it.
LEMMA StopBInv ==
    ASSUME BInv, Stop
    PROVE  BInv'
  <1>1. TypeOK'
    <2>1. count' \in [Counters -> Nat]
      BY DEF BInv, TypeOK, Counters, Stop
    <2>2. running' \in BOOLEAN
      BY DEF Stop
    <2> QED BY <2>1, <2>2 DEF BInv, TypeOK, Stop
  <1>2. SenderThere' /\ SharedSender' /\ LateAtCheck'
    BY DEF BInv, Stop, SenderThere, SharedSender, LateAtCheck
  <1> QED BY <1>1, <1>2 DEF BInv

-----------------------------------------------------------------------------
(* listen_channel *)

\* listen_channel preserves the invariant at each of its steps.
LEMMA DynamicBInv ==
    ASSUME BInv, NEW t \in Dynamics, DynamicCall(t)
    PROVE  BInv'
  <1> t \in Tasks
    BY DEF Tasks
  <1>0. task[t] \in Task /\ task \in [Tasks -> Task]
    BY DEF BInv, TypeOK
  <1>c. count \in [Counters -> Nat]
    BY DEF BInv, TypeOK
  <1>1. CASE DynamicListen(t)
    <2> DEFINE new == [task[t] EXCEPT !.pc = "connected", !.connected = TRUE]
    <2>1. new \in Task /\ new.late = task[t].late
      BY <1>0 DEF Task
    <2>2. /\ task' = [task EXCEPT ![t] = new]
          /\ task[t].pc = "idle" /\ UNCHANGED <<running, sender, sub, count>>
      BY <1>1 DEF DynamicListen
    <2> HIDE DEF new
    <2> QED BY <1>c, <2>1, <2>2, TaskStep
  <1>2. CASE DynamicFails(t)
    <2> DEFINE new == [task[t] EXCEPT !.pc = "failed"]
    <2>1. new \in Task /\ new.late = task[t].late
      BY <1>0 DEF Task
    <2>2. /\ task' = [task EXCEPT ![t] = new]
          /\ task[t].pc = "idle" /\ UNCHANGED <<running, sender, sub, count>>
      BY <1>0, <1>2 DEF DynamicFails, GoTo
    <2> HIDE DEF new
    <2> QED BY <1>c, <2>1, <2>2, TaskStep
  <1>3. CASE DynamicChannel(t)
    <2>1. SenderThere' /\ SharedSender'
      BY <1>3, SenderKept DEF DynamicChannel
    <2>2. /\ task' = [task EXCEPT ![t] = [task[t] EXCEPT !.pc = "check"]]
          /\ task[t].pc = "connected" /\ running' = running /\ sub' = sub
      BY <1>0, <1>3 DEF DynamicChannel, GoTo
    <2>3. [task[t] EXCEPT !.pc = "check"] \in Task
      BY <1>0 DEF Task, Looping
    <2>4. TypeOK'
      BY <1>3, <2>2, <2>3, SenderMade DEF BInv, TypeOK, DynamicChannel
    <2>5. LateAtCheck'
      BY <1>0, <2>2 DEF BInv, LateAtCheck, Task
    <2> QED BY <2>1, <2>4, <2>5 DEF BInv
  <1> QED BY <1>1, <1>2, <1>3 DEF DynamicCall

-----------------------------------------------------------------------------
(* The listener's loop *)

\* A broadcast reaches the buffers of the open streams within their capacity,
\* and makes the listener late only if the flag is down; it was not late then,
\* having waited for the notification since it last looked.
LEMMA BroadcastBInv ==
    ASSUME BInv, NEW t \in Tasks, Broadcast(t)
    PROVE  BInv'
  <1>0. task[t] \in Task /\ task \in [Tasks -> Task] /\ sub \in [Subscribers -> Sub]
    BY DEF BInv, TypeOK
  <1> DEFINE late == IF running THEN 0 ELSE task[t].late + 1
             new == [task[t] EXCEPT !.pc = "check", !.late = late]
  <1>1. /\ task[t].pc = "got"
        /\ task' = [task EXCEPT ![t] = new]
        /\ UNCHANGED <<running, sender, count>>
    <2>1. task' = [task EXCEPT ![t] = new]
      BY DEF Broadcast, AfterBroadcast
    <2>2. task[t].pc = "got" /\ UNCHANGED <<running, sender, count>>
      BY DEF Broadcast
    <2> QED BY <2>1, <2>2
  <1>2. task[t].late = 0
    BY <1>1 DEF BInv, LateAtCheck
  <1>3. late \in Nat /\ late = (IF running THEN 0 ELSE 1)
    BY <1>2
  <1> HIDE DEF late
  <1>4. new \in Task /\ new.late = late /\ new.pc = "check"
    BY <1>0, <1>3 DEF Task, Looping
  <1> HIDE DEF new
  <1>5. \A r \in Subscribers :
          /\ sub'[r] \in Sub
          /\ sub'[r].pc = sub[r].pc
          /\ sub'[r].from = sub[r].from
    <2> SUFFICES ASSUME NEW r \in Subscribers
                 PROVE  sub'[r] \in Sub /\ sub'[r].pc = sub[r].pc /\ sub'[r].from = sub[r].from
      OBVIOUS
    <2>1. sub[r] \in Sub
      BY <1>0
    <2>2. Pushed(sub[r].unread) \in 0..Capacity
      BY <2>1, BrokerAssumption DEF Sub, Pushed
    <2>3. \/ sub'[r] = [sub[r] EXCEPT !.unread = Pushed(sub[r].unread)]
          \/ sub'[r] = sub[r]
      BY <1>0 DEF Broadcast
    <2> HIDE DEF Pushed
    <2> QED BY <2>1, <2>2, <2>3 DEF Sub
  <1>6. sub' \in [Subscribers -> Sub]
    BY <1>5 DEF Broadcast
  <1>7. TypeOK'
    BY <1>0, <1>1, <1>4, <1>6 DEF BInv, TypeOK
  <1>8. SenderThere' /\ SharedSender'
    BY <1>1, <1>5 DEF BInv, SenderThere, SharedSender
  <1>9. LateAtCheck'
    BY <1>0, <1>1, <1>3, <1>4 DEF BInv, LateAtCheck
  <1> QED BY <1>7, <1>8, <1>9 DEF BInv

\* Every other step of the loop, and the loss of the connection.
LEMMA ListenerBInv ==
    ASSUME BInv, NEW t \in Tasks, Listener(t) \/ Lose(t)
    PROVE  BInv'
  <1>0. task[t] \in Task /\ task \in [Tasks -> Task]
    BY DEF BInv, TypeOK
  <1>c. count \in [Counters -> Nat]
    BY DEF BInv, TypeOK
  <1>1. CASE Keep(t)
    <2> DEFINE new == [task[t] EXCEPT !.pc = "recv"]
    <2>1. new \in Task /\ new.late = task[t].late
      BY <1>0 DEF Task, Looping
    <2>2. /\ task' = [task EXCEPT ![t] = new] /\ running
          /\ UNCHANGED <<running, sender, sub, count>>
      BY <1>0, <1>1 DEF Keep, GoTo
    <2> HIDE DEF new
    <2> QED BY <1>c, <2>1, <2>2, TaskStep
  <1>2. CASE Exit(t)
    <2> DEFINE new == [task[t] EXCEPT !.pc = "exited", !.connected = FALSE, !.inbox = 0]
    <2>1. new \in Task /\ new.late = task[t].late /\ new.pc = "exited"
      BY <1>0 DEF Task
    <2>2. /\ task' = [task EXCEPT ![t] = new]
          /\ UNCHANGED <<running, sender, sub, count>>
      BY <1>2 DEF Exit
    <2> HIDE DEF new
    <2> QED BY <1>c, <2>1, <2>2, TaskStep
  <1>3. CASE Receive(t)
    <2> DEFINE new == [task[t] EXCEPT !.pc = "got", !.inbox = task[t].inbox - 1]
    <2>1. task[t].inbox \in Nat /\ task[t].inbox > 0
      BY <1>0, <1>3 DEF Task, Receive
    <2>2. task[t].inbox - 1 \in Nat
      BY <2>1
    <2>3. new \in Task /\ new.late = task[t].late
      BY <1>0, <2>2 DEF Task, Looping
    <2>4. task' = [task EXCEPT ![t] = new]
      BY <1>3 DEF Receive
    <2>5. task[t].pc = "recv" /\ UNCHANGED <<running, sender, sub, count>>
      BY <1>3 DEF Receive
    <2> HIDE DEF new
    <2> QED BY <1>c, <2>3, <2>4, <2>5, TaskStep
  <1>4. CASE Reconnect(t)
    <2> DEFINE new == [task[t] EXCEPT !.connected = TRUE]
    <2>1. new \in Task /\ new.late = task[t].late
      BY <1>0 DEF Task
    <2>2. /\ task' = [task EXCEPT ![t] = new] /\ task[t].pc = "recv"
          /\ UNCHANGED <<running, sender, sub, count>>
      BY <1>0, <1>4 DEF Reconnect
    <2> HIDE DEF new
    <2> QED BY <1>c, <2>1, <2>2, TaskStep
  <1>5. CASE ReconnectFails(t)
    <2> DEFINE new == [task[t] EXCEPT !.pc = "check"]
    <2>1. new \in Task /\ new.late = task[t].late /\ new.pc = "check"
      BY <1>0 DEF Task, Looping
    <2>2. /\ task' = [task EXCEPT ![t] = new]
          /\ UNCHANGED <<running, sender, sub, count>>
      BY <1>0, <1>5 DEF ReconnectFails, GoTo
    <2> HIDE DEF new
    <2> QED BY <1>c, <2>1, <2>2, TaskStep
  <1>6. CASE Broadcast(t)
    BY <1>6, BroadcastBInv
  <1>7. CASE Lose(t)
    <2> DEFINE new == [task[t] EXCEPT !.pc = "check", !.connected = FALSE, !.inbox = 0]
    <2>1. new \in Task /\ new.late = task[t].late /\ new.pc = "check"
      BY <1>0 DEF Task, Looping
    <2>2. /\ task' = [task EXCEPT ![t] = new]
          /\ UNCHANGED <<running, sender, sub>>
          /\ count' = [count EXCEPT !.losses = @ + 1]
      BY <1>7 DEF Lose
    <2>3. count' \in [Counters -> Nat]
      BY <1>c, <2>2 DEF Counters
    <2> HIDE DEF new
    <2> QED BY <2>1, <2>2, <2>3, TaskStep
  <1> QED BY <1>1, <1>2, <1>3, <1>4, <1>5, <1>6, <1>7 DEF Listener

-----------------------------------------------------------------------------
(* subscribe, subscribe_or_create and the streams *)

\* A subscription opens on the sender of the map, and the one it makes is made
\* only where there is none.
LEMMA SubscribeBInv ==
    ASSUME BInv, NEW r \in Subscribers, SubscribeCall(r)
    PROVE  BInv'
  <1>0. sub[r] \in Sub /\ sub \in [Subscribers -> Sub] /\ sender \in Nat
    BY DEF BInv, TypeOK
  <1>o. 0 \in 0..Capacity
    BY BrokerAssumption
  <1>1. CASE Subscribe(r) \/ SubscribeMade(r)
    <2> DEFINE new == [pc |-> "open", from |-> sender, unread |-> 0]
    <2>1. new \in Sub /\ new.from = sender
      BY <1>0, <1>o DEF Sub
    <2>2. sub' = [sub EXCEPT ![r] = new] /\ UNCHANGED <<running, sender, task, count>>
      BY <1>1 DEF Subscribe, SubscribeMade, Open
    <2>3. sender # 0
      BY <1>1 DEF Subscribe, SubscribeMade, BInv, SenderThere
    <2> HIDE DEF new
    <2>4. TypeOK'
      BY <2>1, <2>2 DEF BInv, TypeOK
    <2>5. SenderThere' /\ SharedSender' /\ LateAtCheck'
      BY <1>0, <2>1, <2>2, <2>3 DEF BInv, SenderThere, SharedSender, LateAtCheck
    <2> QED BY <2>4, <2>5 DEF BInv
  <1>2. CASE FindNone(r)
    <2> DEFINE new == [sub[r] EXCEPT !.pc = "missing"]
    <2>1. new \in Sub /\ new.pc = "missing"
      BY <1>0 DEF Sub
    <2>2. sub' = [sub EXCEPT ![r] = new] /\ UNCHANGED <<running, sender, task, count>>
      BY <1>0, <1>2 DEF FindNone
    <2> HIDE DEF new
    <2>4. TypeOK'
      BY <2>1, <2>2 DEF BInv, TypeOK
    <2>5. SenderThere' /\ SharedSender' /\ LateAtCheck'
      BY <1>0, <2>1, <2>2 DEF BInv, SenderThere, SharedSender, LateAtCheck
    <2> QED BY <2>4, <2>5 DEF BInv
  <1>3. CASE Create(r)
    <2> DEFINE new == [sub[r] EXCEPT !.pc = "made"]
    <2>1. new \in Sub /\ new.pc = "made"
      BY <1>0 DEF Sub
    <2>2. sub' = [sub EXCEPT ![r] = new] /\ UNCHANGED <<running, task>>
      BY <1>0, <1>3 DEF Create
    <2>3. sender' \in Nat /\ sender' # 0 /\ (sender # 0 => sender' = sender)
          /\ count' \in [Counters -> Nat]
      BY <1>3, SenderMade DEF Create
    <2> HIDE DEF new
    <2>4. TypeOK'
      BY <2>1, <2>2, <2>3 DEF BInv, TypeOK
    <2>5. SenderThere'
      BY <2>3 DEF SenderThere
    <2>6. SharedSender'
      BY <1>0, <2>1, <2>2, <2>3 DEF BInv, SharedSender, SenderThere
    <2>7. LateAtCheck'
      BY <2>2 DEF BInv, LateAtCheck
    <2> QED BY <2>4, <2>5, <2>6, <2>7 DEF BInv
  <1> QED BY <1>1, <1>2, <1>3 DEF SubscribeCall

\* A stream takes what is unread.
LEMMA TakeBInv ==
    ASSUME BInv, NEW r \in Subscribers, Take(r), UNCHANGED <<running, sender, task, count>>
    PROVE  BInv'
  <1>0. sub[r] \in Sub /\ sub \in [Subscribers -> Sub]
    BY DEF BInv, TypeOK
  <1> DEFINE new == [sub[r] EXCEPT !.unread = @ - 1]
  <1>1. sub[r].unread - 1 \in 0..Capacity
    BY <1>0, BrokerAssumption DEF Take, Sub
  <1>2. new \in Sub /\ new.pc = sub[r].pc /\ new.from = sub[r].from
    BY <1>0, <1>1 DEF Sub
  <1>3. sub' = [sub EXCEPT ![r] = new]
    BY <1>0 DEF Take
  <1> HIDE DEF new
  <1>4. TypeOK'
    BY <1>2, <1>3 DEF BInv, TypeOK
  <1>5. SenderThere' /\ SharedSender' /\ LateAtCheck'
    BY <1>0, <1>2, <1>3 DEF BInv, SenderThere, SharedSender, LateAtCheck
  <1> QED BY <1>4, <1>5 DEF BInv

\* A notification reaches the connections that listen.
LEMMA NotifyBInv ==
    ASSUME BInv, Notify, UNCHANGED <<running, sender, sub>>
    PROVE  BInv'
  <1>0. task \in [Tasks -> Task]
    BY DEF BInv, TypeOK
  <1>1. \A t \in Tasks : task'[t] \in Task /\ task'[t].late = task[t].late /\ task'[t].pc = task[t].pc
    <2> SUFFICES ASSUME NEW t \in Tasks
                 PROVE  task'[t] \in Task /\ task'[t].late = task[t].late /\ task'[t].pc = task[t].pc
      OBVIOUS
    <2>1. task[t] \in Task
      BY <1>0
    <2>2. task[t].inbox + 1 \in Nat
      BY <2>1 DEF Task
    <2>3. \/ task'[t] = [task[t] EXCEPT !.inbox = task[t].inbox + 1]
          \/ task'[t] = task[t]
      BY <2>1 DEF Notify
    <2> QED BY <2>1, <2>2, <2>3 DEF Task
  <1>2. TypeOK'
    <2>1. task' \in [Tasks -> Task]
      BY <1>1 DEF Notify
    <2>2. count' \in [Counters -> Nat]
      BY DEF Notify, BInv, TypeOK, Counters
    <2> QED BY <2>1, <2>2 DEF BInv, TypeOK
  <1>3. SenderThere' /\ SharedSender' /\ LateAtCheck'
    BY <1>1 DEF BInv, SenderThere, SharedSender, LateAtCheck
  <1> QED BY <1>2, <1>3 DEF BInv

-----------------------------------------------------------------------------
(* The theorems *)

\* The broker's invariant: every step of every call, listener and stream keeps it.
THEOREM BrokerInductive == BSpec => []BInv
  <1>1. BInv /\ [BNext]_bvars => BInv'
    <2> SUFFICES ASSUME BInv, [BNext]_bvars PROVE BInv'
      OBVIOUS
    <2>1. CASE \E t \in Starters : StartCall(t)
      BY <2>1, StartBInv
    <2>2. CASE \E t \in Dynamics : DynamicCall(t)
      BY <2>2, DynamicBInv
    <2>3. CASE Stop
      BY <2>3, StopBInv
    <2>4. CASE \E t \in Tasks : Listener(t) \/ Lose(t)
      BY <2>4, ListenerBInv
    <2>5. CASE \E r \in Subscribers : SubscribeCall(r)
      BY <2>5, SubscribeBInv
    <2>6. CASE \E r \in Subscribers : Take(r) /\ UNCHANGED <<running, sender, task, count>>
      BY <2>6, TakeBInv
    <2>7. CASE Notify /\ UNCHANGED <<running, sender, sub>>
      BY <2>7, NotifyBInv
    <2>8. CASE UNCHANGED bvars
      BY <2>8 DEF bvars, BInv, TypeOK, SenderThere, SharedSender, LateAtCheck
    <2> QED BY <2>1, <2>2, <2>3, <2>4, <2>5, <2>6, <2>7, <2>8 DEF BNext
  <1> QED BY <1>1, InitBInv, PTL DEF BSpec

\* No receiver's buffer exceeds the channel's capacity, and the rest is typed.
THEOREM BrokerTypes == BSpec => []TypeOK
  <1>1. BInv => TypeOK
    BY DEF BInv
  <1> QED BY <1>1, BrokerInductive, PTL

\* However many calls of start, listen_channel and subscribe_or_create meet,
\* every open stream hangs on the sender that the listeners broadcast to.
THEOREM OneSender == BSpec => []SharedSender
  <1>1. BInv => SharedSender
    BY DEF BInv
  <1> QED BY <1>1, BrokerInductive, PTL

\* A listener broadcasts at most one notification after stop.
THEOREM StopsSoon == BSpec => []AtMostOneLate
  <1>1. BInv => AtMostOneLate
    BY DEF BInv, LateAtCheck, AtMostOneLate
  <1> QED BY <1>1, BrokerInductive, PTL

\* However starts and stops overlap, the listeners they leave behind broadcast
\* into the sender every open stream hangs on, and at most once after stop.
THEOREM ListenersAreHarmless == BSpec => []LeftoversAreHarmless
  <1>1. SharedSender /\ AtMostOneLate => LeftoversAreHarmless
    BY DEF LeftoversAreHarmless
  <1> QED BY <1>1, OneSender, StopsSoon, PTL

-----------------------------------------------------------------------------
(* Live queries *)

\* A notification that will wake subscription q.
Coming(q) ==
    \/ sub[q].unread > 0
    \/ \E t \in Tasks : task[t].pc = "got" \/ task[t].inbox > 0

\* The answer a subscription has, or is about to send.
Holds(q) == IF live[q].pc = "wait" THEN live[q].sent ELSE live[q].seen

HasRead(q) == live[q].pc = "wait" \/ (live[q].pc = "reading" /\ live[q].seen # None)

HangsOn == \A q \in Subscribers : HasRead(q) /\ ~gap[q] => sub[q].pc = "open"

StaleIsComing ==
    \A q \in Subscribers : HasRead(q) /\ Holds(q) # table /\ ~gap[q] => Coming(q)

StreamTypes ==
    /\ table \in Answers
    /\ live \in [Subscribers -> Live]
    /\ gap \in [Subscribers -> BOOLEAN]

LiveInv == BInv /\ StreamTypes /\ HangsOn /\ StaleIsComing

LEMMA InitLiveInv == Init => LiveInv
  <1> SUFFICES ASSUME Init PROVE LiveInv
    OBVIOUS
  <1>1. BInv
    BY InitBInv DEF Init
  <1>2. StreamTypes
    <2>1. [pc |-> "new", seen |-> None, sent |-> None] \in Live
      BY DEF Live
    <2> QED BY <2>1 DEF Init, StreamTypes
  <1>3. HangsOn /\ StaleIsComing
    BY DEF Init, HangsOn, StaleIsComing, HasRead
  <1> QED BY <1>1, <1>2, <1>3 DEF LiveInv

\* A step of the broker that leaves the streams alone, opens or closes none, and
\* loses nothing that was coming.
LEMMA BrokerKeeps ==
    ASSUME LiveInv, BInv', StreamsUnchanged,
           \A q \in Subscribers : sub[q].pc = "open" => sub'[q].pc = "open",
           \A q \in Subscribers : sub[q].pc = "open" /\ Coming(q) => Coming(q)'
    PROVE  LiveInv'
  <1>1. StreamTypes'
    BY DEF LiveInv, StreamTypes, StreamsUnchanged
  <1>2. \A q \in Subscribers : (HasRead(q)' <=> HasRead(q)) /\ Holds(q)' = Holds(q)
    BY DEF StreamsUnchanged, HasRead, Holds
  <1>3. table' = table /\ gap' = gap
    BY DEF StreamsUnchanged
  <1>4. HangsOn'
    BY <1>2, <1>3 DEF LiveInv, HangsOn
  <1>5. StaleIsComing'
    BY <1>2, <1>3 DEF LiveInv, HangsOn, StaleIsComing
  <1> QED BY <1>1, <1>4, <1>5 DEF LiveInv

\* What comes still comes when nobody takes it.
LEMMA StillComing ==
    ASSUME \A q \in Subscribers : sub'[q].unread = sub[q].unread,
           \A t \in Tasks : task[t].pc = "got" \/ task[t].inbox > 0 =>
                            task'[t].pc = "got" \/ task'[t].inbox > 0
    PROVE  \A q \in Subscribers : Coming(q) => Coming(q)'
  BY DEF Coming

LEMMA BrokerStepLive ==
    ASSUME LiveInv, BrokerStep
    PROVE  LiveInv'
  <1>0. BInv /\ task \in [Tasks -> Task] /\ sub \in [Subscribers -> Sub] /\ StreamsUnchanged
    BY DEF LiveInv, BInv, TypeOK, BrokerStep
  <1>1. CASE \E t \in Starters : StartCall(t)
    <2>1. PICK t \in Starters : StartCall(t)
      BY <1>1
    <2>2. t \in Tasks
      BY DEF Tasks
    <2>3. BInv'
      BY <1>0, <2>1, StartBInv
    <2>4. sub' = sub
      BY <2>1 DEF StartCall, StartCheck, StartMark, StartChannels, StartListen, StartFails
    <2>5. \A u \in Tasks : task'[u].inbox = task[u].inbox /\ (task[u].pc = "got" => task'[u].pc = "got")
      <3> SUFFICES ASSUME NEW u \in Tasks
                   PROVE  task'[u].inbox = task[u].inbox /\ (task[u].pc = "got" => task'[u].pc = "got")
        OBVIOUS
      <3>1. task[u] \in Task
        BY <1>0
      <3>2. CASE StartMark(t)
        BY <3>1, <3>2 DEF StartMark, Task
      <3>3. CASE StartCheck(t)
        BY <1>0, <2>2, <3>1, <3>3 DEF StartCheck, GoTo, Task
      <3>4. CASE StartChannels(t)
        <4>1. task' = [task EXCEPT ![t].pc = "created"] /\ task[t].pc = "marked"
          BY <3>4 DEF StartChannels, GoTo
        <4> QED BY <1>0, <2>2, <3>1, <4>1 DEF Task
      <3>5. CASE StartListen(t)
        BY <1>0, <2>2, <3>1, <3>5 DEF StartListen, Task
      <3>6. CASE StartFails(t)
        BY <1>0, <2>2, <3>1, <3>6 DEF StartFails, GoTo, Task
      <3> QED BY <2>1, <3>2, <3>3, <3>4, <3>5, <3>6 DEF StartCall
    <2>6. \A q \in Subscribers : Coming(q) => Coming(q)'
      BY <2>4, <2>5, StillComing
    <2> QED BY <1>0, <2>3, <2>4, <2>6, BrokerKeeps
  <1>2. CASE Stop
    <2>1. BInv'
      BY <1>0, <1>2, StopBInv
    <2>2. sub' = sub /\ task' = task
      BY <1>2 DEF Stop
    <2>3. \A q \in Subscribers : Coming(q) => Coming(q)'
      BY <2>2, StillComing
    <2> QED BY <1>0, <2>1, <2>2, <2>3, BrokerKeeps
  <1>3. ASSUME NEW t \in Tasks, Keep(t) \/ Reconnect(t) \/ ReconnectFails(t)
        PROVE  LiveInv'
    <2>1. BInv'
      BY <1>0, <1>3, ListenerBInv DEF Listener
    <2>2. sub' = sub
      BY <1>3 DEF Keep, Reconnect, ReconnectFails
    <2>3. \A u \in Tasks : task'[u].inbox = task[u].inbox /\ (task[u].pc = "got" => task'[u].pc = "got")
      <3> SUFFICES ASSUME NEW u \in Tasks
                   PROVE  task'[u].inbox = task[u].inbox /\ (task[u].pc = "got" => task'[u].pc = "got")
        OBVIOUS
      <3>1. task[u] \in Task
        BY <1>0
      <3> QED BY <1>0, <1>3, <3>1 DEF Keep, Reconnect, ReconnectFails, GoTo, Task
    <2>4. \A q \in Subscribers : Coming(q) => Coming(q)'
      BY <2>2, <2>3, StillComing
    <2> QED BY <1>0, <2>1, <2>2, <2>4, BrokerKeeps
  <1>4. ASSUME NEW t \in Tasks, Receive(t)
        PROVE  LiveInv'
    <2>1. BInv'
      BY <1>0, <1>4, ListenerBInv DEF Listener
    <2>2. sub' = sub
      BY <1>4 DEF Receive
    <2>3. task'[t].pc = "got"
      <3>1. task[t] \in Task
        BY <1>0
      <3> QED BY <1>0, <1>4, <3>1 DEF Receive, Task
    <2>4. \A q \in Subscribers : Coming(q) => Coming(q)'
      BY <2>3 DEF Coming
    <2> QED BY <1>0, <2>1, <2>2, <2>4, BrokerKeeps
  <1>5. ASSUME NEW t \in Tasks, Broadcast(t)
        PROVE  LiveInv'
    <2>1. BInv'
      BY <1>0, <1>5, BroadcastBInv
    <2>2. ASSUME NEW q \in Subscribers, sub[q].pc = "open"
          PROVE  sub'[q].pc = "open" /\ Coming(q)'
      <3>1. sub[q] \in Sub /\ sub[q].from = sender /\ sender # 0
        BY <1>0, <2>2 DEF BInv, SharedSender, SenderThere
      <3>2. sub'[q] = [sub[q] EXCEPT !.unread = Pushed(sub[q].unread)]
        BY <1>5, <2>2, <3>1 DEF Broadcast
      <3>3. Pushed(sub[q].unread) > 0
        BY <3>1, BrokerAssumption DEF Sub, Pushed
      <3>4. sub'[q].pc = "open" /\ sub'[q].unread = Pushed(sub[q].unread)
        BY <2>2, <3>1, <3>2 DEF Sub
      <3> QED BY <3>3, <3>4 DEF Coming
    <2> QED BY <1>0, <2>1, <2>2, BrokerKeeps
  <1> QED BY <1>1, <1>2, <1>3, <1>4, <1>5 DEF BrokerStep

\* A listener's connection ends: what it loses is a gap of every subscription.
LEMMA EndConnectionLive ==
    ASSUME LiveInv, NEW t \in Tasks, EndConnection(t)
    PROVE  LiveInv'
  <1>0. BInv /\ task \in [Tasks -> Task] /\ task[t] \in Task /\ live' = live /\ table' = table
    BY DEF LiveInv, BInv, TypeOK, EndConnection
  <1>1. BInv'
    BY <1>0, ListenerBInv DEF EndConnection, Listener
  <1>2. sub' = sub
    BY DEF EndConnection, Exit, Lose
  <1>3. gap' = [q \in Subscribers |-> gap[q] \/ LosesNotes(t)]
    BY DEF EndConnection
  <1>4. StreamTypes'
    BY <1>0, <1>3 DEF LiveInv, StreamTypes
  <1>5. \A q \in Subscribers : /\ (HasRead(q)' <=> HasRead(q)) /\ Holds(q)' = Holds(q)
                               /\ (~gap'[q] => ~gap[q] /\ ~LosesNotes(t))
    BY <1>0, <1>3 DEF HasRead, Holds
  <1>6. HangsOn'
    BY <1>2, <1>5 DEF LiveInv, HangsOn
  <1>7. ~LosesNotes(t) => \A q \in Subscribers : Coming(q) => Coming(q)'
    <2> SUFFICES ASSUME ~LosesNotes(t) PROVE \A q \in Subscribers : Coming(q) => Coming(q)'
      OBVIOUS
    <2>1. task[t].pc # "got" /\ ~(task[t].inbox > 0)
      BY DEF LosesNotes, EndConnection, Exit, Lose
    <2>2. \A u \in Tasks : u # t => task'[u] = task[u]
      <3>1. CASE Exit(t)
        BY <1>0, <3>1 DEF Exit
      <3>2. CASE Lose(t)
        BY <1>0, <3>2 DEF Lose
      <3> QED BY <3>1, <3>2 DEF EndConnection
    <2> QED BY <1>2, <2>1, <2>2, StillComing
  <1>8. StaleIsComing'
    BY <1>0, <1>5, <1>7 DEF LiveInv, StaleIsComing
  <1> QED BY <1>1, <1>4, <1>6, <1>8 DEF LiveInv

\* A write that a listener hears of is on its connection.
LEMMA WriteLive ==
    ASSUME LiveInv, Write
    PROVE  LiveInv'
  <1>0. /\ BInv /\ task \in [Tasks -> Task] /\ count \in [Counters -> Nat]
        /\ live' = live /\ sub' = sub /\ UNCHANGED <<running, sender>> /\ table' \in Answers
        /\ gap' = [q \in Subscribers |-> gap[q] \/ ~Heard]
    BY DEF LiveInv, BInv, TypeOK, Write
  <1>1. BInv'
    <2>1. CASE Triggered
      BY <1>0, <2>1, NotifyBInv DEF Write
    <2>2. CASE ~Triggered
      <3>1. task' = task /\ count' \in [Counters -> Nat]
        BY <1>0, <2>2 DEF Write, Counters
      <3> QED BY <1>0, <3>1 DEF BInv, TypeOK, SenderThere, SharedSender, LateAtCheck
    <2> QED BY <2>1, <2>2
  <1>2. Heard => \A q \in Subscribers : Coming(q)'
    <2> SUFFICES ASSUME Heard PROVE \A q \in Subscribers : Coming(q)'
      OBVIOUS
    <2>1. PICK t \in Tasks : task[t].connected
      BY DEF Heard
    <2>2. Notify
      BY DEF Heard, Write
    <2>3. task'[t] = [task[t] EXCEPT !.inbox = task[t].inbox + 1] /\ task[t] \in Task
      BY <1>0, <2>1, <2>2 DEF Notify
    <2>4. task'[t].inbox = task[t].inbox + 1 /\ task[t].inbox \in Nat
      BY <2>3 DEF Task
    <2>5. task'[t].inbox > 0
      BY <2>4
    <2> QED BY <2>5 DEF Coming
  <1>3. StreamTypes'
    BY <1>0 DEF LiveInv, StreamTypes
  <1>4. \A q \in Subscribers : (HasRead(q)' <=> HasRead(q)) /\ (~gap'[q] => ~gap[q] /\ Heard)
    BY <1>0 DEF HasRead
  <1>5. HangsOn'
    BY <1>0, <1>4 DEF LiveInv, HangsOn
  <1>6. StaleIsComing'
    BY <1>2, <1>4 DEF StaleIsComing
  <1> QED BY <1>1, <1>3, <1>5, <1>6 DEF LiveInv

\* A step of one stream leaves the other streams where they are.
LEMMA StreamKeeps ==
    ASSUME LiveInv, BInv', NEW q \in Subscribers, NEW new \in Live, NEW g \in BOOLEAN,
           live' = [live EXCEPT ![q] = new], gap' = [gap EXCEPT ![q] = g],
           table' = table, task' = task,
           \A r \in Subscribers : r # q => sub'[r] = sub[r],
           HasRead(q)' /\ ~g => sub'[q].pc = "open",
           HasRead(q)' /\ Holds(q)' # table /\ ~g => Coming(q)'
    PROVE  LiveInv'
  <1>0. live \in [Subscribers -> Live] /\ gap \in [Subscribers -> BOOLEAN] /\ table \in Answers
    BY DEF LiveInv, StreamTypes
  <1>1. StreamTypes'
    BY <1>0 DEF StreamTypes
  <1>2. gap'[q] = g
    BY <1>0
  <1>3. ASSUME NEW r \in Subscribers, r # q
        PROVE  /\ (HasRead(r)' <=> HasRead(r)) /\ Holds(r)' = Holds(r)
               /\ gap'[r] = gap[r] /\ sub'[r] = sub[r] /\ (Coming(r) => Coming(r)')
    <2>1. live'[r] = live[r] /\ gap'[r] = gap[r] /\ sub'[r] = sub[r]
      BY <1>0, <1>3
    <2> QED BY <2>1 DEF HasRead, Holds, Coming
  <1>4. HangsOn'
    BY <1>2, <1>3 DEF LiveInv, HangsOn
  <1>5. StaleIsComing'
    BY <1>2, <1>3 DEF LiveInv, StaleIsComing
  <1> QED BY <1>1, <1>4, <1>5 DEF LiveInv

\* Steps that leave the broker alone keep its invariant.
LEMMA BrokerAlone ==
    ASSUME BInv, UNCHANGED <<running, sender, task, sub, count>>
    PROVE  BInv'
  BY DEF BInv, TypeOK, SenderThere, SharedSender, LateAtCheck

\* A stream that starts or ends, or whose query has yet to take its snapshot,
\* owes the client nothing.
LEMMA StreamReads ==
    ASSUME LiveInv, BInv', NEW q \in Subscribers, NEW new \in Live,
           new.pc \in {"new", "start", "reading", "ended"}, new.pc = "reading" => new.seen = None,
           live' = [live EXCEPT ![q] = new], NEW g \in BOOLEAN, gap' = [gap EXCEPT ![q] = g],
           table' = table, task' = task,
           \A r \in Subscribers : r # q => sub'[r] = sub[r]
    PROVE  LiveInv'
  <1>1. live'[q] = new
    BY DEF LiveInv, StreamTypes
  <1>2. ~HasRead(q)'
    BY <1>1 DEF HasRead
  <1> QED BY <1>2, StreamKeeps

LEMMA WakeOnLive ==
    ASSUME LiveInv, NEW q \in Subscribers, WakeOn(q) \/ WakeOnRefresh(q)
    PROVE  LiveInv'
  <1>0. /\ BInv /\ live \in [Subscribers -> Live] /\ gap \in [Subscribers -> BOOLEAN]
        /\ live[q] \in Live /\ sub \in [Subscribers -> Sub]
    BY DEF LiveInv, StreamTypes, BInv, TypeOK
  <1> DEFINE started == [live[q] EXCEPT !.pc = "start"]
  <1>1. started \in Live /\ started.pc = "start"
    BY <1>0 DEF Live
  <1>2. CASE WakeOn(q)
    <2>1. BInv'
      BY <1>0, <1>2, SubscribeBInv DEF WakeOn
    <2>2. \A r \in Subscribers : r # q => sub'[r] = sub[r]
      BY <1>0, <1>2 DEF WakeOn, SubscribeCall, Subscribe, FindNone, Create, SubscribeMade, Open
    <2>3. task' = task /\ table' = table /\ gap' = [gap EXCEPT ![q] = gap[q]] /\ gap[q] \in BOOLEAN
      BY <1>0, <1>2 DEF WakeOn, SubscribeCall, Subscribe, FindNone, Create, SubscribeMade
    <2>4. CASE sub'[q].pc = "open"
      <3>1. live' = [live EXCEPT ![q] = started]
        BY <1>0, <1>2, <2>4 DEF WakeOn
      <3> HIDE DEF started
      <3> QED BY <1>1, <2>1, <2>2, <2>3, <3>1, StreamReads
    <2>5. CASE sub'[q].pc # "open"
      <3>1. live' = [live EXCEPT ![q] = live[q]] /\ live[q].pc = "new"
        BY <1>0, <1>2, <2>5 DEF WakeOn, Live
      <3> QED BY <1>0, <2>1, <2>2, <2>3, <3>1, StreamReads
    <2> QED BY <2>4, <2>5
  <1>3. CASE WakeOnRefresh(q)
    <2>1. UNCHANGED <<running, sender, task, sub, count>> /\ table' = table
      BY <1>3 DEF WakeOnRefresh
    <2>2. BInv'
      BY <1>0, <2>1, BrokerAlone
    <2>3. live' = [live EXCEPT ![q] = started] /\ gap' = [gap EXCEPT ![q] = TRUE]
      BY <1>0, <1>3 DEF WakeOnRefresh
    <2> HIDE DEF started
    <2> QED BY <1>1, <2>1, <2>2, <2>3, StreamReads
  <1> QED BY <1>2, <1>3

\* A stream wakes, by the first read, a notification or the refresh; or it ends.
LEMMA WakeLive ==
    ASSUME LiveInv, NEW q \in Subscribers,
           FirstRead(q) \/ WakeByNotification(q) \/ Tick(q) \/ End(q)
    PROVE  LiveInv'
  <1>0. /\ BInv /\ live \in [Subscribers -> Live] /\ gap \in [Subscribers -> BOOLEAN]
        /\ live[q] \in Live /\ sub \in [Subscribers -> Sub]
    BY DEF LiveInv, StreamTypes, BInv, TypeOK
  <1>1. gap' = [gap EXCEPT ![q] = gap[q]] /\ gap[q] \in BOOLEAN /\ table' = table /\ task' = task
    BY <1>0 DEF FirstRead, WakeByNotification, Tick, End
  <1>2. BInv' /\ \A r \in Subscribers : r # q => sub'[r] = sub[r]
    <2>1. CASE WakeByNotification(q)
      BY <1>0, <2>1, TakeBInv DEF WakeByNotification, Take
    <2>2. CASE FirstRead(q) \/ Tick(q) \/ End(q)
      BY <1>0, <2>2, BrokerAlone DEF FirstRead, Tick, End
    <2> QED BY <2>1, <2>2
  <1>3. CASE End(q)
    <2> DEFINE new == [live[q] EXCEPT !.pc = "ended"]
    <2>1. new \in Live /\ new.pc = "ended"
      BY <1>0 DEF Live
    <2>2. live' = [live EXCEPT ![q] = new]
      BY <1>0, <1>3 DEF End
    <2> HIDE DEF new
    <2> QED BY <1>1, <1>2, <2>1, <2>2, StreamReads
  <1>4. CASE FirstRead(q) \/ WakeByNotification(q) \/ Tick(q)
    <2> DEFINE new == [live[q] EXCEPT !.pc = "reading", !.seen = None]
    <2>1. new \in Live /\ new.pc = "reading" /\ new.seen = None
      BY <1>0 DEF Live
    <2>2. live' = [live EXCEPT ![q] = new]
      BY <1>0, <1>4 DEF FirstRead, WakeByNotification, Tick
    <2> HIDE DEF new
    <2> QED BY <1>1, <1>2, <2>1, <2>2, StreamReads
  <1> QED BY <1>3, <1>4

\* The snapshot is the table as it stands.
LEMMA SnapshotLive ==
    ASSUME LiveInv, NEW q \in Subscribers, Snapshot(q)
    PROVE  LiveInv'
  <1>0. /\ BInv /\ live \in [Subscribers -> Live] /\ live[q] \in Live /\ table \in Answers
        /\ live[q].pc = "reading"
    BY DEF LiveInv, StreamTypes, Snapshot
  <1> DEFINE new == [live[q] EXCEPT !.seen = table]
  <1> DEFINE g == sub[q].pc # "open"
  <1>1. new \in Live /\ new.pc = "reading" /\ new.seen = table
    BY <1>0 DEF Live
  <1>2. /\ live' = [live EXCEPT ![q] = new] /\ gap' = [gap EXCEPT ![q] = g]
        /\ table' = table /\ UNCHANGED <<running, sender, task, sub, count>>
    BY <1>0 DEF Snapshot
  <1>3. BInv'
    BY <1>0, <1>2, BrokerAlone
  <1> HIDE DEF new
  <1>4. live'[q] = new
    BY <1>0, <1>2
  <1>5. Holds(q)' = table
    BY <1>1, <1>4 DEF Holds
  <1>6. g \in BOOLEAN /\ (~g => sub'[q].pc = "open")
    BY <1>2
  <1> HIDE DEF g
  <1> QED BY <1>1, <1>2, <1>3, <1>5, <1>6, StreamKeeps

\* What is sent, or was, is what was read.
LEMMA AnswerLive ==
    ASSUME LiveInv, NEW q \in Subscribers, Skip(q) \/ Send(q)
    PROVE  LiveInv'
  <1>0. /\ BInv /\ live \in [Subscribers -> Live] /\ live[q] \in Live
        /\ gap \in [Subscribers -> BOOLEAN] /\ gap[q] \in BOOLEAN
        /\ live[q].pc = "reading" /\ live[q].seen # None
    BY DEF LiveInv, StreamTypes, Skip, Send
  <1> DEFINE new == [live[q] EXCEPT !.pc = "wait", !.sent = live[q].seen]
  <1>1. new \in Live /\ new.pc = "wait" /\ new.sent = live[q].seen
    BY <1>0 DEF Live
  <1>2. live' = [live EXCEPT ![q] = new]
    <2>1. CASE Skip(q)
      <3>1. [live[q] EXCEPT !.pc = "wait"] = new
        BY <1>0, <2>1 DEF Skip, Unchanged, Live
      <3>2. live' = [live EXCEPT ![q] = [live[q] EXCEPT !.pc = "wait"]]
        BY <1>0, <2>1 DEF Skip
      <3> QED BY <3>1, <3>2
    <2>2. CASE Send(q)
      BY <1>0, <2>2 DEF Send, Live
    <2> QED BY <2>1, <2>2
  <1>3. /\ gap' = [gap EXCEPT ![q] = gap[q]]
        /\ table' = table /\ UNCHANGED <<running, sender, task, sub, count>>
    BY <1>0 DEF Skip, Send
  <1>4. BInv'
    BY <1>0, <1>3, BrokerAlone
  <1> HIDE DEF new
  <1>5. live'[q] = new
    BY <1>0, <1>2
  <1>6. Holds(q)' = Holds(q) /\ HasRead(q)
    BY <1>0, <1>1, <1>5 DEF Holds, HasRead
  <1>7. ~gap[q] => sub'[q].pc = "open"
    BY <1>3, <1>6 DEF LiveInv, HangsOn
  <1>8. Holds(q)' # table /\ ~gap[q] => Coming(q)'
    <2>1. Coming(q)' <=> Coming(q)
      BY <1>3 DEF Coming
    <2> QED BY <1>6, <2>1 DEF LiveInv, StaleIsComing
  <1> QED BY <1>0, <1>1, <1>2, <1>3, <1>4, <1>7, <1>8, StreamKeeps

LEMMA NextLive == LiveInv /\ [Next]_vars => LiveInv'
  <1> SUFFICES ASSUME LiveInv, [Next]_vars PROVE LiveInv'
    OBVIOUS
  <1>1. CASE BrokerStep
    BY <1>1, BrokerStepLive
  <1>2. CASE \E t \in Tasks : EndConnection(t)
    BY <1>2, EndConnectionLive
  <1>3. CASE Write
    BY <1>3, WriteLive
  <1>4. ASSUME NEW q \in Subscribers,
               WakeOn(q) \/ WakeOnRefresh(q) \/ Stream(q) \/ Tick(q) \/ End(q)
        PROVE  LiveInv'
    BY <1>4, WakeOnLive, WakeLive, SnapshotLive, AnswerLive DEF Stream
  <1>5. CASE UNCHANGED vars
    <2>1. BInv'
      BY <1>5, BrokerAlone DEF vars, LiveInv
    <2>2. StreamTypes' /\ HangsOn' /\ StaleIsComing'
      BY <1>5 DEF vars, LiveInv, StreamTypes, HangsOn, StaleIsComing, HasRead, Holds, Coming
    <2> QED BY <2>1, <2>2 DEF LiveInv
  <1> QED BY <1>1, <1>2, <1>3, <1>4, <1>5 DEF Next

\* A subscription that waits with an answer that is out of date is about to be
\* woken, whatever order the writes, the listeners' loops, the lost connections
\* and the reads of `live` and `wake_on` come in.
THEOREM WokenInTime == Spec => []WakeOnTheWay
  <1>1. LiveInv => WakeOnTheWay
    BY DEF LiveInv, StaleIsComing, HasRead, Holds, Coming, WakeOnTheWay
  <1> QED BY <1>1, InitLiveInv, NextLive, PTL DEF Spec

=============================================================================
