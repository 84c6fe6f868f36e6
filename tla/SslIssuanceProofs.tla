------------------------- MODULE SslIssuanceProofs -------------------------
(***************************************************************************)
(* Theorems about SslIssuance, for every set of domains, workers and       *)
(* callers and every value of the limits.                                  *)
(*                                                                         *)
(* None of the safety properties is inductive as it stands.  IInv adds     *)
(* what links a worker, a handler and a certificate to the row they came   *)
(* from: the row keeps its name, its stamp is no older than the order, its *)
(* attempt count is below the limit while it is provisioning.              *)
(***************************************************************************)
EXTENDS SslIssuance, TLAPS

\* A row that was inserted has a name; a provisioning row is below the limit.
RowsSound ==
    \A i \in Ids :
        /\ rows[i].life # "unused" => rows[i].name \in Names
        /\ rows[i].status = "provisioning" => rows[i].attempts < MaxAttempts

UniqueNames ==
    \A i, j \in Ids : (Live(i) /\ Live(j) /\ rows[i].name = rows[j].name) => i = j

\* A worker in flight holds an id that was inserted under the name it orders
\* for, and the row's stamp is no older than its order.
WorkersSound ==
    \A w \in Workers : InFlight(w) =>
        /\ worker[w].id \in Ids
        /\ worker[w].name \in Names
        /\ worker[w].attempts < MaxAttempts
        /\ rows[worker[w].id].life # "unused"
        /\ rows[worker[w].id].name = worker[w].name
        /\ rows[worker[w].id].attempted => rows[worker[w].id].age <= worker[w].age

CallsSound ==
    \A c \in Callers : ~Idle(c) =>
        /\ call[c].id \in Ids
        /\ rows[call[c].id].life # "unused"

\* The foreign key of proxy_certificates.
OwnersSound ==
    \A n \in Names : certs[n].owner # NoId =>
        /\ Live(certs[n].owner)
        /\ rows[certs[n].owner].name = n

\* A certificate is stored before its row is marked active.
SavedBeforeMarked ==
    /\ \A w \in Workers : (worker[w].pc = "mark" /\ Live(worker[w].id))
                              => certs[worker[w].name].stored
    /\ \A c \in Callers : (call[c].op = "recording" /\ Live(call[c].id))
                              => certs[rows[call[c].id].name].stored

IInv ==
    /\ TypeOK
    /\ RowsSound
    /\ UniqueNames
    /\ WorkersSound
    /\ CallsSound
    /\ OwnersSound
    /\ ClaimHolds
    /\ OneOrderPerName
    /\ SavedBeforeMarked
    /\ ActiveHasCertificate

-----------------------------------------------------------------------------
(* The initial states *)

\* An empty database satisfies the inductive invariant.
LEMMA InitIInv == Init => IInv
  <1> SUFFICES ASSUME Init PROVE IInv
    OBVIOUS
  <1> USE IssuanceAssumption DEF Init
  <1>1. TypeOK
    <2>1. rows \in [Ids -> Row]
      BY DEF Row, FreshRow, SslProvider, SslStatus, Age
    <2>2. certs \in [Names -> Cert]
      BY DEF Cert, NoCert
    <2>3. worker \in [Workers -> Worker]
      BY DEF Worker, Resting, WorkerPC, Ordering
    <2>4. call \in [Callers -> Call]
      BY DEF Call, NoCall
    <2>5. QED
      BY <2>1, <2>2, <2>3, <2>4 DEF TypeOK
  <1>2. RowsSound /\ UniqueNames /\ ActiveHasCertificate
    BY DEF RowsSound, UniqueNames, ActiveHasCertificate, Live, FreshRow
  <1>3. \A w \in Workers : ~InFlight(w) /\ worker[w].pc # "mark"
    BY DEF InFlight, Ordering, Resting
  <1>4. \A c \in Callers : Idle(c) /\ call[c].op # "recording"
    BY DEF Idle, NoCall
  <1>5. WorkersSound /\ ClaimHolds /\ OneOrderPerName
    BY <1>3 DEF WorkersSound, ClaimHolds, OneOrderPerName
  <1>6. CallsSound /\ SavedBeforeMarked
    BY <1>3, <1>4 DEF CallsSound, SavedBeforeMarked
  <1>7. OwnersSound
    BY DEF OwnersSound, NoCert
  <1>8. QED
    BY <1>1, <1>2, <1>5, <1>6, <1>7 DEF IInv

-----------------------------------------------------------------------------
(* One lemma per action *)

\* A name that is not disturbed after the step, and for which an order runs
\* after the step, was neither disturbed before nor hit by the step.
LEMMA DisturbFact ==
    ASSUME NEW hit, Disturb(hit), NEW w \in Workers,
           worker'[w].pc \in Ordering, worker'[w].name \notin disturbed'
    PROVE  worker'[w].name \notin disturbed /\ worker'[w].name \notin hit
  BY DEF Disturb

\* The history variable stays a set of names.
LEMMA DisturbType ==
    ASSUME NEW hit, hit \subseteq Names, disturbed \subseteq Names, Disturb(hit)
    PROVE  disturbed' \subseteq Names
  BY DEF Disturb

\* The step keeps every row's life and name.
SameShape ==
    \A i \in Ids : rows'[i].life = rows[i].life /\ rows'[i].name = rows[i].name

\* What the invariant says of the types of the parts a step updates.
LEMMA ShapeFacts ==
    ASSUME IInv, SameShape
    PROVE  /\ \A i \in Ids : Live(i)' <=> Live(i)
           /\ UniqueNames'
           /\ UNCHANGED call => CallsSound'
           /\ UNCHANGED certs => OwnersSound'
  <1>1. \A i \in Ids : Live(i)' <=> Live(i)
    BY DEF SameShape, Live
  <1>2. UniqueNames'
    BY <1>1 DEF IInv, UniqueNames, SameShape
  <1>3. UNCHANGED call => CallsSound'
    BY DEF IInv, CallsSound, SameShape, Idle
  <1>4. UNCHANGED certs => OwnersSound'
    BY <1>1 DEF IInv, OwnersSound, SameShape, TypeOK, Cert
  <1>5. QED
    BY <1>1, <1>2, <1>3, <1>4

\* A worker the step left alone, and whose name is not disturbed after it, was
\* in flight with an undisturbed name before it.
LEMMA SameWorker ==
    ASSUME NEW hit, Disturb(hit), NEW v \in Workers, worker'[v] = worker[v],
           InFlight(v)', worker'[v].name \notin disturbed'
    PROVE  InFlight(v) /\ worker[v].name \notin disturbed /\ worker[v].name \notin hit
  BY DisturbFact DEF InFlight

\* The statements that rewrite statuses of many rows before a worker claims:
\* no row of a live order is touched, and none becomes provisioning or active.
LEMMA SweepIInv ==
    ASSUME IInv, NEW w \in Workers, ~InFlight(w), NEW pc \in {"renew", "claim"},
           worker' = [worker EXCEPT ![w].pc = pc],
           rows' \in [Ids -> Row], SameShape,
           \A i \in Ids : rows'[i].attempted = rows[i].attempted /\ rows'[i].age = rows[i].age,
           \A i \in Ids : rows'[i].status \in {"provisioning", "active"} => rows'[i] = rows[i],
           \A v \in Workers : (InFlight(v) /\ worker[v].name \notin disturbed)
                                 => rows'[worker[v].id] = rows[worker[v].id],
           Disturb({}), UNCHANGED <<certs, challenges, call>>
    PROVE  IInv'
  <1> USE DEF IInv
  <1>1. /\ worker' \in [Workers -> Worker]
        /\ \A v \in Workers : v # w => worker'[v] = worker[v]
        /\ worker'[w].pc = pc
    BY DEF TypeOK, Worker, WorkerPC
  <1>2. ~(InFlight(w)')
    BY <1>1 DEF InFlight, Ordering
  <1>3. \A v \in Workers : InFlight(v)' => InFlight(v) /\ worker'[v] = worker[v]
    BY <1>1, <1>2 DEF InFlight
  <1>4. TypeOK'
    BY <1>1, DisturbType DEF TypeOK
  <1>5. RowsSound'
    BY DEF RowsSound, SameShape
  <1>6. UniqueNames' /\ CallsSound' /\ OwnersSound' /\ \A i \in Ids : Live(i)' <=> Live(i)
    BY ShapeFacts
  <1>7. WorkersSound'
    BY <1>3 DEF WorkersSound, SameShape
  <1>8. ClaimHolds'
    <2> SUFFICES ASSUME NEW v \in Workers, InFlight(v)', worker'[v].name \notin disturbed'
                 PROVE  /\ rows'[worker'[v].id].life = "live"
                        /\ rows'[worker'[v].id].name = worker'[v].name
                        /\ rows'[worker'[v].id].status = "provisioning"
                        /\ rows'[worker'[v].id].attempts = worker'[v].attempts
      BY DEF ClaimHolds, Live
    <2>1. InFlight(v) /\ worker'[v] = worker[v] /\ worker[v].name \notin disturbed
      BY <1>3, SameWorker
    <2>2. worker[v].id \in Ids /\ rows'[worker[v].id] = rows[worker[v].id]
      BY <2>1 DEF WorkersSound
    <2>3. QED
      BY <2>1, <2>2 DEF ClaimHolds, Live
  <1>9. OneOrderPerName'
    BY <1>3, SameWorker DEF OneOrderPerName
  <1>10. SavedBeforeMarked'
    <2>1. \A v \in Workers : worker'[v].pc = "mark" => worker[v].pc = "mark" /\ InFlight(v) /\ worker'[v] = worker[v]
      BY <1>1, <1>2 DEF InFlight, Ordering
    <2>2. QED
      BY <2>1, <1>6 DEF SavedBeforeMarked, WorkersSound, CallsSound, Idle, SameShape
  <1>11. ActiveHasCertificate'
    BY <1>6 DEF ActiveHasCertificate
  <1>12. QED
    BY <1>4, <1>5, <1>6, <1>7, <1>8, <1>9, <1>10, <1>11

\* A live order is younger than STUCK_AFTER, so reclaim_abandoned does not match its row.
LEMMA NotAbandoned == IInv => LiveOrderNotAbandoned
  BY IssuanceAssumption
     DEF IInv, LiveOrderNotAbandoned, WorkersSound, Abandoned, TypeOK, Worker, Row, Age

\* reclaim_abandoned requeues only rows that no live order holds.
LEMMA ReclaimIInv ==
    ASSUME IInv, NEW w \in Workers, ReclaimAbandoned(w)
    PROVE  IInv'
  <1>1. \A i \in Ids : Abandoned(i) =>
            /\ rows[i] \in Row
            /\ rows[i].attempts + 1 \in 0..MaxAttempts
    BY IssuanceAssumption DEF IInv, TypeOK, Row, RowsSound, Abandoned
  <1>2. \A i \in Ids : /\ rows'[i] \in Row
                       /\ rows'[i].life = rows[i].life
                       /\ rows'[i].name = rows[i].name
                       /\ rows'[i].attempted = rows[i].attempted
                       /\ rows'[i].age = rows[i].age
                       /\ rows'[i].status \in {"provisioning", "active"} => rows'[i] = rows[i]
                       /\ ~Abandoned(i) => rows'[i] = rows[i]
    <2> SUFFICES ASSUME NEW i \in Ids
                 PROVE  /\ rows'[i] \in Row
                        /\ rows'[i].life = rows[i].life
                        /\ rows'[i].name = rows[i].name
                        /\ rows'[i].attempted = rows[i].attempted
                        /\ rows'[i].age = rows[i].age
                        /\ rows'[i].status \in {"provisioning", "active"} => rows'[i] = rows[i]
                        /\ ~Abandoned(i) => rows'[i] = rows[i]
      OBVIOUS
    <2>1. rows'[i] = IF Abandoned(i) THEN Requeued(i) ELSE rows[i]
      BY DEF ReclaimAbandoned
    <2>2. CASE ~Abandoned(i)
      BY <2>1, <2>2 DEF IInv, TypeOK
    <2>3. CASE Abandoned(i)
      <3>1. rows'[i] = [rows[i] EXCEPT !.status = "pending", !.attempts = rows[i].attempts + 1]
        BY <2>1, <2>3 DEF Requeued
      <3>2. QED
        BY <3>1, <2>3, <1>1 DEF Row, SslStatus
    <2>4. QED
      BY <2>2, <2>3
  <1>3. rows' \in [Ids -> Row]
    BY <1>2 DEF ReclaimAbandoned
  <1>4. \A v \in Workers : InFlight(v) => rows'[worker[v].id] = rows[worker[v].id]
    BY <1>2, NotAbandoned DEF LiveOrderNotAbandoned, IInv, WorkersSound
  <1>5. /\ ~InFlight(w) /\ worker' = [worker EXCEPT ![w].pc = "renew"]
        /\ Disturb({}) /\ UNCHANGED <<certs, challenges, call>>
    BY DEF ReclaimAbandoned, GoTo, InFlight, Ordering
  <1>6. SameShape
    BY <1>2 DEF SameShape
  <1>7. QED
    BY <1>2, <1>3, <1>4, <1>5, <1>6, SweepIInv

\* mark_renewals requeues only active rows, which no undisturbed order holds.
LEMMA RenewIInv ==
    ASSUME IInv, NEW w \in Workers, MarkRenewals(w)
    PROVE  IInv'
  <1>2. \A i \in Ids : /\ rows'[i] \in Row
                       /\ rows'[i].life = rows[i].life
                       /\ rows'[i].name = rows[i].name
                       /\ rows'[i].attempted = rows[i].attempted
                       /\ rows'[i].age = rows[i].age
                       /\ rows'[i].status \in {"provisioning", "active"} => rows'[i] = rows[i]
                       /\ rows[i].status = "provisioning" => rows'[i] = rows[i]
    <2> SUFFICES ASSUME NEW i \in Ids
                 PROVE  /\ rows'[i] \in Row
                        /\ rows'[i].life = rows[i].life
                        /\ rows'[i].name = rows[i].name
                        /\ rows'[i].attempted = rows[i].attempted
                        /\ rows'[i].age = rows[i].age
                        /\ rows'[i].status \in {"provisioning", "active"} => rows'[i] = rows[i]
                        /\ rows[i].status = "provisioning" => rows'[i] = rows[i]
      OBVIOUS
    <2>1. rows[i] \in Row /\ 0 \in 0..MaxAttempts
      BY IssuanceAssumption DEF IInv, TypeOK
    <2>2. CASE ~DueForRenewal(i)
      BY <2>1, <2>2 DEF MarkRenewals
    <2>3. CASE DueForRenewal(i)
      <3>1. rows'[i] = [rows[i] EXCEPT !.status = "pending", !.attempts = 0]
        BY <2>3 DEF MarkRenewals
      <3>2. rows[i].status # "provisioning"
        BY <2>3 DEF DueForRenewal
      <3>3. QED
        BY <3>1, <3>2, <2>1 DEF Row, SslStatus
    <2>4. QED
      BY <2>2, <2>3
  <1>3. rows' \in [Ids -> Row]
    BY <1>2 DEF MarkRenewals
  <1>4. \A v \in Workers : (InFlight(v) /\ worker[v].name \notin disturbed)
                              => rows'[worker[v].id] = rows[worker[v].id]
    BY <1>2 DEF ClaimHolds, IInv, WorkersSound
  <1>5. /\ ~InFlight(w) /\ worker' = [worker EXCEPT ![w].pc = "claim"]
        /\ Disturb({}) /\ UNCHANGED <<certs, challenges, call>>
    BY DEF MarkRenewals, GoTo, InFlight, Ordering
  <1>6. SameShape
    BY <1>2 DEF SameShape
  <1>7. QED
    BY <1>2, <1>3, <1>4, <1>5, <1>6, SweepIInv

\* Steps that start no order: an undisturbed order keeps its claim when the
\* step leaves its worker and its row alone, or hits its name.
LEMMA ClaimsFrame ==
    ASSUME IInv, NEW hit, Disturb(hit),
           \A v \in Workers : InFlight(v)' =>
                /\ InFlight(v)
                /\ worker'[v].id = worker[v].id
                /\ worker'[v].name = worker[v].name
                /\ worker'[v].attempts = worker[v].attempts,
           \A v \in Workers :
                (InFlight(v)' /\ worker[v].name \notin disturbed /\ worker[v].name \notin hit) =>
                    /\ rows'[worker[v].id].life = rows[worker[v].id].life
                    /\ rows'[worker[v].id].name = rows[worker[v].id].name
                    /\ rows'[worker[v].id].status = rows[worker[v].id].status
                    /\ rows'[worker[v].id].attempts = rows[worker[v].id].attempts
    PROVE  ClaimHolds' /\ OneOrderPerName'
  <1>1. \A v \in Workers : (InFlight(v)' /\ worker'[v].name \notin disturbed') =>
            worker[v].name \notin disturbed /\ worker[v].name \notin hit
    BY DisturbFact DEF InFlight
  <1>2. ClaimHolds'
    BY <1>1 DEF IInv, ClaimHolds, Live
  <1>3. OneOrderPerName'
    BY <1>1 DEF IInv, OneOrderPerName
  <1>4. QED
    BY <1>2, <1>3

\* Steps of one worker that touch no row, no certificate and no call.
LEMMA WorkerIInv ==
    ASSUME IInv, NEW w \in Workers, NEW q \in Worker,
           worker' = [worker EXCEPT ![w] = q],
           \/ q.pc \notin Ordering
           \/ /\ InFlight(w) /\ q.pc # "mark"
              /\ q.id = worker[w].id /\ q.name = worker[w].name
              /\ q.attempts = worker[w].attempts /\ q.age = worker[w].age,
           challenges' \subseteq Workers \X Names,
           UNCHANGED <<rows, certs, call>>, Disturb({})
    PROVE  IInv'
  <1>1. /\ worker' \in [Workers -> Worker]
        /\ worker'[w] = q
        /\ \A v \in Workers : v # w => worker'[v] = worker[v]
    BY DEF IInv, TypeOK
  <1>2. \A v \in Workers : InFlight(v)' =>
            /\ InFlight(v)
            /\ worker'[v].id = worker[v].id
            /\ worker'[v].name = worker[v].name
            /\ worker'[v].attempts = worker[v].attempts
            /\ worker'[v].age = worker[v].age
    BY <1>1 DEF InFlight
  <1>3. TypeOK'
    BY <1>1, DisturbType DEF IInv, TypeOK
  <1>4. RowsSound' /\ UniqueNames' /\ CallsSound' /\ OwnersSound' /\ ActiveHasCertificate'
    BY DEF IInv, RowsSound, UniqueNames, CallsSound, OwnersSound, ActiveHasCertificate, Live, Idle
  <1>5. WorkersSound'
    BY <1>2 DEF IInv, WorkersSound
  <1>6. ClaimHolds' /\ OneOrderPerName'
    BY <1>2, ClaimsFrame
  <1>7. SavedBeforeMarked'
    <2>1. \A v \in Workers : worker'[v].pc = "mark" => v # w /\ worker'[v] = worker[v]
      BY <1>1 DEF Ordering
    <2>2. QED
      BY <2>1 DEF IInv, SavedBeforeMarked, Live
  <1>8. QED
    BY <1>3, <1>4, <1>5, <1>6, <1>7 DEF IInv

\* A worker without a claim is well typed and holds no order.
LEMMA RestingType == \A pc \in {"sleep", "claim"} : Resting(pc) \in Worker /\ Resting(pc).pc \notin Ordering
  BY IssuanceAssumption DEF Resting, Worker, WorkerPC, Ordering

\* A pass that finds nothing, or is interrupted, gives up its claim.
LEMMA NothingIInv ==
    ASSUME IInv, NEW w \in Workers, NothingToClaim(w) \/ Interrupt(w)
    PROVE  IInv'
  <1>1. /\ worker' = [worker EXCEPT ![w] = Resting("sleep")]
        /\ UNCHANGED <<rows, certs, challenges, call>> /\ Disturb({})
    BY DEF NothingToClaim, Interrupt
  <1>2. challenges' \subseteq Workers \X Names
    BY <1>1 DEF IInv, TypeOK
  <1>3. QED
    BY <1>1, <1>2, RestingType, WorkerIInv

\* The steps of an order against the CA touch the challenges only.
LEMMA OrderIInv ==
    ASSUME IInv, NEW w \in Workers, PlaceOrder(w) \/ FinishOrder(w)
    PROVE  IInv'
  <1>1. InFlight(w) /\ worker[w].name \in Names /\ worker[w] \in Worker
    BY DEF PlaceOrder, FinishOrder, InFlight, Ordering, IInv, WorkersSound, TypeOK
  <1>2. \E pc \in {"validate", "issued", "failed"} :
            worker' = [worker EXCEPT ![w] = [worker[w] EXCEPT !.pc = pc]]
    BY DEF PlaceOrder, FinishOrder, GoTo
  <1>3. PICK pc \in {"validate", "issued", "failed"} :
            worker' = [worker EXCEPT ![w] = [worker[w] EXCEPT !.pc = pc]]
    BY <1>2
  <1>4. challenges' \subseteq Workers \X Names
    BY <1>1 DEF PlaceOrder, FinishOrder, ClearChallenges, IInv, TypeOK
  <1>5. UNCHANGED <<rows, certs, call>> /\ Disturb({})
    BY DEF PlaceOrder, FinishOrder
  <1> DEFINE q == [worker[w] EXCEPT !.pc = pc]
  <1>6. /\ q \in Worker /\ q.pc # "mark"
        /\ q.id = worker[w].id /\ q.name = worker[w].name
        /\ q.attempts = worker[w].attempts /\ q.age = worker[w].age
    BY <1>1 DEF Worker, WorkerPC, Ordering
  <1> HIDE DEF q
  <1>7. worker' = [worker EXCEPT ![w] = q]
    BY <1>3 DEF q
  <1>8. QED
    BY <1>1, <1>4, <1>5, <1>6, <1>7, WorkerIInv

\* claim_next takes a pending row, which no undisturbed order holds, and stamps it.
LEMMA ClaimIInv ==
    ASSUME IInv, NEW w \in Workers, NEW k \in Ids, ClaimNext(w, k)
    PROVE  IInv'
  <1>1. /\ Live(k) /\ rows[k] \in Row /\ rows[k].name \in Names
        /\ rows[k].status = "pending" /\ rows[k].attempts < MaxAttempts
    BY DEF ClaimNext, Claimable, IInv, TypeOK, RowsSound, Live
  <1>2. rows'[k] = [rows[k] EXCEPT !.status = "provisioning", !.attempted = TRUE, !.age = 0]
    BY DEF ClaimNext, IInv, TypeOK
  <1>0. 0 \in Age
    BY IssuanceAssumption DEF Age
  <1>3. /\ rows'[k] \in Row /\ rows'[k].status = "provisioning" /\ rows'[k].age = 0
        /\ rows'[k].life = rows[k].life /\ rows'[k].name = rows[k].name
        /\ rows'[k].attempts = rows[k].attempts
    BY <1>0, <1>1, <1>2 DEF Row, SslStatus
  <1>4. rows' \in [Ids -> Row] /\ \A i \in Ids : i # k => rows'[i] = rows[i]
    BY <1>3 DEF ClaimNext, IInv, TypeOK
  <1>5. SameShape
    BY <1>3, <1>4 DEF SameShape
  <1>6. worker' = [worker EXCEPT ![w] = [pc |-> "order", id |-> k, name |-> rows[k].name,
                                         attempts |-> rows[k].attempts, age |-> 0]]
    BY DEF ClaimNext
  <1>7. /\ worker' \in [Workers -> Worker]
        /\ \A v \in Workers : v # w => worker'[v] = worker[v]
        /\ worker'[w].pc = "order" /\ worker'[w].id = k /\ worker'[w].name = rows[k].name
        /\ worker'[w].attempts = rows[k].attempts /\ worker'[w].age = 0
    BY <1>1, <1>6, IssuanceAssumption DEF IInv, TypeOK, Worker, WorkerPC, Ordering, Row
  <1>8. Disturb({}) /\ UNCHANGED <<certs, challenges, call>>
    BY DEF ClaimNext
  <1>9. TypeOK'
    BY <1>4, <1>7, <1>8, DisturbType DEF IInv, TypeOK
  <1>10. RowsSound'
    BY <1>1, <1>3, <1>4 DEF IInv, RowsSound, Live
  <1>11. UniqueNames' /\ CallsSound' /\ OwnersSound' /\ \A i \in Ids : Live(i)' <=> Live(i)
    BY <1>5, <1>8, ShapeFacts
  <1>12. WorkersSound'
    <2> SUFFICES ASSUME NEW v \in Workers, InFlight(v)'
                 PROVE  /\ worker'[v].id \in Ids
                        /\ worker'[v].name \in Names
                        /\ worker'[v].attempts < MaxAttempts
                        /\ rows'[worker'[v].id].life # "unused"
                        /\ rows'[worker'[v].id].name = worker'[v].name
                        /\ rows'[worker'[v].id].attempted => rows'[worker'[v].id].age <= worker'[v].age
      BY DEF WorkersSound
    <2>1. CASE v = w
      BY <2>1, <1>1, <1>3, <1>7 DEF Live
    <2>2. CASE v # w
      <3>1. InFlight(v) /\ worker'[v] = worker[v] /\ worker[v].age \in Nat
        BY <2>2, <1>7, IssuanceAssumption DEF InFlight, IInv, TypeOK, Worker
      <3>2. CASE worker[v].id = k
        BY <3>1, <3>2, <1>3 DEF IInv, WorkersSound
      <3>3. CASE worker[v].id # k
        BY <3>1, <3>3, <1>4 DEF IInv, WorkersSound
      <3>4. QED
        BY <3>2, <3>3
    <2>3. QED
      BY <2>1, <2>2
  <1>13. \A v \in Workers : (v # w /\ InFlight(v)' /\ worker'[v].name \notin disturbed') =>
            /\ InFlight(v) /\ worker[v].name \notin disturbed
            /\ worker[v].name # rows[k].name /\ worker[v].id \in Ids /\ worker[v].id # k
    <2> SUFFICES ASSUME NEW v \in Workers, v # w, InFlight(v)', worker'[v].name \notin disturbed'
                 PROVE  /\ InFlight(v) /\ worker[v].name \notin disturbed
                        /\ worker[v].name # rows[k].name /\ worker[v].id \in Ids /\ worker[v].id # k
      OBVIOUS
    <2>1. InFlight(v) /\ worker[v].name \notin disturbed
      BY <1>7, <1>8, SameWorker
    <2>2. /\ worker[v].id \in Ids /\ Live(worker[v].id)
          /\ rows[worker[v].id].name = worker[v].name
          /\ rows[worker[v].id].status = "provisioning"
      BY <2>1 DEF IInv, ClaimHolds, WorkersSound
    <2>3. QED
      BY <2>1, <2>2, <1>1 DEF IInv, UniqueNames
  <1>14. ClaimHolds'
    <2> SUFFICES ASSUME NEW v \in Workers, InFlight(v)', worker'[v].name \notin disturbed'
                 PROVE  /\ rows'[worker'[v].id].life = "live"
                        /\ rows'[worker'[v].id].name = worker'[v].name
                        /\ rows'[worker'[v].id].status = "provisioning"
                        /\ rows'[worker'[v].id].attempts = worker'[v].attempts
      BY DEF ClaimHolds, Live
    <2>1. CASE v = w
      BY <2>1, <1>1, <1>3, <1>7 DEF Live
    <2>2. CASE v # w
      BY <2>2, <1>4, <1>7, <1>13 DEF IInv, ClaimHolds, Live
    <2>3. QED
      BY <2>1, <2>2
  <1>15. OneOrderPerName'
    <2> SUFFICES ASSUME NEW u \in Workers, NEW v \in Workers, InFlight(u)', InFlight(v)',
                        worker'[u].name = worker'[v].name, worker'[u].name \notin disturbed',
                        u # v
                 PROVE  FALSE
      BY DEF OneOrderPerName
    <2>1. CASE u # w /\ v # w
      BY <2>1, <1>7, <1>13 DEF IInv, OneOrderPerName
    <2>2. CASE u = w \/ v = w
      BY <2>2, <1>7, <1>13
    <2>3. QED
      BY <2>1, <2>2
  <1>16. SavedBeforeMarked'
    BY <1>5, <1>7, <1>8, <1>11 DEF IInv, SavedBeforeMarked, WorkersSound, CallsSound, Idle, InFlight, Ordering, SameShape
  <1>17. ActiveHasCertificate'
    BY <1>3, <1>4, <1>8, <1>11 DEF IInv, ActiveHasCertificate
  <1>18. QED
    BY <1>9, <1>10, <1>11, <1>12, <1>14, <1>15, <1>16, <1>17 DEF IInv

\* Statements that rewrite one row and leave it its life and its name.  Either
\* the row's name is hit, or its claim is not touched, or no undisturbed order
\* is left that holds it.
LEMMA RowIInv ==
    ASSUME IInv, NEW k \in Ids, NEW r \in Row, rows' = [rows EXCEPT ![k] = r],
           r.life = rows[k].life, r.name = rows[k].name,
           r.attempted => rows[k].attempted /\ r.age = rows[k].age,
           r.status = "provisioning" =>
               rows[k].status = "provisioning" /\ r.attempts = rows[k].attempts,
           (r.status = "active" /\ Live(k)) => certs'[rows[k].name].stored,
           worker' \in [Workers -> Worker],
           \A v \in Workers : InFlight(v)' => InFlight(v) /\ worker'[v] = worker[v],
           NEW hit, hit \subseteq Names, Disturb(hit),
           \/ rows[k].name \in hit
           \/ r.status = rows[k].status /\ r.attempts = rows[k].attempts
           \/ \A v \in Workers : (InFlight(v)' /\ worker[v].name \notin disturbed)
                                     => worker[v].id # k,
           call' \in [Callers -> Call],
           \A c \in Callers : Idle(c)' \/ (~Idle(c) /\ call'[c].id = call[c].id
                                         /\ (call'[c].op = "recording" => call[c].op = "recording")),
           certs' \in [Names -> Cert],
           \A n \in Names : certs[n].stored => certs'[n].stored,
           \A n \in Names : \/ certs'[n].owner = certs[n].owner
                            \/ certs'[n].owner = k /\ Live(k) /\ rows[k].name = n,
           UNCHANGED challenges
    PROVE  IInv'
  <1>1. /\ rows' \in [Ids -> Row]
        /\ rows'[k] = r
        /\ \A i \in Ids : i # k => rows'[i] = rows[i]
    BY DEF IInv, TypeOK
  <1>2. SameShape
    BY <1>1 DEF SameShape
  <1>3. UniqueNames' /\ \A i \in Ids : Live(i)' <=> Live(i)
    BY <1>2, ShapeFacts
  <1>4. TypeOK'
    BY <1>1, DisturbType DEF IInv, TypeOK
  <1>5. RowsSound'
    BY <1>1 DEF IInv, RowsSound
  <1>6. WorkersSound'
    <2> SUFFICES ASSUME NEW v \in Workers, InFlight(v)'
                 PROVE  /\ worker'[v].id \in Ids
                        /\ worker'[v].name \in Names
                        /\ worker'[v].attempts < MaxAttempts
                        /\ rows'[worker'[v].id].life # "unused"
                        /\ rows'[worker'[v].id].name = worker'[v].name
                        /\ rows'[worker'[v].id].attempted => rows'[worker'[v].id].age <= worker'[v].age
      BY DEF WorkersSound
    <2>1. CASE worker[v].id = k
      BY <2>1, <1>1 DEF IInv, WorkersSound
    <2>2. CASE worker[v].id # k
      BY <2>2, <1>1 DEF IInv, WorkersSound
    <2>3. QED
      BY <2>1, <2>2
  <1>7. CallsSound'
    BY <1>2 DEF IInv, CallsSound, Idle, SameShape
  <1>8. OwnersSound'
    BY <1>2, <1>3, IssuanceAssumption DEF IInv, OwnersSound, SameShape, TypeOK, Cert
  <1>9. ClaimHolds' /\ OneOrderPerName'
    <2>1. \A v \in Workers : InFlight(v)' => worker[v].id \in Ids /\ rows[worker[v].id].name = worker[v].name
      BY DEF IInv, WorkersSound
    <2>2. \A v \in Workers :
                (InFlight(v)' /\ worker[v].name \notin disturbed /\ worker[v].name \notin hit) =>
                    /\ rows'[worker[v].id].life = rows[worker[v].id].life
                    /\ rows'[worker[v].id].name = rows[worker[v].id].name
                    /\ rows'[worker[v].id].status = rows[worker[v].id].status
                    /\ rows'[worker[v].id].attempts = rows[worker[v].id].attempts
      BY <2>1, <1>1
    <2>3. QED
      BY <2>2, ClaimsFrame
  <1>10. SavedBeforeMarked'
    <2>1. \A v \in Workers : worker'[v].pc = "mark" =>
              /\ InFlight(v) /\ worker'[v] = worker[v] /\ worker[v].id \in Ids /\ worker[v].name \in Names
      BY DEF InFlight, Ordering, IInv, WorkersSound
    <2>2. \A c \in Callers : call'[c].op = "recording" =>
              /\ call[c].op = "recording" /\ call'[c].id = call[c].id
              /\ call[c].id \in Ids /\ rows[call[c].id].name \in Names
      BY DEF Idle, IInv, CallsSound, RowsSound
    <2>3. QED
      BY <2>1, <2>2, <1>2, <1>3 DEF IInv, SavedBeforeMarked, SameShape
  <1>11. ActiveHasCertificate'
    <2> SUFFICES ASSUME NEW i \in Ids, Live(i), rows'[i].status = "active"
                 PROVE  certs'[rows'[i].name].stored
      BY <1>3 DEF ActiveHasCertificate
    <2>1. rows[i].name \in Names /\ rows'[i].name = rows[i].name
      BY <1>2 DEF SameShape, IInv, RowsSound, Live
    <2>2. QED
      BY <2>1, <1>1 DEF IInv, ActiveHasCertificate
  <1>12. QED
    BY <1>3, <1>4, <1>5, <1>6, <1>7, <1>8, <1>9, <1>10, <1>11 DEF IInv

\* mark_active and mark_failed write the row of the order they end.
LEMMA MarkIInv ==
    ASSUME IInv, NEW w \in Workers, MarkActive(w) \/ MarkFailed(w)
    PROVE  IInv'
  <1> DEFINE k == worker[w].id
  <1>1. /\ InFlight(w) /\ k \in Ids /\ worker[w].name \in Names
        /\ worker[w].attempts + 1 \in 0..MaxAttempts
        /\ rows[k] \in Row /\ rows[k].name = worker[w].name /\ 0 \in 0..MaxAttempts
    BY IssuanceAssumption
       DEF MarkActive, MarkFailed, InFlight, Ordering, IInv, WorkersSound, TypeOK, Worker
  <1>2. /\ worker' = [worker EXCEPT ![w] = Resting("claim")]
        /\ UNCHANGED <<certs, challenges, call>> /\ Disturb({})
    BY DEF MarkActive, MarkFailed
  <1>3. /\ worker' \in [Workers -> Worker]
        /\ ~(InFlight(w)')
        /\ \A v \in Workers : v # w => worker'[v] = worker[v]
    BY <1>2, RestingType DEF IInv, TypeOK, InFlight
  <1>4. \A v \in Workers : InFlight(v)' => v # w /\ InFlight(v) /\ worker'[v] = worker[v]
    BY <1>3 DEF InFlight
  <1>5. \A v \in Workers : (InFlight(v)' /\ worker[v].name \notin disturbed) => worker[v].id # k
    BY <1>1, <1>4 DEF IInv, OneOrderPerName, WorkersSound
  <1>6. CASE ~Live(k)
    <2>1. UNCHANGED rows
      BY <1>6 DEF MarkActive, MarkFailed
    <2>2. challenges' \subseteq Workers \X Names
      BY <1>2 DEF IInv, TypeOK
    <2>3. QED
      BY <1>2, <2>1, <2>2, RestingType, WorkerIInv
  <1>7. CASE Live(k)
    <2>1. PICK s \in {"active", "failed", "pending"}, a \in 0..MaxAttempts :
              /\ rows' = [rows EXCEPT ![k] = [rows[k] EXCEPT !.status = s, !.attempts = a]]
              /\ s = "active" => worker[w].pc = "mark"
      <3>1. CASE MarkActive(w)
        BY <3>1, <1>1, <1>7 DEF MarkActive
      <3>2. CASE MarkFailed(w)
        BY <3>2, <1>1, <1>7 DEF MarkFailed
      <3>3. QED
        BY <3>1, <3>2
    <2> DEFINE r == [rows[k] EXCEPT !.status = s, !.attempts = a]
    <2>2. /\ r \in Row /\ r.life = rows[k].life /\ r.name = rows[k].name
          /\ r.attempted = rows[k].attempted /\ r.age = rows[k].age /\ r.status = s
      BY <1>1 DEF Row, SslStatus
    <2> HIDE DEF r
    <2>3. rows' = [rows EXCEPT ![k] = r]
      BY <2>1 DEF r
    <2>4. s = "active" => certs'[rows[k].name].stored
      BY <1>1, <1>2, <1>7, <2>1 DEF IInv, SavedBeforeMarked
    <2>5. /\ certs' \in [Names -> Cert] /\ call' \in [Callers -> Call]
          /\ \A n \in Names : certs'[n] = certs[n]
          /\ \A c \in Callers : call'[c] = call[c] /\ (Idle(c)' <=> Idle(c))
      BY <1>2 DEF IInv, TypeOK, Idle
    <2> HIDE DEF k
    <2>6. QED
      BY <1>1, <1>2, <1>3, <1>4, <1>5, <2>2, <2>3, <2>4, <2>5, RowIInv, ZenonT(120)
  <1>8. QED
    BY <1>6, <1>7

\* A statement of the API that rewrites the live row k, hitting its name unless
\* the status and the attempts stay.  Of the calls, at most one ends or moves on.
LEMMA ApiRowIInv ==
    ASSUME IInv, NEW k \in Ids, Live(k), NEW r \in Row, rows' = [rows EXCEPT ![k] = r],
           r.life = rows[k].life, r.name = rows[k].name,
           r.attempted => rows[k].attempted /\ r.age = rows[k].age,
           NEW hit, hit \subseteq {rows[k].name}, Disturb(hit),
           r.status = "pending" \/ r.status = rows[k].status,
           hit = {} => r.status = rows[k].status /\ r.attempts = rows[k].attempts,
           r.status = "provisioning" => r.attempts = rows[k].attempts,
           call' \in [Callers -> Call],
           \A c \in Callers : Idle(c)' \/ (~Idle(c) /\ call'[c].id = call[c].id
                                         /\ call'[c].op # "recording")
                            \/ call'[c] = call[c],
           UNCHANGED <<certs, challenges, worker>>
    PROVE  IInv'
  <1>1. rows[k].name \in Names
    BY DEF IInv, RowsSound, Live
  <1>2. /\ certs' \in [Names -> Cert] /\ worker' \in [Workers -> Worker]
        /\ \A n \in Names : certs'[n] = certs[n]
        /\ \A v \in Workers : InFlight(v)' => InFlight(v) /\ worker'[v] = worker[v]
    BY DEF IInv, TypeOK, InFlight
  <1>3. r.status = "active" => certs'[rows[k].name].stored
    BY DEF IInv, ActiveHasCertificate
  <1>4. \A c \in Callers : Idle(c)' \/ (~Idle(c) /\ call'[c].id = call[c].id
                                       /\ (call'[c].op = "recording" => call[c].op = "recording"))
    BY DEF Idle
  <1>5. hit \subseteq Names /\ (rows[k].name \in hit \/ (r.status = rows[k].status /\ r.attempts = rows[k].attempts))
    BY <1>1
  <1>6. QED
    BY <1>2, <1>3, <1>4, <1>5, RowIInv, ZenonT(60)

\* A statement that finds no live row, or a call that only reads: nothing but
\* the callers' own state changes.
LEMMA CallIInv ==
    ASSUME IInv, UNCHANGED <<rows, certs, challenges, worker>>, Disturb({}),
           call' \in [Callers -> Call],
           \A c \in Callers :
               \/ Idle(c)'
               \/ call'[c] = call[c]
               \/ /\ call'[c].id \in Ids /\ rows[call'[c].id].life # "unused"
                  /\ call'[c].op # "recording"
    PROVE  IInv'
  <1>1. TypeOK'
    BY DisturbType DEF IInv, TypeOK
  <1>2. RowsSound' /\ UniqueNames' /\ OwnersSound' /\ ActiveHasCertificate' /\ WorkersSound'
    BY DEF IInv, RowsSound, UniqueNames, OwnersSound, ActiveHasCertificate, WorkersSound, Live, InFlight
  <1>3. ClaimHolds' /\ OneOrderPerName'
    <2>1. \A v \in Workers : InFlight(v)' <=> InFlight(v)
      BY DEF InFlight
    <2>2. QED
      BY <2>1, ClaimsFrame
  <1>4. CallsSound'
    BY DEF IInv, CallsSound, Idle
  <1>5. SavedBeforeMarked'
    BY DEF IInv, SavedBeforeMarked, Idle, Live
  <1>6. QED
    BY <1>1, <1>2, <1>3, <1>4, <1>5 DEF IInv

\* verify_domain and upload_certificate start by reading.
LEMMA ReadIInv ==
    ASSUME IInv, NEW c \in Callers, NEW k \in Ids,
           VerifyDomain(c, k) \/ UploadCertificate(c, k)
    PROVE  IInv'
  <1>1. PICK q \in Call : call' = [call EXCEPT ![c] = q] /\ q.id = k /\ q.op # "recording"
    <2> DEFINE verify == [op |-> "checking", id |-> k, acme |-> rows[k].provider = "acme"]
               upload == [op |-> "saving", id |-> k, acme |-> FALSE]
    <2>a. verify \in Call /\ verify.id = k /\ verify.op # "recording"
      BY DEF Call
    <2>b. upload \in Call /\ upload.id = k /\ upload.op # "recording"
      BY DEF Call
    <2>1. CASE VerifyDomain(c, k)
      <3>1. call' = [call EXCEPT ![c] = verify]
        BY <2>1 DEF VerifyDomain
      <3> HIDE DEF verify
      <3>2. QED
        BY <3>1, <2>a
    <2>2. CASE UploadCertificate(c, k)
      <3>1. call' = [call EXCEPT ![c] = upload]
        BY <2>2 DEF UploadCertificate
      <3> HIDE DEF upload
      <3>2. QED
        BY <3>1, <2>b
    <2>3. QED
      BY <2>1, <2>2
  <1>2. /\ rows[k].life # "unused"
        /\ UNCHANGED <<rows, certs, challenges, worker>> /\ Disturb({})
    BY DEF VerifyDomain, UploadCertificate, Live
  <1>3. /\ call' \in [Callers -> Call] /\ call'[c] = q
        /\ \A d \in Callers : d # c => call'[d] = call[d]
    BY <1>1 DEF IInv, TypeOK
  <1>4. QED
    BY <1>1, <1>2, <1>3, CallIInv

\* A call cut off leaves the rows as they are.
LEMMA AbandonIInv ==
    ASSUME IInv, NEW c \in Callers, AbandonCall(c)
    PROVE  IInv'
  <1>1. /\ call' \in [Callers -> Call] /\ Idle(c)'
        /\ \A d \in Callers : d # c => call'[d] = call[d]
    BY DEF AbandonCall, IInv, TypeOK, NoCall, Call, Idle
  <1>2. UNCHANGED <<rows, certs, challenges, worker>> /\ Disturb({})
    BY DEF AbandonCall
  <1>3. QED
    BY <1>1, <1>2, CallIInv

\* The two writes of verify_domain: the result of the check, and the queueing.
LEMMA VerifyIInv ==
    ASSUME IInv, NEW c \in Callers, RecordVerified(c) \/ QueueVerified(c)
    PROVE  IInv'
  <1> DEFINE k == call[c].id
  <1>1. k \in Ids /\ rows[k].life # "unused" /\ ~Idle(c) /\ call[c] \in Call
    BY DEF RecordVerified, QueueVerified, IInv, CallsSound, Idle, TypeOK
  <1>2. /\ call' \in [Callers -> Call]
        /\ Idle(c)' \/ (call'[c].id = k /\ call'[c].op = "queueing")
        /\ \A d \in Callers : d # c => call'[d] = call[d]
    <2>1. NoCall \in Call /\ NoCall.op = "none" /\ [call[c] EXCEPT !.op = "queueing"] \in Call
      BY <1>1 DEF NoCall, Call
    <2>2. PICK q \in {NoCall, [call[c] EXCEPT !.op = "queueing"]} : call' = [call EXCEPT ![c] = q]
      BY DEF RecordVerified, QueueVerified
    <2>3. call'[c] = q /\ q \in Call
      BY <2>1, <2>2 DEF IInv, TypeOK
    <2>4. q.op = "none" \/ (q.id = k /\ q.op = "queueing")
      BY <2>1, <2>2, <1>1 DEF Call
    <2>5. QED
      BY <2>2, <2>3, <2>4 DEF IInv, TypeOK, Idle
  <1>3. UNCHANGED <<certs, challenges, worker>>
    BY DEF RecordVerified, QueueVerified
  <1>4. CASE ~Live(k)
    <2>1. UNCHANGED rows /\ Disturb({})
      BY <1>4 DEF RecordVerified, QueueVerified
    <2>2. QED
      BY <2>1, <1>1, <1>2, <1>3, CallIInv
  <1>5. CASE Live(k)
    <2>0. rows[k] \in Row
      BY <1>1 DEF IInv, TypeOK
    <2>1. CASE RecordVerified(c)
      <3> DEFINE r == [rows[k] EXCEPT !.verified = TRUE]
      <3>1. rows' = [rows EXCEPT ![k] = r] /\ Disturb({})
        BY <2>1, <1>5 DEF RecordVerified
      <3>2. /\ r \in Row /\ r.life = rows[k].life /\ r.name = rows[k].name
            /\ r.attempted = rows[k].attempted /\ r.age = rows[k].age
            /\ r.status = rows[k].status /\ r.attempts = rows[k].attempts
        BY <2>0 DEF Row
      <3> HIDE DEF r, k
      <3>3. QED
        BY <3>1, <3>2, <1>1, <1>2, <1>3, <1>5, ApiRowIInv DEF k
    <2>2. CASE QueueVerified(c)
      <3> DEFINE r == [rows[k] EXCEPT !.status = "pending"]
      <3>1. rows' = [rows EXCEPT ![k] = r] /\ Disturb({rows[k].name})
        BY <2>2, <1>5 DEF QueueVerified
      <3>2. /\ r \in Row /\ r.life = rows[k].life /\ r.name = rows[k].name
            /\ r.attempted = rows[k].attempted /\ r.age = rows[k].age
            /\ r.status = "pending"
        BY <2>0 DEF Row, SslStatus
      <3> HIDE DEF r, k
      <3>3. QED
        BY <3>1, <3>2, <1>1, <1>2, <1>3, <1>5, ApiRowIInv DEF k
    <2>3. QED
      BY <2>1, <2>2
  <1>6. QED
    BY <1>4, <1>5

\* What queue_for_issuance makes of a row.
LEMMA QueuedFacts ==
    ASSUME NEW q \in Row
    PROVE  /\ Queued(q) \in Row
           /\ Queued(q).life = q.life /\ Queued(q).name = q.name
           /\ Queued(q).status = "pending" /\ Queued(q).attempted = FALSE
  <1>1. 0 \in Age /\ 0 \in 0..MaxAttempts
    BY IssuanceAssumption DEF Age
  <1>2. QED
    BY <1>1 DEF Queued, Row, SslStatus

\* queue_for_issuance takes the row from whatever order holds it, which counts as a disturbance.
LEMMA QueueIInv ==
    ASSUME IInv, NEW k \in Ids, QueueForIssuance(k)
    PROVE  IInv'
  <1>1. /\ rows[k] \in Row /\ Live(k) /\ UNCHANGED <<certs, challenges, worker, call>>
        /\ rows' = [rows EXCEPT ![k] = Queued(rows[k])] /\ Disturb({rows[k].name})
        /\ call' \in [Callers -> Call]
    BY DEF QueueForIssuance, IInv, TypeOK
  <1> DEFINE r == Queued(rows[k])
  <1>2. /\ r \in Row /\ r.life = rows[k].life /\ r.name = rows[k].name
        /\ r.status = "pending" /\ ~r.attempted
    BY <1>1, QueuedFacts
  <1>3. rows' = [rows EXCEPT ![k] = r]
    BY <1>1
  <1>4. \A c \in Callers : call'[c] = call[c]
    BY <1>1
  <1> HIDE DEF r
  <1>5. QED
    BY <1>1, <1>2, <1>3, <1>4, ApiRowIInv

\* update_domain may requeue the row or take it out of ACME.
LEMMA UpdateIInv ==
    ASSUME IInv, NEW k \in Ids, NEW p \in SslProvider, UpdateDomain(k, p)
    PROVE  IInv'
  <1> DEFINE m == [rows[k] EXCEPT !.provider = p]
  <1>1. /\ rows[k] \in Row /\ Live(k) /\ UNCHANGED <<certs, challenges, worker, call>>
        /\ call' \in [Callers -> Call]
    BY DEF UpdateDomain, IInv, TypeOK
  <1>2. /\ m \in Row /\ m.life = rows[k].life /\ m.name = rows[k].name
        /\ m.attempted = rows[k].attempted /\ m.age = rows[k].age
        /\ m.status = rows[k].status /\ m.attempts = rows[k].attempts
    BY <1>1 DEF Row
  <1>3. \/ rows' = [rows EXCEPT ![k] = m] /\ Disturb({})
        \/ rows' = [rows EXCEPT ![k] = Queued(m)] /\ Disturb({rows[k].name})
    BY DEF UpdateDomain
  <1> HIDE DEF m
  <1>4. \A c \in Callers : call'[c] = call[c]
    BY <1>1
  <1>5. CASE rows' = [rows EXCEPT ![k] = m] /\ Disturb({})
    BY <1>1, <1>2, <1>4, <1>5, ApiRowIInv
  <1>6. CASE rows' = [rows EXCEPT ![k] = Queued(m)] /\ Disturb({rows[k].name})
    <2> DEFINE r == Queued(m)
    <2>1. /\ r \in Row /\ r.life = rows[k].life /\ r.name = rows[k].name
          /\ r.status = "pending" /\ ~r.attempted
      BY <1>2, QueuedFacts
    <2>2. rows' = [rows EXCEPT ![k] = r]
      BY <1>6
    <2> HIDE DEF r
    <2>3. QED
      BY <1>1, <1>4, <1>6, <2>1, <2>2, ApiRowIInv
  <1>7. QED
    BY <1>3, <1>5, <1>6

\* Steps that write the certificate of one name, and move on the worker or the
\* call that wrote it.
LEMMA CertIInv ==
    ASSUME IInv, NEW n \in Names, NEW q \in Cert, certs' = [certs EXCEPT ![n] = q],
           q.stored, q.owner = certs[n].owner \/ q.owner = NoId,
           worker' \in [Workers -> Worker], call' \in [Callers -> Call],
           \A v \in Workers : InFlight(v)' =>
                /\ InFlight(v)
                /\ worker'[v].id = worker[v].id
                /\ worker'[v].name = worker[v].name
                /\ worker'[v].attempts = worker[v].attempts
                /\ worker'[v].age = worker[v].age
                /\ worker'[v].pc = "mark" => worker[v].pc = "mark" \/ worker[v].name = n,
           \A c \in Callers : \/ call'[c] = call[c]
                              \/ /\ ~Idle(c) /\ call'[c].id = call[c].id
                                 /\ rows[call[c].id].name = n,
           UNCHANGED <<rows, challenges>>, Disturb({})
    PROVE  IInv'
  <1>1. /\ certs' \in [Names -> Cert] /\ certs'[n] = q
        /\ \A m \in Names : m # n => certs'[m] = certs[m]
    BY DEF IInv, TypeOK
  <1>2. \A m \in Names : certs[m].stored => certs'[m].stored
    BY <1>1
  <1>3. TypeOK'
    BY <1>1, DisturbType DEF IInv, TypeOK
  <1>4. RowsSound' /\ UniqueNames'
    BY DEF IInv, RowsSound, UniqueNames, Live
  <1>5. WorkersSound'
    BY DEF IInv, WorkersSound
  <1>6. CallsSound'
    BY DEF IInv, CallsSound, Idle
  <1>7. OwnersSound'
    BY <1>1 DEF IInv, OwnersSound, Live
  <1>8. ClaimHolds' /\ OneOrderPerName'
    BY ClaimsFrame
  <1>9. SavedBeforeMarked'
    <2>1. ASSUME NEW v \in Workers, worker'[v].pc = "mark", rows[worker'[v].id].life = "live"
          PROVE  certs'[worker'[v].name].stored
      <3>1. InFlight(v)'
        BY <2>1 DEF InFlight, Ordering
      <3>2. QED
        BY <2>1, <3>1, <1>1, <1>2 DEF IInv, SavedBeforeMarked, WorkersSound, Live
    <2>2. ASSUME NEW c \in Callers, call'[c].op = "recording", rows[call'[c].id].life = "live"
          PROVE  certs'[rows[call'[c].id].name].stored
      <3>1. ~Idle(c) /\ call'[c].id = call[c].id
        BY <2>2 DEF Idle
      <3>2. call[c].id \in Ids /\ rows[call[c].id].name \in Names
        BY <3>1 DEF IInv, CallsSound, RowsSound
      <3>3. QED
        BY <2>2, <3>1, <3>2, <1>1, <1>2 DEF IInv, SavedBeforeMarked, Live
    <2>3. QED
      BY <2>1, <2>2 DEF SavedBeforeMarked, Live
  <1>10. ActiveHasCertificate'
    BY <1>2 DEF IInv, ActiveHasCertificate, RowsSound, Live
  <1>11. QED
    BY <1>3, <1>4, <1>5, <1>6, <1>7, <1>8, <1>9, <1>10 DEF IInv

\* What the upsert of save_to_database makes of a certificate row.
LEMMA SavedCertFacts ==
    ASSUME IInv, NEW n \in Names, NEW due \in BOOLEAN
    PROVE  /\ SavedCert(n, due) \in Cert
           /\ SavedCert(n, due).stored
           /\ SavedCert(n, due).owner \in {certs[n].owner, NoId}
  <1>1. certs[n] \in Cert
    BY DEF IInv, TypeOK
  <1>2. CASE certs[n].stored
    BY <1>1, <1>2 DEF SavedCert, Cert
  <1>3. CASE ~certs[n].stored
    BY <1>3 DEF SavedCert, Cert
  <1>4. QED
    BY <1>2, <1>3

\* An order that saved its certificate may mark its domain active.
LEMMA SaveIInv ==
    ASSUME IInv, NEW w \in Workers, SaveCertificate(w)
    PROVE  IInv'
  <1> DEFINE n == worker[w].name
  <1>1. InFlight(w) /\ n \in Names /\ worker[w] \in Worker
    BY DEF SaveCertificate, InFlight, Ordering, IInv, WorkersSound, TypeOK
  <1>2. PICK pc \in {"mark", "failed"} :
            /\ worker' = [worker EXCEPT ![w] = [worker[w] EXCEPT !.pc = pc]]
            /\ \/ certs' = [certs EXCEPT ![n] = SavedCert(n, FALSE)]
               \/ UNCHANGED certs /\ pc = "failed"
    BY DEF SaveCertificate, GoTo
  <1>3. UNCHANGED <<rows, challenges, call>> /\ Disturb({}) /\ challenges' \subseteq Workers \X Names
        /\ call' \in [Callers -> Call]
    BY DEF SaveCertificate, IInv, TypeOK
  <1> DEFINE q == [worker[w] EXCEPT !.pc = pc]
  <1>4. /\ q \in Worker /\ q.pc = pc
        /\ q.id = worker[w].id /\ q.name = worker[w].name
        /\ q.attempts = worker[w].attempts /\ q.age = worker[w].age
    BY <1>1 DEF Worker, WorkerPC, Ordering
  <1> HIDE DEF q
  <1>5. worker' = [worker EXCEPT ![w] = q]
    BY <1>2 DEF q
  <1>6. CASE UNCHANGED certs /\ pc = "failed"
    BY <1>1, <1>3, <1>4, <1>5, <1>6, WorkerIInv
  <1>7. CASE certs' = [certs EXCEPT ![n] = SavedCert(n, FALSE)]
    <2>1. /\ worker' \in [Workers -> Worker] /\ worker'[w] = q
          /\ \A v \in Workers : v # w => worker'[v] = worker[v]
      BY <1>4, <1>5 DEF IInv, TypeOK
    <2>2. \A v \in Workers : InFlight(v)' =>
                /\ InFlight(v)
                /\ worker'[v].id = worker[v].id
                /\ worker'[v].name = worker[v].name
                /\ worker'[v].attempts = worker[v].attempts
                /\ worker'[v].age = worker[v].age
                /\ worker'[v].pc = "mark" => worker[v].pc = "mark" \/ worker[v].name = n
      BY <2>1, <1>1, <1>4 DEF InFlight
    <2>3. \A c \in Callers : call'[c] = call[c]
      BY <1>3
    <2> HIDE DEF n
    <2>4. QED
      BY <1>1, <1>3, <1>7, <2>1, <2>2, <2>3, SavedCertFacts, CertIInv
  <1>8. QED
    BY <1>2, <1>6, <1>7

\* An upload that saved its certificate may record it.
LEMMA SaveUploadedIInv ==
    ASSUME IInv, NEW c \in Callers, SaveUploaded(c)
    PROVE  IInv'
  <1> DEFINE n == rows[call[c].id].name
  <1>1. ~Idle(c) /\ call[c].id \in Ids /\ n \in Names /\ call[c] \in Call
    BY DEF SaveUploaded, Idle, IInv, CallsSound, RowsSound, TypeOK
  <1>2. PICK due \in BOOLEAN : certs' = [certs EXCEPT ![n] = SavedCert(n, due)]
    BY DEF SaveUploaded
  <1>3. UNCHANGED <<rows, challenges, worker>> /\ Disturb({}) /\ worker' \in [Workers -> Worker]
    BY DEF SaveUploaded, IInv, TypeOK
  <1>4. /\ call' \in [Callers -> Call] /\ call'[c].id = call[c].id
        /\ \A d \in Callers : d # c => call'[d] = call[d]
    BY <1>1 DEF SaveUploaded, IInv, TypeOK, Call
  <1>5. \A v \in Workers : (InFlight(v)' <=> InFlight(v)) /\ worker'[v] = worker[v]
    BY <1>3 DEF InFlight
  <1>6. \A d \in Callers : \/ call'[d] = call[d]
                           \/ ~Idle(d) /\ call'[d].id = call[d].id /\ rows[call[d].id].name = n
    BY <1>1, <1>4
  <1> HIDE DEF n
  <1>7. QED
    BY <1>1, <1>2, <1>3, <1>4, <1>5, <1>6, SavedCertFacts, CertIInv

\* A certificate that comes due is still stored.
LEMMA ComesDueIInv ==
    ASSUME IInv, NEW n \in Names, ComesDue(n)
    PROVE  IInv'
  <1> DEFINE q == [certs[n] EXCEPT !.due = TRUE]
  <1>1. certs[n] \in Cert /\ certs[n].stored /\ certs' = [certs EXCEPT ![n] = q]
    BY DEF ComesDue, IInv, TypeOK
  <1>2. q \in Cert /\ q.stored /\ q.owner = certs[n].owner
    BY <1>1 DEF Cert
  <1>3. /\ UNCHANGED <<rows, challenges, worker, call>> /\ Disturb({})
        /\ worker' \in [Workers -> Worker] /\ call' \in [Callers -> Call]
    BY DEF ComesDue, IInv, TypeOK
  <1>4. \A v \in Workers : (InFlight(v)' <=> InFlight(v)) /\ worker'[v] = worker[v]
    BY <1>3 DEF InFlight
  <1>5. \A c \in Callers : call'[c] = call[c]
    BY <1>3
  <1> HIDE DEF q
  <1>6. QED
    BY <1>1, <1>2, <1>3, <1>4, <1>5, CertIInv

\* record_uploaded_certificate makes a row active only after its certificate was stored.
LEMMA RecordUploadedIInv ==
    ASSUME IInv, NEW c \in Callers, RecordUploaded(c)
    PROVE  IInv'
  <1> DEFINE k == call[c].id
             n == rows[k].name
  <1>1. /\ ~Idle(c) /\ k \in Ids /\ n \in Names /\ call[c].op = "recording"
        /\ rows[k] \in Row /\ certs[n] \in Cert /\ 0 \in 0..MaxAttempts
    BY IssuanceAssumption DEF RecordUploaded, Idle, IInv, CallsSound, RowsSound, TypeOK
  <1>2. /\ call' \in [Callers -> Call] /\ Idle(c)'
        /\ \A d \in Callers : d # c => call'[d] = call[d]
    BY DEF RecordUploaded, IInv, TypeOK, NoCall, Call, Idle
  <1>3. /\ UNCHANGED <<challenges, worker>> /\ worker' \in [Workers -> Worker]
        /\ \A v \in Workers : (InFlight(v)' <=> InFlight(v)) /\ worker'[v] = worker[v]
    BY DEF RecordUploaded, IInv, TypeOK, InFlight
  <1>4. CASE ~Live(k)
    <2>1. UNCHANGED <<rows, certs>> /\ Disturb({})
      BY <1>4 DEF RecordUploaded
    <2>2. QED
      BY <2>1, <1>2, <1>3, CallIInv
  <1>5. CASE Live(k)
    <2> DEFINE r == [rows[k] EXCEPT !.provider = "manual", !.status = "active", !.attempts = 0]
               q == [certs[n] EXCEPT !.auto_renew = FALSE, !.owner = k]
    <2>1. certs[n].stored
      BY <1>1, <1>5 DEF IInv, SavedBeforeMarked
    <2>2. rows' = [rows EXCEPT ![k] = r] /\ certs' = [certs EXCEPT ![n] = q] /\ Disturb({n})
      BY <1>5, <2>1 DEF RecordUploaded
    <2>3. /\ r \in Row /\ r.life = rows[k].life /\ r.name = rows[k].name
          /\ r.attempted = rows[k].attempted /\ r.age = rows[k].age /\ r.status = "active"
      BY <1>1 DEF Row, SslStatus, SslProvider
    <2>4. q \in Cert /\ q.stored /\ q.owner = k
      BY <1>1, <2>1 DEF Cert
    <2> HIDE DEF r, q
    <2>5. /\ certs' \in [Names -> Cert] /\ certs'[n] = q
          /\ \A m \in Names : m # n => certs'[m] = certs[m]
      BY <1>1, <2>2, <2>4 DEF IInv, TypeOK
    <2>6. /\ \A m \in Names : certs[m].stored => certs'[m].stored
          /\ \A m \in Names : \/ certs'[m].owner = certs[m].owner
                              \/ certs'[m].owner = k /\ Live(k) /\ rows[k].name = m
      BY <1>5, <2>4, <2>5
    <2>7. \A d \in Callers : Idle(d)' \/ (~Idle(d) /\ call'[d].id = call[d].id
                                         /\ (call'[d].op = "recording" => call[d].op = "recording"))
      BY <1>2 DEF Idle
    <2>8. certs'[rows[k].name].stored /\ {n} \subseteq Names
      BY <1>1, <2>4, <2>5
    <2> HIDE DEF k
    <2>9. QED
      BY <1>1, <1>2, <1>3, <2>2, <2>3, <2>5, <2>6, <2>7, <2>8, RowIInv
  <1>6. QED
    BY <1>4, <1>5

\* What an INSERT and a DELETE make of a row.
LEMMA FreshFacts ==
    ASSUME NEW life \in {"unused", "live", "deleted"}, NEW n \in Names \cup {NoName},
           NEW p \in SslProvider
    PROVE  /\ FreshRow(life, n, p) \in Row
           /\ FreshRow(life, n, p).life = life /\ FreshRow(life, n, p).name = n
           /\ FreshRow(life, n, p).status = "pending"
           /\ ~FreshRow(life, n, p).attempted
  <1>1. 0 \in Age /\ 0 \in 0..MaxAttempts
    BY IssuanceAssumption DEF Age
  <1>2. QED
    BY <1>1 DEF FreshRow, Row, SslStatus

\* create_domain inserts a row under a name that no live row has.
LEMMA CreateIInv ==
    ASSUME IInv, NEW k \in Ids, NEW n \in Names, NEW p \in SslProvider, CreateDomain(k, n, p)
    PROVE  IInv'
  <1>1. /\ rows[k].life = "unused" /\ \A j \in Ids : Live(j) => rows[j].name # n
        /\ UNCHANGED <<certs, challenges, worker, call>> /\ Disturb({})
    BY DEF CreateDomain
  <1>2. /\ rows' \in [Ids -> Row]
        /\ rows'[k].life = "live" /\ rows'[k].name = n /\ rows'[k].status = "pending"
        /\ \A i \in Ids : i # k => rows'[i] = rows[i]
    <2>1. FreshRow("live", n, p) \in Row /\ rows' = [rows EXCEPT ![k] = FreshRow("live", n, p)]
      BY FreshFacts DEF CreateDomain
    <2>2. QED
      BY <2>1, FreshFacts DEF IInv, TypeOK
  <1>3. TypeOK'
    BY <1>1, <1>2, DisturbType DEF IInv, TypeOK
  <1>4. RowsSound'
    BY <1>2 DEF IInv, RowsSound
  <1>5. UniqueNames'
    BY <1>1, <1>2 DEF IInv, UniqueNames, Live
  <1>6. \A v \in Workers : /\ InFlight(v)' <=> InFlight(v)
                           /\ worker'[v] = worker[v]
                           /\ InFlight(v) => worker[v].id \in Ids /\ worker[v].id # k
    BY <1>1 DEF InFlight, IInv, WorkersSound
  <1>7. WorkersSound'
    BY <1>2, <1>6 DEF IInv, WorkersSound
  <1>8. CallsSound'
    BY <1>1, <1>2 DEF IInv, CallsSound, Idle
  <1>9. OwnersSound'
    BY <1>1, <1>2 DEF IInv, OwnersSound, TypeOK, Cert, Live
  <1>10. ClaimHolds' /\ OneOrderPerName'
    BY <1>1, <1>2, <1>6, ClaimsFrame
  <1>11. SavedBeforeMarked'
    <2>1. \A v \in Workers : worker[v].pc = "mark" => worker[v].id \in Ids /\ worker[v].id # k
      BY <1>6 DEF InFlight, Ordering
    <2>2. \A c \in Callers : call[c].op = "recording" => call[c].id \in Ids /\ call[c].id # k
      BY <1>1 DEF IInv, CallsSound, Idle
    <2>3. QED
      BY <2>1, <2>2, <1>1, <1>2 DEF IInv, SavedBeforeMarked, Live
  <1>12. ActiveHasCertificate'
    BY <1>1, <1>2 DEF IInv, ActiveHasCertificate, Live
  <1>13. QED
    BY <1>3, <1>4, <1>5, <1>7, <1>8, <1>9, <1>10, <1>11, <1>12 DEF IInv

\* delete_domain takes the certificate the row owns, and with it the claim of its order.
LEMMA DeleteIInv ==
    ASSUME IInv, NEW k \in Ids, DeleteDomain(k)
    PROVE  IInv'
  <1>1. /\ Live(k) /\ rows[k].name \in Names
        /\ UNCHANGED <<challenges, worker, call>> /\ Disturb({rows[k].name})
        /\ certs' = [n \in Names |-> IF certs[n].owner = k THEN NoCert ELSE certs[n]]
    BY DEF DeleteDomain, IInv, RowsSound, Live
  <1>2. /\ rows' \in [Ids -> Row]
        /\ rows'[k].life = "deleted" /\ rows'[k].name = rows[k].name
        /\ rows'[k].status = "pending" /\ ~rows'[k].attempted
        /\ \A i \in Ids : i # k => rows'[i] = rows[i]
    <2>1. "none" \in SslProvider
      BY DEF SslProvider
    <2>2. /\ FreshRow("deleted", rows[k].name, "none") \in Row
          /\ rows' = [rows EXCEPT ![k] = FreshRow("deleted", rows[k].name, "none")]
      BY <1>1, <2>1, FreshFacts DEF DeleteDomain
    <2>3. QED
      BY <1>1, <2>1, <2>2, FreshFacts DEF IInv, TypeOK
  <1>3. certs' \in [Names -> Cert]
    BY <1>1 DEF IInv, TypeOK, NoCert, Cert
  <1>4. TypeOK'
    BY <1>1, <1>2, <1>3, DisturbType DEF IInv, TypeOK
  <1>5. RowsSound'
    BY <1>1, <1>2 DEF IInv, RowsSound
  <1>6. UniqueNames'
    BY <1>2 DEF IInv, UniqueNames, Live
  <1>7. \A v \in Workers : /\ InFlight(v)' <=> InFlight(v)
                           /\ worker'[v] = worker[v]
                           /\ InFlight(v) => worker[v].id \in Ids /\ rows[worker[v].id].name = worker[v].name
    BY <1>1 DEF InFlight, IInv, WorkersSound
  <1>8. WorkersSound'
    <2> SUFFICES ASSUME NEW v \in Workers, InFlight(v)
                 PROVE  /\ rows'[worker[v].id].life # "unused"
                        /\ rows'[worker[v].id].name = worker[v].name
                        /\ rows'[worker[v].id].attempted => rows'[worker[v].id].age <= worker[v].age
      BY <1>7 DEF IInv, WorkersSound
    <2>1. CASE worker[v].id = k
      BY <2>1, <1>2, <1>7
    <2>2. CASE worker[v].id # k
      BY <2>2, <1>2, <1>7 DEF IInv, WorkersSound
    <2>3. QED
      BY <2>1, <2>2
  <1>9. CallsSound'
    BY <1>1, <1>2 DEF IInv, CallsSound, Idle
  <1>10. \A i \in Ids : rows'[i].life = "live" => i # k /\ Live(i) /\ rows'[i] = rows[i]
    BY <1>2 DEF Live
  <1>11. \A i \in Ids : (rows'[i].life = "live") => certs'[rows[i].name] = certs[rows[i].name]
    <2> SUFFICES ASSUME NEW i \in Ids, rows'[i].life = "live"
                 PROVE  certs'[rows[i].name] = certs[rows[i].name]
      OBVIOUS
    <2>1. i # k /\ Live(i) /\ rows[i].name \in Names
      BY <1>10 DEF IInv, RowsSound, Live
    <2>2. certs[rows[i].name].owner # k
      BY <2>1, <1>1, IssuanceAssumption DEF IInv, OwnersSound, UniqueNames
    <2>3. QED
      BY <1>1, <2>1, <2>2
  <1>12. OwnersSound'
    <2> SUFFICES ASSUME NEW n \in Names, certs'[n].owner # NoId
                 PROVE  /\ rows'[certs'[n].owner].life = "live"
                        /\ rows'[certs'[n].owner].name = n
      BY DEF OwnersSound, Live
    <2>1. certs[n].owner # k /\ certs'[n] = certs[n] /\ certs[n].owner \in Ids
      BY <1>1 DEF NoCert, IInv, TypeOK, Cert
    <2>2. QED
      BY <2>1, <1>2 DEF IInv, OwnersSound, Live
  <1>13. ClaimHolds' /\ OneOrderPerName'
    BY <1>1, <1>2, <1>7, ClaimsFrame
  <1>14. SavedBeforeMarked'
    <2>1. ASSUME NEW v \in Workers, worker[v].pc = "mark", rows'[worker[v].id].life = "live"
          PROVE  certs'[worker[v].name].stored
      <3>1. InFlight(v) /\ worker[v].id \in Ids /\ rows[worker[v].id].name = worker[v].name
        BY <2>1, <1>7 DEF InFlight, Ordering
      <3>2. QED
        BY <2>1, <3>1, <1>10, <1>11 DEF IInv, SavedBeforeMarked
    <2>2. ASSUME NEW c \in Callers, call[c].op = "recording", rows'[call[c].id].life = "live"
          PROVE  certs'[rows'[call[c].id].name].stored
      <3>1. call[c].id \in Ids
        BY <2>2 DEF IInv, CallsSound, Idle
      <3>2. QED
        BY <2>2, <3>1, <1>10, <1>11 DEF IInv, SavedBeforeMarked
    <2>3. QED
      BY <2>1, <2>2, <1>1 DEF SavedBeforeMarked, Live
  <1>15. ActiveHasCertificate'
    BY <1>10, <1>11 DEF IInv, ActiveHasCertificate, Live
  <1>16. QED
    BY <1>4, <1>5, <1>6, <1>8, <1>9, <1>12, <1>13, <1>14, <1>15 DEF IInv

\* Ages of rows and of orders advance together.
LEMMA TimeIInv ==
    ASSUME IInv, TimePasses
    PROVE  IInv'
  <1>1. \A i \in Ids :
            /\ rows'[i] \in Row
            /\ rows'[i].life = rows[i].life /\ rows'[i].name = rows[i].name
            /\ rows'[i].status = rows[i].status /\ rows'[i].attempts = rows[i].attempts
            /\ rows'[i].attempted = rows[i].attempted
            /\ rows'[i].age <= rows[i].age + 1 /\ rows[i].age \in Nat /\ rows'[i].age \in Nat
    <2> SUFFICES ASSUME NEW i \in Ids
                 PROVE  /\ rows'[i] \in Row
                        /\ rows'[i].life = rows[i].life /\ rows'[i].name = rows[i].name
                        /\ rows'[i].status = rows[i].status /\ rows'[i].attempts = rows[i].attempts
                        /\ rows'[i].attempted = rows[i].attempted
                        /\ rows'[i].age <= rows[i].age + 1 /\ rows[i].age \in Nat /\ rows'[i].age \in Nat
      OBVIOUS
    <2>1. rows[i] \in Row /\ rows[i].age \in Age /\ rows[i].age \in Nat
      BY IssuanceAssumption DEF IInv, TypeOK, Row, Age
    <2>2. CASE rows[i].attempted /\ rows[i].age < MaxAge
      <3>1. rows[i].age + 1 \in Age /\ rows[i].age + 1 \in Nat
        BY <2>1, <2>2, IssuanceAssumption DEF Age
      <3>2. rows'[i] = [rows[i] EXCEPT !.age = rows[i].age + 1]
        BY <2>2 DEF TimePasses
      <3>3. QED
        BY <3>1, <3>2, <2>1 DEF Row
    <2>3. CASE ~(rows[i].attempted /\ rows[i].age < MaxAge)
      <3>1. rows'[i] = rows[i]
        BY <2>3 DEF TimePasses
      <3>2. QED
        BY <3>1, <2>1
    <2>4. QED
      BY <2>2, <2>3
  <1>2. \A w \in Workers :
            /\ worker'[w] \in Worker
            /\ worker'[w].pc = worker[w].pc
            /\ worker'[w].id = worker[w].id /\ worker'[w].name = worker[w].name
            /\ worker'[w].attempts = worker[w].attempts
            /\ InFlight(w) => worker'[w].age = worker[w].age + 1 /\ worker[w].age \in Nat
    <2> SUFFICES ASSUME NEW w \in Workers
                 PROVE  /\ worker'[w] \in Worker
                        /\ worker'[w].pc = worker[w].pc
                        /\ worker'[w].id = worker[w].id /\ worker'[w].name = worker[w].name
                        /\ worker'[w].attempts = worker[w].attempts
                        /\ InFlight(w) => worker'[w].age = worker[w].age + 1 /\ worker[w].age \in Nat
      OBVIOUS
    <2>1. worker[w] \in Worker /\ worker[w].age \in 0..OrderBound
      BY DEF IInv, TypeOK, Worker
    <2>2. CASE InFlight(w)
      <3>1. worker[w].age + 1 \in 0..OrderBound /\ worker[w].age \in Nat
        BY <2>1, <2>2, IssuanceAssumption DEF TimePasses
      <3>2. worker'[w] = [worker[w] EXCEPT !.age = worker[w].age + 1]
        BY <2>2 DEF TimePasses
      <3>3. QED
        BY <3>1, <3>2, <2>1 DEF Worker
    <2>3. CASE ~InFlight(w)
      BY <2>1, <2>3 DEF TimePasses
    <2>4. QED
      BY <2>2, <2>3
  <1>3. /\ rows' \in [Ids -> Row] /\ worker' \in [Workers -> Worker]
        /\ UNCHANGED <<certs, challenges, call>> /\ Disturb({})
    BY <1>1, <1>2 DEF TimePasses
  <1>4. TypeOK'
    BY <1>3, DisturbType DEF IInv, TypeOK
  <1>5. SameShape
    BY <1>1 DEF SameShape
  <1>6. UniqueNames' /\ CallsSound' /\ OwnersSound' /\ \A i \in Ids : Live(i)' <=> Live(i)
    BY <1>3, <1>5, ShapeFacts
  <1>7. RowsSound'
    BY <1>1 DEF IInv, RowsSound
  <1>8. \A w \in Workers : InFlight(w)' <=> InFlight(w)
    BY <1>2 DEF InFlight
  <1>9. WorkersSound'
    <2> SUFFICES ASSUME NEW w \in Workers, InFlight(w)
                 PROVE  rows'[worker[w].id].attempted => rows'[worker[w].id].age <= worker'[w].age
      BY <1>1, <1>2, <1>8 DEF IInv, WorkersSound
    <2>1. /\ worker[w].id \in Ids
          /\ rows[worker[w].id].attempted => rows[worker[w].id].age <= worker[w].age
      BY DEF IInv, WorkersSound
    <2>2. QED
      BY <2>1, <1>1, <1>2
  <1>10. ClaimHolds' /\ OneOrderPerName'
    <2>1. \A v \in Workers : InFlight(v) => worker[v].id \in Ids
      BY DEF IInv, WorkersSound
    <2>2. QED
      BY <2>1, <1>1, <1>2, <1>3, <1>8, ClaimsFrame
  <1>11. SavedBeforeMarked'
    <2>1. \A w \in Workers : worker[w].pc = "mark" => worker[w].id \in Ids
      BY DEF IInv, WorkersSound, InFlight, Ordering
    <2>2. \A c \in Callers : call[c].op = "recording" => call[c].id \in Ids
      BY DEF IInv, CallsSound, Idle
    <2>3. QED
      BY <2>1, <2>2, <1>1, <1>2, <1>3, <1>6 DEF IInv, SavedBeforeMarked
  <1>12. ActiveHasCertificate'
    BY <1>1, <1>3, <1>6 DEF IInv, ActiveHasCertificate
  <1>13. QED
    BY <1>4, <1>6, <1>7, <1>9, <1>10, <1>11, <1>12 DEF IInv

\* A challenge row that expires touches nothing else.
LEMMA ChallengeIInv ==
    ASSUME IInv, NEW w \in Workers, NEW n \in Names, ChallengeExpires(w, n)
    PROVE  IInv'
  <1>1. /\ worker' = [worker EXCEPT ![w] = worker[w]] /\ worker[w] \in Worker
        /\ challenges' \subseteq Workers \X Names
        /\ UNCHANGED <<rows, certs, call, worker>> /\ Disturb({})
    BY DEF ChallengeExpires, IInv, TypeOK
  <1>2. TypeOK'
    BY <1>1, DisturbType DEF IInv, TypeOK
  <1>3. RowsSound' /\ UniqueNames' /\ CallsSound' /\ OwnersSound' /\ ActiveHasCertificate'
    BY <1>1 DEF IInv, RowsSound, UniqueNames, CallsSound, OwnersSound, ActiveHasCertificate, Live, Idle
  <1>4. \A v \in Workers : (InFlight(v)' <=> InFlight(v)) /\ worker'[v] = worker[v]
    BY <1>1 DEF InFlight
  <1>5. WorkersSound' /\ SavedBeforeMarked'
    BY <1>1, <1>4 DEF IInv, WorkersSound, SavedBeforeMarked, Live
  <1>6. ClaimHolds' /\ OneOrderPerName'
    BY <1>1, <1>4, ClaimsFrame
  <1>7. QED
    BY <1>2, <1>3, <1>5, <1>6 DEF IInv

\* A step that changes no variable keeps the invariant.
LEMMA StutterIInv ==
    ASSUME IInv, UNCHANGED vars
    PROVE  IInv'
  BY DEF vars, IInv, TypeOK, RowsSound, UniqueNames, WorkersSound, CallsSound, OwnersSound,
         ClaimHolds, OneOrderPerName, SavedBeforeMarked, ActiveHasCertificate,
         Live, InFlight, Idle

-----------------------------------------------------------------------------
(* Theorems *)

\* Every step of the specification keeps the invariant.
LEMMA NextIInv ==
    ASSUME IInv, [Next]_vars
    PROVE  IInv'
  <1>1. ASSUME NEW w \in Workers, WorkerStep(w) \/ Interrupt(w) PROVE IInv'
    <2>1. CASE \E i \in Ids : ClaimNext(w, i)
      BY <2>1, ClaimIInv
    <2>2. CASE ~\E i \in Ids : ClaimNext(w, i)
      BY <1>1, <2>2, ReclaimIInv, RenewIInv, NothingIInv, OrderIInv, SaveIInv, MarkIInv
         DEF WorkerStep
    <2>3. QED
      BY <2>1, <2>2
  <1>2. ASSUME ApiStep PROVE IInv'
    <2>1. CASE \E i \in Ids, n \in Names, p \in SslProvider : CreateDomain(i, n, p)
      BY <2>1, CreateIInv
    <2>2. CASE \E i \in Ids, p \in SslProvider : UpdateDomain(i, p)
      BY <2>2, UpdateIInv
    <2>3. CASE \E i \in Ids : QueueForIssuance(i) \/ DeleteDomain(i)
      BY <2>3, QueueIInv, DeleteIInv
    <2>4. ASSUME NEW c \in Callers,
                 \/ \E i \in Ids : VerifyDomain(c, i) \/ UploadCertificate(c, i)
                 \/ RecordVerified(c) \/ QueueVerified(c)
                 \/ SaveUploaded(c) \/ RecordUploaded(c)
                 \/ AbandonCall(c)
          PROVE  IInv'
      BY <2>4, ReadIInv, VerifyIInv, SaveUploadedIInv, RecordUploadedIInv, AbandonIInv
    <2>5. QED
      BY <1>2, <2>1, <2>2, <2>3, <2>4 DEF ApiStep
  <1>3. QED
    BY <1>1, <1>2, TimeIInv, ComesDueIInv, ChallengeIInv, StutterIInv DEF Next

\* Every reachable state satisfies the inductive invariant.
THEOREM Inductive == Spec => []IInv
  <1>1. Init => IInv
    BY InitIInv
  <1>2. IInv /\ [Next]_vars => IInv'
    BY NextIInv
  <1>3. QED
    BY <1>1, <1>2, PTL DEF Spec

\* ssl_attempts never passes MAX_ATTEMPTS, and every column, control state and
\* claim stays in its type, however calls, orders and failures interleave.
THEOREM TypeCorrect == Spec => []TypeOK
  <1>1. IInv => TypeOK
    BY DEF IInv
  <1>2. QED
    BY <1>1, Inductive, PTL

\* Two workers never run orders for one domain, unless an API call took the
\* domain from the first: what claim_next and STUCK_AFTER promise.
THEOREM Exclusive == Spec => []OneOrderPerName
  <1>1. IInv => OneOrderPerName
    BY DEF IInv
  <1>2. QED
    BY <1>1, Inductive, PTL

\* The unguarded writes of mark_active and mark_failed land on the row as it was
\* claimed, unless an API call took it.
THEOREM ResultsLand == Spec => []ClaimHolds
  <1>1. IInv => ClaimHolds
    BY DEF IInv
  <1>2. QED
    BY <1>1, Inductive, PTL

\* reclaim_abandoned never takes a row from a worker that is still on it.
THEOREM NeverStolen == Spec => []LiveOrderNotAbandoned
  <1>1. QED
    BY NotAbandoned, Inductive, PTL

\* A domain reported active has a stored certificate.
THEOREM ActiveIsBacked == Spec => []ActiveHasCertificate
  <1>1. IInv => ActiveHasCertificate
    BY DEF IInv
  <1>2. QED
    BY <1>1, Inductive, PTL

\* clear_challenges deletes by domain name, and yet never what another order's CA
\* is about to look for: the orders for a name are one order, and a row that
\* expires is no running order's.
THEOREM ChallengesKept == Spec => ChallengeSurvives
  <1> DEFINE Awaited(w) == /\ worker[w].pc = "validate" /\ worker'[w].pc = "validate"
                           /\ worker[w].name \notin disturbed
                           /\ <<w, worker[w].name>> \in challenges
  <1>1. ASSUME IInv, [Next]_vars, NEW w \in Workers, Awaited(w)
        PROVE  <<w, worker[w].name>> \in challenges'
    <2>0. InFlight(w) /\ \A v \in Workers : InFlight(v) /\ worker[v].name = worker[w].name => v = w
      BY <1>1 DEF IInv, OneOrderPerName, InFlight, Ordering
    <2>1. ASSUME NEW v \in Workers, PlaceOrder(v) PROVE <<w, worker[w].name>> \in challenges'
      BY <1>1, <2>1 DEF PlaceOrder
    <2>2. ASSUME NEW v \in Workers, FinishOrder(v) PROVE <<w, worker[w].name>> \in challenges'
      <3>0. worker \in [Workers -> Worker] /\ worker[v] \in Worker
        BY <1>1 DEF IInv, TypeOK
      <3>1. worker'[v].pc # "validate"
        <4>1. PICK pc \in {"issued", "failed"} : worker' = [worker EXCEPT ![v].pc = pc]
          BY <2>2 DEF FinishOrder, GoTo
        <4>2. worker'[v].pc = pc
          BY <3>0, <4>1 DEF Worker
        <4> QED BY <4>2
      <3>2. v # w /\ InFlight(v)
        BY <1>1, <2>2, <3>1 DEF FinishOrder, InFlight, Ordering
      <3>3. worker[v].name # worker[w].name
        BY <2>0, <3>2
      <3> QED BY <1>1, <2>2, <3>3 DEF FinishOrder, ClearChallenges
    <2>3. ASSUME NEW v \in Workers, NEW n \in Names, ChallengeExpires(v, n)
          PROVE  <<w, worker[w].name>> \in challenges'
      BY <1>1, <2>0, <2>3 DEF ChallengeExpires
    <2>4. CASE UNCHANGED challenges
      BY <1>1, <2>4
    <2>5. ASSUME NEW v \in Workers, WorkerStep(v) \/ Interrupt(v)
          PROVE  UNCHANGED challenges \/ PlaceOrder(v) \/ FinishOrder(v)
      BY <2>5 DEF WorkerStep, Interrupt, ReclaimAbandoned, MarkRenewals, ClaimNext, NothingToClaim,
                  SaveCertificate, MarkActive, MarkFailed
    <2>6. ApiStep \/ TimePasses \/ (\E n \in Names : ComesDue(n)) => UNCHANGED challenges
      BY DEF ApiStep, CreateDomain, VerifyDomain, RecordVerified, QueueVerified, UpdateDomain, QueueForIssuance,
             UploadCertificate, SaveUploaded, RecordUploaded, DeleteDomain, AbandonCall, TimePasses, ComesDue
    <2>7. UNCHANGED vars => UNCHANGED challenges
      BY DEF vars
    <2> QED BY <1>1, <2>1, <2>2, <2>3, <2>4, <2>5, <2>6, <2>7 DEF Next
  <1>2. IInv /\ [Next]_vars => [\A w \in Workers : Awaited(w) => <<w, worker[w].name>> \in challenges']_vars
    BY <1>1
  <1>3. Spec => [][\A w \in Workers : Awaited(w) => <<w, worker[w].name>> \in challenges']_vars
    BY <1>2, Inductive, PTL DEF Spec
  <1> QED BY <1>3 DEF ChallengeSurvives
=============================================================================
