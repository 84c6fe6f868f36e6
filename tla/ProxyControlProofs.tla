------------------------- MODULE ProxyControlProofs -------------------------
(***************************************************************************)
(* Proofs about the proxy's control plane, part by part: the admin API,    *)
(* the certificate store and the tenants' API, for any number of callers,  *)
(* rows, names and failures.                                               *)
(***************************************************************************)
EXTENDS ProxyAdmin, CertStore, TenantApi, SequenceTheorems, FiniteSetTheorems, TLAPS

-----------------------------------------------------------------------------
(* The admin API.  While one handler works on an id, the two copies of it  *)
(* agree until the save, and after it the table holds what the handler     *)
(* will put into the running configuration.                                *)

AdminVal == [name : Names \cup {""}, body : 0..MaxCalls, backends : SUBSET Backends]
CallRec == [pc : {"idle", "save", "apply"}, op : {"none", "create", "replace", "delete"}, id : AdminIds,
            val : AdminVal, status : Nat]

AdminTypes ==
    /\ running \in [AdminIds -> AdminVal] /\ table \in [AdminIds -> AdminVal]
    /\ call \in [AdminCallers -> CallRec] /\ calls \in 0..MaxCalls
    /\ raced \subseteq AdminIds

\* Handler c is between its snapshot and its save, or its save and its last step.
Saving(c, i) == call[c].pc = "save" /\ call[c].id = i
Applying(c, i) == call[c].pc = "apply" /\ call[c].id = i

OneAtATime ==
    \A i \in AdminIds \ raced, c \in AdminCallers, d \in AdminCallers :
      (Saving(c, i) \/ Applying(c, i)) /\ (Saving(d, i) \/ Applying(d, i)) => c = d

Settled(i) ==
    /\ (\A c \in AdminCallers : ~Applying(c, i)) => running[i] = table[i]
    /\ \A c \in AdminCallers :
         /\ Applying(c, i) => table[i] = call[c].val
         /\ (Saving(c, i) \/ Applying(c, i)) /\ call[c].op = "replace" => running[i] # Absent

AdminInv == AdminTypes /\ OneAtATime /\ (persist /\ up => \A i \in AdminIds \ raced : Settled(i))

LEMMA AbsentIsVal == Absent \in AdminVal
  BY AdminAssumption DEF Absent, AdminVal

LEMMA NoCallIs ==
    /\ NoCall \in CallRec /\ NoCall.pc = "idle"
    /\ \A s \in Nat : [NoCall EXCEPT !.status = s] \in CallRec
    /\ \A s \in Nat : [NoCall EXCEPT !.status = s].pc = "idle"
  <1>1. (CHOOSE i \in AdminIds : TRUE) \in AdminIds
    BY AdminAssumption
  <1> QED BY <1>1, AbsentIsVal DEF NoCall, CallRec

LEMMA FlyingIs ==
    ASSUME AdminTypes, NEW i
    PROVE  InFlight(i) = {c \in AdminCallers : Saving(c, i) \/ Applying(c, i)}
  <1>1. \A c \in AdminCallers : call[c].pc # "idle" <=> call[c].pc = "save" \/ call[c].pc = "apply"
    BY DEF AdminTypes, CallRec
  <1> QED BY <1>1 DEF InFlight, Saving, Applying

LEMMA InitAdmin == AdminInit => AdminInv
  <1> SUFFICES ASSUME AdminInit PROVE AdminInv
    OBVIOUS
  <1>1. [i \in AdminIds |-> Absent] \in [AdminIds -> AdminVal]
    BY AbsentIsVal
  <1>2. running \in [AdminIds -> AdminVal]
    <2>1. CASE running = [i \in AdminIds |-> Absent]
      BY <1>1, <2>1
    <2>2. CASE running # [i \in AdminIds |-> Absent]
      <3>1. PICK u \in Upstreams, n \in Names \ FileNames, b \in Backends :
               running = [i \in AdminIds |-> IF i = u THEN [name |-> n, body |-> 0, backends |-> {b}] ELSE Absent]
        BY <2>2 DEF AdminInit
      <3>2. [name |-> n, body |-> 0, backends |-> {b}] \in AdminVal
        <4>1. 0 \in 0..MaxCalls
          BY AdminAssumption
        <4>2. {b} \in SUBSET Backends
          OBVIOUS
        <4>3. n \in Names \cup {""}
          OBVIOUS
        <4> QED BY <4>1, <4>2, <4>3 DEF AdminVal
      <3> QED BY <3>1, <3>2, AbsentIsVal
    <2> QED BY <2>1, <2>2
  <1>3. AdminTypes
    BY <1>1, <1>2, NoCallIs, AdminAssumption DEF AdminInit, AdminTypes
  <1>4. \A c \in AdminCallers : \A i : ~Saving(c, i) /\ ~Applying(c, i)
    BY NoCallIs DEF AdminInit, Saving, Applying
  <1>5. persist => running = table
    BY DEF AdminInit
  <1> QED BY <1>3, <1>4, <1>5 DEF AdminInv, OneAtATime, Settled

\* One entry of call changes, and nothing that the handlers write.
LEMMA BeginAdmin ==
    ASSUME AdminInv, NEW c \in AdminCallers, NEW op \in {"create", "replace", "delete"}, NEW i \in AdminIds,
           NEW val \in AdminVal, op = "replace" => running[i] # Absent, Begin(c, op, i, val)
    PROVE  AdminInv'
  <1>p. PICK rec : rec = [pc |-> "save", op |-> op, id |-> i, val |-> val, status |-> 0]
    OBVIOUS
  <1>0. /\ up /\ call[c].pc = "idle" /\ calls < MaxCalls /\ calls' = calls + 1
        /\ call' = [call EXCEPT ![c] = rec]
        /\ raced' = IF InFlight(i) = {} THEN raced ELSE raced \cup {i}
        /\ UNCHANGED <<persist, running, table, starts, up>>
    BY <1>p DEF Begin
  <1>1. rec \in CallRec /\ rec.pc = "save" /\ rec.id = i /\ rec.op = op
    BY <1>p DEF CallRec
  <1>2. /\ call' \in [AdminCallers -> CallRec] /\ call'[c] = rec
        /\ \A d \in AdminCallers : d # c => call'[d] = call[d]
    BY <1>0, <1>1 DEF AdminInv, AdminTypes
  <1>3. AdminTypes'
    BY <1>0, <1>2, AdminAssumption DEF AdminInv, AdminTypes
  <1>4. /\ \A j : Saving(c, j)' <=> j = i
        /\ \A j : ~Applying(c, j)'
        /\ \A j : ~Saving(c, j) /\ ~Applying(c, j)
        /\ \A d \in AdminCallers : \A j : d # c => (Saving(d, j)' <=> Saving(d, j)) /\ (Applying(d, j)' <=> Applying(d, j))
    BY <1>0, <1>1, <1>2 DEF Saving, Applying
  <1>5. i \in AdminIds \ raced' => \A d \in AdminCallers : ~Saving(d, i) /\ ~Applying(d, i)
    BY <1>0, FlyingIs DEF AdminInv
  <1>6. \A j \in AdminIds \ raced' : j \in AdminIds \ raced
    BY <1>0
  <1>7. OneAtATime'
    BY <1>4, <1>5, <1>6 DEF AdminInv, OneAtATime
  <1>8. ASSUME persist, up, NEW j \in AdminIds \ raced' PROVE Settled(j)'
    <2>1. Settled(j)
      BY <1>6, <1>8 DEF AdminInv
    <2>2. running'[j] = running[j] /\ table'[j] = table[j]
      BY <1>0
    <2>3. (\A d \in AdminCallers : ~Applying(d, j)') => running'[j] = table'[j]
      BY <1>4, <2>1, <2>2 DEF Settled
    <2>4. ASSUME NEW d \in AdminCallers
          PROVE  /\ Applying(d, j)' => table'[j] = call'[d].val
                 /\ (Saving(d, j)' \/ Applying(d, j)') /\ call'[d].op = "replace" => running'[j] # Absent
      <3>1. CASE d = c
        BY <1>1, <1>2, <1>4, <2>2, <3>1
      <3>2. CASE d # c
        BY <1>2, <1>4, <2>1, <2>2, <3>2 DEF Settled
      <3> QED BY <3>1, <3>2
    <2> QED BY <2>3, <2>4 DEF Settled
  <1> QED BY <1>0, <1>3, <1>7, <1>8 DEF AdminInv

\* An answer frees its caller; the id it worked on is settled by then, or raced.
LEMMA RespondAdmin ==
    ASSUME AdminInv, NEW c \in AdminCallers, NEW s \in Nat, call' = Respond(c, s),
           UNCHANGED <<persist, calls, up>>,
           running' \in [AdminIds -> AdminVal], table' \in [AdminIds -> AdminVal],
           raced \subseteq raced', raced' \subseteq AdminIds,
           NEW i, i = call[c].id,
           \A j \in AdminIds : j # i => running'[j] = running[j] /\ table'[j] = table[j],
           persist /\ up /\ i \in AdminIds \ raced' => running'[i] = table'[i],
           call[c].pc # "idle"
    PROVE  AdminInv'
  <1>p. PICK rec : rec = [NoCall EXCEPT !.status = s]
    OBVIOUS
  <1>1. rec \in CallRec /\ rec.pc = "idle" /\ call' = [call EXCEPT ![c] = rec]
    BY <1>p, NoCallIs DEF Respond
  <1>2. /\ call' \in [AdminCallers -> CallRec] /\ call'[c] = rec
        /\ \A d \in AdminCallers : d # c => call'[d] = call[d]
    BY <1>1 DEF AdminInv, AdminTypes
  <1>3. AdminTypes'
    BY <1>2 DEF AdminInv, AdminTypes
  <1>4. /\ \A j : ~Saving(c, j)' /\ ~Applying(c, j)'
        /\ \A d \in AdminCallers : \A j : d # c => (Saving(d, j)' <=> Saving(d, j)) /\ (Applying(d, j)' <=> Applying(d, j))
    BY <1>1, <1>2 DEF Saving, Applying
  <1>5. OneAtATime'
    BY <1>4 DEF AdminInv, OneAtATime
  <1>6. Saving(c, i) \/ Applying(c, i)
    BY DEF AdminInv, AdminTypes, CallRec, Saving, Applying
  <1>7. \A j : j # i => ~Saving(c, j) /\ ~Applying(c, j)
    BY DEF Saving, Applying
  <1>8. ASSUME persist, up, NEW j \in AdminIds \ raced' PROVE Settled(j)'
    <2>1. Settled(j) /\ j \in AdminIds \ raced
      BY <1>8 DEF AdminInv
    <2>2. CASE j = i
      <3>1. \A d \in AdminCallers : ~Saving(d, i)' /\ ~Applying(d, i)'
        BY <1>4, <1>6, <2>1, <2>2 DEF AdminInv, OneAtATime
      <3>2. running'[i] = table'[i]
        BY <1>8, <2>2
      <3> QED BY <2>2, <3>1, <3>2 DEF Settled
    <2>3. CASE j # i
      <3>1. running'[j] = running[j] /\ table'[j] = table[j]
        BY <2>3
      <3>2. (\A d \in AdminCallers : ~Applying(d, j)') => running'[j] = table'[j]
        BY <1>4, <1>7, <2>1, <2>3, <3>1 DEF Settled
      <3>3. ASSUME NEW d \in AdminCallers
            PROVE  /\ Applying(d, j)' => table'[j] = call'[d].val
                   /\ (Saving(d, j)' \/ Applying(d, j)') /\ call'[d].op = "replace" => running'[j] # Absent
        <4>1. CASE d = c
          BY <1>4, <4>1
        <4>2. CASE d # c
          BY <1>2, <1>4, <2>1, <3>1, <4>2 DEF Settled
        <4> QED BY <4>1, <4>2
      <3> QED BY <3>2, <3>3 DEF Settled
    <2> QED BY <2>2, <2>3
  <1> QED BY <1>3, <1>5, <1>8 DEF AdminInv

\* The save leaves the handler before its last step.
LEMMA SavedAdmin ==
    ASSUME AdminInv, NEW c \in AdminCallers, call[c].pc = "save",
           call' = [call EXCEPT ![c].pc = "apply"],
           UNCHANGED <<persist, running, calls, up, raced>>,
           persist => table' = Saved(c), ~persist => table' = table
    PROVE  AdminInv'
  <1>p. PICK i, v : i = call[c].id /\ v = call[c].val
    OBVIOUS
  <1>t. AdminTypes /\ i \in AdminIds /\ v \in AdminVal /\ call[c] \in CallRec
    BY <1>p DEF AdminInv, AdminTypes, CallRec
  <1>1. /\ call' \in [AdminCallers -> CallRec]
        /\ call'[c].pc = "apply" /\ call'[c].id = i /\ call'[c].val = v /\ call'[c].op = call[c].op
        /\ \A d \in AdminCallers : d # c => call'[d] = call[d]
    BY <1>p, <1>t DEF AdminTypes, CallRec
  <1>2. /\ persist => table' = [table EXCEPT ![i] = v]
        /\ table' \in [AdminIds -> AdminVal]
    BY <1>p, <1>t DEF Saved, SavedRow, AdminTypes
  <1>3. AdminTypes'
    BY <1>t, <1>1, <1>2 DEF AdminTypes
  <1>4. /\ \A j : ~Saving(c, j)'
        /\ \A j : Applying(c, j)' <=> j = i
        /\ \A j : Saving(c, j) <=> j = i
        /\ \A j : ~Applying(c, j)
        /\ \A d \in AdminCallers : \A j : d # c => (Saving(d, j)' <=> Saving(d, j)) /\ (Applying(d, j)' <=> Applying(d, j))
    BY <1>p, <1>1 DEF Saving, Applying
  <1>5. OneAtATime'
    BY <1>4 DEF AdminInv, OneAtATime
  <1>6. ASSUME persist, up, NEW j \in AdminIds \ raced PROVE Settled(j)'
    <2>1. Settled(j)
      BY <1>6 DEF AdminInv
    <2>2. running'[j] = running[j] /\ table'[j] = IF j = i THEN v ELSE table[j]
      BY <1>t, <1>2, <1>6 DEF AdminTypes
    <2>3. (\A d \in AdminCallers : ~Applying(d, j)') => running'[j] = table'[j]
      BY <1>4, <2>1, <2>2 DEF Settled
    <2>4. ASSUME NEW d \in AdminCallers
          PROVE  /\ Applying(d, j)' => table'[j] = call'[d].val
                 /\ (Saving(d, j)' \/ Applying(d, j)') /\ call'[d].op = "replace" => running'[j] # Absent
      <3>1. CASE d = c
        BY <1>1, <1>4, <2>1, <2>2, <3>1 DEF Settled
      <3>2. CASE d # c
        <4>1. j = i => ~Applying(d, j)
          BY <1>4, <3>2 DEF AdminInv, OneAtATime
        <4> QED BY <1>1, <1>4, <2>1, <2>2, <3>2, <4>1 DEF Settled
      <3> QED BY <3>1, <3>2
    <2> QED BY <2>3, <2>4 DEF Settled
  <1> QED BY <1>3, <1>5, <1>6 DEF AdminInv

LEMMA SaveAdmin ==
    ASSUME AdminInv, NEW c \in AdminCallers, Save(c)
    PROVE  AdminInv'
  <1>0. up /\ call[c].pc = "save" /\ UNCHANGED <<persist, running, calls, starts, up>>
    BY DEF Save
  <1>1. CASE ~persist /\ call' = [call EXCEPT ![c].pc = "apply"] /\ UNCHANGED <<table, raced>>
    BY <1>0, <1>1, SavedAdmin
  <1>2. CASE persist /\ table' = Saved(c) /\ call' = [call EXCEPT ![c].pc = "apply"] /\ UNCHANGED raced
    BY <1>0, <1>2, SavedAdmin
  <1>3. CASE persist /\ SaveFails(c)
    <2>p. PICK i : i = call[c].id
      OBVIOUS
    <2>t. /\ i \in AdminIds /\ call[c].val \in AdminVal
          /\ table \in [AdminIds -> AdminVal] /\ running \in [AdminIds -> AdminVal] /\ raced \subseteq AdminIds
      BY <2>p DEF AdminInv, AdminTypes, CallRec
    <2>1. call' = Respond(c, 500) /\ call[c].pc # "idle" /\ 500 \in Nat
      BY <1>0, <1>3 DEF SaveFails
    <2>2. CASE UNCHANGED <<table, raced>>
      <3>1. i \in AdminIds \ raced => running[i] = table[i]
        <4> SUFFICES ASSUME i \in AdminIds \ raced PROVE running[i] = table[i]
          OBVIOUS
        <4>1. Settled(i) /\ Saving(c, i) /\ ~Applying(c, i)
          BY <1>0, <1>3, <2>p DEF AdminInv, Saving, Applying
        <4>2. \A d \in AdminCallers : ~Applying(d, i)
          BY <4>1 DEF AdminInv, OneAtATime
        <4> QED BY <4>1, <4>2 DEF Settled
      <3> QED BY <1>0, <2>p, <2>t, <2>1, <2>2, <3>1, RespondAdmin
    <2>3. CASE table' = Saved(c) /\ raced' = raced \cup {call[c].id}
      <3>1. table' = [table EXCEPT ![i] = call[c].val]
        BY <2>p, <2>3 DEF Saved, SavedRow
      <3>2. table' \in [AdminIds -> AdminVal] /\ \A j \in AdminIds : j # i => table'[j] = table[j]
        BY <2>t, <3>1
      <3>3. raced' = raced \cup {i}
        BY <2>p, <2>3
      <3> QED BY <1>0, <2>p, <2>t, <2>1, <3>2, <3>3, RespondAdmin
    <2> QED BY <1>3, <2>2, <2>3 DEF SaveFails
  <1> QED BY <1>1, <1>2, <1>3 DEF Save

LEMMA ApplyAdmin ==
    ASSUME AdminInv, NEW c \in AdminCallers, Apply(c)
    PROVE  AdminInv'
  <1>p. PICK i, v : i = call[c].id /\ v = call[c].val
    OBVIOUS
  <1>t. /\ i \in AdminIds /\ v \in AdminVal
        /\ table \in [AdminIds -> AdminVal] /\ running \in [AdminIds -> AdminVal] /\ raced \subseteq AdminIds
    BY <1>p DEF AdminInv, AdminTypes, CallRec
  <1> DEFINE gone == call[c].op = "replace" /\ running[i] = Absent
  <1>0. /\ up /\ call[c].pc = "apply"
        /\ running' = IF gone THEN running ELSE [running EXCEPT ![i] = v]
        /\ UNCHANGED <<persist, table, calls, starts, up, raced>>
    BY <1>p DEF Apply
  <1>1. \E s \in Nat : call' = Respond(c, s)
    <2>1. 409 \in Nat /\ 201 \in Nat /\ 200 \in Nat
      OBVIOUS
    <2> QED BY <1>p, <2>1 DEF Apply
  <1>2. running' \in [AdminIds -> AdminVal] /\ \A j \in AdminIds : j # i => running'[j] = running[j]
    BY <1>t, <1>0
  <1>3. persist /\ up /\ i \in AdminIds \ raced => running'[i] = table'[i]
    <2> SUFFICES ASSUME persist, up, i \in AdminIds \ raced PROVE running'[i] = table'[i]
      OBVIOUS
    <2>1. Settled(i) /\ Applying(c, i)
      BY <1>p, <1>0 DEF AdminInv, Applying
    <2>2. table[i] = v /\ ~gone
      BY <1>p, <2>1 DEF Settled
    <2> QED BY <1>t, <1>0, <2>2
  <1> QED BY <1>p, <1>t, <1>0, <1>1, <1>2, <1>3, RespondAdmin

LEMMA RestartAdmin ==
    ASSUME AdminInv, Restart
    PROVE  AdminInv'
  <1>1. [i \in AdminIds |-> Absent] \in [AdminIds -> AdminVal]
    BY AbsentIsVal
  <1>2. AdminTypes'
    BY <1>1, NoCallIs DEF AdminInv, AdminTypes, Restart
  <1>3. \A c \in AdminCallers : \A i : ~Saving(c, i)' /\ ~Applying(c, i)'
    BY NoCallIs DEF Restart, Saving, Applying
  <1>4. persist' /\ up' => running' = table'
    BY DEF Restart
  <1> QED BY <1>2, <1>3, <1>4 DEF AdminInv, OneAtATime, Settled

LEMMA NotFoundAdmin ==
    ASSUME AdminInv, NEW c \in AdminCallers, NotFound(c)
    PROVE  AdminInv'
  <1>p. PICK rec : rec = [NoCall EXCEPT !.status = 404]
    OBVIOUS
  <1>1. rec \in CallRec /\ rec.pc = "idle"
    <2>1. 404 \in Nat
      OBVIOUS
    <2> QED BY <1>p, <2>1, NoCallIs
  <1>2. /\ call[c].pc = "idle" /\ calls < MaxCalls /\ calls' = calls + 1 /\ call' = [call EXCEPT ![c] = rec]
        /\ UNCHANGED <<persist, running, table, starts, up, raced>>
    BY <1>p DEF NotFound
  <1>3. /\ call' \in [AdminCallers -> CallRec] /\ call'[c] = rec
        /\ \A d \in AdminCallers : d # c => call'[d] = call[d]
    BY <1>1, <1>2 DEF AdminInv, AdminTypes
  <1>4. AdminTypes'
    BY <1>2, <1>3, AdminAssumption DEF AdminInv, AdminTypes
  <1>5. /\ \A j : ~Saving(c, j)' /\ ~Applying(c, j)' /\ ~Saving(c, j) /\ ~Applying(c, j)
        /\ \A d \in AdminCallers : \A j : d # c => (Saving(d, j)' <=> Saving(d, j)) /\ (Applying(d, j)' <=> Applying(d, j))
    BY <1>1, <1>2, <1>3 DEF Saving, Applying
  <1>6. OneAtATime'
    BY <1>2, <1>5 DEF AdminInv, OneAtATime
  <1>7. ASSUME persist, up, NEW j \in AdminIds \ raced PROVE Settled(j)'
    <2>1. Settled(j)
      BY <1>7 DEF AdminInv
    <2>2. running'[j] = running[j] /\ table'[j] = table[j]
      BY <1>2
    <2>3. (\A d \in AdminCallers : ~Applying(d, j)') => running'[j] = table'[j]
      BY <1>5, <2>1, <2>2 DEF Settled
    <2>4. ASSUME NEW d \in AdminCallers
          PROVE  /\ Applying(d, j)' => table'[j] = call'[d].val
                 /\ (Saving(d, j)' \/ Applying(d, j)') /\ call'[d].op = "replace" => running'[j] # Absent
      <3>1. CASE d = c
        BY <1>5, <3>1
      <3>2. CASE d # c
        BY <1>3, <1>5, <2>1, <2>2, <3>2 DEF Settled
      <3> QED BY <3>1, <3>2
    <2> QED BY <2>3, <2>4 DEF Settled
  <1> QED BY <1>2, <1>4, <1>6, <1>7 DEF AdminInv

\* What the handlers mean to store is a value.
LEMMA HandlersAdmin ==
    ASSUME AdminInv, NEW c \in AdminCallers,
           Create(c) \/ Update(c) \/ Delete(c) \/ AddBackend(c) \/ RemoveBackend(c)
    PROVE  AdminInv'
  <1>0. /\ \A i \in AdminIds : running[i] \in AdminVal
        /\ calls < MaxCalls => calls + 1 \in 0..MaxCalls
        /\ Upstreams \subseteq AdminIds
    BY AdminAssumption DEF AdminInv, AdminTypes
  <1>1. CASE Create(c)
    <2>1. PICK i \in AdminIds, n \in Names, bs \in SUBSET Backends :
            Begin(c, "create", i, [name |-> n, body |-> calls + 1, backends |-> bs])
      BY <1>1 DEF Create
    <2>2. calls + 1 \in 0..MaxCalls
      BY <1>0, <2>1 DEF Begin
    <2>3. [name |-> n, body |-> calls + 1, backends |-> bs] \in AdminVal
      BY <2>2 DEF AdminVal
    <2> QED BY <2>1, <2>3, BeginAdmin
  <1>2. CASE Update(c)
    <2>1. PICK i \in AdminIds, n \in Names :
            \/ NotFound(c)
            \/ running[i] # Absent /\ Begin(c, "replace", i, [running[i] EXCEPT !.name = n, !.body = calls + 1])
      BY <1>2 DEF Update
    <2>2. CASE NotFound(c)
      BY <2>2, NotFoundAdmin
    <2>3. CASE running[i] # Absent /\ Begin(c, "replace", i, [running[i] EXCEPT !.name = n, !.body = calls + 1])
      <3>1. calls + 1 \in 0..MaxCalls
        BY <1>0, <2>3 DEF Begin
      <3>2. running[i] \in AdminVal
        BY <1>0
      <3>3. [running[i] EXCEPT !.name = n, !.body = calls + 1] \in AdminVal
        BY <3>1, <3>2 DEF AdminVal
      <3> QED BY <2>3, <3>3, BeginAdmin
    <2> QED BY <2>1, <2>2, <2>3
  <1>3. CASE Delete(c)
    <2>1. PICK i \in AdminIds : NotFound(c) \/ Begin(c, "delete", i, Absent)
      BY <1>3 DEF Delete
    <2> QED BY <2>1, AbsentIsVal, BeginAdmin, NotFoundAdmin
  <1>4. CASE AddBackend(c)
    <2>1. PICK i \in Upstreams, b \in Backends :
            \/ NotFound(c)
            \/ running[i] # Absent /\ Begin(c, "replace", i, [running[i] EXCEPT !.backends = @ \cup {b}])
      BY <1>4 DEF AddBackend
    <2>2. CASE NotFound(c)
      BY <2>2, NotFoundAdmin
    <2>3. CASE running[i] # Absent /\ Begin(c, "replace", i, [running[i] EXCEPT !.backends = @ \cup {b}])
      <3>1. running[i] \in AdminVal /\ i \in AdminIds
        BY <1>0
      <3>2. [running[i] EXCEPT !.backends = @ \cup {b}] \in AdminVal
        BY <3>1 DEF AdminVal
      <3> QED BY <2>3, <3>1, <3>2, BeginAdmin
    <2> QED BY <2>1, <2>2, <2>3
  <1>5. CASE RemoveBackend(c)
    <2>1. PICK i \in Upstreams, b \in Backends :
            \/ NotFound(c)
            \/ running[i] # Absent /\ Begin(c, "replace", i, [running[i] EXCEPT !.backends = @ \ {b}])
      BY <1>5 DEF RemoveBackend
    <2>2. CASE NotFound(c)
      BY <2>2, NotFoundAdmin
    <2>3. CASE running[i] # Absent /\ Begin(c, "replace", i, [running[i] EXCEPT !.backends = @ \ {b}])
      <3>1. running[i] \in AdminVal /\ i \in AdminIds
        BY <1>0
      <3>2. [running[i] EXCEPT !.backends = @ \ {b}] \in AdminVal
        BY <3>1 DEF AdminVal
      <3> QED BY <2>3, <3>1, <3>2, BeginAdmin
    <2> QED BY <2>1, <2>2, <2>3
  <1> QED BY <1>1, <1>2, <1>3, <1>4, <1>5

LEMMA NextAdmin == AdminInv /\ [AdminNext]_adminVars => AdminInv'
  <1> SUFFICES ASSUME AdminInv, [AdminNext]_adminVars PROVE AdminInv'
    OBVIOUS
  <1>1. CASE UNCHANGED adminVars
    BY <1>1 DEF adminVars, AdminInv, AdminTypes, OneAtATime, Settled, Saving, Applying
  <1> QED BY <1>1, HandlersAdmin, SaveAdmin, ApplyAdmin, RestartAdmin DEF AdminNext

LEMMA AdminAgrees == AdminInv => AgreesWhenAlone
  <1> SUFFICES ASSUME AdminInv, persist, up, NEW i \in AdminIds \ raced, InFlight(i) = {}
               PROVE  running[i] = table[i]
    BY DEF AgreesWhenAlone
  <1>1. \A c \in AdminCallers : ~Applying(c, i)
    BY FlyingIs DEF AdminInv
  <1> QED BY <1>1 DEF AdminInv, Settled

\* The admin API keeps what it answered: for every id that no two handlers worked
\* on at once and no save left in doubt, what runs is what is stored once its
\* handler is done, and what a restart brings back, for any number of ids,
\* handlers and restarts.
THEOREM AnsweredKept == AdminSpec => AnsweredIsKept
  <1>1. AdminInv /\ [AdminNext]_adminVars => [AgreesWhenAlone' /\ RestartKeepsAnswered]_adminVars
    <2> SUFFICES ASSUME AdminInv, AdminNext
                 PROVE  AgreesWhenAlone' /\ RestartKeepsAnswered
      OBVIOUS
    <2>1. AdminInv'
      BY NextAdmin
    <2>2. AgreesWhenAlone'
      <3>1. (AdminInv => AgreesWhenAlone)'
        BY AdminAgrees, PTL
      <3> QED BY <2>1, <3>1
    <2>3. RestartKeepsAnswered
      <3> SUFFICES ASSUME starts' # starts, up, up', persist, NEW i \in AdminIds \ raced, InFlight(i) = {}
                   PROVE  running'[i] = running[i]
        BY DEF RestartKeepsAnswered
      <3>1. Restart
        <4>1. \A c \in AdminCallers : NotFound(c) => starts' = starts
          BY DEF NotFound
        <4>2. \A c, op, j, v : Begin(c, op, j, v) => starts' = starts
          BY DEF Begin
        <4>3. \A c \in AdminCallers : Create(c) \/ Update(c) \/ Delete(c) => starts' = starts
          BY <4>1, <4>2 DEF Create, Update, Delete
        <4>4. \A c \in AdminCallers : AddBackend(c) \/ RemoveBackend(c) => starts' = starts
          BY <4>1, <4>2 DEF AddBackend, RemoveBackend
        <4>5. \A c \in AdminCallers : Save(c) \/ Apply(c) => starts' = starts
          BY DEF Save, Apply
        <4> QED BY <4>3, <4>4, <4>5 DEF AdminNext
      <3>2. running' = table
        BY <3>1 DEF Restart
      <3> QED BY <3>2, AdminAgrees DEF AgreesWhenAlone
    <2> QED BY <2>2, <2>3
  <1> QED BY <1>1, InitAdmin, NextAdmin, PTL DEF AdminSpec, AnsweredIsKept

-----------------------------------------------------------------------------
(* The certificate store.  Only the database, the rows the refresh has     *)
(* read and what is served matter to a handshake: each holds whole pairs,  *)
(* and each is at least as new as the next, where it holds anything.       *)

AllWhole(held) == \A n \in CertNames : held[n] \in Pair /\ held[n].crt = held[n].key

\* Where new has a certificate it is no older than old's.
AsNew(new, old) == \A n \in CertNames : new[n].crt = 0 \/ new[n].crt >= old[n].crt
UpTo(held, s) == \A n \in CertNames : held[n].crt <= s

CertInv ==
    /\ serial \in Serial
    /\ certDb \in [CertNames -> Pair] /\ AllWhole(certDb) /\ UpTo(certDb, serial)
    /\ AllWhole(served) /\ UpTo(served, serial) /\ AsNew(certDb, served)
    /\ DOMAIN served = CertNames
    /\ AllWhole(refreshing.rows) /\ UpTo(refreshing.rows, serial)
    /\ AsNew(certDb, refreshing.rows) /\ AsNew(refreshing.rows, served)

LEMMA NothingIs == Nothing \in Pair /\ Nothing.crt = 0 /\ Nothing.key = 0
  BY CertAssumption DEF Nothing, Whole, Pair, Serial

LEMMA NoPairsIs ==
    ASSUME NEW s \in Nat, NEW held, AllWhole(held)
    PROVE  /\ AllWhole(NoPairs) /\ UpTo(NoPairs, s) /\ AsNew(NoPairs, held) /\ AsNew(held, NoPairs)
           /\ DOMAIN NoPairs = CertNames
  <1>1. \A n \in CertNames : NoPairs[n] = Nothing
    BY DEF NoPairs
  <1>2. \A n \in CertNames : held[n].crt \in Nat
    BY DEF AllWhole, Pair, Serial
  <1>3. DOMAIN NoPairs = CertNames
    BY DEF NoPairs
  <1> QED BY <1>1, <1>2, <1>3, NothingIs DEF AllWhole, UpTo, AsNew

LEMMA InitCert == CertInit => CertInv
  <1> SUFFICES ASSUME CertInit PROVE CertInv
    OBVIOUS
  <1>1. 1 \in Serial /\ 1 \in Nat /\ Whole(1) \in Pair /\ Whole(1).crt = 1 /\ Whole(1).key = 1
    BY CertAssumption DEF Whole, Pair, Serial
  <1>2. serial = 1 /\ certDb = [n \in CertNames |-> Whole(1)] /\ served = NoPairs /\ refreshing.rows = NoPairs
    BY DEF CertInit, CertStart
  <1>3. certDb \in [CertNames -> Pair] /\ AllWhole(certDb) /\ UpTo(certDb, 1)
    BY <1>1, <1>2 DEF AllWhole, UpTo
  <1>4. AllWhole(NoPairs)
    BY NothingIs DEF AllWhole, NoPairs
  <1> QED BY <1>1, <1>2, <1>3, <1>4, NoPairsIs DEF CertInv

\* A certificate is stored: its serial is new, so it is newer than any other.
LEMMA StoreCert ==
    ASSUME CertInv, NEW n, serial < MaxSerial, serial' = serial + 1,
           certDb' = [certDb EXCEPT ![n] = Whole(serial + 1)], UNCHANGED <<served, refreshing>>
    PROVE  CertInv'
  <1>p. PICK w, k : w = Whole(serial + 1) /\ k = serial + 1
    OBVIOUS
  <1>1. serial \in Nat /\ k \in Nat /\ k \in Serial /\ k > serial
    BY <1>p, CertAssumption DEF CertInv, Serial
  <1>2. w \in Pair /\ w.crt = k /\ w.key = k
    BY <1>p, <1>1 DEF Whole, Pair
  <1>3. certDb' = [certDb EXCEPT ![n] = w] /\ serial' = k
    BY <1>p
  <1>4. /\ certDb' \in [CertNames -> Pair]
        /\ \A m \in CertNames : certDb'[m] = IF m = n THEN w ELSE certDb[m]
    BY <1>2, <1>3 DEF CertInv
  <1>5. AllWhole(certDb')
    BY <1>2, <1>4 DEF CertInv, AllWhole
  <1>6. ASSUME NEW held, AllWhole(held), UpTo(held, serial)
        PROVE  UpTo(held, k) /\ (AsNew(certDb, held) => AsNew(certDb', held))
    <2>1. \A m \in CertNames : held[m].crt \in Nat /\ held[m].crt <= serial
      BY <1>6 DEF AllWhole, UpTo, Pair, Serial
    <2>2. \A m \in CertNames : held[m].crt <= k
      BY <1>1, <2>1
    <2> QED BY <1>2, <1>4, <2>1, <2>2 DEF UpTo, AsNew
  <1>7. UpTo(certDb', k)
    <2>1. UpTo(certDb, k)
      BY <1>6 DEF CertInv
    <2> QED BY <1>1, <1>2, <1>4, <2>1 DEF UpTo
  <1>8. /\ UpTo(served, k) /\ UpTo(refreshing.rows, k)
        /\ AsNew(certDb', served) /\ AsNew(certDb', refreshing.rows)
    BY <1>6 DEF CertInv
  <1> QED BY <1>1, <1>3, <1>4, <1>5, <1>7, <1>8 DEF CertInv

LEMMA RemoveCert ==
    ASSUME CertInv, Remove
    PROVE  CertInv'
  <1>0. /\ certDb' = certDb \/ certDb' = [certDb EXCEPT ![RemovedName] = Nothing]
        /\ UNCHANGED <<served, refreshing, serial>>
    BY DEF Remove
  <1>1. CASE certDb' = certDb
    BY <1>0, <1>1 DEF CertInv
  <1>2. CASE certDb' = [certDb EXCEPT ![RemovedName] = Nothing]
    <2>1. /\ certDb' \in [CertNames -> Pair]
          /\ \A m \in CertNames : certDb'[m] = certDb[m] \/ certDb'[m] = Nothing
      BY <1>2, NothingIs DEF CertInv
    <2>2. AllWhole(certDb') /\ UpTo(certDb', serial)
      BY <2>1, NothingIs DEF CertInv, AllWhole, UpTo, Serial
    <2>3. AsNew(certDb', served) /\ AsNew(certDb', refreshing.rows)
      BY <2>1, NothingIs DEF CertInv, AsNew
    <2> QED BY <1>0, <2>1, <2>2, <2>3 DEF CertInv
  <1> QED BY <1>0, <1>1, <1>2

LEMMA RefreshCert ==
    ASSUME CertInv, Refresh
    PROVE  CertInv' /\ \A n \in CertNames : served'[n] # Nothing => served'[n].crt >= served[n].crt
  <1>0. serial \in Nat /\ \A n \in CertNames : served[n].crt \in Nat /\ refreshing.rows[n].crt \in Nat /\ certDb[n].crt \in Nat
    BY DEF CertInv, AllWhole, Serial, Pair
  <1>1. CASE LoadAll
    <2>1. refreshing'.rows = certDb /\ UNCHANGED <<certDb, served, serial>>
      BY <1>1 DEF LoadAll
    <2>2. AsNew(certDb, certDb)
      BY <1>0 DEF AsNew
    <2> QED BY <1>0, <2>1, <2>2 DEF CertInv
  <1>2. CASE ReplaceCache
    <2>1. refreshing'.rows = refreshing.rows /\ UNCHANGED <<certDb, served, serial>>
      BY <1>2 DEF ReplaceCache
    <2> QED BY <1>0, <2>1 DEF CertInv
  <1>3. CASE Serve
    <2>1. /\ served' = Parsed(refreshing.rows) /\ refreshing'.rows = NoPairs /\ UNCHANGED <<certDb, serial>>
      BY <1>3 DEF Serve
    <2>2. /\ DOMAIN served' = CertNames
          /\ \A n \in CertNames : served'[n] = refreshing.rows[n] \/ served'[n] = Nothing
      BY <2>1 DEF Parsed
    <2>3. AllWhole(served') /\ UpTo(served', serial)
      BY <1>0, <2>2, NothingIs DEF CertInv, AllWhole, UpTo
    <2>4. AsNew(certDb, served')
      <3>1. \A n \in CertNames : certDb[n].crt = 0 \/ certDb[n].crt >= refreshing.rows[n].crt
        BY DEF CertInv, AsNew
      <3> QED BY <1>0, <2>2, <3>1, NothingIs DEF AsNew
    <2>5. \A n \in CertNames : served'[n] # Nothing => served'[n].crt >= served[n].crt
      <3> SUFFICES ASSUME NEW n \in CertNames, served'[n] # Nothing PROVE served'[n].crt >= served[n].crt
        OBVIOUS
      <3>1. served'[n] = refreshing.rows[n] /\ refreshing.rows[n] \in Pair
            /\ refreshing.rows[n].crt = refreshing.rows[n].key
        BY <2>2 DEF CertInv, AllWhole
      <3>2. refreshing.rows[n].crt # 0
        BY <3>1 DEF Nothing, Whole, Pair
      <3> QED BY <3>1, <3>2 DEF CertInv, AsNew
    <2>6. /\ AllWhole(NoPairs) /\ UpTo(NoPairs, serial) /\ AsNew(certDb, NoPairs) /\ AsNew(NoPairs, served')
      BY <1>0, <2>3, NoPairsIs DEF CertInv
    <2> QED BY <2>1, <2>2, <2>3, <2>4, <2>5, <2>6 DEF CertInv
  <1> QED BY <1>1, <1>2, <1>3 DEF Refresh

LEMMA StepCert ==
    ASSUME CertInv, CertNext
    PROVE  CertInv' /\ \A n \in CertNames : served'[n] # Nothing => served'[n].crt >= served[n].crt
  <1>0. serial \in Nat /\ \A n \in CertNames : served[n].crt \in Nat
    BY DEF CertInv, AllWhole, Serial, Pair
  <1>f. ASSUME UNCHANGED served PROVE \A n \in CertNames : served'[n] # Nothing => served'[n].crt >= served[n].crt
    BY <1>0, <1>f
  <1>1. CASE \E s \in Savers, n \in Renewed : SaveToDatabase(s, n)
    BY <1>f, <1>1, StoreCert DEF SaveToDatabase
  <1>2. CASE \E n \in Renewed : OtherInstance(n)
    BY <1>f, <1>2, StoreCert DEF OtherInstance
  <1>3. CASE (\E n \in Renewed : Get(n)) \/ SaveSteps \/ GetSteps
    <2>1. UNCHANGED <<certDb, served, refreshing, serial>>
      BY <1>3 DEF Get, SaveSteps, SaveToFile, SaveToCache, GetSteps, LoadFromFile, LoadFromDatabase, CacheToFile,
                  CacheInsert
    <2> QED BY <1>f, <2>1 DEF CertInv
  <1>4. CASE Remove
    BY <1>f, <1>4, RemoveCert DEF Remove
  <1>5. CASE Refresh
    BY <1>5, RefreshCert
  <1>6. CASE CertRestart
    <2>1. served' = NoPairs /\ refreshing'.rows = NoPairs /\ UNCHANGED <<certDb, serial>>
      BY <1>6 DEF CertRestart
    <2>2. /\ AllWhole(NoPairs) /\ UpTo(NoPairs, serial) /\ AsNew(certDb, NoPairs)
          /\ DOMAIN NoPairs = CertNames
      BY <1>0, NoPairsIs DEF CertInv
    <2>3. AsNew(NoPairs, NoPairs)
      BY <1>0, <2>2, NoPairsIs
    <2>4. \A n \in CertNames : NoPairs[n] = Nothing
      BY DEF NoPairs
    <2> QED BY <2>1, <2>2, <2>3, <2>4 DEF CertInv
  <1> QED BY <1>1, <1>2, <1>3, <1>4, <1>5, <1>6 DEF CertNext

\* The one wildcard that covers h.
LEMMA WildcardIs ==
    ASSUME NEW S, "*" \in S, NEW h \in Seq(S), h # <<>>, NEW d \in Seq(S), d # h
    PROVE  Covers(d, h) <=> Len(h) > 2 /\ d = <<"*">> \o Tail(h)
  <1>1. Tail(h) \in Seq(S) /\ Len(h) \in Nat /\ Len(h) > 0 /\ Len(Tail(h)) = Len(h) - 1
    BY HeadTailProperties, EmptySeq
  <1>p. PICK t : t = Tail(h)
    OBVIOUS
  <1>2. t \in Seq(S) /\ Len(t) = Len(h) - 1 /\ Len(h) \in Nat /\ Len(h) > 0
    BY <1>1, <1>p
  <1>3. ASSUME Covers(d, h) PROVE Len(h) > 2 /\ d = <<"*">> \o t
    <2>1. d[1] = "*" /\ Len(d) > 2 /\ Len(d) = Len(h) /\ Tail(d) = t
      BY <1>3, <1>p DEF Covers
    <2>2. d # <<>>
      BY <2>1
    <2>3. \A i \in 1..Len(t) : t[i] = d[i + 1]
      BY <2>1, <2>2, HeadTailProperties
    <2> DEFINE w == <<"*">> \o t
    <2>4. w \in Seq(S) /\ Len(w) = Len(t) + 1 /\ w[1] = "*" /\ \A i \in 1..Len(t) : w[i + 1] = t[i]
      <3>1. <<"*">> \in Seq(S) /\ Len(<<"*">>) = 1 /\ <<"*">>[1] = "*"
        OBVIOUS
      <3>2. w \in Seq(S) /\ Len(w) = Len(t) + 1
        BY <1>2, <3>1, ConcatProperties
      <3>3. w[1] = "*"
        BY <1>2, <3>1
      <3>4. \A i \in 1..Len(t) : w[i + 1] = t[i]
        BY <1>2, <3>1
      <3> QED BY <3>2, <3>3, <3>4
    <2> HIDE DEF w
    <2>5. Len(w) = Len(d)
      BY <1>2, <2>1, <2>4
    <2>6. \A i \in 1..Len(d) : d[i] = w[i]
      <3> TAKE i \in 1..Len(d)
      <3>1. CASE i = 1
        BY <2>1, <2>4, <3>1
      <3>2. CASE i # 1
        <4>1. i - 1 \in 1..Len(t) /\ (i - 1) + 1 = i
          BY <1>2, <2>1, <3>2
        <4> QED BY <2>3, <2>4, <4>1
      <3> QED BY <3>1, <3>2
    <2>7. d = w
      BY <2>4, <2>5, <2>6, SeqEqual
    <2> QED BY <2>1, <2>7 DEF w
  <1>4. ASSUME Len(h) > 2, d = <<"*">> \o t PROVE Covers(d, h)
    <2>1. d[1] = "*" /\ Len(d) = Len(t) + 1 /\ \A i \in 1..Len(t) : d[i + 1] = t[i]
      BY <1>2, <1>4
    <2>2. Len(d) = Len(h) /\ d # <<>>
      BY <1>2, <1>4, <2>1
    <2>3. Tail(d) \in Seq(S) /\ Len(Tail(d)) = Len(d) - 1 /\ \A i \in 1..Len(Tail(d)) : Tail(d)[i] = d[i + 1]
      BY <2>2, HeadTailProperties
    <2>4. Tail(d) = t
      BY <1>2, <2>1, <2>2, <2>3, SeqEqual
    <2> QED BY <1>4, <1>p, <2>1, <2>2, <2>4 DEF Covers
  <1> QED BY <1>3, <1>4, <1>p

LEMMA Covered == DOMAIN served = CertNames => HandshakeCovered
  <1> SUFFICES ASSUME NEW h \in Hellos \ {<<>>}
               PROVE  LET loaded == {d \in CertNames : Holds(d) /\ Covers(d, h)}
                      IN Resolve(h) = IF loaded = {} THEN Fallback
                                      ELSE served[IF h \in loaded THEN h ELSE CHOOSE d \in loaded : TRUE]
    BY DEF HandshakeCovered
  <1> DEFINE loaded == {d \in CertNames : Holds(d) /\ Covers(d, h)}
             w == <<"*">> \o Tail(h)
  <1>0. h \in Seq(STRING) /\ h # <<>> /\ CertNames \subseteq Seq(STRING)
    BY CertAssumption
  <1>1. h \in loaded <=> Holds(h)
    BY DEF Holds, Covers
  <1>2. \A d \in CertNames : d # h => (Covers(d, h) <=> Len(h) > 2 /\ d = w)
    <2> DEFINE S == STRING \cup {"*"}
    <2>1. \A s \in Seq(STRING) : s \in Seq(S)
      OBVIOUS
    <2>2. "*" \in S
      OBVIOUS
    <2> HIDE DEF S
    <2> QED BY <1>0, <2>1, <2>2, WildcardIs
  <1>3. \A d : Holds(d) => d \in CertNames /\ served[d] # Nothing
    BY DEF Holds
  <1> HIDE DEF w
  <1>4. CASE Holds(h)
    <2>1. Lookup(h) = served[h] /\ h \in loaded
      BY <1>1, <1>4 DEF Lookup
    <2> QED BY <1>0, <1>3, <1>4, <2>1 DEF Resolve
  <1>5. CASE ~Holds(h) /\ Len(h) > 2 /\ Holds(w)
    <2>1. loaded = {w}
      <3>1. w # h /\ w \in loaded
        BY <1>2, <1>3, <1>5
      <3>2. \A d \in loaded : d = w
        BY <1>1, <1>2, <1>5
      <3> QED BY <3>1, <3>2
    <2>2. Lookup(h) = served[w] /\ served[w] # Nothing
      BY <1>3, <1>5 DEF Lookup, w
    <2>3. h \notin loaded /\ (CHOOSE d \in loaded : TRUE) = w
      BY <1>1, <1>5, <2>1
    <2> QED BY <1>0, <2>1, <2>2, <2>3 DEF Resolve
  <1>6. CASE ~Holds(h) /\ ~(Len(h) > 2 /\ Holds(w))
    <2>1. loaded = {}
      BY <1>1, <1>2, <1>6
    <2>2. Lookup(h) = Nothing
      BY <1>6 DEF Lookup, w
    <2> QED BY <2>1, <2>2 DEF Resolve
  <1> QED BY <1>4, <1>5, <1>6

\* Every handshake is answered with a whole pair, issued for the name asked for,
\* its own before the wildcard's, and never with an older one than before, for
\* any domains and any saves, reads, removals, refreshes, losses and renewals by
\* other instances.
THEOREM HandshakesSound == CertSpec => HandshakesAreSound
  <1>1. CertInv => ServedPairsMatch
    BY DEF CertInv, AllWhole, ServedPairsMatch
  <1>2. CertInv => HandshakeCovered
    BY Covered DEF CertInv
  <1>3. CertInv /\ [CertNext]_certVars => CertInv'
    <2>1. CertInv /\ UNCHANGED certVars => CertInv'
      BY DEF certVars, CertInv
    <2> QED BY <2>1, StepCert
  <1>4. CertInv /\ [CertNext]_certVars =>
          [\A n \in CertNames : served'[n] # Nothing => served'[n].crt >= served[n].crt]_certVars
    BY StepCert
  <1> QED BY <1>1, <1>2, <1>3, <1>4, InitCert, PTL DEF CertSpec, HandshakesAreSound, ServedNeverOlder

-----------------------------------------------------------------------------
(* The tenants' API.  Three facts carry what a handler read in one         *)
(* statement over to a later one: a row keeps its tenant and its name as   *)
(* long as it is there; an id that was taken once is never taken again;    *)
(* and a verified domain stays verified.                                   *)

JobRec == [call : CallSet, pc : {"auth", "tenant", "run", "done"}, i : Nat, tenant : Tenants \cup {""},
           scopes : SUBSET STRING, snap : DomainRow \cup {NoDomain}, made : Ids \cup {0},
           todo : SUBSET Addresses, status : Nat]

\* The handler may still insert a row under the id that is its own.
Pend(j) == j.pc # "done" /\ j.made = 0
Unused == {NewId[c] : c \in {x \in Callers : Pend(job[x])}}

\* The handler has read the domain, or the upstream, that its call names.
DomainRead(j) == j.i > 1 /\ j.call.op \in {"verify_domain", "enable_domain", "disable_domain", "create_route"}
UpstreamRead(j) ==
    \/ j.i = 3 /\ j.call.op \in {"create_route", "update_route"}
    \/ j.i = 2 /\ j.call.op = "add_backend"

\* What a running handler has read still holds of dom and ups, or the row is gone;
\* T are the published tokens and U the ids that nobody has taken yet.
RunOK(c, j, dom, ups, T, U) ==
    /\ DomainRead(j) =>
         /\ j.call.d \notin U
         /\ dom[j.call.d] = NoDomain \/ dom[j.call.d].tenant = j.tenant
         /\ j.call.op = "enable_domain" => dom[j.call.d] = NoDomain \/ dom[j.call.d].status = "verified"
         /\ j.call.op = "verify_domain" =>
              j.snap \in DomainRow /\ (dom[j.call.d] = NoDomain \/ dom[j.call.d].name = j.snap.name)
    /\ j.call.op = "verify_domain" /\ j.i = 4 /\ j.snap.method = "dns" => j.call.d \in T[j.snap.name]
    /\ UpstreamRead(j) /\ j.call.u # 0 =>
         /\ j.call.u \notin U
         /\ ups[j.call.u] = NoUpstream \/ ups[j.call.u].tenant = j.tenant
    /\ j.call.op = "create_upstream" /\ j.i = 2 =>
         j.made = NewId[c] /\ (ups[NewId[c]] = NoUpstream \/ ups[NewId[c]].tenant = j.tenant)
    /\ j.call.op = "create_domain" /\ j.i = 4 => j.made = NewId[c]
    /\ j.made # 0 => (j.call.op = "create_upstream" /\ j.i = 2) \/ (j.call.op = "create_domain" /\ j.i = 4)

JobOK(c, j, dom, ups, T, U) ==
    /\ j \in JobRec
    /\ j.made \in {0, NewId[c]}
    /\ j.pc \in {"auth", "tenant"} => j.i = 1 /\ j.made = 0
    /\ j.pc \in {"tenant", "run"} => j.tenant \in Tenants
    /\ j.pc = "run" => j.i \in 1..Len(Program(j.call.op)) /\ RunOK(c, j, dom, ups, T, U)

Tables ==
    /\ domains \in [Ids -> DomainRow \cup {NoDomain}] /\ routes \in [Ids -> RouteRow \cup {NoRoute}]
    /\ upstreams \in [Ids -> UpstreamRow \cup {NoUpstream}] /\ keys \in [Ids -> KeyRow \cup {NoKey}]
    /\ txt \in [DomainNames -> SUBSET Ids]

Untaken(x) == domains[x] = NoDomain /\ routes[x] = NoRoute /\ upstreams[x] = NoUpstream /\ keys[x] = NoKey

\* A token was given to whoever controls the name.
Tokens(dom, T, U) ==
    \A n \in DomainNames : \A d \in T[n] :
      d \notin U /\ (dom[d] = NoDomain \/ (dom[d].tenant = Controller[n] /\ dom[d].name = n))

TenantInv ==
    /\ Tables
    /\ job \in [Callers -> JobRec]
    /\ \A c \in Callers : JobOK(c, job[c], domains, upstreams, txt, Unused)
    /\ \A x \in Unused : Untaken(x)
    /\ Tokens(domains, txt, Unused)
    /\ RoutesStayHome /\ VerifiedByController

\* saas_router's programs.
LEMMA Programs ==
    /\ Program("create_domain") = <<"quota", "exists", "domain_insert", "challenge_insert">>
    /\ Program("delete_domain") = <<"domain_delete">>
    /\ Program("verify_domain") = <<"get_domain", "attempt", "lookup", "set_verified">>
    /\ Program("enable_domain") = <<"get_domain", "set_enabled">>
    /\ Program("disable_domain") = <<"get_domain", "set_enabled">>
    /\ Program("update_domain") = <<"domain_update">>
    /\ Program("create_route") = <<"get_domain", "get_upstream", "route_insert">>
    /\ Program("update_route") = <<"get_route", "get_upstream", "route_update">>
    /\ Program("delete_route") = <<"get_route", "route_delete">>
    /\ Program("create_upstream") = <<"upstream_insert", "backends_insert">>
    /\ Program("update_upstream") = <<"upstream_update">>
    /\ Program("delete_upstream") = <<"upstream_delete">>
    /\ Program("add_backend") = <<"get_upstream", "backend_insert">>
    /\ Program("remove_backend") = <<"backend_delete">>
    /\ Program("create_api_key") = <<"key_insert">>
    /\ Program("revoke_api_key") = <<"key_delete">>
  BY DEF Program, DomainProgram, RouteProgram, UpstreamProgram, KeyProgram, DomainOps, RouteOps, UpstreamOps

AllOps == DomainOps \cup RouteOps \cup UpstreamOps \cup {"create_api_key", "revoke_api_key"}

LEMMA OtherProgram == ASSUME NEW op, op \notin AllOps PROVE Program(op) = <<"list">>
  BY DEF Program, AllOps

\* Where a statement is one of: the calls that run it, and its place in them.
StatementAt(op, i, s) ==
    /\ s = "get_domain" => i = 1 /\ op \in {"verify_domain", "enable_domain", "disable_domain", "create_route"}
    /\ s \in {"attempt", "lookup", "set_verified"} => op = "verify_domain"
    /\ s = "attempt" => i = 2
    /\ s = "lookup" => i = 3
    /\ s = "set_verified" => i = 4
    /\ s = "set_enabled" => i = 2 /\ op \in {"enable_domain", "disable_domain"}
    /\ s \in {"quota", "exists", "domain_insert", "challenge_insert"} => op = "create_domain"
    /\ s = "quota" => i = 1
    /\ s = "exists" => i = 2
    /\ s = "domain_insert" => i = 3
    /\ s = "challenge_insert" => i = 4
    /\ s = "domain_delete" => i = 1 /\ op = "delete_domain"
    /\ s = "domain_update" => i = 1 /\ op = "update_domain"
    /\ s = "get_upstream" => (i = 2 /\ op \in {"create_route", "update_route"}) \/ (i = 1 /\ op = "add_backend")
    /\ s = "route_insert" => i = 3 /\ op = "create_route"
    /\ s = "get_route" => i = 1 /\ op \in {"update_route", "delete_route"}
    /\ s = "route_update" => i = 3 /\ op = "update_route"
    /\ s = "route_delete" => i = 2 /\ op = "delete_route"
    /\ s = "upstream_insert" => i = 1 /\ op = "create_upstream"
    /\ s = "backends_insert" => i = 2 /\ op = "create_upstream"
    /\ s = "upstream_update" => i = 1 /\ op = "update_upstream"
    /\ s = "upstream_delete" => i = 1 /\ op = "delete_upstream"
    /\ s = "backend_insert" => i = 2 /\ op = "add_backend"
    /\ s = "backend_delete" => i = 1 /\ op = "remove_backend"
    /\ s = "key_insert" => i = 1 /\ op = "create_api_key"
    /\ s = "key_delete" => i = 1 /\ op = "revoke_api_key"
    /\ s = "list" => i = 1 /\ op \notin AllOps

LEMMA One ==
    ASSUME NEW p, NEW a1, p = <<a1>>, NEW i \in 1..Len(p)
    PROVE  i = 1 /\ p[i] = a1
  OBVIOUS

LEMMA Two ==
    ASSUME NEW p, NEW a1, NEW a2, p = <<a1, a2>>, NEW i \in 1..Len(p)
    PROVE  (i = 1 /\ p[i] = a1) \/ (i = 2 /\ p[i] = a2)
  OBVIOUS

LEMMA Three ==
    ASSUME NEW p, NEW a1, NEW a2, NEW a3, p = <<a1, a2, a3>>, NEW i \in 1..Len(p)
    PROVE  (i = 1 /\ p[i] = a1) \/ (i = 2 /\ p[i] = a2) \/ (i = 3 /\ p[i] = a3)
  OBVIOUS

LEMMA Four ==
    ASSUME NEW p, NEW a1, NEW a2, NEW a3, NEW a4, p = <<a1, a2, a3, a4>>, NEW i \in 1..Len(p)
    PROVE  (i = 1 /\ p[i] = a1) \/ (i = 2 /\ p[i] = a2) \/ (i = 3 /\ p[i] = a3) \/ (i = 4 /\ p[i] = a4)
  OBVIOUS

LEMMA StatementIs ==
    ASSUME NEW op, NEW i \in 1..Len(Program(op))
    PROVE  StatementAt(op, i, Program(op)[i])
  <1>1. CASE op \notin AllOps
    <2>1. Program(op)[i] = "list" /\ i = 1
      <3>1. Program(op) = <<"list">>
        BY <1>1, OtherProgram
      <3> QED BY <3>1, One
    <2> QED BY <1>1, <2>1 DEF StatementAt
  <1>2. CASE op \in DomainOps
    <2>1. CASE op = "create_domain"
      <3>0. Program(op) = <<"quota", "exists", "domain_insert", "challenge_insert">>
        BY <2>1, Programs
      <3>1. (i = 1 /\ Program(op)[i] = "quota") \/ (i = 2 /\ Program(op)[i] = "exists")
            \/ (i = 3 /\ Program(op)[i] = "domain_insert") \/ (i = 4 /\ Program(op)[i] = "challenge_insert")
        BY <3>0, Four
      <3> QED BY <2>1, <3>1 DEF StatementAt
    <2>2. CASE op = "delete_domain"
      <3>0. Program(op) = <<"domain_delete">>
        BY <2>2, Programs
      <3>1. i = 1 /\ Program(op)[i] = "domain_delete"
        BY <3>0, One
      <3> QED BY <2>2, <3>1 DEF StatementAt
    <2>3. CASE op = "verify_domain"
      <3>0. Program(op) = <<"get_domain", "attempt", "lookup", "set_verified">>
        BY <2>3, Programs
      <3>1. (i = 1 /\ Program(op)[i] = "get_domain") \/ (i = 2 /\ Program(op)[i] = "attempt")
            \/ (i = 3 /\ Program(op)[i] = "lookup") \/ (i = 4 /\ Program(op)[i] = "set_verified")
        BY <3>0, Four
      <3> QED BY <2>3, <3>1 DEF StatementAt
    <2>4. CASE op = "enable_domain"
      <3>0. Program(op) = <<"get_domain", "set_enabled">>
        BY <2>4, Programs
      <3>1. (i = 1 /\ Program(op)[i] = "get_domain") \/ (i = 2 /\ Program(op)[i] = "set_enabled")
        BY <3>0, Two
      <3> QED BY <2>4, <3>1 DEF StatementAt
    <2>5. CASE op = "disable_domain"
      <3>0. Program(op) = <<"get_domain", "set_enabled">>
        BY <2>5, Programs
      <3>1. (i = 1 /\ Program(op)[i] = "get_domain") \/ (i = 2 /\ Program(op)[i] = "set_enabled")
        BY <3>0, Two
      <3> QED BY <2>5, <3>1 DEF StatementAt
    <2>6. CASE op = "update_domain"
      <3>0. Program(op) = <<"domain_update">>
        BY <2>6, Programs
      <3>1. i = 1 /\ Program(op)[i] = "domain_update"
        BY <3>0, One
      <3> QED BY <2>6, <3>1 DEF StatementAt
    <2> QED BY <1>2, <2>1, <2>2, <2>3, <2>4, <2>5, <2>6 DEF DomainOps
  <1>3. CASE op \in RouteOps
    <2>1. CASE op = "create_route"
      <3>0. Program(op) = <<"get_domain", "get_upstream", "route_insert">>
        BY <2>1, Programs
      <3>1. (i = 1 /\ Program(op)[i] = "get_domain") \/ (i = 2 /\ Program(op)[i] = "get_upstream") \/ (i = 3 /\ Program(op)[i] = "route_insert")
        BY <3>0, Three
      <3> QED BY <2>1, <3>1 DEF StatementAt
    <2>2. CASE op = "update_route"
      <3>0. Program(op) = <<"get_route", "get_upstream", "route_update">>
        BY <2>2, Programs
      <3>1. (i = 1 /\ Program(op)[i] = "get_route") \/ (i = 2 /\ Program(op)[i] = "get_upstream") \/ (i = 3 /\ Program(op)[i] = "route_update")
        BY <3>0, Three
      <3> QED BY <2>2, <3>1 DEF StatementAt
    <2>3. CASE op = "delete_route"
      <3>0. Program(op) = <<"get_route", "route_delete">>
        BY <2>3, Programs
      <3>1. (i = 1 /\ Program(op)[i] = "get_route") \/ (i = 2 /\ Program(op)[i] = "route_delete")
        BY <3>0, Two
      <3> QED BY <2>3, <3>1 DEF StatementAt
    <2> QED BY <1>3, <2>1, <2>2, <2>3 DEF RouteOps
  <1>4. CASE op \in UpstreamOps
    <2>1. CASE op = "create_upstream"
      <3>0. Program(op) = <<"upstream_insert", "backends_insert">>
        BY <2>1, Programs
      <3>1. (i = 1 /\ Program(op)[i] = "upstream_insert") \/ (i = 2 /\ Program(op)[i] = "backends_insert")
        BY <3>0, Two
      <3> QED BY <2>1, <3>1 DEF StatementAt
    <2>2. CASE op = "update_upstream"
      <3>0. Program(op) = <<"upstream_update">>
        BY <2>2, Programs
      <3>1. i = 1 /\ Program(op)[i] = "upstream_update"
        BY <3>0, One
      <3> QED BY <2>2, <3>1 DEF StatementAt
    <2>3. CASE op = "delete_upstream"
      <3>0. Program(op) = <<"upstream_delete">>
        BY <2>3, Programs
      <3>1. i = 1 /\ Program(op)[i] = "upstream_delete"
        BY <3>0, One
      <3> QED BY <2>3, <3>1 DEF StatementAt
    <2>4. CASE op = "add_backend"
      <3>0. Program(op) = <<"get_upstream", "backend_insert">>
        BY <2>4, Programs
      <3>1. (i = 1 /\ Program(op)[i] = "get_upstream") \/ (i = 2 /\ Program(op)[i] = "backend_insert")
        BY <3>0, Two
      <3> QED BY <2>4, <3>1 DEF StatementAt
    <2>5. CASE op = "remove_backend"
      <3>0. Program(op) = <<"backend_delete">>
        BY <2>5, Programs
      <3>1. i = 1 /\ Program(op)[i] = "backend_delete"
        BY <3>0, One
      <3> QED BY <2>5, <3>1 DEF StatementAt
    <2> QED BY <1>4, <2>1, <2>2, <2>3, <2>4, <2>5 DEF UpstreamOps
  <1>5. CASE op = "create_api_key"
    <2>0. Program(op) = <<"key_insert">>
      BY <1>5, Programs
    <2>1. i = 1 /\ Program(op)[i] = "key_insert"
      BY <2>0, One
    <2> QED BY <1>5, <2>1 DEF StatementAt
  <1>6. CASE op = "revoke_api_key"
    <2>0. Program(op) = <<"key_delete">>
      BY <1>6, Programs
    <2>1. i = 1 /\ Program(op)[i] = "key_delete"
      BY <2>0, One
    <2> QED BY <1>6, <2>1 DEF StatementAt
  <1> QED BY <1>1, <1>2, <1>3, <1>4, <1>5, <1>6 DEF AllOps

\* dom2 keeps the rows of dom, or drops them; the ids in U are not looked at.
KeptDomains(dom, dom2, U) ==
    \A d \in Ids \ U :
      \/ dom2[d] = NoDomain
      \/ /\ dom[d] # NoDomain /\ dom2[d].tenant = dom[d].tenant /\ dom2[d].name = dom[d].name
         /\ dom[d].status = "verified" => dom2[d].status = "verified"
KeptUpstreams(ups, ups2, U) ==
    \A u \in Ids \ U : ups2[u] = NoUpstream \/ (ups[u] # NoUpstream /\ ups2[u].tenant = ups[u].tenant)

LEMMA SameKept ==
    ASSUME NEW t, NEW U
    PROVE  KeptDomains(t, t, U) /\ KeptUpstreams(t, t, U)
  BY DEF KeptDomains, KeptUpstreams

LEMMA CallIs ==
    ASSUME NEW j \in JobRec
    PROVE  /\ j.call \in CallSet /\ j.call.d \in Ids /\ j.call.r \in Ids /\ j.call.u \in Ids \cup {0}
           /\ j.call.method \in Methods /\ j.call.addresses \in SUBSET Addresses /\ j.call.name \in STRING
           /\ j.call.op \in UpstreamOps => j.call.u \in Ids
           /\ j.call.op = "create_domain" => j.call.name \in DomainNames
  <1>1. j.call \in CallSet /\ j.call \in Call
    BY TenantAssumption DEF JobRec
  <1>2. /\ j.call.d \in Ids /\ j.call.r \in Ids /\ j.call.u \in Ids \cup {0}
        /\ j.call.method \in Methods /\ j.call.addresses \in SUBSET Addresses /\ j.call.name \in STRING
    BY <1>1 DEF Call
  <1> QED BY <1>1, <1>2, TenantAssumption

\* What another handler does leaves a handler's knowledge true.
LEMMA JobKept ==
    ASSUME NEW c \in Callers, NEW j, NEW dom, NEW dom2, NEW ups, NEW ups2, NEW T, NEW T2, NEW U, NEW U2,
           JobOK(c, j, dom, ups, T, U), KeptDomains(dom, dom2, U), KeptUpstreams(ups, ups2, U),
           NewId[c] \notin U \/ j.made = 0,
           U2 \subseteq U, \A n \in DomainNames : T[n] \subseteq T2[n]
    PROVE  JobOK(c, j, dom2, ups2, T2, U2)
  <1>1. CASE j.pc # "run"
    BY <1>1 DEF JobOK
  <1>2. CASE j.pc = "run"
    <2>0. RunOK(c, j, dom, ups, T, U) /\ j \in JobRec
      BY <1>2 DEF JobOK
    <2>1. j.call.d \in Ids /\ j.call.u \in Ids \cup {0} /\ NewId[c] \in Ids
      BY <2>0, CallIs, StoredAssumption
    <2>2. ASSUME DomainRead(j)
          PROVE  /\ j.call.d \notin U2
                 /\ dom2[j.call.d] = NoDomain \/ dom2[j.call.d].tenant = j.tenant
                 /\ j.call.op = "enable_domain" => dom2[j.call.d] = NoDomain \/ dom2[j.call.d].status = "verified"
                 /\ j.call.op = "verify_domain" =>
                      j.snap \in DomainRow /\ (dom2[j.call.d] = NoDomain \/ dom2[j.call.d].name = j.snap.name)
      <3>1. j.call.d \in Ids \ U
        BY <2>0, <2>1, <2>2 DEF RunOK
      <3> QED BY <2>0, <2>2, <3>1 DEF RunOK, KeptDomains
    <2>3. j.call.op = "verify_domain" /\ j.i = 4 /\ j.snap.method = "dns" => j.call.d \in T2[j.snap.name]
      <3> SUFFICES ASSUME j.call.op = "verify_domain", j.i = 4, j.snap.method = "dns"
                   PROVE  j.call.d \in T2[j.snap.name]
        OBVIOUS
      <3>1. j.snap \in DomainRow
        BY <2>0 DEF RunOK, DomainRead
      <3>2. j.snap.name \in DomainNames
        BY <3>1 DEF DomainRow
      <3> QED BY <2>0, <3>2 DEF RunOK
    <2>4. UpstreamRead(j) /\ j.call.u # 0 =>
            j.call.u \notin U2 /\ (ups2[j.call.u] = NoUpstream \/ ups2[j.call.u].tenant = j.tenant)
      BY <2>0, <2>1 DEF RunOK, KeptUpstreams
    <2>5. j.call.op = "create_upstream" /\ j.i = 2 =>
            j.made = NewId[c] /\ (ups2[NewId[c]] = NoUpstream \/ ups2[NewId[c]].tenant = j.tenant)
      <3>1. NewId[c] # 0
        BY <2>1, TenantAssumption
      <3> QED BY <2>0, <2>1, <3>1 DEF RunOK, KeptUpstreams
    <2>6. RunOK(c, j, dom2, ups2, T2, U2)
      BY <2>0, <2>2, <2>3, <2>4, <2>5 DEF RunOK
    <2> QED BY <2>6 DEF JobOK
  <1> QED BY <1>1, <1>2

LEMMA RowsAre ==
    /\ NoDomain.tenant = "" /\ NoDomain.name = "" /\ NoDomain.status = "pending" /\ NoDomain.enabled = FALSE
    /\ NoRoute.tenant = "" /\ NoRoute.domain = 0 /\ NoRoute.upstream = 0
    /\ NoUpstream.tenant = "" /\ NoKey.tenant = ""
    /\ \A x \in DomainRow : x.tenant \in Tenants /\ x.name \in DomainNames /\ x.method \in Methods
         /\ x.tenant # "" /\ x # NoDomain
    /\ \A x \in RouteRow : x.tenant \in Tenants /\ x.domain \in Ids /\ x.upstream \in Ids \cup {0} /\ x.tenant # "" /\ x # NoRoute
    /\ \A x \in UpstreamRow : x.tenant \in Tenants /\ x.tenant # "" /\ x # NoUpstream
    /\ \A x \in KeyRow : x.tenant \in Tenants /\ x.tenant # "" /\ x # NoKey
  <1>1. /\ NoDomain.tenant = "" /\ NoDomain.name = "" /\ NoDomain.status = "pending" /\ NoDomain.enabled = FALSE
        /\ NoRoute.tenant = "" /\ NoRoute.domain = 0 /\ NoRoute.upstream = 0
        /\ NoUpstream.tenant = "" /\ NoKey.tenant = ""
    BY DEF NoDomain, NoRoute, NoUpstream, NoKey
  <1>2. \A x \in DomainRow : x.tenant \in Tenants /\ x.name \in DomainNames /\ x.method \in Methods
    BY DEF DomainRow
  <1>3. \A x \in RouteRow : x.tenant \in Tenants /\ x.domain \in Ids /\ x.upstream \in Ids \cup {0}
    BY DEF RouteRow
  <1>4. \A x \in UpstreamRow : x.tenant \in Tenants
    BY DEF UpstreamRow
  <1>5. \A x \in KeyRow : x.tenant \in Tenants
    BY DEF KeyRow
  <1> QED BY <1>1, <1>2, <1>3, <1>4, <1>5, TenantAssumption

\* A step of c that leaves the published tokens alone.
JobStep(c, j) == job' = [job EXCEPT ![c] = j]

LEMMA UnusedShrinks ==
    ASSUME job \in [Callers -> JobRec], NEW c \in Callers, NEW j, JobStep(c, j), Pend(j) => Pend(job[c])
    PROVE  /\ Unused' \subseteq Unused
           /\ ~Pend(j) => NewId[c] \notin Unused'
  <1>1. \A x \in Callers : job'[x] = IF x = c THEN j ELSE job[x]
    BY DEF JobStep
  <1>2. \A x \in Callers : NewId[x] = NewId[c] => x = c
    BY StoredAssumption
  <1> QED BY <1>1, <1>2 DEF Unused

LEMMA TableStep ==
    ASSUME TenantInv, NEW c \in Callers, NEW j, JobStep(c, j), Pend(j) => Pend(job[c]), UNCHANGED txt,
           Tables', KeptDomains(domains, domains', Unused), KeptUpstreams(upstreams, upstreams', Unused),
           \A x \in Unused : Pend(j) \/ x # NewId[c] => Untaken(x)',
           RoutesStayHome', VerifiedByController',
           JobOK(c, j, domains', upstreams', txt, Unused')
    PROVE  TenantInv'
  <1>1. job \in [Callers -> JobRec] /\ j \in JobRec
    BY DEF TenantInv, JobOK
  <1>2. job' \in [Callers -> JobRec] /\ \A x \in Callers : job'[x] = IF x = c THEN j ELSE job[x]
    BY <1>1 DEF JobStep
  <1>3. Unused' \subseteq Unused /\ (~Pend(j) => NewId[c] \notin Unused')
    BY <1>1, UnusedShrinks
  <1>4. \A x \in Unused' : Untaken(x)'
    BY <1>3
  <1>5. ASSUME NEW x \in Callers PROVE JobOK(x, job'[x], domains', upstreams', txt', Unused')
    <2>1. CASE x = c
      BY <1>2, <2>1
    <2>2. CASE x # c
      <3>1. JobOK(x, job[x], domains, upstreams, txt, Unused)
        BY DEF TenantInv
      <3>2. NewId[x] \notin Unused \/ job[x].made = 0
        <4>1. job[x].made # 0 => ~Pend(job[x])
          BY DEF Pend
        <4>2. \A y \in Callers : NewId[y] = NewId[x] => y = x
          BY StoredAssumption
        <4> QED BY <4>1, <4>2 DEF Unused
      <3>3. \A n \in DomainNames : txt[n] \subseteq txt'[n]
        OBVIOUS
      <3>4. JobOK(x, job[x], domains', upstreams', txt', Unused')
        BY <1>3, <3>1, <3>2, <3>3, JobKept
      <3> QED BY <1>2, <2>2, <3>4
    <2> QED BY <2>1, <2>2
  <1>6. Tokens(domains', txt', Unused')
    <2> SUFFICES ASSUME NEW n \in DomainNames, NEW d \in txt[n]
                 PROVE  d \notin Unused' /\ (domains'[d] = NoDomain \/ (domains'[d].tenant = Controller[n] /\ domains'[d].name = n))
      BY DEF Tokens
    <2>1. d \in Ids
      BY DEF TenantInv, Tables
    <2>2. d \notin Unused /\ (domains[d] = NoDomain \/ (domains[d].tenant = Controller[n] /\ domains[d].name = n))
      BY DEF TenantInv, Tokens
    <2> QED BY <1>3, <2>1, <2>2 DEF KeptDomains
  <1> QED BY <1>2, <1>4, <1>5, <1>6 DEF TenantInv

\* A step that changes no table.
LEMMA ReadStep ==
    ASSUME TenantInv, NEW c \in Callers, NEW j, JobStep(c, j), Pend(j) => Pend(job[c]),
           UNCHANGED <<domains, routes, upstreams, keys, txt>>,
           JobOK(c, j, domains, upstreams, txt, Unused)
    PROVE  TenantInv'
  <1>1. Tables' /\ RoutesStayHome' /\ VerifiedByController' /\ \A x \in Unused : Untaken(x)'
    BY DEF TenantInv, Tables, RoutesStayHome, VerifiedByController, Untaken
  <1>2. KeptDomains(domains, domains', Unused) /\ KeptUpstreams(upstreams, upstreams', Unused)
    BY SameKept
  <1>3. Unused' \subseteq Unused
    BY UnusedShrinks DEF TenantInv
  <1>4. NewId[c] \notin Unused' \/ j.made = 0
    BY UnusedShrinks DEF TenantInv, Pend
  <1>5. JobOK(c, j, domains, upstreams, txt, Unused')
    <2>1. CASE j.pc = "run"
      BY <1>3, <2>1 DEF JobOK, RunOK
    <2>2. CASE j.pc # "run"
      BY <2>2 DEF JobOK
    <2> QED BY <2>1, <2>2
  <1>6. JobOK(c, j, domains', upstreams', txt, Unused')
    BY <1>5
  <1> QED BY <1>1, <1>2, <1>6, TableStep

\* A handler's answer.
Ended2(j, s) == [j EXCEPT !.pc = "done", !.status = s, !.snap = NoDomain]

LEMMA DoneOK ==
    ASSUME NEW c, NEW j \in JobRec, j.made \in {0, NewId[c]}, NEW s \in Nat, NEW dom, NEW ups, NEW T, NEW U
    PROVE  /\ JobOK(c, Ended2(j, s), dom, ups, T, U) /\ ~Pend(Ended2(j, s)) /\ Ended2(j, s) \in JobRec
           /\ Ended2(j, s).pc = "done"
  <1> DEFINE e == Ended2(j, s)
  <1>1. e \in JobRec /\ e.pc = "done" /\ e.made = j.made
    BY DEF Ended2, JobRec
  <1> QED BY <1>1 DEF JobOK, Pend

\* The next statement, and the job after a statement that succeeded.
Up(k) == [k EXCEPT !.i = k.i + 1]
Moved(c, k) == IF Last(c) THEN Ended2(k, 200) ELSE Up(k)

\* k is the job of c with other snap, made and todo.
Carries(c, k) ==
    /\ k \in JobRec /\ k.call = job[c].call /\ k.i = job[c].i /\ k.pc = "run" /\ k.tenant = job[c].tenant
    /\ k.made \in {0, NewId[c]} /\ (k.made = 0 => job[c].made = 0)

\* What c wrote was its tenant's.
OwnersOf(c) ==
    /\ \A d \in Ids : domains'[d] # domains[d] =>
         job[c].tenant = IF domains[d] = NoDomain THEN domains'[d].tenant ELSE domains[d].tenant
    /\ \A r \in Ids : routes'[r] # routes[r] =>
         job[c].tenant = IF routes[r] = NoRoute THEN routes'[r].tenant ELSE routes[r].tenant
    /\ \A u \in Ids : upstreams'[u] # upstreams[u] =>
         job[c].tenant = IF upstreams[u] = NoUpstream THEN upstreams'[u].tenant ELSE upstreams[u].tenant
    /\ \A k \in Ids : keys'[k] # keys[k] =>
         job[c].tenant = IF keys[k] = NoKey THEN keys'[k].tenant ELSE keys[k].tenant

Touches(c) == job'[c] # job[c] /\ OwnersOf(c)

LEMMA UpIs ==
    ASSUME NEW k \in JobRec
    PROVE  /\ Up(k) \in JobRec /\ Up(k).i = k.i + 1 /\ Up(k).call = k.call /\ Up(k).pc = k.pc
           /\ Up(k).tenant = k.tenant /\ Up(k).made = k.made /\ Up(k).snap = k.snap /\ Up(k).todo = k.todo
           /\ Up(k).scopes = k.scopes
  <1>1. k.i \in Nat
    BY DEF JobRec
  <1>2. PICK n \in Nat : n = k.i + 1
    BY <1>1
  <1>3. Up(k) = [k EXCEPT !.i = n]
    BY <1>2 DEF Up
  <1>4. /\ Up(k) \in JobRec /\ Up(k).i = n /\ Up(k).call = k.call /\ Up(k).pc = k.pc
        /\ Up(k).tenant = k.tenant /\ Up(k).made = k.made /\ Up(k).snap = k.snap /\ Up(k).todo = k.todo
        /\ Up(k).scopes = k.scopes
    BY <1>3 DEF JobRec
  <1> QED BY <1>2, <1>4

LEMMA JobIs ==
    ASSUME TenantInv, NEW c \in Callers
    PROVE  /\ job[c] \in JobRec /\ JobOK(c, job[c], domains, upstreams, txt, Unused)
           /\ job[c].made \in {0, NewId[c]} /\ job[c].i \in Nat /\ NewId[c] \in Ids /\ NewId[c] # 0
  <1>1. JobOK(c, job[c], domains, upstreams, txt, Unused)
    BY DEF TenantInv
  <1>2. job[c] \in JobRec /\ job[c].made \in {0, NewId[c]}
    BY <1>1 DEF JobOK
  <1>3. job[c].i \in Nat
    BY <1>2 DEF JobRec
  <1>4. NewId[c] \in Ids
    BY StoredAssumption
  <1>5. NewId[c] # 0
    BY <1>4, TenantAssumption
  <1> QED BY <1>1, <1>2, <1>3, <1>4, <1>5

LEMMA RunningIs ==
    ASSUME TenantInv, NEW c \in Callers, NEW s, At(c, s)
    PROVE  /\ job[c] \in JobRec /\ job[c].pc = "run" /\ job[c].tenant \in Tenants
           /\ job[c].i \in 1..Len(Program(job[c].call.op)) /\ job[c].i \in Nat
           /\ RunOK(c, job[c], domains, upstreams, txt, Unused)
           /\ StatementAt(job[c].call.op, job[c].i, s)
           /\ job[c].made \in {0, NewId[c]} /\ job[c].status \in Nat
  <1>1. JobOK(c, job[c], domains, upstreams, txt, Unused) /\ job[c].pc = "run" /\ Program(job[c].call.op)[job[c].i] = s
    BY DEF TenantInv, At
  <1>2. /\ job[c] \in JobRec /\ job[c].tenant \in Tenants
        /\ job[c].i \in 1..Len(Program(job[c].call.op)) /\ RunOK(c, job[c], domains, upstreams, txt, Unused)
        /\ job[c].made \in {0, NewId[c]}
    BY <1>1 DEF JobOK
  <1>3. job[c].i \in Nat /\ job[c].status \in Nat
    BY <1>2 DEF JobRec
  <1>4. StatementAt(job[c].call.op, job[c].i, s)
    BY <1>1, <1>2, StatementIs
  <1> QED BY <1>1, <1>2, <1>3, <1>4

LEMMA ThenIs ==
    ASSUME TenantInv, NEW c \in Callers, NEW s, At(c, s), NEW k, Carries(c, k), Then(c, k)
    PROVE  /\ JobStep(c, Moved(c, k)) /\ job'[c] # job[c] /\ (Pend(Moved(c, k)) => Pend(job[c]))
           /\ UNCHANGED <<suspended, txt, failures>>
           /\ \A dom, ups, T, U :
                (~Last(c) => RunOK(c, Up(k), dom, ups, T, U)) => JobOK(c, Moved(c, k), dom, ups, T, U)
  <1>0. /\ k \in JobRec /\ k.call = job[c].call /\ k.i = job[c].i /\ k.pc = "run" /\ k.tenant = job[c].tenant
        /\ k.made \in {0, NewId[c]} /\ (k.made = 0 => job[c].made = 0)
    BY DEF Carries
  <1>1. /\ job[c].pc = "run" /\ job[c].tenant \in Tenants /\ job[c].i \in 1..Len(Program(job[c].call.op))
        /\ job[c].i \in Nat /\ job \in [Callers -> JobRec]
    BY RunningIs DEF TenantInv
  <1>2. JobStep(c, Moved(c, k)) /\ UNCHANGED <<suspended, txt, failures>>
    BY DEF Then, Advance, JobStep, Moved, Ended2, Up
  <1>3. job'[c] = Moved(c, k)
    BY <1>1, <1>2 DEF JobStep
  <1>4. CASE Last(c)
    <2>1. Moved(c, k) = Ended2(k, 200) /\ 200 \in Nat
      BY <1>4 DEF Moved
    <2>2. \A dom, ups, T, U : JobOK(c, Ended2(k, 200), dom, ups, T, U)
      BY <1>0, <2>1, DoneOK
    <2>3. ~Pend(Ended2(k, 200)) /\ Ended2(k, 200).pc = "done"
      BY <1>0, <2>1, DoneOK, ZenonT(120)
    <2>4. job'[c] # job[c]
      BY <1>1, <1>3, <2>1, <2>3
    <2>5. \A dom, ups, T, U : JobOK(c, Moved(c, k), dom, ups, T, U)
      BY <2>1, <2>2
    <2>6. ~Pend(Moved(c, k))
      BY <2>1, <2>3
    <2> QED BY <1>2, <2>4, <2>5, <2>6
  <1>5. CASE ~Last(c)
    <2>1. Moved(c, k) = Up(k)
      BY <1>5 DEF Moved
    <2>2. Up(k).i # job[c].i /\ Up(k).i \in 1..Len(Program(job[c].call.op))
      <3>1. Len(Program(job[c].call.op)) \in Nat
        <4>1. Program(job[c].call.op) \in Seq(STRING) \/ Len(Program(job[c].call.op)) \in Nat
          <5>1. job[c].call.op \notin AllOps => Len(Program(job[c].call.op)) \in Nat
            BY OtherProgram
          <5>2. job[c].call.op \in AllOps => Len(Program(job[c].call.op)) \in Nat
            BY Programs DEF AllOps, DomainOps, RouteOps, UpstreamOps
          <5> QED BY <5>1, <5>2
        <4> QED BY <4>1
      <3> QED BY <1>0, <1>1, <1>5, <3>1, UpIs DEF Last
    <2>3. Up(k).pc = "run" /\ Up(k).made = k.made /\ Up(k) \in JobRec /\ Up(k).tenant \in Tenants
          /\ Up(k).call.op = job[c].call.op
      BY <1>0, <1>1, UpIs
    <2>4. \A dom, ups, T, U : RunOK(c, Up(k), dom, ups, T, U) => JobOK(c, Up(k), dom, ups, T, U)
      BY <1>0, <2>2, <2>3 DEF JobOK
    <2>5. Pend(Up(k)) => Pend(job[c])
      BY <1>0, <1>1, <2>3 DEF Pend
    <2> QED BY <1>2, <1>3, <1>5, <2>1, <2>2, <2>4, <2>5
  <1> QED BY <1>4, <1>5

\* A handler that answers without having written.
LEMMA AnswerStep ==
    ASSUME TenantInv, NEW c \in Callers, job[c].pc # "done", NEW s \in Nat, Answer(c, s),
           UNCHANGED <<domains, routes, upstreams, keys>>
    PROVE  TenantInv' /\ Touches(c)
  <1>1. job[c] \in JobRec /\ job[c].made \in {0, NewId[c]} /\ job \in [Callers -> JobRec]
    BY JobIs DEF TenantInv
  <1>2. JobStep(c, Ended2(job[c], s)) /\ UNCHANGED txt
    BY DEF Answer, Advance, JobStep, Ended2
  <1>3. /\ JobOK(c, Ended2(job[c], s), domains, upstreams, txt, Unused) /\ ~Pend(Ended2(job[c], s))
        /\ Ended2(job[c], s).pc = "done"
    BY <1>1, DoneOK
  <1>4. job'[c] = Ended2(job[c], s)
    BY <1>1, <1>2 DEF JobStep
  <1>5. job'[c] # job[c]
    BY <1>3, <1>4
  <1>6. TenantInv'
    BY <1>2, <1>3, ReadStep
  <1>7. OwnersOf(c)
    BY DEF OwnersOf
  <1> QED BY <1>5, <1>6, <1>7 DEF Touches

\* A statement that only reads, and goes on.
LEMMA ReadOn ==
    ASSUME TenantInv, NEW c \in Callers, NEW s, At(c, s), NEW k, Carries(c, k), Then(c, k),
           UNCHANGED <<domains, routes, upstreams, keys>>,
           ~Last(c) => RunOK(c, Up(k), domains, upstreams, txt, Unused)
    PROVE  TenantInv' /\ Touches(c)
  <1>1. /\ JobStep(c, Moved(c, k)) /\ job'[c] # job[c] /\ (Pend(Moved(c, k)) => Pend(job[c])) /\ UNCHANGED txt
        /\ JobOK(c, Moved(c, k), domains, upstreams, txt, Unused)
    BY ThenIs
  <1>2. TenantInv'
    BY <1>1, ReadStep
  <1>3. OwnersOf(c)
    BY DEF OwnersOf
  <1> QED BY <1>1, <1>2, <1>3 DEF Touches

LEMMA SameCarries ==
    ASSUME TenantInv, NEW c \in Callers, NEW s, At(c, s)
    PROVE  Carries(c, job[c])
  BY RunningIs DEF Carries

\* A row of the tenant is there, so its id has been taken.
LEMMA OwnedRow ==
    ASSUME TenantInv, NEW t \in Tenants, NEW x \in Ids
    PROVE  /\ domains[x].tenant = t => domains[x] \in DomainRow /\ x \notin Unused
           /\ routes[x].tenant = t => routes[x] \in RouteRow /\ x \notin Unused
           /\ upstreams[x].tenant = t => upstreams[x] \in UpstreamRow /\ x \notin Unused
           /\ keys[x].tenant = t => keys[x] \in KeyRow /\ x \notin Unused
  <1>1. /\ domains[x] \in DomainRow \cup {NoDomain} /\ routes[x] \in RouteRow \cup {NoRoute}
        /\ upstreams[x] \in UpstreamRow \cup {NoUpstream} /\ keys[x] \in KeyRow \cup {NoKey}
    BY DEF TenantInv, Tables
  <1>2. t # ""
    BY TenantAssumption
  <1>3. x \in Unused => domains[x] = NoDomain /\ routes[x] = NoRoute /\ upstreams[x] = NoUpstream /\ keys[x] = NoKey
    BY DEF TenantInv, Untaken
  <1> QED BY <1>1, <1>2, <1>3, RowsAre

Snapped(k, row) == [k EXCEPT !.snap = row]

LEMMA GetDomainOK ==
    ASSUME TenantInv, NEW c \in Callers, GetDomain(c)
    PROVE  TenantInv' /\ Touches(c)
  <1>0. At(c, "get_domain") /\ UNCHANGED <<domains, routes, upstreams, keys>>
    BY DEF GetDomain, rows
  <1>1. /\ job[c] \in JobRec /\ job[c].pc = "run" /\ job[c].tenant \in Tenants /\ job[c].i \in Nat
        /\ RunOK(c, job[c], domains, upstreams, txt, Unused) /\ job[c].made \in {0, NewId[c]}
        /\ job[c].i = 1 /\ job[c].call.op \in {"verify_domain", "enable_domain", "disable_domain", "create_route"}
    BY <1>0, RunningIs DEF StatementAt
  <1>2. job[c].call.d \in Ids /\ job[c].made = 0
    BY <1>1, CallIs DEF RunOK
  <1>3. CASE Answer(c, 404) \/ Answer(c, 400)
    BY <1>0, <1>1, <1>3, AnswerStep
  <1>4. CASE /\ Mine(c, domains[job[c].call.d])
             /\ job[c].call.op = "enable_domain" => domains[job[c].call.d].status = "verified"
             /\ Then(c, [job[c] EXCEPT !.snap = domains[job[c].call.d]])
    <2>1. PICK d \in Ids : d = job[c].call.d
      BY <1>2
    <2>2. domains[d].tenant = job[c].tenant /\ Then(c, Snapped(job[c], domains[d]))
          /\ (job[c].call.op = "enable_domain" => domains[d].status = "verified")
      BY <1>4, <2>1 DEF Mine, Snapped
    <2>3. domains[d] \in DomainRow /\ d \notin Unused
      BY <1>1, <2>2, OwnedRow
    <2>4. PICK k : k = Snapped(job[c], domains[d])
      OBVIOUS
    <2>5. /\ k \in JobRec /\ k.call = job[c].call /\ k.i = job[c].i /\ k.pc = job[c].pc /\ k.tenant = job[c].tenant
          /\ k.made = job[c].made /\ k.snap = domains[d]
      BY <1>1, <2>3, <2>4 DEF Snapped, JobRec
    <2>6. Carries(c, k)
      BY <1>1, <2>5 DEF Carries
    <2>7. PICK n : n = Up(k)
      OBVIOUS
    <2>8. n.call = job[c].call /\ n.i = 2 /\ n.tenant = job[c].tenant /\ n.made = 0 /\ n.snap = domains[d]
      BY <1>1, <1>2, <2>5, <2>7, UpIs
    <2>9. RunOK(c, n, domains, upstreams, txt, Unused)
      BY <1>1, <2>1, <2>2, <2>3, <2>8 DEF RunOK, DomainRead, UpstreamRead
    <2> QED BY <1>0, <2>2, <2>4, <2>6, <2>7, <2>9, ReadOn
  <1> QED BY <1>3, <1>4 DEF GetDomain

LEMMA GetUpstreamOK ==
    ASSUME TenantInv, NEW c \in Callers, GetUpstream(c)
    PROVE  TenantInv' /\ Touches(c)
  <1>0. At(c, "get_upstream") /\ UNCHANGED <<domains, routes, upstreams, keys>>
    BY DEF GetUpstream, rows
  <1>1. /\ job[c] \in JobRec /\ job[c].pc = "run" /\ job[c].tenant \in Tenants /\ job[c].i \in Nat
        /\ RunOK(c, job[c], domains, upstreams, txt, Unused) /\ job[c].made \in {0, NewId[c]}
        /\ \/ job[c].i = 2 /\ job[c].call.op \in {"create_route", "update_route"}
           \/ job[c].i = 1 /\ job[c].call.op = "add_backend"
    BY <1>0, RunningIs DEF StatementAt
  <1>2. job[c].call.u \in Ids \cup {0} /\ job[c].made = 0
    BY <1>1, CallIs DEF RunOK
  <1>3. CASE Answer(c, 404)
    BY <1>0, <1>1, <1>3, AnswerStep
  <1>4. CASE (job[c].call.u # 0 => Mine(c, upstreams[job[c].call.u])) /\ Same(c)
    <2>1. Then(c, job[c]) /\ Carries(c, job[c])
      BY <1>0, <1>4, SameCarries DEF Same
    <2>2. job[c].call.u # 0 => job[c].call.u \notin Unused /\ upstreams[job[c].call.u].tenant = job[c].tenant
      BY <1>1, <1>2, <1>4, OwnedRow DEF Mine
    <2>3. PICK n : n = Up(job[c])
      OBVIOUS
    <2>4. /\ n.call = job[c].call /\ n.i = job[c].i + 1 /\ n.tenant = job[c].tenant /\ n.made = 0 /\ n.snap = job[c].snap
      BY <1>1, <1>2, <2>3, UpIs
    <2>5. CASE job[c].call.op = "create_route"
      <3>1. n.i = 3 /\ DomainRead(job[c])
        BY <1>1, <2>4, <2>5 DEF DomainRead
      <3> QED BY <1>0, <1>1, <2>1, <2>2, <2>3, <2>4, <2>5, <3>1, ReadOn DEF RunOK, DomainRead, UpstreamRead
    <2>6. CASE job[c].call.op = "update_route" \/ job[c].call.op = "add_backend"
      <3>1. RunOK(c, n, domains, upstreams, txt, Unused)
        BY <1>1, <2>2, <2>4, <2>6 DEF RunOK, DomainRead, UpstreamRead
      <3> QED BY <1>0, <2>1, <2>3, <3>1, ReadOn
    <2> QED BY <1>1, <2>5, <2>6
  <1> QED BY <1>3, <1>4 DEF GetUpstream

\* The statements before which a handler has nothing to know: they read.
LEMMA PlainReadOK ==
    ASSUME TenantInv, NEW c \in Callers, GetRoute(c) \/ CheckQuota(c) \/ DomainExists(c)
    PROVE  TenantInv' /\ Touches(c)
  <1>0. /\ At(c, "get_route") \/ At(c, "quota") \/ At(c, "exists")
        /\ UNCHANGED <<domains, routes, upstreams, keys>>
        /\ Answer(c, 404) \/ Answer(c, 402) \/ Answer(c, 409) \/ Then(c, job[c])
    BY DEF GetRoute, CheckQuota, DomainExists, rows, Same
  <1>1. PICK s \in {"get_route", "quota", "exists"} : At(c, s)
    BY <1>0
  <1>2. /\ job[c] \in JobRec /\ job[c].pc = "run" /\ job[c].i \in Nat /\ job[c].made \in {0, NewId[c]}
        /\ RunOK(c, job[c], domains, upstreams, txt, Unused)
        /\ \/ job[c].i = 1 /\ job[c].call.op \in {"update_route", "delete_route"}
           \/ job[c].i \in {1, 2} /\ job[c].call.op = "create_domain"
    BY <1>1, RunningIs DEF StatementAt
  <1>3. CASE Answer(c, 404) \/ Answer(c, 402) \/ Answer(c, 409)
    BY <1>0, <1>2, <1>3, AnswerStep
  <1>4. CASE Then(c, job[c])
    <2>1. Carries(c, job[c]) /\ job[c].made = 0
      BY <1>1, <1>2, SameCarries DEF RunOK
    <2>2. PICK n : n = Up(job[c])
      OBVIOUS
    <2>3. n.call = job[c].call /\ n.i = job[c].i + 1 /\ n.made = 0
      BY <1>2, <2>1, <2>2, UpIs
    <2>4. n.i \in {2, 3}
      BY <1>2, <2>3
    <2>5. RunOK(c, n, domains, upstreams, txt, Unused)
      BY <1>2, <2>3, <2>4 DEF RunOK, DomainRead, UpstreamRead
    <2> QED BY <1>0, <1>1, <1>4, <2>1, <2>2, <2>5, ReadOn
  <1> QED BY <1>0, <1>3, <1>4

LEMMA ProofReadOK ==
    ASSUME TenantInv, NEW c \in Callers, RecordAttempt(c) \/ CheckProof(c)
    PROVE  TenantInv' /\ Touches(c)
  <1>0. /\ At(c, "attempt") \/ (At(c, "lookup") /\ (Then(c, job[c]) => Answer(c, 200) \/ Found(c)))
        /\ UNCHANGED <<domains, routes, upstreams, keys>>
        /\ Answer(c, 200) \/ Then(c, job[c])
    BY DEF RecordAttempt, CheckProof, rows, Same
  <1>1. PICK s \in {"attempt", "lookup"} : At(c, s) /\ (s = "lookup" /\ Then(c, job[c]) => Answer(c, 200) \/ Found(c))
    BY <1>0
  <1>2. /\ job[c] \in JobRec /\ job[c].pc = "run" /\ job[c].i \in Nat /\ job[c].made \in {0, NewId[c]}
        /\ RunOK(c, job[c], domains, upstreams, txt, Unused) /\ job[c].call.op = "verify_domain"
        /\ (s = "attempt" /\ job[c].i = 2) \/ (s = "lookup" /\ job[c].i = 3)
    BY <1>1, RunningIs DEF StatementAt
  <1>3. CASE Answer(c, 200)
    BY <1>0, <1>2, <1>3, AnswerStep
  <1>4. CASE Then(c, job[c]) /\ ~Answer(c, 200)
    <2>1. Carries(c, job[c]) /\ job[c].made = 0 /\ DomainRead(job[c])
      BY <1>1, <1>2, SameCarries DEF RunOK, DomainRead
    <2>2. PICK n : n = Up(job[c])
      OBVIOUS
    <2>3. /\ n.call = job[c].call /\ n.i = job[c].i + 1 /\ n.made = 0 /\ n.snap = job[c].snap
          /\ n.tenant = job[c].tenant
      BY <1>2, <2>1, <2>2, UpIs
    <2>4. (n.i = 3 /\ s = "attempt") \/ (n.i = 4 /\ s = "lookup")
      BY <1>2, <2>3
    <2>5. n.i = 4 /\ n.snap.method = "dns" => n.call.d \in txt[n.snap.name]
      <3> SUFFICES ASSUME n.i = 4, n.snap.method = "dns" PROVE n.call.d \in txt[n.snap.name]
        OBVIOUS
      <3>1. Found(c)
        BY <1>1, <1>4, <2>4
      <3> QED BY <2>3, <3>1 DEF Found
    <2>6. RunOK(c, n, domains, upstreams, txt, Unused)
      BY <1>2, <2>1, <2>3, <2>4, <2>5 DEF RunOK, DomainRead, UpstreamRead
    <2> QED BY <1>0, <1>1, <1>4, <2>1, <2>2, <2>6, ReadOn
  <1> QED BY <1>0, <1>3, <1>4

LEMMA ListOK ==
    ASSUME TenantInv, NEW c \in Callers, List(c)
    PROVE  TenantInv' /\ Touches(c)
  <1>0. At(c, "list") /\ UNCHANGED <<domains, routes, upstreams, keys>> /\ Then(c, job[c])
    BY DEF List, rows, Same
  <1>1. job[c].i = 1 /\ job[c].call.op \notin AllOps
    BY <1>0, RunningIs DEF StatementAt
  <1>2. Last(c)
    BY <1>1, OtherProgram DEF Last
  <1>3. Carries(c, job[c])
    BY <1>0, SameCarries
  <1> QED BY <1>0, <1>2, <1>3, ReadOn

LEMMA LastIs ==
    ASSUME TenantInv, NEW c \in Callers,
           NEW s \in {"set_verified", "set_enabled", "domain_delete", "domain_update", "challenge_insert", "route_insert",
                      "route_update", "route_delete", "backends_insert", "upstream_update", "upstream_delete",
                      "backend_insert", "backend_delete", "key_insert", "key_delete"},
           At(c, s)
    PROVE  Last(c)
  <1>1. StatementAt(job[c].call.op, job[c].i, s)
    BY RunningIs
  <1>2. CASE s \in {"challenge_insert", "set_verified"}
    <2>1. job[c].i = 4 /\ job[c].call.op \in {"create_domain", "verify_domain"}
      BY <1>1, <1>2 DEF StatementAt
    <2> QED BY <2>1, Programs DEF Last
  <1>3. CASE s \in {"route_insert", "route_update"}
    <2>1. job[c].i = 3 /\ job[c].call.op \in {"create_route", "update_route"}
      BY <1>1, <1>3 DEF StatementAt
    <2> QED BY <2>1, Programs DEF Last
  <1>4. CASE s \in {"set_enabled", "route_delete", "backends_insert", "backend_insert"}
    <2>1. job[c].i = 2 /\ job[c].call.op \in {"enable_domain", "disable_domain", "delete_route", "create_upstream", "add_backend"}
      BY <1>1, <1>4 DEF StatementAt
    <2> QED BY <2>1, Programs DEF Last
  <1>5. CASE s \in {"domain_delete", "domain_update", "upstream_update", "upstream_delete", "backend_delete", "key_insert", "key_delete"}
    <2>1. job[c].i = 1 /\ job[c].call.op \in {"delete_domain", "update_domain", "update_upstream", "delete_upstream",
                                               "remove_backend", "create_api_key", "revoke_api_key"}
      BY <1>1, <1>5 DEF StatementAt
    <2> QED BY <2>1, Programs DEF Last
  <1> QED BY <1>2, <1>3, <1>4, <1>5

\* The last statement of a handler writes.
LEMMA LastWrite ==
    ASSUME TenantInv, NEW c \in Callers, NEW s, At(c, s), Last(c), Then(c, job[c]),
           Tables', KeptDomains(domains, domains', Unused), KeptUpstreams(upstreams, upstreams', Unused),
           \A x \in Unused : x # NewId[c] => Untaken(x)', RoutesStayHome', VerifiedByController', OwnersOf(c)
    PROVE  TenantInv' /\ Touches(c)
  <1>0. Carries(c, job[c]) /\ job[c] \in JobRec /\ job[c].made \in {0, NewId[c]} /\ 200 \in Nat
    BY SameCarries, RunningIs
  <1>1. PICK m : m = Moved(c, job[c])
    OBVIOUS
  <1>2. JobStep(c, m) /\ job'[c] # job[c] /\ (Pend(m) => Pend(job[c])) /\ UNCHANGED txt
    BY <1>0, <1>1, ThenIs
  <1>3. \A dom, ups, T, U : JobOK(c, m, dom, ups, T, U)
    BY <1>0, <1>1, DoneOK, ZenonT(90) DEF Moved
  <1>4. ~Pend(m)
    BY <1>0, <1>1, DoneOK, ZenonT(60) DEF Moved
  <1>5. JobOK(c, m, domains', upstreams', txt, Unused')
    BY <1>3
  <1>6. TenantInv'
    BY <1>2, <1>4, <1>5, TableStep
  <1> QED BY <1>2, <1>6 DEF Touches

\* One row of a table changes; what the others hold stays.
LEMMA ChangeDomain ==
    ASSUME TenantInv, NEW c \in Callers, NEW s, At(c, s), Last(c), Then(c, job[c]),
           UNCHANGED <<routes, upstreams, keys>>,
           NEW d \in Ids, d \notin Unused, domains[d] \in DomainRow, domains[d].tenant = job[c].tenant,
           NEW row \in DomainRow, row.tenant = domains[d].tenant, row.name = domains[d].name,
           domains[d].status = "verified" => row.status = "verified", row.enabled => row.status = "verified",
           row.status = "verified" /\ row.proof = "dns" => Controller[row.name] = row.tenant,
           domains' = [domains EXCEPT ![d] = row]
    PROVE  TenantInv' /\ Touches(c)
  <1>0. domains \in [Ids -> DomainRow \cup {NoDomain}] /\ row \in DomainRow \cup {NoDomain} /\ domains[d] # NoDomain
    BY RowsAre DEF TenantInv, Tables
  <1>1. /\ domains' \in [Ids -> DomainRow \cup {NoDomain}] /\ domains'[d] = row
        /\ \A x \in Ids : x # d => domains'[x] = domains[x]
    BY <1>0
  <1>2. Tables'
    BY <1>1, ThenIs, SameCarries DEF TenantInv, Tables
  <1>3. KeptDomains(domains, domains', Unused)
    BY <1>0, <1>1 DEF KeptDomains
  <1>4. KeptUpstreams(upstreams, upstreams', Unused)
    BY SameKept
  <1>5. \A x \in Unused : Untaken(x)'
    <2>1. Unused \subseteq Ids
      BY StoredAssumption DEF Unused
    <2> QED BY <1>1, <2>1 DEF TenantInv, Untaken
  <1>6. RoutesStayHome'
    <2>1. \A x \in Ids : domains'[x].tenant = domains[x].tenant
      BY <1>1
    <2>2. \A r \in Ids : routes[r] # NoRoute => routes[r].domain \in Ids
      BY RowsAre DEF TenantInv, Tables
    <2> QED BY <2>1, <2>2 DEF TenantInv, RoutesStayHome
  <1>7. VerifiedByController'
    BY <1>1 DEF TenantInv, VerifiedByController
  <1>8. OwnersOf(c)
    BY <1>0, <1>1 DEF OwnersOf
  <1> QED BY <1>2, <1>3, <1>4, <1>5, <1>6, <1>7, <1>8, LastWrite

LEMMA ChangeRoute ==
    ASSUME TenantInv, NEW c \in Callers, NEW s, At(c, s), Last(c), Then(c, job[c]),
           UNCHANGED <<domains, upstreams, keys>>,
           NEW r \in Ids, r \notin Unused \/ r = NewId[c], NEW row \in RouteRow \cup {NoRoute},
           row # NoRoute => /\ domains[row.domain].tenant = row.tenant
                            /\ row.upstream # 0 => upstreams[row.upstream].tenant = row.tenant,
           job[c].tenant = IF routes[r] = NoRoute THEN row.tenant ELSE routes[r].tenant,
           routes' = [routes EXCEPT ![r] = row]
    PROVE  TenantInv' /\ Touches(c)
  <1>0. routes \in [Ids -> RouteRow \cup {NoRoute}]
    BY DEF TenantInv, Tables
  <1>1. /\ routes' \in [Ids -> RouteRow \cup {NoRoute}] /\ routes'[r] = row
        /\ \A x \in Ids : x # r => routes'[x] = routes[x]
    BY <1>0
  <1>2. Tables'
    BY <1>1, ThenIs, SameCarries DEF TenantInv, Tables
  <1>3. KeptDomains(domains, domains', Unused) /\ KeptUpstreams(upstreams, upstreams', Unused)
    BY SameKept
  <1>4. \A x \in Unused : x # NewId[c] => Untaken(x)'
    <2>1. Unused \subseteq Ids
      BY StoredAssumption DEF Unused
    <2> QED BY <1>1, <2>1 DEF TenantInv, Untaken
  <1>5. RoutesStayHome'
    BY <1>1 DEF TenantInv, RoutesStayHome
  <1>6. VerifiedByController'
    BY DEF TenantInv, VerifiedByController
  <1>7. OwnersOf(c)
    BY <1>1 DEF OwnersOf
  <1> QED BY <1>2, <1>3, <1>4, <1>5, <1>6, <1>7, LastWrite

LEMMA ChangeUpstream ==
    ASSUME TenantInv, NEW c \in Callers, NEW s, At(c, s), Last(c), Then(c, job[c]),
           UNCHANGED <<domains, routes, keys>>,
           NEW u \in Ids, u \notin Unused, upstreams[u] \in UpstreamRow, upstreams[u].tenant = job[c].tenant,
           NEW row \in UpstreamRow, row.tenant = upstreams[u].tenant,
           upstreams' = [upstreams EXCEPT ![u] = row]
    PROVE  TenantInv' /\ Touches(c)
  <1>0. upstreams \in [Ids -> UpstreamRow \cup {NoUpstream}] /\ row \in UpstreamRow \cup {NoUpstream} /\ upstreams[u] # NoUpstream
    BY RowsAre DEF TenantInv, Tables
  <1>1. /\ upstreams' \in [Ids -> UpstreamRow \cup {NoUpstream}] /\ upstreams'[u] = row
        /\ \A x \in Ids : x # u => upstreams'[x] = upstreams[x]
    BY <1>0
  <1>2. Tables'
    BY <1>1, ThenIs, SameCarries DEF TenantInv, Tables
  <1>3. KeptUpstreams(upstreams, upstreams', Unused)
    BY <1>0, <1>1 DEF KeptUpstreams
  <1>4. KeptDomains(domains, domains', Unused)
    BY SameKept
  <1>5. \A x \in Unused : Untaken(x)'
    <2>1. Unused \subseteq Ids
      BY StoredAssumption DEF Unused
    <2> QED BY <1>1, <2>1 DEF TenantInv, Untaken
  <1>6. RoutesStayHome'
    <2>1. \A x \in Ids : upstreams'[x].tenant = upstreams[x].tenant
      BY <1>1
    <2>2. \A r \in Ids : routes[r] # NoRoute => routes[r].upstream \in Ids \cup {0}
      BY RowsAre DEF TenantInv, Tables
    <2> QED BY <2>1, <2>2 DEF TenantInv, RoutesStayHome
  <1>7. VerifiedByController'
    BY DEF TenantInv, VerifiedByController
  <1>8. OwnersOf(c)
    BY <1>0, <1>1 DEF OwnersOf
  <1> QED BY <1>2, <1>3, <1>4, <1>5, <1>6, <1>7, <1>8, LastWrite

LEMMA ChangeKey ==
    ASSUME TenantInv, NEW c \in Callers, NEW s, At(c, s), Last(c), Then(c, job[c]),
           UNCHANGED <<domains, routes, upstreams>>,
           NEW k \in Ids, k \notin Unused \/ k = NewId[c], NEW row \in KeyRow \cup {NoKey},
           job[c].tenant = IF keys[k] = NoKey THEN row.tenant ELSE keys[k].tenant,
           keys' = [keys EXCEPT ![k] = row]
    PROVE  TenantInv' /\ Touches(c)
  <1>0. keys \in [Ids -> KeyRow \cup {NoKey}]
    BY DEF TenantInv, Tables
  <1>1. /\ keys' \in [Ids -> KeyRow \cup {NoKey}] /\ keys'[k] = row
        /\ \A x \in Ids : x # k => keys'[x] = keys[x]
    BY <1>0
  <1>2. Tables'
    BY <1>1, ThenIs, SameCarries DEF TenantInv, Tables
  <1>3. KeptDomains(domains, domains', Unused) /\ KeptUpstreams(upstreams, upstreams', Unused)
    BY SameKept
  <1>4. \A x \in Unused : x # NewId[c] => Untaken(x)'
    <2>1. Unused \subseteq Ids
      BY StoredAssumption DEF Unused
    <2> QED BY <1>1, <2>1 DEF TenantInv, Untaken
  <1>5. RoutesStayHome' /\ VerifiedByController'
    BY DEF TenantInv, RoutesStayHome, VerifiedByController
  <1>7. OwnersOf(c)
    BY <1>1 DEF OwnersOf
  <1> QED BY <1>2, <1>3, <1>4, <1>5, <1>7, LastWrite

VerifiedRow(row, m) == [row EXCEPT !.status = "verified", !.proof = m]

LEMMA SetVerifiedOK ==
    ASSUME TenantInv, NEW c \in Callers, SetVerified(c)
    PROVE  TenantInv' /\ Touches(c)
  <1>0. At(c, "set_verified") /\ UNCHANGED <<routes, upstreams, keys>> /\ Then(c, job[c])
    BY DEF SetVerified, Same
  <1>1. /\ job[c] \in JobRec /\ job[c].tenant \in Tenants
        /\ RunOK(c, job[c], domains, upstreams, txt, Unused) /\ job[c].call.op = "verify_domain" /\ job[c].i = 4
    BY <1>0, RunningIs DEF StatementAt
  <1>2. Last(c) /\ Carries(c, job[c])
    BY <1>0, LastIs, SameCarries
  <1>3. PICK d \in Ids : d = job[c].call.d
    BY <1>1, CallIs
  <1>4. CASE domains[d] = NoDomain
    <2>1. UNCHANGED domains
      BY <1>3, <1>4 DEF SetVerified
    <2> QED BY <1>0, <1>2, <2>1, ReadOn
  <1>5. CASE domains[d] # NoDomain
    <2>1. /\ d \notin Unused /\ domains[d].tenant = job[c].tenant /\ job[c].snap \in DomainRow
          /\ domains[d].name = job[c].snap.name /\ (job[c].snap.method = "dns" => d \in txt[job[c].snap.name])
      BY <1>1, <1>3, <1>5 DEF RunOK, DomainRead
    <2>2. domains \in [Ids -> DomainRow \cup {NoDomain}] /\ domains[d] \in DomainRow
      BY <1>5 DEF TenantInv, Tables
    <2>3. job[c].snap.method \in Methods /\ job[c].snap.name \in DomainNames
      BY <2>1, RowsAre
    <2>4. PICK row : row = VerifiedRow(domains[d], job[c].snap.method)
      OBVIOUS
    <2>5. /\ row \in DomainRow /\ row.tenant = domains[d].tenant /\ row.name = domains[d].name
          /\ row.status = "verified" /\ row.proof = job[c].snap.method
      BY <2>2, <2>3, <2>4 DEF VerifiedRow, DomainRow
    <2>6. domains' = [domains EXCEPT ![d] = row]
      BY <1>3, <1>5, <2>2, <2>4 DEF SetVerified, VerifiedRow
    <2>7. row.proof = "dns" => Controller[row.name] = row.tenant
      BY <1>5, <2>1, <2>3, <2>5 DEF TenantInv, Tokens
    <2> QED BY <1>0, <1>2, <2>1, <2>2, <2>5, <2>6, <2>7, ChangeDomain
  <1> QED BY <1>4, <1>5

EnabledRow(row, on) == [row EXCEPT !.enabled = on]

LEMMA SetEnabledOK ==
    ASSUME TenantInv, NEW c \in Callers, SetEnabled(c)
    PROVE  TenantInv' /\ Touches(c)
  <1>0. At(c, "set_enabled") /\ UNCHANGED <<routes, upstreams, keys>>
    BY DEF SetEnabled
  <1>1. /\ job[c] \in JobRec /\ job[c].tenant \in Tenants /\ job[c].pc = "run"
        /\ RunOK(c, job[c], domains, upstreams, txt, Unused)
        /\ job[c].call.op \in {"enable_domain", "disable_domain"} /\ job[c].i = 2
    BY <1>0, RunningIs DEF StatementAt
  <1>2. Last(c)
    BY <1>0, LastIs
  <1>3. PICK d \in Ids : d = job[c].call.d
    BY <1>1, CallIs
  <1>4. CASE domains[d] = NoDomain
    <2>1. UNCHANGED domains /\ (Answer(c, 400) \/ Answer(c, 404))
      BY <1>3, <1>4 DEF SetEnabled
    <2> QED BY <1>0, <1>1, <2>1, AnswerStep
  <1>5. CASE domains[d] # NoDomain
    <2>1. /\ d \notin Unused /\ domains[d].tenant = job[c].tenant
          /\ job[c].call.op = "enable_domain" => domains[d].status = "verified"
      BY <1>1, <1>3, <1>5 DEF RunOK, DomainRead
    <2>2. domains \in [Ids -> DomainRow \cup {NoDomain}] /\ domains[d] \in DomainRow
      BY <1>5 DEF TenantInv, Tables
    <2>3. PICK on \in BOOLEAN : on = (job[c].call.op = "enable_domain")
      OBVIOUS
    <2>4. PICK row : row = EnabledRow(domains[d], on)
      OBVIOUS
    <2>5. /\ row \in DomainRow /\ row.tenant = domains[d].tenant /\ row.name = domains[d].name
          /\ row.status = domains[d].status /\ row.proof = domains[d].proof /\ row.enabled = on
      BY <2>2, <2>4 DEF EnabledRow, DomainRow
    <2>6. domains' = [domains EXCEPT ![d] = row] /\ Then(c, job[c])
      BY <1>3, <1>5, <2>2, <2>3, <2>4 DEF SetEnabled, EnabledRow, Same
    <2>7. row.status = "verified" /\ row.proof = "dns" => Controller[row.name] = row.tenant
      BY <2>5 DEF TenantInv, VerifiedByController
    <2>8. row.enabled => row.status = "verified"
      BY <2>1, <2>3, <2>5
    <2> QED BY <1>0, <1>2, <2>1, <2>2, <2>5, <2>6, <2>7, <2>8, ChangeDomain
  <1> QED BY <1>4, <1>5

MethodRow(row, m) == [row EXCEPT !.method = m]

LEMMA UpdateDomainOK ==
    ASSUME TenantInv, NEW c \in Callers, UpdateDomain(c)
    PROVE  TenantInv' /\ Touches(c)
  <1>0. At(c, "domain_update") /\ UNCHANGED <<routes, upstreams, keys>>
    BY DEF UpdateDomain
  <1>1. job[c] \in JobRec /\ job[c].tenant \in Tenants /\ job[c].pc = "run"
    BY <1>0, RunningIs
  <1>2. Last(c)
    BY <1>0, LastIs
  <1>3. PICK d \in Ids : d = job[c].call.d
    BY <1>1, CallIs
  <1>4. CASE domains[d].tenant # job[c].tenant
    <2>1. UNCHANGED domains /\ Answer(c, 404)
      BY <1>3, <1>4 DEF UpdateDomain, Mine
    <2> QED BY <1>0, <1>1, <2>1, AnswerStep
  <1>5. CASE domains[d].tenant = job[c].tenant
    <2>1. d \notin Unused /\ domains[d] \in DomainRow /\ job[c].call.method \in Methods
      BY <1>1, <1>5, OwnedRow, CallIs
    <2>2. domains \in [Ids -> DomainRow \cup {NoDomain}]
      BY DEF TenantInv, Tables
    <2>4. PICK row : row = MethodRow(domains[d], job[c].call.method)
      OBVIOUS
    <2>5. /\ row \in DomainRow /\ row.tenant = domains[d].tenant /\ row.name = domains[d].name
          /\ row.status = domains[d].status /\ row.proof = domains[d].proof /\ row.enabled = domains[d].enabled
      BY <2>1, <2>4 DEF MethodRow, DomainRow
    <2>6. domains' = [domains EXCEPT ![d] = row] /\ Then(c, job[c])
      BY <1>3, <1>5, <2>2, <2>4 DEF UpdateDomain, MethodRow, Same, Mine
    <2>7. /\ row.status = "verified" /\ row.proof = "dns" => Controller[row.name] = row.tenant
          /\ row.enabled => row.status = "verified"
      BY <2>5 DEF TenantInv, VerifiedByController
    <2> QED BY <1>0, <1>2, <1>5, <2>1, <2>5, <2>6, <2>7, ChangeDomain
  <1> QED BY <1>4, <1>5

LEMMA DeleteDomainOK ==
    ASSUME TenantInv, NEW c \in Callers, DeleteDomain(c)
    PROVE  TenantInv' /\ Touches(c)
  <1>0. At(c, "domain_delete") /\ UNCHANGED <<upstreams, keys>>
    BY DEF DeleteDomain
  <1>1. job[c] \in JobRec /\ job[c].tenant \in Tenants /\ job[c].pc = "run"
    BY <1>0, RunningIs
  <1>2. Last(c) /\ Carries(c, job[c])
    BY <1>0, LastIs, SameCarries
  <1>3. PICK d \in Ids : d = job[c].call.d
    BY <1>1, CallIs
  <1>4. CASE domains[d].tenant # job[c].tenant
    <2>1. UNCHANGED <<domains, routes>> /\ Answer(c, 404)
      BY <1>3, <1>4 DEF DeleteDomain, Mine
    <2> QED BY <1>0, <1>1, <2>1, AnswerStep
  <1>5. CASE domains[d].tenant = job[c].tenant
    <2>0. domains \in [Ids -> DomainRow \cup {NoDomain}] /\ routes \in [Ids -> RouteRow \cup {NoRoute}]
      BY DEF TenantInv, Tables
    <2>1. /\ domains' = [domains EXCEPT ![d] = NoDomain]
          /\ routes' = [r \in Ids |-> IF routes[r].domain = d THEN NoRoute ELSE routes[r]]
          /\ Then(c, job[c])
      BY <1>3, <1>5 DEF DeleteDomain, Mine, Same
    <2>2. /\ domains' \in [Ids -> DomainRow \cup {NoDomain}] /\ domains'[d] = NoDomain
          /\ \A x \in Ids : x # d => domains'[x] = domains[x]
      BY <2>0, <2>1
    <2>3. /\ routes' \in [Ids -> RouteRow \cup {NoRoute}]
          /\ \A x \in Ids : routes'[x] = IF routes[x].domain = d THEN NoRoute ELSE routes[x]
      BY <2>0, <2>1
    <2>4. d \notin Unused /\ domains[d] \in DomainRow /\ domains[d] # NoDomain
      BY <1>1, <1>5, OwnedRow, RowsAre
    <2>5. Tables'
      BY <1>0, <1>2, <2>1, <2>2, <2>3, ThenIs DEF TenantInv, Tables
    <2>6. KeptDomains(domains, domains', Unused)
      BY <2>2 DEF KeptDomains
    <2>7. KeptUpstreams(upstreams, upstreams', Unused)
      BY <1>0, SameKept
    <2>8. \A x \in Unused : Untaken(x)'
      <3>1. Unused \subseteq Ids
        BY StoredAssumption DEF Unused
      <3> QED BY <1>0, <2>2, <2>3, <3>1 DEF TenantInv, Untaken
    <2>9. RoutesStayHome'
      <3>1. \A r \in Ids : routes[r] # NoRoute => routes[r].domain \in Ids
        BY <2>0, RowsAre
      <3> QED BY <1>0, <2>2, <2>3, <3>1 DEF TenantInv, RoutesStayHome
    <2>10. VerifiedByController'
      BY <2>2, RowsAre DEF TenantInv, VerifiedByController
    <2>11. OwnersOf(c)
      <3>1. \A r \in Ids : routes'[r] # routes[r] => routes[r] # NoRoute /\ routes[r].tenant = job[c].tenant
        BY <1>5, <2>3 DEF TenantInv, RoutesStayHome
      <3> QED BY <1>0, <1>5, <2>2, <2>4, <3>1 DEF OwnersOf
    <2> QED BY <1>0, <1>2, <2>1, <2>5, <2>6, <2>7, <2>8, <2>9, <2>10, <2>11, LastWrite
  <1> QED BY <1>4, <1>5

LEMMA InsertChallengeOK ==
    ASSUME TenantInv, NEW c \in Callers, InsertChallenge(c)
    PROVE  TenantInv' /\ Touches(c)
  <1>0. At(c, "challenge_insert") /\ UNCHANGED <<domains, routes, upstreams, keys>> /\ (Answer(c, 500) \/ Then(c, job[c]))
    BY DEF InsertChallenge, Same
  <1>1. job[c].pc = "run" /\ Last(c) /\ Carries(c, job[c])
    BY <1>0, LastIs, SameCarries, RunningIs
  <1>2. CASE Answer(c, 500)
    BY <1>0, <1>1, <1>2, AnswerStep
  <1>3. CASE Then(c, job[c])
    BY <1>0, <1>1, <1>3, ReadOn
  <1> QED BY <1>0, <1>2, <1>3

RouteFor(t, d, u, p) == [tenant |-> t, domain |-> d, upstream |-> u, path |-> p]

LEMMA InsertRouteOK ==
    ASSUME TenantInv, NEW c \in Callers, InsertRoute(c)
    PROVE  TenantInv' /\ Touches(c)
  <1>0. At(c, "route_insert") /\ UNCHANGED <<domains, upstreams, keys>>
    BY DEF InsertRoute
  <1>1. /\ job[c] \in JobRec /\ job[c].tenant \in Tenants /\ job[c].pc = "run"
        /\ RunOK(c, job[c], domains, upstreams, txt, Unused) /\ job[c].call.op = "create_route" /\ job[c].i = 3
    BY <1>0, RunningIs DEF StatementAt
  <1>2. Last(c) /\ NewId[c] \in Ids
    BY <1>0, LastIs, JobIs
  <1>3. PICK row : row = RouteFor(job[c].tenant, job[c].call.d, job[c].call.u, job[c].call.name)
    OBVIOUS
  <1>4. /\ row \in RouteRow /\ row.tenant = job[c].tenant /\ row.domain = job[c].call.d /\ row.upstream = job[c].call.u
    BY <1>1, <1>3, CallIs DEF RouteFor, RouteRow
  <1>5. \/ Answer(c, 500) /\ UNCHANGED routes
        \/ ~RouteError(row, NewId[c]) /\ routes' = [routes EXCEPT ![NewId[c]] = row] /\ Then(c, job[c])
    BY <1>3 DEF InsertRoute, RouteFor, Same
  <1>6. CASE Answer(c, 500) /\ UNCHANGED routes
    BY <1>0, <1>1, <1>6, AnswerStep
  <1>7. CASE ~RouteError(row, NewId[c]) /\ routes' = [routes EXCEPT ![NewId[c]] = row] /\ Then(c, job[c])
    <2>1. domains[row.domain] # NoDomain /\ (row.upstream # 0 => upstreams[row.upstream] # NoUpstream)
      BY <1>7 DEF RouteError
    <2>2. /\ domains[row.domain].tenant = row.tenant
          /\ row.upstream # 0 => upstreams[row.upstream].tenant = row.tenant
      BY <1>1, <1>4, <2>1 DEF RunOK, DomainRead, UpstreamRead
    <2>3. job[c].made = 0
      BY <1>1 DEF RunOK
    <2>4. routes[NewId[c]] = NoRoute
      BY <1>1, <2>3 DEF TenantInv, Untaken, Unused, Pend
    <2> QED BY <1>0, <1>2, <1>4, <1>7, <2>2, <2>4, ChangeRoute
  <1> QED BY <1>5, <1>6, <1>7

RouteTo(row, u) == [row EXCEPT !.upstream = u]

LEMMA UpdateRouteOK ==
    ASSUME TenantInv, NEW c \in Callers, UpdateRoute(c)
    PROVE  TenantInv' /\ Touches(c)
  <1>0. At(c, "route_update") /\ UNCHANGED <<domains, upstreams, keys>>
    BY DEF UpdateRoute
  <1>1. /\ job[c] \in JobRec /\ job[c].tenant \in Tenants /\ job[c].pc = "run"
        /\ RunOK(c, job[c], domains, upstreams, txt, Unused) /\ job[c].call.op = "update_route" /\ job[c].i = 3
    BY <1>0, RunningIs DEF StatementAt
  <1>2. Last(c)
    BY <1>0, LastIs
  <1>3. PICK r \in Ids : r = job[c].call.r
    BY <1>1, CallIs
  <1>4. PICK row : row = IF job[c].call.u = 0 THEN routes[r] ELSE RouteTo(routes[r], job[c].call.u)
    OBVIOUS
  <1>5. \/ (Answer(c, 404) \/ Answer(c, 500)) /\ UNCHANGED routes
        \/ /\ routes[r].tenant = job[c].tenant /\ ~RouteError(row, r)
           /\ routes' = [routes EXCEPT ![r] = row] /\ Then(c, job[c])
    BY <1>3, <1>4 DEF UpdateRoute, RouteTo, Same, Mine
  <1>6. CASE (Answer(c, 404) \/ Answer(c, 500)) /\ UNCHANGED routes
    BY <1>0, <1>1, <1>6, AnswerStep
  <1>7. CASE /\ routes[r].tenant = job[c].tenant /\ ~RouteError(row, r)
             /\ routes' = [routes EXCEPT ![r] = row] /\ Then(c, job[c])
    <2>1. routes[r] \in RouteRow /\ r \notin Unused /\ routes[r] # NoRoute
      BY <1>1, <1>7, OwnedRow, RowsAre
    <2>2. job[c].call.u \in Ids \cup {0}
      BY <1>1, CallIs
    <2>3. /\ row \in RouteRow /\ row.tenant = routes[r].tenant /\ row.domain = routes[r].domain
          /\ row.upstream = IF job[c].call.u = 0 THEN routes[r].upstream ELSE job[c].call.u
      BY <1>4, <2>1, <2>2 DEF RouteTo, RouteRow
    <2>4. row.upstream # 0 => upstreams[row.upstream] # NoUpstream
      BY <1>7 DEF RouteError
    <2>5. job[c].call.u # 0 => upstreams[job[c].call.u].tenant = job[c].tenant
      BY <1>1, <2>3, <2>4 DEF RunOK, UpstreamRead
    <2>6. /\ domains[routes[r].domain].tenant = routes[r].tenant
          /\ routes[r].upstream # 0 => upstreams[routes[r].upstream].tenant = routes[r].tenant
      BY <2>1 DEF TenantInv, RoutesStayHome
    <2>7. /\ domains[row.domain].tenant = row.tenant
          /\ row.upstream # 0 => upstreams[row.upstream].tenant = row.tenant
      BY <1>7, <2>3, <2>5, <2>6
    <2> QED BY <1>0, <1>2, <1>7, <2>1, <2>3, <2>7, ChangeRoute
  <1> QED BY <1>5, <1>6, <1>7

LEMMA DeleteRouteOK ==
    ASSUME TenantInv, NEW c \in Callers, DeleteRoute(c)
    PROVE  TenantInv' /\ Touches(c)
  <1>0. At(c, "route_delete") /\ UNCHANGED <<domains, upstreams, keys>>
    BY DEF DeleteRoute
  <1>1. job[c] \in JobRec /\ job[c].tenant \in Tenants /\ job[c].pc = "run"
    BY <1>0, RunningIs
  <1>2. Last(c)
    BY <1>0, LastIs
  <1>3. PICK r \in Ids : r = job[c].call.r
    BY <1>1, CallIs
  <1>5. \/ Answer(c, 404) /\ UNCHANGED routes
        \/ routes[r].tenant = job[c].tenant /\ routes' = [routes EXCEPT ![r] = NoRoute] /\ Then(c, job[c])
    BY <1>3 DEF DeleteRoute, Same, Mine
  <1>6. CASE Answer(c, 404) /\ UNCHANGED routes
    BY <1>0, <1>1, <1>6, AnswerStep
  <1>7. CASE routes[r].tenant = job[c].tenant /\ routes' = [routes EXCEPT ![r] = NoRoute] /\ Then(c, job[c])
    <2>1. routes[r] # NoRoute /\ r \notin Unused
      BY <1>1, <1>7, OwnedRow, RowsAre
    <2> QED BY <1>0, <1>2, <1>7, <2>1, ChangeRoute
  <1> QED BY <1>5, <1>6, <1>7

RenamedRow(row, n) == [row EXCEPT !.name = n]
BackedRow(row, b) == [row EXCEPT !.backends = b]

LEMMA Renamed ==
    ASSUME NEW row \in UpstreamRow, NEW n \in STRING
    PROVE  RenamedRow(row, n) \in UpstreamRow /\ RenamedRow(row, n).tenant = row.tenant
  BY DEF RenamedRow, UpstreamRow

LEMMA Backed ==
    ASSUME NEW row \in UpstreamRow, NEW b \in SUBSET Addresses
    PROVE  BackedRow(row, b) \in UpstreamRow /\ BackedRow(row, b).tenant = row.tenant
  BY DEF BackedRow, UpstreamRow

LEMMA UpdateUpstreamOK ==
    ASSUME TenantInv, NEW c \in Callers, UpdateUpstream(c)
    PROVE  TenantInv' /\ Touches(c)
  <1>0. At(c, "upstream_update") /\ UNCHANGED <<domains, routes, keys>>
    BY DEF UpdateUpstream
  <1>1. /\ job[c] \in JobRec /\ job[c].tenant \in Tenants /\ job[c].pc = "run" /\ job[c].call.op = "update_upstream"
    BY <1>0, RunningIs DEF StatementAt
  <1>2. Last(c)
    BY <1>0, LastIs
  <1>3. PICK u \in Ids : u = job[c].call.u
    BY <1>1, CallIs DEF UpstreamOps
  <1>4. upstreams \in [Ids -> UpstreamRow \cup {NoUpstream}]
    BY DEF TenantInv, Tables
  <1>5. \/ (Answer(c, 404) \/ Answer(c, 500)) /\ UNCHANGED upstreams
        \/ /\ upstreams[u].tenant = job[c].tenant /\ Then(c, job[c])
           /\ upstreams' = [upstreams EXCEPT ![u] = RenamedRow(upstreams[u], job[c].call.name)]
    BY <1>3, <1>4 DEF UpdateUpstream, Same, Mine, RenamedRow
  <1>6. CASE (Answer(c, 404) \/ Answer(c, 500)) /\ UNCHANGED upstreams
    BY <1>0, <1>1, <1>6, AnswerStep
  <1>7. CASE /\ upstreams[u].tenant = job[c].tenant /\ Then(c, job[c])
             /\ upstreams' = [upstreams EXCEPT ![u] = RenamedRow(upstreams[u], job[c].call.name)]
    <2>1. upstreams[u] \in UpstreamRow /\ u \notin Unused /\ job[c].call.name \in STRING
      BY <1>1, <1>7, OwnedRow, CallIs
    <2>2. PICK row \in UpstreamRow : row = RenamedRow(upstreams[u], job[c].call.name) /\ row.tenant = upstreams[u].tenant
      BY <2>1, Renamed
    <2> QED BY <1>0, <1>2, <1>7, <2>1, <2>2, ChangeUpstream
  <1> QED BY <1>5, <1>6, <1>7

LEMMA InsertBackendOK ==
    ASSUME TenantInv, NEW c \in Callers, InsertBackend(c)
    PROVE  TenantInv' /\ Touches(c)
  <1>0. At(c, "backend_insert") /\ UNCHANGED <<domains, routes, keys>>
    BY DEF InsertBackend
  <1>1. /\ job[c] \in JobRec /\ job[c].tenant \in Tenants /\ job[c].pc = "run" /\ job[c].call.op = "add_backend"
        /\ RunOK(c, job[c], domains, upstreams, txt, Unused) /\ job[c].i = 2
    BY <1>0, RunningIs DEF StatementAt
  <1>2. Last(c)
    BY <1>0, LastIs
  <1>3. PICK u \in Ids : u = job[c].call.u
    BY <1>1, CallIs DEF UpstreamOps
  <1>4. upstreams \in [Ids -> UpstreamRow \cup {NoUpstream}] /\ u # 0
    BY TenantAssumption DEF TenantInv, Tables
  <1>5. PICK b : b = upstreams[u].backends \cup job[c].call.addresses
    OBVIOUS
  <1>6. \/ Answer(c, 500) /\ UNCHANGED upstreams
        \/ upstreams[u] # NoUpstream /\ Then(c, job[c]) /\ upstreams' = [upstreams EXCEPT ![u] = BackedRow(upstreams[u], b)]
    BY <1>3, <1>4, <1>5 DEF InsertBackend, Same, BackedRow
  <1>7. CASE Answer(c, 500) /\ UNCHANGED upstreams
    BY <1>0, <1>1, <1>7, AnswerStep
  <1>8. CASE upstreams[u] # NoUpstream /\ Then(c, job[c]) /\ upstreams' = [upstreams EXCEPT ![u] = BackedRow(upstreams[u], b)]
    <2>1. upstreams[u].tenant = job[c].tenant /\ u \notin Unused
      BY <1>1, <1>3, <1>4, <1>8 DEF RunOK, UpstreamRead
    <2>2. upstreams[u] \in UpstreamRow /\ job[c].call.addresses \in SUBSET Addresses
      BY <1>1, <1>4, <1>8, CallIs
    <2>3. upstreams[u].backends \in SUBSET Addresses
      BY <2>2 DEF UpstreamRow
    <2>4. b \in SUBSET Addresses
      BY <1>5, <2>2, <2>3
    <2>5. PICK row \in UpstreamRow : row = BackedRow(upstreams[u], b) /\ row.tenant = upstreams[u].tenant
      BY <2>2, <2>4, Backed
    <2> QED BY <1>0, <1>2, <1>8, <2>1, <2>2, <2>5, ChangeUpstream
  <1> QED BY <1>6, <1>7, <1>8

LEMMA DeleteBackendOK ==
    ASSUME TenantInv, NEW c \in Callers, DeleteBackend(c)
    PROVE  TenantInv' /\ Touches(c)
  <1>0. At(c, "backend_delete") /\ UNCHANGED <<domains, routes, keys>>
    BY DEF DeleteBackend
  <1>1. /\ job[c] \in JobRec /\ job[c].tenant \in Tenants /\ job[c].pc = "run" /\ job[c].call.op = "remove_backend"
    BY <1>0, RunningIs DEF StatementAt
  <1>2. Last(c)
    BY <1>0, LastIs
  <1>3. PICK u \in Ids : u = job[c].call.u
    BY <1>1, CallIs DEF UpstreamOps
  <1>4. upstreams \in [Ids -> UpstreamRow \cup {NoUpstream}]
    BY DEF TenantInv, Tables
  <1>5. PICK b : b = upstreams[u].backends \ job[c].call.addresses
    OBVIOUS
  <1>6. \/ Answer(c, 404) /\ UNCHANGED upstreams
        \/ upstreams[u].tenant = job[c].tenant /\ Then(c, job[c]) /\ upstreams' = [upstreams EXCEPT ![u] = BackedRow(upstreams[u], b)]
    BY <1>3, <1>4, <1>5 DEF DeleteBackend, Deletable, Same, BackedRow, Mine
  <1>7. CASE Answer(c, 404) /\ UNCHANGED upstreams
    BY <1>0, <1>1, <1>7, AnswerStep
  <1>8. CASE upstreams[u].tenant = job[c].tenant /\ Then(c, job[c]) /\ upstreams' = [upstreams EXCEPT ![u] = BackedRow(upstreams[u], b)]
    <2>1. upstreams[u] \in UpstreamRow /\ u \notin Unused
      BY <1>1, <1>8, OwnedRow
    <2>3. upstreams[u].backends \in SUBSET Addresses
      BY <2>1 DEF UpstreamRow
    <2>4. b \in SUBSET Addresses
      BY <1>5, <2>3
    <2>5. PICK row \in UpstreamRow : row = BackedRow(upstreams[u], b) /\ row.tenant = upstreams[u].tenant
      BY <2>1, <2>4, Backed
    <2> QED BY <1>0, <1>2, <1>8, <2>1, <2>5, ChangeUpstream
  <1> QED BY <1>6, <1>7, <1>8

LEMMA DeleteUpstreamOK ==
    ASSUME TenantInv, NEW c \in Callers, DeleteUpstream(c)
    PROVE  TenantInv' /\ Touches(c)
  <1>0. At(c, "upstream_delete") /\ UNCHANGED <<domains, keys>>
    BY DEF DeleteUpstream
  <1>1. job[c] \in JobRec /\ job[c].tenant \in Tenants /\ job[c].pc = "run" /\ job[c].call.op = "delete_upstream"
    BY <1>0, RunningIs DEF StatementAt
  <1>2. Last(c) /\ Carries(c, job[c])
    BY <1>0, LastIs, SameCarries
  <1>3. PICK u \in Ids : u = job[c].call.u
    BY <1>1, CallIs DEF UpstreamOps
  <1>4. CASE upstreams[u].tenant # job[c].tenant
    <2>1. UNCHANGED <<routes, upstreams>> /\ Answer(c, 404)
      BY <1>3, <1>4 DEF DeleteUpstream, Mine
    <2> QED BY <1>0, <1>1, <2>1, AnswerStep
  <1>5. CASE upstreams[u].tenant = job[c].tenant
    <2>0. upstreams \in [Ids -> UpstreamRow \cup {NoUpstream}] /\ routes \in [Ids -> RouteRow \cup {NoRoute}] /\ u # 0
      BY TenantAssumption DEF TenantInv, Tables
    <2>1. /\ upstreams' = [upstreams EXCEPT ![u] = NoUpstream]
          /\ routes' = [r \in Ids |-> IF routes[r].upstream = u THEN RouteTo(routes[r], 0) ELSE routes[r]]
          /\ Then(c, job[c])
      BY <1>3, <1>5 DEF DeleteUpstream, Mine, Same, RouteTo
    <2>2. /\ upstreams' \in [Ids -> UpstreamRow \cup {NoUpstream}] /\ upstreams'[u] = NoUpstream
          /\ \A x \in Ids : x # u => upstreams'[x] = upstreams[x]
      BY <2>0, <2>1
    <2>3. \A x \in Ids : routes'[x] = IF routes[x].upstream = u THEN RouteTo(routes[x], 0) ELSE routes[x]
      BY <2>1
    <2>4. \A x \in Ids : routes[x].upstream = u => routes[x] # NoRoute /\ routes[x] \in RouteRow
      BY <2>0, RowsAre
    <2>5. \A row \in RouteRow : /\ RouteTo(row, 0) \in RouteRow /\ RouteTo(row, 0).tenant = row.tenant
                                 /\ RouteTo(row, 0).domain = row.domain /\ RouteTo(row, 0).upstream = 0
      BY DEF RouteTo, RouteRow
    <2>6. routes' \in [Ids -> RouteRow \cup {NoRoute}]
      <3>1. \A x \in Ids : routes'[x] \in RouteRow \cup {NoRoute}
        BY <2>0, <2>3, <2>4, <2>5
      <3>2. routes' = [x \in Ids |-> routes'[x]]
        BY <2>1
      <3> QED BY <3>1, <3>2
    <2>7. u \notin Unused /\ upstreams[u] \in UpstreamRow /\ upstreams[u] # NoUpstream
      BY <1>1, <1>5, OwnedRow, RowsAre
    <2>8. Tables'
      BY <1>0, <1>2, <2>1, <2>2, <2>6, ThenIs DEF TenantInv, Tables
    <2>9. KeptDomains(domains, domains', Unused)
      BY <1>0, SameKept
    <2>10. KeptUpstreams(upstreams, upstreams', Unused)
      BY <2>2 DEF KeptUpstreams
    <2>11. \A x \in Unused : Untaken(x)'
      <3>1. Unused \subseteq Ids
        BY StoredAssumption DEF Unused
      <3> QED BY <1>0, <2>2, <2>3, <2>4, <3>1 DEF TenantInv, Untaken
    <2>12. RoutesStayHome'
      <3>1. \A r \in Ids : routes[r] # NoRoute => routes[r].upstream \in Ids \cup {0}
        BY <2>0, RowsAre
      <3> QED BY <1>0, <2>2, <2>3, <2>4, <2>5, <3>1 DEF TenantInv, RoutesStayHome
    <2>13. VerifiedByController'
      BY <1>0 DEF TenantInv, VerifiedByController
    <2>14. OwnersOf(c)
      <3>1. \A r \in Ids : routes'[r] # routes[r] => routes[r] # NoRoute /\ routes[r].tenant = job[c].tenant
        BY <1>5, <2>0, <2>3, <2>4 DEF TenantInv, RoutesStayHome
      <3> QED BY <1>0, <1>5, <2>2, <2>7, <3>1 DEF OwnersOf
    <2> QED BY <1>0, <1>2, <2>1, <2>8, <2>9, <2>10, <2>11, <2>12, <2>13, <2>14, LastWrite
  <1> QED BY <1>4, <1>5

NewKey(t, scopes) == [NoKey EXCEPT !.tenant = t, !.scopes = scopes]

LEMMA KeyWritesOK ==
    ASSUME TenantInv, NEW c \in Callers, InsertKey(c) \/ DeleteKey(c)
    PROVE  TenantInv' /\ Touches(c)
  <1>1. CASE InsertKey(c)
    <2>0. At(c, "key_insert") /\ UNCHANGED <<domains, routes, upstreams>> /\ Then(c, job[c])
          /\ keys' = [keys EXCEPT ![NewId[c]] = NewKey(job[c].tenant, {job[c].call.name})]
      BY <1>1 DEF InsertKey, Same, NewKey
    <2>1. /\ job[c] \in JobRec /\ job[c].tenant \in Tenants /\ job[c].pc = "run" /\ Last(c)
          /\ RunOK(c, job[c], domains, upstreams, txt, Unused) /\ job[c].call.op = "create_api_key" /\ NewId[c] \in Ids
      BY <2>0, RunningIs, LastIs, JobIs DEF StatementAt
    <2>2. {job[c].call.name} \in SUBSET STRING
      BY <2>1, CallIs
    <2>3. PICK row : row = NewKey(job[c].tenant, {job[c].call.name})
      OBVIOUS
    <2>4. row \in KeyRow /\ row.tenant = job[c].tenant
      BY <2>1, <2>2, <2>3 DEF NewKey, NoKey, KeyRow
    <2>5. keys[NewId[c]] = NoKey
      <3>1. job[c].made = 0
        BY <2>1 DEF RunOK
      <3> QED BY <2>1, <3>1 DEF TenantInv, Untaken, Unused, Pend
    <2> QED BY <2>0, <2>1, <2>3, <2>4, <2>5, ChangeKey
  <1>2. CASE DeleteKey(c)
    <2>0. At(c, "key_delete") /\ UNCHANGED <<domains, routes, upstreams>>
      BY <1>2 DEF DeleteKey
    <2>1. job[c] \in JobRec /\ job[c].tenant \in Tenants /\ job[c].pc = "run" /\ Last(c)
      BY <2>0, RunningIs, LastIs
    <2>2. PICK k \in Ids : k = job[c].call.r
      BY <2>1, CallIs
    <2>3. \/ Answer(c, 404) /\ UNCHANGED keys
          \/ keys[k].tenant = job[c].tenant /\ keys' = [keys EXCEPT ![k] = NoKey] /\ Then(c, job[c])
      BY <1>2, <2>2 DEF DeleteKey, Same, Mine
    <2>4. CASE Answer(c, 404) /\ UNCHANGED keys
      BY <2>0, <2>1, <2>4, AnswerStep
    <2>5. CASE keys[k].tenant = job[c].tenant /\ keys' = [keys EXCEPT ![k] = NoKey] /\ Then(c, job[c])
      <3>1. keys[k] # NoKey /\ k \notin Unused
        BY <2>1, <2>5, OwnedRow, RowsAre
      <3> QED BY <2>0, <2>1, <2>5, <3>1, ChangeKey
    <2> QED BY <2>3, <2>4, <2>5
  <1> QED BY <1>1, <1>2

\* A statement of a creation inserts the row and goes on to the next one.
LEMMA MadeIs ==
    ASSUME TenantInv, NEW c \in Callers, NEW s \in {"domain_insert", "upstream_insert"}, At(c, s),
           NEW k, k \in JobRec, k.call = job[c].call, k.i = job[c].i, k.pc = job[c].pc, k.tenant = job[c].tenant,
           k.made = NewId[c], Then(c, k)
    PROVE  /\ ~Last(c) /\ Carries(c, k) /\ job[c].made = 0 /\ NewId[c] \in Unused /\ NewId[c] \in Ids /\ NewId[c] # 0
           /\ JobStep(c, Up(k)) /\ job'[c] # job[c] /\ UNCHANGED txt /\ ~Pend(Up(k))
           /\ Up(k).i = job[c].i + 1 /\ Up(k).call = job[c].call /\ Up(k).made = NewId[c] /\ Up(k).tenant = job[c].tenant
           /\ \A dom, ups, T, U : RunOK(c, Up(k), dom, ups, T, U) => JobOK(c, Up(k), dom, ups, T, U)
  <1>1. /\ job[c] \in JobRec /\ job[c].pc = "run" /\ job[c].i \in Nat /\ RunOK(c, job[c], domains, upstreams, txt, Unused)
        /\ \/ job[c].i = 3 /\ job[c].call.op = "create_domain"
           \/ job[c].i = 1 /\ job[c].call.op = "create_upstream"
    BY RunningIs DEF StatementAt
  <1>2. job[c].made = 0 /\ NewId[c] \in Ids /\ NewId[c] # 0
    BY <1>1, JobIs DEF RunOK
  <1>3. NewId[c] \in Unused
    BY <1>1, <1>2 DEF Unused, Pend
  <1>4. ~Last(c)
    <2>1. CASE job[c].i = 3 /\ job[c].call.op = "create_domain"
      <3>1. Len(Program(job[c].call.op)) = 4
        BY <2>1, Programs
      <3> QED BY <2>1, <3>1 DEF Last
    <2>2. CASE job[c].i = 1 /\ job[c].call.op = "create_upstream"
      <3>1. Len(Program(job[c].call.op)) = 2
        BY <2>2, Programs
      <3> QED BY <2>2, <3>1 DEF Last
    <2> QED BY <1>1, <2>1, <2>2
  <1>5. Carries(c, k)
    BY <1>1, <1>2 DEF Carries
  <1>6. Moved(c, k) = Up(k)
    BY <1>4 DEF Moved
  <1>7. /\ JobStep(c, Moved(c, k)) /\ job'[c] # job[c] /\ UNCHANGED txt
        /\ \A dom, ups, T, U : RunOK(c, Up(k), dom, ups, T, U) => JobOK(c, Moved(c, k), dom, ups, T, U)
    BY <1>4, <1>5, ThenIs
  <1>8. /\ Up(k).i = job[c].i + 1 /\ Up(k).call = job[c].call /\ Up(k).made = NewId[c] /\ Up(k).tenant = job[c].tenant
    BY UpIs
  <1>9. ~Pend(Up(k))
    BY <1>2, <1>8 DEF Pend
  <1> QED BY <1>2, <1>3, <1>4, <1>5, <1>6, <1>7, <1>8, <1>9

NewDomain(t, n, m) == [NoDomain EXCEPT !.tenant = t, !.name = n, !.method = m]
Making(k, x) == [k EXCEPT !.made = x]

LEMMA InsertDomainOK ==
    ASSUME TenantInv, NEW c \in Callers, InsertDomain(c)
    PROVE  TenantInv' /\ Touches(c)
  <1>0. At(c, "domain_insert") /\ UNCHANGED <<routes, upstreams, keys>>
    BY DEF InsertDomain
  <1>1. /\ job[c] \in JobRec /\ job[c].tenant \in Tenants /\ job[c].pc = "run" /\ job[c].i = 3
        /\ job[c].call.op = "create_domain" /\ NewId[c] \in Ids
    BY <1>0, RunningIs, JobIs DEF StatementAt
  <1>2. PICK row : row = NewDomain(job[c].tenant, job[c].call.name, job[c].call.method)
    OBVIOUS
  <1>3. PICK k : k = Making(job[c], NewId[c])
    OBVIOUS
  <1>4. \/ Answer(c, 500) /\ UNCHANGED domains
        \/ domains' = [domains EXCEPT ![NewId[c]] = row] /\ Then(c, k)
    BY <1>2, <1>3 DEF InsertDomain, NewDomain, Making
  <1>5. CASE Answer(c, 500) /\ UNCHANGED domains
    BY <1>0, <1>1, <1>5, AnswerStep
  <1>6. CASE domains' = [domains EXCEPT ![NewId[c]] = row] /\ Then(c, k)
    <2>1. /\ k \in JobRec /\ k.call = job[c].call /\ k.i = job[c].i /\ k.pc = job[c].pc /\ k.tenant = job[c].tenant
          /\ k.made = NewId[c]
      BY <1>1, <1>3 DEF Making, JobRec
    <2>2. PICK n : n = Up(k)
      OBVIOUS
    <2>3. /\ NewId[c] \in Unused /\ JobStep(c, n) /\ job'[c] # job[c] /\ UNCHANGED txt /\ ~Pend(n)
          /\ n.i = 4 /\ n.call = job[c].call /\ n.made = NewId[c]
          /\ \A dom, ups, T, U : RunOK(c, n, dom, ups, T, U) => JobOK(c, n, dom, ups, T, U)
      BY <1>0, <1>1, <1>6, <2>1, <2>2, MadeIs
    <2>4. \A dom, ups, T, U : RunOK(c, n, dom, ups, T, U)
      BY <1>1, <2>3 DEF RunOK, DomainRead, UpstreamRead
    <2>5. JobOK(c, n, domains', upstreams', txt, Unused')
      BY <2>3, <2>4
    <2>6. job[c].call.name \in DomainNames /\ job[c].call.method \in Methods
      BY <1>1, CallIs
    <2>7. row \in DomainRow /\ row.tenant = job[c].tenant /\ row.status = "pending" /\ row.enabled = FALSE
      BY <1>1, <1>2, <2>6 DEF NewDomain, NoDomain, DomainRow
    <2>8. domains \in [Ids -> DomainRow \cup {NoDomain}] /\ domains[NewId[c]] = NoDomain
      BY <2>3 DEF TenantInv, Tables, Untaken
    <2>9. /\ domains' \in [Ids -> DomainRow \cup {NoDomain}] /\ domains'[NewId[c]] = row
          /\ \A x \in Ids : x # NewId[c] => domains'[x] = domains[x]
      BY <1>1, <1>6, <2>7, <2>8
    <2>10. Tables'
      BY <1>0, <2>3, <2>9 DEF TenantInv, Tables
    <2>11. KeptDomains(domains, domains', Unused)
      BY <2>3, <2>9 DEF KeptDomains
    <2>12. KeptUpstreams(upstreams, upstreams', Unused)
      BY <1>0, SameKept
    <2>13. \A x \in Unused : x # NewId[c] => Untaken(x)'
      <3>1. Unused \subseteq Ids
        BY StoredAssumption DEF Unused
      <3> QED BY <1>0, <2>9, <3>1 DEF TenantInv, Untaken
    <2>14. RoutesStayHome'
      <3>1. \A r \in Ids : routes[r] # NoRoute => routes[r].domain \in Ids /\ routes[r].tenant # ""
        BY RowsAre DEF TenantInv, Tables
      <3>2. \A r \in Ids : routes[r] # NoRoute => routes[r].domain # NewId[c]
        BY <2>8, <3>1, RowsAre DEF TenantInv, RoutesStayHome
      <3> QED BY <1>0, <2>9, <3>1, <3>2 DEF TenantInv, RoutesStayHome
    <2>15. VerifiedByController'
      BY <2>7, <2>9 DEF TenantInv, VerifiedByController
    <2>16. TenantInv'
      BY <2>3, <2>5, <2>10, <2>11, <2>12, <2>13, <2>14, <2>15, TableStep
    <2>17. OwnersOf(c)
      BY <1>0, <2>7, <2>8, <2>9 DEF OwnersOf
    <2> QED BY <2>3, <2>16, <2>17 DEF Touches
  <1> QED BY <1>4, <1>5, <1>6

NewUpstream(t, n) == [tenant |-> t, name |-> n, backends |-> {}]
MakingOf(k, x, a) == [k EXCEPT !.made = x, !.todo = a]

LEMMA InsertUpstreamOK ==
    ASSUME TenantInv, NEW c \in Callers, InsertUpstream(c)
    PROVE  TenantInv' /\ Touches(c)
  <1>0. At(c, "upstream_insert") /\ UNCHANGED <<domains, routes, keys>>
    BY DEF InsertUpstream
  <1>1. /\ job[c] \in JobRec /\ job[c].tenant \in Tenants /\ job[c].pc = "run" /\ job[c].i = 1
        /\ job[c].call.op = "create_upstream" /\ NewId[c] \in Ids
    BY <1>0, RunningIs, JobIs DEF StatementAt
  <1>2. PICK row : row = NewUpstream(job[c].tenant, job[c].call.name)
    OBVIOUS
  <1>3. PICK k : k = MakingOf(job[c], NewId[c], job[c].call.addresses)
    OBVIOUS
  <1>4. \/ Answer(c, 500) /\ UNCHANGED upstreams
        \/ upstreams' = [upstreams EXCEPT ![NewId[c]] = row] /\ Then(c, k)
    BY <1>2, <1>3 DEF InsertUpstream, NewUpstream, MakingOf
  <1>5. CASE Answer(c, 500) /\ UNCHANGED upstreams
    BY <1>0, <1>1, <1>5, AnswerStep
  <1>6. CASE upstreams' = [upstreams EXCEPT ![NewId[c]] = row] /\ Then(c, k)
    <2>0. job[c].call.name \in STRING /\ job[c].call.addresses \in SUBSET Addresses
      BY <1>1, CallIs
    <2>1. /\ k \in JobRec /\ k.call = job[c].call /\ k.i = job[c].i /\ k.pc = job[c].pc /\ k.tenant = job[c].tenant
          /\ k.made = NewId[c]
      BY <1>1, <1>3, <2>0 DEF MakingOf, JobRec
    <2>2. PICK n : n = Up(k)
      OBVIOUS
    <2>3. /\ NewId[c] \in Unused /\ JobStep(c, n) /\ job'[c] # job[c] /\ UNCHANGED txt /\ ~Pend(n)
          /\ n.i = 2 /\ n.call = job[c].call /\ n.made = NewId[c] /\ n.tenant = job[c].tenant
          /\ \A dom, ups, T, U : RunOK(c, n, dom, ups, T, U) => JobOK(c, n, dom, ups, T, U)
      BY <1>0, <1>1, <1>6, <2>1, <2>2, MadeIs
    <2>7. row \in UpstreamRow /\ row.tenant = job[c].tenant
      BY <1>1, <1>2, <2>0 DEF NewUpstream, UpstreamRow
    <2>8. upstreams \in [Ids -> UpstreamRow \cup {NoUpstream}] /\ upstreams[NewId[c]] = NoUpstream
      BY <2>3 DEF TenantInv, Tables, Untaken
    <2>9. /\ upstreams' \in [Ids -> UpstreamRow \cup {NoUpstream}] /\ upstreams'[NewId[c]] = row
          /\ \A x \in Ids : x # NewId[c] => upstreams'[x] = upstreams[x]
      BY <1>1, <1>6, <2>7, <2>8
    <2>4. \A dom, ups, T, U : ups[NewId[c]].tenant = n.tenant => RunOK(c, n, dom, ups, T, U)
      BY <1>1, <2>3 DEF RunOK, DomainRead, UpstreamRead
    <2>5. JobOK(c, n, domains', upstreams', txt, Unused')
      BY <2>3, <2>4, <2>7, <2>9
    <2>10. Tables'
      BY <1>0, <2>3, <2>9 DEF TenantInv, Tables
    <2>11. KeptDomains(domains, domains', Unused)
      BY <1>0, SameKept
    <2>12. KeptUpstreams(upstreams, upstreams', Unused)
      BY <2>3, <2>9 DEF KeptUpstreams
    <2>13. \A x \in Unused : x # NewId[c] => Untaken(x)'
      <3>1. Unused \subseteq Ids
        BY StoredAssumption DEF Unused
      <3> QED BY <1>0, <2>9, <3>1 DEF TenantInv, Untaken
    <2>14. RoutesStayHome'
      <3>1. \A r \in Ids : routes[r] # NoRoute => routes[r].upstream \in Ids \cup {0} /\ routes[r].tenant # ""
        BY RowsAre DEF TenantInv, Tables
      <3>2. \A r \in Ids : routes[r] # NoRoute /\ routes[r].upstream # 0 => routes[r].upstream # NewId[c]
        BY <2>8, <3>1, RowsAre DEF TenantInv, RoutesStayHome
      <3> QED BY <1>0, <2>9, <3>1, <3>2 DEF TenantInv, RoutesStayHome
    <2>15. VerifiedByController'
      BY <1>0 DEF TenantInv, VerifiedByController
    <2>16. TenantInv'
      BY <2>3, <2>5, <2>10, <2>11, <2>12, <2>13, <2>14, <2>15, TableStep
    <2>17. OwnersOf(c)
      BY <1>0, <2>7, <2>8, <2>9 DEF OwnersOf
    <2> QED BY <2>3, <2>16, <2>17 DEF Touches
  <1> QED BY <1>4, <1>5, <1>6

ToDo(k, a) == [k EXCEPT !.todo = k.todo \ {a}]

LEMMA InsertBackendsOK ==
    ASSUME TenantInv, NEW c \in Callers, InsertBackends(c)
    PROVE  TenantInv' /\ Touches(c)
  <1>0. At(c, "backends_insert") /\ UNCHANGED <<domains, routes, keys>>
    BY DEF InsertBackends
  <1>1. /\ job[c] \in JobRec /\ job[c].tenant \in Tenants /\ job[c].pc = "run" /\ job[c].i = 2
        /\ job[c].call.op = "create_upstream" /\ NewId[c] \in Ids /\ NewId[c] # 0
        /\ RunOK(c, job[c], domains, upstreams, txt, Unused)
    BY <1>0, RunningIs, JobIs DEF StatementAt
  <1>2. job[c].made = NewId[c] /\ (upstreams[NewId[c]] = NoUpstream \/ upstreams[NewId[c]].tenant = job[c].tenant)
    BY <1>1 DEF RunOK
  <1>3. PICK u \in Ids : u = NewId[c]
    BY <1>1
  <1>4. upstreams \in [Ids -> UpstreamRow \cup {NoUpstream}] /\ Last(c) /\ Carries(c, job[c])
    BY <1>0, LastIs, SameCarries DEF TenantInv, Tables
  <1>5. \/ UNCHANGED upstreams /\ (Then(c, job[c]) \/ Answer(c, 500))
        \/ /\ upstreams[u] # NoUpstream
           /\ \E a \in job[c].todo :
                /\ upstreams' = [upstreams EXCEPT ![u] = BackedRow(upstreams[u], upstreams[u].backends \cup {a})]
                /\ job' = [job EXCEPT ![c] = ToDo(job[c], a)] /\ UNCHANGED txt
    BY <1>2, <1>3, <1>4 DEF InsertBackends, Same, BackedRow, ToDo, Advance
  <1>6. CASE UNCHANGED upstreams /\ (Then(c, job[c]) \/ Answer(c, 500))
    BY <1>0, <1>1, <1>4, <1>6, ReadOn, AnswerStep
  <1>7. CASE /\ upstreams[u] # NoUpstream
             /\ \E a \in job[c].todo :
                  /\ upstreams' = [upstreams EXCEPT ![u] = BackedRow(upstreams[u], upstreams[u].backends \cup {a})]
                  /\ job' = [job EXCEPT ![c] = ToDo(job[c], a)] /\ UNCHANGED txt
    <2>1. PICK a \in job[c].todo :
            /\ upstreams' = [upstreams EXCEPT ![u] = BackedRow(upstreams[u], upstreams[u].backends \cup {a})]
            /\ job' = [job EXCEPT ![c] = ToDo(job[c], a)] /\ UNCHANGED txt
      BY <1>7
    <2>2. PICK k : k = ToDo(job[c], a)
      OBVIOUS
    <2>3. PICK b : b = upstreams[u].backends \cup {a}
      OBVIOUS
    <2>4. job[c].todo \in SUBSET Addresses /\ upstreams[u] \in UpstreamRow
      BY <1>1, <1>4, <1>7 DEF JobRec
    <2>5. b \in SUBSET Addresses
      <3>1. upstreams[u].backends \in SUBSET Addresses
        BY <2>4 DEF UpstreamRow
      <3> QED BY <2>3, <2>4, <3>1
    <2>6. PICK t \in SUBSET Addresses : t = job[c].todo \ {a}
      BY <2>4
    <2>7. /\ k \in JobRec /\ k.call = job[c].call /\ k.i = job[c].i /\ k.pc = job[c].pc /\ k.tenant = job[c].tenant
          /\ k.made = job[c].made /\ k.todo = t
      BY <1>1, <2>2, <2>6 DEF ToDo, JobRec
    <2>8. JobStep(c, k) /\ job'[c] = k
      BY <2>1, <2>2 DEF JobStep, TenantInv
    <2>9. job'[c] # job[c]
      BY <2>6, <2>7, <2>8
    <2>10. PICK row \in UpstreamRow : row = BackedRow(upstreams[u], b) /\ row.tenant = upstreams[u].tenant
      BY <2>4, <2>5, Backed
    <2>11. /\ upstreams' \in [Ids -> UpstreamRow \cup {NoUpstream}] /\ upstreams'[u] = row
           /\ \A x \in Ids : x # u => upstreams'[x] = upstreams[x]
      BY <1>4, <2>1, <2>3, <2>10
    <2>12. ~Pend(k)
      BY <1>1, <1>2, <2>7 DEF Pend
    <2>13. \A dom, ups, T, U : ups[NewId[c]].tenant = job[c].tenant => RunOK(c, k, dom, ups, T, U)
      BY <1>1, <1>2, <2>7 DEF RunOK, DomainRead, UpstreamRead
    <2>14. \A dom, ups, T, U : ups[NewId[c]].tenant = job[c].tenant => JobOK(c, k, dom, ups, T, U)
      <3>1. k.i \in 1..Len(Program(k.call.op))
        BY <1>0, <2>7, RunningIs
      <3> QED BY <1>1, <1>2, <2>7, <2>13, <3>1 DEF JobOK
    <2>15. JobOK(c, k, domains', upstreams', txt, Unused')
      BY <1>2, <1>3, <1>7, <2>10, <2>11, <2>14
    <2>16. Tables'
      BY <1>0, <2>1, <2>11 DEF TenantInv, Tables
    <2>17. KeptDomains(domains, domains', Unused)
      BY <1>0, SameKept
    <2>18. KeptUpstreams(upstreams, upstreams', Unused)
      BY <1>7, <2>10, <2>11 DEF KeptUpstreams
    <2>19. \A x \in Unused : x # NewId[c] => Untaken(x)'
      <3>1. Unused \subseteq Ids
        BY StoredAssumption DEF Unused
      <3> QED BY <1>0, <1>3, <2>11, <3>1 DEF TenantInv, Untaken
    <2>20. RoutesStayHome'
      <3>1. \A x \in Ids : upstreams'[x].tenant = upstreams[x].tenant
        BY <2>10, <2>11
      <3>2. \A r \in Ids : routes[r] # NoRoute => routes[r].upstream \in Ids \cup {0}
        BY RowsAre DEF TenantInv, Tables
      <3> QED BY <1>0, <3>1, <3>2 DEF TenantInv, RoutesStayHome
    <2>21. VerifiedByController'
      BY <1>0 DEF TenantInv, VerifiedByController
    <2>22. TenantInv'
      BY <2>1, <2>8, <2>12, <2>15, <2>16, <2>17, <2>18, <2>19, <2>20, <2>21, TableStep
    <2>23. OwnersOf(c)
      BY <1>0, <1>2, <1>3, <1>7, <2>10, <2>11 DEF OwnersOf
    <2> QED BY <2>9, <2>22, <2>23 DEF Touches
  <1> QED BY <1>5, <1>6, <1>7

LEMMA StatementOK ==
    ASSUME TenantInv, NEW c \in Callers, Statement(c)
    PROVE  TenantInv' /\ Touches(c) /\ job[c].pc = "run"
  <1>1. TenantInv' /\ Touches(c)
    BY GetDomainOK, GetUpstreamOK, PlainReadOK, ProofReadOK, ListOK, SetVerifiedOK, SetEnabledOK, UpdateDomainOK,
       DeleteDomainOK, InsertChallengeOK, InsertRouteOK, UpdateRouteOK, DeleteRouteOK, UpdateUpstreamOK,
       InsertBackendOK, DeleteBackendOK, DeleteUpstreamOK, KeyWritesOK, InsertDomainOK, InsertUpstreamOK,
       InsertBackendsOK DEF Statement
  <1>2. \E s : At(c, s)
    BY DEF Statement, GetDomain, GetUpstream, GetRoute, CheckQuota, DomainExists, InsertDomain, InsertChallenge,
           DeleteDomain, RecordAttempt, CheckProof, SetVerified, SetEnabled, UpdateDomain, InsertRoute, UpdateRoute,
           DeleteRoute, InsertUpstream, InsertBackends, UpdateUpstream, DeleteUpstream, InsertBackend, DeleteBackend,
           InsertKey, DeleteKey, List
  <1> QED BY <1>1, <1>2 DEF At

Allowed(k, ctx) == [k EXCEPT !.pc = "tenant", !.tenant = ctx.tenant, !.scopes = ctx.scopes]

LEMMA AuthIs ==
    ASSUME NEW cred
    PROVE  /\ AuthStatus(cred) \in Nat
           /\ AuthStatus(cred) = 0 => cred.kind \in {"jwt", "key"}
           /\ AuthStatus(cred) = 0 /\ cred.kind = "jwt" => cred.tenant # ""
           /\ AuthStatus(cred) = 0 /\ cred.kind = "key" => keys[cred.key] # NoKey
  <1>1. CASE cred.kind \notin {"jwt", "key"}
    <2>1. AuthStatus(cred) = 401
      BY <1>1 DEF AuthStatus
    <2> QED BY <1>1, <2>1
  <1>2. CASE cred.kind = "jwt"
    <2>1. ~cred.secret => AuthStatus(cred) = 500
      BY <1>2 DEF AuthStatus
    <2>2. cred.secret /\ cred.tenant = "" => AuthStatus(cred) = 401
      BY <1>2 DEF AuthStatus
    <2>3. cred.secret /\ ~cred.valid => AuthStatus(cred) = 401
      BY <1>2 DEF AuthStatus
    <2>4. cred.secret /\ cred.valid /\ cred.tenant # "" => AuthStatus(cred) = 0
      BY <1>2 DEF AuthStatus
    <2>5. AuthStatus(cred) = 401 \/ AuthStatus(cred) = 500 \/ (AuthStatus(cred) = 0 /\ cred.tenant # "")
      BY <2>1, <2>2, <2>3, <2>4, Zenon
    <2>0. 401 \in Nat /\ 500 \in Nat /\ 0 \in Nat /\ 401 # 0 /\ 500 # 0
      OBVIOUS
    <2>6. AuthStatus(cred) \in Nat
      <3>1. AuthStatus(cred) = 401 => AuthStatus(cred) \in Nat
        OBVIOUS
      <3>2. AuthStatus(cred) = 500 => AuthStatus(cred) \in Nat
        OBVIOUS
      <3>3. AuthStatus(cred) = 0 => AuthStatus(cred) \in Nat
        OBVIOUS
      <3> QED BY <2>5, <3>1, <3>2, <3>3, Zenon
    <2>7. AuthStatus(cred) = 0 => cred.tenant # ""
      BY <2>0, <2>5, Zenon
    <2>8. cred.kind # "key" /\ cred.kind \in {"jwt", "key"}
      BY <1>2
    <2> QED BY <2>6, <2>7, <2>8
  <1>3. CASE cred.kind = "key"
    <2>1. keys[cred.key] = NoKey => AuthStatus(cred) = 401
      BY <1>3 DEF AuthStatus
    <2>2. keys[cred.key] # NoKey => AuthStatus(cred) \in Nat
      BY <1>3 DEF AuthStatus
    <2> QED BY <1>3, <2>1, <2>2
  <1> QED BY <1>1, <1>2, <1>3

\* A credential that passes names a tenant.
LEMMA AuthenticateOK ==
    ASSUME TenantInv, NEW c \in Callers, Authenticate(c)
    PROVE  TenantInv' /\ UNCHANGED <<domains, routes, upstreams, keys>>
  <1>0. job[c].pc = "auth" /\ UNCHANGED <<domains, routes, upstreams, keys>> /\ job[c] \in JobRec
        /\ job[c].i = 1 /\ job[c].made = 0
    BY JobIs DEF Authenticate, Reject, rows, JobOK
  <1>1. PICK cred : cred = job[c].call.cred
    OBVIOUS
  <1>2. cred \in Credential /\ (cred.kind = "key" => cred.key \in Ids)
    <2>1. job[c].call \in CallSet /\ job[c].call \in Call
      BY <1>0, TenantAssumption DEF JobRec
    <2>2. cred \in Credential
      BY <1>1, <2>1 DEF Call
    <2> QED BY <1>1, <2>1, <2>2, TenantAssumption
  <1>3. AuthStatus(cred) \in Nat
    BY AuthIs
  <1>4. \/ Answer(c, AuthStatus(cred))
        \/ AuthStatus(cred) = 0 /\ JobStep(c, Allowed(job[c], Context(cred))) /\ UNCHANGED txt
    BY <1>1 DEF Authenticate, Reject, Advance, JobStep, Allowed
  <1>5. CASE Answer(c, AuthStatus(cred))
    BY <1>0, <1>3, <1>5, AnswerStep
  <1>6. CASE AuthStatus(cred) = 0 /\ JobStep(c, Allowed(job[c], Context(cred))) /\ UNCHANGED txt
    <2>1. cred.kind \in {"jwt", "key"}
      BY <1>6, AuthIs
    <2>2. ASSUME cred.kind = "jwt"
          PROVE  Context(cred).tenant \in Tenants /\ Context(cred).scopes \in SUBSET STRING
      <3>1. Context(cred).tenant = cred.tenant /\ Context(cred).scopes = cred.scopes
        BY <2>2 DEF Context
      <3>2. cred.tenant # ""
        BY <1>6, <2>2, AuthIs
      <3>3. cred.tenant \in Tenants \cup {""} /\ cred.scopes \in SUBSET STRING
        BY <1>2 DEF Credential
      <3> QED BY <3>1, <3>2, <3>3
    <2>3. ASSUME cred.kind = "key"
          PROVE  Context(cred).tenant \in Tenants /\ Context(cred).scopes \in SUBSET STRING
      <3>1. keys[cred.key] # NoKey
        BY <1>6, <2>3, AuthIs
      <3>2. keys[cred.key] \in KeyRow
        BY <1>2, <2>3, <3>1 DEF TenantInv, Tables
      <3> QED BY <2>3, <3>2 DEF Context, KeyRow
    <2>4. PICK ctx : ctx = Context(cred) /\ ctx.tenant \in Tenants /\ ctx.scopes \in SUBSET STRING
      BY <2>1, <2>2, <2>3
    <2>5. PICK k : k = Allowed(job[c], ctx)
      OBVIOUS
    <2>6. k \in JobRec /\ k.pc = "tenant" /\ k.tenant = ctx.tenant /\ k.i = 1 /\ k.made = 0
      BY <1>0, <2>4, <2>5 DEF Allowed, JobRec
    <2>7. JobOK(c, k, domains, upstreams, txt, Unused)
      BY <2>4, <2>6 DEF JobOK
    <2>8. Pend(k) => Pend(job[c])
      BY <1>0 DEF Pend
    <2> QED BY <1>0, <1>6, <2>4, <2>5, <2>7, <2>8, ReadStep
  <1> QED BY <1>0, <1>4, <1>5, <1>6

Running(k) == [k EXCEPT !.pc = "run"]

LEMMA ProgramLength ==
    ASSUME NEW op
    PROVE  Len(Program(op)) \in Nat /\ 1 \in 1..Len(Program(op))
  <1>1. op \notin AllOps => Len(Program(op)) \in Nat /\ 1 \in 1..Len(Program(op))
    BY OtherProgram
  <1>2. op \in AllOps => Len(Program(op)) \in {1, 2, 3, 4}
    BY Programs DEF AllOps, DomainOps, RouteOps, UpstreamOps
  <1> QED BY <1>1, <1>2

LEMMA AdmitOK ==
    ASSUME TenantInv, NEW c \in Callers, Admit(c)
    PROVE  TenantInv' /\ UNCHANGED <<domains, routes, upstreams, keys>>
  <1>0. /\ job[c].pc = "tenant" /\ UNCHANGED <<domains, routes, upstreams, keys>> /\ job[c] \in JobRec
        /\ job[c].tenant \in Tenants /\ job[c].i = 1 /\ job[c].made = 0
    BY JobIs DEF Admit, Reject, rows, JobOK
  <1>1. Answer(c, 403) \/ (JobStep(c, Running(job[c])) /\ UNCHANGED txt)
    BY DEF Admit, Reject, Advance, JobStep, Running
  <1>2. CASE Answer(c, 403)
    BY <1>0, <1>2, AnswerStep
  <1>3. CASE JobStep(c, Running(job[c])) /\ UNCHANGED txt
    <2>1. PICK k : k = Running(job[c])
      OBVIOUS
    <2>2. k \in JobRec /\ k.pc = "run" /\ k.tenant = job[c].tenant /\ k.i = 1 /\ k.made = 0 /\ k.call = job[c].call
      BY <1>0, <2>1 DEF Running, JobRec
    <2>3. RunOK(c, k, domains, upstreams, txt, Unused)
      BY <2>2 DEF RunOK, DomainRead, UpstreamRead
    <2>4. JobOK(c, k, domains, upstreams, txt, Unused)
      BY <1>0, <2>2, <2>3, ProgramLength DEF JobOK
    <2>5. Pend(k) => Pend(job[c])
      BY <1>0 DEF Pend
    <2> QED BY <1>0, <1>3, <2>1, <2>4, <2>5, ReadStep
  <1> QED BY <1>0, <1>1, <1>2, <1>3

LEMMA StatementFailsOK ==
    ASSUME TenantInv, NEW c \in Callers, StatementFails(c)
    PROVE  TenantInv' /\ UNCHANGED <<domains, routes, upstreams, keys>>
  <1>0. job[c].pc # "done" /\ UNCHANGED <<domains, routes, upstreams, keys, txt>> /\ job[c] \in JobRec
        /\ job[c].made \in {0, NewId[c]} /\ 500 \in Nat
    BY JobIs DEF StatementFails, rows
  <1>1. JobStep(c, Ended2(job[c], 500))
    BY DEF StatementFails, JobStep, Ended2
  <1>2. PICK s \in Nat : s = 500
    OBVIOUS
  <1>3. job[c] \in JobRec /\ job[c].made \in {0, NewId[c]}
    BY <1>0
  <1>4. JobOK(c, Ended2(job[c], s), domains, upstreams, txt, Unused) /\ ~Pend(Ended2(job[c], s))
    BY <1>3, DoneOK
  <1> QED BY <1>0, <1>1, <1>2, <1>4, ReadStep

\* What no caller does: an operator suspends a tenant, a token is published.
LEMMA AroundOK ==
    ASSUME TenantInv,
           \/ \E t \in Tenants : Suspend(t)
           \/ \E n \in DomainNames : Publish(n)
           \/ UNCHANGED tenantVars
    PROVE  TenantInv' /\ UNCHANGED <<domains, routes, upstreams, keys>>
  <1>0. UNCHANGED <<domains, routes, upstreams, keys, job>>
    BY DEF Suspend, Publish, rows, tenantVars
  <1>1. /\ \A n \in DomainNames : txt[n] \subseteq txt'[n]
        /\ txt' \in [DomainNames -> SUBSET Ids]
        /\ \A n \in DomainNames : \A d \in txt'[n] :
             d \in txt[n] \/ (d \in Ids /\ domains[d].tenant = Controller[n] /\ domains[d].name = n)
    <2>0. txt \in [DomainNames -> SUBSET Ids]
      BY DEF TenantInv, Tables
    <2>1. CASE UNCHANGED txt
      BY <2>0, <2>1
    <2>2. CASE \E n \in DomainNames : Publish(n)
      <3>1. PICK n \in DomainNames : Publish(n)
        BY <2>2
      <3>2. PICK d \in DomainsOf(Controller[n]) : domains[d].name = n /\ txt' = [txt EXCEPT ![n] = txt[n] \cup {d}]
        BY <3>1 DEF Publish
      <3>3. d \in Ids /\ domains[d].tenant = Controller[n]
        BY DEF DomainsOf
      <3>4. PICK T : T = txt[n] \cup {d}
        OBVIOUS
      <3>5. T \in SUBSET Ids
        BY <2>0, <3>3, <3>4
      <3>6. txt' \in [DomainNames -> SUBSET Ids] /\ txt'[n] = T /\ \A m \in DomainNames : m # n => txt'[m] = txt[m]
        BY <2>0, <3>2, <3>4, <3>5
      <3> QED BY <3>2, <3>3, <3>4, <3>6
    <2> QED BY <2>1, <2>2 DEF Suspend, tenantVars
  <1>2. Unused' = Unused
    BY <1>0 DEF Unused
  <1>3. Tables' /\ RoutesStayHome' /\ VerifiedByController' /\ job' \in [Callers -> JobRec]
    BY <1>0, <1>1 DEF TenantInv, Tables, RoutesStayHome, VerifiedByController
  <1>4. \A x \in Unused' : Untaken(x)'
    BY <1>0, <1>2 DEF TenantInv, Untaken
  <1>5. ASSUME NEW x \in Callers PROVE JobOK(x, job'[x], domains', upstreams', txt', Unused')
    <2>1. JobOK(x, job[x], domains, upstreams, txt, Unused)
      BY DEF TenantInv
    <2>2. NewId[x] \notin Unused \/ job[x].made = 0
      <3>1. \A y \in Callers : NewId[y] = NewId[x] => y = x
        BY StoredAssumption
      <3> QED BY <3>1 DEF Unused, Pend
    <2>3. KeptDomains(domains, domains, Unused) /\ KeptUpstreams(upstreams, upstreams, Unused)
      BY SameKept
    <2>4. JobOK(x, job[x], domains, upstreams, txt', Unused)
      BY <1>1, <2>1, <2>2, <2>3, JobKept
    <2> QED BY <1>0, <1>2, <2>4
  <1>6. Tokens(domains', txt', Unused')
    <2> SUFFICES ASSUME NEW n \in DomainNames, NEW d \in txt'[n]
                 PROVE  d \notin Unused /\ (domains[d] = NoDomain \/ (domains[d].tenant = Controller[n] /\ domains[d].name = n))
      BY <1>0, <1>2 DEF Tokens
    <2>1. CASE d \in txt[n]
      BY <2>1 DEF TenantInv, Tokens
    <2>2. CASE d \in Ids /\ domains[d].tenant = Controller[n] /\ domains[d].name = n
      <3>1. domains[d] # NoDomain
        BY <2>2, RowsAre, TenantAssumption
      <3>2. d \notin Unused
        BY <3>1 DEF TenantInv, Untaken
      <3> QED BY <2>2, <3>2
    <2> QED BY <1>1, <2>1, <2>2
  <1> QED BY <1>0, <1>3, <1>4, <1>5, <1>6 DEF TenantInv

FirstJob(cl) ==
    [call |-> cl, pc |-> IF cl.op = "none" THEN "done" ELSE "auth", i |-> 1, tenant |-> "", scopes |-> {},
     snap |-> NoDomain, made |-> 0, todo |-> {}, status |-> 0]

LEMMA InitTenant ==
    ASSUME TenantStart
    PROVE  TenantInv
  <1>1. PICK f \in [Callers -> CallSet] : job = [c \in Callers |-> FirstJob(f[c])]
    BY DEF TenantStart, Calls, FirstJob
  <1>2. /\ domains = Stored.domains /\ routes = Stored.routes /\ upstreams = Stored.upstreams /\ keys = Stored.keys
        /\ txt = [n \in DomainNames |-> {}]
    BY DEF TenantStart, TenantInit
  <1>3. \A cl \in CallSet : /\ FirstJob(cl) \in JobRec /\ FirstJob(cl).made = 0 /\ FirstJob(cl).i = 1
                              /\ FirstJob(cl).pc \in {"auth", "done"}
    BY DEF FirstJob, JobRec
  <1>4. \A c \in Callers : /\ job[c] \in JobRec /\ job[c].made = 0 /\ job[c].i = 1 /\ job[c].pc \in {"auth", "done"}
    BY <1>1, <1>3
  <1>5. \A c \in Callers : JobOK(c, job[c], domains, upstreams, txt, Unused)
    BY <1>4 DEF JobOK
  <1>6. job \in [Callers -> JobRec]
    BY <1>1, <1>4
  <1>7. Tables
    <2>1. txt \in [DomainNames -> SUBSET Ids]
      BY <1>2
    <2> QED BY <1>2, <2>1, StoredAssumption DEF Tables
  <1>8. \A x \in Unused : Untaken(x)
    BY <1>2, StoredAssumption DEF Unused, Untaken
  <1>9. Tokens(domains, txt, Unused)
    BY <1>2 DEF Tokens
  <1>10. RoutesStayHome
    BY <1>2, StoredAssumption DEF RoutesStayHome
  <1>11. VerifiedByController
    BY <1>2, StoredAssumption DEF VerifiedByController
  <1> QED BY <1>5, <1>6, <1>7, <1>8, <1>9, <1>10, <1>11 DEF TenantInv

\* What the four tables lose or gain is a running call's own.
Isolated ==
    /\ \A d \in Ids : domains'[d] # domains[d] => ActsFor(IF domains[d] = NoDomain THEN domains'[d].tenant ELSE domains[d].tenant)
    /\ \A r \in Ids : routes'[r] # routes[r] => ActsFor(IF routes[r] = NoRoute THEN routes'[r].tenant ELSE routes[r].tenant)
    /\ \A u \in Ids : upstreams'[u] # upstreams[u] => ActsFor(IF upstreams[u] = NoUpstream THEN upstreams'[u].tenant ELSE upstreams[u].tenant)
    /\ \A k \in Ids : keys'[k] # keys[k] => ActsFor(IF keys[k] = NoKey THEN keys'[k].tenant ELSE keys[k].tenant)

LEMMA StepTenant ==
    ASSUME TenantInv, [TenantNext]_tenantVars
    PROVE  TenantInv' /\ Isolated
  <1>1. CASE \E c \in Callers : Statement(c)
    <2>1. PICK c \in Callers : Statement(c)
      BY <1>1
    <2>2. TenantInv' /\ job'[c] # job[c] /\ OwnersOf(c) /\ job[c].pc = "run"
      BY <2>1, StatementOK DEF Touches
    <2>3. ActsFor(job[c].tenant)
      BY <2>2 DEF ActsFor
    <2> QED BY <2>2, <2>3 DEF Isolated, OwnersOf
  <1>2. ASSUME TenantInv' /\ UNCHANGED <<domains, routes, upstreams, keys>>
        PROVE  TenantInv' /\ Isolated
    BY <1>2 DEF Isolated
  <1>3. CASE \E c \in Callers : Authenticate(c) \/ Admit(c) \/ StatementFails(c)
    BY <1>2, <1>3, AuthenticateOK, AdmitOK, StatementFailsOK
  <1>4. CASE (\E t \in Tenants : Suspend(t)) \/ (\E n \in DomainNames : Publish(n)) \/ UNCHANGED tenantVars
    BY <1>2, <1>4, AroundOK
  <1> QED BY <1>1, <1>3, <1>4 DEF TenantNext

\* What a call of a tenant changes, cascades included, is the tenant's own,
\* whatever ids the call names and however the calls of other tenants
\* interleave with its statements: every query of saas/handlers and every
\* DELETE ... CASCADE stays within the tenant that authenticated.
THEOREM TenantsIsolated == TenantSpec => TenantIsolation
  <1>1. TenantStart => TenantInv
    BY InitTenant
  <1>2. TenantInv /\ [TenantNext]_tenantVars => TenantInv'
    BY StepTenant
  <1>3. TenantInv /\ [TenantNext]_tenantVars => [Isolated]_tenantVars
    BY StepTenant
  <1>4. TenantSpec => [][Isolated]_tenantVars
    BY <1>1, <1>2, <1>3, PTL DEF TenantSpec
  <1> QED BY <1>4, PTL DEF TenantIsolation, Isolated

(***************************************************************************)
(* The quota and the challenges.  A creation that passed the quota's check *)
(* holds a place until it inserts its row or answers: with no creation     *)
(* past the check the quota is respected, and each one past it may push    *)
(* the tenant's domains, and the places held, one further.                 *)
(***************************************************************************)
Passed(t) == {c \in Callers : job[c].tenant = t /\ job[c].call.op = "create_domain" /\ job[c].i > 1}
Held(t) == {c \in Passed(t) : job[c].pc = "run" /\ job[c].i < 4}

QuotaInv ==
    \A t \in Tenants :
      IF Passed(t) = {} THEN Cardinality(DomainsOf(t)) <= MaxDomains[t]
      ELSE Cardinality(DomainsOf(t)) + Cardinality(Held(t)) < MaxDomains[t] + Cardinality(Passed(t))

\* A domain stays, or goes; the challenges of those that stay do too.
DomainsStay ==
    \A d \in Ids :
      \/ domains'[d] = NoDomain
      \/ /\ domains[d] # NoDomain /\ domains'[d].tenant = domains[d].tenant
         /\ \A x \in challenges : x.domain = d => x \in challenges'

LEMMA StatementAgain ==
    ASSUME NEW c, NEW s1, NEW s2, At(c, s1), At(c, s2)
    PROVE  s1 = s2
  BY DEF At

LEMMA DomainsStayIn ==
    ASSUME TenantInv, NEW c \in Callers, Statement(c), ~At(c, "domain_insert")
    PROVE  DomainsStay
  <1>1. CASE UNCHANGED domains /\ challenges \subseteq challenges'
    BY <1>1 DEF DomainsStay
  <1>2. CASE DeleteDomain(c)
    <2>1. UNCHANGED <<domains, challenges>> \/
          (/\ domains' = [domains EXCEPT ![job[c].call.d] = NoDomain]
           /\ challenges' = {x \in challenges : x.domain # job[c].call.d})
      BY <1>2 DEF DeleteDomain
    <2>2. PICK d : d = job[c].call.d
      OBVIOUS
    <2>3. CASE domains' = [domains EXCEPT ![d] = NoDomain] /\ challenges' = {x \in challenges : x.domain # d}
      <3>1. \A x \in Ids : domains'[x] = IF x = d THEN NoDomain ELSE domains[x]
        BY <2>3 DEF TenantInv, Tables
      <3> QED BY <2>3, <3>1 DEF DomainsStay
    <2> QED BY <1>1, <2>1, <2>2, <2>3
  <1>3. CASE SetVerified(c) \/ SetEnabled(c) \/ UpdateDomain(c)
    <2>0. job[c] \in JobRec /\ job[c].tenant \in Tenants /\ UNCHANGED challenges
      BY <1>3, RunningIs DEF SetVerified, SetEnabled, UpdateDomain
    <2>1. PICK d \in Ids : d = job[c].call.d
      BY <2>0, CallIs
    <2>2. domains \in [Ids -> DomainRow \cup {NoDomain}]
      BY DEF TenantInv, Tables
    <2>3. UNCHANGED domains \/ domains[d] # NoDomain
      <3>1. UpdateDomain(c) => UNCHANGED domains \/ domains[d].tenant = job[c].tenant
        BY <2>1 DEF UpdateDomain, Mine
      <3>2. UpdateDomain(c) => UNCHANGED domains \/ domains[d] # NoDomain
        BY <2>0, <3>1, RowsAre, TenantAssumption
      <3>3. SetVerified(c) \/ SetEnabled(c) => UNCHANGED domains \/ domains[d] # NoDomain
        BY <2>1 DEF SetVerified, SetEnabled
      <3> QED BY <1>3, <3>2, <3>3
    <2>4. CASE domains[d] # NoDomain /\ ~UNCHANGED domains
      <3>1. \/ domains' = [domains EXCEPT ![d] = VerifiedRow(domains[d], job[c].snap.method)]
            \/ domains' = [domains EXCEPT ![d] = EnabledRow(domains[d], job[c].call.op = "enable_domain")]
            \/ domains' = [domains EXCEPT ![d] = MethodRow(domains[d], job[c].call.method)]
        BY <1>3, <2>1, <2>2, <2>4 DEF SetVerified, SetEnabled, UpdateDomain, VerifiedRow, EnabledRow, MethodRow
      <3>2. domains[d] \in DomainRow
        BY <2>2, <2>4
      <3>3. \A row \in DomainRow : \A m : /\ VerifiedRow(row, m).tenant = row.tenant
                                      /\ EnabledRow(row, m).tenant = row.tenant /\ MethodRow(row, m).tenant = row.tenant
        BY DEF VerifiedRow, EnabledRow, MethodRow, DomainRow
      <3>4. \A x \in Ids : x # d => domains'[x] = domains[x]
        BY <2>2, <3>1
      <3>5. domains'[d].tenant = domains[d].tenant
        BY <2>2, <3>1, <3>2, <3>3
      <3> QED BY <2>0, <2>4, <3>4, <3>5 DEF DomainsStay
    <2> QED BY <1>1, <2>0, <2>3, <2>4
  <1>4. CASE ~(DeleteDomain(c) \/ SetVerified(c) \/ SetEnabled(c) \/ UpdateDomain(c))
    <2>1. ~InsertDomain(c)
      BY DEF InsertDomain
    <2>2. UNCHANGED domains /\ challenges \subseteq challenges'
      <3>1. GetDomain(c) \/ GetUpstream(c) \/ GetRoute(c) \/ CheckQuota(c) \/ DomainExists(c) \/ RecordAttempt(c)
            \/ CheckProof(c) \/ List(c) => UNCHANGED <<domains, challenges>>
        BY DEF GetDomain, GetUpstream, GetRoute, CheckQuota, DomainExists, RecordAttempt, CheckProof, List, rows
      <3>2. InsertRoute(c) \/ UpdateRoute(c) \/ DeleteRoute(c) \/ InsertUpstream(c) \/ InsertBackends(c)
            \/ UpdateUpstream(c) \/ DeleteUpstream(c) \/ InsertBackend(c) \/ DeleteBackend(c) \/ InsertKey(c) \/ DeleteKey(c)
            => UNCHANGED <<domains, challenges>>
        BY DEF InsertRoute, UpdateRoute, DeleteRoute, InsertUpstream, InsertBackends, UpdateUpstream, DeleteUpstream,
               InsertBackend, DeleteBackend, InsertKey, DeleteKey
      <3>3. InsertChallenge(c) => UNCHANGED domains /\ challenges \subseteq challenges'
        BY DEF InsertChallenge
      <3> QED BY <1>4, <2>1, <3>1, <3>2, <3>3 DEF Statement
    <2> QED BY <1>1, <2>2
  <1> QED BY <1>2, <1>3, <1>4

\* What a statement does to its call: it answers, goes on, or has one more backend to insert.
Goes(c, k) == k \in JobRec /\ k.call = job[c].call /\ k.i = job[c].i /\ k.tenant = job[c].tenant /\ Then(c, k)
Outcomes(c) ==
    \/ \E s \in Nat : Answer(c, s)
    \/ \E k : Goes(c, k)
    \/ job[c].call.op = "create_upstream" /\ \E k \in JobRec : k.call = job[c].call /\ JobStep(c, k)

LEMMA StatementOutcome ==
    ASSUME TenantInv, NEW c \in Callers, Statement(c)
    PROVE  Outcomes(c) /\ UNCHANGED partial
  <1>0. job[c] \in JobRec /\ NewId[c] \in Ids
    BY JobIs
  <1>1. UNCHANGED partial
    <2>1. GetDomain(c) \/ GetUpstream(c) \/ GetRoute(c) \/ CheckQuota(c) \/ DomainExists(c) \/ RecordAttempt(c)
          \/ CheckProof(c) \/ List(c) => UNCHANGED partial
      BY DEF GetDomain, GetUpstream, GetRoute, CheckQuota, DomainExists, RecordAttempt, CheckProof, List, Same
    <2>2. InsertDomain(c) \/ InsertChallenge(c) \/ DeleteDomain(c) \/ SetVerified(c) \/ SetEnabled(c) \/ UpdateDomain(c)
          => UNCHANGED partial
      BY DEF InsertDomain, InsertChallenge, DeleteDomain, SetVerified, SetEnabled, UpdateDomain, Same
    <2>3. InsertRoute(c) \/ UpdateRoute(c) \/ DeleteRoute(c) \/ InsertKey(c) \/ DeleteKey(c) => UNCHANGED partial
      BY DEF InsertRoute, UpdateRoute, DeleteRoute, InsertKey, DeleteKey, Same
    <2>4. InsertUpstream(c) \/ InsertBackends(c) \/ UpdateUpstream(c) => UNCHANGED partial
      BY DEF InsertUpstream, InsertBackends, UpdateUpstream, Same
    <2>5. DeleteUpstream(c) \/ InsertBackend(c) \/ DeleteBackend(c) => UNCHANGED partial
      BY DEF DeleteUpstream, InsertBackend, DeleteBackend, Same
    <2> QED BY <2>1, <2>2, <2>3, <2>4, <2>5 DEF Statement
  <1>2. ASSUME NEW s \in {200, 400, 402, 404, 409, 500}, Answer(c, s) PROVE Outcomes(c)
    <2>1. s \in Nat
      OBVIOUS
    <2> QED BY <1>2, <2>1 DEF Outcomes
  <1>3. ASSUME Then(c, job[c]) PROVE Outcomes(c)
    BY <1>0, <1>3 DEF Outcomes, Goes
  <1>4. CASE GetDomain(c)
    <2>1. PICK d : d = domains[job[c].call.d]
      OBVIOUS
    <2>2. Answer(c, 404) \/ Answer(c, 400) \/ Then(c, Snapped(job[c], d))
      BY <1>4, <2>1 DEF GetDomain, Snapped
    <2>3. d \in DomainRow \cup {NoDomain}
      BY <1>0, <2>1, CallIs DEF TenantInv, Tables
    <2>4. PICK k : k = Snapped(job[c], d)
      OBVIOUS
    <2>5. k \in JobRec /\ k.call = job[c].call /\ k.i = job[c].i /\ k.tenant = job[c].tenant
      BY <1>0, <2>3, <2>4 DEF Snapped, JobRec
    <2> QED BY <1>1, <1>2, <2>2, <2>4, <2>5 DEF Outcomes, Goes
  <1>5. CASE InsertDomain(c)
    <2>1. PICK k : k = Making(job[c], NewId[c])
      OBVIOUS
    <2>2. Answer(c, 500) \/ Then(c, k)
      BY <1>5, <2>1 DEF InsertDomain, Making
    <2>3. k \in JobRec /\ k.call = job[c].call /\ k.i = job[c].i /\ k.tenant = job[c].tenant
      BY <1>0, <2>1 DEF Making, JobRec
    <2> QED BY <1>1, <1>2, <2>2, <2>3 DEF Outcomes, Goes
  <1>6. CASE InsertUpstream(c)
    <2>1. PICK k : k = MakingOf(job[c], NewId[c], job[c].call.addresses)
      OBVIOUS
    <2>2. Answer(c, 500) \/ Then(c, k)
      BY <1>6, <2>1 DEF InsertUpstream, MakingOf
    <2>3. job[c].call.addresses \in SUBSET Addresses
      BY <1>0, CallIs
    <2>4. k \in JobRec /\ k.call = job[c].call /\ k.i = job[c].i /\ k.tenant = job[c].tenant
      BY <1>0, <2>1, <2>3 DEF MakingOf, JobRec
    <2> QED BY <1>1, <1>2, <2>2, <2>4 DEF Outcomes, Goes
  <1>7. CASE InsertBackends(c)
    <2>0. job[c].call.op = "create_upstream"
      <3>1. At(c, "backends_insert")
        BY <1>7 DEF InsertBackends
      <3> QED BY <3>1, RunningIs DEF StatementAt
    <2>1. Answer(c, 500) \/ Then(c, job[c]) \/ \E a : JobStep(c, ToDo(job[c], a))
      BY <1>7 DEF InsertBackends, Same, Advance, JobStep, ToDo
    <2>2. CASE \E a : JobStep(c, ToDo(job[c], a))
      <3>1. PICK a : JobStep(c, ToDo(job[c], a))
        BY <2>2
      <3>2. PICK t \in SUBSET Addresses : t = job[c].todo \ {a}
        BY <1>0 DEF JobRec
      <3>3. ToDo(job[c], a) \in JobRec /\ ToDo(job[c], a).call = job[c].call
        BY <1>0, <3>2 DEF ToDo, JobRec
      <3> QED BY <1>1, <2>0, <3>1, <3>3 DEF Outcomes
    <2> QED BY <1>1, <1>2, <1>3, <2>1, <2>2
  <1>8. CASE GetUpstream(c) \/ GetRoute(c) \/ CheckQuota(c) \/ DomainExists(c) \/ InsertChallenge(c) \/ DeleteDomain(c)
             \/ RecordAttempt(c) \/ CheckProof(c) \/ List(c)
    <2>1. Answer(c, 404) \/ Answer(c, 402) \/ Answer(c, 409) \/ Answer(c, 500) \/ Answer(c, 200) \/ Then(c, job[c])
      BY <1>8 DEF GetUpstream, GetRoute, CheckQuota, DomainExists, InsertChallenge, DeleteDomain, RecordAttempt, CheckProof,
                  List, Same
    <2> QED BY <1>1, <1>2, <1>3, <2>1
  <1>9. CASE SetVerified(c) \/ SetEnabled(c) \/ UpdateDomain(c) \/ InsertRoute(c) \/ UpdateRoute(c) \/ DeleteRoute(c)
             \/ UpdateUpstream(c) \/ DeleteUpstream(c) \/ InsertBackend(c) \/ DeleteBackend(c) \/ InsertKey(c) \/ DeleteKey(c)
    <2>1. Answer(c, 404) \/ Answer(c, 400) \/ Answer(c, 500) \/ Then(c, job[c])
      BY <1>9 DEF SetVerified, SetEnabled, UpdateDomain, InsertRoute, UpdateRoute, DeleteRoute, UpdateUpstream,
                  DeleteUpstream, InsertBackend, DeleteBackend, InsertKey, DeleteKey, Same
    <2> QED BY <1>1, <1>2, <1>3, <2>1
  <1> QED BY <1>1, <1>4, <1>5, <1>6, <1>7, <1>8, <1>9 DEF Statement

\* The job of c afterwards, and nobody else's.
LEMMA OutcomeIs ==
    ASSUME TenantInv, NEW c \in Callers, Outcomes(c)
    PROVE  /\ \A x \in Callers : x # c => job'[x] = job[x]
           /\ job'[c].call = job[c].call
           /\ job[c].call.op = "create_domain" => job'[c].tenant = job[c].tenant
           /\ job[c].call.op = "create_domain" =>
                \/ job'[c].i = job[c].i /\ job'[c].pc = "done"
                \/ job'[c].i = job[c].i + 1
  <1>0. job \in [Callers -> JobRec] /\ job[c] \in JobRec
    BY JobIs DEF TenantInv
  <1>1. CASE \E s \in Nat : Answer(c, s)
    <2>1. PICK s \in Nat : JobStep(c, Ended2(job[c], s))
      BY <1>1 DEF Answer, Advance, JobStep, Ended2
    <2>2. /\ Ended2(job[c], s).call = job[c].call /\ Ended2(job[c], s).tenant = job[c].tenant
          /\ Ended2(job[c], s).i = job[c].i /\ Ended2(job[c], s).pc = "done"
      BY <1>0 DEF Ended2, JobRec
    <2>3. \A x \in Callers : job'[x] = IF x = c THEN Ended2(job[c], s) ELSE job[x]
      BY <1>0, <2>1 DEF JobStep
    <2> QED BY <2>2, <2>3
  <1>2. CASE \E k : Goes(c, k)
    <2>1. PICK k : Goes(c, k)
      BY <1>2
    <2>2. PICK m : m = Moved(c, k)
      OBVIOUS
    <2>3. JobStep(c, m)
      BY <2>1, <2>2 DEF Goes, Then, Advance, JobStep, Moved, Ended2, Up
    <2>4. /\ Ended2(k, 200).call = k.call /\ Ended2(k, 200).tenant = k.tenant /\ Ended2(k, 200).i = k.i
          /\ Ended2(k, 200).pc = "done"
      BY <2>1 DEF Goes, Ended2, JobRec
    <2>5. Up(k).call = k.call /\ Up(k).tenant = k.tenant /\ Up(k).i = k.i + 1
      BY <2>1, UpIs DEF Goes
    <2>6. \A x \in Callers : job'[x] = IF x = c THEN m ELSE job[x]
      BY <1>0, <2>3 DEF JobStep
    <2>7. m = Ended2(k, 200) \/ m = Up(k)
      BY <2>2 DEF Moved
    <2> QED BY <2>1, <2>4, <2>5, <2>6, <2>7 DEF Goes
  <1>3. CASE job[c].call.op = "create_upstream" /\ \E k \in JobRec : k.call = job[c].call /\ JobStep(c, k)
    <2>1. PICK k \in JobRec : k.call = job[c].call /\ JobStep(c, k)
      BY <1>3
    <2>2. \A x \in Callers : job'[x] = IF x = c THEN k ELSE job[x]
      BY <1>0, <2>1 DEF JobStep
    <2> QED BY <1>3, <2>1, <2>2
  <1> QED BY <1>1, <1>2, <1>3 DEF Outcomes

Elsewhere ==
    {"get_domain", "get_upstream", "get_route", "exists", "domain_delete", "attempt", "lookup", "set_verified", "set_enabled",
     "domain_update", "route_insert", "route_update", "route_delete", "upstream_insert", "backends_insert",
     "upstream_update", "upstream_delete", "backend_insert", "backend_delete", "key_insert", "key_delete", "list"}

LEMMA WhichStatement ==
    ASSUME NEW c, Statement(c)
    PROVE  InsertDomain(c) \/ InsertChallenge(c) \/ CheckQuota(c) \/ \E s \in Elsewhere : At(c, s)
  <1>1. GetDomain(c) \/ GetUpstream(c) \/ GetRoute(c) \/ DomainExists(c) \/ DeleteDomain(c) \/ RecordAttempt(c)
        \/ CheckProof(c) => \E s \in Elsewhere : At(c, s)
    BY DEF GetDomain, GetUpstream, GetRoute, DomainExists, DeleteDomain, RecordAttempt, CheckProof, Elsewhere
  <1>2. SetVerified(c) \/ SetEnabled(c) \/ UpdateDomain(c) \/ InsertRoute(c) \/ UpdateRoute(c) \/ DeleteRoute(c)
        => \E s \in Elsewhere : At(c, s)
    BY DEF SetVerified, SetEnabled, UpdateDomain, InsertRoute, UpdateRoute, DeleteRoute, Elsewhere
  <1>3. InsertUpstream(c) \/ InsertBackends(c) \/ UpdateUpstream(c) \/ DeleteUpstream(c) \/ InsertBackend(c)
        \/ DeleteBackend(c) => \E s \in Elsewhere : At(c, s)
    BY DEF InsertUpstream, InsertBackends, UpdateUpstream, DeleteUpstream, InsertBackend, DeleteBackend, Elsewhere
  <1>4. InsertKey(c) \/ DeleteKey(c) \/ List(c) => \E s \in Elsewhere : At(c, s)
    BY DEF InsertKey, DeleteKey, List, Elsewhere
  <1> QED BY <1>1, <1>2, <1>3, <1>4 DEF Statement

LEMMA NotElsewhere ==
    ASSUME NEW c, NEW s \in Elsewhere, At(c, s)
    PROVE  ~At(c, "domain_insert") /\ ~At(c, "challenge_insert") /\ ~At(c, "quota")
  <1>1. s # "domain_insert" /\ s # "challenge_insert" /\ s # "quota"
    BY DEF Elsewhere
  <1> QED BY <1>1, StatementAgain

LEMMA ChallengeKept ==
    ASSUME CreatedWithChallenge, NEW c \in Callers, \A x \in Callers : x # c => job'[x] = job[x],
           ~At(c, "challenge_insert"), partial \subseteq partial', DomainsStay
    PROVE  CreatedWithChallenge'
  <1> SUFFICES ASSUME NEW d \in Ids, domains'[d] # NoDomain
               PROVE  \/ \E x \in challenges' : x.domain = d
                      \/ d \in partial'
                      \/ \E x \in Callers : job'[x].made = d /\ At(x, "challenge_insert")'
    BY DEF CreatedWithChallenge
  <1>1. domains[d] # NoDomain /\ \A x \in challenges : x.domain = d => x \in challenges'
    BY DEF DomainsStay
  <1>2. \A x \in Callers : At(x, "challenge_insert") => At(x, "challenge_insert")' /\ job'[x] = job[x]
    BY DEF At
  <1> QED BY <1>1, <1>2 DEF CreatedWithChallenge

LEMMA ChallengeStep ==
    ASSUME TenantInv, CreatedWithChallenge, [TenantNext]_tenantVars
    PROVE  CreatedWithChallenge'
  <1>1. CASE UNCHANGED <<rows, job, partial>>
    BY <1>1 DEF CreatedWithChallenge, rows, At
  <1>2. ASSUME NEW c \in Callers, Authenticate(c) \/ Admit(c) PROVE CreatedWithChallenge'
    <2>1. job[c].pc # "run" /\ UNCHANGED <<domains, challenges, partial>> /\ \E j : job' = [job EXCEPT ![c] = j]
      BY <1>2 DEF Authenticate, Admit, Reject, Answer, Advance, rows
    <2>2. DomainsStay
      BY <2>1 DEF DomainsStay
    <2>3. ~At(c, "challenge_insert") /\ \A x \in Callers : x # c => job'[x] = job[x]
      BY <2>1 DEF At, TenantInv
    <2> QED BY <2>1, <2>2, <2>3, ChallengeKept
  <1>3. ASSUME NEW c \in Callers, StatementFails(c) PROVE CreatedWithChallenge'
    <2>1. /\ UNCHANGED <<domains, challenges>> /\ \A x \in Callers : x # c => job'[x] = job[x]
          /\ partial' = IF job[c].made # 0 THEN partial \cup {job[c].made} ELSE partial
      BY <1>3 DEF StatementFails, rows, TenantInv
    <2> SUFFICES ASSUME NEW d \in Ids, domains[d] # NoDomain
                 PROVE  \/ \E x \in challenges : x.domain = d
                        \/ d \in partial'
                        \/ \E x \in Callers : job'[x].made = d /\ At(x, "challenge_insert")'
      BY <2>1 DEF CreatedWithChallenge
    <2>2. d # 0
      BY TenantAssumption
    <2>3. \A x \in Callers : x # c /\ At(x, "challenge_insert") => At(x, "challenge_insert")' /\ job'[x] = job[x]
      BY <2>1 DEF At
    <2> QED BY <2>1, <2>2, <2>3 DEF CreatedWithChallenge
  <1>4. ASSUME NEW c \in Callers, Statement(c) PROVE CreatedWithChallenge'
    <2>1. Outcomes(c) /\ UNCHANGED partial
      BY <1>4, StatementOutcome
    <2>2. \A x \in Callers : x # c => job'[x] = job[x]
      BY <2>1, OutcomeIs
    <2>3. ASSUME ~At(c, "challenge_insert"), ~At(c, "domain_insert") PROVE CreatedWithChallenge'
      BY <1>4, <2>1, <2>2, <2>3, DomainsStayIn, ChallengeKept
    <2>4. CASE InsertDomain(c)
      <3>0. At(c, "domain_insert") /\ UNCHANGED challenges
        BY <2>4 DEF InsertDomain
      <3>1. CASE UNCHANGED domains
        <4>1. ~At(c, "challenge_insert")
          BY <3>0, StatementAgain
        <4>2. DomainsStay
          BY <3>0, <3>1 DEF DomainsStay
        <4> QED BY <2>1, <2>2, <4>1, <4>2, ChallengeKept
      <3>2. CASE ~UNCHANGED domains
        <4>1. PICK k : k = Making(job[c], NewId[c])
          OBVIOUS
        <4>2. PICK row : domains' = [domains EXCEPT ![NewId[c]] = row] /\ Then(c, k)
          BY <2>4, <3>2, <4>1 DEF InsertDomain, Making
        <4>3. /\ job[c] \in JobRec /\ NewId[c] \in Ids /\ job[c].pc = "run" /\ job[c].i = 3
              /\ job[c].call.op = "create_domain"
          BY <3>0, RunningIs, JobIs DEF StatementAt
        <4>4. /\ k \in JobRec /\ k.call = job[c].call /\ k.i = job[c].i /\ k.pc = job[c].pc
              /\ k.tenant = job[c].tenant /\ k.made = NewId[c]
          BY <4>1, <4>3 DEF Making, JobRec
        <4>5. PICK n : n = Up(k)
          OBVIOUS
        <4>6. JobStep(c, n) /\ n.i = 4 /\ n.call = job[c].call /\ n.made = NewId[c]
          BY <3>0, <4>2, <4>3, <4>4, <4>5, MadeIs
        <4>7. n.pc = "run"
          BY <4>3, <4>4, <4>5, UpIs
        <4>8. job'[c] = n
          BY <4>6 DEF JobStep, TenantInv
        <4>9. Program("create_domain")[4] = "challenge_insert"
          BY Programs
        <4>10. At(c, "challenge_insert")' /\ job'[c].made = NewId[c]
          BY <4>3, <4>6, <4>7, <4>8, <4>9 DEF At
        <4>11. \A d \in Ids : d # NewId[c] => domains'[d] = domains[d]
          BY <4>2 DEF TenantInv, Tables
        <4>12. \A x \in Callers : At(x, "challenge_insert") => At(x, "challenge_insert")' /\ job'[x] = job[x]
          <5>1. ~At(c, "challenge_insert")
            BY <3>0, StatementAgain
          <5> QED BY <2>2, <5>1 DEF At
        <4> SUFFICES ASSUME NEW d \in Ids, domains'[d] # NoDomain
                     PROVE  \/ \E x \in challenges' : x.domain = d
                            \/ d \in partial'
                            \/ \E x \in Callers : job'[x].made = d /\ At(x, "challenge_insert")'
          BY DEF CreatedWithChallenge
        <4> QED BY <2>1, <3>0, <4>10, <4>11, <4>12 DEF CreatedWithChallenge
      <3> QED BY <3>1, <3>2
    <2>5. CASE InsertChallenge(c)
      <3>1. /\ At(c, "challenge_insert") /\ UNCHANGED domains /\ challenges \subseteq challenges'
            /\ domains[job[c].made] # NoDomain => \E x \in challenges' : x.domain = job[c].made
        <4>1. PICK y : y = [domain |-> job[c].made, type |-> job[c].call.method, token |-> job[c].made]
          OBVIOUS
        <4>2. y.domain = job[c].made
          BY <4>1
        <4>3. At(c, "challenge_insert") /\ UNCHANGED domains
          BY <2>5 DEF InsertChallenge
        <4>4. \/ domains[job[c].made] = NoDomain /\ UNCHANGED challenges
              \/ challenges' = challenges \cup {y}
          BY <2>5, <4>1 DEF InsertChallenge
        <4> QED BY <4>2, <4>3, <4>4
      <3>2. \A x \in Callers : x # c /\ At(x, "challenge_insert") => At(x, "challenge_insert")' /\ job'[x] = job[x]
        BY <2>2 DEF At
      <3> SUFFICES ASSUME NEW d \in Ids, domains[d] # NoDomain
                   PROVE  \/ \E x \in challenges' : x.domain = d
                          \/ d \in partial'
                          \/ \E x \in Callers : job'[x].made = d /\ At(x, "challenge_insert")'
        BY <3>1 DEF CreatedWithChallenge
      <3> QED BY <2>1, <3>1, <3>2 DEF CreatedWithChallenge
    <2>6. CASE CheckQuota(c)
      <3>1. At(c, "quota")
        BY <2>6 DEF CheckQuota
      <3>2. ~At(c, "challenge_insert") /\ ~At(c, "domain_insert")
        BY <3>1, StatementAgain
      <3> QED BY <2>3, <3>2
    <2>7. CASE \E s \in Elsewhere : At(c, s)
      BY <2>3, <2>7, NotElsewhere
    <2> QED BY <1>4, <2>4, <2>5, <2>6, <2>7, WhichStatement
  <1> QED BY <1>1, <1>2, <1>3, <1>4 DEF TenantNext, Suspend, Publish, tenantVars

LEMMA QuotaSets ==
    ASSUME NEW t \in Tenants
    PROVE  /\ IsFiniteSet(Passed(t)) /\ IsFiniteSet(Held(t)) /\ IsFiniteSet(DomainsOf(t))
           /\ Cardinality(Passed(t)) \in Nat /\ Cardinality(Held(t)) \in Nat /\ Cardinality(DomainsOf(t)) \in Nat
           /\ MaxDomains[t] \in Nat
  <1>1. Passed(t) \subseteq Callers /\ Held(t) \subseteq Callers /\ DomainsOf(t) \subseteq Ids
    BY DEF Passed, Held, DomainsOf
  <1>2. IsFiniteSet(Passed(t)) /\ IsFiniteSet(Held(t)) /\ IsFiniteSet(DomainsOf(t))
    BY <1>1, FS_Subset, TenantAssumption
  <1> QED BY <1>2, FS_CardinalityType, TenantAssumption

\* Nobody passes the check, and nobody inserts a row.
LEMMA QuotaKept ==
    ASSUME QuotaInv, \A t \in Tenants : /\ DomainsOf(t)' \subseteq DomainsOf(t)
                                        /\ Passed(t)' = Passed(t) /\ Held(t)' \subseteq Held(t)
    PROVE  QuotaInv'
  <1> SUFFICES ASSUME NEW t \in Tenants
               PROVE  IF Passed(t)' = {} THEN Cardinality(DomainsOf(t)') <= MaxDomains[t]
                      ELSE Cardinality(DomainsOf(t)') + Cardinality(Held(t)') < MaxDomains[t] + Cardinality(Passed(t)')
    BY DEF QuotaInv
  <1>1. PICK D : D = DomainsOf(t)'
    OBVIOUS
  <1>2. PICK H : H = Held(t)'
    OBVIOUS
  <1>3. /\ D \subseteq DomainsOf(t) /\ H \subseteq Held(t) /\ Passed(t)' = Passed(t)
    BY <1>1, <1>2
  <1>4. /\ IsFiniteSet(DomainsOf(t)) /\ IsFiniteSet(Held(t))
        /\ Cardinality(Passed(t)) \in Nat /\ Cardinality(Held(t)) \in Nat /\ Cardinality(DomainsOf(t)) \in Nat
        /\ MaxDomains[t] \in Nat
    BY QuotaSets
  <1>5. Cardinality(D) \in Nat /\ Cardinality(D) <= Cardinality(DomainsOf(t))
    BY <1>3, <1>4, FS_Subset, FS_CardinalityType
  <1>6. Cardinality(H) \in Nat /\ Cardinality(H) <= Cardinality(Held(t))
    BY <1>3, <1>4, FS_Subset, FS_CardinalityType
  <1>7. IF Passed(t) = {} THEN Cardinality(DomainsOf(t)) <= MaxDomains[t]
        ELSE Cardinality(DomainsOf(t)) + Cardinality(Held(t)) < MaxDomains[t] + Cardinality(Passed(t))
    BY DEF QuotaInv
  <1>8. IF Passed(t) = {} THEN Cardinality(D) <= MaxDomains[t]
        ELSE Cardinality(D) + Cardinality(H) < MaxDomains[t] + Cardinality(Passed(t))
    BY <1>4, <1>5, <1>6, <1>7
  <1> QED BY <1>1, <1>2, <1>3, <1>8

\* A statement of c that does not pass the check of the quota.
LEMMA PassedSame ==
    ASSUME TenantInv, NEW c \in Callers, Outcomes(c), job[c].pc = "run", job[c].i \in Nat,
           job[c].call.op = "create_domain" /\ job[c].i < 2 => job'[c].i = job[c].i, NEW t
    PROVE  Passed(t)' = Passed(t) /\ Held(t)' \subseteq Held(t)
  <1>1. /\ \A x \in Callers : x # c => job'[x] = job[x]
        /\ job'[c].call = job[c].call
        /\ job[c].call.op = "create_domain" => job'[c].tenant = job[c].tenant
        /\ job[c].call.op = "create_domain" =>
             \/ job'[c].i = job[c].i /\ job'[c].pc = "done"
             \/ job'[c].i = job[c].i + 1
    BY OutcomeIs
  <1>2. c \in Passed(t)' <=> c \in Passed(t)
    <2>1. CASE job[c].call.op # "create_domain"
      BY <1>1, <2>1 DEF Passed
    <2>2. CASE job[c].call.op = "create_domain"
      <3>1. job'[c].i > 1 <=> job[c].i > 1
        BY <1>1, <2>2
      <3> QED BY <1>1, <2>2, <3>1 DEF Passed
    <2> QED BY <2>1, <2>2
  <1>3. \A x \in Callers : x # c => (x \in Passed(t)' <=> x \in Passed(t)) /\ (x \in Held(t)' <=> x \in Held(t))
    BY <1>1 DEF Passed, Held
  <1>4. Passed(t) \subseteq Callers /\ Passed(t)' \subseteq Callers /\ Held(t)' \subseteq Passed(t)'
    BY DEF Passed, Held
  <1>5. Passed(t)' = Passed(t)
    BY <1>2, <1>3, <1>4
  <1>6. c \in Held(t)' => c \in Held(t)
    <2> SUFFICES ASSUME c \in Held(t)' PROVE c \in Held(t)
      OBVIOUS
    <2>1. c \in Passed(t)' /\ job'[c].pc = "run" /\ job'[c].i < 4
      BY DEF Held
    <2>2. c \in Passed(t) /\ job[c].call.op = "create_domain"
      BY <1>2, <2>1 DEF Passed
    <2>3. job[c].i < 4
      BY <1>1, <2>1, <2>2
    <2> QED BY <2>2, <2>3 DEF Held
  <1> QED BY <1>3, <1>4, <1>5, <1>6

LEMMA DomainsShrink ==
    ASSUME DomainsStay, NEW t \in Tenants
    PROVE  DomainsOf(t)' \subseteq DomainsOf(t)
  <1>1. t # NoDomain.tenant
    BY RowsAre, TenantAssumption
  <1> QED BY <1>1 DEF DomainsStay, DomainsOf

\* A creation passes the check: one more is past it, one more place is held.
LEMMA QuotaChecked ==
    ASSUME TenantInv, QuotaInv, NEW c \in Callers, CheckQuota(c)
    PROVE  QuotaInv'
  <1>0. At(c, "quota") /\ UNCHANGED domains /\ Statement(c)
    BY DEF CheckQuota, rows, Statement
  <1>1. /\ job[c].tenant \in Tenants /\ job[c].i = 1 /\ job[c].call.op = "create_domain" /\ job[c].pc = "run"
        /\ job[c].i \in Nat /\ Carries(c, job[c])
    BY <1>0, RunningIs, SameCarries DEF StatementAt
  <1>2. \A t : DomainsOf(t)' = DomainsOf(t)
    BY <1>0 DEF DomainsOf
  <1>3. Outcomes(c)
    BY <1>0, StatementOutcome
  <1>4. CASE Answer(c, 402)
    <2>1. job'[c] = Ended2(job[c], 402)
      BY <1>4 DEF Answer, Advance, Ended2, TenantInv
    <2>2. Ended2(job[c], 402).i = job[c].i
      <3>1. job[c] \in JobRec
        BY JobIs
      <3> QED BY <3>1 DEF Ended2, JobRec
    <2>3. \A t \in Tenants : Passed(t)' = Passed(t) /\ Held(t)' \subseteq Held(t)
      BY <1>1, <1>3, <2>1, <2>2, PassedSame
    <2> QED BY <1>2, <2>3, QuotaKept
  <1>5. CASE ~QuotaReached(job[c].tenant) /\ Then(c, job[c])
    <2>1. ~Last(c)
      <3>1. Len(Program(job[c].call.op)) = 4
        BY <1>1, Programs
      <3> QED BY <1>1, <3>1 DEF Last
    <2>2. PICK n : n = Up(job[c])
      OBVIOUS
    <2>3. JobStep(c, n)
      BY <1>0, <1>1, <1>5, <2>1, <2>2, ThenIs DEF Moved
    <2>4. n.i = 2 /\ n.call = job[c].call /\ n.tenant = job[c].tenant /\ n.pc = "run"
      BY <1>1, <2>2, JobIs, UpIs
    <2>5. \A x \in Callers : job'[x] = IF x = c THEN n ELSE job[x]
      BY <2>3 DEF JobStep, TenantInv
    <2> SUFFICES ASSUME NEW t \in Tenants
                 PROVE  IF Passed(t)' = {} THEN Cardinality(DomainsOf(t)') <= MaxDomains[t]
                        ELSE Cardinality(DomainsOf(t)') + Cardinality(Held(t)') < MaxDomains[t] + Cardinality(Passed(t)')
      BY DEF QuotaInv
    <2>6. CASE t # job[c].tenant
      <3>1. Passed(t)' = Passed(t) /\ Held(t)' = Held(t)
        BY <2>4, <2>5, <2>6 DEF Passed, Held
      <3> QED BY <1>2, <3>1 DEF QuotaInv
    <2>7. CASE t = job[c].tenant
      <3>1. c \notin Passed(t) /\ c \notin Held(t)
        BY <1>1 DEF Passed, Held
      <3>2. Passed(t)' = Passed(t) \cup {c}
        BY <1>1, <2>4, <2>5, <2>7 DEF Passed
      <3>3. Held(t)' = Held(t) \cup {c}
        <4>1. c \in Held(t)'
          BY <2>4, <2>5, <3>2 DEF Held
        <4>2. \A x \in Callers : x # c => (x \in Held(t)' <=> x \in Held(t))
          BY <2>5 DEF Held, Passed
        <4>3. Held(t)' \subseteq Callers /\ Held(t) \subseteq Callers
          BY DEF Held, Passed
        <4> QED BY <4>1, <4>2, <4>3
      <3>4. PICK p \in Nat, h \in Nat, m \in Nat, d \in Nat :
              p = Cardinality(Passed(t)) /\ h = Cardinality(Held(t)) /\ m = MaxDomains[t] /\ d = Cardinality(DomainsOf(t))
        BY QuotaSets
      <3>5. Cardinality(Passed(t) \cup {c}) = p + 1 /\ Cardinality(Held(t) \cup {c}) = h + 1
        BY <3>1, <3>4, QuotaSets, FS_AddElement
      <3>6. d < m
        BY <1>5, <2>7, <3>4 DEF QuotaReached
      <3>7. Passed(t) = {} => h = 0
        <4>1. Passed(t) = {} => Held(t) = {}
          BY DEF Held
        <4> QED BY <3>4, <4>1, FS_EmptySet
      <3>8. d + (h + 1) < m + (p + 1)
        <4>1. CASE Passed(t) = {}
          BY <3>4, <3>6, <3>7, <4>1
        <4>2. CASE Passed(t) # {}
          <5>1. d + h < m + p
            BY <3>4, <4>2 DEF QuotaInv
          <5> QED BY <5>1
        <4> QED BY <4>1, <4>2
      <3>9. Cardinality(DomainsOf(t)') + Cardinality(Held(t)') < MaxDomains[t] + Cardinality(Passed(t)')
        BY <1>2, <3>2, <3>3, <3>4, <3>5, <3>8
      <3> QED BY <3>2, <3>9
    <2> QED BY <2>6, <2>7
  <1> QED BY <1>4, <1>5 DEF CheckQuota, Same

\* The row is inserted in the place that was held for it.
LEMMA QuotaInserted ==
    ASSUME TenantInv, QuotaInv, NEW c \in Callers, InsertDomain(c)
    PROVE  QuotaInv'
  <1>0. At(c, "domain_insert") /\ Statement(c)
    BY DEF InsertDomain, Statement
  <1>1. /\ job[c] \in JobRec /\ NewId[c] \in Ids /\ job[c].tenant \in Tenants /\ job[c].pc = "run" /\ job[c].i = 3
        /\ job[c].i \in Nat /\ job[c].call.op = "create_domain"
    BY <1>0, RunningIs, JobIs DEF StatementAt
  <1>2. \A t \in Tenants : Passed(t)' = Passed(t) /\ Held(t)' \subseteq Held(t)
    <2>1. Outcomes(c)
      BY <1>0, StatementOutcome
    <2> QED BY <1>1, <2>1, PassedSame
  <1>3. CASE UNCHANGED domains
    <2>1. \A t \in Tenants : DomainsOf(t)' = DomainsOf(t)
      BY <1>3 DEF DomainsOf
    <2> QED BY <1>2, <2>1, QuotaKept
  <1>4. CASE ~UNCHANGED domains
    <2>1. PICK k : k = Making(job[c], NewId[c])
      OBVIOUS
    <2>2. PICK row : row = NewDomain(job[c].tenant, job[c].call.name, job[c].call.method)
      OBVIOUS
    <2>3. domains' = [domains EXCEPT ![NewId[c]] = row] /\ Then(c, k)
      BY <1>4, <2>1, <2>2 DEF InsertDomain, Making, NewDomain
    <2>4. /\ k \in JobRec /\ k.call = job[c].call /\ k.i = job[c].i /\ k.pc = job[c].pc
          /\ k.tenant = job[c].tenant /\ k.made = NewId[c]
      BY <1>1, <2>1 DEF Making, JobRec
    <2>5. PICK n : n = Up(k)
      OBVIOUS
    <2>6. JobStep(c, n) /\ n.i = 4 /\ NewId[c] \in Unused
      BY <1>0, <1>1, <2>3, <2>4, <2>5, MadeIs
    <2>7. job'[c].i = 4
      BY <2>6 DEF JobStep, TenantInv
    <2>8. row.tenant = job[c].tenant
      BY <2>2 DEF NewDomain, NoDomain
    <2>9. domains'[NewId[c]] = row /\ \A d \in Ids : d # NewId[c] => domains'[d] = domains[d]
      BY <1>1, <2>3 DEF TenantInv, Tables
    <2>10. domains[NewId[c]] = NoDomain
      BY <2>6 DEF TenantInv, Untaken
    <2> SUFFICES ASSUME NEW t \in Tenants
                 PROVE  IF Passed(t)' = {} THEN Cardinality(DomainsOf(t)') <= MaxDomains[t]
                        ELSE Cardinality(DomainsOf(t)') + Cardinality(Held(t)') < MaxDomains[t] + Cardinality(Passed(t)')
      BY DEF QuotaInv
    <2>11. PICK p \in Nat, h \in Nat, m \in Nat, d \in Nat :
             p = Cardinality(Passed(t)) /\ h = Cardinality(Held(t)) /\ m = MaxDomains[t] /\ d = Cardinality(DomainsOf(t))
      BY QuotaSets
    <2>12. PICK H : H = Held(t)'
      OBVIOUS
    <2>13. H \subseteq Held(t) /\ IsFiniteSet(Held(t))
      BY <1>2, <2>12, QuotaSets
    <2>14. CASE t # job[c].tenant
      <3>1. DomainsOf(t)' = DomainsOf(t)
        <4>1. t # NoDomain.tenant
          BY RowsAre, TenantAssumption
        <4> QED BY <1>1, <2>8, <2>9, <2>10, <2>14, <4>1 DEF DomainsOf
      <3>2. Cardinality(H) \in Nat /\ Cardinality(H) <= h
        BY <2>11, <2>13, FS_Subset, FS_CardinalityType
      <3>3. IF Passed(t) = {} THEN d <= m ELSE d + h < m + p
        BY <2>11 DEF QuotaInv
      <3>4. IF Passed(t) = {} THEN d <= m ELSE d + Cardinality(H) < m + p
        BY <3>2, <3>3
      <3> QED BY <1>2, <2>11, <2>12, <3>1, <3>4
    <2>15. CASE t = job[c].tenant
      <3>1. c \in Passed(t) /\ c \in Held(t)
        BY <1>1, <2>15 DEF Passed, Held
      <3>2. c \notin H
        BY <2>7, <2>12 DEF Held
      <3>3. H \subseteq Held(t) \ {c}
        BY <2>13, <3>2
      <3>4. IsFiniteSet(Held(t) \ {c}) /\ Cardinality(Held(t) \ {c}) = h - 1
        BY <2>11, <2>13, <3>1, FS_RemoveElement
      <3>5. Cardinality(H) \in Nat /\ Cardinality(H) <= h - 1
        BY <3>3, <3>4, FS_Subset, FS_CardinalityType
      <3>6. DomainsOf(t)' = DomainsOf(t) \cup {NewId[c]} /\ NewId[c] \notin DomainsOf(t)
        <4>1. t # NoDomain.tenant
          BY RowsAre, TenantAssumption
        <4> QED BY <1>1, <2>8, <2>9, <2>10, <2>15, <4>1 DEF DomainsOf
      <3>7. Cardinality(DomainsOf(t) \cup {NewId[c]}) = d + 1
        BY <2>11, <3>6, QuotaSets, FS_AddElement
      <3>8. d + h < m + p
        BY <2>11, <3>1 DEF QuotaInv
      <3>9. d + 1 + Cardinality(H) < m + p
        BY <3>5, <3>8
      <3>10. Cardinality(DomainsOf(t)') + Cardinality(Held(t)') < MaxDomains[t] + Cardinality(Passed(t)')
        BY <1>2, <2>11, <2>12, <3>6, <3>7, <3>9
      <3> QED BY <1>2, <3>1, <3>10
    <2> QED BY <2>14, <2>15
  <1> QED BY <1>3, <1>4

LEMMA QuotaStep ==
    ASSUME TenantInv, QuotaInv, [TenantNext]_tenantVars
    PROVE  QuotaInv'
  <1>1. CASE UNCHANGED <<domains, job>>
    <2>1. \A t \in Tenants : DomainsOf(t)' = DomainsOf(t) /\ Passed(t)' = Passed(t) /\ Held(t)' = Held(t)
      BY <1>1 DEF DomainsOf, Passed, Held
    <2> QED BY <2>1, QuotaKept
  <1>2. ASSUME NEW c \in Callers, Authenticate(c) \/ Admit(c) \/ StatementFails(c) PROVE QuotaInv'
    <2>0. job[c] \in JobRec /\ job \in [Callers -> JobRec] /\ UNCHANGED domains
          /\ (job[c].pc \in {"auth", "tenant"} => job[c].i = 1)
      BY <1>2, JobIs DEF Authenticate, Admit, Reject, StatementFails, rows, TenantInv, JobOK
    <2>1. PICK j : /\ job' = [job EXCEPT ![c] = j]
                   /\ \/ \E s : j = Ended2(job[c], s)
                      \/ job[c].i = 1 /\ (j = Running(job[c]) \/ \E ctx : j = Allowed(job[c], ctx))
      <3>1. CASE Authenticate(c)
        <4>1. \/ \E s : job' = [job EXCEPT ![c] = Ended2(job[c], s)]
              \/ \E ctx : job' = [job EXCEPT ![c] = Allowed(job[c], ctx)]
          BY <3>1 DEF Authenticate, Reject, Answer, Advance, Ended2, Allowed
        <4>2. job[c].i = 1
          BY <2>0, <3>1 DEF Authenticate
        <4> QED BY <4>1, <4>2
      <3>2. CASE Admit(c)
        <4>1. \/ \E s : job' = [job EXCEPT ![c] = Ended2(job[c], s)]
              \/ job' = [job EXCEPT ![c] = Running(job[c])]
          <5>1. \/ Reject(c, 403)
                \/ Advance(c, [job[c] EXCEPT !.pc = "run"])
            BY <3>2 DEF Admit
          <5>2. \A s : Reject(c, s) => job' = [job EXCEPT ![c] = Ended2(job[c], s)]
            BY DEF Reject, Answer, Advance, Ended2
          <5>3. Advance(c, [job[c] EXCEPT !.pc = "run"]) => job' = [job EXCEPT ![c] = Running(job[c])]
            BY DEF Advance, Running
          <5> QED BY <5>1, <5>2, <5>3
        <4>2. job[c].i = 1
          BY <2>0, <3>2 DEF Admit
        <4> QED BY <4>1, <4>2
      <3>3. CASE StatementFails(c)
        <4>1. job' = [job EXCEPT ![c] = Ended2(job[c], 500)]
          BY <3>3 DEF StatementFails, Ended2
        <4> QED BY <4>1
      <3> QED BY <1>2, <3>1, <3>2, <3>3
    <2>2. \/ j.call = job[c].call /\ j.tenant = job[c].tenant /\ j.i = job[c].i /\ j.pc = "done"
          \/ j.i = 1 /\ job[c].i = 1
      BY <2>0, <2>1 DEF Ended2, Running, Allowed, JobRec
    <2>3. \A x \in Callers : job'[x] = IF x = c THEN j ELSE job[x]
      BY <2>0, <2>1
    <2>4. \A t \in Tenants : Passed(t)' = Passed(t) /\ Held(t)' \subseteq Held(t)
      <3> SUFFICES ASSUME NEW t \in Tenants PROVE Passed(t)' = Passed(t) /\ Held(t)' \subseteq Held(t)
        OBVIOUS
      <3>1. c \in Passed(t)' <=> c \in Passed(t)
        BY <2>2, <2>3 DEF Passed
      <3>2. c \notin Held(t)'
        BY <2>2, <2>3 DEF Held, Passed
      <3>3. \A x \in Callers : x # c => (x \in Passed(t)' <=> x \in Passed(t)) /\ (x \in Held(t)' <=> x \in Held(t))
        BY <2>3 DEF Passed, Held
      <3>4. Passed(t) \subseteq Callers /\ Passed(t)' \subseteq Callers /\ Held(t)' \subseteq Callers
        BY DEF Passed, Held
      <3> QED BY <3>1, <3>2, <3>3, <3>4
    <2>5. \A t \in Tenants : DomainsOf(t)' = DomainsOf(t)
      BY <2>0 DEF DomainsOf
    <2> QED BY <2>4, <2>5, QuotaKept
  <1>3. ASSUME NEW c \in Callers, Statement(c) PROVE QuotaInv'
    <2>1. ASSUME NEW s, At(c, s), ~At(c, "quota"), ~At(c, "domain_insert") PROVE QuotaInv'
      <3>1. job[c].pc = "run" /\ job[c].i \in Nat /\ job[c].i \in 1..Len(Program(job[c].call.op))
        BY <2>1, RunningIs
      <3>2. ~(job[c].call.op = "create_domain" /\ job[c].i < 2)
        <4> SUFFICES ASSUME job[c].call.op = "create_domain", job[c].i < 2 PROVE FALSE
          OBVIOUS
        <4>1. job[c].i = 1
          BY <3>1
        <4>2. Program("create_domain")[1] = "quota"
          BY Programs
        <4> QED BY <2>1, <3>1, <4>1, <4>2 DEF At
      <3>3. Outcomes(c) /\ DomainsStay
        BY <1>3, <2>1, StatementOutcome, DomainsStayIn
      <3>4. \A t \in Tenants : Passed(t)' = Passed(t) /\ Held(t)' \subseteq Held(t)
        BY <3>1, <3>2, <3>3, PassedSame
      <3> QED BY <3>3, <3>4, DomainsShrink, QuotaKept
    <2>2. CASE InsertChallenge(c)
      <3>1. At(c, "challenge_insert")
        BY <2>2 DEF InsertChallenge
      <3>2. ~At(c, "quota") /\ ~At(c, "domain_insert")
        BY <3>1, StatementAgain
      <3> QED BY <2>1, <3>1, <3>2
    <2>3. CASE \E s \in Elsewhere : At(c, s)
      BY <2>1, <2>3, NotElsewhere
    <2> QED BY <1>3, <2>2, <2>3, WhichStatement, QuotaChecked, QuotaInserted
  <1> QED BY <1>1, <1>2, <1>3 DEF TenantNext, Suspend, Publish, tenantVars, rows

LEMMA InitChecks ==
    ASSUME TenantStart
    PROVE  QuotaInv /\ CreatedWithChallenge
  <1>1. domains = Stored.domains /\ challenges = {[domain |-> d, type |-> domains[d].method, token |-> d] :
                                                  d \in {e \in Ids : domains[e] # NoDomain}}
    BY DEF TenantStart, TenantInit
  <1>2. CreatedWithChallenge
    <2> SUFFICES ASSUME NEW d \in Ids, domains[d] # NoDomain PROVE \E x \in challenges : x.domain = d
      BY DEF CreatedWithChallenge
    <2>1. PICK x : x = [domain |-> d, type |-> domains[d].method, token |-> d]
      OBVIOUS
    <2>2. x \in challenges
      BY <1>1, <2>1
    <2>3. x.domain = d
      BY <2>1
    <2> QED BY <2>2, <2>3
  <1>3. QuotaInv
    <2> SUFFICES ASSUME NEW t \in Tenants PROVE Passed(t) = {} /\ Cardinality(DomainsOf(t)) <= MaxDomains[t]
      BY DEF QuotaInv
    <2>1. PICK f \in [Callers -> CallSet] : job = [c \in Callers |-> FirstJob(f[c])]
      BY DEF TenantStart, Calls, FirstJob
    <2>2. \A c \in Callers : job[c].i = 1
      BY <2>1 DEF FirstJob
    <2>3. Passed(t) = {}
      BY <2>2 DEF Passed
    <2>4. DomainsOf(t) = {d \in Ids : Stored.domains[d].tenant = t}
      BY <1>1 DEF DomainsOf
    <2> QED BY <2>3, <2>4, StoredAssumption
  <1> QED BY <1>2, <1>3

\* Fewer domains than the quota and the creations that were made.
LEMMA QuotaBound ==
    ASSUME QuotaInv
    PROVE  QuotaOverrunBounded
  <1> SUFFICES ASSUME NEW t \in Tenants,
                      {c \in Callers : job[c].tenant = t /\ job[c].call.op = "create_domain"} # {}
               PROVE  Cardinality(DomainsOf(t)) <
                      MaxDomains[t] + Cardinality({c \in Callers : job[c].tenant = t /\ job[c].call.op = "create_domain"})
    BY DEF QuotaOverrunBounded
  <1>1. PICK C : C = {c \in Callers : job[c].tenant = t /\ job[c].call.op = "create_domain"}
    OBVIOUS
  <1>2. IsFiniteSet(C) /\ C # {} /\ Passed(t) \subseteq C
    <2>1. C \subseteq Callers
      BY <1>1
    <2> QED BY <1>1, <2>1, FS_Subset, TenantAssumption DEF Passed
  <1>3. PICK p \in Nat, h \in Nat, m \in Nat, d \in Nat :
          p = Cardinality(Passed(t)) /\ h = Cardinality(Held(t)) /\ m = MaxDomains[t] /\ d = Cardinality(DomainsOf(t))
    BY QuotaSets
  <1>4. PICK n \in Nat : n = Cardinality(C) /\ n # 0 /\ p <= n
    BY <1>2, <1>3, FS_CardinalityType, FS_EmptySet, FS_Subset
  <1>5. IF Passed(t) = {} THEN d <= m ELSE d + h < m + p
    BY <1>3 DEF QuotaInv
  <1>6. d < m + n
    BY <1>4, <1>5
  <1> QED BY <1>1, <1>3, <1>4, <1>6

\* What a handler of saas/handlers checked in one statement holds of what it
\* wrote in a later one: a route joins a domain and an upstream of its own
\* tenant, a domain verified by DNS belongs to whoever controls the zone, the
\* quota is exceeded by no more than the creations that overlap, and a domain
\* has its challenge unless a statement of its creation failed.
THEOREM ChecksHold == TenantSpec => []ChecksStillHold
  <1>1. TenantStart => TenantInv /\ QuotaInv /\ CreatedWithChallenge
    BY InitTenant, InitChecks
  <1>2. TenantInv /\ QuotaInv /\ CreatedWithChallenge /\ [TenantNext]_tenantVars
        => (TenantInv /\ QuotaInv /\ CreatedWithChallenge)'
    BY StepTenant, QuotaStep, ChallengeStep
  <1>3. TenantInv /\ QuotaInv /\ CreatedWithChallenge => ChecksStillHold
    BY QuotaBound DEF ChecksStillHold, TenantInv
  <1> QED BY <1>1, <1>2, <1>3, PTL DEF TenantSpec

=============================================================================
