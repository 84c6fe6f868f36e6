---------------------------- MODULE ServerProofs ----------------------------
(***************************************************************************)
(* Theorems about what a server process keeps: the cache of verified       *)
(* tokens (TokenCache), the schema cache with its reloader (SchemaReload), *)
(* the adapter of a connection (LenientUri) and a transaction of the sqlx  *)
(* driver (SqlxTx), for any number of threads, tokens, requests,           *)
(* migrations and statements, any conversation, any capacity and any       *)
(* clock.                                                                  *)
(*                                                                         *)
(* That a hit is current is not inductive: an entry holds only the tick it *)
(* expires at.  CacheInv keeps with it the two readings of the clock it    *)
(* was computed from, and with a thread what it has learned of its token.  *)
(*                                                                         *)
(* While a transaction is open, its session has done what was answered     *)
(* and, of what is due, exactly the statements before the one in hand:     *)
(* those are the statements that did not fail.  So the one in hand is the  *)
(* first that can fail, and what COMMIT makes durable is all of it.        *)
(*                                                                         *)
(* A connection is faithful because of where its adapter stands.  At every *)
(* byte the conversation is the pieces passed on, then those ahead; the    *)
(* line held back is what was read of the first one ahead; and the state,  *)
(* the length and the upgrade say of which message and header, or which    *)
(* byte of a body, that piece is (InPlace and Ahead).                      *)
(***************************************************************************)
EXTENDS TokenCache, SchemaReload, LenientUri, SqlxTx, FiniteSetTheorems, SequenceTheorems, WellFoundedInduction, TLAPS

-----------------------------------------------------------------------------
(* Whole seconds *)

\* What rounding down to seconds loses.
LEMMA SecondsBounds ==
    ASSUME NEW a \in Nat
    PROVE  /\ Seconds(a) \in Nat
           /\ Seconds(a) * Second <= a
           /\ a < Seconds(a) * Second + Second
  BY CacheAssumption DEF Seconds

LEMMA SecondMultiples ==
    ASSUME NEW p \in Nat, NEW q \in Nat, p < q
    PROVE  p * Second + Second <= q * Second
  BY CacheAssumption

\* A tick before the end of second k is of second k or an earlier one.
LEMMA SecondsLeast ==
    ASSUME NEW a \in Nat, NEW k \in Nat, a < k * Second + Second
    PROVE  Seconds(a) <= k
  <1> DEFINE p == Seconds(a)
  <1>1. p \in Nat /\ p * Second <= a
    BY SecondsBounds
  <1> HIDE DEF p
  <1>2. SUFFICES ASSUME k < p PROVE FALSE
    BY <1>1 DEF p
  <1>3. k * Second + Second <= p * Second
    BY <1>1, <1>2, SecondMultiples
  <1>4. p * Second \in Nat /\ k * Second \in Nat
    BY <1>1, CacheAssumption
  <1> QED BY <1>1, <1>3, <1>4, CacheAssumption

LEMMA SecondsMonotonic ==
    ASSUME NEW a \in Nat, NEW b \in Nat, a <= b
    PROVE  Seconds(a) <= Seconds(b)
  <1>1. /\ Seconds(b) \in Nat
        /\ b < Seconds(b) * Second + Second
        /\ Seconds(b) * Second \in Nat
    BY SecondsBounds, CacheAssumption
  <1>2. a < Seconds(b) * Second + Second
    BY <1>1, CacheAssumption
  <1> QED BY <1>1, <1>2, SecondsLeast

-----------------------------------------------------------------------------
(* The cache of verified tokens *)

\* A token that may be cached, of which it is known at tick s that it was
\* good from then on.
GoodSince(t, s) ==
    /\ Exp[t].kind \in {"absent", "in"}
    /\ From[t] <= Seconds(s) + Skew

\* A lifetime that was read at tick s.
LifetimeAt(t, s, life) ==
    /\ life <= MaxLifetime
    /\ Exp[t].kind = "in" =>
          Exp[t].at > Seconds(s) /\ life <= (Exp[t].at - Seconds(s)) * Second

\* What a thread knows of its token where it stands.
ThreadSound(h) ==
    /\ pc[h] # "idle" => tok[h] \in Tokens
    /\ pc[h] = "remaining" => Exp[tok[h]].kind # "malformed" /\ From[tok[h]] <= Seconds(now) + Skew
    /\ pc[h] \in {"clock", "insert"} =>
          /\ GoodSince(tok[h], since[h])
          /\ LifetimeAt(tok[h], since[h], ttl[h])
    /\ pc[h] = "clock" => since[h] <= now /\ now - since[h] <= MaxStall
    /\ pc[h] = "insert" => /\ since[h] <= at[h] /\ at[h] <= now
                           /\ at[h] - since[h] <= MaxStall

ThreadsSound == \A h \in Threads : ThreadSound(h)

\* An entry was made at tick c, with a lifetime read at tick s.
Computed(t, e, s, c) ==
    /\ s <= c /\ c - s <= MaxStall
    /\ GoodSince(t, s)
    /\ \E life \in Nat : e = c + life /\ LifetimeAt(t, s, life)

EntriesSound ==
    \A t \in Tokens : entries[t] # 0 =>
        \E s, c \in 0..now : Computed(t, entries[t], s, c)

FewHeld == IsFiniteSet(Held(entries)) /\ Cardinality(Held(entries)) <= Capacity

CacheInv == CacheTypeOK /\ ThreadsSound /\ EntriesSound /\ FewHeld

\* An entry that is alive was good at most a stall ago.
LEMMA LiveEntry ==
    ASSUME NEW t \in Tokens, NEW n \in Nat, NEW e \in Nat, e > n,
           NEW s \in 0..n, NEW c \in 0..n, Computed(t, e, s, c)
    PROVE  \E back \in 0..MaxStall : back <= n /\ Accepts(t, n - back)
  <1> DEFINE back == c - s
             then == n - back
  <1>1. PICK life \in Nat : e = c + life /\ LifetimeAt(t, s, life)
    BY DEF Computed
  <1>2. back \in 0..MaxStall /\ back <= n /\ then \in Nat /\ s <= then
    BY CacheAssumption DEF Computed
  <1>3. From[t] \in Nat /\ Exp[t].at \in Nat /\ Exp[t].kind \in {"absent", "in"}
    BY CacheAssumption DEF Computed, GoodSince
  <1>4. From[t] <= Seconds(then) + Skew
    <2>1. Seconds(s) <= Seconds(then) /\ Seconds(s) \in Nat /\ Seconds(then) \in Nat
      BY <1>2, SecondsMonotonic, SecondsBounds
    <2>2. From[t] <= Seconds(s) + Skew
      BY DEF Computed, GoodSince
    <2> QED BY <1>3, <2>1, <2>2, CacheAssumption
  <1>5. ASSUME Exp[t].kind = "in" PROVE Seconds(then) <= Exp[t].at
    <2> DEFINE q == Seconds(s)
               k == Exp[t].at
    <2>1. q \in Nat /\ s < q * Second + Second
      BY SecondsBounds
    <2>2. k > q /\ life <= (k - q) * Second
      BY <1>1, <1>5 DEF LifetimeAt
    <2>3. (k - q) * Second + q * Second = k * Second
      BY <1>3, <2>1, CacheAssumption
    <2>4. then < s + life
      BY <1>1, <1>2
    <2>5. q * Second \in Nat /\ k * Second \in Nat /\ (k - q) * Second \in Int
      BY <1>3, <2>1, CacheAssumption
    <2>6. then < k * Second + Second
      <3> HIDE DEF q, k, then, back
      <3> QED BY <1>2, <2>1, <2>2, <2>3, <2>4, <2>5, CacheAssumption
    <2> QED BY <1>2, <1>3, <2>6, SecondsLeast
  <1>6. Accepts(t, then)
    BY <1>3, <1>4, <1>5 DEF Accepts
  <1> QED BY <1>2, <1>6

\* The invariant holds what the cache promises.
LEMMA CacheInvSound == CacheInv => CacheIsSound
  <1> SUFFICES ASSUME CacheInv PROVE CacheIsSound
    OBVIOUS
  <1>1. HitIsCurrent
    <2> SUFFICES ASSUME NEW t \in Tokens, entries[t] > now
                 PROVE  \E back \in 0..MaxStall : back <= now /\ Accepts(t, now - back)
      BY DEF HitIsCurrent
    <2>1. now \in Nat /\ entries[t] \in Nat
      BY DEF CacheInv, CacheTypeOK
    <2>2. entries[t] # 0
      BY <2>1
    <2>3. PICK s, c \in 0..now : Computed(t, entries[t], s, c)
      BY <2>2 DEF CacheInv, EntriesSound
    <2> QED BY <2>1, <2>3, LiveEntry
  <1>2. MapIsBounded
    BY DEF CacheInv, FewHeld, MapIsBounded
  <1>3. EntryLifetimes
    <2> SUFFICES ASSUME NEW t \in Tokens, entries[t] # 0
                 PROVE  entries[t] <= now + MaxLifetime /\ Exp[t].kind \in {"absent", "in"}
      BY DEF EntryLifetimes
    <2>1. PICK s, c \in 0..now : Computed(t, entries[t], s, c)
      BY DEF CacheInv, EntriesSound
    <2>2. now \in Nat
      BY DEF CacheInv, CacheTypeOK
    <2> QED BY <2>1, <2>2, CacheAssumption DEF Computed, GoodSince, LifetimeAt
  <1> QED BY <1>1, <1>2, <1>3 DEF CacheIsSound

\* An empty cache, before any request.
LEMMA InitCacheInv == CacheInit => CacheInv
  <1> SUFFICES ASSUME CacheInit PROVE CacheInv
    OBVIOUS
  <1>1. CacheTypeOK /\ ThreadsSound /\ EntriesSound
    BY DEF CacheInit, CacheTypeOK, ThreadsSound, ThreadSound, EntriesSound
  <1>2. Held(entries) = {}
    BY DEF CacheInit, Held
  <1>3. FewHeld
    BY <1>2, FS_EmptySet, CacheAssumption DEF FewHeld
  <1> QED BY <1>1, <1>3 DEF CacheInv

-----------------------------------------------------------------------------
(* What is common to the steps of the cache *)

\* Entries that stand, or go, stay sound while time passes.
LEMMA EntriesKept ==
    ASSUME CacheInv, now' \in Nat, now' >= now,
           \A t \in Tokens : entries'[t] \in {0, entries[t]}
    PROVE  EntriesSound'
  <1> SUFFICES ASSUME NEW t \in Tokens, entries'[t] # 0
               PROVE  \E s, c \in 0..now' : Computed(t, entries'[t], s, c)
    BY DEF EntriesSound, Computed, GoodSince, LifetimeAt, Seconds
  <1>1. entries'[t] = entries[t] /\ entries[t] # 0
    OBVIOUS
  <1>2. PICK s, c \in 0..now : Computed(t, entries[t], s, c)
    BY <1>1 DEF CacheInv, EntriesSound
  <1>3. s \in 0..now' /\ c \in 0..now'
    BY DEF CacheInv, CacheTypeOK
  <1> QED BY <1>1, <1>2, <1>3

\* A map of which entries only go holds no more than before.
LEMMA FewKept ==
    ASSUME CacheInv, \A t \in Tokens : entries'[t] \in {0, entries[t]}
    PROVE  FewHeld'
  <1>1. Held(entries') \subseteq Held(entries)
    BY DEF Held
  <1>2. IsFiniteSet(Held(entries)) /\ Cardinality(Held(entries)) <= Capacity
    BY DEF CacheInv, FewHeld
  <1>3. IsFiniteSet(Held(entries')) /\ Cardinality(Held(entries')) <= Cardinality(Held(entries))
    BY <1>1, <1>2, FS_Subset
  <1>4. Cardinality(Held(entries)) \in Nat /\ Cardinality(Held(entries')) \in Nat
    BY <1>2, <1>3, FS_CardinalityType
  <1> QED BY <1>2, <1>3, <1>4, CacheAssumption DEF FewHeld

\* The threads that do not step keep what they know.
LEMMA OthersKept ==
    ASSUME CacheInv, NEW h \in Threads, now' = now,
           ThreadSound(h)',
           \A i \in Threads \ {h} : /\ pc'[i] = pc[i] /\ tok'[i] = tok[i] /\ since'[i] = since[i]
                                    /\ ttl'[i] = ttl[i] /\ at'[i] = at[i]
    PROVE  ThreadsSound'
  <1> SUFFICES ASSUME NEW i \in Threads \ {h} PROVE ThreadSound(i)'
    BY DEF ThreadsSound
  <1>1. ThreadSound(i)
    BY DEF CacheInv, ThreadsSound
  <1> QED BY <1>1 DEF ThreadSound, GoodSince, LifetimeAt, Seconds

\* A thread that is answered, whatever it did to the map.
LEMMA AnswerThreads ==
    ASSUME CacheInv, NEW h \in Threads, Answer(h), now' = now
    PROVE  ThreadsSound' /\ (entries' \in [Tokens -> Nat] => CacheTypeOK')
  <1> USE DEF CacheInv, CacheTypeOK, Answer
  <1>1. pc'[h] = "idle"
    OBVIOUS
  <1>2. ThreadSound(h)'
    BY <1>1 DEF ThreadSound
  <1>3. \A i \in Threads \ {h} : /\ pc'[i] = pc[i] /\ tok'[i] = tok[i] /\ since'[i] = since[i]
                                 /\ ttl'[i] = ttl[i] /\ at'[i] = at[i]
    OBVIOUS
  <1>4. ThreadsSound'
    BY <1>2, <1>3, OthersKept
  <1>5. entries' \in [Tokens -> Nat] => CacheTypeOK'
    OBVIOUS
  <1> QED BY <1>4, <1>5

-----------------------------------------------------------------------------
(* The steps of authenticate *)

LEMMA MissInv ==
    ASSUME CacheInv, NEW h \in Threads, NEW t \in Tokens, Miss(h, t)
    PROVE  CacheInv'
  <1> USE DEF Miss
  <1>1. CacheTypeOK'
    BY DEF CacheInv, CacheTypeOK
  <1>2. \A u \in Tokens : entries'[u] \in {0, entries[u]}
    BY DEF CacheInv, CacheTypeOK
  <1>3. EntriesSound' /\ FewHeld'
    BY <1>2, EntriesKept, FewKept DEF CacheInv, CacheTypeOK
  <1>4. ThreadSound(h)'
    BY DEF CacheInv, CacheTypeOK, ThreadSound
  <1>5. ThreadsSound'
    BY <1>4, OthersKept DEF CacheInv, CacheTypeOK
  <1> QED BY <1>1, <1>3, <1>5 DEF CacheInv

LEMMA VerifyInv ==
    ASSUME CacheInv, NEW h \in Threads, Verify(h)
    PROVE  CacheInv'
  <1> USE DEF Verify
  <1>1. CacheTypeOK'
    BY DEF CacheInv, CacheTypeOK
  <1>2. EntriesSound' /\ FewHeld'
    BY EntriesKept, FewKept DEF CacheInv, CacheTypeOK
  <1>3. tok[h] \in Tokens
    BY DEF CacheInv, ThreadsSound, ThreadSound
  <1>4. ThreadSound(h)'
    BY <1>3 DEF CacheInv, CacheTypeOK, ThreadSound, Accepts, Seconds
  <1>5. ThreadsSound'
    BY <1>4, OthersKept DEF CacheInv, CacheTypeOK
  <1> QED BY <1>1, <1>2, <1>5 DEF CacheInv

\* The token is answered without being cached.
LEMMA AnswerInv ==
    ASSUME CacheInv, NEW h \in Threads, Answer(h), UNCHANGED <<now, entries>>
    PROVE  CacheInv'
  <1>1. ThreadsSound' /\ CacheTypeOK'
    BY AnswerThreads DEF CacheInv, CacheTypeOK
  <1>2. EntriesSound' /\ FewHeld'
    BY EntriesKept, FewKept DEF CacheInv, CacheTypeOK
  <1> QED BY <1>1, <1>2 DEF CacheInv

\* remaining_lifetime gives no more than the token has left, nor than the
\* longest an entry may stand.
LEMMA RemainingBound ==
    ASSUME NEW t \in Tokens, NEW n \in Nat, RemainingLifetime(t, n) # 0
    PROVE  /\ RemainingLifetime(t, n) \in Nat
           /\ Exp[t].kind \in {"absent", "in"}
           /\ LifetimeAt(t, n, RemainingLifetime(t, n))
  <1> DEFINE q == Seconds(n)
             k == Exp[t].at
  <1>1. q \in Nat /\ k \in Nat /\ Exp[t].kind \in Kinds
    BY SecondsBounds, CacheAssumption
  <1>2. CASE Exp[t].kind = "absent"
    BY <1>2, CacheAssumption DEF RemainingLifetime, LifetimeAt
  <1>3. CASE Exp[t].kind = "in" /\ k > q
    <2>1. RemainingLifetime(t, n) = Lesser(MaxLifetime, (k - q) * Second)
      BY <1>3 DEF RemainingLifetime
    <2>2. (k - q) * Second \in Nat
      BY <1>1, <1>3, CacheAssumption
    <2> HIDE DEF q, k
    <2>3. Lesser(MaxLifetime, (k - q) * Second) \in Nat /\ Lesser(MaxLifetime, (k - q) * Second) <= MaxLifetime
          /\ Lesser(MaxLifetime, (k - q) * Second) <= (k - q) * Second
      BY <2>2, CacheAssumption DEF Lesser
    <2> QED BY <1>3, <2>1, <2>3 DEF LifetimeAt, q, k
  <1>4. CASE Exp[t].kind # "absent" /\ ~(Exp[t].kind = "in" /\ k > q)
    BY <1>4 DEF RemainingLifetime
  <1> QED BY <1>2, <1>3, <1>4

LEMMA RemainingInv ==
    ASSUME CacheInv, NEW h \in Threads, Remaining(h)
    PROVE  CacheInv'
  <1> DEFINE life == RemainingLifetime(tok[h], now)
  <1>1. tok[h] \in Tokens /\ From[tok[h]] <= Seconds(now) + Skew /\ now \in Nat
    BY DEF Remaining, CacheInv, CacheTypeOK, ThreadsSound, ThreadSound
  <1>2. life \in Nat /\ Exp[tok[h]].kind \in {"absent", "in"} /\ LifetimeAt(tok[h], now, life)
    BY <1>1, RemainingBound DEF Remaining
  <1> HIDE DEF life
  <1>3. /\ ttl' = [ttl EXCEPT ![h] = life] /\ since' = [since EXCEPT ![h] = now]
        /\ pc' = [pc EXCEPT ![h] = "clock"] /\ UNCHANGED <<now, entries, tok, at>>
    BY DEF Remaining, life
  <1>4. CacheTypeOK'
    BY <1>2, <1>3 DEF CacheInv, CacheTypeOK
  <1>5. EntriesSound' /\ FewHeld'
    BY <1>3, EntriesKept, FewKept DEF CacheInv, CacheTypeOK
  <1>6. /\ pc'[h] = "clock" /\ tok'[h] = tok[h] /\ since'[h] = now /\ ttl'[h] = life /\ now' = now
        /\ now - now <= MaxStall
    BY <1>3, <1>1, CacheAssumption DEF CacheInv, CacheTypeOK
  <1>7. ThreadSound(h)'
    BY <1>1, <1>2, <1>6 DEF ThreadSound, GoodSince, LifetimeAt, Seconds
  <1>8. ThreadsSound'
    BY <1>3, <1>7, OthersKept DEF CacheInv, CacheTypeOK
  <1> QED BY <1>4, <1>5, <1>8 DEF CacheInv

LEMMA InsertClockInv ==
    ASSUME CacheInv, NEW h \in Threads, InsertClock(h)
    PROVE  CacheInv'
  <1> USE DEF InsertClock
  <1>1. CacheTypeOK'
    BY DEF CacheInv, CacheTypeOK
  <1>2. EntriesSound' /\ FewHeld'
    BY EntriesKept, FewKept DEF CacheInv, CacheTypeOK
  <1>3. ThreadSound(h)
    BY DEF CacheInv, ThreadsSound
  <1>4. ThreadSound(h)'
    BY <1>3 DEF CacheInv, CacheTypeOK, ThreadSound, GoodSince, LifetimeAt, Seconds
  <1>5. ThreadsSound'
    BY <1>4, OthersKept DEF CacheInv, CacheTypeOK
  <1> QED BY <1>1, <1>2, <1>5 DEF CacheInv

\* The room made leaves a place, whatever is then put there.
LEMMA RoomIsMade ==
    ASSUME NEW map \in [Tokens -> Nat], NEW n \in Nat, NEW t \in Tokens, NEW e \in Nat,
           IsFiniteSet(Held(map))
    PROVE  /\ MakeRoom(map, n) \in [Tokens -> Nat]
           /\ \A u \in Tokens : MakeRoom(map, n)[u] \in {0, map[u]}
           /\ IsFiniteSet(Held([MakeRoom(map, n) EXCEPT ![t] = e]))
           /\ Cardinality(Held([MakeRoom(map, n) EXCEPT ![t] = e])) <= Capacity
  <1> DEFINE room == MakeRoom(map, n)
  <1>1. room \in [Tokens -> Nat] /\ \A u \in Tokens : room[u] \in {0, map[u]}
    BY DEF MakeRoom, Retained
  <1>2. IsFiniteSet(Held(room)) /\ Cardinality(Held(room)) < Capacity
    <2>1. Held([u \in Tokens |-> 0]) = {}
      BY DEF Held
    <2>2. IsFiniteSet(Held([u \in Tokens |-> 0])) /\ Cardinality(Held([u \in Tokens |-> 0])) < Capacity
      <3>1. IsFiniteSet({}) /\ Cardinality({}) = 0
        BY FS_EmptySet
      <3>2. 0 < Capacity
        BY CacheAssumption
      <3> QED BY <2>1, <3>1, <3>2, Zenon
    <2>3. Held(Retained(map, n)) \subseteq Held(map)
      BY DEF Held, Retained
    <2>4. IsFiniteSet(Held(Retained(map, n)))
      BY <2>3, FS_Subset
    <2> QED BY <2>2, <2>4 DEF MakeRoom
  <1> HIDE DEF room
  <1>3. Held([room EXCEPT ![t] = e]) \subseteq Held(room) \cup {t}
    BY <1>1 DEF Held
  <1>4. /\ IsFiniteSet(Held(room) \cup {t})
        /\ Cardinality(Held(room) \cup {t}) <= Cardinality(Held(room)) + 1
        /\ Cardinality(Held(room)) \in Nat
    <2>1. Cardinality(Held(room)) \in Nat
      BY <1>2, FS_CardinalityType
    <2>2. /\ IsFiniteSet(Held(room) \cup {t})
          /\ Cardinality(Held(room) \cup {t})
               = IF t \in Held(room) THEN Cardinality(Held(room)) ELSE Cardinality(Held(room)) + 1
      BY <1>2, FS_AddElement
    <2> QED BY <2>1, <2>2
  <1>5. /\ IsFiniteSet(Held([room EXCEPT ![t] = e]))
        /\ Cardinality(Held([room EXCEPT ![t] = e])) <= Cardinality(Held(room) \cup {t})
    BY <1>3, <1>4, FS_Subset
  <1>6. /\ Cardinality(Held([room EXCEPT ![t] = e])) \in Nat
        /\ Cardinality(Held(room) \cup {t}) \in Nat
    BY <1>4, <1>5, FS_CardinalityType
  <1>7. Cardinality(Held([room EXCEPT ![t] = e])) <= Capacity
    BY <1>2, <1>4, <1>5, <1>6, CacheAssumption
  <1> QED BY <1>1, <1>5, <1>7 DEF room

LEMMA InsertInv ==
    ASSUME CacheInv, NEW h \in Threads, Insert(h)
    PROVE  CacheInv'
  <1> DEFINE t == tok[h]
             room == MakeRoom(entries, at[h])
             e == at[h] + ttl[h]
  <1>1. /\ t \in Tokens /\ GoodSince(t, since[h]) /\ LifetimeAt(t, since[h], ttl[h])
        /\ since[h] <= at[h] /\ at[h] <= now /\ at[h] - since[h] <= MaxStall
        /\ since[h] \in Nat /\ at[h] \in Nat /\ ttl[h] \in Nat /\ now \in Nat
    BY DEF Insert, CacheInv, CacheTypeOK, ThreadsSound, ThreadSound
  <1>2. entries \in [Tokens -> Nat] /\ IsFiniteSet(Held(entries)) /\ e \in Nat
    BY <1>1 DEF CacheInv, CacheTypeOK, FewHeld
  <1>3. /\ room \in [Tokens -> Nat]
        /\ \A u \in Tokens : room[u] \in {0, entries[u]}
        /\ IsFiniteSet(Held([room EXCEPT ![t] = e]))
        /\ Cardinality(Held([room EXCEPT ![t] = e])) <= Capacity
    BY <1>1, <1>2, RoomIsMade
  <1>4. entries' = [room EXCEPT ![t] = e] /\ Answer(h) /\ now' = now
    BY DEF Insert
  <1> HIDE DEF room
  <1>5. ThreadsSound' /\ CacheTypeOK'
    BY <1>1, <1>2, <1>3, <1>4, AnswerThreads
  <1>6. FewHeld'
    BY <1>3, <1>4 DEF FewHeld
  <1>7. Computed(t, e, since[h], at[h])
    BY <1>1 DEF Computed
  <1>8. EntriesSound'
    <2> SUFFICES ASSUME NEW u \in Tokens, entries'[u] # 0
                 PROVE  \E s, c \in 0..now : Computed(u, entries'[u], s, c)
      BY <1>4 DEF EntriesSound, Computed, GoodSince, LifetimeAt, Seconds
    <2>1. CASE u = t
      <3>1. entries'[u] = e
        BY <1>3, <1>4, <2>1
      <3>2. since[h] \in 0..now /\ at[h] \in 0..now
        BY <1>1
      <3> QED BY <1>7, <2>1, <3>1, <3>2
    <2>2. CASE u # t
      <3>1. entries'[u] = entries[u] /\ entries[u] # 0
        BY <1>3, <1>4, <2>2
      <3> QED BY <3>1 DEF CacheInv, EntriesSound
    <2> QED BY <2>1, <2>2
  <1> QED BY <1>5, <1>6, <1>8 DEF CacheInv

LEMMA TickInv ==
    ASSUME CacheInv, Tick
    PROVE  CacheInv'
  <1> USE DEF Tick
  <1>1. CacheTypeOK'
    BY DEF CacheInv, CacheTypeOK
  <1>2. EntriesSound' /\ FewHeld'
    BY EntriesKept, FewKept DEF CacheInv, CacheTypeOK
  <1>3. now \in Nat /\ now' = now + 1 /\ Seconds(now) \in Nat /\ Seconds(now') \in Nat
        /\ Seconds(now) <= Seconds(now')
    BY SecondsMonotonic, SecondsBounds DEF CacheInv, CacheTypeOK
  <1>4. ASSUME NEW h \in Threads PROVE ThreadSound(h)'
    <2>1. ThreadSound(h) /\ since[h] \in Nat /\ at[h] \in Nat
      BY DEF CacheInv, CacheTypeOK, ThreadsSound
    <2>2. pc[h] = "remaining" => From[tok[h]] <= Seconds(now') + Skew
      <3>1. pc[h] = "remaining" => From[tok[h]] <= Seconds(now) + Skew /\ From[tok[h]] \in Nat
        BY <2>1, CacheAssumption DEF ThreadSound
      <3> QED BY <1>3, <3>1, CacheAssumption
    <2>3. pc[h] = "clock" => since[h] <= now' /\ now' - since[h] <= MaxStall
      BY <1>3, <2>1, CacheAssumption DEF ThreadSound
    <2>4. pc[h] = "insert" => at[h] <= now'
      BY <1>3, <2>1 DEF ThreadSound
    <2> HIDE DEF Tick
    <2>5. UNCHANGED <<pc, tok, since, ttl, at>>
      BY DEF Tick
    <2> QED BY <2>1, <2>2, <2>3, <2>4, <2>5 DEF ThreadSound, GoodSince, LifetimeAt, Seconds
  <1> QED BY <1>1, <1>2, <1>4 DEF CacheInv, ThreadsSound

\* Every step keeps the invariant.
LEMMA CacheNextInv == CacheInv /\ [CacheNext]_cacheVars => CacheInv'
  <1> SUFFICES ASSUME CacheInv, [CacheNext]_cacheVars PROVE CacheInv'
    OBVIOUS
  <1>1. CASE UNCHANGED cacheVars
    <2>1. UNCHANGED <<now, entries, pc, tok, since, ttl, at>>
      BY <1>1 DEF cacheVars
    <2> QED BY <2>1 DEF CacheInv, CacheTypeOK, ThreadsSound, ThreadSound, EntriesSound, FewHeld,
                        Computed, GoodSince, LifetimeAt, Seconds, Held
  <1>2. ASSUME NEW h \in Threads, NEW t \in Tokens, Hit(h, t) \/ Miss(h, t) PROVE CacheInv'
    BY <1>1, <1>2, MissInv DEF Hit
  <1>3. ASSUME NEW h \in Threads, Verify(h) \/ Remaining(h) \/ InsertClock(h) \/ Insert(h) PROVE CacheInv'
    BY <1>3, VerifyInv, RemainingInv, InsertClockInv, InsertInv
  <1>4. ASSUME NEW h \in Threads, Refuse(h) \/ Uncached(h) PROVE CacheInv'
    BY <1>4, AnswerInv DEF Refuse, Uncached
  <1> QED BY <1>1, <1>2, <1>3, <1>4, TickInv DEF CacheNext

\* JwtCache: whatever it answers is what verifying the token answers now, or did
\* at most a stall ago; it never holds more than its capacity, and no entry
\* outlives the configured lifetime -- for any number of threads racing between
\* get, verify, remaining_lifetime and insert.
THEOREM CacheSound == CacheSpec => []CacheIsSound
  <1>1. CacheInit => CacheInv
    BY InitCacheInv
  <1>2. CacheInv /\ [CacheNext]_cacheVars => CacheInv'
    BY CacheNextInv
  <1>3. CacheInv => CacheIsSound
    BY CacheInvSound
  <1> QED BY <1>1, <1>2, <1>3, PTL DEF CacheSpec
-----------------------------------------------------------------------------
(* The schema cache and its reloader *)

\* A reload between its two reads has the first half as it is, or another
\* notification is to come.
HalfLoaded ==
    reload = "load_rest" => missed \/ inbox > 0 \/ loaded.tables = catalog

\* What was seen is no newer than what is cached, that than what was loaded
\* last, and that than the catalog.
InOrder ==
    /\ loaded.tables <= catalog /\ loaded.rest <= catalog
    /\ cache.tables <= loaded.tables /\ cache.rest <= loaded.rest
    /\ \A r \in Requests : saw[r].tables <= cache.tables /\ saw[r].rest <= cache.rest

ReloadInv == ReloadTypeOK /\ HalfLoaded /\ InOrder /\ StaleIsPending

LEMMA InitReloadInv == ReloadInit => ReloadInv
  <1> SUFFICES ASSUME ReloadInit PROVE ReloadInv
    OBVIOUS
  <1>1. At(0) \in Versions /\ At(0).tables = 0 /\ At(0).rest = 0
    BY DEF At, Versions
  <1>2. ReloadTypeOK
    <2>1. /\ catalog \in Nat /\ inbox \in Nat /\ failures \in Nat
          /\ cache \in Versions /\ loaded \in Versions
          /\ request \in [Requests -> RequestPlaces]
          /\ taken \in [Requests -> Nat]
          /\ saw \in [Requests -> Versions]
      BY <1>1 DEF ReloadInit, RequestPlaces
    <2>2. link \in {"down", "connected", "listening"} /\ reload \in ReloadPlaces
      BY DEF ReloadInit, ReloadPlaces
    <2>3. missed \in BOOLEAN /\ readers \subseteq Requests \cup {Reloader}
      BY DEF ReloadInit
    <2>4. waiters \in Seq(Requests \cup {Reloader})
      <3> DEFINE P == Requests \cup {Reloader}
      <3> HIDE DEF P
      <3>1. waiters \in Seq(P)
        BY DEF ReloadInit
      <3> QED BY <3>1 DEF P
    <2> QED BY <2>1, <2>2, <2>3, <2>4 DEF ReloadTypeOK
  <1>3. HalfLoaded /\ InOrder /\ StaleIsPending
    BY <1>1 DEF ReloadInit, HalfLoaded, InOrder, StaleIsPending
  <1> QED BY <1>2, <1>3 DEF ReloadInv

\* Whoever waits for the lock is a request or the reloader.
LEMMA WaitersTyped ==
    ASSUME ReloadTypeOK, NEW w \in Requests \cup {Reloader}
    PROVE  /\ Append(waiters, w) \in Seq(Requests \cup {Reloader})
           /\ waiters # <<>> => Tail(waiters) \in Seq(Requests \cup {Reloader})
           /\ readers \cup {w} \subseteq Requests \cup {Reloader}
           /\ readers \ {w} \subseteq Requests \cup {Reloader}
  <1> DEFINE P == Requests \cup {Reloader}
  <1>1. waiters \in Seq(P) /\ w \in P /\ readers \subseteq P
    BY DEF ReloadTypeOK
  <1>2. /\ readers \cup {w} \subseteq P
        /\ readers \ {w} \subseteq P
    BY <1>1
  <1> HIDE DEF P
  <1>3. Append(waiters, w) \in Seq(P) /\ (waiters # <<>> => Tail(waiters) \in Seq(P))
    BY <1>1
  <1> QED BY <1>2, <1>3 DEF P

\* What the versions may do in one step.
Forward == StaleIsPending' /\ NeverBack

\* A step that reads and writes no version keeps the order of them.
LEMMA VersionsKept ==
    ASSUME ReloadInv, ReloadTypeOK', UNCHANGED <<catalog, cache, loaded, saw>>,
           reload' # "load_rest" \/ (reload' = reload /\ UNCHANGED <<inbox, missed>>), StaleIsPending'
    PROVE  ReloadInv' /\ Forward
  <1>1. HalfLoaded' /\ InOrder'
    BY DEF ReloadInv, HalfLoaded, InOrder
  <1>2. NeverBack
    BY DEF ReloadInv, ReloadTypeOK, NeverBack, Versions
  <1> QED BY <1>1, <1>2 DEF ReloadInv, Forward

\* A step that is about the lock and the requests alone.
LEMMA LockStep ==
    ASSUME ReloadInv, ReloadTypeOK',
           UNCHANGED <<catalog, cache, link, inbox, missed, loaded, saw>>,
           reload' # reload => <<reload, reload'>> \in {<<"lock", "waiting">>, <<"logging", "log_waiting">>,
                                    <<"log_waiting", "log_holding">>, <<"log_holding", "receive">>}
    PROVE  ReloadInv' /\ Forward
  <1>1. StaleIsPending'
    BY DEF ReloadInv, StaleIsPending, At
  <1>2. reload' # "load_rest" \/ (reload' = reload /\ UNCHANGED <<inbox, missed>>)
    OBVIOUS
  <1> QED BY <1>1, <1>2, VersionsKept

LEMMA MigrateInv ==
    ASSUME ReloadInv, Migrate PROVE ReloadInv' /\ Forward
  <1>1. ReloadTypeOK'
    <2>1. catalog' \in Nat /\ inbox' \in Nat
      BY DEF ReloadInv, ReloadTypeOK, Migrate
    <2>2. missed' \in BOOLEAN
      BY DEF ReloadInv, ReloadTypeOK, Migrate
    <2>3. UNCHANGED <<cache, link, failures, reload, loaded, readers, waiters, request, taken, saw>>
      BY DEF Migrate
    <2> QED BY <2>1, <2>2, <2>3 DEF ReloadInv, ReloadTypeOK
  <1>2. missed' \/ inbox' > 0
    BY DEF ReloadInv, ReloadTypeOK, Migrate
  <1>3. HalfLoaded' /\ StaleIsPending'
    BY <1>2 DEF HalfLoaded, StaleIsPending
  <1>4. InOrder' /\ NeverBack
    BY DEF ReloadInv, ReloadTypeOK, InOrder, NeverBack, Migrate, Versions
  <1> QED BY <1>1, <1>3, <1>4 DEF ReloadInv, Forward

LEMMA LinkInv ==
    ASSUME ReloadInv, Connect \/ Listen \/ LoseConnection \/ Receive \/ LoadFails
    PROVE  ReloadInv' /\ Forward
  <1>1. ReloadTypeOK'
    <2> USE DEF ReloadInv, ReloadTypeOK, ReloadPlaces
    <2>1. CASE Connect \/ Listen
      BY <2>1 DEF Connect, Listen
    <2>2. CASE LoseConnection
      BY <2>2 DEF LoseConnection
    <2>3. CASE Receive
      BY <2>3 DEF Receive
    <2>4. CASE LoadFails
      BY <2>4 DEF LoadFails
    <2> QED BY <2>1, <2>2, <2>3, <2>4
  <1>2. StaleIsPending'
    BY DEF ReloadInv, ReloadTypeOK, StaleIsPending, At, Connect, Listen, LoseConnection, Receive, LoadFails
  <1>3. HalfLoaded'
    BY DEF ReloadInv, ReloadTypeOK, HalfLoaded, Connect, Listen, LoseConnection, Receive, LoadFails
  <1>4. UNCHANGED <<catalog, cache, loaded, saw>>
    BY DEF Connect, Listen, LoseConnection, Receive, LoadFails
  <1>5. InOrder' /\ NeverBack
    BY <1>4 DEF ReloadInv, ReloadTypeOK, InOrder, NeverBack, Versions
  <1> QED BY <1>1, <1>2, <1>3, <1>5 DEF ReloadInv, Forward

LEMMA LoadInv ==
    ASSUME ReloadInv, LoadTables \/ LoadRest
    PROVE  ReloadInv' /\ Forward
  <1>1. /\ loaded' \in Versions
        /\ loaded'.tables = (IF LoadTables THEN catalog ELSE loaded.tables)
        /\ loaded'.rest = (IF LoadTables THEN loaded.rest ELSE catalog)
    BY DEF ReloadInv, ReloadTypeOK, Versions, LoadTables, LoadRest
  <1>2. /\ UNCHANGED <<catalog, cache, link, inbox, failures, readers, waiters, request, taken, saw>>
        /\ missed' \in BOOLEAN /\ reload' \in ReloadPlaces
    BY DEF ReloadInv, ReloadTypeOK, ReloadPlaces, LoadTables, LoadRest
  <1>3. ReloadTypeOK'
    BY <1>1, <1>2 DEF ReloadInv, ReloadTypeOK
  <1>4. catalog \in Nat /\ loaded.tables \in Nat /\ loaded.rest \in Nat
        /\ cache.tables \in Nat /\ cache.rest \in Nat
    BY DEF ReloadInv, ReloadTypeOK, Versions
  <1>5. InOrder'
    BY <1>1, <1>2, <1>4 DEF ReloadInv, InOrder
  <1>6. NeverBack
    BY <1>2, <1>4 DEF ReloadInv, ReloadTypeOK, NeverBack, Versions
  <1>7. CASE LoadTables
    <2>1. HalfLoaded' /\ StaleIsPending'
      BY <1>7, <1>1, <1>2 DEF HalfLoaded, StaleIsPending, LoadTables
    <2> QED BY <1>3, <1>5, <1>6, <2>1 DEF ReloadInv, Forward
  <1>8. CASE ~LoadTables /\ LoadRest
    <2>1. missed \/ inbox > 0 \/ loaded' = At(catalog)
      BY <1>8, <1>1 DEF ReloadInv, Versions, HalfLoaded, At, LoadRest
    <2>2. HalfLoaded' /\ StaleIsPending'
      BY <1>8, <2>1 DEF HalfLoaded, StaleIsPending, At, LoadRest
    <2> QED BY <1>3, <1>5, <1>6, <2>2 DEF ReloadInv, Forward
  <1> QED BY <1>7, <1>8

LEMMA InstallInv ==
    ASSUME ReloadInv, Install PROVE ReloadInv' /\ Forward
  <1>1. ReloadTypeOK'
    BY WaitersTyped DEF ReloadInv, ReloadTypeOK, ReloadPlaces, Install
  <1>2. /\ cache' = loaded /\ reload = "waiting" /\ reload' = "logging"
        /\ UNCHANGED <<catalog, inbox, missed, loaded, saw>>
    BY DEF Install
  <1>3. InOrder' /\ NeverBack
    BY <1>2 DEF ReloadInv, ReloadTypeOK, InOrder, NeverBack, Versions
  <1>4. HalfLoaded'
    BY <1>2 DEF HalfLoaded
  <1>5. missed \/ inbox > 0 \/ loaded = At(catalog)
    <2>1. CASE cache = At(catalog)
      <3>1. loaded.tables = catalog /\ loaded.rest = catalog
        BY <2>1 DEF ReloadInv, ReloadTypeOK, InOrder, Versions, At
      <3> QED BY <3>1 DEF ReloadInv, ReloadTypeOK, Versions, At
    <2> QED BY <1>2, <2>1 DEF ReloadInv, StaleIsPending
  <1>6. StaleIsPending'
    BY <1>2, <1>5 DEF StaleIsPending, At
  <1> QED BY <1>1, <1>3, <1>4, <1>6 DEF ReloadInv, Forward

LEMMA LockInv ==
    ASSUME ReloadInv, AskToWrite \/ AskToLog \/ LogGranted \/ Logged
    PROVE  ReloadInv' /\ Forward
  <1>1. ReloadTypeOK'
    <2> USE WaitersTyped DEF ReloadInv
    <2>1. CASE AskToWrite
      BY <2>1 DEF ReloadTypeOK, ReloadPlaces, AskToWrite
    <2>2. CASE AskToLog
      BY <2>2 DEF ReloadTypeOK, ReloadPlaces, AskToLog
    <2>3. CASE LogGranted
      BY <2>3 DEF ReloadTypeOK, ReloadPlaces, LogGranted
    <2>4. CASE Logged
      BY <2>4 DEF ReloadTypeOK, ReloadPlaces, Logged
    <2> QED BY <2>1, <2>2, <2>3, <2>4
  <1> QED BY <1>1, LockStep DEF AskToWrite, AskToLog, LogGranted, Logged

LEMMA RequestInv ==
    ASSUME ReloadInv, NEW r \in Requests, RequestStep(r)
    PROVE  ReloadInv' /\ Forward
  <1>1. CASE AskToRead(r) \/ Release(r) \/ AnswerRequest(r)
    <2>1. ReloadTypeOK'
      <3> USE WaitersTyped DEF ReloadInv, ReloadTypeOK, RequestPlaces
      <3>1. CASE AskToRead(r)
        BY <3>1 DEF AskToRead
      <3>2. CASE Release(r)
        BY <3>2 DEF Release, DropGuard
      <3>3. CASE AnswerRequest(r)
        BY <3>3 DEF AnswerRequest
      <3> QED BY <1>1, <3>1, <3>2, <3>3
    <2> QED BY <1>1, <2>1, LockStep DEF AskToRead, Release, AnswerRequest
  <1>2. CASE ReadGranted(r)
    <2>1. ReloadTypeOK'
      BY <1>2, WaitersTyped DEF ReloadInv, ReloadTypeOK, RequestPlaces, ReadGranted
    <2>2. InOrder' /\ NeverBack
      BY <1>2 DEF ReloadInv, ReloadTypeOK, InOrder, NeverBack, Versions, ReadGranted
    <2>3. HalfLoaded' /\ StaleIsPending'
      BY <1>2 DEF ReloadInv, HalfLoaded, StaleIsPending, ReadGranted
    <2> QED BY <2>1, <2>2, <2>3 DEF ReloadInv, Forward
  <1> QED BY <1>1, <1>2 DEF RequestStep

\* Every step keeps the invariant, and moves no version back.
LEMMA ReloadNextInv == ReloadInv /\ [ReloadNext]_reloadVars => ReloadInv' /\ [Forward]_reloadVars
  <1> SUFFICES ASSUME ReloadInv, [ReloadNext]_reloadVars PROVE ReloadInv' /\ [Forward]_reloadVars
    OBVIOUS
  <1>1. CASE UNCHANGED reloadVars
    BY <1>1 DEF ReloadInv, ReloadTypeOK, HalfLoaded, InOrder, StaleIsPending, reloadVars
  <1>2. CASE ReloadNext
    BY <1>2, MigrateInv, LinkInv, LoadInv, InstallInv, LockInv, RequestInv DEF ReloadNext, ReloaderStep
  <1> QED BY <1>1, <1>2

\* spawn_schema_reloader and AppState::schema_cache: the cache never falls behind
\* the catalog without a reload on its way, unless a migration was told to nobody
\* or its reload failed; and neither it nor what a request sees goes back, however
\* many requests and reloads share the lock.
THEOREM CatalogFollowed == ReloadSpec => CacheFollowsCatalog
  <1>1. ReloadInit => ReloadInv
    BY InitReloadInv
  <1>2. ReloadInv /\ [ReloadNext]_reloadVars => ReloadInv' /\ [StaleIsPending' /\ NeverBack]_reloadVars
    BY ReloadNextInv DEF Forward
  <1> QED BY <1>1, <1>2, PTL DEF ReloadSpec, CacheFollowsCatalog

-----------------------------------------------------------------------------
(* A transaction of sqlx *)

Types ==
    /\ fault \in Faults
    /\ tx \in Tx /\ session \in Session
    /\ due \in Seq(Sql) /\ done \in Seq(Sql) /\ queuedDue \in Nat

Opened == tx.pc \in {"ready", "flush", "run"}

\* How many of the statements that are due have been run.
Ran == Len(session.work) - Len(done)

\* The open transaction has done what was answered and the first of what is due.
WorkDone ==
    /\ session.state = "open" /\ session.durable = <<>>
    /\ Ran \in 0..Len(due)
    /\ \A i \in 1..Len(done) : session.work[i] = done[i]
    /\ \A i \in 1..Ran : session.work[Len(done) + i] = due[i] /\ fault[due[i]] = "none"

\* The rest of it waits in the queue, in flush's loop or in the call.
WorkLeft ==
    /\ Len(due) = Ran + Len(tx.queued) + Len(tx.left) + Len(tx.stmts)
    /\ \A i \in 1..Len(tx.queued) : due[Ran + i] = tx.queued[i]
    /\ \A i \in 1..Len(tx.left) : due[Ran + i] = tx.left[i]
    /\ \A i \in 1..Len(tx.stmts) : due[Ran + Len(tx.left) + i] = tx.stmts[i]

Placed ==
    /\ tx.pc \in {"new", "ready"} => tx.left = <<>> /\ tx.stmts = <<>>
    /\ tx.pc = "new" => session = NewSession /\ due = <<>> /\ done = <<>> /\ tx.queued = <<>>
    /\ tx.pc = "ready" => Ran = 0
    /\ tx.pc \in {"flush", "run"} =>
          /\ tx.queued = <<>> /\ tx.stmts # <<>>
          /\ \A i \in 1..(Len(tx.stmts) - 1) : tx.stmts[i] \in Stmts
          /\ tx.stmts[Len(tx.stmts)] # Begin
    /\ tx.pc = "flush" => queuedDue = Ran + Len(tx.left)
    /\ tx.pc = "run" => tx.left = <<>> /\ queuedDue <= Ran

SqlxInv == Types /\ Placed /\ (Opened => WorkDone /\ WorkLeft)

\* What one step may be to the caller.
Step == Contract!CNext \/ UNCHANGED Contract!cvars

LEMMA InitInv == Init => SqlxInv /\ Contract!CInit
  <1> SUFFICES ASSUME Init PROVE SqlxInv /\ Contract!CInit
    OBVIOUS
  <1>1. <<>> \in Seq(Sql) /\ <<>> \in Seq(Stmts)
    OBVIOUS
  <1>2. tx \in Tx /\ session \in Session
    BY <1>1 DEF Init, Tx, Session, NewSession
  <1>3. Types
    BY <1>1, <1>2 DEF Init, Types
  <1>4. Placed /\ ~Opened
    BY DEF Init, Placed, Opened
  <1>5. Contract!CInit
    <2>1. Contract!Faults = Faults /\ Contract!NoReply = NoReply
      BY DEF Contract!Faults, Faults, Contract!Sql, Sql, Contract!NoReply, NoReply
    <2> QED BY <2>1 DEF Init, Contract!CInit, NewSession, Phase
  <1> QED BY <1>3, <1>4, <1>5 DEF SqlxInv

-----------------------------------------------------------------------------
(* What a statement does in an open transaction *)

\* PostgreSQL answers a statement of an open transaction by its fault alone.
LEMMA OutcomeOpen ==
    ASSUME session \in Session, session.state = "open", fault \in Faults,
           NEW s \in Sql, s # Begin
    PROVE  /\ Outcome(session, s, fault) = (IF fault[s] = "none" THEN "ok" ELSE "error")
           /\ s \in Stmts /\ fault[s] = "none" =>
                 After(session, s, fault) = [session EXCEPT !.work = Append(session.work, s)]
           /\ s = Commit /\ fault[s] = "none" =>
                 After(session, s, fault) =
                    [session EXCEPT !.state = "idle", !.work = <<>>,
                                    !.durable = session.durable \o session.work]
           /\ ~(s = Commit /\ fault[s] = "none") =>
                 After(session, s, fault).durable = session.durable
           /\ After(session, s, fault) \in Session
  <1>1. session.work \in Seq(Stmts) /\ session.durable \in Seq(Stmts)
    BY DEF Session
  <1>2. CASE s = Commit
    <2>1. s \notin Stmts /\ s # Begin
      BY <1>2, StatementAssumption
    <2>2. session.durable \o session.work \in Seq(Stmts) /\ <<>> \in Seq(Stmts)
      BY <1>1
    <2>3. CASE fault[s] = "none"
      BY <1>2, <2>1, <2>2, <2>3 DEF Outcome, After, Session
    <2>4. CASE fault[s] # "none"
      BY <1>2, <2>1, <2>2, <2>4 DEF Outcome, After, Session
    <2> QED BY <2>3, <2>4
  <1>3. CASE s \in Stmts
    <2>1. s # Commit /\ s # Begin
      BY <1>3, StatementAssumption
    <2>2. Append(session.work, s) \in Seq(Stmts) /\ <<>> \in Seq(Stmts)
      BY <1>1, <1>3
    <2> QED BY <1>3, <2>1, <2>2 DEF Outcome, After, Session
  <1> QED BY <1>2, <1>3 DEF Sql

-----------------------------------------------------------------------------
(* Steps *)

\* The statement in hand: the next of flush's loop, or of the call.
Hand(s) ==
    \/ tx.pc = "flush" /\ tx.left # <<>> /\ s = Head(tx.left)
    \/ tx.pc = "run" /\ s = Head(tx.stmts)

\* What the invariant says of the statement in hand: it is the first of what is
\* due that has not been run, and nothing before it has failed.
LEMMA InHand ==
    ASSUME SqlxInv, tx.pc \in {"flush", "run"}, NEW s, Hand(s)
    PROVE  /\ Ran \in Nat /\ Ran + 1 \in 1..Len(due) /\ due[Ran + 1] = s
           /\ s \in Sql /\ s # Begin
           /\ \A i \in 1..Ran : fault[due[i]] = "none"
           /\ Ran + 1 <= queuedDue <=> tx.pc = "flush"
           /\ s = Commit => tx.pc = "run" /\ Len(tx.stmts) = 1 /\ Ran + 1 = Len(due)
           /\ tx.pc = "run" /\ Len(tx.stmts) = 1 => Ran + 1 = Len(due)
           /\ tx.pc = "run" /\ Len(tx.stmts) > 1 => s \in Stmts
  <1>1. Types /\ Placed /\ WorkDone /\ WorkLeft
    BY DEF SqlxInv, Opened
  <1>6. tx.left \in Seq(Stmts) /\ tx.stmts \in Seq(Sql) /\ tx.queued = <<>> /\ tx.stmts # <<>>
    BY <1>1 DEF Types, Tx, Placed
  <1>2. /\ Len(tx.left) \in Nat /\ Len(tx.stmts) \in Nat /\ Len(due) \in Nat /\ queuedDue \in Nat
        /\ Len(tx.queued) = 0 /\ Len(tx.stmts) >= 1
        /\ Ran \in Nat
    BY <1>1, <1>6 DEF Types, WorkDone
  <1>0. Len(due) = Ran + Len(tx.queued) + Len(tx.left) + Len(tx.stmts)
    BY <1>1 DEF WorkLeft
  <1>3. \A i \in 1..Ran : fault[due[i]] = "none"
    BY <1>1 DEF WorkDone
  <1>4. CASE tx.pc = "flush"
    <2>1. tx.left # <<>> /\ s = tx.left[1] /\ Len(tx.left) >= 1 /\ s \in Stmts
      BY <1>6, <1>4 DEF Hand
    <2>2. Ran + 1 \in 1..Len(due) /\ queuedDue = Ran + Len(tx.left)
      <3>1. queuedDue = Ran + Len(tx.left)
        BY <1>1, <1>4 DEF Placed
      <3>2. /\ Len(tx.left) >= 1 /\ Len(tx.left) \in Nat /\ Len(tx.stmts) \in Nat
            /\ Len(tx.queued) = 0 /\ Len(due) \in Nat
        BY <1>2, <2>1
      <3> DEFINE l == Len(tx.left)
                 n == Len(tx.stmts)
                 q == Len(tx.queued)
      <3>3. l >= 1 /\ l \in Nat /\ n \in Nat /\ q = 0 /\ Len(due) = Ran + q + l + n
        BY <3>2, <1>0
      <3> HIDE DEF l, n, q
      <3>4. Ran + 1 \in 1..Len(due)
        BY <1>2, <3>3
      <3> QED BY <3>1, <3>4
    <2>3. due[Ran + 1] = s
      <3>1. 1 \in 1..Len(tx.left)
        BY <1>2, <2>1
      <3> QED BY <1>1, <2>1, <3>1 DEF WorkLeft
    <2>4. s \in Sql /\ s # Begin /\ s # Commit
      BY <2>1, StatementAssumption DEF Sql
    <2>5. Ran + 1 <= queuedDue
      BY <1>2, <2>1, <2>2
    <2> QED BY <1>2, <1>3, <1>4, <2>2, <2>3, <2>4, <2>5
  <1>5. CASE tx.pc = "run"
    <2>1. tx.left = <<>> /\ s = tx.stmts[1] /\ queuedDue <= Ran /\ Len(tx.left) = 0
      BY <1>1, <1>6, <1>5 DEF Placed, Hand
    <2>2. Ran + 1 \in 1..Len(due) /\ due[Ran + 1] = s /\ Len(due) = Ran + Len(tx.stmts)
      <3>1. 1 \in 1..Len(tx.stmts) /\ Ran + Len(tx.left) + 1 = Ran + 1
        BY <1>2, <2>1
      <3>2. due[Ran + 1] = s
        BY <1>1, <2>1, <3>1 DEF WorkLeft
      <3> QED BY <1>0, <1>2, <2>1, <3>2
    <2>3. Len(tx.stmts) > 1 => s \in Stmts
      BY <1>1, <1>2, <1>5, <2>1 DEF Placed
    <2>4. s \in Sql /\ s # Begin
      BY <1>1, <1>2, <1>6, <1>5, <2>1, <2>3, StatementAssumption DEF Placed, Sql
    <2>5. s = Commit => Len(tx.stmts) = 1
      <3> DEFINE n == Len(tx.stmts)
      <3>1. s = Commit => ~(n > 1)
        BY <2>3, StatementAssumption
      <3>2. n \in Nat /\ n >= 1
        BY <1>2
      <3> HIDE DEF n
      <3>3. s = Commit => n = 1
        BY <3>1, <3>2
      <3> QED BY <3>3 DEF n
    <2>6. ~(Ran + 1 <= queuedDue)
      BY <1>2, <2>1
    <2> QED BY <1>2, <1>3, <1>5, <2>2, <2>3, <2>4, <2>5, <2>6
  <1> QED BY <1>4, <1>5

\* The statement in hand fails: the contract reports the first failure.
LEMMA FailStep ==
    ASSUME SqlxInv, tx.pc \in {"flush", "run"}, NEW s, Hand(s),
           Outcome(session, s, fault) # "ok",
           FailWith(s, tx.pc = "flush")
    PROVE  SqlxInv' /\ Step
  <1>1. Types /\ session.state = "open"
    BY DEF SqlxInv, Opened, WorkDone
  <1> DEFINE k == Ran + 1
  <1>2. /\ k \in 1..Len(due) /\ due[k] = s /\ s \in Sql /\ s # Begin
        /\ \A i \in 1..(k - 1) : fault[due[i]] = "none"
        /\ k <= queuedDue <=> tx.pc = "flush"
    <2>1. Ran \in Nat /\ k - 1 = Ran
      BY InHand
    <2> QED BY <2>1, InHand
  <1>3. Outcome(session, s, fault) = "error" /\ fault[s] # "none"
    BY <1>1, <1>2, OutcomeOpen DEF Types
  <1>4. /\ session' \in Session /\ session'.durable = session.durable
    BY <1>1, <1>2, <1>3, OutcomeOpen DEF Types, FailWith
  <1>5. SqlxInv'
    <2>1. tx' \in Tx /\ tx'.pc = "over"
      <3>1. tx \in Tx /\ <<>> \in Seq(Stmts) /\ tx' = [tx EXCEPT !.pc = "over", !.left = <<>>]
        BY <1>1 DEF Types, FailWith
      <3> QED BY <3>1 DEF Tx
    <2>2. Types'
      BY <1>1, <1>4, <2>1 DEF Types, FailWith
    <2>3. Placed' /\ ~Opened'
      BY <2>1 DEF Placed, Opened
    <2> QED BY <2>2, <2>3 DEF SqlxInv
  <1>6. Contract!AnswerFailed
    <2> HIDE DEF k
    <2>1. DOMAIN due = 1..Len(due)
      BY <1>1 DEF Types
    <2>2. Contract!Fails(due, k)
      BY <1>2, <1>3 DEF Contract!Fails
    <2>3. ~Contract!Succeeds(due)
      BY <1>2, <2>1, <2>2 DEF Contract!Succeeds
    <2>4. Contract!FirstFailure(due) = k
      <3> DEFINE P(j) == Contract!Fails(due, j) /\ \A i \in 1..(j-1) : ~Contract!Fails(due, i)
      <3>1. P(k)
        BY <1>2, <2>2 DEF Contract!Fails
      <3>2. ASSUME NEW j \in DOMAIN due, P(j) PROVE j = k
        <4>1. j \in Nat /\ k \in Nat /\ j >= 1 /\ k >= 1
          BY <1>2, <2>1, <3>2
        <4>2. ~(j < k)
          BY <1>2, <3>2, <4>1 DEF Contract!Fails
        <4>3. ~(k < j)
          BY <3>2, <4>1, <2>2
        <4> QED BY <4>1, <4>2, <4>3
      <3>3. Contract!FirstFailure(due) = CHOOSE j \in DOMAIN due : P(j)
        BY DEF Contract!FirstFailure
      <3> HIDE DEF P
      <3> QED BY <1>2, <2>1, <3>1, <3>2, <3>3
    <2>5. reply' = [kind |-> "failed", stmt |-> due[k], queued |-> k <= queuedDue]
      BY <1>2, <1>3 DEF FailWith
    <2>6. Phase = "busy" /\ Phase' = "ended"
      BY DEF Phase, FailWith
    <2> QED BY <1>4, <2>3, <2>4, <2>5, <2>6 DEF Contract!AnswerFailed, FailWith
  <1> QED BY <1>5, <1>6 DEF Step, Contract!CNext

LEMMA BeginStep ==
    ASSUME SqlxInv, BeginTx \/ BeginFails
    PROVE  SqlxInv' /\ Step
  <1>1. Types /\ Placed /\ tx.pc = "new"
    BY DEF SqlxInv, BeginTx, BeginFails
  <1>2. session = NewSession /\ due = <<>> /\ done = <<>> /\ tx.queued = <<>> /\ tx.left = <<>> /\ tx.stmts = <<>>
    BY <1>1 DEF Placed
  <1>3. tx \in Tx /\ session.work = <<>> /\ session.durable = <<>>
    BY <1>1, <1>2 DEF Types, NewSession
  <1>4. CASE BeginTx
    <2>1. /\ session' \in Session /\ session'.state = "open"
          /\ session'.work = <<>> /\ session'.durable = <<>>
      BY <1>1, <1>2, <1>4, StatementAssumption DEF BeginTx, After, NewSession, Types, Session
    <2>2. /\ tx' \in Tx /\ tx'.pc = "ready" /\ tx'.queued = <<>> /\ tx'.left = <<>> /\ tx'.stmts = <<>>
      BY <1>2, <1>3, <1>4 DEF BeginTx, Tx
    <2>3. UNCHANGED <<fault, due, queuedDue, done, reply>>
      BY <1>4 DEF BeginTx
    <2>4. Ran' = 0 /\ Len(due') = 0 /\ Len(done') = 0
      BY <1>2, <2>1, <2>3 DEF Ran
    <2>5. Types'
      BY <1>1, <2>1, <2>2, <2>3 DEF Types
    <2>6. Placed'
      BY <2>2, <2>4 DEF Placed
    <2>7. WorkDone'
      BY <2>1, <2>4 DEF WorkDone
    <2>8. WorkLeft'
      BY <2>2, <2>4 DEF WorkLeft
    <2>9. Phase = "idle" /\ Phase' = "idle"
      BY <1>1, <2>2 DEF Phase
    <2>10. UNCHANGED Contract!cvars
      BY <1>3, <2>1, <2>3, <2>9 DEF Contract!cvars
    <2> QED BY <2>5, <2>6, <2>7, <2>8, <2>10 DEF SqlxInv, Step
  <1>5. CASE BeginFails
    <2>1. tx' \in Tx /\ tx'.pc = "over"
      BY <1>3, <1>5 DEF BeginFails, Tx
    <2>2. Types' /\ Placed' /\ ~Opened'
      BY <1>1, <1>5, <2>1 DEF Types, Placed, Opened, BeginFails
    <2>3. Phase = "idle" /\ Phase' = "ended"
      BY <1>1, <2>1 DEF Phase
    <2>4. Contract!Drop
      BY <1>5, <2>3 DEF Contract!Drop, BeginFails, ConnectionFailed, Contract!ConnectionFailed
    <2> QED BY <2>2, <2>4 DEF SqlxInv, Step, Contract!CNext
  <1> QED BY <1>4, <1>5

LEMMA QueueStep ==
    ASSUME SqlxInv, NEW s \in Stmts, QueueStatement(s)
    PROVE  SqlxInv' /\ Step
  <1>1. Types /\ Placed /\ WorkDone /\ WorkLeft /\ tx.pc = "ready"
    BY DEF SqlxInv, Opened, QueueStatement
  <1>2. /\ tx.queued \in Seq(Stmts) /\ due \in Seq(Sql) /\ s \in Sql /\ tx \in Tx
        /\ tx.left = <<>> /\ tx.stmts = <<>> /\ Ran = 0
        /\ Len(tx.queued) = Len(due)
        /\ \A i \in 1..Len(tx.queued) : due[i] = tx.queued[i]
    <2>1. /\ tx.queued \in Seq(Stmts) /\ due \in Seq(Sql) /\ s \in Sql /\ tx \in Tx
          /\ tx.left = <<>> /\ tx.stmts = <<>> /\ Ran = 0
      BY <1>1 DEF Types, Placed, Tx, Sql
    <2>2. Len(due) = 0 + Len(tx.queued) + 0 + 0
      BY <1>1, <2>1 DEF WorkLeft
    <2>3. \A i \in 1..Len(tx.queued) : due[0 + i] = tx.queued[i]
      BY <1>1, <2>1 DEF WorkLeft
    <2> QED BY <2>1, <2>2, <2>3
  <1>3. /\ tx' = [tx EXCEPT !.queued = Append(tx.queued, s)]
        /\ due' = Append(due, s)
        /\ UNCHANGED <<fault, session, queuedDue, done, reply>>
    BY DEF QueueStatement
  <1>4. /\ tx'.queued = Append(tx.queued, s) /\ tx' \in Tx
        /\ tx'.pc = "ready" /\ tx'.left = <<>> /\ tx'.stmts = <<>>
    <2>1. Append(tx.queued, s) \in Seq(Stmts)
      BY <1>2
    <2> QED BY <1>1, <1>2, <1>3, <2>1 DEF Tx
  <1>5. due' \in Seq(Sql) /\ Len(due') = Len(due) + 1 /\ Ran' = 0
    BY <1>2, <1>3 DEF Ran
  <1>6. Types' /\ Placed'
    BY <1>1, <1>3, <1>4, <1>5 DEF Types, Placed
  <1>7. WorkDone'
    <2>1. \A i \in 1..Len(done) : session.work[i] = done[i]
      BY <1>1 DEF WorkDone
    <2>2. session.state = "open" /\ session.durable = <<>>
      BY <1>1 DEF WorkDone
    <2>3. Ran' \in 0..Len(due')
      BY <1>2, <1>5
    <2> QED BY <1>3, <1>5, <2>1, <2>2, <2>3 DEF WorkDone
  <1>8. WorkLeft'
    <2>1. Len(tx'.queued) = Len(due') /\ \A i \in 1..Len(tx'.queued) : due'[i] = tx'.queued[i]
      BY <1>2, <1>3, <1>4
    <2> DEFINE q == tx'.queued
               d == due'
    <2>2. d \in Seq(Sql) /\ q \in Seq(Stmts) /\ Len(q) = Len(d) /\ \A i \in 1..Len(q) : d[i] = q[i]
      BY <1>2, <1>4, <1>5, <2>1
    <2> HIDE DEF q, d
    <2>3. Len(d) = 0 + Len(q) + 0 + 0 /\ \A i \in 1..Len(q) : d[0 + i] = q[i]
      BY <2>2
    <2> QED BY <1>4, <1>5, <2>3 DEF WorkLeft, q, d
  <1>9. Contract!Queue(s)
    <2>1. Phase = "idle" /\ Phase' = "idle"
      BY <1>1, <1>4 DEF Phase
    <2> QED BY <1>3, <2>1 DEF Contract!Queue, QueueStatement
  <1>10. Contract!CNext
    BY <1>9 DEF Contract!CNext
  <1> QED BY <1>6, <1>7, <1>8, <1>10 DEF SqlxInv, Step

\* The statements of a call: only the last may be COMMIT, and none is BEGIN.
LEMMA CallsShape ==
    ASSUME NEW stmts \in Contract!Calls
    PROVE  /\ stmts \in Seq(Sql) /\ stmts # <<>> /\ Len(stmts) \in Nat \ {0}
           /\ \A i \in 1..(Len(stmts) - 1) : stmts[i] \in Stmts
           /\ stmts[Len(stmts)] # Begin
  <1>1. Stmts \subseteq Sql /\ Commit \in Sql /\ Begin \notin Stmts /\ Commit # Begin
    BY StatementAssumption DEF Sql
  <1>2. CASE \E s \in Stmts : stmts = <<s>>
    BY <1>1, <1>2
  <1>3. CASE \E s, t \in Stmts : stmts = <<s, t>>
    BY <1>1, <1>3
  <1>4. CASE stmts = <<Commit>>
    BY <1>1, <1>4
  <1>5. CASE \E s \in Stmts : stmts = <<s, Commit>>
    BY <1>1, <1>5
  <1>6. CASE \E s, t \in Stmts : stmts = <<s, t, Commit>>
    BY <1>1, <1>6
  <1> QED BY <1>2, <1>3, <1>4, <1>5, <1>6 DEF Contract!Calls

LEMMA CallStep ==
    ASSUME SqlxInv, NEW stmts \in Contract!Calls, StartCall(stmts)
    PROVE  SqlxInv' /\ Step
  <1>1. Types /\ Placed /\ WorkDone /\ WorkLeft /\ tx.pc = "ready"
    BY DEF SqlxInv, Opened, StartCall
  <1>2. /\ tx.queued \in Seq(Stmts) /\ due \in Seq(Sql) /\ tx \in Tx
        /\ Ran = 0 /\ Len(tx.queued) = Len(due)
        /\ \A i \in 1..Len(tx.queued) : due[i] = tx.queued[i]
    <2>1. /\ tx.queued \in Seq(Stmts) /\ due \in Seq(Sql) /\ tx \in Tx
          /\ tx.left = <<>> /\ tx.stmts = <<>> /\ Ran = 0
      BY <1>1 DEF Types, Placed, Tx
    <2>2. Len(due) = 0 + Len(tx.queued) + 0 + 0
      BY <1>1, <2>1 DEF WorkLeft
    <2>3. \A i \in 1..Len(tx.queued) : due[0 + i] = tx.queued[i]
      BY <1>1, <2>1 DEF WorkLeft
    <2> QED BY <2>1, <2>2, <2>3
  <1>3. /\ tx' = [pc |-> "flush", queued |-> <<>>, left |-> tx.queued, stmts |-> stmts]
        /\ due' = due \o stmts
        /\ queuedDue' = Len(due)
        /\ UNCHANGED <<fault, session, done>>
    BY DEF StartCall, TakeQueued
  <1>4. /\ tx'.queued = <<>> /\ tx' \in Tx
        /\ tx'.pc = "flush" /\ tx'.left = tx.queued /\ tx'.stmts = stmts
    <2>1. <<>> \in Seq(Stmts)
      OBVIOUS
    <2> QED BY <1>2, <1>3, <2>1, CallsShape DEF Tx
  <1>5. /\ due' \in Seq(Sql) /\ Len(due') = Len(due) + Len(stmts)
        /\ \A i \in 1..Len(due) : due'[i] = due[i]
        /\ \A i \in 1..Len(stmts) : due'[Len(due) + i] = stmts[i]
    BY <1>2, <1>3, CallsShape
  <1>6. Ran' = 0 /\ queuedDue' \in Nat /\ Len(due) \in Nat
    BY <1>2, <1>3 DEF Ran
  <1>7. Types'
    BY <1>1, <1>3, <1>4, <1>5, <1>6 DEF Types
  <1>8. Placed'
    <2>1. queuedDue' = Ran' + Len(tx'.left)
      BY <1>2, <1>3, <1>4, <1>6
    <2> QED BY <1>4, <2>1, CallsShape DEF Placed
  <1>9. WorkDone'
    <2>1. \A i \in 1..Len(done) : session.work[i] = done[i]
      BY <1>1 DEF WorkDone
    <2>2. session.state = "open" /\ session.durable = <<>>
      BY <1>1 DEF WorkDone
    <2>3. Ran' \in 0..Len(due')
      BY <1>2, <1>5, <1>6, CallsShape
    <2> QED BY <1>3, <1>6, <2>1, <2>2, <2>3 DEF WorkDone
  <1>10. WorkLeft'
    <2> DEFINE d == due'
               q == tx.queued
    <2>1. /\ Len(d) = 0 + Len(<<>>) + Len(q) + Len(stmts)
          /\ \A i \in 1..Len(q) : d[0 + i] = q[i]
          /\ \A i \in 1..Len(stmts) : d[0 + Len(q) + i] = stmts[i]
      <3>1. /\ d \in Seq(Sql) /\ q \in Seq(Stmts) /\ Len(q) \in Nat /\ Len(stmts) \in Nat
            /\ Len(d) = Len(q) + Len(stmts)
            /\ \A i \in 1..Len(q) : d[i] = q[i]
            /\ \A i \in 1..Len(stmts) : d[Len(q) + i] = stmts[i]
        BY <1>2, <1>5, CallsShape
      <3> HIDE DEF d, q
      <3> QED BY <3>1
    <2>2. \A i \in 1..Len(<<>>) : d[0 + i] = <<>>[i]
      OBVIOUS
    <2> QED BY <1>4, <1>6, <2>1, <2>2 DEF WorkLeft
  <1>11. Contract!Call(stmts)
    <2>1. Phase = "idle" /\ Phase' = "busy"
      BY <1>1, <1>4 DEF Phase
    <2> QED BY <1>3, <2>1 DEF Contract!Call, StartCall, Contract!NoReply, NoReply
  <1>12. Contract!CNext
    BY <1>11 DEF Contract!CNext
  <1> QED BY <1>7, <1>8, <1>9, <1>10, <1>12 DEF SqlxInv, Step

\* A statement that succeeds adds itself to the work.
LEMMA OneMore ==
    ASSUME SqlxInv, tx.pc \in {"flush", "run"}, NEW s \in Stmts, Hand(s), fault[s] = "none",
           session' = [session EXCEPT !.work = Append(session.work, s)],
           UNCHANGED <<fault, due, done>>
    PROVE  WorkDone' /\ Ran' = Ran + 1 /\ session' \in Session /\ session'.durable = session.durable
  <1>1. WorkDone /\ session \in Session /\ session.work \in Seq(Stmts) /\ done \in Seq(Sql)
    BY DEF SqlxInv, Opened, Types, Session
  <1>2. Ran \in Nat /\ Ran + 1 \in 1..Len(due) /\ due[Ran + 1] = s
    BY InHand
  <1>3. /\ session'.work = Append(session.work, s) /\ session'.durable = session.durable
        /\ session'.state = session.state /\ session' \in Session
    <2>1. Append(session.work, s) \in Seq(Stmts)
      BY <1>1
    <2> QED BY <1>1, <2>1 DEF Session
  <1>4. /\ Len(session'.work) = Len(session.work) + 1
        /\ \A i \in 1..Len(session.work) : session'.work[i] = session.work[i]
        /\ session'.work[Len(session.work) + 1] = s
        /\ Len(session.work) \in Nat /\ Len(done) \in Nat
    BY <1>1, <1>3
  <1>5. Ran' = Ran + 1 /\ Len(session.work) = Len(done) + Ran
    BY <1>2, <1>4 DEF Ran
  <1>6. /\ session.state = "open" /\ session.durable = <<>>
        /\ \A i \in 1..Len(done) : session.work[i] = done[i]
        /\ \A i \in 1..Ran : session.work[Len(done) + i] = due[i] /\ fault[due[i]] = "none"
    BY <1>1 DEF WorkDone
  <1>7. \A i \in 1..Len(done) : session'.work[i] = done[i]
    BY <1>2, <1>4, <1>5, <1>6
  <1>8. ASSUME NEW i \in 1..(Ran + 1)
        PROVE  session'.work[Len(done) + i] = due[i] /\ fault[due[i]] = "none"
    <2>1. CASE i = Ran + 1
      BY <1>2, <1>4, <1>5, <2>1
    <2>2. CASE i # Ran + 1
      <3>1. i \in 1..Ran /\ Len(done) + i \in 1..Len(session.work)
        BY <1>2, <1>4, <1>5, <2>2
      <3> QED BY <1>4, <1>6, <3>1
    <2> QED BY <2>1, <2>2
  <1>9. Ran' \in 0..Len(due')
    BY <1>2, <1>5
  <1>10. WorkDone'
    <2>1. session'.state = "open" /\ session'.durable = <<>>
      BY <1>3, <1>6
    <2> QED BY <1>5, <1>7, <1>8, <1>9, <2>1 DEF WorkDone
  <1> QED BY <1>3, <1>5, <1>10

\* The first of a sequence is taken off.
LEMMA TailShift ==
    ASSUME NEW S, NEW q \in Seq(S), q # <<>>
    PROVE  /\ Tail(q) \in Seq(S) /\ Len(Tail(q)) = Len(q) - 1 /\ Len(q) \in Nat \ {0}
           /\ \A i \in 1..Len(Tail(q)) : Tail(q)[i] = q[i + 1]
  OBVIOUS

LEMMA FlushStep ==
    ASSUME SqlxInv, FlushStatement
    PROVE  SqlxInv' /\ Step
  <1>1. Types /\ Placed /\ WorkDone /\ WorkLeft /\ tx.pc = "flush" /\ tx.left # <<>>
    BY DEF SqlxInv, Opened, FlushStatement
  <1>2. PICK s : s = Head(tx.left)
    OBVIOUS
  <1>3. Hand(s)
    BY <1>1, <1>2 DEF Hand
  <1>4. s \in Sql /\ s # Begin /\ s # Commit /\ s \in Stmts
    BY <1>1, <1>3, InHand DEF Sql
  <1>5. CASE Outcome(session, s, fault) # "ok"
    <2>1. FailWith(s, TRUE)
      BY <1>2, <1>5 DEF FlushStatement
    <2>2. FailWith(s, tx.pc = "flush")
      BY <1>1, <2>1 DEF FailWith
    <2> QED BY <1>1, <1>3, <1>5, <2>2, FailStep
  <1>6. CASE Outcome(session, s, fault) = "ok"
    <2>1. /\ session' = After(session, s, fault)
          /\ tx' = [tx EXCEPT !.left = Tail(tx.left)]
          /\ UNCHANGED <<fault, due, queuedDue, done, reply>>
      BY <1>2, <1>6 DEF FlushStatement
    <2>2. fault[s] = "none" /\ session' = [session EXCEPT !.work = Append(session.work, s)]
      BY <1>1, <1>4, <1>6, <2>1, OutcomeOpen DEF Types, WorkDone
    <2>3. WorkDone' /\ Ran' = Ran + 1 /\ session' \in Session /\ session'.durable = session.durable
      BY <1>1, <1>3, <1>4, <2>1, <2>2, OneMore
    <2>4. /\ tx.left \in Seq(Stmts) /\ tx.queued = <<>> /\ tx.stmts \in Seq(Sql)
          /\ tx \in Tx /\ queuedDue = Ran + Len(tx.left)
          /\ Ran \in Nat
      BY <1>1, <1>3, InHand DEF Types, Tx, Placed
    <2>5. /\ Tail(tx.left) \in Seq(Stmts) /\ Len(Tail(tx.left)) = Len(tx.left) - 1
          /\ \A i \in 1..Len(Tail(tx.left)) : Tail(tx.left)[i] = tx.left[i + 1]
          /\ Len(tx.left) \in Nat \ {0}
      BY <1>1, <2>4, TailShift
    <2>6. /\ tx' \in Tx /\ tx'.pc = "flush" /\ tx'.left = Tail(tx.left)
          /\ tx'.queued = tx.queued /\ tx'.stmts = tx.stmts
      BY <1>1, <2>1, <2>4, <2>5 DEF Tx
    <2> DEFINE l == Len(tx.left)
    <2>7. l \in Nat \ {0} /\ Len(tx'.left) = l - 1 /\ Ran' + Len(tx'.left) = Ran + l
      <3>1. l \in Nat \ {0} /\ Len(tx'.left) = l - 1
        BY <2>5, <2>6
      <3> HIDE DEF l
      <3> QED BY <2>3, <2>4, <3>1
    <2>8. Types'
      BY <1>1, <2>1, <2>3, <2>6 DEF Types
    <2>9. Placed'
      <3>1. queuedDue' = Ran' + Len(tx'.left)
        BY <2>1, <2>4, <2>7
      <3> QED BY <1>1, <2>6, <3>1 DEF Placed
    <2>10. WorkLeft'
      <3>1. /\ Len(due) = Ran + Len(tx.queued) + l + Len(tx.stmts)
            /\ \A i \in 1..l : due[Ran + i] = tx.left[i]
            /\ \A i \in 1..Len(tx.stmts) : due[Ran + l + i] = tx.stmts[i]
        BY <1>1 DEF WorkLeft
      <3>2. Len(tx.queued) = 0 /\ Len(tx.stmts) \in Nat
        BY <2>4
      <3> DEFINE n == Len(tx.stmts)
                 q == Len(tx.queued)
                 l2 == Len(tx'.left)
      <3>3. Len(due) = Ran + q + l + n /\ n \in Nat /\ q = 0 /\ l2 = l - 1 /\ Ran' + l2 = Ran + l
        BY <2>7, <3>1, <3>2
      <3>4. ASSUME NEW i \in 1..Len(tx'.left) PROVE due[Ran' + i] = tx'.left[i]
        <4>1. i + 1 \in 1..l /\ Ran' + i = Ran + (i + 1)
          BY <2>3, <2>4, <2>7
        <4>2. tx'.left[i] = tx.left[i + 1]
          BY <2>5, <2>6
        <4> QED BY <3>1, <4>1, <4>2
      <3>5. Len(due') = Ran' + Len(tx'.queued) + Len(tx'.left) + Len(tx'.stmts)
        <4> HIDE DEF l, n, q, l2
        <4>1. Len(due) = Ran' + q + l2 + n
          BY <2>3, <2>4, <3>3
        <4> QED BY <2>1, <2>6, <4>1 DEF n, q, l2
      <3>6. \A i \in 1..Len(tx'.stmts) : due'[Ran' + Len(tx'.left) + i] = tx'.stmts[i]
        BY <2>1, <2>6, <2>7, <3>1
      <3>7. \A i \in 1..Len(tx'.queued) : due'[Ran' + i] = tx'.queued[i]
        BY <2>4, <2>6
      <3> QED BY <2>1, <3>4, <3>5, <3>6, <3>7 DEF WorkLeft
    <2>11. UNCHANGED Contract!cvars
      BY <1>1, <2>1, <2>3, <2>6 DEF Contract!cvars, Phase
    <2> QED BY <2>3, <2>8, <2>9, <2>10, <2>11 DEF SqlxInv, Step
  <1> QED BY <1>5, <1>6

LEMMA FlushedStep ==
    ASSUME SqlxInv, Flushed
    PROVE  SqlxInv' /\ Step
  <1>1. Types /\ Placed /\ WorkDone /\ WorkLeft /\ tx.pc = "flush" /\ tx.left = <<>>
    BY DEF SqlxInv, Opened, Flushed
  <1>2. /\ tx \in Tx /\ tx' = [tx EXCEPT !.pc = "run"]
        /\ UNCHANGED <<fault, session, due, queuedDue, done, reply>>
    BY <1>1 DEF Flushed, Types
  <1>3. /\ tx' \in Tx /\ tx'.pc = "run" /\ tx'.left = <<>>
        /\ tx'.queued = tx.queued /\ tx'.stmts = tx.stmts
    BY <1>1, <1>2 DEF Tx
  <1>4. Ran' = Ran /\ Ran \in Nat
    BY <1>1, <1>2 DEF Ran, WorkDone, Types
  <1>5. Types' /\ WorkDone'
    BY <1>1, <1>2, <1>3, <1>4 DEF Types, WorkDone
  <1>8. WorkLeft'
    <2>1. Ran' = Ran /\ due' = due /\ tx'.left = tx.left /\ tx'.queued = tx.queued /\ tx'.stmts = tx.stmts
      BY <1>1, <1>2, <1>3, <1>4
    <2> QED BY <1>1, <2>1, Zenon DEF WorkLeft
  <1>6. Placed'
    <2>1. queuedDue' <= Ran'
      BY <1>1, <1>2, <1>4 DEF Placed
    <2> QED BY <1>1, <1>3, <2>1 DEF Placed
  <1>7. UNCHANGED Contract!cvars
    BY <1>1, <1>2, <1>3 DEF Contract!cvars, Phase
  <1> QED BY <1>5, <1>6, <1>7, <1>8 DEF SqlxInv, Step

\* When the last statement due is in hand and does not fail, nothing has.
LEMMA AllSucceed ==
    ASSUME SqlxInv, tx.pc = "run", Len(tx.stmts) = 1, NEW s, Hand(s), fault[s] = "none"
    PROVE  /\ Contract!Succeeds(due)
           /\ Contract!EndsTransaction(due) <=> s = Commit
  <1>1. /\ Ran \in Nat /\ due[Ran + 1] = s /\ Ran + 1 = Len(due)
        /\ \A i \in 1..Ran : fault[due[i]] = "none"
    BY InHand
  <1>2. due \in Seq(Sql) /\ DOMAIN due = 1..Len(due)
    BY DEF SqlxInv, Types
  <1>3. \A i \in 1..Len(due) : fault[due[i]] = "none"
    BY <1>1
  <1>4. Contract!Succeeds(due)
    BY <1>2, <1>3 DEF Contract!Succeeds, Contract!Fails
  <1>5. due # <<>>
    BY <1>1, <1>2
  <1> QED BY <1>1, <1>4, <1>5 DEF Contract!EndsTransaction

\* What COMMIT makes durable is every statement before it, in order.
LEMMA Committed ==
    ASSUME SqlxInv, tx.pc = "run", Len(tx.stmts) = 1, NEW s, Hand(s)
    PROVE  session.durable \o session.work = Contract!Statements(done \o due)
  <1>1. Ran \in Nat /\ Ran + 1 = Len(due)
    BY InHand
  <1>2. /\ due \in Seq(Sql) /\ done \in Seq(Sql) /\ session.work \in Seq(Sql)
        /\ Len(session.work) \in Nat /\ Len(done) \in Nat
    BY SeqMonotonic DEF SqlxInv, Types, Session, Sql
  <1>3. /\ session.durable = <<>>
        /\ \A i \in 1..Len(done) : session.work[i] = done[i]
        /\ \A i \in 1..Ran : session.work[Len(done) + i] = due[i]
    BY DEF SqlxInv, Opened, WorkDone
  <1>4. Len(session.work) = Len(done) + Ran
    BY <1>1, <1>2 DEF Ran
  <1> DEFINE all == done \o due
             w == session.work
             n == Len(done)
  <1>5. /\ all \in Seq(Sql) /\ Len(all) = n + Len(due)
        /\ \A i \in 1..n : all[i] = done[i]
        /\ \A i \in 1..Len(due) : all[n + i] = due[i]
    BY <1>2
  <1>6. Len(w) = Len(all) - 1
    <2>1. Len(w) = n + Ran /\ n \in Nat
      BY <1>2, <1>4
    <2> HIDE DEF all, w, n
    <2> QED BY <1>1, <1>5, <2>1
  <1>7. \A i \in 1..Len(w) : w[i] = all[i]
    <2> SUFFICES ASSUME NEW i \in 1..Len(w) PROVE w[i] = all[i]
      OBVIOUS
    <2>1. CASE i <= n
      <3>1. i \in 1..n
        BY <1>2, <2>1
      <3> QED BY <1>3, <1>5, <3>1
    <2>2. CASE ~(i <= n)
      <3>1. i - n \in 1..Ran /\ n + (i - n) = i /\ i - n \in 1..Len(due)
        BY <1>1, <1>2, <1>4, <2>2
      <3> QED BY <1>3, <1>5, <3>1
    <2> QED BY <2>1, <2>2
  <1>8. w \in Seq(Sql)
    BY <1>2
  <1> HIDE DEF all, w
  <1>9. w = SubSeq(all, 1, Len(all) - 1)
    <2> DEFINE v == SubSeq(all, 1, Len(all) - 1)
    <2>1. v \in Seq(Sql) /\ Len(v) = Len(w) /\ \A i \in 1..Len(w) : v[i] = all[i]
      BY <1>5, <1>6, <1>8
    <2> HIDE DEF v
    <2>2. v = w
      BY <1>7, <1>8, <2>1, SeqEqual
    <2> QED BY <2>2 DEF v
  <1>10. <<>> \o w = w
    BY <1>8
  <1> QED BY <1>3, <1>9, <1>10 DEF all, w, Contract!Statements

\* The last statement of the call succeeds, and it is not COMMIT.
LEMMA LastAnswered ==
    ASSUME SqlxInv, tx.pc = "run", Len(tx.stmts) = 1, NEW s \in Stmts, Hand(s), fault[s] = "none",
           session' = [session EXCEPT !.work = Append(session.work, s)],
           tx' = [tx EXCEPT !.pc = "ready", !.stmts = <<>>],
           due' = <<>>, done' = done \o due,
           UNCHANGED <<fault, queuedDue>>
    PROVE  SqlxInv' /\ session'.durable = session.durable
  <1>1. Types /\ Placed /\ WorkDone /\ session.work \in Seq(Stmts) /\ session.work \in Seq(Sql) /\ tx \in Tx
    BY SeqMonotonic DEF SqlxInv, Opened, Types, Session, Sql
  <1>2. Ran \in Nat /\ Ran + 1 = Len(due) /\ due[Ran + 1] = s /\ s \in Sql
    BY InHand
  <1>3. /\ session'.work = Append(session.work, s) /\ session'.durable = session.durable
        /\ session'.state = session.state /\ session' \in Session
    <2>1. Append(session.work, s) \in Seq(Stmts) /\ session \in Session
      BY <1>1 DEF Types
    <2> QED BY <2>1 DEF Session
  <1>4. /\ tx' \in Tx /\ tx'.pc = "ready" /\ tx'.stmts = <<>>
        /\ tx'.left = <<>> /\ tx'.queued = <<>>
    <2>1. tx.left = <<>> /\ tx.queued = <<>> /\ <<>> \in Seq(Sql)
      BY <1>1 DEF Placed
    <2> QED BY <1>1, <2>1 DEF Tx
  <1>5. due \in Seq(Sql) /\ done \in Seq(Sql) /\ Len(done) \in Nat /\ Len(due) \in Nat
    BY <1>1 DEF Types
  <1>6. done' \in Seq(Sql) /\ due' \in Seq(Sql) /\ Len(done') = Len(done) + Len(due) /\ Len(due') = 0
    BY <1>5
  <1>7. Len(session'.work) = Len(session.work) + 1 /\ Len(session.work) = Len(done) + Ran
    <2>1. Len(session.work) \in Nat /\ Len(session'.work) = Len(session.work) + 1
      BY <1>1, <1>3
    <2> QED BY <1>2, <1>5, <2>1 DEF Ran
  <1>8. Ran' = 0
    BY <1>2, <1>5, <1>6, <1>7 DEF Ran
  <1>9. Types'
    BY <1>1, <1>3, <1>4, <1>6 DEF Types
  <1>10. Placed'
    BY <1>4, <1>8 DEF Placed
  <1>11. WorkLeft'
    <2>1. Len(due') = Ran' + 0 + 0 + 0
      BY <1>6, <1>8
    <2> QED BY <1>4, <2>1 DEF WorkLeft
  <1>12. WorkDone'
    <2>1. ASSUME NEW i \in 1..Len(done') PROVE session'.work[i] = done'[i]
      <3>1. CASE i \in 1..Len(done)
        <4>1. session'.work[i] = session.work[i]
          BY <1>1, <1>2, <1>3, <1>5, <1>7, <3>1
        <4>2. done'[i] = done[i]
          BY <1>5, <3>1
        <4> QED BY <1>1, <3>1, <4>1, <4>2 DEF WorkDone
      <3>2. CASE i \notin 1..Len(done)
        <4> DEFINE k == i - Len(done)
        <4>1. k \in 1..Len(due) /\ i = Len(done) + k
          BY <1>5, <1>6, <3>2
        <4>2. done'[i] = due[k]
          BY <1>5, <4>1
        <4>3. CASE k = Ran + 1
          <5>1. i = Len(session.work) + 1
            BY <1>2, <1>5, <1>7, <4>1, <4>3
          <5>2. session'.work[i] = s
            BY <1>1, <1>3, <5>1
          <5> QED BY <1>2, <4>2, <4>3, <5>2
        <4>4. CASE k # Ran + 1
          <5>1. k \in 1..Ran /\ i \in 1..Len(session.work)
            BY <1>2, <1>5, <1>7, <4>1, <4>4
          <5>2. session'.work[i] = session.work[i]
            BY <1>1, <1>3, <5>1
          <5>3. session.work[Len(done) + k] = due[k]
            BY <1>1, <5>1 DEF WorkDone
          <5> QED BY <4>1, <4>2, <5>2, <5>3
        <4> QED BY <4>3, <4>4
      <3> QED BY <3>1, <3>2
    <2>2. session'.state = "open" /\ session'.durable = <<>>
      BY <1>1, <1>3 DEF WorkDone
    <2>3. Ran' \in 0..Len(due')
      BY <1>6, <1>8
    <2>4. 1..Ran' = {}
      BY <1>8
    <2> QED BY <2>1, <2>2, <2>3, <2>4 DEF WorkDone
  <1> QED BY <1>3, <1>9, <1>10, <1>11, <1>12 DEF SqlxInv

LEMMA RunStep ==
    ASSUME SqlxInv, RunStatement
    PROVE  SqlxInv' /\ Step
  <1>1. Types /\ Placed /\ WorkDone /\ WorkLeft /\ tx.pc = "run"
    BY DEF SqlxInv, Opened, RunStatement
  <1>2. PICK s : s = Head(tx.stmts)
    OBVIOUS
  <1>3. Hand(s)
    BY <1>1, <1>2 DEF Hand
  <1>4. /\ s \in Sql /\ s # Begin /\ Ran \in Nat
        /\ s = Commit => Len(tx.stmts) = 1
        /\ Len(tx.stmts) > 1 => s \in Stmts
    BY <1>1, <1>3, InHand
  <1>5. CASE Outcome(session, s, fault) # "ok"
    <2>1. FailWith(s, FALSE)
      BY <1>2, <1>5 DEF RunStatement
    <2>2. FailWith(s, tx.pc = "flush")
      BY <1>1, <2>1 DEF FailWith
    <2> QED BY <1>1, <1>3, <1>5, <2>2, FailStep
  <1>6. ASSUME Outcome(session, s, fault) = "ok", Len(tx.stmts) > 1
        PROVE  SqlxInv' /\ Step
    <2>1. /\ session' = After(session, s, fault)
          /\ tx' = [tx EXCEPT !.stmts = Tail(tx.stmts)]
          /\ UNCHANGED <<fault, due, queuedDue, done, reply>>
      <3> DEFINE n == Len(tx.stmts)
      <3>1. n > 1 /\ n \in Nat
        BY <1>1, <1>6 DEF Types, Tx
      <3>2. n # 1
        <4> HIDE DEF n
        <4> QED BY <3>1
      <3> QED BY <1>2, <1>6, <3>2 DEF RunStatement
    <2>2. s \in Stmts /\ fault[s] = "none" /\ session' = [session EXCEPT !.work = Append(session.work, s)]
      BY <1>1, <1>4, <1>6, <2>1, OutcomeOpen DEF Types, WorkDone
    <2>3. WorkDone' /\ Ran' = Ran + 1 /\ session' \in Session /\ session'.durable = session.durable
      BY <1>1, <1>3, <2>1, <2>2, OneMore
    <2>4. /\ tx.stmts \in Seq(Sql) /\ tx.stmts # <<>> /\ tx.queued = <<>> /\ tx.left = <<>>
          /\ tx \in Tx /\ queuedDue \in Nat /\ queuedDue <= Ran
          /\ \A i \in 1..(Len(tx.stmts) - 1) : tx.stmts[i] \in Stmts
          /\ tx.stmts[Len(tx.stmts)] # Begin
      BY <1>1 DEF Types, Tx, Placed
    <2> DEFINE q == tx.stmts
    <2>5. /\ Tail(q) \in Seq(Sql) /\ Len(Tail(q)) = Len(q) - 1
          /\ \A i \in 1..Len(Tail(q)) : Tail(q)[i] = q[i + 1]
          /\ Len(q) \in Nat /\ Len(q) > 1
      BY <1>6, <2>4, TailShift
    <2>6. /\ tx' \in Tx /\ tx'.pc = "run" /\ tx'.stmts = Tail(q)
          /\ tx'.queued = <<>> /\ tx'.left = <<>>
      BY <1>1, <2>1, <2>4, <2>5 DEF Tx
    <2>7. Types'
      BY <1>1, <2>1, <2>3, <2>6 DEF Types
    <2>8. /\ Tail(q) # <<>>
          /\ \A i \in 1..(Len(Tail(q)) - 1) : Tail(q)[i] \in Stmts
          /\ Tail(q)[Len(Tail(q))] # Begin
      <3>1. /\ q \in Seq(Sql) /\ \A i \in 1..(Len(q) - 1) : q[i] \in Stmts
            /\ q[Len(q)] # Begin
        BY <2>4
      <3> HIDE DEF q
      <3>2. Tail(q) # <<>>
        <4>1. Len(Tail(q)) # 0 /\ Len(<<>>) = 0
          BY <2>5, SMTT(30)
        <4> QED BY <4>1
      <3>3. ASSUME NEW i \in 1..(Len(Tail(q)) - 1) PROVE Tail(q)[i] \in Stmts
        <4>1. i \in 1..Len(Tail(q)) /\ i + 1 \in 1..(Len(q) - 1)
          BY <2>5
        <4> QED BY <2>5, <3>1, <4>1
      <3>4. Tail(q)[Len(Tail(q))] = q[Len(q)]
        <4>1. Len(Tail(q)) \in 1..Len(Tail(q)) /\ Len(Tail(q)) + 1 = Len(q)
          BY <2>5
        <4> QED BY <2>5, <4>1
      <3> QED BY <3>1, <3>2, <3>3, <3>4
    <2>9. Placed'
      <3>1. queuedDue' <= Ran'
        BY <1>4, <2>1, <2>3, <2>4
      <3> QED BY <2>6, <2>8, <3>1 DEF Placed
    <2>10. WorkLeft'
      <3>1. /\ Len(due) = Ran + 0 + 0 + Len(q)
            /\ \A i \in 1..Len(q) : due[Ran + 0 + i] = q[i]
        BY <1>1, <2>4 DEF WorkLeft
      <3>2. /\ Len(due) = Ran' + 0 + 0 + Len(Tail(q))
            /\ \A i \in 1..Len(Tail(q)) : due[Ran' + 0 + i] = Tail(q)[i]
        <4> HIDE DEF q
        <4>1. Len(due) = Ran' + 0 + 0 + Len(Tail(q))
          BY <1>4, <2>3, <2>5, <3>1
        <4>2. ASSUME NEW i \in 1..Len(Tail(q)) PROVE due[Ran' + 0 + i] = Tail(q)[i]
          <5>1. i + 1 \in 1..Len(q) /\ Ran' + 0 + i = Ran + 0 + (i + 1)
            BY <1>4, <2>3, <2>5
          <5> QED BY <2>5, <3>1, <5>1
        <4> QED BY <4>1, <4>2
      <3> QED BY <2>1, <2>6, <3>2 DEF WorkLeft
    <2>11. UNCHANGED Contract!cvars
      BY <1>1, <2>1, <2>3, <2>6 DEF Contract!cvars, Phase
    <2> QED BY <2>3, <2>7, <2>9, <2>10, <2>11 DEF SqlxInv, Step
  <1>7. ASSUME Outcome(session, s, fault) = "ok", ~(Len(tx.stmts) > 1)
        PROVE  SqlxInv' /\ Step
    <2>1. /\ session' = After(session, s, fault)
          /\ Len(tx.stmts) = 1
          /\ tx' = [tx EXCEPT !.pc = IF s = Commit THEN "over" ELSE "ready", !.stmts = <<>>]
          /\ due' = <<>> /\ done' = done \o due /\ reply' = Ok
          /\ UNCHANGED <<fault, queuedDue>>
      BY <1>2, <1>7 DEF RunStatement
    <2>2. fault[s] = "none"
      BY <1>1, <1>4, <1>7, OutcomeOpen DEF Types, WorkDone
    <2>3. Contract!Succeeds(due) /\ (Contract!EndsTransaction(due) <=> s = Commit)
      BY <1>1, <1>3, <2>1, <2>2, AllSucceed
    <2>4. Contract!Ok = Ok /\ tx \in Tx /\ Phase = "busy"
      <3>1. Contract!Ok = Ok
        BY DEF Contract!Ok, Ok
      <3> QED BY <1>1, <3>1 DEF Types, Phase
    <2>5. CASE s = Commit
      <3>1. /\ session' \in Session
            /\ session'.durable = Contract!Statements(done \o due)
        <4>1. session' = [session EXCEPT !.state = "idle", !.work = <<>>,
                                         !.durable = session.durable \o session.work]
          BY <1>1, <1>4, <2>1, <2>2, <2>5, OutcomeOpen DEF Types, WorkDone
        <4>2. session.durable \o session.work = Contract!Statements(done \o due)
          BY <1>1, <1>3, <2>1, Committed
        <4>3. session' \in Session
          BY <1>1, <1>4, <2>1, OutcomeOpen DEF Types, WorkDone
        <4> QED BY <1>1, <4>1, <4>2, <4>3 DEF Types, Session
      <3>2. tx' \in Tx /\ tx'.pc = "over"
        <4>1. <<>> \in Seq(Sql)
          OBVIOUS
        <4> QED BY <2>1, <2>4, <2>5, <4>1 DEF Tx
      <3>3. Types'
        <4>1. due' \in Seq(Sql) /\ done' \in Seq(Sql)
          BY <1>1, <2>1 DEF Types
        <4> QED BY <1>1, <2>1, <3>1, <3>2, <4>1 DEF Types
      <3>4. Placed' /\ ~Opened'
        BY <3>2 DEF Placed, Opened
      <3>5. Contract!AnswerOk
        <4>1. Phase' = "ended"
          BY <3>2 DEF Phase
        <4> QED BY <2>1, <2>3, <2>4, <2>5, <3>1, <4>1 DEF Contract!AnswerOk
      <3> QED BY <3>3, <3>4, <3>5 DEF SqlxInv, Step, Contract!CNext
    <2>6. CASE s # Commit
      <3>1. s \in Stmts /\ session' = [session EXCEPT !.work = Append(session.work, s)]
        <4>1. s \in Stmts
          BY <1>4, <2>6 DEF Sql
        <4> QED BY <1>1, <1>4, <2>1, <2>2, <4>1, OutcomeOpen DEF Types, WorkDone
      <3>2. tx' = [tx EXCEPT !.pc = "ready", !.stmts = <<>>]
        BY <2>1, <2>6
      <3>3. SqlxInv' /\ session'.durable = session.durable
        BY <1>1, <1>3, <2>1, <2>2, <3>1, <3>2, LastAnswered
      <3>4. Phase' = "idle"
        BY <2>4, <3>2 DEF Phase, Tx
      <3>5. Contract!AnswerOk
        BY <2>1, <2>3, <2>4, <2>6, <3>3, <3>4 DEF Contract!AnswerOk
      <3> QED BY <3>3, <3>5 DEF Step, Contract!CNext
    <2> QED BY <2>5, <2>6
  <1> QED BY <1>5, <1>6, <1>7

LEMMA DropStep ==
    ASSUME SqlxInv, DropTx
    PROVE  SqlxInv' /\ Step
  <1>1. /\ Types /\ tx \in Tx /\ session \in Session /\ tx.pc \in {"ready", "over"}
        /\ tx' = [tx EXCEPT !.pc = "over"] /\ session' = RolledBack(session)
        /\ UNCHANGED <<fault, due, queuedDue, done, reply>>
    BY DEF SqlxInv, Types, DropTx
  <1>2. tx' \in Tx /\ tx'.pc = "over"
    BY <1>1 DEF Tx
  <1>3. session' \in Session /\ session'.durable = session.durable
    <2>1. <<>> \in Seq(Stmts)
      OBVIOUS
    <2> QED BY <1>1, <2>1 DEF RolledBack, Session
  <1>4. Types' /\ Placed' /\ ~Opened'
    BY <1>1, <1>2, <1>3 DEF Types, Placed, Opened
  <1>5. CASE tx.pc = "ready"
    <2>1. Phase = "idle" /\ Phase' = "ended"
      BY <1>2, <1>5 DEF Phase
    <2>2. Contract!Drop
      BY <1>1, <1>3, <2>1 DEF Contract!Drop
    <2> QED BY <1>4, <2>2 DEF SqlxInv, Step, Contract!CNext
  <1>6. CASE tx.pc = "over"
    <2>1. UNCHANGED Contract!cvars
      BY <1>1, <1>2, <1>3, <1>6 DEF Contract!cvars, Phase
    <2> QED BY <1>4, <2>1 DEF SqlxInv, Step
  <1> QED BY <1>1, <1>5, <1>6

LEMMA BreakStep ==
    ASSUME SqlxInv, ConnectionBreaks
    PROVE  SqlxInv' /\ Step
  <1>1. /\ Types /\ Placed /\ WorkDone /\ tx \in Tx /\ session \in Session /\ tx.pc \in {"flush", "run"}
        /\ session.state = "open" /\ session.durable = <<>>
    BY DEF SqlxInv, Types, Opened, WorkDone, ConnectionBreaks
  <1>2. PICK s : s = (IF tx.pc = "run" THEN Head(tx.stmts)
                      ELSE IF tx.left # <<>> THEN Head(tx.left) ELSE Begin)
    OBVIOUS
  <1>3. /\ session' = Closed(session) \/ session' = Closed(After(session, s, fault))
        /\ tx' = [tx EXCEPT !.pc = "over", !.left = <<>>]
        /\ reply' \in {reply, ConnectionFailed}
        /\ UNCHANGED <<fault, due, queuedDue, done>>
    BY <1>2 DEF ConnectionBreaks
  <1>4. tx' \in Tx /\ tx'.pc = "over"
    <2>1. <<>> \in Seq(Stmts)
      OBVIOUS
    <2> QED BY <1>1, <1>3, <2>1 DEF Tx
  <1>5. \/ s = Begin
        \/ Hand(s)
    BY <1>1, <1>2 DEF Hand
  <1>6. \A se \in Session : Closed(se) \in Session /\ Closed(se).durable = se.durable
    <2>1. <<>> \in Seq(Stmts)
      OBVIOUS
    <2> QED BY <2>1 DEF Closed, Session
  <1>7. /\ After(session, s, fault) \in Session
        /\ \/ After(session, s, fault).durable = session.durable
           \/ /\ Contract!Succeeds(due) /\ Contract!EndsTransaction(due)
              /\ After(session, s, fault).durable = Contract!Statements(done \o due)
    <2>1. CASE s = Begin
      BY <1>1, <2>1, StatementAssumption DEF After
    <2>2. CASE Hand(s)
      <3>1. /\ s \in Sql /\ s # Begin
            /\ s = Commit => tx.pc = "run" /\ Len(tx.stmts) = 1
        BY <1>1, <2>2, InHand
      <3>2. After(session, s, fault) \in Session
        BY <1>1, <3>1, OutcomeOpen DEF Types
      <3>3. CASE s = Commit /\ fault[s] = "none"
        <4>1. Contract!Succeeds(due) /\ Contract!EndsTransaction(due)
          BY <2>2, <3>1, <3>3, AllSucceed
        <4>2. After(session, s, fault) =
                 [session EXCEPT !.state = "idle", !.work = <<>>,
                                 !.durable = session.durable \o session.work]
          BY <1>1, <3>1, <3>3, OutcomeOpen DEF Types
        <4>3. session.durable \o session.work = Contract!Statements(done \o due)
          BY <2>2, <3>1, <3>3, Committed
        <4>4. After(session, s, fault).durable = Contract!Statements(done \o due)
          BY <1>1, <4>2, <4>3 DEF Session
        <4> QED BY <3>2, <4>1, <4>4
      <3>4. CASE ~(s = Commit /\ fault[s] = "none")
        BY <1>1, <3>1, <3>2, <3>4, OutcomeOpen DEF Types
      <3> QED BY <3>3, <3>4
    <2> QED BY <1>5, <2>1, <2>2
  <1>8. /\ session' \in Session
        /\ \/ session'.durable = session.durable
           \/ /\ Contract!Succeeds(due) /\ Contract!EndsTransaction(due)
              /\ session'.durable = Contract!Statements(done \o due)
    BY <1>1, <1>3, <1>6, <1>7
  <1>9. Types' /\ Placed' /\ ~Opened'
    BY <1>1, <1>3, <1>4, <1>8 DEF Types, Placed, Opened
  <1>10. Contract!AnswerConnection
    <2>1. Phase = "busy" /\ Phase' = "ended"
      BY <1>1, <1>4 DEF Phase
    <2>2. Contract!ConnectionFailed = ConnectionFailed
      BY DEF Contract!ConnectionFailed, ConnectionFailed
    <2> QED BY <1>3, <1>8, <2>1, <2>2 DEF Contract!AnswerConnection
  <1> QED BY <1>9, <1>10 DEF SqlxInv, Step, Contract!CNext

\* A failure that passes leaves what succeeded as it is.
LEMMA PassStep ==
    ASSUME SqlxInv, NEW s \in Stmts, FaultPasses(s)
    PROVE  SqlxInv' /\ Step
  <1>1. /\ fault[s] = "exec" /\ fault' = [fault EXCEPT ![s] = "none"]
        /\ UNCHANGED <<tx, session, due, queuedDue, done, reply>>
    BY DEF FaultPasses
  <1>2. Types /\ fault \in Faults /\ s \in Sql /\ s # Begin /\ s # Commit
    BY StatementAssumption DEF SqlxInv, Types, Sql
  <1>3. fault' \in Faults
    <2>1. /\ fault \in [Sql -> {"none", "parse", "exec", "encode"}]
          /\ fault[Begin] = "none" /\ fault[Commit] \in {"none", "exec"}
          /\ Begin \in Sql /\ Commit \in Sql
      BY <1>2 DEF Faults, Sql
    <2>2. /\ fault' \in [Sql -> {"none", "parse", "exec", "encode"}]
          /\ fault'[Begin] = "none" /\ fault'[Commit] \in {"none", "exec"}
      BY <1>1, <1>2, <2>1
    <2> QED BY <2>2 DEF Faults
  <1>4. Types' /\ Placed'
    BY <1>1, <1>2, <1>3 DEF SqlxInv, Types, Placed, Ran
  <1>5. Ran' = Ran
    BY <1>1 DEF Ran
  <1>6. Opened' => WorkDone' /\ WorkLeft'
    <2> SUFFICES ASSUME Opened' PROVE WorkDone' /\ WorkLeft'
      OBVIOUS
    <2>1. WorkDone /\ WorkLeft
      BY <1>1 DEF SqlxInv, Opened
    <2>2. WorkLeft'
      BY <1>1, <1>5, <2>1 DEF WorkLeft
    <2>3. ASSUME NEW i \in 1..Ran PROVE fault'[due[i]] = "none"
      <3>1. fault[due[i]] = "none" /\ due[i] \in Sql
        BY <1>2, <2>1 DEF WorkDone, Types
      <3> QED BY <1>1, <1>2, <3>1 DEF Faults
    <2> QED BY <1>1, <1>5, <2>1, <2>2, <2>3 DEF WorkDone
  <1>7. Contract!FaultPasses
    BY <1>1 DEF Contract!FaultPasses, Phase
  <1> QED BY <1>4, <1>6, <1>7 DEF SqlxInv, Step, Contract!CNext

-----------------------------------------------------------------------------

LEMMA NextStep == SqlxInv /\ [Next]_vars => SqlxInv' /\ [Contract!CNext]_Contract!cvars
  <1> SUFFICES ASSUME SqlxInv, [Next]_vars PROVE SqlxInv' /\ Step
    BY DEF Step
  <1>1. CASE Next
    BY <1>1, BeginStep, DropStep, QueueStep, CallStep, FlushStep, FlushedStep, RunStep, BreakStep, PassStep
       DEF Next
  <1>2. CASE UNCHANGED vars
    <2>1. UNCHANGED <<fault, tx, session, due, queuedDue, done, reply>>
      BY <1>2 DEF vars
    <2>2. SqlxInv'
      BY <2>1 DEF SqlxInv, Types, Placed, Opened, WorkDone, WorkLeft, Ran
    <2>3. UNCHANGED Contract!cvars
      BY <2>1 DEF Contract!cvars, Phase
    <2> QED BY <2>2, <2>3 DEF Step
  <1> QED BY <1>1, <1>2

\* sqlx_impl.rs, "the two must answer every request alike": for any statements,
\* any faults that may pass while it runs, and a connection that may break
\* anywhere, a transaction of the sqlx driver answers its caller as the Tx trait
\* promises: statements in order, the first failure under its own name, nothing
\* kept after it, and committed by the call that says so.
THEOREM SqlxImplements == Spec => ImplementsContract
  <1>1. Init => SqlxInv /\ Contract!CInit
    BY InitInv
  <1>2. SqlxInv /\ [Next]_vars => SqlxInv' /\ [Contract!CNext]_Contract!cvars
    BY NextStep
  <1> QED BY <1>1, <1>2, PTL DEF Spec, ImplementsContract, Contract!CSpec

-----------------------------------------------------------------------------
(* The connection adapter: counting and iterating *)

LEMMA LessWellFounded == IsWellFoundedOn({ss \in Nat \X Nat : ss[1] < ss[2]}, Nat)
  BY NatLessThanWellFounded DEF OpToRel

\* Every nonempty set of natural numbers has a least element.
LEMMA FirstExists ==
    ASSUME NEW T, T \subseteq Nat, T # {}
    PROVE  \E x \in T : \A y \in T : x <= y
  <1> DEFINE R == {ss \in Nat \X Nat : ss[1] < ss[2]}
  <1>1. IsWellFoundedOn(R, Nat)
    BY LessWellFounded
  <1>2. PICK x \in T : \A y \in T : ~(<<y, x>> \in R)
    <2> HIDE DEF R
    <2> QED BY <1>1, WFMin
  <1>3. \A y \in T : ~(y < x)
    BY <1>2
  <1> QED BY <1>3

\* What holds of 0, and of i where it holds of i - 1, holds up to n.
LEMMA CountUp ==
    ASSUME NEW n \in Nat, NEW Good, 0 \in Good, \A i \in 1..n : i - 1 \in Good => i \in Good
    PROVE  \A i \in 0..n : i \in Good
  <1> DEFINE T == {i \in 0..n : i \notin Good}
  <1> SUFFICES ASSUME T # {} PROVE FALSE
    OBVIOUS
  <1>1. PICK m \in T : \A y \in T : m <= y
    <2>1. T \subseteq Nat
      OBVIOUS
    <2> QED BY <2>1, FirstExists
  <1>2. m \in 1..n /\ m - 1 \in 0..n /\ m - 1 < m
    OBVIOUS
  <1>3. m - 1 \in Good
    BY <1>1, <1>2
  <1> QED BY <1>2, <1>3

\* Steps that stay in a set can be taken one after the other.
Runs(S, a, F, g, k) == g \in [0..k -> S] /\ g[0] = a /\ \A i \in 1..k : g[i] = F[<<g[i - 1], i>>]

LEMMA RunsOn ==
    ASSUME NEW n \in Nat, NEW S, NEW a \in S, NEW F \in [S \X (1..n) -> S],
           NEW k \in 1..n, NEW g, Runs(S, a, F, g, k - 1)
    PROVE  \E h : Runs(S, a, F, h, k)
  <1> DEFINE h == [i \in 0..k |-> IF i = k THEN F[<<g[k - 1], k>>] ELSE g[i]]
  <1>1. k - 1 \in 0..(k - 1) /\ k \in Nat
    OBVIOUS
  <1>2. g \in [0..(k - 1) -> S] /\ g[0] = a
    BY DEF Runs
  <1>3. F[<<g[k - 1], k>>] \in S
    <2>1. <<g[k - 1], k>> \in S \X (1..n)
      BY <1>1, <1>2
    <2> QED BY <2>1
  <1>4. \A i \in 0..k : h[i] \in S
    <2> SUFFICES ASSUME NEW i \in 0..k PROVE h[i] \in S
      OBVIOUS
    <2>1. CASE i = k
      BY <1>3, <2>1
    <2>2. CASE i # k
      <3>1. i \in 0..(k - 1)
        BY <2>2
      <3> QED BY <1>2, <2>2, <3>1
    <2> QED BY <2>1, <2>2
  <1>5. h \in [0..k -> S]
    BY <1>4
  <1>6. h[0] = a
    BY <1>1, <1>2
  <1>7. ASSUME NEW i \in 1..k PROVE h[i] = F[<<h[i - 1], i>>]
    <2>0. i \in 0..k /\ i - 1 \in 0..k /\ i - 1 # k /\ i - 1 \in 0..(k - 1)
      OBVIOUS
    <2>1. h[i - 1] = g[i - 1]
      BY <2>0
    <2>2. CASE i = k
      <3>1. h[i] = F[<<g[k - 1], k>>]
        BY <2>0, <2>2
      <3> HIDE DEF h
      <3> QED BY <2>1, <2>2, <3>1
    <2>3. CASE i # k
      <3>1. i \in 1..(k - 1) /\ h[i] = g[i]
        BY <2>0, <2>3
      <3> HIDE DEF h
      <3> QED BY <2>1, <3>1 DEF Runs
    <2> QED BY <2>2, <2>3
  <1> HIDE DEF h
  <1>8. Runs(S, a, F, h, k)
    BY <1>5, <1>6, <1>7 DEF Runs
  <1> QED BY <1>8

LEMMA Iterates ==
    ASSUME NEW n \in Nat, NEW S, NEW a \in S, NEW F \in [S \X (1..n) -> S]
    PROVE  \E g : Runs(S, a, F, g, n)
  <1> DEFINE Good == {k \in 0..n : \E g : Runs(S, a, F, g, k)}
  <1>1. 0 \in Good
    <2> DEFINE g == [i \in 0..0 |-> a]
    <2>1. g \in [0..0 -> S] /\ g[0] = a /\ 0 \in 0..n
      OBVIOUS
    <2>2. \A i \in 1..0 : FALSE
      OBVIOUS
    <2> HIDE DEF g
    <2>3. Runs(S, a, F, g, 0)
      BY <2>1, <2>2 DEF Runs
    <2> QED BY <2>1, <2>3
  <1>2. ASSUME NEW k \in 1..n, k - 1 \in Good PROVE k \in Good
    <2>1. PICK g : Runs(S, a, F, g, k - 1)
      BY <1>2
    <2>2. k \in 0..n
      OBVIOUS
    <2> QED BY <2>1, <2>2, RunsOn
  <1>3. n \in 0..n
    OBVIOUS
  <1>4. n \in Good
    <2> HIDE DEF Good
    <2> QED BY <1>1, <1>2, <1>3, CountUp
  <1> QED BY <1>4

-----------------------------------------------------------------------------
(* What is one after the other *)

LEMMA Regroup ==
    ASSUME NEW S
    PROVE  \A x, y, z \in Seq(S) : (x \o y) \o z = x \o (y \o z)
  BY ConcatAssociative

LEMMA CutAt ==
    ASSUME NEW S, NEW s \in Seq(S), NEW n \in 0..Len(s)
    PROVE  /\ s = SubSeq(s, 1, n) \o SubSeq(s, n + 1, Len(s))
           /\ SubSeq(s, 1, n) \in Seq(S) /\ SubSeq(s, n + 1, Len(s)) \in Seq(S)
           /\ Len(SubSeq(s, 1, n)) = n /\ Len(SubSeq(s, n + 1, Len(s))) = Len(s) - n
  <1>1. 1 \in 1..(Len(s) + 1) /\ n \in (1 - 1)..Len(s) /\ Len(s) \in n..Len(s)
    OBVIOUS
  <1>2. SubSeq(s, 1, n) \o SubSeq(s, n + 1, Len(s)) = SubSeq(s, 1, Len(s))
    BY <1>1, ConcatAdjacentSubSeq
  <1>3. SubSeq(s, 1, Len(s)) = s
    BY SubSeqFull
  <1>4. /\ SubSeq(s, 1, n) \in Seq(S) /\ SubSeq(s, n + 1, Len(s)) \in Seq(S)
        /\ Len(SubSeq(s, 1, n)) = n /\ Len(SubSeq(s, n + 1, Len(s))) = Len(s) - n
    BY SubSeqProperties
  <1> QED BY <1>2, <1>3, <1>4

\* g has, for every i, the first i of seqs one after the other.
Follows(seqs, g) == g[0] = <<>> /\ \A i \in 1..Len(seqs) : g[i] = g[i - 1] \o seqs[i]
Joins(S, seqs, g) == g \in [0..Len(seqs) -> Seq(S)] /\ Follows(seqs, g)

LEMMA JoinsExist ==
    ASSUME NEW S, NEW seqs \in Seq(Seq(S))
    PROVE  \E g : Joins(S, seqs, g)
  <1> DEFINE n == Len(seqs)
             T == Seq(S)
             F == [p \in T \X (1..n) |-> p[1] \o seqs[p[2]]]
  <1>1. n \in Nat /\ <<>> \in T /\ \A i \in 1..n : seqs[i] \in T
    OBVIOUS
  <1>2. F \in [T \X (1..n) -> T]
    <2>1. ASSUME NEW p \in T \X (1..n) PROVE p[1] \o seqs[p[2]] \in T
      BY <1>1
    <2> HIDE DEF T, n
    <2> QED BY <2>1
  <1>3. PICK g : Runs(T, <<>>, F, g, n)
    <2> HIDE DEF F, T, n
    <2> QED BY <1>1, <1>2, Iterates
  <1>4. g \in [0..n -> T] /\ g[0] = <<>> /\ \A i \in 1..n : g[i] = F[<<g[i - 1], i>>]
    BY <1>3 DEF Runs
  <1>5. \A i \in 1..n : g[i] = g[i - 1] \o seqs[i]
    <2> SUFFICES ASSUME NEW i \in 1..n PROVE g[i] = g[i - 1] \o seqs[i]
      OBVIOUS
    <2>1. i - 1 \in 0..n
      BY <1>1
    <2>2. g[i - 1] \in T
      <3> HIDE DEF T, n
      <3> QED BY <1>4, <2>1
    <2>3. <<g[i - 1], i>> \in T \X (1..n)
      <3> HIDE DEF T, n
      <3> QED BY <2>2
    <2>4. F[<<g[i - 1], i>>] = g[i - 1] \o seqs[i]
      <3> HIDE DEF T, n
      <3> QED BY <2>3
    <2> HIDE DEF F
    <2> QED BY <1>4, <2>4
  <1> QED BY <1>4, <1>5 DEF Joins, Follows

LEMMA JoinsOnce ==
    ASSUME NEW S, NEW seqs \in Seq(Seq(S)), NEW g, Joins(S, seqs, g),
           NEW h, Follows(seqs, h)
    PROVE  \A i \in 0..Len(seqs) : h[i] = g[i]
  <1> DEFINE Good == {i \in 0..Len(seqs) : h[i] = g[i]}
  <1>1. Len(seqs) \in Nat /\ 0 \in Good
    BY DEF Joins, Follows
  <1>2. ASSUME NEW i \in 1..Len(seqs), i - 1 \in Good PROVE i \in Good
    <2>1. i \in 0..Len(seqs) /\ h[i - 1] = g[i - 1]
      BY <1>2
    <2>2. h[i] = h[i - 1] \o seqs[i] /\ g[i] = g[i - 1] \o seqs[i]
      BY Zenon DEF Joins, Follows
    <2> QED BY <2>1, <2>2, Zenon
  <1>3. \A i \in 0..Len(seqs) : i \in Good
    <2> HIDE DEF Good
    <2> QED BY <1>1, <1>2, CountUp
  <1> QED BY <1>3

LEMMA FlatJoins ==
    ASSUME NEW S, NEW seqs \in Seq(Seq(S)), NEW g, Joins(S, seqs, g)
    PROVE  Flat(seqs) = g[Len(seqs)]
  <1> DEFINE upTo == CHOOSE f : f = [i \in 0..Len(seqs) |-> IF i = 0 THEN <<>> ELSE f[i - 1] \o seqs[i]]
  <1>1. Len(seqs) \in Nat
    OBVIOUS
  <1>2. g = [i \in 0..Len(seqs) |-> IF i = 0 THEN <<>> ELSE g[i - 1] \o seqs[i]]
    <2>1. ASSUME NEW i \in 0..Len(seqs) PROVE g[i] = IF i = 0 THEN <<>> ELSE g[i - 1] \o seqs[i]
      <3>1. i # 0 => i \in 1..Len(seqs)
        BY <1>1
      <3> QED BY <3>1, Zenon DEF Joins, Follows
    <2>2. g = [i \in 0..Len(seqs) |-> g[i]]
      BY DEF Joins, Follows
    <2> QED BY <2>1, <2>2
  <1>3. upTo = [i \in 0..Len(seqs) |-> IF i = 0 THEN <<>> ELSE upTo[i - 1] \o seqs[i]]
    BY <1>2
  <1>4. Flat(seqs) = upTo[Len(seqs)]
    BY DEF Flat
  <1> HIDE DEF upTo
  <1>5. upTo[0] = <<>> /\ \A i \in 1..Len(seqs) : upTo[i] = upTo[i - 1] \o seqs[i]
    <2>1. 0 \in 0..Len(seqs) /\ \A i \in 1..Len(seqs) : i \in 0..Len(seqs) /\ i # 0
      BY <1>1
    <2> QED BY <1>3, <2>1, Zenon
  <1>6. Len(seqs) \in 0..Len(seqs)
    BY <1>1
  <1>8. Follows(seqs, upTo)
    BY <1>5, Zenon DEF Follows
  <1>7. \A i \in 0..Len(seqs) : upTo[i] = g[i]
    BY <1>8, JoinsOnce
  <1> QED BY <1>4, <1>6, <1>7, Zenon

LEMMA FlatNone == Flat(<<>>) = <<>>
  <1>1. <<>> \in Seq(Seq({})) /\ Len(<<>>) = 0
    OBVIOUS
  <1>2. PICK g : Joins({}, <<>>, g)
    BY <1>1, JoinsExist, Zenon
  <1>3. Flat(<<>>) = g[Len(<<>>)] /\ g[0] = <<>>
    BY <1>1, <1>2, FlatJoins, Zenon DEF Joins, Follows
  <1> QED BY <1>1, <1>3, Zenon

LEMMA FlatLast ==
    ASSUME NEW S, NEW seqs \in Seq(Seq(S)), NEW s \in Seq(S)
    PROVE  Flat(Append(seqs, s)) = Flat(seqs) \o s /\ Flat(seqs) \in Seq(S)
  <1> DEFINE more == Append(seqs, s)
             n == Len(seqs)
  <1>1. /\ n \in Nat /\ more \in Seq(Seq(S)) /\ Len(more) = n + 1 /\ more[n + 1] = s
        /\ \A i \in 1..n : more[i] = seqs[i]
    OBVIOUS
  <1> HIDE DEF more
  <1>0. /\ n \in 0..n /\ n + 1 \in 1..(n + 1) /\ (n + 1) - 1 = n /\ \A i \in 1..n : i \in 1..(n + 1)
    BY <1>1
  <1> HIDE DEF n
  <1>2. PICK h : Joins(S, more, h)
    BY <1>1, JoinsExist, Zenon
  <1>3. PICK g : Joins(S, seqs, g)
    BY JoinsExist, Zenon
  <1>4. Follows(seqs, h)
    BY <1>0, <1>1, <1>2, Zenon DEF Joins, Follows, n
  <1>5. h[n] = g[n]
    BY <1>0, <1>3, <1>4, JoinsOnce DEF n
  <1>6. Flat(seqs) = g[n] /\ Flat(more) = h[n + 1]
    BY <1>1, <1>2, <1>3, FlatJoins, Zenon DEF n
  <1>7. h[n + 1] = h[n] \o s
    BY <1>0, <1>1, <1>2, Zenon DEF Joins, Follows
  <1>8. g[n] \in Seq(S)
    BY <1>0, <1>3 DEF Joins, Follows, n
  <1> QED BY <1>5, <1>6, <1>7, <1>8, Zenon DEF more

-----------------------------------------------------------------------------
(* No byte of a connection is lost *)

BytesOf(m) ==
    {m.line[i] : i \in DOMAIN m.line} \cup {m.body[i] : i \in DOMAIN m.body}
    \cup UNION {{m.headers[j].bytes[i] : i \in DOMAIN m.headers[j].bytes} : j \in DOMAIN m.headers}

\* What clients send, and what is written for it.
Bytes ==
    ({"PRI", "LF", "SM"} \cup Unsafe
     \cup UNION {UNION {BytesOf(t.messages[i]) : i \in DOMAIN t.messages} : t \in Conversations}) \ {"%<", "%#"}
Written == Bytes \cup {"%<", "%#"}

States == {"Preface", "RequestLine", "Headers", "Body", "PassThrough"}
Adapters == [state : States, line : Seq(Bytes), length : Int, upgrade : BOOLEAN, out : Seq(Written)]

\* A byte that is not part of a line is not held back.
Flush(a) == a.state \in {"PassThrough", "Body"} => a.line = <<>>
Sound(a) == a \in Adapters /\ Flush(a)

\* All that was read and not yet handed over.
Holds(a) == Undone(a.out) \o a.line

LEMMA SomeBytes ==
    /\ "%<" \notin Bytes /\ "%#" \notin Bytes /\ "<" \in Bytes /\ "#" \in Bytes
    /\ "PRI" \in Bytes /\ "LF" \in Bytes /\ "SM" \in Bytes /\ Bytes \subseteq Written
    /\ Seq(Bytes) \subseteq Seq(Written)
  <1>1. Bytes \subseteq Written
    BY DEF Written
  <1>2. Seq(Bytes) \subseteq Seq(Written)
    BY <1>1, SeqMonotonic, Zenon
  <1> QED BY <1>1, <1>2 DEF Bytes, Unsafe

Back(b) == CASE b = "%<" -> "<" [] b = "%#" -> "#" [] OTHER -> b

LEMMA BackIs ==
    /\ \A b \in Bytes : Back(b) = b
    /\ \A b \in Written : Back(b) \in Bytes
    /\ Back("%<") = "<" /\ Back("%#") = "#"
  BY SomeBytes DEF Back, Written

LEMMA UndoneIs ==
    ASSUME NEW x \in Seq(Written)
    PROVE  Undone(x) \in Seq(Bytes) /\ Len(Undone(x)) = Len(x) /\ \A i \in 1..Len(x) : Undone(x)[i] = Back(x[i])
  <1>1. Undone(x) = [i \in 1..Len(x) |-> Back(x[i])]
    BY DEF Undone, Back
  <1>2. Len(x) \in Nat /\ \A i \in 1..Len(x) : Back(x[i]) \in Bytes
    BY BackIs
  <1>3. Undone(x) \in [1..Len(x) -> Bytes]
    BY <1>1, <1>2
  <1>4. Undone(x) \in Seq(Bytes)
    BY <1>2, <1>3
  <1> QED BY <1>1, <1>2, <1>3, <1>4

LEMMA UndoneConcat ==
    ASSUME NEW x \in Seq(Written), NEW y \in Seq(Written)
    PROVE  Undone(x \o y) = Undone(x) \o Undone(y)
  <1> DEFINE z == x \o y
  <1>1. z \in Seq(Written) /\ Len(z) = Len(x) + Len(y) /\ Len(x) \in Nat /\ Len(y) \in Nat
    OBVIOUS
  <1>2. \A i \in 1..Len(z) : z[i] = IF i <= Len(x) THEN x[i] ELSE y[i - Len(x)]
    OBVIOUS
  <1> HIDE DEF z
  <1>3. /\ Undone(z) \in Seq(Bytes) /\ Len(Undone(z)) = Len(z)
        /\ \A i \in 1..Len(z) : Undone(z)[i] = Back(z[i])
    BY <1>1, UndoneIs
  <1>4. /\ Undone(x) \in Seq(Bytes) /\ Len(Undone(x)) = Len(x)
        /\ \A i \in 1..Len(x) : Undone(x)[i] = Back(x[i])
    BY UndoneIs
  <1>5. /\ Undone(y) \in Seq(Bytes) /\ Len(Undone(y)) = Len(y)
        /\ \A i \in 1..Len(y) : Undone(y)[i] = Back(y[i])
    BY UndoneIs
  <1> DEFINE u == Undone(x)  v == Undone(y)  w == Undone(z)
  <1> HIDE DEF u, v, w
  <1>6. /\ u \o v \in Seq(Bytes) /\ Len(u \o v) = Len(u) + Len(v)
        /\ \A i \in 1..(Len(u) + Len(v)) : (u \o v)[i] = IF i <= Len(u) THEN u[i] ELSE v[i - Len(u)]
    <2>1. u \in Seq(Bytes) /\ v \in Seq(Bytes)
      BY <1>4, <1>5 DEF u, v
    <2> QED BY <2>1, ConcatProperties
  <1>7. \A i \in 1..Len(z) : w[i] = (u \o v)[i]
    <2> SUFFICES ASSUME NEW i \in 1..Len(z) PROVE w[i] = (u \o v)[i]
      OBVIOUS
    <2>1. w[i] = Back(z[i])
      BY <1>3 DEF w
    <2>2. CASE i <= Len(x)
      <3>1. i \in 1..Len(x) /\ i \in 1..(Len(u) + Len(v)) /\ i <= Len(u)
        BY <1>1, <1>4, <1>5, <2>2 DEF u, v
      <3> QED BY <1>2, <1>4, <1>6, <2>1, <2>2, <3>1 DEF u
    <2>3. CASE ~(i <= Len(x))
      <3>1. i - Len(x) \in 1..Len(y) /\ i \in 1..(Len(u) + Len(v)) /\ ~(i <= Len(u)) /\ Len(u) = Len(x)
        BY <1>1, <1>4, <1>5, <2>3 DEF u, v
      <3> QED BY <1>2, <1>5, <1>6, <2>1, <2>3, <3>1 DEF v
    <2> QED BY <2>2, <2>3
  <1>8. w = u \o v
    <2>1. w \in Seq(Bytes) /\ Len(w) = Len(z) /\ Len(u \o v) = Len(z)
      BY <1>1, <1>3, <1>4, <1>5, <1>6 DEF u, v, w
    <2> QED BY <1>6, <1>7, <2>1, SeqEqual
  <1> QED BY <1>8 DEF u, v, w, z

LEMMA UndoneText ==
    ASSUME NEW x \in Seq(Bytes)
    PROVE  Undone(x) = x
  <1>1. x \in Seq(Written) /\ Len(x) \in Nat
    BY SomeBytes
  <1>2. \A i \in 1..Len(x) : Undone(x)[i] = x[i]
    BY <1>1, UndoneIs, BackIs
  <1> QED BY <1>1, <1>2, UndoneIs, SeqEqual

LEMMA NormalizedIs ==
    ASSUME NEW line \in Seq(Bytes)
    PROVE  NormalizeRequestLine(line) \in Seq(Written) /\ Undone(NormalizeRequestLine(line)) = line
  <1> DEFINE z == NormalizeRequestLine(line)
  <1>1. Len(line) \in Nat
    OBVIOUS
  <1>2. PICK target : z = [i \in 1..Len(line) |->
                             IF i \in target /\ line[i] \in Unsafe THEN Encoded(line[i]) ELSE line[i]]
    BY DEF NormalizeRequestLine
  <1> HIDE DEF z
  <1>3. ASSUME NEW i \in 1..Len(line) PROVE z[i] \in Written /\ Back(z[i]) = line[i]
    <2>1. line[i] \in Bytes
      OBVIOUS
    <2>2. z[i] = IF i \in target /\ line[i] \in Unsafe THEN Encoded(line[i]) ELSE line[i]
      BY <1>2
    <2> QED BY <2>1, <2>2, BackIs, SomeBytes DEF Encoded, Unsafe, Written
  <1>4. z \in Seq(Written) /\ Len(z) = Len(line)
    <2>1. z \in [1..Len(line) -> Written]
      BY <1>2, <1>3
    <2> QED BY <1>1, <2>1
  <1>5. Undone(z) = line
    <2>1. Undone(z) \in Seq(Bytes) /\ Len(Undone(z)) = Len(line) /\ \A i \in 1..Len(line) : Undone(z)[i] = line[i]
      BY <1>3, <1>4, UndoneIs
    <2> QED BY <2>1, SeqEqual
  <1> QED BY <1>4, <1>5 DEF z

LEMMA GiveUpHolds ==
    ASSUME NEW a \in Adapters
    PROVE  Sound(GiveUp(a)) /\ GiveUp(a).state = "PassThrough" /\ Holds(GiveUp(a)) = Holds(a)
           /\ GiveUp(a).out = a.out \o a.line
  <1>1. a.out \in Seq(Written) /\ a.line \in Seq(Bytes) /\ a.line \in Seq(Written)
    BY SomeBytes DEF Adapters
  <1> DEFINE g == GiveUp(a)
  <1>2. /\ g \in Adapters /\ g.state = "PassThrough" /\ g.line = <<>> /\ g.out = a.out \o a.line
    <2>1. a.out \o a.line \in Seq(Written)
      BY <1>1
    <2>2. <<>> \in Seq(Bytes)
      OBVIOUS
    <2> QED BY <2>1, <2>2 DEF Adapters, GiveUp, States
  <1> HIDE DEF g
  <1>3. Undone(g.out) = Undone(a.out) \o a.line
    BY <1>1, <1>2, UndoneConcat, UndoneText
  <1>4. Undone(a.out) \in Seq(Bytes)
    BY <1>1, UndoneIs
  <1>5. Undone(a.out) \o a.line \in Seq(Bytes)
    BY <1>1, <1>4
  <1>6. Holds(g) = Holds(a)
    BY <1>2, <1>3, <1>5 DEF Holds
  <1> QED BY <1>2, <1>6 DEF g, Sound, Flush

\* A line that is passed on, as it is or normalized.
LEMMA PassedOn ==
    ASSUME NEW a \in Adapters, NEW g \in Adapters, NEW e \in Seq(Written),
           Undone(e) = a.line, g.line = <<>>, g.out = a.out \o e
    PROVE  Sound(g) /\ Holds(g) = Holds(a)
  <1>1. a.out \in Seq(Written) /\ a.line \in Seq(Bytes)
    BY DEF Adapters
  <1>2. Undone(g.out) = Undone(a.out) \o a.line
    BY <1>1, UndoneConcat
  <1>3. Undone(a.out) \in Seq(Bytes)
    BY <1>1, UndoneIs
  <1>4. Undone(a.out) \o a.line \in Seq(Bytes)
    BY <1>1, <1>3
  <1> QED BY <1>2, <1>4 DEF Holds, Sound, Flush

LEMMA LengthInIs ==
    ASSUME NEW line, HeaderIs(line, "content-length"), LengthIn(line) # <<>>
    PROVE  LengthIn(line)[1] \in Nat
  <1> DEFINE value == {i \in 1..Len(line) : line[i] \notin {"SP", "CR", "LF"} /\ \E j \in Colon(line) : j < i}
  <1>1. LengthIn(line) = IF \E i \in value : value = {i} /\ line[i] \in DOMAIN Digit
                         THEN <<Digit[line[CHOOSE i \in value : TRUE]]>> ELSE <<>>
    BY DEF LengthIn
  <1> HIDE DEF value
  <1>2. PICK i \in value : value = {i} /\ line[i] \in DOMAIN Digit
    BY <1>1
  <1>3. (CHOOSE k \in value : TRUE) = i
    BY <1>2
  <1>4. LengthIn(line)[1] = Digit[line[i]]
    BY <1>1, <1>2, <1>3
  <1> QED BY <1>2, <1>4, LenientAssumption

LEMMA FinishHolds ==
    ASSUME NEW a \in Adapters, a.state \in {"RequestLine", "Headers", "Preface"}
    PROVE  Sound(FinishLine(a)) /\ Holds(FinishLine(a)) = Holds(a)
  <1> DEFINE g == FinishLine(a)
  <1>1. a.out \in Seq(Written) /\ a.line \in Seq(Bytes) /\ a.line \in Seq(Written) /\ Undone(a.line) = a.line
    BY SomeBytes, UndoneText DEF Adapters
  <1>0. <<>> \in Seq(Bytes)
    OBVIOUS
  <1>2. CASE a.state = "RequestLine"
    <2> DEFINE e == NormalizeRequestLine(a.line)
    <2>1. e \in Seq(Written) /\ Undone(e) = a.line
      BY <1>1, NormalizedIs
    <2>2. g = [state |-> "Headers", line |-> <<>>, length |-> 0, upgrade |-> FALSE, out |-> a.out \o e]
      BY <1>2 DEF FinishLine
    <2> HIDE DEF e, g
    <2>3. a.out \o e \in Seq(Written)
      BY <1>1, <2>1
    <2>4. g \in Adapters /\ g.line = <<>> /\ g.out = a.out \o e
      BY <1>0, <2>2, <2>3 DEF Adapters, States
    <2>5. Sound(g) /\ Holds(g) = Holds(a)
      BY <2>1, <2>4, PassedOn
    <2> QED BY <2>5 DEF g
  <1>3. CASE a.state # "RequestLine"
    <2>0. a.out \o a.line \in Seq(Written)
      BY <1>1
    <2>1. CASE g = HeadersEnd(a)
      <3> HIDE DEF g
      <3>1. g \in Adapters /\ g.line = <<>> /\ g.out = a.out \o a.line
        BY <1>0, <2>0, <2>1 DEF HeadersEnd, Adapters, States
      <3>2. Sound(g) /\ Holds(g) = Holds(a)
        BY <1>1, <3>1, PassedOn
      <3> QED BY <3>2 DEF g
    <2>2. CASE g = GiveUp(a)
      BY <2>2, GiveUpHolds
    <2> DEFINE length == HeaderIs(a.line, "content-length")
    <2>3. CASE /\ g = [a EXCEPT !.out = @ \o a.line, !.line = <<>>,
                        !.length = IF length THEN LengthIn(a.line)[1] ELSE @,
                        !.upgrade = @ \/ HeaderIs(a.line, "upgrade")]
               /\ ~(length /\ LengthIn(a.line) = <<>>)
      <3>1. (IF length THEN LengthIn(a.line)[1] ELSE a.length) \in Int
        BY <2>3, LengthInIs DEF Adapters
      <3>2. (a.upgrade \/ HeaderIs(a.line, "upgrade")) \in BOOLEAN
        OBVIOUS
      <3> HIDE DEF g, length
      <3>3. g \in Adapters /\ g.line = <<>> /\ g.out = a.out \o a.line
        BY <1>0, <2>0, <2>3, <3>1, <3>2 DEF Adapters
      <3>4. Sound(g) /\ Holds(g) = Holds(a)
        BY <1>1, <3>3, PassedOn
      <3> QED BY <3>4 DEF g
    <2> HIDE DEF length
    <2>4. \/ g = HeadersEnd(a)
          \/ g = GiveUp(a)
          \/ /\ g = [a EXCEPT !.out = @ \o a.line, !.line = <<>>,
                        !.length = IF length THEN LengthIn(a.line)[1] ELSE @,
                        !.upgrade = @ \/ HeaderIs(a.line, "upgrade")]
             /\ ~(length /\ LengthIn(a.line) = <<>>)
      BY <1>3 DEF FinishLine, length
    <2> QED BY <2>1, <2>2, <2>3, <2>4
  <1> QED BY <1>2, <1>3

LEMMA ByteHolds ==
    ASSUME NEW a, Sound(a), NEW b \in Bytes, a.state # "Preface"
    PROVE  Sound(Byte(a, b)) /\ Byte(a, b).state # "Preface" /\ Holds(Byte(a, b)) = Append(Holds(a), b)
  <1> DEFINE g == Byte(a, b)
  <1>1. /\ a \in Adapters /\ a.out \in Seq(Written) /\ a.line \in Seq(Bytes) /\ b \in Written
        /\ Undone(a.out) \in Seq(Bytes) /\ Append(a.line, b) \in Seq(Bytes)
        /\ Append(a.out, b) \in Seq(Written) /\ Append(a.out, b) = a.out \o <<b>> /\ <<b>> \in Seq(Bytes)
        /\ <<b>> \in Seq(Written)
    <2>1. a \in Adapters /\ a.out \in Seq(Written) /\ a.line \in Seq(Bytes) /\ b \in Written
      BY SomeBytes DEF Adapters, Sound
    <2>2. Undone(a.out) \in Seq(Bytes)
      BY <2>1, UndoneIs
    <2>3. PICK o \in Seq(Written), l \in Seq(Bytes) : o = a.out /\ l = a.line
      BY <2>1, Zenon
    <2>4. Append(o, b) \in Seq(Written) /\ Append(o, b) = o \o <<b>> /\ <<b>> \in Seq(Written)
      BY <2>1
    <2>5. Append(l, b) \in Seq(Bytes) /\ <<b>> \in Seq(Bytes)
      OBVIOUS
    <2> QED BY <2>1, <2>2, <2>3, <2>4, <2>5, Zenon
  <1>2. CASE a.state \in {"PassThrough", "Body"}
    <2>1. /\ g.state \in {"PassThrough", "Body", "RequestLine"} /\ g.line = a.line /\ g.out = Append(a.out, b)
          /\ g \in Adapters
      <3>1. CASE a.state = "PassThrough"
        <4>1. g = [a EXCEPT !.out = Append(a.out, b)]
          BY <3>1 DEF Byte
        <4> HIDE DEF g
        <4> QED BY <1>1, <3>1, <4>1 DEF Adapters, States
      <3>2. CASE a.state = "Body"
        <4> DEFINE st == IF a.length = 1 THEN "RequestLine" ELSE "Body"
        <4>1. g = [a EXCEPT !.out = Append(a.out, b), !.length = a.length - 1, !.state = st]
          BY <3>2 DEF Byte
        <4>2. st \in {"Body", "RequestLine"} /\ a.length - 1 \in Int
          BY <1>1 DEF Adapters
        <4> HIDE DEF g, st
        <4>3. g = [state |-> st, line |-> a.line, length |-> a.length - 1, upgrade |-> a.upgrade, out |-> Append(a.out, b)]
          BY <1>1, <4>1 DEF Adapters
        <4> QED BY <1>1, <3>2, <4>2, <4>3 DEF Adapters, States
      <3> QED BY <1>2, <3>1, <3>2
    <2> HIDE DEF g
    <2>2. a.line = <<>>
      BY <1>2 DEF Sound, Flush
    <2>3. Undone(g.out) = Undone(a.out) \o <<b>>
      <3>1. Undone(<<b>>) = <<b>>
        BY <1>1, UndoneText, Zenon
      <3>2. Undone(a.out \o <<b>>) = Undone(a.out) \o Undone(<<b>>)
        BY <1>1, UndoneConcat, Zenon
      <3> QED BY <1>1, <2>1, <3>1, <3>2, Zenon
    <2>4. Holds(g) = Append(Holds(a), b)
      <3>1. Undone(a.out) \o <<>> = Undone(a.out) /\ Append(Undone(a.out), b) = Undone(a.out) \o <<b>>
            /\ Undone(a.out) \o <<b>> \in Seq(Bytes)
        BY <1>1
      <3> QED BY <2>1, <2>2, <2>3, <3>1 DEF Holds
    <2> QED BY <2>1, <2>2, <2>4 DEF Sound, Flush, g
  <1>3. CASE a.state \notin {"PassThrough", "Body"}
    <2> DEFINE w == [a EXCEPT !.line = Append(@, b)]
    <2>1. w \in Adapters /\ w.state = a.state /\ w.line = Append(a.line, b) /\ w.out = a.out
      BY <1>1 DEF Adapters
    <2>2. a.state \in {"RequestLine", "Headers"}
      BY <1>1, <1>3 DEF Adapters, States
    <2>3. g = IF b = "LF" THEN FinishLine(w) ELSE w
      BY <1>3 DEF Byte
    <2> HIDE DEF w, g
    <2>4. Holds(w) = Append(Holds(a), b)
      <3> DEFINE u == Undone(a.out)
      <3>1. u \in Seq(Bytes) /\ a.line \in Seq(Bytes)
        BY <1>1
      <3> HIDE DEF u
      <3>2. u \o Append(a.line, b) = Append(u \o a.line, b)
        BY <3>1
      <3> QED BY <2>1, <3>2 DEF Holds, u
    <2>5. Sound(w)
      BY <2>1, <2>2 DEF Sound, Flush
    <2>6. Sound(FinishLine(w)) /\ Holds(FinishLine(w)) = Holds(w)
      BY <2>1, <2>2, FinishHolds
    <2>7. FinishLine(w).state # "Preface"
      BY <2>1, <2>2 DEF FinishLine, HeadersEnd, GiveUp, Adapters
    <2> QED BY <2>1, <2>2, <2>3, <2>4, <2>5, <2>6, <2>7 DEF g
  <1> QED BY <1>2, <1>3

-----------------------------------------------------------------------------
(* The bytes of one read *)

Running == {a \in Adapters : Flush(a) /\ a.state # "Preface"}

Overfull(a) == a.state \in {"RequestLine", "Headers"} /\ Len(a.line) > MaxLine

\* The adapter after each byte of a read.
Reads(a, data, g) ==
    /\ g \in [0..Len(data) -> Running] /\ g[0] = a
    /\ \A i \in 1..Len(data) : g[i] = Byte(g[i - 1], data[i])

LEMMA ReadsExist ==
    ASSUME NEW a \in Running, NEW data \in Seq(Bytes)
    PROVE  \E g : Reads(a, data, g)
  <1> DEFINE n == Len(data)
             F == [p \in Running \X (1..n) |-> Byte(p[1], data[p[2]])]
  <1>1. n \in Nat /\ \A i \in 1..n : data[i] \in Bytes
    OBVIOUS
  <1>2. F \in [Running \X (1..n) -> Running]
    <2>1. ASSUME NEW p \in Running \X (1..n) PROVE Byte(p[1], data[p[2]]) \in Running
      <3>1. Sound(p[1]) /\ p[1].state # "Preface" /\ data[p[2]] \in Bytes
        BY <1>1 DEF Running, Sound
      <3> QED BY <3>1, ByteHolds DEF Running, Sound
    <2> HIDE DEF n
    <2> QED BY <2>1
  <1>3. PICK g : Runs(Running, a, F, g, n)
    <2> HIDE DEF F, n
    <2> QED BY <1>1, <1>2, Iterates
  <1>4. g \in [0..n -> Running] /\ g[0] = a /\ \A i \in 1..n : g[i] = F[<<g[i - 1], i>>]
    BY <1>3 DEF Runs
  <1>5. \A i \in 1..n : g[i] = Byte(g[i - 1], data[i])
    <2> SUFFICES ASSUME NEW i \in 1..n PROVE g[i] = Byte(g[i - 1], data[i])
      OBVIOUS
    <2>1. i - 1 \in 0..n
      BY <1>1
    <2>2. <<g[i - 1], i>> \in Running \X (1..n)
      <3> HIDE DEF n
      <3> QED BY <1>4, <2>1
    <2>3. F[<<g[i - 1], i>>] = Byte(g[i - 1], data[i])
      <3> HIDE DEF n
      <3> QED BY <2>2
    <2> HIDE DEF F
    <2> QED BY <1>4, <2>3
  <1> QED BY <1>4, <1>5 DEF Reads

LEMMA ReadsFeed ==
    ASSUME NEW a \in Running, NEW data \in Seq(Bytes), NEW g, Reads(a, data, g)
    PROVE  Feed(a, data) = IF Overfull(g[Len(data)]) THEN GiveUp(g[Len(data)]) ELSE g[Len(data)]
  <1> DEFINE after == CHOOSE f : f = [i \in 0..Len(data) |-> IF i = 0 THEN a ELSE Byte(f[i - 1], data[i])]
             n == Len(data)
  <1>1. n \in Nat
    OBVIOUS
  <1>2. g = [i \in 0..Len(data) |-> IF i = 0 THEN a ELSE Byte(g[i - 1], data[i])]
    <2>1. ASSUME NEW i \in 0..n PROVE g[i] = IF i = 0 THEN a ELSE Byte(g[i - 1], data[i])
      <3>1. i # 0 => i \in 1..n
        BY <1>1
      <3> QED BY <3>1, Zenon DEF Reads
    <2>2. g = [i \in 0..n |-> g[i]]
      BY DEF Reads
    <2> QED BY <2>1, <2>2
  <1>3. after = [i \in 0..Len(data) |-> IF i = 0 THEN a ELSE Byte(after[i - 1], data[i])]
    BY <1>2
  <1>4. Feed(a, data) = IF Overfull(after[n]) THEN GiveUp(after[n]) ELSE after[n]
    BY DEF Feed, Overfull
  <1> HIDE DEF after
  <1> DEFINE Good == {i \in 0..n : after[i] = g[i]}
  <1>5. 0 \in Good
    <2>1. 0 \in 0..n
      BY <1>1
    <2> QED BY <1>3, <2>1, Zenon DEF Reads
  <1>6. ASSUME NEW i \in 1..n, i - 1 \in Good PROVE i \in Good
    <2>1. i \in 0..n /\ i # 0 /\ after[i - 1] = g[i - 1]
      BY <1>6
    <2>2. after[i] = Byte(after[i - 1], data[i])
      BY <1>3, <2>1, Zenon
    <2>3. g[i] = Byte(g[i - 1], data[i])
      BY Zenon DEF Reads
    <2> QED BY <2>1, <2>2, <2>3, Zenon
  <1>7. n \in 0..n
    BY <1>1
  <1>8. n \in Good
    <2> HIDE DEF Good, n
    <2> QED BY <1>1, <1>5, <1>6, <1>7, CountUp
  <1> QED BY <1>4, <1>8

LEMMA FeedHolds ==
    ASSUME NEW a \in Running, NEW data \in Seq(Bytes)
    PROVE  Feed(a, data) \in Running /\ Holds(Feed(a, data)) = Holds(a) \o data
  <1> DEFINE n == Len(data)
  <1>1. PICK g : Reads(a, data, g)
    BY ReadsExist
  <1>2. Feed(a, data) = IF Overfull(g[n]) THEN GiveUp(g[n]) ELSE g[n]
    BY <1>1, ReadsFeed
  <1>3. /\ n \in Nat /\ n \in 0..n /\ SubSeq(data, 1, 0) = <<>> /\ SubSeq(data, 1, n) = data
        /\ \A i \in 1..n : data[i] \in Bytes /\ SubSeq(data, 1, i) = Append(SubSeq(data, 1, i - 1), data[i])
                           /\ SubSeq(data, 1, i - 1) \in Seq(Bytes)
    <2>1. n \in Nat /\ n \in 0..n /\ SubSeq(data, 1, 0) = <<>> /\ SubSeq(data, 1, n) = data
      BY SubSeqEmpty, SubSeqFull
    <2>2. ASSUME NEW i \in 1..n
          PROVE  data[i] \in Bytes /\ SubSeq(data, 1, i) = Append(SubSeq(data, 1, i - 1), data[i])
                 /\ SubSeq(data, 1, i - 1) \in Seq(Bytes)
      BY <2>1
    <2> QED BY <2>1, <2>2
  <1>4. Holds(a) \in Seq(Bytes)
    BY UndoneIs DEF Holds, Running, Adapters
  <1> DEFINE Good == {i \in 0..n : Holds(g[i]) = Holds(a) \o SubSeq(data, 1, i)}
  <1>5. 0 \in Good
    BY <1>1, <1>3, <1>4 DEF Reads
  <1>6. ASSUME NEW i \in 1..n, i - 1 \in Good PROVE i \in Good
    <2>1. i \in 0..n /\ i - 1 \in 0..n /\ Holds(g[i - 1]) = Holds(a) \o SubSeq(data, 1, i - 1)
      BY <1>3, <1>6
    <2>2. Sound(g[i - 1]) /\ g[i - 1].state # "Preface" /\ g[i] = Byte(g[i - 1], data[i])
      <3>1. g[i - 1] \in Running /\ g[i] = Byte(g[i - 1], data[i])
        BY <1>1, <2>1, Zenon DEF Reads
      <3> QED BY <3>1 DEF Running, Sound
    <2>3. Holds(g[i]) = Append(Holds(a) \o SubSeq(data, 1, i - 1), data[i])
      BY <1>3, <2>1, <2>2, ByteHolds
    <2>4. PICK h \in Seq(Bytes), s \in Seq(Bytes), e \in Bytes : h = Holds(a) /\ s = SubSeq(data, 1, i - 1) /\ e = data[i]
      BY <1>3, <1>4
    <2>5. Append(h \o s, e) = h \o Append(s, e)
      <3>0. <<e>> \in Seq(Bytes)
        BY <2>4
      <3>1. PICK one \in Seq(Bytes) : one = <<e>>
        BY <3>0, Zenon
      <3>2. /\ Append(h \o s, e) = (h \o s) \o one /\ Append(s, e) = s \o one
        <4>0. h \o s \in Seq(Bytes)
          BY <2>4, ConcatProperties
        <4>1. PICK q \in Seq(Bytes) : q = h \o s
          BY <4>0, Zenon
        <4>2. Append(q, e) = q \o <<e>> /\ Append(s, e) = s \o <<e>>
          BY <2>4, AppendIsConcat
        <4> QED BY <3>1, <4>1, <4>2, Zenon
      <3>3. (h \o s) \o one = h \o (s \o one)
        BY ConcatAssociative, SMTT(30)
      <3> QED BY <3>2, <3>3, Zenon
    <2>6. SubSeq(data, 1, i) = Append(s, e)
      BY <1>3, <2>4
    <2> QED BY <2>1, <2>3, <2>4, <2>5, <2>6
  <1>7. n \in Good
    <2> HIDE DEF Good, n
    <2> QED BY <1>3, <1>5, <1>6, CountUp
  <1>8. g[n] \in Running /\ Holds(g[n]) = Holds(a) \o data
    <2>1. Holds(g[n]) = Holds(a) \o data
      BY <1>3, <1>7, Zenon
    <2> QED BY <1>1, <1>3, <2>1, Zenon DEF Reads
  <1>9. GiveUp(g[n]) \in Running /\ Holds(GiveUp(g[n])) = Holds(g[n])
    BY <1>8, GiveUpHolds DEF Running, Sound
  <1> QED BY <1>2, <1>8, <1>9

\* The HTTP/2 preface is let through; anything else is read from its start.
LEMMA ProcessHolds ==
    ASSUME NEW a, Sound(a), NEW data \in Seq(Bytes)
    PROVE  Sound(Process(a, data)) /\ Holds(Process(a, data)) = Holds(a) \o data
  <1> DEFINE held == a.line \o data
             n == IF Len(held) < Len(Preface) THEN Len(held) ELSE Len(Preface)
             new == [a EXCEPT !.state = "RequestLine", !.line = <<>>]
             more == [a EXCEPT !.line = held]
             h2 == [a EXCEPT !.line = Preface]
             u == Undone(a.out)
             rest == SubSeq(held, n + 1, Len(held))
  <1>1. a \in Adapters /\ a.line \in Seq(Bytes) /\ u \in Seq(Bytes) /\ held \in Seq(Bytes)
    BY UndoneIs DEF Sound, Adapters
  <1>2. Preface \in Seq(Bytes) /\ Len(Preface) = 3 /\ <<>> \in Seq(Bytes)
    BY SomeBytes DEF Preface
  <1>3. u \o held = Holds(a) \o data
    <2>1. PICK x \in Seq(Bytes), y \in Seq(Bytes) : x = u /\ y = a.line
      BY <1>1
    <2>2. (x \o y) \o data = x \o (y \o data)
      BY ConcatAssociative
    <2> QED BY <2>1, <2>2 DEF Holds
  <1>4. CASE a.state # "Preface"
    <2>1. Process(a, data) = Feed(a, data)
      BY <1>4 DEF Process
    <2>2. a \in Running
      BY <1>4 DEF Sound, Running
    <2> QED BY <2>1, <2>2, FeedHolds DEF Sound, Running
  <1>5. CASE a.state = "Preface" /\ SubSeq(held, 1, n) # SubSeq(Preface, 1, n)
    <2>1. Process(a, data) = Feed(new, held)
      BY <1>5 DEF Process
    <2>2. new \in Running /\ Holds(new) = u
      <3>1. new \in Adapters /\ new.state = "RequestLine" /\ new.line = <<>> /\ new.out = a.out
        BY <1>1, <1>2 DEF Adapters, States
      <3> HIDE DEF new
      <3> QED BY <1>1, <3>1 DEF Running, Flush, Holds
    <2> HIDE DEF new, held, u
    <2>3. Feed(new, held) \in Running /\ Holds(Feed(new, held)) = u \o held
      BY <1>1, <2>2, FeedHolds
    <2> QED BY <1>3, <2>1, <2>3 DEF Running, Sound
  <1>6. CASE a.state = "Preface" /\ SubSeq(held, 1, n) = SubSeq(Preface, 1, n) /\ n < Len(Preface)
    <2>1. Process(a, data) = more
      BY <1>6 DEF Process
    <2>2. more \in Adapters /\ more.state = "Preface" /\ more.line = held /\ more.out = a.out
      BY <1>1, <1>6 DEF Adapters, States
    <2> HIDE DEF more, held
    <2>3. Sound(more) /\ Holds(more) = u \o held
      BY <2>2 DEF Sound, Flush, Holds
    <2> QED BY <1>3, <2>1, <2>3
  <1>7. CASE a.state = "Preface" /\ SubSeq(held, 1, n) = SubSeq(Preface, 1, n) /\ ~(n < Len(Preface))
    <2>1. Process(a, data) = Feed(GiveUp(h2), rest)
      BY <1>7 DEF Process
    <2>2. n = 3 /\ 3 <= Len(held)
      BY <1>1, <1>2, <1>7
    <2>3. SubSeq(held, 1, 3) = Preface
      BY <1>2, <1>7, <2>2, SubSeqFull
    <2>4. rest \in Seq(Bytes) /\ held = Preface \o rest
      <3> HIDE DEF held, n
      <3>1. held = SubSeq(held, 1, 3) \o SubSeq(held, 4, Len(held)) /\ SubSeq(held, 4, Len(held)) \in Seq(Bytes)
        <4>1. 3 \in 0..Len(held)
          BY <1>1, <2>2
        <4>2. held = SubSeq(held, 1, 3) \o SubSeq(held, 3 + 1, Len(held)) /\ SubSeq(held, 3 + 1, Len(held)) \in Seq(Bytes)
          BY <1>1, <4>1, CutAt
        <4> QED BY <4>2
      <3>2. rest = SubSeq(held, 4, Len(held))
        BY <2>2
      <3> HIDE DEF rest
      <3> QED BY <2>3, <3>1, <3>2
    <2>5. h2 \in Adapters /\ h2.line = Preface /\ h2.out = a.out
      BY <1>1, <1>2 DEF Adapters
    <2> HIDE DEF h2, held, rest, u, n
    <2>6. GiveUp(h2) \in Running /\ Holds(GiveUp(h2)) = u \o Preface
      BY <2>5, GiveUpHolds DEF Running, Sound, Holds, u
    <2>7. Feed(GiveUp(h2), rest) \in Running /\ Holds(Feed(GiveUp(h2), rest)) = (u \o Preface) \o rest
      BY <2>4, <2>6, FeedHolds
    <2>8. (u \o Preface) \o rest = u \o held
      BY <1>1, <1>2, <2>4
    <2> QED BY <1>3, <2>1, <2>7, <2>8 DEF Running, Sound
  <1> QED BY <1>4, <1>5, <1>6, <1>7

-----------------------------------------------------------------------------
(* A connection *)

LEMMA FlatType ==
    ASSUME NEW S, NEW seqs \in Seq(Seq(S))
    PROVE  Flat(seqs) \in Seq(S)
  <1>1. <<>> \in Seq(S)
    OBVIOUS
  <1> QED BY <1>1, FlatLast

LEMMA TextBytes ==
    ASSUME NEW bytes, IsText(bytes), \A i \in DOMAIN bytes : bytes[i] \notin {"%<", "%#"} => bytes[i] \in Bytes
    PROVE  bytes \in Seq(Bytes)
  <1> DEFINE R == {bytes[i] : i \in DOMAIN bytes} \ {"%<", "%#"}
  <1>1. bytes \in Seq(R)
    BY DEF IsText
  <1>2. R \subseteq Bytes
    OBVIOUS
  <1> HIDE DEF R
  <1> QED BY <1>1, <1>2, SeqMonotonic

LEMMA MessageIs ==
    ASSUME NEW t \in Conversations, NEW i \in DOMAIN t.messages
    PROVE  LET m == t.messages[i]
           IN /\ m.line \in Seq(Bytes) /\ m.body \in Seq(Bytes)
              /\ Len(m.headers) \in Nat /\ DOMAIN m.headers = 1..Len(m.headers)
              /\ \A j \in 1..Len(m.headers) : m.headers[j].bytes \in Seq(Bytes)
  <1> DEFINE m == t.messages[i]
             H == {m.headers[j] : j \in DOMAIN m.headers}
  <1>1. IsMessage(m)
    BY LenientAssumption
  <1>2. \A b \in BytesOf(m) : b \notin {"%<", "%#"} => b \in Bytes
    BY DEF Bytes
  <1> HIDE DEF m
  <1>3. m.line \in Seq(Bytes)
    BY <1>1, <1>2, TextBytes DEF IsMessage, IsLine, BytesOf
  <1>4. m.body \in Seq(Bytes)
    BY <1>1, <1>2, TextBytes DEF IsMessage, IsLine, BytesOf
  <1>5. Len(m.headers) \in Nat /\ DOMAIN m.headers = 1..Len(m.headers)
    <2>1. m.headers \in Seq(H)
      BY <1>1 DEF IsMessage
    <2> HIDE DEF H
    <2> QED BY <2>1
  <1>6. ASSUME NEW j \in 1..Len(m.headers) PROVE m.headers[j].bytes \in Seq(Bytes)
    <2> DEFINE h == m.headers[j]
    <2>1. IsText(h.bytes)
      BY <1>1, <1>5 DEF IsMessage, IsLine
    <2>2. \A x \in DOMAIN h.bytes : h.bytes[x] \in BytesOf(m)
      BY <1>5 DEF BytesOf
    <2> HIDE DEF h
    <2>3. h.bytes \in Seq(Bytes)
      BY <1>2, <2>1, <2>2, TextBytes
    <2> QED BY <2>3 DEF h
  <1> QED BY <1>3, <1>4, <1>5, <1>6 DEF m

HeaderBytes(m) == Flat([i \in 1..Len(m.headers) |-> m.headers[i].bytes])

LEMMA MessageText ==
    ASSUME NEW t \in Conversations, NEW i \in DOMAIN t.messages
    PROVE  LET m == t.messages[i]
           IN /\ HeaderBytes(m) \in Seq(Bytes) /\ <<"LF">> \in Seq(Bytes)
              /\ MessageBytes(m) \in Seq(Bytes)
              /\ MessageBytes(m) = m.line \o HeaderBytes(m) \o <<"LF">> \o m.body
  <1> DEFINE m == t.messages[i]
             hs == [j \in 1..Len(m.headers) |-> m.headers[j].bytes]
  <1>1. /\ m.line \in Seq(Bytes) /\ m.body \in Seq(Bytes) /\ Len(m.headers) \in Nat
        /\ \A j \in 1..Len(m.headers) : m.headers[j].bytes \in Seq(Bytes)
    BY MessageIs
  <1> HIDE DEF m
  <1>2. hs \in Seq(Seq(Bytes))
    BY <1>1
  <1>3. HeaderBytes(m) \in Seq(Bytes)
    BY <1>2, FlatType DEF HeaderBytes
  <1>4. <<"LF">> \in Seq(Bytes)
    BY SomeBytes
  <1>5. MessageBytes(m) = m.line \o HeaderBytes(m) \o <<"LF">> \o m.body
    BY DEF MessageBytes, HeaderBytes
  <1>6. MessageBytes(m) \in Seq(Bytes)
    BY <1>1, <1>3, <1>4, <1>5
  <1> QED BY <1>3, <1>4, <1>5, <1>6 DEF m

AllMessages(t) == [i \in 1..Len(t.messages) |-> MessageBytes(t.messages[i])]
Start(t) == IF t.preface THEN Preface ELSE <<>>

LEMMA SentIs ==
    ASSUME NEW t \in Conversations
    PROVE  /\ Len(t.messages) \in Nat /\ DOMAIN t.messages = 1..Len(t.messages)
           /\ AllMessages(t) \in Seq(Seq(Bytes)) /\ Start(t) \in Seq(Bytes)
           /\ Sent(t) = Start(t) \o Flat(AllMessages(t)) /\ Sent(t) \in Seq(Bytes)
  <1>1. Len(t.messages) \in Nat /\ DOMAIN t.messages = 1..Len(t.messages)
    <2> DEFINE M == {t.messages[i] : i \in DOMAIN t.messages}
    <2>1. t.messages \in Seq(M)
      BY LenientAssumption
    <2> HIDE DEF M
    <2> QED BY <2>1
  <1>2. AllMessages(t) \in Seq(Seq(Bytes))
    <2>1. \A i \in 1..Len(t.messages) : MessageBytes(t.messages[i]) \in Seq(Bytes)
      BY <1>1, MessageText
    <2> QED BY <1>1, <2>1 DEF AllMessages
  <1>3. Start(t) \in Seq(Bytes)
    BY SomeBytes DEF Start, Preface
  <1>4. Sent(t) = Start(t) \o Flat(AllMessages(t))
    BY DEF Sent, Start, AllMessages
  <1>5. Flat(AllMessages(t)) \in Seq(Bytes)
    BY <1>2, FlatType
  <1> QED BY <1>1, <1>2, <1>3, <1>4, <1>5

LostInv ==
    /\ talk \in Conversations /\ fetched \in 0..Len(Sent(talk))
    /\ Sound(adapter) /\ handed \in Seq(Written)
    /\ NothingLostOrMoved

LEMMA InitLostInv == UriInit => LostInv
  <1> SUFFICES ASSUME UriInit PROVE LostInv
    OBVIOUS
  <1>1. Sent(talk) \in Seq(Bytes) /\ 0 \in 0..Len(Sent(talk))
    BY SentIs DEF UriInit
  <1>2. /\ adapter = NewAdapter /\ NewAdapter \in Adapters /\ NewAdapter.line = <<>> /\ NewAdapter.out = <<>>
        /\ <<>> \in Seq(Written) /\ handed = <<>>
    BY DEF UriInit, NewAdapter, Adapters, States
  <1>3. Undone(<<>>) = <<>>
    <2>1. <<>> \in Seq(Bytes)
      OBVIOUS
    <2> QED BY <2>1, UndoneText, Zenon
  <1>4. NothingLostOrMoved
    <2>1. handed \o adapter.out = <<>> /\ adapter.line = <<>>
      BY <1>2
    <2>2. SubSeq(Sent(talk), 1, fetched) = <<>>
      BY SubSeqEmpty DEF UriInit
    <2>3. <<>> \o <<>> = <<>>
      OBVIOUS
    <2> QED BY <1>3, <2>1, <2>2, <2>3, Zenon DEF NothingLostOrMoved
  <1> QED BY <1>1, <1>2, <1>4 DEF UriInit, LostInv, Sound, Flush

\* What was handed over and what the adapter holds are what was read.
LEMMA LostHolds ==
    ASSUME NEW h \in Seq(Written), NEW a \in Adapters
    PROVE  Undone(h \o a.out) \o a.line = Undone(h) \o Holds(a) /\ Holds(a) \in Seq(Bytes) /\ Undone(h) \in Seq(Bytes)
  <1>1. a.out \in Seq(Written) /\ a.line \in Seq(Bytes)
    BY DEF Adapters
  <1>2. Undone(h \o a.out) = Undone(h) \o Undone(a.out)
    BY <1>1, UndoneConcat
  <1>3. PICK x \in Seq(Bytes), y \in Seq(Bytes), z \in Seq(Bytes) : x = Undone(h) /\ y = Undone(a.out) /\ z = a.line
    BY <1>1, UndoneIs
  <1>4. (x \o y) \o z = x \o (y \o z) /\ y \o z \in Seq(Bytes)
    BY ConcatAssociative, SMTT(30)
  <1> QED BY <1>2, <1>3, <1>4 DEF Holds

\* Handing over moves bytes from the adapter to hyper and changes nothing else.
LEMMA HandedIs ==
    ASSUME LostInv, NEW n \in Nat, HandOver(n)
    PROVE  /\ handed' \o adapter'.out = handed \o adapter.out /\ handed' \in Seq(Written) /\ adapter' \in Adapters
           /\ adapter'.line = adapter.line /\ adapter'.state = adapter.state
           /\ adapter'.length = adapter.length /\ adapter'.upgrade = adapter.upgrade
  <1> DEFINE out == adapter.out
             given == SubSeq(out, 1, n)
             left == SubSeq(out, n + 1, Len(out))
  <1>1. adapter \in Adapters /\ Flush(adapter) /\ handed \in Seq(Written)
    BY DEF LostInv, Sound
  <1>2. out \in Seq(Written) /\ n \in 0..Len(out)
    BY <1>1 DEF HandOver, Adapters
  <1>3. out = given \o left /\ given \in Seq(Written) /\ left \in Seq(Written)
    BY <1>2, CutAt
  <1>4. handed' = handed \o given /\ adapter' = [adapter EXCEPT !.out = left]
    BY DEF HandOver
  <1> HIDE DEF given, left, out
  <1>5. /\ adapter' \in Adapters /\ adapter'.out = left /\ adapter'.line = adapter.line /\ adapter'.state = adapter.state
        /\ adapter'.length = adapter.length /\ adapter'.upgrade = adapter.upgrade
    BY <1>1, <1>3, <1>4 DEF Adapters
  <1>6. handed' \o adapter'.out = handed \o adapter.out
    <2>1. (handed \o given) \o left = handed \o (given \o left)
      <3>1. PICK x \in Seq(Written), y \in Seq(Written), z \in Seq(Written) : x = handed /\ y = given /\ z = left
        BY <1>1, <1>3
      <3>2. (x \o y) \o z = x \o (y \o z)
        BY ConcatAssociative
      <3> QED BY <3>1, <3>2
    <2> QED BY <1>3, <1>4, <1>5, <2>1, Zenon DEF out
  <1>7. handed' \in Seq(Written)
    BY <1>1, <1>3, <1>4
  <1> QED BY <1>5, <1>6, <1>7, Zenon

LEMMA HandLostInv ==
    ASSUME LostInv, NEW n \in Nat, HandOver(n)
    PROVE  LostInv'
  <1>1. /\ handed' \o adapter'.out = handed \o adapter.out /\ handed' \in Seq(Written) /\ adapter' \in Adapters
        /\ adapter'.line = adapter.line /\ adapter'.state = adapter.state
    BY HandedIs
  <1>2. UNCHANGED <<talk, fetched>>
    BY DEF HandOver
  <1>3. Sound(adapter)'
    BY <1>1 DEF LostInv, Sound, Flush
  <1>4. NothingLostOrMoved'
    BY <1>1, <1>2 DEF NothingLostOrMoved, LostInv
  <1> QED BY <1>1, <1>2, <1>3, <1>4 DEF LostInv

\* What one read gives.
LEMMA FetchedIs ==
    ASSUME LostInv, NEW n \in Nat, fetched + n <= Len(Sent(talk))
    PROVE  LET data == SubSeq(Sent(talk), fetched + 1, fetched + n)
           IN /\ data \in Seq(Bytes) /\ Len(data) = n /\ fetched \in Nat /\ fetched + n \in 0..Len(Sent(talk))
              /\ \A i \in 1..n : data[i] = Sent(talk)[fetched + i]
              /\ SubSeq(Sent(talk), 1, fetched + n) = SubSeq(Sent(talk), 1, fetched) \o data
  <1> DEFINE s == Sent(talk)
             data == SubSeq(s, fetched + 1, fetched + n)
  <1>1. s \in Seq(Bytes) /\ fetched \in 0..Len(s) /\ Len(s) \in Nat
    BY SentIs DEF LostInv
  <1>2. fetched \in Nat /\ fetched + n \in 0..Len(s)
    BY <1>1
  <1> HIDE DEF s
  <1>3. data \in Seq(Bytes) /\ Len(data) = n /\ \A i \in 1..n : data[i] = s[fetched + i]
    <2>1. \A i \in (fetched + 1)..(fetched + n) : s[i] \in Bytes
      BY <1>1, <1>2
    <2>2. /\ data \in Seq(Bytes)
          /\ Len(data) = IF fetched + 1 <= fetched + n THEN (fetched + n) - (fetched + 1) + 1 ELSE 0
          /\ \A i \in 1..((fetched + n) - (fetched + 1) + 1) : data[i] = s[(fetched + 1) + i - 1]
      <3>1. PICK a \in Int, b \in Int : a = fetched + 1 /\ b = fetched + n
        BY <1>2
      <3>2. \A i \in a..b : s[i] \in Bytes
        BY <2>1, <3>1
      <3>3. /\ SubSeq(s, a, b) \in Seq(Bytes) /\ Len(SubSeq(s, a, b)) = IF a <= b THEN b - a + 1 ELSE 0
            /\ \A i \in 1..(b - a + 1) : SubSeq(s, a, b)[i] = s[a + i - 1]
        BY <3>2, SubSeqProperties
      <3> QED BY <3>1, <3>3
    <2> HIDE DEF data
    <2> QED BY <1>2, <2>2
  <1>4. SubSeq(s, 1, fetched + n) = SubSeq(s, 1, fetched) \o data
    <2>1. 1 \in 1..(Len(s) + 1) /\ fetched \in (1 - 1)..Len(s) /\ fetched + n \in fetched..Len(s)
      BY <1>1, <1>2
    <2> QED BY <1>1, <2>1, ConcatAdjacentSubSeq, Zenon
  <1> QED BY <1>2, <1>3, <1>4 DEF s

LEMMA ReadLostInv ==
    ASSUME LostInv, NEW n \in Nat, ReadSocket(n)
    PROVE  LostInv'
  <1> DEFINE s == Sent(talk)
             data == SubSeq(s, fetched + 1, fetched + n)
  <1>1. /\ data \in Seq(Bytes) /\ fetched + n \in 0..Len(s)
        /\ SubSeq(s, 1, fetched + n) = SubSeq(s, 1, fetched) \o data
    BY FetchedIs DEF ReadSocket
  <1>2. /\ adapter.out = <<>> /\ fetched' = fetched + n /\ UNCHANGED talk
        /\ IF adapter.state = "PassThrough"
           THEN handed' = handed \o data /\ UNCHANGED adapter
           ELSE adapter' = Process(adapter, data) /\ UNCHANGED handed
    BY DEF ReadSocket
  <1> HIDE DEF data, s
  <1>3. adapter \in Adapters /\ Sound(adapter) /\ handed \in Seq(Written) /\ talk \in Conversations
    BY DEF LostInv, Sound
  <1>4. Undone(handed) \o Holds(adapter) = SubSeq(s, 1, fetched)
    BY <1>3, LostHolds DEF LostInv, NothingLostOrMoved, s
  <1>5. PICK u \in Seq(Bytes), x \in Seq(Bytes) : u = Undone(handed) /\ x = Holds(adapter)
    BY <1>3, LostHolds
  <1>6. Sound(adapter)' /\ handed' \in Seq(Written) /\ Undone(handed') \o Holds(adapter') = (u \o x) \o data
    <2>1. CASE adapter.state = "PassThrough"
      <3>1. data \in Seq(Written)
        BY <1>1, SomeBytes
      <3>2. Undone(handed') = u \o data
        BY <1>1, <1>2, <1>3, <1>5, <2>1, <3>1, UndoneConcat, UndoneText
      <3>3. x = <<>>
        <4>1. adapter.line = <<>> /\ <<>> \in Seq(Bytes)
          BY <1>3, <2>1 DEF Sound, Flush
        <4>2. Undone(<<>>) = <<>>
          BY <4>1, UndoneText, Zenon
        <4>3. <<>> \o <<>> = <<>>
          OBVIOUS
        <4> QED BY <1>2, <1>5, <4>1, <4>2, <4>3, Zenon DEF Holds
      <3>4. u \o <<>> = u /\ (u \o data) \o <<>> = u \o data
        BY <1>1
      <3>5. adapter' = adapter /\ handed' \in Seq(Written)
        <4>1. PICK d \in Seq(Written), h \in Seq(Written) : d = data /\ h = handed
          BY <1>3, <3>1
        <4>2. h \o d \in Seq(Written)
          OBVIOUS
        <4> QED BY <1>2, <2>1, <4>1, <4>2
      <3>6. Undone(handed') \o Holds(adapter') = (u \o x) \o data
        BY <1>5, <3>2, <3>3, <3>4, <3>5, Zenon
      <3> QED BY <1>3, <3>5, <3>6
    <2>2. CASE adapter.state # "PassThrough"
      <3>1. Sound(adapter') /\ Holds(adapter') = x \o data /\ handed' = handed
        BY <1>1, <1>2, <1>3, <1>5, <2>2, ProcessHolds
      <3>2. u \o (x \o data) = (u \o x) \o data
        <4>1. PICK d \in Seq(Bytes) : d = data
          BY <1>1
        <4>2. (u \o x) \o d = u \o (x \o d)
          BY ConcatAssociative
        <4> QED BY <4>1, <4>2
      <3> QED BY <1>3, <1>5, <3>1, <3>2
    <2> QED BY <2>1, <2>2
  <1>7. Undone(handed' \o adapter'.out) \o adapter'.line = SubSeq(s, 1, fetched + n)
    <2>1. Undone(handed' \o adapter'.out) \o adapter'.line = Undone(handed') \o Holds(adapter')
      BY <1>6, LostHolds DEF Sound
    <2> QED BY <1>1, <1>4, <1>5, <1>6, <2>1, Zenon
  <1>8. NothingLostOrMoved'
    BY <1>2, <1>7 DEF NothingLostOrMoved, s
  <1> QED BY <1>1, <1>2, <1>3, <1>6, <1>8 DEF LostInv, s

LEMMA EndLostInv ==
    ASSUME LostInv, ReadEnd
    PROVE  LostInv'
  <1>1. adapter \in Adapters /\ Sound(adapter) /\ handed \in Seq(Written) /\ UNCHANGED <<talk, fetched, handed>>
    BY DEF LostInv, Sound, ReadEnd
  <1>2. adapter' = adapter \/ adapter' = GiveUp(adapter)
    BY DEF ReadEnd
  <1>3. Sound(adapter') /\ Holds(adapter') = Holds(adapter)
    BY <1>1, <1>2, GiveUpHolds
  <1>4. adapter' \in Adapters
    BY <1>3 DEF Sound
  <1>5. Undone(handed \o adapter'.out) \o adapter'.line = Undone(handed \o adapter.out) \o adapter.line
    BY <1>1, <1>3, <1>4, LostHolds
  <1>6. NothingLostOrMoved'
    BY <1>1, <1>5 DEF NothingLostOrMoved, LostInv
  <1> QED BY <1>1, <1>3, <1>6 DEF LostInv

LEMMA LostNextInv == LostInv /\ [UriNext]_uriVars => LostInv'
  <1> SUFFICES ASSUME LostInv, [UriNext]_uriVars PROVE LostInv'
    OBVIOUS
  <1>1. ASSUME NEW n \in 1..Len(adapter.out), HandOver(n) PROVE LostInv'
    <2>1. n \in Nat
      BY DEF LostInv, Sound, Adapters
    <2> QED BY <1>1, <2>1, HandLostInv
  <1>2. ASSUME NEW n \in 1..MaxRead, ReadSocket(n) PROVE LostInv'
    <2>1. n \in Nat
      BY LenientAssumption
    <2> QED BY <1>2, <2>1, ReadLostInv
  <1>3. CASE UNCHANGED uriVars
    BY <1>3 DEF LostInv, NothingLostOrMoved, uriVars
  <1> QED BY <1>1, <1>2, <1>3, EndLostInv DEF UriNext

-----------------------------------------------------------------------------
(* Pieces *)

LEMMA FlatOne ==
    ASSUME NEW S, NEW s \in Seq(S)
    PROVE  Flat(<<s>>) = s
  <1>1. <<>> \in Seq(Seq(S))
    OBVIOUS
  <1>2. Flat(Append(<<>>, s)) = Flat(<<>>) \o s
    BY <1>1, FlatLast, Zenon
  <1>3. Append(<<>>, s) = <<s>> /\ <<>> \o s = s
    OBVIOUS
  <1> QED BY <1>2, <1>3, FlatNone, Zenon

\* The first i of a sequence, one by one.
LEMMA Prefixes ==
    ASSUME NEW S, NEW s \in Seq(S)
    PROVE  /\ SubSeq(s, 1, 0) = <<>> /\ SubSeq(s, 1, Len(s)) = s /\ Len(s) \in Nat
           /\ \A i \in 1..Len(s) : /\ SubSeq(s, 1, i) = Append(SubSeq(s, 1, i - 1), s[i]) /\ s[i] \in S
                                   /\ SubSeq(s, 1, i - 1) \in Seq(S) /\ Len(SubSeq(s, 1, i - 1)) = i - 1
           /\ \A i \in 0..Len(s) : SubSeq(s, 1, i) \in Seq(S) /\ Len(SubSeq(s, 1, i)) = i
                                   /\ \A j \in 1..i : SubSeq(s, 1, i)[j] = s[j]
  <1>1. SubSeq(s, 1, 0) = <<>> /\ SubSeq(s, 1, Len(s)) = s /\ Len(s) \in Nat
    BY SubSeqEmpty, SubSeqFull
  <1>2. ASSUME NEW i \in 0..Len(s)
        PROVE  SubSeq(s, 1, i) \in Seq(S) /\ Len(SubSeq(s, 1, i)) = i /\ \A j \in 1..i : SubSeq(s, 1, i)[j] = s[j]
    BY <1>1, SubSeqProperties
  <1>3. ASSUME NEW i \in 1..Len(s)
        PROVE  /\ SubSeq(s, 1, i) = Append(SubSeq(s, 1, i - 1), s[i]) /\ s[i] \in S
               /\ SubSeq(s, 1, i - 1) \in Seq(S) /\ Len(SubSeq(s, 1, i - 1)) = i - 1
    <2>1. i - 1 \in 0..Len(s) /\ s[i] \in S
      BY <1>1
    <2>2. SubSeq(s, 1, i) = Append(SubSeq(s, 1, i - 1), s[i])
      OBVIOUS
    <2> QED BY <1>2, <2>1, <2>2
  <1> QED BY <1>1, <1>2, <1>3

LEMMA FlatMore ==
    ASSUME NEW S, NEW x \in Seq(Seq(S)), NEW u \in Seq(Seq(S)), NEW s \in Seq(S),
           Flat(x \o u) = Flat(x) \o Flat(u)
    PROVE  Flat(x \o Append(u, s)) = Flat(x) \o Flat(Append(u, s))
  <1>1. x \o Append(u, s) = Append(x \o u, s) /\ x \o u \in Seq(Seq(S))
    OBVIOUS
  <1>2. Flat(Append(x \o u, s)) = Flat(x \o u) \o s /\ Flat(Append(u, s)) = Flat(u) \o s
    BY <1>1, FlatLast, Zenon
  <1>3. Flat(x) \in Seq(S) /\ Flat(u) \in Seq(S)
    BY FlatType
  <1>4. ASSUME NEW a \in Seq(S), NEW b \in Seq(S) PROVE (a \o b) \o s = a \o (b \o s)
    BY Regroup, SMTT(30)
  <1>5. (Flat(x) \o Flat(u)) \o s = Flat(x) \o (Flat(u) \o s)
    BY <1>3, <1>4, Zenon
  <1> QED BY <1>1, <1>2, <1>5, Zenon

LEMMA FlatConcat ==
    ASSUME NEW S, NEW x \in Seq(Seq(S)), NEW y \in Seq(Seq(S))
    PROVE  Flat(x \o y) = Flat(x) \o Flat(y)
  <1> DEFINE n == Len(y)
             Good == {i \in 0..n : Flat(x \o SubSeq(y, 1, i)) = Flat(x) \o Flat(SubSeq(y, 1, i))}
  <1>1. /\ SubSeq(y, 1, 0) = <<>> /\ SubSeq(y, 1, n) = y /\ n \in Nat
        /\ \A i \in 1..n : SubSeq(y, 1, i) = Append(SubSeq(y, 1, i - 1), y[i]) /\ y[i] \in Seq(S)
                           /\ SubSeq(y, 1, i - 1) \in Seq(Seq(S))
    BY Prefixes
  <1>2. 0 \in Good
    <2>1. Flat(x) \in Seq(S) /\ x \o <<>> = x
      BY FlatType
    <2>2. Flat(x) \o <<>> = Flat(x)
      BY <2>1
    <2>3. 0 \in 0..n
      BY <1>1
    <2> HIDE DEF n
    <2> QED BY <1>1, <2>1, <2>2, <2>3, FlatNone, Zenon
  <1>3. ASSUME NEW i \in 1..n, i - 1 \in Good PROVE i \in Good
    <2>1. PICK u \in Seq(Seq(S)), s \in Seq(S) : u = SubSeq(y, 1, i - 1) /\ s = y[i]
      BY <1>1
    <2>2. Flat(x \o u) = Flat(x) \o Flat(u) /\ SubSeq(y, 1, i) = Append(u, s)
      BY <1>1, <1>3, <2>1
    <2>3. Flat(x \o Append(u, s)) = Flat(x) \o Flat(Append(u, s))
      BY <2>1, <2>2, FlatMore, Zenon
    <2>4. i \in 0..n
      BY <1>1
    <2> QED BY <2>2, <2>3, <2>4, Zenon
  <1>4. n \in 0..n
    BY <1>1
  <1>5. n \in Good
    <2> HIDE DEF Good, n
    <2> QED BY <1>1, <1>2, <1>3, <1>4, CountUp
  <1> QED BY <1>1, <1>5

LEMMA FlatFirst ==
    ASSUME NEW S, NEW seqs \in Seq(Seq(S)), seqs # <<>>
    PROVE  Flat(seqs) = seqs[1] \o Flat(Tail(seqs)) /\ seqs[1] \in Seq(S) /\ Tail(seqs) \in Seq(Seq(S))
  <1>1. seqs[1] \in Seq(S) /\ Tail(seqs) \in Seq(Seq(S)) /\ <<seqs[1]>> \in Seq(Seq(S))
    OBVIOUS
  <1>2. PICK s \in Seq(S), x \in Seq(Seq(S)), y \in Seq(Seq(S)) : s = seqs[1] /\ x = <<seqs[1]>> /\ y = Tail(seqs)
    BY <1>1, Zenon
  <1>3. seqs = x \o y
    <2>1. seqs = <<seqs[1]>> \o Tail(seqs)
      OBVIOUS
    <2> QED BY <1>2, <2>1, Zenon
  <1>4. Flat(x \o y) = Flat(x) \o Flat(y)
    BY FlatConcat
  <1>5. Flat(x) = s
    BY <1>2, FlatOne, Zenon
  <1> QED BY <1>1, <1>2, <1>3, <1>4, <1>5, Zenon

Piece == [raw : Seq(Bytes) \ {<<>>}, owed : Seq(Written)]
Parts == {"raw", "owed"}

\* The bytes of pieces, or those owed for them.
PartOf(x, f) == [i \in 1..Len(x) |-> x[i][f]]
All(x, f) == Flat(PartOf(x, f))

Bare(x) == \A i \in 1..Len(x) : Len(x[i].raw) = 1 /\ x[i].owed = x[i].raw

LEMMA PartType ==
    ASSUME NEW x \in Seq(Piece), NEW f \in Parts
    PROVE  PartOf(x, f) \in Seq(Seq(Written)) /\ All(x, f) \in Seq(Written)
  <1>1. \A p \in Piece : p[f] \in Seq(Written)
    BY SomeBytes DEF Piece, Parts
  <1>2. PartOf(x, f) \in Seq(Seq(Written))
    <2>1. \A i \in 1..Len(x) : x[i][f] \in Seq(Written)
      BY <1>1
    <2>2. Len(x) \in Nat
      OBVIOUS
    <2> QED BY <2>1, <2>2 DEF PartOf
  <1> QED BY <1>2, FlatType DEF All

LEMMA AllConcat ==
    ASSUME NEW x \in Seq(Piece), NEW y \in Seq(Piece), NEW f \in Parts
    PROVE  All(x \o y, f) = All(x, f) \o All(y, f)
  <1>1. PartOf(x, f) \in Seq(Seq(Written)) /\ PartOf(y, f) \in Seq(Seq(Written))
    BY PartType
  <1>2. PartOf(x \o y, f) = PartOf(x, f) \o PartOf(y, f)
    BY DEF PartOf
  <1>3. Flat(PartOf(x, f) \o PartOf(y, f)) = Flat(PartOf(x, f)) \o Flat(PartOf(y, f))
    <2>1. PICK u \in Seq(Seq(Written)), v \in Seq(Seq(Written)) : u = PartOf(x, f) /\ v = PartOf(y, f)
      BY <1>1, Zenon
    <2>2. Flat(u \o v) = Flat(u) \o Flat(v)
      BY FlatConcat
    <2> QED BY <2>1, <2>2, Zenon
  <1> QED BY <1>2, <1>3, Zenon DEF All

LEMMA AllOne ==
    ASSUME NEW p \in Piece, NEW f \in Parts
    PROVE  All(<<p>>, f) = p[f] /\ p[f] \in Seq(Written)
  <1>1. p[f] \in Seq(Written)
    BY SomeBytes DEF Piece, Parts
  <1>2. PartOf(<<p>>, f) = <<p[f]>>
    BY DEF PartOf
  <1> QED BY <1>1, <1>2, FlatOne, Zenon DEF All

LEMMA AllNone == ASSUME NEW f PROVE All(<<>>, f) = <<>>
  <1>1. PartOf(<<>>, f) = <<>>
    BY DEF PartOf
  <1> QED BY <1>1, FlatNone, Zenon DEF All

LEMMA BareConcat ==
    ASSUME NEW x \in Seq(Piece), NEW y \in Seq(Piece), Bare(x), Bare(y)
    PROVE  Bare(x \o y)
  <1> SUFFICES ASSUME NEW i \in 1..Len(x \o y) PROVE Len((x \o y)[i].raw) = 1 /\ (x \o y)[i].owed = (x \o y)[i].raw
    BY DEF Bare
  <1>1. CASE i <= Len(x)
    <2>1. i \in 1..Len(x) /\ (x \o y)[i] = x[i]
      BY <1>1
    <2> QED BY <2>1 DEF Bare
  <1>2. CASE ~(i <= Len(x))
    <2>1. i - Len(x) \in 1..Len(y) /\ (x \o y)[i] = y[i - Len(x)]
      BY <1>2
    <2> QED BY <2>1 DEF Bare
  <1> QED BY <1>1, <1>2

LEMMA BareFlat ==
    ASSUME NEW seqs \in Seq(Seq(Piece)), \A i \in 1..Len(seqs) : Bare(seqs[i])
    PROVE  Bare(Flat(seqs))
  <1> DEFINE n == Len(seqs)
             Good == {i \in 0..n : Bare(Flat(SubSeq(seqs, 1, i)))}
  <1>1. /\ SubSeq(seqs, 1, 0) = <<>> /\ SubSeq(seqs, 1, n) = seqs /\ n \in Nat
        /\ \A i \in 1..n : SubSeq(seqs, 1, i) = Append(SubSeq(seqs, 1, i - 1), seqs[i]) /\ seqs[i] \in Seq(Piece)
                           /\ SubSeq(seqs, 1, i - 1) \in Seq(Seq(Piece))
    BY Prefixes
  <1>2. 0 \in Good
    <2>1. Bare(<<>>)
      BY DEF Bare
    <2>2. 0 \in 0..n
      BY <1>1
    <2> HIDE DEF n
    <2> QED BY <1>1, <2>1, <2>2, FlatNone
  <1>3. ASSUME NEW i \in 1..n, i - 1 \in Good PROVE i \in Good
    <2>1. PICK u \in Seq(Seq(Piece)), s \in Seq(Piece) : u = SubSeq(seqs, 1, i - 1) /\ s = seqs[i]
      BY <1>1
    <2>2. Bare(Flat(u)) /\ Bare(s) /\ SubSeq(seqs, 1, i) = Append(u, s)
      BY <1>1, <1>3, <2>1
    <2>3. Flat(Append(u, s)) = Flat(u) \o s /\ Flat(u) \in Seq(Piece)
      BY FlatLast
    <2>4. Bare(Flat(u) \o s)
      BY <2>2, <2>3, BareConcat
    <2>5. i \in 0..n
      BY <1>1
    <2> QED BY <2>2, <2>3, <2>4, <2>5, Zenon
  <1>4. n \in 0..n
    BY <1>1
  <1>5. n \in Good
    <2> HIDE DEF Good, n
    <2> QED BY <1>1, <1>2, <1>3, <1>4, CountUp
  <1> QED BY <1>1, <1>5

Single(b) == [raw |-> <<b>>, owed |-> <<b>>]

LEMMA SingleIs ==
    ASSUME NEW b \in Bytes
    PROVE  Single(b) \in Piece /\ \A f \in Parts : Single(b)[f] = <<b>>
  <1>1. <<b>> \in Seq(Bytes) \ {<<>>} /\ <<b>> \in Seq(Written)
    BY SomeBytes
  <1> QED BY <1>1 DEF Single, Piece, Parts

LEMMA BytewiseIs ==
    ASSUME NEW s \in Seq(Bytes)
    PROVE  /\ Bytewise(s) \in Seq(Piece) /\ Bare(Bytewise(s)) /\ Len(Bytewise(s)) = Len(s)
           /\ \A i \in 1..Len(s) : Bytewise(s)[i] = Single(s[i])
  <1>1. Bytewise(s) = [i \in 1..Len(s) |-> Single(s[i])]
    BY DEF Bytewise, Single
  <1>2. Len(s) \in Nat /\ \A i \in 1..Len(s) : s[i] \in Bytes /\ Single(s[i]) \in Piece
    BY SingleIs
  <1>3. Bytewise(s) \in Seq(Piece) /\ Len(Bytewise(s)) = Len(s)
    BY <1>1, <1>2
  <1>4. \A b : Len(Single(b).raw) = 1 /\ Single(b).owed = Single(b).raw
    BY DEF Single
  <1> QED BY <1>1, <1>3, <1>4 DEF Bare

LEMMA BytewiseAll ==
    ASSUME NEW s \in Seq(Bytes), NEW f \in Parts
    PROVE  All(Bytewise(s), f) = s
  <1> DEFINE n == Len(s)
             Good == {i \in 0..n : All(Bytewise(SubSeq(s, 1, i)), f) = SubSeq(s, 1, i)}
  <1>1. /\ SubSeq(s, 1, 0) = <<>> /\ SubSeq(s, 1, n) = s /\ n \in Nat
        /\ \A i \in 1..n : SubSeq(s, 1, i) = Append(SubSeq(s, 1, i - 1), s[i]) /\ s[i] \in Bytes
                           /\ SubSeq(s, 1, i - 1) \in Seq(Bytes)
    BY Prefixes
  <1>2. 0 \in Good
    <2>1. Bytewise(<<>>) = <<>> /\ 0 \in 0..n
      BY <1>1 DEF Bytewise
    <2> HIDE DEF n
    <2> QED BY <1>1, <2>1, AllNone, Zenon
  <1>3. ASSUME NEW i \in 1..n, i - 1 \in Good PROVE i \in Good
    <2>1. PICK u \in Seq(Bytes), b \in Bytes : u = SubSeq(s, 1, i - 1) /\ b = s[i]
      BY <1>1
    <2>2. All(Bytewise(u), f) = u /\ SubSeq(s, 1, i) = Append(u, b)
      BY <1>1, <1>3, <2>1
    <2>3. Bytewise(Append(u, b)) = Bytewise(u) \o <<Single(b)>>
      <3>1. /\ Append(u, b) \in Seq(Bytes) /\ Len(Append(u, b)) = Len(u) + 1 /\ Append(u, b)[Len(u) + 1] = b
            /\ Len(u) \in Nat /\ \A k \in 1..Len(u) : Append(u, b)[k] = u[k]
        OBVIOUS
      <3>2. PICK w \in Seq(Bytes) : w = Append(u, b)
        BY <3>1, Zenon
      <3>3. PICK x \in Seq(Piece), y \in Seq(Piece), p \in Piece : x = Bytewise(w) /\ y = Bytewise(u) /\ p = Single(b)
        BY BytewiseIs, SingleIs
      <3>4. Len(x) = Len(u) + 1 /\ \A k \in 1..Len(u) + 1 : x[k] = Single(w[k])
        BY <3>1, <3>2, <3>3, BytewiseIs
      <3>6. Len(y) = Len(u) /\ \A k \in 1..Len(u) : y[k] = Single(u[k])
        BY <3>3, BytewiseIs
      <3>7. x[Len(u) + 1] = p
        BY <3>1, <3>2, <3>3, <3>4
      <3>8. ASSUME NEW k \in 1..Len(u) PROVE x[k] = y[k]
        <4>1. k \in 1..Len(u) + 1 /\ w[k] = u[k]
          BY <3>1, <3>2
        <4> QED BY <3>4, <3>6, <4>1
      <3>5. x = Append(y, p) /\ Append(y, p) = y \o <<p>>
        BY <3>1, <3>4, <3>6, <3>7, <3>8
      <3> QED BY <3>2, <3>3, <3>5, Zenon
    <2>4. Bytewise(u) \in Seq(Piece) /\ <<Single(b)>> \in Seq(Piece) /\ Single(b) \in Piece /\ Single(b)[f] = <<b>>
      BY BytewiseIs, SingleIs
    <2>5. All(Bytewise(u) \o <<Single(b)>>, f) = All(Bytewise(u), f) \o All(<<Single(b)>>, f)
      BY <2>4, AllConcat, Zenon
    <2>6. All(<<Single(b)>>, f) = <<b>>
      BY <2>4, AllOne, Zenon
    <2>7. u \o <<b>> = Append(u, b)
      OBVIOUS
    <2>8. i \in 0..n
      BY <1>1
    <2> QED BY <2>2, <2>3, <2>5, <2>6, <2>7, <2>8, Zenon
  <1>4. n \in 0..n
    BY <1>1
  <1>5. n \in Good
    <2> HIDE DEF Good, n
    <2> QED BY <1>1, <1>2, <1>3, <1>4, CountUp
  <1> QED BY <1>1, <1>5

LEMMA WholeIs ==
    ASSUME NEW r \in Seq(Bytes), NEW o \in Seq(Written), r # <<>>
    PROVE  Whole(r, o) \in Seq(Piece) /\ All(Whole(r, o), "raw") = r /\ All(Whole(r, o), "owed") = o
           /\ Len(Whole(r, o)) = 1 /\ Whole(r, o)[1] = [raw |-> r, owed |-> o]
  <1> DEFINE p == [raw |-> r, owed |-> o]
  <1>1. p \in Piece /\ p["raw"] = r /\ p["owed"] = o /\ "raw" \in Parts /\ "owed" \in Parts
    BY DEF Piece, Parts
  <1>2. Whole(r, o) = <<p>>
    BY DEF Whole
  <1> HIDE DEF p
  <1>3. All(<<p>>, "raw") = r /\ All(<<p>>, "owed") = o
    BY <1>1, AllOne, Zenon
  <1>4. <<p>> \in Seq(Piece) /\ Len(<<p>>) = 1 /\ <<p>>[1] = p
    BY <1>1
  <1> QED BY <1>2, <1>3, <1>4 DEF p

\* The bytes of pieces that come one after the other.
LEMMA EachAll ==
    ASSUME NEW u \in Seq(Seq(Piece)), NEW f \in Parts
    PROVE  [i \in 1..Len(u) |-> All(u[i], f)] \in Seq(Seq(Written))
  <1>1. Len(u) \in Nat /\ \A k \in 1..Len(u) : u[k] \in Seq(Piece)
    OBVIOUS
  <1>2. ASSUME NEW k \in 1..Len(u) PROVE All(u[k], f) \in Seq(Written)
    <2>1. u[k] \in Seq(Piece)
      BY <1>1, Zenon
    <2> QED BY <2>1, PartType, Zenon
  <1>3. PICK n \in Nat : n = Len(u)
    BY <1>1, Zenon
  <1>4. \A k \in 1..n : All(u[k], f) \in Seq(Written)
    BY <1>2, <1>3, Zenon
  <1>5. [i \in 1..n |-> All(u[i], f)] \in Seq(Seq(Written))
    BY <1>4
  <1> QED BY <1>3, <1>5, Zenon

LEMMA FlatAll ==
    ASSUME NEW seqs \in Seq(Seq(Piece)), NEW f \in Parts
    PROVE  All(Flat(seqs), f) = Flat([i \in 1..Len(seqs) |-> All(seqs[i], f)])
  <1> DEFINE n == Len(seqs)
             each(u) == [i \in 1..Len(u) |-> All(u[i], f)]
             Good == {i \in 0..n : All(Flat(SubSeq(seqs, 1, i)), f) = Flat(each(SubSeq(seqs, 1, i)))}
  <1>1. /\ SubSeq(seqs, 1, 0) = <<>> /\ SubSeq(seqs, 1, n) = seqs /\ n \in Nat
        /\ \A i \in 1..n : SubSeq(seqs, 1, i) = Append(SubSeq(seqs, 1, i - 1), seqs[i]) /\ seqs[i] \in Seq(Piece)
                           /\ SubSeq(seqs, 1, i - 1) \in Seq(Seq(Piece))
    BY Prefixes
  <1>2. 0 \in Good
    <2>1. each(<<>>) = <<>> /\ 0 \in 0..n
      BY <1>1
    <2> HIDE DEF n, each
    <2> QED BY <1>1, <2>1, AllNone, FlatNone, Zenon
  <1>3. ASSUME NEW i \in 1..n, i - 1 \in Good PROVE i \in Good
    <2>1. PICK u \in Seq(Seq(Piece)), s \in Seq(Piece) : u = SubSeq(seqs, 1, i - 1) /\ s = seqs[i]
      BY <1>1
    <2>2. All(Flat(u), f) = Flat(each(u)) /\ SubSeq(seqs, 1, i) = Append(u, s)
      BY <1>1, <1>3, <2>1
    <2>3. Flat(Append(u, s)) = Flat(u) \o s /\ Flat(u) \in Seq(Piece)
      BY FlatLast
    <2>4. All(Flat(u) \o s, f) = All(Flat(u), f) \o All(s, f)
      BY <2>3, AllConcat, Zenon
    <2>5. each(u) \in Seq(Seq(Written)) /\ All(s, f) \in Seq(Written)
      BY EachAll, PartType
    <2>6. each(Append(u, s)) = Append(each(u), All(s, f))
      OBVIOUS
    <2>7. Flat(Append(each(u), All(s, f))) = Flat(each(u)) \o All(s, f)
      <3> HIDE DEF each
      <3> QED BY <2>5, FlatLast, Zenon
    <2>8. i \in 0..n
      BY <1>1
    <2> HIDE DEF each
    <2> QED BY <2>2, <2>3, <2>4, <2>6, <2>7, <2>8, Zenon
  <1>4. n \in 0..n
    BY <1>1
  <1>5. n \in Good
    <2> HIDE DEF Good, n
    <2> QED BY <1>1, <1>2, <1>3, <1>4, CountUp
  <1> QED BY <1>1, <1>5

-----------------------------------------------------------------------------
(* The pieces of a message *)

Lost(m, i) == \E j \in 1..(i - 1) : m.headers[j].kind \in {"chunked", "unreadable"}
HeaderPiece(m, i) ==
    IF Lost(m, i) THEN Bytewise(m.headers[i].bytes) ELSE Whole(m.headers[i].bytes, m.headers[i].bytes)
HeaderPieces(m) == [i \in 1..Len(m.headers) |-> HeaderPiece(m, i)]
BodyPieces(m) == Bytewise(<<"LF">> \o m.body)

\* A message of a connection.
Message(m) ==
    /\ IsMessage(m) /\ m.line \in Seq(Bytes) /\ m.body \in Seq(Bytes)
    /\ Len(m.headers) \in Nat /\ DOMAIN m.headers = 1..Len(m.headers)
    /\ \A j \in 1..Len(m.headers) : m.headers[j].bytes \in Seq(Bytes)

LEMMA MessageOf ==
    ASSUME NEW t \in Conversations, NEW i \in 1..Len(t.messages)
    PROVE  Message(t.messages[i])
  BY MessageIs, SentIs, LenientAssumption DEF Message

\* A line ends with its only line feed.
LEMMA LineIs ==
    ASSUME NEW line \in Seq(Bytes), IsLine(line)
    PROVE  /\ Len(line) \in Nat \ {0} /\ line # <<>> /\ line[Len(line)] = "LF"
           /\ \A i \in 1..Len(line) : line[i] = "LF" => i = Len(line)
  <1>1. Len(line) \in Nat /\ DOMAIN line = 1..Len(line)
    OBVIOUS
  <1>2. Len(line) \in DOMAIN line /\ line[Len(line)] = "LF" /\ \A i \in DOMAIN line : line[i] = "LF" => i = Len(line)
    BY DEF IsLine
  <1>3. line # <<>> /\ Len(line) # 0
    BY <1>1, <1>2
  <1>4. \A i \in 1..Len(line) : line[i] = "LF" => i = Len(line)
    BY <1>1, <1>2, Zenon
  <1>5. Len(line) \in Nat \ {0}
    BY <1>1, <1>3
  <1> QED BY <1>2, <1>3, <1>4, <1>5, Zenon

LEMMA HeaderPiecesAre ==
    ASSUME NEW m, Message(m)
    PROVE  /\ HeaderPieces(m) \in Seq(Seq(Piece)) /\ Len(HeaderPieces(m)) = Len(m.headers)
           /\ \A i \in 1..Len(m.headers) :
                 HeaderPieces(m)[i] = HeaderPiece(m, i) /\ All(HeaderPiece(m, i), "raw") = m.headers[i].bytes
  <1>1. ASSUME NEW i \in 1..Len(m.headers)
        PROVE  HeaderPiece(m, i) \in Seq(Piece) /\ All(HeaderPiece(m, i), "raw") = m.headers[i].bytes
    <2>0. m.headers[i].bytes \in Seq(Bytes) /\ IsLine(m.headers[i].bytes)
      BY DEF Message, IsMessage
    <2>1. PICK b \in Seq(Bytes) : b = m.headers[i].bytes /\ b # <<>>
      BY <2>0, LineIs
    <2>2. b \in Seq(Written) /\ "raw" \in Parts
      BY SomeBytes DEF Parts
    <2>3. Whole(b, b) \in Seq(Piece) /\ All(Whole(b, b), "raw") = b
      BY <2>1, <2>2, WholeIs
    <2>4. Bytewise(b) \in Seq(Piece) /\ All(Bytewise(b), "raw") = b
      BY <2>2, BytewiseIs, BytewiseAll
    <2> QED BY <2>1, <2>3, <2>4 DEF HeaderPiece
  <1>2. Len(m.headers) \in Nat
    BY DEF Message
  <1>3. HeaderPieces(m) \in Seq(Seq(Piece)) /\ Len(HeaderPieces(m)) = Len(m.headers)
    BY <1>1, <1>2 DEF HeaderPieces
  <1> QED BY <1>1, <1>3 DEF HeaderPieces

\* The spaces of a request line are before its end, and so is its target.
LEMMA Cooked ==
    ASSUME NEW line \in Seq(Bytes), IsLine(line)
    PROVE  LET spaces == {i \in 1..Len(line) : line[i] = "SP"}
               inside(i) == (\E s \in spaces : s < i) /\ (\E s \in spaces : i < s)
           IN [i \in 1..Len(line) |-> IF inside(i) /\ line[i] \in Unsafe THEN Encoded(line[i]) ELSE line[i]]
              = NormalizeRequestLine(line)
  <1> DEFINE spaces == {i \in 1..Len(line) : line[i] = "SP"}
             inside(i) == (\E s \in spaces : s < i) /\ (\E s \in spaces : i < s)
             end == IF Len(line) > 1 /\ line[Len(line) - 1] = "CR" THEN Len(line) - 2 ELSE Len(line) - 1
             inner == {i \in 1..end : line[i] = "SP"}
             target == {i \in 1..end : (\E s \in inner : s < i) /\ (\E s \in inner : i < s)}
  <1>1. Len(line) \in Nat /\ line[Len(line)] = "LF" /\ Len(line) >= 1
    BY LineIs
  <1>2. end \in 0..(Len(line) - 1)
    BY <1>1
  <1>3. ASSUME NEW i \in 1..Len(line), line[i] = "SP" PROVE i <= end
    <2>1. i # Len(line) /\ i <= Len(line) - 1
      BY <1>1, <1>3
    <2>2. CASE Len(line) > 1 /\ line[Len(line) - 1] = "CR"
      <3>1. i # Len(line) - 1
        BY <1>3, <2>2
      <3> QED BY <1>1, <2>1, <2>2, <3>1
    <2>3. CASE ~(Len(line) > 1 /\ line[Len(line) - 1] = "CR")
      <3>1. end = Len(line) - 1
        BY <2>3
      <3> QED BY <2>1, <3>1
    <2> QED BY <2>2, <2>3
  <1>4. inner = spaces /\ \A i \in spaces : i <= end
    <2> HIDE DEF end
    <2>1. \A i \in 1..end : i \in 1..Len(line)
      BY <1>1, <1>2
    <2>2. \A i \in 1..Len(line) : line[i] = "SP" => i \in 1..end
      BY <1>1, <1>2, <1>3
    <2> QED BY <1>3, <2>1, <2>2
  <1>5. ASSUME NEW i \in 1..Len(line) PROVE i \in target <=> inside(i)
    <2> HIDE DEF end
    <2>1. inside(i) => i \in 1..end
      <3> SUFFICES ASSUME NEW s \in spaces, i < s PROVE i \in 1..end
        OBVIOUS
      <3>1. s <= end /\ s \in Nat /\ end \in Nat
        BY <1>1, <1>2, <1>4
      <3> QED BY <3>1
    <2> HIDE DEF inner, spaces
    <2> QED BY <1>4, <2>1
  <1>6. NormalizeRequestLine(line) =
          [i \in 1..Len(line) |-> IF i \in target /\ line[i] \in Unsafe THEN Encoded(line[i]) ELSE line[i]]
    BY DEF NormalizeRequestLine
  <1> HIDE DEF target, inside
  <1>7. [i \in 1..Len(line) |-> IF inside(i) /\ line[i] \in Unsafe THEN Encoded(line[i]) ELSE line[i]]
        = [i \in 1..Len(line) |-> IF i \in target /\ line[i] \in Unsafe THEN Encoded(line[i]) ELSE line[i]]
    BY <1>5
  <1> QED BY <1>6, <1>7 DEF inside

LinePiece(m) == [raw |-> m.line, owed |-> NormalizeRequestLine(m.line)]

LEMMA LinePieceIs ==
    ASSUME NEW m, Message(m)
    PROVE  LinePiece(m) \in Piece /\ IsLine(m.line)
  <1>1. IsLine(m.line) /\ m.line \in Seq(Bytes) \ {<<>>}
    BY LineIs DEF Message, IsMessage
  <1> QED BY <1>1, NormalizedIs DEF LinePiece, Piece

LEMMA FramedPieces ==
    ASSUME NEW m, Message(m)
    PROVE  MessagePieces(m, TRUE) = (<<LinePiece(m)>> \o Flat(HeaderPieces(m))) \o BodyPieces(m)
  <1>1. m.line \in Seq(Bytes) /\ IsLine(m.line)
    BY LinePieceIs DEF Message
  <1> DEFINE spaces == {i \in 1..Len(m.line) : m.line[i] = "SP"}
             inside(i) == (\E s \in spaces : s < i) /\ (\E s \in spaces : i < s)
             cooked == [i \in 1..Len(m.line) |-> IF inside(i) /\ m.line[i] \in Unsafe THEN Encoded(m.line[i]) ELSE m.line[i]]
  <1>2. cooked = NormalizeRequestLine(m.line)
    BY <1>1, Cooked
  <1>3. MessagePieces(m, TRUE) = (Whole(m.line, cooked) \o Flat(HeaderPieces(m))) \o BodyPieces(m)
    BY DEF MessagePieces, HeaderPieces, HeaderPiece, Lost, BodyPieces
  <1> HIDE DEF cooked
  <1>4. Whole(m.line, cooked) = <<LinePiece(m)>>
    BY <1>2 DEF Whole, LinePiece
  <1> QED BY <1>3, <1>4

\* What the pieces of a message stand for is the message.
LEMMA MessageRaw ==
    ASSUME NEW t \in Conversations, NEW i \in 1..Len(t.messages), NEW framed \in BOOLEAN
    PROVE  LET m == t.messages[i]
           IN /\ MessagePieces(m, framed) \in Seq(Piece) /\ All(MessagePieces(m, framed), "raw") = MessageBytes(m)
              /\ ~framed => Bare(MessagePieces(m, framed))
  <1> DEFINE m == t.messages[i]
  <1>1. Message(m) /\ i \in DOMAIN t.messages
    BY MessageOf, SentIs
  <1>2. /\ HeaderBytes(m) \in Seq(Bytes) /\ <<"LF">> \in Seq(Bytes) /\ MessageBytes(m) \in Seq(Bytes)
        /\ MessageBytes(m) = ((m.line \o HeaderBytes(m)) \o <<"LF">>) \o m.body
    BY <1>1, MessageText
  <1> HIDE DEF m
  <1>3. m.line \in Seq(Bytes) /\ m.body \in Seq(Bytes)
    BY <1>1 DEF Message
  <1>4. "raw" \in Parts
    BY DEF Parts
  <1>5. CASE ~framed
    <2>1. MessagePieces(m, framed) = Bytewise(MessageBytes(m))
      BY <1>5 DEF MessagePieces
    <2> QED BY <1>2, <1>4, <2>1, BytewiseIs, BytewiseAll DEF m
  <1>6. CASE framed
    <2>1. framed = TRUE
      BY <1>6
    <2>2. MessagePieces(m, framed) = (<<LinePiece(m)>> \o Flat(HeaderPieces(m))) \o BodyPieces(m)
      BY <1>1, <2>1, FramedPieces
    <2>3. PICK l \in Seq(Piece), h \in Seq(Piece), b \in Seq(Piece) :
             l = <<LinePiece(m)>> /\ h = Flat(HeaderPieces(m)) /\ b = BodyPieces(m)
      <3>1. LinePiece(m) \in Piece
        BY <1>1, LinePieceIs
      <3>2. <<LinePiece(m)>> \in Seq(Piece)
        BY <3>1
      <3>3. Flat(HeaderPieces(m)) \in Seq(Piece)
        BY <1>1, HeaderPiecesAre, FlatType
      <3>4. <<"LF">> \o m.body \in Seq(Bytes)
        BY <1>2, <1>3
      <3>5. BodyPieces(m) \in Seq(Piece)
        BY <3>4, BytewiseIs DEF BodyPieces
      <3> QED BY <3>2, <3>3, <3>5
    <2>4. All(l, "raw") = m.line
      <3>1. LinePiece(m) \in Piece /\ LinePiece(m)["raw"] = m.line
        BY <1>1, LinePieceIs DEF LinePiece
      <3> QED BY <1>4, <2>3, <3>1, AllOne, Zenon
    <2>5. All(h, "raw") = HeaderBytes(m)
      <3>1. HeaderPieces(m) \in Seq(Seq(Piece)) /\ Len(HeaderPieces(m)) = Len(m.headers)
        BY <1>1, HeaderPiecesAre
      <3>2. All(h, "raw") = Flat([k \in 1..Len(HeaderPieces(m)) |-> All(HeaderPieces(m)[k], "raw")])
        BY <1>4, <2>3, <3>1, FlatAll, Zenon
      <3>3. [k \in 1..Len(HeaderPieces(m)) |-> All(HeaderPieces(m)[k], "raw")]
            = [k \in 1..Len(m.headers) |-> m.headers[k].bytes]
        BY <1>1, <3>1, HeaderPiecesAre
      <3> QED BY <3>2, <3>3, Zenon DEF HeaderBytes
    <2>6. All(b, "raw") = <<"LF">> \o m.body
      <3>1. <<"LF">> \o m.body \in Seq(Bytes)
        BY <1>2, <1>3
      <3> QED BY <1>4, <2>3, <3>1, BytewiseAll DEF BodyPieces
    <2>7. All((l \o h) \o b, "raw") = (m.line \o HeaderBytes(m)) \o (<<"LF">> \o m.body)
      <3>0. l \o h \in Seq(Piece)
        OBVIOUS
      <3>1. All((l \o h) \o b, "raw") = All(l \o h, "raw") \o All(b, "raw")
        BY <1>4, <3>0, AllConcat, Zenon
      <3>2. All(l \o h, "raw") = All(l, "raw") \o All(h, "raw")
        BY <1>4, AllConcat
      <3> QED BY <2>4, <2>5, <2>6, <3>1, <3>2, Zenon
    <2>8. (m.line \o HeaderBytes(m)) \o (<<"LF">> \o m.body) = MessageBytes(m)
      <3>1. PICK x \in Seq(Bytes), y \in Seq(Bytes), z \in Seq(Bytes) :
               x = m.line \o HeaderBytes(m) /\ y = <<"LF">> /\ z = m.body
        <4>1. m.line \o HeaderBytes(m) \in Seq(Bytes)
          BY <1>2, <1>3
        <4> QED BY <1>2, <1>3, <4>1, Zenon
      <3>2. (x \o y) \o z = x \o (y \o z)
        BY Regroup, SMTT(30)
      <3> QED BY <1>2, <3>1, <3>2, Zenon
    <2>9. (l \o h) \o b \in Seq(Piece)
      OBVIOUS
    <2> QED BY <1>6, <2>2, <2>3, <2>7, <2>8, <2>9 DEF m
  <1> QED BY <1>5, <1>6

\* Every message before the i-th kept to a framing that can be followed.
Framed(t, i) == ~t.preface /\ \A j \in 1..(i - 1) : ~Breaks(t.messages[j])
PiecesOf(t) == [i \in 1..Len(t.messages) |-> MessagePieces(t.messages[i], Framed(t, i))]
StartPieces(t) == IF t.preface THEN Whole(Preface, Preface) ELSE <<>>

LEMMA PiecesAre ==
    ASSUME NEW t \in Conversations
    PROVE  /\ PiecesOf(t) \in Seq(Seq(Piece)) /\ Len(PiecesOf(t)) = Len(t.messages) /\ StartPieces(t) \in Seq(Piece)
           /\ Pieces(t) = StartPieces(t) \o Flat(PiecesOf(t)) /\ Pieces(t) \in Seq(Piece)
           /\ All(Pieces(t), "raw") = Sent(t)
  <1>1. Framed(t, 1) \in BOOLEAN /\ \A i \in 1..Len(t.messages) : Framed(t, i) \in BOOLEAN
    BY DEF Framed
  <1>2. Len(t.messages) \in Nat
    BY SentIs
  <1>3. \A i \in 1..Len(t.messages) : MessagePieces(t.messages[i], Framed(t, i)) \in Seq(Piece)
    BY <1>1, MessageRaw
  <1>4. PiecesOf(t) \in Seq(Seq(Piece)) /\ Len(PiecesOf(t)) = Len(t.messages)
    BY <1>2, <1>3 DEF PiecesOf
  <1>5. Preface \in Seq(Bytes) /\ Preface \in Seq(Written) /\ Preface # <<>> /\ "raw" \in Parts
    BY SomeBytes DEF Preface, Parts
  <1>6. Whole(Preface, Preface) \in Seq(Piece) /\ All(Whole(Preface, Preface), "raw") = Preface
    BY <1>5, WholeIs
  <1>7. StartPieces(t) \in Seq(Piece) /\ All(StartPieces(t), "raw") = Start(t)
    BY <1>6, AllNone DEF StartPieces, Start
  <1>8. Pieces(t) = StartPieces(t) \o Flat(PiecesOf(t))
    BY DEF Pieces, StartPieces, PiecesOf, Framed
  <1>9. Flat(PiecesOf(t)) \in Seq(Piece)
    BY <1>4, FlatType
  <1>10. All(Flat(PiecesOf(t)), "raw") = Flat(AllMessages(t))
    <2>1. All(Flat(PiecesOf(t)), "raw") = Flat([k \in 1..Len(PiecesOf(t)) |-> All(PiecesOf(t)[k], "raw")])
      BY <1>4, <1>5, FlatAll, Zenon
    <2>2. ASSUME NEW k \in 1..Len(t.messages) PROVE All(PiecesOf(t)[k], "raw") = MessageBytes(t.messages[k])
      <3>1. PiecesOf(t)[k] = MessagePieces(t.messages[k], Framed(t, k))
        BY DEF PiecesOf
      <3> QED BY <1>1, <3>1, MessageRaw
    <2>3. [k \in 1..Len(PiecesOf(t)) |-> All(PiecesOf(t)[k], "raw")] = AllMessages(t)
      BY <1>4, <2>2 DEF AllMessages
    <2> QED BY <2>1, <2>3, Zenon
  <1>11. All(StartPieces(t) \o Flat(PiecesOf(t)), "raw") = Start(t) \o Flat(AllMessages(t))
    BY <1>5, <1>7, <1>9, <1>10, AllConcat
  <1>12. StartPieces(t) \o Flat(PiecesOf(t)) \in Seq(Piece)
    BY <1>7, <1>9
  <1> QED BY <1>4, <1>7, <1>8, <1>11, <1>12, SentIs, Zenon

-----------------------------------------------------------------------------
(* What is left of pieces *)

Onward(x, i) == SubSeq(x, i, Len(x))

LEMMA FromIs ==
    ASSUME NEW S, NEW x \in Seq(S)
    PROVE  /\ Onward(x, 1) = x /\ Onward(x, Len(x) + 1) = <<>>
           /\ \A i \in 1..Len(x) + 1 : /\ Onward(x, i) \in Seq(S) /\ Len(Onward(x, i)) = Len(x) - i + 1
                                       /\ \A k \in 1..Len(x) - i + 1 : Onward(x, i)[k] = x[k + i - 1]
           /\ \A i \in 1..Len(x) : Onward(x, i) = <<x[i]>> \o Onward(x, i + 1) /\ x[i] \in S /\ Onward(x, i + 1) \in Seq(S)
  <1>0. Len(x) \in Nat
    OBVIOUS
  <1>1. Onward(x, 1) = x /\ Onward(x, Len(x) + 1) = <<>>
    BY <1>0, SubSeqFull, SubSeqEmpty DEF Onward
  <1>2. ASSUME NEW i \in 1..Len(x) + 1 PROVE Onward(x, i) \in Seq(S) /\ Len(Onward(x, i)) = Len(x) - i + 1
    <2>1. i - 1 \in 0..Len(x) /\ (i - 1) + 1 = i
      BY <1>0
    <2>2. SubSeq(x, (i - 1) + 1, Len(x)) \in Seq(S) /\ Len(SubSeq(x, (i - 1) + 1, Len(x))) = Len(x) - (i - 1)
      BY <2>1, CutAt
    <2> QED BY <1>0, <2>1, <2>2 DEF Onward
  <1>4. ASSUME NEW i \in 1..Len(x) + 1, NEW k \in 1..Len(x) - i + 1 PROVE Onward(x, i)[k] = x[k + i - 1]
    BY <1>0 DEF Onward
  <1>3. ASSUME NEW i \in 1..Len(x)
        PROVE  Onward(x, i) = <<x[i]>> \o Onward(x, i + 1) /\ x[i] \in S /\ Onward(x, i + 1) \in Seq(S)
    <2>1. i + 1 \in 1..Len(x) + 1 /\ x[i] \in S /\ i \in 1..Len(x) + 1
      BY <1>0
    <2>2. Onward(x, i + 1) \in Seq(S)
      BY <1>2, <2>1
    <2>3. Onward(x, i) = <<x[i]>> \o Onward(x, i + 1)
      BY <1>0 DEF Onward
    <2> QED BY <2>1, <2>2, <2>3
  <1> QED BY <1>1, <1>2, <1>3, <1>4

LEMMA FromFirst ==
    ASSUME NEW S, NEW x \in Seq(S), NEW i \in 1..Len(x)
    PROVE  Onward(x, i) = <<x[i]>> \o Onward(x, i + 1) /\ x[i] \in S /\ Onward(x, i + 1) \in Seq(S)
  BY FromIs, Zenon

\* What is left of several runs of pieces is the next run and what is left then.
LEMMA FlatFrom ==
    ASSUME NEW x \in Seq(Seq(Piece))
    PROVE  /\ Flat(Onward(x, Len(x) + 1)) = <<>> /\ Flat(Onward(x, 1)) = Flat(x)
           /\ \A i \in 1..Len(x) + 1 : Flat(Onward(x, i)) \in Seq(Piece)
           /\ \A i \in 1..Len(x) : Flat(Onward(x, i)) = x[i] \o Flat(Onward(x, i + 1)) /\ x[i] \in Seq(Piece)
                                   /\ Flat(Onward(x, i + 1)) \in Seq(Piece)
  <1>1. Flat(Onward(x, Len(x) + 1)) = <<>> /\ Flat(Onward(x, 1)) = Flat(x)
    BY FromIs, FlatNone
  <1>2. ASSUME NEW i \in 1..Len(x) + 1 PROVE Flat(Onward(x, i)) \in Seq(Piece)
    <2>1. Onward(x, i) \in Seq(Seq(Piece))
      BY FromIs
    <2> QED BY <2>1, FlatType
  <1>3. ASSUME NEW i \in 1..Len(x)
        PROVE  Flat(Onward(x, i)) = x[i] \o Flat(Onward(x, i + 1)) /\ x[i] \in Seq(Piece) /\ Flat(Onward(x, i + 1)) \in Seq(Piece)
    <2>1. x[i] \in Seq(Piece) /\ Onward(x, i + 1) \in Seq(Seq(Piece)) /\ Onward(x, i) = <<x[i]>> \o Onward(x, i + 1)
      <3>1. PICK P : P = Seq(Piece)
        OBVIOUS
      <3>2. x \in Seq(P)
        BY <3>1
      <3>3. x[i] \in P /\ Onward(x, i + 1) \in Seq(P) /\ Onward(x, i) = <<x[i]>> \o Onward(x, i + 1)
        BY <3>2, FromFirst
      <3> QED BY <3>1, <3>3, Zenon
    <2>2. PICK u \in Seq(Seq(Piece)), v \in Seq(Seq(Piece)), s \in Seq(Piece) :
             s = x[i] /\ u = <<s>> /\ v = Onward(x, i + 1)
      <3>1. PICK s \in Seq(Piece) : s = x[i]
        BY <2>1, Zenon
      <3>2. <<s>> \in Seq(Seq(Piece))
        OBVIOUS
      <3> QED BY <2>1, <3>1, <3>2, Zenon
    <2>3. Flat(u \o v) = Flat(u) \o Flat(v) /\ Flat(u) = s
      BY <2>2, FlatConcat, FlatOne
    <2>4. Flat(v) \in Seq(Piece)
      BY FlatType
    <2> QED BY <2>1, <2>2, <2>3, <2>4, Zenon
  <1> QED BY <1>1, <1>2, <1>3

\* What is left of pieces of one byte is pieces of one byte.
LEMMA BareFrom ==
    ASSUME NEW x \in Seq(Seq(Piece)), NEW i \in 1..Len(x) + 1, \A k \in i..Len(x) : Bare(x[k])
    PROVE  Bare(Flat(Onward(x, i))) /\ Flat(Onward(x, i)) \in Seq(Piece)
  <1> DEFINE y == Onward(x, i)
  <1>1. y \in Seq(Seq(Piece)) /\ Len(x) \in Nat
    BY FromIs
  <1>2. ASSUME NEW k \in 1..Len(y) PROVE Bare(y[k])
    <2>1. Len(y) = Len(x) - i + 1 /\ \A j \in 1..Len(x) - i + 1 : y[j] = x[j + i - 1]
      BY FromIs, Zenon
    <2>2. k + i - 1 \in i..Len(x) /\ y[k] = x[k + i - 1]
      BY <1>1, <2>1
    <2> QED BY <2>2
  <1> HIDE DEF y
  <1>3. Bare(Flat(y)) /\ Flat(y) \in Seq(Piece)
    BY <1>1, <1>2, BareFlat, FlatType
  <1> QED BY <1>3 DEF y

LEMMA HeadTail ==
    ASSUME NEW S, NEW p \in S, NEW r \in Seq(S)
    PROVE  <<p>> \o r # <<>> /\ (<<p>> \o r)[1] = p /\ Tail(<<p>> \o r) = r /\ <<p>> \o r \in Seq(S)
  OBVIOUS

\* The pieces of the messages from the i-th on.
PiecesFrom(t, i) == Flat(Onward(PiecesOf(t), i))

LEMMA AfterIs ==
    ASSUME NEW t \in Conversations
    PROVE  /\ Len(t.messages) \in Nat /\ PiecesFrom(t, Len(t.messages) + 1) = <<>> /\ PiecesFrom(t, 1) = Flat(PiecesOf(t))
           /\ \A i \in 1..Len(t.messages) + 1 : PiecesFrom(t, i) \in Seq(Piece) /\ (~Framed(t, i) => Bare(PiecesFrom(t, i)))
           /\ \A i \in 1..Len(t.messages) :
                 PiecesFrom(t, i) = MessagePieces(t.messages[i], Framed(t, i)) \o PiecesFrom(t, i + 1)
  <1>1. PiecesOf(t) \in Seq(Seq(Piece)) /\ Len(PiecesOf(t)) = Len(t.messages) /\ Len(t.messages) \in Nat
    BY PiecesAre, SentIs
  <1>2. /\ PiecesFrom(t, Len(t.messages) + 1) = <<>> /\ PiecesFrom(t, 1) = Flat(PiecesOf(t))
        /\ \A i \in 1..Len(t.messages) + 1 : PiecesFrom(t, i) \in Seq(Piece)
        /\ \A i \in 1..Len(t.messages) : PiecesFrom(t, i) = PiecesOf(t)[i] \o PiecesFrom(t, i + 1)
    BY <1>1, FlatFrom, Zenon DEF PiecesFrom
  <1>3. ASSUME NEW i \in 1..Len(t.messages) PROVE PiecesOf(t)[i] = MessagePieces(t.messages[i], Framed(t, i))
    BY DEF PiecesOf
  <1>4. ASSUME NEW i \in 1..Len(t.messages) + 1, ~Framed(t, i) PROVE Bare(PiecesFrom(t, i))
    <2>1. ASSUME NEW k \in i..Len(PiecesOf(t)) PROVE Bare(PiecesOf(t)[k])
      <3>1. k \in 1..Len(t.messages)
        BY <1>1
      <3>2. ~Framed(t, k) /\ Framed(t, k) \in BOOLEAN
        BY <1>1, <1>4 DEF Framed
      <3> QED BY <1>3, <3>1, <3>2, MessageRaw
    <2>2. i \in 1..Len(PiecesOf(t)) + 1
      BY <1>1
    <2> QED BY <1>1, <2>1, <2>2, BareFrom DEF PiecesFrom
  <1> QED BY <1>1, <1>2, <1>3, <1>4

\* The pieces of the headers from the j-th on, while a message is followed.
HeadersFrom(m, j) == Flat(Onward(HeaderPieces(m), j))

LEMMA HeadersFromIs ==
    ASSUME NEW m, Message(m)
    PROVE  /\ Len(m.headers) \in Nat /\ HeadersFrom(m, Len(m.headers) + 1) = <<>>
           /\ HeadersFrom(m, 1) = Flat(HeaderPieces(m))
           /\ \A j \in 1..Len(m.headers) + 1 : HeadersFrom(m, j) \in Seq(Piece)
           /\ \A j \in 1..Len(m.headers) + 1 : Lost(m, j) => Bare(HeadersFrom(m, j))
           /\ \A j \in 1..Len(m.headers) : HeadersFrom(m, j) = HeaderPiece(m, j) \o HeadersFrom(m, j + 1)
  <1>1. HeaderPieces(m) \in Seq(Seq(Piece)) /\ Len(HeaderPieces(m)) = Len(m.headers) /\ Len(m.headers) \in Nat
    BY HeaderPiecesAre DEF Message
  <1>2. /\ HeadersFrom(m, Len(m.headers) + 1) = <<>> /\ HeadersFrom(m, 1) = Flat(HeaderPieces(m))
        /\ \A j \in 1..Len(m.headers) + 1 : HeadersFrom(m, j) \in Seq(Piece)
        /\ \A j \in 1..Len(m.headers) : HeadersFrom(m, j) = HeaderPieces(m)[j] \o HeadersFrom(m, j + 1)
    BY <1>1, FlatFrom, Zenon DEF HeadersFrom
  <1>3. ASSUME NEW j \in 1..Len(m.headers) PROVE HeaderPieces(m)[j] = HeaderPiece(m, j)
    BY HeaderPiecesAre
  <1>4. ASSUME NEW j \in 1..Len(m.headers) + 1, Lost(m, j) PROVE Bare(HeadersFrom(m, j))
    <2>1. ASSUME NEW k \in j..Len(HeaderPieces(m)) PROVE Bare(HeaderPieces(m)[k])
      <3>1. k \in 1..Len(m.headers)
        BY <1>1
      <3>2. Lost(m, k)
        BY <1>1, <1>4 DEF Lost
      <3>3. m.headers[k].bytes \in Seq(Bytes)
        BY <3>1 DEF Message
      <3>4. HeaderPieces(m)[k] = Bytewise(m.headers[k].bytes)
        BY <1>3, <3>1, <3>2 DEF HeaderPiece
      <3> QED BY <3>3, <3>4, BytewiseIs
    <2>2. j \in 1..Len(HeaderPieces(m)) + 1
      BY <1>1
    <2> QED BY <1>1, <2>1, <2>2, BareFrom DEF HeadersFrom
  <1> QED BY <1>1, <1>2, <1>3, <1>4

LEMMA BodyPiecesAre ==
    ASSUME NEW m, Message(m)
    PROVE  /\ BodyPieces(m) \in Seq(Piece) /\ Bare(BodyPieces(m)) /\ Bytewise(m.body) \in Seq(Piece)
           /\ Bare(Bytewise(m.body)) /\ BodyPieces(m) = <<Single("LF")>> \o Bytewise(m.body) /\ Single("LF") \in Piece
  <1>1. m.body \in Seq(Bytes) /\ "LF" \in Bytes
    BY SomeBytes DEF Message
  <1>2. /\ <<"LF">> \o m.body \in Seq(Bytes) /\ Len(<<"LF">> \o m.body) = Len(m.body) + 1
        /\ (<<"LF">> \o m.body)[1] = "LF" /\ Len(m.body) \in Nat
        /\ \A k \in 1..Len(m.body) : (<<"LF">> \o m.body)[k + 1] = m.body[k]
    BY <1>1
  <1>3. /\ BodyPieces(m) \in Seq(Piece) /\ Bare(BodyPieces(m)) /\ Len(BodyPieces(m)) = Len(m.body) + 1
        /\ \A k \in 1..Len(m.body) + 1 : BodyPieces(m)[k] = Single((<<"LF">> \o m.body)[k])
    BY <1>2, BytewiseIs DEF BodyPieces
  <1>4. /\ Bytewise(m.body) \in Seq(Piece) /\ Bare(Bytewise(m.body)) /\ Len(Bytewise(m.body)) = Len(m.body)
        /\ \A k \in 1..Len(m.body) : Bytewise(m.body)[k] = Single(m.body[k])
    BY <1>1, BytewiseIs
  <1>5. Single("LF") \in Piece
    BY <1>1, SingleIs
  <1>6. PICK x \in Seq(Piece), y \in Seq(Piece), p \in Piece : x = BodyPieces(m) /\ y = Bytewise(m.body) /\ p = Single("LF")
    BY <1>3, <1>4, <1>5
  <1>7. x[1] = p /\ Len(x) = Len(y) + 1
    BY <1>2, <1>3, <1>4, <1>6
  <1>8. ASSUME NEW k \in 1..Len(y) PROVE x[k + 1] = y[k]
    <2>1. k \in 1..Len(m.body) /\ k + 1 \in 1..Len(m.body) + 1
      BY <1>2, <1>4, <1>6
    <2> QED BY <1>2, <1>3, <1>4, <1>6, <2>1
  <1>9. x = <<p>> \o y
    <2>1. PICK z \in Seq(Piece) : z = <<p>> \o y
      <3>1. <<p>> \o y \in Seq(Piece)
        OBVIOUS
      <3> QED BY <3>1, Zenon
    <2>3. Len(z) = Len(x) /\ z[1] = p /\ \A k \in 1..Len(y) : z[k + 1] = y[k]
      BY <1>7, <2>1
    <2>2. ASSUME NEW i \in 1..Len(x) PROVE x[i] = z[i]
      <3>1. CASE i = 1
        BY <1>7, <2>3, <3>1
      <3>2. CASE i # 1
        <4>1. i - 1 \in 1..Len(y) /\ (i - 1) + 1 = i /\ z[(i - 1) + 1] = y[i - 1]
          BY <1>7, <2>3, <3>2
        <4>2. x[(i - 1) + 1] = y[i - 1]
          BY <1>8, <4>1
        <4> QED BY <4>1, <4>2
      <3> QED BY <3>1, <3>2
    <2>4. x = z
      <3>1. Len(z) = Len(x)
        BY <2>3
      <3> QED BY <2>2, <3>1, SeqEqual, Zenon
    <2> QED BY <2>1, <2>4
  <1> QED BY <1>3, <1>4, <1>6, <1>9, Zenon

-----------------------------------------------------------------------------
(* Where the adapter is in the pieces that are left *)

\* What the headers before the j-th said of what follows the block.
Reading(a, m, j) ==
    /\ ~Lost(m, j)
    /\ a.upgrade <=> \E k \in 1..(j - 1) : m.headers[k].kind = "upgrade"
    /\ ~Breaks(m) => a.length = IF \E k \in 1..(j - 1) : m.headers[k].kind = "length" THEN Len(m.body) ELSE 0

AtLine(a, t, B, i) ==
    /\ a.state = "RequestLine" /\ i \in 1..Len(t.messages) + 1 /\ Framed(t, i)
    /\ B = PiecesFrom(t, i)

AtHeader(a, t, B, i, j) ==
    /\ a.state = "Headers" /\ i \in 1..Len(t.messages) /\ Framed(t, i)
    /\ j \in 1..Len(t.messages[i].headers) + 1 /\ Reading(a, t.messages[i], j)
    /\ B = HeadersFrom(t.messages[i], j) \o (BodyPieces(t.messages[i]) \o PiecesFrom(t, i + 1))

InBody(a, t, B, i, k) ==
    /\ a.state = "Body" /\ i \in 1..Len(t.messages) /\ Framed(t, i + 1)
    /\ k \in 1..Len(t.messages[i].body) /\ a.length = Len(t.messages[i].body) - k + 1
    /\ B = Onward(Bytewise(t.messages[i].body), k) \o PiecesFrom(t, i + 1)

Ahead(a, t, B) ==
    \/ \E i \in 1..Len(t.messages) + 1 : AtLine(a, t, B, i)
    \/ \E i \in 1..Len(t.messages) : \E j \in 1..Len(t.messages[i].headers) + 1 : AtHeader(a, t, B, i, j)
    \/ \E i \in 1..Len(t.messages) : \E k \in 1..Len(t.messages[i].body) : InBody(a, t, B, i, k)
    \/ a.state = "PassThrough" /\ Bare(B)

\* A piece is under way, or none is left.
Begun(line, B) ==
    IF B = <<>> THEN line = <<>> ELSE Len(line) < Len(B[1].raw) /\ line = SubSeq(B[1].raw, 1, Len(line))

\* What is left is a message with its request line, a header line first, the
\* empty line that ends its headers or a byte of its body.
LineFirst(t, B, i) ==
    LET m == t.messages[i]
    IN /\ i \in 1..Len(t.messages) /\ Message(m) /\ B[1] = LinePiece(m) /\ LinePiece(m) \in Piece
       /\ Tail(B) = HeadersFrom(m, 1) \o (BodyPieces(m) \o PiecesFrom(t, i + 1))

HeaderFirst(t, B, i, j) ==
    LET m == t.messages[i]
        b == m.headers[j].bytes
    IN /\ Message(m) /\ b \in Seq(Bytes) /\ j \in 1..Len(m.headers)
       /\ B # <<>> /\ B[1] = [raw |-> b, owed |-> b] /\ B[1] \in Piece
       /\ Tail(B) = HeadersFrom(m, j + 1) \o (BodyPieces(m) \o PiecesFrom(t, i + 1))

EmptyFirst(t, B, i, j) ==
    LET m == t.messages[i]
    IN /\ Message(m) /\ j = Len(m.headers) + 1 /\ B # <<>> /\ B[1] = Single("LF") /\ B[1] \in Piece
       /\ Tail(B) = Bytewise(m.body) \o PiecesFrom(t, i + 1)

BodyFirst(t, B, i, k) ==
    LET m == t.messages[i]
    IN /\ Message(m) /\ m.body[k] \in Bytes /\ B # <<>> /\ B[1] = Single(m.body[k]) /\ B[1] \in Piece
       /\ Tail(B) = Onward(Bytewise(m.body), k + 1) \o PiecesFrom(t, i + 1)

LEMMA LineNext ==
    ASSUME NEW t \in Conversations, NEW a, NEW B, NEW i, AtLine(a, t, B, i), B # <<>>
    PROVE  LineFirst(t, B, i)
  <1>0. PICK m : m = t.messages[i]
    OBVIOUS
  <1>1. i \in 1..Len(t.messages)
    BY AfterIs DEF AtLine
  <1>2. Message(m)
    BY <1>0, <1>1, MessageOf
  <1>3. i + 1 \in 1..Len(t.messages) + 1 /\ Framed(t, i) = TRUE
    BY <1>1, AfterIs DEF AtLine, Framed
  <1>4. B = ((<<LinePiece(m)>> \o HeadersFrom(m, 1)) \o BodyPieces(m)) \o PiecesFrom(t, i + 1)
    <2>1. B = MessagePieces(m, TRUE) \o PiecesFrom(t, i + 1)
      BY <1>0, <1>1, <1>3, AfterIs DEF AtLine
    <2>2. MessagePieces(m, TRUE) = (<<LinePiece(m)>> \o HeadersFrom(m, 1)) \o BodyPieces(m)
      BY <1>2, FramedPieces, HeadersFromIs
    <2> QED BY <2>1, <2>2
  <1>5. PICK p \in Piece, h \in Seq(Piece), b \in Seq(Piece), r \in Seq(Piece) :
           p = LinePiece(m) /\ h = HeadersFrom(m, 1) /\ b = BodyPieces(m) /\ r = PiecesFrom(t, i + 1)
    <2>1. HeadersFrom(m, 1) \in Seq(Piece)
      BY <1>2, HeadersFromIs
    <2>2. PiecesFrom(t, i + 1) \in Seq(Piece)
      BY <1>3, AfterIs
    <2> QED BY <1>2, <2>1, <2>2, LinePieceIs, BodyPiecesAre
  <1>6. ((<<p>> \o h) \o b) \o r = <<p>> \o (h \o (b \o r))
    <2>1. <<p>> \in Seq(Piece) /\ <<p>> \o h \in Seq(Piece) /\ b \o r \in Seq(Piece)
      OBVIOUS
    <2>2. ((<<p>> \o h) \o b) \o r = (<<p>> \o h) \o (b \o r)
      BY <2>1, Regroup, SMTT(30)
    <2>3. (<<p>> \o h) \o (b \o r) = <<p>> \o (h \o (b \o r))
      BY <2>1, Regroup
    <2> QED BY <2>2, <2>3
  <1>7. PICK q \in Seq(Piece) : q = h \o (b \o r)
    <2>1. h \o (b \o r) \in Seq(Piece)
      OBVIOUS
    <2> QED BY <2>1, Zenon
  <1>9. B = <<p>> \o q
    BY <1>4, <1>5, <1>6, <1>7, Zenon
  <1>8. B[1] = p /\ Tail(B) = h \o (b \o r)
    BY <1>7, <1>9, HeadTail
  <1>10. Tail(B) = HeadersFrom(m, 1) \o (BodyPieces(m) \o PiecesFrom(t, i + 1)) /\ B[1] = LinePiece(m) /\ LinePiece(m) \in Piece
    BY <1>5, <1>8, Zenon
  <1> QED BY <1>0, <1>1, <1>2, <1>10, Zenon DEF LineFirst

LEMMA HeaderNext ==
    ASSUME NEW t \in Conversations, NEW a, NEW B, NEW i, NEW j, AtHeader(a, t, B, i, j),
           j <= Len(t.messages[i].headers)
    PROVE  HeaderFirst(t, B, i, j)
  <1>0. PICK m, b : m = t.messages[i] /\ b = m.headers[j].bytes
    OBVIOUS
  <1>1. Message(m) /\ i + 1 \in 1..Len(t.messages) + 1
    BY <1>0, MessageOf, AfterIs DEF AtHeader
  <1>2. j \in 1..Len(m.headers) /\ ~Lost(m, j) /\ B = HeadersFrom(m, j) \o (BodyPieces(m) \o PiecesFrom(t, i + 1))
    <2>1. /\ j \in 1..Len(m.headers) + 1 /\ Reading(a, m, j)
          /\ B = HeadersFrom(m, j) \o (BodyPieces(m) \o PiecesFrom(t, i + 1))
      BY <1>0 DEF AtHeader
    <2>2. Len(m.headers) \in Nat
      BY <1>1 DEF Message
    <2>4. j \in 1..Len(m.headers)
      BY <1>0, <2>1, <2>2
    <2> QED BY <2>1, <2>4 DEF Reading
  <1>3. b \in Seq(Bytes) /\ b # <<>> /\ b \in Seq(Written)
    <2>1. b \in Seq(Bytes) /\ IsLine(b)
      BY <1>0, <1>1, <1>2 DEF Message, IsMessage
    <2> QED BY <2>1, LineIs, SomeBytes
  <1> DEFINE p == [raw |-> b, owed |-> b]
  <1>4. p \in Piece
    BY <1>3 DEF Piece
  <1>5. HeaderPiece(m, j) = <<p>>
    BY <1>0, <1>2 DEF HeaderPiece, Whole
  <1>6. HeadersFrom(m, j) = <<p>> \o HeadersFrom(m, j + 1)
    BY <1>1, <1>2, <1>5, HeadersFromIs
  <1> HIDE DEF p
  <1>7. PICK h \in Seq(Piece), r \in Seq(Piece) : h = HeadersFrom(m, j + 1) /\ r = BodyPieces(m) \o PiecesFrom(t, i + 1)
    <2>1. j + 1 \in 1..Len(m.headers) + 1
      BY <1>1, <1>2 DEF Message
    <2>2. HeadersFrom(m, j + 1) \in Seq(Piece)
      BY <1>1, <2>1, HeadersFromIs
    <2>3. PiecesFrom(t, i + 1) \in Seq(Piece) /\ BodyPieces(m) \in Seq(Piece)
      BY <1>1, AfterIs, BodyPiecesAre
    <2>4. BodyPieces(m) \o PiecesFrom(t, i + 1) \in Seq(Piece)
      BY <2>3
    <2> QED BY <2>2, <2>4
  <1>8. <<p>> \in Seq(Piece) /\ h \o r \in Seq(Piece)
    BY <1>4
  <1>9. (<<p>> \o h) \o r = <<p>> \o (h \o r)
    BY <1>8, Regroup
  <1>10. B = <<p>> \o (h \o r)
    BY <1>2, <1>6, <1>7, <1>9, Zenon
  <1>11. B # <<>> /\ B[1] = p /\ Tail(B) = h \o r
    BY <1>4, <1>8, <1>10, HeadTail
  <1>12. B[1] = [raw |-> b, owed |-> b]
    BY <1>11 DEF p
  <1>13. Tail(B) = HeadersFrom(m, j + 1) \o (BodyPieces(m) \o PiecesFrom(t, i + 1)) /\ B[1] \in Piece
    BY <1>4, <1>7, <1>11, Zenon
  <1> QED BY <1>0, <1>1, <1>2, <1>3, <1>11, <1>12, <1>13, Zenon DEF HeaderFirst

LEMMA BlockNext ==
    ASSUME NEW t \in Conversations, NEW a, NEW B, NEW i, NEW j, AtHeader(a, t, B, i, j),
           ~(j <= Len(t.messages[i].headers))
    PROVE  EmptyFirst(t, B, i, j)
  <1>0. PICK m : m = t.messages[i]
    OBVIOUS
  <1>1. Message(m) /\ i + 1 \in 1..Len(t.messages) + 1
    BY <1>0, MessageOf, AfterIs DEF AtHeader
  <1>2. j = Len(m.headers) + 1 /\ B = HeadersFrom(m, j) \o (BodyPieces(m) \o PiecesFrom(t, i + 1))
    <2>1. j \in 1..Len(m.headers) + 1 /\ B = HeadersFrom(m, j) \o (BodyPieces(m) \o PiecesFrom(t, i + 1))
      BY <1>0 DEF AtHeader
    <2>2. Len(m.headers) \in Nat
      BY <1>1 DEF Message
    <2>3. j = Len(m.headers) + 1
      <3>1. PICK n \in Nat : n = Len(m.headers)
        BY <2>2
      <3>2. j \in 1..n + 1 /\ ~(j <= n)
        BY <1>0, <2>1, <3>1
      <3> QED BY <3>1, <3>2
    <2> QED BY <2>1, <2>3
  <1>3. HeadersFrom(m, j) = <<>>
    BY <1>1, <1>2, HeadersFromIs
  <1>4. PICK p \in Piece, b \in Seq(Piece), r \in Seq(Piece) :
           p = Single("LF") /\ b = Bytewise(m.body) /\ r = PiecesFrom(t, i + 1) /\ BodyPieces(m) = <<p>> \o b
    BY <1>1, AfterIs, BodyPiecesAre
  <1>5. <<p>> \in Seq(Piece) /\ b \o r \in Seq(Piece) /\ (<<p>> \o b) \o r \in Seq(Piece)
    OBVIOUS
  <1>6. (<<p>> \o b) \o r = <<p>> \o (b \o r)
    BY <1>5, Regroup
  <1>7. <<>> \o ((<<p>> \o b) \o r) = (<<p>> \o b) \o r
    BY <1>5
  <1>8. B = <<p>> \o (b \o r)
    BY <1>2, <1>3, <1>4, <1>6, <1>7, Zenon
  <1>9. B # <<>> /\ B[1] = p /\ Tail(B) = b \o r
    BY <1>5, <1>8, HeadTail
  <1>10. Tail(B) = Bytewise(m.body) \o PiecesFrom(t, i + 1) /\ B[1] = Single("LF") /\ B[1] \in Piece
    BY <1>4, <1>9, Zenon
  <1> QED BY <1>0, <1>1, <1>2, <1>9, <1>10, Zenon DEF EmptyFirst

LEMMA BodyNext ==
    ASSUME NEW t \in Conversations, NEW a, NEW B, NEW i, NEW k, InBody(a, t, B, i, k)
    PROVE  BodyFirst(t, B, i, k)
  <1>0. PICK m : m = t.messages[i]
    OBVIOUS
  <1>1. Message(m) /\ i + 1 \in 1..Len(t.messages) + 1
    BY <1>0, MessageOf, AfterIs DEF InBody
  <1>2. k \in 1..Len(m.body) /\ B = Onward(Bytewise(m.body), k) \o PiecesFrom(t, i + 1)
    BY <1>0 DEF InBody
  <1>3. m.body \in Seq(Bytes) /\ m.body[k] \in Bytes
    BY <1>1, <1>2 DEF Message
  <1>4. PICK x \in Seq(Piece), p \in Piece : x = Bytewise(m.body) /\ Len(x) = Len(m.body) /\ p = Single(m.body[k]) /\ x[k] = p
    BY <1>2, <1>3, BytewiseIs, SingleIs
  <1>5. Onward(x, k) = <<p>> \o Onward(x, k + 1) /\ Onward(x, k + 1) \in Seq(Piece)
    BY <1>2, <1>4, FromFirst
  <1>6. PICK b \in Seq(Piece), r \in Seq(Piece) : b = Onward(x, k + 1) /\ r = PiecesFrom(t, i + 1)
    BY <1>1, <1>5, AfterIs
  <1>7. <<p>> \in Seq(Piece) /\ b \o r \in Seq(Piece)
    OBVIOUS
  <1>8. (<<p>> \o b) \o r = <<p>> \o (b \o r)
    BY <1>7, Regroup
  <1>9. B = <<p>> \o (b \o r)
    BY <1>2, <1>4, <1>5, <1>6, <1>8, Zenon
  <1>10. B # <<>> /\ B[1] = p /\ Tail(B) = b \o r
    BY <1>7, <1>9, HeadTail
  <1> QED BY <1>0, <1>1, <1>3, <1>4, <1>6, <1>10 DEF BodyFirst

-----------------------------------------------------------------------------
(* A line that is whole *)

LEMMA LineSet ==
    ASSUME NEW a \in Adapters, NEW w \in Seq(Bytes)
    PROVE  LET c == [a EXCEPT !.line = w]
           IN /\ c \in Adapters /\ c.line = w
              /\ c.state = a.state /\ c.length = a.length /\ c.upgrade = a.upgrade /\ c.out = a.out
  BY DEF Adapters

\* What is passed on when a piece is over, and where the adapter is then.
PassesOn(t, a, g, B) ==
    g.out = a.out \o B[1].owed /\ g.line = <<>> /\ g.state # "Preface" /\ Ahead(g, t, Tail(B))

LEMMA RequestFinishes ==
    ASSUME NEW t \in Conversations, NEW a \in Adapters, NEW B, NEW i, AtLine(a, t, B, i), B # <<>>
    PROVE  PassesOn(t, a, FinishLine([a EXCEPT !.line = B[1].raw]), B)
  <1>0. PICK m : m = t.messages[i]
    OBVIOUS
  <1> DEFINE g == FinishLine([a EXCEPT !.line = B[1].raw])
             h == [state |-> "Headers", line |-> <<>>, length |-> 0, upgrade |-> FALSE, out |-> a.out \o B[1].owed]
  <1>1. /\ i \in 1..Len(t.messages) /\ Message(m) /\ B[1] = LinePiece(m)
        /\ Tail(B) = HeadersFrom(m, 1) \o (BodyPieces(m) \o PiecesFrom(t, i + 1))
    BY <1>0, LineNext DEF LineFirst
  <1>2. Framed(t, i) /\ a.state = "RequestLine" /\ Len(m.headers) \in Nat
    BY <1>1 DEF AtLine, Message
  <1>3. g = h
    <2>1. [a EXCEPT !.line = B[1].raw].state = "RequestLine" /\ [a EXCEPT !.line = B[1].raw].line = B[1].raw
          /\ [a EXCEPT !.line = B[1].raw].out = a.out
      BY <1>2 DEF Adapters
    <2>2. B[1].owed = NormalizeRequestLine(B[1].raw)
      BY <1>1 DEF LinePiece
    <2> QED BY <2>1, <2>2 DEF FinishLine
  <1>4. Reading(h, m, 1)
    BY DEF Reading, Lost
  <1>5. AtHeader(h, t, Tail(B), i, 1) /\ 1 \in 1..Len(m.headers) + 1
    <2>1. 1 \in 1..Len(m.headers) + 1 /\ h.state = "Headers"
      BY <1>2
    <2> HIDE DEF h
    <2> QED BY <1>0, <1>1, <1>2, <1>4, <2>1, Zenon DEF AtHeader
  <1>6. Ahead(h, t, Tail(B))
    BY <1>0, <1>1, <1>5, Zenon DEF Ahead
  <1>7. h.out = a.out \o B[1].owed /\ h.line = <<>> /\ h.state # "Preface"
    OBVIOUS
  <1> HIDE DEF g, h
  <1> QED BY <1>3, <1>6, <1>7 DEF PassesOn, g

LEMMA OneName ==
    ASSUME NEW line, NEW x, NEW y, HeaderIs(line, x), HeaderIs(line, y)
    PROVE  x = y
  <1>1. PICK s : s = <<x>> /\ s = <<y>>
    BY DEF HeaderIs
  <1> QED BY <1>1

\* What the adapter reads of a header is what its kind says.
LEMMA KindIs ==
    ASSUME NEW m, Message(m), NEW j \in 1..Len(m.headers)
    PROVE  LET w == m.headers[j].bytes
               k == m.headers[j].kind
               length == HeaderIs(w, "content-length")
           IN /\ w \notin {<<"LF">>, <<"CR", "LF">>}
              /\ (HeaderIs(w, "transfer-encoding") \/ (length /\ LengthIn(w) = <<>>)) <=> k \in {"chunked", "unreadable"}
              /\ k \notin {"chunked", "unreadable"} => (length <=> k = "length") /\ (HeaderIs(w, "upgrade") <=> k = "upgrade")
  <1> DEFINE w == m.headers[j].bytes
             k == m.headers[j].kind
  <1>1. w \notin {<<"LF">>, <<"CR", "LF">>} /\ k = Kind(w)
    BY DEF Message, IsMessage
  <1> HIDE DEF w, k
  <1>2. ~(HeaderIs(w, "content-length") /\ HeaderIs(w, "upgrade"))
    BY OneName
  <1>3. (HeaderIs(w, "transfer-encoding") \/ (HeaderIs(w, "content-length") /\ LengthIn(w) = <<>>))
        <=> k \in {"chunked", "unreadable"}
    BY <1>1 DEF Kind
  <1>4. k \notin {"chunked", "unreadable"} =>
          (HeaderIs(w, "content-length") <=> k = "length") /\ (HeaderIs(w, "upgrade") <=> k = "upgrade")
    BY <1>1, <1>2 DEF Kind
  <1> QED BY <1>1, <1>3, <1>4 DEF w, k

\* A message whose framing can be followed says how long its body is.
LEMMA LengthIs ==
    ASSUME NEW m, Message(m), ~Breaks(m)
    PROVE  /\ \A j \in 1..Len(m.headers) : m.headers[j].kind = "length" => LengthIn(m.headers[j].bytes)[1] = Len(m.body)
           /\ (\A j \in 1..Len(m.headers) : m.headers[j].kind # "length") => m.body = <<>>
  <1>1. Lengths(m) = {Len(m.body)} \/ (Lengths(m) = {} /\ m.body = <<>>)
    BY DEF Message, IsMessage
  <1>2. ASSUME NEW j \in 1..Len(m.headers), m.headers[j].kind = "length"
        PROVE  LengthIn(m.headers[j].bytes)[1] \in Lengths(m)
    BY <1>2, Zenon DEF Lengths
  <1>3. ASSUME \A j \in 1..Len(m.headers) : m.headers[j].kind # "length"
        PROVE  Lengths(m) = {}
    BY <1>3, Zenon DEF Lengths
  <1>4. ASSUME NEW j \in 1..Len(m.headers), m.headers[j].kind = "length"
        PROVE  LengthIn(m.headers[j].bytes)[1] = Len(m.body)
    BY <1>1, <1>2, <1>4, Zenon
  <1>5. ASSUME \A j \in 1..Len(m.headers) : m.headers[j].kind # "length" PROVE m.body = <<>>
    BY <1>1, <1>3, <1>5, Zenon
  <1> QED BY <1>4, <1>5

LEMMA HeaderFinishes ==
    ASSUME NEW t \in Conversations, NEW a \in Adapters, NEW B, NEW i, NEW j, AtHeader(a, t, B, i, j),
           j <= Len(t.messages[i].headers)
    PROVE  PassesOn(t, a, FinishLine([a EXCEPT !.line = B[1].raw]), B)
  <1>0. PICK m, w, k : m = t.messages[i] /\ w = m.headers[j].bytes /\ k = m.headers[j].kind
    OBVIOUS
  <1> DEFINE c == [a EXCEPT !.line = B[1].raw]
             g == FinishLine(c)
             length == HeaderIs(w, "content-length")
  <1>1. /\ Message(m) /\ w \in Seq(Bytes) /\ j \in 1..Len(m.headers) /\ B[1] = [raw |-> w, owed |-> w]
        /\ Tail(B) = HeadersFrom(m, j + 1) \o (BodyPieces(m) \o PiecesFrom(t, i + 1))
    <2>1. HeaderFirst(t, B, i, j)
      BY HeaderNext, Zenon
    <2> QED BY <1>0, <2>1 DEF HeaderFirst
  <1>2. /\ a.state = "Headers" /\ i \in 1..Len(t.messages) /\ Framed(t, i) /\ Reading(a, m, j)
        /\ Len(m.headers) \in Nat
    BY <1>0, <1>1 DEF AtHeader, Message
  <1>3. /\ w \notin {<<"LF">>, <<"CR", "LF">>}
        /\ (HeaderIs(w, "transfer-encoding") \/ (length /\ LengthIn(w) = <<>>)) <=> k \in {"chunked", "unreadable"}
        /\ k \notin {"chunked", "unreadable"} => (length <=> k = "length") /\ (HeaderIs(w, "upgrade") <=> k = "upgrade")
    BY <1>0, <1>1, KindIs
  <1>4. /\ c.state = "Headers" /\ c.line = w /\ c.out = a.out /\ c.length = a.length /\ c.upgrade = a.upgrade
        /\ c \in Adapters /\ B[1].owed = w
    <2>1. B[1].raw = w /\ B[1].owed = w
      BY <1>1
    <2> QED BY <1>1, <1>2, <2>1, LineSet
  <1>5. j + 1 \in 1..Len(m.headers) + 1 /\ i + 1 \in 1..Len(t.messages) + 1
    <2>1. Len(t.messages) \in Nat
      BY SentIs
    <2>2. i + 1 \in 1..Len(t.messages) + 1
      BY <1>2, <2>1
    <2>3. Len(m.headers) \in Nat /\ j \in 1..Len(m.headers)
      BY <1>1, <1>2
    <2>4. j + 1 \in 1..Len(m.headers) + 1
      BY <2>3
    <2> QED BY <2>2, <2>4
  <1> HIDE DEF c
  <1>6. CASE k \in {"chunked", "unreadable"}
    <2>1. g = GiveUp(c)
      BY <1>3, <1>4, <1>6 DEF FinishLine
    <2>2. g.state = "PassThrough" /\ g.line = <<>> /\ g.out = c.out \o c.line
      BY <1>4, <2>1 DEF GiveUp, Adapters
    <2>3. Lost(m, j + 1) /\ Breaks(m)
      BY <1>0, <1>1, <1>6, SMTT(30) DEF Lost, Breaks
    <2>4. Bare(HeadersFrom(m, j + 1)) /\ HeadersFrom(m, j + 1) \in Seq(Piece)
      BY <1>1, <1>5, <2>3, HeadersFromIs
    <2>5. ~Framed(t, i + 1)
      BY <1>0, <1>2, <2>3 DEF Framed
    <2>6. Bare(PiecesFrom(t, i + 1)) /\ PiecesFrom(t, i + 1) \in Seq(Piece)
      BY <1>5, <2>5, AfterIs
    <2>7. Bare(BodyPieces(m)) /\ BodyPieces(m) \in Seq(Piece)
      BY <1>1, BodyPiecesAre
    <2>8. Bare(BodyPieces(m) \o PiecesFrom(t, i + 1)) /\ BodyPieces(m) \o PiecesFrom(t, i + 1) \in Seq(Piece)
      BY <2>6, <2>7, BareConcat
    <2>9. Bare(Tail(B))
      BY <1>1, <2>4, <2>8, BareConcat
    <2> HIDE DEF g
    <2> QED BY <1>4, <2>2, <2>9 DEF PassesOn, Ahead, g, c
  <1>7. CASE k \notin {"chunked", "unreadable"}
    <2> DEFINE h == [c EXCEPT !.out = @ \o c.line, !.line = <<>>,
                              !.length = IF length THEN LengthIn(c.line)[1] ELSE @,
                              !.upgrade = @ \/ HeaderIs(c.line, "upgrade")]
    <2>1. g = h
      BY <1>3, <1>4, <1>7 DEF FinishLine
    <2>2. /\ h.state = "Headers" /\ h.line = <<>> /\ h.out = a.out \o w
          /\ h.length = (IF k = "length" THEN LengthIn(w)[1] ELSE a.length)
          /\ h.upgrade <=> (a.upgrade \/ k = "upgrade")
      BY <1>3, <1>4, <1>7 DEF Adapters
    <2> HIDE DEF h
    <2>3. Reading(h, m, j + 1)
      <3>0. \A q \in 1..((j + 1) - 1) : q \in 1..(j - 1) \/ q = j
        BY <1>1
      <3>4. (\A q \in 1..(j - 1) : q \in 1..((j + 1) - 1)) /\ j \in 1..((j + 1) - 1)
        BY <1>1
      <3>1. ~Lost(m, j + 1)
        BY <1>0, <1>2, <1>7, <3>0, Zenon DEF Reading, Lost
      <3>2. h.upgrade <=> \E q \in 1..((j + 1) - 1) : m.headers[q].kind = "upgrade"
        BY <1>0, <1>2, <2>2, <3>0, <3>4, Zenon DEF Reading
      <3>3. ASSUME ~Breaks(m)
            PROVE  h.length = IF \E q \in 1..((j + 1) - 1) : m.headers[q].kind = "length" THEN Len(m.body) ELSE 0
        <4>1. a.length = IF \E q \in 1..(j - 1) : m.headers[q].kind = "length" THEN Len(m.body) ELSE 0
          BY <1>2, <3>3 DEF Reading
        <4>2. CASE k = "length"
          <5>1. LengthIn(w)[1] = Len(m.body)
            BY <1>0, <1>1, <3>3, <4>2, LengthIs
          <5>2. \E q \in 1..((j + 1) - 1) : m.headers[q].kind = "length"
            BY <1>0, <3>4, <4>2
          <5> QED BY <2>2, <4>2, <5>1, <5>2
        <4>3. CASE k # "length"
          <5>1. (\E q \in 1..((j + 1) - 1) : m.headers[q].kind = "length")
                  <=> (\E q \in 1..(j - 1) : m.headers[q].kind = "length")
            BY <1>0, <3>0, <3>4, <4>3, Zenon
          <5> QED BY <2>2, <4>1, <4>3, <5>1
        <4> QED BY <4>2, <4>3
      <3> QED BY <3>1, <3>2, <3>3 DEF Reading
    <2>4. AtHeader(h, t, Tail(B), i, j + 1)
      BY <1>0, <1>1, <1>2, <1>5, <2>2, <2>3, Zenon DEF AtHeader
    <2>5. Ahead(h, t, Tail(B))
      BY <1>0, <1>2, <1>5, <2>4, Zenon DEF Ahead
    <2> HIDE DEF g
    <2> QED BY <1>4, <2>1, <2>2, <2>5 DEF PassesOn, g, c
  <1> QED BY <1>6, <1>7

LEMMA BlockFinishes ==
    ASSUME NEW t \in Conversations, NEW a \in Adapters, NEW B, NEW i, NEW j, AtHeader(a, t, B, i, j),
           ~(j <= Len(t.messages[i].headers))
    PROVE  PassesOn(t, a, FinishLine([a EXCEPT !.line = B[1].raw]), B)
  <1>0. PICK m : m = t.messages[i]
    OBVIOUS
  <1> DEFINE c == [a EXCEPT !.line = B[1].raw]
             g == FinishLine(c)
  <1>1. /\ Message(m) /\ j = Len(m.headers) + 1 /\ B[1] = Single("LF")
        /\ Tail(B) = Bytewise(m.body) \o PiecesFrom(t, i + 1)
    <2>1. EmptyFirst(t, B, i, j)
      BY BlockNext, Zenon
    <2> QED BY <1>0, <2>1 DEF EmptyFirst
  <1>2. /\ a.state = "Headers" /\ i \in 1..Len(t.messages) /\ Framed(t, i) /\ Reading(a, m, j)
        /\ Len(m.headers) \in Nat /\ m.body \in Seq(Bytes)
    <2>1. a.state = "Headers" /\ i \in 1..Len(t.messages) /\ Framed(t, i) /\ Reading(a, m, j)
      BY <1>0 DEF AtHeader
    <2> QED BY <1>1, <2>1, Zenon DEF Message
  <1>3. /\ c.state = "Headers" /\ c.line = <<"LF">> /\ c.out = a.out /\ c.length = a.length /\ c.upgrade = a.upgrade
        /\ B[1].owed = <<"LF">> /\ c \in Adapters
    <2>1. B[1].raw = <<"LF">> /\ B[1].owed = <<"LF">> /\ <<"LF">> \in Seq(Bytes)
      BY <1>1, SomeBytes DEF Single
    <2> QED BY <1>2, <2>1, LineSet
  <1>4. i + 1 \in 1..Len(t.messages) + 1
    BY <1>2, AfterIs
  <1>5. PiecesFrom(t, i + 1) \in Seq(Piece) /\ (~Framed(t, i + 1) => Bare(PiecesFrom(t, i + 1)))
    BY <1>4, AfterIs
  <1>6. Bytewise(m.body) \in Seq(Piece) /\ Bare(Bytewise(m.body)) /\ Len(Bytewise(m.body)) = Len(m.body)
    BY <1>2, BytewiseIs
  <1>7. g = HeadersEnd(c)
    <2> HIDE DEF c
    <2>1. Colon(c.line) = {}
      BY <1>3 DEF Colon
    <2>2. \A name : ~HeaderIs(c.line, name)
      BY <2>1, Zenon DEF HeaderIs
    <2>3. c.line \in {<<"LF">>, <<"CR", "LF">>} /\ c.state # "RequestLine"
      BY <1>3
    <2> QED BY <2>2, <2>3 DEF FinishLine
  <1>8. /\ g.out = a.out \o B[1].owed /\ g.line = <<>> /\ g.length = a.length
        /\ g.state = IF a.upgrade THEN "PassThrough" ELSE IF a.length = 0 THEN "RequestLine" ELSE "Body"
    <2>1. g = [c EXCEPT !.out = @ \o c.line, !.line = <<>>,
                        !.state = IF c.upgrade THEN "PassThrough" ELSE IF c.length = 0 THEN "RequestLine" ELSE "Body"]
      BY <1>7 DEF HeadersEnd
    <2> HIDE DEF c, g
    <2> QED BY <1>3, <2>1 DEF Adapters
  <1> HIDE DEF c, g
  <1>9. Breaks(m) <=> a.upgrade
    <2>1. (j - 1) = Len(m.headers)
      BY <1>1, <1>2
    <2>2. ~(\E q \in 1..Len(m.headers) : m.headers[q].kind \in {"chunked", "unreadable"})
      BY <1>2, <2>1 DEF Reading, Lost
    <2>3. a.upgrade <=> \E q \in 1..Len(m.headers) : m.headers[q].kind = "upgrade"
      BY <1>2, <2>1 DEF Reading
    <2> QED BY <2>2, <2>3 DEF Breaks
  <1>10. Framed(t, i + 1) <=> ~Breaks(m)
    <2>1. \A q \in 1..((i + 1) - 1) : q \in 1..(i - 1) \/ q = i
      BY <1>2, AfterIs
    <2>2. i \in 1..((i + 1) - 1)
      BY <1>2, AfterIs
    <2> QED BY <1>0, <1>2, <2>1, <2>2, Zenon DEF Framed
  <1>11. CASE a.upgrade
    <2>1. Bare(Tail(B))
      BY <1>1, <1>5, <1>6, <1>9, <1>10, <1>11, BareConcat
    <2> QED BY <1>8, <1>11, <2>1 DEF PassesOn, Ahead, g, c
  <1>12. CASE ~a.upgrade
    <2>1. ~Breaks(m) /\ Framed(t, i + 1)
      BY <1>9, <1>10, <1>12
    <2>2. a.length = Len(m.body)
      <3>1. (j - 1) = Len(m.headers)
        BY <1>1, <1>2
      <3>2. a.length = IF \E q \in 1..Len(m.headers) : m.headers[q].kind = "length" THEN Len(m.body) ELSE 0
        BY <1>2, <2>1, <3>1 DEF Reading
      <3>3. (\A q \in 1..Len(m.headers) : m.headers[q].kind # "length") => m.body = <<>>
        BY <1>1, <2>1, LengthIs
      <3> QED BY <3>2, <3>3
    <2>3. CASE a.length = 0
      <3>1. Len(m.body) = 0 /\ g.state = "RequestLine"
        BY <1>8, <1>12, <2>2, <2>3
      <3>2. Bytewise(m.body) = <<>>
        BY <1>6, <3>1
      <3>3. Tail(B) = PiecesFrom(t, i + 1)
        BY <1>1, <1>5, <3>2
      <3>4. AtLine(g, t, Tail(B), i + 1)
        BY <1>4, <2>1, <3>1, <3>3 DEF AtLine
      <3>5. Ahead(g, t, Tail(B))
        BY <1>4, <3>4, Zenon DEF Ahead
      <3> QED BY <1>8, <3>1, <3>5 DEF PassesOn, g, c
    <2>4. CASE a.length # 0
      <3>1. Len(m.body) \in Nat
        BY <1>2
      <3>2. g.state = "Body" /\ 1 \in 1..Len(m.body) /\ g.length = Len(m.body) - 1 + 1
        BY <1>8, <1>12, <2>2, <2>4, <3>1
      <3>3. Onward(Bytewise(m.body), 1) = Bytewise(m.body)
        BY <1>6, FromIs
      <3>4. Tail(B) = Onward(Bytewise(m.body), 1) \o PiecesFrom(t, i + 1)
        BY <1>1, <3>3
      <3>5. InBody(g, t, Tail(B), i, 1)
        BY <1>0, <1>2, <2>1, <3>2, <3>4, Zenon DEF InBody
      <3>6. Ahead(g, t, Tail(B))
        BY <1>0, <1>2, <3>2, <3>5, Zenon DEF Ahead
      <3> QED BY <1>8, <3>2, <3>6 DEF PassesOn, g, c
    <2> QED BY <2>3, <2>4
  <1> QED BY <1>11, <1>12

-----------------------------------------------------------------------------
(* The next byte *)

LEMMA AheadSame ==
    ASSUME NEW t, NEW a, NEW g, NEW B, Ahead(a, t, B),
           g.state = a.state, g.length = a.length, g.upgrade = a.upgrade
    PROVE  Ahead(g, t, B)
  <1>1. \A m, j : Reading(a, m, j) => Reading(g, m, j)
    BY DEF Reading
  <1>2. \A i : AtLine(a, t, B, i) => AtLine(g, t, B, i)
    BY DEF AtLine
  <1>3. \A i, j : AtHeader(a, t, B, i, j) => AtHeader(g, t, B, i, j)
    BY <1>1 DEF AtHeader
  <1>4. \A i, k : InBody(a, t, B, i, k) => InBody(g, t, B, i, k)
    BY DEF InBody
  <1> QED BY <1>2, <1>3, <1>4, Zenon DEF Ahead

\* A line that is whole is passed on, and is all there is of its piece.
LEMMA LineFinishes ==
    ASSUME NEW t \in Conversations, NEW a \in Adapters, NEW B, B # <<>>, Ahead(a, t, B),
           a.state \in {"RequestLine", "Headers"}
    PROVE  /\ B[1].raw \in Seq(Bytes) /\ IsLine(B[1].raw)
           /\ PassesOn(t, a, FinishLine([a EXCEPT !.line = B[1].raw]), B)
  <1>1. \/ \E i \in 1..Len(t.messages) + 1 : AtLine(a, t, B, i)
        \/ \E i \in 1..Len(t.messages) : \E j \in 1..Len(t.messages[i].headers) + 1 : AtHeader(a, t, B, i, j)
    BY DEF Ahead, InBody
  <1>2. ASSUME NEW i, AtLine(a, t, B, i) PROVE B[1].raw \in Seq(Bytes) /\ IsLine(B[1].raw)
    <2>1. Message(t.messages[i]) /\ B[1] = LinePiece(t.messages[i])
      BY <1>2, LineNext DEF LineFirst
    <2>2. IsLine(t.messages[i].line) /\ t.messages[i].line \in Seq(Bytes)
      BY <2>1, LinePieceIs DEF Message
    <2> QED BY <2>1, <2>2 DEF LinePiece
  <1>3. ASSUME NEW i, NEW j, AtHeader(a, t, B, i, j) PROVE B[1].raw \in Seq(Bytes) /\ IsLine(B[1].raw)
    <2>1. CASE j <= Len(t.messages[i].headers)
      <3>1. /\ Message(t.messages[i]) /\ j \in 1..Len(t.messages[i].headers)
            /\ t.messages[i].headers[j].bytes \in Seq(Bytes)
            /\ B[1] = [raw |-> t.messages[i].headers[j].bytes, owed |-> t.messages[i].headers[j].bytes]
        BY <1>3, <2>1, HeaderNext DEF HeaderFirst
      <3>2. IsLine(t.messages[i].headers[j].bytes)
        BY <3>1 DEF Message, IsMessage
      <3> QED BY <3>1, <3>2
    <2>2. CASE ~(j <= Len(t.messages[i].headers))
      <3>1. B[1] = Single("LF")
        BY <1>3, <2>2, BlockNext DEF EmptyFirst
      <3>2. <<"LF">> \in Seq(Bytes) /\ IsLine(<<"LF">>)
        <4>1. <<"LF">> \in Seq(Bytes)
          BY SomeBytes
        <4>2. IsText(<<"LF">>)
          BY DEF IsText
        <4>3. {i_1 \in DOMAIN <<"LF">> : <<"LF">>[i_1] = "LF"} = {Len(<<"LF">>)}
          OBVIOUS
        <4> QED BY <4>1, <4>2, <4>3 DEF IsLine
      <3> QED BY <3>1, <3>2 DEF Single
    <2> QED BY <2>1, <2>2
  <1> QED BY <1>1, <1>2, <1>3, RequestFinishes, HeaderFinishes, BlockFinishes, Zenon

LEMMA BodyPasses ==
    ASSUME NEW t \in Conversations, NEW a \in Adapters, NEW B, B # <<>>, Ahead(a, t, B),
           a.state = "Body", a.line = <<>>
    PROVE  Len(B[1].raw) = 1 /\ PassesOn(t, a, Byte(a, B[1].raw[1]), B)
  <1>0. PICK i \in 1..Len(t.messages) : \E k \in 1..Len(t.messages[i].body) : InBody(a, t, B, i, k)
    BY DEF Ahead, AtLine, AtHeader
  <1>1. PICK k \in 1..Len(t.messages[i].body) : InBody(a, t, B, i, k)
    BY <1>0
  <1>11. PICK m, b : m = t.messages[i] /\ b = m.body[k]
    OBVIOUS
  <1> DEFINE g == Byte(a, b)
  <1>2. /\ Message(m) /\ b \in Bytes /\ B[1] = Single(b)
        /\ Tail(B) = Onward(Bytewise(m.body), k + 1) \o PiecesFrom(t, i + 1)
    <2>1. BodyFirst(t, B, i, k)
      BY <1>1, BodyNext, Zenon
    <2> QED BY <1>11, <2>1 DEF BodyFirst
  <1>3. Framed(t, i + 1) /\ a.length = Len(m.body) - k + 1 /\ k \in 1..Len(m.body)
    BY <1>1, <1>11 DEF InBody
  <1>4. m.body \in Seq(Bytes) /\ Len(m.body) \in Nat
    <2>1. m.body \in Seq(Bytes)
      BY <1>2 DEF Message
    <2>2. PICK s \in Seq(Bytes) : s = m.body
      BY <2>1, Zenon
    <2>3. Len(s) \in Nat
      OBVIOUS
    <2> QED BY <2>1, <2>2, <2>3, Zenon
  <1>12. PICK n \in Nat : n = Len(m.body)
    BY <1>4, Zenon
  <1>13. a.length = n - k + 1 /\ k \in 1..n
    BY <1>3, <1>12
  <1>5. Len(B[1].raw) = 1 /\ B[1].raw[1] = b /\ B[1].owed = <<b>>
    BY <1>2 DEF Single
  <1>6. /\ g.out = a.out \o <<b>> /\ g.line = <<>> /\ g.length = a.length - 1
        /\ g.state = IF a.length = 1 THEN "RequestLine" ELSE "Body"
    <2>1. g = [a EXCEPT !.out = Append(@, b), !.length = @ - 1,
                        !.state = IF a.length = 1 THEN "RequestLine" ELSE "Body"]
      BY DEF Byte
    <2> HIDE DEF g
    <2>2. Append(a.out, b) = a.out \o <<b>>
      BY <1>2, SomeBytes DEF Adapters
    <2>3. g.out = Append(a.out, b)
      BY <2>1 DEF Adapters
    <2> QED BY <2>1, <2>2, <2>3 DEF Adapters
  <1>7. PiecesFrom(t, i + 1) \in Seq(Piece) /\ i + 1 \in 1..Len(t.messages) + 1
    <2>1. Len(t.messages) \in Nat
      BY SentIs
    <2>2. i + 1 \in 1..Len(t.messages) + 1
      BY <2>1
    <2> QED BY <2>2, AfterIs, Zenon
  <1>8. Bytewise(m.body) \in Seq(Piece) /\ Len(Bytewise(m.body)) = Len(m.body)
    BY <1>4, BytewiseIs
  <1> HIDE DEF g
  <1>9. CASE a.length = 1
    <2>1. k + 1 = Len(Bytewise(m.body)) + 1 /\ g.state = "RequestLine"
      <3>1. k = n
        BY <1>9, <1>12, <1>13
      <3> QED BY <1>6, <1>8, <1>9, <1>12, <3>1
    <2>2. Onward(Bytewise(m.body), k + 1) = <<>>
      BY <1>8, <2>1, FromIs
    <2>3. Tail(B) = PiecesFrom(t, i + 1)
      <3>1. PICK r \in Seq(Piece) : r = PiecesFrom(t, i + 1)
        BY <1>7, Zenon
      <3>2. <<>> \o r = r
        OBVIOUS
      <3> QED BY <1>2, <2>2, <3>1, <3>2, Zenon
    <2>4. AtLine(g, t, Tail(B), i + 1)
      BY <1>3, <1>7, <2>1, <2>3, Zenon DEF AtLine
    <2>5. Ahead(g, t, Tail(B))
      BY <1>7, <2>4, Zenon DEF Ahead
    <2> QED BY <1>5, <1>6, <2>1, <2>5 DEF PassesOn, g
  <1>10. CASE a.length # 1
    <2>1. k + 1 \in 1..Len(m.body) /\ g.state = "Body" /\ g.length = Len(m.body) - (k + 1) + 1
      <3>1. k + 1 \in 1..Len(m.body)
        BY <1>10, <1>12, <1>13
      <3>2. g.state = "Body"
        BY <1>6, <1>10
      <3>3. g.length = Len(m.body) - (k + 1) + 1
        <4>1. g.length = a.length - 1
          BY <1>6
        <4> QED BY <1>12, <1>13, <4>1
      <3> QED BY <3>1, <3>2, <3>3
    <2>2. InBody(g, t, Tail(B), i, k + 1)
      BY <1>11, <1>1, <1>2, <1>3, <2>1, Zenon DEF InBody
    <2>3. Ahead(g, t, Tail(B))
      BY <1>11, <1>1, <2>1, <2>2, Zenon DEF Ahead
    <2> QED BY <1>5, <1>6, <2>1, <2>3 DEF PassesOn, g
  <1> QED BY <1>9, <1>10

LEMMA RestPasses ==
    ASSUME NEW t \in Conversations, NEW a \in Adapters, NEW B \in Seq(Piece), B # <<>>, Ahead(a, t, B),
           a.state = "PassThrough", a.line = <<>>
    PROVE  Len(B[1].raw) = 1 /\ PassesOn(t, a, Byte(a, B[1].raw[1]), B)
  <1> DEFINE b == B[1].raw[1]
             g == Byte(a, b)
  <1>1. Bare(B)
    BY DEF Ahead, AtLine, AtHeader, InBody
  <1>2. Len(B[1].raw) = 1 /\ B[1].owed = B[1].raw /\ B[1] \in Piece /\ Tail(B) \in Seq(Piece)
    BY <1>1 DEF Bare
  <1>3. B[1].raw = <<b>>
    BY <1>2 DEF Piece
  <1>4. Bare(Tail(B))
    <2>1. Len(Tail(B)) = Len(B) - 1 /\ \A i \in 1..Len(B) - 1 : Tail(B)[i] = B[i + 1]
      OBVIOUS
    <2>2. \A i \in 1..Len(B) - 1 : i + 1 \in 1..Len(B)
      OBVIOUS
    <2> QED BY <1>1, <2>1, <2>2 DEF Bare
  <1>5. g = [a EXCEPT !.out = Append(@, b)]
    BY DEF Byte
  <1>6. g.out = a.out \o <<b>> /\ g.line = <<>> /\ g.state = "PassThrough"
    <2> HIDE DEF g, b
    <2>1. g.out = Append(a.out, b) /\ Append(a.out, b) = a.out \o <<b>>
      BY <1>5 DEF Adapters
    <2> QED BY <1>5, <2>1 DEF Adapters
  <1> HIDE DEF b, g
  <1> QED BY <1>2, <1>3, <1>4, <1>6 DEF PassesOn, Ahead, g, b

\* The bytes of pieces are those of the first and those of the others.
LEMMA FirstPiece ==
    ASSUME NEW B \in Seq(Piece), B # <<>>
    PROVE  /\ B[1] \in Piece /\ Tail(B) \in Seq(Piece) /\ B = <<B[1]>> \o Tail(B)
           /\ B[1].raw \in Seq(Bytes) /\ Len(B[1].raw) \in Nat \ {0} /\ B[1].owed \in Seq(Written)
           /\ All(B, "raw") = B[1].raw \o All(Tail(B), "raw") /\ All(Tail(B), "raw") \in Seq(Written)
  <1>1. B[1] \in Piece /\ Tail(B) \in Seq(Piece) /\ B = <<B[1]>> \o Tail(B)
    OBVIOUS
  <1>2. PICK p \in Piece, r \in Seq(Piece) : p = B[1] /\ r = Tail(B) /\ B = <<p>> \o r
    BY <1>1, Zenon
  <1>3. p.raw \in Seq(Bytes) /\ p.raw # <<>> /\ p.owed \in Seq(Written)
    BY DEF Piece
  <1>4. "raw" \in Parts /\ p["raw"] = p.raw /\ <<p>> \in Seq(Piece)
    BY DEF Parts
  <1>5. All(<<p>> \o r, "raw") = All(<<p>>, "raw") \o All(r, "raw") /\ All(r, "raw") \in Seq(Written)
    BY <1>4, AllConcat, PartType
  <1>6. All(<<p>>, "raw") = p.raw
    BY <1>4, AllOne, Zenon
  <1>7. Len(p.raw) \in Nat \ {0}
    BY <1>3
  <1> QED BY <1>1, <1>2, <1>3, <1>5, <1>6, <1>7, Zenon

\* A byte goes on with its piece or is the last of it.
Stays(t, a, g, B, b) ==
    /\ g.out = a.out /\ g.line = Append(a.line, b) /\ Ahead(g, t, B)
    /\ Len(a.line) + 1 < Len(B[1].raw) /\ Append(a.line, b) = SubSeq(B[1].raw, 1, Len(a.line) + 1)

LEMMA ByteGoes ==
    ASSUME NEW t \in Conversations, NEW a \in Running, NEW B \in Seq(Piece), B # <<>>,
           Ahead(a, t, B), Begun(a.line, B), NEW b, b = B[1].raw[Len(a.line) + 1]
    PROVE  \/ Stays(t, a, Byte(a, b), B, b)
           \/ Len(B[1].raw) = Len(a.line) + 1 /\ PassesOn(t, a, Byte(a, b), B)
  <1>1. a \in Adapters /\ a.state \in States \ {"Preface"} /\ (a.state \in {"PassThrough", "Body"} => a.line = <<>>)
    BY DEF Running, Adapters, Flush
  <1>2. PICK r \in Seq(Bytes) : r = B[1].raw
    <2>1. B[1].raw \in Seq(Bytes)
      BY FirstPiece
    <2> QED BY <2>1, Zenon
  <1>3. PICK x \in Seq(Bytes) : x = a.line
    BY <1>1 DEF Adapters
  <1>4. Len(x) < Len(r) /\ x = SubSeq(r, 1, Len(x)) /\ b = r[Len(x) + 1]
    BY <1>2, <1>3 DEF Begun
  <1>5. Append(x, b) = SubSeq(r, 1, Len(x) + 1) /\ b \in Bytes /\ Len(x) + 1 \in 1..Len(r)
    <2>1. Len(x) \in Nat /\ Len(r) \in Nat
      OBVIOUS
    <2>2. Len(x) + 1 \in 1..Len(r) /\ (Len(x) + 1) - 1 = Len(x)
      BY <1>4, <2>1
    <2>3. SubSeq(r, 1, Len(x) + 1) = Append(SubSeq(r, 1, (Len(x) + 1) - 1), r[Len(x) + 1]) /\ r[Len(x) + 1] \in Bytes
      BY <2>2, Prefixes
    <2> QED BY <1>4, <2>2, <2>3
  <1>6. CASE a.state = "PassThrough"
    <2>1. a.line = <<>> /\ Len(a.line) = 0
      BY <1>1, <1>6
    <2>2. b = B[1].raw[1]
      BY <2>1
    <2>3. Len(B[1].raw) = 1 /\ PassesOn(t, a, Byte(a, B[1].raw[1]), B)
      BY <1>1, <1>6, <2>1, RestPasses
    <2> QED BY <2>1, <2>2, <2>3
  <1>7. CASE a.state = "Body"
    <2>1. a.line = <<>> /\ Len(a.line) = 0
      BY <1>1, <1>7
    <2>2. b = B[1].raw[1]
      BY <2>1
    <2>3. Len(B[1].raw) = 1 /\ PassesOn(t, a, Byte(a, B[1].raw[1]), B)
      BY <1>1, <1>7, <2>1, BodyPasses
    <2> QED BY <2>1, <2>2, <2>3
  <1>8. CASE a.state \in {"RequestLine", "Headers"}
    <2>1. IsLine(r) /\ PassesOn(t, a, FinishLine([a EXCEPT !.line = r]), B)
      BY <1>1, <1>2, <1>8, LineFinishes
    <2>2. Len(r) \in Nat \ {0} /\ r[Len(r)] = "LF" /\ \A i \in 1..Len(r) : r[i] = "LF" => i = Len(r)
      BY <2>1, LineIs
    <2>3. CASE b = "LF"
      <3>1. Len(x) + 1 = Len(r)
        BY <1>4, <1>5, <2>2, <2>3
      <3>2. SubSeq(r, 1, Len(r)) = r
        BY SubSeqFull
      <3>3. Append(a.line, b) = r
        BY <1>3, <1>5, <3>1, <3>2, Zenon
      <3>4. Byte(a, b) = FinishLine([a EXCEPT !.line = Append(@, b)])
        BY <1>8, <2>3 DEF Byte
      <3>5. [a EXCEPT !.line = Append(@, b)] = [a EXCEPT !.line = r]
        BY <3>3
      <3> QED BY <1>2, <1>3, <2>1, <3>1, <3>4, <3>5
    <2>4. CASE b # "LF"
      <3>1. Len(x) + 1 # Len(r)
        BY <1>4, <2>2, <2>4
      <3>2. Len(x) + 1 < Len(r)
        <4>1. Len(x) \in Nat /\ Len(r) \in Nat
          OBVIOUS
        <4> QED BY <1>4, <3>1, <4>1
      <3>3. Byte(a, b) = [a EXCEPT !.line = Append(@, b)]
        BY <1>8, <2>4 DEF Byte
      <3>4. PICK g : g = Byte(a, b)
        OBVIOUS
      <3>5. g.out = a.out /\ g.line = Append(a.line, b) /\ g.state = a.state /\ g.length = a.length /\ g.upgrade = a.upgrade
        BY <1>1, <3>3, <3>4 DEF Adapters
      <3>6. Ahead(g, t, B)
        BY <3>5, AheadSame
      <3>7. Stays(t, a, g, B, b)
        BY <1>2, <1>3, <1>5, <3>2, <3>5, <3>6 DEF Stays
      <3> QED BY <3>4, <3>7
    <2> QED BY <2>3, <2>4
  <1> QED BY <1>1, <1>6, <1>7, <1>8 DEF States

\* PiecesFrom p bytes the pieces that are over were passed on, and what is held
\* back is what was read of the next.
InPlace(t, h, a, p) ==
    \E A, B \in Seq(Piece) :
        /\ Pieces(t) = A \o B /\ h \o a.out = All(A, "owed")
        /\ p = Len(All(A, "raw")) + Len(a.line)
        /\ Begun(a.line, B) /\ Ahead(a, t, B)

LEMMA ConcatAt ==
    ASSUME NEW S, NEW x \in Seq(S), NEW y \in Seq(S)
    PROVE  /\ \A k \in 1..Len(x) : (x \o y)[k] = x[k]
           /\ \A k \in 1..Len(y) : (x \o y)[Len(x) + k] = y[k]
           /\ Len(x \o y) = Len(x) + Len(y) /\ Len(x) \in Nat /\ Len(y) \in Nat
  OBVIOUS

\* The next byte sent is the next of the piece under way.
LEMMA NextByte ==
    ASSUME NEW t \in Conversations, NEW A \in Seq(Piece), NEW B \in Seq(Piece), Pieces(t) = A \o B,
           NEW line \in Seq(Bytes), Begun(line, B), Len(All(A, "raw")) + Len(line) < Len(Sent(t))
    PROVE  B # <<>> /\ Sent(t)[Len(All(A, "raw")) + Len(line) + 1] = B[1].raw[Len(line) + 1]
  <1>1. "raw" \in Parts
    BY DEF Parts
  <1>2. PICK x \in Seq(Written), y \in Seq(Written) : x = All(A, "raw") /\ y = All(B, "raw")
    BY <1>1, PartType
  <1>3. Sent(t) = x \o y
    <2>1. All(A \o B, "raw") = x \o y
      BY <1>1, <1>2, AllConcat
    <2> QED BY <2>1, PiecesAre
  <1>4. Len(x) \in Nat /\ Len(y) \in Nat /\ Len(line) \in Nat /\ Len(x \o y) = Len(x) + Len(y)
    OBVIOUS
  <1>5. B # <<>>
    <2> SUFFICES ASSUME B = <<>> PROVE FALSE
      OBVIOUS
    <2>1. Len(y) = 0 /\ Len(line) = 0
      BY <1>2, AllNone DEF Begun
    <2> QED BY <1>2, <1>3, <1>4, <2>1
  <1>6. PICK r \in Seq(Bytes), z \in Seq(Written) : r = B[1].raw /\ y = r \o z
    <2>1. /\ B[1].raw \in Seq(Bytes) /\ All(Tail(B), "raw") \in Seq(Written)
          /\ All(B, "raw") = B[1].raw \o All(Tail(B), "raw")
      BY <1>5, FirstPiece, Zenon
    <2> QED BY <1>2, <2>1, Zenon
  <1>7. Len(line) < Len(r) /\ Len(r) \in Nat
    BY <1>5, <1>6 DEF Begun
  <1>8. r \in Seq(Written)
    BY SomeBytes
  <1>9. (x \o y)[Len(x) + Len(line) + 1] = y[Len(line) + 1]
    <2>1. Len(y) = Len(r) + Len(z) /\ Len(z) \in Nat
      BY <1>6, <1>8, ConcatAt
    <2>2. Len(line) + 1 \in 1..Len(y)
      <3>1. PICK u \in Nat, v \in Nat, w \in Nat : u = Len(line) /\ v = Len(r) /\ w = Len(z)
        BY <1>4, <1>7, <2>1, Zenon
      <3>2. u < v
        BY <1>7, <3>1, Zenon
      <3>3. u + 1 \in 1..v + w
        BY <3>2
      <3> QED BY <2>1, <3>1, <3>3, Zenon
    <2>3. (x \o y)[Len(x) + (Len(line) + 1)] = y[Len(line) + 1]
      BY <2>2, ConcatAt
    <2>4. Len(x) + (Len(line) + 1) = Len(x) + Len(line) + 1
      BY <1>4
    <2> QED BY <2>3, <2>4
  <1>10. (r \o z)[Len(line) + 1] = r[Len(line) + 1]
    <2>1. Len(line) + 1 \in 1..Len(r)
      <3>1. PICK u \in Nat, v \in Nat : u = Len(line) /\ v = Len(r)
        BY <1>4, <1>7, Zenon
      <3>3. u < v
        BY <1>7, <3>1, Zenon
      <3>2. u + 1 \in 1..v
        BY <3>3
      <3> QED BY <3>1, <3>2, Zenon
    <2> QED BY <1>8, <2>1, ConcatAt
  <1> QED BY <1>2, <1>3, <1>5, <1>6, <1>9, <1>10

LEMMA ByteInPlace ==
    ASSUME NEW t \in Conversations, NEW h \in Seq(Written), NEW a \in Running, NEW p \in Nat,
           p < Len(Sent(t)), InPlace(t, h, a, p)
    PROVE  InPlace(t, h, Byte(a, Sent(t)[p + 1]), p + 1)
  <1>1. PICK A \in Seq(Piece), B \in Seq(Piece) :
           /\ Pieces(t) = A \o B /\ h \o a.out = All(A, "owed")
           /\ p = Len(All(A, "raw")) + Len(a.line)
           /\ Begun(a.line, B) /\ Ahead(a, t, B)
    BY DEF InPlace
  <1>2. PICK b, g : b = Sent(t)[p + 1] /\ g = Byte(a, b)
    OBVIOUS
  <1>3. a.line \in Seq(Bytes) /\ a.out \in Seq(Written)
    BY DEF Running, Adapters
  <1>4. B # <<>> /\ b = B[1].raw[Len(a.line) + 1]
    BY <1>1, <1>2, <1>3, NextByte
  <1>5. "raw" \in Parts /\ "owed" \in Parts
    BY DEF Parts
  <1>6. Len(All(A, "raw")) \in Nat /\ All(A, "raw") \in Seq(Written) /\ All(A, "owed") \in Seq(Written)
    BY <1>5, PartType
  <1>7. Len(a.line) \in Nat
    BY <1>3
  <1>8. CASE Stays(t, a, g, B, b)
    <2>1. /\ g.out = a.out /\ g.line = Append(a.line, b) /\ Ahead(g, t, B)
          /\ Len(a.line) + 1 < Len(B[1].raw) /\ Append(a.line, b) = SubSeq(B[1].raw, 1, Len(a.line) + 1)
      BY <1>8 DEF Stays
    <2>2. Len(g.line) = Len(a.line) + 1
      <3>1. PICK x \in Seq(Bytes) : x = a.line
        BY <1>3
      <3>2. Len(Append(x, b)) = Len(x) + 1
        OBVIOUS
      <3> QED BY <2>1, <3>1, <3>2, Zenon
    <2>3. Begun(g.line, B)
      BY <1>4, <2>1, <2>2 DEF Begun
    <2>4. p + 1 = Len(All(A, "raw")) + Len(g.line)
      BY <1>1, <1>6, <1>7, <2>2
    <2>5. InPlace(t, h, g, p + 1)
      BY <1>1, <2>1, <2>3, <2>4, Zenon DEF InPlace
    <2> QED BY <1>2, <2>5, Zenon
  <1>9. CASE Len(B[1].raw) = Len(a.line) + 1 /\ PassesOn(t, a, g, B)
    <2>1. g.out = a.out \o B[1].owed /\ g.line = <<>> /\ Ahead(g, t, Tail(B))
      BY <1>9 DEF PassesOn
    <2>2. PICK q \in Piece, r \in Seq(Piece) : q = B[1] /\ r = Tail(B) /\ B = <<q>> \o r
      <3>1. B[1] \in Piece /\ Tail(B) \in Seq(Piece) /\ B = <<B[1]>> \o Tail(B)
        BY <1>4, FirstPiece, Zenon
      <3> QED BY <3>1, Zenon
    <2>3. q.raw \in Seq(Bytes) /\ q.owed \in Seq(Written) /\ Len(q.raw) \in Nat
      BY <1>4, <2>2, FirstPiece
    <2>4. <<q>> \in Seq(Piece) /\ A \o <<q>> \in Seq(Piece)
      OBVIOUS
    <2>5. Pieces(t) = (A \o <<q>>) \o r
      <3>1. (A \o <<q>>) \o r = A \o (<<q>> \o r)
        BY <2>4, Regroup
      <3> QED BY <1>1, <2>2, <3>1, Zenon
    <2>6. All(A \o <<q>>, "raw") = All(A, "raw") \o q.raw /\ All(A \o <<q>>, "owed") = All(A, "owed") \o q.owed
      <3>1. All(<<q>>, "raw") = q["raw"] /\ All(<<q>>, "owed") = q["owed"]
        BY <1>5, AllOne, Zenon
      <3>2. /\ All(A \o <<q>>, "raw") = All(A, "raw") \o All(<<q>>, "raw")
            /\ All(A \o <<q>>, "owed") = All(A, "owed") \o All(<<q>>, "owed")
        BY <1>5, <2>4, AllConcat, ZenonT(30)
      <3> QED BY <3>1, <3>2
    <2>7. h \o g.out = All(A \o <<q>>, "owed")
      <3>1. PICK x \in Seq(Written), y \in Seq(Written) : x = a.out /\ y = q.owed
        BY <1>3, <2>3
      <3>2. (h \o x) \o y = h \o (x \o y)
        BY ConcatAssociative, SMTT(30)
      <3> QED BY <1>1, <2>1, <2>2, <2>6, <3>1, <3>2, Zenon
    <2>8. p + 1 = Len(All(A \o <<q>>, "raw")) + Len(g.line)
      <3>1. PICK x \in Seq(Written), y \in Seq(Written) : x = All(A, "raw") /\ y = q.raw
        BY <1>6, <2>3, SomeBytes
      <3>2. Len(x \o y) = Len(x) + Len(y) /\ Len(x) \in Nat /\ Len(y) \in Nat
        OBVIOUS
      <3>3. Len(g.line) = 0
        BY <2>1
      <3>4. Len(y) = Len(a.line) + 1
        BY <1>9, <2>2, <3>1
      <3>5. Len(All(A \o <<q>>, "raw")) = Len(x) + Len(y) /\ p = Len(x) + Len(a.line)
        BY <1>1, <2>6, <3>1, <3>2
      <3> QED BY <1>7, <3>2, <3>3, <3>4, <3>5
    <2>9. Begun(g.line, r)
      <3>1. CASE r = <<>>
        BY <2>1, <3>1 DEF Begun
      <3>2. CASE r # <<>>
        <4>1. r[1].raw \in Seq(Bytes) /\ Len(r[1].raw) \in Nat \ {0}
          BY <3>2, FirstPiece
        <4>2. SubSeq(r[1].raw, 1, 0) = <<>> /\ Len(g.line) = 0
          BY <2>1, <4>1, SubSeqEmpty
        <4>3. 0 < Len(r[1].raw)
          BY <4>1
        <4> QED BY <2>1, <3>2, <4>2, <4>3 DEF Begun
      <3> QED BY <3>1, <3>2
    <2>10. InPlace(t, h, g, p + 1)
      BY <2>1, <2>2, <2>4, <2>5, <2>7, <2>8, <2>9, Zenon DEF InPlace
    <2> QED BY <1>2, <2>10, Zenon
  <1> QED BY <1>1, <1>2, <1>4, <1>8, <1>9, ByteGoes, Zenon

\* A line that fits is never given up for its length.
LEMMA NeverOverfull ==
    ASSUME NEW t \in Conversations, LinesFit(t), NEW h, NEW a \in Running, NEW p, InPlace(t, h, a, p)
    PROVE  ~Overfull(a)
  <1>1. PICK A \in Seq(Piece), B \in Seq(Piece) : Pieces(t) = A \o B /\ Begun(a.line, B)
    BY DEF InPlace
  <1>2. a.line \in Seq(Bytes) /\ Len(a.line) \in Nat /\ MaxLine \in Nat
    BY LenientAssumption DEF Running, Adapters
  <1>3. CASE B = <<>>
    <2>1. Len(a.line) = 0
      BY <1>1, <1>3 DEF Begun
    <2> QED BY <1>2, <2>1 DEF Overfull
  <1>4. CASE B # <<>>
    <2>1. Len(a.line) < Len(B[1].raw) /\ Len(B[1].raw) \in Nat
      BY <1>1, <1>4, FirstPiece DEF Begun
    <2>2. Len(A) + 1 \in 1..Len(Pieces(t)) /\ Pieces(t)[Len(A) + 1] = B[1]
      <3>1. Len(A \o B) = Len(A) + Len(B) /\ Len(A) \in Nat /\ Len(B) \in Nat \ {0}
        BY <1>4
      <3>2. (A \o B)[Len(A) + 1] = B[1]
        BY <3>1
      <3> QED BY <1>1, <3>1, <3>2
    <2>3. Len(B[1].raw) <= MaxLine + 1
      BY <2>2 DEF LinesFit
    <2>4. Len(a.line) <= MaxLine
      <3>1. PICK u \in Nat, v \in Nat, w \in Nat : u = Len(a.line) /\ v = Len(B[1].raw) /\ w = MaxLine
        BY <1>2, <2>1, Zenon
      <3>2. u < v /\ v <= w + 1
        BY <2>1, <2>3, <3>1, Zenon
      <3>3. u <= w
        BY <3>2
      <3> QED BY <3>1, <3>3, Zenon
    <2> QED BY <1>2, <2>4 DEF Overfull
  <1> QED BY <1>3, <1>4

\* Bytes read one after the other are passed on in their place.
LEMMA FeedInPlace ==
    ASSUME NEW t \in Conversations, LinesFit(t), NEW h \in Seq(Written), NEW a \in Running, NEW p \in Nat,
           InPlace(t, h, a, p), NEW data \in Seq(Bytes), p + Len(data) <= Len(Sent(t)),
           \A i \in 1..Len(data) : data[i] = Sent(t)[p + i]
    PROVE  Feed(a, data) \in Running /\ InPlace(t, h, Feed(a, data), p + Len(data))
  <1>1. PICK g : Reads(a, data, g)
    BY ReadsExist
  <1> DEFINE n == Len(data)
             Good == {i \in 0..n : InPlace(t, h, g[i], p + i)}
  <1>2. n \in Nat /\ g \in [0..n -> Running] /\ g[0] = a /\ \A i \in 1..n : g[i] = Byte(g[i - 1], data[i])
    BY <1>1 DEF Reads
  <1>3. 0 \in Good
    <2>1. 0 \in 0..n /\ p + 0 = p
      BY <1>2
    <2> QED BY <1>2, <2>1
  <1>4. ASSUME NEW i \in 1..n, i - 1 \in Good PROVE i \in Good
    <2>1. i - 1 \in 0..n /\ i \in 0..n /\ p + (i - 1) \in Nat /\ p + (i - 1) < Len(Sent(t))
          /\ p + (i - 1) + 1 = p + i /\ Len(Sent(t)) \in Nat
      <3>1. Len(Sent(t)) \in Nat
        BY SentIs
      <3> QED BY <1>2, <3>1
    <2>2. g[i - 1] \in Running /\ InPlace(t, h, g[i - 1], p + (i - 1))
      BY <1>2, <1>4, <2>1
    <2>3. InPlace(t, h, Byte(g[i - 1], Sent(t)[p + (i - 1) + 1]), p + (i - 1) + 1)
      BY <2>1, <2>2, ByteInPlace
    <2>4. g[i] = Byte(g[i - 1], Sent(t)[p + i])
      BY <1>2
    <2> QED BY <2>1, <2>3, <2>4
  <1>5. n \in Good
    <2>1. n \in 0..n
      BY <1>2
    <2> HIDE DEF Good, n
    <2> QED BY <1>2, <1>3, <1>4, <2>1, CountUp
  <1>6. g[n] \in Running /\ InPlace(t, h, g[n], p + n)
    BY <1>2, <1>5
  <1>7. Feed(a, data) = g[n]
    BY <1>1, <1>6, NeverOverfull, ReadsFeed
  <1> QED BY <1>6, <1>7

-----------------------------------------------------------------------------
(* What is owed *)

Between(t, h, a, p) ==
    \E A, B \in Seq(Piece) :
        /\ Pieces(t) = A \o B /\ h \o a.out = All(A, "owed")
        /\ p = Len(All(A, "raw")) + Len(a.line)
        /\ Begun(a.line, B)

UpTo(x, i) == Len(Flat([j \in 1..i |-> x[j].raw]))

LEMMA UpToIs ==
    ASSUME NEW x \in Seq(Piece), NEW i \in 0..Len(x)
    PROVE  /\ UpTo(x, i) = Len(All(SubSeq(x, 1, i), "raw")) /\ UpTo(x, i) \in Nat
           /\ Flat([j \in 1..i |-> x[j].owed]) = All(SubSeq(x, 1, i), "owed")
  <1>1. PICK y \in Seq(Piece) : y = SubSeq(x, 1, i) /\ Len(y) = i /\ \A j \in 1..i : y[j] = x[j]
    <2>1. SubSeq(x, 1, i) \in Seq(Piece) /\ Len(SubSeq(x, 1, i)) = i /\ \A j \in 1..i : SubSeq(x, 1, i)[j] = x[j]
      BY Prefixes
    <2> QED BY <2>1, Zenon
  <1>2. [j \in 1..i |-> x[j].raw] = PartOf(y, "raw") /\ [j \in 1..i |-> x[j].owed] = PartOf(y, "owed")
    BY <1>1 DEF PartOf
  <1>3. UpTo(x, i) = Len(All(y, "raw")) /\ Flat([j \in 1..i |-> x[j].owed]) = All(y, "owed")
    BY <1>2, Zenon DEF UpTo, All
  <1>4. All(y, "raw") \in Seq(Written)
    BY PartType DEF Parts
  <1>5. Len(All(y, "raw")) \in Nat
    BY <1>4
  <1> QED BY <1>1, <1>3, <1>5, Zenon

LEMMA UpToGrows ==
    ASSUME NEW x \in Seq(Piece), NEW i \in 0..Len(x), NEW k \in 0..Len(x), i <= k
    PROVE  UpTo(x, i) <= UpTo(x, k)
  <1>1. PICK y \in Seq(Piece) : y = SubSeq(x, 1, k) /\ Len(y) = k /\ \A j \in 1..k : y[j] = x[j]
    <2>1. SubSeq(x, 1, k) \in Seq(Piece) /\ Len(SubSeq(x, 1, k)) = k /\ \A j \in 1..k : SubSeq(x, 1, k)[j] = x[j]
      BY Prefixes
    <2> QED BY <2>1, Zenon
  <1>2. i \in 0..Len(y)
    BY <1>1
  <1>3. PICK u \in Seq(Piece), v \in Seq(Piece) : u = SubSeq(y, 1, i) /\ y = u \o v
    <2>1. /\ y = SubSeq(y, 1, i) \o SubSeq(y, i + 1, Len(y))
          /\ SubSeq(y, 1, i) \in Seq(Piece) /\ SubSeq(y, i + 1, Len(y)) \in Seq(Piece)
      BY <1>2, CutAt
    <2> QED BY <2>1, Zenon
  <1>4. u = SubSeq(x, 1, i)
    <2>1. Len(u) = i /\ \A j \in 1..i : u[j] = y[j]
      BY <1>2, <1>3, Prefixes
    <2>2. PICK z \in Seq(Piece) : z = SubSeq(x, 1, i) /\ Len(z) = i /\ \A j \in 1..i : z[j] = x[j]
      <3>1. SubSeq(x, 1, i) \in Seq(Piece) /\ Len(SubSeq(x, 1, i)) = i /\ \A j \in 1..i : SubSeq(x, 1, i)[j] = x[j]
        BY Prefixes
      <3> QED BY <3>1, Zenon
    <2>3. \A j \in 1..i : j \in 1..k
      OBVIOUS
    <2>4. \A j \in 1..Len(u) : u[j] = z[j]
      BY <1>1, <2>1, <2>2, <2>3
    <2> QED BY <2>1, <2>2, <2>4, SeqEqual, Zenon
  <1>5. UpTo(x, i) = Len(All(u, "raw")) /\ UpTo(x, k) = Len(All(y, "raw"))
    BY <1>1, <1>4, UpToIs
  <1>6. PICK r \in Seq(Written), s \in Seq(Written) : r = All(u, "raw") /\ s = All(v, "raw")
    BY PartType DEF Parts
  <1>7. All(y, "raw") = r \o s
    BY <1>3, <1>6, AllConcat DEF Parts
  <1>8. Len(r \o s) = Len(r) + Len(s) /\ Len(r) \in Nat /\ Len(s) \in Nat
    BY ConcatAt
  <1>9. PICK m \in Nat, n \in Nat : m = Len(r) /\ n = Len(s)
    BY <1>8, Zenon
  <1>10. m <= m + n
    OBVIOUS
  <1> QED BY <1>5, <1>6, <1>7, <1>8, <1>9, <1>10, Zenon

Over(x, i, p) == UpTo(x, i) <= p /\ (i < Len(x) => UpTo(x, i + 1) > p)

OverAt(A, x, p) ==
    /\ Len(A) \in 0..Len(x) /\ SubSeq(x, 1, Len(A)) = A /\ UpTo(x, Len(A)) = Len(All(A, "raw"))
    /\ \A i \in 0..Len(x) : Over(x, i, p) <=> i = Len(A)

\* The pieces that are over are the only ones whose bytes were all read.
LEMMA OverIs ==
    ASSUME NEW A \in Seq(Piece), NEW B \in Seq(Piece), NEW x \in Seq(Piece), x = A \o B, NEW line \in Seq(Bytes),
           Begun(line, B), NEW p, p = Len(All(A, "raw")) + Len(line)
    PROVE  OverAt(A, x, p)
  <1>1. PICK w \in Nat, k \in Nat : w = Len(A) /\ k = Len(B) /\ Len(x) = w + k
    BY ConcatAt
  <1>2. w \in 0..Len(x) /\ w <= Len(x) /\ (w < Len(x) <=> B # <<>>)
    BY <1>1
  <1>3. SubSeq(x, 1, w) = A
    <2>1. PICK z \in Seq(Piece) : z = SubSeq(x, 1, w) /\ Len(z) = w /\ \A j \in 1..w : z[j] = x[j]
      <3>1. SubSeq(x, 1, w) \in Seq(Piece) /\ Len(SubSeq(x, 1, w)) = w /\ \A j \in 1..w : SubSeq(x, 1, w)[j] = x[j]
        BY <1>2, Prefixes
      <3> QED BY <3>1, Zenon
    <2>2. \A j \in 1..w : x[j] = A[j]
      BY <1>1, ConcatAt
    <2>3. \A j \in 1..Len(z) : z[j] = A[j]
      BY <2>1, <2>2
    <2> QED BY <1>1, <2>1, <2>3, SeqEqual, Zenon
  <1>4. UpTo(x, w) = Len(All(A, "raw")) /\ UpTo(x, w) \in Nat
    BY <1>2, <1>3, UpToIs
  <1>5. Len(line) \in Nat /\ p \in Nat /\ UpTo(x, w) <= p /\ p = UpTo(x, w) + Len(line)
    <2>1. PICK m \in Nat, n \in Nat : m = Len(line) /\ n = UpTo(x, w)
      BY <1>4
    <2>2. p = n + m
      BY <1>4, <2>1
    <2>3. n <= n + m /\ n + m \in Nat
      OBVIOUS
    <2> QED BY <2>1, <2>2, <2>3
  <1>6. ASSUME w < Len(x) PROVE w + 1 \in 0..Len(x) /\ UpTo(x, w + 1) > p
    <2>1. B # <<>> /\ w + 1 \in 0..Len(x)
      BY <1>1, <1>2, <1>6
    <2>2. PICK q \in Piece, r \in Seq(Piece) : q = B[1] /\ r = Tail(B) /\ B = <<q>> \o r
      <3>1. B[1] \in Piece /\ Tail(B) \in Seq(Piece) /\ B = <<B[1]>> \o Tail(B)
        BY <2>1, FirstPiece, Zenon
      <3> QED BY <3>1, Zenon
    <2>3. <<q>> \in Seq(Piece) /\ A \o <<q>> \in Seq(Piece) /\ Len(A \o <<q>>) = w + 1
      BY <1>1
    <2>4. x = (A \o <<q>>) \o r
      <3>1. (A \o <<q>>) \o r = A \o (<<q>> \o r)
        BY <2>3, Regroup, SMTT(30)
      <3> QED BY <2>2, <3>1, Zenon
    <2>5. SubSeq(x, 1, w + 1) = A \o <<q>>
      <3>1. PICK c \in Seq(Piece) : c = A \o <<q>>
        BY <2>3, Zenon
      <3>2. PICK z \in Seq(Piece) : z = SubSeq(x, 1, w + 1) /\ Len(z) = w + 1 /\ \A j \in 1..w + 1 : z[j] = x[j]
        <4>1. /\ SubSeq(x, 1, w + 1) \in Seq(Piece) /\ Len(SubSeq(x, 1, w + 1)) = w + 1
              /\ \A j \in 1..w + 1 : SubSeq(x, 1, w + 1)[j] = x[j]
          BY <2>1, Prefixes
        <4> QED BY <4>1, Zenon
      <3>3. \A j \in 1..w + 1 : x[j] = c[j]
        BY <2>3, <2>4, <3>1, ConcatAt
      <3>4. \A j \in 1..Len(z) : z[j] = c[j]
        BY <3>2, <3>3
      <3>5. Len(z) = Len(c)
        BY <2>3, <3>1, <3>2
      <3> QED BY <3>1, <3>2, <3>4, <3>5, SeqEqual, Zenon
    <2>6. UpTo(x, w + 1) = Len(All(A \o <<q>>, "raw"))
      BY <2>1, <2>5, UpToIs
    <2>7. All(A \o <<q>>, "raw") = All(A, "raw") \o q.raw
      <3>1. "raw" \in Parts /\ q["raw"] = q.raw
        BY DEF Parts
      <3>2. All(<<q>>, "raw") = q.raw
        BY <3>1, AllOne, Zenon
      <3>3. All(A \o <<q>>, "raw") = All(A, "raw") \o All(<<q>>, "raw")
        BY <2>3, <3>1, AllConcat, ZenonT(30)
      <3> QED BY <3>2, <3>3, Zenon
    <2>8. PICK u \in Seq(Written), v \in Seq(Written) : u = All(A, "raw") /\ v = q.raw
      <3>1. All(A, "raw") \in Seq(Written)
        BY PartType DEF Parts
      <3>2. q.raw \in Seq(Bytes)
        BY <2>1, <2>2, FirstPiece
      <3> QED BY <3>1, <3>2, SomeBytes
    <2>9. Len(u \o v) = Len(u) + Len(v) /\ Len(u) \in Nat /\ Len(v) \in Nat
      BY ConcatAt
    <2>10. Len(line) < Len(v)
      BY <2>1, <2>2, <2>8 DEF Begun
    <2>11. UpTo(x, w + 1) = UpTo(x, w) + Len(v)
      BY <1>4, <2>6, <2>7, <2>8, <2>9
    <2>12. PICK a \in Nat, b \in Nat, c \in Nat : a = UpTo(x, w) /\ b = Len(line) /\ c = Len(v)
      BY <1>4, <1>5, <2>9, Zenon
    <2>13. b < c /\ p = a + b /\ UpTo(x, w + 1) = a + c
      BY <1>5, <2>10, <2>11, <2>12, Zenon
    <2>14. a + c > a + b
      BY <2>13
    <2> QED BY <2>1, <2>13, <2>14
  <1>7. Over(x, w, p)
    BY <1>5, <1>6 DEF Over
  <1>8. ASSUME NEW i \in 0..Len(x), Over(x, i, p) PROVE i = w
    <2>0. i \in Nat /\ i <= Len(x) /\ Len(x) \in Nat /\ UpTo(x, i) \in Nat
      <3>1. UpTo(x, i) \in Nat
        BY UpToIs
      <3>2. Len(x) \in Nat
        BY <1>1
      <3> QED BY <3>1, <3>2
    <2>1. CASE i < w
      <3>1. i + 1 \in 0..Len(x) /\ i + 1 <= w /\ i < Len(x)
        <4>1. PICK l \in Nat, v \in Nat, j \in Nat : l = Len(x) /\ v = w /\ j = i /\ v <= l
          BY <1>2, <2>0, Zenon
        <4>2. j < v
          BY <2>1, <4>1
        <4>3. j + 1 \in 0..l /\ j + 1 <= v /\ j < l
          BY <4>1, <4>2
        <4> QED BY <4>1, <4>3
      <3>2. UpTo(x, i + 1) <= UpTo(x, w)
        BY <1>2, <3>1, UpToGrows
      <3>3. UpTo(x, i + 1) > p
        BY <1>8, <3>1 DEF Over
      <3>4. UpTo(x, i + 1) \in Nat
        BY <3>1, UpToIs
      <3>5. PICK a \in Nat, b \in Nat, c \in Nat : a = UpTo(x, i + 1) /\ b = UpTo(x, w) /\ c = p
        BY <1>4, <1>5, <3>4, Zenon
      <3>6. a <= b /\ b <= c /\ a > c
        BY <1>5, <3>2, <3>3, <3>5
      <3>7. FALSE
        BY <3>6
      <3> QED BY <3>7
    <2>2. CASE w < i
      <3>1. w + 1 <= i /\ w < Len(x)
        <4>1. PICK l \in Nat, v \in Nat, j \in Nat : l = Len(x) /\ v = w /\ j = i /\ j <= l
          BY <2>0, Zenon
        <4>2. v < j
          BY <2>2, <4>1
        <4>3. v + 1 <= j /\ v < l
          BY <4>1, <4>2
        <4> QED BY <4>1, <4>3
      <3>2. w + 1 \in 0..Len(x) /\ UpTo(x, w + 1) > p
        BY <1>6, <3>1
      <3>3. UpTo(x, w + 1) <= UpTo(x, i)
        BY <3>1, <3>2, UpToGrows
      <3>4. UpTo(x, i) <= p
        BY <1>8 DEF Over
      <3>5. UpTo(x, w + 1) \in Nat
        BY <3>2, UpToIs
      <3>6. PICK a \in Nat, b \in Nat, c \in Nat : a = UpTo(x, w + 1) /\ b = UpTo(x, i) /\ c = p
        BY <1>5, <2>0, <3>5, Zenon
      <3>7. a <= b /\ b <= c /\ a > c
        BY <3>2, <3>3, <3>4, <3>6
      <3>8. FALSE
        BY <3>7
      <3> QED BY <3>8
    <2>3. i < w \/ w < i \/ i = w
      <3>1. PICK v \in Nat, j \in Nat : v = w /\ j = i
        BY <2>0
      <3>2. j < v \/ v < j \/ j = v
        OBVIOUS
      <3> QED BY <3>1, <3>2
    <2> QED BY <2>1, <2>2, <2>3
  <1> QED BY <1>1, <1>2, <1>3, <1>4, <1>7, <1>8 DEF OverAt

\* What is owed after p bytes was passed on, and a line that is not whole is
\* owed where no more is read.
LEMMA OwedIs ==
    ASSUME NEW t \in Conversations, NEW h, NEW a \in Adapters, NEW p, Between(t, h, a, p), NEW final \in BOOLEAN
    PROVE  Owed(t, p, final) = (h \o a.out) \o (IF final THEN a.line ELSE <<>>)
  <1>1. PICK A \in Seq(Piece), B \in Seq(Piece) :
            /\ Pieces(t) = A \o B /\ h \o a.out = All(A, "owed")
            /\ p = Len(All(A, "raw")) + Len(a.line)
            /\ Begun(a.line, B)
    BY DEF Between
  <1>2. PICK x \in Seq(Piece), line \in Seq(Bytes) : x = A \o B /\ line = a.line
    <2>1. A \o B \in Seq(Piece)
      OBVIOUS
    <2>2. a.line \in Seq(Bytes)
      BY DEF Adapters
    <2> QED BY <2>1, <2>2, Zenon
  <1>3. /\ Len(A) \in 0..Len(x) /\ SubSeq(x, 1, Len(A)) = A /\ UpTo(x, Len(A)) = Len(All(A, "raw"))
        /\ \A i \in 0..Len(x) : Over(x, i, p) <=> i = Len(A)
    <2>1. Begun(line, B) /\ p = Len(All(A, "raw")) + Len(line)
      BY <1>1, <1>2, Zenon
    <2>2. OverAt(A, x, p)
      BY <1>2, <2>1, OverIs, Zenon
    <2> QED BY <2>2, Zenon DEF OverAt
  <1> DEFINE whole == CHOOSE i \in 0..Len(x) : Over(x, i, p)
             rest(i) == IF final /\ i < Len(x) THEN SubSeq(x[i + 1].raw, 1, p - UpTo(x, i)) ELSE <<>>
  <1>4. whole = Len(A)
    <2>1. Over(x, Len(A), p)
      BY <1>3, Zenon
    <2>2. whole \in 0..Len(x) /\ Over(x, whole, p)
      BY <1>3, <2>1, Zenon
    <2> QED BY <1>3, <2>2, Zenon
  <1>5. Owed(t, p, final) = Flat([i \in 1..whole |-> x[i].owed]) \o rest(whole)
    <2>1. Pieces(t) = x
      BY <1>1, <1>2
    <2> QED BY <2>1 DEF Owed, Over, UpTo
  <1> HIDE DEF whole
  <1>6. Flat([i \in 1..whole |-> x[i].owed]) = All(A, "owed")
    <2>1. Flat([i \in 1..Len(A) |-> x[i].owed]) = All(SubSeq(x, 1, Len(A)), "owed")
      BY <1>3, UpToIs, Zenon
    <2> QED BY <1>3, <1>4, <2>1, Zenon
  <1>7. PICK w \in Nat, k \in Nat : w = Len(A) /\ k = Len(B) /\ Len(x) = w + k
    BY <1>2, ConcatAt
  <1>8. rest(w) = IF final THEN line ELSE <<>>
    <2>1. CASE ~final
      BY <2>1
    <2>2. CASE final /\ B = <<>>
      <3>1. ~(w < Len(x))
        BY <1>7, <2>2
      <3>2. line = <<>>
        BY <1>1, <1>2, <2>2 DEF Begun
      <3> QED BY <2>2, <3>1, <3>2
    <2>3. CASE final /\ B # <<>>
      <3>1. w < Len(x) /\ 1 \in 1..Len(B)
        BY <1>7, <2>3
      <3>2. x[w + 1] = B[1]
        BY <1>2, <1>7, <3>1, ConcatAt
      <3>3. p - UpTo(x, w) = Len(line)
        <4>1. PICK m \in Nat, n \in Nat : m = Len(line) /\ n = Len(All(A, "raw"))
          <5>1. All(A, "raw") \in Seq(Written)
            BY PartType DEF Parts
          <5>2. Len(All(A, "raw")) \in Nat /\ Len(line) \in Nat
            BY <5>1
          <5> QED BY <5>2, Zenon
        <4>2. p = n + m /\ UpTo(x, w) = n
          BY <1>1, <1>2, <1>3, <1>7, <4>1, Zenon
        <4>3. (n + m) - n = m
          OBVIOUS
        <4> QED BY <4>1, <4>2, <4>3, Zenon
      <3>4. line = SubSeq(B[1].raw, 1, Len(line))
        BY <1>1, <1>2, <2>3 DEF Begun
      <3> QED BY <2>3, <3>1, <3>2, <3>3, <3>4
    <2> QED BY <2>1, <2>2, <2>3
  <1> HIDE DEF rest
  <1> QED BY <1>1, <1>2, <1>4, <1>5, <1>6, <1>7, <1>8, Zenon

-----------------------------------------------------------------------------
(* The first bytes *)

LEMMA FirstSent ==
    ASSUME NEW t \in Conversations, Pieces(t) # <<>>
    PROVE  LET r == Pieces(t)[1].raw
           IN /\ r \in Seq(Bytes) /\ Len(r) \in Nat \ {0} /\ Len(Sent(t)) \in Nat /\ Len(r) <= Len(Sent(t))
              /\ \A i \in 1..Len(r) : Sent(t)[i] = r[i]
  <1>1. Pieces(t) \in Seq(Piece) /\ All(Pieces(t), "raw") = Sent(t) /\ Sent(t) \in Seq(Bytes)
    BY PiecesAre, SentIs
  <1>2. PICK B \in Seq(Piece) : B = Pieces(t)
    BY <1>1, Zenon
  <1>3. /\ B[1].raw \in Seq(Bytes) /\ Len(B[1].raw) \in Nat \ {0}
        /\ All(B, "raw") = B[1].raw \o All(Tail(B), "raw") /\ All(Tail(B), "raw") \in Seq(Written)
    BY <1>2, FirstPiece
  <1>4. PICK r \in Seq(Written), s \in Seq(Written) : r = B[1].raw /\ s = All(Tail(B), "raw")
    BY <1>3, SomeBytes
  <1>5. /\ Sent(t) = r \o s /\ \A i \in 1..Len(r) : (r \o s)[i] = r[i]
        /\ Len(r \o s) = Len(r) + Len(s) /\ Len(s) \in Nat
    BY <1>1, <1>2, <1>3, <1>4, ConcatAt
  <1>6. PICK m \in Nat, n \in Nat : m = Len(r) /\ n = Len(s)
    BY <1>3, <1>4, <1>5, Zenon
  <1>7. m <= m + n
    OBVIOUS
  <1> QED BY <1>1, <1>2, <1>3, <1>4, <1>5, <1>6, <1>7

LEMMA FirstLine ==
    ASSUME NEW t \in Conversations, ~t.preface
    PROVE  /\ Pieces(t) = PiecesFrom(t, 1) /\ Framed(t, 1) /\ 1 \in 1..Len(t.messages) + 1
           /\ Pieces(t) # <<>> => IsLine(Pieces(t)[1].raw) /\ Pieces(t)[1].raw # <<"PRI", "LF">>
  <1>1. Pieces(t) = PiecesFrom(t, 1)
    <2>1. StartPieces(t) = <<>>
      BY DEF StartPieces
    <2>2. PICK x \in Seq(Piece) : x = PiecesFrom(t, 1)
      BY AfterIs
    <2>3. <<>> \o x = x
      OBVIOUS
    <2> QED BY <2>1, <2>2, <2>3, PiecesAre, AfterIs
  <1>2. Framed(t, 1)
    BY DEF Framed
  <1>3. Len(t.messages) \in Nat /\ 1 \in 1..Len(t.messages) + 1
    BY AfterIs
  <1>4. ASSUME Pieces(t) # <<>> PROVE IsLine(Pieces(t)[1].raw) /\ Pieces(t)[1].raw # <<"PRI", "LF">>
    <2> DEFINE a == [NewAdapter EXCEPT !.state = "RequestLine"]
               m == t.messages[1]
    <2>1. a.state = "RequestLine"
      BY DEF NewAdapter
    <2> HIDE DEF a
    <2>2. AtLine(a, t, Pieces(t), 1)
      BY <1>1, <1>2, <1>3, <2>1 DEF AtLine
    <2>3. LineFirst(t, Pieces(t), 1)
      BY <1>4, <2>2, LineNext
    <2>4. Message(m) /\ Pieces(t)[1] = LinePiece(m)
      BY <2>3 DEF LineFirst
    <2>5. Pieces(t)[1].raw = m.line
      BY <2>4 DEF LinePiece
    <2>6. IsLine(m.line) /\ m.line # <<"PRI", "LF">>
      BY <2>4 DEF Message, IsMessage
    <2> QED BY <2>5, <2>6
  <1> QED BY <1>1, <1>2, <1>3, <1>4

\* Only HTTP/2 begins as its preface does.
LEMMA NotPreface ==
    ASSUME NEW t \in Conversations, ~t.preface, 2 <= Len(Sent(t)), Sent(t)[1] = "PRI", Sent(t)[2] = "LF"
    PROVE  FALSE
  <1>1. Pieces(t) # <<>>
    <2> SUFFICES ASSUME Pieces(t) = <<>> PROVE FALSE
      OBVIOUS
    <2>1. Sent(t) = <<>>
      BY AllNone, PiecesAre
    <2>2. Len(Sent(t)) = 0
      BY <2>1
    <2> QED BY <2>2
  <1> DEFINE r == Pieces(t)[1].raw
  <1>2. /\ r \in Seq(Bytes) /\ Len(r) \in Nat \ {0} /\ IsLine(r) /\ r # <<"PRI", "LF">>
        /\ \A i \in 1..Len(r) : Sent(t)[i] = r[i]
    BY <1>1, FirstSent, FirstLine
  <1> HIDE DEF r
  <1>3. r[Len(r)] = "LF" /\ \A i \in 1..Len(r) : r[i] = "LF" => i = Len(r)
    BY <1>2, LineIs
  <1>4. r[1] = "PRI" /\ 1 \in 1..Len(r)
    BY <1>2
  <1>5. Len(r) # 1
    BY <1>3, <1>4
  <1>6. 2 \in 1..Len(r) /\ r[2] = "LF"
    <2>1. 2 \in 1..Len(r)
      <3>1. PICK n \in Nat \ {0} : n = Len(r)
        BY <1>2, Zenon
      <3>2. n # 1
        BY <1>5, <3>1, Zenon
      <3>3. 2 \in 1..n
        BY <3>2
      <3> QED BY <3>1, <3>3, Zenon
    <2>2. Sent(t)[2] = r[2]
      BY <1>2, <2>1, Zenon
    <2> QED BY <2>1, <2>2
  <1>7. Len(r) = 2
    BY <1>3, <1>6
  <1>8. r = <<"PRI", "LF">>
    BY <1>2, <1>4, <1>6, <1>7
  <1> QED BY <1>2, <1>8

LEMMA PrefaceIs ==
    ASSUME NEW t \in Conversations, t.preface
    PROVE  /\ Whole(Preface, Preface) \in Seq(Piece) /\ Pieces(t) = Whole(Preface, Preface) \o PiecesFrom(t, 1)
           /\ PiecesFrom(t, 1) \in Seq(Piece) /\ Bare(PiecesFrom(t, 1))
           /\ Pieces(t) # <<>> /\ Pieces(t)[1].raw = Preface
           /\ 3 <= Len(Sent(t)) /\ \A i \in 1..3 : Sent(t)[i] = Preface[i]
  <1>1. Preface \in Seq(Bytes) /\ Preface \in Seq(Written) /\ Preface # <<>> /\ Len(Preface) = 3
    BY SomeBytes DEF Preface
  <1>2. /\ Whole(Preface, Preface) \in Seq(Piece) /\ Len(Whole(Preface, Preface)) = 1
        /\ Whole(Preface, Preface)[1] = [raw |-> Preface, owed |-> Preface]
    BY <1>1, WholeIs
  <1>3. PiecesFrom(t, 1) \in Seq(Piece) /\ Bare(PiecesFrom(t, 1)) /\ PiecesFrom(t, 1) = Flat(PiecesOf(t))
    <2>1. 1 \in 1..Len(t.messages) + 1
      BY AfterIs
    <2>2. ~Framed(t, 1)
      BY DEF Framed
    <2> QED BY <2>1, <2>2, AfterIs
  <1>4. Pieces(t) = Whole(Preface, Preface) \o PiecesFrom(t, 1)
    BY <1>3, PiecesAre DEF StartPieces
  <1>5. PICK u \in Seq(Piece), v \in Seq(Piece) : u = Whole(Preface, Preface) /\ v = PiecesFrom(t, 1)
    BY <1>2, <1>3, Zenon
  <1>6. Pieces(t) # <<>> /\ Pieces(t)[1] = [raw |-> Preface, owed |-> Preface]
    <2>1. u \o v # <<>> /\ (u \o v)[1] = u[1]
      <3>1. Len(u \o v) = Len(u) + Len(v) /\ Len(v) \in Nat /\ \A k \in 1..Len(u) : (u \o v)[k] = u[k]
        BY ConcatAt
      <3>2. Len(u) = 1
        BY <1>2, <1>5
      <3>3. Len(u \o v) # 0 /\ 1 \in 1..Len(u)
        BY <3>1, <3>2
      <3> QED BY <3>1, <3>3
    <2> QED BY <1>2, <1>4, <1>5, <2>1
  <1>7. Pieces(t)[1].raw = Preface
    BY <1>6
  <1>8. 3 <= Len(Sent(t)) /\ \A i \in 1..3 : Sent(t)[i] = Preface[i]
    BY <1>1, <1>6, <1>7, FirstSent
  <1> QED BY <1>2, <1>3, <1>4, <1>6, <1>7, <1>8

\* What is held back at the start is what was read, and so far it is what
\* the preface begins with.
Waiting(t, h, a, p) ==
    /\ a.state = "Preface" /\ h = <<>> /\ a.out = <<>> /\ p \in 0..2
    /\ a.line = SubSeq(Sent(t), 1, p) /\ p <= Len(Sent(t)) /\ \A i \in 1..p : Sent(t)[i] = Preface[i]

Stands(t, h, a, p) == IF a.state = "Preface" THEN Waiting(t, h, a, p) ELSE InPlace(t, h, a, p)

LEMMA Begins ==
    ASSUME NEW t \in Conversations, NEW p \in 0..2, p <= Len(Sent(t)), \A i \in 1..p : Sent(t)[i] = Preface[i]
    PROVE  Begun(SubSeq(Sent(t), 1, p), Pieces(t))
  <1>0. Sent(t) \in Seq(Bytes) /\ Len(Sent(t)) \in Nat /\ Len(Preface) = 3 /\ Preface[1] = "PRI" /\ Preface[2] = "LF"
    BY SentIs DEF Preface
  <1>1. CASE Pieces(t) = <<>>
    <2>1. Sent(t) = <<>>
      BY <1>1, AllNone, PiecesAre
    <2>2. p = 0
      <3>1. Len(Sent(t)) = 0
        BY <2>1
      <3> QED BY <3>1
    <2> QED BY <1>1, <2>2, SubSeqEmpty DEF Begun
  <1>2. CASE Pieces(t) # <<>>
    <2>1. PICK r \in Seq(Bytes) : /\ r = Pieces(t)[1].raw /\ Len(r) \in Nat \ {0} /\ Len(r) <= Len(Sent(t))
                                  /\ \A i \in 1..Len(r) : Sent(t)[i] = r[i]
      BY <1>2, FirstSent
    <2>2. p < Len(r)
      <3>1. CASE t.preface
        <4>1. r = Preface
          BY <2>1, <3>1, PrefaceIs
        <4>2. Len(r) = 3
          BY <1>0, <4>1, Zenon
        <4>3. p < 3
          OBVIOUS
        <4> QED BY <4>2, <4>3, Zenon
      <3>2. CASE ~t.preface
        <4>1. IsLine(r)
          BY <1>2, <2>1, <3>2, FirstLine
        <4>2. r[Len(r)] = "LF"
          BY <2>1, <4>1, LineIs
        <4>0. PICK n \in Nat \ {0} : n = Len(r)
          BY <2>1, Zenon
        <4>3. CASE p = 0
          <5>1. 0 < n
            OBVIOUS
          <5> QED BY <4>0, <4>3, <5>1, Zenon
        <4>4. CASE p = 1
          <5>1. r[1] = "PRI"
            BY <1>0, <2>1, <4>4
          <5>2. Len(r) # 1
            BY <4>2, <5>1
          <5>3. n # 1
            BY <4>0, <5>2, Zenon
          <5>4. 1 < n
            BY <5>3
          <5> QED BY <4>0, <4>4, <5>4, Zenon
        <4>5. CASE p = 2
          <5>1. Sent(t)[1] = "PRI" /\ Sent(t)[2] = "LF" /\ 2 <= Len(Sent(t))
            BY <1>0, <4>5
          <5> QED BY <3>2, <5>1, NotPreface
        <4> QED BY <4>3, <4>4, <4>5
      <3> QED BY <3>1, <3>2
    <2>3. SubSeq(Sent(t), 1, p) = SubSeq(r, 1, p) /\ Len(SubSeq(r, 1, p)) = p
      <3>1. p \in 0..Len(r) /\ p \in 0..Len(Sent(t))
        BY <1>0, <2>1, <2>2
      <3>2. PICK x \in Seq(Bytes) : x = SubSeq(r, 1, p) /\ Len(x) = p /\ \A j \in 1..p : x[j] = r[j]
        <4>1. SubSeq(r, 1, p) \in Seq(Bytes) /\ Len(SubSeq(r, 1, p)) = p /\ \A j \in 1..p : SubSeq(r, 1, p)[j] = r[j]
          BY <3>1, Prefixes
        <4> QED BY <4>1, Zenon
      <3>3. PICK y \in Seq(Bytes) : y = SubSeq(Sent(t), 1, p) /\ Len(y) = p /\ \A j \in 1..p : y[j] = Sent(t)[j]
        <4>1. /\ SubSeq(Sent(t), 1, p) \in Seq(Bytes) /\ Len(SubSeq(Sent(t), 1, p)) = p
              /\ \A j \in 1..p : SubSeq(Sent(t), 1, p)[j] = Sent(t)[j]
          BY <1>0, <3>1, Prefixes
        <4> QED BY <4>1, Zenon
      <3>4. \A j \in 1..p : Sent(t)[j] = r[j]
        BY <2>1, <2>2
      <3>5. \A j \in 1..Len(y) : y[j] = x[j]
        BY <3>2, <3>3, <3>4
      <3>6. Len(y) = Len(x)
        BY <3>2, <3>3
      <3>7. y = x
        BY <3>5, <3>6, SeqEqual, Zenon
      <3> QED BY <3>2, <3>3, <3>7
    <2> QED BY <1>2, <2>1, <2>2, <2>3 DEF Begun
  <1> QED BY <1>1, <1>2

LEMMA StandsBetween ==
    ASSUME NEW t \in Conversations, NEW h, NEW a \in Adapters, NEW p, Stands(t, h, a, p)
    PROVE  Between(t, h, a, p)
  <1>1. CASE a.state # "Preface"
    BY <1>1 DEF Stands, InPlace, Between
  <1>2. CASE a.state = "Preface"
    <2>1. Waiting(t, h, a, p)
      BY <1>2 DEF Stands
    <2>2. Begun(a.line, Pieces(t))
      BY <2>1, Begins DEF Waiting
    <2>3. Len(a.line) = p
      <3>1. p \in 0..Len(Sent(t)) /\ Sent(t) \in Seq(Bytes)
        BY <2>1, SentIs DEF Waiting
      <3> QED BY <2>1, <3>1, Prefixes DEF Waiting
    <2>4. PICK A \in Seq(Piece), B \in Seq(Piece) : A = <<>> /\ B = Pieces(t) /\ A \o B = B
      <3>1. <<>> \in Seq(Piece) /\ Pieces(t) \in Seq(Piece) /\ <<>> \o Pieces(t) = Pieces(t)
        BY PiecesAre
      <3> QED BY <3>1, Zenon
    <2>5. h \o a.out = All(A, "owed") /\ Len(All(A, "raw")) = 0
      <3>1. <<>> \o <<>> = <<>> /\ Len(<<>>) = 0
        OBVIOUS
      <3>2. h = <<>> /\ a.out = <<>>
        BY <2>1 DEF Waiting
      <3> QED BY <2>4, <3>1, <3>2, AllNone, Zenon
    <2>6. p = Len(All(A, "raw")) + Len(a.line)
      BY <2>1, <2>3, <2>5 DEF Waiting
    <2>7. Pieces(t) = A \o B /\ Begun(a.line, B)
      BY <2>2, <2>4, Zenon
    <2> QED BY <2>5, <2>6, <2>7, Zenon DEF Between
  <1> QED BY <1>1, <1>2

\* What is held back and what is read are the first bytes.
LEMMA HeldIs ==
    ASSUME NEW t \in Conversations, NEW p \in 0..2, p <= Len(Sent(t)),
           NEW data \in Seq(Bytes), \A i \in 1..Len(data) : data[i] = Sent(t)[p + i]
    PROVE  LET all == SubSeq(Sent(t), 1, p) \o data
           IN /\ all \in Seq(Bytes) /\ Len(all) = p + Len(data) /\ Len(data) \in Nat
              /\ \A i \in 1..Len(all) : all[i] = Sent(t)[i]
  <1>1. Sent(t) \in Seq(Bytes) /\ Len(Sent(t)) \in Nat /\ p \in 0..Len(Sent(t)) /\ p \in Nat
    <2>1. Sent(t) \in Seq(Bytes) /\ Len(Sent(t)) \in Nat
      BY SentIs
    <2> QED BY <2>1
  <1>2. PICK x \in Seq(Bytes) : x = SubSeq(Sent(t), 1, p) /\ Len(x) = p /\ \A j \in 1..p : x[j] = Sent(t)[j]
    <2>1. /\ SubSeq(Sent(t), 1, p) \in Seq(Bytes) /\ Len(SubSeq(Sent(t), 1, p)) = p
          /\ \A j \in 1..p : SubSeq(Sent(t), 1, p)[j] = Sent(t)[j]
      BY <1>1, Prefixes
    <2> QED BY <2>1, Zenon
  <1>3. /\ \A k \in 1..Len(x) : (x \o data)[k] = x[k]
        /\ \A k \in 1..Len(data) : (x \o data)[Len(x) + k] = data[k]
        /\ Len(x \o data) = Len(x) + Len(data) /\ Len(data) \in Nat
    BY ConcatAt
  <1>4. x \o data \in Seq(Bytes) /\ Len(x \o data) = p + Len(data)
    <2>1. x \o data \in Seq(Bytes)
      OBVIOUS
    <2> QED BY <1>2, <1>3, <2>1, Zenon
  <1>5. ASSUME NEW i \in 1..p + Len(data) PROVE (x \o data)[i] = Sent(t)[i]
    <2>1. CASE i <= p
      <3>1. i \in 1..p
        BY <2>1
      <3> QED BY <1>2, <1>3, <3>1
    <2>2. CASE ~(i <= p)
      <3>1. i - p \in 1..Len(data) /\ p + (i - p) = i
        BY <1>1, <1>3, <2>2
      <3>2. (x \o data)[p + (i - p)] = data[i - p] /\ data[i - p] = Sent(t)[p + (i - p)]
        BY <1>2, <1>3, <3>1
      <3> QED BY <3>1, <3>2
    <2> QED BY <2>1, <2>2
  <1> QED BY <1>2, <1>3, <1>4, <1>5

\* The first n bytes are compared with those of the preface.
LEMMA ComparesFirst ==
    ASSUME NEW s \in Seq(Bytes), NEW n \in 0..3, n <= Len(s)
    PROVE  SubSeq(s, 1, n) = SubSeq(Preface, 1, n) <=> \A i \in 1..n : s[i] = Preface[i]
  <1>1. Preface \in Seq(Bytes) /\ Len(Preface) = 3 /\ n \in 0..Len(s) /\ n \in 0..Len(Preface)
    BY SomeBytes DEF Preface
  <1>2. PICK x \in Seq(Bytes) : x = SubSeq(s, 1, n) /\ Len(x) = n /\ \A j \in 1..n : x[j] = s[j]
    <2>1. SubSeq(s, 1, n) \in Seq(Bytes) /\ Len(SubSeq(s, 1, n)) = n /\ \A j \in 1..n : SubSeq(s, 1, n)[j] = s[j]
      BY <1>1, Prefixes
    <2> QED BY <2>1, Zenon
  <1>3. PICK y \in Seq(Bytes) : y = SubSeq(Preface, 1, n) /\ Len(y) = n /\ \A j \in 1..n : y[j] = Preface[j]
    <2>1. /\ SubSeq(Preface, 1, n) \in Seq(Bytes) /\ Len(SubSeq(Preface, 1, n)) = n
          /\ \A j \in 1..n : SubSeq(Preface, 1, n)[j] = Preface[j]
      BY <1>1, Prefixes
    <2> QED BY <2>1, Zenon
  <1>4. ASSUME x = y PROVE \A i \in 1..n : s[i] = Preface[i]
    BY <1>2, <1>3, <1>4, Zenon
  <1>5. ASSUME \A i \in 1..n : s[i] = Preface[i] PROVE x = y
    <2>1. \A j \in 1..Len(x) : x[j] = y[j]
      BY <1>2, <1>3, <1>5, Zenon
    <2>2. Len(x) = Len(y)
      BY <1>2, <1>3, Zenon
    <2> QED BY <2>1, <2>2, SeqEqual, Zenon
  <1> QED BY <1>2, <1>3, <1>4, <1>5, Zenon

AsRequests(a) == [a EXCEPT !.state = "RequestLine", !.line = <<>>]
AsPreface(a) == GiveUp([a EXCEPT !.line = Preface])

\* A conversation that is not the preface's is read as requests from its
\* first byte, and the preface itself is passed on as it is.
LEMMA FirstInPlace ==
    ASSUME NEW t \in Conversations, NEW a \in Adapters, a.out = <<>>
    PROVE  /\ ~t.preface => AsRequests(a) \in Running /\ InPlace(t, <<>>, AsRequests(a), 0)
           /\ t.preface => AsPreface(a) \in Running /\ InPlace(t, <<>>, AsPreface(a), 3)
  <1> DEFINE new == [a EXCEPT !.state = "RequestLine", !.line = <<>>]
             c == [a EXCEPT !.line = Preface]
             over == GiveUp(c)
  <1>0. <<>> \in Seq(Bytes) /\ Preface \in Seq(Bytes) /\ Preface \in Seq(Written) /\ Len(Preface) = 3 /\ Preface # <<>>
        /\ <<>> \o <<>> = <<>> /\ Len(<<>>) = 0
    BY SomeBytes DEF Preface
  <1>1. ASSUME ~t.preface PROVE new \in Running /\ InPlace(t, <<>>, new, 0)
    <2>1. new \in Adapters /\ new.state = "RequestLine" /\ new.line = <<>> /\ new.out = <<>>
      BY <1>0 DEF Adapters, States
    <2> HIDE DEF new
    <2>2. new \in Running
      BY <2>1 DEF Running, Flush
    <2>3. AtLine(new, t, Pieces(t), 1)
      BY <1>1, <2>1, FirstLine DEF AtLine
    <2>4. Ahead(new, t, Pieces(t))
      BY <1>1, <2>3, FirstLine DEF Ahead
    <2>5. Begun(new.line, Pieces(t))
      <3>1. 0 \in 0..2 /\ 0 <= Len(Sent(t)) /\ \A i \in 1..0 : Sent(t)[i] = Preface[i]
        BY SentIs
      <3>2. Begun(SubSeq(Sent(t), 1, 0), Pieces(t))
        BY <3>1, Begins
      <3>3. SubSeq(Sent(t), 1, 0) = <<>>
        BY SentIs, Prefixes
      <3> QED BY <2>1, <3>2, <3>3
    <2>6. PICK A \in Seq(Piece), B \in Seq(Piece) : A = <<>> /\ B = Pieces(t) /\ A \o B = B
      <3>1. <<>> \in Seq(Piece) /\ Pieces(t) \in Seq(Piece) /\ <<>> \o Pieces(t) = Pieces(t)
        BY PiecesAre
      <3> QED BY <3>1, Zenon
    <2>7. <<>> \o new.out = All(A, "owed") /\ 0 = Len(All(A, "raw")) + Len(new.line)
      <3>1. All(A, "owed") = <<>> /\ All(A, "raw") = <<>>
        BY <2>6, AllNone, Zenon
      <3>2. 0 + 0 = 0
        OBVIOUS
      <3> QED BY <1>0, <2>1, <3>1, <3>2, Zenon
    <2>8. InPlace(t, <<>>, new, 0)
      BY <2>4, <2>5, <2>6, <2>7, Zenon DEF InPlace
    <2> QED BY <2>2, <2>8
  <1>2. ASSUME t.preface PROVE over \in Running /\ InPlace(t, <<>>, over, 3)
    <2>1. c \in Adapters /\ c.line = Preface /\ c.out = <<>>
      BY <1>0 DEF Adapters
    <2> HIDE DEF c
    <2>2. over \in Running /\ over.state = "PassThrough" /\ over.out = <<>> \o Preface /\ over.line = <<>>
      <3>1. Sound(over) /\ over.state = "PassThrough" /\ over.out = c.out \o c.line
        BY <2>1, GiveUpHolds
      <3> HIDE DEF over
      <3> QED BY <2>1, <3>1 DEF Running, Sound, Flush
    <2> HIDE DEF over
    <2>3. <<>> \o Preface = Preface /\ <<>> \o over.out = over.out
      BY <1>0, <2>2
    <2>4. PICK A \in Seq(Piece), B \in Seq(Piece) : A = Whole(Preface, Preface) /\ B = PiecesFrom(t, 1)
      BY <1>2, PrefaceIs
    <2>5. Pieces(t) = A \o B /\ Bare(B)
      BY <1>2, <2>4, PrefaceIs, Zenon
    <2>6. Ahead(over, t, B)
      BY <2>2, <2>5 DEF Ahead
    <2>7. Begun(over.line, B)
      <3>1. CASE B = <<>>
        BY <2>2, <3>1 DEF Begun
      <3>2. CASE B # <<>>
        <4>1. 1 \in 1..Len(B)
          BY <3>2
        <4>2. Len(B[1].raw) = 1
          BY <2>5, <4>1 DEF Bare
        <4>3. 0 < Len(B[1].raw)
          BY <4>2
        <4> QED BY <1>0, <2>2, <3>2, <4>3, SubSeqEmpty DEF Begun
      <3> QED BY <3>1, <3>2
    <2>8. <<>> \o over.out = All(A, "owed") /\ 3 = Len(All(A, "raw")) + Len(over.line)
      <3>1. All(A, "owed") = Preface /\ All(A, "raw") = Preface
        BY <1>0, <2>4, WholeIs
      <3>2. 3 + 0 = 3
        OBVIOUS
      <3> QED BY <1>0, <2>2, <2>3, <3>1, <3>2, Zenon
    <2>9. InPlace(t, <<>>, over, 3)
      BY <2>5, <2>6, <2>7, <2>8, Zenon DEF InPlace
    <2> QED BY <2>2, <2>9
  <1> HIDE DEF new, over
  <1>3. /\ ~t.preface => new \in Running /\ InPlace(t, <<>>, new, 0)
        /\ t.preface => over \in Running /\ InPlace(t, <<>>, over, 3)
    BY <1>1, <1>2
  <1> QED BY <1>3 DEF new, over, AsRequests, AsPreface

LEMMA ProcessStands ==
    ASSUME NEW t \in Conversations, LinesFit(t), NEW h \in Seq(Written), NEW a, Sound(a), NEW p \in Nat,
           Stands(t, h, a, p), NEW data \in Seq(Bytes), p + Len(data) <= Len(Sent(t)),
           \A i \in 1..Len(data) : data[i] = Sent(t)[p + i]
    PROVE  Sound(Process(a, data)) /\ Stands(t, h, Process(a, data), p + Len(data))
  <1>0. a \in Adapters /\ Flush(a) /\ Len(data) \in Nat
    BY DEF Sound
  <1>1. CASE a.state # "Preface"
    <2>1. a \in Running /\ InPlace(t, h, a, p) /\ Process(a, data) = Feed(a, data)
      BY <1>0, <1>1 DEF Running, Stands, Process
    <2>2. Feed(a, data) \in Running /\ InPlace(t, h, Feed(a, data), p + Len(data))
      BY <2>1, FeedInPlace
    <2> QED BY <2>1, <2>2 DEF Running, Sound, Stands
  <1>2. CASE a.state = "Preface"
    <2>1. Waiting(t, h, a, p)
      BY <1>2 DEF Stands
    <2>2. h = <<>> /\ a.out = <<>> /\ p \in 0..2 /\ p <= Len(Sent(t)) /\ a.line = SubSeq(Sent(t), 1, p)
      BY <2>1 DEF Waiting
    <2>3. PICK held \in Seq(Bytes) :
              /\ held = a.line \o data /\ Len(held) = p + Len(data)
              /\ \A i \in 1..Len(held) : held[i] = Sent(t)[i]
      <3>1. LET all == SubSeq(Sent(t), 1, p) \o data
            IN /\ all \in Seq(Bytes) /\ Len(all) = p + Len(data)
               /\ \A i \in 1..Len(all) : all[i] = Sent(t)[i]
        BY <2>2, HeldIs
      <3> QED BY <2>2, <3>1, Zenon
    <2>4. Len(Preface) = 3 /\ Len(held) \in Nat /\ Len(held) <= Len(Sent(t)) /\ Len(Sent(t)) \in Nat
      <3>1. Len(Sent(t)) \in Nat
        BY SentIs
      <3>2. Len(held) <= Len(Sent(t))
        BY <2>3, Zenon
      <3>3. Len(Preface) = 3 /\ Len(held) \in Nat
        BY DEF Preface
      <3> QED BY <3>1, <3>2, <3>3
    <2>5. PICK n \in 0..3 : n = (IF Len(held) < Len(Preface) THEN Len(held) ELSE Len(Preface)) /\ n <= Len(held)
                            /\ (n < 3 => n = Len(held))
      <3>1. PICK l \in Nat : l = Len(held)
        BY <2>4, Zenon
      <3>2. /\ (IF l < 3 THEN l ELSE 3) \in 0..3 /\ (IF l < 3 THEN l ELSE 3) <= l
            /\ ((IF l < 3 THEN l ELSE 3) < 3 => (IF l < 3 THEN l ELSE 3) = l)
        OBVIOUS
      <3> QED BY <2>4, <3>1, <3>2, Zenon
    <2> DEFINE new == AsRequests(a)
               over == AsPreface(a)
    <2>6. SubSeq(held, 1, n) = SubSeq(Preface, 1, n) <=> \A i \in 1..n : held[i] = Preface[i]
      BY <2>5, ComparesFirst
    <2>7. CASE SubSeq(held, 1, n) # SubSeq(Preface, 1, n)
      <3>1. Process(a, data) = Feed(new, held)
        BY <1>2, <2>3, <2>5, <2>7 DEF Process, AsRequests
      <3>2. ~t.preface
        <4>1. PICK i \in 1..n : held[i] # Preface[i]
          BY <2>6, <2>7
        <4>2. i \in 1..3 /\ i \in 1..Len(held)
          BY <2>4, <2>5
        <4> QED BY <2>3, <4>1, <4>2, PrefaceIs
      <3>3. new \in Running /\ InPlace(t, <<>>, new, 0)
        BY <1>0, <2>2, <3>2, FirstInPlace
      <3> HIDE DEF new
      <3>4. 0 + Len(held) <= Len(Sent(t)) /\ \A i \in 1..Len(held) : held[i] = Sent(t)[0 + i]
        BY <2>3, <2>4, SMTT(30)
      <3>5. Feed(new, held) \in Running /\ InPlace(t, <<>>, Feed(new, held), 0 + Len(held))
        <4>1. <<>> \in Seq(Written) /\ 0 \in Nat
          OBVIOUS
        <4> QED BY <3>3, <3>4, <4>1, FeedInPlace
      <3>6. 0 + Len(held) = p + Len(data)
        BY <2>3, <2>4
      <3> QED BY <2>2, <3>1, <3>5, <3>6 DEF Running, Sound, Stands
    <2>8. CASE SubSeq(held, 1, n) = SubSeq(Preface, 1, n) /\ n < 3
      <3>1. Process(a, data) = [a EXCEPT !.line = held]
        BY <1>2, <2>3, <2>4, <2>5, <2>8 DEF Process
      <3> DEFINE g == [a EXCEPT !.line = held]
      <3>2. /\ g \in Adapters /\ g.state = "Preface" /\ g.line = held /\ g.out = <<>>
        BY <1>0, <1>2, <2>2 DEF Adapters
      <3> HIDE DEF g
      <3>3. n = p + Len(data) /\ n \in 0..2 /\ n = Len(held)
        <4>1. n = Len(held)
          BY <2>5, <2>8, Zenon
        <4>2. n \in 0..2
          BY <2>8
        <4> QED BY <2>3, <4>1, <4>2, Zenon
      <3>4. held = SubSeq(Sent(t), 1, n)
        <4>1. n \in 0..Len(Sent(t)) /\ Sent(t) \in Seq(Bytes)
          BY <2>4, <3>3, SentIs
        <4>2. PICK x \in Seq(Bytes) : x = SubSeq(Sent(t), 1, n) /\ Len(x) = n /\ \A j \in 1..n : x[j] = Sent(t)[j]
          <5>1. /\ SubSeq(Sent(t), 1, n) \in Seq(Bytes) /\ Len(SubSeq(Sent(t), 1, n)) = n
                /\ \A j \in 1..n : SubSeq(Sent(t), 1, n)[j] = Sent(t)[j]
            BY <4>1, Prefixes
          <5> QED BY <5>1, Zenon
        <4>3. Len(held) = Len(x) /\ \A j \in 1..Len(held) : held[j] = x[j]
          BY <2>3, <3>3, <4>2, Zenon
        <4> QED BY <4>2, <4>3, SeqEqual, Zenon
      <3>5. \A i \in 1..n : Sent(t)[i] = Preface[i]
        BY <2>3, <2>6, <2>8, <3>3, Zenon
      <3>6. Waiting(t, h, g, n)
        BY <2>2, <2>4, <3>2, <3>3, <3>4, <3>5 DEF Waiting
      <3>7. Stands(t, h, g, n) /\ Sound(g)
        BY <3>2, <3>6 DEF Stands, Sound, Flush
      <3> QED BY <3>1, <3>3, <3>7, Zenon DEF g
    <2>9. CASE SubSeq(held, 1, n) = SubSeq(Preface, 1, n) /\ n = 3
      <3> DEFINE left == SubSeq(held, 4, Len(held))
      <3>1. Process(a, data) = Feed(over, left)
        <4>1. n + 1 = 4 /\ ~(n < 3)
          BY <2>9
        <4> QED BY <1>2, <2>3, <2>4, <2>5, <2>9, <4>1, Zenon DEF Process, AsPreface
      <3>2. 3 <= Len(held) /\ \A i \in 1..3 : Sent(t)[i] = Preface[i]
        <4>1. 3 <= Len(held) /\ \A i \in 1..3 : held[i] = Preface[i]
          BY <2>5, <2>6, <2>9, Zenon
        <4>2. \A i \in 1..3 : i \in 1..Len(held)
          BY <2>4, <4>1
        <4> QED BY <2>3, <4>1, <4>2, Zenon
      <3>3. t.preface
        <4>1. 2 <= Len(Sent(t)) /\ Preface[1] = "PRI" /\ Preface[2] = "LF" /\ 1 \in 1..3 /\ 2 \in 1..3
          BY <2>4, <3>2 DEF Preface
        <4>2. Sent(t)[1] = "PRI" /\ Sent(t)[2] = "LF"
          BY <3>2, <4>1, Zenon
        <4> QED BY <4>1, <4>2, NotPreface
      <3>4. over \in Running /\ InPlace(t, <<>>, over, 3)
        BY <1>0, <2>2, <3>3, FirstInPlace
      <3> HIDE DEF over
      <3>5. left \in Seq(Bytes) /\ Len(left) = Len(held) - 3 /\ \A i \in 1..Len(left) : left[i] = held[3 + i]
        <4>1. 3 \in 0..Len(held) /\ 3 + 1 = 4
          BY <2>4, <3>2
        <4>2. PICK x \in Seq(Bytes), y \in Seq(Bytes) :
                  x = SubSeq(held, 1, 3) /\ y = left /\ held = x \o y /\ Len(x) = 3 /\ Len(y) = Len(held) - 3
          <5>1. /\ held = SubSeq(held, 1, 3) \o left /\ SubSeq(held, 1, 3) \in Seq(Bytes) /\ left \in Seq(Bytes)
                /\ Len(SubSeq(held, 1, 3)) = 3 /\ Len(left) = Len(held) - 3
            <6>1. PICK k \in 0..Len(held) : k = 3 /\ k + 1 = 4
              BY <4>1, Zenon
            <6>2. /\ held = SubSeq(held, 1, k) \o SubSeq(held, k + 1, Len(held))
                  /\ SubSeq(held, 1, k) \in Seq(Bytes) /\ SubSeq(held, k + 1, Len(held)) \in Seq(Bytes)
                  /\ Len(SubSeq(held, 1, k)) = k /\ Len(SubSeq(held, k + 1, Len(held))) = Len(held) - k
              BY CutAt
            <6> QED BY <6>1, <6>2, Zenon
          <5> HIDE DEF left
          <5> QED BY <5>1, Zenon
        <4> HIDE DEF left
        <4>3. \A k \in 1..Len(y) : (x \o y)[Len(x) + k] = y[k]
          BY ConcatAt
        <4> QED BY <4>2, <4>3, Zenon
      <3> HIDE DEF left
      <3>6. 3 + Len(left) = Len(held) /\ \A i \in 1..Len(left) : 3 + i \in 1..Len(held)
        BY <2>4, <3>5
      <3>7. 3 + Len(left) <= Len(Sent(t)) /\ \A i \in 1..Len(left) : left[i] = Sent(t)[3 + i]
        BY <2>3, <2>4, <3>5, <3>6
      <3>8. Feed(over, left) \in Running /\ InPlace(t, <<>>, Feed(over, left), 3 + Len(left))
        <4>1. <<>> \in Seq(Written) /\ 3 \in Nat
          OBVIOUS
        <4> QED BY <3>4, <3>5, <3>7, <4>1, FeedInPlace
      <3>9. 3 + Len(left) = p + Len(data)
        BY <2>3, <3>6
      <3> QED BY <2>2, <3>1, <3>8, <3>9 DEF Running, Sound, Stands
    <2> HIDE DEF new, over
    <2>10. n < 3 \/ n = 3
      OBVIOUS
    <2> QED BY <2>7, <2>8, <2>9, <2>10
  <1> QED BY <1>1, <1>2

-----------------------------------------------------------------------------
(* What is owed is what was handed over and what waits *)

LEMMA MoveOver ==
    ASSUME NEW t, NEW h, NEW a, NEW p, InPlace(t, h, a, p), NEW k, NEW g, k \o g.out = h \o a.out,
           g.line = a.line, g.state = a.state, g.length = a.length, g.upgrade = a.upgrade
    PROVE  InPlace(t, k, g, p)
  <1>1. PICK A \in Seq(Piece), B \in Seq(Piece) :
            /\ Pieces(t) = A \o B /\ h \o a.out = All(A, "owed")
            /\ p = Len(All(A, "raw")) + Len(a.line)
            /\ Begun(a.line, B) /\ Ahead(a, t, B)
    BY DEF InPlace
  <1>2. Ahead(g, t, B)
    BY <1>1, AheadSame
  <1>3. k \o g.out = All(A, "owed") /\ p = Len(All(A, "raw")) + Len(g.line) /\ Begun(g.line, B)
    BY <1>1, Zenon
  <1> QED BY <1>1, <1>2, <1>3, Zenon DEF InPlace

LEMMA OneByteMore ==
    ASSUME NEW h \in Seq(Written), NEW d \in Seq(Written), NEW b \in Written
    PROVE  (h \o Append(d, b)) \o <<>> = (h \o d) \o <<b>>
  <1>1. Append(d, b) = d \o <<b>> /\ <<b>> \in Seq(Written)
    OBVIOUS
  <1>2. PICK e \in Seq(Written) : e = <<b>> /\ Append(d, b) = d \o e
    BY <1>1, Zenon
  <1>3. (h \o d) \o e = h \o (d \o e)
    BY ConcatAssociative
  <1>4. PICK w \in Seq(Written) : w = d \o e
    <2>1. d \o e \in Seq(Written)
      OBVIOUS
    <2> QED BY <2>1, Zenon
  <1>5. (h \o w) \o <<>> = h \o w
    OBVIOUS
  <1> QED BY <1>2, <1>3, <1>4, <1>5, Zenon

\* Where the socket is read past the adapter, what is read is what is owed.
LEMMA SocketInPlace ==
    ASSUME NEW t \in Conversations, NEW h \in Seq(Written), NEW a \in Running, NEW p \in Nat,
           a.state = "PassThrough", a.out = <<>>,
           InPlace(t, h, a, p), NEW data \in Seq(Bytes), p + Len(data) <= Len(Sent(t)),
           \A i \in 1..Len(data) : data[i] = Sent(t)[p + i]
    PROVE  InPlace(t, h \o data, a, p + Len(data))
  <1> DEFINE n == Len(data)
             given(i) == SubSeq(data, 1, i)
             Good == {i \in 0..n : InPlace(t, h \o given(i), a, p + i)}
  <1>1. n \in Nat /\ given(0) = <<>> /\ given(n) = data
    BY Prefixes
  <1>2. 0 \in Good
    <2>1. h \o <<>> = h /\ p + 0 = p /\ 0 \in 0..n
      BY <1>1
    <2> QED BY <1>1, <2>1
  <1>3. ASSUME NEW i \in 1..n, i - 1 \in Good PROVE i \in Good
    <2>1. i - 1 \in 0..n /\ i \in 0..n /\ p + (i - 1) \in Nat /\ p + (i - 1) < Len(Sent(t))
          /\ p + (i - 1) + 1 = p + i /\ Len(Sent(t)) \in Nat
      <3>1. Len(Sent(t)) \in Nat
        BY SentIs
      <3> QED BY <1>1, <3>1
    <2>2. PICK k \in Seq(Written), d \in Seq(Written), b \in Bytes :
              k = h \o d /\ d = given(i - 1) /\ b = data[i] /\ given(i) = Append(d, b)
      <3>1. given(i) = Append(given(i - 1), data[i]) /\ data[i] \in Bytes /\ given(i - 1) \in Seq(Bytes)
        BY Prefixes
      <3>2. given(i - 1) \in Seq(Written)
        BY <3>1, SomeBytes
      <3> HIDE DEF given
      <3>3. PICK d \in Seq(Written) : d = given(i - 1)
        BY <3>2, Zenon
      <3>4. h \o d \in Seq(Written)
        OBVIOUS
      <3> QED BY <3>1, <3>3, <3>4, Zenon
    <2>3. InPlace(t, k, a, p + (i - 1)) /\ b = Sent(t)[p + i]
      BY <1>3, <2>2
    <2> DEFINE g == Byte(a, b)
    <2>4. InPlace(t, k, g, p + i)
      BY <2>1, <2>3, ByteInPlace
    <2>5. a.line = <<>> /\ a \in Adapters
      BY DEF Running, Flush
    <2>6. g = [a EXCEPT !.out = Append(@, b)]
      BY DEF Byte
    <2>7. /\ g.out = <<b>> /\ g.line = a.line /\ g.state = a.state /\ g.length = a.length /\ g.upgrade = a.upgrade
      <3>1. Append(<<>>, b) = <<b>>
        OBVIOUS
      <3> QED BY <2>5, <2>6, <3>1 DEF Adapters
    <2> HIDE DEF g
    <2>8. (h \o given(i)) \o a.out = k \o g.out
      <3>1. b \in Written
        BY SomeBytes
      <3>2. (h \o Append(d, b)) \o <<>> = (h \o d) \o <<b>>
        BY <3>1, OneByteMore, Zenon
      <3> HIDE DEF given
      <3> QED BY <2>2, <2>7, <3>2, Zenon
    <2>9. InPlace(t, h \o given(i), a, p + i)
      <3> HIDE DEF given
      <3> QED BY <2>4, <2>7, <2>8, MoveOver, Zenon
    <2> QED BY <2>1, <2>9
  <1>4. n \in Good
    <2>1. n \in 0..n
      BY <1>1
    <2> HIDE DEF Good, n
    <2> QED BY <1>1, <1>2, <1>3, <2>1, CountUp
  <1> HIDE DEF given
  <1> QED BY <1>1, <1>4

StreamInv ==
    /\ LostInv /\ ended \in BOOLEAN
    /\ LinesFit(talk) => IF ended THEN handed \o adapter.out = Owed(talk, fetched, TRUE)
                         ELSE Stands(talk, handed, adapter, fetched)

LEMMA InitStreamInv == UriInit => StreamInv
  <1> SUFFICES ASSUME UriInit PROVE StreamInv
    OBVIOUS
  <1>1. LostInv /\ talk \in Conversations
    BY InitLostInv DEF LostInv
  <1>2. /\ adapter.state = "Preface" /\ adapter.out = <<>> /\ adapter.line = <<>> /\ handed = <<>>
        /\ fetched = 0 /\ ended = FALSE
    BY DEF UriInit, NewAdapter
  <1>3. Sent(talk) \in Seq(Bytes) /\ Len(Sent(talk)) \in Nat /\ SubSeq(Sent(talk), 1, 0) = <<>>
    BY <1>1, SentIs, Prefixes
  <1>4. Waiting(talk, handed, adapter, fetched)
    <2>1. 0 \in 0..2 /\ 0 <= Len(Sent(talk)) /\ \A i \in 1..0 : Sent(talk)[i] = Preface[i]
      BY <1>3
    <2> QED BY <1>2, <1>3, <2>1, Zenon DEF Waiting
  <1> QED BY <1>1, <1>2, <1>4 DEF StreamInv, Stands

LEMMA HandStreamInv ==
    ASSUME StreamInv, NEW n \in 1..Len(adapter.out), HandOver(n)
    PROVE  StreamInv'
  <1>1. n \in Nat /\ adapter.out # <<>> /\ adapter \in Adapters
    BY DEF StreamInv, LostInv, Sound, Adapters
  <1>2. LostInv'
    BY <1>1, HandLostInv DEF StreamInv
  <1>3. /\ handed' \o adapter'.out = handed \o adapter.out
        /\ adapter'.line = adapter.line /\ adapter'.state = adapter.state
        /\ adapter'.length = adapter.length /\ adapter'.upgrade = adapter.upgrade
    BY <1>1, HandedIs DEF StreamInv
  <1>4. UNCHANGED <<talk, fetched, ended>>
    BY DEF HandOver
  <1>5. ASSUME LinesFit(talk), ~ended PROVE Stands(talk, handed', adapter', fetched)
    <2>1. Stands(talk, handed, adapter, fetched)
      BY <1>5 DEF StreamInv
    <2>2. adapter.state # "Preface" /\ InPlace(talk, handed, adapter, fetched)
      BY <1>1, <2>1 DEF Stands, Waiting
    <2>3. InPlace(talk, handed', adapter', fetched)
      BY <1>3, <2>2, MoveOver
    <2> QED BY <1>3, <2>2, <2>3 DEF Stands
  <1> QED BY <1>2, <1>3, <1>4, <1>5 DEF StreamInv

LEMMA ReadStreamInv ==
    ASSUME StreamInv, NEW n \in Nat, ReadSocket(n)
    PROVE  StreamInv'
  <1> DEFINE data == SubSeq(Sent(talk), fetched + 1, fetched + n)
  <1>1. LostInv /\ talk \in Conversations /\ Sound(adapter) /\ handed \in Seq(Written) /\ adapter \in Adapters
    BY DEF StreamInv, LostInv, Sound
  <1>2. LostInv'
    BY <1>1, ReadLostInv
  <1>3. /\ data \in Seq(Bytes) /\ Len(data) = n /\ fetched \in Nat
        /\ \A i \in 1..n : data[i] = Sent(talk)[fetched + i]
    BY <1>1, FetchedIs DEF ReadSocket
  <1>4. /\ adapter.out = <<>> /\ ~ended /\ fetched + n <= Len(Sent(talk)) /\ fetched' = fetched + n /\ UNCHANGED <<talk, ended>>
        /\ IF adapter.state = "PassThrough"
           THEN handed' = handed \o data /\ UNCHANGED adapter
           ELSE adapter' = Process(adapter, data) /\ UNCHANGED handed
    BY DEF ReadSocket
  <1> HIDE DEF data
  <1>5. ASSUME LinesFit(talk) PROVE Stands(talk, handed', adapter', fetched + n)
    <2>1. Stands(talk, handed, adapter, fetched)
      BY <1>4, <1>5 DEF StreamInv
    <2>2. CASE adapter.state = "PassThrough"
      <3>1. adapter \in Running /\ InPlace(talk, handed, adapter, fetched)
        BY <1>1, <2>1, <2>2 DEF Running, Sound, Stands
      <3>2. InPlace(talk, handed \o data, adapter, fetched + n)
        BY <1>1, <1>3, <1>4, <2>2, <3>1, SocketInPlace
      <3> QED BY <1>4, <2>2, <3>2 DEF Stands
    <2>3. CASE adapter.state # "PassThrough"
      <3>1. Stands(talk, handed, Process(adapter, data), fetched + n)
        BY <1>1, <1>3, <1>4, <1>5, <2>1, ProcessStands
      <3> QED BY <1>4, <2>3, <3>1, Zenon
    <2> QED BY <2>2, <2>3
  <1>6. StreamInv' = (LostInv' /\ ended' \in BOOLEAN
                      /\ (LinesFit(talk') => IF ended' THEN handed' \o adapter'.out = Owed(talk', fetched', TRUE)
                                             ELSE Stands(talk', handed', adapter', fetched')))
    BY DEF StreamInv
  <1>7. ended' \in BOOLEAN /\ ~ended'
    BY <1>4 DEF StreamInv
  <1> QED BY <1>2, <1>4, <1>5, <1>6, <1>7, Zenon

LEMMA EndStreamInv ==
    ASSUME StreamInv, ReadEnd
    PROVE  StreamInv'
  <1>1. LostInv /\ talk \in Conversations /\ handed \in Seq(Written) /\ adapter \in Adapters
    BY DEF StreamInv, LostInv, Sound
  <1>2. LostInv'
    BY <1>1, EndLostInv
  <1>3. /\ ~ended /\ ended' = TRUE /\ UNCHANGED <<talk, fetched, handed>>
        /\ adapter' = IF adapter.line = <<>> THEN adapter ELSE GiveUp(adapter)
    BY DEF ReadEnd
  <1>4. adapter'.out = adapter.out \o adapter.line
    <2>1. adapter.out \o <<>> = adapter.out
      BY <1>1 DEF Adapters
    <2>2. GiveUp(adapter).out = adapter.out \o adapter.line
      BY <1>1, GiveUpHolds
    <2> QED BY <1>3, <2>1, <2>2
  <1>5. ASSUME LinesFit(talk) PROVE handed \o adapter'.out = Owed(talk, fetched, TRUE)
    <2>1. Between(talk, handed, adapter, fetched)
      BY <1>1, <1>3, <1>5, StandsBetween DEF StreamInv
    <2>2. Owed(talk, fetched, TRUE) = (handed \o adapter.out) \o adapter.line
      <3>1. Owed(talk, fetched, TRUE) = (handed \o adapter.out) \o (IF TRUE THEN adapter.line ELSE <<>>)
        BY <1>1, <2>1, OwedIs
      <3> QED BY <3>1
    <2>3. PICK x \in Seq(Written), y \in Seq(Written), z \in Seq(Written) :
              x = handed /\ y = adapter.out /\ z = adapter.line
      BY <1>1, SomeBytes DEF Adapters
    <2>4. (x \o y) \o z = x \o (y \o z)
      BY ConcatAssociative
    <2> QED BY <1>4, <2>2, <2>3, <2>4, Zenon
  <1> QED BY <1>2, <1>3, <1>5 DEF StreamInv

LEMMA NextStreamInv == StreamInv /\ [UriNext]_uriVars => StreamInv'
  <1> SUFFICES ASSUME StreamInv, [UriNext]_uriVars PROVE StreamInv'
    OBVIOUS
  <1>1. ASSUME NEW n \in 1..Len(adapter.out), HandOver(n) PROVE StreamInv'
    BY <1>1, HandStreamInv
  <1>2. ASSUME NEW n \in 1..MaxRead, ReadSocket(n) PROVE StreamInv'
    <2>1. n \in Nat
      BY LenientAssumption
    <2> QED BY <1>2, <2>1, ReadStreamInv
  <1>3. CASE UNCHANGED uriVars
    <2>1. UNCHANGED <<talk, fetched, adapter, handed, ended>>
      BY <1>3 DEF uriVars
    <2>2. LostInv'
      BY <2>1 DEF StreamInv, LostInv, NothingLostOrMoved
    <2> QED BY <2>1, <2>2 DEF StreamInv
  <1> QED BY <1>1, <1>2, <1>3, EndStreamInv DEF UriNext

LEMMA StreamSafety == StreamInv => StreamIsFaithful
  <1> SUFFICES ASSUME StreamInv PROVE StreamIsFaithful
    OBVIOUS
  <1>1. talk \in Conversations /\ handed \in Seq(Written) /\ adapter \in Adapters /\ NothingLostOrMoved
    BY DEF StreamInv, LostInv, Sound
  <1>2. ASSUME LinesFit(talk) PROVE handed \o adapter.out = Owed(talk, fetched, ended)
    <2>1. CASE ended
      <3>1. ended = TRUE
        BY <2>1 DEF StreamInv
      <3> QED BY <1>2, <2>1, <3>1 DEF StreamInv
    <2>2. CASE ~ended
      <3>1. ended = FALSE
        BY <2>2 DEF StreamInv
      <3>2. Between(talk, handed, adapter, fetched)
        BY <1>1, <1>2, <2>2, StandsBetween DEF StreamInv
      <3>3. Owed(talk, fetched, FALSE) = (handed \o adapter.out) \o (IF FALSE THEN adapter.line ELSE <<>>)
        BY <1>1, <3>2, OwedIs
      <3>4. (handed \o adapter.out) \o <<>> = handed \o adapter.out
        <4>1. PICK x \in Seq(Written), y \in Seq(Written) : x = handed /\ y = adapter.out
          BY <1>1 DEF Adapters
        <4>2. (x \o y) \o <<>> = x \o y
          OBVIOUS
        <4> QED BY <4>1, <4>2, Zenon
      <3> QED BY <3>1, <3>3, <3>4
    <2> QED BY <2>1, <2>2
  <1> QED BY <1>1, <1>2 DEF StreamIsFaithful, OnlyTargetsChange

(***************************************************************************)
(* lenient_uri.rs: however a connection is cut into reads, hyper is owed   *)
(* exactly the bytes that were sent, with the targets of the requests that *)
(* can be followed encoded, and none is lost, repeated or moved.           *)
(***************************************************************************)
THEOREM StreamFaithful == UriSpec => []StreamIsFaithful
  <1>1. UriInit => StreamInv
    BY InitStreamInv
  <1>2. StreamInv /\ [UriNext]_uriVars => StreamInv'
    BY NextStreamInv
  <1>3. StreamInv => StreamIsFaithful
    BY StreamSafety
  <1> QED BY <1>1, <1>2, <1>3, PTL DEF UriSpec
=============================================================================
