----------------------------- MODULE TokenCache -----------------------------
(***************************************************************************)
(* postrust-auth: tokens are verified against the clock and remembered.    *)
(* Request threads share one map behind a mutex; between the mutex's two   *)
(* critical sections they verify the token, read how long it has left and  *)
(* read the clock again, and time passes between any two of these.         *)
(*                                                                         *)
(* Time is counted in ticks, Second of them to a second.  A token is       *)
(* judged by whole seconds; an entry expires at a tick.  The wall clock    *)
(* and the monotonic one advance together here.                            *)
(***************************************************************************)
EXTENDS Integers, FiniteSets

CONSTANTS
    Threads,        \* requests authenticating at once
    Tokens,         \* tokens whose signature verifies
    Exp,            \* each token's `exp`: [kind, at]; at in seconds
    From,           \* each token's `nbf` or `iat`, in seconds; 0 when it has none
    Capacity,       \* CAPACITY
    MaxLifetime,    \* jwt_cache_max_lifetime, in ticks
    Second,         \* ticks in a second
    Skew,           \* ALLOWED_SKEW, in seconds
    MaxStall,       \* bound on how long a thread stands between two lines
    Horizon,        \* bound on time
    NoToken         \* a thread that is authenticating nothing

Kinds == {"absent", "in", "unreadable", "malformed"}

ASSUME CacheAssumption ==
    /\ NoToken \notin Tokens
    /\ Exp \in [Tokens -> [kind : Kinds, at : Nat]]
    /\ From \in [Tokens -> Nat]
    /\ Capacity \in Nat \ {0} /\ MaxLifetime \in Nat \ {0} /\ Second \in Nat \ {0}
    /\ Skew \in Nat /\ MaxStall \in Nat /\ Horizon \in Nat

VARIABLES
    now,        \* the time, in ticks
    entries,    \* the map: the tick a token's entry expires at, 0 when it has none
    pc,         \* where each thread is in authenticate
    tok,        \* the token it is authenticating
    since,      \* when it read the token's remaining lifetime
    ttl,        \* the lifetime it will give the entry
    at          \* the clock insert has read

cacheVars == <<now, entries, pc, tok, since, ttl, at>>

CacheTypeOK ==
    /\ now \in Nat
    /\ entries \in [Tokens -> Nat]
    /\ pc \in [Threads -> {"idle", "verify", "remaining", "clock", "insert"}]
    /\ tok \in [Threads -> Tokens \cup {NoToken}]
    /\ since \in [Threads -> Nat]
    /\ ttl \in [Threads -> Nat]
    /\ at \in [Threads -> Nat]

(***************************************************************************)
(* A token at a time                                                       *)
(***************************************************************************)
Seconds(tick) == tick \div Second

\* check_claims: an `exp` that is there and is no number is refused; one that
\* is null is no `exp` at all; a token good until its second is good all of it.
Accepts(t, tick) ==
    /\ Exp[t].kind # "malformed"
    /\ Exp[t].kind = "in" => Seconds(tick) <= Exp[t].at
    /\ From[t] <= Seconds(tick) + Skew

Lesser(a, b) == IF a <= b THEN a ELSE b

\* Mutant: the fraction of a second the token still has is rounded up.
RoundedUp(t, tick) ==
    CASE Exp[t].kind = "absent" -> MaxLifetime
      [] Exp[t].kind = "in" /\ Exp[t].at >= Seconds(tick) -> Lesser(MaxLifetime, (Exp[t].at + 1 - Seconds(tick)) * Second)
      [] OTHER -> 0

\* How long an entry may stand; zero is not cached.
RemainingLifetime(t, tick) ==
    CASE Exp[t].kind = "absent" -> MaxLifetime
      [] Exp[t].kind = "in" /\ Exp[t].at > Seconds(tick) -> Lesser(MaxLifetime, (Exp[t].at - Seconds(tick)) * Second)
      [] OTHER -> 0

(***************************************************************************)
(* The map                                                                 *)
(***************************************************************************)
Held(map) == {t \in Tokens : map[t] # 0}
Retained(map, tick) == [t \in Tokens |-> IF map[t] > tick THEN map[t] ELSE 0]

\* At capacity the expired entries go, and then, if that is not enough, all.
MakeRoom(map, tick) ==
    IF Cardinality(Held(map)) < Capacity THEN map
    ELSE IF Cardinality(Held(Retained(map, tick))) < Capacity THEN Retained(map, tick)
    ELSE [t \in Tokens |-> 0]

(***************************************************************************)
(* authenticate                                                            *)
(***************************************************************************)
CacheInit ==
    /\ now = 0
    /\ entries = [t \in Tokens |-> 0]
    /\ pc = [h \in Threads |-> "idle"]
    /\ tok = [h \in Threads |-> NoToken]
    /\ since = [h \in Threads |-> 0]
    /\ ttl = [h \in Threads |-> 0]
    /\ at = [h \in Threads |-> 0]

\* The request is answered, or refused, and the thread is free.
Answer(h) ==
    /\ pc' = [pc EXCEPT ![h] = "idle"]
    /\ tok' = [tok EXCEPT ![h] = NoToken]
    /\ since' = [since EXCEPT ![h] = 0]
    /\ ttl' = [ttl EXCEPT ![h] = 0]
    /\ at' = [at EXCEPT ![h] = 0]

\* get: a live entry answers; a dead one is removed by whoever finds it.
Hit(h, t) ==
    /\ pc[h] = "idle" /\ entries[t] > now
    /\ UNCHANGED cacheVars

Miss(h, t) ==
    /\ pc[h] = "idle" /\ entries[t] <= now
    /\ tok' = [tok EXCEPT ![h] = t]
    /\ entries' = [entries EXCEPT ![t] = 0]
    /\ pc' = [pc EXCEPT ![h] = "verify"]
    /\ UNCHANGED <<now, since, ttl, at>>

Verify(h) ==
    /\ pc[h] = "verify" /\ Accepts(tok[h], now)
    /\ pc' = [pc EXCEPT ![h] = "remaining"]
    /\ UNCHANGED <<now, entries, tok, since, ttl, at>>

Refuse(h) ==
    /\ pc[h] = "verify" /\ ~Accepts(tok[h], now)
    /\ Answer(h)
    /\ UNCHANGED <<now, entries>>

Remaining(h) ==
    /\ pc[h] = "remaining" /\ RemainingLifetime(tok[h], now) # 0
    /\ ttl' = [ttl EXCEPT ![h] = RemainingLifetime(tok[h], now)]
    /\ since' = [since EXCEPT ![h] = now]
    /\ pc' = [pc EXCEPT ![h] = "clock"]
    /\ UNCHANGED <<now, entries, tok, at>>

Uncached(h) ==
    /\ pc[h] = "remaining" /\ RemainingLifetime(tok[h], now) = 0
    /\ Answer(h)
    /\ UNCHANGED <<now, entries>>

\* insert reads the clock, then takes the mutex.
InsertClock(h) ==
    /\ pc[h] = "clock"
    /\ at' = [at EXCEPT ![h] = now]
    /\ pc' = [pc EXCEPT ![h] = "insert"]
    /\ UNCHANGED <<now, entries, tok, since, ttl>>

Insert(h) ==
    /\ pc[h] = "insert"
    /\ entries' = [MakeRoom(entries, at[h]) EXCEPT ![tok[h]] = at[h] + ttl[h]]
    /\ Answer(h)
    /\ UNCHANGED now

Tick ==
    /\ now < Horizon
    /\ \A h \in Threads : pc[h] = "clock" => now - since[h] < MaxStall
    /\ now' = now + 1
    /\ UNCHANGED <<entries, pc, tok, since, ttl, at>>

CacheNext ==
    \/ \E h \in Threads, t \in Tokens : Hit(h, t) \/ Miss(h, t)
    \/ \E h \in Threads : Verify(h) \/ Refuse(h) \/ Remaining(h) \/ Uncached(h) \/ InsertClock(h) \/ Insert(h)
    \/ Tick

CacheSpec == CacheInit /\ [][CacheNext]_cacheVars

(***************************************************************************)
(* Properties                                                              *)
(***************************************************************************)
\* remaining_lifetime and insert: whatever the cache would answer now is what
\* verifying the token would answer, now or at most a thread's stall ago,
\* although the lifetime is read in whole seconds and the entry is timed in
\* fractions of one.
HitIsCurrent ==
    \A t \in Tokens : entries[t] > now =>
        \E back \in 0..MaxStall : back <= now /\ Accepts(t, now - back)

\* CAPACITY: the map never holds more tokens than that, however many threads
\* insert at once and whatever of it has expired.
MapIsBounded == Cardinality(Held(entries)) <= Capacity

\* max_lifetime: no entry outlives the configured lifetime, and one whose
\* `exp` cannot be read, or is refused, is never made.
EntryLifetimes ==
    \A t \in Tokens : entries[t] # 0 =>
        /\ entries[t] <= now + MaxLifetime
        /\ Exp[t].kind \in {"absent", "in"}

\* JwtCache: answering from the cache is answering from the token, within the
\* lifetime and the capacity it was given.
CacheIsSound == HitIsCurrent /\ MapIsBounded /\ EntryLifetimes
=============================================================================
