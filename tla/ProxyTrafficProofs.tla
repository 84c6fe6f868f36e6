------------------------- MODULE ProxyTrafficProofs -------------------------
(***************************************************************************)
(* Proofs about ProxyTraffic, for every configuration, every set of        *)
(* requests and every behaviour of the clock.                              *)
(*                                                                         *)
(* Typed is what every argument starts from: the shape of what a request   *)
(* holds and, by the stage it is in, what it has.  RateInv is the law of   *)
(* the token buckets: what a bucket has granted and what it still holds is *)
(* covered by its capacity and the time it has lived, and a caller that    *)
(* has locked an entry is the only one inside.  HealthInv ties the two     *)
(* maps of the health checker and their counters to the outcomes seen.     *)
(* Tidy is what the header operations leave of a message, and TunnelInv    *)
(* what each end of a tunnel's two copies has read, written and closed.    *)
(***************************************************************************)
EXTENDS ProxyTraffic, FiniteSetTheorems, WellFoundedInduction, TLAPS

-----------------------------------------------------------------------------
(* Arithmetic of the buckets *)

LEMMA MonusNat ==
    ASSUME NEW a \in Nat, NEW b \in Nat
    PROVE  Monus(a, b) \in Nat
  BY DEF Monus

LEMMA TimesNat ==
    ASSUME NEW a \in Nat, NEW b \in Nat
    PROVE  a * b \in Nat
  OBVIOUS

LEMMA TimesUp ==
    ASSUME NEW r \in Nat, NEW a \in Nat, NEW b \in Nat, a <= b
    PROVE  r * a <= r * b
  OBVIOUS

LEMMA TimesPlus ==
    ASSUME NEW r \in Nat, NEW a \in Int, NEW b \in Int
    PROVE  r * (a + b) = r * a + r * b
  OBVIOUS

\* Time that passes earns what the rate brings.
LEMMA RateForward ==
    ASSUME NEW r \in Nat, NEW clk \in Nat, NEW since \in Nat, NEW s \in Nat
    PROVE  r * Monus(clk + s, since) <= r * Monus(clk, since) + r * s
  <1>1. Monus(clk + s, since) <= Monus(clk, since) + s
    BY DEF Monus
  <1>2. Monus(clk + s, since) \in Nat /\ Monus(clk, since) \in Nat
    BY DEF Monus
  <1>3. r * Monus(clk + s, since) <= r * (Monus(clk, since) + s)
    BY <1>1, <1>2, TimesUp
  <1>4. r * (Monus(clk, since) + s) = r * Monus(clk, since) + r * s
    BY <1>2, TimesPlus
  <1> QED BY <1>3, <1>4

\* A clock set back earns nothing.
LEMMA RateBack ==
    ASSUME NEW r \in Nat, NEW clk \in Nat, NEW since \in Nat, NEW s \in Nat, s <= clk
    PROVE  r * Monus(clk - s, since) <= r * Monus(clk, since)
  <1>1. /\ Monus(clk - s, since) <= Monus(clk, since)
        /\ Monus(clk - s, since) \in Nat /\ Monus(clk, since) \in Nat
    BY DEF Monus
  <1> QED BY <1>1, TimesUp

\* What the time between two points earns is earned on the way as well.
LEMMA RateBetween ==
    ASSUME NEW r \in Nat, NEW clk \in Nat, NEW now \in Nat, NEW since \in Nat
    PROVE  r * Monus(clk, since) <= r * Monus(now, since) + r * Monus(clk, now)
  <1>1. /\ Monus(clk, since) <= Monus(now, since) + Monus(clk, now)
        /\ Monus(clk, since) \in Nat /\ Monus(now, since) \in Nat /\ Monus(clk, now) \in Nat
    BY DEF Monus
  <1>2. r * Monus(clk, since) <= r * (Monus(now, since) + Monus(clk, now))
    BY <1>1, TimesUp
  <1>3. r * (Monus(now, since) + Monus(clk, now)) = r * Monus(now, since) + r * Monus(clk, now)
    BY <1>1, TimesPlus
  <1> QED BY <1>2, <1>3

-----------------------------------------------------------------------------
(* The law of one bucket *)

Bucket == [born : Nat, cap : Nat, rate : Nat, tokens : Nat, last : Nat, granted : Nat, access : Nat]

\* What a bucket has given away or still holds, and what it was ever given.
Owed(b) == b.granted * Scale + b.tokens

Earned(b, ah) == b.cap * Scale + b.rate * (ah - b.born)

\* Nobody is inside: what it holds and what a refill would bring now.
Idle(b, clk, ah) == Owed(b) + b.rate * Monus(clk, b.last) <= Earned(b, ah)

\* A caller is inside: what its refill up to `now` would bring, and what the
\* time since brings the next one.
Before(b, now, clk, ah) ==
    Owed(b) + b.rate * Monus(now, b.last) + b.rate * Monus(clk, now) <= Earned(b, ah)

After(b, now, clk, ah) == Owed(b) + b.rate * Monus(clk, now) <= Earned(b, ah)

LEMMA OwedNat ==
    ASSUME NEW b \in Bucket
    PROVE  /\ Owed(b) \in Nat
           /\ b.rate \in Nat /\ b.last \in Nat /\ b.cap \in Nat /\ b.born \in Nat /\ b.tokens \in Nat
  BY DEF Bucket, Owed, Scale

\* What a time brings.
LEMMA BringsNat ==
    ASSUME NEW b \in Bucket, NEW t \in Nat, NEW u \in Nat
    PROVE  b.rate * Monus(t, u) \in Nat
  <1>1. b.rate \in Nat
    BY DEF Bucket
  <1>2. Monus(t, u) \in Nat
    BY MonusNat
  <1> HIDE DEF Bucket
  <1> QED BY <1>1, <1>2, TimesNat

LEMMA EarnedInt ==
    ASSUME NEW b \in Bucket, NEW ah \in Nat
    PROVE  Earned(b, ah) \in Int
  BY DEF Bucket, Earned, Scale

LEMMA EarnedForward ==
    ASSUME NEW b \in Bucket, NEW ah \in Nat, NEW s \in Nat
    PROVE  Earned(b, ah + s) = Earned(b, ah) + b.rate * s
  <1>1. b.rate \in Nat /\ ah - b.born \in Int /\ b.cap * Scale \in Int
    BY DEF Bucket, Scale
  <1>2. (ah + s) - b.born = (ah - b.born) + s
    BY DEF Bucket
  <1>3. b.rate * ((ah - b.born) + s) = b.rate * (ah - b.born) + b.rate * s
    BY <1>1, TimesPlus
  <1>4. b.rate * (ah - b.born) \in Int /\ b.rate * s \in Int
    BY <1>1
  <1> QED BY <1>1, <1>2, <1>3, <1>4 DEF Earned

\* The law holds as time passes ...
LEMMA LawForward ==
    ASSUME NEW b \in Bucket, NEW clk \in Nat, NEW ah \in Nat, NEW s \in Nat, NEW now \in Nat
    PROVE  /\ Idle(b, clk, ah) => Idle(b, clk + s, ah + s)
           /\ Before(b, now, clk, ah) => Before(b, now, clk + s, ah + s)
           /\ After(b, now, clk, ah) => After(b, now, clk + s, ah + s)
  <1> DEFINE owed == Owed(b)
             earned == Earned(b, ah)
             more == b.rate * s
             first == b.rate * Monus(now, b.last)
  <1>0. owed \in Nat /\ b.rate \in Nat /\ b.last \in Nat
    BY OwedNat
  <1>1. owed \in Int /\ earned \in Int /\ more \in Int /\ first \in Int
    <2>1. more \in Nat
      BY <1>0, TimesNat
    <2>2. first \in Nat
      BY <1>0, BringsNat
    <2>3. earned \in Int
      BY EarnedInt
    <2> HIDE DEF owed, earned, more, first
    <2> QED BY <1>0, <2>1, <2>2, <2>3
  <1>2. Earned(b, ah + s) = earned + more
    BY EarnedForward
  <1>3. ASSUME NEW since \in Nat
        PROVE  /\ b.rate * Monus(clk + s, since) <= b.rate * Monus(clk, since) + more
               /\ b.rate * Monus(clk + s, since) \in Nat /\ b.rate * Monus(clk, since) \in Nat
    <2>1. b.rate * Monus(clk + s, since) <= b.rate * Monus(clk, since) + more
      BY <1>0, RateForward
    <2>2. b.rate * Monus(clk + s, since) \in Nat
      <3>1. clk + s \in Nat
        OBVIOUS
      <3> QED BY <3>1, BringsNat
    <2>3. b.rate * Monus(clk, since) \in Nat
      BY BringsNat
    <2> QED BY <2>1, <2>2, <2>3
  <1> HIDE DEF owed, earned, more, first
  <1>4. Idle(b, clk, ah) => Idle(b, clk + s, ah + s)
    <2> DEFINE x == b.rate * Monus(clk + s, b.last)
               y == b.rate * Monus(clk, b.last)
    <2>1. x <= y + more /\ x \in Nat /\ y \in Nat
      BY <1>0, <1>3
    <2>2. Idle(b, clk, ah) <=> owed + y <= earned
      BY DEF Idle, owed, earned
    <2>3. Idle(b, clk + s, ah + s) <=> owed + x <= earned + more
      BY <1>2 DEF Idle, owed
    <2> HIDE DEF x, y
    <2> QED BY <1>1, <2>1, <2>2, <2>3
  <1> DEFINE x == b.rate * Monus(clk + s, now)
             y == b.rate * Monus(clk, now)
  <1>5. x <= y + more /\ x \in Nat /\ y \in Nat
    BY <1>3
  <1>6. /\ Before(b, now, clk, ah) <=> owed + first + y <= earned
        /\ After(b, now, clk, ah) <=> owed + y <= earned
    BY DEF Before, After, owed, earned, first
  <1>7. /\ Before(b, now, clk + s, ah + s) <=> owed + first + x <= earned + more
        /\ After(b, now, clk + s, ah + s) <=> owed + x <= earned + more
    BY <1>2 DEF Before, After, owed, first
  <1> HIDE DEF x, y
  <1>8. /\ Before(b, now, clk, ah) => Before(b, now, clk + s, ah + s)
        /\ After(b, now, clk, ah) => After(b, now, clk + s, ah + s)
    BY <1>1, <1>5, <1>6, <1>7
  <1> QED BY <1>4, <1>8

\* ... and when the clock is set back.
LEMMA LawBack ==
    ASSUME NEW b \in Bucket, NEW clk \in Nat, NEW ah \in Nat, NEW s \in Nat, s <= clk, NEW now \in Nat
    PROVE  /\ Idle(b, clk, ah) => Idle(b, clk - s, ah)
           /\ Before(b, now, clk, ah) => Before(b, now, clk - s, ah)
           /\ After(b, now, clk, ah) => After(b, now, clk - s, ah)
  <1> DEFINE owed == Owed(b)
             earned == Earned(b, ah)
             first == b.rate * Monus(now, b.last)
             x == b.rate * Monus(clk - s, now)
             y == b.rate * Monus(clk, now)
             v == b.rate * Monus(clk - s, b.last)
             w == b.rate * Monus(clk, b.last)
  <1>0. owed \in Nat /\ b.rate \in Nat /\ b.last \in Nat
    BY OwedNat
  <1>c. clk - s \in Nat
    OBVIOUS
  <1>a. earned \in Int
    BY EarnedInt
  <1>b. first \in Nat /\ x \in Nat /\ y \in Nat /\ v \in Nat /\ w \in Nat
    BY <1>0, <1>c, BringsNat
  <1>2. x <= y
    BY <1>0, RateBack
  <1>3. v <= w
    BY <1>0, RateBack
  <1>4. /\ Idle(b, clk, ah) <=> owed + w <= earned
        /\ Idle(b, clk - s, ah) <=> owed + v <= earned
        /\ Before(b, now, clk, ah) <=> owed + first + y <= earned
        /\ Before(b, now, clk - s, ah) <=> owed + first + x <= earned
        /\ After(b, now, clk, ah) <=> owed + y <= earned
        /\ After(b, now, clk - s, ah) <=> owed + x <= earned
    BY DEF Idle, Before, After
  <1> HIDE DEF owed, earned, first, x, y, v, w
  <1> QED BY <1>0, <1>a, <1>b, <1>2, <1>3, <1>4

\* A caller enters an idle bucket and reads the clock; one that is refused
\* leaves it idle.
LEMMA LawEnter ==
    ASSUME NEW b \in Bucket, NEW clk \in Nat, NEW ah \in Nat
    PROVE  Idle(b, clk, ah) => Before(b, clk, clk, ah)
  <1> DEFINE owed == Owed(b)
             earned == Earned(b, ah)
             y == b.rate * Monus(clk, b.last)
  <1>0. owed \in Nat /\ b.rate \in Nat /\ b.last \in Nat
    BY OwedNat
  <1>a. earned \in Int
    BY EarnedInt
  <1>b. y \in Nat
    BY <1>0, BringsNat
  <1>2. b.rate * Monus(clk, clk) = 0
    BY <1>0 DEF Monus
  <1>3. /\ Idle(b, clk, ah) <=> owed + y <= earned
        /\ Before(b, clk, clk, ah) <=> owed + y + 0 <= earned
    BY <1>2 DEF Idle, Before
  <1> HIDE DEF owed, earned, y
  <1> QED BY <1>0, <1>a, <1>b, <1>3

LEMMA LawLeave ==
    ASSUME NEW b \in Bucket, NEW clk \in Nat, NEW ah \in Nat, NEW now \in Nat
    PROVE  Before(b, now, clk, ah) => Idle(b, clk, ah)
  <1> DEFINE owed == Owed(b)
             earned == Earned(b, ah)
             x == b.rate * Monus(clk, b.last)
             y == b.rate * Monus(now, b.last)
             z == b.rate * Monus(clk, now)
  <1>0. owed \in Nat /\ b.rate \in Nat /\ b.last \in Nat
    BY OwedNat
  <1>a. earned \in Int
    BY EarnedInt
  <1>b. x \in Nat /\ y \in Nat /\ z \in Nat
    BY <1>0, BringsNat
  <1>2. x <= y + z
    BY <1>0, RateBetween
  <1>3. /\ Idle(b, clk, ah) <=> owed + x <= earned
        /\ Before(b, now, clk, ah) <=> owed + y + z <= earned
    BY DEF Idle, Before
  <1> HIDE DEF owed, earned, x, y, z
  <1> QED BY <1>0, <1>a, <1>b, <1>2, <1>3

\* Whoever keeps the law has granted no more than was earned.
LEMMA LawBound ==
    ASSUME NEW b \in Bucket, NEW clk \in Nat, NEW ah \in Nat, NEW now \in Nat,
           Idle(b, clk, ah) \/ Before(b, now, clk, ah) \/ After(b, now, clk, ah)
    PROVE  b.granted * Scale <= Earned(b, ah)
  <1> DEFINE g == b.granted * Scale
             tokens == b.tokens
             earned == Earned(b, ah)
             x == b.rate * Monus(clk, b.last)
             y == b.rate * Monus(now, b.last)
             z == b.rate * Monus(clk, now)
  <1>1. g \in Nat /\ tokens \in Nat /\ b.last \in Nat
    BY DEF Bucket, Scale
  <1>2. x \in Nat /\ y \in Nat /\ z \in Nat
    BY <1>1, BringsNat
  <1>3. earned \in Int
    BY EarnedInt
  <1>4. /\ Idle(b, clk, ah) <=> (g + tokens) + x <= earned
        /\ Before(b, now, clk, ah) <=> (g + tokens) + y + z <= earned
        /\ After(b, now, clk, ah) <=> (g + tokens) + z <= earned
    BY DEF Idle, Before, After, Owed
  <1>5. g <= earned
    <2> HIDE DEF g, tokens, earned, x, y, z
    <2> QED BY <1>1, <1>2, <1>3, <1>4
  <1> QED BY <1>5

\* A bucket is made full.
LEMMA LawNew ==
    ASSUME NEW b \in Bucket, NEW clk \in Nat, NEW ah \in Nat,
           b.granted = 0, b.tokens = b.cap * Scale, b.last = clk, b.born = ah
    PROVE  Idle(b, clk, ah)
  <1>1. b.rate \in Nat /\ b.cap \in Nat
    BY DEF Bucket
  <1>2. b.rate * Monus(clk, b.last) = 0 /\ b.rate * (ah - b.born) = 0
    BY <1>1 DEF Monus
  <1>3. Owed(b) = b.cap * Scale /\ b.cap * Scale \in Nat
    BY <1>1 DEF Owed, Scale
  <1> QED BY <1>2, <1>3 DEF Idle, Earned

\* The last access is no part of the law.
LEMMA LawAccess ==
    ASSUME NEW b \in Bucket, NEW d \in Bucket, NEW clk \in Nat, NEW ah \in Nat,
           d.born = b.born, d.cap = b.cap, d.rate = b.rate, d.tokens = b.tokens, d.last = b.last,
           d.granted = b.granted, Idle(b, clk, ah)
    PROVE  Idle(d, clk, ah)
  BY DEF Idle, Owed, Earned

\* A token is taken of what the refill makes of the tokens, capped.
LEMMA LawTake ==
    ASSUME NEW b \in Bucket, NEW d \in Bucket, NEW clk \in Nat, NEW ah \in Nat, NEW now \in Nat,
           NEW full \in Nat, full <= b.tokens + Monus(now, b.last) * b.rate,
           d.born = b.born, d.cap = b.cap, d.rate = b.rate, d.last = b.last,
           d.tokens = full - Scale, d.granted = b.granted + 1,
           Before(b, now, clk, ah)
    PROVE  After(d, now, clk, ah)
  <1> DEFINE tokens == b.tokens
             granted == b.granted
             earned == Earned(b, ah)
             y == b.rate * Monus(now, b.last)
             z == b.rate * Monus(clk, now)
  <1>1. tokens \in Nat /\ granted \in Nat /\ b.last \in Nat /\ b.rate \in Nat
    BY DEF Bucket
  <1>2. y \in Nat /\ z \in Nat
    BY <1>1, BringsNat
  <1>3. earned \in Int
    BY EarnedInt
  <1>4. full <= tokens + y
    <2>1. Monus(now, b.last) \in Nat
      BY <1>1, MonusNat
    <2>2. Monus(now, b.last) * b.rate = b.rate * Monus(now, b.last)
      BY <1>1, <2>1
    <2> QED BY <2>2
  <1>5. Before(b, now, clk, ah) <=> (granted * Scale + tokens) + y + z <= earned
    BY DEF Before, Owed
  <1>6. After(d, now, clk, ah) <=> ((granted + 1) * Scale + (full - Scale)) + z <= earned
    BY DEF After, Owed, Earned
  <1>7. (granted + 1) * Scale + (full - Scale) = granted * Scale + full
    BY <1>1 DEF Scale
  <1>8. granted * Scale \in Nat
    BY <1>1 DEF Scale
  <1>9. (granted * Scale + full) + z <= earned
    <2> DEFINE g == granted * Scale
    <2>1. g \in Nat /\ (g + tokens) + y + z <= earned
      BY <1>5, <1>8
    <2> HIDE DEF g, tokens, granted, earned, y, z
    <2>2. (g + full) + z <= earned
      BY <1>1, <1>2, <1>3, <1>4, <2>1
    <2> QED BY <2>2 DEF g
  <1> QED BY <1>6, <1>7, <1>9

\* The time of the refill is stamped.
LEMMA LawStamp ==
    ASSUME NEW b \in Bucket, NEW d \in Bucket, NEW clk \in Nat, NEW ah \in Nat, NEW now \in Nat,
           d.born = b.born, d.cap = b.cap, d.rate = b.rate, d.tokens = b.tokens, d.granted = b.granted,
           d.last = now, After(b, now, clk, ah)
    PROVE  Idle(d, clk, ah)
  BY DEF Idle, After, Owed, Earned

-----------------------------------------------------------------------------
(* What a request holds *)

Stages == {"match", "enter", "load", "cas", "stamp", "select", "store", "build", "sent", "answered", "dropped"}

Routes == UNION {{c.routes[i] : i \in DOMAIN c.routes} : c \in Configs}

Ids == UNION {{c.upstreams[i].id : i \in DOMAIN c.upstreams} : c \in Configs}

Req == [pc : Stages, route : {<<>>} \cup {<<x>> : x \in Routes}, up : Ids \cup {None}, backend : Nat,
        now : Nat, last : Nat, seen : Nat, healthy : SUBSET Nat, cur : Nat, status : Nat]

\* What load_config registers.
Registered == LoadConfig(Config.upstreams)

\* A request that goes to a backend has an upstream the manager knows, and one of
\* the backends it may choose.
Targeted(q) ==
    /\ q.up \in DOMAIN Registered
    /\ q.healthy \subseteq DOMAIN Registered[q.up].backends

Placed(q) ==
    /\ q.pc = "enter" => q.route # <<>> /\ q.route[1].limit \in Nat \X Nat
    /\ q.pc = "store" => Targeted(q) /\ q.healthy # {}
    /\ q.pc \in {"build", "sent"} =>
         /\ Targeted(q) /\ q.backend \in DOMAIN Registered[q.up].backends
         /\ q.healthy = {} \/ q.backend \in q.healthy

Typed ==
    /\ sc \in Scenarios
    /\ config \in Configs
    /\ registry = Registered
    /\ ptr \in [DOMAIN registry -> Nat]
    /\ req \in [DOMAIN sc.requests -> Req]
    /\ \A r \in DOMAIN req : Placed(req[r])

\* A nonempty set of numbers has a least one.
LEMMA LeastNat ==
    ASSUME NEW T, T \subseteq Nat, T # {}
    PROVE  \E x \in T : \A y \in T : x <= y
  <1> DEFINE R == {ss \in Nat \X Nat : ss[1] < ss[2]}
  <1>1. IsWellFoundedOn(R, Nat)
    BY NatLessThanWellFounded DEF OpToRel
  <1>2. PICK x \in T : \A y \in T : ~(<<y, x>> \in R)
    <2> HIDE DEF R
    <2> QED BY <1>1, WFMin
  <1>3. \A y \in T : ~(y < x)
    BY <1>2
  <1> QED BY <1>3

\* A set of positions has a last one.
LEMMA LastOf ==
    ASSUME NEW n \in Nat, NEW T, T \subseteq 1..n, T # {}
    PROVE  \E x \in T : \A y \in T : y <= x
  <1> DEFINE B == {m \in Nat : \A y \in T : y <= m}
  <1>1. n \in B
    OBVIOUS
  <1>2. PICK m \in B : \A k \in B : m <= k
    BY <1>1, LeastNat
  <1>3. CASE m \in T
    BY <1>2, <1>3
  <1>4. CASE m \notin T
    <2>1. \A y \in T : y \in Nat /\ y >= 1 /\ y <= m /\ y # m
      BY <1>2, <1>4
    <2>2. m \in Nat /\ m >= 1
      <3>1. PICK y \in T : TRUE
        OBVIOUS
      <3>2. y \in Nat /\ y >= 1 /\ y <= m /\ m \in Nat
        BY <2>1, <3>1
      <3> QED BY <3>2
    <2>3. m - 1 \in B
      BY <2>1, <2>2
    <2> QED BY <1>2, <2>2, <2>3
  <1> QED BY <1>3, <1>4

\* The backend chosen among the healthy ones is one of them.
LEMMA ChosenOne ==
    ASSUME NEW n \in Nat, NEW h, h \subseteq 1..n, h # {}, NEW d \in Nat
    PROVE  Chosen(h, d) \in h
  <1> DEFINE upto(i) == {j \in h : j <= i}
             below(i) == {j \in h : j < i}
             k == d % Cardinality(h)
  <1>0. \A j \in h : j \in Nat /\ j >= 1 /\ j <= n
    OBVIOUS
  <1>a. \A i \in Nat : i \notin h => upto(i) = below(i)
    <2> TAKE i \in Nat
    <2> SUFFICES ASSUME i \notin h PROVE upto(i) = below(i)
      OBVIOUS
    <2>1. \A j \in h : j <= i <=> j < i
      BY <1>0
    <2> QED BY <2>1
  <1>b. \A i \in Nat : i \in h => upto(i) = below(i) \cup {i} /\ i \notin below(i)
    <2> TAKE i \in Nat
    <2> SUFFICES ASSUME i \in h PROVE upto(i) = below(i) \cup {i} /\ i \notin below(i)
      OBVIOUS
    <2>1. \A j \in h : j <= i <=> j < i \/ j = i
      BY <1>0
    <2>2. i \notin below(i)
      OBVIOUS
    <2>3. \A j : j \in upto(i) <=> j \in below(i) \cup {i}
      BY <2>1, Zenon
    <2>4. upto(i) = below(i) \cup {i}
      <3> HIDE DEF upto, below
      <3> QED BY <2>3, Zenon
    <2> QED BY <2>2, <2>4
  <1>c. \A i \in Nat : i - 1 \in Nat => below(i) = upto(i - 1)
    <2> TAKE i \in Nat
    <2>1. \A j \in h : j <= i - 1 <=> j < i
      BY <1>0
    <2> QED BY <2>1
  <1>d. below(0) = {}
    <2>1. \A j \in h : ~(j < 0)
      BY <1>0
    <2> QED BY <2>1
  <1>1. IsFiniteSet(h) /\ \A i : IsFiniteSet(upto(i)) /\ IsFiniteSet(below(i))
    <2>1. IsFiniteSet(1..n)
      BY FS_Interval
    <2>2. IsFiniteSet(h)
      BY <2>1, FS_Subset
    <2>3. \A i : upto(i) \in SUBSET h /\ below(i) \in SUBSET h
      OBVIOUS
    <2> QED BY <2>2, <2>3, FS_Subset
  <1>2. Cardinality(h) \in Nat \ {0}
    BY <1>1, FS_CardinalityType, FS_EmptySet
  <1>3. k \in Nat /\ k < Cardinality(h)
    BY <1>2
  <1>4. \A i : Cardinality(upto(i)) \in Nat /\ Cardinality(below(i)) \in Nat
    BY <1>1, FS_CardinalityType
  <1> DEFINE T == {i \in Nat : Cardinality(upto(i)) > k}
  <1>5. n \in T
    <2>1. upto(n) = h
      BY <1>0
    <2> QED BY <1>2, <1>3, <2>1
  <1>6. PICK i \in T : \A j \in T : i <= j
    BY <1>5, LeastNat
  <1>7. i \in Nat /\ Cardinality(upto(i)) > k
    BY <1>6
  <1>8. Cardinality(below(i)) <= k
    <2>1. CASE i = 0
      <3>1. below(i) = {}
        BY <1>d, <2>1
      <3> QED BY <1>3, <3>1, FS_EmptySet
    <2>2. CASE i # 0
      <3>1. i - 1 \in Nat /\ ~(i <= i - 1)
        BY <1>7, <2>2
      <3>2. i - 1 \notin T
        BY <1>6, <3>1
      <3>3. below(i) = upto(i - 1)
        BY <1>c, <1>7, <3>1
      <3>4. ~(Cardinality(upto(i - 1)) > k)
        BY <3>1, <3>2
      <3>5. Cardinality(upto(i - 1)) \in Nat
        BY <1>4
      <3> HIDE DEF upto, below, k
      <3> QED BY <1>3, <3>3, <3>4, <3>5
    <2> QED BY <2>1, <2>2
  <1>9. i \in h
    <2> SUFFICES ASSUME i \notin h PROVE FALSE
      OBVIOUS
    <2>1. upto(i) = below(i)
      BY <1>a, <1>7
    <2> QED BY <1>3, <1>4, <1>7, <1>8, <2>1
  <1>10. Cardinality(below(i)) = k
    <2>1. upto(i) = below(i) \cup {i} /\ i \notin below(i)
      BY <1>b, <1>7, <1>9
    <2>2. Cardinality(upto(i)) = Cardinality(below(i)) + 1
      <3>1. IsFiniteSet(below(i))
        BY <1>1
      <3> HIDE DEF upto, below
      <3>2. Cardinality(below(i) \cup {i}) = Cardinality(below(i)) + 1
        BY <2>1, <3>1, FS_AddElement
      <3> QED BY <2>1, <3>2
    <2>3. Cardinality(upto(i)) \in Nat /\ Cardinality(below(i)) \in Nat
      BY <1>4
    <2> HIDE DEF upto, below, k
    <2> QED BY <1>3, <1>7, <1>8, <2>2, <2>3
  <1> QED BY <1>9, <1>10 DEF Chosen

LEMMA ListDomain ==
    ASSUME NEW s, IsList(s)
    PROVE  Len(s) \in Nat /\ DOMAIN s = 1..Len(s)
  BY DEF IsList

\* An upstream is one of the configuration's.
LEMMA RegisteredOnes ==
    ASSUME NEW u \in DOMAIN Registered
    PROVE  IsList(Registered[u].backends) /\ Registered[u].strategy \in Strategies
  <1> DEFINE ups == Config.upstreams
  <1>1. PICK k \in DOMAIN ups : ups[k].id = u
    BY DEF Registered, LoadConfig
  <1>2. Registered[u] = ups[CHOOSE i \in DOMAIN ups : ups[i].id = u /\ \A j \in DOMAIN ups : ups[j].id = u => j <= i]
    BY DEF Registered, LoadConfig
  <1> DEFINE mine == {i \in DOMAIN ups : ups[i].id = u}
  <1>3. Len(ups) \in Nat /\ mine \subseteq 1..Len(ups) /\ mine # {}
    <2>1. Config \in Configs
      BY DEF Configs
    <2>2. IsList(ups)
      BY <2>1, TrafficAssumption
    <2>3. Len(ups) \in Nat /\ DOMAIN ups = 1..Len(ups)
      BY <2>2, ListDomain
    <2> QED BY <1>1, <2>3
  <1>4. PICK last \in mine : \A j \in mine : j <= last
    BY <1>3, LastOf
  <1>5. \E i \in DOMAIN ups : ups[i].id = u /\ \A j \in DOMAIN ups : ups[j].id = u => j <= i
    BY <1>4
  <1>6. PICK i \in DOMAIN ups : Registered[u] = ups[i]
    <2> HIDE DEF ups
    <2> QED BY <1>2, <1>5
  <1> QED BY <1>6, TrafficAssumption

-----------------------------------------------------------------------------
(* What a request's step leaves of it *)

\* The stages of the limiter.
Limiter == {"load", "cas", "stamp"}

LEMMA ReqTyped ==
    ASSUME Typed, NEW r \in DOMAIN req
    PROVE  /\ req \in [DOMAIN sc.requests -> Req] /\ DOMAIN req = DOMAIN sc.requests
           /\ req[r] \in Req /\ Placed(req[r])
  BY DEF Typed

\* A request goes from what it holds to `new`, and nobody else moves.
Goes(r, new) ==
    /\ new \in Req /\ Placed(new)
    /\ req' = [req EXCEPT ![r] = new]

LEMMA GoesTyped ==
    ASSUME Typed, NEW r \in DOMAIN req, NEW new, Goes(r, new),
           UNCHANGED settings, ptr' \in [DOMAIN registry -> Nat]
    PROVE  Typed'
  <1>1. req' \in [DOMAIN sc.requests -> Req]
    BY ReqTyped DEF Goes
  <1>2. \A q \in DOMAIN req' : Placed(req'[q])
    BY ReqTyped DEF Goes, Typed
  <1> QED BY <1>1, <1>2 DEF Typed, settings

\* A route's place among the others: its priority, and how much of the path it
\* names.
LEMMA RankTotal ==
    ASSUME NEW c \in Configs, NEW i \in DOMAIN c.routes
    PROVE  c.routes[i].priority \in Int /\ PathLen(c.routes[i].match) \in Int
  <1>1. c.routes[i].priority \in Int /\ IsList(c.routes[i].match.path)
    BY TrafficAssumption
  <1>2. Len(c.routes[i].match.path) \in Nat
    BY <1>1 DEF IsList
  <1> QED BY <1>1, <1>2 DEF PathLen

\* max_by_key finds one: among any of the routes some route is the last that no
\* other outranks.
LEMMA BestRoute ==
    ASSUME NEW c \in Configs, NEW ok, ok \subseteq DOMAIN c.routes, ok # {}
    PROVE  \E i \in ok : \A j \in ok :
             Outranks(c.routes[i], c.routes[j]) \/ (~Outranks(c.routes[j], c.routes[i]) /\ j <= i)
  <1> DEFINE p(i) == c.routes[i].priority
             w(i) == PathLen(c.routes[i].match)
             Above(i, j) == p(i) > p(j) \/ (p(i) = p(j) /\ w(i) > w(j))
             Beats(i, j) == Above(i, j) \/ (~Above(j, i) /\ j <= i)
             N == Len(c.routes)
             upto(n) == {j \in ok : j <= n}
             Bad == {n \in Nat : upto(n) # {} /\ ~\E i \in upto(n) : \A j \in upto(n) : Beats(i, j)}
  <1>1. N \in Nat /\ ok \subseteq 1..N
    <2>1. IsList(c.routes)
      BY TrafficAssumption
    <2> QED BY <2>1, ListDomain
  <1>2. \A i \in ok : p(i) \in Int /\ w(i) \in Int /\ i \in Nat /\ i >= 1 /\ i <= N
    BY <1>1, RankTotal
  <1>3. \A i, j : Outranks(c.routes[i], c.routes[j]) <=> Above(i, j)
    BY DEF Outranks
  <1> HIDE DEF p, w, N
  <1>4. upto(N) = ok
    BY <1>1, <1>2
  <1>5. N \notin Bad
    <2> SUFFICES ASSUME N \in Bad PROVE FALSE
      OBVIOUS
    <2>1. PICK n \in Bad : \A k \in Bad : n <= k
      <3>1. Bad \subseteq Nat /\ Bad # {}
        OBVIOUS
      <3> HIDE DEF Bad
      <3> QED BY <3>1, LeastNat
    <2>2. n \in Nat /\ upto(n) # {} /\ ~\E i \in upto(n) : \A j \in upto(n) : Beats(i, j)
      BY <2>1
    <2>3. n # 0
      <3>1. PICK j \in ok : j <= n
        BY <2>2
      <3> QED BY <1>2, <3>1
    <2>4. n - 1 \in Nat /\ n - 1 \notin Bad
      <3>1. n - 1 \in Nat /\ ~(n <= n - 1)
        BY <2>2, <2>3
      <3> HIDE DEF Bad
      <3> QED BY <2>1, <3>1
    <2>5. n \in ok
      <3> SUFFICES ASSUME n \notin ok PROVE FALSE
        OBVIOUS
      <3>0. n \in Nat /\ \A j \in ok : j # n /\ j \in Nat
        BY <1>2, <2>2
      <3>1. \A j \in ok : j <= n <=> j <= n - 1
        <4> HIDE DEF Bad
        <4> QED BY <3>0
      <3>2. upto(n) = upto(n - 1)
        BY <3>1
      <3>3. n - 1 \in Bad
        BY <2>2, <2>4, <3>2
      <3> QED BY <2>4, <3>3
    <2>6. \A j \in upto(n) : j = n \/ j \in upto(n - 1)
      BY <1>2, <2>2, SMTT(30)
    <2>7. n \in upto(n) /\ Beats(n, n) /\ \A j \in upto(n - 1) : j \in upto(n)
      BY <1>2, <2>2, <2>5
    <2>8. CASE upto(n - 1) = {}
      BY <2>2, <2>6, <2>7, <2>8
    <2>9. CASE upto(n - 1) # {}
      <3>1. PICK b \in upto(n - 1) : \A j \in upto(n - 1) : Beats(b, j)
        BY <2>4, <2>9
      <3>2. b \in ok /\ b \in upto(n)
        BY <2>7, <3>1
      <3>3. CASE Above(b, n)
        <4>1. \A j \in upto(n) : Beats(b, j)
          BY <2>6, <3>1, <3>3
        <4> QED BY <2>2, <3>2, <4>1
      <3>4. CASE ~Above(b, n)
        <4>1. ASSUME NEW j \in upto(n - 1)
              PROVE  Beats(n, j)
          <5>1. j \in ok /\ j <= n
            BY <1>2, <2>2
          <5>2. ~Above(j, b)
            <6>1. Beats(b, j)
              BY <3>1
            <6> QED BY <1>2, <3>2, <5>1, <6>1
          <5>3. ~Above(j, n)
            <6> DEFINE pj == p(j) pb == p(b) pn == p(n) wj == w(j) wb == w(b) wn == w(n)
            <6>1. /\ pj \in Int /\ pb \in Int /\ pn \in Int
                  /\ wj \in Int /\ wb \in Int /\ wn \in Int
              BY <1>2, <2>5, <3>2, <5>1
            <6>2. /\ ~(pb > pn \/ (pb = pn /\ wb > wn))
                  /\ ~(pj > pb \/ (pj = pb /\ wj > wb))
              BY <3>4, <5>2
            <6>3. ~(pj > pn \/ (pj = pn /\ wj > wn))
              <7> HIDE DEF pj, pb, pn, wj, wb, wn
              <7> QED BY <6>1, <6>2
            <6> QED BY <6>3
          <5> QED BY <5>1, <5>3
        <4>2. \A j \in upto(n) : Beats(n, j)
          BY <2>6, <2>7, <4>1
        <4> QED BY <2>2, <2>7, <4>2
      <3> QED BY <3>3, <3>4
    <2> QED BY <2>8, <2>9
  <1>6. PICK i \in ok : \A j \in ok : Beats(i, j)
    BY <1>1, <1>4, <1>5
  <1> HIDE DEF Above
  <1> QED BY <1>3, <1>6

\* An answer.
LEMMA Answers ==
    ASSUME Typed, NEW r \in DOMAIN req, NEW s \in Nat, Answer(r, s)
    PROVE  \E new : Goes(r, new) /\ new.pc = "answered"
  <1> DEFINE new == [req[r] EXCEPT !.pc = "answered", !.status = s]
  <1>1. req[r] \in Req /\ req \in [DOMAIN sc.requests -> Req]
    BY ReqTyped
  <1>2. new \in Req /\ new.pc = "answered"
    BY <1>1 DEF Req, Stages
  <1>3. req' = [req EXCEPT ![r] = new]
    BY <1>1 DEF Answer
  <1> HIDE DEF new
  <1>4. Placed(new)
    BY <1>2 DEF Placed
  <1> QED BY <1>2, <1>3, <1>4 DEF Goes

\* A step outside the limiter.
Outside(r) ==
    /\ req[r].pc \notin Limiter
    /\ \E new : Goes(r, new) /\ new.pc \notin Limiter
    /\ ptr' \in [DOMAIN registry -> Nat]
    /\ UNCHANGED <<settings, bucketVars>>

LEMMA MatchOutside ==
    ASSUME Typed, NEW r \in DOMAIN req, MatchRequest(r)
    PROVE  Outside(r)
  <1>0. /\ req[r] \in Req /\ req \in [DOMAIN sc.requests -> Req] /\ req[r].pc = "match"
        /\ config \in Configs /\ ptr \in [DOMAIN registry -> Nat]
    BY ReqTyped DEF MatchRequest, At, Typed
  <1>1. req[r].pc \notin Limiter /\ ptr' \in [DOMAIN registry -> Nat] /\ UNCHANGED <<settings, bucketVars>>
    BY <1>0 DEF Limiter, MatchRequest
  <1>2. \E new : Goes(r, new) /\ new.pc \notin Limiter
    <2> DEFINE i == MatchRoute(config.routes, sc.requests[r])
               u == FindUpstream(config.upstreams, config.routes[i].upstream)
    <2>1. CASE Answer(r, 404) \/ Answer(r, 503)
      BY <2>1, Answers DEF Limiter
    <2>2. CASE ~(Answer(r, 404) \/ Answer(r, 503))
      <3>1. /\ i # 0 /\ u # 0
            /\ req' = [req EXCEPT ![r].route = <<config.routes[i]>>, ![r].up = config.upstreams[u].id,
                                  ![r].pc = IF config.routes[i].limit = <<>> THEN "select" ELSE "enter"]
        BY <2>2, ZenonT(60) DEF MatchRequest
      <3>2. i \in DOMAIN config.routes
        <4> DEFINE ok == {k \in DOMAIN config.routes :
                            config.routes[k].enabled /\ Matches(config.routes[k].match, sc.requests[r])}
                   best(k) == \A j \in ok : \/ Outranks(config.routes[k], config.routes[j])
                                            \/ ~Outranks(config.routes[j], config.routes[k]) /\ j <= k
        <4>1. i = CHOOSE k \in ok : best(k)
          BY <3>1 DEF MatchRoute
        <4>2. ok # {} /\ ok \subseteq DOMAIN config.routes
          BY <3>1 DEF MatchRoute
        <4>3. \E k \in ok : best(k)
          <5> HIDE DEF ok
          <5> QED BY <1>0, <4>2, BestRoute
        <4>4. (CHOOSE k \in ok : best(k)) \in ok
          <5> HIDE DEF ok, best
          <5> QED BY <4>3
        <4> QED BY <4>1, <4>2, <4>4
      <3>3. u \in DOMAIN config.upstreams
        <4> DEFINE ups == config.upstreams
                   named == {k \in DOMAIN ups : ups[k].name = config.routes[i].upstream}
                   first(k) == \A j \in named : k <= j
        <4>1. u = CHOOSE k \in named : first(k)
          BY <3>1 DEF FindUpstream
        <4>2. named # {} /\ named \subseteq DOMAIN ups
          BY <3>1 DEF FindUpstream
        <4>3. named \subseteq Nat
          BY <1>0, TrafficAssumption, SMTT(60) DEF IsList
        <4>4. \E k \in named : first(k)
          <5> HIDE DEF named
          <5> QED BY <4>2, <4>3, LeastNat
        <4>5. (CHOOSE k \in named : first(k)) \in named
          <5> HIDE DEF named, first
          <5> QED BY <4>4
        <4> QED BY <4>1, <4>2, <4>5
      <3> DEFINE route == config.routes[i]
                 id == config.upstreams[u].id
                 pc == IF route.limit = <<>> THEN "select" ELSE "enter"
                 new == [req[r] EXCEPT !.route = <<route>>, !.up = id, !.pc = pc]
      <3>4. route \in Routes /\ id \in Ids /\ (route.limit = <<>> \/ route.limit \in Nat \X Nat)
        <4>1. config \in Configs /\ i \in DOMAIN config.routes /\ u \in DOMAIN config.upstreams
          BY <1>0, <3>2, <3>3
        <4>2. \A j \in DOMAIN config.routes : config.routes[j].limit \in {<<>>} \cup (Nat \X Nat)
          BY <4>1, TrafficAssumption
        <4> HIDE DEF i, u
        <4>3. route \in Routes
          BY <4>1 DEF Routes
        <4>4. id \in Ids
          BY <4>1 DEF Ids
        <4>5. route.limit \in {<<>>} \cup (Nat \X Nat)
          BY <4>1, <4>2
        <4> QED BY <4>3, <4>4, <4>5
      <3>5. req' = [req EXCEPT ![r] = new]
        BY <1>0, <3>1
      <3> HIDE DEF i, u, route, id
      <3>6. new \in Req /\ new.pc = pc /\ new.route = <<route>>
        BY <1>0, <3>4 DEF Req, Stages
      <3> HIDE DEF new
      <3>7. pc \in {"select", "enter"} /\ (pc = "enter" => route.limit \in Nat \X Nat)
        BY <3>4
      <3>8. Placed(new)
        BY <3>6, <3>7 DEF Placed
      <3> QED BY <3>5, <3>6, <3>7, <3>8 DEF Goes, Limiter
    <2> QED BY <2>1, <2>2
  <1> QED BY <1>1, <1>2 DEF Outside

\* The draw of a balancer that has no pointer is a number.
LEMMA DrawsNat ==
    ASSUME NEW u, IsList(u.backends), u.strategy \in Strategies, ~RoundRobin(u), NEW i \in Draws(u)
    PROVE  i \in Nat
  <1>1. Len(u.backends) \in Nat
    BY ListDomain
  <1> QED BY <1>1 DEF Strategies, RoundRobin, Draws

LEMMA SelectOutside ==
    ASSUME Typed, NEW r \in DOMAIN req, SelectBackend(r)
    PROVE  Outside(r)
  <1>0. /\ req[r] \in Req /\ req \in [DOMAIN sc.requests -> Req] /\ req[r].pc = "select"
        /\ registry = Registered /\ ptr \in [DOMAIN registry -> Nat]
    BY ReqTyped DEF SelectBackend, At, Typed
  <1>1. req[r].pc \notin Limiter /\ ptr' \in [DOMAIN registry -> Nat] /\ UNCHANGED <<settings, bucketVars>>
    BY <1>0 DEF Limiter, SelectBackend
  <1> DEFINE up == req[r].up
             u == IF up \in DOMAIN registry THEN Upstream(r) ELSE Unregistered
             healthy == HealthyBackends(u)
             all == DOMAIN u.backends
  <1>2. healthy \subseteq all
    BY DEF HealthyBackends
  <1>3. CASE u.backends = <<>> /\ Answer(r, 503)
    BY <1>1, <1>3, Answers DEF Outside, Limiter
  <1>4. CASE healthy # {} /\ ~RoundRobin(u) /\ DrawPanics(u) /\ Go(r, "dropped")
    <2> DEFINE new == [req[r] EXCEPT !.pc = "dropped"]
    <2>1. new \in Req /\ new.pc = "dropped"
      BY <1>0 DEF Req, Stages
    <2>2. req' = [req EXCEPT ![r] = new]
      BY <1>0, <1>4 DEF Go
    <2> HIDE DEF new
    <2>3. Placed(new)
      BY <2>1 DEF Placed
    <2> QED BY <1>1, <2>1, <2>2, <2>3 DEF Outside, Goes, Limiter
  <1>5. ASSUME u.backends # <<>>
        PROVE  /\ up \in DOMAIN Registered /\ u = Registered[up]
               /\ Len(u.backends) \in Nat /\ all = 1..Len(u.backends) /\ all # {}
               /\ IsList(u.backends) /\ u.strategy \in Strategies
               /\ healthy \in SUBSET Nat
    <2>1. up \in DOMAIN Registered /\ u = Registered[up]
      BY <1>0, <1>5 DEF Unregistered, Upstream
    <2>2. IsList(u.backends) /\ u.strategy \in Strategies
      BY <2>1, RegisteredOnes
    <2>3. Len(u.backends) \in Nat /\ all = 1..Len(u.backends)
      BY <2>2, ListDomain
    <2>4. all # {}
      <3>1. u.backends \in Seq({u.backends[i] : i \in DOMAIN u.backends})
        BY <2>2 DEF IsList
      <3> QED BY <1>5, <3>1
    <2>5. healthy \in SUBSET Nat
      BY <1>2, <2>3
    <2> QED BY <2>1, <2>2, <2>3, <2>4, <2>5
  <1>6. healthy # {} => u.backends # <<>>
    BY <1>2
  \* A request that has its backend.
  <1>7. ASSUME NEW b \in all, u.backends # <<>>, healthy = {} \/ b \in healthy,
               req' = [req EXCEPT ![r].pc = "build", ![r].backend = b, ![r].healthy = healthy]
        PROVE  Outside(r)
    <2> DEFINE new == [req[r] EXCEPT !.pc = "build", !.backend = b, !.healthy = healthy]
    <2>1. b \in Nat /\ healthy \in SUBSET Nat /\ up \in DOMAIN Registered /\ u = Registered[up]
      BY <1>5, <1>7
    <2>2. req' = [req EXCEPT ![r] = new]
      BY <1>0, <1>7
    <2>3. healthy \subseteq DOMAIN Registered[up].backends /\ b \in DOMAIN Registered[up].backends
      BY <1>2, <1>7, <2>1
    <2> HIDE DEF u, healthy, all
    <2>4. new \in Req /\ new.pc = "build" /\ new.backend = b /\ new.healthy = healthy /\ new.up = up
      BY <1>0, <2>1 DEF Req, Stages
    <2> HIDE DEF new
    <2>5. Placed(new)
      BY <1>7, <2>1, <2>3, <2>4 DEF Placed, Targeted
    <2> QED BY <1>1, <2>2, <2>4, <2>5 DEF Outside, Goes, Limiter
  <1>8. CASE /\ u.backends # <<>> /\ healthy = {}
             /\ req' = [req EXCEPT ![r].pc = "build", ![r].backend = 1, ![r].healthy = healthy]
    <2>1. 1 \in all
      BY <1>5, <1>8
    <2> HIDE DEF all, u, healthy
    <2> QED BY <1>7, <1>8, <2>1
  <1>9. CASE /\ healthy # {} /\ RoundRobin(u)
             /\ req' = [req EXCEPT ![r].pc = "store", ![r].cur = ptr[req[r].up], ![r].healthy = healthy]
    <2> DEFINE cur == ptr[up]
               new == [req[r] EXCEPT !.pc = "store", !.cur = cur, !.healthy = healthy]
    <2>1. healthy \in SUBSET Nat /\ up \in DOMAIN Registered /\ u = Registered[up]
      BY <1>5, <1>6, <1>9
    <2>2. req' = [req EXCEPT ![r] = new]
      BY <1>0, <1>9
    <2>3. healthy \subseteq DOMAIN Registered[up].backends
      BY <1>2, <2>1
    <2>4. cur \in Nat
      BY <1>0, <2>1
    <2> HIDE DEF u, healthy, all, cur
    <2>5. new \in Req /\ new.pc = "store" /\ new.healthy = healthy /\ new.up = up
      BY <1>0, <2>1, <2>4 DEF Req, Stages
    <2> HIDE DEF new
    <2>6. Placed(new)
      BY <1>9, <2>1, <2>3, <2>5 DEF Placed, Targeted
    <2> QED BY <1>1, <2>2, <2>5, <2>6 DEF Outside, Goes, Limiter
  <1>10. CASE /\ healthy # {} /\ ~RoundRobin(u) /\ ~DrawPanics(u)
              /\ \E i \in Draws(u) :
                   req' = [req EXCEPT ![r].pc = "build", ![r].backend = Chosen(healthy, i), ![r].healthy = healthy]
    <2>1. PICK i \in Draws(u) :
            req' = [req EXCEPT ![r].pc = "build", ![r].backend = Chosen(healthy, i), ![r].healthy = healthy]
      BY <1>10
    <2>2. i \in Nat
      BY <1>5, <1>6, <1>10, DrawsNat
    <2>3. Chosen(healthy, i) \in healthy
      <3>1. Len(u.backends) \in Nat /\ healthy \subseteq 1..Len(u.backends)
        BY <1>2, <1>5, <1>6, <1>10
      <3> HIDE DEF healthy, u, all
      <3> QED BY <1>10, <2>2, <3>1, ChosenOne
    <2>4. Chosen(healthy, i) \in all
      BY <1>2, <2>3
    <2> HIDE DEF healthy, u, all
    <2> QED BY <1>6, <1>7, <1>10, <2>1, <2>3, <2>4
  <1>11. \E v \in {u} : \E h \in {HealthyBackends(v)} :
           \/ v.backends = <<>> /\ Answer(r, 503)
           \/ /\ v.backends # <<>> /\ h = {}
              /\ req' = [req EXCEPT ![r].pc = "build", ![r].backend = 1, ![r].healthy = h]
           \/ /\ h # {} /\ RoundRobin(v)
              /\ req' = [req EXCEPT ![r].pc = "store", ![r].cur = ptr[req[r].up], ![r].healthy = h]
           \/ h # {} /\ ~RoundRobin(v) /\ DrawPanics(v) /\ Go(r, "dropped")
           \/ /\ h # {} /\ ~RoundRobin(v) /\ ~DrawPanics(v)
              /\ \E i \in Draws(v) :
                   req' = [req EXCEPT ![r].pc = "build", ![r].backend = Chosen(h, i), ![r].healthy = h]
    BY Zenon DEF SelectBackend
  <1> HIDE DEF u
  <1> QED BY <1>3, <1>4, <1>8, <1>9, <1>10, <1>11, ZenonT(60)

LEMMA StoreOutside ==
    ASSUME Typed, NEW r \in DOMAIN req, StorePtr(r)
    PROVE  Outside(r)
  <1>0. /\ req[r] \in Req /\ req \in [DOMAIN sc.requests -> Req] /\ req[r].pc = "store"
        /\ registry = Registered /\ ptr \in [DOMAIN registry -> Nat]
        /\ Placed(req[r])
    BY ReqTyped DEF StorePtr, At, Typed
  <1> DEFINE q == req[r]
             bs == Registered[q.up].backends
  <1>1. q.up \in DOMAIN Registered /\ q.healthy \subseteq DOMAIN bs /\ q.healthy # {} /\ q.cur \in Nat
    BY <1>0 DEF Placed, Targeted, Req
  <1>2. Len(bs) \in Nat /\ DOMAIN bs = 1..Len(bs)
    BY <1>1, RegisteredOnes, ListDomain
  <1>3. Len(bs) # 0
    BY <1>1, <1>2
  <1>4. ptr' \in [DOMAIN registry -> Nat]
    <2>1. (q.cur + 1) % Len(bs) \in Nat
      <3> DEFINE n == Len(bs)
                 m == q.cur + 1
      <3>1. n \in Nat /\ n # 0 /\ m \in Nat
        BY <1>1, <1>2, <1>3
      <3> HIDE DEF n, m
      <3>2. m % n \in Nat
        BY <3>1
      <3> QED BY <3>2 DEF m, n
    <2>2. ptr' = [ptr EXCEPT ![q.up] = (q.cur + 1) % Len(bs)]
      BY <1>0 DEF StorePtr, Upstream
    <2> QED BY <1>0, <2>1, <2>2
  <1>5. Chosen(q.healthy, q.cur) \in q.healthy
    <2> DEFINE h == q.healthy
               d == q.cur
               n == Len(bs)
    <2>1. n \in Nat /\ h \subseteq 1..n /\ h # {} /\ d \in Nat
      BY <1>1, <1>2
    <2> HIDE DEF h, d, n
    <2>2. Chosen(h, d) \in h
      BY <2>1, ChosenOne
    <2> QED BY <2>2 DEF h, d
  <1> DEFINE b == Chosen(q.healthy, q.cur)
             new == [q EXCEPT !.pc = "build", !.backend = b]
  <1>6. b \in DOMAIN bs /\ b \in Nat
    BY <1>1, <1>2, <1>5
  <1>7. req' = [req EXCEPT ![r] = new]
    BY <1>0 DEF StorePtr
  <1>8. b \in q.healthy
    BY <1>5
  <1> HIDE DEF b
  <1>9. /\ new \in Req /\ new.pc = "build" /\ new.backend = b
        /\ new.healthy = q.healthy /\ new.up = q.up
    BY <1>0, <1>6 DEF Req, Stages
  <1>10. Placed(new)
    <2> HIDE DEF new
    <2> QED BY <1>1, <1>6, <1>8, <1>9 DEF Placed, Targeted
  <1>11. req[r].pc \notin Limiter /\ UNCHANGED <<settings, bucketVars>>
    BY <1>0 DEF Limiter, StorePtr
  <1> HIDE DEF new
  <1> QED BY <1>4, <1>7, <1>9, <1>10, <1>11 DEF Outside, Goes, Limiter

\* The exchange with the upstream.
LEMMA ExchangeOutside ==
    ASSUME Typed, NEW r \in DOMAIN req,
           \/ BuildRequest(r) \/ UpstreamAnswers(r) \/ UpstreamSwitches(r)
           \/ UpstreamRefuses(r) \/ TimesOut(r)
    PROVE  Outside(r)
  <1>0. /\ req[r] \in Req /\ req \in [DOMAIN sc.requests -> Req] /\ ptr \in [DOMAIN registry -> Nat]
        /\ Placed(req[r])
    BY ReqTyped DEF Typed
  <1>1. /\ req[r].pc \in {"build", "sent"} /\ ptr' \in [DOMAIN registry -> Nat]
        /\ UNCHANGED <<settings, bucketVars>>
    BY <1>0 DEF BuildRequest, UpstreamAnswers, UpstreamSwitches, UpstreamRefuses, TimesOut, At
  <1>2. (\E s \in Nat : Answer(r, s)) \/ (req[r].pc = "build" /\ Go(r, "sent"))
    BY DEF BuildRequest, UpstreamAnswers, UpstreamSwitches, UpstreamRefuses, TimesOut, SwitchStatus,
           TimeoutStatus, At
  <1>3. \E new : Goes(r, new) /\ new.pc \notin Limiter
    <2>1. CASE \E s \in Nat : Answer(r, s)
      BY <2>1, Answers DEF Limiter
    <2>2. CASE req[r].pc = "build" /\ Go(r, "sent")
      <3> DEFINE new == [req[r] EXCEPT !.pc = "sent"]
      <3>1. /\ new \in Req /\ new.pc = "sent" /\ new.backend = req[r].backend
            /\ new.healthy = req[r].healthy /\ new.up = req[r].up
        BY <1>0 DEF Req, Stages
      <3>2. req' = [req EXCEPT ![r] = new]
        BY <1>0, <2>2 DEF Go
      <3> HIDE DEF new
      <3>3. Placed(new)
        BY <1>0, <2>2, <3>1 DEF Placed, Targeted
      <3> QED BY <3>1, <3>2, <3>3 DEF Goes, Limiter
    <2> QED BY <1>2, <2>1, <2>2
  <1> QED BY <1>1, <1>3 DEF Outside, Limiter

-----------------------------------------------------------------------------
(* The buckets *)

\* What the caller inside relies on.
Busy(b, q, clk, ah) ==
    /\ q.pc \in {"load", "cas"} => Before(b, q.now, clk, ah)
    /\ q.pc = "cas" => q.last = b.last /\ q.seen = b.tokens
    /\ q.pc = "stamp" => q.last = b.last /\ After(b, q.now, clk, ah)

\* An entry's lock tells who is inside; the law holds of every bucket.
RateInv ==
    /\ clock \in Nat /\ ahead \in Nat
    /\ bucket \in [Clients -> Bucket \cup {NoBucket}]
    /\ lock \in [Clients -> DOMAIN req \cup {0}]
    /\ \A r \in DOMAIN req : req[r].pc \in Limiter <=> lock[Client(r)] = r
    /\ \A r \in DOMAIN req : req[r].pc \in Limiter =>
         bucket[Client(r)] \in Bucket /\ Busy(bucket[Client(r)], req[r], clock, ahead)
    /\ \A c \in Clients : lock[c] = 0 => bucket[c] = NoBucket \/ Idle(bucket[c], clock, ahead)
    /\ \A c \in Clients : lock[c] # 0 => Client(lock[c]) = c

LEMMA NoBucketIsNone == NoBucket \notin Bucket
  <1>1. \A b \in Bucket : b.born \in Nat
    BY DEF Bucket
  <1>2. NoBucket.born = -1
    BY DEF NoBucket
  <1> QED BY <1>1, <1>2

LEMMA ClientOf ==
    ASSUME Typed, NEW r \in DOMAIN req
    PROVE  Client(r) \in Clients /\ r # 0
  <1>1. sc \in Scenarios /\ DOMAIN req = DOMAIN sc.requests
    BY ReqTyped DEF Typed
  <1>2. IsList(sc.requests)
    BY <1>1, TrafficAssumption
  <1>3. DOMAIN sc.requests = 1..Len(sc.requests) /\ Len(sc.requests) \in Nat
    BY <1>2, ListDomain
  <1> QED BY <1>1, <1>3 DEF Client, Clients

\* A step of the caller that is inside, or that enters or leaves.
LEMMA CallerStep ==
    ASSUME Typed, RateInv, NEW r \in DOMAIN req, NEW new, Goes(r, new), UNCHANGED settings,
           NEW b \in Bucket, bucket' = [bucket EXCEPT ![Client(r)] = b],
           NEW l, lock' = [lock EXCEPT ![Client(r)] = l],
           lock[Client(r)] \in {0, r}, clock' = clock, ahead' = ahead,
           \/ l = r /\ new.pc \in Limiter /\ Busy(b, new, clock, ahead)
           \/ l = 0 /\ new.pc \notin Limiter /\ Idle(b, clock, ahead)
    PROVE  RateInv'
  <1> DEFINE c == Client(r)
  <1>0. /\ c \in Clients /\ r # 0 /\ sc' = sc /\ Clients' = Clients
        /\ req \in [DOMAIN sc.requests -> Req] /\ DOMAIN req' = DOMAIN req
        /\ bucket \in [Clients -> Bucket \cup {NoBucket}]
        /\ lock \in [Clients -> DOMAIN req \cup {0}]
    BY ClientOf, ReqTyped DEF settings, Clients, Goes, RateInv
  <1>1. \A q \in DOMAIN req : Client(q)' = Client(q) /\ Client(q) \in Clients
    BY <1>0, ClientOf DEF Client
  <1>2. /\ req'[r] = new /\ bucket'[c] = b /\ lock'[c] = l
        /\ \A q \in DOMAIN req : q # r => req'[q] = req[q]
        /\ \A d \in Clients : d # c => bucket'[d] = bucket[d] /\ lock'[d] = lock[d]
    BY <1>0 DEF Goes
  <1>3. bucket' \in [Clients' -> Bucket \cup {NoBucket}] /\ lock' \in [Clients' -> DOMAIN req' \cup {0}]
    BY <1>0
  \* Nobody else is inside c's entry.
  <1>4. ASSUME NEW q \in DOMAIN req, q # r
        PROVE  /\ req[q].pc \in Limiter => Client(q) # c
               /\ req[q].pc \in Limiter <=> lock'[Client(q)] = q
    <2>1. req[q].pc \in Limiter <=> lock[Client(q)] = q
      BY DEF RateInv
    <2>2. q # 0
      BY ClientOf
    <2>3. CASE Client(q) = c
      BY <1>2, <1>4, <2>1, <2>2, <2>3
    <2>4. CASE Client(q) # c
      BY <1>1, <1>2, <2>1, <2>4
    <2> QED BY <2>3, <2>4
  <1>5. \A q \in DOMAIN req' : req'[q].pc \in Limiter <=> lock'[Client(q)'] = q
    <2> SUFFICES ASSUME NEW q \in DOMAIN req
                 PROVE  req'[q].pc \in Limiter <=> lock'[Client(q)] = q
      BY <1>0, <1>1
    <2>1. CASE q = r
      BY <1>0, <1>2, <2>1
    <2>2. CASE q # r
      BY <1>2, <1>4, <2>2
    <2> QED BY <2>1, <2>2
  <1>6. \A q \in DOMAIN req' : req'[q].pc \in Limiter =>
           bucket'[Client(q)'] \in Bucket /\ Busy(bucket'[Client(q)'], req'[q], clock', ahead')
    <2> SUFFICES ASSUME NEW q \in DOMAIN req, req'[q].pc \in Limiter
                 PROVE  bucket'[Client(q)] \in Bucket /\ Busy(bucket'[Client(q)], req'[q], clock, ahead)
      BY <1>0, <1>1
    <2>1. CASE q = r
      BY <1>2, <2>1
    <2>2. CASE q # r
      <3>1. req'[q] = req[q] /\ req[q].pc \in Limiter
        BY <1>2, <2>2
      <3>2. bucket'[Client(q)] = bucket[Client(q)]
        BY <1>1, <1>2, <1>4, <2>2, <3>1
      <3> QED BY <3>1, <3>2 DEF RateInv
    <2> QED BY <2>1, <2>2
  <1>7. \A d \in Clients' : lock'[d] = 0 => bucket'[d] = NoBucket \/ Idle(bucket'[d], clock', ahead')
    BY <1>0, <1>2 DEF RateInv
  <1>8. \A d \in Clients' : lock'[d] # 0 => Client(lock[d])' = d
    <2> SUFFICES ASSUME NEW d \in Clients, lock'[d] # 0
                 PROVE  Client(lock[d])' = d
      BY <1>0
    <2>1. CASE d = c
      <3>1. lock'[d] = r
        BY <1>2, <2>1
      <3> QED BY <1>0, <2>1, <3>1 DEF Client
    <2>2. CASE d # c
      <3>1. lock'[d] = lock[d] /\ lock[d] # 0 /\ lock[d] \in DOMAIN req
        BY <1>0, <1>2, <2>2
      <3>2. Client(lock[d]) = d
        BY <3>1 DEF RateInv
      <3> QED BY <1>0, <3>1, <3>2 DEF Client
    <2> QED BY <2>1, <2>2
  <1>9. clock' \in Nat /\ ahead' \in Nat
    BY DEF RateInv
  <1> QED BY <1>3, <1>5, <1>6, <1>7, <1>8, <1>9 DEF RateInv

\* A step outside the limiter is nothing to the buckets.
LEMMA OutsideRate ==
    ASSUME Typed, RateInv, NEW r \in DOMAIN req, Outside(r)
    PROVE  RateInv'
  <1>1. PICK new : Goes(r, new) /\ new.pc \notin Limiter
    BY DEF Outside
  <1>2. /\ req[r].pc \notin Limiter /\ sc' = sc /\ Clients' = Clients
        /\ UNCHANGED <<clock, ahead, bucket, lock>>
    BY DEF Outside, settings, bucketVars, Clients
  <1>3. req \in [DOMAIN sc.requests -> Req] /\ DOMAIN req' = DOMAIN req
    BY <1>1, ReqTyped DEF Goes
  <1>4. \A q : Client(q)' = Client(q)
    BY <1>2 DEF Client
  <1>5. \A q \in DOMAIN req : q # r => req'[q] = req[q]
    BY <1>1, <1>3 DEF Goes
  <1>6. req'[r].pc \notin Limiter
    BY <1>1, <1>3 DEF Goes
  <1>7. \A q \in DOMAIN req : (req'[q].pc \in Limiter <=> req[q].pc \in Limiter)
                              /\ (req[q].pc \in Limiter => req'[q] = req[q])
    BY <1>2, <1>5, <1>6
  <1> QED BY <1>2, <1>3, <1>4, <1>7 DEF RateInv

LEMMA RpsNat ==
    ASSUME NEW limit \in Nat \X Nat
    PROVE  Rps(limit) \in Nat
  <1> DEFINE n == limit[1]
             w == limit[2]
  <1>1. n \in Nat /\ w \in Nat
    OBVIOUS
  <1>2. Rps(limit) = IF w = 0 THEN n ELSE n \div w
    BY DEF Rps
  <1> HIDE DEF n, w
  <1> QED BY <1>1, <1>2

LEMMA NewBucketLaw ==
    ASSUME clock \in Nat, ahead \in Nat, NEW limit \in Nat \X Nat
    PROVE  NewBucket(limit) \in Bucket /\ Idle(NewBucket(limit), clock, ahead)
  <1> DEFINE n == limit[1]
             w == Rps(limit)
             b == [born |-> ahead, cap |-> n, rate |-> w, tokens |-> n * Scale,
                   last |-> clock, granted |-> 0, access |-> ahead]
  <1>1. n \in Nat /\ w \in Nat /\ NewBucket(limit) = b
    BY RpsNat DEF NewBucket
  <1> HIDE DEF n, w
  <1>2. n * Scale \in Nat
    BY <1>1 DEF Scale
  <1>3. b \in Bucket
    BY <1>1, <1>2 DEF Bucket
  <1>4. b.granted = 0 /\ b.tokens = b.cap * Scale /\ b.last = clock /\ b.born = ahead
    OBVIOUS
  <1> HIDE DEF b
  <1>5. Idle(b, clock, ahead)
    BY <1>3, <1>4, LawNew
  <1> QED BY <1>1, <1>3, <1>5

LEMMA EnterRate ==
    ASSUME Typed, RateInv, NEW r \in DOMAIN req, EnterBucket(r)
    PROVE  Typed' /\ RateInv'
  <1> DEFINE c == Client(r)
             b == IF bucket[c] = NoBucket THEN NewBucket(Route(r).limit)
                  ELSE [bucket[c] EXCEPT !.access = ahead]
             new == [req[r] EXCEPT !.pc = "load", !.now = clock]
  <1>0. /\ req[r] \in Req /\ req \in [DOMAIN sc.requests -> Req] /\ req[r].pc = "enter" /\ Placed(req[r])
        /\ c \in Clients /\ lock[c] = 0 /\ clock \in Nat /\ ahead \in Nat
        /\ bucket \in [Clients -> Bucket \cup {NoBucket}]
    BY ReqTyped, ClientOf DEF EnterBucket, At, RateInv
  <1>1. Route(r).limit \in Nat \X Nat
    BY <1>0 DEF Placed, Route
  <1>2. b \in Bucket /\ Idle(b, clock, ahead)
    <2>1. CASE bucket[c] = NoBucket
      <3> HIDE DEF c
      <3> QED BY <1>0, <1>1, <2>1, NewBucketLaw
    <2>2. CASE bucket[c] # NoBucket
      <3> DEFINE d == bucket[c]
                 e == [d EXCEPT !.access = ahead]
      <3>1. d \in Bucket /\ Idle(d, clock, ahead) /\ b = e
        BY <1>0, <2>2 DEF RateInv
      <3> HIDE DEF d, b
      <3>2. /\ e \in Bucket
            /\ e.born = d.born /\ e.cap = d.cap /\ e.rate = d.rate /\ e.tokens = d.tokens
            /\ e.last = d.last /\ e.granted = d.granted
        BY <1>0, <3>1 DEF Bucket
      <3> HIDE DEF e
      <3>3. Idle(e, clock, ahead)
        BY <1>0, <3>1, <3>2, LawAccess
      <3> QED BY <3>1, <3>2, <3>3
    <2> QED BY <2>1, <2>2
  <1>3. new \in Req /\ new.pc = "load" /\ new.now = clock
    BY <1>0 DEF Req, Stages
  <1>4. /\ req' = [req EXCEPT ![r] = new] /\ bucket' = [bucket EXCEPT ![c] = b]
        /\ lock' = [lock EXCEPT ![c] = r] /\ UNCHANGED <<settings, clock, ahead, ptr>>
    <2>1. bucket' = [bucket EXCEPT ![c] = b]
      BY <1>0 DEF EnterBucket
    <2>2. /\ req' = [req EXCEPT ![r] = new] /\ lock' = [lock EXCEPT ![c] = r]
          /\ UNCHANGED <<settings, clock, ahead, ptr>>
      BY <1>0 DEF EnterBucket
    <2> QED BY <2>1, <2>2
  <1> HIDE DEF new, b
  <1>5. Goes(r, new)
    BY <1>3, <1>4 DEF Goes, Placed
  <1>6. Typed'
    BY <1>4, <1>5, GoesTyped DEF Typed
  <1>7. Busy(b, new, clock, ahead)
    BY <1>0, <1>2, <1>3, LawEnter DEF Busy
  <1>8. new.pc \in Limiter /\ lock[c] \in {0, r}
    BY <1>0, <1>3 DEF Limiter
  <1> QED BY <1>2, <1>4, <1>5, <1>6, <1>7, <1>8, CallerStep

\* A caller inside its entry, with a bucket that keeps the law.
LEMMA InsideFacts ==
    ASSUME Typed, RateInv, NEW r \in DOMAIN req, req[r].pc \in Limiter
    PROVE  /\ req[r] \in Req /\ req \in [DOMAIN sc.requests -> Req]
           /\ Client(r) \in Clients /\ lock[Client(r)] = r /\ r # 0
           /\ clock \in Nat /\ ahead \in Nat
           /\ bucket \in [Clients -> Bucket \cup {NoBucket}] /\ lock \in [Clients -> DOMAIN req \cup {0}]
           /\ bucket[Client(r)] \in Bucket /\ Busy(bucket[Client(r)], req[r], clock, ahead)
           /\ req[r].now \in Nat /\ req[r].last \in Nat /\ req[r].seen \in Nat
  <1>1. req[r] \in Req
    BY ReqTyped
  <1>2. req[r].now \in Nat /\ req[r].last \in Nat /\ req[r].seen \in Nat
    BY <1>1 DEF Req
  <1> QED BY <1>1, <1>2, ReqTyped, ClientOf DEF RateInv

\* The caller goes on, and its bucket and its lock stay.
LEMMA StayStep ==
    ASSUME Typed, RateInv, NEW r \in DOMAIN req, req[r].pc \in Limiter, NEW new, Goes(r, new),
           new.pc \in Limiter, Busy(bucket[Client(r)], new, clock, ahead),
           UNCHANGED <<settings, bucketVars, ptr>>
    PROVE  Typed' /\ RateInv'
  <1> DEFINE c == Client(r)
  <1>1. /\ c \in Clients /\ lock[c] = r /\ bucket[c] \in Bucket
        /\ bucket \in [Clients -> Bucket \cup {NoBucket}] /\ lock \in [Clients -> DOMAIN req \cup {0}]
    BY InsideFacts
  <1>2. /\ bucket' = [bucket EXCEPT ![c] = bucket[c]] /\ lock' = [lock EXCEPT ![c] = r]
        /\ clock' = clock /\ ahead' = ahead /\ UNCHANGED settings /\ ptr' = ptr
    BY <1>1 DEF bucketVars
  <1>3. Typed'
    BY <1>2, GoesTyped DEF Typed
  <1>4. lock[c] \in {0, r}
    BY <1>1
  <1> QED BY <1>1, <1>2, <1>3, <1>4, CallerStep

LEMMA LoadRate ==
    ASSUME Typed, RateInv, NEW r \in DOMAIN req, LoadBucket(r)
    PROVE  Typed' /\ RateInv'
  <1> DEFINE b == bucket[Client(r)]
             new == [req[r] EXCEPT !.pc = "cas", !.last = b.last, !.seen = b.tokens]
  <1>0. req[r].pc = "load" /\ req[r].pc \in Limiter
    BY DEF LoadBucket, At, Limiter
  <1>1. /\ req[r] \in Req /\ req \in [DOMAIN sc.requests -> Req]
        /\ b \in Bucket /\ Busy(b, req[r], clock, ahead)
    BY <1>0, InsideFacts
  <1>2. b.last \in Nat /\ b.tokens \in Nat
    BY <1>1 DEF Bucket
  <1>3. req' = [req EXCEPT ![r] = new] /\ UNCHANGED <<settings, bucketVars, ptr>>
    BY <1>1 DEF LoadBucket
  <1>4. /\ new \in Req /\ new.pc = "cas" /\ new.now = req[r].now
        /\ new.last = b.last /\ new.seen = b.tokens
    <2> HIDE DEF b
    <2> QED BY <1>1, <1>2 DEF Req, Stages
  <1> HIDE DEF new
  <1>5. Goes(r, new)
    BY <1>3, <1>4 DEF Goes, Placed
  <1>6. Busy(b, new, clock, ahead) /\ new.pc \in Limiter
    BY <1>0, <1>1, <1>4 DEF Busy, Limiter
  <1> QED BY <1>0, <1>3, <1>5, <1>6, StayStep

LEMMA RetryRate ==
    ASSUME Typed, RateInv, NEW r \in DOMAIN req, RetryToken(r)
    PROVE  Typed' /\ RateInv'
  <1> DEFINE b == bucket[Client(r)]
             new == [req[r] EXCEPT !.pc = "load"]
  <1>0. req[r].pc = "cas" /\ req[r].pc \in Limiter
    BY DEF RetryToken, At, Limiter
  <1>1. /\ req[r] \in Req /\ req \in [DOMAIN sc.requests -> Req]
        /\ b \in Bucket /\ Busy(b, req[r], clock, ahead)
    BY <1>0, InsideFacts
  <1>3. req' = [req EXCEPT ![r] = new] /\ UNCHANGED <<settings, bucketVars, ptr>>
    BY <1>1 DEF RetryToken, Go
  <1>4. new \in Req /\ new.pc = "load" /\ new.now = req[r].now
    BY <1>1 DEF Req, Stages
  <1> HIDE DEF new
  <1>5. Goes(r, new)
    BY <1>3, <1>4 DEF Goes, Placed
  <1>6. Busy(b, new, clock, ahead) /\ new.pc \in Limiter
    BY <1>0, <1>1, <1>4 DEF Busy, Limiter
  <1> QED BY <1>0, <1>3, <1>5, <1>6, StayStep

LEMMA RefuseRate ==
    ASSUME Typed, RateInv, NEW r \in DOMAIN req, RefuseRequest(r)
    PROVE  Typed' /\ RateInv'
  <1> DEFINE c == Client(r)
             b == bucket[c]
  <1>0. req[r].pc = "cas" /\ req[r].pc \in Limiter
    BY DEF RefuseRequest, At, Limiter
  <1>1. /\ req[r] \in Req /\ req[r].now \in Nat /\ c \in Clients /\ lock[c] = r
        /\ b \in Bucket /\ Busy(b, req[r], clock, ahead) /\ clock \in Nat /\ ahead \in Nat
        /\ bucket \in [Clients -> Bucket \cup {NoBucket}]
    BY <1>0, InsideFacts
  <1>2. PICK new : Goes(r, new) /\ new.pc = "answered"
    BY Answers DEF RefuseRequest
  <1>3. /\ bucket' = [bucket EXCEPT ![c] = b] /\ lock' = [lock EXCEPT ![c] = 0]
        /\ UNCHANGED settings /\ clock' = clock /\ ahead' = ahead /\ ptr' = ptr
    BY <1>1 DEF RefuseRequest, Unlock
  <1>4. Typed'
    BY <1>2, <1>3, GoesTyped DEF Typed
  <1>5. Idle(b, clock, ahead)
    BY <1>0, <1>1, LawLeave DEF Busy
  <1>6. new.pc \notin Limiter /\ lock[c] \in {0, r}
    BY <1>1, <1>2 DEF Limiter
  <1> HIDE DEF b
  <1> QED BY <1>1, <1>2, <1>3, <1>4, <1>5, <1>6, CallerStep

LEMMA TakeRate ==
    ASSUME Typed, RateInv, NEW r \in DOMAIN req, TakeToken(r)
    PROVE  Typed' /\ RateInv'
  <1> DEFINE c == Client(r)
             b == bucket[c]
             full == Refilled(r)
             d == [b EXCEPT !.tokens = full - Scale, !.granted = b.granted + 1]
             new == [req[r] EXCEPT !.pc = "stamp"]
  <1>0. req[r].pc = "cas" /\ req[r].pc \in Limiter
    BY DEF TakeToken, At, Limiter
  <1>1. /\ req[r] \in Req /\ req \in [DOMAIN sc.requests -> Req]
        /\ req[r].now \in Nat /\ c \in Clients /\ lock[c] = r
        /\ b \in Bucket /\ Busy(b, req[r], clock, ahead) /\ clock \in Nat /\ ahead \in Nat
        /\ bucket \in [Clients -> Bucket \cup {NoBucket}] /\ lock \in [Clients -> DOMAIN req \cup {0}]
    BY <1>0, InsideFacts
  <1>2. req[r].last = b.last /\ req[r].seen = b.tokens /\ Before(b, req[r].now, clock, ahead)
    BY <1>0, <1>1 DEF Busy
  <1>3. full = Min(b.tokens + Monus(req[r].now, b.last) * b.rate, b.cap * Scale)
    BY <1>2 DEF Refilled
  <1>4. full \in Nat /\ full <= b.tokens + Monus(req[r].now, b.last) * b.rate
    <2> DEFINE x == Monus(req[r].now, b.last) * b.rate
               y == b.cap * Scale
               z == b.tokens
    <2>1. y \in Nat /\ z \in Nat
      BY <1>1 DEF Bucket, Scale
    <2>2. x \in Nat
      <3>1. Monus(req[r].now, b.last) \in Nat /\ b.rate \in Nat
        BY <1>1, OwedNat, MonusNat
      <3> QED BY <3>1, TimesNat
    <2>3. full = Min(z + x, y)
      BY <1>3
    <2> HIDE DEF x, y, z, full
    <2>4. full \in Nat /\ full <= z + x
      BY <2>1, <2>2, <2>3 DEF Min
    <2> QED BY <2>4 DEF x, z
  <1>5. full >= Scale /\ full - Scale \in Nat
    <2>1. full >= Scale
      BY DEF TakeToken
    <2> HIDE DEF full
    <2> QED BY <1>4, <2>1 DEF Scale
  <1>6. /\ bucket' = [bucket EXCEPT ![c] = d] /\ lock' = [lock EXCEPT ![c] = r]
        /\ UNCHANGED settings /\ clock' = clock /\ ahead' = ahead /\ ptr' = ptr
        /\ req' = [req EXCEPT ![r] = new]
    BY <1>1 DEF TakeToken, Go
  <1> HIDE DEF full
  <1>7. /\ d \in Bucket
        /\ d.born = b.born /\ d.cap = b.cap /\ d.rate = b.rate /\ d.last = b.last
        /\ d.tokens = full - Scale /\ d.granted = b.granted + 1
    <2> DEFINE t == full - Scale
               g == b.granted + 1
    <2>1. t \in Nat
      BY <1>5
    <2>2. g \in Nat
      BY <1>1 DEF Bucket
    <2>3. b \in Bucket /\ d = [b EXCEPT !.tokens = t, !.granted = g]
      BY <1>1
    <2> HIDE DEF b, t, g, d
    <2>4. /\ d \in Bucket
          /\ d.born = b.born /\ d.cap = b.cap /\ d.rate = b.rate /\ d.last = b.last
          /\ d.tokens = t /\ d.granted = g
      BY <2>1, <2>2, <2>3 DEF Bucket
    <2> QED BY <2>4 DEF t, g
  <1> HIDE DEF d
  <1>8. After(d, req[r].now, clock, ahead)
    BY <1>1, <1>2, <1>4, <1>7, LawTake
  <1>9. new \in Req /\ new.pc = "stamp" /\ new.now = req[r].now /\ new.last = req[r].last
    BY <1>1 DEF Req, Stages
  <1> HIDE DEF new
  <1>10. Goes(r, new)
    BY <1>6, <1>9 DEF Goes, Placed
  <1>11. Typed'
    BY <1>6, <1>10, GoesTyped DEF Typed
  <1>12. Busy(d, new, clock, ahead) /\ new.pc \in Limiter /\ lock[c] \in {0, r}
    BY <1>1, <1>2, <1>7, <1>8, <1>9 DEF Busy, Limiter
  <1> QED BY <1>6, <1>7, <1>10, <1>11, <1>12, CallerStep

LEMMA StampRate ==
    ASSUME Typed, RateInv, NEW r \in DOMAIN req, StampRefill(r)
    PROVE  Typed' /\ RateInv'
  <1> DEFINE c == Client(r)
             b == bucket[c]
             now == req[r].now
             d == [b EXCEPT !.last = now]
             new == [req[r] EXCEPT !.pc = "select"]
  <1>0. req[r].pc = "stamp" /\ req[r].pc \in Limiter
    BY DEF StampRefill, At, Limiter
  <1>1. /\ req[r] \in Req /\ req \in [DOMAIN sc.requests -> Req]
        /\ now \in Nat /\ c \in Clients /\ lock[c] = r
        /\ b \in Bucket /\ Busy(b, req[r], clock, ahead) /\ clock \in Nat /\ ahead \in Nat
        /\ bucket \in [Clients -> Bucket \cup {NoBucket}] /\ lock \in [Clients -> DOMAIN req \cup {0}]
    BY <1>0, InsideFacts
  <1>2. req[r].last = b.last /\ After(b, now, clock, ahead)
    BY <1>0, <1>1 DEF Busy
  <1>3. /\ bucket' = [bucket EXCEPT ![c] = d] /\ lock' = [lock EXCEPT ![c] = 0]
        /\ UNCHANGED settings /\ clock' = clock /\ ahead' = ahead /\ ptr' = ptr
        /\ req' = [req EXCEPT ![r] = new]
    <2>1. bucket' = [bucket EXCEPT ![c] = d]
      BY <1>1, <1>2 DEF StampRefill
    <2>2. /\ lock' = [lock EXCEPT ![c] = 0] /\ req' = [req EXCEPT ![r] = new]
          /\ UNCHANGED settings /\ clock' = clock /\ ahead' = ahead /\ ptr' = ptr
      BY <1>1 DEF StampRefill, Unlock, Go
    <2> QED BY <2>1, <2>2
  <1>4. /\ d \in Bucket
        /\ d.born = b.born /\ d.cap = b.cap /\ d.rate = b.rate /\ d.tokens = b.tokens
        /\ d.granted = b.granted /\ d.last = now
    <2> HIDE DEF b, now
    <2> QED BY <1>1 DEF Bucket
  <1> HIDE DEF d, now
  <1>5. Idle(d, clock, ahead)
    BY <1>1, <1>2, <1>4, LawStamp
  <1>6. new \in Req /\ new.pc = "select"
    BY <1>1 DEF Req, Stages
  <1> HIDE DEF new
  <1>7. Goes(r, new)
    BY <1>3, <1>6 DEF Goes, Placed
  <1>8. Typed'
    BY <1>3, <1>7, GoesTyped DEF Typed
  <1>9. new.pc \notin Limiter /\ lock[c] \in {0, r}
    BY <1>1, <1>6 DEF Limiter
  <1> QED BY <1>3, <1>4, <1>5, <1>7, <1>8, <1>9, CallerStep

\* The clock goes on or is set back.
LEMMA ClockRate ==
    ASSUME Typed, RateInv, Tick \/ StepBack
    PROVE  RateInv'
  <1>0. /\ clock \in Nat /\ ahead \in Nat /\ bucket \in [Clients -> Bucket \cup {NoBucket}]
        /\ Step \in Nat /\ UNCHANGED <<sc, req, bucket, lock>> /\ Clients' = Clients
    BY TrafficAssumption DEF RateInv, Tick, StepBack, settings, Clients
  <1>1. /\ clock' \in Nat /\ ahead' \in Nat
        /\ \/ clock' = clock + Step /\ ahead' = ahead + Step
           \/ clock' = clock - Step /\ ahead' = ahead /\ Step <= clock
    BY <1>0 DEF Tick, StepBack
  <1>2. ASSUME NEW b \in Bucket, NEW now \in Nat
        PROVE  /\ Idle(b, clock, ahead) => Idle(b, clock', ahead')
               /\ Before(b, now, clock, ahead) => Before(b, now, clock', ahead')
               /\ After(b, now, clock, ahead) => After(b, now, clock', ahead')
    <2>1. CASE clock' = clock + Step /\ ahead' = ahead + Step
      BY <1>0, <2>1, LawForward
    <2>2. CASE clock' = clock - Step /\ ahead' = ahead /\ Step <= clock
      BY <1>0, <2>2, LawBack
    <2> QED BY <1>1, <2>1, <2>2
  <1>3. \A r \in DOMAIN req : Client(r)' = Client(r)
    BY <1>0 DEF Client
  <1>4. \A r \in DOMAIN req : req[r].pc \in Limiter =>
          bucket[Client(r)] \in Bucket /\ Busy(bucket[Client(r)], req[r], clock', ahead')
    <2> SUFFICES ASSUME NEW r \in DOMAIN req, req[r].pc \in Limiter
                 PROVE  bucket[Client(r)] \in Bucket /\ Busy(bucket[Client(r)], req[r], clock', ahead')
      OBVIOUS
    <2>1. /\ bucket[Client(r)] \in Bucket /\ Busy(bucket[Client(r)], req[r], clock, ahead)
          /\ req[r].now \in Nat
      BY InsideFacts
    <2> QED BY <1>2, <2>1 DEF Busy
  <1>5. \A c \in Clients : lock[c] = 0 => bucket[c] = NoBucket \/ Idle(bucket[c], clock', ahead')
    <2> SUFFICES ASSUME NEW c \in Clients, lock[c] = 0, bucket[c] # NoBucket
                 PROVE  Idle(bucket[c], clock', ahead')
      OBVIOUS
    <2>1. bucket[c] \in Bucket /\ Idle(bucket[c], clock, ahead)
      BY <1>0 DEF RateInv
    <2> QED BY <1>0, <1>2, <2>1
  <1>6. \A c \in Clients : lock[c] # 0 => Client(lock[c])' = c
    BY <1>0 DEF RateInv, Client
  <1> QED BY <1>0, <1>1, <1>3, <1>4, <1>5, <1>6 DEF RateInv

\* Expired entries go while nobody is inside.
LEMMA CleanupRate ==
    ASSUME Typed, RateInv, CleanupExpired
    PROVE  RateInv'
  <1>0. /\ UNCHANGED <<sc, req, lock, clock, ahead>> /\ Clients' = Clients
        /\ \A r \in DOMAIN req : req[r].pc \notin Limiter
        /\ bucket' = [c \in Clients |-> IF bucket[c] # NoBucket /\ ahead - bucket[c].access >= sc.ttl
                                        THEN NoBucket ELSE bucket[c]]
    BY DEF CleanupExpired, settings, Clients, Inside, Limiter
  <1>1. \A c \in Clients : bucket'[c] \in {NoBucket, bucket[c]}
    BY <1>0
  <1>2. bucket' \in [Clients -> Bucket \cup {NoBucket}]
    BY <1>0, <1>1 DEF RateInv
  <1>3. \A r : Client(r)' = Client(r)
    BY <1>0 DEF Client
  <1>4. \A c \in Clients : lock[c] # 0 => Client(lock[c])' = c
    BY <1>0 DEF RateInv, Client
  <1>5. \A c \in Clients : lock[c] = 0 => bucket'[c] = NoBucket \/ Idle(bucket'[c], clock, ahead)
    BY <1>1 DEF RateInv
  <1> QED BY <1>0, <1>2, <1>3, <1>4, <1>5 DEF RateInv

\* What touches neither the requests nor the buckets.
LEMMA ElsewhereRate ==
    ASSUME Typed, RateInv, UNCHANGED <<sc, registry, req, bucketVars, ptr>>, config' \in Configs
    PROVE  Typed' /\ RateInv'
  <1>1. Typed'
    BY DEF Typed
  <1>2. \A r : Client(r)' = Client(r)
    BY DEF Client
  <1>3. Clients' = Clients /\ UNCHANGED <<clock, ahead, bucket, lock>>
    BY DEF Clients, bucketVars
  <1>4. \A c \in Clients : lock[c] # 0 => Client(lock[c])' = c
    BY <1>3 DEF RateInv, Client
  <1>5. RateInv'
    BY <1>2, <1>3, <1>4 DEF RateInv
  <1> QED BY <1>1, <1>5

LEMMA InitRate == Init => Typed /\ RateInv
  <1> SUFFICES ASSUME Init PROVE Typed /\ RateInv
    OBVIOUS
  <1> DEFINE q0 == [pc |-> "match", route |-> <<>>, up |-> None, backend |-> 0, now |-> 0, last |-> 0,
                    seen |-> 0, healthy |-> {}, cur |-> 0, status |-> 0]
  <1>1. q0 \in Req /\ q0.pc = "match"
    <2>1. {} \in SUBSET Nat
      OBVIOUS
    <2> QED BY <2>1 DEF Req, Stages
  <1>2. Placed(q0)
    BY <1>1 DEF Placed
  <1>3. req = [r \in DOMAIN sc.requests |-> q0]
    BY DEF Init
  <1>4. /\ sc \in Scenarios /\ config \in Configs /\ registry = Registered
        /\ ptr = [u \in DOMAIN registry |-> 0] /\ clock = sc.clock /\ ahead = 0
        /\ bucket = [c \in Clients |-> NoBucket] /\ lock = [c \in Clients |-> 0]
    BY DEF Init, Configs, Registered
  <1> HIDE DEF q0
  <1>5. Typed
    <2>1. req \in [DOMAIN sc.requests -> Req]
      BY <1>1, <1>3
    <2>2. \A r \in DOMAIN req : Placed(req[r])
      BY <1>2, <1>3
    <2>3. ptr \in [DOMAIN registry -> Nat]
      BY <1>4
    <2> QED BY <1>4, <2>1, <2>2, <2>3 DEF Typed
  <1>6. RateInv
    <2>1. \A r \in DOMAIN req : req[r].pc \notin Limiter /\ Client(r) \in Clients /\ r # 0
      BY <1>1, <1>3, <1>5, ClientOf DEF Limiter
    <2>2. clock \in Nat /\ ahead \in Nat
      BY <1>4, TrafficAssumption
    <2>3. bucket \in [Clients -> Bucket \cup {NoBucket}] /\ lock \in [Clients -> DOMAIN req \cup {0}]
      BY <1>4
    <2>4. \A c \in Clients : lock[c] = 0 /\ bucket[c] = NoBucket
      BY <1>4
    <2> QED BY <2>1, <2>2, <2>3, <2>4 DEF RateInv
  <1> QED BY <1>5, <1>6

LEMMA NextRate == Typed /\ RateInv /\ [Next]_vars => Typed' /\ RateInv'
  <1> SUFFICES ASSUME Typed, RateInv, [Next]_vars PROVE Typed' /\ RateInv'
    OBVIOUS
  <1>0. config \in Configs
    BY DEF Typed
  <1>1. ASSUME NEW r \in DOMAIN req, Outside(r)
        PROVE  Typed' /\ RateInv'
    <2>1. PICK new : Goes(r, new)
      BY <1>1 DEF Outside
    <2>2. Typed'
      BY <1>1, <2>1, GoesTyped DEF Outside
    <2> QED BY <1>1, <2>2, OutsideRate
  <1>2. ASSUME NEW r \in DOMAIN req, RequestStep(r)
        PROVE  Typed' /\ RateInv'
    <2>1. CASE MatchRequest(r) \/ SelectBackend(r) \/ StorePtr(r) \/ BuildRequest(r) \/ TimesOut(r)
      <3>1. Outside(r)
        BY <2>1, MatchOutside, SelectOutside, StoreOutside, ExchangeOutside
      <3> QED BY <1>1, <3>1
    <2>2. CASE EnterBucket(r) \/ LoadBucket(r) \/ RefuseRequest(r) \/ StampRefill(r)
      BY <2>2, EnterRate, LoadRate, RefuseRate, StampRate
    <2> QED BY <1>2, <2>1, <2>2 DEF RequestStep
  <1>3. ASSUME NEW r \in DOMAIN req, TakeToken(r) \/ RetryToken(r)
        PROVE  Typed' /\ RateInv'
    BY <1>3, TakeRate, RetryRate
  <1>4. ASSUME NEW r \in DOMAIN req,
               \/ TunnelStep(r) \/ UpstreamSends(r) \/ UpstreamCloses(r)
               \/ ClientCloses(r) \/ ClientResets(r)
        PROVE  Typed' /\ RateInv'
    <2>1. OnlyTunnel
      BY <1>4 DEF TunnelStep, CopyToClient, ToClientEnds, ToUpstreamEnds, UpstreamSends, UpstreamCloses,
                  ClientCloses, ClientResets
    <2>2. UNCHANGED <<sc, registry, req, bucketVars, ptr>> /\ config' = config
      BY <2>1 DEF OnlyTunnel, settings, bucketVars
    <2> QED BY <1>0, <2>2, ElsewhereRate
  <1>5. ASSUME NEW r \in DOMAIN req, UpstreamAnswers(r) \/ UpstreamSwitches(r) \/ UpstreamRefuses(r)
        PROVE  Typed' /\ RateInv'
    <2>1. Outside(r)
      BY <1>5, ExchangeOutside
    <2> QED BY <1>1, <2>1
  <1>6. CASE Reconfigure
    <2>1. UNCHANGED <<sc, registry, req, bucketVars, ptr>> /\ config' \in Configs
      BY <1>6 DEF Reconfigure, Configs
    <2> QED BY <2>1, ElsewhereRate
  <1>7. CASE Tick \/ StepBack \/ CleanupExpired
    <2>1. UNCHANGED <<settings, req, ptr>>
      BY <1>7 DEF Tick, StepBack, CleanupExpired
    <2>2. Typed'
      BY <2>1 DEF Typed, settings
    <2> QED BY <1>7, <2>2, ClockRate, CleanupRate
  <1>8. CASE HealthStep
    <2>1. OnlyHealth
      BY <1>8 DEF HealthStep, BeginCheck, RegisterBackend, UnregisterBackend, UpdateHealth, FinishRegistration
    <2>2. UNCHANGED <<sc, registry, req, bucketVars, ptr>> /\ config' = config
      BY <2>1 DEF OnlyHealth, settings, bucketVars
    <2> QED BY <1>0, <2>2, ElsewhereRate
  <1>9. CASE UNCHANGED vars
    <2>1. UNCHANGED <<sc, registry, req, bucketVars, ptr>> /\ config' = config
      BY <1>9 DEF vars, bucketVars
    <2> QED BY <1>0, <2>1, ElsewhereRate
  <1>10. CASE Environment
    BY <1>4, <1>5, <1>6, <1>7, <1>10 DEF Environment
  <1> QED BY <1>2, <1>3, <1>4, <1>8, <1>9, <1>10 DEF Next

\* A bucket never grants more than its capacity and what its rate brings in the
\* time it has lived, however the callers of try_acquire_n interleave between its
\* two words and whatever the system clock does.
THEOREM RateKept == Spec => []GrantsWithinRate
  <1>1. Typed /\ RateInv => GrantsWithinRate
    <2> SUFFICES ASSUME Typed, RateInv, NEW c \in Clients, bucket[c] # NoBucket
                 PROVE  bucket[c].granted * Scale <= Earned(bucket[c], ahead)
      BY DEF GrantsWithinRate, Earned
    <2>1. bucket[c] \in Bucket /\ clock \in Nat /\ ahead \in Nat
      BY DEF RateInv
    <2>2. CASE lock[c] = 0
      BY <2>1, <2>2, LawBound DEF RateInv
    <2>3. CASE lock[c] # 0
      <3>1. lock[c] \in DOMAIN req /\ Client(lock[c]) = c
        BY <2>3 DEF RateInv
      <3>2. req[lock[c]].pc \in Limiter
        BY <3>1 DEF RateInv
      <3>3. Busy(bucket[c], req[lock[c]], clock, ahead) /\ req[lock[c]].now \in Nat
        BY <3>1, <3>2, InsideFacts
      <3> QED BY <2>1, <3>2, <3>3, LawBound DEF Busy, Limiter
    <2> QED BY <2>2, <2>3
  <1> QED BY <1>1, InitRate, NextRate, PTL DEF Spec

-----------------------------------------------------------------------------
(* Runs of outcomes *)

\* Some full run of failures has no full run of successes after it.
Sick(s) ==
    \E i \in DOMAIN s :
       /\ Run(s, i, UnhealthyThreshold, FALSE)
       /\ \A j \in 1..(i - 1) : ~(j + HealthyThreshold - 1 < i /\ Run(s, j, HealthyThreshold, TRUE))

\* The newest n outcomes are v, and the one before them is not.
Leads(s, n, v) ==
    /\ n \in Nat /\ n <= Len(s)
    /\ \A k \in 1..n : s[k] = v
    /\ n < Len(s) => s[n + 1] # v

\* An entry's counters and its verdict are those of the outcomes.
Counted(h, s) == Leads(s, h.succ, TRUE) /\ Leads(s, h.fail, FALSE) /\ (h.ok <=> ~Sick(s))

\* t is s with the outcome v before it.
Newer(t, v, s) ==
    /\ t \in Seq(BOOLEAN) /\ Len(t) = Len(s) + 1
    /\ t[1] = v /\ \A k \in 1..Len(s) : t[k + 1] = s[k]

LEMMA NewerIs ==
    ASSUME NEW s \in Seq(BOOLEAN), NEW v \in BOOLEAN
    PROVE  Newer(<<v>> \o s, v, s)
  <1>1. <<v>> \in Seq(BOOLEAN)
    OBVIOUS
  <1>2. <<v>> \o s \in Seq(BOOLEAN)
    BY <1>1
  <1>3. Len(<<v>> \o s) = Len(s) + 1
    BY <1>1
  <1>4. (<<v>> \o s)[1] = v
    BY <1>1
  <1>5. \A k \in 1..Len(s) : (<<v>> \o s)[k + 1] = s[k]
    BY <1>1
  <1> QED BY <1>2, <1>3, <1>4, <1>5 DEF Newer

LEMMA LeadsMore ==
    ASSUME NEW s \in Seq(BOOLEAN), NEW t, NEW v \in BOOLEAN, Newer(t, v, s), NEW n, Leads(s, n, v)
    PROVE  Leads(t, n + 1, v)
  <1> DEFINE m == Len(s)
  <1>0. /\ m \in Nat /\ n \in Nat /\ n <= m /\ Len(t) = m + 1 /\ t[1] = v
        /\ \A k \in 1..m : t[k + 1] = s[k]
    BY DEF Newer, Leads
  <1>1. \A k \in 1..(n + 1) : t[k] = v
    <2> SUFFICES ASSUME NEW k \in 1..(n + 1) PROVE t[k] = v
      OBVIOUS
    <2>1. CASE k = 1
      BY <1>0, <2>1
    <2>2. CASE k # 1
      <3>1. k - 1 \in 1..n /\ k - 1 \in 1..m /\ (k - 1) + 1 = k
        BY <1>0, <2>2
      <3>2. s[k - 1] = v
        BY <3>1 DEF Leads
      <3>3. t[(k - 1) + 1] = s[k - 1]
        BY <1>0, <3>1
      <3> QED BY <3>1, <3>2, <3>3
    <2> QED BY <2>1, <2>2
  <1>2. n + 1 < Len(t) => t[(n + 1) + 1] # v
    <2> SUFFICES ASSUME n + 1 < Len(t) PROVE t[(n + 1) + 1] # v
      OBVIOUS
    <2>1. n < m /\ n + 1 \in 1..m
      BY <1>0
    <2>2. s[n + 1] # v
      BY <2>1 DEF Leads
    <2> QED BY <1>0, <2>1, <2>2
  <1>3. n + 1 \in Nat /\ n + 1 <= Len(t)
    BY <1>0
  <1> QED BY <1>1, <1>2, <1>3 DEF Leads

LEMMA LeadsNone ==
    ASSUME NEW s \in Seq(BOOLEAN), NEW t, NEW v \in BOOLEAN, Newer(t, v, s), NEW w \in BOOLEAN, w # v
    PROVE  Leads(t, 0, w)
  <1>1. Len(t) \in Nat /\ t[0 + 1] = v /\ 1..0 = {}
    BY DEF Newer
  <1> QED BY <1>1 DEF Leads

\* A run of the older outcomes is the same run, one further.
LEMMA RunShift ==
    ASSUME NEW s \in Seq(BOOLEAN), NEW t, NEW v, Newer(t, v, s),
           NEW i \in Nat, i >= 1, NEW n \in Nat, NEW w
    PROVE  Run(t, i + 1, n, w) <=> Run(s, i, n, w)
  <1> DEFINE m == Len(s)
  <1>0. m \in Nat /\ Len(t) = m + 1 /\ \A k \in 1..m : t[k + 1] = s[k]
    BY DEF Newer
  <1>1. ((i + 1) + n - 1 <= Len(t)) <=> (i + n - 1 <= m)
    BY <1>0
  <1>2. ASSUME i + n - 1 <= m
        PROVE  (\A k \in (i + 1)..((i + 1) + n - 1) : t[k] = w) <=> (\A k \in i..(i + n - 1) : s[k] = w)
    <2>1. ASSUME \A k \in (i + 1)..((i + 1) + n - 1) : t[k] = w, NEW k \in i..(i + n - 1)
          PROVE  s[k] = w
      <3>1. k \in 1..m /\ k + 1 \in (i + 1)..((i + 1) + n - 1)
        BY <1>0, <1>2
      <3> QED BY <1>0, <2>1, <3>1
    <2>2. ASSUME \A k \in i..(i + n - 1) : s[k] = w, NEW k \in (i + 1)..((i + 1) + n - 1)
          PROVE  t[k] = w
      <3>1. k - 1 \in 1..m /\ k - 1 \in i..(i + n - 1) /\ (k - 1) + 1 = k
        BY <1>0, <1>2
      <3>2. t[(k - 1) + 1] = s[k - 1] /\ s[k - 1] = w
        BY <1>0, <2>2, <3>1
      <3> QED BY <3>1, <3>2
    <2> QED BY <2>1, <2>2
  <1> QED BY <1>1, <1>2 DEF Run

\* Whether the newest outcomes make a full run.
LEMMA RunFirst ==
    ASSUME NEW t \in Seq(BOOLEAN), NEW n, NEW v \in BOOLEAN, Leads(t, n, v), NEW m \in Nat
    PROVE  Run(t, 1, m, v) <=> m <= n
  <1>0. Len(t) \in Nat /\ n \in Nat /\ n <= Len(t)
    BY DEF Leads
  <1>1. ASSUME m <= n PROVE Run(t, 1, m, v)
    <2>1. 1 + m - 1 <= Len(t) /\ \A k \in 1..(1 + m - 1) : k \in 1..n
      BY <1>0, <1>1
    <2> QED BY <2>1 DEF Run, Leads
  <1>2. ASSUME ~(m <= n), Run(t, 1, m, v) PROVE FALSE
    <2>1. m <= Len(t) /\ n + 1 \in 1..(1 + m - 1) /\ n < Len(t)
      BY <1>0, <1>2 DEF Run
    <2>2. t[n + 1] = v
      BY <1>2, <2>1 DEF Run
    <2> QED BY <2>1, <2>2 DEF Leads
  <1> QED BY <1>1, <1>2

\* A run of something begins with it.
LEMMA RunStarts ==
    ASSUME NEW t, NEW i \in Nat, NEW n \in Nat \ {0}, NEW v, Run(t, i, n, v)
    PROVE  t[i] = v
  <1>1. i \in i..(i + n - 1)
    OBVIOUS
  <1> QED BY <1>1 DEF Run

LEMMA Thresholds == HealthyThreshold \in Nat \ {0} /\ UnhealthyThreshold \in Nat \ {0}
  BY TrafficAssumption

\* The older outcomes decide, unless the newest complete a run: what made s sick
\* is in t, and nothing newer undoes it.
LEMMA SickStays ==
    ASSUME NEW s \in Seq(BOOLEAN), NEW t, NEW v \in BOOLEAN, Newer(t, v, s), Sick(s),
           ~Run(t, 1, HealthyThreshold, TRUE)
    PROVE  Sick(t)
  <1> DEFINE U == UnhealthyThreshold
             H == HealthyThreshold
  <1>0. U \in Nat /\ H \in Nat /\ Len(s) \in Nat /\ Len(t) = Len(s) + 1 /\ t \in Seq(BOOLEAN)
    BY Thresholds DEF Newer
  <1>1. PICK i \in DOMAIN s :
          Run(s, i, U, FALSE) /\ \A j \in 1..(i - 1) : ~(j + H - 1 < i /\ Run(s, j, H, TRUE))
    BY DEF Sick
  <1> HIDE DEF U, H
  <1>2. i \in Nat /\ i >= 1 /\ i + 1 \in DOMAIN t
    BY <1>0, <1>1
  <1>3. Run(t, i + 1, U, FALSE)
    BY <1>0, <1>1, <1>2, RunShift
  <1>4. ASSUME NEW j \in 1..((i + 1) - 1), j + H - 1 < i + 1, Run(t, j, H, TRUE)
        PROVE  FALSE
    <2>1. j # 1
      BY <1>4 DEF H
    <2> DEFINE p == j - 1
    <2>2. p \in Nat /\ p >= 1 /\ p + 1 = j /\ p \in 1..(i - 1) /\ p + H - 1 < i
      BY <1>0, <1>2, <1>4, <2>1
    <2> HIDE DEF p
    <2>3. Run(t, p + 1, H, TRUE)
      BY <1>4, <2>2
    <2>4. Run(s, p, H, TRUE)
      BY <1>0, <2>2, <2>3, RunShift
    <2> QED BY <1>1, <2>2, <2>4
  <1> QED BY <1>2, <1>3, <1>4 DEF Sick, U, H

LEMMA WellStays ==
    ASSUME NEW s \in Seq(BOOLEAN), NEW t, NEW v \in BOOLEAN, Newer(t, v, s), Sick(t),
           ~Run(t, 1, UnhealthyThreshold, FALSE)
    PROVE  Sick(s)
  <1> DEFINE U == UnhealthyThreshold
             H == HealthyThreshold
  <1>0. U \in Nat /\ H \in Nat /\ Len(s) \in Nat /\ Len(t) = Len(s) + 1 /\ t \in Seq(BOOLEAN)
    BY Thresholds DEF Newer
  <1>1. PICK i \in DOMAIN t :
          Run(t, i, U, FALSE) /\ \A j \in 1..(i - 1) : ~(j + H - 1 < i /\ Run(t, j, H, TRUE))
    BY DEF Sick
  <1>2. i # 1
    BY <1>1
  <1> HIDE DEF U, H
  <1> DEFINE p == i - 1
  <1>3. p \in Nat /\ p >= 1 /\ p + 1 = i /\ p \in DOMAIN s
    BY <1>0, <1>1, <1>2
  <1> HIDE DEF p
  <1>4. Run(s, p, U, FALSE)
    BY <1>0, <1>1, <1>3, RunShift
  <1>5. ASSUME NEW j \in 1..(p - 1), j + H - 1 < p, Run(s, j, H, TRUE)
        PROVE  FALSE
    <2>1. j \in Nat /\ j >= 1 /\ j + 1 \in 1..(i - 1) /\ (j + 1) + H - 1 < i
      BY <1>0, <1>3, <1>5
    <2>2. Run(t, j + 1, H, TRUE)
      BY <1>0, <1>5, <2>1, RunShift
    <2> QED BY <1>1, <2>1, <2>2
  <1> QED BY <1>3, <1>4, <1>5 DEF Sick, U, H

\* A full run of successes heals.
LEMMA RunHeals ==
    ASSUME NEW t \in Seq(BOOLEAN), NEW n, Leads(t, n, TRUE), HealthyThreshold <= n
    PROVE  ~Sick(t)
  <1> DEFINE U == UnhealthyThreshold
             H == HealthyThreshold
  <1>0. U \in Nat \ {0} /\ H \in Nat \ {0} /\ n \in Nat /\ Len(t) \in Nat
    BY Thresholds DEF Leads
  <1>1. Run(t, 1, H, TRUE)
    BY <1>0, RunFirst
  <1> HIDE DEF U, H
  <1>2. ASSUME NEW i \in DOMAIN t, Run(t, i, U, FALSE)
        PROVE  1 \in 1..(i - 1) /\ 1 + H - 1 < i
    <2>1. i \in Nat /\ i >= 1 /\ t[i] = FALSE
      <3>1. i \in Nat /\ i >= 1
        BY <1>0
      <3>2. t[i] = FALSE
        BY <1>0, <1>2, <3>1, RunStarts
      <3> QED BY <3>1, <3>2
    <2>2. i \notin 1..n
      BY <2>1 DEF Leads
    <2>3. H <= n
      BY DEF H
    <2> QED BY <1>0, <2>1, <2>2, <2>3
  <1> QED BY <1>1, <1>2 DEF Sick, U, H

\* A full run of failures is not yet healed.
LEMMA RunSickens ==
    ASSUME NEW t \in Seq(BOOLEAN), Len(t) >= 1, Run(t, 1, UnhealthyThreshold, FALSE)
    PROVE  Sick(t)
  <1>1. 1 \in DOMAIN t /\ 1..(1 - 1) = {}
    OBVIOUS
  <1> QED BY <1>1 DEF Sick

\* update_health counts a success ...
LEMMA SuccessCounted ==
    ASSUME NEW s \in Seq(BOOLEAN), NEW t, Newer(t, TRUE, s), NEW h, Counted(h, s)
    PROVE  Counted(Successful(h), t)
  <1> DEFINE n == h.succ
             H == HealthyThreshold
             U == UnhealthyThreshold
  <1>0. n \in Nat /\ t \in Seq(BOOLEAN) /\ H \in Nat \ {0} /\ U \in Nat \ {0}
    BY Thresholds DEF Counted, Leads, Newer
  <1>1. Leads(t, n + 1, TRUE) /\ Leads(t, 0, FALSE)
    BY LeadsMore, LeadsNone DEF Counted
  <1>2. /\ Successful(h).succ = n + 1 /\ Successful(h).fail = 0
        /\ Successful(h).ok <=> h.ok \/ n + 1 >= H
    BY DEF Successful
  <1>3. ~Run(t, 1, U, FALSE)
    <2>1. ~(U <= 0) /\ U \in Nat
      BY <1>0
    <2> HIDE DEF U
    <2> QED BY <1>0, <1>1, <2>1, RunFirst
  <1>4. CASE n + 1 >= H
    <2>1. H <= n + 1
      BY <1>0, <1>4
    <2>2. ~Sick(t)
      BY <1>0, <1>1, <2>1, RunHeals
    <2> QED BY <1>1, <1>2, <1>4, <2>2 DEF Counted
  <1>5. CASE ~(n + 1 >= H)
    <2>1. ~(H <= n + 1)
      BY <1>0, <1>5
    <2>2. ~Run(t, 1, H, TRUE)
      BY <1>0, <1>1, <2>1, RunFirst
    <2>3. Sick(t) <=> Sick(s)
      BY <1>3, <2>2, SickStays, WellStays
    <2> QED BY <1>1, <1>2, <1>5, <2>3 DEF Counted
  <1> QED BY <1>4, <1>5

\* ... and a failure.
LEMMA FailureCounted ==
    ASSUME NEW s \in Seq(BOOLEAN), NEW t, Newer(t, FALSE, s), NEW h, Counted(h, s)
    PROVE  Counted(Failed(h), t)
  <1> DEFINE n == h.fail
             H == HealthyThreshold
             U == UnhealthyThreshold
  <1>0. n \in Nat /\ t \in Seq(BOOLEAN) /\ H \in Nat \ {0} /\ U \in Nat \ {0} /\ Len(s) \in Nat
    BY Thresholds DEF Counted, Leads, Newer
  <1>1. Leads(t, n + 1, FALSE) /\ Leads(t, 0, TRUE)
    BY LeadsMore, LeadsNone DEF Counted
  <1>2. /\ Failed(h).succ = 0 /\ Failed(h).fail = n + 1
        /\ Failed(h).ok <=> h.ok /\ n + 1 < U
    BY DEF Failed
  <1>3. ~Run(t, 1, H, TRUE)
    <2>1. ~(H <= 0) /\ H \in Nat
      BY <1>0
    <2> HIDE DEF H
    <2> QED BY <1>0, <1>1, <2>1, RunFirst
  <1>4. CASE n + 1 >= U
    <2>1. U <= n + 1 /\ ~(n + 1 < U)
      BY <1>0, <1>4
    <2>2. Len(t) >= 1
      BY <1>0 DEF Newer
    <2>3. Sick(t)
      BY <1>0, <1>1, <2>1, <2>2, RunFirst, RunSickens
    <2> QED BY <1>1, <1>2, <2>1, <2>3 DEF Counted
  <1>5. CASE ~(n + 1 >= U)
    <2>1. ~(U <= n + 1) /\ n + 1 < U
      BY <1>0, <1>5
    <2>2. ~Run(t, 1, U, FALSE)
      BY <1>0, <1>1, <2>1, RunFirst
    <2>3. Sick(t) <=> Sick(s)
      BY <1>3, <2>2, SickStays, WellStays
    <2> QED BY <1>1, <1>2, <2>1, <2>3 DEF Counted
  <1> QED BY <1>4, <1>5

LEMMA FreshCounted == Counted(DefaultHealth, <<>>)
  <1>1. Leads(<<>>, 0, TRUE) /\ Leads(<<>>, 0, FALSE)
    BY DEF Leads
  <1>2. ~Sick(<<>>)
    BY DEF Sick
  <1>3. DefaultHealth.ok = TRUE /\ DefaultHealth.succ = 0 /\ DefaultHealth.fail = 0
    BY DEF DefaultHealth
  <1> QED BY <1>1, <1>2, <1>3 DEF Counted

-----------------------------------------------------------------------------
(* The health checker *)

HealthRec == [ok : BOOLEAN, succ : Nat, fail : Nat]

\* The backend whose registration is half done.
Pending == IF op = <<>> THEN {} ELSE {op[2]}

\* What update_health finds of a backend.
Known(b) == IF b \in DOMAIN health THEN health[b] ELSE DefaultHealth

\* The entry a check is out for stays in the map, and every backend's health is
\* what was seen of it since it was registered.
HealthInv ==
    /\ backends \subseteq Backends /\ DOMAIN health \subseteq Backends
    /\ \A b \in DOMAIN health : health[b] \in HealthRec
    /\ streak \in [Backends -> Seq(BOOLEAN)]
    /\ checking = None \/ checking \in backends
    /\ op = <<>> \/ op \in {"register", "unregister"} \X Backends
    /\ op # <<>> /\ op[1] = "register" => op[2] \in backends
    /\ DOMAIN health \subseteq backends \cup Pending
    /\ \A b \in Backends \ Pending : Counted(Known(b), streak[b])

LEMMA DefaultIsHealth == DefaultHealth \in HealthRec
  BY DEF DefaultHealth, HealthRec

LEMMA InitHealth == Init => HealthInv
  <1> SUFFICES ASSUME Init PROVE HealthInv
    OBVIOUS
  <1>1. /\ backends = sc.registered /\ health = [b \in sc.registered |-> DefaultHealth]
        /\ streak = [b \in Backends |-> <<>>] /\ checking = None /\ op = <<>>
        /\ sc \in Scenarios
    BY DEF Init
  <1>2. backends \subseteq Backends /\ DOMAIN health = backends
    BY <1>1, TrafficAssumption
  <1>3. \A b \in DOMAIN health : health[b] \in HealthRec
    BY <1>1, DefaultIsHealth
  <1>4. streak \in [Backends -> Seq(BOOLEAN)]
    <2>1. <<>> \in Seq(BOOLEAN)
      OBVIOUS
    <2> QED BY <1>1, <2>1
  <1>5. \A b \in Backends : Known(b) = DefaultHealth /\ streak[b] = <<>>
    BY <1>1 DEF Known
  <1>6. \A b \in Backends : Counted(Known(b), streak[b])
    BY <1>5, FreshCounted
  <1>7. DOMAIN health \subseteq backends \cup Pending
    BY <1>2
  <1> QED BY <1>1, <1>2, <1>3, <1>4, <1>6, <1>7 DEF HealthInv

LEMMA HealthAlone ==
    ASSUME HealthInv, UNCHANGED healthVars
    PROVE  HealthInv'
  BY DEF HealthInv, healthVars, Pending, Known

LEMMA BeginHealth ==
    ASSUME HealthInv, NEW b \in Backends, BeginCheck(b)
    PROVE  HealthInv'
  <1>1. checking' = b /\ b \in backends /\ UNCHANGED <<backends, health, streak, op>>
    BY DEF BeginCheck
  <1>2. Pending' = Pending /\ \A x : Known(x)' = Known(x)
    BY <1>1 DEF Pending, Known
  <1> QED BY <1>1, <1>2 DEF HealthInv

LEMMA RegisterHealth ==
    ASSUME HealthInv, NEW b \in Backends, RegisterBackend(b) \/ UnregisterBackend(b)
    PROVE  HealthInv'
  <1>0. op = <<>> /\ UNCHANGED <<health, streak, checking>>
    BY DEF RegisterBackend, UnregisterBackend
  <1>1. op' \in {"register", "unregister"} \X Backends /\ op'[2] = b /\ op' # <<>>
    BY DEF RegisterBackend, UnregisterBackend
  <1>2. /\ op'[1] = "register" => b \in backends'
        /\ backends' \subseteq Backends
        /\ backends \subseteq backends' \cup {b}
    BY DEF RegisterBackend, UnregisterBackend, HealthInv
  <1>3. checking' = None \/ checking' \in backends'
    <2>1. checking # None => checking # b
      BY DEF RegisterBackend, UnregisterBackend, Free
    <2> QED BY <1>0, <1>2, <2>1 DEF HealthInv
  <1>4. Pending = {} /\ Pending' = {b} /\ \A x : Known(x)' = Known(x)
    BY <1>0, <1>1 DEF Pending, Known
  <1>5. DOMAIN health' \subseteq backends' \cup Pending'
    BY <1>0, <1>2, <1>4 DEF HealthInv
  <1>6. \A x \in Backends \ Pending' : Counted(Known(x)', streak'[x])
    BY <1>0, <1>4 DEF HealthInv
  <1>7. /\ DOMAIN health' \subseteq Backends /\ streak' \in [Backends -> Seq(BOOLEAN)]
        /\ \A x \in DOMAIN health' : health'[x] \in HealthRec
    BY <1>0 DEF HealthInv
  <1> QED BY <1>1, <1>2, <1>3, <1>5, <1>6, <1>7 DEF HealthInv

LEMMA FinishHealth ==
    ASSUME HealthInv, FinishRegistration
    PROVE  HealthInv'
  <1>p. PICK b : b = op[2]
    OBVIOUS
  <1>0. /\ op \in {"register", "unregister"} \X Backends /\ op # <<>> /\ op' = <<>>
        /\ UNCHANGED <<backends, checking>> /\ streak' = [streak EXCEPT ![b] = <<>>]
        /\ health' = IF op[1] = "register"
                     THEN [x \in DOMAIN health \cup {b} |-> IF x = b THEN DefaultHealth ELSE health[x]]
                     ELSE [x \in DOMAIN health \ {b} |-> health[x]]
    BY <1>p DEF FinishRegistration, HealthInv
  <1>1. Pending = {b} /\ Pending' = {} /\ b \in Backends
    BY <1>p, <1>0 DEF Pending
  <1>2. /\ DOMAIN health' \subseteq backends' \cup Pending'
        /\ DOMAIN health' \subseteq Backends
    <2>1. CASE op[1] = "register"
      <3>1. DOMAIN health' = DOMAIN health \cup {b} /\ b \in backends
        BY <1>p, <1>0, <2>1 DEF HealthInv
      <3> QED BY <1>0, <1>1, <3>1 DEF HealthInv
    <2>2. CASE op[1] # "register"
      <3>1. DOMAIN health' = DOMAIN health \ {b}
        BY <1>0, <2>2
      <3> QED BY <1>0, <1>1, <3>1 DEF HealthInv
    <2> QED BY <2>1, <2>2
  <1>3. /\ \A x \in Backends : x # b => Known(x)' = Known(x)
        /\ Known(b)' = DefaultHealth
    <2>1. CASE op[1] = "register"
      <3>1. DOMAIN health' = DOMAIN health \cup {b} /\ health'[b] = DefaultHealth
            /\ \A x \in DOMAIN health : x # b => health'[x] = health[x]
        BY <1>0, <2>1
      <3> QED BY <3>1 DEF Known
    <2>2. CASE op[1] # "register"
      <3>1. DOMAIN health' = DOMAIN health \ {b}
            /\ \A x \in DOMAIN health : x # b => health'[x] = health[x]
        BY <1>0, <2>2
      <3> QED BY <3>1 DEF Known
    <2> QED BY <2>1, <2>2
  <1>4. \A x \in DOMAIN health' : health'[x] \in HealthRec
    BY <1>0, DefaultIsHealth DEF HealthInv
  <1>5. streak' \in [Backends -> Seq(BOOLEAN)] /\ streak'[b] = <<>>
        /\ \A x \in Backends : x # b => streak'[x] = streak[x]
    <2>1. <<>> \in Seq(BOOLEAN) /\ streak \in [Backends -> Seq(BOOLEAN)]
      BY DEF HealthInv
    <2> QED BY <1>0, <1>1, <2>1
  <1>6. \A x \in Backends : Counted(Known(x)', streak'[x])
    <2> TAKE x \in Backends
    <2>1. CASE x = b
      BY <1>3, <1>5, <2>1, FreshCounted
    <2>2. CASE x # b
      <3>1. Counted(Known(x), streak[x])
        BY <1>1, <2>2 DEF HealthInv
      <3>2. Known(x)' = Known(x) /\ streak'[x] = streak[x]
        BY <1>3, <1>5, <2>2
      <3> QED BY <3>1, <3>2
    <2> QED BY <2>1, <2>2
  <1>7. checking' = None \/ checking' \in backends'
    BY <1>0 DEF HealthInv
  <1>8. backends' \subseteq Backends
    BY <1>0 DEF HealthInv
  <1> QED BY <1>0, <1>1, <1>2, <1>4, <1>5, <1>6, <1>7, <1>8 DEF HealthInv

LEMMA UpdateHealthInv ==
    ASSUME HealthInv, NEW success \in BOOLEAN, UpdateHealth(success)
    PROVE  HealthInv'
  <1>p. PICK b : b = checking
    OBVIOUS
  <1> DEFINE h == Known(b)
             after == IF success THEN Successful(h) ELSE Failed(h)
  <1>0. /\ b \in backends /\ b \in Backends /\ b # None /\ checking' = None
        /\ UNCHANGED <<backends, op>> /\ streak' = [streak EXCEPT ![b] = <<success>> \o streak[b]]
        /\ health' = [x \in DOMAIN health \cup {b} |-> IF x = b THEN after ELSE health[x]]
        /\ streak \in [Backends -> Seq(BOOLEAN)] /\ streak[b] \in Seq(BOOLEAN)
    <2>1. b # None /\ b \in backends /\ b \in Backends
      BY <1>p DEF UpdateHealth, HealthInv
    <2>2. checking' = None /\ UNCHANGED <<backends, op>>
      BY DEF UpdateHealth
    <2>3. streak \in [Backends -> Seq(BOOLEAN)] /\ streak[b] \in Seq(BOOLEAN)
      BY <2>1 DEF HealthInv
    <2>4. streak' = [streak EXCEPT ![b] = <<success>> \o streak[b]]
      BY <1>p, <2>1, <2>3 DEF UpdateHealth
    <2>5. health' = [x \in DOMAIN health \cup {b} |-> IF x = b THEN after ELSE health[x]]
      BY <1>p DEF UpdateHealth, Known
    <2> QED BY <2>1, <2>2, <2>3, <2>4, <2>5
  <1>1. h \in HealthRec
    BY <1>0, DefaultIsHealth DEF Known, HealthInv
  <1>2. after \in HealthRec
    <2>1. h.ok \in BOOLEAN /\ h.succ \in Nat /\ h.fail \in Nat
      BY <1>1 DEF HealthRec
    <2> DEFINE m == h.succ + 1
               n == h.fail + 1
    <2>2. m \in Nat /\ n \in Nat /\ (h.ok \/ m >= HealthyThreshold) \in BOOLEAN
          /\ (h.ok /\ n < UnhealthyThreshold) \in BOOLEAN
      BY <2>1
    <2>3. Successful(h) = [ok |-> h.ok \/ m >= HealthyThreshold, succ |-> m, fail |-> 0]
      BY DEF Successful
    <2>4. Failed(h) = [ok |-> h.ok /\ n < UnhealthyThreshold, succ |-> 0, fail |-> n]
      BY DEF Failed
    <2> HIDE DEF m, n, h
    <2>5. Successful(h) \in HealthRec
      BY <2>2, <2>3 DEF HealthRec
    <2>6. Failed(h) \in HealthRec
      BY <2>2, <2>4 DEF HealthRec
    <2> QED BY <2>5, <2>6
  <1> DEFINE s == streak[b]
             t == <<success>> \o s
  <1>3. Newer(t, success, s) /\ t \in Seq(BOOLEAN)
    BY <1>0, NewerIs DEF Newer
  <1>4. Counted(h, s) => Counted(after, t)
    <2>1. s \in Seq(BOOLEAN)
      BY <1>0
    <2>2. success = TRUE => after = Successful(h)
      OBVIOUS
    <2>3. success = FALSE => after = Failed(h)
      OBVIOUS
    <2> HIDE DEF h, s, t, after
    <2>4. CASE success = TRUE
      <3>1. Newer(t, TRUE, s)
        BY <1>3, <2>4
      <3>2. Counted(h, s) => Counted(Successful(h), t)
        BY <2>1, <3>1, SuccessCounted
      <3> QED BY <2>2, <2>4, <3>2
    <2>5. CASE success = FALSE
      <3>1. Newer(t, FALSE, s)
        BY <1>3, <2>5
      <3>2. Counted(h, s) => Counted(Failed(h), t)
        BY <2>1, <3>1, FailureCounted
      <3> QED BY <2>3, <2>5, <3>2
    <2> QED BY <2>4, <2>5
  <1> HIDE DEF h, after, t
  <1>5. /\ Known(b)' = after /\ Pending' = Pending
        /\ \A x \in Backends : x # b => Known(x)' = Known(x)
    <2>1. \A x : Known(x)' = IF x \in DOMAIN health' THEN health'[x] ELSE DefaultHealth
      BY DEF Known
    <2>2. DOMAIN health' = DOMAIN health \cup {b} /\ health'[b] = after
          /\ \A x \in DOMAIN health : x # b => health'[x] = health[x]
      BY <1>0
    <2>3. Pending' = Pending
      BY <1>0 DEF Pending
    <2>4. Known(b)' = after
      BY <1>0, <2>2 DEF Known
    <2>5. \A x \in Backends : x # b => Known(x)' = Known(x)
      BY <2>2 DEF Known
    <2> QED BY <2>3, <2>4, <2>5
  <1>6. /\ streak' \in [Backends -> Seq(BOOLEAN)] /\ streak'[b] = t
        /\ \A x \in Backends : x # b => streak'[x] = streak[x]
    <2>1. streak' = [streak EXCEPT ![b] = t]
      BY <1>0 DEF t
    <2> QED BY <1>0, <1>3, <2>1
  <1>7. \A x \in Backends \ Pending' : Counted(Known(x)', streak'[x])
    <2> TAKE x \in Backends \ Pending'
    <2>1. Counted(Known(x), streak[x])
      BY <1>5 DEF HealthInv
    <2>2. CASE x = b
      <3>1. Counted(h, s)
        BY <2>1, <2>2 DEF h
      <3> QED BY <1>4, <1>5, <1>6, <2>2, <3>1
    <2>3. CASE x # b
      BY <1>5, <1>6, <2>1, <2>3
    <2> QED BY <2>2, <2>3
  <1>8. /\ DOMAIN health' = DOMAIN health \cup {b}
        /\ \A x \in DOMAIN health' : health'[x] \in HealthRec
    BY <1>0, <1>2 DEF HealthInv
  <1>9. DOMAIN health' \subseteq backends' \cup Pending' /\ DOMAIN health' \subseteq Backends
    BY <1>0, <1>5, <1>8 DEF HealthInv
  <1>10. /\ backends' \subseteq Backends /\ checking' = None
         /\ op' = <<>> \/ op' \in {"register", "unregister"} \X Backends
         /\ op' # <<>> /\ op'[1] = "register" => op'[2] \in backends'
    BY <1>0 DEF HealthInv
  <1> QED BY <1>6, <1>7, <1>8, <1>9, <1>10 DEF HealthInv

LEMMA NextHealth == HealthInv /\ [Next]_vars => HealthInv'
  <1> SUFFICES ASSUME HealthInv, [Next]_vars PROVE HealthInv'
    OBVIOUS
  <1>1. CASE \E r \in DOMAIN req : RequestStep(r) \/ TakeToken(r) \/ RetryToken(r) \/ TunnelStep(r)
    <2>1. UNCHANGED healthVars
      BY <1>1, ZenonT(120) DEF RequestStep, MatchRequest, EnterBucket, LoadBucket, RefuseRequest, StampRefill, SelectBackend,
                  StorePtr, BuildRequest, TimesOut, TakeToken, RetryToken, TunnelStep, CopyToClient,
                  ToClientEnds, ToUpstreamEnds, OnlyTunnel
    <2> QED BY <2>1, HealthAlone
  <1>2. CASE Environment
    <2>1. UNCHANGED healthVars
      BY <1>2 DEF Environment, Reconfigure, Tick, StepBack, CleanupExpired, UpstreamAnswers, UpstreamSwitches,
                  UpstreamRefuses, UpstreamSends, UpstreamCloses, ClientCloses, ClientResets, OnlyTunnel
    <2> QED BY <2>1, HealthAlone
  <1>3. CASE HealthStep
    BY <1>3, BeginHealth, RegisterHealth, FinishHealth, UpdateHealthInv DEF HealthStep
  <1>4. CASE UNCHANGED vars
    <2>1. UNCHANGED healthVars
      BY <1>4 DEF vars, healthVars
    <2> QED BY <2>1, HealthAlone
  <1> QED BY <1>1, <1>2, <1>3, <1>4 DEF Next

\* A backend is out of rotation exactly when a full run of failures has not been
\* followed by a full run of successes; no entry outlives its registration; and a
\* request goes to a backend that was unhealthy only when all were.  This holds
\* for any thresholds and backends, with checks, registrations and requests in
\* any order.
THEOREM HealthKept == Spec => []HealthIsKept
  <1>1. HealthInv => HealthFollowsRuns
    <2> SUFFICES ASSUME HealthInv, NEW b \in DOMAIN health \ {op[i] : i \in DOMAIN op}
                 PROVE  health[b].ok <=> ~Sick(streak[b])
      BY DEF HealthFollowsRuns, Sick
    <2>1. b \in Backends /\ b \notin Pending
      <3>1. op # <<>> => 2 \in DOMAIN op
        BY DEF HealthInv
      <3> QED BY <3>1 DEF HealthInv, Pending
    <2>2. Counted(health[b], streak[b])
      BY <2>1 DEF HealthInv, Known
    <2> QED BY <2>2 DEF Counted
  <1>2. HealthInv => NoHealthWithoutBackend
    <2> SUFFICES ASSUME HealthInv PROVE NoHealthWithoutBackend
      OBVIOUS
    <2>1. op # <<>> => 2 \in DOMAIN op
      BY DEF HealthInv
    <2>2. Pending \subseteq {op[i] : i \in DOMAIN op}
      BY <2>1 DEF Pending
    <2> QED BY <2>2 DEF HealthInv, NoHealthWithoutBackend
  <1>3. Typed => SickOnlyWhenAllAre
    BY DEF Typed, Placed, SickOnlyWhenAllAre
  <1>4. Typed /\ HealthInv => HealthIsKept
    BY <1>1, <1>2, <1>3 DEF HealthIsKept
  <1> QED BY <1>4, InitRate, NextRate, InitHealth, NextHealth, PTL DEF Spec

-----------------------------------------------------------------------------
(* The message for the upstream.                                           *)

\* A value of X-Forwarded-For that names c last.
EndsIn(s, c) == s[Len(s)] = c

LEMMA AppendedLast ==
    ASSUME NEW s, IsList(s), NEW c
    PROVE  EndsIn(s \o <<c>>, c)
  <1> DEFINE S == {s[i] : i \in DOMAIN s} \cup {c}
  <1>1. s \in Seq(S) /\ <<c>> \in Seq(S)
    <2>1. s \in Seq({s[i] : i \in DOMAIN s})
      BY DEF IsList
    <2>2. DOMAIN s = 1..Len(s) /\ Len(s) \in Nat
      BY <2>1
    <2>3. \A i \in 1..Len(s) : s[i] \in S
      BY <2>2
    <2> QED BY <2>1, <2>2, <2>3
  <1>2. Len(s \o <<c>>) = Len(s) + 1 /\ (s \o <<c>>)[Len(s) + 1] = c
    <2> HIDE DEF S
    <2> QED BY <1>1
  <1> QED BY <1>2 DEF EndsIn

LEMMA AppendedToNothing == ASSUME NEW c PROVE EndsIn(<<>> \o <<c>>, c)
  <1>1. IsList(<<>>)
    BY DEF IsList
  <1> QED BY <1>1, AppendedLast

\* strip_hop_by_hop_headers leaves none of them, whatever else Connection names.
LEMMA StripIs ==
    ASSUME NEW h
    PROVE  /\ DOMAIN StripHopByHop(h) \cap HopByHop = {}
           /\ DOMAIN StripHopByHop(h) \subseteq DOMAIN h
           /\ \A m \in DOMAIN StripHopByHop(h) : StripHopByHop(h)[m] = h[m]
  BY DEF StripHopByHop, Without

ProxyHeaders == {"x-forwarded-for", "x-real-ip", "x-forwarded-proto", "x-forwarded-host"}

LEMMA AddIs ==
    ASSUME NEW h, NEW q,
           "x-forwarded-for" \in DOMAIN h => IsList(h["x-forwarded-for"])
    PROVE  /\ DOMAIN AddForwardingHeaders(h, q) \subseteq DOMAIN h \cup ProxyHeaders
           /\ "x-forwarded-for" \in DOMAIN AddForwardingHeaders(h, q)
           /\ EndsIn(AddForwardingHeaders(h, q)["x-forwarded-for"], q.client)
  <1> DEFINE f == "x-forwarded-for"
             v == (IF f \in DOMAIN h THEN h[f] ELSE <<>>) \o <<q.client>>
             h1 == Set(h, f, v)
             h2 == IF "x-real-ip" \in DOMAIN h1 THEN h1 ELSE Set(h1, "x-real-ip", q.client)
             h3 == Set(h2, "x-forwarded-proto", q.proto)
             host == IF "host" \in DOMAIN h THEN h["host"] ELSE q.authority
             h4 == IF host = <<>> THEN h3 ELSE Set(h3, "x-forwarded-host", host)
  <1>1. AddForwardingHeaders(h, q) = h4
    BY DEF AddForwardingHeaders
  <1>2. EndsIn(v, q.client)
    <2>1. CASE f \in DOMAIN h
      <3>1. v = h[f] \o <<q.client>>
        BY <2>1
      <3> QED BY <2>1, <3>1, AppendedLast
    <2>2. CASE f \notin DOMAIN h
      <3>1. v = <<>> \o <<q.client>>
        BY <2>2
      <3> QED BY <3>1, AppendedToNothing
    <2> QED BY <2>1, <2>2
  <1> HIDE DEF v
  <1>3. DOMAIN h1 = DOMAIN h \cup {f} /\ h1[f] = v
    BY DEF Set
  <1> HIDE DEF h1
  <1>4. DOMAIN h2 \subseteq DOMAIN h \cup ProxyHeaders /\ f \in DOMAIN h2 /\ h2[f] = v
    <2>1. CASE "x-real-ip" \in DOMAIN h1
      BY <1>3, <2>1 DEF ProxyHeaders
    <2>2. CASE "x-real-ip" \notin DOMAIN h1
      <3>1. h2 = Set(h1, "x-real-ip", q.client) /\ f # "x-real-ip"
        BY <2>2
      <3> HIDE DEF h2
      <3> QED BY <1>3, <3>1 DEF ProxyHeaders, Set
    <2> QED BY <2>1, <2>2
  <1> HIDE DEF h2
  <1>5. DOMAIN h3 \subseteq DOMAIN h \cup ProxyHeaders /\ f \in DOMAIN h3 /\ h3[f] = v
    <2>1. f # "x-forwarded-proto"
      OBVIOUS
    <2> QED BY <1>4, <2>1 DEF ProxyHeaders, Set
  <1> HIDE DEF h3, host
  <1>6. DOMAIN h4 \subseteq DOMAIN h \cup ProxyHeaders /\ f \in DOMAIN h4 /\ h4[f] = v
    <2>1. f # "x-forwarded-host"
      OBVIOUS
    <2>2. CASE host = <<>>
      BY <1>5, <2>2
    <2>3. CASE host # <<>>
      BY <1>5, <2>1, <2>3 DEF ProxyHeaders, Set
    <2> QED BY <2>2, <2>3
  <1> QED BY <1>1, <1>2, <1>6

\* What is said of the headers h that go out for q under the route.
Mine(route) == DOMAIN route.add \cup route.remove
Tidy(h, q, route, pair) ==
    /\ DOMAIN h \cap HopByHop \subseteq Mine(route) \cup pair
    /\ "x-forwarded-for" \notin Mine(route) =>
         "x-forwarded-for" \in DOMAIN h /\ EndsIn(h["x-forwarded-for"], q.client)

LEMMA RouteHeadersAre ==
    ASSUME NEW h, NEW route
    PROVE  /\ DOMAIN ApplyRouteHeaders(h, route) = (DOMAIN h \cup DOMAIN route.add) \ route.remove
           /\ \A m \in DOMAIN h : m \notin Mine(route) => ApplyRouteHeaders(h, route)[m] = h[m]
  <1> DEFINE g == [n \in DOMAIN h \cup DOMAIN route.add |-> IF n \in DOMAIN route.add THEN route.add[n] ELSE h[n]]
  <1>1. DOMAIN g = DOMAIN h \cup DOMAIN route.add /\ \A m \in DOMAIN h : m \notin DOMAIN route.add => g[m] = h[m]
    OBVIOUS
  <1>2. ApplyRouteHeaders(h, route) = Without(g, route.remove)
    BY DEF ApplyRouteHeaders
  <1> HIDE DEF g
  <1> QED BY <1>1, <1>2 DEF Mine, Without

LEMMA SetTidy ==
    ASSUME NEW h, NEW q, NEW route, NEW pair, Tidy(h, q, route, pair), NEW n, NEW v, n # "x-forwarded-for"
    PROVE  /\ n \notin HopByHop => Tidy(Set(h, n, v), q, route, pair)
           /\ n \in pair => Tidy(Set(h, n, v), q, route, pair)
  BY DEF Tidy, Set

LEMMA PreparedTidy ==
    ASSUME NEW q, NEW route, NEW backend,
           "x-forwarded-for" \in DOMAIN q.headers => IsList(q.headers["x-forwarded-for"])
    PROVE  /\ Tidy(Prepared(q, route, backend).headers, q, route, {})
           /\ Prepared(q, route, backend).headers["host"] = backend.address
  <1> DEFINE s == StripHopByHop(q.headers)
             a == AddForwardingHeaders(s, q)
             p == ApplyRouteHeaders(a, route)
  <1>1. Prepared(q, route, backend).headers = Set(p, "host", backend.address)
    BY DEF Prepared
  <1>2. /\ DOMAIN s \cap HopByHop = {}
        /\ "x-forwarded-for" \in DOMAIN s => IsList(s["x-forwarded-for"])
    BY StripIs
  <1> HIDE DEF s
  <1>3. /\ DOMAIN a \cap HopByHop = {}
        /\ "x-forwarded-for" \in DOMAIN a /\ EndsIn(a["x-forwarded-for"], q.client)
    <2>1. ProxyHeaders \cap HopByHop = {}
      BY DEF ProxyHeaders, HopByHop
    <2> QED BY <1>2, <2>1, AddIs
  <1> HIDE DEF a
  <1>4. Tidy(p, q, route, {})
    <2>1. DOMAIN p = (DOMAIN a \cup DOMAIN route.add) \ route.remove
      BY RouteHeadersAre
    <2>2. \A m \in DOMAIN a : m \notin Mine(route) => p[m] = a[m]
      BY RouteHeadersAre
    <2> HIDE DEF p
    <2> QED BY <1>3, <2>1, <2>2 DEF Tidy, Mine
  <1> HIDE DEF p
  <1>5. "host" \notin HopByHop /\ "host" # "x-forwarded-for"
    BY DEF HopByHop
  <1> QED BY <1>1, <1>4, <1>5, SetTidy DEF Set

Pair == {"upgrade", "connection"}

LEMMA WiderPair ==
    ASSUME NEW h, NEW q, NEW route, NEW pair, Tidy(h, q, route, {})
    PROVE  Tidy(h, q, route, pair)
  BY DEF Tidy

LEMMA MessageFields ==
    ASSUME NEW a, NEW b, NEW c, NEW d, NEW v
    PROVE  /\ [[headers |-> a, path |-> b, version |-> c] EXCEPT !.version = v].headers = a
           /\ [[headers |-> a, path |-> b, version |-> c] EXCEPT !.headers = d, !.version = v].headers = d
  OBVIOUS

LEMMA PreparedFields ==
    ASSUME NEW q, NEW route, NEW backend, NEW d, NEW v
    PROVE  /\ [Prepared(q, route, backend) EXCEPT !.version = v].headers = Prepared(q, route, backend).headers
           /\ [Prepared(q, route, backend) EXCEPT !.headers = d, !.version = v].headers = d
  BY MessageFields DEF Prepared

\* Each of the three carriers keeps the message tidy.
LEMMA PlainTidy ==
    ASSUME NEW q, NEW route, NEW backend,
           "x-forwarded-for" \in DOMAIN q.headers => IsList(q.headers["x-forwarded-for"])
    PROVE  /\ Tidy(Forwarded(q, route, backend).headers, q, route, {})
           /\ Forwarded(q, route, backend).headers["host"] = backend.address
  <1>1. Forwarded(q, route, backend).headers = Prepared(q, route, backend).headers
    BY PreparedFields DEF Forwarded
  <1> QED BY <1>1, PreparedTidy

LEMMA UpgradeTidy ==
    ASSUME NEW q, NEW route, NEW backend,
           "x-forwarded-for" \in DOMAIN q.headers => IsList(q.headers["x-forwarded-for"])
    PROVE  /\ Tidy(RestoreUpgradeHeaders(q, route, backend).headers, q, route, Pair)
           /\ RestoreUpgradeHeaders(q, route, backend).headers["host"] = backend.address
  <1> DEFINE h == Prepared(q, route, backend).headers
             u == UpgradeProtocol(q)
             h1 == Set(h, "upgrade", u)
             h2 == Set(h1, "connection", {"upgrade"})
  <1>1. RestoreUpgradeHeaders(q, route, backend).headers = h2
    BY PreparedFields DEF RestoreUpgradeHeaders
  <1>2. Tidy(h, q, route, Pair) /\ h["host"] = backend.address /\ "host" \in DOMAIN h
    <2>1. "host" \in DOMAIN h
      BY DEF Prepared, Set
    <2> HIDE DEF h
    <2>2. Tidy(h, q, route, {}) /\ h["host"] = backend.address
      BY PreparedTidy DEF h
    <2> QED BY <2>1, <2>2, WiderPair
  <1> HIDE DEF h, u
  <1>3. Tidy(h1, q, route, Pair) /\ h1["host"] = backend.address /\ "host" \in DOMAIN h1
    <2>1. "upgrade" # "x-forwarded-for" /\ "upgrade" \in Pair
      BY DEF Pair
    <2>2. Tidy(h1, q, route, Pair)
      BY <1>2, <2>1, SetTidy
    <2> QED BY <1>2, <2>2 DEF Set
  <1> HIDE DEF h1
  <1>4. Tidy(h2, q, route, Pair) /\ h2["host"] = backend.address
    <2>1. "connection" # "x-forwarded-for" /\ "connection" \in Pair
      BY DEF Pair
    <2>2. Tidy(h2, q, route, Pair)
      BY <1>3, <2>1, SetTidy
    <2> QED BY <1>3, <2>2 DEF Set
  <1> QED BY <1>1, <1>4

LEMMA ConnectTidy ==
    ASSUME NEW q, NEW route, NEW backend,
           "x-forwarded-for" \in DOMAIN q.headers => IsList(q.headers["x-forwarded-for"])
    PROVE  /\ Tidy(H2WebSocketRequest(q, route, backend).headers, q, route, Pair)
           /\ H2WebSocketRequest(q, route, backend).headers["host"] = backend.address
  <1> DEFINE h == Prepared(q, route, backend).headers
             names == {"host", "upgrade", "connection", "sec-websocket-key", "sec-websocket-version"}
             own == [n \in names |->
                       CASE n = "host" -> backend.address
                         [] n = "upgrade" -> H2ConnectProtocol(q)
                         [] n = "connection" -> {"upgrade"}
                         [] OTHER -> n]
             h1 == [n \in DOMAIN h \cup DOMAIN own |-> IF n \in DOMAIN own THEN own[n] ELSE h[n]]
  <1>1. H2WebSocketRequest(q, route, backend).headers = h1
    BY PreparedFields DEF H2WebSocketRequest
  <1>2. Tidy(h, q, route, {})
    BY PreparedTidy
  <1>3. DOMAIN own = names /\ own["host"] = backend.address
    OBVIOUS
  <1> HIDE DEF h, own
  <1>4. /\ DOMAIN h1 = DOMAIN h \cup names /\ h1["host"] = backend.address
        /\ "x-forwarded-for" \in DOMAIN h => h1["x-forwarded-for"] = h["x-forwarded-for"]
    BY <1>3
  <1> HIDE DEF h1
  <1>5. names \cap HopByHop \subseteq Pair
    BY DEF HopByHop, Pair
  <1>6. Tidy(h1, q, route, Pair)
    BY <1>2, <1>4, <1>5 DEF Tidy
  <1> QED BY <1>1, <1>4, <1>6

LEMMA OutboundTidy ==
    ASSUME NEW q, NEW route, NEW backend,
           "x-forwarded-for" \in DOMAIN q.headers => IsList(q.headers["x-forwarded-for"])
    PROVE  /\ Tidy(Outbound(q, route, backend).headers, q, route, IF Carrier(q) = "plain" THEN {} ELSE Pair)
           /\ Outbound(q, route, backend).headers["host"] = backend.address
  <1>1. CASE Carrier(q) = "connect"
    <2>1. Outbound(q, route, backend) = H2WebSocketRequest(q, route, backend) /\ Carrier(q) # "plain"
      BY <1>1 DEF Outbound
    <2> QED BY <2>1, ConnectTidy
  <1>2. CASE Carrier(q) = "upgrade"
    <2>1. Outbound(q, route, backend) = RestoreUpgradeHeaders(q, route, backend) /\ Carrier(q) # "plain"
      BY <1>2 DEF Outbound
    <2> QED BY <2>1, UpgradeTidy
  <1>3. CASE Carrier(q) = "plain"
    <2>1. Outbound(q, route, backend) = Forwarded(q, route, backend)
      BY <1>3 DEF Outbound
    <2> QED BY <1>3, <2>1, PlainTidy
  <1> QED BY <1>1, <1>2, <1>3 DEF Carrier

\* What the upstream receives: no hop-by-hop header of the client's beyond the
\* pair of an upgrade, the client last in X-Forwarded-For whatever its Connection
\* header named, and the backend's own address as Host, for any route and any
\* headers.
THEOREM SentClean == Spec => []ForwardedClean
  <1>1. Typed => ForwardedClean
    <2> SUFFICES ASSUME Typed, NEW r \in DOMAIN req
                 PROVE  LET h == Sent(r).headers
                            mine == DOMAIN Route(r).add \cup Route(r).remove
                            pair == IF Carrier(sc.requests[r]) = "plain" THEN {} ELSE {"upgrade", "connection"}
                        IN /\ (DOMAIN h \cap HopByHop) \subseteq (mine \cup pair)
                           /\ "x-forwarded-for" \notin mine =>
                                /\ "x-forwarded-for" \in DOMAIN h
                                /\ h["x-forwarded-for"][Len(h["x-forwarded-for"])] = Client(r)
                           /\ h["host"] = Backend(r).address
      BY DEF ForwardedClean
    <2> DEFINE q == sc.requests[r]
               h == Sent(r).headers
    <2>1. "x-forwarded-for" \in DOMAIN q.headers => IsList(q.headers["x-forwarded-for"])
      <3>1. sc \in Scenarios /\ r \in DOMAIN sc.requests
        BY DEF Typed
      <3> QED BY <3>1, TrafficAssumption
    <2>2. /\ Tidy(h, q, Route(r), IF Carrier(q) = "plain" THEN {} ELSE Pair)
          /\ h["host"] = Backend(r).address
      <3> HIDE DEF q
      <3> QED BY <2>1, OutboundTidy DEF Sent, q
    <2> HIDE DEF h
    <2> QED BY <2>2 DEF Tidy, EndsIn, Mine, Pair, Client, h
  <1> QED BY <1>1, InitRate, NextRate, PTL DEF Spec

-----------------------------------------------------------------------------
(* Tunnels                                                                 *)

TunnelRec == [open : BOOLEAN, sent : Nat, got : Nat, upOpen : BOOLEAN, clientOpen : BOOLEAN, reset : BOOLEAN,
              toClient : {"none", "copying", "done", "failed"}, toUpstream : {"none", "copying", "done", "failed"}]

\* A direction that is done has read a closed stream to its end; one that failed
\* has lost its client; and a tunnel is open until both directions have ended.
Drains(t) ==
    /\ t.toClient = "done" => ~t.upOpen /\ t.got = t.sent
    /\ t.toClient = "failed" => t.reset
    /\ t.toClient = "copying" => t.open

TunnelInv ==
    /\ DOMAIN tunnel = DOMAIN sc.requests
    /\ \A r \in DOMAIN tunnel : tunnel[r] \in TunnelRec /\ Drains(tunnel[r])

LEMMA InitTunnel == Init => TunnelInv
  <1>1. NoTunnel \in TunnelRec /\ Drains(NoTunnel)
    BY DEF NoTunnel, TunnelRec, Drains
  <1> QED BY <1>1 DEF Init, TunnelInv

\* One tunnel changes.
LEMMA OneTunnel ==
    ASSUME TunnelInv, UNCHANGED sc, NEW r \in DOMAIN tunnel, NEW t, t \in TunnelRec, Drains(t),
           tunnel' = [tunnel EXCEPT ![r] = t]
    PROVE  TunnelInv'
  <1>1. DOMAIN tunnel' = DOMAIN tunnel /\ \A x \in DOMAIN tunnel : tunnel'[x] = IF x = r THEN t ELSE tunnel[x]
    OBVIOUS
  <1> QED BY <1>1 DEF TunnelInv

LEMMA SwitchTunnel ==
    ASSUME TunnelInv, NEW r \in DOMAIN tunnel, UpstreamSwitches(r)
    PROVE  TunnelInv'
  <1> DEFINE t == [NoTunnel EXCEPT !.open = TRUE, !.upOpen = TRUE, !.clientOpen = TRUE,
                                   !.toClient = "copying", !.toUpstream = "copying"]
  <1>1. t \in TunnelRec /\ Drains(t)
    BY DEF NoTunnel, TunnelRec, Drains
  <1>2. tunnel' = [tunnel EXCEPT ![r] = t] /\ UNCHANGED sc
    BY DEF UpstreamSwitches, settings
  <1> HIDE DEF t
  <1> QED BY <1>1, <1>2, OneTunnel

LEMMA SpliceTunnel ==
    ASSUME TunnelInv, NEW r \in DOMAIN tunnel,
           UpstreamSends(r) \/ UpstreamCloses(r) \/ ClientCloses(r) \/ ClientResets(r) \/ CopyToClient(r)
    PROVE  TunnelInv'
  <1>p. PICK t : t = tunnel[r]
    OBVIOUS
  <1>0. t \in TunnelRec /\ Drains(t)
    BY <1>p DEF TunnelInv
  <1>1. CASE UpstreamSends(r)
    <2> DEFINE u == [t EXCEPT !.sent = t.sent + 1]
    <2>1. u \in TunnelRec /\ Drains(u)
      BY <1>0, <1>1, <1>p DEF UpstreamSends, TunnelRec, Drains
    <2>2. tunnel' = [tunnel EXCEPT ![r] = u] /\ UNCHANGED sc
      BY <1>1, <1>p DEF UpstreamSends, OnlyTunnel, settings
    <2> HIDE DEF u
    <2> QED BY <2>1, <2>2, OneTunnel
  <1>2. CASE UpstreamCloses(r)
    <2> DEFINE u == [t EXCEPT !.upOpen = FALSE]
    <2>1. u \in TunnelRec /\ Drains(u)
      BY <1>0 DEF TunnelRec, Drains
    <2>2. tunnel' = [tunnel EXCEPT ![r] = u] /\ UNCHANGED sc
      BY <1>2, <1>p DEF UpstreamCloses, OnlyTunnel, settings
    <2> HIDE DEF u
    <2> QED BY <2>1, <2>2, OneTunnel
  <1>3. CASE ClientCloses(r)
    <2> DEFINE u == [t EXCEPT !.clientOpen = FALSE]
    <2>1. u \in TunnelRec /\ Drains(u)
      BY <1>0 DEF TunnelRec, Drains
    <2>2. tunnel' = [tunnel EXCEPT ![r] = u] /\ UNCHANGED sc
      BY <1>3, <1>p DEF ClientCloses, OnlyTunnel, settings
    <2> HIDE DEF u
    <2> QED BY <2>1, <2>2, OneTunnel
  <1>4. CASE ClientResets(r)
    <2> DEFINE u == [t EXCEPT !.clientOpen = FALSE, !.reset = TRUE]
    <2>1. u \in TunnelRec /\ Drains(u)
      BY <1>0 DEF TunnelRec, Drains
    <2>2. tunnel' = [tunnel EXCEPT ![r] = u] /\ UNCHANGED sc
      BY <1>4, <1>p DEF ClientResets, OnlyTunnel, settings
    <2> HIDE DEF u
    <2> QED BY <2>1, <2>2, OneTunnel
  <1>5. CASE CopyToClient(r)
    <2> DEFINE u == [t EXCEPT !.got = t.got + 1]
    <2>1. u \in TunnelRec /\ Drains(u)
      BY <1>0, <1>5, <1>p DEF CopyToClient, TunnelRec, Drains
    <2>2. tunnel' = [tunnel EXCEPT ![r] = u] /\ UNCHANGED sc
      BY <1>5, <1>p DEF CopyToClient, OnlyTunnel, settings
    <2> HIDE DEF u
    <2> QED BY <2>1, <2>2, OneTunnel
  <1> QED BY <1>1, <1>2, <1>3, <1>4, <1>5

\* A direction ends: the tunnel closes with the second of the two.
LEMMA EndsTunnel ==
    ASSUME TunnelInv, NEW r \in DOMAIN tunnel, ToClientEnds(r) \/ ToUpstreamEnds(r)
    PROVE  TunnelInv'
  <1>p. PICK t : t = tunnel[r]
    OBVIOUS
  <1>0. t \in TunnelRec /\ Drains(t)
    BY <1>p DEF TunnelInv
  <1>1. CASE ToClientEnds(r)
    <2> DEFINE u == [t EXCEPT !.toClient = IF t.reset THEN "failed" ELSE "done"]
               w == [u EXCEPT !.open = ~Ended(u)]
    <2>1. w \in TunnelRec /\ Drains(w)
      BY <1>0, <1>1, <1>p DEF ToClientEnds, TunnelRec, Drains, Ended
    <2>2. tunnel' = [tunnel EXCEPT ![r] = w] /\ UNCHANGED sc
      BY <1>1, <1>p DEF ToClientEnds, Closing, OnlyTunnel, settings
    <2> HIDE DEF w
    <2> QED BY <2>1, <2>2, OneTunnel
  <1>2. CASE ToUpstreamEnds(r)
    <2>1. PICK s \in {"done", "failed"} : Closing(r, [t EXCEPT !.toUpstream = s])
      BY <1>2, <1>p DEF ToUpstreamEnds
    <2> DEFINE u == [t EXCEPT !.toUpstream = s]
               w == [u EXCEPT !.open = ~Ended(u)]
    <2>2. w \in TunnelRec /\ Drains(w)
      BY <1>0 DEF TunnelRec, Drains, Ended
    <2>3. tunnel' = [tunnel EXCEPT ![r] = w]
      BY <2>1 DEF Closing
    <2>4. UNCHANGED sc
      BY <1>2 DEF ToUpstreamEnds, OnlyTunnel, settings
    <2> HIDE DEF w
    <2> QED BY <2>2, <2>3, <2>4, OneTunnel
  <1> QED BY <1>1, <1>2

LEMMA TunnelAlone == ASSUME TunnelInv, UNCHANGED <<sc, tunnel>> PROVE TunnelInv'
  BY DEF TunnelInv

LEMMA NextTunnel == Typed /\ TunnelInv /\ [Next]_vars => TunnelInv'
  <1> SUFFICES ASSUME Typed, TunnelInv, [Next]_vars PROVE TunnelInv'
    OBVIOUS
  <1>0. DOMAIN req = DOMAIN tunnel
    BY DEF Typed, TunnelInv
  <1>1. CASE \E r \in DOMAIN req : RequestStep(r) \/ TakeToken(r) \/ RetryToken(r)
    <2>1. UNCHANGED <<sc, tunnel>>
      BY <1>1, ZenonT(30) DEF RequestStep, MatchRequest, EnterBucket, LoadBucket, RefuseRequest, StampRefill, SelectBackend,
                  StorePtr, BuildRequest, TimesOut, TakeToken, RetryToken, settings
    <2> QED BY <2>1, TunnelAlone
  <1>2. CASE \E r \in DOMAIN req : TunnelStep(r)
    BY <1>0, <1>2, SpliceTunnel, EndsTunnel DEF TunnelStep
  <1>3. CASE \E r \in DOMAIN req : UpstreamAnswers(r) \/ UpstreamRefuses(r)
    <2>1. UNCHANGED <<sc, tunnel>>
      BY <1>3 DEF UpstreamAnswers, UpstreamRefuses, settings
    <2> QED BY <2>1, TunnelAlone
  <1>4. CASE \E r \in DOMAIN req : UpstreamSwitches(r)
    BY <1>0, <1>4, SwitchTunnel
  <1>5. CASE \E r \in DOMAIN req : UpstreamSends(r) \/ UpstreamCloses(r) \/ ClientCloses(r) \/ ClientResets(r)
    BY <1>0, <1>5, SpliceTunnel
  <1>6. CASE Reconfigure \/ Tick \/ StepBack \/ CleanupExpired
    <2>1. UNCHANGED <<sc, tunnel>>
      BY <1>6 DEF Reconfigure, Tick, StepBack, CleanupExpired, settings
    <2> QED BY <2>1, TunnelAlone
  <1>7. CASE HealthStep
    <2>1. UNCHANGED <<sc, tunnel>>
      BY <1>7 DEF HealthStep, BeginCheck, RegisterBackend, UnregisterBackend, UpdateHealth, FinishRegistration,
                  OnlyHealth, settings
    <2> QED BY <2>1, TunnelAlone
  <1>8. CASE UNCHANGED vars
    <2>1. UNCHANGED <<sc, tunnel>>
      BY <1>8 DEF vars
    <2> QED BY <2>1, TunnelAlone
  <1> QED BY <1>1, <1>2, <1>3, <1>4, <1>5, <1>6, <1>7, <1>8 DEF Next, Environment

\* The safety half of ExchangesEnd: a tunnel whose client did not reset has, when
\* it closes, delivered everything the upstream sent, whichever direction ended
\* first and however many frames there were.
THEOREM TunnelsDrain == Spec => []TunnelDrains
  <1>1. TunnelInv => TunnelDrains
    BY DEF TunnelInv, TunnelDrains, TunnelRec, Drains
  <1> QED BY <1>1, InitRate, NextRate, InitTunnel, NextTunnel, PTL DEF Spec

=============================================================================
