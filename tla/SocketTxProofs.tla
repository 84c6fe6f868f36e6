--------------------------- MODULE SocketTxProofs ---------------------------
(***************************************************************************)
(* What the pipelining driver tells its caller is what the database did,   *)
(* for any statements, any number of transactions and any capacity of      *)
(* RESULT_TYPES; and a transaction that is alone in the process implements *)
(* the contract of the Tx trait.                                           *)
(*                                                                         *)
(* A transaction's whole is BEGIN, what was answered and what is due.      *)
(* What was sent, what goes ahead of the call and the call are that whole, *)
(* cut where the driver is; and between flights the session has run        *)
(* exactly what lies before the cut, all of it with success.  A flight is  *)
(* run statement by statement by induction on its length: either nothing   *)
(* in it failed, and the session is one flight further, or it is aborted   *)
(* and holds nothing.                                                      *)
(*                                                                         *)
(* The contract knows neither reruns nor lost errors.  Every run of a      *)
(* transaction but the last has got one more statement's types looked up,  *)
(* so it is run again fewer times than it has statements, which is the     *)
(* driver's limit: the error of the statement that fails is found.  That   *)
(* needs RESULT_TYPES to be the transaction's own, because another         *)
(* transaction's remembering may empty it.                                 *)
(***************************************************************************)
EXTENDS SocketTx, SequenceTheorems, FiniteSetTheorems, WellFoundedInduction, TLAPS

-----------------------------------------------------------------------------
(* Induction *)

LEMMA LessWellFounded == IsWellFoundedOn({ss \in Nat \X Nat : ss[1] < ss[2]}, Nat)
  BY NatLessThanWellFounded DEF OpToRel

\* Every nonempty set of natural numbers has a least element.
LEMMA NatMin ==
    ASSUME NEW T, T \subseteq Nat, T # {}
    PROVE  \E x \in T : \A y \in T : x <= y
  <1> DEFINE R == {ss \in Nat \X Nat : ss[1] < ss[2]}
  <1>1. IsWellFoundedOn(R, Nat)
    BY LessWellFounded
  <1>2. PICK x \in T : \A y \in T : ~(<<y, x>> \in R)
    <2> HIDE DEF R
    <2> QED BY <1>1, WFMin
  <1>3. \A y \in T : ~(y < x)
    BY <1>2
  <1> QED BY <1>3

\* The sessions along a flight exist: a function is defined by this recursion.
LEMMA SessionsExist ==
    ASSUME NEW se, NEW flight, NEW f, NEW n \in Nat
    PROVE  \E g : g = [k \in 0..n |-> IF k = 0 THEN se ELSE After(g[k - 1], flight[k], f)]
  <1> DEFINE Body(g, m) == [k \in 0..m |-> IF k = 0 THEN se ELSE After(g[k - 1], flight[k], f)]
             T == {m \in Nat : ~ \E g : g = Body(g, m)}
  <1>1. T = {}
    <2> SUFFICES ASSUME T # {} PROVE FALSE
      OBVIOUS
    <2>1. PICK m \in T : \A y \in T : m <= y
      BY NatMin
    <2>2. CASE m = 0
      <3> DEFINE g == [k \in 0..0 |-> se]
      <3>1. g = Body(g, 0)
        OBVIOUS
      <3> QED BY <2>1, <2>2, <3>1
    <2>3. CASE m # 0
      <3>1. m \in Nat /\ m - 1 \in Nat /\ m - 1 \notin T
        BY <2>1, <2>3
      <3>2. PICK g : g = Body(g, m - 1)
        BY <3>1
      <3> DEFINE h == [k \in 0..m |-> IF k = m THEN After(g[m - 1], flight[m], f) ELSE g[k]]
      <3>3. \A k \in 0..(m - 1) : h[k] = g[k]
        BY <3>1
      <3>4. \A k \in 0..(m - 1) : g[k] = IF k = 0 THEN se ELSE After(g[k - 1], flight[k], f)
        BY <3>2
      <3>5. ASSUME NEW k \in 0..m
            PROVE  h[k] = IF k = 0 THEN se ELSE After(h[k - 1], flight[k], f)
        <4>1. CASE k = 0
          BY <2>3, <3>1, <3>3, <3>4, <4>1
        <4>2. CASE k = m
          <5>1. m - 1 \in 0..(m - 1) /\ h[m] = After(g[m - 1], flight[m], f)
            BY <3>1
          <5> QED BY <2>3, <3>3, <4>2, <5>1
        <4>3. CASE k # 0 /\ k # m
          <5>1. k \in 0..(m - 1) /\ k - 1 \in 0..(m - 1)
            BY <3>1, <4>3
          <5> QED BY <3>3, <3>4, <4>3, <5>1
        <4> QED BY <4>1, <4>2, <4>3
      <3>6. h = Body(h, m)
        <4>1. h = [k \in 0..m |-> h[k]]
          OBVIOUS
        <4> HIDE DEF h
        <4> QED BY <3>5, <4>1
      <3>7. \E x : x = Body(x, m)
        <4> HIDE DEF h
        <4> QED BY <3>6
      <3> QED BY <2>1, <3>7
    <2> QED BY <2>2, <2>3
  <1> QED BY <1>1

\* The session before the flight, and after each statement of it.
LEMMA SessionsAre ==
    ASSUME NEW t, NEW flight, SentOf(flight) \in Nat, NEW a, a = Sessions(t, flight)
    PROVE  /\ a[0] = session[t]
           /\ \A k \in 1..SentOf(flight) : a[k] = After(a[k - 1], flight[k], fault)
  <1>1. a = [k \in 0..SentOf(flight) |->
               IF k = 0 THEN session[t] ELSE After(a[k - 1], flight[k], fault)]
    BY SessionsExist DEF Sessions
  <1> QED BY <1>1

-----------------------------------------------------------------------------
(* A session along a transaction *)

\* A transaction as it is run: BEGIN, statements, and COMMIT at most at its end.
Shape(w) ==
    /\ w \in Seq(Sql) /\ Len(w) >= 1 /\ w[1] = Begin
    /\ \A i \in 2..Len(w) : w[i] # Begin
    /\ \A i \in 2..(Len(w) - 1) : w[i] \in Stmts

\* The session has run the first n statements of w, and none of them failed or
\* was COMMIT.
Good(f, se, w, n) ==
    /\ se.durable = <<>>
    /\ n = 0 => se.state = "idle" /\ se.work = <<>>
    /\ n > 0 => se.state = "open" /\ se.work = SubSeq(w, 2, n)
    /\ \A i \in 1..n : f[w[i]] = "none" /\ w[i] # Commit

\* It has run all of w, and committed it.
Finished(f, se, w) ==
    /\ se.state = "idle"
    /\ se.durable = SubSeq(w, 2, Len(w) - 1)
    /\ w[Len(w)] = Commit
    /\ \A i \in 1..Len(w) : f[w[i]] = "none"

\* One of the first n statements failed; it keeps nothing.
Spoilt(f, se, w, n) ==
    /\ se.durable = <<>>
    /\ se.state = "aborted" \/ (se.state = "idle" /\ n = Len(w))
    /\ \E i \in 1..n : f[w[i]] # "none"

\* One more statement of w.
LEMMA OneStatement ==
    ASSUME NEW f \in Faults, NEW w, Shape(w), NEW n \in Nat, n < Len(w), NEW se \in Session,
           NEW s, s = w[n + 1]
    PROVE  /\ After(se, s, f) \in Session
           /\ Good(f, se, w, n) /\ f[s] = "none" =>
                 /\ Outcome(se, s, f) = "ok"
                 /\ s # Commit => Good(f, After(se, s, f), w, n + 1)
                 /\ s = Commit => n + 1 = Len(w) /\ Finished(f, After(se, s, f), w)
           /\ Good(f, se, w, n) /\ f[s] # "none" =>
                 Outcome(se, s, f) # "ok" /\ Spoilt(f, After(se, s, f), w, n + 1)
           /\ Spoilt(f, se, w, n) => Spoilt(f, After(se, s, f), w, n + 1)
  <1>1. /\ w \in Seq(Sql) /\ Len(w) \in Nat /\ n + 1 \in 1..Len(w) /\ s \in Sql /\ w[1] = Begin
        /\ n > 0 => s # Begin
        /\ n > 0 /\ n + 1 # Len(w) => s \in Stmts
        /\ n = 0 => s = Begin
    BY DEF Shape
  <1>2. se.work \in Seq(Stmts) /\ se.durable \in Seq(Stmts) /\ se.state \in {"idle", "open", "aborted", "closed"}
    BY DEF Session
  <1>3. Begin \notin Stmts /\ Commit \notin Stmts /\ Begin # Commit /\ f[Begin] = "none"
    BY StatementAssumption DEF Faults
  <1>4. <<>> \in Seq(Stmts) /\ se.durable \o se.work \in Seq(Stmts)
    BY <1>2
  <1>5. CASE s = Begin
    <2>1. n = 0
      BY <1>1, <1>5
    <2>2. After(se, s, f) = IF se.state = "idle" THEN [se EXCEPT !.state = "open"] ELSE se
      BY <1>3, <1>5 DEF After
    <2>3. After(se, s, f) \in Session
      BY <2>2 DEF Session
    <2>4. Good(f, se, w, n) => Outcome(se, s, f) = "ok" /\ Good(f, After(se, s, f), w, n + 1)
      <3> SUFFICES ASSUME Good(f, se, w, n)
                   PROVE  Outcome(se, s, f) = "ok" /\ Good(f, After(se, s, f), w, 0 + 1)
        BY <2>1
      <3>1. se.state = "idle" /\ se.work = <<>> /\ se.durable = <<>>
        BY <2>1 DEF Good
      <3>2. SubSeq(w, 2, 1) = <<>>
        BY <1>1
      <3>3. After(se, s, f).state = "open" /\ After(se, s, f).work = <<>> /\ After(se, s, f).durable = <<>>
        BY <2>2, <3>1 DEF Session
      <3>4. Outcome(se, s, f) = "ok"
        BY <1>3, <1>5, <3>1 DEF Outcome
      <3>5. \A i \in 1..1 : f[w[i]] = "none" /\ w[i] # Commit
        BY <1>1, <1>3
      <3>6. 0 + 1 = 1 /\ ~(0 + 1 = 0)
        OBVIOUS
      <3> QED BY <3>2, <3>3, <3>4, <3>5, <3>6 DEF Good
    <2>5. ~Spoilt(f, se, w, n)
      BY <2>1 DEF Spoilt
    <2> QED BY <1>3, <1>5, <2>3, <2>4, <2>5
  <1>6. CASE s = Commit
    <2>1. n > 0 /\ n + 1 = Len(w)
      BY <1>1, <1>3, <1>6
    <2>2. /\ After(se, s, f) \in Session /\ After(se, s, f).state = "idle"
          /\ After(se, s, f).durable =
                IF se.state = "open" /\ f[s] = "none" THEN se.durable \o se.work ELSE se.durable
      BY <1>3, <1>4, <1>6 DEF After, Session
    <2>3. ASSUME Good(f, se, w, n), f[s] = "none"
          PROVE  Outcome(se, s, f) = "ok" /\ Finished(f, After(se, s, f), w)
      <3>1. se.state = "open" /\ se.work = SubSeq(w, 2, n) /\ se.durable = <<>>
        BY <2>1, <2>3 DEF Good
      <3>2. After(se, s, f).durable = se.work
        BY <1>2, <2>2, <2>3, <3>1
      <3>3. \A i \in 1..Len(w) : f[w[i]] = "none"
        BY <1>1, <2>1, <2>3 DEF Good
      <3>4. n = Len(w) - 1 /\ w[Len(w)] = Commit
        <4>1. n = Len(w) - 1
          BY <1>1, <2>1
        <4>2. w[Len(w)] = s
          BY <2>1
        <4> QED BY <1>6, <4>1, <4>2
      <3> QED BY <1>6, <2>2, <2>3, <3>1, <3>2, <3>3, <3>4 DEF Outcome, Finished
    <2>4. ASSUME Good(f, se, w, n), f[s] # "none"
          PROVE  Outcome(se, s, f) # "ok" /\ Spoilt(f, After(se, s, f), w, n + 1)
      <3>1. se.state = "open" /\ se.durable = <<>>
        BY <2>1, <2>4 DEF Good
      <3>2. n + 1 \in 1..(n + 1) /\ f[w[n + 1]] # "none"
        BY <2>4
      <3> QED BY <1>6, <2>1, <2>2, <2>4, <3>1, <3>2 DEF Outcome, Spoilt
    <2>5. ASSUME Spoilt(f, se, w, n) PROVE Spoilt(f, After(se, s, f), w, n + 1)
      <3>1. se.durable = <<>> /\ se.state # "open"
        BY <2>5 DEF Spoilt
      <3>2. PICK i \in 1..n : f[w[i]] # "none"
        BY <2>5 DEF Spoilt
      <3>3. i \in 1..(n + 1)
        OBVIOUS
      <3> QED BY <2>1, <2>2, <3>1, <3>2, <3>3 DEF Spoilt
    <2> QED BY <1>6, <2>1, <2>2, <2>3, <2>4, <2>5
  <1>7. CASE s \in Stmts
    <2>1. s # Begin /\ s # Commit /\ n > 0
      BY <1>1, <1>3, <1>7
    <2>2. Append(se.work, s) \in Seq(Stmts) /\ Append(se.durable, s) \in Seq(Stmts)
      BY <1>2, <1>7
    <2>3. After(se, s, f) \in Session
      BY <1>4, <1>7, <2>1, <2>2 DEF After, Session
    <2>4. ASSUME Good(f, se, w, n), f[s] = "none"
          PROVE  Outcome(se, s, f) = "ok" /\ Good(f, After(se, s, f), w, n + 1)
      <3>1. se.state = "open" /\ se.work = SubSeq(w, 2, n) /\ se.durable = <<>>
        BY <2>1, <2>4 DEF Good
      <3>2. After(se, s, f) = [se EXCEPT !.work = Append(se.work, s)]
        BY <1>7, <2>1, <2>4, <3>1 DEF After
      <3>3. Append(SubSeq(w, 2, n), s) = SubSeq(w, 2, n + 1)
        BY <1>1, <2>1
      <3>4. \A i \in 1..(n + 1) : f[w[i]] = "none" /\ w[i] # Commit
        BY <1>1, <2>1, <2>4 DEF Good
      <3>5. /\ After(se, s, f).state = "open" /\ After(se, s, f).durable = <<>>
            /\ After(se, s, f).work = SubSeq(w, 2, n + 1)
        BY <3>1, <3>2, <3>3 DEF Session
      <3>6. n + 1 > 0 /\ n + 1 # 0
        OBVIOUS
      <3>7. Outcome(se, s, f) = "ok"
        BY <2>1, <2>4, <3>1 DEF Outcome
      <3> QED BY <3>4, <3>5, <3>6, <3>7 DEF Good
    <2>5. ASSUME Good(f, se, w, n), f[s] # "none"
          PROVE  Outcome(se, s, f) # "ok" /\ Spoilt(f, After(se, s, f), w, n + 1)
      <3>1. se.state = "open" /\ se.durable = <<>>
        BY <2>1, <2>5 DEF Good
      <3>2. After(se, s, f) = [se EXCEPT !.state = "aborted", !.work = <<>>]
        BY <1>7, <2>1, <2>5, <3>1 DEF After
      <3>3. n + 1 \in 1..(n + 1) /\ f[w[n + 1]] # "none"
        BY <2>5
      <3>4. After(se, s, f).state = "aborted" /\ After(se, s, f).durable = <<>>
        BY <3>1, <3>2 DEF Session
      <3>5. Outcome(se, s, f) # "ok"
        BY <2>1, <2>5, <3>1 DEF Outcome
      <3> QED BY <3>3, <3>4, <3>5 DEF Spoilt
    <2>6. ASSUME Spoilt(f, se, w, n) PROVE Spoilt(f, After(se, s, f), w, n + 1)
      <3>1. se.durable = <<>> /\ se.state = "aborted"
        BY <1>1, <2>6 DEF Spoilt
      <3>2. After(se, s, f) = se
        BY <1>7, <2>1, <3>1 DEF After
      <3>3. PICK i \in 1..n : f[w[i]] # "none"
        BY <2>6 DEF Spoilt
      <3>4. i \in 1..(n + 1)
        OBVIOUS
      <3> QED BY <3>1, <3>2, <3>3, <3>4 DEF Spoilt
    <2> QED BY <2>1, <2>3, <2>4, <2>5, <2>6
  <1> QED BY <1>1, <1>5, <1>6, <1>7 DEF Sql

\* Where a session is after k statements of a flight.
Reached(f, a, flight, w, n, k) ==
    /\ a[k] \in Session
    /\ \/ /\ Good(f, a[k], w, n + k) \/ (Finished(f, a[k], w) /\ n + k = Len(w))
          /\ \A j \in 1..k : Outcome(a[j - 1], flight[j], f) = "ok"
       \/ /\ Spoilt(f, a[k], w, n + k)
          /\ \E j \in 1..k : Outcome(a[j - 1], flight[j], f) # "ok"

\* A flight that goes on from where the session is: it either runs through, or is
\* spoilt by the first failure and keeps nothing.
LEMMA FlightReaches ==
    ASSUME NEW f \in Faults, NEW w, Shape(w), NEW n \in Nat, NEW m \in Nat, n + m <= Len(w),
           NEW flight, \A k \in 1..m : flight[k] = w[n + k],
           NEW a, a[0] \in Session, Good(f, a[0], w, n),
           \A k \in 1..m : a[k] = After(a[k - 1], flight[k], f)
    PROVE  \A k \in 0..m : Reached(f, a, flight, w, n, k)
  <1> DEFINE T == {k \in Nat : k <= m /\ ~Reached(f, a, flight, w, n, k)}
  <1>1. T = {}
    <2> SUFFICES ASSUME T # {} PROVE FALSE
      OBVIOUS
    <2>1. PICK k \in T : \A y \in T : k <= y
      BY NatMin
    <2>2. k \in Nat /\ k <= m /\ ~Reached(f, a, flight, w, n, k)
      BY <2>1
    <2>3. CASE k = 0
      <3>1. \A j \in 1..0 : Outcome(a[j - 1], flight[j], f) = "ok"
        OBVIOUS
      <3>2. n + 0 = n
        OBVIOUS
      <3> QED BY <2>2, <2>3, <3>1, <3>2 DEF Reached
    <2>4. CASE k # 0
      <3> DEFINE p == k - 1
      <3>1. p \in Nat /\ p + 1 = k /\ k - 1 = p /\ p < m /\ k \in 1..m
        BY <2>2, <2>4
      <3>2. Reached(f, a, flight, w, n, p)
        <4>1. p \notin T
          BY <2>1, <3>1
        <4> QED BY <3>1, <4>1
      <3> DEFINE se == a[p]
                 s == flight[k]
                 q == n + p
      <3>3. a[k] = After(se, s, f) /\ s = w[q + 1] /\ q \in Nat /\ q < Len(w) /\ q + 1 = n + k
        <4>1. Len(w) \in Nat
          BY DEF Shape
        <4>2. s = w[n + k] /\ n + k = q + 1
          BY <3>1
        <4> QED BY <3>1, <4>1, <4>2
      <3>4. se \in Session
        BY <3>2 DEF Reached
      <3> HIDE DEF p, se, s, q
      <3>5. After(se, s, f) \in Session
        BY <3>3, <3>4, OneStatement
      <3>6. CASE Good(f, se, w, q) /\ f[s] = "none"
        <4>1. Outcome(se, s, f) = "ok"
              /\ (Good(f, a[k], w, n + k) \/ (Finished(f, a[k], w) /\ n + k = Len(w)))
          BY <3>3, <3>4, <3>6, OneStatement
        <4>2. \A j \in 1..p : Outcome(a[j - 1], flight[j], f) = "ok"
          <5>1. ~Spoilt(f, se, w, q)
            BY <3>1, <3>3, <3>6 DEF Good, Spoilt
          <5> QED BY <3>2, <5>1 DEF Reached, se, q
        <4>3. \A j \in 1..k : Outcome(a[j - 1], flight[j], f) = "ok"
          BY <3>1, <4>1, <4>2 DEF se, s
        <4> QED BY <2>2, <3>3, <3>5, <4>1, <4>3 DEF Reached
      <3>7. CASE Good(f, se, w, q) /\ f[s] # "none"
        <4>1. Outcome(se, s, f) # "ok" /\ Spoilt(f, a[k], w, n + k)
          BY <3>3, <3>4, <3>7, OneStatement
        <4>2. Outcome(a[k - 1], flight[k], f) # "ok" /\ k \in 1..k
          BY <3>1, <4>1 DEF se, s
        <4> QED BY <2>2, <3>3, <3>5, <4>1, <4>2 DEF Reached
      <3>8. CASE Spoilt(f, se, w, q)
        <4>1. Spoilt(f, a[k], w, n + k)
          <5>1. Spoilt(f, After(se, s, f), w, q + 1)
            BY <3>3, <3>4, <3>8, OneStatement
          <5> QED BY <3>3, <5>1
        <4>2. ~Good(f, se, w, q) /\ ~(Finished(f, se, w) /\ q = Len(w))
          BY <3>3, <3>8 DEF Good, Spoilt
        <4>3. PICK j \in 1..p : Outcome(a[j - 1], flight[j], f) # "ok"
          BY <3>2, <4>2 DEF Reached, se, q
        <4>4. j \in 1..k
          BY <3>1
        <4> QED BY <2>2, <3>3, <3>5, <4>1, <4>3, <4>4 DEF Reached
      <3>9. Good(f, se, w, q) \/ Spoilt(f, se, w, q)
        <4>1. ~(q = Len(w))
          BY <3>3
        <4> QED BY <3>2, <4>1 DEF Reached, se, q
      <3> QED BY <3>6, <3>7, <3>8, <3>9
    <2> QED BY <2>3, <2>4
  <1> QED BY <1>1

-----------------------------------------------------------------------------
(* The invariant of one transaction, over the values of its variables *)

Whole(du, dn) == <<Begin>> \o (dn \o du)
AllOf(x) == x.ahead \o x.stmts

\* OutcomeIsTrue, of one transaction.
Told(se, du, dn, re) ==
    /\ se.durable # <<>> =>
          /\ dn \o du # <<>> /\ (dn \o du)[Len(dn \o du)] = Commit
          /\ se.durable = SubSeq(dn \o du, 1, Len(dn \o du) - 1)
    /\ re.kind = "ok" /\ dn # <<>> /\ dn[Len(dn)] = Commit =>
          se.durable = SubSeq(dn, 1, Len(dn) - 1)
    /\ re.kind \in {"failed", "masked", "lost"} => se.durable = <<>>

\* What failures that happen again add: a transaction that is run again holds a
\* statement that fails, so it is never answered in that run.
Stands(f, x, se, du, dn, ra) ==
    /\ \A k \in 1..Len(ra) : ra[k] = 0
    /\ x.pc \in Busy /\ x.runs # 0 => \E i \in 1..Len(Whole(du, dn)) : f[Whole(du, dn)[i]] # "none"
    /\ x.pc \in {"masked", "rollback"} => \E i \in 1..Len(Whole(du, dn)) : f[Whole(du, dn)[i]] # "none"
    /\ x.pc = "over" /\ se.durable # <<>> => x.runs = 0

\* Where the transaction is cut, and what its session has run.
Cut(f, x, se, du, dn) ==
    /\ x.pc = "new" => x.sent = <<>> /\ se = NewSession /\ du = <<>> /\ dn = <<>>
    /\ x.pc = "ready" =>
          /\ x.sent \o x.queued = Whole(du, dn)
          /\ du \in Seq(Stmts)
          /\ Good(f, se, Whole(du, dn), Len(x.sent))
    /\ x.pc \in Busy =>
          /\ x.queued = <<>>
          /\ x.sent \o AllOf(x) = Whole(du, dn)
          /\ Shape(Whole(du, dn))
    /\ x.pc \in {"begin", "prepare", "fly"} =>
          /\ x.start \in 1..Len(AllOf(x))
          /\ Good(f, se, Whole(du, dn), Len(x.sent) + x.start - 1)
    /\ x.pc \in {"prepare", "fly"} => x.end \in (x.start + 1)..(Len(AllOf(x)) + 1)

Kinds(x, se, du, dn, ra) ==
    /\ x \in Tx /\ se \in Session
    /\ du \in Seq(Sql) /\ dn \in Seq(Sql) /\ ra \in Seq(Nat)
    /\ x.pc # "over" => se.durable = <<>> /\ dn \in Seq(Stmts)

TxInv(f, x, se, du, dn, ra, re) ==
    /\ Kinds(x, se, du, dn, ra)
    /\ Cut(f, x, se, du, dn)
    /\ x.pc = "over" => Told(se, du, dn, re)
    /\ x.pc # "over" => re.kind \notin {"failed", "masked", "lost"}
    /\ ~Transient => Stands(f, x, se, du, dn, ra)

SocketInv ==
    /\ fault \in Faults
    /\ DOMAIN tx = Txs /\ DOMAIN session = Txs /\ DOMAIN due = Txs /\ DOMAIN done = Txs
    /\ DOMAIN ranIn = Txs /\ DOMAIN reply = Txs
    /\ \A t \in Txs : TxInv(fault, tx[t], session[t], due[t], done[t], ranIn[t], reply[t])

\* A transaction that keeps nothing and is over has told the truth.
LEMMA OverEmpty ==
    ASSUME NEW f, NEW x \in Tx, NEW se \in Session, NEW du \in Seq(Sql), NEW dn \in Seq(Stmts),
           NEW ra \in Seq(Nat), NEW re,
           x.pc = "over", se.durable = <<>>, ~Transient => \A k \in 1..Len(ra) : ra[k] = 0
    PROVE  TxInv(f, x, se, du, dn, ra, re)
  <1>1. dn \in Seq(Sql)
    BY SeqMonotonic DEF Sql
  <1>2. Kinds(x, se, du, dn, ra)
    BY <1>1 DEF Kinds
  <1>3. Cut(f, x, se, du, dn)
    BY DEF Cut, Busy
  <1>4. ~(dn # <<>> /\ dn[Len(dn)] = Commit)
    <2>1. dn # <<>> => Len(dn) \in 1..Len(dn)
      OBVIOUS
    <2> QED BY <2>1, StatementAssumption
  <1>5. Told(se, du, dn, re)
    BY <1>4 DEF Told
  <1>6. ~Transient => Stands(f, x, se, du, dn, ra)
    BY DEF Stands, Busy
  <1> QED BY <1>2, <1>3, <1>5, <1>6 DEF TxInv

\* What a whole looks like.
LEMMA WholeIs ==
    ASSUME NEW du \in Seq(Sql), NEW dn \in Seq(Sql)
    PROVE  /\ Whole(du, dn) \in Seq(Sql)
           /\ Len(Whole(du, dn)) = 1 + Len(dn) + Len(du)
           /\ Whole(du, dn)[1] = Begin
           /\ \A i \in 1..Len(dn) : Whole(du, dn)[1 + i] = dn[i]
           /\ \A i \in 1..Len(du) : Whole(du, dn)[1 + Len(dn) + i] = du[i]
  <1>1. Begin \in Sql /\ <<Begin>> \in Seq(Sql) /\ Len(<<Begin>>) = 1 /\ <<Begin>>[1] = Begin
    BY DEF Sql
  <1> DEFINE all == dn \o du
  <1>2. /\ all \in Seq(Sql) /\ Len(all) = Len(dn) + Len(du)
        /\ Len(dn) \in Nat /\ Len(du) \in Nat
        /\ \A i \in 1..Len(dn) : all[i] = dn[i]
        /\ \A i \in 1..Len(du) : all[Len(dn) + i] = du[i]
    OBVIOUS
  <1> HIDE DEF all
  <1> DEFINE b == <<Begin>>
             w == b \o all
  <1>3. b \in Seq(Sql) /\ Len(b) = 1 /\ b[1] = Begin
    BY <1>1
  <1> HIDE DEF b
  <1>4. /\ w \in Seq(Sql) /\ Len(w) = 1 + Len(all) /\ w[1] = Begin
        /\ \A i \in 1..Len(all) : w[1 + i] = all[i]
    <2>1. /\ w \in Seq(Sql) /\ Len(w) = Len(b) + Len(all)
          /\ \A i \in 1..(Len(b) + Len(all)) : w[i] = IF i <= Len(b) THEN b[i] ELSE all[i - Len(b)]
      <3>1. b \in Seq(Sql) /\ all \in Seq(Sql)
        BY <1>2, <1>3
      <3> QED BY <3>1, ConcatProperties
    <2>2. Len(all) \in Nat
      BY <1>2
    <2> HIDE DEF w
    <2>3. w[1] = Begin
      BY <1>3, <2>1, <2>2
    <2>4. ASSUME NEW i \in 1..Len(all) PROVE w[1 + i] = all[i]
      BY <1>3, <2>1, <2>2
    <2> QED BY <1>3, <2>1, <2>3, <2>4
  <1>5. w = Whole(du, dn)
    BY DEF Whole, all, b
  <1> HIDE DEF w
  <1>6. \A i \in 1..Len(dn) : i \in 1..Len(all)
    BY <1>2
  <1>7. \A i \in 1..Len(du) : Len(dn) + i \in 1..Len(all) /\ 1 + (Len(dn) + i) = 1 + Len(dn) + i
    BY <1>2
  <1>8. Len(w) = 1 + Len(dn) + Len(du)
    BY <1>2, <1>4
  <1>9. \A i \in 1..Len(dn) : w[1 + i] = dn[i]
    BY <1>2, <1>4, <1>6
  <1>10. \A i \in 1..Len(du) : w[1 + Len(dn) + i] = du[i]
    BY <1>2, <1>4, <1>7
  <1> QED BY <1>4, <1>5, <1>8, <1>9, <1>10

LEMMA WholeShape ==
    ASSUME NEW du \in Seq(Sql), NEW dn \in Seq(Stmts),
           \A i \in 1..(Len(du) - 1) : du[i] \in Stmts,
           \A i \in 1..Len(du) : du[i] # Begin
    PROVE  Shape(Whole(du, dn))
  <1>1. dn \in Seq(Sql) /\ Len(dn) \in Nat /\ Len(du) \in Nat
    BY SeqMonotonic DEF Sql
  <1> DEFINE w == Whole(du, dn)
  <1>2. /\ w \in Seq(Sql)
        /\ Len(w) = 1 + Len(dn) + Len(du)
        /\ w[1] = Begin
        /\ \A i \in 1..Len(dn) : w[1 + i] = dn[i]
        /\ \A i \in 1..Len(du) : w[1 + Len(dn) + i] = du[i]
    BY <1>1, WholeIs
  <1> HIDE DEF w
  <1>3. ASSUME NEW i \in 2..Len(w)
        PROVE  w[i] # Begin /\ (i # Len(w) => w[i] \in Stmts)
    <2>1. CASE i <= 1 + Len(dn)
      <3>1. i - 1 \in 1..Len(dn) /\ 1 + (i - 1) = i
        BY <1>1, <2>1
      <3>2. w[i] = dn[i - 1] /\ dn[i - 1] \in Stmts
        BY <1>2, <3>1
      <3> QED BY <3>2, StatementAssumption
    <2>2. CASE ~(i <= 1 + Len(dn))
      <3> DEFINE k == i - 1 - Len(dn)
      <3>1. k \in 1..Len(du) /\ 1 + Len(dn) + k = i /\ (i # Len(w) => k \in 1..(Len(du) - 1))
        BY <1>1, <1>2, <2>2
      <3>2. w[i] = du[k]
        BY <1>2, <3>1
      <3> QED BY <3>1, <3>2
    <2> QED BY <2>1, <2>2
  <1>4. \A i \in 2..(Len(w) - 1) : i \in 2..Len(w) /\ i # Len(w)
    BY <1>1, <1>2
  <1>5. Len(w) >= 1
    BY <1>1, <1>2
  <1>6. Shape(w)
    BY <1>2, <1>3, <1>4, <1>5 DEF Shape
  <1> QED BY <1>6 DEF w

-----------------------------------------------------------------------------
(* The caller *)

\* Sequences of statements, put together.
LEMMA ConcatAppend ==
    \A a, b \in Seq(Sql) : \A s \in Sql : a \o Append(b, s) = Append(a \o b, s)
  OBVIOUS

LEMMA ConcatFacts ==
    \A a, b \in Seq(Sql) :
       /\ a \o b \in Seq(Sql) /\ Len(a \o b) = Len(a) + Len(b)
       /\ Len(a) \in Nat /\ Len(b) \in Nat /\ Len(a) <= Len(a \o b)
       /\ \A i \in 1..Len(a) : (a \o b)[i] = a[i]
       /\ \A i \in 1..Len(b) : (a \o b)[Len(a) + i] = b[i]
  OBVIOUS

LEMMA ConcatAssoc ==
    \A a, b, c \in Seq(Sql) : (a \o b) \o c = a \o (b \o c)
  BY ConcatAssociative

\* What the session has run does not change with what is to come.
LEMMA GoodExtends ==
    ASSUME NEW f, NEW se, NEW w \in Seq(Sql), NEW v \in Seq(Sql), NEW n \in Nat, n <= Len(w),
           Good(f, se, w, n)
    PROVE  Good(f, se, w \o v, n)
  <1> DEFINE u == w \o v
  <1>1. u \in Seq(Sql) /\ Len(w) \in Nat /\ Len(w) <= Len(u) /\ \A i \in 1..Len(w) : u[i] = w[i]
    BY ConcatFacts
  <1> HIDE DEF u
  <1>2. \A i \in 1..n : i \in 1..Len(w)
    BY <1>1
  <1>3. \A i \in 1..n : u[i] = w[i]
    BY <1>1, <1>2
  <1>4. n > 0 => SubSeq(u, 2, n) = SubSeq(w, 2, n)
    <2> SUFFICES ASSUME n > 0 PROVE SubSeq(u, 2, n) = SubSeq(w, 2, n)
      OBVIOUS
    <2>1. /\ SubSeq(u, 2, n) \in Seq(Sql) /\ SubSeq(w, 2, n) \in Seq(Sql)
          /\ Len(SubSeq(u, 2, n)) = n - 1 /\ Len(SubSeq(w, 2, n)) = n - 1
          /\ \A i \in 1..(n - 1) : SubSeq(u, 2, n)[i] = u[i + 1] /\ SubSeq(w, 2, n)[i] = w[i + 1]
      BY <1>1
    <2>2. \A i \in 1..(n - 1) : SubSeq(u, 2, n)[i] = SubSeq(w, 2, n)[i]
      BY <1>3, <2>1
    <2> QED BY <2>1, <2>2, SeqEqual
  <1>5. Good(f, se, u, n)
    BY <1>3, <1>4 DEF Good
  <1> QED BY <1>5 DEF u

\* SocketTx as each call leaves it.
Opened(x) == [x EXCEPT !.pc = "ready", !.queued = <<Begin>>]
Queued(x, s) == [x EXCEPT !.queued = Append(x.queued, s)]
Sending(x, stmts, limit) ==
    [x EXCEPT !.pc = "begin", !.ahead = x.queued, !.queued = <<>>,
              !.stmts = stmts, !.start = 1, !.runs = 0, !.limit = limit]

LEMMA OpenKeeps ==
    ASSUME NEW f, NEW x, NEW se, NEW du, NEW dn, NEW ra, NEW re,
           TxInv(f, x, se, du, dn, ra, re), x.pc = "new",
           NEW y, y = Opened(x)
    PROVE  TxInv(f, y, se, du, dn, ra, re)
  <1>1. /\ x \in Tx /\ se = NewSession /\ du = <<>> /\ dn = <<>> /\ x.sent = <<>>
        /\ Kinds(x, se, du, dn, ra)
    BY DEF TxInv, Cut, Kinds
  <1>2. y \in Tx /\ y.pc = "ready" /\ y.sent = <<>> /\ y.queued = <<Begin>>
    <2>1. <<Begin>> \in Seq(Sql)
      BY DEF Sql
    <2> QED BY <1>1, <2>1 DEF Tx, Opened
  <1>3. Kinds(y, se, du, dn, ra)
    BY <1>1, <1>2 DEF Kinds
  <1>4. <<>> \o <<Begin>> = Whole(<<>>, <<>>) /\ Len(<<>>) = 0 /\ <<>> \in Seq(Stmts)
    BY DEF Whole
  <1>5. Good(f, se, Whole(du, dn), 0)
    BY <1>1 DEF Good, NewSession
  <1>6. Cut(f, y, se, du, dn)
    BY <1>1, <1>2, <1>4, <1>5 DEF Cut, Busy
  <1>7. ~Transient => Stands(f, y, se, du, dn, ra)
    BY <1>1, <1>2 DEF TxInv, Stands, Busy
  <1>8. re.kind \notin {"failed", "masked", "lost"}
    BY DEF TxInv
  <1> QED BY <1>2, <1>3, <1>6, <1>7, <1>8 DEF TxInv

LEMMA QueueKeeps ==
    ASSUME NEW f, NEW x, NEW se, NEW du, NEW dn, NEW ra, NEW re,
           TxInv(f, x, se, du, dn, ra, re), x.pc = "ready", NEW s \in Stmts,
           NEW y, y = Queued(x, s)
    PROVE  TxInv(f, y, se, Append(du, s), dn, ra, re)
  <1>1. /\ x \in Tx /\ dn \in Seq(Stmts) /\ du \in Seq(Stmts) /\ du \in Seq(Sql) /\ dn \in Seq(Sql)
        /\ x.sent \o x.queued = Whole(du, dn)
        /\ Good(f, se, Whole(du, dn), Len(x.sent))
        /\ s \in Sql
    BY DEF TxInv, Cut, Kinds, Sql
  <1>2. x.sent \in Seq(Sql) /\ x.queued \in Seq(Sql)
    BY <1>1 DEF Tx
  <1> DEFINE du2 == Append(du, s)
             w == Whole(du, dn)
  <1>3. du2 \in Seq(Stmts) /\ du2 \in Seq(Sql)
    BY <1>1
  <1>4. /\ y \in Tx /\ y.pc = "ready" /\ y.sent = x.sent /\ y.queued = Append(x.queued, s)
        /\ y.runs = x.runs
    <2>1. Append(x.queued, s) \in Seq(Sql)
      BY <1>1, <1>2
    <2> QED BY <1>1, <2>1 DEF Tx, Queued
  <1>5. Kinds(y, se, du2, dn, ra)
    BY <1>1, <1>3, <1>4 DEF TxInv, Kinds
  <1>6. Whole(du2, dn) = Append(w, s)
    <2>1. dn \o Append(du, s) = Append(dn \o du, s)
      BY <1>1
    <2>2. dn \o du \in Seq(Sql) /\ <<Begin>> \in Seq(Sql)
      BY <1>1 DEF Sql
    <2>3. <<Begin>> \o Append(dn \o du, s) = Append(<<Begin>> \o (dn \o du), s)
      BY <1>1, <2>2
    <2> QED BY <2>1, <2>3 DEF Whole
  <1>7. x.sent \o Append(x.queued, s) = Append(x.sent \o x.queued, s)
    BY <1>1, <1>2, ConcatAppend
  <1>8. Good(f, se, Append(w, s), Len(x.sent))
    <2>1. w \in Seq(Sql) /\ Len(x.sent) \in Nat /\ Len(x.sent) <= Len(w)
      BY <1>1, <1>2, ConcatFacts, ZenonT(30)
    <2>2. <<s>> \in Seq(Sql)
      BY <1>1
    <2>3. Good(f, se, w \o <<s>>, Len(x.sent))
      <3> HIDE DEF w
      <3> QED BY <1>1, <2>1, <2>2, GoodExtends DEF w
    <2>4. w \o <<s>> = Append(w, s)
      <3> HIDE DEF w
      <3> QED BY <1>1, <2>1
    <2> QED BY <2>3, <2>4
  <1>9. Cut(f, y, se, du2, dn)
    BY <1>1, <1>3, <1>4, <1>6, <1>7, <1>8 DEF Cut, Busy
  <1>10. ~Transient => Stands(f, y, se, du2, dn, ra)
    BY <1>4 DEF TxInv, Stands, Busy
  <1>11. re.kind \notin {"failed", "masked", "lost"}
    BY DEF TxInv
  <1> QED BY <1>4, <1>5, <1>9, <1>10, <1>11 DEF TxInv

\* The statements of a call: only the last may be COMMIT, and none is BEGIN.
LEMMA CallsShape ==
    ASSUME NEW stmts \in Calls
    PROVE  /\ stmts \in Seq(Sql) /\ Len(stmts) \in Nat \ {0}
           /\ \A i \in 1..(Len(stmts) - 1) : stmts[i] \in Stmts
           /\ \A i \in 1..Len(stmts) : stmts[i] # Begin
  <1>1. Stmts \subseteq Sql /\ Commit \in Sql /\ Begin \notin Stmts /\ Commit # Begin
    BY StatementAssumption DEF Sql
  <1>2. CASE \E s \in Stmts : stmts = <<s>>
    BY <1>1, <1>2
  <1>3. CASE \E s, t \in Stmts : stmts = <<s, t>>
    BY <1>1, <1>3
  <1>4. CASE stmts = <<Commit>>
    BY <1>1, <1>4
  <1>5. CASE \E s \in Stmts : stmts = <<s, Commit>>
    BY <1>1, <1>5
  <1>6. CASE \E s, t \in Stmts : stmts = <<s, t, Commit>>
    BY <1>1, <1>6
  <1> QED BY <1>2, <1>3, <1>4, <1>5, <1>6 DEF Calls, Contract!Calls

LEMMA SendKeeps ==
    ASSUME NEW f, NEW x, NEW se, NEW du, NEW dn, NEW ra, NEW re,
           TxInv(f, x, se, du, dn, ra, re), x.pc = "ready", NEW stmts \in Calls,
           NEW limit \in Nat,
           NEW y, y = Sending(x, stmts, limit)
    PROVE  TxInv(f, y, se, du \o stmts, dn, ra, NoReply)
  <1>1. /\ x \in Tx /\ dn \in Seq(Stmts) /\ du \in Seq(Stmts) /\ du \in Seq(Sql) /\ dn \in Seq(Sql)
        /\ x.sent \o x.queued = Whole(du, dn)
        /\ Good(f, se, Whole(du, dn), Len(x.sent))
    BY DEF TxInv, Cut, Kinds
  <1>2. /\ x.sent \in Seq(Sql) /\ x.queued \in Seq(Sql)
        /\ stmts \in Seq(Sql) /\ Len(stmts) \in Nat \ {0}
        /\ Len(x.sent) \in Nat
    BY <1>1, CallsShape DEF Tx
  <1> DEFINE du2 == du \o stmts
             w == Whole(du, dn)
  <1>3. du2 \in Seq(Sql)
    BY <1>1, <1>2
  <1>4. /\ y \in Tx /\ y.pc = "begin" /\ y.sent = x.sent /\ y.ahead = x.queued /\ y.stmts = stmts
        /\ y.start = 1 /\ y.runs = 0 /\ y.queued = <<>>
    <2>1. <<>> \in Seq(Sql) /\ 1 \in Nat /\ 0 \in Nat
      OBVIOUS
    <2> QED BY <1>1, <1>2, <2>1 DEF Tx, Busy, Sending
  <1>5. Kinds(y, se, du2, dn, ra)
    BY <1>1, <1>3, <1>4 DEF TxInv, Kinds
  <1>6. Whole(du2, dn) = w \o stmts
    <2>1. dn \o (du \o stmts) = (dn \o du) \o stmts
      BY <1>1, <1>2, ConcatAssoc
    <2>2. dn \o du \in Seq(Sql) /\ <<Begin>> \in Seq(Sql)
      BY <1>1 DEF Sql
    <2>3. <<Begin>> \o ((dn \o du) \o stmts) = (<<Begin>> \o (dn \o du)) \o stmts
      BY <1>2, <2>2, ConcatAssoc, SMTT(30)
    <2> QED BY <2>1, <2>3 DEF Whole
  <1>7. x.sent \o (x.queued \o stmts) = (x.sent \o x.queued) \o stmts
    BY <1>2, ConcatAssoc
  <1>8. Good(f, se, w \o stmts, Len(x.sent))
    <2>1. w \in Seq(Sql) /\ Len(x.sent) <= Len(w)
      BY <1>1, <1>2, ConcatFacts, ZenonT(30)
    <2> HIDE DEF w
    <2> QED BY <1>1, <1>2, <2>1, GoodExtends DEF w
  <1>9. Shape(Whole(du2, dn))
    <2>1. /\ Len(du2) = Len(du) + Len(stmts) /\ Len(du) \in Nat
          /\ \A i \in 1..Len(du) : du2[i] = du[i] /\ du[i] \in Stmts
          /\ \A i \in 1..Len(stmts) : du2[Len(du) + i] = stmts[i]
      BY <1>1, <1>2
    <2> HIDE DEF du2
    <2>2. ASSUME NEW i \in 1..Len(du2)
          PROVE  du2[i] # Begin /\ (i # Len(du2) => du2[i] \in Stmts)
      <3>1. CASE i \in 1..Len(du)
        BY <2>1, <3>1, StatementAssumption
      <3>2. CASE i \notin 1..Len(du)
        <4>1. /\ i - Len(du) \in 1..Len(stmts) /\ Len(du) + (i - Len(du)) = i
              /\ i # Len(du2) => i - Len(du) \in 1..(Len(stmts) - 1)
          <5> DEFINE n == Len(du)
                     m == Len(stmts)
                     l == Len(du2)
          <5>1. n \in Nat /\ m \in Nat \ {0} /\ l = n + m /\ i \in 1..l /\ i \notin 1..n
            BY <1>2, <2>1, <3>2
          <5> HIDE DEF n, m, l
          <5>2. i - n \in 1..m /\ n + (i - n) = i /\ (i # l => i - n \in 1..(m - 1))
            BY <5>1
          <5> QED BY <5>2 DEF n, m, l
        <4>2. du2[i] = stmts[i - Len(du)]
          BY <2>1, <4>1
        <4> QED BY <4>1, <4>2, CallsShape
      <3> QED BY <3>1, <3>2
    <2>3. \A i \in 1..(Len(du2) - 1) : i \in 1..Len(du2) /\ i # Len(du2)
      BY <1>2, <2>1
    <2> QED BY <1>1, <1>3, <2>2, <2>3, WholeShape
  <1>10. AllOf(y) = x.queued \o stmts /\ 1 \in 1..Len(AllOf(y))
    <2>1. AllOf(y) = x.queued \o stmts
      BY <1>4 DEF AllOf
    <2>2. Len(x.queued \o stmts) = Len(x.queued) + Len(stmts) /\ Len(x.queued) \in Nat
      BY <1>2, ConcatFacts
    <2> QED BY <1>2, <2>1, <2>2
  <1>11. Len(x.sent) + 1 - 1 = Len(x.sent)
    BY <1>2
  <1>12. Cut(f, y, se, du2, dn)
    BY <1>1, <1>4, <1>6, <1>7, <1>8, <1>9, <1>10, <1>11 DEF Cut, Busy
  <1>13. ~Transient => Stands(f, y, se, du2, dn, ra)
    BY <1>4 DEF TxInv, Stands, Busy
  <1>14. NoReply.kind \notin {"failed", "masked", "lost"}
    BY DEF NoReply
  <1> QED BY <1>4, <1>5, <1>12, <1>13, <1>14 DEF TxInv

-----------------------------------------------------------------------------
(* A flight *)

\* What the invariant says of the statements that are still to be run.
LEMMA BusyFacts ==
    ASSUME NEW f, NEW x, NEW se, NEW du, NEW dn, NEW ra, NEW re,
           TxInv(f, x, se, du, dn, ra, re), x.pc \in Busy
    PROVE  /\ x \in Tx /\ se \in Session /\ se.durable = <<>> /\ ra \in Seq(Nat)
           /\ du \in Seq(Sql) /\ dn \in Seq(Stmts) /\ dn \in Seq(Sql)
           /\ x.sent \in Seq(Sql) /\ AllOf(x) \in Seq(Sql) /\ Len(x.sent) \in Nat /\ Len(AllOf(x)) \in Nat
           /\ Whole(du, dn) \in Seq(Sql) /\ Shape(Whole(du, dn))
           /\ x.sent \o AllOf(x) = Whole(du, dn)
           /\ Len(Whole(du, dn)) = Len(x.sent) + Len(AllOf(x))
           /\ \A i \in 1..Len(AllOf(x)) : Whole(du, dn)[Len(x.sent) + i] = AllOf(x)[i]
           /\ ~Transient => \A k \in 1..Len(ra) : ra[k] = 0
           /\ x.queued = <<>> /\ re.kind \notin {"failed", "masked", "lost"}
  <1>1. /\ x \in Tx /\ se \in Session /\ se.durable = <<>> /\ ra \in Seq(Nat)
        /\ du \in Seq(Sql) /\ dn \in Seq(Stmts) /\ dn \in Seq(Sql)
        /\ Shape(Whole(du, dn)) /\ x.sent \o AllOf(x) = Whole(du, dn)
        /\ ~Transient => \A k \in 1..Len(ra) : ra[k] = 0
        /\ x.queued = <<>> /\ re.kind \notin {"failed", "masked", "lost"}
    BY DEF TxInv, Kinds, Cut, Busy, Stands
  <1>2. x.sent \in Seq(Sql) /\ x.ahead \in Seq(Sql) /\ x.stmts \in Seq(Sql)
    BY <1>1 DEF Tx
  <1>3. AllOf(x) \in Seq(Sql)
    BY <1>2, ConcatFacts DEF AllOf
  <1> DEFINE sn == x.sent
             al == AllOf(x)
             w == Whole(du, dn)
  <1>4. sn \in Seq(Sql) /\ al \in Seq(Sql) /\ w = sn \o al
    BY <1>1, <1>2, <1>3
  <1> HIDE DEF sn, al, w
  <1>5. /\ Len(sn) \in Nat /\ Len(al) \in Nat
        /\ w \in Seq(Sql) /\ Len(w) = Len(sn) + Len(al)
        /\ \A i \in 1..Len(al) : w[Len(sn) + i] = al[i]
    BY <1>4, ConcatFacts
  <1> QED BY <1>1, <1>4, <1>5 DEF sn, al, w

\* The flight is a piece of what is to be run.
LEMMA FlightPiece ==
    ASSUME NEW all \in Seq(Sql), NEW start \in 1..Len(all), NEW end \in (start + 1)..(Len(all) + 1),
           NEW flight, flight = SubSeq(all, start, end - 1)
    PROVE  /\ flight \in Seq(Sql) /\ Len(flight) = end - start /\ DOMAIN flight = 1..Len(flight)
           /\ \A k \in 1..Len(flight) : flight[k] = all[start + k - 1]
  OBVIOUS

\* in_order sends no more than the flight.
LEMMA SentBound ==
    ASSUME NEW flight \in Seq(Sql)
    PROVE  SentOf(flight) \in 0..Len(flight)
  <1> DEFINE U == {k \in DOMAIN flight : fault[flight[k]] = "encode"}
  <1>1. U \subseteq 1..Len(flight) /\ U \subseteq Nat /\ Len(flight) \in Nat
    OBVIOUS
  <1>2. SentOf(flight) = IF U = {} THEN Len(flight) ELSE (CHOOSE k \in U : \A j \in U : k <= j) - 1
    BY DEF SentOf
  <1> HIDE DEF U
  <1>3. CASE U = {}
    BY <1>1, <1>2, <1>3
  <1>4. CASE U # {}
    <2>1. \E k \in U : \A j \in U : k <= j
      BY <1>1, <1>4, NatMin
    <2> DEFINE c == CHOOSE k \in U : \A j \in U : k <= j
    <2>2. c \in U
      BY <2>1
    <2> HIDE DEF c
    <2>3. c \in 1..Len(flight)
      BY <1>1, <2>2
    <2> QED BY <1>1, <1>2, <1>4, <2>3 DEF c
  <1> QED BY <1>3, <1>4

\* The flight's place in what is to be run, by number alone: q statements were sent
\* before, and it runs from st to en - 1 of the la that are to be run.
LEMMA FlightNumbers ==
    ASSUME NEW q \in Nat, NEW la \in Nat, NEW st \in 1..la, NEW en \in (st + 1)..(la + 1),
           NEW lf \in Int, lf = en - st, NEW n \in Int, n = q + st - 1,
           NEW lw \in Int, lw = q + la
    PROVE  /\ n \in Nat /\ lf \in Nat /\ lf >= 1 /\ lw \in Nat
           /\ n + lf = q + en - 1 /\ n + lf <= lw
           /\ n + lf = lw <=> en > la
           /\ en \in Nat /\ en >= 1 /\ en <= la + 1
           /\ \A k \in 1..lf : st + k - 1 \in 1..la /\ q + (st + k - 1) = n + k
  OBVIOUS

\* Where a transaction is in its whole, and the flight it sends from there.
FlightFrom(x) == SubSeq(AllOf(x), x.start, x.end - 1)
Ran(x) == Len(x.sent) + x.start - 1

\* The flight fl is what w has from n on; the sessions a are those along its first
\* m statements.
PieceOf(fl, w, n) == n \in Nat /\ n + Len(fl) <= Len(w) /\ \A k \in 1..Len(fl) : fl[k] = w[n + k]
Along(f, a, fl, m) == \A k \in 1..m : a[k] = After(a[k - 1], fl[k], f)

\* A flight from where the session is, where it gets.
LEMMA FlightRuns ==
    ASSUME NEW f \in Faults, NEW w, Shape(w), NEW fl \in Seq(Sql), NEW n, PieceOf(fl, w, n),
           NEW m \in 0..Len(fl), NEW a, a[0] \in Session, Good(f, a[0], w, n), Along(f, a, fl, m)
    PROVE  \A k \in 0..m : Reached(f, a, fl, w, n, k)
  <1>1. n \in Nat /\ Len(fl) \in Nat /\ Len(w) \in Nat /\ m \in Nat /\ m <= Len(fl) /\ n + Len(fl) <= Len(w)
    BY DEF PieceOf, Shape
  <1>2. n + m <= Len(w) /\ \A k \in 1..m : k \in 1..Len(fl)
    <2> DEFINE lf == Len(fl)
               lw == Len(w)
    <2>1. n \in Nat /\ lf \in Nat /\ lw \in Nat /\ m \in Nat /\ m <= lf /\ n + lf <= lw
      BY <1>1
    <2> HIDE DEF lf, lw
    <2>2. n + m <= lw /\ \A k \in 1..m : k \in 1..lf
      BY <2>1
    <2> QED BY <2>2 DEF lf, lw
  <1>3. \A k \in 1..m : fl[k] = w[n + k]
    BY <1>2 DEF PieceOf
  <1>4. \A k \in 1..m : a[k] = After(a[k - 1], fl[k], f)
    BY DEF Along
  <1> QED BY <1>1, <1>2, <1>3, <1>4, FlightReaches

\* A flight of a transaction that is where the invariant says, and where it gets.
LEMMA FlightOfTx ==
    ASSUME NEW f \in Faults, NEW x, NEW se, NEW du, NEW dn, NEW ra, NEW re,
           TxInv(f, x, se, du, dn, ra, re), x.pc = "fly",
           NEW fl, fl = FlightFrom(x),
           NEW w, w = Whole(du, dn),
           NEW n, n = Ran(x)
    PROVE  /\ fl \in Seq(Sql) /\ Len(fl) \in Nat /\ Len(fl) >= 1 /\ n \in Nat
           /\ Shape(w) /\ Len(w) \in Nat
           /\ DOMAIN fl = 1..Len(fl)
           /\ n + Len(fl) = Len(x.sent) + x.end - 1
           /\ n + Len(fl) <= Len(w)
           /\ Len(w) = Len(x.sent) + Len(AllOf(x))
           /\ n + Len(fl) = Len(w) <=> x.end > Len(AllOf(x))
           /\ x.end \in Nat /\ x.end >= 1 /\ x.end <= Len(AllOf(x)) + 1
           /\ PieceOf(fl, w, n) /\ Good(f, se, w, n) /\ se \in Session
  <1> DEFINE all == AllOf(x)
             sn == x.sent
             st == x.start
             en == x.end
  <1>1. x.pc \in Busy
    BY DEF Busy
  <1>2. /\ sn \in Seq(Sql) /\ all \in Seq(Sql)
        /\ Shape(w) /\ w \in Seq(Sql) /\ Len(w) = Len(sn) + Len(all)
        /\ \A i \in 1..Len(all) : w[Len(sn) + i] = all[i]
        /\ se \in Session
    BY <1>1, BusyFacts
  <1>3. /\ st \in 1..Len(all) /\ en \in (st + 1)..(Len(all) + 1)
        /\ n = Len(sn) + st - 1
        /\ fl = SubSeq(all, st, en - 1)
    BY DEF TxInv, Cut, Ran, FlightFrom
  <1>4. Good(f, se, w, n)
    BY DEF TxInv, Cut, Ran
  <1> HIDE DEF all, sn, st, en
  <1>5. /\ fl \in Seq(Sql) /\ Len(fl) = en - st /\ DOMAIN fl = 1..Len(fl)
        /\ \A k \in 1..Len(fl) : fl[k] = all[st + k - 1]
    BY <1>2, <1>3, FlightPiece, SMTT(90)
  <1> DEFINE q == Len(sn)
             la == Len(all)
             lf == Len(fl)
             lw == Len(w)
  <1>6. /\ q \in Nat /\ la \in Nat /\ st \in 1..la /\ en \in (st + 1)..(la + 1)
        /\ lf = en - st /\ n = q + st - 1 /\ lw = q + la
        /\ lf \in Int /\ n \in Int /\ lw \in Int
    <2>1. Len(sn) \in Nat /\ Len(all) \in Nat
      BY <1>2
    <2> QED BY <1>2, <1>3, <1>5, <2>1
  <1>7. /\ \A i \in 1..la : w[q + i] = all[i]
        /\ \A k \in 1..lf : fl[k] = all[st + k - 1]
    BY <1>2, <1>5
  <1> HIDE DEF q, la, lf, lw
  <1>8. /\ n \in Nat /\ lf \in Nat /\ lf >= 1 /\ lw \in Nat
        /\ n + lf = q + en - 1 /\ n + lf <= lw
        /\ n + lf = lw <=> en > la
        /\ en \in Nat /\ en >= 1 /\ en <= la + 1
        /\ \A k \in 1..lf : st + k - 1 \in 1..la /\ q + (st + k - 1) = n + k
    BY <1>6, FlightNumbers
  <1>9. ASSUME NEW k \in 1..lf PROVE fl[k] = w[n + k]
    <2>1. st + k - 1 \in 1..la /\ q + (st + k - 1) = n + k
      BY <1>8
    <2>2. fl[k] = all[st + k - 1]
      BY <1>7
    <2>3. w[q + (st + k - 1)] = all[st + k - 1]
      BY <1>7, <2>1
    <2> QED BY <2>1, <2>2, <2>3
  <1>10. PieceOf(fl, w, n)
    BY <1>8, <1>9 DEF PieceOf, lf, lw
  <1> QED BY <1>2, <1>4, <1>5, <1>8, <1>10 DEF all, sn, st, en, q, la, lf, lw

\* The session after the first m statements of the flight of a transaction.
LEMMA FlightGets ==
    ASSUME NEW f \in Faults, NEW x, NEW se, NEW du, NEW dn, NEW ra, NEW re,
           TxInv(f, x, se, du, dn, ra, re), x.pc = "fly",
           NEW fl, fl = FlightFrom(x), NEW m \in 0..Len(fl),
           NEW a, a[0] = se, Along(f, a, fl, m), NEW k \in 0..m
    PROVE  Reached(f, a, fl, Whole(du, dn), Ran(x), k)
  <1> DEFINE w == Whole(du, dn)
             n == Ran(x)
  <1>1. fl \in Seq(Sql) /\ Shape(w) /\ PieceOf(fl, w, n) /\ Good(f, se, w, n) /\ se \in Session
    BY FlightOfTx
  <1> HIDE DEF w, n
  <1>2. a[0] \in Session /\ Good(f, a[0], w, n)
    BY <1>1
  <1>3. Reached(f, a, fl, w, n, k)
    BY <1>1, <1>2, FlightRuns
  <1> QED BY <1>3 DEF w, n

\* What a commit leaves durable is what was answered and due, without the COMMIT.
LEMMA CommitLeaves ==
    ASSUME NEW du \in Seq(Sql), NEW dn \in Seq(Sql), NEW w, w = Whole(du, dn), w[Len(w)] = Commit
    PROVE  /\ dn \o du # <<>> /\ (dn \o du)[Len(dn \o du)] = Commit
           /\ SubSeq(w, 2, Len(w) - 1) = SubSeq(dn \o du, 1, Len(dn \o du) - 1)
  <1> DEFINE b == <<Begin>>
             v == dn \o du
  <1>1. v \in Seq(Sql) /\ Len(v) \in Nat
    BY ConcatFacts
  <1>2. b \in Seq(Sql) /\ Len(b) = 1 /\ b[1] = Begin /\ w = b \o v
    BY DEF Sql, Whole
  <1> HIDE DEF b, v
  <1>3. w \in Seq(Sql) /\ Len(w) = 1 + Len(v) /\ w[1] = Begin /\ \A i \in 1..Len(v) : w[1 + i] = v[i]
    <2>1. /\ w \in Seq(Sql) /\ Len(w) = Len(b) + Len(v)
          /\ \A i \in 1..Len(b) : w[i] = b[i]
          /\ \A i \in 1..Len(v) : w[Len(b) + i] = v[i]
      <3> DEFINE u == b \o v
      <3>1. /\ u \in Seq(Sql) /\ Len(u) = Len(b) + Len(v)
            /\ \A i \in 1..Len(b) : u[i] = b[i]
            /\ \A i \in 1..Len(v) : u[Len(b) + i] = v[i]
        BY <1>1, <1>2, ConcatFacts
      <3>2. w = u
        BY <1>2
      <3> HIDE DEF u
      <3> QED BY <3>1, <3>2
    <2>2. 1 \in 1..1
      OBVIOUS
    <2> QED BY <1>2, <2>1, <2>2
  <1>4. Len(v) # 0
    BY <1>3, StatementAssumption
  <1>5. Len(v) \in 1..Len(v) /\ 1 + Len(v) = Len(w)
    BY <1>1, <1>3, <1>4
  <1>6. v # <<>> /\ v[Len(v)] = Commit
    BY <1>3, <1>4, <1>5
  <1>7. SubSeq(w, 2, Len(w) - 1) = SubSeq(v, 1, Len(v) - 1)
    <2> DEFINE l == Len(v)
    <2>1. l \in Nat \ {0} /\ Len(w) = 1 + l /\ Len(w) - 1 = l /\ l - 1 \in Nat
      BY <1>1, <1>3, <1>4
    <2>2. /\ SubSeq(w, 2, l) \in Seq(Sql) /\ Len(SubSeq(w, 2, l)) = l - 1
          /\ \A i \in 1..(l - 1) : SubSeq(w, 2, l)[i] = w[1 + i]
      BY <1>3, <2>1
    <2>3. /\ SubSeq(v, 1, l - 1) \in Seq(Sql) /\ Len(SubSeq(v, 1, l - 1)) = l - 1
          /\ \A i \in 1..(l - 1) : SubSeq(v, 1, l - 1)[i] = v[i]
      BY <1>1, <2>1
    <2>4. \A i \in 1..(l - 1) : i \in 1..Len(v)
      BY <2>1
    <2>5. \A i \in 1..(l - 1) : SubSeq(w, 2, l)[i] = SubSeq(v, 1, l - 1)[i]
      BY <1>3, <2>2, <2>3, <2>4
    <2>6. SubSeq(w, 2, l) = SubSeq(v, 1, l - 1)
      BY <2>2, <2>3, <2>5, SeqEqual
    <2> QED BY <2>1, <2>6
  <1> QED BY <1>6, <1>7 DEF v

\* Nothing in the whole fails where nothing failed before its end, so this is no
\* run after the first.
LEMMA FirstRun ==
    ASSUME NEW f, NEW x, NEW se, NEW du, NEW dn, NEW ra, NEW re,
           TxInv(f, x, se, du, dn, ra, re), x.pc \in Busy,
           \A i \in 1..Len(Whole(du, dn)) : f[Whole(du, dn)[i]] = "none"
    PROVE  ~Transient => x.runs = 0
  BY DEF TxInv, Stands

\* The answers of a call, and the run each is from.
RunsOf(ra, du, runs) == ra \o [k \in DOMAIN du |-> runs]

LEMMA RunsAre ==
    ASSUME NEW ra \in Seq(Nat), NEW du \in Seq(Sql), NEW runs \in Nat
    PROVE  /\ RunsOf(ra, du, runs) \in Seq(Nat)
           /\ (\A k \in 1..Len(ra) : ra[k] = 0) /\ runs = 0 =>
                 \A k \in 1..Len(RunsOf(ra, du, runs)) : RunsOf(ra, du, runs)[k] = 0
  <1> DEFINE g == [k \in DOMAIN du |-> runs]
             r == ra \o g
  <1>1. Len(du) \in Nat /\ DOMAIN du = 1..Len(du)
    OBVIOUS
  <1>2. g \in Seq(Nat) /\ Len(g) = Len(du) /\ \A k \in 1..Len(du) : g[k] = runs
    BY <1>1
  <1> HIDE DEF g
  <1>3. /\ r \in Seq(Nat) /\ Len(ra) \in Nat /\ Len(r) = Len(ra) + Len(g)
        /\ \A i \in 1..Len(r) : r[i] = IF i <= Len(ra) THEN ra[i] ELSE g[i - Len(ra)]
    <2>1. g \in Seq(Nat) /\ ra \in Seq(Nat)
      BY <1>2
    <2>2. /\ ra \o g \in Seq(Nat) /\ Len(ra \o g) = Len(ra) + Len(g)
          /\ \A i \in 1..(Len(ra) + Len(g)) :
                (ra \o g)[i] = IF i <= Len(ra) THEN ra[i] ELSE g[i - Len(ra)]
      BY <2>1, ConcatProperties
    <2>3. r = ra \o g /\ Len(ra) \in Nat
      OBVIOUS
    <2> HIDE DEF r
    <2> QED BY <2>2, <2>3
  <1> HIDE DEF r
  <1>4. ASSUME \A k \in 1..Len(ra) : ra[k] = 0, runs = 0, NEW i \in 1..Len(r) PROVE r[i] = 0
    <2>1. CASE i <= Len(ra)
      <3>1. i \in 1..Len(ra)
        BY <1>3, <2>1
      <3> QED BY <1>3, <1>4, <2>1, <3>1
    <2>2. CASE ~(i <= Len(ra))
      <3>1. i - Len(ra) \in 1..Len(du)
        BY <1>1, <1>2, <1>3, <2>2
      <3> QED BY <1>2, <1>3, <1>4, <2>2, <3>1
    <2> QED BY <2>1, <2>2
  <1>5. r = RunsOf(ra, du, runs)
    BY DEF RunsOf, r, g
  <1> QED BY <1>3, <1>4, <1>5

\* SocketTx after a flight that was answered: on to the next one, or back to the
\* caller.
FlownOn(x, typed) == [x EXCEPT !.pc = "begin", !.start = x.end, !.typed = typed]
FlownHome(x, typed) ==
    [x EXCEPT !.pc = IF AllOf(x)[Len(AllOf(x))] = Commit THEN "over" ELSE "ready",
              !.sent = x.sent \o AllOf(x), !.typed = typed]

LEMMA FlightWasGood ==
    ASSUME NEW f, NEW a, NEW fl, NEW w, NEW n, NEW m, Reached(f, a, fl, w, n, m),
           \A j \in 1..m : Outcome(a[j - 1], fl[j], f) = "ok"
    PROVE  a[m] \in Session /\ (Good(f, a[m], w, n + m) \/ (Finished(f, a[m], w) /\ n + m = Len(w)))
  BY DEF Reached

LEMMA FlownOnKeeps ==
    ASSUME NEW f \in Faults, NEW x, NEW se, NEW du, NEW dn, NEW ra, NEW re,
           TxInv(f, x, se, du, dn, ra, re), x.pc = "fly", ~(x.end > Len(AllOf(x))),
           NEW fl, fl = FlightFrom(x), NEW se2 \in Session,
           \/ Good(f, se2, Whole(du, dn), Ran(x) + Len(fl))
           \/ Finished(f, se2, Whole(du, dn)) /\ Ran(x) + Len(fl) = Len(Whole(du, dn)),
           NEW typed \in SUBSET Sql,
           NEW y, y = FlownOn(x, typed)
    PROVE  TxInv(f, y, se2, du, dn, ra, re)
  <1> DEFINE w == Whole(du, dn)
             n == Ran(x)
  <1>1. x.pc \in Busy
    BY DEF Busy
  <1>2. /\ x \in Tx /\ ra \in Seq(Nat) /\ du \in Seq(Sql) /\ dn \in Seq(Stmts) /\ dn \in Seq(Sql)
        /\ Shape(w) /\ x.sent \o AllOf(x) = w /\ x.queued = <<>>
        /\ re.kind \notin {"failed", "masked", "lost"}
        /\ Len(AllOf(x)) \in Nat
    BY <1>1, BusyFacts
  <1>3. /\ n + Len(fl) = Len(x.sent) + x.end - 1
        /\ n + Len(fl) = Len(w) <=> x.end > Len(AllOf(x))
        /\ x.end \in Nat /\ x.end >= 1 /\ x.end <= Len(AllOf(x)) + 1
    BY FlightOfTx
  <1>4. Good(f, se2, w, Len(x.sent) + x.end - 1) /\ se2.durable = <<>>
    <2>1. Good(f, se2, w, n + Len(fl))
      BY <1>3
    <2> HIDE DEF w, n
    <2>2. se2.durable = <<>>
      BY <2>1 DEF Good
    <2> QED BY <1>3, <2>1, <2>2
  <1>5. /\ y \in Tx /\ y.pc = "begin" /\ y.sent = x.sent /\ y.ahead = x.ahead /\ y.stmts = x.stmts
        /\ y.queued = <<>> /\ y.start = x.end /\ y.runs = x.runs
    <2>1. x.end \in Nat /\ typed \in SUBSET Sql
      BY <1>3
    <2> QED BY <1>2, <2>1 DEF Tx, Busy, FlownOn
  <1>6. AllOf(y) = AllOf(x)
    BY <1>5 DEF AllOf
  <1>7. y.start \in 1..Len(AllOf(y))
    <2> DEFINE la == Len(AllOf(x))
               en == x.end
    <2>1. la \in Nat /\ en \in Nat /\ en >= 1 /\ ~(en > la)
      BY <1>2, <1>3
    <2> HIDE DEF la, en
    <2>2. en \in 1..la
      BY <2>1
    <2> QED BY <1>5, <1>6, <2>2 DEF la, en
  <1>8. Kinds(y, se2, du, dn, ra)
    BY <1>2, <1>4, <1>5 DEF Kinds
  <1>9. Cut(f, y, se2, du, dn)
    BY <1>2, <1>4, <1>5, <1>6, <1>7 DEF Cut
  <1>10. ~Transient => Stands(f, y, se2, du, dn, ra)
    BY <1>5 DEF TxInv, Stands, Busy
  <1> QED BY <1>2, <1>5, <1>8, <1>9, <1>10 DEF TxInv

\* A whole whose last statement is not COMMIT has no COMMIT, and all of it is answered.
LEMMA WholeOfStmts ==
    ASSUME NEW du \in Seq(Sql), NEW dn \in Seq(Sql), NEW w, w = Whole(du, dn),
           Shape(w), w[Len(w)] # Commit
    PROVE  dn \o du \in Seq(Stmts)
  <1> DEFINE v == dn \o du
  <1>1. /\ v \in Seq(Sql) /\ Len(v) = Len(dn) + Len(du) /\ Len(dn) \in Nat /\ Len(du) \in Nat
        /\ \A i \in 1..Len(dn) : v[i] = dn[i]
        /\ \A i \in 1..Len(du) : v[Len(dn) + i] = du[i]
    BY ConcatFacts
  <1>2. /\ w \in Seq(Sql) /\ Len(w) = 1 + Len(dn) + Len(du)
        /\ \A i \in 1..Len(dn) : w[1 + i] = dn[i]
        /\ \A i \in 1..Len(du) : w[1 + Len(dn) + i] = du[i]
    BY WholeIs
  <1>3. /\ \A i \in 2..Len(w) : w[i] # Begin
        /\ \A i \in 2..(Len(w) - 1) : w[i] \in Stmts
    BY DEF Shape
  <1> HIDE DEF v
  <1> DEFINE p == Len(dn)
             q == Len(du)
             l == Len(w)
  <1>4. p \in Nat /\ q \in Nat /\ l = 1 + p + q /\ Len(v) = p + q
    BY <1>1, <1>2
  <1>5. ASSUME NEW i \in 2..l PROVE w[i] \in Stmts
    <2>1. w[i] \in Sql /\ w[i] # Begin
      BY <1>2, <1>3, <1>4
    <2>2. i # l => i \in 2..(l - 1)
      BY <1>4
    <2>3. CASE i = l
      BY <2>1, <2>3 DEF Sql
    <2> QED BY <1>3, <2>2, <2>3
  <1>6. ASSUME NEW i \in 1..(p + q) PROVE v[i] \in Stmts
    <2>1. CASE i <= p
      <3>1. i \in 1..p /\ 1 + i \in 2..l
        BY <1>4, <2>1
      <3>2. v[i] = w[1 + i]
        BY <1>1, <1>2, <3>1
      <3> QED BY <1>5, <3>1, <3>2
    <2>2. CASE ~(i <= p)
      <3> DEFINE j == i - p
      <3>1. j \in 1..q /\ p + j = i /\ 1 + p + j \in 2..l
        BY <1>4, <2>2
      <3> HIDE DEF j
      <3>2. v[p + j] = du[j] /\ w[1 + p + j] = du[j]
        BY <1>1, <1>2, <3>1
      <3>3. w[1 + p + j] \in Stmts
        <4> HIDE DEF l, p
        <4> QED BY <1>5, <3>1
      <3> QED BY <3>1, <3>2, <3>3
    <2> QED BY <2>1, <2>2
  <1>7. v \in [1..(p + q) -> Stmts] /\ p + q \in Nat
    BY <1>1, <1>4, <1>6
  <1>8. v \in Seq(Stmts)
    <2> HIDE DEF p, q
    <2>1. \E r \in Nat : v \in [1..r -> Stmts]
      BY <1>7
    <2> QED BY <2>1, SeqDef
  <1> QED BY <1>8 DEF v

LEMMA FlownHomeKeeps ==
    ASSUME NEW f \in Faults, NEW x, NEW se, NEW du, NEW dn, NEW ra, NEW re,
           TxInv(f, x, se, du, dn, ra, re), x.pc = "fly", x.end > Len(AllOf(x)),
           NEW fl, fl = FlightFrom(x), NEW se2 \in Session,
           \/ Good(f, se2, Whole(du, dn), Ran(x) + Len(fl))
           \/ Finished(f, se2, Whole(du, dn)) /\ Ran(x) + Len(fl) = Len(Whole(du, dn)),
           NEW typed \in SUBSET Sql,
           NEW y, y = FlownHome(x, typed)
    PROVE  TxInv(f, y, se2, <<>>, dn \o du, RunsOf(ra, du, x.runs), Ok)
  <1> DEFINE w == Whole(du, dn)
             n == Ran(x)
             dn2 == dn \o du
             ra2 == RunsOf(ra, du, x.runs)
             al == AllOf(x)
  <1>1. x.pc \in Busy
    BY DEF Busy
  <1>2. /\ x \in Tx /\ ra \in Seq(Nat) /\ du \in Seq(Sql) /\ dn \in Seq(Stmts) /\ dn \in Seq(Sql)
        /\ w \in Seq(Sql) /\ Shape(w) /\ x.sent \o al = w /\ x.queued = <<>>
        /\ x.sent \in Seq(Sql) /\ al \in Seq(Sql)
        /\ Len(al) \in Nat /\ Len(x.sent) \in Nat
        /\ Len(w) = Len(x.sent) + Len(al)
        /\ \A i \in 1..Len(al) : w[Len(x.sent) + i] = al[i]
        /\ ~Transient => \A k \in 1..Len(ra) : ra[k] = 0
    BY <1>1, BusyFacts
  <1>3. n + Len(fl) = Len(w) /\ x.start \in 1..Len(al)
    <2>1. n + Len(fl) = Len(w)
      BY FlightOfTx
    <2>2. x.start \in 1..Len(al)
      BY DEF TxInv, Cut
    <2> QED BY <2>1, <2>2
  <1>4. w[Len(w)] = al[Len(al)]
    <2> DEFINE la == Len(al)
    <2>1. la \in Nat /\ 1..la # {}
      BY <1>2, <1>3
    <2>2. la \in 1..la
      BY <2>1
    <2> QED BY <1>2, <2>2
  <1>5. Good(f, se2, w, Len(w)) \/ Finished(f, se2, w)
    BY <1>3
  <1>6. x.runs \in Nat
    BY <1>2 DEF Tx
  <1>7. Len(w) \in 1..Len(w)
    BY <1>2 DEF Shape
  <1>8. \A i \in 1..Len(w) : f[w[i]] = "none"
    BY <1>5 DEF Good, Finished
  <1>9. ~Transient => x.runs = 0
    BY <1>1, <1>8, FirstRun
  <1>10. ra2 \in Seq(Nat) /\ (~Transient => \A k \in 1..Len(ra2) : ra2[k] = 0)
    BY <1>2, <1>6, <1>9, RunsAre
  <1>11. /\ y \in Tx /\ y.sent = w /\ y.queued = <<>> /\ y.runs = x.runs
         /\ y.pc = IF al[Len(al)] = Commit THEN "over" ELSE "ready"
    <2>1. x.sent \o al \in Seq(Sql) /\ typed \in SUBSET Sql
      BY <1>2
    <2> HIDE DEF al, w
    <2> QED BY <1>2, <2>1 DEF Tx, FlownHome, al
  <1>12. <<>> \in Seq(Sql) /\ <<>> \in Seq(Stmts) /\ dn2 \in Seq(Sql)
         /\ dn2 \o <<>> = dn2
    BY <1>2, ConcatFacts
  <1>13. Whole(<<>>, dn2) = w
    BY <1>12 DEF Whole
  <1>14. CASE w[Len(w)] = Commit
    <2>1. Finished(f, se2, w)
      BY <1>5, <1>7, <1>14 DEF Good
    <2>2. y.pc = "over"
      BY <1>4, <1>11, <1>14
    <2>3. /\ dn2 # <<>> /\ dn2[Len(dn2)] = Commit
          /\ se2.durable = SubSeq(dn2, 1, Len(dn2) - 1)
      <3>1. se2.durable = SubSeq(w, 2, Len(w) - 1)
        BY <2>1 DEF Finished
      <3> QED BY <1>2, <1>14, <3>1, CommitLeaves
    <2> HIDE DEF dn2, ra2, w
    <2>4. Kinds(y, se2, <<>>, dn2, ra2)
      BY <1>10, <1>11, <1>12, <2>2 DEF Kinds
    <2>5. Cut(f, y, se2, <<>>, dn2)
      BY <2>2 DEF Cut, Busy
    <2>6. Told(se2, <<>>, dn2, Ok)
      BY <1>12, <2>3 DEF Told, Ok
    <2>7. ~Transient => Stands(f, y, se2, <<>>, dn2, ra2)
      BY <1>9, <1>10, <1>11, <2>2 DEF Stands, Busy
    <2>8. TxInv(f, y, se2, <<>>, dn2, ra2, Ok)
      BY <2>2, <2>4, <2>5, <2>6, <2>7 DEF TxInv
    <2> QED BY <2>8 DEF dn2, ra2
  <1>15. CASE w[Len(w)] # Commit
    <2>1. Good(f, se2, w, Len(w)) /\ se2.durable = <<>>
      BY <1>5, <1>15 DEF Finished, Good
    <2>2. y.pc = "ready"
      BY <1>4, <1>11, <1>15
    <2>3. dn2 \in Seq(Stmts)
      BY <1>2, <1>15, WholeOfStmts
    <2>4. w \o <<>> = w
      <3> HIDE DEF w
      <3> QED BY <1>2
    <2> HIDE DEF dn2, ra2, w
    <2>5. Kinds(y, se2, <<>>, dn2, ra2)
      BY <1>10, <1>11, <1>12, <2>1, <2>3 DEF Kinds
    <2>6. Cut(f, y, se2, <<>>, dn2)
      BY <1>11, <1>12, <1>13, <2>1, <2>2, <2>4 DEF Cut, Busy
    <2>7. ~Transient => Stands(f, y, se2, <<>>, dn2, ra2)
      BY <1>10, <2>2 DEF Stands, Busy
    <2>8. Ok.kind \notin {"failed", "masked", "lost"}
      BY DEF Ok
    <2>9. TxInv(f, y, se2, <<>>, dn2, ra2, Ok)
      BY <2>2, <2>5, <2>6, <2>7, <2>8 DEF TxInv
    <2> QED BY <2>9 DEF dn2, ra2
  <1> QED BY <1>14, <1>15

\* Where every answer is an `Ok`, all of the flight was sent and went well.
LEMMA AllAnswered ==
    ASSUME NEW t, NEW fl \in Seq(Sql), Len(fl) >= 1, NEW a,
           \A k \in 1..Len(fl) : AnswerTo(t, fl, a, k) = "ok"
    PROVE  /\ SentOf(fl) = Len(fl)
           /\ \A k \in 1..Len(fl) : Outcome(a[k - 1], fl[k], fault) = "ok"
  <1> DEFINE m == SentOf(fl)
             l == Len(fl)
  <1>1. m \in 0..l /\ l \in Nat /\ l >= 1
    BY SentBound
  <1>2. \A k \in 1..l : ~(k > m) /\ Outcome(a[k - 1], fl[k], fault) = "ok"
    <2> SUFFICES ASSUME NEW k \in 1..l PROVE ~(k > m) /\ Outcome(a[k - 1], fl[k], fault) = "ok"
      OBVIOUS
    <2>1. AnswerTo(t, fl, a, k) = "ok"
      OBVIOUS
    <2> QED BY <2>1 DEF AnswerTo
  <1> HIDE DEF m, l
  <1>3. l \in 1..l
    BY <1>1
  <1>4. m = l
    <2>1. ~(l > m)
      BY <1>2, <1>3
    <2> QED BY <1>1, <2>1
  <1> QED BY <1>2, <1>4 DEF m, l

\* Where some answer is not, the session keeps nothing; and a 25P02 comes of a
\* statement that failed.
LEMMA SomeFailed ==
    ASSUME NEW t, NEW w, NEW n \in Nat, Len(w) \in Nat, NEW fl \in Seq(Sql), n + Len(fl) <= Len(w), NEW a,
           Reached(fault, a, fl, w, n, SentOf(fl)), NEW k \in 1..Len(fl), AnswerTo(t, fl, a, k) # "ok"
    PROVE  /\ a[SentOf(fl)] \in Session /\ a[SentOf(fl)].durable = <<>>
           /\ AnswerTo(t, fl, a, k) = "25P02" => \E i \in 1..Len(w) : fault[w[i]] # "none"
  <1> DEFINE m == SentOf(fl)
             l == Len(fl)
             lw == Len(w)
             se == a[m]
  <1>1. m \in 0..l /\ l \in Nat /\ k \in 1..l /\ lw \in Nat /\ n + l <= lw
    BY SentBound
  <1>2. /\ se \in Session
        /\ \/ /\ Good(fault, se, w, n + m) \/ (Finished(fault, se, w) /\ n + m = lw)
              /\ \A j \in 1..m : Outcome(a[j - 1], fl[j], fault) = "ok"
           \/ Spoilt(fault, se, w, n + m)
    BY DEF Reached
  <1>3. AnswerTo(t, fl, a, k) =
          IF k > m THEN "error"
          ELSE IF LooksUp(t, fl, a, k) /\ se.state = "aborted" THEN "25P02"
          ELSE Outcome(a[k - 1], fl[k], fault)
    BY DEF AnswerTo
  <1> HIDE DEF m, l, lw, se
  <1>4. Good(fault, se, w, n + m) => se.durable = <<>> /\ se.state # "aborted"
    <2>1. n + m = 0 \/ n + m > 0
      BY <1>1
    <2> QED BY <2>1 DEF Good
  <1>5. Spoilt(fault, se, w, n + m) => se.durable = <<>> /\ \E i \in 1..lw : fault[w[i]] # "none"
    <2> SUFFICES ASSUME Spoilt(fault, se, w, n + m)
                 PROVE  se.durable = <<>> /\ \E i \in 1..lw : fault[w[i]] # "none"
      OBVIOUS
    <2>1. se.durable = <<>>
      BY DEF Spoilt
    <2>2. PICK i \in 1..(n + m) : fault[w[i]] # "none"
      BY DEF Spoilt
    <2>3. i \in 1..lw
      BY <1>1
    <2> QED BY <2>1, <2>2, <2>3
  <1>6. CASE \A j \in 1..m : Outcome(a[j - 1], fl[j], fault) = "ok"
    <2>1. k > m \/ se.state = "aborted"
      <3>1. ~(k > m) => k \in 1..m
        BY <1>1
      <3> QED BY <1>3, <1>6, <3>1
    <2>2. ~(Finished(fault, se, w) /\ n + m = lw)
      <3>1. n + m = lw => ~(k > m)
        BY <1>1
      <3> QED BY <2>1, <3>1 DEF Finished
    <2>3. ASSUME ~Spoilt(fault, se, w, n + m) PROVE AnswerTo(t, fl, a, k) = "error"
      <3>1. se.state # "aborted"
        BY <1>2, <1>4, <2>2, <2>3
      <3> QED BY <1>3, <2>1, <3>1
    <2>4. se.durable = <<>>
      BY <1>2, <1>4, <1>5, <2>2
    <2>5. AnswerTo(t, fl, a, k) = "25P02" => \E i \in 1..lw : fault[w[i]] # "none"
      BY <1>5, <2>3
    <2> QED BY <1>2, <2>4, <2>5 DEF se, m, lw
  <1>7. CASE Spoilt(fault, se, w, n + m)
    BY <1>2, <1>5, <1>7 DEF se, m, lw
  <1> QED BY <1>2, <1>6, <1>7

-----------------------------------------------------------------------------
(* The other steps of `send` *)

\* SocketTx as each step leaves it.
Ended(x) == [x EXCEPT !.pc = "over"]
Flying(x, end, prepare) ==
    [x EXCEPT !.end = end, !.prepared = prepare, !.pc = IF prepare THEN "prepare" ELSE "fly"]
PreparedTx(x, s) == [x EXCEPT !.pc = "fly", !.typed = x.typed \cup {s}]
MaskedTx(x, at) == [x EXCEPT !.pc = "masked", !.masked = at]
RollingBack(x) == [x EXCEPT !.pc = "rollback"]
Again(x) ==
    [x EXCEPT !.pc = "begin", !.ahead = x.sent \o x.ahead, !.sent = <<>>, !.start = 1,
              !.runs = x.runs + 1]

\* A transaction that is over, with nothing committed.
LEMMA EndKeeps ==
    ASSUME NEW f, NEW x, NEW se, NEW du, NEW dn, NEW ra, NEW re, NEW re2,
           TxInv(f, x, se, du, dn, ra, re), x.pc # "over",
           NEW se2 \in Session, se2.durable = <<>>,
           NEW y, y = Ended(x)
    PROVE  TxInv(f, y, se2, du, dn, ra, re2)
  <1>1. /\ x \in Tx /\ du \in Seq(Sql) /\ dn \in Seq(Stmts) /\ ra \in Seq(Nat)
        /\ ~Transient => \A k \in 1..Len(ra) : ra[k] = 0
    BY DEF TxInv, Kinds, Stands
  <1>2. y \in Tx /\ y.pc = "over"
    BY <1>1 DEF Tx, Ended
  <1> QED BY <1>1, <1>2, OverEmpty

\* A step within `send` that keeps the statements, the run and the session.
LEMMA BusyKeeps ==
    ASSUME NEW f, NEW x, NEW se, NEW du, NEW dn, NEW ra, NEW re,
           TxInv(f, x, se, du, dn, ra, re), x.pc \in Busy,
           NEW y \in Tx, y.pc \in Busy, y.queued = x.queued, y.sent = x.sent, y.ahead = x.ahead,
           y.stmts = x.stmts, y.runs = x.runs, NEW se2 \in Session, se2.durable = <<>>,
           y.pc \in {"begin", "prepare", "fly"} =>
              /\ y.start \in 1..Len(AllOf(y))
              /\ Good(f, se2, Whole(du, dn), Len(y.sent) + y.start - 1),
           y.pc \in {"prepare", "fly"} => y.end \in (y.start + 1)..(Len(AllOf(y)) + 1),
           ~Transient /\ y.pc \in {"masked", "rollback"} =>
              \E i \in 1..Len(Whole(du, dn)) : f[Whole(du, dn)[i]] # "none"
    PROVE  TxInv(f, y, se2, du, dn, ra, re)
  <1>1. /\ x \in Tx /\ ra \in Seq(Nat) /\ du \in Seq(Sql) /\ dn \in Seq(Stmts) /\ dn \in Seq(Sql)
        /\ Shape(Whole(du, dn)) /\ x.sent \o AllOf(x) = Whole(du, dn) /\ x.queued = <<>>
        /\ re.kind \notin {"failed", "masked", "lost"}
        /\ ~Transient => \A k \in 1..Len(ra) : ra[k] = 0
    BY BusyFacts
  <1>2. AllOf(y) = AllOf(x)
    BY DEF AllOf
  <1>3. y.pc # "over" /\ y.pc # "new" /\ y.pc # "ready"
    BY DEF Busy
  <1>4. Kinds(y, se2, du, dn, ra)
    BY <1>1 DEF Kinds
  <1>5. Cut(f, y, se2, du, dn)
    BY <1>1, <1>2, <1>3 DEF Cut
  <1>6. ~Transient => Stands(f, y, se2, du, dn, ra)
    BY <1>1, <1>3 DEF TxInv, Stands
  <1> QED BY <1>1, <1>3, <1>4, <1>5, <1>6 DEF TxInv

LEMMA BeginKeeps ==
    ASSUME NEW f, NEW x, NEW se, NEW du, NEW dn, NEW ra, NEW re,
           TxInv(f, x, se, du, dn, ra, re), x.pc = "begin", NEW prepare \in BOOLEAN,
           NEW end \in (x.start + 1)..(Len(AllOf(x)) + 1),
           NEW y, y = Flying(x, end, prepare)
    PROVE  TxInv(f, y, se, du, dn, ra, re)
  <1>1. x \in Tx /\ se \in Session /\ se.durable = <<>> /\ x.pc \in Busy
        /\ x.start \in 1..Len(AllOf(x)) /\ Good(f, se, Whole(du, dn), Len(x.sent) + x.start - 1)
    BY DEF TxInv, Kinds, Cut, Busy
  <1>2. end \in Nat
    <2>1. x.start \in Nat
      BY <1>1 DEF Tx
    <2> QED BY <2>1
  <1>3. /\ y \in Tx /\ y.pc \in {"prepare", "fly"} /\ y.pc \in Busy
        /\ y.queued = x.queued /\ y.sent = x.sent /\ y.ahead = x.ahead /\ y.stmts = x.stmts
        /\ y.runs = x.runs /\ y.start = x.start /\ y.end = end
    BY <1>1, <1>2 DEF Tx, Busy, Flying
  <1>4. AllOf(y) = AllOf(x)
    BY <1>3 DEF AllOf
  <1>5. y.pc \notin {"masked", "rollback"}
    BY <1>3
  <1> QED BY <1>1, <1>3, <1>4, <1>5, BusyKeeps

LEMMA PrepareKeeps ==
    ASSUME NEW f, NEW x, NEW se, NEW du, NEW dn, NEW ra, NEW re,
           TxInv(f, x, se, du, dn, ra, re), x.pc = "prepare", NEW s \in Sql,
           NEW y, y = PreparedTx(x, s)
    PROVE  TxInv(f, y, se, du, dn, ra, re)
  <1>1. /\ x \in Tx /\ se \in Session /\ se.durable = <<>> /\ x.pc \in Busy
        /\ x.start \in 1..Len(AllOf(x)) /\ Good(f, se, Whole(du, dn), Len(x.sent) + x.start - 1)
        /\ x.end \in (x.start + 1)..(Len(AllOf(x)) + 1)
    BY DEF TxInv, Kinds, Cut, Busy
  <1>2. /\ y \in Tx /\ y.pc = "fly" /\ y.pc \in Busy
        /\ y.queued = x.queued /\ y.sent = x.sent /\ y.ahead = x.ahead /\ y.stmts = x.stmts
        /\ y.runs = x.runs /\ y.start = x.start /\ y.end = x.end
    <2>1. x.typed \cup {s} \in SUBSET Sql
      BY <1>1 DEF Tx
    <2> QED BY <1>1, <2>1 DEF Tx, Busy, PreparedTx
  <1>3. AllOf(y) = AllOf(x)
    BY <1>2 DEF AllOf
  <1>4. y.pc \notin {"masked", "rollback"}
    BY <1>2
  <1> QED BY <1>1, <1>2, <1>3, <1>4, BusyKeeps

\* A statement that is refused when it is prepared leaves nothing.
LEMMA RefusedLeaves ==
    ASSUME NEW f \in Faults, NEW x, NEW se, NEW du, NEW dn, NEW ra, NEW re,
           TxInv(f, x, se, du, dn, ra, re), x.pc = "prepare",
           NEW s, s = AllOf(x)[x.start], f[s] # "none"
    PROVE  s \in Sql /\ After(se, s, f) \in Session /\ After(se, s, f).durable = <<>>
  <1> DEFINE w == Whole(du, dn)
             al == AllOf(x)
             sn == x.sent
             st == x.start
             n == Len(sn) + st - 1
  <1>1. x.pc \in Busy
    BY DEF Busy
  <1>2. /\ se \in Session /\ Shape(w) /\ sn \in Seq(Sql) /\ al \in Seq(Sql)
        /\ Len(w) = Len(sn) + Len(al) /\ Len(sn) \in Nat /\ Len(al) \in Nat
        /\ \A i \in 1..Len(al) : w[Len(sn) + i] = al[i]
    BY <1>1, BusyFacts
  <1>3. st \in 1..Len(al) /\ Good(f, se, w, n) /\ s = al[st]
    BY DEF TxInv, Cut
  <1> HIDE DEF w, al, sn, st
  <1>4. n \in Nat /\ n < Len(w) /\ n + 1 = Len(sn) + st
    <2> DEFINE q == Len(sn)
               la == Len(al)
               lw == Len(w)
    <2>1. q \in Nat /\ la \in Nat /\ lw = q + la /\ st \in 1..la /\ n = q + st - 1
      BY <1>2, <1>3
    <2> HIDE DEF q, la, lw, n
    <2>2. n \in Nat /\ n < lw /\ n + 1 = q + st
      BY <2>1
    <2> QED BY <2>2 DEF q, la, lw
  <1> HIDE DEF n
  <1>5. s = w[n + 1] /\ s \in Sql
    BY <1>2, <1>3, <1>4
  <1>6. After(se, s, f) \in Session /\ Spoilt(f, After(se, s, f), w, n + 1)
    BY <1>2, <1>3, <1>4, <1>5, OneStatement
  <1> QED BY <1>5, <1>6 DEF Spoilt

\* The statement a flight starts with.
LEMMA StartsWith ==
    ASSUME NEW f, NEW x, NEW se, NEW du, NEW dn, NEW ra, NEW re,
           TxInv(f, x, se, du, dn, ra, re), x.pc \in {"begin", "prepare"}
    PROVE  AllOf(x)[x.start] \in Sql /\ AllOf(x) \in Seq(Sql) /\ x.start \in 1..Len(AllOf(x))
  <1>1. x.pc \in Busy /\ x.start \in 1..Len(AllOf(x))
    BY DEF TxInv, Cut, Busy
  <1>2. AllOf(x) \in Seq(Sql)
    BY <1>1, BusyFacts
  <1> QED BY <1>1, <1>2

LEMMA MaskKeeps ==
    ASSUME NEW f, NEW x, NEW se, NEW du, NEW dn, NEW ra, NEW re,
           TxInv(f, x, se, du, dn, ra, re), x.pc = "fly", NEW at \in Nat,
           NEW se2 \in Session, se2.durable = <<>>,
           \E i \in 1..Len(Whole(du, dn)) : f[Whole(du, dn)[i]] # "none",
           NEW y, y = MaskedTx(x, at)
    PROVE  TxInv(f, y, se2, du, dn, ra, re)
  <1>1. x \in Tx /\ x.pc \in Busy
    BY DEF TxInv, Kinds, Busy
  <1>2. /\ y \in Tx /\ y.pc = "masked" /\ y.pc \in Busy
        /\ y.queued = x.queued /\ y.sent = x.sent /\ y.ahead = x.ahead /\ y.stmts = x.stmts
        /\ y.runs = x.runs
    BY <1>1 DEF Tx, Busy, MaskedTx
  <1>3. y.pc \notin {"begin", "prepare", "fly"} /\ y.pc \notin {"prepare", "fly"}
    BY <1>2
  <1> QED BY <1>1, <1>2, <1>3, BusyKeeps

LEMMA RollbackKeeps ==
    ASSUME NEW f, NEW x, NEW se, NEW du, NEW dn, NEW ra, NEW re,
           TxInv(f, x, se, du, dn, ra, re), x.pc = "masked",
           NEW y, y = RollingBack(x)
    PROVE  TxInv(f, y, se, du, dn, ra, re)
  <1>1. /\ x \in Tx /\ x.pc \in Busy /\ se \in Session /\ se.durable = <<>>
        /\ ~Transient => \E i \in 1..Len(Whole(du, dn)) : f[Whole(du, dn)[i]] # "none"
    BY DEF TxInv, Kinds, Stands, Busy
  <1>2. /\ y \in Tx /\ y.pc = "rollback" /\ y.pc \in Busy
        /\ y.queued = x.queued /\ y.sent = x.sent /\ y.ahead = x.ahead /\ y.stmts = x.stmts
        /\ y.runs = x.runs
    BY <1>1 DEF Tx, Busy, RollingBack
  <1>3. y.pc \notin {"begin", "prepare", "fly"} /\ y.pc \notin {"prepare", "fly"}
    BY <1>2
  <1> QED BY <1>1, <1>2, <1>3, BusyKeeps

\* ROLLBACK, and everything since the BEGIN again.
LEMMA AgainKeeps ==
    ASSUME NEW f, NEW x, NEW se, NEW du, NEW dn, NEW ra, NEW re,
           TxInv(f, x, se, du, dn, ra, re), x.pc = "rollback",
           NEW se2, se2 = RolledBack(se),
           NEW y, y = Again(x)
    PROVE  TxInv(f, y, se2, du, dn, ra, re)
  <1> DEFINE w == Whole(du, dn)
  <1>1. x.pc \in Busy
    BY DEF Busy
  <1>2. /\ x \in Tx /\ se \in Session /\ se.durable = <<>>
        /\ ra \in Seq(Nat) /\ du \in Seq(Sql) /\ dn \in Seq(Stmts) /\ dn \in Seq(Sql)
        /\ w \in Seq(Sql) /\ Shape(w) /\ x.sent \o AllOf(x) = w /\ x.queued = <<>>
        /\ re.kind \notin {"failed", "masked", "lost"}
        /\ ~Transient => \A k \in 1..Len(ra) : ra[k] = 0
    BY <1>1, BusyFacts
  <1>3. ~Transient => \E i \in 1..Len(w) : f[w[i]] # "none"
    BY DEF TxInv, Stands
  <1>4. x.sent \in Seq(Sql) /\ x.ahead \in Seq(Sql) /\ x.stmts \in Seq(Sql) /\ x.runs \in Nat
    BY <1>2 DEF Tx
  <1>5. /\ y \in Tx /\ y.pc = "begin" /\ y.sent = <<>> /\ y.ahead = x.sent \o x.ahead
        /\ y.stmts = x.stmts /\ y.start = 1 /\ y.queued = <<>>
    <2>1. x.sent \o x.ahead \in Seq(Sql) /\ <<>> \in Seq(Sql) /\ x.runs + 1 \in Nat
      BY <1>4, ConcatFacts
    <2> QED BY <1>2, <2>1 DEF Tx, Busy, Again
  <1>6. se2 \in Session /\ se2.durable = <<>> /\ se2.state = "idle" /\ se2.work = <<>>
    <2>1. <<>> \in Seq(Stmts)
      OBVIOUS
    <2> QED BY <1>2, <2>1 DEF RolledBack, Session
  <1>7. AllOf(y) = w
    <2>1. (x.sent \o x.ahead) \o x.stmts = x.sent \o (x.ahead \o x.stmts)
      BY <1>4, ConcatAssoc
    <2> QED BY <1>2, <1>5, <2>1 DEF AllOf
  <1>8. y.sent \o AllOf(y) = w /\ Len(y.sent) = 0
    <2> HIDE DEF w
    <2>1. <<>> \o w = w /\ Len(<<>>) = 0
      BY <1>2
    <2> QED BY <1>5, <1>7, <2>1
  <1>9. y.start \in 1..Len(AllOf(y))
    BY <1>2, <1>5, <1>7 DEF Shape
  <1>10. Good(f, se2, w, Len(y.sent) + y.start - 1)
    <2>1. Len(y.sent) + y.start - 1 = 0
      BY <1>5, <1>8
    <2>2. Good(f, se2, w, 0)
      BY <1>6 DEF Good
    <2> QED BY <2>1, <2>2
  <1> HIDE DEF w
  <1>11. Kinds(y, se2, du, dn, ra)
    BY <1>2, <1>5, <1>6 DEF Kinds
  <1>12. Cut(f, y, se2, du, dn)
    BY <1>2, <1>5, <1>8, <1>9, <1>10 DEF Cut, w
  <1>13. ~Transient => Stands(f, y, se2, du, dn, ra)
    BY <1>2, <1>3, <1>5 DEF Stands, Busy, w
  <1> QED BY <1>2, <1>5, <1>11, <1>12, <1>13 DEF TxInv

LEMMA ClosedIs ==
    ASSUME NEW se \in Session
    PROVE  Closed(se) \in Session /\ Closed(se).durable = se.durable
  <1>1. <<>> \in Seq(Stmts)
    OBVIOUS
  <1> QED BY <1>1 DEF Closed, Session

\* The connection breaks in a flight, which may have committed all of it.
LEMMA BreakKeeps ==
    ASSUME NEW f \in Faults, NEW x, NEW se, NEW du, NEW dn, NEW ra, NEW re, NEW re2,
           TxInv(f, x, se, du, dn, ra, re), x.pc = "fly",
           re2.kind = re.kind \/ re2.kind = "connection",
           NEW fl, NEW a, NEW k, Reached(f, a, fl, Whole(du, dn), Ran(x), k),
           NEW y, y = Ended(x)
    PROVE  TxInv(f, y, Closed(a[k]), du, dn, ra, re2)
  <1> DEFINE w == Whole(du, dn)
             se2 == Closed(a[k])
  <1>1. x.pc \in Busy /\ x.pc # "over"
    BY DEF Busy
  <1>2. a[k] \in Session /\ (a[k].durable = <<>> \/ Finished(f, a[k], w))
    BY DEF Reached, Good, Spoilt
  <1>3. se2 \in Session /\ se2.durable = a[k].durable
    BY <1>2, ClosedIs
  <1>4. CASE a[k].durable = <<>>
    <2> HIDE DEF se2
    <2>1. TxInv(f, y, se2, du, dn, ra, re2)
      BY <1>1, <1>3, <1>4, EndKeeps
    <2> QED BY <2>1 DEF se2
  <1>5. CASE Finished(f, a[k], w)
    <2>1. /\ x \in Tx /\ du \in Seq(Sql) /\ dn \in Seq(Stmts) /\ dn \in Seq(Sql) /\ ra \in Seq(Nat)
          /\ ~Transient => \A i \in 1..Len(ra) : ra[i] = 0
          /\ re.kind \notin {"failed", "masked", "lost"}
      BY <1>1, BusyFacts
    <2>2. /\ dn \o du # <<>> /\ (dn \o du)[Len(dn \o du)] = Commit
          /\ se2.durable = SubSeq(dn \o du, 1, Len(dn \o du) - 1)
      <3>1. a[k].durable = SubSeq(w, 2, Len(w) - 1) /\ w[Len(w)] = Commit
        BY <1>5 DEF Finished
      <3> QED BY <1>3, <2>1, <3>1, CommitLeaves
    <2>3. ~Transient => x.runs = 0
      <3>1. \A i \in 1..Len(w) : f[w[i]] = "none"
        BY <1>5 DEF Finished
      <3> QED BY <1>1, <3>1, FirstRun
    <2>4. y \in Tx /\ y.pc = "over" /\ y.runs = x.runs
      BY <2>1 DEF Tx, Ended
    <2>5. ~(dn # <<>> /\ dn[Len(dn)] = Commit)
      <3>1. dn # <<>> => Len(dn) \in 1..Len(dn)
        BY <2>1
      <3> QED BY <2>1, <3>1, StatementAssumption
    <2> HIDE DEF se2
    <2>6. Kinds(y, se2, du, dn, ra)
      BY <1>3, <2>1, <2>4 DEF Kinds
    <2>7. Cut(f, y, se2, du, dn)
      BY <2>4 DEF Cut, Busy
    <2>8. Told(se2, du, dn, re2)
      BY <2>1, <2>2, <2>5 DEF Told
    <2>9. ~Transient => Stands(f, y, se2, du, dn, ra)
      BY <2>1, <2>3, <2>4 DEF Stands, Busy
    <2>10. TxInv(f, y, se2, du, dn, ra, re2)
      BY <2>4, <2>6, <2>7, <2>8, <2>9 DEF TxInv
    <2> QED BY <2>10 DEF se2
  <1> QED BY <1>2, <1>4, <1>5

\* A transaction that is over is dropped.
LEMMA DropKeeps ==
    ASSUME NEW f, NEW x, NEW se, NEW du, NEW dn, NEW ra, NEW re,
           TxInv(f, x, se, du, dn, ra, re), x.pc = "over",
           NEW y, y = Ended(x)
    PROVE  TxInv(f, y, Closed(se), du, dn, ra, re)
  <1> DEFINE se2 == Closed(se)
  <1>1. Kinds(x, se, du, dn, ra) /\ Told(se, du, dn, re) /\ (~Transient => Stands(f, x, se, du, dn, ra))
    BY DEF TxInv
  <1>2. se2 \in Session /\ se2.durable = se.durable
    BY <1>1, ClosedIs DEF Kinds
  <1>3. y \in Tx /\ y.pc = "over" /\ y.runs = x.runs
    BY <1>1 DEF Kinds, Tx, Ended
  <1> HIDE DEF se2
  <1>4. Kinds(y, se2, du, dn, ra)
    BY <1>1, <1>2, <1>3 DEF Kinds
  <1>5. Cut(f, y, se2, du, dn)
    BY <1>3 DEF Cut, Busy
  <1>6. Told(se2, du, dn, re)
    BY <1>1, <1>2 DEF Told
  <1>7. ~Transient => Stands(f, y, se2, du, dn, ra)
    BY <1>1, <1>2, <1>3 DEF Stands, Busy
  <1>8. TxInv(f, y, se2, du, dn, ra, re)
    BY <1>3, <1>4, <1>5, <1>6, <1>7 DEF TxInv
  <1> QED BY <1>8 DEF se2

\* What did not fail does not fail once another failure has passed.
LEMMA PassKeeps ==
    ASSUME NEW f, NEW g, NEW x, NEW se, NEW du, NEW dn, NEW ra, NEW re,
           TxInv(f, x, se, du, dn, ra, re), Transient,
           \A s : f[s] = "none" => g[s] = "none"
    PROVE  TxInv(g, x, se, du, dn, ra, re)
  <1>1. \A w, n : Good(f, se, w, n) => Good(g, se, w, n)
    BY DEF Good
  <1>2. Cut(g, x, se, du, dn)
    BY <1>1 DEF TxInv, Cut
  <1> QED BY <1>2 DEF TxInv

\* A flight takes at least one statement, and none that is not there.
LEMMA FlightEndBound ==
    ASSUME NEW t, All(t) \in Seq(Sql), tx[t].start \in 1..Len(All(t))
    PROVE  FlightEnd(t) \in (tx[t].start + 1)..(Len(All(t)) + 1)
  <1> DEFINE al == All(t)
             st == tx[t].start
             la == Len(al)
             later == {k \in (st + 1)..la : al[k] \in known}
  <1>1. FlightEnd(t) = IF later = {} THEN la + 1 ELSE CHOOSE k \in later : \A j \in later : k <= j
    BY DEF FlightEnd
  <1>2. st \in 1..la /\ la \in Nat /\ later \subseteq (st + 1)..la
    OBVIOUS
  <1> HIDE DEF al, st, la, later
  <1>3. CASE later = {}
    <2>1. la + 1 \in (st + 1)..(la + 1)
      BY <1>2
    <2> QED BY <1>1, <1>3, <2>1 DEF la, al, st
  <1>4. CASE later # {}
    <2>1. later \subseteq Nat
      BY <1>2
    <2>2. \E k \in later : \A j \in later : k <= j
      BY <1>4, <2>1, NatMin
    <2> DEFINE c == CHOOSE k \in later : \A j \in later : k <= j
    <2>3. c \in later
      BY <2>2
    <2> HIDE DEF c
    <2>4. c \in (st + 1)..(la + 1)
      BY <1>2, <2>3
    <2>5. FlightEnd(t) = c
      BY <1>1, <1>4 DEF c
    <2> QED BY <2>4, <2>5 DEF la, al, st
  <1> QED BY <1>3, <1>4

-----------------------------------------------------------------------------
(* Every step keeps the invariant *)

\* A step of one transaction leaves the others alone.
OthersStay(t) ==
    /\ fault' = fault
    /\ DOMAIN tx' = Txs /\ DOMAIN session' = Txs /\ DOMAIN due' = Txs /\ DOMAIN done' = Txs
    /\ DOMAIN ranIn' = Txs /\ DOMAIN reply' = Txs
    /\ \A u \in Txs : u # t =>
          /\ tx'[u] = tx[u] /\ session'[u] = session[u] /\ due'[u] = due[u] /\ done'[u] = done[u]
          /\ ranIn'[u] = ranIn[u] /\ reply'[u] = reply[u]

LEMMA StepOf ==
    ASSUME SocketInv, NEW t \in Txs, OthersStay(t),
           TxInv(fault, tx'[t], session'[t], due'[t], done'[t], ranIn'[t], reply'[t])
    PROVE  SocketInv'
  <1>1. ASSUME NEW u \in Txs
        PROVE  TxInv(fault', tx'[u], session'[u], due'[u], done'[u], ranIn'[u], reply'[u])
    BY DEF SocketInv, OthersStay
  <1> QED BY <1>1 DEF SocketInv, OthersStay

LEMMA InvOf ==
    ASSUME SocketInv, NEW t \in Txs
    PROVE  /\ TxInv(fault, tx[t], session[t], due[t], done[t], ranIn[t], reply[t])
           /\ fault \in Faults
           /\ AllOf(tx[t]) = All(t)
  BY DEF SocketInv, AllOf, All

LEMMA OpenStep ==
    ASSUME SocketInv, NEW t \in Txs, OpenConnection(t) PROVE SocketInv'
  <1>1. OthersStay(t) /\ tx'[t] = Opened(tx[t])
    BY DEF OpenConnection, OthersStay, SocketInv, Opened
  <1>2. session'[t] = session[t] /\ due'[t] = due[t] /\ done'[t] = done[t] /\ ranIn'[t] = ranIn[t] /\ reply'[t] = reply[t]
    BY DEF OpenConnection
  <1>3. tx[t].pc = "new"
    BY DEF OpenConnection
  <1>4. TxInv(fault, tx'[t], session[t], due[t], done[t], ranIn[t], reply[t])
    BY <1>1, <1>3, InvOf, OpenKeeps
  <1> QED BY <1>1, <1>2, <1>4, StepOf

LEMMA ConnectFailsStep ==
    ASSUME SocketInv, NEW t \in Txs, ConnectFails(t) PROVE SocketInv'
  <1>1. OthersStay(t) /\ tx'[t] = Ended(tx[t]) /\ session'[t] = Closed(session[t])
    BY DEF ConnectFails, OthersStay, SocketInv, Ended
  <1>2. due'[t] = due[t] /\ done'[t] = done[t] /\ ranIn'[t] = ranIn[t]
    BY DEF ConnectFails
  <1>3. tx[t].pc # "over" /\ session[t] \in Session /\ session[t].durable = <<>>
    BY InvOf DEF ConnectFails, TxInv, Kinds
  <1>4. session'[t] \in Session /\ session'[t].durable = <<>>
    BY <1>1, <1>3, ClosedIs
  <1>5. TxInv(fault, tx'[t], session'[t], due[t], done[t], ranIn[t], reply'[t])
    BY <1>1, <1>3, <1>4, InvOf, EndKeeps
  <1> QED BY <1>1, <1>2, <1>5, StepOf

LEMMA QueueStep ==
    ASSUME SocketInv, NEW t \in Txs, NEW s \in Stmts, QueueStatement(t, s) PROVE SocketInv'
  <1>1. OthersStay(t) /\ tx'[t] = Queued(tx[t], s) /\ due'[t] = Append(due[t], s)
    BY DEF QueueStatement, OthersStay, SocketInv, Queued
  <1>2. session'[t] = session[t] /\ done'[t] = done[t] /\ ranIn'[t] = ranIn[t] /\ reply'[t] = reply[t]
    BY DEF QueueStatement
  <1>3. tx[t].pc = "ready"
    BY DEF QueueStatement
  <1>4. TxInv(fault, tx'[t], session[t], Append(due[t], s), done[t], ranIn[t], reply[t])
    BY <1>1, <1>3, InvOf, QueueKeeps
  <1> QED BY <1>1, <1>2, <1>4, StepOf

LEMMA SendStep ==
    ASSUME SocketInv, NEW t \in Txs, NEW stmts \in Calls, Send(t, stmts) PROVE SocketInv'
  <1>1. /\ OthersStay(t) /\ tx'[t] = Sending(tx[t], stmts, Limit(t, stmts))
        /\ due'[t] = due[t] \o stmts /\ reply'[t] = NoReply
    BY DEF Send, OthersStay, SocketInv, Sending
  <1>2. session'[t] = session[t] /\ done'[t] = done[t] /\ ranIn'[t] = ranIn[t]
    BY DEF Send
  <1>3. tx[t].pc = "ready"
    BY DEF Send
  <1>4. Limit(t, stmts) \in Nat
    <2>1. tx[t].queued \in Seq(Sql) /\ tx[t].sent \in Seq(Sql)
      BY InvOf DEF TxInv, Kinds, Tx
    <2>2. Len(tx[t].queued) \in Nat /\ Len(tx[t].sent) \in Nat /\ Len(stmts) \in Nat
      BY <2>1, CallsShape
    <2>3. \A p, q, r \in Nat : p + q + r \in Nat
      OBVIOUS
    <2> QED BY <2>2, <2>3 DEF Limit
  <1>5. TxInv(fault, tx'[t], session[t], due[t] \o stmts, done[t], ranIn[t], NoReply)
    BY <1>1, <1>3, <1>4, InvOf, SendKeeps
  <1> QED BY <1>1, <1>2, <1>5, StepOf

LEMMA DropStep ==
    ASSUME SocketInv, NEW t \in Txs, DropTx(t) PROVE SocketInv'
  <1>1. OthersStay(t) /\ tx'[t] = Ended(tx[t]) /\ session'[t] = Closed(session[t])
    BY DEF DropTx, OthersStay, SocketInv, Ended
  <1>2. due'[t] = due[t] /\ done'[t] = done[t] /\ ranIn'[t] = ranIn[t] /\ reply'[t] = reply[t]
    BY DEF DropTx
  <1>3. tx[t].pc \in {"ready", "over"}
    BY DEF DropTx
  <1>4. CASE tx[t].pc = "over"
    <2>1. TxInv(fault, tx'[t], session'[t], due[t], done[t], ranIn[t], reply[t])
      BY <1>1, <1>4, InvOf, DropKeeps
    <2> QED BY <1>1, <1>2, <2>1, StepOf
  <1>5. CASE tx[t].pc = "ready"
    <2>1. session[t] \in Session /\ session[t].durable = <<>>
      BY <1>5, InvOf DEF TxInv, Kinds
    <2>2. session'[t] \in Session /\ session'[t].durable = <<>>
      BY <1>1, <2>1, ClosedIs
    <2>3. TxInv(fault, tx'[t], session'[t], due[t], done[t], ranIn[t], reply[t])
      BY <1>1, <1>5, <2>2, InvOf, EndKeeps
    <2> QED BY <1>1, <1>2, <2>3, StepOf
  <1> QED BY <1>3, <1>4, <1>5

LEMMA BeginStep ==
    ASSUME SocketInv, NEW t \in Txs, BeginFlight(t) PROVE SocketInv'
  <1> DEFINE prepare == All(t)[tx[t].start] \in known
  <1>1. OthersStay(t) /\ tx'[t] = Flying(tx[t], FlightEnd(t), prepare)
    BY DEF BeginFlight, OthersStay, SocketInv, Flying
  <1>2. session'[t] = session[t] /\ due'[t] = due[t] /\ done'[t] = done[t] /\ ranIn'[t] = ranIn[t] /\ reply'[t] = reply[t]
    BY DEF BeginFlight
  <1>3. tx[t].pc = "begin"
    BY DEF BeginFlight
  <1>4. All(t) \in Seq(Sql) /\ tx[t].start \in 1..Len(All(t))
    BY <1>3, InvOf, StartsWith
  <1>5. FlightEnd(t) \in (tx[t].start + 1)..(Len(AllOf(tx[t])) + 1)
    BY <1>4, FlightEndBound, InvOf
  <1>6. prepare \in BOOLEAN
    OBVIOUS
  <1> HIDE DEF prepare
  <1>7. TxInv(fault, tx'[t], session[t], due[t], done[t], ranIn[t], reply[t])
    BY <1>1, <1>3, <1>5, <1>6, InvOf, BeginKeeps
  <1> QED BY <1>1, <1>2, <1>7, StepOf

LEMMA PrepareStep ==
    ASSUME SocketInv, NEW t \in Txs, Prepare(t) PROVE SocketInv'
  <1> DEFINE s == All(t)[tx[t].start]
  <1>1. OthersStay(t)
    BY DEF Prepare, OthersStay, SocketInv, Report
  <1>2. tx[t].pc = "prepare" /\ due'[t] = due[t] /\ done'[t] = done[t] /\ ranIn'[t] = ranIn[t]
    BY DEF Prepare, Report
  <1>3. s \in Sql
    BY <1>2, InvOf, StartsWith
  <1>4. CASE fault[s] # "parse"
    <2>1. tx'[t] = PreparedTx(tx[t], s) /\ session'[t] = session[t] /\ reply'[t] = reply[t]
      <3>1. /\ tx' = [tx EXCEPT ![t] = [@ EXCEPT !.pc = AfterPrepare, !.typed = tx[t].typed \cup {s}]]
            /\ UNCHANGED <<session, due, queuedDue, done, ranIn, reply>>
        BY <1>4 DEF Prepare
      <3>2. t \in DOMAIN tx
        BY DEF SocketInv
      <3> HIDE DEF s
      <3>3. tx'[t] = PreparedTx(tx[t], s)
        <4>1. tx' = [tx EXCEPT ![t] = PreparedTx(tx[t], s)]
          BY <3>1 DEF PreparedTx, AfterPrepare
        <4> QED BY <3>2, <4>1
      <3> QED BY <3>1, <3>3
    <2> HIDE DEF s
    <2>2. TxInv(fault, tx'[t], session[t], due[t], done[t], ranIn[t], reply[t])
      BY <1>2, <1>3, <2>1, InvOf, PrepareKeeps
    <2> QED BY <1>1, <1>2, <2>1, <2>2, StepOf
  <1>5. CASE fault[s] = "parse"
    <2>1. tx'[t] = Ended(tx[t]) /\ session'[t] = After(session[t], s, fault)
      BY <1>5 DEF Prepare, Ended, SocketInv
    <2>2. session'[t] \in Session /\ session'[t].durable = <<>>
      <3>1. s = AllOf(tx[t])[tx[t].start] /\ fault[s] # "none"
        BY <1>5, InvOf
      <3> HIDE DEF s
      <3> QED BY <1>2, <2>1, <3>1, InvOf, RefusedLeaves
    <2>3. TxInv(fault, tx'[t], session'[t], due[t], done[t], ranIn[t], reply'[t])
      BY <1>2, <2>1, <2>2, InvOf, EndKeeps
    <2> QED BY <1>1, <1>2, <2>3, StepOf
  <1> QED BY <1>4, <1>5

\* The sessions along the flight of a transaction are where the invariant says.
LEMMA FlightIs ==
    ASSUME SocketInv, NEW t \in Txs, tx[t].pc = "fly",
           NEW fl, fl = Flight(t), NEW a, a = Sessions(t, fl)
    PROVE  /\ fl = FlightFrom(tx[t]) /\ fl \in Seq(Sql) /\ Len(fl) \in Nat /\ Len(fl) >= 1
           /\ DOMAIN fl = 1..Len(fl)
           /\ SentOf(fl) \in 0..Len(fl)
           /\ Ran(tx[t]) \in Nat /\ Ran(tx[t]) + Len(fl) <= Len(Whole(due[t], done[t]))
           /\ Len(Whole(due[t], done[t])) \in Nat
           /\ \A k \in 0..SentOf(fl) : Reached(fault, a, fl, Whole(due[t], done[t]), Ran(tx[t]), k)
  <1>1. fl = FlightFrom(tx[t])
    BY InvOf DEF Flight, FlightFrom
  <1>2. TxInv(fault, tx[t], session[t], due[t], done[t], ranIn[t], reply[t]) /\ fault \in Faults
    BY InvOf
  <1>3. /\ fl \in Seq(Sql) /\ Len(fl) \in Nat /\ Len(fl) >= 1 /\ DOMAIN fl = 1..Len(fl)
        /\ Ran(tx[t]) \in Nat /\ Ran(tx[t]) + Len(fl) <= Len(Whole(due[t], done[t]))
        /\ Len(Whole(due[t], done[t])) \in Nat
    BY <1>1, <1>2, FlightOfTx
  <1>4. SentOf(fl) \in 0..Len(fl) /\ SentOf(fl) \in Nat
    BY <1>3, SentBound
  <1>5. a[0] = session[t] /\ Along(fault, a, fl, SentOf(fl))
    BY <1>4, SessionsAre DEF Along
  <1>6. ASSUME NEW k \in 0..SentOf(fl)
        PROVE  Reached(fault, a, fl, Whole(due[t], done[t]), Ran(tx[t]), k)
    BY <1>1, <1>2, <1>4, <1>5, FlightGets
  <1> QED BY <1>1, <1>3, <1>4, <1>6

LEMMA FlightAnswersStep ==
    ASSUME SocketInv, NEW t \in Txs, FlightAnswers(t) PROVE SocketInv'
  <1> DEFINE fl == Flight(t)
             a == Sessions(t, fl)
             w == Whole(due[t], done[t])
             n == Ran(tx[t])
             sent == SentOf(fl)
             typed == tx[t].typed \cup {fl[k] : k \in {j \in 1..sent : LooksUp(t, fl, a, j)}}
  <1>2. /\ tx[t].pc = "fly"
        /\ \A k \in DOMAIN fl : AnswerTo(t, fl, a, k) = "ok"
        /\ session' = [session EXCEPT ![t] = a[sent]]
        /\ \/ /\ ~LastFlight(t)
              /\ tx' = [tx EXCEPT ![t] = [@ EXCEPT !.pc = "begin", !.start = NextStart(t),
                                                   !.typed = typed]]
              /\ UNCHANGED <<due, queuedDue, done, ranIn, reply>>
           \/ /\ LastFlight(t)
              /\ tx' = [tx EXCEPT ![t] =
                          [@ EXCEPT !.pc = IF All(t)[Len(All(t))] = Commit THEN "over" ELSE "ready",
                                    !.sent = tx[t].sent \o All(t), !.typed = typed]]
              /\ due' = [due EXCEPT ![t] = <<>>]
              /\ done' = [done EXCEPT ![t] = @ \o due[t]]
              /\ ranIn' = [ranIn EXCEPT ![t] = @ \o [k \in DOMAIN due[t] |-> tx[t].runs]]
              /\ reply' = [reply EXCEPT ![t] = Ok]
        /\ fault' = fault
    BY DEF FlightAnswers
  <1>3. /\ fl = FlightFrom(tx[t]) /\ fl \in Seq(Sql) /\ Len(fl) \in Nat /\ Len(fl) >= 1
        /\ DOMAIN fl = 1..Len(fl)
        /\ sent \in 0..Len(fl)
        /\ \A k \in 0..sent : Reached(fault, a, fl, w, n, k)
    BY <1>2, FlightIs
  <1> HIDE DEF fl, a
  <1>4. sent = Len(fl) /\ \A k \in 1..Len(fl) : Outcome(a[k - 1], fl[k], fault) = "ok"
    <2>1. \A k \in 1..Len(fl) : AnswerTo(t, fl, a, k) = "ok"
      BY <1>2, <1>3
    <2> QED BY <1>3, <2>1, AllAnswered
  <1>5. typed \in SUBSET Sql
    <2>1. tx[t].typed \in SUBSET Sql
      BY InvOf DEF TxInv, Kinds, Tx
    <2>2. \A k \in 1..Len(fl) : fl[k] \in Sql
      BY <1>3
    <2> QED BY <1>4, <2>1, <2>2
  <1> HIDE DEF w, n, sent, typed
  <1>6. Reached(fault, a, fl, w, n, sent)
    BY <1>3, <1>4
  <1>7. a[sent] \in Session /\ (Good(fault, a[sent], w, n + Len(fl)) \/ (Finished(fault, a[sent], w) /\ n + Len(fl) = Len(w)))
    BY <1>4, <1>6, FlightWasGood
  <1>8. LastFlight(t) <=> tx[t].end > Len(AllOf(tx[t]))
    BY InvOf DEF LastFlight
  <1>9. session'[t] = a[sent]
    BY <1>2 DEF SocketInv
  <1>10. CASE ~LastFlight(t)
    <2>1. OthersStay(t) /\ tx'[t] = FlownOn(tx[t], typed)
      BY <1>2, <1>10 DEF OthersStay, SocketInv, FlownOn, NextStart
    <2>2. due'[t] = due[t] /\ done'[t] = done[t] /\ ranIn'[t] = ranIn[t] /\ reply'[t] = reply[t]
      BY <1>2, <1>10
    <2>3. TxInv(fault, tx'[t], session'[t], due[t], done[t], ranIn[t], reply[t])
      BY <1>2, <1>3, <1>5, <1>7, <1>8, <1>9, <1>10, <2>1, InvOf, FlownOnKeeps DEF w, n
    <2> QED BY <2>1, <2>2, <2>3, StepOf
  <1>11. CASE LastFlight(t)
    <2>1. OthersStay(t)
      BY <1>2, <1>11 DEF OthersStay, SocketInv
    <2>2. tx'[t] = FlownHome(tx[t], typed)
      <3>1. /\ tx' = [tx EXCEPT ![t] =
                          [@ EXCEPT !.pc = IF All(t)[Len(All(t))] = Commit THEN "over" ELSE "ready",
                                    !.sent = tx[t].sent \o All(t), !.typed = typed]]
            /\ t \in DOMAIN tx
        BY <1>2, <1>11 DEF SocketInv
      <3>2. All(t) = AllOf(tx[t])
        BY InvOf
      <3>3. tx' = [tx EXCEPT ![t] = FlownHome(tx[t], typed)]
        BY <3>1, <3>2 DEF FlownHome
      <3> QED BY <3>1, <3>3
    <2>3. /\ due'[t] = <<>> /\ done'[t] = done[t] \o due[t] /\ reply'[t] = Ok
          /\ ranIn'[t] = RunsOf(ranIn[t], due[t], tx[t].runs)
      BY <1>2, <1>11 DEF SocketInv, RunsOf
    <2>4. TxInv(fault, tx'[t], session'[t], <<>>, done[t] \o due[t], RunsOf(ranIn[t], due[t], tx[t].runs), Ok)
      BY <1>2, <1>3, <1>5, <1>7, <1>8, <1>9, <1>11, <2>2, InvOf, FlownHomeKeeps DEF w, n
    <2> QED BY <2>1, <2>3, <2>4, StepOf
  <1> QED BY <1>10, <1>11

LEMMA FlightFailsStep ==
    ASSUME SocketInv, NEW t \in Txs, FlightFails(t) PROVE SocketInv'
  <1> DEFINE fl == Flight(t)
             a == Sessions(t, fl)
             bad == {k \in DOMAIN fl : AnswerTo(t, fl, a, k) # "ok"}
             k == CHOOSE j \in bad : \A i \in bad : j <= i
             answer == AnswerTo(t, fl, a, k)
             at == tx[t].start + k - 1
             w == Whole(due[t], done[t])
  <1>1. /\ tx[t].pc = "fly" /\ bad # {}
        /\ session' = [session EXCEPT ![t] = a[SentOf(fl)]]
        /\ \/ /\ answer = "25P02"
              /\ tx' = [tx EXCEPT ![t] = [@ EXCEPT !.pc = "masked", !.masked = at]]
              /\ UNCHANGED <<due, queuedDue, done, ranIn, reply>>
           \/ /\ tx' = [tx EXCEPT ![t].pc = "over"]
              /\ Report(t, IF answer = "error" THEN "failed" ELSE "masked", at)
        /\ fault' = fault
    BY DEF FlightFails
  <1>2. /\ fl \in Seq(Sql) /\ Len(fl) \in Nat /\ DOMAIN fl = 1..Len(fl)
        /\ SentOf(fl) \in 0..Len(fl)
        /\ Ran(tx[t]) \in Nat /\ Ran(tx[t]) + Len(fl) <= Len(w) /\ Len(w) \in Nat
        /\ \A j \in 0..SentOf(fl) : Reached(fault, a, fl, w, Ran(tx[t]), j)
    BY <1>1, FlightIs
  <1> HIDE DEF fl, a, w
  <1>3. k \in bad
    <2>1. bad \subseteq Nat
      BY <1>2
    <2> HIDE DEF bad
    <2>2. \E j \in bad : \A i \in bad : j <= i
      BY <1>1, <2>1, NatMin
    <2> QED BY <2>2
  <1>4. k \in 1..Len(fl) /\ answer # "ok"
    <2> HIDE DEF k
    <2> QED BY <1>2, <1>3
  <1> HIDE DEF k, bad
  <1>5. /\ a[SentOf(fl)] \in Session /\ a[SentOf(fl)].durable = <<>>
        /\ answer = "25P02" => \E i \in 1..Len(w) : fault[w[i]] # "none"
    <2>1. Reached(fault, a, fl, w, Ran(tx[t]), SentOf(fl))
      <3>1. SentOf(fl) \in 0..SentOf(fl)
        BY <1>2
      <3> QED BY <1>2, <3>1
    <2> QED BY <1>2, <1>4, <2>1, SomeFailed
  <1>6. session'[t] = a[SentOf(fl)] /\ t \in DOMAIN tx
    BY <1>1 DEF SocketInv
  <1>7. due'[t] = due[t] /\ done'[t] = done[t] /\ ranIn'[t] = ranIn[t]
    BY <1>1 DEF Report
  <1>8. at \in Nat
    <2>1. tx[t].start \in Nat
      BY <1>1, InvOf DEF TxInv, Kinds, Tx
    <2> QED BY <1>2, <1>4, <2>1
  <1> HIDE DEF answer, at
  <1>9. OthersStay(t)
    BY <1>1 DEF OthersStay, SocketInv, Report
  <1>10. CASE answer = "25P02" /\ tx' = [tx EXCEPT ![t] = [@ EXCEPT !.pc = "masked", !.masked = at]] /\ reply' = reply
    <2>1. tx'[t] = MaskedTx(tx[t], at) /\ reply'[t] = reply[t]
      BY <1>6, <1>10 DEF MaskedTx
    <2>2. TxInv(fault, tx'[t], session'[t], due[t], done[t], ranIn[t], reply[t])
      BY <1>1, <1>5, <1>6, <1>8, <1>10, <2>1, InvOf, MaskKeeps DEF w
    <2> QED BY <1>7, <1>9, <2>1, <2>2, StepOf
  <1>11. CASE tx' = [tx EXCEPT ![t].pc = "over"]
    <2>1. tx'[t] = Ended(tx[t])
      BY <1>6, <1>11 DEF Ended
    <2>2. TxInv(fault, tx'[t], session'[t], due[t], done[t], ranIn[t], reply'[t])
      BY <1>1, <1>5, <1>6, <2>1, InvOf, EndKeeps
    <2> QED BY <1>7, <1>9, <2>2, StepOf
  <1> QED BY <1>1, <1>10, <1>11

LEMMA RememberStep ==
    ASSUME SocketInv, NEW t \in Txs, Remember(t) PROVE SocketInv'
  <1>1. tx[t].pc = "masked" /\ t \in DOMAIN tx
    BY DEF Remember, SocketInv
  <1>2. OthersStay(t)
    BY DEF Remember, OthersStay, SocketInv, Report
  <1>3. session'[t] = session[t] /\ due'[t] = due[t] /\ done'[t] = done[t] /\ ranIn'[t] = ranIn[t]
    BY DEF Remember, Report
  <1>4. session[t] \in Session /\ session[t].durable = <<>>
    BY <1>1, InvOf DEF TxInv, Kinds
  <1>5. \/ tx' = [tx EXCEPT ![t].pc = "over"]
        \/ tx' = [tx EXCEPT ![t].pc = "rollback"] /\ reply' = reply
    BY DEF Remember
  <1>6. CASE tx' = [tx EXCEPT ![t].pc = "over"]
    <2>1. tx'[t] = Ended(tx[t])
      BY <1>1, <1>6 DEF Ended
    <2>2. TxInv(fault, tx'[t], session[t], due[t], done[t], ranIn[t], reply'[t])
      BY <1>1, <1>4, <2>1, InvOf, EndKeeps
    <2> QED BY <1>2, <1>3, <2>2, StepOf
  <1>7. CASE tx' = [tx EXCEPT ![t].pc = "rollback"] /\ reply' = reply
    <2>1. tx'[t] = RollingBack(tx[t])
      BY <1>1, <1>7 DEF RollingBack
    <2>2. TxInv(fault, tx'[t], session[t], due[t], done[t], ranIn[t], reply[t])
      BY <1>1, <2>1, InvOf, RollbackKeeps
    <2> QED BY <1>2, <1>3, <1>7, <2>2, StepOf
  <1> QED BY <1>5, <1>6, <1>7

LEMMA RunAgainStep ==
    ASSUME SocketInv, NEW t \in Txs, RunAgain(t) PROVE SocketInv'
  <1>1. tx[t].pc = "rollback" /\ t \in DOMAIN tx
    BY DEF RunAgain, SocketInv
  <1>2. OthersStay(t) /\ session'[t] = RolledBack(session[t])
    BY DEF RunAgain, OthersStay, SocketInv, Report
  <1>3. due'[t] = due[t] /\ done'[t] = done[t] /\ ranIn'[t] = ranIn[t]
    BY DEF RunAgain, Report
  <1>4. \/ /\ tx' = [tx EXCEPT ![t] = [@ EXCEPT !.pc = "begin", !.ahead = AllAgain(t), !.sent = <<>>,
                                                !.start = 1, !.runs = tx[t].runs + 1]]
           /\ reply' = reply
        \/ tx' = [tx EXCEPT ![t].pc = "over"]
    BY DEF RunAgain
  <1>5. CASE /\ tx' = [tx EXCEPT ![t] = [@ EXCEPT !.pc = "begin", !.ahead = AllAgain(t), !.sent = <<>>,
                                                  !.start = 1, !.runs = tx[t].runs + 1]]
             /\ reply' = reply
    <2>1. tx'[t] = Again(tx[t])
      BY <1>1, <1>5 DEF Again, AllAgain
    <2>2. TxInv(fault, tx'[t], session'[t], due[t], done[t], ranIn[t], reply[t])
      BY <1>1, <1>2, <2>1, InvOf, AgainKeeps
    <2> QED BY <1>2, <1>3, <1>5, <2>2, StepOf
  <1>6. CASE tx' = [tx EXCEPT ![t].pc = "over"]
    <2>1. tx'[t] = Ended(tx[t])
      BY <1>1, <1>6 DEF Ended
    <2>2. session[t] \in Session /\ session[t].durable = <<>>
      BY <1>1, InvOf DEF TxInv, Kinds
    <2>3. session'[t] \in Session /\ session'[t].durable = <<>>
      <3>1. <<>> \in Seq(Stmts)
        OBVIOUS
      <3> QED BY <1>2, <2>2, <3>1 DEF RolledBack, Session
    <2>4. TxInv(fault, tx'[t], session'[t], due[t], done[t], ranIn[t], reply'[t])
      BY <1>1, <2>1, <2>3, InvOf, EndKeeps
    <2> QED BY <1>2, <1>3, <2>4, StepOf
  <1> QED BY <1>4, <1>5, <1>6

LEMMA BreakStep ==
    ASSUME SocketInv, NEW t \in Txs, ConnectionBreaks(t) PROVE SocketInv'
  <1>1. tx[t].pc \in {"prepare", "fly", "rollback"} /\ t \in DOMAIN tx
    BY DEF ConnectionBreaks, SocketInv
  <1>2. OthersStay(t)
    BY DEF ConnectionBreaks, OthersStay, SocketInv
  <1>3. due'[t] = due[t] /\ done'[t] = done[t] /\ ranIn'[t] = ranIn[t]
    BY DEF ConnectionBreaks
  <1>4. tx'[t] = Ended(tx[t])
    BY <1>1 DEF ConnectionBreaks, Ended
  <1>5. reply'[t].kind = reply[t].kind \/ reply'[t].kind = "connection"
    <2>1. reply'[t] = reply[t] \/ reply'[t] = ConnectionFailed
      BY DEF ConnectionBreaks, SocketInv
    <2> QED BY <2>1 DEF ConnectionFailed
  <1>6. CASE tx[t].pc = "fly"
    <2> DEFINE fl == Flight(t)
               a == Sessions(t, fl)
               w == Whole(due[t], done[t])
    <2>1. PICK k \in 0..SentOf(fl) : session' = [session EXCEPT ![t] = Closed(a[k])]
      BY <1>6 DEF ConnectionBreaks
    <2>2. session'[t] = Closed(a[k])
      BY <2>1 DEF SocketInv
    <2>3. Reached(fault, a, fl, w, Ran(tx[t]), k)
      BY <1>6, <2>1, FlightIs
    <2> HIDE DEF fl, a
    <2>4. TxInv(fault, tx'[t], Closed(a[k]), due[t], done[t], ranIn[t], reply'[t])
      BY <1>4, <1>5, <1>6, <2>3, InvOf, BreakKeeps
    <2> QED BY <1>2, <1>3, <2>2, <2>4, StepOf
  <1>7. CASE tx[t].pc # "fly"
    <2>1. session'[t] = Closed(session[t])
      BY <1>7 DEF ConnectionBreaks, SocketInv
    <2>2. session[t] \in Session /\ session[t].durable = <<>> /\ tx[t].pc # "over"
      BY <1>1, InvOf DEF TxInv, Kinds
    <2>3. session'[t] \in Session /\ session'[t].durable = <<>>
      BY <2>1, <2>2, ClosedIs
    <2>4. TxInv(fault, tx'[t], session'[t], due[t], done[t], ranIn[t], reply'[t])
      BY <1>4, <2>2, <2>3, InvOf, EndKeeps
    <2> QED BY <1>2, <1>3, <2>4, StepOf
  <1> QED BY <1>6, <1>7

LEMMA PassStep ==
    ASSUME SocketInv, NEW s \in Stmts, FaultPasses(s) PROVE SocketInv'
  <1>1. Transient /\ fault' = [fault EXCEPT ![s] = "none"] /\ fault \in Faults
    BY DEF FaultPasses, SocketInv
  <1>2. s \in Sql /\ s # Begin /\ s # Commit
    BY StatementAssumption DEF Sql
  <1>3. fault' \in Faults
    BY <1>1, <1>2 DEF Faults, Sql
  <1>4. \A u : fault[u] = "none" => fault'[u] = "none"
    <2> SUFFICES ASSUME NEW u, fault[u] = "none" PROVE fault'[u] = "none"
      OBVIOUS
    <2>1. DOMAIN fault = Sql
      BY <1>1 DEF Faults
    <2>2. CASE u = s
      BY <1>1, <1>2, <2>1, <2>2
    <2>3. CASE u # s
      BY <1>1, <2>3
    <2> QED BY <2>2, <2>3
  <1>5. ASSUME NEW t \in Txs
        PROVE  TxInv(fault', tx[t], session[t], due[t], done[t], ranIn[t], reply[t])
    BY <1>1, <1>4, PassKeeps DEF SocketInv
  <1>6. UNCHANGED <<tx, session, due, done, ranIn, reply>>
    BY DEF FaultPasses
  <1> QED BY <1>3, <1>5, <1>6 DEF SocketInv

LEMMA InitInv == Init => SocketInv
  <1> SUFFICES ASSUME Init PROVE SocketInv
    OBVIOUS
  <1>1. <<>> \in Seq(Sql) /\ <<>> \in Seq(Stmts) /\ <<>> \in Seq(Nat) /\ Len(<<>>) = 0
    OBVIOUS
  <1>2. NewTx \in Tx /\ NewTx.pc = "new" /\ NewTx.sent = <<>>
    BY <1>1 DEF NewTx, Tx
  <1>3. NewSession \in Session /\ NewSession.durable = <<>>
    BY <1>1 DEF NewSession, Session
  <1>4. NoReply.kind \notin {"failed", "masked", "lost"}
    BY DEF NoReply
  <1>5. Kinds(NewTx, NewSession, <<>>, <<>>, <<>>)
    BY <1>1, <1>2, <1>3 DEF Kinds
  <1>6. Cut(fault, NewTx, NewSession, <<>>, <<>>)
    BY <1>2 DEF Cut, Busy
  <1>7. Stands(fault, NewTx, NewSession, <<>>, <<>>, <<>>)
    <2>1. \A k \in 1..Len(<<>>) : <<>>[k] = 0
      BY <1>1
    <2> QED BY <1>2, <2>1 DEF Stands, Busy
  <1>8. TxInv(fault, NewTx, NewSession, <<>>, <<>>, <<>>, NoReply)
    BY <1>2, <1>4, <1>5, <1>6, <1>7 DEF TxInv
  <1> QED BY <1>8 DEF Init, SocketInv

LEMMA NextInv == SocketInv /\ [Next]_vars => SocketInv'
  <1> SUFFICES ASSUME SocketInv, [Next]_vars PROVE SocketInv'
    OBVIOUS
  <1>1. CASE UNCHANGED vars
    BY <1>1 DEF vars, SocketInv
  <1>2. ASSUME NEW t \in Txs, OpenConnection(t) PROVE SocketInv'
    BY <1>2, OpenStep
  <1>3. ASSUME NEW t \in Txs, ConnectFails(t) PROVE SocketInv'
    BY <1>3, ConnectFailsStep
  <1>4. ASSUME NEW t \in Txs, DropTx(t) PROVE SocketInv'
    BY <1>4, DropStep
  <1>5. ASSUME NEW t \in Txs, NEW s \in Stmts, QueueStatement(t, s) PROVE SocketInv'
    BY <1>5, QueueStep
  <1>6. ASSUME NEW t \in Txs, NEW stmts \in Calls, Send(t, stmts) PROVE SocketInv'
    BY <1>6, SendStep
  <1>7. ASSUME NEW t \in Txs, Driver(t) PROVE SocketInv'
    BY <1>7, BeginStep, PrepareStep, FlightAnswersStep, FlightFailsStep, RememberStep, RunAgainStep DEF Driver
  <1>8. ASSUME NEW t \in Txs, ConnectionBreaks(t) PROVE SocketInv'
    BY <1>8, BreakStep
  <1>9. ASSUME NEW s \in Stmts, FaultPasses(s) PROVE SocketInv'
    BY <1>9, PassStep
  <1> QED BY <1>1, <1>2, <1>3, <1>4, <1>5, <1>6, <1>7, <1>8, <1>9 DEF Next

-----------------------------------------------------------------------------
(* The theorems *)

\* The invariant says what the caller is told.
LEMMA InvOutcome == SocketInv => OutcomeIsTrue
  <1> SUFFICES ASSUME SocketInv, NEW t \in Txs
               PROVE  LET all == done[t] \o due[t] IN
                      /\ session[t].durable # <<>> =>
                            Contract(t)!EndsTransaction(all) /\ session[t].durable = Contract(t)!Statements(all)
                      /\ reply[t].kind = "ok" /\ Contract(t)!EndsTransaction(done[t]) =>
                            session[t].durable = Contract(t)!Statements(done[t])
                      /\ reply[t].kind \in {"failed", "masked", "lost"} => session[t].durable = <<>>
    BY DEF OutcomeIsTrue
  <1>1. TxInv(fault, tx[t], session[t], due[t], done[t], ranIn[t], reply[t])
    BY DEF SocketInv
  <1>2. CASE tx[t].pc = "over"
    <2>1. Told(session[t], due[t], done[t], reply[t])
      BY <1>1, <1>2 DEF TxInv
    <2> QED BY <2>1 DEF Told, Contract!EndsTransaction, Contract!Statements
  <1>3. CASE tx[t].pc # "over"
    <2>1. session[t].durable = <<>> /\ done[t] \in Seq(Stmts)
      BY <1>1, <1>3 DEF TxInv, Kinds
    <2>2. ~Contract(t)!EndsTransaction(done[t])
      <3>1. done[t] # <<>> => Len(done[t]) \in 1..Len(done[t])
        BY <2>1
      <3> QED BY <2>1, <3>1, StatementAssumption DEF Contract!EndsTransaction
    <2> QED BY <2>1, <2>2
  <1> QED BY <1>2, <1>3

\* And which run the answers are from.
LEMMA InvAnswers == ASSUME Transient = FALSE PROVE SocketInv => AnswersStand
  <1> SUFFICES ASSUME SocketInv, NEW t \in Txs, session[t].durable # <<>>,
                      NEW k \in DOMAIN ranIn[t]
               PROVE  ranIn[t][k] = tx[t].runs
    BY DEF AnswersStand
  <1>1. TxInv(fault, tx[t], session[t], due[t], done[t], ranIn[t], reply[t])
    BY DEF SocketInv
  <1>2. tx[t].pc = "over" /\ ranIn[t] \in Seq(Nat)
    BY <1>1 DEF TxInv, Kinds
  <1>3. Stands(fault, tx[t], session[t], due[t], done[t], ranIn[t])
    BY <1>1 DEF TxInv
  <1>4. tx[t].runs = 0 /\ \A i \in 1..Len(ranIn[t]) : ranIn[t][i] = 0
    BY <1>2, <1>3 DEF Stands
  <1>5. k \in 1..Len(ranIn[t])
    BY <1>2
  <1> QED BY <1>4, <1>5

LEMMA AlwaysInv == Spec => []SocketInv
  BY InitInv, NextInv, PTL DEF Spec

\* What the pipelining driver tells its caller is what the database did: a commit
\* keeps every statement called or queued, once each and in order, and nothing else
\* ever becomes durable, however often `send` ran the transaction again, whichever
\* flight the connection broke in and whatever other transactions did to RESULT_TYPES.
THEOREM SocketOutcome == Spec => []OutcomeIsTrue
  BY AlwaysInv, InvOutcome, PTL

\* Where a failure happens again when its statements are run again (which a lock or a
\* conflict need not), a transaction that commits is one that was never run again: the
\* answers given to its caller are those of the run that was committed.
LEMMA SocketAnswers == ASSUME Transient = FALSE PROVE Spec => []AnswersStand
  <1>1. SocketInv => AnswersStand
    BY InvAnswers
  <1> QED BY <1>1, AlwaysInv, PTL

-----------------------------------------------------------------------------
(* What a step does to the transaction that takes it *)

\* The call a transaction is in is where its `ahead` says it is, and nothing it
\* was answered fails when it is run again.
Placed(f, x, du, dn, qd) ==
    /\ qd \in Nat
    /\ x.pc # "over" => \A i \in 1..Len(dn) : f[dn[i]] = "none"
    /\ x.pc \in Busy => Len(x.sent) + Len(x.ahead) = 1 + Len(dn) + qd

AllPlaced ==
    /\ DOMAIN queuedDue = Txs
    /\ \A t \in Txs : Placed(fault, tx[t], due[t], done[t], queuedDue[t])

\* A step of t, as far as the call is concerned.
Moves(t, y, du, dn, qd) ==
    /\ fault' = fault /\ DOMAIN queuedDue' = Txs
    /\ tx'[t] = y /\ due'[t] = du /\ done'[t] = dn /\ queuedDue'[t] = qd
    /\ \A u \in Txs : u # t =>
          tx'[u] = tx[u] /\ due'[u] = due[u] /\ done'[u] = done[u] /\ queuedDue'[u] = queuedDue[u]

Stays(t, y) == Moves(t, y, due[t], done[t], queuedDue[t])

LEMMA OpenMoves ==
    ASSUME SocketInv, AllPlaced, NEW t \in Txs, OpenConnection(t)
    PROVE  Stays(t, Opened(tx[t])) /\ tx[t].pc = "new" /\ known' = known
  BY DEF OpenConnection, SocketInv, AllPlaced, Stays, Moves, Opened

LEMMA ConnectFailsMoves ==
    ASSUME SocketInv, AllPlaced, NEW t \in Txs, ConnectFails(t)
    PROVE  Stays(t, Ended(tx[t])) /\ known' = known
  BY DEF ConnectFails, SocketInv, AllPlaced, Stays, Moves, Ended

LEMMA DropMoves ==
    ASSUME SocketInv, AllPlaced, NEW t \in Txs, DropTx(t)
    PROVE  Stays(t, Ended(tx[t])) /\ known' = known
  BY DEF DropTx, SocketInv, AllPlaced, Stays, Moves, Ended

LEMMA BreakMoves ==
    ASSUME SocketInv, AllPlaced, NEW t \in Txs, ConnectionBreaks(t)
    PROVE  Stays(t, Ended(tx[t])) /\ known' = known
  BY DEF ConnectionBreaks, SocketInv, AllPlaced, Stays, Moves, Ended

LEMMA QueueMoves ==
    ASSUME SocketInv, AllPlaced, NEW t \in Txs, NEW s \in Stmts, QueueStatement(t, s)
    PROVE  /\ Moves(t, Queued(tx[t], s), Append(due[t], s), done[t], queuedDue[t])
           /\ tx[t].pc = "ready" /\ known' = known
  BY DEF QueueStatement, SocketInv, AllPlaced, Moves, Queued

LEMMA SendMoves ==
    ASSUME SocketInv, AllPlaced, NEW t \in Txs, NEW stmts \in Calls, Send(t, stmts)
    PROVE  /\ Moves(t, Sending(tx[t], stmts, Limit(t, stmts)), due[t] \o stmts, done[t], Len(due[t]))
           /\ tx[t].pc = "ready" /\ known' = known
  BY DEF Send, SocketInv, AllPlaced, Moves, Sending

LEMMA BeginMoves ==
    ASSUME SocketInv, AllPlaced, NEW t \in Txs, BeginFlight(t)
    PROVE  /\ Stays(t, Flying(tx[t], FlightEnd(t), All(t)[tx[t].start] \in known))
           /\ tx[t].pc = "begin" /\ known' = known
  BY DEF BeginFlight, SocketInv, AllPlaced, Stays, Moves, Flying

LEMMA PrepareMoves ==
    ASSUME SocketInv, AllPlaced, NEW t \in Txs, Prepare(t)
    PROVE  /\ tx[t].pc = "prepare" /\ known' = known
           /\ \/ Stays(t, PreparedTx(tx[t], All(t)[tx[t].start]))
              \/ Stays(t, Ended(tx[t]))
  <1> DEFINE s == All(t)[tx[t].start]
  <1>1. CASE fault[s] # "parse"
    <2>1. /\ tx' = [tx EXCEPT ![t] = [@ EXCEPT !.pc = AfterPrepare, !.typed = tx[t].typed \cup {s}]]
          /\ UNCHANGED <<due, queuedDue, done, fault, known>>
      BY <1>1 DEF Prepare
    <2> HIDE DEF s
    <2>2. Stays(t, PreparedTx(tx[t], s))
      BY <2>1 DEF SocketInv, AllPlaced, Stays, Moves, PreparedTx, AfterPrepare
    <2> QED BY <2>1, <2>2 DEF Prepare, s
  <1>2. CASE fault[s] = "parse"
    <2>1. tx' = [tx EXCEPT ![t].pc = "over"] /\ UNCHANGED <<due, queuedDue, done, fault, known>>
      BY <1>2 DEF Prepare, Report
    <2>2. Stays(t, Ended(tx[t]))
      BY <2>1 DEF SocketInv, AllPlaced, Stays, Moves, Ended
    <2> QED BY <2>1, <2>2 DEF Prepare
  <1> QED BY <1>1, <1>2

\* The types a flight looks up.
Looked(t, fl, a) == {fl[k] : k \in {j \in 1..SentOf(fl) : LooksUp(t, fl, a, j)}}

\* The sessions along the flight of a transaction, and what it knows at its end.
RunOf(t) == Sessions(t, Flight(t))
Learnt(t) == tx[t].typed \cup Looked(t, Flight(t), RunOf(t))

LEMMA AnswersMoves ==
    ASSUME SocketInv, AllPlaced, NEW t \in Txs, FlightAnswers(t)
    PROVE  /\ tx[t].pc = "fly" /\ known' = known
           /\ \A k \in DOMAIN Flight(t) : AnswerTo(t, Flight(t), RunOf(t), k) = "ok"
           /\ session' = [session EXCEPT ![t] = RunOf(t)[SentOf(Flight(t))]]
           /\ \/ /\ ~(tx[t].end > Len(AllOf(tx[t]))) /\ Stays(t, FlownOn(tx[t], Learnt(t))) /\ reply' = reply
              \/ /\ tx[t].end > Len(AllOf(tx[t]))
                 /\ Moves(t, FlownHome(tx[t], Learnt(t)), <<>>, done[t] \o due[t], queuedDue[t])
                 /\ reply' = [reply EXCEPT ![t] = Ok]
  <1> DEFINE fl == Flight(t)
             a == RunOf(t)
             typed == Learnt(t)
  <1> DEFINE fl0 == Flight(t)
             a0 == Sessions(t, fl0)
             typed0 == tx[t].typed \cup {fl0[k] : k \in {j \in 1..SentOf(fl0) : LooksUp(t, fl0, a0, j)}}
  <1>0. fl0 = fl /\ a0 = a /\ typed0 = typed
    BY DEF Looked, RunOf, Learnt
  <1> HIDE DEF fl, a, typed
  <1>1. /\ tx[t].pc = "fly" /\ UNCHANGED <<fault, custom, known>>
        /\ \A k \in DOMAIN fl : AnswerTo(t, fl, a, k) = "ok"
        /\ session' = [session EXCEPT ![t] = a[SentOf(fl)]]
        /\ \/ /\ ~LastFlight(t)
              /\ tx' = [tx EXCEPT ![t] = [@ EXCEPT !.pc = "begin", !.start = NextStart(t), !.typed = typed]]
              /\ UNCHANGED <<due, queuedDue, done, ranIn, reply>>
           \/ /\ LastFlight(t)
              /\ tx' = [tx EXCEPT ![t] =
                          [@ EXCEPT !.pc = IF All(t)[Len(All(t))] = Commit THEN "over" ELSE "ready",
                                    !.sent = tx[t].sent \o All(t), !.typed = typed]]
              /\ due' = [due EXCEPT ![t] = <<>>]
              /\ done' = [done EXCEPT ![t] = @ \o due[t]]
              /\ reply' = [reply EXCEPT ![t] = Ok]
              /\ UNCHANGED queuedDue
    <2>1. /\ tx[t].pc = "fly" /\ UNCHANGED <<fault, custom, known>>
          /\ \A k \in DOMAIN fl0 : AnswerTo(t, fl0, a0, k) = "ok"
          /\ session' = [session EXCEPT ![t] = a0[SentOf(fl0)]]
          /\ \/ /\ ~LastFlight(t)
                /\ tx' = [tx EXCEPT ![t] = [@ EXCEPT !.pc = "begin", !.start = NextStart(t), !.typed = typed0]]
                /\ UNCHANGED <<due, queuedDue, done, ranIn, reply>>
             \/ /\ LastFlight(t)
                /\ tx' = [tx EXCEPT ![t] =
                            [@ EXCEPT !.pc = IF All(t)[Len(All(t))] = Commit THEN "over" ELSE "ready",
                                      !.sent = tx[t].sent \o All(t), !.typed = typed0]]
                /\ due' = [due EXCEPT ![t] = <<>>]
                /\ done' = [done EXCEPT ![t] = @ \o due[t]]
                /\ reply' = [reply EXCEPT ![t] = Ok]
                /\ UNCHANGED queuedDue
      BY DEF FlightAnswers
    <2> HIDE DEF fl0, a0, typed0
    <2> QED BY <1>0, <2>1
  <1> HIDE DEF fl0, a0, typed0
  <1>2. All(t) = AllOf(tx[t])
    BY InvOf
  <1>3. CASE /\ ~LastFlight(t)
             /\ tx' = [tx EXCEPT ![t] = [@ EXCEPT !.pc = "begin", !.start = NextStart(t), !.typed = typed]]
             /\ UNCHANGED <<due, queuedDue, done, ranIn, reply>>
    <2>1. tx' = [tx EXCEPT ![t] = FlownOn(tx[t], typed)]
      BY <1>3 DEF FlownOn, NextStart
    <2>2. Stays(t, FlownOn(tx[t], typed))
      BY <1>1, <1>3, <2>1 DEF SocketInv, AllPlaced, Stays, Moves
    <2> QED BY <1>1, <1>2, <1>3, <2>2 DEF LastFlight, fl, a, typed
  <1>4. CASE /\ LastFlight(t)
             /\ tx' = [tx EXCEPT ![t] =
                         [@ EXCEPT !.pc = IF All(t)[Len(All(t))] = Commit THEN "over" ELSE "ready",
                                   !.sent = tx[t].sent \o All(t), !.typed = typed]]
             /\ due' = [due EXCEPT ![t] = <<>>]
             /\ done' = [done EXCEPT ![t] = @ \o due[t]]
             /\ reply' = [reply EXCEPT ![t] = Ok]
             /\ UNCHANGED queuedDue
    <2>1. tx' = [tx EXCEPT ![t] = FlownHome(tx[t], typed)]
      BY <1>2, <1>4 DEF FlownHome
    <2>2. Moves(t, FlownHome(tx[t], typed), <<>>, done[t] \o due[t], queuedDue[t])
      BY <1>1, <1>4, <2>1 DEF SocketInv, AllPlaced, Moves
    <2> QED BY <1>1, <1>2, <1>4, <2>2 DEF LastFlight, fl, a, typed
  <1> QED BY <1>1, <1>3, <1>4 DEF fl, a, typed

\* The answers of a flight that are no `Ok`, and the first of them.
Bad(t, fl, a) == {k \in DOMAIN fl : AnswerTo(t, fl, a, k) # "ok"}
FirstBad(t, fl, a) == CHOOSE j \in Bad(t, fl, a) : \A i \in Bad(t, fl, a) : j <= i

LEMMA FailsMoves ==
    ASSUME SocketInv, AllPlaced, NEW t \in Txs, FlightFails(t),
           NEW fl, fl = Flight(t), NEW a, a = RunOf(t),
           NEW k, k = FirstBad(t, fl, a), NEW at, at = tx[t].start + k - 1
    PROVE  /\ tx[t].pc = "fly" /\ known' = known /\ Bad(t, fl, a) # {}
           /\ session' = [session EXCEPT ![t] = a[SentOf(fl)]]
           /\ \/ /\ AnswerTo(t, fl, a, k) = "25P02" /\ ~(k = 1 /\ tx[t].prepared)
                 /\ Stays(t, MaskedTx(tx[t], at)) /\ reply' = reply
              \/ /\ AnswerTo(t, fl, a, k) = "error" \/ (k = 1 /\ tx[t].prepared)
                 /\ Stays(t, Ended(tx[t]))
                 /\ Report(t, IF AnswerTo(t, fl, a, k) = "error" THEN "failed" ELSE "masked", at)
  <1>1. /\ tx[t].pc = "fly" /\ UNCHANGED <<fault, custom, known>> /\ Bad(t, fl, a) # {}
        /\ session' = [session EXCEPT ![t] = a[SentOf(fl)]]
        /\ \/ /\ AnswerTo(t, fl, a, k) = "25P02" /\ ~(k = 1 /\ tx[t].prepared)
              /\ tx' = [tx EXCEPT ![t] = [@ EXCEPT !.pc = "masked", !.masked = at]]
              /\ UNCHANGED <<due, queuedDue, done, ranIn, reply>>
           \/ /\ AnswerTo(t, fl, a, k) = "error" \/ (k = 1 /\ tx[t].prepared)
              /\ tx' = [tx EXCEPT ![t].pc = "over"]
              /\ Report(t, IF AnswerTo(t, fl, a, k) = "error" THEN "failed" ELSE "masked", at)
    BY DEF FlightFails, Bad, FirstBad, RunOf
  <1>2. ASSUME /\ tx' = [tx EXCEPT ![t] = [@ EXCEPT !.pc = "masked", !.masked = at]]
               /\ UNCHANGED <<due, queuedDue, done, ranIn, reply>>
        PROVE  Stays(t, MaskedTx(tx[t], at))
    BY <1>1, <1>2 DEF SocketInv, AllPlaced, Stays, Moves, MaskedTx
  <1>3. ASSUME tx' = [tx EXCEPT ![t].pc = "over"], UNCHANGED <<due, queuedDue, done, ranIn>>
        PROVE  Stays(t, Ended(tx[t]))
    BY <1>1, <1>3 DEF SocketInv, AllPlaced, Stays, Moves, Ended
  <1>4. \A kind : Report(t, kind, at) => UNCHANGED <<due, queuedDue, done, ranIn>>
    BY DEF Report
  <1> QED BY <1>1, <1>2, <1>3, <1>4

LEMMA RememberMoves ==
    ASSUME SocketInv, AllPlaced, NEW t \in Txs, Remember(t),
           NEW s, s = AllOf(tx[t])[tx[t].masked]
    PROVE  /\ tx[t].pc = "masked" /\ session' = session
           /\ \/ s \in known /\ known' = known /\ Stays(t, Ended(tx[t])) /\ Report(t, "masked", tx[t].masked)
              \/ s \notin known /\ known' = Remembered(s) /\ Stays(t, RollingBack(tx[t])) /\ reply' = reply
  <1>1. All(t) = AllOf(tx[t])
    BY InvOf
  <1>2. CASE s \in known
    <2>1. /\ tx' = [tx EXCEPT ![t].pc = "over"] /\ Report(t, "masked", tx[t].masked)
          /\ UNCHANGED <<known, fault, session, due, queuedDue, done>> /\ tx[t].pc = "masked"
      BY <1>1, <1>2 DEF Remember, Report
    <2> QED BY <1>2, <2>1 DEF SocketInv, AllPlaced, Stays, Moves, Ended
  <1>3. CASE s \notin known
    <2>1. /\ tx' = [tx EXCEPT ![t].pc = "rollback"] /\ known' = Remembered(s)
          /\ UNCHANGED <<fault, session, due, queuedDue, done, reply>> /\ tx[t].pc = "masked"
      BY <1>1, <1>3 DEF Remember
    <2> QED BY <1>3, <2>1 DEF SocketInv, AllPlaced, Stays, Moves, RollingBack
  <1> QED BY <1>2, <1>3

LEMMA AgainMoves ==
    ASSUME SocketInv, AllPlaced, NEW t \in Txs, RunAgain(t)
    PROVE  /\ tx[t].pc = "rollback" /\ known' = known
           /\ session' = [session EXCEPT ![t] = RolledBack(@)]
           /\ \/ tx[t].runs < tx[t].limit /\ Stays(t, Again(tx[t])) /\ reply' = reply
              \/ tx[t].runs >= tx[t].limit /\ Stays(t, Ended(tx[t])) /\ Report(t, "lost", tx[t].masked)
  <1>1. tx[t].pc = "rollback" /\ UNCHANGED <<fault, custom, known>>
        /\ session' = [session EXCEPT ![t] = RolledBack(@)]
    BY DEF RunAgain
  <1>2. CASE /\ tx[t].runs < tx[t].limit
             /\ tx' = [tx EXCEPT ![t] = [@ EXCEPT !.pc = "begin", !.ahead = AllAgain(t), !.sent = <<>>, !.start = 1,
                                                  !.runs = tx[t].runs + 1]]
             /\ UNCHANGED <<due, queuedDue, done, ranIn, reply>>
    <2>1. tx' = [tx EXCEPT ![t] = Again(tx[t])]
      BY <1>2 DEF Again, AllAgain
    <2> QED BY <1>1, <1>2, <2>1 DEF SocketInv, AllPlaced, Stays, Moves
  <1>3. CASE tx[t].runs >= tx[t].limit /\ tx' = [tx EXCEPT ![t].pc = "over"] /\ Report(t, "lost", tx[t].masked)
    <2>1. UNCHANGED <<due, queuedDue, done>>
      BY <1>3 DEF Report
    <2> QED BY <1>1, <1>3, <2>1 DEF SocketInv, AllPlaced, Stays, Moves, Ended
  <1> QED BY <1>2, <1>3 DEF RunAgain

\* The fields a step changes, and those it keeps.
LEMMA OpenedIs ==
    ASSUME NEW x \in Tx, NEW y, y = Opened(x)
    PROVE  y.pc = "ready" /\ y.typed = x.typed
  BY DEF Tx, Opened

LEMMA QueuedIs ==
    ASSUME NEW x \in Tx, NEW s, NEW y, y = Queued(x, s)
    PROVE  y.pc = x.pc /\ y.typed = x.typed
  BY DEF Tx, Queued

LEMMA EndedIs ==
    ASSUME NEW x \in Tx, NEW y, y = Ended(x)
    PROVE  y.pc = "over"
  BY DEF Tx, Ended

LEMMA SendingIs ==
    ASSUME NEW x \in Tx, NEW stmts, NEW limit, NEW y, y = Sending(x, stmts, limit)
    PROVE  /\ y.pc = "begin" /\ y.sent = x.sent /\ y.ahead = x.queued /\ y.stmts = stmts
           /\ y.start = 1 /\ y.runs = 0 /\ y.limit = limit /\ y.typed = x.typed
  BY DEF Tx, Sending

LEMMA FlyingIs ==
    ASSUME NEW x \in Tx, NEW end, NEW prepare, NEW y, y = Flying(x, end, prepare)
    PROVE  /\ y.sent = x.sent /\ y.ahead = x.ahead /\ y.stmts = x.stmts /\ y.runs = x.runs /\ y.limit = x.limit
           /\ y.pc = (IF prepare THEN "prepare" ELSE "fly") /\ y.start = x.start /\ y.typed = x.typed
           /\ y.end = end /\ y.prepared = prepare
  BY DEF Tx, Flying

LEMMA PreparedIs ==
    ASSUME NEW x \in Tx, NEW s, NEW y, y = PreparedTx(x, s)
    PROVE  /\ y.sent = x.sent /\ y.ahead = x.ahead /\ y.stmts = x.stmts /\ y.runs = x.runs /\ y.limit = x.limit
           /\ y.pc = "fly" /\ y.start = x.start /\ y.typed = x.typed \cup {s}
           /\ y.end = x.end /\ y.prepared = x.prepared
  BY DEF Tx, PreparedTx

LEMMA FlownOnIs ==
    ASSUME NEW x \in Tx, NEW typed, NEW y, y = FlownOn(x, typed)
    PROVE  /\ y.sent = x.sent /\ y.ahead = x.ahead /\ y.stmts = x.stmts /\ y.runs = x.runs /\ y.limit = x.limit
           /\ y.pc = "begin" /\ y.start = x.end /\ y.typed = typed
  BY DEF Tx, FlownOn

LEMMA FlownHomeIs ==
    ASSUME NEW x \in Tx, NEW typed, NEW y, y = FlownHome(x, typed)
    PROVE  y.pc = (IF AllOf(x)[Len(AllOf(x))] = Commit THEN "over" ELSE "ready") /\ y.typed = typed
  BY DEF Tx, FlownHome

LEMMA MaskedIs ==
    ASSUME NEW x \in Tx, NEW at, NEW y, y = MaskedTx(x, at)
    PROVE  /\ y.sent = x.sent /\ y.ahead = x.ahead /\ y.stmts = x.stmts /\ y.runs = x.runs /\ y.limit = x.limit
           /\ y.pc = "masked" /\ y.masked = at /\ y.typed = x.typed
  BY DEF Tx, MaskedTx

LEMMA RollingIs ==
    ASSUME NEW x \in Tx, NEW y, y = RollingBack(x)
    PROVE  /\ y.sent = x.sent /\ y.ahead = x.ahead /\ y.stmts = x.stmts /\ y.runs = x.runs /\ y.limit = x.limit
           /\ y.pc = "rollback" /\ y.masked = x.masked /\ y.typed = x.typed
  BY DEF Tx, RollingBack

LEMMA AgainIs ==
    ASSUME NEW x \in Tx, NEW y, y = Again(x)
    PROVE  /\ y.pc = "begin" /\ y.sent = <<>> /\ y.ahead = x.sent \o x.ahead /\ y.stmts = x.stmts
           /\ y.start = 1 /\ y.runs = x.runs + 1 /\ y.limit = x.limit /\ y.typed = x.typed
  BY DEF Tx, Again

-----------------------------------------------------------------------------
(* Where the call is *)

LEMMA PlacedStep ==
    ASSUME AllPlaced, NEW t \in Txs, NEW y, NEW du, NEW dn, NEW qd, Moves(t, y, du, dn, qd),
           Placed(fault, y, du, dn, qd)
    PROVE  AllPlaced'
  <1>1. ASSUME NEW u \in Txs PROVE Placed(fault', tx'[u], due'[u], done'[u], queuedDue'[u])
    <2>1. CASE u = t
      BY <2>1 DEF Moves
    <2>2. CASE u # t
      BY <2>2 DEF Moves, AllPlaced
    <2> QED BY <2>1, <2>2
  <1> QED BY <1>1 DEF Moves, AllPlaced

LEMMA PlacedSame ==
    ASSUME NEW f, NEW x, NEW y, NEW du, NEW dn, NEW qd, Placed(f, x, du, dn, qd),
           y.pc # "over" => x.pc # "over",
           y.pc \in Busy => x.pc \in Busy /\ y.sent = x.sent /\ y.ahead = x.ahead
    PROVE  Placed(f, y, du, dn, qd)
  BY DEF Placed

LEMMA StaysPlaced ==
    ASSUME SocketInv, AllPlaced, NEW t \in Txs, NEW y, Stays(t, y),
           y.pc # "over" => tx[t].pc # "over",
           y.pc \in Busy => tx[t].pc \in Busy /\ y.sent = tx[t].sent /\ y.ahead = tx[t].ahead
    PROVE  AllPlaced'
  <1>1. Placed(fault, tx[t], due[t], done[t], queuedDue[t])
    BY DEF AllPlaced
  <1>2. Placed(fault, y, due[t], done[t], queuedDue[t])
    BY <1>1, PlacedSame
  <1> QED BY <1>2, PlacedStep DEF Stays

LEMMA InTx == ASSUME SocketInv, NEW t \in Txs PROVE tx[t] \in Tx
  BY InvOf DEF TxInv, Kinds

\* After a flight of `Ok`s nothing that was run so far fails.
LEMMA AnswersClear ==
    ASSUME SocketInv, NEW t \in Txs, tx[t].pc = "fly",
           NEW fl, fl = Flight(t), NEW a, a = Sessions(t, fl),
           \A k \in DOMAIN fl : AnswerTo(t, fl, a, k) = "ok",
           NEW w, w = Whole(due[t], done[t])
    PROVE  /\ SentOf(fl) = Len(fl)
           /\ \/ Good(fault, a[SentOf(fl)], w, Ran(tx[t]) + Len(fl))
              \/ Finished(fault, a[SentOf(fl)], w) /\ Ran(tx[t]) + Len(fl) = Len(w)
           /\ \A i \in 1..(Ran(tx[t]) + Len(fl)) : fault[w[i]] = "none"
  <1> DEFINE m == SentOf(fl)
             n == Ran(tx[t])
  <1>1. /\ fl \in Seq(Sql) /\ Len(fl) \in Nat /\ Len(fl) >= 1 /\ DOMAIN fl = 1..Len(fl)
        /\ \A k \in 0..m : Reached(fault, a, fl, w, n, k)
    BY FlightIs
  <1>2. m = Len(fl) /\ \A k \in 1..Len(fl) : Outcome(a[k - 1], fl[k], fault) = "ok"
    BY <1>1, AllAnswered
  <1> HIDE DEF m, n
  <1>3. Reached(fault, a, fl, w, n, m)
    BY <1>1, <1>2
  <1>4. Good(fault, a[m], w, n + m) \/ (Finished(fault, a[m], w) /\ n + m = Len(w))
    BY <1>2, <1>3, FlightWasGood
  <1> QED BY <1>2, <1>4 DEF Good, Finished, m, n

\* In numbers: the whole, as far as it was answered and is due.
LEMMA WholeParts ==
    ASSUME NEW f, NEW du \in Seq(Sql), NEW dn \in Seq(Sql),
           \A i \in 1..Len(Whole(du, dn)) : f[Whole(du, dn)[i]] = "none"
    PROVE  \A i \in 1..Len(dn \o du) : f[(dn \o du)[i]] = "none"
  <1> DEFINE v == dn \o du
             w == Whole(du, dn)
  <1>1. v \in Seq(Sql) /\ <<Begin>> \in Seq(Sql) /\ Len(<<Begin>>) = 1 /\ w = <<Begin>> \o v
    BY ConcatFacts DEF Whole, Sql
  <1>2. w \in Seq(Sql) /\ Len(w) = 1 + Len(v) /\ Len(v) \in Nat /\ \A i \in 1..Len(v) : w[1 + i] = v[i]
    <2> HIDE DEF v
    <2> QED BY <1>1
  <1> HIDE DEF v, w
  <1>3. ASSUME NEW i \in 1..Len(v) PROVE f[v[i]] = "none"
    <2>1. 1 + i \in 1..Len(w)
      BY <1>2
    <2> QED BY <1>2, <2>1 DEF w
  <1> QED BY <1>3 DEF v

LEMMA PlacedNext == SocketInv /\ AllPlaced /\ [Next]_vars => AllPlaced'
  <1> SUFFICES ASSUME SocketInv, AllPlaced, [Next]_vars PROVE AllPlaced'
    OBVIOUS
  <1>1. CASE UNCHANGED vars
    BY <1>1 DEF vars, AllPlaced
  <1>2. ASSUME NEW t \in Txs, OpenConnection(t) PROVE AllPlaced'
    BY <1>2, OpenMoves, StaysPlaced, InTx, OpenedIs DEF Busy
  <1>3. ASSUME NEW t \in Txs, ConnectFails(t) \/ DropTx(t) \/ ConnectionBreaks(t) PROVE AllPlaced'
    <2>1. Stays(t, Ended(tx[t]))
      BY <1>3, ConnectFailsMoves, DropMoves, BreakMoves
    <2> QED BY <2>1, StaysPlaced, InTx, EndedIs DEF Busy
  <1>4. ASSUME NEW t \in Txs, NEW s \in Stmts, QueueStatement(t, s) PROVE AllPlaced'
    <2>1. /\ Moves(t, Queued(tx[t], s), Append(due[t], s), done[t], queuedDue[t])
          /\ tx[t].pc = "ready" /\ Queued(tx[t], s).pc = "ready"
      BY <1>4, QueueMoves, InTx, QueuedIs
    <2>2. Placed(fault, Queued(tx[t], s), Append(due[t], s), done[t], queuedDue[t])
      BY <2>1 DEF AllPlaced, Placed, Busy
    <2> QED BY <2>1, <2>2, PlacedStep
  <1>5. ASSUME NEW t \in Txs, NEW stmts \in Calls, Send(t, stmts) PROVE AllPlaced'
    <2> DEFINE y == Sending(tx[t], stmts, Limit(t, stmts))
    <2>1. /\ Moves(t, y, due[t] \o stmts, done[t], Len(due[t]))
          /\ tx[t].pc = "ready" /\ y.pc = "begin" /\ y.sent = tx[t].sent /\ y.ahead = tx[t].queued
      BY <1>5, SendMoves, InTx, SendingIs
    <2>2. /\ tx[t].sent \in Seq(Sql) /\ tx[t].queued \in Seq(Sql) /\ due[t] \in Seq(Sql) /\ done[t] \in Seq(Sql)
          /\ tx[t].sent \o tx[t].queued = Whole(due[t], done[t])
      BY <2>1, InvOf DEF TxInv, Kinds, Cut, Tx
    <2>3. Len(tx[t].sent) + Len(tx[t].queued) = 1 + Len(done[t]) + Len(due[t]) /\ Len(due[t]) \in Nat
      <3>1. Len(tx[t].sent \o tx[t].queued) = Len(tx[t].sent) + Len(tx[t].queued)
        BY <2>2, ConcatFacts
      <3>2. Len(Whole(due[t], done[t])) = 1 + Len(done[t]) + Len(due[t])
        BY <2>2, WholeIs
      <3>3. Len(tx[t].sent \o tx[t].queued) = Len(Whole(due[t], done[t]))
        BY <2>2
      <3>4. Len(due[t]) \in Nat
        BY <2>2
      <3> QED BY <3>1, <3>2, <3>3, <3>4
    <2> HIDE DEF y
    <2>4. Placed(fault, y, due[t] \o stmts, done[t], Len(due[t]))
      BY <2>1, <2>3 DEF AllPlaced, Placed
    <2> QED BY <2>1, <2>4, PlacedStep
  <1>6. ASSUME NEW t \in Txs, BeginFlight(t) PROVE AllPlaced'
    <2> DEFINE y == Flying(tx[t], FlightEnd(t), All(t)[tx[t].start] \in known)
    <2>1. Stays(t, y) /\ tx[t].pc = "begin"
      BY <1>6, BeginMoves
    <2>2. y.sent = tx[t].sent /\ y.ahead = tx[t].ahead
      BY InTx, FlyingIs
    <2> HIDE DEF y
    <2> QED BY <2>1, <2>2, StaysPlaced DEF Busy
  <1>7. ASSUME NEW t \in Txs, Prepare(t) PROVE AllPlaced'
    <2>1. tx[t].pc = "prepare"
      BY <1>7, PrepareMoves
    <2>2. CASE Stays(t, PreparedTx(tx[t], All(t)[tx[t].start]))
      BY <2>1, <2>2, StaysPlaced, InTx, PreparedIs DEF Busy
    <2>3. CASE Stays(t, Ended(tx[t]))
      BY <2>1, <2>3, StaysPlaced, InTx, EndedIs DEF Busy
    <2> QED BY <1>7, <2>2, <2>3, PrepareMoves
  <1>8. ASSUME NEW t \in Txs, FlightAnswers(t) PROVE AllPlaced'
    <2> DEFINE fl == Flight(t)
               a == RunOf(t)
               typed == Learnt(t)
               w == Whole(due[t], done[t])
    <2>0. fl = Flight(t) /\ a = Sessions(t, fl)
      BY DEF RunOf
    <2>1. /\ tx[t].pc = "fly" /\ \A k \in DOMAIN fl : AnswerTo(t, fl, a, k) = "ok"
          /\ \/ Stays(t, FlownOn(tx[t], typed))
             \/ /\ tx[t].end > Len(AllOf(tx[t]))
                /\ Moves(t, FlownHome(tx[t], typed), <<>>, done[t] \o due[t], queuedDue[t])
      BY <1>8, AnswersMoves
    <2> HIDE DEF fl, a, typed
    <2>2. \A i \in 1..(Ran(tx[t]) + Len(fl)) : fault[w[i]] = "none"
      BY <2>0, <2>1, AnswersClear
    <2>3. tx[t].end > Len(AllOf(tx[t])) => Ran(tx[t]) + Len(fl) = Len(w)
      <3>1. fl = FlightFrom(tx[t])
        BY <2>0, <2>1, FlightIs
      <3> QED BY <2>1, <3>1, InvOf, FlightOfTx
    <2>4. due[t] \in Seq(Sql) /\ done[t] \in Seq(Sql)
      BY InvOf DEF TxInv, Kinds
    <2>5. CASE Stays(t, FlownOn(tx[t], typed))
      BY <2>1, <2>5, StaysPlaced, InTx, FlownOnIs DEF Busy
    <2>6. CASE /\ tx[t].end > Len(AllOf(tx[t]))
               /\ Moves(t, FlownHome(tx[t], typed), <<>>, done[t] \o due[t], queuedDue[t])
      <3>1. \A i \in 1..Len(done[t] \o due[t]) : fault[(done[t] \o due[t])[i]] = "none"
        <4>1. \A i \in 1..Len(w) : fault[w[i]] = "none"
          BY <2>2, <2>3, <2>6
        <4> QED BY <2>4, <4>1, WholeParts, ZenonT(60)
      <3>2. FlownHome(tx[t], typed).pc \in {"over", "ready"}
        BY InTx, FlownHomeIs
      <3>3. queuedDue[t] \in Nat
        BY DEF AllPlaced, Placed
      <3>4. Placed(fault, FlownHome(tx[t], typed), <<>>, done[t] \o due[t], queuedDue[t])
        BY <3>1, <3>2, <3>3 DEF Placed, Busy
      <3> QED BY <2>6, <3>4, PlacedStep
    <2> QED BY <2>1, <2>5, <2>6
  <1>9. ASSUME NEW t \in Txs, FlightFails(t) PROVE AllPlaced'
    <2> DEFINE at == tx[t].start + FirstBad(t, Flight(t), RunOf(t)) - 1
    <2>1. tx[t].pc = "fly" /\ (Stays(t, MaskedTx(tx[t], at)) \/ Stays(t, Ended(tx[t])))
      BY <1>9, FailsMoves
    <2> HIDE DEF at
    <2>2. CASE Stays(t, MaskedTx(tx[t], at))
      BY <2>1, <2>2, StaysPlaced, InTx, MaskedIs DEF Busy
    <2>3. CASE Stays(t, Ended(tx[t]))
      BY <2>1, <2>3, StaysPlaced, InTx, EndedIs DEF Busy
    <2> QED BY <2>1, <2>2, <2>3
  <1>10. ASSUME NEW t \in Txs, Remember(t) PROVE AllPlaced'
    <2>1. tx[t].pc = "masked" /\ (Stays(t, RollingBack(tx[t])) \/ Stays(t, Ended(tx[t])))
      BY <1>10, RememberMoves
    <2>2. CASE Stays(t, RollingBack(tx[t]))
      BY <2>1, <2>2, StaysPlaced, InTx, RollingIs DEF Busy
    <2>3. CASE Stays(t, Ended(tx[t]))
      BY <2>1, <2>3, StaysPlaced, InTx, EndedIs DEF Busy
    <2> QED BY <2>1, <2>2, <2>3
  <1>11. ASSUME NEW t \in Txs, RunAgain(t) PROVE AllPlaced'
    <2>1. tx[t].pc = "rollback" /\ (Stays(t, Again(tx[t])) \/ Stays(t, Ended(tx[t])))
      BY <1>11, AgainMoves
    <2>2. CASE Stays(t, Again(tx[t]))
      <3> DEFINE y == Again(tx[t])
                 sn == tx[t].sent
                 ah == tx[t].ahead
      <3>0. y = Again(tx[t])
        OBVIOUS
      <3> HIDE DEF y
      <3>1. y.pc = "begin" /\ y.sent = <<>> /\ y.ahead = sn \o ah /\ sn \in Seq(Sql) /\ ah \in Seq(Sql)
        BY ZenonT(30), <3>0, InTx, AgainIs DEF Tx
      <3>2. Len(sn) + Len(ah) = 1 + Len(done[t]) + queuedDue[t] /\ queuedDue[t] \in Nat
            /\ \A i \in 1..Len(done[t]) : fault[done[t][i]] = "none"
        BY <2>1 DEF AllPlaced, Placed, Busy
      <3> HIDE DEF sn, ah
      <3>3. Len(y.sent) + Len(y.ahead) = Len(sn) + Len(ah)
        <4>1. Len(sn \o ah) = Len(sn) + Len(ah) /\ Len(sn) \in Nat /\ Len(ah) \in Nat
          BY <3>1, ConcatFacts
        <4>2. Len(y.sent) = 0 /\ Len(y.ahead) = Len(sn \o ah)
          BY <3>1
        <4> QED BY <4>1, <4>2
      <3>4. Placed(fault, y, due[t], done[t], queuedDue[t])
        BY <3>1, <3>2, <3>3 DEF Placed
      <3> QED BY <2>2, <3>4, PlacedStep DEF Stays, y
    <2>3. CASE Stays(t, Ended(tx[t]))
      BY <2>1, <2>3, StaysPlaced, InTx, EndedIs DEF Busy
    <2> QED BY <2>1, <2>2, <2>3
  <1>12. ASSUME NEW s \in Stmts, FaultPasses(s) PROVE AllPlaced'
    <2>1. fault' = [fault EXCEPT ![s] = "none"] /\ UNCHANGED <<tx, due, done, queuedDue>>
      BY <1>12 DEF FaultPasses
    <2>2. \A u \in Sql : fault[u] = "none" => fault'[u] = "none"
      BY <2>1 DEF SocketInv, Faults
    <2>3. ASSUME NEW t \in Txs PROVE Placed(fault', tx[t], due[t], done[t], queuedDue[t])
      <3>1. done[t] \in Seq(Sql) /\ \A i \in 1..Len(done[t]) : done[t][i] \in Sql
        BY InvOf DEF TxInv, Kinds
      <3> QED BY <2>2, <3>1 DEF AllPlaced, Placed
    <2> QED BY <2>1, <2>3 DEF AllPlaced
  <1>13. ASSUME NEW t \in Txs, Driver(t) PROVE AllPlaced'
    BY <1>6, <1>7, <1>8, <1>9, <1>10, <1>11, <1>13 DEF Driver
  <1> QED BY <1>1, <1>2, <1>3, <1>4, <1>5, <1>12, <1>13 DEF Next

LEMMA PlacedAlways == Spec => []AllPlaced
  <1>1. Init => AllPlaced
    BY DEF Init, AllPlaced, Placed, NewTx, Busy
  <1> QED BY <1>1, AlwaysInv, PlacedNext, PTL DEF Spec

-----------------------------------------------------------------------------
(* The first failure of a flight *)

LEMMA FirstBadIs ==
    ASSUME SocketInv, NEW t \in Txs, tx[t].pc = "fly",
           NEW fl, fl = Flight(t), NEW a, a = RunOf(t), Bad(t, fl, a) # {},
           NEW k, k = FirstBad(t, fl, a), NEW w, w = Whole(due[t], done[t]), NEW n, n = Ran(tx[t])
    PROVE  /\ k \in 1..Len(fl) /\ n \in Nat /\ n + k <= Len(w) /\ Len(w) \in Nat
           /\ AnswerTo(t, fl, a, k) # "ok"
           /\ SentOf(fl) \in 0..Len(fl) /\ k - 1 <= SentOf(fl)
           /\ Good(fault, a[k - 1], w, n + (k - 1))
           /\ fl[k] = w[n + k]
  <1> DEFINE m == SentOf(fl)
             B == Bad(t, fl, a)
  <1>1. /\ fl = FlightFrom(tx[t]) /\ fl \in Seq(Sql) /\ Len(fl) \in Nat /\ DOMAIN fl = 1..Len(fl)
        /\ m \in 0..Len(fl) /\ n \in Nat /\ n + Len(fl) <= Len(w) /\ Len(w) \in Nat
        /\ \A j \in 0..m : Reached(fault, a, fl, w, n, j)
    <2>1. a = Sessions(t, fl)
      BY DEF RunOf
    <2> QED BY <2>1, FlightIs
  <1>2. PieceOf(fl, w, n)
    BY <1>1, InvOf, FlightOfTx
  <1>3. B \subseteq 1..Len(fl) /\ B \subseteq Nat
    BY <1>1 DEF Bad
  <1>4. k \in B /\ \A i \in B : k <= i
    <2> HIDE DEF B
    <2>1. \E j \in B : \A i \in B : j <= i
      BY <1>3, NatMin DEF B
    <2> QED BY <2>1 DEF FirstBad, B
  <1>5. k \in 1..Len(fl) /\ AnswerTo(t, fl, a, k) # "ok"
    BY <1>1, <1>4 DEF Bad
  <1>6. ASSUME NEW j \in 1..(k - 1)
        PROVE  j <= m /\ Outcome(a[j - 1], fl[j], fault) = "ok"
    <2>1. j \in 1..Len(fl) /\ ~(k <= j)
      BY <1>1, <1>5
    <2>2. AnswerTo(t, fl, a, j) = "ok"
      BY <1>1, <1>4, <2>1 DEF Bad
    <2>3. ~(j > m) /\ Outcome(a[j - 1], fl[j], fault) = "ok"
      BY <2>2 DEF AnswerTo
    <2> QED BY <1>1, <2>1, <2>3
  <1> HIDE DEF B, m
  <1>7. k - 1 \in 0..m
    <2>1. CASE k = 1
      BY <1>1, <2>1
    <2>2. CASE k # 1
      <3>1. k - 1 \in 1..(k - 1)
        BY <1>1, <1>5, <2>2
      <3> QED BY <1>1, <1>5, <1>6, <3>1
    <2> QED BY <2>1, <2>2
  <1>8. n + k <= Len(w) /\ n + (k - 1) # Len(w)
    <2> DEFINE lf == Len(fl)
               lw == Len(w)
    <2>1. n \in Nat /\ lf \in Nat /\ lw \in Nat /\ k \in 1..lf /\ n + lf <= lw
      BY <1>1, <1>5
    <2> HIDE DEF lf, lw
    <2>2. n + k <= lw /\ n + (k - 1) # lw
      BY <2>1
    <2> QED BY <2>2 DEF lw
  <1>9. Good(fault, a[k - 1], w, n + (k - 1))
    <2> DEFINE q == k - 1
    <2>1. Reached(fault, a, fl, w, n, q) /\ \A j \in 1..q : Outcome(a[j - 1], fl[j], fault) = "ok"
      BY <1>1, <1>6, <1>7
    <2> HIDE DEF q
    <2>2. Good(fault, a[q], w, n + q) \/ (Finished(fault, a[q], w) /\ n + q = Len(w))
      BY <2>1, FlightWasGood
    <2> QED BY <1>8, <2>2 DEF q
  <1>10. fl[k] = w[n + k]
    BY <1>2, <1>5 DEF PieceOf
  <1> QED BY <1>1, <1>5, <1>7, <1>8, <1>9, <1>10 DEF m

LEMMA AnswerKinds ==
    ASSUME NEW t, NEW fl, NEW a, NEW k, AnswerTo(t, fl, a, k) # "ok"
    PROVE  AnswerTo(t, fl, a, k) \in {"error", "25P02"}
  BY DEF AnswerTo, Outcome

\* An error that comes first is the statement's own.
LEMMA ErrorIsItsOwn ==
    ASSUME NEW t, NEW fl \in Seq(Sql), NEW a, NEW k \in 1..Len(fl), k - 1 <= SentOf(fl),
           AnswerTo(t, fl, a, k) = "error"
    PROVE  fault[fl[k]] # "none"
  <1> DEFINE U == {j \in DOMAIN fl : fault[fl[j]] = "encode"}
             m == SentOf(fl)
             l == Len(fl)
  <1>1. m \in 0..l /\ l \in Nat /\ k \in 1..l /\ k - 1 <= m
    BY SentBound
  <1>2. CASE k > m
    <2>1. m = IF U = {} THEN l ELSE (CHOOSE j \in U : \A i \in U : j <= i) - 1
      BY DEF SentOf
    <2>2. U \subseteq Nat
      OBVIOUS
    <2> HIDE DEF U, m, l
    <2>3. U # {} /\ m = k - 1
      BY <1>1, <1>2, <2>1
    <2> DEFINE c == CHOOSE j \in U : \A i \in U : j <= i
    <2>4. c \in U
      <3>1. \E j \in U : \A i \in U : j <= i
        BY <2>2, <2>3, NatMin
      <3> QED BY <3>1
    <2>5. m = c - 1 /\ c \in Nat
      BY <2>1, <2>2, <2>3, <2>4
    <2> HIDE DEF c
    <2>6. c = k
      BY <1>1, <2>3, <2>5
    <2> QED BY <2>4, <2>6 DEF U
  <1>3. CASE ~(k > m)
    <2>1. Outcome(a[k - 1], fl[k], fault) = "error"
      BY <1>3 DEF AnswerTo
    <2> QED BY <2>1 DEF Outcome
  <1> QED BY <1>2, <1>3

\* A 25P02 that comes first is a type lookup's.
LEMMA LostIsALookup ==
    ASSUME NEW t, NEW fl, NEW a, NEW k, NEW w, NEW n \in Nat, Good(fault, a[k - 1], w, n),
           AnswerTo(t, fl, a, k) = "25P02"
    PROVE  LooksUp(t, fl, a, k) /\ a[SentOf(fl)].state = "aborted" /\ ~(k > SentOf(fl))
  <1>1. a[k - 1].state # "aborted"
    <2>1. n = 0 \/ n > 0
      OBVIOUS
    <2> QED BY <2>1 DEF Good
  <1>2. Outcome(a[k - 1], fl[k], fault) # "25P02"
    BY <1>1 DEF Outcome
  <1> QED BY <1>2 DEF AnswerTo

\* A flight of which no statement fails is answered with `Ok`s.
LEMMA ClearFlight ==
    ASSUME SocketInv, NEW t \in Txs, tx[t].pc = "fly",
           NEW fl, fl = Flight(t), NEW a, a = RunOf(t),
           NEW w, w = Whole(due[t], done[t]), NEW n, n = Ran(tx[t]),
           \A i \in 1..(n + Len(fl)) : fault[w[i]] = "none"
    PROVE  Bad(t, fl, a) = {}
  <1> SUFFICES ASSUME Bad(t, fl, a) # {} PROVE FALSE
    OBVIOUS
  <1> DEFINE k == FirstBad(t, fl, a)
             m == SentOf(fl)
  <1>1. /\ k \in 1..Len(fl) /\ n \in Nat /\ n + k <= Len(w) /\ Len(w) \in Nat
        /\ AnswerTo(t, fl, a, k) # "ok"
        /\ m \in 0..Len(fl) /\ k - 1 <= m
        /\ Good(fault, a[k - 1], w, n + (k - 1))
        /\ fl[k] = w[n + k]
    BY FirstBadIs
  <1>2. fl \in Seq(Sql) /\ Len(fl) \in Nat /\ Reached(fault, a, fl, w, n, m)
    <2>1. a = Sessions(t, fl)
      BY DEF RunOf
    <2>2. /\ fl \in Seq(Sql) /\ Len(fl) \in Nat /\ m \in 0..Len(fl)
          /\ \A j \in 0..m : Reached(fault, a, fl, w, n, j)
      BY <2>1, FlightIs
    <2> QED BY <2>2
  <1> HIDE DEF k
  <1>3. CASE AnswerTo(t, fl, a, k) = "error"
    <2>1. fault[fl[k]] # "none"
      BY <1>1, <1>2, <1>3, ErrorIsItsOwn
    <2>2. n + k \in 1..(n + Len(fl))
      BY <1>1, <1>2
    <2> QED BY <1>1, <2>1, <2>2
  <1>4. CASE AnswerTo(t, fl, a, k) = "25P02"
    <2> DEFINE q == n + (k - 1)
    <2>1. q \in Nat /\ Good(fault, a[k - 1], w, q)
      BY <1>1, <1>2
    <2> HIDE DEF q
    <2>2. a[m].state = "aborted"
      BY <1>4, <2>1, LostIsALookup
    <2> HIDE DEF m
    <2>3. ~Good(fault, a[m], w, n + m) /\ ~Finished(fault, a[m], w)
      <3>1. n + m = 0 \/ n + m > 0
        BY <1>1, <1>2
      <3> QED BY <2>2, <3>1 DEF Good, Finished
    <2>4. Spoilt(fault, a[m], w, n + m)
      BY <1>2, <2>3 DEF Reached
    <2>5. PICK i \in 1..(n + m) : fault[w[i]] # "none"
      BY <2>4 DEF Spoilt
    <2>6. i \in 1..(n + Len(fl))
      BY <1>1, <1>2
    <2> QED BY <2>5, <2>6
  <1> QED BY <1>1, <1>3, <1>4, AnswerKinds

-----------------------------------------------------------------------------
(* How often a transaction is run again *)

RangeOf(w) == {w[i] : i \in 1..Len(w)}

\* No statement of what is to be run fails before its p-th.
Clear(f, x, w, p) == \A i \in 1..(Len(x.sent) + p - 1) : f[w[i]] = "none"

\* Statement p has to be prepared, its types are not looked up yet, and nothing
\* before it fails.
Pending(f, x, w, kn, p) ==
    /\ p \in x.start..Len(AllOf(x))
    /\ AllOf(x)[p] \in kn /\ AllOf(x)[p] \notin x.typed
    /\ Clear(f, x, w, p)

\* Every run but the last has got one more statement's types looked up, and the
\* last one will get to a statement it looks up first.
Spent(f, x, w, kn) ==
    \/ x.runs <= Cardinality(x.typed)
    \/ x.runs <= Cardinality(x.typed) + 1 /\ \E p \in Nat : Pending(f, x, w, kn, p)

\* A flight is as long as RESULT_TYPES lets it be.
FlightKnows(x, kn) ==
    /\ \A j \in (x.start + 1)..(x.end - 1) : AllOf(x)[j] \notin kn
    /\ x.prepared <=> AllOf(x)[x.start] \in kn
    /\ x.pc = "prepare" => x.prepared
    /\ x.pc = "fly" /\ x.prepared => AllOf(x)[x.start] \in x.typed

\* The statement that hid its error.
Hidden(f, x, w, kn) ==
    /\ x.masked \in 1..Len(AllOf(x))
    /\ AllOf(x)[x.masked] \notin x.typed
    /\ Clear(f, x, w, x.masked)
    /\ x.runs <= Cardinality(x.typed)
    /\ x.pc = "masked" => AllOf(x)[x.masked] \notin kn
    /\ x.pc = "rollback" => AllOf(x)[x.masked] \in kn

Counted(f, x, w, kn) ==
    /\ x.pc # "over" => x.typed \subseteq RangeOf(w)
    /\ x.pc \in Busy => x.limit = Len(w)
    /\ x.pc \in {"prepare", "fly"} => FlightKnows(x, kn)
    /\ x.pc \in {"begin", "prepare", "fly"} => Spent(f, x, w, kn)
    /\ x.pc \in {"masked", "rollback"} => Hidden(f, x, w, kn)

AllCounted == \A t \in Txs : Counted(fault, tx[t], Whole(due[t], done[t]), known)

LEMMA RangeFinite ==
    ASSUME NEW w \in Seq(Sql)
    PROVE  IsFiniteSet(RangeOf(w)) /\ Cardinality(RangeOf(w)) <= Len(w)
  <1>1. Len(w) \in Nat /\ DOMAIN w = 1..Len(w)
    OBVIOUS
  <1>2. w \in Surjection(1..Len(w), RangeOf(w))
    <2>1. w = [i \in 1..Len(w) |-> w[i]]
      BY <1>1
    <2>2. w \in [1..Len(w) -> RangeOf(w)]
      BY <2>1 DEF RangeOf
    <2> QED BY <2>2 DEF Surjection, RangeOf
  <1>3. IsFiniteSet(1..Len(w)) /\ Cardinality(1..Len(w)) = Len(w)
    BY SMTT(30), <1>1, FS_Interval
  <1> QED BY <1>2, <1>3, FS_Surjection

LEMMA TypedFinite ==
    ASSUME NEW w \in Seq(Sql), NEW typed, typed \subseteq RangeOf(w)
    PROVE  IsFiniteSet(typed) /\ Cardinality(typed) \in Nat
  BY RangeFinite, FS_Subset, FS_CardinalityType

\* What is left out of the types that are looked up is one statement at least.
LEMMA RunsLeft ==
    ASSUME NEW w \in Seq(Sql), NEW typed, typed \subseteq RangeOf(w), NEW s \in RangeOf(w), s \notin typed
    PROVE  Cardinality(typed) < Len(w)
  <1>1. IsFiniteSet(RangeOf(w)) /\ Cardinality(RangeOf(w)) <= Len(w) /\ Len(w) \in Nat
    BY RangeFinite
  <1>2. IsFiniteSet(typed) /\ Cardinality(typed) \in Nat
    BY TypedFinite
  <1>3. IsFiniteSet(typed \cup {s}) /\ Cardinality(typed \cup {s}) = Cardinality(typed) + 1
    BY <1>2, FS_AddElement
  <1>4. typed \cup {s} \subseteq RangeOf(w)
    OBVIOUS
  <1>5. Cardinality(typed \cup {s}) <= Cardinality(RangeOf(w)) /\ Cardinality(RangeOf(w)) \in Nat
    BY <1>1, <1>4, FS_Subset, FS_CardinalityType
  <1> QED BY <1>1, <1>2, <1>3, <1>5

LEMMA CardGrows ==
    ASSUME NEW T, NEW S, S \subseteq T, IsFiniteSet(T)
    PROVE  /\ Cardinality(S) <= Cardinality(T) /\ Cardinality(S) \in Nat /\ Cardinality(T) \in Nat
           /\ \A s \in T : s \notin S => Cardinality(S) + 1 <= Cardinality(T)
  <1>1. IsFiniteSet(S) /\ Cardinality(S) <= Cardinality(T) /\ Cardinality(S) \in Nat /\ Cardinality(T) \in Nat
    BY FS_Subset, FS_CardinalityType
  <1>2. ASSUME NEW s \in T, s \notin S PROVE Cardinality(S) + 1 <= Cardinality(T)
    <2>1. IsFiniteSet(S \cup {s}) /\ Cardinality(S \cup {s}) = Cardinality(S) + 1
      BY <1>1, <1>2, FS_AddElement
    <2>2. S \cup {s} \subseteq T
      BY <1>2
    <2> QED BY <2>1, <2>2, FS_Subset
  <1> QED BY <1>1, <1>2

\* As types are looked up and the flight moves on, a run stays accounted for.
LEMMA SpentStays ==
    ASSUME NEW f, NEW x, NEW y, NEW w, NEW kn, Spent(f, x, w, kn),
           x.runs \in Nat, y.runs = x.runs, y.sent = x.sent, AllOf(y) = AllOf(x),
           IsFiniteSet(y.typed), x.typed \subseteq y.typed, y.start \in Nat, x.start \in Nat,
           Len(AllOf(x)) \in Nat,
           \A p \in Nat : Pending(f, x, w, kn, p) => p >= y.start \/ AllOf(x)[p] \in y.typed
    PROVE  Spent(f, y, w, kn)
  <1>1. /\ Cardinality(x.typed) <= Cardinality(y.typed)
        /\ Cardinality(x.typed) \in Nat /\ Cardinality(y.typed) \in Nat
        /\ \A s \in y.typed : s \notin x.typed => Cardinality(x.typed) + 1 <= Cardinality(y.typed)
    BY CardGrows
  <1>2. CASE x.runs <= Cardinality(x.typed)
    BY <1>1, <1>2 DEF Spent
  <1>3. CASE x.runs <= Cardinality(x.typed) + 1 /\ \E p \in Nat : Pending(f, x, w, kn, p)
    <2>1. PICK p \in Nat : Pending(f, x, w, kn, p)
      BY <1>3
    <2>2. CASE AllOf(x)[p] \in y.typed
      <3>1. AllOf(x)[p] \notin x.typed
        BY <2>1 DEF Pending
      <3>2. y.runs <= Cardinality(y.typed)
        BY <1>1, <1>3, <2>2, <3>1
      <3> QED BY <3>2 DEF Spent
    <2>3. CASE AllOf(x)[p] \notin y.typed
      <3>1. p >= y.start
        BY <2>1, <2>3
      <3>2. Pending(f, y, w, kn, p)
        BY <2>1, <2>3, <3>1 DEF Pending, Clear
      <3>3. y.runs <= Cardinality(y.typed) + 1
        BY <1>1, <1>3
      <3> QED BY <3>2, <3>3 DEF Spent
    <2> QED BY <2>2, <2>3
  <1> QED BY <1>2, <1>3 DEF Spent

\* What is short of the flight's end need not be prepared.
LEMMA FlightEndKnows ==
    ASSUME NEW t, All(t) \in Seq(Sql), tx[t].start \in 1..Len(All(t)),
           NEW j \in (tx[t].start + 1)..(FlightEnd(t) - 1)
    PROVE  All(t)[j] \notin known
  <1> DEFINE al == All(t)
             st == tx[t].start
             la == Len(al)
             later == {k \in (st + 1)..la : al[k] \in known}
             c == CHOOSE k \in later : \A i \in later : k <= i
  <1>1. FlightEnd(t) = IF later = {} THEN la + 1 ELSE c
    BY DEF FlightEnd
  <1>2. st \in 1..la /\ la \in Nat /\ later \subseteq Nat /\ j \in (st + 1)..(FlightEnd(t) - 1)
    OBVIOUS
  <1>3. later # {} => c \in later /\ \A i \in later : c <= i
    <2> HIDE DEF later
    <2>1. ASSUME later # {} PROVE \E k \in later : \A i \in later : k <= i
      BY <1>2, <2>1, NatMin
    <2> QED BY <2>1
  <1>4. j \in Int /\ j >= st + 1 /\ j <= FlightEnd(t) - 1 /\ FlightEnd(t) \in Int
    <2>1. FlightEnd(t) \in (st + 1)..(la + 1)
      BY FlightEndBound
    <2> HIDE DEF la, st
    <2> QED BY <1>2, <2>1
  <1> HIDE DEF c
  <1>5. SUFFICES ASSUME al[j] \in known PROVE FALSE
    BY DEF al
  <1>6. FlightEnd(t) <= la + 1
    <2>1. FlightEnd(t) \in (st + 1)..(la + 1)
      BY FlightEndBound
    <2> HIDE DEF la, st
    <2> QED BY <1>2, <2>1
  <1>7. j \in later
    <2>1. j \in (st + 1)..la
      <3> HIDE DEF la, st
      <3> QED BY <1>2, <1>4, <1>6
    <2> QED BY <1>5, <2>1
  <1> HIDE DEF later
  <1> QED BY <1>1, <1>3, <1>4, <1>7

-----------------------------------------------------------------------------
(* Every step keeps the count, of the only transaction *)

LEMMA CountedStep ==
    ASSUME NEW t, Txs = {t}, NEW y, NEW du, NEW dn, NEW qd, Moves(t, y, du, dn, qd),
           Counted(fault, y, Whole(du, dn), known')
    PROVE  AllCounted'
  BY DEF Moves, AllCounted

\* The transaction is busy, between flights or in one.
BusyAt(x, w) ==
    /\ w \in Seq(Sql) /\ Len(w) \in Nat /\ AllOf(x) \in Seq(Sql) /\ Len(AllOf(x)) \in Nat
    /\ x.sent \in Seq(Sql) /\ Len(x.sent) \in Nat /\ Len(w) = Len(x.sent) + Len(AllOf(x))
    /\ \A i \in 1..Len(AllOf(x)) : w[Len(x.sent) + i] = AllOf(x)[i] /\ AllOf(x)[i] \in RangeOf(w)
    /\ x \in Tx /\ x.runs \in Nat /\ x.start \in Nat /\ x.end \in Nat
    /\ x.pc \in {"begin", "prepare", "fly"} => x.start \in 1..Len(AllOf(x))
    /\ x.pc \in {"prepare", "fly"} => x.end \in (x.start + 1)..(Len(AllOf(x)) + 1)

LEMMA BusyNumbersOf ==
    ASSUME NEW f, NEW x, NEW se, NEW du, NEW dn, NEW ra, NEW re,
           TxInv(f, x, se, du, dn, ra, re), x.pc \in Busy, NEW w, w = Whole(du, dn)
    PROVE  BusyAt(x, w)
  <1> DEFINE la == Len(AllOf(x))
             ls == Len(x.sent)
  <1>2. /\ w \in Seq(Sql) /\ Len(w) \in Nat /\ AllOf(x) \in Seq(Sql) /\ la \in Nat
        /\ x.sent \in Seq(Sql) /\ ls \in Nat /\ Len(w) = ls + la
        /\ \A i \in 1..la : w[ls + i] = AllOf(x)[i]
        /\ x \in Tx
    BY BusyFacts
  <1>3. x.runs \in Nat /\ x.start \in Nat /\ x.end \in Nat
    BY <1>2 DEF Tx
  <1>4. /\ x.pc \in {"begin", "prepare", "fly"} => x.start \in 1..la
        /\ x.pc \in {"prepare", "fly"} => x.end \in (x.start + 1)..(la + 1)
    BY DEF TxInv, Cut
  <1>5. ASSUME NEW i \in 1..la PROVE AllOf(x)[i] \in RangeOf(w)
    <2>1. ls + i \in 1..Len(w)
      <3> DEFINE lw == Len(w)
      <3>1. ls \in Nat /\ la \in Nat /\ lw = ls + la
        BY <1>2
      <3> HIDE DEF la, ls, lw
      <3>2. ls + i \in 1..lw
        BY <3>1
      <3> QED BY <3>2 DEF lw
    <2> QED BY <1>2, <2>1 DEF RangeOf
  <1> QED BY <1>2, <1>3, <1>4, <1>5 DEF BusyAt

LEMMA BusyNumbers ==
    ASSUME SocketInv, NEW t \in Txs, NEW x, x = tx[t], x.pc \in Busy, NEW w, w = Whole(due[t], done[t])
    PROVE  BusyAt(x, w)
  <1>1. TxInv(fault, x, session[t], due[t], done[t], ranIn[t], reply[t])
    BY InvOf
  <1> QED BY <1>1, BusyNumbersOf

LEMMA BeginCounts ==
    ASSUME SocketInv, AllPlaced, AllCounted, NEW t, Txs = {t}, BeginFlight(t)
    PROVE  AllCounted'
  <1> DEFINE x == tx[t]
             next == All(t)[x.start] \in known
             y == Flying(x, FlightEnd(t), next)
             w == Whole(due[t], done[t])
  <1>1. Stays(t, y) /\ x.pc = "begin" /\ known' = known
    BY BeginMoves
  <1>2. x.pc \in Busy /\ Counted(fault, x, w, known) /\ All(t) = AllOf(x)
    BY <1>1, InvOf DEF AllCounted, Busy
  <1>3. /\ x.runs \in Nat /\ x.start \in 1..Len(AllOf(x)) /\ AllOf(x) \in Seq(Sql) /\ Len(AllOf(x)) \in Nat
        /\ w \in Seq(Sql) /\ x \in Tx
    BY <1>1, <1>2, BusyNumbers DEF BusyAt
  <1>4. /\ y.sent = x.sent /\ y.ahead = x.ahead /\ y.stmts = x.stmts /\ y.runs = x.runs /\ y.limit = x.limit
        /\ y.pc = (IF next THEN "prepare" ELSE "fly") /\ y.start = x.start /\ y.typed = x.typed
        /\ y.end = FlightEnd(t) /\ y.prepared = next
    <2>1. x \in Tx
      BY <1>3
    <2> HIDE DEF x, next
    <2> QED BY <2>1, FlyingIs
  <1>5. \A j \in (x.start + 1)..(FlightEnd(t) - 1) : AllOf(x)[j] \notin known
    BY <1>2, <1>3, FlightEndKnows
  <1>11. next <=> AllOf(x)[x.start] \in known
    BY <1>2
  <1> HIDE DEF x, y, w, next
  <1>6. AllOf(y) = AllOf(x)
    BY <1>4 DEF AllOf
  <1>7. FlightKnows(y, known)
    BY <1>4, <1>5, <1>6, <1>11 DEF FlightKnows
  <1>8. x.typed \subseteq RangeOf(w) /\ x.limit = Len(w) /\ Spent(fault, x, w, known)
    BY <1>1, <1>2 DEF Counted
  <1>9. Spent(fault, y, w, known)
    BY <1>4, <1>6, <1>8 DEF Spent, Pending, Clear
  <1>10. Counted(fault, y, w, known')
    BY <1>1, <1>4, <1>7, <1>8, <1>9 DEF Counted
  <1> QED BY <1>1, <1>10, CountedStep DEF Stays, w

LEMMA PrepareCounts ==
    ASSUME SocketInv, AllPlaced, AllCounted, NEW t, Txs = {t}, Prepare(t)
    PROVE  AllCounted'
  <1> DEFINE x == tx[t]
             s == All(t)[x.start]
             y == PreparedTx(x, s)
             w == Whole(due[t], done[t])
  <1>1. x.pc = "prepare" /\ known' = known /\ (Stays(t, y) \/ Stays(t, Ended(x)))
    BY PrepareMoves
  <1>2. x.pc \in Busy /\ Counted(fault, x, w, known) /\ All(t) = AllOf(x)
    BY <1>1, InvOf DEF AllCounted, Busy
  <1>3. /\ x.runs \in Nat /\ x.start \in 1..Len(AllOf(x)) /\ x.start \in Nat /\ Len(AllOf(x)) \in Nat
        /\ w \in Seq(Sql) /\ x \in Tx /\ s \in RangeOf(w)
    BY <1>1, <1>2, BusyNumbers DEF BusyAt
  <1>4. CASE Stays(t, Ended(x))
    <2>1. Ended(x).pc = "over"
      BY <1>3, EndedIs
    <2>2. Counted(fault, Ended(x), w, known')
      BY <2>1 DEF Counted, Busy
    <2> QED BY <1>4, <2>2, CountedStep DEF Stays
  <1>5. CASE Stays(t, y)
    <2>1. /\ y.sent = x.sent /\ y.ahead = x.ahead /\ y.stmts = x.stmts /\ y.runs = x.runs /\ y.limit = x.limit
          /\ y.pc = "fly" /\ y.start = x.start /\ y.typed = x.typed \cup {s}
          /\ y.end = x.end /\ y.prepared = x.prepared
      BY <1>3, PreparedIs
    <2>0. s = AllOf(x)[x.start]
      BY <1>2
    <2> HIDE DEF x, y, w, s
    <2>2. AllOf(y) = AllOf(x)
      BY <2>1 DEF AllOf
    <2>3. /\ x.typed \subseteq RangeOf(w) /\ x.limit = Len(w) /\ Spent(fault, x, w, known)
          /\ FlightKnows(x, known)
      BY <1>1, <1>2 DEF Counted
    <2>4. FlightKnows(y, known)
      BY <2>0, <2>1, <2>2, <2>3 DEF FlightKnows
    <2>5. y.typed \subseteq RangeOf(w) /\ IsFiniteSet(y.typed)
      BY <1>3, <2>1, <2>3, TypedFinite
    <2>6. \A p \in Nat : Pending(fault, x, w, known, p) => p >= y.start
      BY <1>3, <2>1 DEF Pending
    <2>7. Spent(fault, y, w, known)
      BY <1>3, <2>1, <2>2, <2>3, <2>5, <2>6, SpentStays
    <2>8. Counted(fault, y, w, known')
      BY <1>1, <2>1, <2>3, <2>4, <2>5, <2>7 DEF Counted
    <2> QED BY <1>5, <2>8, CountedStep DEF Stays, w
  <1> QED BY <1>1, <1>4, <1>5

LEMMA SameWhole ==
    ASSUME NEW du \in Seq(Sql), NEW dn \in Seq(Sql)
    PROVE  Whole(<<>>, dn \o du) = Whole(du, dn)
  <1> DEFINE v == dn \o du
  <1>1. v \in Seq(Sql)
    BY ConcatFacts
  <1> HIDE DEF v
  <1>2. v \o <<>> = v
    BY <1>1
  <1> QED BY <1>2 DEF Whole, v

LEMMA LookedAre ==
    ASSUME SocketInv, NEW t \in Txs, tx[t].pc = "fly"
    PROVE  Looked(t, Flight(t), RunOf(t)) \subseteq RangeOf(Whole(due[t], done[t]))
  <1> DEFINE fl == Flight(t)
             w == Whole(due[t], done[t])
             n == Ran(tx[t])
  <1>1. /\ fl = FlightFrom(tx[t]) /\ Len(fl) \in Nat /\ SentOf(fl) \in 0..Len(fl)
    <2> DEFINE a == Sessions(t, fl)
    <2> HIDE DEF a
    <2> QED BY FlightIs DEF a
  <1>2. PieceOf(fl, w, n) /\ Len(w) \in Nat
    BY <1>1, InvOf, FlightOfTx
  <1> HIDE DEF fl, w, n
  <1>3. ASSUME NEW k \in 1..SentOf(fl) PROVE fl[k] \in RangeOf(w)
    <2> DEFINE lw == Len(w)
               lf == Len(fl)
               m == SentOf(fl)
    <2>1. lw \in Nat /\ lf \in Nat /\ m \in 0..lf /\ n \in Nat /\ n + lf <= lw /\ k \in 1..m
      BY <1>1, <1>2 DEF PieceOf
    <2> HIDE DEF lw, lf, m
    <2>2. k \in 1..lf /\ n + k \in 1..lw
      BY <2>1
    <2>3. fl[k] = w[n + k]
      BY <1>2, <2>2 DEF PieceOf, lf
    <2> QED BY <2>2, <2>3 DEF RangeOf, lw
  <1> QED BY <1>3 DEF Looked, fl, w

LEMMA AnswersCounts ==
    ASSUME SocketInv, AllPlaced, AllCounted, NEW t, Txs = {t}, FlightAnswers(t)
    PROVE  AllCounted'
  <1> DEFINE x == tx[t]
             w == Whole(due[t], done[t])
             typed == Learnt(t)
  <1>1. /\ x.pc = "fly" /\ known' = known
        /\ \/ Stays(t, FlownOn(x, typed))
           \/ Moves(t, FlownHome(x, typed), <<>>, done[t] \o due[t], queuedDue[t])
    BY AnswersMoves
  <1>2. x.pc \in Busy /\ Counted(fault, x, w, known)
    BY <1>1 DEF AllCounted, Busy
  <1>3. /\ x.runs \in Nat /\ x.start \in 1..Len(AllOf(x)) /\ x.start \in Nat /\ Len(AllOf(x)) \in Nat
        /\ x.end \in (x.start + 1)..(Len(AllOf(x)) + 1) /\ x.end \in Nat
        /\ w \in Seq(Sql) /\ x \in Tx
    BY <1>1, <1>2, BusyNumbers DEF BusyAt
  <1>4. /\ x.typed \subseteq RangeOf(w) /\ x.limit = Len(w) /\ Spent(fault, x, w, known)
        /\ FlightKnows(x, known)
    BY <1>1, <1>2 DEF Counted, Busy
  <1>5. typed \subseteq RangeOf(w) /\ x.typed \subseteq typed /\ IsFiniteSet(typed)
    <2>1. Looked(t, Flight(t), RunOf(t)) \subseteq RangeOf(w)
      BY <1>1, LookedAre
    <2>2. typed \subseteq RangeOf(w) /\ x.typed \subseteq typed
      BY <1>4, <2>1 DEF Learnt
    <2> QED BY <1>3, <2>2, TypedFinite
  <1>6. CASE Stays(t, FlownOn(x, typed))
    <2> DEFINE y == FlownOn(x, typed)
    <2>1. /\ y.sent = x.sent /\ y.ahead = x.ahead /\ y.stmts = x.stmts /\ y.runs = x.runs /\ y.limit = x.limit
          /\ y.pc = "begin" /\ y.start = x.end /\ y.typed = typed
      <3>1. x \in Tx
        BY <1>3
      <3> HIDE DEF x, typed
      <3> QED BY <3>1, FlownOnIs
    <2> HIDE DEF x, y, w, typed
    <2>2. AllOf(y) = AllOf(x)
      BY <2>1 DEF AllOf
    <2>3. ASSUME NEW p \in Nat, Pending(fault, x, w, known, p)
          PROVE  p >= y.start
      <3>1. p >= x.start /\ AllOf(x)[p] \in known /\ AllOf(x)[p] \notin x.typed
        BY <1>3, <2>3 DEF Pending
      <3>2. p # x.start
        BY <1>1, <1>4, <3>1 DEF FlightKnows
      <3>3. ~(p \in (x.start + 1)..(x.end - 1))
        BY <1>4, <3>1 DEF FlightKnows
      <3> QED BY <1>3, <2>1, <3>1, <3>2, <3>3
    <2>4. Spent(fault, y, w, known)
      BY <1>3, <1>4, <1>5, <2>1, <2>2, <2>3, SpentStays
    <2>5. Counted(fault, y, w, known')
      BY <1>1, <1>4, <1>5, <2>1, <2>4 DEF Counted
    <2> QED BY <1>6, <2>5, CountedStep DEF Stays, w, y
  <1>7. CASE Moves(t, FlownHome(x, typed), <<>>, done[t] \o due[t], queuedDue[t])
    <2> DEFINE y == FlownHome(x, typed)
    <2>1. y.pc \in {"over", "ready"} /\ y.typed = typed
      <3>1. x \in Tx
        BY <1>3
      <3> HIDE DEF x, typed
      <3> QED BY <3>1, FlownHomeIs
    <2>2. Whole(<<>>, done[t] \o due[t]) = w
      BY InvOf, SameWhole DEF TxInv, Kinds
    <2> HIDE DEF y, w, typed
    <2>3. Counted(fault, y, w, known')
      BY <1>5, <2>1 DEF Counted, Busy
    <2> QED BY <1>7, <2>2, <2>3, CountedStep DEF y
  <1> QED BY <1>1, <1>6, <1>7

\* The first failure of a flight, in numbers: q statements were sent before those the
\* flight is cut from.
LEMMA FailureNumbers ==
    ASSUME NEW q \in Nat, NEW la \in Nat, NEW st \in 1..la, NEW en \in (st + 1)..(la + 1),
           NEW lf \in Int, lf = en - st, NEW n \in Int, n = q + st - 1, NEW k \in 1..lf
    PROVE  /\ st + k - 1 \in 1..la /\ q + (st + k - 1) - 1 = n + (k - 1) /\ q + (st + k - 1) = n + k
           /\ k = 1 => st + k - 1 = st
           /\ k # 1 => st + k - 1 \in (st + 1)..(en - 1)
           /\ n + lf = q + en - 1
  OBVIOUS

\* The first failure of a flight is a lookup's only if the statement's types were
\* neither known nor looked up, and nothing before it failed.
LEMMA FailureIs ==
    ASSUME SocketInv, NEW t \in Txs, NEW x, x = tx[t], x.pc = "fly",
           NEW fl, fl = Flight(t), NEW a, a = RunOf(t), Bad(t, fl, a) # {},
           NEW k, k = FirstBad(t, fl, a), NEW at, at = x.start + k - 1,
           NEW w, w = Whole(due[t], done[t])
    PROVE  /\ at \in 1..Len(AllOf(x)) /\ k \in 1..Len(fl) /\ fl[k] = AllOf(x)[at]
           /\ k = 1 => at = x.start
           /\ k # 1 => at \in (x.start + 1)..(x.end - 1)
           /\ Clear(fault, x, w, at)
           /\ AnswerTo(t, fl, a, k) = "25P02" => ~(k = 1 /\ x.prepared) /\ fl[k] \notin x.typed
           /\ AnswerTo(t, fl, a, k) # "25P02" => AnswerTo(t, fl, a, k) = "error" /\ fault[fl[k]] # "none"
  <1> DEFINE n == Ran(x)
             m == SentOf(fl)
  <1>0. x.pc \in Busy
    BY DEF Busy
  <1>1. /\ k \in 1..Len(fl) /\ n \in Nat /\ n + k <= Len(w) /\ Len(w) \in Nat
        /\ AnswerTo(t, fl, a, k) # "ok"
        /\ m \in 0..Len(fl) /\ k - 1 <= m
        /\ Good(fault, a[k - 1], w, n + (k - 1))
        /\ fl[k] = w[n + k]
    BY FirstBadIs
  <1>2. fl = FlightFrom(x) /\ fl \in Seq(Sql) /\ Len(fl) \in Nat
    <2> DEFINE a0 == Sessions(t, fl)
    <2> HIDE DEF a0
    <2> QED BY FlightIs DEF a0
  <1>3. /\ x.start \in 1..Len(AllOf(x)) /\ x.end \in (x.start + 1)..(Len(AllOf(x)) + 1)
        /\ Len(AllOf(x)) \in Nat /\ AllOf(x) \in Seq(Sql) /\ Len(x.sent) \in Nat
        /\ \A i \in 1..Len(AllOf(x)) : w[Len(x.sent) + i] = AllOf(x)[i]
    BY ZenonT(30), <1>0, BusyNumbers DEF BusyAt
  <1>4. Len(fl) = x.end - x.start /\ n = Len(x.sent) + x.start - 1
    BY <1>2, <1>3, FlightPiece, SMTT(30) DEF FlightFrom, Ran
  <1>5. /\ at \in 1..Len(AllOf(x)) /\ Len(x.sent) + at - 1 = n + (k - 1) /\ Len(x.sent) + at = n + k
        /\ k = 1 => at = x.start
        /\ k # 1 => at \in (x.start + 1)..(x.end - 1)
    <2> DEFINE la == Len(AllOf(x))
               st == x.start
               en == x.end
               q == Len(x.sent)
               lf == Len(fl)
    <2>1. q \in Nat /\ la \in Nat /\ st \in 1..la /\ en \in (st + 1)..(la + 1) /\ lf \in Int /\ lf = en - st
          /\ n \in Int /\ n = q + st - 1 /\ k \in 1..lf /\ at = st + k - 1
      BY <1>1, <1>2, <1>3, <1>4
    <2> HIDE DEF la, st, en, q, lf, n
    <2>2. /\ at \in 1..la /\ q + at - 1 = n + (k - 1) /\ q + at = n + k
          /\ k = 1 => at = st
          /\ k # 1 => at \in (st + 1)..(en - 1)
      BY <2>1, FailureNumbers
    <2> QED BY <2>2 DEF la, st, en, q
  <1>6. fl[k] = AllOf(x)[at]
    BY ZenonT(30), <1>1, <1>3, <1>5
  <1> DEFINE c == n + (k - 1)
  <1>7. c \in Nat /\ Good(fault, a[k - 1], w, c)
    BY <1>1, <1>2
  <1>8. Len(x.sent) + at - 1 = c
    BY <1>5
  <1> HIDE DEF n, m, c
  <1>9. Clear(fault, x, w, at)
    BY <1>7, <1>8 DEF Clear, Good
  <1>10. ASSUME AnswerTo(t, fl, a, k) = "25P02"
         PROVE  ~(k = 1 /\ x.prepared) /\ fl[k] \notin x.typed
    <2>1. LooksUp(t, fl, a, k)
      BY <1>7, <1>10, LostIsALookup
    <2> QED BY <2>1 DEF LooksUp
  <1>11. ASSUME AnswerTo(t, fl, a, k) # "25P02"
         PROVE  AnswerTo(t, fl, a, k) = "error" /\ fault[fl[k]] # "none"
    <2>1. AnswerTo(t, fl, a, k) = "error"
      BY <1>1, <1>11, AnswerKinds
    <2>2. k - 1 <= SentOf(fl)
      BY <1>1 DEF m
    <2> QED BY <1>1, <1>2, <2>1, <2>2, ErrorIsItsOwn
  <1> QED BY <1>1, <1>5, <1>6, <1>9, <1>10, <1>11

FailedAt(t, x, fl, a, w, k) ==
    /\ x.start + k - 1 \in 1..Len(AllOf(x)) /\ k \in 1..Len(fl) /\ fl[k] = AllOf(x)[x.start + k - 1]
    /\ k = 1 => x.start + k - 1 = x.start
    /\ k # 1 => x.start + k - 1 \in (x.start + 1)..(x.end - 1)
    /\ Clear(fault, x, w, x.start + k - 1)
    /\ AnswerTo(t, fl, a, k) = "25P02" => ~(k = 1 /\ x.prepared) /\ fl[k] \notin x.typed
    /\ AnswerTo(t, fl, a, k) # "25P02" => AnswerTo(t, fl, a, k) = "error" /\ fault[fl[k]] # "none"

LEMMA FailureAt ==
    ASSUME SocketInv, NEW t \in Txs, tx[t].pc = "fly", Bad(t, Flight(t), RunOf(t)) # {}
    PROVE  FailedAt(t, tx[t], Flight(t), RunOf(t), Whole(due[t], done[t]), FirstBad(t, Flight(t), RunOf(t)))
  BY FailureIs DEF FailedAt

\* A flight that stops short of the next statement to prepare does not fail, if
\* nothing before that statement does.
LEMMA FailsUnspent ==
    ASSUME SocketInv, NEW t \in Txs, NEW x, x = tx[t], x.pc = "fly", NEW w, w = Whole(due[t], done[t]),
           FlightKnows(x, known), NEW p \in Nat, Pending(fault, x, w, known, p)
    PROVE  Bad(t, Flight(t), RunOf(t)) = {}
  <1> DEFINE fl == Flight(t)
             n == Ran(x)
  <1>0. x.pc \in Busy
    BY DEF Busy
  <1>1. /\ x.start \in 1..Len(AllOf(x)) /\ x.end \in (x.start + 1)..(Len(AllOf(x)) + 1) /\ x.start \in Nat
        /\ Len(AllOf(x)) \in Nat /\ x.end \in Nat /\ Len(x.sent) \in Nat
    BY <1>0, BusyNumbers DEF BusyAt
  <1>2. p >= x.end
    <2>1. p >= x.start /\ AllOf(x)[p] \in known /\ AllOf(x)[p] \notin x.typed
      BY <1>1 DEF Pending
    <2>2. p # x.start
      BY <2>1 DEF FlightKnows
    <2>3. ~(p \in (x.start + 1)..(x.end - 1))
      BY <2>1 DEF FlightKnows
    <2> QED BY <1>1, <2>1, <2>2, <2>3
  <1>3. n + Len(fl) = Len(x.sent) + x.end - 1 /\ n \in Nat /\ Len(fl) \in Nat
    <2>1. fl = FlightFrom(x)
      BY InvOf DEF Flight, FlightFrom
    <2>2. TxInv(fault, x, session[t], due[t], done[t], ranIn[t], reply[t]) /\ fault \in Faults
      BY InvOf
    <2> HIDE DEF fl, n
    <2> QED BY <2>1, <2>2, FlightOfTx DEF n
  <1>4. ASSUME NEW i \in 1..(n + Len(fl)) PROVE fault[w[i]] = "none"
    <2>1. i \in 1..(Len(x.sent) + p - 1)
      <3> DEFINE lf == Len(fl)
                 q == Len(x.sent)
                 en == x.end
      <3>1. lf \in Nat /\ q \in Nat /\ en \in Nat /\ n \in Nat /\ p >= en /\ n + lf = q + en - 1 /\ i \in 1..(n + lf)
        BY <1>1, <1>2, <1>3, <1>4
      <3> HIDE DEF lf, q, en, n
      <3>2. i \in 1..(q + p - 1)
        BY <3>1
      <3> QED BY <3>2 DEF q
    <2> QED BY <2>1 DEF Pending, Clear
  <1> HIDE DEF fl
  <1>5. fl = Flight(t) /\ n = Ran(tx[t]) /\ tx[t].pc = "fly" /\ w = Whole(due[t], done[t])
    BY DEF fl
  <1> HIDE DEF n
  <1>6. Bad(t, fl, RunOf(t)) = {}
    BY <1>4, <1>5, ClearFlight
  <1> QED BY <1>6 DEF fl

LEMMA FailsCounts ==
    ASSUME SocketInv, AllPlaced, AllCounted, NEW t, Txs = {t}, FlightFails(t)
    PROVE  AllCounted'
  <1> DEFINE x == tx[t]
             w == Whole(due[t], done[t])
             fl == Flight(t)
             a == RunOf(t)
             k == FirstBad(t, fl, a)
             at == x.start + k - 1
             y == MaskedTx(x, at)
  <1>1. /\ x.pc = "fly" /\ known' = known /\ Bad(t, fl, a) # {}
        /\ \/ AnswerTo(t, fl, a, k) = "25P02" /\ Stays(t, y)
           \/ Stays(t, Ended(x))
    BY FailsMoves
  <1>2. x.pc \in Busy /\ Counted(fault, x, w, known)
    BY <1>1 DEF AllCounted, Busy
  <1>3. /\ x.runs \in Nat /\ w \in Seq(Sql) /\ x \in Tx
    BY <1>1, <1>2, BusyNumbers DEF BusyAt
  <1>4. CASE Stays(t, Ended(x))
    <2>1. Ended(x).pc = "over"
      BY <1>3, EndedIs
    <2>2. Counted(fault, Ended(x), w, known')
      BY <2>1 DEF Counted, Busy
    <2> QED BY <1>4, <2>2, CountedStep DEF Stays
  <1>5. CASE AnswerTo(t, fl, a, k) = "25P02" /\ Stays(t, y)
    <2>1. /\ x.typed \subseteq RangeOf(w) /\ x.limit = Len(w) /\ Spent(fault, x, w, known)
          /\ FlightKnows(x, known)
      BY <1>1, <1>2 DEF Counted, Busy
    <2>2. /\ at \in 1..Len(AllOf(x)) /\ fl[k] = AllOf(x)[at]
          /\ k = 1 => at = x.start
          /\ k # 1 => at \in (x.start + 1)..(x.end - 1)
          /\ Clear(fault, x, w, at)
          /\ ~(k = 1 /\ x.prepared) /\ fl[k] \notin x.typed
      <3>1. FailedAt(t, x, fl, a, w, k)
        BY <1>1, FailureAt
      <3> HIDE DEF x, w, fl, a, k, y
      <3> QED BY <1>5, <3>1 DEF FailedAt
    <2>3. AllOf(x)[at] \notin known
      BY <2>1, <2>2 DEF FlightKnows
    <2>4. x.runs <= Cardinality(x.typed)
      <3>1. \A p \in Nat : ~Pending(fault, x, w, known, p)
        <4> HIDE DEF x, w
        <4>1. x = tx[t] /\ w = Whole(due[t], done[t])
          BY DEF x, w
        <4>2. t \in Txs /\ Bad(t, Flight(t), RunOf(t)) # {}
          BY <1>1
        <4> QED BY <1>1, <2>1, <4>1, <4>2, FailsUnspent
      <3> QED BY <2>1, <3>1 DEF Spent
    <2>5. /\ y.sent = x.sent /\ y.ahead = x.ahead /\ y.stmts = x.stmts /\ y.runs = x.runs /\ y.limit = x.limit
          /\ y.pc = "masked" /\ y.masked = at /\ y.typed = x.typed
      <3>1. x \in Tx
        BY <1>3
      <3> HIDE DEF x, at
      <3> QED BY <3>1, MaskedIs
    <2> HIDE DEF x, w, fl, a, k, at, y
    <2>6. AllOf(y) = AllOf(x)
      BY <2>5 DEF AllOf
    <2>7. Hidden(fault, y, w, known)
      BY <2>2, <2>3, <2>4, <2>5, <2>6 DEF Hidden, Clear
    <2>8. Counted(fault, y, w, known')
      BY <1>1, <2>1, <2>5, <2>7 DEF Counted
    <2> QED BY <1>5, <2>8, CountedStep DEF Stays, w
  <1> QED BY <1>1, <1>4, <1>5

\* A statement that hid its error is remembered: it is never there already.
LEMMA RememberCounts ==
    ASSUME SocketInv, AllPlaced, AllCounted, NEW t, Txs = {t}, Remember(t)
    PROVE  AllCounted' /\ AllOf(tx[t])[tx[t].masked] \notin known
  <1> DEFINE x == tx[t]
             w == Whole(due[t], done[t])
             s == AllOf(x)[x.masked]
             y == RollingBack(x)
  <1>1. /\ x.pc = "masked"
        /\ \/ s \in known
           \/ s \notin known /\ known' = Remembered(s) /\ Stays(t, y)
    BY RememberMoves
  <1>2. Counted(fault, x, w, known) /\ x \in Tx
    BY InTx DEF AllCounted
  <1>3. x.typed \subseteq RangeOf(w) /\ x.limit = Len(w) /\ Hidden(fault, x, w, known)
    <2> HIDE DEF x, w
    <2> QED BY <1>1, <1>2 DEF Counted, Busy
  <1>4. s \notin known /\ known' = Remembered(s) /\ Stays(t, y)
    BY <1>1, <1>3 DEF Hidden
  <1>5. s \in known'
    BY <1>4 DEF Remembered
  <1>6. /\ y.sent = x.sent /\ y.ahead = x.ahead /\ y.stmts = x.stmts /\ y.runs = x.runs /\ y.limit = x.limit
        /\ y.pc = "rollback" /\ y.masked = x.masked /\ y.typed = x.typed
    <2> HIDE DEF x
    <2> QED BY <1>2, RollingIs
  <1>7. s = AllOf(x)[x.masked]
    OBVIOUS
  <1> HIDE DEF x, w, s, y
  <1>8. AllOf(y) = AllOf(x)
    BY <1>6 DEF AllOf
  <1>9. Hidden(fault, y, w, known')
    BY <1>3, <1>5, <1>6, <1>7, <1>8 DEF Hidden, Clear
  <1>10. Counted(fault, y, w, known')
    BY <1>3, <1>6, <1>9 DEF Counted
  <1>11. AllCounted'
    BY <1>4, <1>10, CountedStep DEF Stays, w
  <1> QED BY <1>4, <1>11 DEF s, x

\* The limit is never reached: a statement is left whose types are not looked up.
LEMMA AgainCounts ==
    ASSUME SocketInv, AllPlaced, AllCounted, NEW t, Txs = {t}, RunAgain(t)
    PROVE  AllCounted' /\ tx[t].runs < tx[t].limit
  <1> DEFINE x == tx[t]
             w == Whole(due[t], done[t])
             y == Again(x)
             s == AllOf(x)[x.masked]
  <1>1. /\ x.pc = "rollback" /\ known' = known
        /\ (x.runs < x.limit => Stays(t, y))
    <2>1. x.runs \in Nat /\ x.limit \in Nat
      BY InTx DEF Tx
    <2> QED BY <2>1, AgainMoves
  <1>2. Counted(fault, x, w, known)
    BY DEF AllCounted
  <1>3. x.typed \subseteq RangeOf(w) /\ x.limit = Len(w) /\ Hidden(fault, x, w, known)
    <2> HIDE DEF x, w
    <2> QED BY <1>1, <1>2 DEF Counted, Busy
  <1>4. BusyAt(x, w)
    BY <1>1, BusyNumbers DEF Busy
  <1>5. /\ y.pc = "begin" /\ y.sent = <<>> /\ y.ahead = x.sent \o x.ahead /\ y.stmts = x.stmts
        /\ y.start = 1 /\ y.runs = x.runs + 1 /\ y.limit = x.limit /\ y.typed = x.typed
    <2>1. x \in Tx
      BY <1>4 DEF BusyAt
    <2> HIDE DEF x
    <2> QED BY <2>1, AgainIs
  <1>6. s = AllOf(x)[x.masked] /\ AllOf(x) = x.ahead \o x.stmts
    BY DEF AllOf
  <1>7. x.ahead \in Seq(Sql) /\ x.stmts \in Seq(Sql)
    BY <1>4 DEF BusyAt, Tx
  <1> HIDE DEF x, w, y, s
  <1>8. s \in RangeOf(w) /\ s \notin x.typed /\ w \in Seq(Sql) /\ x.runs \in Nat /\ x.sent \in Seq(Sql)
        /\ Len(x.sent) \in Nat /\ AllOf(x) \in Seq(Sql) /\ x.masked \in 1..Len(AllOf(x))
        /\ x.runs <= Cardinality(x.typed) /\ s \in known
        /\ Len(w) \in Nat /\ Len(AllOf(x)) \in Nat
    BY <1>1, <1>3, <1>4, <1>6 DEF BusyAt, Hidden
  <1>9. Cardinality(x.typed) < Len(w) /\ Cardinality(x.typed) \in Nat
    BY <1>3, <1>8, RunsLeft, TypedFinite
  <1>10. x.runs < x.limit
    BY <1>3, <1>8, <1>9
  <1>11. AllOf(y) = x.sent \o AllOf(x)
    <2>1. AllOf(y) = (x.sent \o x.ahead) \o x.stmts
      BY <1>5 DEF AllOf
    <2> DEFINE b == x.sent
               c == x.ahead
               d == x.stmts
    <2>2. AllOf(y) = (b \o c) \o d /\ AllOf(x) = c \o d /\ b \in Seq(Sql) /\ c \in Seq(Sql) /\ d \in Seq(Sql)
      BY <1>6, <1>7, <1>8, <2>1
    <2> HIDE DEF b, c, d
    <2>3. (b \o c) \o d = b \o (c \o d)
      BY <2>2, ConcatAssoc
    <2> QED BY <2>2, <2>3 DEF b
  <1> DEFINE p == Len(x.sent) + x.masked
             u == x.sent \o AllOf(x)
  <1>12. p \in Nat /\ p \in 1..Len(u) /\ u[p] = s
    <2> DEFINE ls == Len(x.sent)
               la == Len(AllOf(x))
               lu == Len(u)
    <2>1. lu = ls + la /\ ls \in Nat /\ la \in Nat /\ u[p] = AllOf(x)[x.masked] /\ x.masked \in 1..la
      BY <1>8, ConcatFacts
    <2>2. p = ls + x.masked
      OBVIOUS
    <2> HIDE DEF ls, la, lu, u, p
    <2>3. p \in Nat /\ p \in 1..lu
      BY <2>1, <2>2
    <2> QED BY <1>6, <2>1, <2>3 DEF lu
  <1>13. Clear(fault, y, w, p)
    <2>1. Len(y.sent) + p - 1 = Len(x.sent) + x.masked - 1
      <3>1. Len(y.sent) = 0
        BY <1>5
      <3>2. x.masked \in Nat
        BY <1>8
      <3> QED BY <1>8, <3>1, <3>2
    <2> QED BY <1>3, <2>1 DEF Hidden, Clear
  <1> HIDE DEF p, u
  <1>14. Pending(fault, y, w, known, p)
    BY <1>5, <1>8, <1>11, <1>12, <1>13 DEF Pending, u
  <1>15. Spent(fault, y, w, known)
    <2>1. y.runs <= Cardinality(y.typed) + 1
      BY <1>5, <1>8, <1>9
    <2> QED BY <1>12, <1>14, <2>1 DEF Spent
  <1>16. Counted(fault, y, w, known')
    BY <1>1, <1>3, <1>5, <1>15 DEF Counted
  <1>17. AllCounted'
    BY <1>1, <1>10, <1>16, CountedStep DEF Stays, w
  <1> QED BY <1>10, <1>17 DEF x

LEMMA RangeGrows ==
    ASSUME NEW du \in Seq(Sql), NEW dn \in Seq(Sql), NEW more \in Seq(Sql)
    PROVE  RangeOf(Whole(du, dn)) \subseteq RangeOf(Whole(du \o more, dn))
  <1> DEFINE w == Whole(du, dn)
  <1>1. w \in Seq(Sql)
    BY WholeIs
  <1>2. Whole(du \o more, dn) = w \o more
    <2>1. (dn \o du) \o more = dn \o (du \o more)
      BY ConcatAssoc
    <2>2. dn \o du \in Seq(Sql) /\ <<Begin>> \in Seq(Sql)
      BY ConcatFacts DEF Sql
    <2>3. (<<Begin>> \o (dn \o du)) \o more = <<Begin>> \o ((dn \o du) \o more)
      BY <2>2, ConcatAssoc
    <2> QED BY <2>1, <2>3 DEF Whole
  <1> HIDE DEF w
  <1>3. Len(w) \in Nat /\ Len(w) <= Len(w \o more) /\ \A i \in 1..Len(w) : (w \o more)[i] = w[i]
    BY <1>1, ConcatFacts
  <1>4. Len(w \o more) \in Nat
    BY <1>1
  <1>5. \A i \in 1..Len(w) : i \in 1..Len(w \o more)
    BY <1>3, <1>4
  <1> QED BY <1>2, <1>3, <1>5 DEF RangeOf, w

LEMMA QueueCounts ==
    ASSUME SocketInv, AllPlaced, AllCounted, NEW t, Txs = {t}, NEW s \in Stmts, QueueStatement(t, s)
    PROVE  AllCounted'
  <1> DEFINE x == tx[t]
             y == Queued(x, s)
             w == Whole(due[t], done[t])
             v == Whole(Append(due[t], s), done[t])
  <1>1. Moves(t, y, Append(due[t], s), done[t], queuedDue[t]) /\ x.pc = "ready" /\ known' = known
    BY QueueMoves
  <1>2. x.typed \subseteq RangeOf(w)
    BY <1>1 DEF AllCounted, Counted
  <1>3. y.pc = x.pc /\ y.typed = x.typed
    BY InTx, QueuedIs
  <1>4. RangeOf(w) \subseteq RangeOf(v)
    <2>1. due[t] \in Seq(Sql) /\ done[t] \in Seq(Sql) /\ <<s>> \in Seq(Sql) /\ s \in Sql
      BY InvOf DEF TxInv, Kinds, Sql
    <2>2. Append(due[t], s) = due[t] \o <<s>>
      BY <2>1
    <2> QED BY <2>1, <2>2, RangeGrows
  <1> HIDE DEF x, y, w, v
  <1>5. Counted(fault, y, v, known')
    BY <1>1, <1>2, <1>3, <1>4 DEF Counted, Busy
  <1> QED BY <1>1, <1>5, CountedStep DEF v

LEMMA SendCounts ==
    ASSUME SocketInv, AllPlaced, AllCounted, NEW t, Txs = {t}, NEW stmts \in Calls, Send(t, stmts)
    PROVE  AllCounted'
  <1> DEFINE x == tx[t]
             y == Sending(x, stmts, Limit(t, stmts))
             w == Whole(due[t], done[t])
             v == Whole(due[t] \o stmts, done[t])
  <1>1. Moves(t, y, due[t] \o stmts, done[t], Len(due[t])) /\ x.pc = "ready" /\ known' = known
    BY SendMoves
  <1>2. x.typed \subseteq RangeOf(w)
    BY <1>1 DEF AllCounted, Counted
  <1>3. y.pc = "begin" /\ y.runs = 0 /\ y.limit = Limit(t, stmts) /\ y.typed = x.typed
    BY InTx, SendingIs
  <1>4. due[t] \in Seq(Sql) /\ done[t] \in Seq(Sql) /\ stmts \in Seq(Sql)
    BY InvOf, CallsShape DEF TxInv, Kinds
  <1>5. RangeOf(w) \subseteq RangeOf(v)
    BY <1>4, RangeGrows
  <1>6. y.limit = Len(v) /\ v \in Seq(Sql)
    <2>1. x.sent \in Seq(Sql) /\ x.queued \in Seq(Sql) /\ x.sent \o x.queued = w
      BY <1>1, InvOf DEF TxInv, Kinds, Cut, Tx
    <2> DEFINE sn == x.sent
               qu == x.queued
               du == due[t]
               dn == done[t]
    <2>7. /\ sn \in Seq(Sql) /\ qu \in Seq(Sql) /\ sn \o qu = Whole(du, dn) /\ du \in Seq(Sql) /\ dn \in Seq(Sql)
          /\ v = Whole(du \o stmts, dn)
      BY <1>4, <2>1
    <2> HIDE DEF sn, qu, du, dn, v
    <2>2. Len(sn \o qu) = Len(sn) + Len(qu) /\ Len(sn) \in Nat /\ Len(qu) \in Nat
      BY <2>7, ConcatFacts
    <2> HIDE DEF x, w, y
    <2>3. Len(Whole(du, dn)) = 1 + Len(dn) + Len(du)
      BY <2>7, WholeIs
    <2>8. Len(dn) \in Nat /\ Len(du) \in Nat /\ Len(sn \o qu) = Len(Whole(du, dn))
      BY <2>7
    <2>4. du \o stmts \in Seq(Sql) /\ Len(du \o stmts) = Len(du) + Len(stmts) /\ Len(stmts) \in Nat
      BY <1>4, <2>7, ConcatFacts
    <2>5. Len(v) = 1 + Len(dn) + Len(du \o stmts) /\ v \in Seq(Sql)
      BY <2>4, <2>7, WholeIs
    <2>6. Limit(t, stmts) = Len(qu) + Len(stmts) + Len(sn)
      BY DEF Limit, qu, sn, x
    <2> DEFINE l == Len(v)
               ls == Len(sn)
               lq == Len(qu)
               ld == Len(du)
               le == Len(dn)
               lm == Len(stmts)
    <2>9. /\ l = 1 + le + Len(du \o stmts) /\ Len(du \o stmts) = ld + lm /\ ls + lq = 1 + le + ld
          /\ y.limit = lq + lm + ls
          /\ ls \in Nat /\ lq \in Nat /\ ld \in Nat /\ le \in Nat /\ lm \in Nat
      BY <1>3, <2>2, <2>3, <2>4, <2>5, <2>6, <2>8
    <2> HIDE DEF l, ls, lq, ld, le, lm
    <2>10. y.limit = l
      BY <2>9
    <2> QED BY <2>5, <2>10 DEF l
  <1> HIDE DEF x, y, w, v
  <1>7. y.typed \subseteq RangeOf(v) /\ Cardinality(y.typed) \in Nat
    BY <1>2, <1>3, <1>5, <1>6, TypedFinite
  <1>8. Counted(fault, y, v, known')
    BY <1>3, <1>6, <1>7 DEF Counted, Spent
  <1> QED BY <1>1, <1>8, CountedStep DEF v

LEMMA OpenCounts ==
    ASSUME SocketInv, AllPlaced, AllCounted, NEW t, Txs = {t}, OpenConnection(t)
    PROVE  AllCounted'
  <1> DEFINE x == tx[t]
             y == Opened(x)
             w == Whole(due[t], done[t])
  <1>1. Stays(t, y) /\ x.pc = "new" /\ known' = known
    BY OpenMoves
  <1>2. x.typed \subseteq RangeOf(w)
    BY <1>1 DEF AllCounted, Counted
  <1>3. y.pc = "ready" /\ y.typed = x.typed
    BY InTx, OpenedIs
  <1> HIDE DEF x, y, w
  <1>4. Counted(fault, y, w, known')
    BY <1>2, <1>3 DEF Counted, Busy
  <1> QED BY <1>1, <1>4, CountedStep DEF Stays, w

LEMMA EndsCounts ==
    ASSUME SocketInv, AllPlaced, AllCounted, NEW t, Txs = {t}, Stays(t, Ended(tx[t]))
    PROVE  AllCounted'
  <1>1. Ended(tx[t]).pc = "over"
    BY InTx, EndedIs
  <1>2. Counted(fault, Ended(tx[t]), Whole(due[t], done[t]), known')
    BY <1>1 DEF Counted, Busy
  <1> QED BY <1>2, CountedStep DEF Stays

\* A failure that passes leaves fewer of them.
LEMMA PassCounts ==
    ASSUME SocketInv, AllPlaced, AllCounted, NEW t, Txs = {t}, NEW s \in Stmts, FaultPasses(s)
    PROVE  AllCounted'
  <1> DEFINE x == tx[t]
             w == Whole(due[t], done[t])
  <1>1. fault' = [fault EXCEPT ![s] = "none"] /\ UNCHANGED <<known, tx, due, done>>
    BY DEF FaultPasses
  <1>2. Counted(fault, x, w, known) /\ w \in Seq(Sql)
    BY InvOf, WholeIs DEF AllCounted, TxInv, Kinds
  <1>3. \A u : u \in Sql => (fault[u] = "none" => fault'[u] = "none")
    BY <1>1 DEF SocketInv, Faults
  <1>4. ASSUME NEW p \in Nat, Clear(fault, x, w, p), Len(x.sent) + p - 1 <= Len(w), Len(x.sent) \in Nat, Len(w) \in Nat
        PROVE  Clear(fault', x, w, p)
    <2>1. ASSUME NEW i \in 1..(Len(x.sent) + p - 1) PROVE w[i] \in Sql
      <3> DEFINE lw == Len(w)
      <3>1. i \in 1..lw
        <4>1. Len(x.sent) + p - 1 <= lw /\ lw \in Nat /\ Len(x.sent) \in Nat
          BY <1>4
        <4> HIDE DEF lw
        <4> QED BY <2>1, <4>1
      <3> QED BY <1>2, <3>1
    <2> HIDE DEF x, w
    <2> QED BY <1>3, <1>4, <2>1 DEF Clear
  <1>5. x.pc \in Busy => BusyAt(x, w)
    BY BusyNumbers
  <1> HIDE DEF x, w
  <1>6. ASSUME x.pc \in Busy, NEW p \in Nat, p <= Len(AllOf(x)), Clear(fault, x, w, p)
        PROVE  Clear(fault', x, w, p)
    <2>1. Len(x.sent) + p - 1 <= Len(w) /\ Len(x.sent) \in Nat /\ Len(w) \in Nat
      BY <1>5, <1>6 DEF BusyAt
    <2> QED BY <1>4, <1>6, <2>1
  <1>7. ASSUME x.pc \in {"begin", "prepare", "fly"} PROVE Spent(fault', x, w, known)
    <2>1. x.pc \in Busy /\ Spent(fault, x, w, known)
      BY <1>2, <1>7 DEF Counted, Busy
    <2>2. ASSUME NEW p \in Nat, Pending(fault, x, w, known, p) PROVE Pending(fault', x, w, known, p)
      <3>1. p <= Len(AllOf(x))
        BY <1>5, <2>1, <2>2 DEF Pending, BusyAt
      <3> QED BY <1>6, <2>1, <2>2, <3>1 DEF Pending
    <2> QED BY <2>1, <2>2 DEF Spent
  <1>8. ASSUME x.pc \in {"masked", "rollback"} PROVE Hidden(fault', x, w, known)
    <2>1. x.pc \in Busy /\ Hidden(fault, x, w, known)
      BY <1>2, <1>8 DEF Counted, Busy
    <2>2. x.masked \in Nat /\ x.masked <= Len(AllOf(x))
      BY <1>5, <2>1 DEF Hidden, BusyAt
    <2> QED BY <1>6, <2>1, <2>2 DEF Hidden
  <1>9. Counted(fault', x, w, known)
    BY <1>2, <1>7, <1>8 DEF Counted
  <1>10. Counted(fault', tx'[t], Whole(due'[t], done'[t]), known')
    BY <1>1, <1>9 DEF x, w
  <1> QED BY <1>10 DEF AllCounted

LEMMA CountedNext ==
    ASSUME NEW t, Txs = {t}
    PROVE  SocketInv /\ AllPlaced /\ AllCounted /\ [Next]_vars => AllCounted'
  <1> SUFFICES ASSUME SocketInv, AllPlaced, AllCounted, [Next]_vars PROVE AllCounted'
    OBVIOUS
  <1>1. CASE UNCHANGED vars
    BY <1>1 DEF vars, AllCounted
  <1>2. ASSUME ConnectFails(t) \/ DropTx(t) \/ ConnectionBreaks(t) PROVE AllCounted'
    BY <1>2, ConnectFailsMoves, DropMoves, BreakMoves, EndsCounts
  <1>3. ASSUME Driver(t) PROVE AllCounted'
    BY <1>3, BeginCounts, PrepareCounts, AnswersCounts, FailsCounts, RememberCounts, AgainCounts DEF Driver
  <1> QED BY <1>1, <1>2, <1>3, OpenCounts, QueueCounts, SendCounts, PassCounts DEF Next

LEMMA CountedAlways ==
    ASSUME NEW t, Txs = {t}
    PROVE  Spec => []AllCounted
  <1>1. Init => AllCounted
    <2> SUFFICES ASSUME Init PROVE AllCounted
      OBVIOUS
    <2>1. tx[t].pc = "new" /\ tx[t].typed = {}
      BY DEF Init, NewTx
    <2> QED BY <2>1 DEF AllCounted, Counted, Busy
  <1>2. SocketInv /\ AllPlaced /\ AllCounted /\ [Next]_vars => AllCounted'
    BY CountedNext
  <1> QED BY <1>1, <1>2, AlwaysInv, PlacedAlways, PTL DEF Spec

-----------------------------------------------------------------------------
(* The contract, step by step *)

\* Where a transaction is, as its caller sees it.
PhaseOf(x) == CASE x.pc \in {"new", "ready"} -> "idle" [] x.pc = "over" -> "ended" [] OTHER -> "busy"

\* What a step of t shows of t: what is due and answered, what is committed, and the
\* last answer.
Shows(t, ph, du, qd, dn, dur, re) ==
    /\ Phase(t)' = ph /\ due'[t] = du /\ queuedDue'[t] = qd /\ done'[t] = dn
    /\ session'[t].durable = dur /\ reply'[t] = re

Seen(t) == Contract(t)!CNext \/ UNCHANGED Contract(t)!cvars

LEMMA AsStutter ==
    ASSUME NEW t, fault' = fault, Shows(t, Phase(t), due[t], queuedDue[t], done[t], session[t].durable, reply[t])
    PROVE  Seen(t)
  BY DEF Shows, Seen, Contract!cvars

LEMMA AsQueue ==
    ASSUME NEW t, NEW s \in Stmts, fault' = fault, Phase(t) = "idle", Len(done[t]) + Len(due[t]) < MaxStmts,
           Shows(t, Phase(t), Append(due[t], s), queuedDue[t], done[t], session[t].durable, reply[t])
    PROVE  Seen(t)
  <1>1. Contract(t)!Queue(s)
    BY DEF Shows, Contract!Queue
  <1> QED BY <1>1 DEF Seen, Contract!CNext

LEMMA AsCall ==
    ASSUME NEW t \in Txs, NEW stmts \in Calls, fault' = fault, Phase(t) = "idle",
           Len(done[t]) + Len(due[t]) + Len(stmts) <= MaxStmts,
           Shows(t, "busy", due[t] \o stmts, Len(due[t]), done[t], session[t].durable, NoReply)
    PROVE  Seen(t)
  <1>1. Contract(t)!Call(stmts)
    BY DEF Shows, Contract!Call, Contract!NoReply, NoReply
  <1>2. stmts \in Contract(t)!Calls
    BY DEF Calls, Contract!Calls
  <1> QED BY <1>1, <1>2 DEF Seen, Contract!CNext

LEMMA AsOk ==
    ASSUME NEW t, NEW ph, NEW dur, fault' = fault, Phase(t) = "busy",
           \A k \in DOMAIN due[t] : fault[due[t][k]] = "none",
           Shows(t, ph, <<>>, queuedDue[t], done[t] \o due[t], dur, Ok),
           \/ /\ Contract(t)!EndsTransaction(due[t]) /\ ph = "ended"
              /\ dur = Contract(t)!Statements(done[t] \o due[t])
           \/ ~Contract(t)!EndsTransaction(due[t]) /\ ph = "idle" /\ dur = session[t].durable
    PROVE  Seen(t)
  <1>1. Contract(t)!Succeeds(due[t])
    BY DEF Contract!Succeeds, Contract!Fails
  <1>2. Contract(t)!AnswerOk
    BY <1>1 DEF Shows, Contract!AnswerOk, Contract!Ok, Ok
  <1> QED BY <1>2 DEF Seen, Contract!CNext

LEMMA AsFailed ==
    ASSUME NEW t, fault' = fault, Phase(t) = "busy", due[t] \in Seq(Sql),
           NEW k \in 1..Len(due[t]), fault[due[t][k]] # "none",
           \A j \in 1..(k - 1) : fault[due[t][j]] = "none",
           Shows(t, "ended", due[t], queuedDue[t], done[t], session[t].durable,
                 [kind |-> "failed", stmt |-> due[t][k], queued |-> k <= queuedDue[t]])
    PROVE  Seen(t)
  <1> DEFINE du == due[t]
             P(j) == Contract(t)!Fails(du, j) /\ \A i \in 1..(j-1) : ~Contract(t)!Fails(du, i)
  <1>1. DOMAIN du = 1..Len(du) /\ Len(du) \in Nat
    OBVIOUS
  <1>2. k \in DOMAIN du /\ P(k)
    BY <1>1 DEF Contract!Fails
  <1>3. ASSUME NEW j \in DOMAIN du, P(j) PROVE j = k
    <2>1. ~(j \in 1..(k-1)) /\ ~(k \in 1..(j-1))
      BY <1>2, <1>3
    <2>2. j \in 1..Len(du)
      BY <1>1
    <2> QED BY <1>1, <2>1, <2>2
  <1>4. Contract(t)!FirstFailure(du) = CHOOSE j \in DOMAIN du : P(j)
    BY DEF Contract!FirstFailure
  <1> HIDE DEF P
  <1>5. Contract(t)!FirstFailure(du) = k
    BY <1>2, <1>3, <1>4
  <1>6. ~Contract(t)!Succeeds(du)
    BY <1>2 DEF P, Contract!Succeeds
  <1>7. Contract(t)!AnswerFailed
    BY <1>5, <1>6 DEF Shows, Contract!AnswerFailed
  <1> QED BY <1>7 DEF Seen, Contract!CNext

LEMMA AsBroken ==
    ASSUME NEW t, NEW dur, NEW re, fault' = fault, Phase(t) = "busy",
           Shows(t, "ended", due[t], queuedDue[t], done[t], dur, re),
           re \in {reply[t], ConnectionFailed},
           \/ dur = session[t].durable
           \/ /\ \A k \in DOMAIN due[t] : fault[due[t][k]] = "none"
              /\ Contract(t)!EndsTransaction(due[t])
              /\ dur = Contract(t)!Statements(done[t] \o due[t])
    PROVE  Seen(t)
  <1>1. Contract(t)!AnswerConnection
    BY DEF Shows, Contract!AnswerConnection, Contract!ConnectionFailed, ConnectionFailed,
           Contract!Succeeds, Contract!Fails
  <1> QED BY <1>1 DEF Seen, Contract!CNext

LEMMA AsDrop ==
    ASSUME NEW t, NEW re, fault' = fault, Phase(t) = "idle",
           Shows(t, "ended", due[t], queuedDue[t], done[t], session[t].durable, re),
           re \in {reply[t], ConnectionFailed}
    PROVE  Seen(t)
  <1>1. Contract(t)!Drop
    BY DEF Shows, Contract!Drop, Contract!ConnectionFailed, ConnectionFailed
  <1> QED BY <1>1 DEF Seen, Contract!CNext

LEMMA AsPass ==
    ASSUME NEW t, NEW s \in Stmts, FaultPasses(s)
    PROVE  Seen(t)
  <1>1. fault[s] = "exec" /\ fault' = [fault EXCEPT ![s] = "none"]
        /\ UNCHANGED <<tx, session, due, queuedDue, done, reply>>
    BY DEF FaultPasses
  <1>2. Phase(t)' = Phase(t)
    BY <1>1 DEF Phase
  <1>3. Contract(t)!FaultPasses
    BY <1>1, <1>2 DEF Contract!FaultPasses
  <1> QED BY <1>3 DEF Seen, Contract!CNext

-----------------------------------------------------------------------------
(* Every step of the driver is one of the contract, or none *)

\* The whole ends with COMMIT if what is due does.
LEMMA EndsWhole ==
    ASSUME NEW du \in Seq(Sql), NEW dn \in Seq(Stmts), NEW w, w = Whole(du, dn)
    PROVE  (du # <<>> /\ du[Len(du)] = Commit) <=> w[Len(w)] = Commit
  <1> DEFINE ld == Len(du)
             le == Len(dn)
             lw == Len(w)
  <1>1. dn \in Seq(Sql) /\ le \in Nat /\ ld \in Nat /\ \A i \in 1..le : dn[i] \in Stmts
    BY SeqMonotonic DEF Sql
  <1>2. /\ lw = 1 + le + ld /\ w[1] = Begin
        /\ \A i \in 1..le : w[1 + i] = dn[i]
        /\ \A i \in 1..ld : w[1 + le + i] = du[i]
    BY <1>1, WholeIs
  <1>3. du = <<>> <=> ld = 0
    OBVIOUS
  <1> HIDE DEF ld, le, lw
  <1>4. CASE ld = 0
    <2>1. CASE le = 0
      <3>1. w[lw] = Begin
        BY <1>2, <1>4, <2>1
      <3> QED BY <1>3, <1>4, <3>1, StatementAssumption DEF lw
    <2>2. CASE le # 0
      <3>1. le \in 1..le /\ lw = 1 + le
        BY <1>1, <1>2, <1>4, <2>2
      <3>2. w[lw] \in Stmts
        BY <1>1, <1>2, <3>1
      <3> QED BY <1>3, <1>4, <3>2, StatementAssumption DEF lw
    <2> QED BY <2>1, <2>2
  <1>5. CASE ld # 0
    <2>1. ld \in 1..ld
      BY <1>1, <1>5
    <2>2. w[lw] = du[ld]
      BY <1>2, <2>1
    <2> QED BY <1>3, <1>5, <2>2 DEF ld, lw
  <1> QED BY <1>4, <1>5

LEMMA PhaseNow == ASSUME NEW t PROVE Phase(t) = PhaseOf(tx[t]) /\ Phase(t)' = PhaseOf(tx'[t])
  BY DEF Phase, PhaseOf

LEMMA PhasesAre ==
    ASSUME NEW x
    PROVE  /\ x.pc \in {"new", "ready"} => PhaseOf(x) = "idle"
           /\ x.pc = "over" => PhaseOf(x) = "ended"
           /\ x.pc \in Busy => PhaseOf(x) = "busy"
  BY DEF PhaseOf, Busy

LEMMA ShowsOf ==
    ASSUME NEW t, NEW y, NEW du, NEW dn, NEW qd, Moves(t, y, du, dn, qd)
    PROVE  /\ Shows(t, PhaseOf(y), du, qd, dn, session'[t].durable, reply'[t])
           /\ fault' = fault /\ Phase(t) = PhaseOf(tx[t])
  BY PhaseNow DEF Moves, Shows

\* The caller sees nothing of a step that keeps the phase, what is committed and the
\* answer.
LEMMA Unseen ==
    ASSUME NEW t, NEW y, Stays(t, y), PhaseOf(y) = PhaseOf(tx[t]),
           session'[t].durable = session[t].durable, reply'[t] = reply[t]
    PROVE  Seen(t)
  <1>1. /\ Shows(t, PhaseOf(y), due[t], queuedDue[t], done[t], session'[t].durable, reply'[t])
        /\ fault' = fault /\ Phase(t) = PhaseOf(tx[t])
    BY ShowsOf DEF Stays
  <1> QED BY <1>1, AsStutter

LEMMA OpenSeen ==
    ASSUME SocketInv, AllPlaced, NEW t \in Txs, OpenConnection(t) PROVE Seen(t)
  <1>1. Stays(t, Opened(tx[t])) /\ tx[t].pc = "new" /\ session' = session /\ reply' = reply
    BY OpenMoves DEF OpenConnection
  <1>2. PhaseOf(Opened(tx[t])) = "idle" /\ PhaseOf(tx[t]) = "idle"
    BY <1>1, InTx, OpenedIs, PhasesAre
  <1> QED BY <1>1, <1>2, Unseen

LEMMA EndsSeen ==
    ASSUME SocketInv, NEW t \in Txs, Stays(t, Ended(tx[t])), tx[t].pc \in {"new", "ready"},
           session'[t].durable = session[t].durable, reply'[t] \in {reply[t], ConnectionFailed}
    PROVE  Seen(t)
  <1> DEFINE y == Ended(tx[t])
  <1>1. PhaseOf(y) = "ended" /\ PhaseOf(tx[t]) = "idle"
    BY InTx, EndedIs, PhasesAre
  <1>2. /\ Shows(t, PhaseOf(y), due[t], queuedDue[t], done[t], session'[t].durable, reply'[t])
        /\ fault' = fault /\ Phase(t) = PhaseOf(tx[t])
    BY ShowsOf DEF Stays
  <1> QED BY <1>1, <1>2, AsDrop

LEMMA ConnectFailsSeen ==
    ASSUME SocketInv, AllPlaced, NEW t \in Txs, ConnectFails(t) PROVE Seen(t)
  <1>1. Stays(t, Ended(tx[t])) /\ tx[t].pc = "new"
    BY ConnectFailsMoves DEF ConnectFails
  <1>2. session'[t] = Closed(session[t]) /\ reply'[t] = ConnectionFailed /\ session[t] \in Session
    BY InvOf DEF ConnectFails, SocketInv, TxInv, Kinds
  <1> QED BY <1>1, <1>2, ClosedIs, EndsSeen

LEMMA DropSeen ==
    ASSUME SocketInv, AllPlaced, NEW t \in Txs, DropTx(t) PROVE Seen(t)
  <1>1. Stays(t, Ended(tx[t])) /\ tx[t].pc \in {"ready", "over"} /\ reply' = reply
    BY DropMoves DEF DropTx
  <1>2. session'[t] = Closed(session[t]) /\ session[t] \in Session
    BY InvOf DEF DropTx, SocketInv, TxInv, Kinds
  <1>3. session'[t].durable = session[t].durable
    BY <1>2, ClosedIs
  <1>4. CASE tx[t].pc = "over"
    <2>1. PhaseOf(Ended(tx[t])) = "ended" /\ PhaseOf(tx[t]) = "ended"
      BY <1>4, InTx, EndedIs, PhasesAre
    <2> QED BY <1>1, <1>3, <2>1, Unseen
  <1>5. CASE tx[t].pc = "ready"
    BY <1>1, <1>3, <1>5, EndsSeen
  <1> QED BY <1>1, <1>4, <1>5

LEMMA QueueSeen ==
    ASSUME SocketInv, AllPlaced, NEW t \in Txs, NEW s \in Stmts, QueueStatement(t, s) PROVE Seen(t)
  <1> DEFINE y == Queued(tx[t], s)
  <1>1. /\ Moves(t, y, Append(due[t], s), done[t], queuedDue[t]) /\ tx[t].pc = "ready"
        /\ session' = session /\ reply' = reply /\ Len(done[t]) + Len(due[t]) < MaxStmts
    BY QueueMoves DEF QueueStatement
  <1>2. PhaseOf(y) = "idle" /\ PhaseOf(tx[t]) = "idle"
    BY <1>1, InTx, QueuedIs, PhasesAre
  <1>3. /\ Shows(t, PhaseOf(y), Append(due[t], s), queuedDue[t], done[t], session'[t].durable, reply'[t])
        /\ fault' = fault /\ Phase(t) = PhaseOf(tx[t])
    BY <1>1, ShowsOf
  <1> HIDE DEF y
  <1> QED BY <1>1, <1>2, <1>3, AsQueue

LEMMA SendSeen ==
    ASSUME SocketInv, AllPlaced, NEW t \in Txs, NEW stmts \in Calls, Send(t, stmts) PROVE Seen(t)
  <1> DEFINE y == Sending(tx[t], stmts, Limit(t, stmts))
  <1>1. /\ Moves(t, y, due[t] \o stmts, done[t], Len(due[t])) /\ tx[t].pc = "ready"
        /\ session' = session /\ reply'[t] = NoReply /\ Len(done[t]) + Len(due[t]) + Len(stmts) <= MaxStmts
    BY SendMoves DEF Send, SocketInv
  <1>2. PhaseOf(y) = "busy" /\ PhaseOf(tx[t]) = "idle"
    BY <1>1, InTx, SendingIs, PhasesAre DEF Busy
  <1>3. /\ Shows(t, PhaseOf(y), due[t] \o stmts, Len(due[t]), done[t], session'[t].durable, reply'[t])
        /\ fault' = fault /\ Phase(t) = PhaseOf(tx[t])
    BY <1>1, ShowsOf
  <1> HIDE DEF y
  <1> QED BY <1>1, <1>2, <1>3, AsCall

LEMMA BeginSeen ==
    ASSUME SocketInv, AllPlaced, NEW t \in Txs, BeginFlight(t) PROVE Seen(t)
  <1> DEFINE next == All(t)[tx[t].start] \in known
             y == Flying(tx[t], FlightEnd(t), next)
  <1>1. Stays(t, y) /\ tx[t].pc = "begin" /\ session' = session /\ reply' = reply
    BY BeginMoves DEF BeginFlight
  <1>2. y.pc \in {"prepare", "fly"}
    <2> HIDE DEF next
    <2> QED BY InTx, FlyingIs
  <1>3. PhaseOf(y) = "busy" /\ PhaseOf(tx[t]) = "busy"
    BY <1>1, <1>2, PhasesAre DEF Busy
  <1> HIDE DEF y
  <1> QED BY <1>1, <1>3, Unseen

\* Where statement `at` of what is run is among what is due, in numbers: q were sent
\* before, b are ahead of the call, e were answered, and qd of the d due were queued.
LEMMA DueNumbers ==
    ASSUME NEW q \in Nat, NEW b \in Nat, NEW la \in Nat, NEW at \in 1..la, NEW e \in Nat, NEW d \in Nat,
           NEW qd \in Nat, q + b = 1 + e + qd, q + la = 1 + e + d, q + at > 1 + e
    PROVE  /\ q + at - 1 - e \in 1..d
           /\ 1 + e + (q + at - 1 - e) = q + at
           /\ at <= b <=> q + at - 1 - e <= qd
           /\ \A j \in 1..(q + at - 1 - e - 1) : 1 + e + j \in 1..(q + at - 1) /\ j \in 1..d
  OBVIOUS

\* The failure a call is ended with is the first of what is due.
LEMMA FailedSeen ==
    ASSUME SocketInv, AllPlaced, NEW t \in Txs, tx[t].pc \in Busy,
           NEW at \in 1..Len(AllOf(tx[t])), Clear(fault, tx[t], Whole(due[t], done[t]), at),
           fault[AllOf(tx[t])[at]] # "none",
           Stays(t, Ended(tx[t])), Report(t, "failed", at), session'[t].durable = session[t].durable
    PROVE  Seen(t)
  <1> DEFINE x == tx[t]
             w == Whole(due[t], done[t])
             du == due[t]
             dn == done[t]
             al == AllOf(x)
             q == Len(x.sent)
             b == Len(x.ahead)
             la == Len(al)
             e == Len(dn)
             d == Len(du)
             qd == queuedDue[t]
             k == q + at - 1 - e
  <1>1. BusyAt(x, w) /\ x \in Tx /\ du \in Seq(Sql) /\ dn \in Seq(Sql)
    BY BusyNumbers, InvOf DEF TxInv, Kinds
  <1>2. qd \in Nat /\ q + b = 1 + e + qd /\ \A i \in 1..e : fault[dn[i]] = "none"
    BY DEF AllPlaced, Placed, Busy
  <1>3. /\ Len(w) = 1 + e + d /\ w[1] = Begin
        /\ \A i \in 1..e : w[1 + i] = dn[i]
        /\ \A i \in 1..d : w[1 + e + i] = du[i]
    BY <1>1, WholeIs
  <1>4. q \in Nat /\ b \in Nat /\ la \in Nat /\ e \in Nat /\ d \in Nat /\ at \in 1..la /\ q + la = 1 + e + d
    <2>1. x.ahead \in Seq(Sql)
      BY <1>1 DEF Tx
    <2>2. q \in Nat /\ la \in Nat /\ at \in 1..la /\ Len(w) = q + la
      BY <1>1 DEF BusyAt
    <2>3. b \in Nat /\ e \in Nat /\ d \in Nat
      BY <1>1, <2>1
    <2> HIDE DEF w, q, la, b, e, d
    <2> QED BY <1>3, <2>2, <2>3
  <1>5. w[q + at] = al[at] /\ fault[al[at]] # "none"
    BY <1>1, <1>4 DEF BusyAt
  <1>6. fault[Begin] = "none"
    BY DEF SocketInv, Faults
  <1>7. \A i \in 1..(q + at - 1) : fault[w[i]] = "none"
    BY DEF Clear
  <1>13. reply'[t] = [kind |-> "failed", stmt |-> al[at], queued |-> at <= b]
    BY InvOf DEF Report, SocketInv
  <1>14. /\ Shows(t, PhaseOf(Ended(x)), du, qd, dn, session'[t].durable, reply'[t])
         /\ fault' = fault /\ Phase(t) = PhaseOf(x)
    BY ShowsOf DEF Stays
  <1>15. PhaseOf(Ended(x)) = "ended" /\ PhaseOf(x) = "busy"
    BY <1>1, EndedIs, PhasesAre
  <1> HIDE DEF w, al, q, b, la, e, d, qd
  <1>8. q + at > 1 + e
    <2>1. SUFFICES ASSUME q + at <= 1 + e PROVE FALSE
      BY <1>4
    <2>2. CASE q + at = 1
      BY <1>3, <1>5, <1>6, <2>2
    <2>3. CASE q + at # 1
      <3> DEFINE i == q + at - 1
      <3>1. i \in 1..e /\ 1 + i = q + at
        BY <1>4, <2>1, <2>3
      <3> HIDE DEF i
      <3>2. w[1 + i] = dn[i] /\ fault[dn[i]] = "none"
        BY <1>2, <1>3, <3>1
      <3> QED BY <1>5, <3>1, <3>2
    <2> QED BY <2>2, <2>3
  <1>9. /\ k \in 1..d /\ 1 + e + k = q + at
        /\ at <= b <=> k <= qd
        /\ \A j \in 1..(k - 1) : 1 + e + j \in 1..(q + at - 1) /\ j \in 1..d
    BY <1>2, <1>4, <1>8, DueNumbers
  <1> HIDE DEF k
  <1>10. du[k] = al[at]
    BY <1>3, <1>5, <1>9
  <1>11. \A j \in 1..(k - 1) : fault[du[j]] = "none"
    BY <1>3, <1>7, <1>9
  <1>12. reply'[t] = [kind |-> "failed", stmt |-> du[k], queued |-> k <= qd]
    BY <1>9, <1>10, <1>13
  <1>16. Shows(t, "ended", du, qd, dn, session[t].durable, [kind |-> "failed", stmt |-> du[k], queued |-> k <= qd])
    BY <1>12, <1>14, <1>15
  <1>17. k \in 1..Len(du) /\ fault[du[k]] # "none"
    BY <1>5, <1>9, <1>10 DEF d
  <1> QED BY <1>1, <1>11, <1>14, <1>15, <1>16, <1>17, AsFailed DEF qd

LEMMA PrepareSeen ==
    ASSUME SocketInv, AllPlaced, NEW t \in Txs, Prepare(t) PROVE Seen(t)
  <1> DEFINE s == All(t)[tx[t].start]
             y == PreparedTx(tx[t], s)
  <1>1. tx[t].pc = "prepare" /\ (Stays(t, y) \/ Stays(t, Ended(tx[t])))
    BY PrepareMoves
  <1>2. CASE fault[s] # "parse"
    <2>0. /\ tx' = [tx EXCEPT ![t] = [@ EXCEPT !.pc = AfterPrepare, !.typed = tx[t].typed \cup {s}]]
          /\ session' = session /\ reply' = reply
      BY <1>2 DEF Prepare
    <2>1. session' = session /\ reply' = reply /\ tx'[t].pc = "fly"
      <3>1. tx[t] \in Tx
        BY InTx
      <3> HIDE DEF s
      <3> QED BY <2>0, <3>1 DEF SocketInv, AfterPrepare, Tx
    <2>2. Stays(t, y)
      BY <1>1, <2>1, InTx, EndedIs DEF Stays, Moves
    <2>3. PhaseOf(y) = "busy" /\ PhaseOf(tx[t]) = "busy"
      <3>1. y.pc = "fly"
        <4> HIDE DEF s
        <4> QED BY InTx, PreparedIs
      <3> HIDE DEF y
      <3> QED BY <1>1, <3>1, PhasesAre DEF Busy
    <2> HIDE DEF y
    <2> QED BY <2>1, <2>2, <2>3, Unseen
  <1>3. CASE fault[s] = "parse"
    <2>0. /\ tx' = [tx EXCEPT ![t].pc = "over"]
          /\ session' = [session EXCEPT ![t] = After(session[t], s, fault)]
          /\ Report(t, "failed", tx[t].start)
      BY <1>3 DEF Prepare
    <2>1. /\ tx'[t].pc = "over" /\ session'[t] = After(session[t], s, fault)
          /\ Report(t, "failed", tx[t].start)
      <3>1. tx[t] \in Tx
        BY InTx
      <3> HIDE DEF s
      <3> QED BY <2>0, <3>1 DEF SocketInv, Tx
    <2>2. Stays(t, Ended(tx[t]))
      <3>1. y.pc = "fly"
        <4> HIDE DEF s
        <4> QED BY InTx, PreparedIs
      <3> QED BY <1>1, <2>1, <3>1 DEF Stays, Moves
    <2>3. tx[t].pc \in Busy
      BY <1>1 DEF Busy
    <2>4. TxInv(fault, tx[t], session[t], due[t], done[t], ranIn[t], reply[t]) /\ AllOf(tx[t]) = All(t)
      BY InvOf
    <2>5. tx[t].start \in 1..Len(AllOf(tx[t])) /\ Good(fault, session[t], Whole(due[t], done[t]), Len(tx[t].sent) + tx[t].start - 1)
      BY <1>1, <2>4 DEF TxInv, Cut
    <2>6. Clear(fault, tx[t], Whole(due[t], done[t]), tx[t].start)
      BY <2>5 DEF Clear, Good
    <2>7. s = AllOf(tx[t])[tx[t].start] /\ fault[s] # "none"
      BY <1>3, <2>4
    <2>8. session'[t].durable = session[t].durable
      <3>1. session[t].durable = <<>>
        BY <2>3, <2>4, BusyFacts
      <3>2. After(session[t], s, fault).durable = <<>>
        <4> HIDE DEF s
        <4> QED BY <1>1, <2>4, <2>7, InvOf, RefusedLeaves
      <3> QED BY <2>1, <3>1, <3>2
    <2> QED BY <2>1, <2>2, <2>3, <2>5, <2>6, <2>7, <2>8, FailedSeen
  <1> QED BY <1>2, <1>3

\* What a flight of `Ok`s has committed.
LEMMA FlownDurable ==
    ASSUME SocketInv, NEW t \in Txs, tx[t].pc = "fly",
           \A k \in DOMAIN Flight(t) : AnswerTo(t, Flight(t), RunOf(t), k) = "ok",
           NEW w, w = Whole(due[t], done[t]), NEW se, se = RunOf(t)[SentOf(Flight(t))]
    PROVE  /\ tx[t].end > Len(AllOf(tx[t])) =>
                /\ \A i \in 1..Len(w) : fault[w[i]] = "none"
                /\ \/ w[Len(w)] = Commit /\ se.durable = SubSeq(w, 2, Len(w) - 1)
                   \/ w[Len(w)] # Commit /\ se.durable = <<>>
           /\ ~(tx[t].end > Len(AllOf(tx[t]))) => se.durable = <<>>
  <1> DEFINE fl == Flight(t)
             a == RunOf(t)
             n == Ran(tx[t])
             l == n + Len(fl)
  <1>0. fl = Flight(t) /\ a = Sessions(t, fl) /\ \A k \in DOMAIN fl : AnswerTo(t, fl, a, k) = "ok"
    BY DEF RunOf
  <1>9. se = a[SentOf(fl)]
    OBVIOUS
  <1> HIDE DEF fl, a
  <1>1. /\ Good(fault, a[SentOf(fl)], w, Ran(tx[t]) + Len(fl))
           \/ (Finished(fault, a[SentOf(fl)], w) /\ Ran(tx[t]) + Len(fl) = Len(w))
        /\ \A i \in 1..(Ran(tx[t]) + Len(fl)) : fault[w[i]] = "none"
    BY <1>0, AnswersClear
  <1>2. Len(w) \in Nat /\ Shape(w) /\ (l = Len(w) <=> tx[t].end > Len(AllOf(tx[t])))
    <2>1. fl = FlightFrom(tx[t])
      BY <1>0, FlightIs
    <2> QED BY <2>1, InvOf, FlightOfTx
  <1>3. Good(fault, se, w, l) \/ (Finished(fault, se, w) /\ l = Len(w))
    BY <1>1, <1>9
  <1>4. \A i \in 1..l : fault[w[i]] = "none"
    BY <1>1
  <1> HIDE DEF l
  <1>5. CASE l = Len(w)
    <2>1. Len(w) \in 1..Len(w)
      BY <1>2 DEF Shape
    <2> QED BY <1>2, <1>3, <1>4, <1>5, <2>1 DEF Good, Finished
  <1>6. CASE l # Len(w)
    BY <1>2, <1>3, <1>6 DEF Good
  <1> QED BY <1>5, <1>6

LEMMA DueClear ==
    ASSUME NEW f, NEW du \in Seq(Sql), NEW dn \in Seq(Sql),
           \A i \in 1..Len(Whole(du, dn)) : f[Whole(du, dn)[i]] = "none"
    PROVE  \A k \in DOMAIN du : f[du[k]] = "none"
  <1> DEFINE w == Whole(du, dn)
             ld == Len(du)
             le == Len(dn)
             lw == Len(w)
  <1>1. ld \in Nat /\ le \in Nat /\ lw = 1 + le + ld /\ DOMAIN du = 1..ld
        /\ \A i \in 1..ld : w[1 + le + i] = du[i]
    <2>1. lw = 1 + le + ld /\ \A i \in 1..ld : w[1 + le + i] = du[i]
      BY WholeIs
    <2> HIDE DEF w
    <2> QED BY <2>1
  <1>2. \A i \in 1..lw : f[w[i]] = "none"
    OBVIOUS
  <1> HIDE DEF w, ld, le, lw
  <1>3. \A k \in 1..ld : 1 + le + k \in 1..lw
    BY <1>1
  <1> QED BY <1>1, <1>2, <1>3

LEMMA AnswersSeen ==
    ASSUME SocketInv, AllPlaced, NEW t \in Txs, FlightAnswers(t) PROVE Seen(t)
  <1> DEFINE x == tx[t]
             w == Whole(due[t], done[t])
             se == RunOf(t)[SentOf(Flight(t))]
  <1>1. /\ x.pc = "fly"
        /\ \A k \in DOMAIN Flight(t) : AnswerTo(t, Flight(t), RunOf(t), k) = "ok"
        /\ session' = [session EXCEPT ![t] = se]
        /\ \/ /\ ~(x.end > Len(AllOf(x))) /\ Stays(t, FlownOn(x, Learnt(t))) /\ reply' = reply
           \/ /\ x.end > Len(AllOf(x))
              /\ Moves(t, FlownHome(x, Learnt(t)), <<>>, done[t] \o due[t], queuedDue[t])
              /\ reply' = [reply EXCEPT ![t] = Ok]
    BY AnswersMoves
  <1>2. /\ x.end > Len(AllOf(x)) =>
              /\ \A i \in 1..Len(w) : fault[w[i]] = "none"
              /\ \/ w[Len(w)] = Commit /\ se.durable = SubSeq(w, 2, Len(w) - 1)
                 \/ w[Len(w)] # Commit /\ se.durable = <<>>
        /\ ~(x.end > Len(AllOf(x))) => se.durable = <<>>
    BY <1>1, FlownDurable
  <1>3. session'[t] = se /\ x \in Tx /\ x.pc \in Busy
    BY <1>1, InTx DEF SocketInv, Busy
  <1>4. /\ due[t] \in Seq(Sql) /\ done[t] \in Seq(Sql) /\ done[t] \in Seq(Stmts) /\ session[t].durable = <<>>
        /\ BusyAt(x, w)
    BY <1>3, InvOf, BusyFacts, BusyNumbers
  <1>5. PhaseOf(x) = "busy"
    BY <1>3, PhasesAre
  <1> HIDE DEF se
  <1>6. CASE ~(x.end > Len(AllOf(x))) /\ Stays(t, FlownOn(x, Learnt(t))) /\ reply' = reply
    <2> DEFINE typed == Learnt(t)
               y == FlownOn(x, typed)
    <2>1. y.pc = "begin"
      <3> HIDE DEF x, typed
      <3> QED BY <1>3, FlownOnIs
    <2> HIDE DEF typed
    <2>2. PhaseOf(y) = "busy"
      <3> HIDE DEF y
      <3> QED BY <2>1, PhasesAre DEF Busy
    <2> HIDE DEF y
    <2>3. Stays(t, y)
      BY <1>6 DEF y, typed
    <2> QED BY <1>2, <1>3, <1>4, <1>5, <1>6, <2>2, <2>3, Unseen
  <1>7. CASE /\ x.end > Len(AllOf(x))
             /\ Moves(t, FlownHome(x, Learnt(t)), <<>>, done[t] \o due[t], queuedDue[t])
             /\ reply' = [reply EXCEPT ![t] = Ok]
    <2> DEFINE typed == Learnt(t)
               y == FlownHome(x, typed)
               al == AllOf(x)
               du == due[t]
               dn == done[t]
    <2>1. y.pc = IF al[Len(al)] = Commit THEN "over" ELSE "ready"
      <3> HIDE DEF x, typed
      <3> QED BY <1>3, FlownHomeIs
    <2>2. Shows(t, PhaseOf(y), <<>>, queuedDue[t], dn \o du, se.durable, Ok) /\ fault' = fault /\ Phase(t) = "busy"
      <3>1. reply'[t] = Ok
        BY <1>7 DEF SocketInv
      <3>2. Moves(t, y, <<>>, dn \o du, queuedDue[t])
        BY <1>7
      <3> HIDE DEF y, dn, du
      <3> QED BY <1>3, <1>5, <3>1, <3>2, ShowsOf
    <2>3. al[Len(al)] = w[Len(w)]
      <3>1. Len(al) \in 1..Len(al) /\ Len(w) = Len(x.sent) + Len(al) /\ w[Len(x.sent) + Len(al)] = al[Len(al)]
        <4>1. Len(al) \in 1..Len(al)
          BY <1>1, <1>4 DEF BusyAt
        <4> QED BY <1>4, <4>1 DEF BusyAt
      <3> QED BY <3>1
    <2>4. \A k \in DOMAIN du : fault[du[k]] = "none"
      <3>1. /\ \A i \in 1..Len(Whole(du, dn)) : fault[Whole(du, dn)[i]] = "none"
            /\ du \in Seq(Sql) /\ dn \in Seq(Sql)
        BY <1>2, <1>4, <1>7
      <3> HIDE DEF du, dn
      <3> QED BY <3>1, DueClear
    <2>5. Contract(t)!EndsTransaction(du) <=> w[Len(w)] = Commit
      BY <1>4, EndsWhole DEF Contract!EndsTransaction
    <2>6. w[Len(w)] = Commit => se.durable = Contract(t)!Statements(dn \o du)
      <3>1. w[Len(w)] = Commit => SubSeq(w, 2, Len(w) - 1) = SubSeq(dn \o du, 1, Len(dn \o du) - 1)
        BY <1>4, CommitLeaves
      <3> QED BY <1>2, <1>7, <3>1 DEF Contract!Statements
    <2>7. w[Len(w)] # Commit => se.durable = session[t].durable
      BY <1>2, <1>4, <1>7
    <2>8. PhaseOf(y) = IF w[Len(w)] = Commit THEN "ended" ELSE "idle"
      <3> HIDE DEF y
      <3> QED BY <2>1, <2>3, PhasesAre
    <2> HIDE DEF y, dn, du, al, w
    <2> QED BY <2>2, <2>4, <2>5, <2>6, <2>7, <2>8, AsOk DEF dn, du
  <1> QED BY <1>1, <1>6, <1>7

LEMMA FailsSeen ==
    ASSUME SocketInv, AllPlaced, NEW t \in Txs, FlightFails(t) PROVE Seen(t)
  <1> DEFINE x == tx[t]
             w == Whole(due[t], done[t])
             fl == Flight(t)
             a == RunOf(t)
             k == FirstBad(t, fl, a)
             at == x.start + k - 1
             y == MaskedTx(x, at)
             se == a[SentOf(fl)]
  <1>1. /\ x.pc = "fly" /\ Bad(t, fl, a) # {} /\ session' = [session EXCEPT ![t] = se]
        /\ \/ AnswerTo(t, fl, a, k) = "25P02" /\ Stays(t, y) /\ reply' = reply
           \/ /\ AnswerTo(t, fl, a, k) = "error" \/ (k = 1 /\ x.prepared)
              /\ Stays(t, Ended(x))
              /\ Report(t, IF AnswerTo(t, fl, a, k) = "error" THEN "failed" ELSE "masked", at)
    BY FailsMoves
  <1>2. x \in Tx /\ x.pc \in Busy /\ PhaseOf(x) = "busy" /\ session'[t] = se
    BY <1>1, InTx, PhasesAre DEF Busy, SocketInv
  <1>3. FailedAt(t, x, fl, a, w, k)
    BY <1>1, FailureAt
  <1>4. session[t].durable = <<>>
    BY <1>2, InvOf, BusyFacts
  <1>5. se.durable = <<>>
    <2>1. a = Sessions(t, fl)
      BY DEF RunOf
    <2>2. fl = Flight(t) /\ x.pc = "fly"
      BY <1>1
    <2>3. AnswerTo(t, fl, a, k) # "ok" /\ k \in 1..Len(fl)
      BY <1>3 DEF FailedAt
    <2> HIDE DEF fl, a, k
    <2>4. /\ fl \in Seq(Sql) /\ SentOf(fl) \in 0..Len(fl) /\ Len(fl) \in Nat
          /\ Ran(tx[t]) \in Nat /\ Ran(tx[t]) + Len(fl) <= Len(Whole(due[t], done[t]))
          /\ Len(Whole(due[t], done[t])) \in Nat
          /\ \A i \in 0..SentOf(fl) : Reached(fault, a, fl, Whole(due[t], done[t]), Ran(tx[t]), i)
      BY <2>1, <2>2, FlightIs
    <2> DEFINE n == Ran(tx[t])
    <2>5. Reached(fault, a, fl, w, n, SentOf(fl)) /\ n \in Nat /\ Len(w) \in Nat /\ n + Len(fl) <= Len(w)
      BY <2>4
    <2> HIDE DEF w, n
    <2> QED BY <2>3, <2>4, <2>5, SomeFailed
  <1>6. session'[t].durable = session[t].durable
    BY <1>2, <1>4, <1>5
  <1>7. at = x.start + k - 1
    OBVIOUS
  <1> HIDE DEF se, fl, a, k
  <1>8. CASE AnswerTo(t, fl, a, k) = "25P02"
    <2>1. Stays(t, y) /\ reply' = reply
      BY <1>1, <1>3, <1>8 DEF FailedAt
    <2>2. y.pc = "masked"
      <3> HIDE DEF x, at
      <3> QED BY <1>2, MaskedIs
    <2> HIDE DEF y
    <2>3. PhaseOf(y) = "busy"
      BY <2>2, PhasesAre DEF Busy
    <2> QED BY <1>2, <1>6, <2>1, <2>3, Unseen
  <1>9. CASE AnswerTo(t, fl, a, k) # "25P02"
    <2>1. /\ AnswerTo(t, fl, a, k) = "error" /\ at \in 1..Len(AllOf(x)) /\ fault[AllOf(x)[at]] # "none"
          /\ Clear(fault, x, w, at)
      BY <1>3, <1>7, <1>9 DEF FailedAt
    <2>2. Stays(t, Ended(x)) /\ Report(t, "failed", at)
      BY <1>1, <2>1
    <2> HIDE DEF at
    <2> QED BY <1>2, <1>6, <2>1, <2>2, FailedSeen
  <1> QED BY <1>8, <1>9

LEMMA RememberSeen ==
    ASSUME SocketInv, AllPlaced, AllCounted, NEW t, Txs = {t}, Remember(t) PROVE Seen(t)
  <1> DEFINE x == tx[t]
             y == RollingBack(x)
  <1>1. AllOf(x)[x.masked] \notin known
    BY RememberCounts
  <1>2. x.pc = "masked" /\ session' = session /\ Stays(t, y) /\ reply' = reply
    BY <1>1, RememberMoves
  <1>3. PhaseOf(y) = "busy" /\ PhaseOf(x) = "busy"
    <2>1. y.pc = "rollback"
      BY InTx, RollingIs
    <2> HIDE DEF y
    <2> QED BY <1>2, <2>1, PhasesAre DEF Busy
  <1> HIDE DEF y
  <1> QED BY <1>2, <1>3, Unseen

LEMMA AgainSeen ==
    ASSUME SocketInv, AllPlaced, AllCounted, NEW t, Txs = {t}, RunAgain(t) PROVE Seen(t)
  <1> DEFINE x == tx[t]
             y == Again(x)
  <1>1. x.runs < x.limit
    BY AgainCounts
  <1>2. x.runs \in Nat /\ x.limit \in Nat
    BY InTx DEF Tx
  <1>3. x.pc = "rollback" /\ session' = [session EXCEPT ![t] = RolledBack(session[t])] /\ Stays(t, y) /\ reply' = reply
    BY <1>1, <1>2, AgainMoves
  <1>4. session'[t].durable = session[t].durable
    <2>1. session[t] \in Session /\ session'[t] = RolledBack(session[t])
      BY <1>3, InvOf DEF SocketInv, TxInv, Kinds
    <2> QED BY <2>1 DEF RolledBack, Session
  <1>5. PhaseOf(y) = "busy" /\ PhaseOf(x) = "busy"
    <2>1. y.pc = "begin"
      BY InTx, AgainIs
    <2> HIDE DEF y
    <2> QED BY <1>3, <2>1, PhasesAre DEF Busy
  <1> HIDE DEF y
  <1> QED BY <1>3, <1>4, <1>5, Unseen

\* Where the connection breaks, what is committed is nothing or all of it.
LEMMA BreakLeaves ==
    ASSUME SocketInv, NEW t \in Txs, ConnectionBreaks(t),
           NEW w, w = Whole(due[t], done[t])
    PROVE  \/ session'[t].durable = <<>>
           \/ /\ session'[t].durable = SubSeq(w, 2, Len(w) - 1) /\ w[Len(w)] = Commit
              /\ \A i \in 1..Len(w) : fault[w[i]] = "none"
  <1>1. CASE tx[t].pc = "fly"
    <2> DEFINE fl == Flight(t)
               a == Sessions(t, fl)
    <2>1. PICK k \in 0..SentOf(fl) : session' = [session EXCEPT ![t] = Closed(a[k])]
      BY <1>1 DEF ConnectionBreaks
    <2>2. session'[t] = Closed(a[k])
      BY <2>1 DEF SocketInv
    <2>3. Reached(fault, a, fl, w, Ran(tx[t]), k)
      BY <1>1, <2>1, FlightIs
    <2> HIDE DEF fl, a
    <2>4. a[k] \in Session /\ (a[k].durable = <<>> \/ Finished(fault, a[k], w))
      BY <2>3 DEF Reached, Good, Spoilt
    <2>5. session'[t].durable = a[k].durable
      BY <2>2, <2>4, ClosedIs
    <2> QED BY <2>4, <2>5 DEF Finished
  <1>2. CASE tx[t].pc # "fly"
    <2>1. session'[t] = Closed(session[t])
      BY <1>2 DEF ConnectionBreaks, SocketInv
    <2>2. session[t] \in Session /\ session[t].durable = <<>>
      BY InvOf DEF ConnectionBreaks, TxInv, Kinds
    <2> QED BY <2>1, <2>2, ClosedIs
  <1> QED BY <1>1, <1>2

LEMMA BreakSeen ==
    ASSUME SocketInv, AllPlaced, NEW t \in Txs, ConnectionBreaks(t) PROVE Seen(t)
  <1> DEFINE x == tx[t]
             w == Whole(due[t], done[t])
             du == due[t]
             dn == done[t]
             y == Ended(x)
             dur == session'[t].durable
             re == reply'[t]
  <1>1. Stays(t, y) /\ x.pc \in Busy
    BY BreakMoves DEF ConnectionBreaks, Busy
  <1>2. re \in {reply[t], ConnectionFailed}
    BY DEF ConnectionBreaks, SocketInv
  <1>3. PhaseOf(y) = "ended" /\ PhaseOf(x) = "busy"
    <2>1. y.pc = "over"
      BY InTx, EndedIs
    <2> HIDE DEF y
    <2> QED BY <1>1, <2>1, PhasesAre
  <1>4. Shows(t, "ended", du, queuedDue[t], dn, dur, re) /\ fault' = fault /\ Phase(t) = "busy"
    <2>1. /\ Shows(t, PhaseOf(y), due[t], queuedDue[t], done[t], session'[t].durable, reply'[t])
          /\ fault' = fault /\ Phase(t) = PhaseOf(tx[t])
      BY <1>1, ShowsOf DEF Stays
    <2> HIDE DEF y
    <2> QED BY <1>3, <2>1
  <1>5. du \in Seq(Sql) /\ dn \in Seq(Sql) /\ dn \in Seq(Stmts) /\ session[t].durable = <<>>
    BY <1>1, InvOf, BusyFacts
  <1>6. \/ dur = <<>>
        \/ /\ dur = SubSeq(w, 2, Len(w) - 1) /\ w[Len(w)] = Commit
           /\ \A i \in 1..Len(w) : fault[w[i]] = "none"
    BY BreakLeaves
  <1>7. CASE dur = <<>>
    <2> HIDE DEF dur, re
    <2> QED BY <1>2, <1>4, <1>5, <1>7, AsBroken
  <1>8. CASE /\ dur = SubSeq(w, 2, Len(w) - 1) /\ w[Len(w)] = Commit
             /\ \A i \in 1..Len(w) : fault[w[i]] = "none"
    <2>1. \A k \in DOMAIN du : fault[du[k]] = "none"
      <3>1. \A i \in 1..Len(Whole(du, dn)) : fault[Whole(du, dn)[i]] = "none"
        BY <1>8
      <3> HIDE DEF du, dn
      <3> QED BY <1>5, <3>1, DueClear
    <2>2. Contract(t)!EndsTransaction(du)
      BY <1>5, <1>8, EndsWhole DEF Contract!EndsTransaction
    <2>3. dur = Contract(t)!Statements(dn \o du)
      <3>1. SubSeq(w, 2, Len(w) - 1) = SubSeq(dn \o du, 1, Len(dn \o du) - 1)
        BY <1>5, <1>8, CommitLeaves
      <3> QED BY <1>8, <3>1 DEF Contract!Statements
    <2> HIDE DEF dur, re
    <2> QED BY <1>2, <1>4, <2>1, <2>2, <2>3, AsBroken
  <1> QED BY <1>6, <1>7, <1>8

LEMMA SeenNext ==
    ASSUME NEW t, Txs = {t}
    PROVE  SocketInv /\ AllPlaced /\ AllCounted /\ [Next]_vars => (\A u \in Txs : Seen(u))
  <1> SUFFICES ASSUME SocketInv, AllPlaced, AllCounted, [Next]_vars PROVE Seen(t)
    OBVIOUS
  <1>1. CASE UNCHANGED vars
    <2>1. fault' = fault /\ UNCHANGED <<tx, session, due, queuedDue, done, reply>>
      BY <1>1 DEF vars
    <2>2. Shows(t, Phase(t), due[t], queuedDue[t], done[t], session[t].durable, reply[t])
      BY <2>1, PhaseNow DEF Shows
    <2> QED BY <2>1, <2>2, AsStutter
  <1>2. ASSUME Driver(t) PROVE Seen(t)
    BY <1>2, BeginSeen, PrepareSeen, AnswersSeen, FailsSeen, RememberSeen, AgainSeen DEF Driver
  <1> QED BY <1>1, <1>2, OpenSeen, ConnectFailsSeen, DropSeen, QueueSeen, SendSeen, BreakSeen, AsPass DEF Next

LEMMA SeenInit == Init => \A t \in Txs : Contract(t)!CInit
  <1> SUFFICES ASSUME Init, NEW t \in Txs PROVE Contract(t)!CInit
    OBVIOUS
  <1>1. /\ fault \in Faults /\ due[t] = <<>> /\ queuedDue[t] = 0 /\ done[t] = <<>>
        /\ session[t] = NewSession /\ reply[t] = NoReply /\ tx[t].pc = "new"
    BY DEF Init, NewTx
  <1>2. Contract(t)!Faults = Faults /\ Contract(t)!NoReply = NoReply
    BY DEF Contract!Faults, Faults, Contract!Sql, Sql, Contract!NoReply, NoReply
  <1>3. Phase(t) = "idle" /\ session[t].durable = <<>>
    BY <1>1 DEF Phase, NewSession
  <1> QED BY <1>1, <1>2, <1>3 DEF Contract!CInit

\* The driver implements the contract of the Tx trait, for its only transaction.
THEOREM SocketImplements ==
    ASSUME NEW only, Txs = {only}
    PROVE  Spec => ImplementsContract
  <1> DEFINE First == \A t \in Txs : Contract(t)!CInit
             Each == \A t \in Txs : Contract(t)!CNext \/ UNCHANGED Contract(t)!cvars
  <1>1. Init => First
    BY SeenInit
  <1>2. SocketInv /\ AllPlaced /\ AllCounted /\ [Next]_vars => [Each]_vars
    BY SeenNext DEF Seen
  <1>3. Spec => []AllCounted
    BY CountedAlways
  <1>4. ImplementsContract <=> First /\ [][Each]_vars
    BY DEF ImplementsContract
  <1> HIDE DEF First, Each
  <1>5. Spec => First /\ [][Each]_vars
    BY <1>1, <1>2, <1>3, AlwaysInv, PlacedAlways, PTL DEF Spec
  <1> QED BY <1>4, <1>5

=============================================================================
