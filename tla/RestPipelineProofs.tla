------------------------- MODULE RestPipelineProofs -------------------------
(***************************************************************************)
(* Proofs about one REST request, for every request, configuration, table  *)
(* and set of functions, and any writes of others; and about the schema    *)
(* cache requests are planned against, for every catalog.                  *)
(*                                                                         *)
(* What a statement does is settled first: the rows of a page, the rows a  *)
(* write touches and the rows it returns.  RestInv then keeps, with the    *)
(* place in process_request, which checks have been passed; a request is   *)
(* only at COMMIT, or answered, past all of them.  CatalogInv follows the  *)
(* relationships through the passes of SchemaCache::load.                  *)
(***************************************************************************)
EXTENDS RestPipeline, SchemaCache, FiniteSetTheorems, WellFoundedInduction, TLAPS

-----------------------------------------------------------------------------
(* The first error *)

LEMMA LessWellFounded == IsWellFoundedOn({ss \in Nat \X Nat : ss[1] < ss[2]}, Nat)
  BY NatLessThanWellFounded DEF OpToRel

\* Every nonempty set of natural numbers has a least element.
LEMMA LeastOf ==
    ASSUME NEW T, T \subseteq Nat, T # {}
    PROVE  \E x \in T : \A y \in T : x <= y
  <1> DEFINE R == {ss \in Nat \X Nat : ss[1] < ss[2]}
  <1>1. IsWellFoundedOn(R, Nat)
    BY LessWellFounded
  <1>2. PICK x \in T : \A y \in T : ~(<<y, x>> \in R)
    <2> HIDE DEF R
    <2> QED BY <1>1, WFMin
  <1>3. \A y \in T : ~(y < x)
    BY <1>2
  <1> QED BY <1>3

\* There is no first error only where there is none.
LEMMA NoError ==
    ASSUME NEW errs, DOMAIN errs \subseteq Nat, FirstError(errs) = "ok"
    PROVE  \A i \in DOMAIN errs : errs[i] = "ok"
  <1> DEFINE at == {i \in DOMAIN errs : errs[i] # "ok"}
  <1> SUFFICES ASSUME at # {} PROVE FALSE
    OBVIOUS
  <1>1. \E i \in at : \A j \in at : i <= j
    BY LeastOf
  <1> DEFINE first == CHOOSE i \in at : \A j \in at : i <= j
  <1>2. first \in at
    BY <1>1
  <1>3. FirstError(errs) = errs[first]
    BY DEF FirstError
  <1> QED BY <1>2, <1>3

LEMMA NoErrorOfTwo ==
    ASSUME NEW a, NEW b, FirstError(<<a, b>>) = "ok"
    PROVE  a = "ok" /\ b = "ok"
  <1> DEFINE errs == <<a, b>>
  <1>1. DOMAIN errs = 1..2 /\ errs[1] = a /\ errs[2] = b
    OBVIOUS
  <1>2. FirstError(errs) = "ok"
    OBVIOUS
  <1> HIDE DEF errs
  <1>3. DOMAIN errs \subseteq Nat
    BY <1>1
  <1>4. \A i \in 1..2 : errs[i] = "ok"
    BY <1>1, <1>2, <1>3, NoError
  <1>5. 1 \in 1..2 /\ 2 \in 1..2
    OBVIOUS
  <1> QED BY <1>1, <1>4, <1>5

LEMMA NoErrorOfThree ==
    ASSUME NEW a, NEW b, NEW c, FirstError(<<a, b, c>>) = "ok"
    PROVE  a = "ok" /\ b = "ok" /\ c = "ok"
  <1> DEFINE errs == <<a, b, c>>
  <1>1. DOMAIN errs = 1..3 /\ errs[1] = a /\ errs[2] = b /\ errs[3] = c
    OBVIOUS
  <1>2. FirstError(errs) = "ok"
    OBVIOUS
  <1> HIDE DEF errs
  <1>3. DOMAIN errs \subseteq Nat
    BY <1>1
  <1>4. \A i \in 1..3 : errs[i] = "ok"
    BY <1>1, <1>2, <1>3, NoError
  <1>5. 1 \in 1..3 /\ 2 \in 1..3 /\ 3 \in 1..3
    OBVIOUS
  <1> QED BY <1>1, <1>4, <1>5

LEMMA NoErrorOfSix ==
    ASSUME NEW a, NEW b, NEW c, NEW d, NEW e, NEW f, FirstError(<<a, b, c, d, e, f>>) = "ok"
    PROVE  a = "ok" /\ b = "ok" /\ c = "ok" /\ d = "ok" /\ e = "ok" /\ f = "ok"
  <1> DEFINE errs == <<a, b, c, d, e, f>>
  <1>1. DOMAIN errs = 1..6 /\ errs[1] = a /\ errs[2] = b /\ errs[3] = c /\ errs[4] = d /\ errs[5] = e /\ errs[6] = f
    OBVIOUS
  <1>2. FirstError(errs) = "ok"
    OBVIOUS
  <1> HIDE DEF errs
  <1>3. DOMAIN errs \subseteq Nat
    BY <1>1
  <1>4. \A i \in 1..6 : errs[i] = "ok"
    BY <1>1, <1>2, <1>3, NoError
  <1>5. 1 \in 1..6 /\ 2 \in 1..6 /\ 3 \in 1..6 /\ 4 \in 1..6 /\ 5 \in 1..6 /\ 6 \in 1..6
    OBVIOUS
  <1> QED BY <1>1, <1>4, <1>5

-----------------------------------------------------------------------------
(* Pages *)

\* Ranks count the rows from 1, in the order of their keys.
LEMMA Ranks ==
    ASSUME NEW S, S \subseteq Nat, IsFiniteSet(S)
    PROVE  /\ Cardinality(S) \in Nat
           /\ \A k \in S : Rank(k, S) \in 1..Cardinality(S)
           /\ \A j, k \in S : Rank(j, S) = Rank(k, S) => j = k
           /\ \A n \in 1..Cardinality(S) : \E k \in S : Rank(k, S) = n
  <1> DEFINE Low(k) == {j \in S : j <= k}
  <1>0. Cardinality(S) \in Nat
    BY FS_CardinalityType
  <1>1. \A k : IsFiniteSet(Low(k)) /\ Cardinality(Low(k)) \in Nat /\ Cardinality(Low(k)) <= Cardinality(S)
    <2> TAKE k
    <2>1. Low(k) \in SUBSET S
      OBVIOUS
    <2> HIDE DEF Low
    <2> QED BY <2>1, FS_Subset, FS_CardinalityType
  <1>2. \A k \in S : Cardinality(Low(k)) # 0
    <2> TAKE k \in S
    <2>1. k \in Low(k)
      OBVIOUS
    <2> HIDE DEF Low
    <2> QED BY <1>1, <2>1, FS_EmptySet
  <1>3. \A j, k \in S : j < k => Cardinality(Low(j)) # Cardinality(Low(k))
    <2> SUFFICES ASSUME NEW j \in S, NEW k \in S, j < k, Cardinality(Low(k)) = Cardinality(Low(j))
                 PROVE  FALSE
      OBVIOUS
    <2>0. j \in Nat /\ k \in Nat /\ \A x \in S : x \in Nat
      OBVIOUS
    <2>1. Low(j) \in SUBSET Low(k) /\ k \in Low(k) /\ k \notin Low(j)
      <3>1. ASSUME NEW x \in S, x <= j PROVE x <= k
        <4>1. x \in Nat
          BY <2>0
        <4> QED BY <2>0, <3>1, <4>1
      <3>2. k <= k /\ ~(k <= j)
        BY <2>0
      <3> QED BY <3>1, <3>2
    <2> HIDE DEF Low
    <2> QED BY <1>1, <2>1, FS_Subset
  <1>4. \A k : Rank(k, S) = Cardinality(Low(k))
    BY DEF Rank
  <1> HIDE DEF Low
  <1>5. \A k \in S : Rank(k, S) \in 1..Cardinality(S)
    BY <1>0, <1>1, <1>2, <1>4
  <1>6. \A j, k \in S : Rank(j, S) = Rank(k, S) => j = k
    BY <1>3, <1>4
  <1> DEFINE f == [k \in S |-> Rank(k, S)]
             T == 1..Cardinality(S)
  <1>7. f \in Injection(S, T)
    BY <1>5, <1>6 DEF Injection, IsInjective
  <1>8. IsFiniteSet(T) /\ Cardinality(T) = Cardinality(S)
    BY <1>0, FS_Interval
  <1>9. f \in Surjection(S, T)
    <2> HIDE DEF f, T
    <2> QED BY <1>7, <1>8, FS_Injection
  <1>10. \A n \in T : \E k \in S : Rank(k, S) = n
    BY <1>9 DEF Surjection
  <1> QED BY <1>0, <1>5, <1>6, <1>10

\* How many rows a page has.
LEMMA PageCount ==
    ASSUME NEW S, S \subseteq Nat, IsFiniteSet(S), NEW r, r.offset \in Int, r.limit \in Nat \cup {None}
    PROVE  LET left == IF Skipped(r) > Cardinality(S) THEN 0 ELSE Cardinality(S) - Skipped(r)
           IN Cardinality(Page(S, r)) = IF r.limit = None \/ r.limit > left THEN left ELSE r.limit
  <1>0. PICK n, off, lim : n = Cardinality(S) /\ off = Skipped(r) /\ lim = r.limit
    OBVIOUS
  <1>1. n \in Nat /\ off \in Nat /\ lim \in Nat \cup {None}
    <2>1. PICK o \in Int : o = r.offset
      OBVIOUS
    <2>2. off = IF o > 0 THEN o ELSE 0
      BY <1>0, <2>1 DEF Skipped
    <2>3. off \in Nat
      BY <2>1, <2>2
    <2> QED BY <1>0, <2>3, Ranks
  <1>2. PICK top : top = IF lim = None \/ off + lim > n THEN n ELSE off + lim
    OBVIOUS
  <1>3. top \in Nat /\ top <= n
    BY <1>1, <1>2 DEF None
  <1>4. PICK P : P = Page(S, r)
    OBVIOUS
  <1>5. \A k : k \in P <=> k \in S /\ Rank(k, S) \in (off + 1)..top
    <2>0. \A k \in S : Rank(k, S) \in 1..n
      BY <1>0, Ranks
    <2>1. \A k \in S : Rank(k, S) \in Nat /\ Rank(k, S) <= n
      BY <1>1, <2>0
    <2>2. \A k : k \in P <=> k \in S /\ Rank(k, S) > off /\ (lim = None \/ Rank(k, S) <= off + lim)
      BY <1>0, <1>4 DEF Page
    <2>3. \A m \in Nat : m <= n => ((m > off /\ (lim = None \/ m <= off + lim)) <=> m \in (off + 1)..top)
      BY <1>1, <1>2, <1>3 DEF None
    <2> QED BY <2>1, <2>2, <2>3
  <1> DEFINE T == (off + 1)..top
             f == [k \in P |-> Rank(k, S)]
  <1>6. f \in Bijection(P, T)
    <2>1. f \in [P -> T]
      BY <1>5
    <2>2. \A j, k \in P : f[j] = f[k] => j = k
      <3>1. \A j, k \in S : Rank(j, S) = Rank(k, S) => j = k
        BY <1>0, Ranks
      <3>2. \A k \in P : k \in S /\ f[k] = Rank(k, S)
        BY <1>5
      <3> HIDE DEF f
      <3> QED BY <3>1, <3>2
    <2>3. \A m \in T : \E k \in P : f[k] = m
      <3> SUFFICES ASSUME NEW m \in T PROVE \E k \in P : f[k] = m
        OBVIOUS
      <3>1. m \in 1..n
        BY <1>1, <1>3
      <3>2. PICK k \in S : Rank(k, S) = m
        BY <1>0, <3>1, Ranks
      <3> QED BY <1>5, <3>2
    <2> QED BY <2>1, <2>2, <2>3 DEF Bijection, Injection, IsInjective, Surjection
  <1>7. IsFiniteSet(P)
    <2>1. P \in SUBSET S
      BY <1>5
    <2> QED BY <2>1, FS_Subset
  <1>8. Cardinality(T) = Cardinality(P)
    <2>1. ExistsBijection(P, T)
      BY <1>6 DEF ExistsBijection
    <2> HIDE DEF T, f
    <2> QED BY <1>7, <2>1, FS_Bijection
  <1>9. Cardinality(T) = IF off + 1 > top THEN 0 ELSE top - off
    BY <1>1, <1>3, FS_Interval
  <1>10. Cardinality(P) = LET left == IF off > n THEN 0 ELSE n - off
                          IN IF lim = None \/ lim > left THEN left ELSE lim
    <2> HIDE DEF T
    <2> QED BY <1>1, <1>2, <1>3, <1>8, <1>9 DEF None
  <1> QED BY <1>0, <1>4, <1>10

\* A page without bounds is all there is.
LEMMA PageOfAll ==
    ASSUME NEW S, S \subseteq Nat, IsFiniteSet(S)
    PROVE  Page(S, Unpaged) = S
  <1>0. PICK n \in Nat : n = Cardinality(S)
    BY Ranks
  <1>1. \A k \in S : Rank(k, S) \in 1..n
    BY <1>0, Ranks
  <1>2. \A k \in S : Rank(k, S) > 0
    BY <1>1
  <1> QED BY <1>2 DEF Page, Skipped, Unpaged

-----------------------------------------------------------------------------
(* What planning has settled *)

\* The role the statements run under.
Caller == IF h.token = "good" THEN "user" ELSE "anon"

\* What an action's kind says of the method.
LEMMA ActionIs ==
    ASSUME NEW m, NEW r, ParseAction(m, r).err = "ok"
    PROVE  LET a == ParseAction(m, r) IN
           /\ a.kind \in {"info", "read", "mut", "call", "callread"}
           /\ a.kind \in {"read", "callread"} => m \in {"GET", "HEAD"}
           /\ a.kind \in {"mut", "call"} => m \notin {"GET", "HEAD"}
           /\ a.kind = "mut" /\ m = "PATCH" => a.mutation = "update"
           /\ a.kind = "mut" /\ m = "DELETE" => a.mutation = "delete"
           /\ a.kind = "mut" /\ m = "PUT" => a.mutation = "upsert"
           /\ a.kind = "mut" => a.mutation \in {"create", "update", "upsert", "delete"}
           /\ a.kind = "call" => m = "POST"
           /\ a.kind = "info" => m # "PUT"
  BY DEF ParseAction, Mutations

\* A request past planning: what it is, and that its window can be read.
LEMMA PlannedIs ==
    ASSUME h \in Request, RequestError = "ok"
    PROVE  /\ ParseError(h) = "ok" /\ PlanError(h, act) = "ok" /\ act.err = "ok"
           /\ LimitError(h) = "ok" /\ ParseRange(h.range).err = "ok"
  <1>1. ParseError(h) = "ok" /\ PlanError(h, act) = "ok"
    <2>1. PICK a, b, c, d, e, f :
             /\ a = ParseError(h) /\ b = BodyError(h, act) /\ c = (IF RequestedPlan(h) THEN "InvalidMediaType" ELSE "ok")
             /\ d = RelationshipError(h) /\ e = AggregateError(h, cfg.aggregates) /\ f = PlanError(h, act)
      OBVIOUS
    <2>2. FirstError(<<a, b, c, d, e, f>>) = "ok"
      BY <2>1, Zenon DEF RequestError
    <2> QED BY <2>1, <2>2, NoErrorOfSix
  <1>2. act.err = "ok" /\ LimitError(h) = "ok" /\ ParseRange(h.range).err = "ok"
    <2>1. PICK a, b, c, d, e, f :
             /\ a = ParseResource(h.path).err /\ b = SchemaError(h) /\ c = act.err
             /\ d = LimitError(h) /\ e = PreferError(h.prefer) /\ f = ParseRange(h.range).err
      OBVIOUS
    <2>2. FirstError(<<a, b, c, d, e, f>>) = "ok"
      BY <1>1, <2>1, Zenon DEF ParseError, act
    <2> QED BY <2>1, <2>2, NoErrorOfSix
  <1> QED BY <1>1, <1>2

LEMMA KindIs ==
    ASSUME h \in Request, RequestError = "ok", act.kind # "info"
    PROVE  /\ act.kind \in {"read", "mut", "call", "callread"}
           /\ readOnly <=> h.method \in {"GET", "HEAD"}
           /\ h.method = "PATCH" => act.kind = "mut" /\ act.mutation = "update"
           /\ h.method = "DELETE" => act.kind = "mut" /\ act.mutation = "delete"
           /\ h.method = "PUT" => act.kind = "mut" /\ act.mutation = "upsert"
           /\ act.kind = "mut" => act.mutation \in {"create", "update", "upsert", "delete"}
  <1>0. PICK m, r : m = h.method /\ r = ParseResource(h.path)
    OBVIOUS
  <1>1. act = ParseAction(m, r) /\ act.err = "ok"
    BY <1>0, PlannedIs DEF act, ActionOf
  <1>2. ParseAction(m, r).err = "ok"
    BY <1>1
  <1>3. PICK a : a = ParseAction(m, r)
    OBVIOUS
  <1>4. /\ a.kind \in {"info", "read", "mut", "call", "callread"}
        /\ a.kind \in {"read", "callread"} => m \in {"GET", "HEAD"}
        /\ a.kind \in {"mut", "call"} => m \notin {"GET", "HEAD"}
        /\ a.kind = "mut" /\ m = "PATCH" => a.mutation = "update"
        /\ a.kind = "mut" /\ m = "DELETE" => a.mutation = "delete"
        /\ a.kind = "mut" /\ m = "PUT" => a.mutation = "upsert"
        /\ a.kind = "mut" => a.mutation \in {"create", "update", "upsert", "delete"}
        /\ a.kind = "call" => m = "POST"
    BY <1>2, <1>3, ActionIs
  <1>5. act = a /\ readOnly = (a.kind \in {"read", "callread", "info"})
    BY <1>1, <1>3 DEF readOnly, IsReadOnly
  <1> QED BY <1>0, <1>4, <1>5

LEMMA PutKind ==
    ASSUME h \in Request, RequestError = "ok", h.method = "PUT"
    PROVE  act.kind = "mut" /\ act.mutation = "upsert"
  <1>0. PICK m, r, a : m = h.method /\ r = ParseResource(h.path) /\ a = ParseAction(m, r)
    OBVIOUS
  <1>1. act = a /\ a.err = "ok"
    BY <1>0, PlannedIs DEF act, ActionOf
  <1>2. ParseAction(m, r).err = "ok"
    BY <1>0, <1>1
  <1>3. a.kind = "info" => m # "PUT"
    BY <1>0, <1>2, ActionIs
  <1> QED BY <1>0, <1>1, <1>3, KindIs

\* The page a planned request asks for.
LEMMA RangeIs ==
    ASSUME h \in Request, cfg \in Config, RequestError = "ok"
    PROVE  PageRange.offset \in Int /\ PageRange.limit \in Nat \cup {None}
  <1>1. h.limit \in Nat \cup {None}
    <2>1. LimitError(h) = "ok" /\ h.limit \in Int
      BY PlannedIs DEF Request
    <2> QED BY <2>1 DEF LimitError, None
  <1>2. PICK b : b = ParseRange(h.range)
    OBVIOUS
  <1>3. b.offset \in Nat /\ b.limit \in Nat \cup {None}
    <2>0. PICK r \in Seq(Nat) : r = h.range
      BY DEF Request
    <2>1. b = ParseRange(r) /\ b.err = "ok" /\ Len(r) \in Nat
      BY <1>2, <2>0, PlannedIs
    <2>2. \A i \in 1..Len(r) : r[i] \in Nat
      OBVIOUS
    <2>3. PICK n \in Nat : n = Len(r)
      BY <2>1
    <2>4. PICK x, y : x = r[1] /\ y = r[2]
      OBVIOUS
    <2>5. (n > 0 => x \in Nat) /\ (n > 1 => y \in Nat)
      <3>1. (n > 0 => 1 \in 1..n) /\ (n > 1 => 2 \in 1..n)
        BY <2>3
      <3> QED BY <2>2, <2>3, <2>4, <3>1
    <2>6. b = IF n > 1 /\ y < x THEN [offset |-> 0, limit |-> None, err |-> "InvalidRange"]
              ELSE [offset |-> IF n = 0 THEN 0 ELSE x, limit |-> IF n > 1 THEN y - x + 1 ELSE None, err |-> "ok"]
      BY <2>1, <2>3, <2>4 DEF ParseRange
    <2>7. ~(n > 1 /\ y < x) /\ b.offset = (IF n = 0 THEN 0 ELSE x) /\ b.limit = (IF n > 1 THEN y - x + 1 ELSE None)
      <3>1. CASE n > 1 /\ y < x
        <4>1. b = [offset |-> 0, limit |-> None, err |-> "InvalidRange"]
          BY <2>6, <3>1
        <4> QED BY <2>1, <4>1
      <3>2. CASE ~(n > 1 /\ y < x)
        <4>1. PICK o, l : o = (IF n = 0 THEN 0 ELSE x) /\ l = (IF n > 1 THEN y - x + 1 ELSE None)
          OBVIOUS
        <4>2. b = [offset |-> o, limit |-> l, err |-> "ok"]
          BY <2>6, <3>2, <4>1
        <4> QED BY <3>2, <4>1, <4>2
      <3> QED BY <3>1, <3>2
    <2>8. b.offset \in Nat
      BY <2>3, <2>5, <2>7
    <2>9. CASE n > 1
      <3>1. x \in Nat /\ y \in Nat /\ ~(y < x)
        BY <2>3, <2>5, <2>7, <2>9
      <3> QED BY <2>7, <2>8, <2>9, <3>1
    <2> QED BY <2>7, <2>8, <2>9
  <1>4. cfg.maxRows \in Nat \cup {None} /\ h.offset \in Int
    BY DEF Config, Request
  <1> QED BY <1>1, <1>2, <1>3, <1>4 DEF PageRange, TopLevelRange

-----------------------------------------------------------------------------
(* What a statement does *)

\* A statement's result: rows of the table, those it created and those it wrote.
Results == [table : Table, rows : SUBSET Keys, created : SUBSET Keys, touched : SUBSET Keys, err : {"ok"}]

LEMMA FiltersAre ==
    ASSUME h \in Request
    PROVE  FiltersOf(h) \subseteq Filter
  BY DEF FiltersOf, Request

\* The filters of a planned PUT accept one key at most.
LEMMA PutNames ==
    ASSUME h \in Request, RequestError = "ok", IsUpsert(act)
    PROVE  \E k \in Keys : \A j : Satisfies(j, FiltersOf(h)) => j = k
  <1>1. PlanError(h, act) = "ok"
    BY PlannedIs
  <1>2. ValidatePut(h, Tables[act.name]) = "ok"
    BY <1>1 DEF PlanError
  <1>3. /\ \A f \in FiltersOf(h) : f.op = "eq" /\ ~f.tree
        /\ {f.field : f \in FiltersOf(h)} = {"id"}
    BY <1>2 DEF ValidatePut
  <1>4. PICK f \in FiltersOf(h) : f.field = "id"
    BY <1>3
  <1>5. PICK k \in Keys : f.keys \subseteq {k}
    BY <1>3, <1>4, FiltersAre DEF Filter
  <1>6. \A j : Satisfies(j, FiltersOf(h)) => j = k
    BY <1>4, <1>5 DEF Satisfies
  <1> QED BY <1>6

\* A page and the embeds only take rows away.
LEMMA PageWithin ==
    ASSUME NEW a, NEW S, NEW r
    PROVE  PageThenTrim(h, a, S, r) \subseteq S
  BY DEF PageThenTrim, Page

\* Without a window and without a test of an embed they take none.
LEMMA PageWhole ==
    ASSUME NEW a, NEW S, S \subseteq Nat, IsFiniteSet(S), EmbedPredicates(h) = {}, a.kind # "read"
    PROVE  PageThenTrim(h, a, S, Unpaged) = S
  <1>1. Page(S, Unpaged) = S
    BY PageOfAll
  <1> QED BY <1>1 DEF PageThenTrim, Survives

LEMMA InsertIs ==
    ASSUME h \in Request, NEW a, NEW t \in Table, Insert(h, a, t).err = "ok"
    PROVE  LET r == Insert(h, a, t) IN
           /\ r \in Results /\ r.rows = r.touched
           /\ IsUpsert(a) /\ h.body.cols # {} => \A k \in r.touched : Satisfies(k, FiltersOf(h))
  <1> DEFINE named == {InsertedKey(h, i) : i \in InsertedRows(h, a)}
             twice == \E i, j \in InsertedRows(h, a) : i # j /\ InsertedKey(h, i) = InsertedKey(h, j)
             fresh == IF Tables[a.name].pk THEN named \ Present(t) ELSE named
             wrote == IF Resolution(h, a) = "merge" THEN named ELSE fresh
             error1 == IF IsUpsert(a) /\ h.body.cols # {} /\ "id" \notin h.body.cols THEN "42703" ELSE "ok"
             error2 == IF Resolution(h, a) = "none" /\ Tables[a.name].pk /\ (twice \/ fresh # named) THEN "23505" ELSE "ok"
             error3 == IF Resolution(h, a) = "merge" /\ twice THEN "21000" ELSE "ok"
             table == [k \in Keys |-> IF k \in wrote THEN "new" ELSE t[k]]
  <1>1. named \subseteq Keys
    <2> SUFFICES ASSUME NEW i \in InsertedRows(h, a) PROVE InsertedKey(h, i) \in Keys
      OBVIOUS
    <2>1. CASE "id" \in h.body.cols
      <3>1. h.body.ids \in Seq(Keys)
        BY DEF Request, Body
      <3>2. i \in DOMAIN h.body.ids
        BY <2>1 DEF InsertedRows
      <3> QED BY <2>1, <3>1, <3>2 DEF InsertedKey
    <2>2. CASE "id" \notin h.body.cols
      BY <2>2, KeysAssumption DEF InsertedKey
    <2> QED BY <2>1, <2>2
  <1>2. Insert(h, a, t) = IF FirstError(<<error1, error2, error3>>) # "ok"
                          THEN Failed(t, FirstError(<<error1, error2, error3>>))
                          ELSE Result(table, wrote, fresh, wrote)
    BY Zenon DEF Insert
  <1>3. PICK e : e = FirstError(<<error1, error2, error3>>)
    OBVIOUS
  <1> HIDE DEF named, twice, fresh, wrote, error1, error2, error3, table
  <1>4. e = "ok" /\ Insert(h, a, t) = Result(table, wrote, fresh, wrote)
    <2>1. Failed(t, e).err = e
      BY DEF Failed, Result
    <2> QED BY <1>2, <1>3, <2>1
  <1>5. error1 = "ok"
    <2>1. FirstError(<<error1, error2, error3>>) = "ok"
      BY <1>3, <1>4
    <2> QED BY <2>1, NoErrorOfThree
  <1>6. fresh \subseteq Keys /\ wrote \subseteq Keys /\ wrote \subseteq named
    BY <1>1 DEF fresh, wrote
  <1>7. table \in Table
    BY DEF table, Table, Version
  <1>8. IsUpsert(a) /\ h.body.cols # {} => \A k \in named : Satisfies(k, FiltersOf(h))
    <2> SUFFICES ASSUME IsUpsert(a), h.body.cols # {} PROVE \A k \in named : Satisfies(k, FiltersOf(h))
      OBVIOUS
    <2>1. "id" \in h.body.cols
      BY <1>5 DEF error1
    <2>2. InsertedRows(h, a) = {i \in DOMAIN h.body.ids : Satisfies(h.body.ids[i], FiltersOf(h))}
      BY <2>1 DEF InsertedRows
    <2>3. \A i \in InsertedRows(h, a) : InsertedKey(h, i) = h.body.ids[i]
      BY <2>1 DEF InsertedKey
    <2> QED BY <2>2, <2>3 DEF named
  <1> QED BY <1>4, <1>6, <1>7, <1>8 DEF Result, Results

\* An update writes rows every filter accepts, and so does a delete.
LEMMA UpdateIs ==
    ASSUME NEW a, IsMutation(a), NEW t \in Table, Update(h, a, t).err = "ok"
    PROVE  LET r == Update(h, a, t) IN
           /\ r \in Results /\ r.rows = r.touched
           /\ \A k \in r.touched : Satisfies(k, FiltersOf(h))
  <1> DEFINE hit == IF h.body.cols = {} THEN {} ELSE Matching(h, a, t)
             table == [k \in Keys |-> IF k \in hit THEN "new" ELSE t[k]]
  <1>1. hit \subseteq Keys /\ \A k \in hit : Satisfies(k, FiltersOf(h))
    BY DEF Matching, Present, WhereClauses, Satisfies
  <1>2. table \in Table
    BY DEF Table, Version
  <1>3. Update(h, a, t) = IF h.body.cols # {} /\ WhereError(h, a) # "ok" THEN Failed(t, WhereError(h, a))
                          ELSE Result(table, hit, {}, hit)
    BY Zenon DEF Update
  <1> HIDE DEF hit, table
  <1>4. Failed(t, WhereError(h, a)).err = WhereError(h, a)
    BY DEF Failed, Result
  <1>5. Update(h, a, t) = Result(table, hit, {}, hit)
    BY <1>3, <1>4
  <1> QED BY <1>1, <1>2, <1>5 DEF Result, Results

LEMMA DeleteIs ==
    ASSUME NEW a, IsMutation(a), NEW t \in Table, Delete(h, a, t).err = "ok"
    PROVE  LET r == Delete(h, a, t) IN
           /\ r \in Results /\ r.rows = r.touched
           /\ \A k \in r.touched : Satisfies(k, FiltersOf(h))
  <1> DEFINE hit == Matching(h, a, t)
             table == [k \in Keys |-> IF k \in hit THEN "absent" ELSE t[k]]
  <1>1. hit \subseteq Keys /\ \A k \in hit : Satisfies(k, FiltersOf(h))
    BY DEF Matching, Present, WhereClauses, Satisfies
  <1>2. table \in Table
    BY DEF Table, Version
  <1>3. Delete(h, a, t) = IF WhereError(h, a) # "ok" THEN Failed(t, WhereError(h, a))
                          ELSE Result(table, hit, {}, hit)
    BY Zenon DEF Delete
  <1> HIDE DEF hit, table
  <1>4. Failed(t, WhereError(h, a)).err = WhereError(h, a)
    BY DEF Failed, Result
  <1>5. Delete(h, a, t) = Result(table, hit, {}, hit)
    BY <1>3, <1>4
  <1> QED BY <1>1, <1>2, <1>5 DEF Result, Results

\* What a mutation returns are rows it wrote: all of them, where nothing was
\* read back or what was read back has no page and no embed to trim it.
WritesAllowed(a, r, touched, rows) ==
  /\ rows \subseteq touched
  /\ ~NeedsBody(h) \/ (r = Unpaged /\ EmbedPredicates(h) = {}) => rows = touched
  /\ a.mutation \in {"update", "delete"} => \A k \in touched : Satisfies(k, FiltersOf(h))
  /\ IsUpsert(a) /\ h.body.cols # {} => \A k \in touched : Satisfies(k, FiltersOf(h))

LEMMA MutateIs ==
    ASSUME h \in Request, NEW a, IsMutation(a), a.mutation \in {"create", "update", "upsert", "delete"},
           NEW t \in Table, NEW r, Mutate(h, a, t, r).err = "ok"
    PROVE  LET m == Mutate(h, a, t, r) IN m \in Results /\ WritesAllowed(a, r, m.touched, m.rows)
  <1>1. PICK done : done = CASE a.mutation \in {"create", "upsert"} -> Insert(h, a, t)
                             [] a.mutation = "update" -> Update(h, a, t)
                             [] a.mutation = "delete" -> Delete(h, a, t)
    OBVIOUS
  <1>2. Mutate(h, a, t, r) = IF ~NeedsBody(h) /\ (Embeds(h) \/ MediaHandler(h, a)) THEN Failed(t, "42601")
                             ELSE IF NeedsBody(h) THEN [done EXCEPT !.rows = PageThenTrim(h, a, done.rows, r)] ELSE done
    BY <1>1, Zenon DEF Mutate
  <1>3. Failed(t, "42601").err = "42601"
    BY DEF Failed, Result
  <1>4. PICK S : S = PageThenTrim(h, a, done.rows, r)
    OBVIOUS
  <1>5. Mutate(h, a, t, r) = IF NeedsBody(h) THEN [done EXCEPT !.rows = S] ELSE done
    BY <1>2, <1>3, <1>4
  <1>6. done \in {Insert(h, a, t), Update(h, a, t), Delete(h, a, t)}
        /\ (a.mutation \in {"create", "upsert"} => done = Insert(h, a, t))
        /\ (a.mutation = "update" => done = Update(h, a, t))
        /\ (a.mutation = "delete" => done = Delete(h, a, t))
    BY <1>1
  <1>7. DOMAIN done = {"table", "rows", "created", "touched", "err"}
    BY <1>6 DEF Insert, Update, Delete, Failed, Result
  <1>8. done.err = "ok"
    BY <1>5, <1>7
  <1>9. /\ done \in Results /\ done.rows = done.touched
        /\ a.mutation \in {"update", "delete"} => \A k \in done.touched : Satisfies(k, FiltersOf(h))
        /\ IsUpsert(a) /\ h.body.cols # {} => \A k \in done.touched : Satisfies(k, FiltersOf(h))
    <2>1. CASE a.mutation \in {"create", "upsert"}
      BY <1>6, <1>8, <2>1, InsertIs
    <2>2. CASE a.mutation = "update"
      BY <1>6, <1>8, <2>2, UpdateIs DEF IsUpsert
    <2>3. CASE a.mutation = "delete"
      BY <1>6, <1>8, <2>3, DeleteIs DEF IsUpsert
    <2> QED BY <2>1, <2>2, <2>3
  <1>10. CASE ~NeedsBody(h)
    BY <1>5, <1>9, <1>10 DEF WritesAllowed
  <1>11. CASE NeedsBody(h)
    <2>1. S \subseteq done.rows
      BY <1>4, PageWithin
    <2>2. r = Unpaged /\ EmbedPredicates(h) = {} => S = done.rows
      <3> SUFFICES ASSUME r = Unpaged, EmbedPredicates(h) = {} PROVE S = done.rows
        OBVIOUS
      <3>1. done.rows \subseteq Keys
        BY <1>9 DEF Results
      <3>2. done.rows \subseteq Nat /\ IsFiniteSet(done.rows)
        BY <3>1, KeysAssumption, FS_Subset
      <3>3. a.kind # "read"
        BY DEF IsMutation
      <3> QED BY <1>4, <3>2, <3>3, PageWhole
    <2>3. PICK m : m = [done EXCEPT !.rows = S]
      OBVIOUS
    <2>4. m \in Results /\ m.touched = done.touched /\ m.rows = S
      BY <1>9, <2>1, <2>3 DEF Results
    <2> QED BY <1>5, <1>9, <1>11, <2>1, <2>2, <2>3, <2>4 DEF WritesAllowed
  <1> QED BY <1>10, <1>11

\* A call writes what its function writes, and nothing in a read-only transaction.
LEMMA CallIs ==
    ASSUME NEW a, a.name \in DOMAIN Routines, NEW t \in Table, NEW r, NEW ro \in BOOLEAN, Call(h, a, t, r, ro).err = "ok"
    PROVE  LET c == Call(h, a, t, r, ro) IN c \in Results /\ (ro => c.touched = {})
  <1>0. PICK f : f = Routines[a.name]
    OBVIOUS
  <1> DEFINE table == [k \in Keys |-> IF k \in f.writes THEN "new" ELSE t[k]]
             error1 == IF ro /\ f.writes # {} THEN "25006" ELSE "ok"
             error2 == IF f.rows THEN WhereError(h, a) ELSE "ok"
             rows == IF f.rows THEN PageThenTrim(h, a, Matching(h, a, table), r) ELSE {DefaultKey}
  <1>1. f.writes \subseteq Keys
    BY <1>0, KeysAssumption
  <1>2. table \in Table
    BY DEF Table, Version
  <1>3. rows \subseteq Keys
    <2>1. Matching(h, a, table) \subseteq Keys
      BY DEF Matching, Present
    <2>2. PageThenTrim(h, a, Matching(h, a, table), r) \subseteq Matching(h, a, table)
      BY PageWithin
    <2> QED BY <2>1, <2>2, KeysAssumption
  <1>4. Call(h, a, t, r, ro) = IF FirstError(<<error1, error2>>) # "ok" THEN Failed(t, FirstError(<<error1, error2>>))
                               ELSE Result(table, rows, {}, f.writes)
    BY <1>0, Zenon DEF Call
  <1>5. PICK e : e = FirstError(<<error1, error2>>)
    OBVIOUS
  <1> HIDE DEF table, error1, error2, rows
  <1>6. Failed(t, e).err = e
    BY DEF Failed, Result
  <1>7. e = "ok" /\ Call(h, a, t, r, ro) = Result(table, rows, {}, f.writes)
    BY <1>4, <1>5, <1>6
  <1>8. error1 = "ok"
    <2>1. FirstError(<<error1, error2>>) = "ok"
      BY <1>5, <1>7
    <2> QED BY <2>1, NoErrorOfTwo
  <1>9. ro => f.writes = {}
    BY <1>8 DEF error1
  <1> QED BY <1>1, <1>2, <1>3, <1>7, <1>9 DEF Result, Results

\* A read writes nothing, and returns its page.
LEMMA ReadIs ==
    ASSUME NEW a, a.kind = "read", NEW t \in Table, NEW r, NEW ro, Execute(h, a, t, r, ro).err = "ok"
    PROVE  LET c == Execute(h, a, t, r, ro) IN
           /\ c \in Results /\ c.touched = {} /\ WhereError(h, a) = "ok"
           /\ c.rows = PageThenTrim(h, a, Matching(h, a, t), r)
  <1>1. PICK S : S = PageThenTrim(h, a, Matching(h, a, t), r)
    OBVIOUS
  <1>2. S \subseteq Keys
    <2>1. Matching(h, a, t) \subseteq Keys
      BY DEF Matching, Present
    <2> QED BY <1>1, <2>1, PageWithin
  <1>3. Execute(h, a, t, r, ro) = IF WhereError(h, a) # "ok" THEN Failed(t, WhereError(h, a)) ELSE Result(t, S, {}, {})
    BY <1>1 DEF Execute, IsMutation, IsCall
  <1>4. Failed(t, WhereError(h, a)).err = WhereError(h, a)
    BY DEF Failed, Result
  <1>5. WhereError(h, a) = "ok" /\ Execute(h, a, t, r, ro) = Result(t, S, {}, {})
    BY <1>3, <1>4
  <1> QED BY <1>1, <1>2, <1>5 DEF Result, Results

\* The settings are queued before the pre-request function and before the query,
\* and so is READ ONLY where the action only reads.
LEMMA QuerySession ==
    /\ Session("query").role = role /\ Session("query").ro = readOnly
    /\ Session("prerequest").role = role /\ Session("prerequest").ro = readOnly
  <1>1. /\ At("isolation") = 1 /\ At("readonly") = 2 /\ At("settings") = 3
        /\ At("prerequest") = 4 /\ At("query") = 5
    BY DEF At, Order
  <1>2. \A s \in {"query", "prerequest"} : "settings" \in Before(s) /\ ("readonly" \in Before(s) <=> readOnly)
    BY <1>1 DEF Before, Queued, Order
  <1>3. readOnly \in BOOLEAN
    BY DEF readOnly, IsReadOnly
  <1> QED BY <1>2, <1>3 DEF Session

\* The rows a read is about: those present that the filters of the table and
\* the joins accept.
Kept(t) == {k \in Present(t) : (\A f \in FiltersOf(h) : NamesEmbed(f) \/ k \in f.keys) /\ Survives(k, h)}

LEMMA KeptIs ==
    ASSUME NEW t
    PROVE  Kept(t) \subseteq Nat /\ IsFiniteSet(Kept(t))
  <1>1. Kept(t) \subseteq Keys
    BY DEF Kept, Present
  <1> QED BY <1>1, KeysAssumption, FS_Subset

\* A read's page is a page of them, where none of its filters tests an embed
\* after the page was cut.
LEMMA ReadPage ==
    ASSUME NEW a, a.kind = "read", WhereError(h, a) = "ok", NEW t, NEW r,
           r = Unpaged \/ \A f \in FiltersOf(h) : ~NamesEmbed(f)
    PROVE  PageThenTrim(h, a, Matching(h, a, t), r) = Page(Kept(t), r)
  <1> DEFINE M == Matching(h, a, t)
             trim(T) == {k \in T : Survives(k, h)}
  <1>1. \A k : k \in M <=> k \in Present(t) /\ \A f \in FiltersOf(h) : NamesEmbed(f) \/ k \in f.keys
    <2>1. CASE Embeds(h)
      BY <2>1 DEF Matching, WhereClauses, Satisfies, IsMutation
    <2>2. CASE ~Embeds(h)
      <3>1. WhereClauses(h, a) = FiltersOf(h)
        BY <2>2 DEF WhereClauses
      <3>2. \A f \in FiltersOf(h) : ~NamesEmbed(f)
        BY <3>1 DEF WhereError
      <3> QED BY <3>1, <3>2 DEF Matching, Satisfies
    <2> QED BY <2>1, <2>2
  <1>2. trim(M) = Kept(t)
    BY <1>1 DEF Kept
  <1>3. M \subseteq Nat /\ IsFiniteSet(M)
    <2>1. M \subseteq Keys
      BY DEF Matching, Present
    <2> HIDE DEF M
    <2> QED BY <2>1, KeysAssumption, FS_Subset
  <1>4. CASE h.embed = "inner"
    BY <1>2, <1>4, Zenon DEF PageThenTrim
  <1>5. CASE h.embed # "inner" /\ r = Unpaged
    <2>1. PageThenTrim(h, a, M, r) = trim(Page(M, r))
      BY <1>5, Zenon DEF PageThenTrim
    <2>2. Page(M, r) = M
      <3> HIDE DEF M
      <3> QED BY <1>3, <1>5, PageOfAll
    <2>3. Page(Kept(t), r) = Kept(t)
      BY <1>5, KeptIs, PageOfAll
    <2> QED BY <1>2, <2>1, <2>2, <2>3
  <1>6. CASE h.embed # "inner" /\ \A f \in FiltersOf(h) : ~NamesEmbed(f)
    <2>1. EmbedPredicates(h) = {}
      BY <1>6 DEF EmbedPredicates
    <2>2. \A k : Survives(k, h)
      BY <2>1 DEF Survives
    <2>3. PageThenTrim(h, a, M, r) = trim(Page(M, r))
      BY <1>6, Zenon DEF PageThenTrim
    <2>4. trim(Page(M, r)) = Page(M, r)
      BY <2>2
    <2>5. Kept(t) = M
      BY <1>1, <2>2 DEF Kept
    <2> QED BY <2>3, <2>4, <2>5
  <1> QED BY <1>4, <1>5, <1>6

-----------------------------------------------------------------------------
(* What the query leaves *)

\* The rows written are rows the request may write, with the caller's own
\* privileges, and the rows returned are among them.
AsAsked(touched, rows) ==
  /\ readOnly \/ h.method \in {"GET", "HEAD"} => touched = {}
  /\ IsMutation(act) /\ touched # {} => Caller \in Writers
  /\ h.method \in {"PATCH", "DELETE"} => \A k \in touched : Satisfies(k, FiltersOf(h))
  /\ h.method = "PUT" /\ h.body.cols # {} => \A k \in touched : Satisfies(k, FiltersOf(h))
  /\ IsMutation(act) => rows \subseteq touched /\ (Unranged => rows = touched)

LEMMA NoOverlay ==
    ASSUME NEW t \in Table
    PROVE  Overlay(NoWrites, t) = t
  BY DEF Overlay, NoWrites, Table

LEMMA QueryIs ==
    ASSUME h \in Request, cfg \in Config, db \in Table, tx.own = NoWrites,
           RequestError = "ok", act.kind # "info", role = Caller, QueryResult.err = "ok"
    PROVE  /\ QueryResult \in Results /\ AsAsked(QueryResult.touched, QueryResult.rows)
           /\ act.kind = "read" => /\ WhereError(h, act) = "ok"
                                   /\ QueryResult.rows = PageThenTrim(h, act, Matching(h, act, db), PageRange)
  <1>1. View(db) = db
    BY NoOverlay DEF View
  <1>2. PICK a, r, ro, x : a = act /\ r = PageRange /\ ro = readOnly /\ x = Execute(h, act, db, PageRange, readOnly)
    OBVIOUS
  <1>3. /\ a.kind \in {"read", "mut", "call", "callread"} /\ ro \in BOOLEAN
        /\ ro <=> h.method \in {"GET", "HEAD"}
        /\ ro <=> a.kind \in {"read", "callread"}
        /\ h.method = "PATCH" => a.kind = "mut" /\ a.mutation = "update"
        /\ h.method = "DELETE" => a.kind = "mut" /\ a.mutation = "delete"
        /\ h.method = "PUT" => a.kind = "mut" /\ a.mutation = "upsert"
        /\ a.kind = "mut" => a.mutation \in {"create", "update", "upsert", "delete"}
    <2>1. /\ act.kind \in {"read", "mut", "call", "callread"}
          /\ readOnly <=> h.method \in {"GET", "HEAD"}
          /\ h.method = "PATCH" => act.kind = "mut" /\ act.mutation = "update"
          /\ h.method = "DELETE" => act.kind = "mut" /\ act.mutation = "delete"
          /\ h.method = "PUT" => act.kind = "mut" /\ act.mutation = "upsert"
          /\ act.kind = "mut" => act.mutation \in {"create", "update", "upsert", "delete"}
      BY KindIs
    <2>2. readOnly = (act.kind \in {"read", "callread", "info"})
      BY DEF readOnly, IsReadOnly
    <2>3. ro = readOnly /\ a = act
      BY <1>2
    <2>4. ro \in BOOLEAN /\ (ro <=> a.kind \in {"read", "callread"})
      <3>1. a.kind \in {"read", "callread", "info"} <=> a.kind \in {"read", "callread"}
        BY <2>3
      <3>2. ro = (a.kind \in {"read", "callread", "info"})
        BY <2>2, <2>3, Zenon
      <3>3. ro \in BOOLEAN
        BY <3>2
      <3> QED BY <3>1, <3>2, <3>3, Zenon
    <2>5. ro <=> h.method \in {"GET", "HEAD"}
      BY <2>1, <2>3, Zenon
    <2>6. /\ a.kind \in {"read", "mut", "call", "callread"}
          /\ h.method = "PATCH" => a.kind = "mut" /\ a.mutation = "update"
          /\ h.method = "DELETE" => a.kind = "mut" /\ a.mutation = "delete"
          /\ h.method = "PUT" => a.kind = "mut" /\ a.mutation = "upsert"
          /\ a.kind = "mut" => a.mutation \in {"create", "update", "upsert", "delete"}
      BY <2>1, <2>3
    <2> QED BY <2>4, <2>5, <2>6
  <1>4. PICK s : s = Session("query")
    OBVIOUS
  <1>5. s.role = role /\ s.ro = ro
    BY <1>2, <1>4, QuerySession
  <1>6. QueryResult = IF s.err # "ok" THEN Failed(db, s.err)
                      ELSE IF IsMutation(a) /\ s.role \notin Writers THEN Failed(db, "42501") ELSE x
    BY <1>1, <1>2, <1>4, <1>5, Zenon DEF QueryResult
  <1>7. \A e : Failed(db, e).err = e
    BY DEF Failed, Result
  <1>8. QueryResult = x /\ (IsMutation(a) => Caller \in Writers)
    BY <1>5, <1>6, <1>7
  <1>9. x.err = "ok" /\ x = Execute(h, a, db, r, ro)
    BY <1>2, <1>8
  <1>10. CASE a.kind = "read"
    <2>1. x \in Results /\ x.touched = {} /\ WhereError(h, a) = "ok" /\ x.rows = PageThenTrim(h, a, Matching(h, a, db), r)
      BY <1>9, <1>10, ReadIs
    <2>2. AsAsked(x.touched, x.rows)
      BY <1>2, <1>10, <2>1 DEF AsAsked, IsMutation
    <2> QED BY <1>2, <1>8, <2>1, <2>2
  <1>11. CASE a.kind = "mut"
    <2>1. x = IF ro THEN Failed(db, "25006") ELSE Mutate(h, a, db, r)
      BY <1>9, <1>11 DEF Execute, IsMutation, IsCall
    <2>2. x = Mutate(h, a, db, r)
      BY <1>3, <1>11, <2>1
    <2>3. IsMutation(a)
      BY <1>11 DEF IsMutation
    <2>4. x \in Results /\ WritesAllowed(a, r, x.touched, x.rows)
      BY <1>3, <1>9, <1>11, <2>2, <2>3, MutateIs
    <2>5. AsAsked(x.touched, x.rows)
      <3>1. ~readOnly /\ h.method \notin {"GET", "HEAD"}
        BY <1>2, <1>3, <1>11
      <3>2. IsMutation(act) => Caller \in Writers
        BY <1>2, <1>8
      <3>3. h.method \in {"PATCH", "DELETE"} => \A k \in x.touched : Satisfies(k, FiltersOf(h))
        BY <1>3, <2>4 DEF WritesAllowed
      <3>4. h.method = "PUT" /\ h.body.cols # {} => \A k \in x.touched : Satisfies(k, FiltersOf(h))
        BY <1>3, <2>3, <2>4 DEF WritesAllowed, IsUpsert
      <3>5. x.rows \subseteq x.touched /\ (Unranged => x.rows = x.touched)
        BY <1>2, <2>4 DEF WritesAllowed, Unranged
      <3> QED BY <3>1, <3>2, <3>3, <3>4, <3>5 DEF AsAsked
    <2> QED BY <1>2, <1>8, <1>11, <2>4, <2>5
  <1>12. CASE a.kind \in {"call", "callread"}
    <2>1. x = Call(h, a, db, r, ro)
      BY <1>9, <1>12 DEF Execute, IsMutation, IsCall
    <2>2. a.name \in DOMAIN Routines
      <3>1. PlanError(h, act) = "ok"
        BY PlannedIs
      <3>2. IsCall(act) /\ act.kind \notin {"read", "mut"}
        BY <1>2, <1>12 DEF IsCall
      <3> QED BY <1>2, <3>1, <3>2 DEF PlanError, IsMutation, IsUpsert
    <2>3. x \in Results /\ (ro => x.touched = {})
      BY <1>3, <1>9, <2>1, <2>2, CallIs
    <2>4. AsAsked(x.touched, x.rows)
      BY <1>2, <1>3, <1>12, <2>3 DEF AsAsked, IsMutation
    <2> QED BY <1>2, <1>8, <1>12, <2>3, <2>4
  <1> QED BY <1>3, <1>10, <1>11, <1>12

-----------------------------------------------------------------------------
(* The inductive invariant *)

\* The types of everything a step reads.
Typed ==
  /\ h \in Request /\ cfg \in Config /\ db \in Table /\ others \in Nat /\ pc \in Labels
  /\ tx \in [open : BOOLEAN, snap : Table, touched : SUBSET Keys, own : [Keys -> Version \cup {"same"}]]
  /\ DOMAIN out = {"rows", "created", "total", "calls"} /\ out.rows \subseteq Keys
  /\ DOMAIN resp = {"status", "err", "window", "n"}
  /\ final \in [outcome : {"none", "committed", "rolledback", "unknown"}, keys : SUBSET Keys]

\* The parts of the state the invariant speaks of, each by its name.
Renders == Rendered(h, act)
Asked == AsAsked(tx.touched, out.rows)
KeptRows == Kept(tx.snap)
ReadPages == out.rows = PageThenTrim(h, act, Matching(h, act, tx.snap), PageRange)
Formats == FormatError(h, Rendered(h, act), resp.n) = "ok"

\* Until it ends a request has neither failed nor written; past authentication
\* it runs as its caller, past planning it is one that can be run.
Underway ==
  /\ pc \notin {"done", "gone"} => resp.err = "ok" /\ final.keys = {}
  /\ pc \notin {"authenticate", "done", "gone"} => role = Caller
  /\ pc \notin {"authenticate", "body", "parse", "done", "gone"} \/ Answered => RequestError = "ok"
  /\ pc \in {"negotiate", "begin", "flight", "settings", "count", "checks", "rendered", "readcommit"} => act.kind # "info"
  /\ pc = "rendered" => Renders

\* The query has run.
Ran ==
  /\ pc \in {"settings", "count", "checks", "rendered", "readcommit", "format", "commit"} \/ Answered
  /\ act.kind # "info"

\* The response is made.
Made == (pc \in {"readcommit", "format", "commit"} \/ Answered) /\ act.kind # "info"

\* What the transaction did, and how it ended.
Transacted ==
  /\ pc \in {"authenticate", "body", "parse", "negotiate", "begin", "flight"} => tx.touched = {}
  /\ tx.touched = {} => tx.own = NoWrites
  /\ Answered \/ act.kind = "info" => ~tx.open
  /\ Ran /\ ~tx.open => final.outcome = "committed" /\ final.keys = tx.touched
  /\ Asked
  /\ final.keys \in {{}, tx.touched}
  /\ pc = "done" /\ ~Answered /\ final.outcome # "unknown" => final.keys = {}
  /\ final.keys # {} /\ ~Renders => MaxAffectedError = "ok"

\* What the response says, and the checks passed before it was made.
Responded ==
  /\ Made => resp.n = Cardinality(out.rows)
  /\ Made /\ ~Renders =>
       /\ MaxAffectedError = "ok" /\ PutError = "ok" /\ RangeError = "ok"
       /\ resp.window = Window /\ resp.status = ResultStatus
  /\ pc = "commit" \/ Answered => Formats

\* What a read returned, in the state it saw, and what was counted.
ReadFrom ==
  /\ Ran /\ act.kind = "read" =>
       WhereError(h, act) = "ok" /\ ReadPages
  /\ pc \in {"settings", "count"} /\ others = 0 => db = tx.snap
  /\ /\ pc \in {"checks", "rendered", "readcommit", "format", "commit"} \/ Answered
     /\ act.kind = "read" /\ h.prefer.count = "exact" /\ (others = 0 \/ cfg.isolation = "rr")
     => out.total = Cardinality(KeptRows)

RestInv == Typed /\ Underway /\ Transacted /\ Responded /\ ReadFrom

\* The request and the configuration do not change, nor what depends on them.
LEMMA Frame ==
    ASSUME UNCHANGED <<h, cfg>>
    PROVE  /\ act' = act /\ RequestError' = RequestError /\ PageRange' = PageRange /\ Caller' = Caller
           /\ Renders' = Renders /\ readOnly' = readOnly /\ WhereError(h, act)' = WhereError(h, act)
  <1>1. act' = act
    BY DEF act
  <1> QED BY <1>1 DEF RequestError, PageRange, Caller, Renders, readOnly

LEMMA FrameOut ==
    ASSUME UNCHANGED <<h, cfg, out>>
    PROVE  /\ MaxAffectedError' = MaxAffectedError /\ PutError' = PutError /\ RangeError' = RangeError
           /\ Window' = Window /\ ResultStatus' = ResultStatus
  <1>1. act' = act /\ PageRange' = PageRange
    BY Frame
  <1>2. Window' = Window
    BY <1>1 DEF Window
  <1>3. MaxAffectedError' = MaxAffectedError /\ PutError' = PutError
    BY <1>1 DEF MaxAffectedError, PutError
  <1>4. RangeError' = RangeError
    BY <1>1, <1>2 DEF RangeError
  <1>5. ResultStatus' = ResultStatus
    BY <1>1, <1>2 DEF ResultStatus, ReturnsVoid, StatusSetting, OwnSetting
  <1> QED BY <1>2, <1>3, <1>4, <1>5

LEMMA FrameAsk ==
    ASSUME UNCHANGED <<h, cfg>>, NEW T, NEW R, tx'.touched = T, out'.rows = R, AsAsked(T, R)
    PROVE  Asked'
  <1>1. act' = act /\ PageRange' = PageRange /\ Caller' = Caller /\ readOnly' = readOnly
    BY Frame
  <1> QED BY <1>1 DEF Asked, AsAsked, Unranged

LEMMA FrameRead ==
    ASSUME UNCHANGED <<h, cfg>>, tx'.snap = tx.snap, out'.rows = out.rows
    PROVE  KeptRows' = KeptRows /\ (ReadPages => ReadPages') /\ MaxAffectedError' = MaxAffectedError
  <1>1. act' = act /\ PageRange' = PageRange
    BY Frame
  <1>2. KeptRows' = KeptRows
    BY DEF KeptRows, Kept
  <1>3. ReadPages => ReadPages'
    BY <1>1 DEF ReadPages
  <1>4. MaxAffectedError' = MaxAffectedError
    BY <1>1 DEF MaxAffectedError
  <1> QED BY <1>2, <1>3, <1>4

\* A refusal ends the request, and what was open is rolled back.
LEMMA RefuseOK ==
    ASSUME RestInv, NEW e, e # "ok", Refuse(e), UNCHANGED out, pc \notin {"done", "gone"}
    PROVE  RestInv'
  <1>0. /\ UNCHANGED <<h, cfg, out, role, db, others>> /\ pc' = "done" /\ resp'.err = e
        /\ DOMAIN resp' = {"status", "err", "window", "n"}
        /\ tx' = Closed /\ tx'.touched = tx.touched /\ tx'.own = tx.own /\ tx'.snap = tx.snap /\ tx'.open = FALSE
        /\ final'.keys = final.keys /\ final.keys = {}
        /\ final' \in [outcome : {"none", "committed", "rolledback", "unknown"}, keys : SUBSET Keys]
    BY DEF RestInv, Typed, Refuse, Closed, NoResponse, Underway
  <1>1. ~Answered'
    BY <1>0 DEF Answered
  <1>2. Typed'
    BY <1>0 DEF RestInv, Typed, Closed, Labels
  <1>3. Underway'
    BY <1>0, <1>1 DEF Underway
  <1>4. Asked' /\ Renders' = Renders /\ MaxAffectedError' = MaxAffectedError
    BY <1>0, Frame, FrameOut, FrameAsk DEF RestInv, Transacted, Asked
  <1>5. Transacted'
    BY <1>0, <1>1, <1>4 DEF RestInv, Transacted, Ran, NoWrites
  <1>6. Responded'
    BY <1>0, <1>1 DEF Responded, Made
  <1>7. ReadFrom'
    BY <1>0, <1>1 DEF ReadFrom, Ran
  <1> QED BY <1>2, <1>3, <1>5, <1>6, <1>7 DEF RestInv

\* A step that only goes on.
LEMMA GoesOn ==
    ASSUME RestInv, NEW l \in Labels, Goto(l), UNCHANGED out
    PROVE  /\ Typed' /\ pc' = l /\ UNCHANGED <<h, cfg, db, tx, out, resp, others, final>>
           /\ act' = act /\ RequestError' = RequestError /\ Renders' = Renders /\ Caller' = Caller
           /\ Asked' /\ KeptRows' = KeptRows /\ (ReadPages => ReadPages') /\ (Formats => Formats')
           /\ WhereError(h, act)' = WhereError(h, act)
           /\ MaxAffectedError' = MaxAffectedError /\ PutError' = PutError /\ RangeError' = RangeError
           /\ Window' = Window /\ ResultStatus' = ResultStatus
  <1>0. pc' = l /\ UNCHANGED <<h, cfg, db, tx, out, resp, others, final>>
    BY DEF Goto
  <1>1. Typed'
    BY <1>0 DEF RestInv, Typed
  <1>2. act' = act /\ RequestError' = RequestError /\ Renders' = Renders /\ Caller' = Caller
        /\ WhereError(h, act)' = WhereError(h, act)
    BY <1>0, Frame
  <1>3. Asked'
    BY <1>0, FrameAsk DEF RestInv, Transacted, Asked
  <1>4. KeptRows' = KeptRows /\ (ReadPages => ReadPages')
    BY <1>0, FrameRead
  <1>5. Formats => Formats'
    BY <1>0, <1>2 DEF Formats
  <1>6. /\ MaxAffectedError' = MaxAffectedError /\ PutError' = PutError /\ RangeError' = RangeError
        /\ Window' = Window /\ ResultStatus' = ResultStatus
    BY <1>0, FrameOut
  <1> QED BY <1>0, <1>1, <1>2, <1>3, <1>4, <1>5, <1>6

LEMMA AuthenticateOK == RestInv /\ Authenticate => RestInv'
  <1> SUFFICES ASSUME RestInv, Authenticate PROVE RestInv'
    OBVIOUS
  <1>1. CASE AuthError # "ok" /\ Refuse(AuthError) /\ UNCHANGED out
    BY <1>1, RefuseOK DEF Authenticate
  <1>2. CASE AuthError = "ok" /\ role' = (IF h.token = "none" THEN "anon" ELSE "user") /\ Goto("body") /\ UNCHANGED out
    <2>0. pc = "authenticate" /\ "body" \in Labels
      BY DEF Authenticate, Labels
    <2>1. /\ Typed' /\ pc' = "body" /\ UNCHANGED <<h, cfg, db, tx, out, resp, others, final>> /\ Asked'
          /\ Caller' = Caller /\ act' = act
      BY <1>2, <2>0, GoesOn
    <2>2. role' = Caller
      <3>1. h.token \in {"good", "none", "bad"}
        BY DEF RestInv, Typed, Request
      <3>2. h.token # "bad"
        BY <1>2 DEF AuthError
      <3> QED BY <1>2, <3>1, <3>2 DEF Caller
    <2>3. Underway'
      BY <2>0, <2>1, <2>2 DEF RestInv, Underway, Answered
    <2>4. Transacted'
      BY <2>0, <2>1 DEF RestInv, Underway, Transacted, Ran, Answered, NoWrites
    <2>5. Responded' /\ ReadFrom'
      BY <2>1 DEF Responded, ReadFrom, Made, Ran, Answered
    <2> QED BY <2>1, <2>3, <2>4, <2>5 DEF RestInv
  <1> QED BY <1>1, <1>2 DEF Authenticate

\* A step before the query that goes on to one before the query.
LEMMA EarlyOK ==
    ASSUME RestInv, NEW l \in {"parse", "negotiate", "begin"}, Goto(l), UNCHANGED <<role, out>>,
           pc \in {"body", "parse", "negotiate"},
           l # "parse" => RequestError = "ok" /\ act.kind # "info"
    PROVE  RestInv'
  <1>0. l \in Labels
    BY DEF Labels
  <1>1. /\ Typed' /\ pc' = l /\ UNCHANGED <<h, cfg, db, tx, out, resp, others, final>> /\ Asked'
        /\ Caller' = Caller /\ RequestError' = RequestError /\ act' = act
    BY <1>0, GoesOn
  <1>2. Underway'
    BY <1>1 DEF RestInv, Underway, Answered
  <1>3. Transacted'
    BY <1>1 DEF RestInv, Underway, Transacted, Ran, Answered, NoWrites
  <1>4. Responded' /\ ReadFrom'
    BY <1>1 DEF Responded, ReadFrom, Made, Ran, Answered
  <1> QED BY <1>1, <1>2, <1>3, <1>4 DEF RestInv

LEMMA ReadBodyOK == RestInv /\ ReadBody => RestInv'
  BY RefuseOK, EarlyOK DEF ReadBody

\* An OPTIONS or root request is answered without the database.
LEMMA ParseOK == RestInv /\ ParseAndPlan => RestInv'
  <1> SUFFICES ASSUME RestInv, ParseAndPlan PROVE RestInv'
    OBVIOUS
  <1>0. pc = "parse" /\ UNCHANGED out
    BY DEF ParseAndPlan
  <1>1. CASE RequestError # "ok" /\ Refuse(RequestError)
    BY <1>0, <1>1, RefuseOK
  <1>2. CASE RequestError = "ok" /\ act.kind # "info" /\ Goto("negotiate") /\ UNCHANGED role
    BY <1>0, <1>2, EarlyOK
  <1>3. CASE /\ RequestError = "ok" /\ act.kind = "info"
             /\ resp' = [NoResponse EXCEPT !.status = 200, !.n = 1]
             /\ pc' = "format" /\ UNCHANGED <<h, cfg, role, db, tx, others, final>>
    <2>1. act' = act /\ RequestError' = RequestError /\ Caller' = Caller /\ Renders' = Renders
      BY <1>3, Frame
    <2>2. Asked' /\ MaxAffectedError' = MaxAffectedError
      BY <1>0, <1>3, FrameAsk, FrameOut DEF RestInv, Transacted, Asked
    <2>3. DOMAIN resp' = {"status", "err", "window", "n"} /\ resp'.err = "ok"
      BY <1>3 DEF NoResponse
    <2>4. Typed'
      BY <1>0, <1>3, <2>3 DEF RestInv, Typed, Labels
    <2>5. Underway'
      BY <1>0, <1>3, <2>1, <2>3 DEF RestInv, Underway, Answered
    <2>6. Transacted'
      BY <1>0, <1>3, <2>1, <2>2 DEF RestInv, Underway, Transacted, Ran, Answered, NoWrites
    <2>7. Responded' /\ ReadFrom'
      BY <1>3, <2>1 DEF Responded, ReadFrom, Made, Ran, Answered
    <2> QED BY <2>4, <2>5, <2>6, <2>7 DEF RestInv
  <1> QED BY <1>1, <1>2, <1>3 DEF ParseAndPlan

LEMMA NegotiateOK == RestInv /\ Negotiate => RestInv'
  <1> SUFFICES ASSUME RestInv, Negotiate PROVE RestInv'
    OBVIOUS
  <1>1. PICK e : e = FirstError(<<MediaError(h, act), GeometryError(h, act)>>)
    OBVIOUS
  <1>2. pc = "negotiate" /\ UNCHANGED out /\ ((e # "ok" /\ Refuse(e)) \/ (Goto("begin") /\ UNCHANGED role))
    BY <1>1, Zenon DEF Negotiate
  <1>3. RequestError = "ok" /\ act.kind # "info"
    BY <1>2 DEF RestInv, Underway
  <1> QED BY <1>2, <1>3, RefuseOK, EarlyOK

LEMMA BeginOK == RestInv /\ Begin => RestInv'
  <1> SUFFICES ASSUME RestInv, Begin PROVE RestInv'
    OBVIOUS
  <1>0. pc = "begin" /\ UNCHANGED out
    BY DEF Begin
  <1>1. CASE Refuse("ConnectionPool")
    BY <1>0, <1>1, RefuseOK
  <1>2. CASE /\ tx' = [tx EXCEPT !.open = TRUE] /\ pc' = "flight"
             /\ UNCHANGED <<h, cfg, role, db, resp, others, final>>
    <2>1. act' = act /\ RequestError' = RequestError /\ Caller' = Caller /\ Renders' = Renders
      BY <1>2, Frame
    <2>2. tx'.touched = tx.touched /\ tx'.own = tx.own /\ tx'.open = TRUE
      BY <1>2 DEF RestInv, Typed
    <2>3. Asked' /\ MaxAffectedError' = MaxAffectedError
      BY <1>0, <1>2, <2>2, FrameAsk, FrameOut DEF RestInv, Transacted, Asked
    <2>4. Typed'
      BY <1>0, <1>2 DEF RestInv, Typed, Labels
    <2>5. Underway'
      BY <1>0, <1>2, <2>1 DEF RestInv, Underway, Answered
    <2>6. Transacted'
      BY <1>0, <1>2, <2>1, <2>2, <2>3 DEF RestInv, Underway, Transacted, Ran, Answered, NoWrites
    <2>7. Responded' /\ ReadFrom'
      BY <1>2 DEF Responded, ReadFrom, Made, Ran, Answered
    <2> QED BY <2>4, <2>5, <2>6, <2>7 DEF RestInv
  <1> QED BY <1>1, <1>2 DEF Begin

\* The query's flight: what it leaves is what QueryIs says of it.
LEMMA FlightOK == RestInv /\ Flight => RestInv'
  <1> SUFFICES ASSUME RestInv, Flight PROVE RestInv'
    OBVIOUS
  <1>0. PICK r : r = QueryResult
    OBVIOUS
  <1>1. pc = "flight" /\ \/ r.err # "ok" /\ Refuse(r.err) /\ UNCHANGED out
                         \/ Refuse("40001") /\ UNCHANGED out
                         \/ /\ r.err = "ok"
                            /\ out' = [rows |-> r.rows, created |-> r.created, total |-> None, calls |-> IF IsCall(act) THEN 1 ELSE 0]
                            /\ tx' = [open |-> ~EndsWithTheQuery, snap |-> db, touched |-> r.touched,
                                      own |-> [k \in Keys |-> IF k \in r.touched THEN r.table[k] ELSE "same"]]
                            /\ final' = IF EndsWithTheQuery THEN [final EXCEPT !.outcome = "committed"] ELSE final
                            /\ pc' = AfterFlight
                            /\ UNCHANGED <<h, cfg, role, db, resp, others>>
    BY <1>0, Zenon DEF Flight
  <1>2. CASE (r.err # "ok" /\ Refuse(r.err) /\ UNCHANGED out) \/ (Refuse("40001") /\ UNCHANGED out)
    BY <1>1, <1>2, RefuseOK
  <1>3. CASE /\ r.err = "ok"
             /\ out' = [rows |-> r.rows, created |-> r.created, total |-> None, calls |-> IF IsCall(act) THEN 1 ELSE 0]
             /\ tx' = [open |-> ~EndsWithTheQuery, snap |-> db, touched |-> r.touched,
                       own |-> [k \in Keys |-> IF k \in r.touched THEN r.table[k] ELSE "same"]]
             /\ final' = IF EndsWithTheQuery THEN [final EXCEPT !.outcome = "committed"] ELSE final
             /\ pc' = AfterFlight
             /\ UNCHANGED <<h, cfg, role, db, resp, others>>
    <2>1. /\ h \in Request /\ cfg \in Config /\ db \in Table /\ tx.own = NoWrites
          /\ RequestError = "ok" /\ act.kind # "info" /\ role = Caller /\ resp.err = "ok" /\ final.keys = {}
      BY <1>1 DEF RestInv, Typed, Underway, Transacted
    <2>2. /\ r \in Results /\ AsAsked(r.touched, r.rows)
          /\ act.kind = "read" => /\ WhereError(h, act) = "ok"
                                  /\ r.rows = PageThenTrim(h, act, Matching(h, act, db), PageRange)
      BY <1>0, <1>3, <2>1, QueryIs
    <2>3. PICK own : own = [k \in Keys |-> IF k \in r.touched THEN r.table[k] ELSE "same"]
      OBVIOUS
    <2>4. own \in [Keys -> Version \cup {"same"}] /\ (r.touched = {} => own = NoWrites)
      BY <2>2, <2>3 DEF Results, Table, NoWrites
    <2>5. /\ tx'.open = ~EndsWithTheQuery /\ tx'.snap = db /\ tx'.touched = r.touched /\ tx'.own = own
          /\ DOMAIN tx' = {"open", "snap", "touched", "own"} /\ tx'.open \in BOOLEAN
          /\ out'.rows = r.rows /\ DOMAIN out' = {"rows", "created", "total", "calls"}
      BY <1>3, <2>3
    <2>6. final'.keys = {} /\ (EndsWithTheQuery => final'.outcome = "committed")
          /\ final' \in [outcome : {"none", "committed", "rolledback", "unknown"}, keys : SUBSET Keys]
      BY <1>3, <2>1 DEF RestInv, Typed
    <2>7. pc' \in {"settings", "count"}
      BY <1>3 DEF AfterFlight
    <2>8. EndsWithTheQuery => r.touched = {}
      BY <2>2 DEF EndsWithTheQuery, AsAsked
    <2>9. act' = act /\ RequestError' = RequestError /\ Caller' = Caller /\ Renders' = Renders
          /\ PageRange' = PageRange /\ WhereError(h, act)' = WhereError(h, act)
      BY <1>3, Frame
    <2>10. Asked'
      BY <1>3, <2>2, <2>5, FrameAsk
    <2>11. tx' \in [open : BOOLEAN, snap : Table, touched : SUBSET Keys, own : [Keys -> Version \cup {"same"}]]
      <3>1. r.touched \subseteq Keys /\ (~EndsWithTheQuery) \in BOOLEAN
        BY <2>2 DEF Results
      <3>2. tx' = [open |-> ~EndsWithTheQuery, snap |-> db, touched |-> r.touched, own |-> own]
        BY <1>3, <2>3
      <3> QED BY <2>1, <2>4, <3>1, <3>2
    <2>12. Typed'
      BY <1>3, <2>2, <2>5, <2>6, <2>7, <2>11 DEF RestInv, Typed, Labels, Results
    <2>13. Underway'
      BY <1>1, <1>3, <2>1, <2>6, <2>7, <2>9 DEF RestInv, Underway, Answered
    <2>14. Transacted'
      BY <2>1, <2>4, <2>5, <2>6, <2>7, <2>8, <2>9, <2>10 DEF Transacted, Ran, Answered, NoWrites
    <2>15. Responded'
      BY <2>7 DEF Responded, Made, Answered
    <2>16. ReadFrom'
      <3>1. act.kind = "read" => ReadPages'
        BY <1>3, <2>2, <2>5, <2>9 DEF ReadPages
      <3> QED BY <1>3, <2>2, <2>5, <2>7, <2>9, <3>1 DEF ReadFrom, Ran, Answered
    <2> QED BY <2>12, <2>13, <2>14, <2>15, <2>16 DEF RestInv
  <1> QED BY <1>1, <1>2, <1>3

LEMMA CheckSettingsOK == RestInv /\ CheckSettings => RestInv'
  <1> SUFFICES ASSUME RestInv, CheckSettings PROVE RestInv'
    OBVIOUS
  <1>0. pc = "settings" /\ UNCHANGED out
    BY DEF CheckSettings
  <1>1. CASE GucError # "ok" /\ Refuse(GucError)
    BY <1>0, <1>1, RefuseOK
  <1>2. CASE Goto("count") /\ UNCHANGED role
    <2>0. "count" \in Labels
      BY DEF Labels
    <2>1. /\ Typed' /\ pc' = "count" /\ UNCHANGED <<h, cfg, db, tx, out, resp, others, final>>
          /\ act' = act /\ RequestError' = RequestError /\ Renders' = Renders /\ Caller' = Caller
          /\ Asked' /\ KeptRows' = KeptRows /\ (ReadPages => ReadPages')
          /\ WhereError(h, act)' = WhereError(h, act) /\ MaxAffectedError' = MaxAffectedError
      BY <1>0, <1>2, <2>0, GoesOn
    <2>2. Underway'
      BY <1>0, <1>2, <2>1 DEF RestInv, Underway, Answered
    <2>3. Transacted'
      BY <1>0, <2>1 DEF RestInv, Underway, Transacted, Ran, Answered, NoWrites
    <2>4. Responded'
      BY <2>1 DEF Responded, Made, Answered
    <2>5. ReadFrom'
      BY <1>0, <2>1 DEF RestInv, ReadFrom, Ran, Answered
    <2> QED BY <2>1, <2>2, <2>3, <2>4, <2>5 DEF RestInv
  <1> QED BY <1>1, <1>2 DEF CheckSettings

\* Both arms of Count: on to the checks, with a total or without.
LEMMA CountedOK ==
    ASSUME RestInv, pc = "count", NEW l, l = (IF Rendered(h, act) THEN "rendered" ELSE "checks"), Goto(l), UNCHANGED role,
           DOMAIN out' = {"rows", "created", "total", "calls"}, out'.rows = out.rows,
           act.kind = "read" /\ h.prefer.count = "exact" /\ (others = 0 \/ cfg.isolation = "rr")
             => out'.total = Cardinality(KeptRows)
    PROVE  RestInv'
  <1>0. pc' = l /\ UNCHANGED <<h, cfg, role, db, tx, resp, others, final>> /\ l \in {"rendered", "checks"}
        /\ (l = "rendered" => Renders)
    BY DEF Goto, Renders
  <1>1. act' = act /\ RequestError' = RequestError /\ Renders' = Renders /\ Caller' = Caller
        /\ WhereError(h, act)' = WhereError(h, act)
    BY <1>0, Frame
  <1>2. Asked'
    BY <1>0, FrameAsk DEF RestInv, Transacted, Asked
  <1>3. KeptRows' = KeptRows /\ (ReadPages => ReadPages') /\ MaxAffectedError' = MaxAffectedError
    BY <1>0, FrameRead
  <1>4. Typed'
    BY <1>0 DEF RestInv, Typed, Labels
  <1>5. Underway'
    BY <1>0, <1>1 DEF RestInv, Underway, Answered
  <1>6. Transacted'
    BY <1>0, <1>1, <1>2, <1>3 DEF RestInv, Underway, Transacted, Ran, Answered, NoWrites
  <1>7. Responded'
    BY <1>0 DEF Responded, Made, Answered
  <1>8. ReadFrom'
    BY <1>0, <1>1, <1>3 DEF RestInv, ReadFrom, Ran, Answered
  <1> QED BY <1>4, <1>5, <1>6, <1>7, <1>8 DEF RestInv

\* What the count of a read counts, when it sees what the read saw.
LEMMA CountSees ==
    ASSUME RestInv, pc = "count", act.kind = "read", others = 0 \/ cfg.isolation = "rr",
           NEW r, r = Counted(h, act, View(tx.snap), readOnly), r.err = "ok"
    PROVE  r.rows = KeptRows
  <1>1. Asked /\ tx.snap \in Table /\ tx.own = NoWrites /\ (others = 0 => db = tx.snap)
    <2>1. tx.touched = {}
      BY DEF RestInv, Transacted, Asked, AsAsked, readOnly, IsReadOnly
    <2> QED BY <2>1 DEF RestInv, Typed, Transacted, ReadFrom
  <1>2. View(tx.snap) = tx.snap
    <2>1. (IF cfg.isolation = "rr" THEN tx.snap ELSE db) = tx.snap
      BY <1>1
    <2> QED BY <1>1, <2>1, NoOverlay DEF View
  <1>3. PICK a, t, ro : a = act /\ t = tx.snap /\ ro = readOnly
    OBVIOUS
  <1>4. r = Execute(h, a, t, Unpaged, ro) /\ a.kind = "read" /\ t \in Table
    BY <1>1, <1>2, <1>3 DEF Counted
  <1>5. WhereError(h, a) = "ok" /\ r.rows = PageThenTrim(h, a, Matching(h, a, t), Unpaged)
    BY <1>4, ReadIs
  <1>6. r.rows = Page(Kept(t), Unpaged)
    BY <1>4, <1>5, ReadPage
  <1>7. Page(Kept(t), Unpaged) = Kept(t)
    BY KeptIs, PageOfAll
  <1> QED BY <1>3, <1>6, <1>7 DEF KeptRows

LEMMA CountOK == RestInv /\ Count => RestInv'
  <1> SUFFICES ASSUME RestInv, Count PROVE RestInv'
    OBVIOUS
  <1>0. PICK l, r : l = (IF Rendered(h, act) THEN "rendered" ELSE "checks") /\ r = Counted(h, act, View(tx.snap), readOnly)
    OBVIOUS
  <1>1. /\ pc = "count"
        /\ \/ ~Counts /\ Goto(l) /\ UNCHANGED <<role, out>>
           \/ r.err # "ok" /\ Refuse(r.err) /\ UNCHANGED out
           \/ /\ r.err = "ok" /\ Goto(l) /\ UNCHANGED role
              /\ \E n \in CountOutcomes(Cardinality(r.rows)) :
                   out' = [out EXCEPT !.total = n, !.calls = @ + (IF IsCall(act) /\ RunsTheStatement THEN 1 ELSE 0)]
    BY <1>0, Zenon DEF Count
  <1>2. CASE ~Counts /\ Goto(l) /\ UNCHANGED <<role, out>>
    <2>1. ~(act.kind = "read" /\ h.prefer.count = "exact")
      BY <1>2 DEF Counts, CountSql, IsMutation
    <2>2. DOMAIN out' = {"rows", "created", "total", "calls"} /\ out'.rows = out.rows
      BY <1>2 DEF RestInv, Typed
    <2> QED BY <1>0, <1>1, <1>2, <2>1, <2>2, CountedOK
  <1>3. CASE r.err # "ok" /\ Refuse(r.err) /\ UNCHANGED out
    BY <1>1, <1>3, RefuseOK
  <1>4. CASE /\ r.err = "ok" /\ Goto(l) /\ UNCHANGED role
             /\ \E n \in CountOutcomes(Cardinality(r.rows)) :
                   out' = [out EXCEPT !.total = n, !.calls = @ + (IF IsCall(act) /\ RunsTheStatement THEN 1 ELSE 0)]
    <2>1. PICK n \in CountOutcomes(Cardinality(r.rows)) :
             \E m : out' = [out EXCEPT !.total = n, !.calls = m]
      BY <1>4
    <2>2. DOMAIN out' = {"rows", "created", "total", "calls"} /\ out'.rows = out.rows /\ out'.total = n
      <3>1. PICK m : out' = [out EXCEPT !.total = n, !.calls = m]
        BY <2>1
      <3> QED BY <3>1 DEF RestInv, Typed
    <2>3. h.prefer.count = "exact" => n = Cardinality(r.rows)
      BY <2>1 DEF CountOutcomes
    <2>4. act.kind = "read" /\ (others = 0 \/ cfg.isolation = "rr") => r.rows = KeptRows
      BY <1>0, <1>1, <1>4, CountSees
    <2> QED BY <1>0, <1>1, <1>4, <2>2, <2>3, <2>4, CountedOK
  <1> QED BY <1>1, <1>2, <1>3, <1>4

LEMMA CheckResultOK == RestInv /\ CheckResult => RestInv'
  <1> SUFFICES ASSUME RestInv, CheckResult PROVE RestInv'
    OBVIOUS
  <1>0. PICK m, p, q, e : m = MaxAffectedError /\ p = PutError /\ q = RangeError /\ e = FirstError(<<m, p, q>>)
    OBVIOUS
  <1>1. /\ pc = "checks" /\ UNCHANGED out
        /\ \/ e # "ok" /\ Refuse(e)
           \/ /\ e = "ok"
              /\ resp' = [status |-> ResultStatus, err |-> "ok", window |-> Window, n |-> Cardinality(out.rows)]
              /\ pc' = "readcommit" /\ UNCHANGED <<h, cfg, role, db, tx, others, final>>
    BY <1>0, Zenon DEF CheckResult
  <1>2. CASE e # "ok" /\ Refuse(e)
    BY <1>1, <1>2, RefuseOK
  <1>3. CASE /\ e = "ok"
             /\ resp' = [status |-> ResultStatus, err |-> "ok", window |-> Window, n |-> Cardinality(out.rows)]
             /\ pc' = "readcommit" /\ UNCHANGED <<h, cfg, role, db, tx, others, final>>
    <2>1. MaxAffectedError = "ok" /\ PutError = "ok" /\ RangeError = "ok"
      <3>1. FirstError(<<m, p, q>>) = "ok"
        BY <1>0, <1>3
      <3>2. m = "ok" /\ p = "ok" /\ q = "ok"
        BY <3>1, NoErrorOfThree
      <3> QED BY <1>0, <3>2
    <2>2. /\ DOMAIN resp' = {"status", "err", "window", "n"} /\ resp'.err = "ok" /\ resp'.n = Cardinality(out.rows)
          /\ resp'.window = Window /\ resp'.status = ResultStatus
      BY <1>3
    <2>3. act' = act /\ RequestError' = RequestError /\ Renders' = Renders /\ Caller' = Caller
          /\ WhereError(h, act)' = WhereError(h, act)
      BY <1>3, Frame
    <2>4. Asked'
      BY <1>1, <1>3, FrameAsk DEF RestInv, Transacted, Asked
    <2>5. KeptRows' = KeptRows /\ (ReadPages => ReadPages')
      BY <1>1, <1>3, FrameRead
    <2>6. /\ MaxAffectedError' = MaxAffectedError /\ PutError' = PutError /\ RangeError' = RangeError
          /\ Window' = Window /\ ResultStatus' = ResultStatus
      BY <1>1, <1>3, FrameOut
    <2>7. Typed'
      BY <1>1, <1>3, <2>2 DEF RestInv, Typed, Labels
    <2>8. Underway'
      BY <1>1, <1>3, <2>2, <2>3 DEF RestInv, Underway, Answered
    <2>9. Transacted'
      BY <1>1, <1>3, <2>3, <2>4, <2>6 DEF RestInv, Underway, Transacted, Ran, Answered, NoWrites
    <2>10. Responded'
      BY <1>1, <1>3, <2>1, <2>2, <2>6 DEF Responded, Made, Answered
    <2>11. ReadFrom'
      BY <1>1, <1>3, <2>3, <2>5 DEF RestInv, ReadFrom, Ran, Answered
    <2> QED BY <2>7, <2>8, <2>9, <2>10, <2>11 DEF RestInv
  <1> QED BY <1>1, <1>2, <1>3

LEMMA RenderOK == RestInv /\ Render => RestInv'
  <1> SUFFICES ASSUME RestInv, Render PROVE RestInv'
    OBVIOUS
  <1>1. pc = "rendered" /\ pc' = "readcommit" /\ UNCHANGED <<h, cfg, role, db, tx, out, others, final>>
    BY DEF Render
  <1>2. DOMAIN resp' = {"status", "err", "window", "n"} /\ resp'.err = "ok" /\ resp'.n = Cardinality(out.rows)
    BY DEF Render
  <1>3. act' = act /\ RequestError' = RequestError /\ Renders' = Renders /\ Caller' = Caller
        /\ WhereError(h, act)' = WhereError(h, act)
    BY <1>1, Frame
  <1>4. Asked'
    BY <1>1, FrameAsk DEF RestInv, Transacted, Asked
  <1>5. KeptRows' = KeptRows /\ (ReadPages => ReadPages') /\ MaxAffectedError' = MaxAffectedError
    BY <1>1, FrameRead
  <1>6. Renders
    BY <1>1 DEF RestInv, Underway
  <1>7. Typed'
    BY <1>1, <1>2 DEF RestInv, Typed, Labels
  <1>8. Underway'
    BY <1>1, <1>2, <1>3 DEF RestInv, Underway, Answered
  <1>9. Transacted'
    BY <1>1, <1>3, <1>4, <1>5 DEF RestInv, Underway, Transacted, Ran, Answered, NoWrites
  <1>10. Responded'
    BY <1>1, <1>2, <1>3, <1>6 DEF Responded, Made, Answered
  <1>11. ReadFrom'
    BY <1>1, <1>3, <1>5 DEF RestInv, ReadFrom, Ran, Answered
  <1> QED BY <1>7, <1>8, <1>9, <1>10, <1>11 DEF RestInv

\* A step that goes on once the response is made.
LEMMA LateOK ==
    ASSUME RestInv, NEW l \in {"format", "commit", "done"}, Goto(l), UNCHANGED <<role, out>>,
           pc \in {"readcommit", "format", "commit"}, l \in {"commit", "done"} => Formats,
           l = "done" => ~tx.open
    PROVE  RestInv'
  <1>0. l \in Labels
    BY DEF Labels
  <1>1. /\ Typed' /\ pc' = l /\ UNCHANGED <<h, cfg, db, tx, out, resp, others, final>>
        /\ act' = act /\ RequestError' = RequestError /\ Renders' = Renders /\ Caller' = Caller
        /\ Asked' /\ KeptRows' = KeptRows /\ (ReadPages => ReadPages') /\ (Formats => Formats')
        /\ WhereError(h, act)' = WhereError(h, act)
        /\ MaxAffectedError' = MaxAffectedError /\ PutError' = PutError /\ RangeError' = RangeError
        /\ Window' = Window /\ ResultStatus' = ResultStatus
    BY <1>0, GoesOn
  <1>2. Underway'
    BY <1>1 DEF RestInv, Underway, Answered
  <1>3. Transacted'
    BY <1>1 DEF RestInv, Underway, Transacted, Ran, Answered, NoWrites
  <1>4. Responded'
    BY <1>1 DEF RestInv, Responded, Made, Answered
  <1>5. ReadFrom'
    BY <1>1 DEF RestInv, ReadFrom, Ran, Answered
  <1> QED BY <1>1, <1>2, <1>3, <1>4, <1>5 DEF RestInv

LEMMA FormatOK == RestInv /\ Format => RestInv'
  <1> SUFFICES ASSUME RestInv, Format PROVE RestInv'
    OBVIOUS
  <1>0. PICK e : e = FormatError(h, Rendered(h, act), resp.n)
    OBVIOUS
  <1>1. pc = "format" /\ UNCHANGED out /\ ((e # "ok" /\ Refuse(e)) \/ (e = "ok" /\ Goto("commit") /\ UNCHANGED role))
    BY <1>0, Zenon DEF Format
  <1>2. e = "ok" => Formats
    BY <1>0, Zenon DEF Formats
  <1> QED BY <1>1, <1>2, RefuseOK, LateOK

LEMMA OverlayIs ==
    ASSUME RestInv
    PROVE  Overlay(tx.own, db) \in Table
  <1>1. tx.own \in [Keys -> Version \cup {"same"}] /\ db \in [Keys -> Version]
    BY DEF RestInv, Typed, Table
  <1> QED BY <1>1 DEF Overlay, Table

\* An end that is no answer: the client left, or the fate of COMMIT is unknown.
\* What it wrote, if anything, is what the transaction had passed the checks with.
LEMMA EndsOK ==
    ASSUME RestInv, UNCHANGED <<h, cfg, out, others>>, tx' = Closed, pc' \in {"done", "gone"}, ~Answered',
           DOMAIN resp' = {"status", "err", "window", "n"}, db' \in Table,
           final' \in [outcome : {"none", "committed", "rolledback", "unknown"}, keys : SUBSET Keys],
           final'.keys = final.keys \/ (final'.keys = tx.touched /\ Made), pc' = "gone" \/ final'.outcome = "unknown"
    PROVE  RestInv'
  <1>1. tx'.touched = tx.touched /\ tx'.own = tx.own /\ tx'.open = FALSE
    BY DEF RestInv, Typed, Closed
  <1>2. Typed'
    BY DEF RestInv, Typed, Closed, Labels
  <1>3. Underway'
    BY DEF Underway
  <1>4. Asked' /\ Renders' = Renders /\ MaxAffectedError' = MaxAffectedError
    BY <1>1, Frame, FrameOut, FrameAsk DEF RestInv, Transacted, Asked
  <1>5. Transacted'
    <2>1. final'.keys \in {{}, tx'.touched}
      BY <1>1 DEF RestInv, Transacted
    <2>2. final'.keys # {} /\ ~Renders' => MaxAffectedError' = "ok"
      BY <1>1, <1>4 DEF RestInv, Transacted, Responded
    <2>3. ~Ran'
      BY DEF Ran
    <2>4. tx'.touched = {} => tx'.own = NoWrites'
      BY <1>1 DEF RestInv, Transacted, NoWrites
    <2> QED BY <1>1, <1>4, <2>1, <2>2, <2>3, <2>4 DEF Transacted
  <1>6. Responded' /\ ReadFrom'
    BY DEF Responded, ReadFrom, Made, Ran
  <1> QED BY <1>2, <1>3, <1>5, <1>6 DEF RestInv

\* COMMIT succeeds: a read's, which wrote nothing, or the last step of all.
LEMMA CommitsOK ==
    ASSUME RestInv, tx.open, NEW l, (l = "format" /\ pc = "readcommit" /\ readOnly) \/ (l = "done" /\ pc = "commit"),
           pc' = l, db' = Overlay(tx.own, db), final' = [outcome |-> "committed", keys |-> tx.touched],
           tx' = Closed, UNCHANGED <<h, cfg, role, out, resp, others>>
    PROVE  RestInv'
  <1>1. /\ tx'.touched = tx.touched /\ tx'.own = tx.own /\ tx'.open = FALSE /\ tx'.snap = tx.snap
        /\ final'.outcome = "committed" /\ final'.keys = tx.touched /\ l \in {"format", "done"}
        /\ final' \in [outcome : {"none", "committed", "rolledback", "unknown"}, keys : SUBSET Keys]
    BY DEF RestInv, Typed, Closed
  <1>2. /\ act' = act /\ RequestError' = RequestError /\ Renders' = Renders /\ Caller' = Caller
        /\ WhereError(h, act)' = WhereError(h, act)
    BY Frame
  <1>3. Asked' /\ (readOnly => tx.touched = {})
    <2>1. AsAsked(tx.touched, out.rows)
      BY DEF RestInv, Transacted, Asked
    <2>2. Asked'
      BY <1>1, <2>1, FrameAsk
    <2> QED BY <2>1, <2>2 DEF AsAsked
  <1>4. KeptRows' = KeptRows /\ (ReadPages => ReadPages')
    BY <1>1, FrameRead
  <1>5. /\ MaxAffectedError' = MaxAffectedError /\ PutError' = PutError /\ RangeError' = RangeError
        /\ Window' = Window /\ ResultStatus' = ResultStatus
    BY FrameOut
  <1>6. Formats => Formats'
    BY <1>2 DEF Formats
  <1>7. act.kind # "info"
    BY DEF RestInv, Transacted
  <1>8. Typed'
    BY <1>1, OverlayIs DEF RestInv, Typed, Labels, Closed
  <1>9. Underway'
    BY <1>1, <1>2, <1>3 DEF RestInv, Underway, Answered
  <1>10. Transacted'
    <2>1. final'.keys # {} /\ ~Renders' => MaxAffectedError' = "ok"
      BY <1>2, <1>5, <1>7 DEF RestInv, Responded, Made
    <2>2. tx'.touched = {} => tx'.own = NoWrites'
      BY <1>1 DEF RestInv, Transacted, NoWrites
    <2>3. pc' = "done" => Answered'
      BY DEF RestInv, Underway, Answered
    <2> QED BY <1>1, <1>3, <2>1, <2>2, <2>3 DEF Transacted
  <1>11. Responded'
    BY <1>1, <1>2, <1>5, <1>6 DEF RestInv, Responded, Made, Answered
  <1>12. ReadFrom'
    BY <1>1, <1>2, <1>4 DEF RestInv, ReadFrom, Ran, Answered
  <1> QED BY <1>8, <1>9, <1>10, <1>11, <1>12 DEF RestInv

\* COMMIT, whatever becomes of it.
LEMMA CommitOK ==
    ASSUME RestInv, tx.open, NEW l, (l = "format" /\ pc = "readcommit" /\ readOnly) \/ (l = "done" /\ pc = "commit"),
           Commit(pc' = l /\ UNCHANGED resp)
    PROVE  RestInv'
  <1>1. \/ /\ db' = Overlay(tx.own, db) /\ final' = [outcome |-> "committed", keys |-> tx.touched]
           /\ tx' = Closed /\ pc' = l /\ UNCHANGED resp
           /\ UNCHANGED <<h, cfg, role, out, others>>
        \/ Refuse("23503") /\ UNCHANGED out
        \/ /\ resp' = [NoResponse EXCEPT !.status = StatusOf("08006"), !.err = "08006"]
           /\ \/ db' = Overlay(tx.own, db) /\ final' = [outcome |-> "unknown", keys |-> tx.touched]
              \/ db' = db /\ final' = [final EXCEPT !.outcome = "unknown"]
           /\ tx' = Closed /\ pc' = "done"
           /\ UNCHANGED <<h, cfg, role, out, others>>
    BY Zenon DEF Commit
  <1>2. CASE /\ db' = Overlay(tx.own, db) /\ final' = [outcome |-> "committed", keys |-> tx.touched]
             /\ tx' = Closed /\ pc' = l /\ UNCHANGED resp
             /\ UNCHANGED <<h, cfg, role, out, others>>
    BY <1>2, CommitsOK
  <1>3. CASE Refuse("23503") /\ UNCHANGED out
    BY <1>3, RefuseOK
  <1>4. CASE /\ resp' = [NoResponse EXCEPT !.status = StatusOf("08006"), !.err = "08006"]
             /\ \/ db' = Overlay(tx.own, db) /\ final' = [outcome |-> "unknown", keys |-> tx.touched]
                \/ db' = db /\ final' = [final EXCEPT !.outcome = "unknown"]
             /\ tx' = Closed /\ pc' = "done"
             /\ UNCHANGED <<h, cfg, role, out, others>>
    <2>1. DOMAIN resp' = {"status", "err", "window", "n"} /\ resp'.err = "08006"
      BY <1>4 DEF NoResponse
    <2>2. ~Answered'
      BY <2>1 DEF Answered
    <2>3. Made
      BY DEF Made, RestInv, Transacted
    <2>4. /\ final' \in [outcome : {"none", "committed", "rolledback", "unknown"}, keys : SUBSET Keys]
          /\ final'.keys = final.keys \/ final'.keys = tx.touched
          /\ final'.outcome = "unknown"
      BY <1>4 DEF RestInv, Typed
    <2>5. db' \in Table
      BY <1>4, OverlayIs DEF RestInv, Typed
    <2> QED BY <1>4, <2>1, <2>2, <2>3, <2>4, <2>5, EndsOK
  <1> QED BY <1>1, <1>2, <1>3, <1>4

LEMMA CommitReadOK == RestInv /\ CommitRead => RestInv'
  <1> SUFFICES ASSUME RestInv, CommitRead PROVE RestInv'
    OBVIOUS
  <1>1. pc = "readcommit"
    BY DEF CommitRead
  <1>2. CASE tx.open /\ readOnly /\ Commit(pc' = "format" /\ UNCHANGED resp)
    <2>1. PICK l : l = "format"
      OBVIOUS
    <2>2. (l = "format" /\ pc = "readcommit" /\ readOnly) \/ (l = "done" /\ pc = "commit")
      BY <1>1, <1>2, <2>1
    <2>3. Commit(pc' = l /\ UNCHANGED resp)
      BY <1>2, <2>1, Zenon
    <2> QED BY <1>2, <2>2, <2>3, CommitOK, Zenon
  <1>3. CASE Goto("format") /\ UNCHANGED <<role, out>>
    BY <1>1, <1>3, LateOK
  <1> QED BY <1>2, <1>3 DEF CommitRead

LEMMA CommitLastOK == RestInv /\ CommitLast => RestInv'
  <1> SUFFICES ASSUME RestInv, CommitLast PROVE RestInv'
    OBVIOUS
  <1>1. pc = "commit" /\ Formats
    BY DEF CommitLast, RestInv, Responded
  <1>2. CASE tx.open /\ Commit(pc' = "done" /\ UNCHANGED resp)
    <2>1. PICK l : l = "done"
      OBVIOUS
    <2>2. (l = "format" /\ pc = "readcommit" /\ readOnly) \/ (l = "done" /\ pc = "commit")
      BY <1>1, <2>1
    <2>3. Commit(pc' = l /\ UNCHANGED resp)
      BY <1>2, <2>1, Zenon
    <2> QED BY <1>2, <2>2, <2>3, CommitOK, Zenon
  <1>3. CASE ~tx.open /\ Goto("done") /\ UNCHANGED <<role, out>>
    BY <1>1, <1>3, LateOK
  <1> QED BY <1>2, <1>3 DEF CommitLast

LEMMA DisconnectOK == RestInv /\ Disconnect => RestInv'
  <1> SUFFICES ASSUME RestInv, Disconnect PROVE RestInv'
    OBVIOUS
  <1>1. pc' = "gone" /\ tx' = Closed /\ UNCHANGED <<h, cfg, out, others, resp>> /\ ~Answered'
    BY DEF Disconnect, Answered
  <1>2. DOMAIN resp' = {"status", "err", "window", "n"}
    BY <1>1 DEF RestInv, Typed
  <1>3. CASE final' = (IF tx.open THEN [final EXCEPT !.outcome = "rolledback"] ELSE final) /\ db' = db
    <2>1. /\ final'.keys = final.keys /\ db' \in Table
          /\ final' \in [outcome : {"none", "committed", "rolledback", "unknown"}, keys : SUBSET Keys]
      BY <1>3 DEF RestInv, Typed
    <2> QED BY <1>1, <1>2, <2>1, EndsOK
  <1>4. CASE pc = "commit" /\ tx.open /\ db' = Overlay(tx.own, db) /\ final' = [outcome |-> "unknown", keys |-> tx.touched]
    <2>1. /\ final'.keys = tx.touched /\ Made
          /\ final' \in [outcome : {"none", "committed", "rolledback", "unknown"}, keys : SUBSET Keys]
      BY <1>4 DEF RestInv, Typed, Transacted, Made
    <2> QED BY <1>1, <1>2, <1>4, <2>1, OverlayIs, EndsOK
  <1> QED BY <1>3, <1>4 DEF Disconnect

\* Another transaction's write changes the table and nothing of the request.
LEMMA OtherOK == RestInv /\ (Other \/ UNCHANGED vars) => RestInv'
  <1> SUFFICES ASSUME RestInv, Other \/ UNCHANGED vars PROVE RestInv'
    OBVIOUS
  <1>1. /\ UNCHANGED <<h, cfg, pc, role, tx, out, resp, final>> /\ others' \in Nat
        /\ others' # 0 \/ UNCHANGED <<db, others>>
    BY DEF Other, vars, RestInv, Typed
  <1>2. db' \in Table
    <2>1. CASE Other
      <3>1. PICK k \in Keys, v \in {"absent", "old"} : db' = [db EXCEPT ![k] = v]
        BY <2>1 DEF Other
      <3> QED BY <3>1 DEF RestInv, Typed, Table, Version
    <2>2. CASE UNCHANGED vars
      BY <2>2 DEF vars, RestInv, Typed
    <2> QED BY <2>1, <2>2
  <1>3. /\ act' = act /\ RequestError' = RequestError /\ Renders' = Renders /\ Caller' = Caller
        /\ WhereError(h, act)' = WhereError(h, act)
    BY <1>1, Frame
  <1>4. Asked'
    BY <1>1, FrameAsk DEF RestInv, Transacted, Asked
  <1>5. KeptRows' = KeptRows /\ (ReadPages => ReadPages')
    BY <1>1, FrameRead
  <1>6. /\ MaxAffectedError' = MaxAffectedError /\ PutError' = PutError /\ RangeError' = RangeError
        /\ Window' = Window /\ ResultStatus' = ResultStatus
    BY <1>1, FrameOut
  <1>7. Formats => Formats'
    BY <1>1, <1>3 DEF Formats
  <1>8. Typed'
    BY <1>1, <1>2 DEF RestInv, Typed
  <1>9. Underway'
    BY <1>1, <1>3 DEF RestInv, Underway, Answered
  <1>10. Transacted'
    BY <1>1, <1>3, <1>4, <1>6 DEF RestInv, Transacted, Ran, Answered, NoWrites
  <1>11. Responded'
    BY <1>1, <1>3, <1>6, <1>7 DEF RestInv, Responded, Made, Answered
  <1>12. ReadFrom'
    <2>1. others' = 0 => others = 0 /\ db' = db
      BY <1>1
    <2> QED BY <1>1, <1>3, <1>5, <2>1 DEF RestInv, ReadFrom, Ran, Answered
  <1> QED BY <1>8, <1>9, <1>10, <1>11, <1>12 DEF RestInv

LEMMA RestStep == RestInv /\ [Next]_vars => RestInv'
  <1> SUFFICES ASSUME RestInv, [Next]_vars PROVE RestInv'
    OBVIOUS
  <1>1. CASE Step
    BY <1>1, AuthenticateOK, ReadBodyOK, ParseOK, NegotiateOK, BeginOK, FlightOK, CheckSettingsOK, CountOK,
       CheckResultOK, RenderOK, CommitReadOK, FormatOK, CommitLastOK DEF Step
  <1>2. CASE ConnectionLost
    BY <1>2, RefuseOK DEF ConnectionLost
  <1> QED BY <1>1, <1>2, DisconnectOK, OtherOK DEF Next

LEMMA RestInit == Init => RestInv
  <1> SUFFICES ASSUME Init PROVE RestInv
    OBVIOUS
  <1>1. /\ h \in Request /\ cfg \in Config /\ db \in Table /\ pc = "authenticate"
        /\ tx = [open |-> FALSE, snap |-> db, own |-> NoWrites, touched |-> {}]
        /\ out = [rows |-> {}, created |-> {}, total |-> None, calls |-> 0]
        /\ resp = NoResponse /\ others = 0 /\ final = [outcome |-> "none", keys |-> {}]
    BY ConfigsAssumption DEF Init
  <1>2. NoWrites \in [Keys -> Version \cup {"same"}]
    BY DEF NoWrites
  <1>3. Typed
    BY <1>1, <1>2 DEF Typed, Labels, NoResponse
  <1>4. Underway
    BY <1>1 DEF Underway, Answered, NoResponse
  <1>5. Asked
    BY <1>1 DEF Asked, AsAsked
  <1>6. Transacted
    BY <1>1, <1>5 DEF Transacted, Ran, Answered
  <1>7. Responded /\ ReadFrom
    BY <1>1 DEF Responded, ReadFrom, Made, Ran, Answered
  <1> QED BY <1>3, <1>4, <1>6, <1>7 DEF RestInv

LEMMA RestInvariant == Spec => []RestInv
  BY RestInit, RestStep, PTL DEF Spec

-----------------------------------------------------------------------------
(* The theorems *)

\* For every request, configuration and table, and whoever writes meanwhile: a
\* request the client is told failed has written nothing, unless its COMMIT broke,
\* and one it is told succeeded has committed (process_request).
THEOREM Answers == Spec => []AnswerIsTrue
  <1>1. RestInv => AnswerIsTrue
    <2> SUFFICES ASSUME RestInv PROVE AnswerIsTrue
      OBVIOUS
    <2>1. SuccessIsCommitted
      BY DEF RestInv, Transacted, Ran, SuccessIsCommitted
    <2>2. RefusedWritesNothing
      BY DEF RestInv, Transacted, RefusedWritesNothing, Answered
    <2> QED BY <2>1, <2>2 DEF AnswerIsTrue
  <1> QED BY <1>1, RestInvariant, PTL

\* A cardinality that is at least one has a member, and of a set within a
\* singleton it is that set.
LEMMA OneOf ==
    ASSUME NEW S, S \subseteq Keys, Cardinality(S) = 1
    PROVE  S # {}
  BY FS_EmptySet

\* For every request: what is written is what the caller asked for and may
\* write (build_mutation_where, validate_put, check_max_affected, format_response).
THEOREM Written == Spec => []WritesAsAsked
  <1>1. RestInv => WritesAsAsked
    <2> SUFFICES ASSUME RestInv PROVE WritesAsAsked
      OBVIOUS
    <2>0. /\ AsAsked(tx.touched, out.rows) /\ h \in Request /\ cfg \in Config
          /\ final.keys \in {{}, tx.touched} /\ tx.touched \subseteq Keys /\ out.rows \subseteq Keys
      BY DEF RestInv, Typed, Transacted, Asked
    <2>1. ReadsWriteNothing
      BY <2>0 DEF AsAsked, ReadsWriteNothing
    <2>2. CallerPrivileges
      <3>1. IsMutation(act) /\ final.keys # {} => Caller \in Writers
        BY <2>0 DEF AsAsked
      <3>2. pc = "flight" => role = Caller /\ RequestError = "ok" /\ act.kind # "info"
        BY DEF RestInv, Underway
      <3>3. pc = "flight" => readOnly = (h.method \in {"GET", "HEAD"})
        <4> SUFFICES ASSUME pc = "flight" PROVE readOnly = (h.method \in {"GET", "HEAD"})
          OBVIOUS
        <4>1. readOnly <=> h.method \in {"GET", "HEAD"}
          BY <2>0, <3>2, KindIs
        <4>2. readOnly \in BOOLEAN
          BY DEF readOnly, IsReadOnly
        <4> QED BY <4>1, <4>2
      <3>4. PICK s : s = Session("prerequest")
        OBVIOUS
      <3>5. s.role = role /\ s.ro = readOnly
        BY <3>4, QuerySession
      <3>6. pc = "flight" => s.role = role /\ s.ro = (h.method \in {"GET", "HEAD"})
        BY <3>3, <3>5, Zenon
      <3> QED BY <3>1, <3>4, <3>6, Zenon DEF CallerPrivileges, Caller
    <2>3. WriteWithinFilter
      <3>1. h.method \in {"PATCH", "DELETE"} => \A k \in final.keys : Satisfies(k, FiltersOf(h))
        BY <2>0 DEF AsAsked
      <3>2. ASSUME h.method = "PUT", Answered, h.body.cols # {}, ~Rendered(h, act)
            PROVE  \E k \in Keys : final.keys = {k} /\ Satisfies(k, FiltersOf(h))
        <4>0. RequestError = "ok"
          BY <3>2 DEF RestInv, Underway
        <4>1. act.kind = "mut" /\ act.mutation = "upsert"
          BY <2>0, <3>2, <4>0, PutKind
        <4>2. IsUpsert(act) /\ IsMutation(act)
          BY <4>1 DEF IsUpsert, IsMutation
        <4>3. Ran /\ Made /\ ~Renders
          BY <3>2, <4>1 DEF Ran, Made, Renders
        <4>4. final.keys = tx.touched /\ PutError = "ok"
          BY <3>2, <4>3 DEF RestInv, Transacted, Responded
        <4>5. Cardinality(out.rows) = 1
          BY <4>2, <4>4 DEF PutError
        <4>6. out.rows # {} /\ out.rows \subseteq tx.touched
          BY <2>0, <4>2, <4>5, OneOf DEF AsAsked
        <4>7. \A k \in tx.touched : Satisfies(k, FiltersOf(h))
          BY <2>0, <3>2 DEF AsAsked
        <4>8. PICK k \in Keys : \A j : Satisfies(j, FiltersOf(h)) => j = k
          BY <2>0, <4>0, <4>2, PutNames
        <4>9. tx.touched = {k} /\ Satisfies(k, FiltersOf(h))
          BY <4>6, <4>7, <4>8
        <4> QED BY <4>4, <4>9
      <3> QED BY <3>1, <3>2 DEF WriteWithinFilter
    <2>4. MaxAffectedHolds
      <3> SUFFICES ASSUME h.prefer.max # None, h.prefer.strict, IsMutation(act), Unranged, ~Rendered(h, act),
                          final.keys # {}
                   PROVE  Cardinality(final.keys) <= h.prefer.max
        BY DEF MaxAffectedHolds
      <3>1. h.prefer.max \in Int
        BY <2>0 DEF Request, Preferences
      <3>2. MaxAffectedError = "ok"
        BY DEF RestInv, Transacted, Renders
      <3>3. final.keys = out.rows
        BY <2>0 DEF AsAsked
      <3>4. Cardinality(out.rows) \in Nat
        BY <2>0, KeysAssumption, FS_Subset, FS_CardinalityType
      <3>5. ~(Cardinality(out.rows) > h.prefer.max)
        BY <3>2 DEF MaxAffectedError
      <3> QED BY <3>1, <3>3, <3>4, <3>5
    <2>5. OneObjectOneRow
      <3> SUFFICES ASSUME Answered, h.accept[1] = "object", IsMutation(act), Unranged, ~Rendered(h, act)
                   PROVE  Cardinality(final.keys) = 1
        BY DEF OneObjectOneRow
      <3>1. Ran /\ Made /\ ~Renders
        BY DEF Ran, Made, Renders, IsMutation
      <3>2. final.keys = tx.touched /\ resp.n = Cardinality(out.rows) /\ Formats
        BY <3>1 DEF RestInv, Transacted, Responded
      <3>3. resp.n = 1
        BY <3>2 DEF Formats, FormatError, SingularError
      <3> QED BY <2>0, <3>2, <3>3 DEF AsAsked
    <2> QED BY <2>1, <2>2, <2>3, <2>4, <2>5 DEF WritesAsAsked
  <1> QED BY <1>1, RestInvariant, PTL

\* An answered read: what it returned is its page of the rows it is about.
LEMMA AnsweredRead ==
    ASSUME RestInv, Answered, act.kind = "read", TrimmedBeforePaged
    PROVE  LET kept == Cardinality(KeptRows)
               left == IF Skipped(PageRange) > kept THEN 0 ELSE kept - Skipped(PageRange)
           IN /\ kept \in Nat /\ PageRange.offset \in Int /\ PageRange.limit \in Nat \cup {None}
              /\ resp.n = Cardinality(out.rows)
              /\ resp.n = IF PageRange.limit = None \/ PageRange.limit > left THEN left ELSE PageRange.limit
  <1>1. Ran /\ Made
    BY DEF Ran, Made
  <1>2. WhereError(h, act) = "ok" /\ ReadPages /\ RequestError = "ok" /\ resp.n = Cardinality(out.rows)
    BY <1>1 DEF RestInv, ReadFrom, Underway, Responded
  <1>3. PICK a, t, r, K : a = act /\ t = tx.snap /\ r = PageRange /\ K = Kept(tx.snap)
    OBVIOUS
  <1>4. r.offset \in Int /\ r.limit \in Nat \cup {None}
    BY <1>2, <1>3, RangeIs DEF RestInv, Typed
  <1>5. out.rows = Page(Kept(t), r)
    <2>1. r = Unpaged \/ \A f \in FiltersOf(h) : ~NamesEmbed(f)
      BY <1>3 DEF TrimmedBeforePaged
    <2>2. a.kind = "read" /\ WhereError(h, a) = "ok" /\ out.rows = PageThenTrim(h, a, Matching(h, a, t), r)
      BY <1>2, <1>3 DEF ReadPages
    <2> QED BY <2>1, <2>2, ReadPage
  <1>6. K \subseteq Nat /\ IsFiniteSet(K) /\ out.rows = Page(K, r) /\ K = KeptRows
    BY <1>3, <1>5, KeptIs DEF KeptRows
  <1>7. PICK c, o, l : c = Cardinality(K) /\ o = Skipped(r) /\ l = r.limit
    OBVIOUS
  <1>8. c \in Nat
    BY <1>6, <1>7, FS_CardinalityType
  <1>9. Cardinality(Page(K, r)) = LET left == IF o > c THEN 0 ELSE c - o
                                  IN IF l = None \/ l > left THEN left ELSE l
    BY <1>4, <1>6, <1>7, PageCount
  <1> QED BY <1>2, <1>3, <1>4, <1>6, <1>7, <1>8, <1>9

\* For every request: the page a read answers with is the window asked for, and
\* the range reported is that of the total counted, when nobody wrote meanwhile
\* or the transaction reads one snapshot, and the status is the range's unless the
\* pre-request function set one (build_where_clauses, resolve_count, ContentRange,
\* guc_status).
THEOREM Described == Spec => []ResponseDescribesRows
  <1>1. RestInv => ResponseDescribesRows
    <2> SUFFICES ASSUME RestInv PROVE ResponseDescribesRows
      OBVIOUS
    <2>1. PageIsTheWindow
      <3> SUFFICES ASSUME act.kind = "read", Answered, TrimmedBeforePaged
                   PROVE  LET kept == Cardinality(Kept(tx.snap))
                              left == IF Skipped(PageRange) > kept THEN 0 ELSE kept - Skipped(PageRange)
                          IN resp.n = IF PageRange.limit = None \/ PageRange.limit > left THEN left ELSE PageRange.limit
        BY Zenon DEF PageIsTheWindow, Kept
      <3> QED BY AnsweredRead DEF KeptRows
    <2>2. WindowWithinTotal
      <3> SUFFICES ASSUME Answered, act.kind = "read", h.prefer.count = "exact", ~Rendered(h, act),
                          others = 0 \/ cfg.isolation = "rr", TrimmedBeforePaged
                   PROVE  /\ resp.n > 0 => resp.window.end < resp.window.total
                          /\ IF cfg.preRequest = "status" THEN resp.status = GucStatus
                             ELSE (resp.status = 206) <=> (resp.n < resp.window.total)
        BY DEF WindowWithinTotal
      <3>1. Made /\ ~Renders
        BY DEF Made, Renders
      <3>2. /\ RangeError = "ok" /\ resp.window = Window /\ resp.status = ResultStatus
            /\ out.total = Cardinality(KeptRows)
        BY <3>1 DEF RestInv, Responded, ReadFrom
      <3>3. PICK c, o, l, n : c = Cardinality(KeptRows) /\ o = PageRange.offset /\ l = PageRange.limit /\ n = resp.n
        OBVIOUS
      <3>4. /\ c \in Nat /\ o \in Int /\ l \in Nat \cup {None} /\ n = Cardinality(out.rows)
            /\ n = LET skip == IF o > 0 THEN o ELSE 0
                       left == IF skip > c THEN 0 ELSE c - skip
                   IN IF l = None \/ l > left THEN left ELSE l
        BY <3>3, AnsweredRead DEF Skipped
      <3>5. n \in Nat /\ (n > 0 => o + n <= c)
        BY <3>4 DEF None
      <3>6. Window = ContentRange(o, o + n - 1, c)
        BY <3>2, <3>3, <3>4 DEF Window, FromPagination, IsMutation
      <3>7. Window.start = o /\ Window.end = o + n - 1 /\ Window.total = c
        BY <3>6 DEF ContentRange
      <3>8. RangeStatus(Window) # 416
        BY <3>2 DEF RangeError, IsMutation
      <3>9. ResultStatus = IF cfg.preRequest = "status" THEN GucStatus ELSE RangeStatus(Window)
        BY DEF ResultStatus, StatusSetting, OwnSetting, ReturnsVoid, IsCall, IsMutation
      <3>10. ~(o > c) /\ RangeStatus(Window) = IF 1 + (o + n - 1) - o < c THEN 206 ELSE 200
        BY <3>4, <3>5, <3>7, <3>8 DEF RangeStatus, None
      <3>11. (RangeStatus(Window) = 206) <=> n < c
        BY <3>4, <3>5, <3>10
      <3>12. n > 0 => o + n - 1 < c
        BY <3>4, <3>5
      <3> QED BY <3>2, <3>3, <3>7, <3>9, <3>11, <3>12
    <2> QED BY <2>1, <2>2 DEF ResponseDescribesRows
  <1> QED BY <1>1, RestInvariant, PTL

-----------------------------------------------------------------------------
(* Relationships *)

Cardinalities == {"many-to-one", "one-to-many", "one-to-one", "many-to-many", "computed-one", "computed-many"}

\* A name, and the name of what has none.
Names == STRING \cup {Unnamed}

Passes == {"keys", "junctions", "views", "viewKeys"}

Relationship ==
    [card : Cardinalities, table : QualifiedIdentifier, far : QualifiedIdentifier, self : BOOLEAN,
     constraint : Names, cols : Pairs, via : QualifiedIdentifier \cup {NoTable}, c1 : Names, c2 : Names,
     tgt : Pairs, farView : BOOLEAN, fn : Names, by : Passes]

LEMMA UnnamedName == Unnamed \in Names
  BY DEF Names

\* A join read from its other end.
LEMMA SwapPairs ==
    ASSUME NEW cols \in Pairs
    PROVE  /\ Swap(cols) \in Pairs /\ Len(Swap(cols)) = Len(cols)
           /\ \A i \in 1..Len(cols) : Swap(cols)[i] = <<cols[i][2], cols[i][1]>>
           /\ Swap(Swap(cols)) = cols
           /\ Swap(cols) = <<>> <=> cols = <<>>
           /\ Firsts(Swap(cols)) = Seconds(cols) /\ Seconds(Swap(cols)) = Firsts(cols)
  <1>1. Len(cols) \in Nat /\ \A i \in 1..Len(cols) : cols[i] \in STRING \X STRING
    BY DEF Pairs
  <1>2. /\ Swap(cols) \in Pairs /\ Len(Swap(cols)) = Len(cols)
        /\ \A i \in 1..Len(cols) : Swap(cols)[i] = <<cols[i][2], cols[i][1]>>
    BY <1>1 DEF Swap, Pairs
  <1>3. Swap(Swap(cols)) = cols
    <2>1. \A i \in 1..Len(cols) : cols[i] = <<cols[i][1], cols[i][2]>>
      BY <1>1
    <2>2. Swap(Swap(cols)) = [i \in 1..Len(cols) |-> cols[i]]
      BY <1>2, <2>1 DEF Swap
    <2> QED BY <2>2 DEF Pairs
  <1>4. Swap(cols) = <<>> <=> cols = <<>>
    BY <1>2 DEF Pairs
  <1> QED BY <1>2, <1>3, <1>4 DEF Firsts, Seconds

\* The relationship a foreign key or a function gives.
LEMMA RelType ==
    ASSUME NEW table \in QualifiedIdentifier, NEW far \in QualifiedIdentifier, NEW card \in Cardinalities,
           NEW constraint \in Names, NEW cols \in Pairs
    PROVE  /\ Rel(table, far, card, constraint, cols) \in Relationship
           /\ Rel(table, far, card, constraint, cols).table = table
           /\ Rel(table, far, card, constraint, cols).far = far
           /\ Rel(table, far, card, constraint, cols).card = card
           /\ Rel(table, far, card, constraint, cols).constraint = constraint
           /\ Rel(table, far, card, constraint, cols).cols = cols
           /\ Rel(table, far, card, constraint, cols).tgt = <<>>
           /\ Rel(table, far, card, constraint, cols).via = NoTable
           /\ Rel(table, far, card, constraint, cols).by = "keys"
  <1>1. <<>> \in Pairs
    BY DEF Pairs
  <1> QED BY <1>1 DEF Rel, Relationship, Names, Passes

-----------------------------------------------------------------------------
(* The invariant *)

\* r joins on columns that are there.
Joins(r) ==
    /\ \A i \in 1..Len(r.cols) :
         /\ r.cols[i][1] \in ColumnsOf(r.table)
         /\ r.cols[i][2] \in ColumnsOf(IF r.card = "many-to-many" THEN r.via ELSE r.far)
    /\ \A i \in 1..Len(r.tgt) : r.tgt[i][1] \in ColumnsOf(r.via) /\ r.tgt[i][2] \in ColumnsOf(r.far)

\* What r is from its other end.
Opposite(card) ==
    IF card = "many-to-one" THEN "one-to-many" ELSE IF card = "one-to-many" THEN "many-to-one" ELSE card

IsBack(b, r) ==
    /\ b.table = r.far /\ b.far = r.table /\ b.constraint = r.constraint /\ b.card = Opposite(r.card)
    /\ b.via = r.via /\ b.by = r.by
    /\ IF r.card = "many-to-many" THEN b.cols = Swap(r.tgt) /\ b.tgt = Swap(r.cols) /\ b.c1 = r.c2 /\ b.c2 = r.c1
       ELSE b.cols = Swap(r.cols)

Views == {VC[i].view : i \in 1..Len(VC)}

\* The relationships of S are real, and each has its way back in S.
Sound(S) ==
    /\ S \subseteq Relationship
    /\ \A r \in S : Joins(r)
    /\ \A r \in S : Computed(r) => r.cols = <<>>
    /\ \A r \in S : r.card # "many-to-many" => r.tgt = <<>>
    /\ \A r \in {s \in S : ~Computed(s)} : \E b \in S : IsBack(b, r)

\* A junction is exposed, and a key leads out of a view only if the view is.
Exposed(S) ==
    /\ \A r \in S : r.card = "many-to-many" => r.via \in catalog.exposed

KeysExposed(S) ==
    \A r \in S : IsToOne(r) /\ ~Computed(r) /\ r.table \in Views => r.table \in catalog.exposed

CatalogInv ==
    /\ catalog \in Catalogs
    /\ Sound(rels) /\ KeysExposed(rels)
    /\ pass \in {"views", "viewKeys", "loaded"} => Exposed(rels)

\* A pass changes the relationships and nothing they are over.
LEMMA PassInv ==
    ASSUME CatalogInv, catalog' = catalog, Sound(rels'), KeysExposed(rels'),
           pass' \in {"views", "viewKeys", "loaded"} => Exposed(rels')
    PROVE  CatalogInv'
  BY DEF CatalogInv, Sound, KeysExposed, Exposed, Joins, ColumnsOf, Views, VC

LEMMA UnionSound ==
    ASSUME NEW S, Sound(S), NEW T, Sound(T)
    PROVE  Sound(S \cup T)
  BY DEF Sound

-----------------------------------------------------------------------------
(* Loading the keys *)

LEMMA KeySound ==
    ASSUME catalog \in Catalogs, NEW k \in catalog.fks
    PROVE  Sound(BothWays(k)) /\ KeysExposed(BothWays(k))
  <1> DEFINE many == Rel(k.table, k.far, IF k.unique THEN "one-to-one" ELSE "many-to-one", k.name, k.cols)
             one == Rel(k.far, k.table, IF k.unique THEN "one-to-one" ELSE "one-to-many", k.name, Swap(k.cols))
  <1>1. /\ k.table \in QualifiedIdentifier /\ k.far \in QualifiedIdentifier /\ k.name \in Names /\ k.cols \in Pairs
        /\ \A i \in 1..Len(k.cols) : k.cols[i][1] \in ColumnsOf(k.table) /\ k.cols[i][2] \in ColumnsOf(k.far)
        /\ k.table \notin Views /\ k.far \notin Views
    BY CatalogAssumption DEF IsCatalog, ColumnsOf, Names, Views, VC
  <1>2. /\ Swap(k.cols) \in Pairs /\ Len(Swap(k.cols)) = Len(k.cols)
        /\ \A i \in 1..Len(k.cols) : Swap(k.cols)[i] = <<k.cols[i][2], k.cols[i][1]>>
        /\ Swap(Swap(k.cols)) = k.cols
    BY <1>1, SwapPairs
  <1>3. /\ many \in Relationship /\ many.table = k.table /\ many.far = k.far /\ many.constraint = k.name
        /\ many.card = (IF k.unique THEN "one-to-one" ELSE "many-to-one")
        /\ many.cols = k.cols /\ many.tgt = <<>> /\ many.via = NoTable /\ many.by = "keys"
    BY <1>1, RelType DEF Cardinalities
  <1>4. /\ one \in Relationship /\ one.table = k.far /\ one.far = k.table /\ one.constraint = k.name
        /\ one.card = (IF k.unique THEN "one-to-one" ELSE "one-to-many")
        /\ one.cols = Swap(k.cols) /\ one.tgt = <<>> /\ one.via = NoTable /\ one.by = "keys"
    BY <1>1, <1>2, RelType DEF Cardinalities
  <1>5. BothWays(k) = {many, one}
    BY DEF BothWays
  <1> HIDE DEF many, one
  <1>6. Joins(many)
    BY <1>1, <1>3 DEF Joins
  <1>7. Joins(one)
    BY <1>1, <1>2, <1>4 DEF Joins
  <1>8. IsBack(one, many) /\ IsBack(many, one)
    BY <1>2, <1>3, <1>4 DEF IsBack, Opposite
  <1>9. Sound(BothWays(k))
    BY <1>3, <1>4, <1>5, <1>6, <1>7, <1>8 DEF Sound, Computed
  <1>10. KeysExposed(BothWays(k))
    BY <1>1, <1>3, <1>4, <1>5 DEF KeysExposed
  <1> QED BY <1>9, <1>10

LEMMA FunctionSound ==
    ASSUME catalog \in Catalogs, NEW f \in catalog.functions
    PROVE  Sound({ComputedRel(f)}) /\ Computed(ComputedRel(f))
  <1> DEFINE r == Rel(f.table, f.far, IF f.toOne THEN "computed-one" ELSE "computed-many", Unnamed, <<>>)
             c == ComputedRel(f)
  <1>1. f.table \in QualifiedIdentifier /\ f.far \in QualifiedIdentifier /\ f.name \in Names /\ <<>> \in Pairs
    BY CatalogAssumption DEF IsCatalog, Names, Pairs
  <1>2. /\ r \in Relationship /\ r.card = (IF f.toOne THEN "computed-one" ELSE "computed-many")
        /\ r.cols = <<>> /\ r.tgt = <<>>
    BY <1>1, RelType, UnnamedName DEF Cardinalities
  <1>3. c = [r EXCEPT !.fn = f.name]
    BY DEF ComputedRel
  <1> HIDE DEF r, c
  <1>4. c \in Relationship /\ c.card = r.card /\ c.cols = <<>> /\ c.tgt = <<>>
    BY <1>1, <1>2, <1>3 DEF Relationship
  <1>5. Computed(c) /\ Joins(c)
    BY <1>2, <1>4 DEF Computed, Joins
  <1> QED BY <1>4, <1>5 DEF Sound, c

LEMMA LoadInv == ASSUME CatalogInv, LoadRelationships PROVE CatalogInv'
  <1> DEFINE keys == UNION {BothWays(k) : k \in catalog.fks}
             functions == {ComputedRel(f) : f \in catalog.functions}
  <1>1. catalog \in Catalogs /\ catalog' = catalog /\ rels' = keys \cup functions /\ pass' = "junctions"
    BY DEF LoadRelationships, CatalogInv
  <1>2. Sound(keys) /\ KeysExposed(keys)
    BY <1>1, KeySound DEF Sound, KeysExposed
  <1>3. Sound(functions) /\ \A r \in functions : Computed(r)
    BY <1>1, FunctionSound DEF Sound
  <1> HIDE DEF keys, functions
  <1>4. Sound(rels')
    BY <1>1, <1>2, <1>3, UnionSound
  <1>5. KeysExposed(rels')
    BY <1>1, <1>2, <1>3 DEF KeysExposed
  <1> QED BY <1>1, <1>4, <1>5, PassInv

-----------------------------------------------------------------------------
(* Junctions *)

\* Both ends of what goes through a junction get the relationship.
LEMMA JunctionsSound ==
    ASSUME Sound(rels), pass \in Passes, NEW keys
    PROVE  /\ Sound(Junctions(keys))
           /\ \A r \in Junctions(keys) :
                /\ r.card = "many-to-many"
                /\ \E near \in rels : Enters(near, keys) /\ r.via = near.table
  <1>1. ASSUME NEW near \in rels, NEW far \in rels, Enters(near, keys), Enters(far, keys),
               near.table = far.table, NEW r, r = ManyToMany(near, far)
        PROVE  /\ r \in Relationship /\ Joins(r) /\ r.card = "many-to-many" /\ r.constraint = Unnamed
               /\ r.table = near.far /\ r.far = far.far /\ r.via = near.table
               /\ r.cols = Swap(near.cols) /\ r.tgt = far.cols /\ r.c1 = near.constraint /\ r.c2 = far.constraint
               /\ near.cols \in Pairs /\ far.cols \in Pairs /\ r.by = pass
    <2> DEFINE base == Rel(near.far, far.far, "many-to-many", Unnamed, Swap(near.cols))
    <2>1. near \in Relationship /\ far \in Relationship /\ Joins(near) /\ Joins(far)
      BY <1>1 DEF Sound
    <2>2. /\ near.far \in QualifiedIdentifier /\ far.far \in QualifiedIdentifier /\ near.table \in QualifiedIdentifier
          /\ near.cols \in Pairs /\ far.cols \in Pairs /\ near.constraint \in Names /\ far.constraint \in Names
      BY <2>1 DEF Relationship
    <2>3. /\ Swap(near.cols) \in Pairs /\ Len(Swap(near.cols)) = Len(near.cols)
          /\ \A i \in 1..Len(near.cols) : Swap(near.cols)[i] = <<near.cols[i][2], near.cols[i][1]>>
      BY <2>2, SwapPairs
    <2>4. /\ base \in Relationship /\ base.table = near.far /\ base.far = far.far /\ base.card = "many-to-many"
          /\ base.constraint = Unnamed /\ base.cols = Swap(near.cols)
      <3>1. "many-to-many" \in Cardinalities /\ Swap(near.cols) \in Pairs
        BY <2>3 DEF Cardinalities
      <3> QED BY <2>2, <3>1, RelType, UnnamedName
    <2>5. r = [base EXCEPT !.self = FALSE, !.via = near.table, !.c1 = near.constraint, !.c2 = far.constraint, !.tgt = far.cols,
                        !.by = pass]
      BY <1>1 DEF ManyToMany
    <2> HIDE DEF base
    <2>6. /\ r \in Relationship /\ r.card = "many-to-many" /\ r.constraint = Unnamed
          /\ r.table = near.far /\ r.far = far.far /\ r.via = near.table
          /\ r.cols = Swap(near.cols) /\ r.tgt = far.cols /\ r.c1 = near.constraint /\ r.c2 = far.constraint
          /\ r.by = pass
      BY <2>2, <2>4, <2>5 DEF Relationship
    <2>7. near.card # "many-to-many" /\ far.card # "many-to-many"
      BY <1>1 DEF Enters, IsToOne
    <2>8. Joins(r)
      BY <1>1, <2>1, <2>3, <2>6, <2>7 DEF Joins
    <2> QED BY <2>2, <2>6, <2>8
  <1>2. ASSUME NEW r \in Junctions(keys)
        PROVE  \E near \in rels, far \in rels :
                 /\ Enters(near, keys) /\ Enters(far, keys) /\ near.table = far.table
                 /\ r = ManyToMany(near, far) /\ ManyToMany(far, near) \in Junctions(keys)
    <2> DEFINE pairs == {q \in rels \X rels : /\ Enters(q[1], keys) /\ Enters(q[2], keys)
                                           /\ q[1].table = q[2].table /\ q[1].far # q[2].far}
    <2>1. Junctions(keys) = {ManyToMany(p[1], p[2]) : p \in pairs}
      BY DEF Junctions
    <2>2. PICK p \in pairs : r = ManyToMany(p[1], p[2])
      BY <1>2, <2>1
    <2>3. <<p[2], p[1]>> \in pairs
      BY <2>2
    <2>4. ManyToMany(p[2], p[1]) \in Junctions(keys)
      <3> HIDE DEF pairs
      <3> QED BY <2>1, <2>3
    <2> QED BY <2>2, <2>4
  <1>3. ASSUME NEW r \in Junctions(keys)
        PROVE  /\ r \in Relationship /\ Joins(r) /\ r.card = "many-to-many"
               /\ \E near \in rels : Enters(near, keys) /\ r.via = near.table
               /\ \E b \in Junctions(keys) : IsBack(b, r)
    <2>1. PICK near \in rels, far \in rels :
                 /\ Enters(near, keys) /\ Enters(far, keys) /\ near.table = far.table
                 /\ r = ManyToMany(near, far) /\ ManyToMany(far, near) \in Junctions(keys)
      BY <1>2, <1>3
    <2> DEFINE b == ManyToMany(far, near)
    <2>2. /\ r \in Relationship /\ Joins(r) /\ r.card = "many-to-many" /\ r.constraint = Unnamed
          /\ r.table = near.far /\ r.far = far.far /\ r.via = near.table
          /\ r.cols = Swap(near.cols) /\ r.tgt = far.cols /\ r.c1 = near.constraint /\ r.c2 = far.constraint
          /\ near.cols \in Pairs /\ far.cols \in Pairs /\ r.by = pass
      BY <1>1, <2>1
    <2>3. /\ b.card = "many-to-many" /\ b.constraint = Unnamed
          /\ b.table = far.far /\ b.far = near.far /\ b.via = far.table
          /\ b.cols = Swap(far.cols) /\ b.tgt = near.cols /\ b.c1 = far.constraint /\ b.c2 = near.constraint
          /\ b.by = pass
      BY <1>1, <2>1
    <2>4. Swap(Swap(near.cols)) = near.cols
      BY <2>2, SwapPairs
    <2> HIDE DEF b
    <2>5. IsBack(b, r)
      BY <2>1, <2>2, <2>3, <2>4 DEF IsBack, Opposite
    <2> QED BY <2>1, <2>2, <2>5 DEF b
  <1>4. \A r \in Junctions(keys) : ~Computed(r)
    BY <1>3 DEF Computed
  <1> QED BY <1>3, <1>4 DEF Sound

LEMMA AddJunctionsInv == ASSUME CatalogInv, AddJunctions PROVE CatalogInv'
  <1> DEFINE new == Junctions(catalog.keys)
  <1>1. catalog' = catalog /\ rels' = rels \cup new /\ pass' = "hidden" /\ Sound(rels) /\ KeysExposed(rels)
    BY DEF AddJunctions, CatalogInv
  <1>2. Sound(new) /\ \A r \in new : r.card = "many-to-many"
    <2>1. pass \in Passes
      BY DEF AddJunctions, Passes
    <2> QED BY <1>1, <2>1, JunctionsSound
  <1> HIDE DEF new
  <1>3. Sound(rels')
    BY <1>1, <1>2, UnionSound
  <1>4. KeysExposed(rels')
    BY <1>1, <1>2 DEF KeysExposed, IsToOne
  <1> QED BY <1>1, <1>3, <1>4, PassInv

\* A view joined through by its own key: the key leads out of it, so it is exposed.
LEMMA AddViewJunctionsInv == ASSUME CatalogInv, AddViewJunctions PROVE CatalogInv'
  <1>1. PICK choice : /\ rels' = rels \cup Junctions(ViewKeys(choice))
                      /\ DOMAIN choice \subseteq Views
    BY DEF AddViewJunctions, Views
  <1> DEFINE new == Junctions(ViewKeys(choice))
  <1>2. /\ catalog' = catalog /\ pass' = "loaded" /\ Sound(rels) /\ KeysExposed(rels) /\ Exposed(rels)
        /\ pass \in Passes
    BY DEF AddViewJunctions, CatalogInv, Passes
  <1>3. /\ Sound(new)
        /\ \A r \in new : r.card = "many-to-many" /\ \E near \in rels : Enters(near, ViewKeys(choice)) /\ r.via = near.table
    BY <1>2, JunctionsSound
  <1>4. ASSUME NEW near \in rels, Enters(near, ViewKeys(choice)) PROVE near.table \in catalog.exposed
    <2>1. near.table \in Views /\ IsToOne(near) /\ near.cols # <<>>
      BY <1>1, <1>4 DEF Enters, ViewKeys
    <2>2. ~Computed(near)
      BY <1>2, <2>1 DEF Sound
    <2> QED BY <1>2, <2>1, <2>2 DEF KeysExposed
  <1>5. rels' = rels \cup new
    BY <1>1
  <1> HIDE DEF new
  <1>6. Sound(rels')
    BY <1>2, <1>3, <1>5, UnionSound
  <1>7. KeysExposed(rels')
    BY <1>2, <1>3, <1>5 DEF KeysExposed, IsToOne
  <1>8. Exposed(rels')
    BY <1>2, <1>3, <1>4, <1>5 DEF Exposed
  <1> QED BY <1>2, <1>6, <1>7, <1>8, PassInv

-----------------------------------------------------------------------------
(* Junctions that are not exposed *)

LEMMA ViewColumns ==
    ASSUME catalog \in Catalogs
    PROVE  /\ VC \in Seq([view : QualifiedIdentifier, base : QualifiedIdentifier, column : STRING, as : STRING])
           /\ Len(VC) \in Nat
           /\ \A i \in 1..Len(VC) : /\ VC[i].as \in ColumnsOf(VC[i].view) /\ VC[i].as \in STRING
                                    /\ VC[i].view \in QualifiedIdentifier
  <1> DEFINE Row == [view : QualifiedIdentifier, base : QualifiedIdentifier, column : STRING, as : STRING]
  <1>1. VC \in Seq(Row) /\ \A i \in 1..Len(VC) : VC[i].as \in ColumnsOf(VC[i].view)
    BY CatalogAssumption DEF IsCatalog, ColumnsOf, VC
  <1>2. Len(VC) \in Nat /\ \A i \in 1..Len(VC) : VC[i] \in Row
    <2> HIDE DEF Row
    <2> QED BY <1>1
  <1>3. \A x \in Row : x.as \in STRING /\ x.view \in QualifiedIdentifier
    OBVIOUS
  <1> QED BY <1>1, <1>2, <1>3

LEMMA LastOf ==
    ASSUME NEW n \in Nat, NEW T, T \subseteq 1..n, T # {}
    PROVE  \E x \in T : \A y \in T : y <= x
  <1> DEFINE U == {n - x : x \in T}
  <1>1. \A x \in T : n - x \in Nat
    OBVIOUS
  <1>2. U \subseteq Nat
    BY <1>1
  <1>3. U # {}
    OBVIOUS
  <1>4. PICK u \in U : \A y \in U : u <= y
    <2> HIDE DEF U
    <2> QED BY <1>2, <1>3, LeastOf
  <1>5. PICK x \in T : u = n - x
    BY <1>4
  <1>6. \A y \in T : n - y \in U
    OBVIOUS
  <1>7. \A y \in T : y <= x
    BY <1>4, <1>5, <1>6
  <1> QED BY <1>7

\* The name a view gives a column is a column of the view.
LEMMA LastNameReal ==
    ASSUME catalog \in Catalogs, NEW v, NEW base, NEW c, Carries(v, base, c) # {}
    PROVE  LastName(v, base, c) \in ColumnsOf(v) /\ LastName(v, base, c) \in STRING
  <1> DEFINE at == Carries(v, base, c)
             last == CHOOSE i \in at : \A k \in at : k <= i
  <1>1. at \subseteq 1..Len(VC) /\ Len(VC) \in Nat /\ \A i \in at : VC[i].view = v
    BY ViewColumns DEF Carries
  <1>2. \E i \in at : \A k \in at : k <= i
    <2> DEFINE n == Len(VC)
    <2>1. n \in Nat /\ at \subseteq 1..n /\ at # {}
      BY <1>1
    <2> HIDE DEF at, n
    <2> QED BY <2>1, LastOf
  <1>3. last \in at
    <2> HIDE DEF at
    <2> QED BY <1>2
  <1>4. LastName(v, base, c) = VC[last].as
    BY DEF LastName
  <1> HIDE DEF last, at
  <1> QED BY <1>1, <1>3, <1>4, ViewColumns

\* The first of the views in S that are over base.
FirstIn(S, base) ==
    LET first(v) == CHOOSE i \in 1..Len(VC) : VC[i].view = v /\ VC[i].base = base
                                              /\ \A k \in 1..(i - 1) : VC[k].view # v \/ VC[k].base # base
    IN CHOOSE v \in S : \A w \in S : first(v) <= first(w)

LEMMA FirstStandInIs == \A j : FirstStandIn(j) = FirstIn(StandIns(j), j.via)
  BY DEF FirstStandIn, FirstIn

LEMMA FirstStandInIn ==
    ASSUME catalog \in Catalogs, NEW j, StandIns(j) # {}
    PROVE  FirstStandIn(j) \in StandIns(j)
  <1> DEFINE S == StandIns(j)
             at(v) == {i \in 1..Len(VC) : VC[i].view = v /\ VC[i].base = j.via}
             IsFirst(i, v) == VC[i].view = v /\ VC[i].base = j.via
                              /\ \A k \in 1..(i - 1) : VC[k].view # v \/ VC[k].base # j.via
             first(v) == CHOOSE i \in 1..Len(VC) : IsFirst(i, v)
  <1>1. Len(VC) \in Nat
    BY ViewColumns
  <1>2. ASSUME NEW v \in S PROVE first(v) \in Nat
    <2>1. at(v) # {} /\ at(v) \subseteq Nat
      BY <1>1 DEF StandIns, ViewsOver
    <2>2. PICK i \in at(v) : \A k \in at(v) : i <= k
      <3> HIDE DEF at
      <3> QED BY <2>1, LeastOf
    <2>3. \A k \in 1..(i - 1) : k \in 1..Len(VC) /\ k \notin at(v)
      BY <1>1, <2>2
    <2>4. i \in 1..Len(VC) /\ IsFirst(i, v)
      BY <2>2, <2>3
    <2>5. first(v) \in 1..Len(VC)
      <3> HIDE DEF IsFirst
      <3> QED BY <2>4
    <2> QED BY <1>1, <2>5
  <1> DEFINE F == {first(v) : v \in S}
  <1>3. F \subseteq Nat /\ F # {}
    <2> HIDE DEF first, S
    <2> QED BY <1>2 DEF S
  <1>4. PICK m \in F : \A y \in F : m <= y
    <2> HIDE DEF F
    <2> QED BY <1>3, LeastOf
  <1>5. \E v \in S : \A w \in S : first(v) <= first(w)
    <2> HIDE DEF first
    <2> QED BY <1>4
  <1>6. FirstStandIn(j) = CHOOSE v \in S : \A w \in S : first(v) <= first(w)
    BY DEF FirstStandIn
  <1> HIDE DEF first, S
  <1>7. FirstStandIn(j) \in S
    BY <1>5, <1>6
  <1> QED BY <1>7 DEF S

\* A view stands in for a junction.
LEMMA ThroughSound ==
    ASSUME catalog \in Catalogs, NEW j \in Relationship, Joins(j), j.card = "many-to-many", NEW v \in StandIns(j),
           NEW r, r = Through(j, v)
    PROVE  /\ r \in Relationship /\ Joins(r) /\ r.card = "many-to-many" /\ r.via = v /\ v \in catalog.exposed
           /\ r.table = j.table /\ r.far = j.far /\ r.constraint = j.constraint /\ r.c1 = j.c1 /\ r.c2 = j.c2
           /\ r.by = j.by
           /\ r.cols = [i \in 1..Len(j.cols) |-> <<j.cols[i][1], LastName(v, j.via, j.cols[i][2])>>]
           /\ r.tgt = [i \in 1..Len(j.tgt) |-> <<LastName(v, j.via, j.tgt[i][1]), j.tgt[i][2]>>]
  <1> DEFINE near(i) == <<j.cols[i][1], LastName(v, j.via, j.cols[i][2])>>
             far(i) == <<LastName(v, j.via, j.tgt[i][1]), j.tgt[i][2]>>
             cols == [i \in 1..Len(j.cols) |-> near(i)]
             tgt == [i \in 1..Len(j.tgt) |-> far(i)]
  <1>1. /\ j.cols \in Pairs /\ Len(j.cols) \in Nat /\ \A i \in 1..Len(j.cols) : j.cols[i] \in STRING \X STRING
        /\ j.tgt \in Pairs /\ Len(j.tgt) \in Nat /\ \A i \in 1..Len(j.tgt) : j.tgt[i] \in STRING \X STRING
    BY DEF Relationship, Pairs
  <1>2. /\ \A i \in 1..Len(j.cols) : LastName(v, j.via, j.cols[i][2]) \in ColumnsOf(v) \cap STRING
        /\ \A i \in 1..Len(j.tgt) : LastName(v, j.via, j.tgt[i][1]) \in ColumnsOf(v) \cap STRING
    BY LastNameReal DEF StandIns
  <1>3. v \in catalog.exposed /\ v \in QualifiedIdentifier
    BY ViewColumns DEF StandIns, ViewsOver
  <1>4. cols \in Pairs /\ Len(cols) = Len(j.cols) /\ tgt \in Pairs /\ Len(tgt) = Len(j.tgt)
    <2>1. \A i \in 1..Len(j.cols) : near(i) \in STRING \X STRING
      BY <1>1, <1>2
    <2>2. \A i \in 1..Len(j.tgt) : far(i) \in STRING \X STRING
      BY <1>1, <1>2
    <2> HIDE DEF near, far
    <2>3. cols \in Pairs /\ Len(cols) = Len(j.cols)
      BY <1>1, <2>1 DEF Pairs
    <2>4. tgt \in Pairs /\ Len(tgt) = Len(j.tgt)
      BY <1>1, <2>2 DEF Pairs
    <2> QED BY <2>3, <2>4
  <1>5. r = [j EXCEPT !.via = v, !.cols = cols, !.tgt = tgt]
    BY DEF Through
  <1>6. /\ \A i \in 1..Len(j.cols) : cols[i] = <<j.cols[i][1], LastName(v, j.via, j.cols[i][2])>>
        /\ \A i \in 1..Len(j.tgt) : tgt[i] = <<LastName(v, j.via, j.tgt[i][1]), j.tgt[i][2]>>
    OBVIOUS
  <1> HIDE DEF cols, tgt
  <1>7. /\ r \in Relationship /\ r.card = "many-to-many" /\ r.via = v /\ r.cols = cols /\ r.tgt = tgt
        /\ r.table = j.table /\ r.far = j.far /\ r.constraint = j.constraint /\ r.c1 = j.c1 /\ r.c2 = j.c2
        /\ r.by = j.by
    BY <1>3, <1>4, <1>5, ZenonT(60) DEF Relationship
  <1>8. Joins(r)
    BY <1>2, <1>4, <1>6, <1>7 DEF Joins
  <1> QED BY <1>3, <1>7, <1>8 DEF cols, tgt

\* It is the same view both ways.
LEMMA SameStandIn ==
    ASSUME NEW j \in Relationship, NEW b \in Relationship, IsBack(b, j), j.card = "many-to-many"
    PROVE  StandIns(b) = StandIns(j) /\ FirstStandIn(b) = FirstStandIn(j)
  <1>1. j.cols \in Pairs /\ j.tgt \in Pairs /\ b.via = j.via /\ b.cols = Swap(j.tgt) /\ b.tgt = Swap(j.cols)
    BY DEF Relationship, IsBack
  <1>2. /\ Len(b.cols) = Len(j.tgt) /\ Len(b.tgt) = Len(j.cols)
        /\ \A i \in 1..Len(j.tgt) : b.cols[i][2] = j.tgt[i][1]
        /\ \A i \in 1..Len(j.cols) : b.tgt[i][1] = j.cols[i][2]
    BY <1>1, SwapPairs
  <1>3. StandIns(b) = StandIns(j)
    <2> DEFINE Enter(x, v) == \A i \in 1..Len(x.cols) : Carries(v, x.via, x.cols[i][2]) # {}
               Leave(x, v) == \A i \in 1..Len(x.tgt) : Carries(v, x.via, x.tgt[i][1]) # {}
    <2>1. \A v : (Enter(b, v) <=> Leave(j, v)) /\ (Leave(b, v) <=> Enter(j, v))
      BY <1>1, <1>2
    <2>2. \A x, v : v \in StandIns(x) <=> v \in ViewsOver(x.via) /\ v \in catalog.exposed /\ Enter(x, v) /\ Leave(x, v)
      BY DEF StandIns
    <2> HIDE DEF Enter, Leave
    <2> QED BY <1>1, <2>1, <2>2
  <1> QED BY <1>1, <1>3, FirstStandInIs

LEMMA SubstituteInv == ASSUME CatalogInv, SubstituteHiddenJunctions PROVE CatalogInv'
  <1> DEFINE hidden == {r \in rels : r.card = "many-to-many" /\ r.via \notin catalog.exposed}
             new == Rerouted(hidden)
             kept == rels \ hidden
  <1>1. /\ catalog \in Catalogs /\ catalog' = catalog /\ rels' = kept \cup new /\ pass' = "views"
        /\ Sound(rels) /\ KeysExposed(rels)
    BY DEF SubstituteHiddenJunctions, CatalogInv
  <1>2. Sound(kept)
    <2>1. \A r, b \in rels : IsBack(b, r) /\ r \in kept => b \in kept
      BY DEF IsBack, Opposite
    <2> QED BY <1>1, <2>1 DEF Sound
  <1>3. ASSUME NEW r \in new
        PROVE  /\ r \in Relationship /\ Joins(r) /\ r.card = "many-to-many" /\ r.via \in catalog.exposed
               /\ \E b \in new : IsBack(b, r)
    <2>1. PICK j \in hidden : StandIns(j) # {} /\ r = Through(j, FirstStandIn(j))
      BY <1>3 DEF Rerouted
    <2> DEFINE v == FirstStandIn(j)
    <2>2. j \in Relationship /\ Joins(j) /\ j.card = "many-to-many" /\ ~Computed(j)
      BY <1>1, <2>1 DEF Sound, Computed
    <2>3. v \in StandIns(j)
      BY <1>1, <2>1, FirstStandInIn
    <2>4. PICK c \in rels : IsBack(c, j)
      BY <1>1, <2>1, <2>2 DEF Sound
    <2>5. c \in hidden
      BY <2>1, <2>4 DEF IsBack, Opposite
    <2>6. c \in Relationship /\ Joins(c) /\ c.card = "many-to-many"
      BY <1>1, <2>5 DEF Sound
    <2>7. StandIns(c) = StandIns(j) /\ FirstStandIn(c) = v
      BY <2>2, <2>4, <2>6, SameStandIn
    <2> DEFINE b == Through(c, v)
    <2>8. b \in new
      BY <2>1, <2>5, <2>7 DEF Rerouted
    <2> HIDE DEF new, hidden, v
    <2>9. /\ r \in Relationship /\ Joins(r) /\ r.card = "many-to-many" /\ r.via = v /\ v \in catalog.exposed
          /\ r.table = j.table /\ r.far = j.far /\ r.constraint = j.constraint /\ r.c1 = j.c1 /\ r.c2 = j.c2
          /\ r.by = j.by
          /\ r.cols = [i \in 1..Len(j.cols) |-> <<j.cols[i][1], LastName(v, j.via, j.cols[i][2])>>]
          /\ r.tgt = [i \in 1..Len(j.tgt) |-> <<LastName(v, j.via, j.tgt[i][1]), j.tgt[i][2]>>]
      BY <1>1, <2>1, <2>2, <2>3, ThroughSound DEF v
    <2>10. /\ b.card = "many-to-many" /\ b.via = v
           /\ b.table = c.table /\ b.far = c.far /\ b.constraint = c.constraint /\ b.c1 = c.c1 /\ b.c2 = c.c2
           /\ b.by = c.by
           /\ b.cols = [i \in 1..Len(c.cols) |-> <<c.cols[i][1], LastName(v, c.via, c.cols[i][2])>>]
           /\ b.tgt = [i \in 1..Len(c.tgt) |-> <<LastName(v, c.via, c.tgt[i][1]), c.tgt[i][2]>>]
      BY <1>1, <2>3, <2>6, <2>7, ThroughSound
    <2> HIDE DEF b
    <2>11. /\ j.cols \in Pairs /\ j.tgt \in Pairs /\ c.via = j.via /\ c.cols = Swap(j.tgt) /\ c.tgt = Swap(j.cols)
           /\ c.table = j.far /\ c.far = j.table /\ c.constraint = j.constraint /\ c.c1 = j.c2 /\ c.c2 = j.c1
           /\ c.by = j.by
      BY <2>2, <2>4 DEF IsBack, Relationship
    <2>12. /\ Len(c.cols) = Len(j.tgt) /\ Len(c.tgt) = Len(j.cols)
           /\ \A i \in 1..Len(j.tgt) : c.cols[i] = <<j.tgt[i][2], j.tgt[i][1]>>
           /\ \A i \in 1..Len(j.cols) : c.tgt[i] = <<j.cols[i][2], j.cols[i][1]>>
      BY <2>11, SwapPairs
    <2>13. Len(j.cols) \in Nat /\ Len(j.tgt) \in Nat
      BY <2>11 DEF Pairs
    <2>14. b.cols = Swap(r.tgt)
      <3>1. /\ Len(r.tgt) = Len(j.tgt)
            /\ \A i \in 1..Len(j.tgt) : r.tgt[i] = <<LastName(v, j.via, j.tgt[i][1]), j.tgt[i][2]>>
        BY <2>9, <2>13
      <3>2. Swap(r.tgt) = [i \in 1..Len(j.tgt) |-> <<j.tgt[i][2], LastName(v, j.via, j.tgt[i][1])>>]
        BY <3>1 DEF Swap
      <3>3. b.cols = [i \in 1..Len(j.tgt) |-> <<j.tgt[i][2], LastName(v, j.via, j.tgt[i][1])>>]
        BY <2>10, <2>11, <2>12
      <3> QED BY <3>2, <3>3
    <2>15. b.tgt = Swap(r.cols)
      <3>1. /\ Len(r.cols) = Len(j.cols)
            /\ \A i \in 1..Len(j.cols) : r.cols[i] = <<j.cols[i][1], LastName(v, j.via, j.cols[i][2])>>
        BY <2>9, <2>13
      <3>2. Swap(r.cols) = [i \in 1..Len(j.cols) |-> <<LastName(v, j.via, j.cols[i][2]), j.cols[i][1]>>]
        BY <3>1 DEF Swap
      <3>3. b.tgt = [i \in 1..Len(j.cols) |-> <<LastName(v, j.via, j.cols[i][2]), j.cols[i][1]>>]
        BY <2>10, <2>11, <2>12
      <3> QED BY <3>2, <3>3
    <2>16. IsBack(b, r)
      BY <2>9, <2>10, <2>11, <2>14, <2>15 DEF IsBack, Opposite
    <2> QED BY <2>8, <2>9, <2>16 DEF b
  <1>4. Sound(new) /\ KeysExposed(new) /\ Exposed(new)
    <2>1. \A r \in new : ~Computed(r) /\ ~IsToOne(r)
      BY <1>3 DEF Computed, IsToOne
    <2> HIDE DEF new
    <2> QED BY <1>3, <2>1 DEF Sound, KeysExposed, Exposed
  <1>5. KeysExposed(kept) /\ Exposed(kept)
    BY <1>1 DEF KeysExposed, Exposed
  <1> HIDE DEF new, kept
  <1>6. Sound(rels')
    BY <1>1, <1>2, <1>4, UnionSound
  <1>7. KeysExposed(rels') /\ Exposed(rels')
    BY <1>1, <1>4, <1>5 DEF KeysExposed, Exposed
  <1> QED BY <1>1, <1>6, <1>7, PassInv

-----------------------------------------------------------------------------
(* Views *)

\* What a projection puts in an end's place: the end itself, or a view with a
\* name of its own for each of the n columns.
IsEnd(e, base, n) ==
    /\ e[1] \in QualifiedIdentifier
    /\ \/ e[1] = base /\ e[2] = <<>>
       \/ /\ e[1] \in Views /\ e[2] \in [1..n -> STRING]
          /\ \A i \in 1..n : e[2][i] \in ColumnsOf(e[1])

LEMMA EndsAre ==
    ASSUME catalog \in Catalogs, NEW base \in QualifiedIdentifier, NEW needed, Len(needed) \in Nat,
           NEW e \in Ends(base, needed)
    PROVE  IsEnd(e, base, Len(needed))
  <1>1. CASE e = <<base, <<>> >>
    BY <1>1 DEF IsEnd
  <1>2. CASE e # <<base, <<>> >>
    <2>1. PICK v \in ViewsOver(base) : \E s \in Spellings(v, base, needed) : e = <<v, s>>
      BY <1>2 DEF Ends
    <2>2. PICK s \in Spellings(v, base, needed) : e = <<v, s>>
      BY <2>1
    <2>3. v \in Views /\ v \in QualifiedIdentifier
      BY ViewColumns DEF ViewsOver, Views
    <2>5. ASSUME NEW i \in 1..Len(needed) PROVE s[i] \in ColumnsOf(v) /\ s[i] \in STRING
      <3>1. PICK k \in Carries(v, base, needed[i]) : VC[k].as = s[i]
        BY <2>2 DEF Spellings
      <3>2. k \in 1..Len(VC) /\ VC[k].view = v
        BY DEF Carries
      <3> QED BY <3>1, <3>2, ViewColumns
    <2>6. s \in [1..Len(needed) -> STRING]
      <3>1. s = [i \in 1..Len(needed) |-> s[i]]
        BY <2>2 DEF Spellings
      <3> QED BY <2>5, <3>1
    <2> QED BY <2>2, <2>3, <2>5, <2>6 DEF IsEnd
  <1> QED BY <1>1, <1>2

\* The names of an end take its columns' place, and leave the other end alone.
LEMMA RenameEnds ==
    ASSUME NEW cols \in Pairs, NEW e, NEW base, IsEnd(e, base, Len(cols))
    PROVE  /\ RenameFirsts(cols, e[2]) \in Pairs /\ Len(RenameFirsts(cols, e[2])) = Len(cols)
           /\ RenameSeconds(cols, e[2]) \in Pairs /\ Len(RenameSeconds(cols, e[2])) = Len(cols)
           /\ \A i \in 1..Len(cols) :
                /\ RenameFirsts(cols, e[2])[i][2] = cols[i][2]
                /\ RenameSeconds(cols, e[2])[i][1] = cols[i][1]
                /\ cols[i][1] \in ColumnsOf(base) => RenameFirsts(cols, e[2])[i][1] \in ColumnsOf(e[1])
                /\ cols[i][2] \in ColumnsOf(base) => RenameSeconds(cols, e[2])[i][2] \in ColumnsOf(e[1])
           /\ Swap(RenameFirsts(cols, e[2])) = RenameSeconds(Swap(cols), e[2])
           /\ Swap(RenameSeconds(cols, e[2])) = RenameFirsts(Swap(cols), e[2])
  <1> DEFINE n == Len(cols)
             names == e[2]
             first(i) == IF names = <<>> THEN cols[i] ELSE <<names[i], cols[i][2]>>
             second(i) == IF names = <<>> THEN cols[i] ELSE <<cols[i][1], names[i]>>
  <1>1. n \in Nat /\ \A i \in 1..n : cols[i] \in STRING \X STRING /\ cols[i] = <<cols[i][1], cols[i][2]>>
    BY DEF Pairs
  <1>2. ASSUME NEW i \in 1..n
        PROVE  \/ names = <<>> /\ e[1] = base
               \/ names # <<>> /\ names[i] \in STRING /\ names[i] \in ColumnsOf(e[1])
    <2>1. CASE e[1] = base /\ names = <<>>
      BY <2>1
    <2>2. CASE e[1] \in Views /\ names \in [1..n -> STRING] /\ \A j \in 1..n : names[j] \in ColumnsOf(e[1])
      <3>1. names # <<>>
        BY <1>1, <2>2
      <3> QED BY <2>2, <3>1
    <2> QED BY <2>1, <2>2 DEF IsEnd
  <1>3. RenameFirsts(cols, names) = [i \in 1..n |-> first(i)] /\ RenameSeconds(cols, names) = [i \in 1..n |-> second(i)]
    BY DEF RenameFirsts, RenameSeconds
  <1> HIDE DEF names
  <1>4. \A i \in 1..n : /\ first(i) \in STRING \X STRING /\ first(i)[2] = cols[i][2]
                        /\ cols[i][1] \in ColumnsOf(base) => first(i)[1] \in ColumnsOf(e[1])
    BY <1>1, <1>2
  <1>5. \A i \in 1..n : /\ second(i) \in STRING \X STRING /\ second(i)[1] = cols[i][1]
                        /\ cols[i][2] \in ColumnsOf(base) => second(i)[2] \in ColumnsOf(e[1])
    BY <1>1, <1>2
  <1>6. Len(Swap(cols)) = n /\ \A i \in 1..n : Swap(cols)[i] = <<cols[i][2], cols[i][1]>>
    BY SwapPairs
  <1>7. [i \in 1..n |-> <<first(i)[2], first(i)[1]>>] = RenameSeconds(Swap(cols), names)
    <2>1. \A i \in 1..n : <<first(i)[2], first(i)[1]>> = IF names = <<>> THEN Swap(cols)[i] ELSE <<Swap(cols)[i][1], names[i]>>
      BY <1>1, <1>6
    <2> HIDE DEF first
    <2> QED BY <1>6, <2>1 DEF RenameSeconds
  <1>8. [i \in 1..n |-> <<second(i)[2], second(i)[1]>>] = RenameFirsts(Swap(cols), names)
    <2>1. \A i \in 1..n : <<second(i)[2], second(i)[1]>> = IF names = <<>> THEN Swap(cols)[i] ELSE <<names[i], Swap(cols)[i][2]>>
      BY <1>1, <1>6
    <2> HIDE DEF second
    <2> QED BY <1>6, <2>1 DEF RenameFirsts
  <1> HIDE DEF first, second
  <1>9. /\ RenameFirsts(cols, names) \in Pairs /\ Len(RenameFirsts(cols, names)) = n
        /\ RenameSeconds(cols, names) \in Pairs /\ Len(RenameSeconds(cols, names)) = n
    BY <1>1, <1>3, <1>4, <1>5 DEF Pairs
  <1>10. \A i \in 1..n : RenameFirsts(cols, names)[i] = first(i) /\ RenameSeconds(cols, names)[i] = second(i)
    BY <1>3
  <1>11. Swap(RenameFirsts(cols, names)) = RenameSeconds(Swap(cols), names)
    BY <1>7, <1>9, <1>10 DEF Swap
  <1>12. Swap(RenameSeconds(cols, names)) = RenameFirsts(Swap(cols), names)
    BY <1>8, <1>9, <1>10 DEF Swap
  <1> QED BY <1>4, <1>5, <1>9, <1>10, <1>11, <1>12 DEF names

\* The two ends are renamed in either order.
LEMMA RenamesCommute ==
    ASSUME NEW cols \in Pairs, NEW near, NEW far, Len(RenameFirsts(cols, near)) = Len(cols),
           Len(RenameSeconds(cols, far)) = Len(cols)
    PROVE  RenameFirsts(RenameSeconds(cols, far), near) = RenameSeconds(RenameFirsts(cols, near), far)
  <1>1. Len(cols) \in Nat /\ \A i \in 1..Len(cols) : cols[i] = <<cols[i][1], cols[i][2]>>
    BY DEF Pairs
  <1>2. \A i \in 1..Len(cols) : /\ RenameSeconds(cols, far)[i] = IF far = <<>> THEN cols[i] ELSE <<cols[i][1], far[i]>>
                                /\ RenameFirsts(cols, near)[i] = IF near = <<>> THEN cols[i] ELSE <<near[i], cols[i][2]>>
    BY DEF RenameSeconds, RenameFirsts
  <1> QED BY <1>1, <1>2 DEF RenameSeconds, RenameFirsts

\* The far half of RenameEnds.
SecondsAt(cols, e, base) ==
    /\ RenameSeconds(cols, e[2]) \in Pairs /\ Len(RenameSeconds(cols, e[2])) = Len(cols)
    /\ \A i \in 1..Len(cols) :
         /\ RenameSeconds(cols, e[2])[i][1] = cols[i][1]
         /\ cols[i][2] \in ColumnsOf(base) => RenameSeconds(cols, e[2])[i][2] \in ColumnsOf(e[1])

LEMMA SecondsEnd ==
    ASSUME NEW cols \in Pairs, NEW e, NEW base, IsEnd(e, base, Len(cols))
    PROVE  SecondsAt(cols, e, base)
  BY RenameEnds DEF SecondsAt

LEMMA ProjectedIs ==
    ASSUME NEW r \in Relationship, Joins(r), r.card # "many-to-many" => r.tgt = <<>>,
           NEW n, IsEnd(n, r.table, Len(r.cols)),
           NEW f, IsEnd(f, r.far, IF r.card = "many-to-many" THEN Len(r.tgt) ELSE Len(r.cols)),
           NEW p, p = Projected(r, n[1], n[2], f[1], f[2])
    PROVE  /\ p \in Relationship /\ Joins(p) /\ p.table = n[1] /\ p.far = f[1] /\ p.by = "views"
           /\ p.card = r.card /\ p.constraint = r.constraint /\ p.via = r.via /\ p.c1 = r.c1 /\ p.c2 = r.c2
           /\ r.card = "many-to-many" => p.cols = RenameFirsts(r.cols, n[2]) /\ p.tgt = RenameSeconds(r.tgt, f[2])
           /\ r.card # "many-to-many" => /\ p.tgt = <<>>
                                         /\ p.cols = RenameSeconds(RenameFirsts(r.cols, n[2]), f[2])
  <1>1. r.cols \in Pairs /\ r.tgt \in Pairs /\ r.farView \in BOOLEAN
    BY DEF Relationship
  <1>2. n[1] \in QualifiedIdentifier /\ f[1] \in QualifiedIdentifier
    BY DEF IsEnd
  <1> DEFINE firsts == RenameFirsts(r.cols, n[2])
  <1>3. /\ firsts \in Pairs /\ Len(firsts) = Len(r.cols)
        /\ \A i \in 1..Len(r.cols) : /\ firsts[i][2] = r.cols[i][2]
                                     /\ r.cols[i][1] \in ColumnsOf(r.table) => firsts[i][1] \in ColumnsOf(n[1])
    BY <1>1, RenameEnds
  <1>4. CASE r.card = "many-to-many"
    <2> DEFINE seconds == RenameSeconds(r.tgt, f[2])
    <2>1. /\ seconds \in Pairs /\ Len(seconds) = Len(r.tgt)
          /\ \A i \in 1..Len(r.tgt) : /\ seconds[i][1] = r.tgt[i][1]
                                      /\ r.tgt[i][2] \in ColumnsOf(r.far) => seconds[i][2] \in ColumnsOf(f[1])
      BY <1>1, <1>4, RenameEnds
    <2>2. Renamed(r, n[2], f[2]) = [r EXCEPT !.cols = firsts, !.tgt = seconds]
      BY <1>4 DEF Renamed
    <2> HIDE DEF firsts, seconds
    <2> DEFINE base == Renamed(r, n[2], f[2])
    <2>3. /\ base \in Relationship /\ base.cols = firsts /\ base.tgt = seconds /\ base.card = r.card
          /\ base.constraint = r.constraint /\ base.via = r.via /\ base.c1 = r.c1 /\ base.c2 = r.c2
          /\ base.farView \in BOOLEAN
      BY <1>3, <2>1, <2>2 DEF Relationship
    <2>4. p = [base EXCEPT !.table = n[1], !.far = f[1], !.self = n[1] = f[1], !.farView = @ \/ f[1] # r.far, !.by = "views"]
      BY DEF Projected
    <2> HIDE DEF base
    <2>5. /\ p \in Relationship /\ p.table = n[1] /\ p.far = f[1] /\ p.cols = firsts /\ p.tgt = seconds /\ p.by = "views"
          /\ p.card = r.card /\ p.constraint = r.constraint /\ p.via = r.via /\ p.c1 = r.c1 /\ p.c2 = r.c2
      BY <1>2, <2>3, <2>4 DEF Relationship, Passes
    <2>6. Joins(p)
      BY <1>3, <1>4, <2>1, <2>5 DEF Joins
    <2> QED BY <1>4, <2>5, <2>6 DEF firsts, seconds
  <1>5. CASE r.card # "many-to-many"
    <2> DEFINE both == RenameSeconds(firsts, f[2])
    <2>1. /\ both \in Pairs /\ Len(both) = Len(r.cols)
          /\ \A i \in 1..Len(r.cols) : /\ both[i][1] = firsts[i][1]
                                       /\ firsts[i][2] \in ColumnsOf(r.far) => both[i][2] \in ColumnsOf(f[1])
      <3> HIDE DEF firsts, both
      <3>1. IsEnd(f, r.far, Len(firsts)) /\ firsts \in Pairs
        BY <1>3, <1>5
      <3>2. SecondsAt(firsts, f, r.far)
        BY <3>1, SecondsEnd
      <3> QED BY <1>3, <3>2 DEF SecondsAt, both
    <2>2. Renamed(r, n[2], f[2]) = [r EXCEPT !.cols = both]
      BY <1>5 DEF Renamed
    <2> HIDE DEF both
    <2> DEFINE base == Renamed(r, n[2], f[2])
    <2>3. /\ base \in Relationship /\ base.cols = both /\ base.tgt = r.tgt /\ base.card = r.card
          /\ base.constraint = r.constraint /\ base.via = r.via /\ base.c1 = r.c1 /\ base.c2 = r.c2
          /\ base.farView \in BOOLEAN
      BY <2>1, <2>2 DEF Relationship
    <2>4. p = [base EXCEPT !.table = n[1], !.far = f[1], !.self = n[1] = f[1], !.farView = @ \/ f[1] # r.far, !.by = "views"]
      BY DEF Projected
    <2> HIDE DEF base, firsts
    <2>5. /\ p \in Relationship /\ p.table = n[1] /\ p.far = f[1] /\ p.cols = both /\ p.tgt = r.tgt /\ p.by = "views"
          /\ p.card = r.card /\ p.constraint = r.constraint /\ p.via = r.via /\ p.c1 = r.c1 /\ p.c2 = r.c2
      BY <1>2, <2>3, <2>4 DEF Relationship, Passes
    <2>6. Joins(p)
      <3>1. \A i \in 1..Len(r.cols) : r.cols[i][1] \in ColumnsOf(r.table) /\ r.cols[i][2] \in ColumnsOf(r.far)
        BY <1>5 DEF Joins
      <3>2. \A i \in 1..Len(r.cols) : both[i][1] \in ColumnsOf(n[1]) /\ both[i][2] \in ColumnsOf(f[1])
        BY <1>3, <2>1, <3>1
      <3>3. p.tgt = <<>>
        BY <1>5, <2>5
      <3> QED BY <1>5, <2>1, <2>5, <3>2, <3>3 DEF Joins
    <2> QED BY <1>5, <2>5, <2>6 DEF both, firsts
  <1> QED BY <1>4, <1>5

LEMMA NeedsLengths ==
    ASSUME NEW r \in Relationship
    PROVE  /\ Len(NearNeeds(r)) = Len(r.cols) /\ Len(r.cols) \in Nat
           /\ Len(FarNeeds(r)) = IF r.card = "many-to-many" THEN Len(r.tgt) ELSE Len(r.cols)
           /\ Len(r.tgt) \in Nat
  BY DEF Relationship, Pairs, NearNeeds, FarNeeds, Firsts, Seconds

\* The projection of the way back, with the ends swapped, is the way back.
LEMMA ProjectedBack ==
    ASSUME catalog \in Catalogs, NEW r \in Relationship, Joins(r), r.card # "many-to-many" => r.tgt = <<>>,
           NEW b \in Relationship, Joins(b), b.card # "many-to-many" => b.tgt = <<>>, IsBack(b, r),
           NEW n \in Ends(r.table, NearNeeds(r)), NEW f \in Ends(r.far, FarNeeds(r))
    PROVE  /\ n \in Ends(b.far, FarNeeds(b)) /\ f \in Ends(b.table, NearNeeds(b))
           /\ IsBack(Projected(b, f[1], f[2], n[1], n[2]), Projected(r, n[1], n[2], f[1], f[2]))
  <1>1. /\ r.cols \in Pairs /\ r.tgt \in Pairs /\ b.cols \in Pairs /\ b.tgt \in Pairs
        /\ r.table \in QualifiedIdentifier /\ r.far \in QualifiedIdentifier
    BY DEF Relationship
  <1>2. /\ b.table = r.far /\ b.far = r.table /\ b.constraint = r.constraint /\ b.card = Opposite(r.card)
        /\ b.via = r.via /\ (b.card = "many-to-many" <=> r.card = "many-to-many")
        /\ r.card = "many-to-many" => b.cols = Swap(r.tgt) /\ b.tgt = Swap(r.cols) /\ b.c1 = r.c2 /\ b.c2 = r.c1
        /\ r.card # "many-to-many" => b.cols = Swap(r.cols)
    BY DEF IsBack, Opposite
  <1>3. NearNeeds(b) = FarNeeds(r) /\ FarNeeds(b) = NearNeeds(r)
    BY <1>1, <1>2, SwapPairs DEF NearNeeds, FarNeeds
  <1>4. n \in Ends(b.far, FarNeeds(b)) /\ f \in Ends(b.table, NearNeeds(b))
    BY <1>2, <1>3
  <1>5. IsEnd(n, r.table, Len(r.cols)) /\ IsEnd(f, r.far, IF r.card = "many-to-many" THEN Len(r.tgt) ELSE Len(r.cols))
    BY <1>1, NeedsLengths, EndsAre
  <1>6. IsEnd(f, b.table, Len(b.cols)) /\ IsEnd(n, b.far, IF b.card = "many-to-many" THEN Len(b.tgt) ELSE Len(b.cols))
    BY <1>1, <1>2, <1>4, NeedsLengths, EndsAre
  <1> DEFINE p == Projected(r, n[1], n[2], f[1], f[2])
             q == Projected(b, f[1], f[2], n[1], n[2])
  <1>7. /\ p.table = n[1] /\ p.far = f[1] /\ p.by = "views"
        /\ p.card = r.card /\ p.constraint = r.constraint /\ p.via = r.via /\ p.c1 = r.c1 /\ p.c2 = r.c2
        /\ r.card = "many-to-many" => p.cols = RenameFirsts(r.cols, n[2]) /\ p.tgt = RenameSeconds(r.tgt, f[2])
        /\ r.card # "many-to-many" => p.cols = RenameSeconds(RenameFirsts(r.cols, n[2]), f[2])
    BY <1>5, ProjectedIs
  <1>8. /\ q.table = f[1] /\ q.far = n[1] /\ q.by = "views"
        /\ q.card = b.card /\ q.constraint = b.constraint /\ q.via = b.via /\ q.c1 = b.c1 /\ q.c2 = b.c2
        /\ r.card = "many-to-many" => q.cols = RenameFirsts(b.cols, f[2]) /\ q.tgt = RenameSeconds(b.tgt, n[2])
        /\ r.card # "many-to-many" => q.cols = RenameSeconds(RenameFirsts(b.cols, f[2]), n[2])
    BY <1>2, <1>6, ProjectedIs
  <1> HIDE DEF p, q
  <1>9. CASE r.card = "many-to-many"
    <2>1. Swap(RenameSeconds(r.tgt, f[2])) = RenameFirsts(b.cols, f[2])
      BY <1>1, <1>2, <1>5, <1>9, RenameEnds
    <2>2. Swap(RenameFirsts(r.cols, n[2])) = RenameSeconds(b.tgt, n[2])
      BY <1>1, <1>2, <1>5, <1>9, RenameEnds
    <2>3. IsBack(q, p)
      BY <1>2, <1>7, <1>8, <1>9, <2>1, <2>2 DEF IsBack
    <2> QED BY <1>4, <2>3 DEF p, q
  <1>10. CASE r.card # "many-to-many"
    <2> DEFINE seconds == RenameSeconds(r.cols, f[2])
               firsts == RenameFirsts(r.cols, n[2])
    <2>1. /\ Swap(seconds) = RenameFirsts(b.cols, f[2])
          /\ seconds \in Pairs /\ Len(seconds) = Len(r.cols) /\ firsts \in Pairs /\ Len(firsts) = Len(r.cols)
      BY <1>1, <1>2, <1>5, <1>10, RenameEnds
    <2>2. RenameFirsts(seconds, n[2]) = RenameSeconds(firsts, f[2])
      BY <1>1, <2>1, RenamesCommute
    <2> HIDE DEF seconds
    <2>3. Swap(RenameFirsts(seconds, n[2])) = RenameSeconds(Swap(seconds), n[2])
      BY <1>5, <2>1, RenameEnds
    <2>4. q.cols = Swap(p.cols)
      BY <1>7, <1>8, <1>10, <2>1, <2>2, <2>3
    <2>5. IsBack(q, p)
      BY <1>2, <1>7, <1>8, <1>10, <2>4 DEF IsBack
    <2> QED BY <1>4, <2>5 DEF p, q
  <1> QED BY <1>9, <1>10

LEMMA AddViewsInv == ASSUME CatalogInv, AddViewRelationships PROVE CatalogInv'
  <1> DEFINE plain == {s \in rels : ~Computed(s)}
             new == {p \in UNION {Projections(r) : r \in plain} : p.table \in catalog.exposed /\ p.far \in catalog.exposed}
  <1>1. /\ catalog \in Catalogs /\ catalog' = catalog /\ rels' = rels \cup new /\ pass' = "viewKeys"
        /\ Sound(rels) /\ KeysExposed(rels) /\ Exposed(rels)
    BY DEF AddViewRelationships, CatalogInv
  <1>2. ASSUME NEW p \in new
        PROVE  /\ p \in Relationship /\ Joins(p) /\ ~Computed(p) /\ (p.card # "many-to-many" => p.tgt = <<>>)
               /\ p.table \in catalog.exposed /\ (p.card = "many-to-many" => p.via \in catalog.exposed)
               /\ \E q \in rels \cup new : IsBack(q, p)
    <2>1. PICK r \in plain : p \in Projections(r)
      BY <1>2
    <2>2. PICK n \in Ends(r.table, NearNeeds(r)), f \in Ends(r.far, FarNeeds(r)) :
             p = Projected(r, n[1], n[2], f[1], f[2]) /\ <<n, f>> # Unmoved(r)
      BY <2>1 DEF Projections
    <2>3. r \in Relationship /\ Joins(r) /\ (r.card # "many-to-many" => r.tgt = <<>>)
      BY <1>1, <2>1 DEF Sound
    <2>4. PICK b \in rels : IsBack(b, r)
      BY <1>1, <2>1 DEF Sound
    <2>5. b \in Relationship /\ Joins(b) /\ (b.card # "many-to-many" => b.tgt = <<>>)
      BY <1>1, <2>4 DEF Sound
    <2>6. b \in plain
      BY <2>1, <2>4 DEF IsBack, Opposite, Computed
    <2>7. IsEnd(n, r.table, Len(r.cols)) /\ IsEnd(f, r.far, IF r.card = "many-to-many" THEN Len(r.tgt) ELSE Len(r.cols))
      BY <1>1, <2>3, NeedsLengths, EndsAre DEF Relationship
    <2>8. /\ p \in Relationship /\ Joins(p) /\ p.card = r.card /\ p.via = r.via /\ p.table = n[1] /\ p.far = f[1]
          /\ p.card # "many-to-many" => p.tgt = <<>>
      BY <2>2, <2>3, <2>7, ProjectedIs
    <2> DEFINE q == Projected(b, f[1], f[2], n[1], n[2])
    <2>9. n \in Ends(b.far, FarNeeds(b)) /\ f \in Ends(b.table, NearNeeds(b)) /\ IsBack(q, p)
      BY <1>1, <2>2, <2>3, <2>4, <2>5, ProjectedBack
    <2>10. q \in Projections(b)
      <3>1. <<f, n>> # Unmoved(b)
        BY <2>2, <2>4 DEF Unmoved, IsBack
      <3>2. <<f, n>> \in (Ends(b.table, NearNeeds(b)) \X Ends(b.far, FarNeeds(b))) \ {Unmoved(b)}
        BY <2>9, <3>1
      <3> QED BY <3>2 DEF Projections
    <2>11. p.table \in catalog.exposed /\ p.far \in catalog.exposed
      BY <1>2
    <2>12. q.table \in catalog.exposed /\ q.far \in catalog.exposed
      <3> HIDE DEF q
      <3> QED BY <2>9, <2>11 DEF IsBack
    <2> HIDE DEF q
    <2>13. q \in new
      BY <2>6, <2>10, <2>12
    <2>14. ~Computed(p)
      BY <2>1, <2>8 DEF Computed
    <2>15. p.card = "many-to-many" => p.via \in catalog.exposed
      BY <1>1, <2>1, <2>8 DEF Exposed
    <2> QED BY <2>8, <2>9, <2>11, <2>13, <2>14, <2>15
  <1> HIDE DEF new
  <1>3. Sound(rels')
    BY <1>1, <1>2 DEF Sound
  <1>4. KeysExposed(rels') /\ Exposed(rels')
    BY <1>1, <1>2 DEF KeysExposed, Exposed
  <1> QED BY <1>1, <1>3, <1>4, PassInv

-----------------------------------------------------------------------------
(* Naming a relationship *)

\* The candidates before the hint is held against them.
Target(all, name, hint) == {r \in all : NamedByTarget(r, name, hint)}

Narrowed(target) == IF \E r \in target : Computed(r) THEN {r \in target : Computed(r)} ELSE target

Matches(all, name, hint) ==
    LET declared == {r \in all : Computed(r) \/ ~r.farView}
        byConstraint == {r \in declared : r.constraint = name}
        byColumn == {r \in declared : \E i \in 1..Len(r.cols) : r.cols[i][1] = name}
    IN IF Narrowed(Target(all, name, hint)) # {} THEN Narrowed(Target(all, name, hint))
       ELSE IF byConstraint # {} THEN byConstraint ELSE byColumn

LEMMA FindIs ==
    ASSUME NEW from, NEW name, NEW hint
    PROVE  FindRelationship(from, name, hint) =
             LET matches == Matches({r \in rels : r.table = from}, name, hint)
             IN IF hint = Unnamed THEN matches
                ELSE {r \in matches : (r.self /\ ~Computed(r)) \/ MatchesHint(r, hint)}
  BY DEF FindRelationship, Matches, Narrowed, Target

\* A hint adds no target, and loses only relationships of a table to itself.
LEMMA HintedTarget ==
    ASSUME NEW r, NEW name, NEW hint
    PROVE  /\ NamedByTarget(r, name, hint) => NamedByTarget(r, name, Unnamed)
           /\ Computed(r) \/ ~r.self => (NamedByTarget(r, name, hint) <=> NamedByTarget(r, name, Unnamed))
  <1>1. CASE Computed(r)
    BY <1>1 DEF NamedByTarget
  <1>2. CASE ~Computed(r) /\ ~r.self
    BY <1>2 DEF NamedByTarget
  <1>3. CASE ~Computed(r) /\ r.self /\ hint = Unnamed
    BY <1>3
  <1>4. CASE ~Computed(r) /\ r.self /\ hint # Unnamed
    BY <1>4 DEF NamedByTarget
  <1> QED BY <1>1, <1>2, <1>3, <1>4

LEMMA StillMatches ==
    ASSUME NEW all, NEW name, NEW hint, NEW r \in Matches(all, name, Unnamed), Computed(r) \/ ~r.self
    PROVE  r \in Matches(all, name, hint)
  <1> DEFINE T == Target(all, name, Unnamed)
             H == Target(all, name, hint)
  <1>1. H \subseteq T /\ \A x \in T : Computed(x) \/ ~x.self => x \in H
    BY HintedTarget DEF Target
  <1>2. CASE T = {}
    BY <1>1, <1>2 DEF Matches
  <1>3. CASE T # {}
    <2> HIDE DEF T, H
    <2>1. Narrowed(T) # {}
      BY <1>3 DEF Narrowed
    <2>2. r \in Narrowed(T)
      BY <2>1 DEF Matches, T
    <2>3. r \in Narrowed(H)
      <3>1. CASE \E x \in T : Computed(x)
        BY <1>1, <2>2, <3>1 DEF Narrowed
      <3>2. CASE ~ \E x \in T : Computed(x)
        BY <1>1, <2>2, <3>2 DEF Narrowed
      <3> QED BY <3>1, <3>2
    <2> QED BY <2>3 DEF Matches, H
  <1> QED BY <1>2, <1>3

\* The column they point with keeps the children among the candidates.
LEMMA ChildrenMatch ==
    ASSUME NEW all, NEW name, NEW r \in Matches(all, name, Unnamed), r \in all, Children(r, name)
    PROVE  r \in Matches(all, name, r.cols[1][2])
  <1> DEFINE hint == r.cols[1][2]
             T == Target(all, name, Unnamed)
             H == Target(all, name, hint)
  <1>1. ~Computed(r) /\ r.self /\ r.card = "one-to-many" /\ Len(r.cols) = 1 /\ r.far[2] = name
    BY DEF Children
  <1>2. r \in T /\ r \in H
    BY <1>1 DEF Target, NamedByTarget, SingleFar
  <1>3. H \subseteq T
    BY HintedTarget DEF Target
  <1> HIDE DEF T, H
  <1>4. Narrowed(T) # {}
    BY <1>2 DEF Narrowed
  <1>5. r \in Narrowed(T)
    BY <1>4 DEF Matches, T
  <1>6. ~ \E x \in T : Computed(x)
    BY <1>1, <1>5 DEF Narrowed
  <1>7. r \in Narrowed(H)
    BY <1>2, <1>3, <1>6 DEF Narrowed
  <1> QED BY <1>7 DEF Matches, H

LEMMA SuggestionsInv == SuggestionsFindTheirs
  <1> SUFFICES ASSUME NEW t, NEW name, NEW r \in FindRelationship(t, name, Unnamed)
               PROVE  /\ Computed(r) \/ ~r.self => r \in FindRelationship(t, name, Disambiguator(r))
                      /\ Children(r, name) => r \in FindRelationship(t, name, r.cols[1][2])
    BY DEF SuggestionsFindTheirs
  <1> DEFINE all == {x \in rels : x.table = t}
  <1>1. r \in Matches(all, name, Unnamed)
    BY FindIs
  <1>2. r \in all
    BY <1>1 DEF Matches, Narrowed, Target
  <1>3. ASSUME Computed(r) \/ ~r.self PROVE r \in FindRelationship(t, name, Disambiguator(r))
    <2> DEFINE hint == Disambiguator(r)
    <2>1. MatchesHint(r, hint)
      BY DEF MatchesHint, Disambiguator, Computed
    <2> HIDE DEF all, hint
    <2>2. r \in Matches(all, name, hint)
      BY <1>1, <1>3, StillMatches
    <2> QED BY <2>1, <2>2, FindIs DEF all, hint
  <1>4. ASSUME Children(r, name) PROVE r \in FindRelationship(t, name, r.cols[1][2])
    <2>1. r.self /\ ~Computed(r)
      BY <1>4 DEF Children
    <2> HIDE DEF all
    <2>2. r \in Matches(all, name, r.cols[1][2])
      BY <1>1, <1>2, <1>4, ChildrenMatch
    <2> QED BY <2>1, <2>2, FindIs DEF all
  <1> QED BY <1>3, <1>4

-----------------------------------------------------------------------------
(* The theorem *)

LEMMA CatalogNextInv == CatalogInv /\ [SchemaNext]_schemaVars => CatalogInv'
  <1> SUFFICES ASSUME CatalogInv, [SchemaNext]_schemaVars PROVE CatalogInv'
    OBVIOUS
  <1>1. CASE UNCHANGED schemaVars
    <2>1. catalog' = catalog /\ rels' = rels /\ pass' = pass
      BY <1>1 DEF schemaVars
    <2> QED BY <2>1, PassInv DEF CatalogInv
  <1>2. CASE SchemaNext
    BY <1>2, LoadInv, AddJunctionsInv, SubstituteInv, AddViewsInv, AddViewJunctionsInv DEF SchemaNext
  <1> QED BY <1>1, <1>2

LEMMA CatalogInvSound == CatalogInv => RelationshipsSound
  <1> SUFFICES ASSUME CatalogInv PROVE RelationshipsSound
    OBVIOUS
  <1>1. JoinsOnRealColumns
    BY DEF CatalogInv, Sound, Joins, JoinsOnRealColumns
  <1>2. EveryWayBack
    <2>1. ASSUME NEW r \in rels, NEW b \in rels, IsBack(b, r)
          PROVE  /\ b.table = r.far /\ b.far = r.table /\ b.constraint = r.constraint /\ b.by = r.by
                 /\ IF r.card = "many-to-many"
                    THEN b.via = r.via /\ b.cols = Swap(r.tgt) /\ b.tgt = Swap(r.cols) /\ b.c1 = r.c2 /\ b.c2 = r.c1
                    ELSE b.cols = Swap(r.cols) /\ (b.card = "one-to-many" <=> r.card = "many-to-one")
      BY <2>1 DEF IsBack, Opposite
    <2> QED BY <2>1 DEF CatalogInv, Sound, EveryWayBack
  <1>3. NoHiddenJunction
    BY DEF CatalogInv, Exposed, NoHiddenJunction
  <1> QED BY <1>1, <1>2, <1>3, SuggestionsInv DEF RelationshipsSound

\* SchemaCache::load and find_relationship: whatever the catalog, every
\* relationship the passes derive joins on columns and through junctions that
\* are there to be used and has its way back, and a hint meant for it finds it,
\* if not always it alone (of a relation's relationships with itself, only the
\* children by their column).
THEOREM RelationshipsAreSound == SchemaSpec => []RelationshipsSound
  <1>1. SchemaInit => CatalogInv
    BY DEF SchemaInit, CatalogInv, Sound, KeysExposed
  <1> QED BY <1>1, CatalogNextInv, CatalogInvSound, PTL DEF SchemaSpec
=============================================================================
