----------------------------- MODULE SchemaCache -----------------------------
(***************************************************************************)
(* postrust-core/src/schema_cache: the relationships a request may embed   *)
(* through, derived from the catalog in passes that each work on what the  *)
(* passes before them left, and how a request names one of them.           *)
(*                                                                         *)
(* A table is <<schema, name>>; a join is a sequence of <<column here,     *)
(* column there>>.  A map of lists keyed by the table is a set of          *)
(* relationships, each with its table and the pass that pushed it.  The    *)
(* lists are not rid of duplicates: what two passes push stays twice.  One *)
(* pass pushes nothing twice, a constraint being named once in its table   *)
(* and a column of a view standing for one column of one base.             *)
(***************************************************************************)
EXTENDS Naturals, Sequences, FiniteSets

CONSTANT Catalogs   \* records [exposed, columns, fks, functions, viewColumns, keys]

QualifiedIdentifier == STRING \X STRING
Pairs == Seq(STRING \X STRING)

\* What PostgreSQL says of itself: a foreign key joins columns of two tables,
\* a view's columns are its own, and a view has no keys.
IsCatalog(c) ==
  LET column(t) == IF t \in DOMAIN c.columns THEN c.columns[t] ELSE {}
  IN /\ \A k \in c.fks :
          /\ k.table \in QualifiedIdentifier /\ k.far \in QualifiedIdentifier /\ k.name \in STRING /\ k.cols \in Pairs
          /\ \A i \in 1..Len(k.cols) : k.cols[i][1] \in column(k.table) /\ k.cols[i][2] \in column(k.far)
          /\ \A i \in 1..Len(c.viewColumns) : c.viewColumns[i].view \notin {k.table, k.far}
     /\ \A f \in c.functions : f.table \in QualifiedIdentifier /\ f.far \in QualifiedIdentifier /\ f.name \in STRING
     /\ c.viewColumns \in Seq([view : QualifiedIdentifier, base : QualifiedIdentifier, column : STRING, as : STRING])
     /\ \A i \in 1..Len(c.viewColumns) : c.viewColumns[i].as \in column(c.viewColumns[i].view)

ASSUME CatalogAssumption == \A c \in Catalogs : IsCatalog(c)

VARIABLES catalog, pass, rels

schemaVars == <<catalog, pass, rels>>

Unnamed == ""
NoTable == <<Unnamed, Unnamed>>
Swap(cols) == [i \in 1..Len(cols) |-> <<cols[i][2], cols[i][1]>>]
Firsts(cols) == [i \in 1..Len(cols) |-> cols[i][1]]
Seconds(cols) == [i \in 1..Len(cols) |-> cols[i][2]]

\* Relationship::ForeignKey.  A many-to-many keeps the way into its junction
\* in cols and the way out in tgt.
Rel(table, far, card, constraint, cols) ==
  [card |-> card, table |-> table, far |-> far, self |-> table = far, constraint |-> constraint, cols |-> cols,
   via |-> NoTable, c1 |-> Unnamed, c2 |-> Unnamed, tgt |-> <<>>, farView |-> FALSE, fn |-> Unnamed, by |-> "keys"]

IsToOne(r) == r.card \in {"many-to-one", "one-to-one", "computed-one"}
Computed(r) == r.card \in {"computed-one", "computed-many"}

(***************************************************************************)
(* Loading                                                                 *)
(***************************************************************************)

\* A foreign key is a relationship each way.
BothWays(k) ==
  {Rel(k.table, k.far, IF k.unique THEN "one-to-one" ELSE "many-to-one", k.name, k.cols),
   Rel(k.far, k.table, IF k.unique THEN "one-to-one" ELSE "one-to-many", k.name, Swap(k.cols))}

ComputedRel(f) ==
  [Rel(f.table, f.far, IF f.toOne THEN "computed-one" ELSE "computed-many", Unnamed, <<>>) EXCEPT !.fn = f.name]

LoadRelationships ==
  /\ pass = "keys"
  /\ rels' = (UNION {BothWays(k) : k \in catalog.fks}) \cup {ComputedRel(f) : f \in catalog.functions}
  /\ pass' = "junctions" /\ UNCHANGED catalog

ManyToMany(near, far) ==
  [Rel(near.far, far.far, "many-to-many", Unnamed, Swap(near.cols))
     EXCEPT !.self = FALSE, !.via = near.table, !.c1 = near.constraint, !.c2 = far.constraint, !.tgt = far.cols,
            !.by = pass]

\* A key out of a relation whose columns are all in its primary key.
Enters(r, keys) ==
  /\ r.table \in DOMAIN keys /\ IsToOne(r) /\ r.cols # <<>>
  /\ \A i \in 1..Len(r.cols) : r.cols[i][1] \in keys[r.table]

\* Every pair of them to two tables.
Junctions(keys) ==
  {ManyToMany(p[1], p[2]) :
     p \in {q \in rels \X rels : /\ Enters(q[1], keys) /\ Enters(q[2], keys)
                               /\ q[1].table = q[2].table /\ q[1].far # q[2].far}}

AddJunctions ==
  /\ pass = "junctions"
  /\ rels' = rels \cup Junctions(catalog.keys)
  /\ pass' = "hidden" /\ UNCHANGED catalog

VC == catalog.viewColumns
ViewsOver(base) == {VC[i].view : i \in {k \in 1..Len(VC) : VC[k].base = base}}
Carries(v, base, c) == {i \in 1..Len(VC) : VC[i].view = v /\ VC[i].base = base /\ VC[i].column = c}
LastName(v, base, c) == VC[CHOOSE i \in Carries(v, base, c) : \A k \in Carries(v, base, c) : k <= i].as
FirstName(v, base, c) == VC[CHOOSE i \in Carries(v, base, c) : \A k \in Carries(v, base, c) : i <= k].as

\* The exposed views that carry both keys of a junction, first come first.
StandIns(j) ==
  {v \in ViewsOver(j.via) \cap catalog.exposed :
     \A i \in 1..Len(j.cols) : Carries(v, j.via, j.cols[i][2]) # {}}
  \cap {v \in ViewsOver(j.via) : \A i \in 1..Len(j.tgt) : Carries(v, j.via, j.tgt[i][1]) # {}}
FirstStandIn(j) ==
  LET first(v) == CHOOSE i \in 1..Len(VC) : VC[i].view = v /\ VC[i].base = j.via
                                            /\ \A k \in 1..(i - 1) : VC[k].view # v \/ VC[k].base # j.via
  IN CHOOSE v \in StandIns(j) : \A w \in StandIns(j) : first(v) <= first(w)

Through(j, v) ==
  [j EXCEPT !.via = v,
            !.cols = [i \in 1..Len(@) |-> <<@[i][1], LastName(v, j.via, @[i][2])>>],
            !.tgt = [i \in 1..Len(@) |-> <<LastName(v, j.via, @[i][1]), @[i][2]>>]]

Rerouted(hidden) == {Through(j, FirstStandIn(j)) : j \in {h \in hidden : StandIns(h) # {}}}

SubstituteHiddenJunctions ==
  /\ pass = "hidden"
  /\ LET hidden == {r \in rels : r.card = "many-to-many" /\ r.via \notin catalog.exposed}
     IN rels' = (rels \ hidden) \cup Rerouted(hidden)
  /\ pass' = "views" /\ UNCHANGED catalog

\* Every way a view spells the columns an end joins on: one name each.
Spellings(v, base, needed) ==
  {s \in [1..Len(needed) -> {VC[i].as : i \in {k \in 1..Len(VC) : VC[k].view = v}}] :
     \A i \in 1..Len(needed) : \E k \in Carries(v, base, needed[i]) : VC[k].as = s[i]}

NearNeeds(r) == Firsts(r.cols)
FarNeeds(r) == IF r.card = "many-to-many" THEN Seconds(r.tgt) ELSE Seconds(r.cols)

\* rename_cardinality: the outer ends move, a junction's own columns do not;
\* <<>> leaves an end alone.
RenameFirsts(cols, names) == [i \in 1..Len(cols) |-> IF names = <<>> THEN cols[i] ELSE <<names[i], cols[i][2]>>]
RenameSeconds(cols, names) == [i \in 1..Len(cols) |-> IF names = <<>> THEN cols[i] ELSE <<cols[i][1], names[i]>>]
\* Mutant: the far names go to the way into the junction.
RenamedNear(r, near, far) == [r EXCEPT !.cols = RenameSeconds(RenameFirsts(@, near), far)]

Renamed(r, near, far) ==
  IF r.card = "many-to-many"
  THEN [r EXCEPT !.cols = RenameFirsts(@, near), !.tgt = RenameSeconds(@, far)]
  ELSE [r EXCEPT !.cols = RenameSeconds(RenameFirsts(@, near), far)]

Projected(r, near, nearNames, far, farNames) ==
  [Renamed(r, nearNames, farNames) EXCEPT !.table = near, !.far = far, !.self = near = far,
                                          !.farView = @ \/ far # r.far, !.by = "views"]

\* A view stands in for the near side, the far side, or both.
Ends(base, needed) ==
  {<<base, <<>> >>} \cup UNION {{<<v, s>> : s \in Spellings(v, base, needed)} : v \in ViewsOver(base)}
Unmoved(r) == << <<r.table, <<>> >>, <<r.far, <<>> >> >>
Projections(r) ==
  {Projected(r, e[1][1], e[1][2], e[2][1], e[2][2]) :
     e \in (Ends(r.table, NearNeeds(r)) \X Ends(r.far, FarNeeds(r))) \ {Unmoved(r)}}

AddViewRelationships ==
  /\ pass = "views"
  /\ rels' = rels \cup {p \in UNION {Projections(r) : r \in {s \in rels : ~Computed(s)}} :
                          p.table \in catalog.exposed /\ p.far \in catalog.exposed}
  /\ pass' = "viewKeys" /\ UNCHANGED catalog

\* The key a view has from a base it carries the whole key of; where there
\* are two such bases, which one depends on the order of a hash map.
KeyedBases(v) ==
  {b \in DOMAIN catalog.keys : catalog.keys[b] # {} /\ \A c \in catalog.keys[b] : Carries(v, b, c) # {}}
ViewKeys(choice) ==
  [v \in DOMAIN choice |-> {FirstName(v, choice[v], c) : c \in catalog.keys[choice[v]]}]

AddViewJunctions ==
  /\ pass = "viewKeys"
  /\ LET keyed == {v \in {VC[i].view : i \in 1..Len(VC)} : KeyedBases(v) # {}}
     IN \E choice \in {f \in [keyed -> DOMAIN catalog.keys] : \A v \in keyed : f[v] \in KeyedBases(v)} :
          rels' = rels \cup Junctions(ViewKeys(choice))
  /\ pass' = "loaded" /\ UNCHANGED catalog

SchemaInit == catalog \in Catalogs /\ pass = "keys" /\ rels = {}
SchemaNext ==
  \/ LoadRelationships \/ AddJunctions \/ SubstituteHiddenJunctions
  \/ AddViewRelationships \/ AddViewJunctions
SchemaSpec == SchemaInit /\ [][SchemaNext]_schemaVars

(***************************************************************************)
(* Naming one: find_relationship                                           *)
(***************************************************************************)
SingleNear(r, name) == r.card # "many-to-many" /\ Len(r.cols) = 1 /\ r.cols[1][1] = name
SingleFar(r, name) == r.card # "many-to-many" /\ Len(r.cols) = 1 /\ r.cols[1][2] = name

NamedByTarget(r, name, hint) ==
  CASE Computed(r) -> r.fn = name
    [] ~Computed(r) /\ r.self /\ hint = Unnamed ->
         \/ r.far[2] = name /\ r.card = "one-to-many"
         \/ SingleNear(r, name) /\ r.card # "one-to-many"
    [] ~Computed(r) /\ r.self /\ hint # Unnamed ->
         r.far[2] = name /\ r.card = "one-to-many" /\ SingleFar(r, hint)
    [] OTHER -> r.far[2] = name

MatchesHint(r, hint) ==
  \/ r.constraint = hint \/ r.far[2] = hint
  \/ \E i \in 1..Len(r.cols) : r.cols[i][2] = hint \/ (~r.self /\ r.cols[i][1] = hint)
  \/ Computed(r) /\ r.fn = hint
  \/ r.card = "many-to-many" /\ (r.via[2] = hint \/ hint \in {r.c1, r.c2}
                                 \/ \E i \in 1..Len(r.tgt) : hint \in {r.tgt[i][1], r.tgt[i][2]})

\* The candidates of the most specific way of naming that names any; several
\* of them is the error AmbiguousRelationship, none is nothing found.
FindRelationship(from, name, hint) ==
  LET all == {r \in rels : r.table = from}
      target == {r \in all : NamedByTarget(r, name, hint)}
      byTarget == IF \E r \in target : Computed(r) THEN {r \in target : Computed(r)} ELSE target
      declared == {r \in all : Computed(r) \/ ~r.farView}
      byConstraint == {r \in declared : r.constraint = name}
      byColumn == {r \in declared : \E i \in 1..Len(r.cols) : r.cols[i][1] = name}
      matches == IF byTarget # {} THEN byTarget ELSE IF byConstraint # {} THEN byConstraint ELSE byColumn
  IN IF hint = Unnamed THEN matches ELSE {r \in matches : (r.self /\ ~Computed(r)) \/ MatchesHint(r, hint)}

Disambiguator(r) ==
  CASE Computed(r) -> r.fn [] r.card = "many-to-many" -> r.via[2] [] OTHER -> r.constraint

(***************************************************************************)
(* Properties                                                              *)
(***************************************************************************)

ColumnsOf(t) == IF t \in DOMAIN catalog.columns THEN catalog.columns[t] ELSE {}

\* Whatever the passes renamed, a relationship joins on columns its two ends,
\* and its junction, really have, each by the name that relation gives it.
JoinsOnRealColumns ==
  pass = "loaded" =>
    \A r \in rels :
      /\ \A i \in 1..Len(r.cols) :
           /\ r.cols[i][1] \in ColumnsOf(r.table)
           /\ r.cols[i][2] \in ColumnsOf(IF r.card = "many-to-many" THEN r.via ELSE r.far)
      /\ \A i \in 1..Len(r.tgt) : r.tgt[i][1] \in ColumnsOf(r.via) /\ r.tgt[i][2] \in ColumnsOf(r.far)

\* Every relationship has its way back over the same columns ("Both sides get
\* the relationship"), for views and rerouted junctions too, as often as it is
\* there itself.
EveryWayBack ==
  pass = "loaded" =>
    \A r \in {s \in rels : ~Computed(s)} : \E b \in rels :
      /\ b.table = r.far /\ b.far = r.table /\ b.constraint = r.constraint /\ b.by = r.by
      /\ IF r.card = "many-to-many"
         THEN b.via = r.via /\ b.cols = Swap(r.tgt) /\ b.tgt = Swap(r.cols) /\ b.c1 = r.c2 /\ b.c2 = r.c1
         ELSE b.cols = Swap(r.cols) /\ (b.card = "one-to-many" <=> r.card = "many-to-one")

\* No embedding joins through a table the API does not expose ("permission
\* denied for schema private").
NoHiddenJunction ==
  pass = "loaded" => \A r \in rels : r.card = "many-to-many" => r.via \in catalog.exposed

\* The children of a table's relationship with itself, asked for by its name.
Children(r, name) ==
  ~Computed(r) /\ r.self /\ r.card = "one-to-many" /\ Len(r.cols) = 1 /\ r.far[2] = name

\* Following a spelling an ambiguity error offers never loses the candidate it
\* was made for, where that joins two relations.  It may not be alone: a hidden
\* junction rerouted through a view that has the junction's whole key is pushed
\* again by the last pass, and no hint tells the two apart.  Of a relation's
\* relationships with itself (is_self_referential) nothing is claimed of the
\* spelling offered, the constraint, which finds none of them: the children are
\* found by the column they point with, and nothing else of them by a hint.
SuggestionsFindTheirs ==
  pass = "loaded" =>
    \A t \in catalog.exposed : \A name \in {r.far[2] : r \in rels} :
      LET found == FindRelationship(t, name, Unnamed)
      IN Cardinality(found) > 1 => \A r \in found :
           /\ Computed(r) \/ ~r.self => r \in FindRelationship(t, name, Disambiguator(r))
           /\ Children(r, name) => r \in FindRelationship(t, name, r.cols[1][2])

\* Every relationship the passes derive can be used from both its ends, over
\* columns and junctions that are there, and a hint meant for it finds it, if not
\* always it alone (a relationship of a relation with itself as said above).
RelationshipsSound == JoinsOnRealColumns /\ EveryWayBack /\ NoHiddenJunction /\ SuggestionsFindTheirs
=============================================================================
