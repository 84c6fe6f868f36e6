----------------------------- MODULE RoleSchema -----------------------------
(***************************************************************************)
(* postrust-graphql: the schema each role is answered from.                *)
(*                                                                         *)
(* A schema cache is reduced to what the permission document grants a role *)
(* (cache_for_role), a schema is generated from what is left               *)
(* (build_schema), and it is registered type by type, each type naming     *)
(* others (build_dynamic_schema).  A type that is named and not registered *)
(* fails the build; two fields of one name in an object panic.             *)
(*                                                                         *)
(* A GraphQL name is the sequence of words the code joins with             *)
(* underscores, so a name that is derived from one table's can meet        *)
(* another table's own.  Scalars and descriptions are left out, and        *)
(* federation is off.                                                      *)
(***************************************************************************)
EXTENDS Integers, Sequences, FiniteSets

CONSTANTS
    Sites,      \* catalogs with their metadata and permission documents
    Plural,     \* the plural of a table's word
    Singular    \* and its singular

VARIABLES
    site,       \* the catalog and the document the server was started on
    server,     \* "starting", "up" or "down"
    toBuild,    \* the schemas still to be built: <<role, backend>>
    built,      \* those that were built
    asking,     \* who is asking: [role, backend], the role "" when none was settled
    serving     \* the schema it is answered from, <<>> before that

schemaVars == <<site, server, toBuild, built, asking, serving>>

AdminRole == "admin"
Nobody == "ungranted"
WholeSchema == ""

\* Of a sequence, what is at some of its places.
Where(seq, places) ==
    LET found[i \in 0..Len(seq)] ==
            IF i = 0 THEN <<>> ELSE IF i \in places THEN Append(found[i - 1], seq[i]) ELSE found[i - 1]
    IN found[Len(seq)]

(***************************************************************************)
(* What a role is granted                                                  *)
(*                                                                         *)
(* A grant is [select, insert, update, delete]; each of the first three is *)
(* empty or holds one record with the columns it names.                    *)
(***************************************************************************)
Grant(s, role, t) ==
    IF role \in DOMAIN s.doc /\ t \in DOMAIN s.doc[role] THEN <<s.doc[role][t]>> ELSE <<>>

HasPermissions(s) == \E r \in DOMAIN s.doc : s.doc[r] # <<>>
HasBackendOnly(s, role) ==
    \E t \in DOMAIN s.doc[role] : s.doc[role][t].insert # <<>> /\ s.doc[role][t].insert[1].backendOnly

MayRead(g, c) == g.select # <<>> /\ c \in g.select[1].columns
MayAggregate(g) == g.select # <<>> /\ g.select[1].aggregations

\* The table as a role sees it: which verbs are left, and the columns it may
\* read together with those it may only write.
Reduced(s, t, g, backend) ==
    LET T == s.tables[t]
        ins == T.ins /\ g.insert # <<>> /\ (backend \/ ~g.insert[1].backendOnly)
        upd == T.upd /\ g.update # <<>>
    IN [ins |-> ins, upd |-> upd, del |-> T.del /\ g.delete,
        columns |-> {c \in T.columns : \/ MayRead(g, c)
                                       \/ ins /\ c \in g.insert[1].columns
                                       \/ upd /\ c \in g.update[1].columns},
        computed |-> {f \in T.computed : g.select # <<>> /\ f.as \in g.select[1].computed},
        name |-> T.name, types |-> T.types, pk |-> T.pk, unique |-> T.unique,
        generated |-> T.generated, renamed |-> T.renamed]

Writes(T) == T.ins \/ T.upd \/ T.del

\* Mutant: a table that can only be counted is dropped.
KeptIfRead(g, T) == (g.select # <<>> \/ Writes(T)) /\ (T.columns # {} \/ T.computed # {} \/ Writes(T))

\* A table that can be neither read, written nor counted is not there.
Kept(g, T) ==
    /\ g.select # <<>> \/ Writes(T)
    /\ T.columns # {} \/ T.computed # {} \/ Writes(T) \/ MayAggregate(g)

ReadsAnything(g, T) == g.select # <<>> /\ (T.computed # {} \/ \E c \in T.columns : MayRead(g, c))

\* The far table must be readable; a table of enum values need not be, since
\* the key is what types the column.
LinkKept(s, readable, link) == link.to \in readable \cup DOMAIN s.enums

CacheForRole(s, role, backend) ==
    LET cut(t) == Reduced(s, t, Grant(s, role, t)[1], backend)
        seen == {t \in DOMAIN s.tables : Grant(s, role, t) # <<>> /\ Kept(Grant(s, role, t)[1], cut(t))}
        readable == {t \in seen : ReadsAnything(Grant(s, role, t)[1], cut(t))}
        kept == {i \in DOMAIN s.links : s.links[i].from \in seen /\ LinkKept(s, readable, s.links[i])}
    IN [tables |-> [t \in seen |-> cut(t)], links |-> Where(s.links, kept), doc |-> s.doc, enums |-> s.enums,
        declared |-> s.declared, roots |-> s.roots, functions |-> s.functions, default |-> s.default, order |-> s.order]

(***************************************************************************)
(* Names                                                                   *)
(***************************************************************************)
Preferred(s, t) ==
    IF s.tables[t].name # <<>> THEN s.tables[t].name
    ELSE IF t[1] = s.default THEN t[2] ELSE <<t[1]>> \o t[2]

Numeral == <<"1", "2", "3", "4">>

\* Tables are visited by schema and name; the second to want a name is numbered.
BaseName(s, t) ==
    LET at == CHOOSE i \in 1..Len(s.order) : s.order[i] = t
        earlier == {i \in 1..(at - 1) : s.order[i] \in DOMAIN s.tables /\ Preferred(s, s.order[i]) = Preferred(s, t)}
    IN IF earlier = {} THEN Preferred(s, t) ELSE Preferred(s, t) \o <<Numeral[Cardinality(earlier) + 1]>>

Root(s, t, kind, default) == IF <<t, kind>> \in DOMAIN s.roots THEN s.roots[<<t, kind>>] ELSE default

\* A column as it is exposed, and the column an exposed name stands for.
Exposed(T, c) == IF c \in DOMAIN T.renamed THEN T.renamed[c] ELSE c
Source(T, name) ==
    IF \E c \in DOMAIN T.renamed : T.renamed[c] = name THEN CHOOSE c \in DOMAIN T.renamed : T.renamed[c] = name
    ELSE name

(***************************************************************************)
(* Object types                                                            *)
(***************************************************************************)
\* Columns first; a computed field named like one of them is left out.
AllFields(T) ==
    {[name |-> Exposed(T, c), type |-> T.types[c], args |-> FALSE] : c \in T.columns}
    \cup {[name |-> f.as, type |-> "text", args |-> f.args] :
            f \in {x \in T.computed : \A c \in T.columns : Exposed(T, c) # x.as}}

\* Mutant: what may be written may be read.
WholeList(s, role, t) == AllFields(s.tables[t])

\* The half of the fields the role may read.
ReadFields(s, role, t) ==
    LET T == s.tables[t]
    IN IF role = WholeSchema \/ Grant(s, role, t) = <<>> THEN AllFields(T)
       ELSE {f \in AllFields(T) : Source(T, f.name) \in T.columns => MayRead(Grant(s, role, t)[1], Source(T, f.name))}

\* The columns a write may name: its own permission's, and none that the
\* database generates.
WriteFields(s, role, t, verb) ==
    LET T == s.tables[t]
        may(c) == role = WholeSchema \/ Grant(s, role, t) = <<>> \/ Grant(s, role, t)[1][verb] = <<>>
                  \/ c \in Grant(s, role, t)[1][verb][1].columns
    IN {f \in AllFields(T) : Source(T, f.name) \in T.columns \ T.generated /\ may(Source(T, f.name))}

\* The list the inputs' existence is decided by: columns, whoever may name them.
Writable(s, t) == {f \in AllFields(s.tables[t]) : Source(s.tables[t], f.name) \in s.tables[t].columns}

Readable(s, role, t) ==
    role = WholeSchema \/ Grant(s, role, t) = <<>> \/ ReadsAnything(Grant(s, role, t)[1], s.tables[t])
Aggregates(s, role, t) == role = WholeSchema \/ (Grant(s, role, t) # <<>> /\ MayAggregate(Grant(s, role, t)[1]))

\* has_whole_key: of the columns that are left, read or written.
WholeKey(T) == T.pk # {} /\ T.pk \subseteq T.columns

(***************************************************************************)
(* Roots                                                                   *)
(***************************************************************************)
QueryRoots(s, role, t) ==
    LET base == BaseName(s, t)
        root(kind, name) == [name |-> Root(s, t, kind, name), kind |-> kind, table |-> t]
    IN (IF Readable(s, role, t) THEN {root("select", base)} ELSE {})
       \cup (IF Aggregates(s, role, t) THEN {root("select_aggregate", base \o <<"aggregate">>)} ELSE {})
       \cup (IF Readable(s, role, t) /\ WholeKey(s.tables[t]) THEN {root("select_by_pk", base \o <<"by_pk">>)} ELSE {})

\* Those that answer with a row need a row type to answer with.
MutationRoots(s, role, t) ==
    LET T == s.tables[t]
        base == BaseName(s, t)
        root(kind, name) == [name |-> Root(s, t, kind, name), kind |-> kind, table |-> t]
        one == Readable(s, role, t)
        key == one /\ WholeKey(T)
    IN (IF T.ins THEN {root("insert", <<"insert">> \o base)} ELSE {})
       \cup (IF T.ins /\ one THEN {root("insert_one", <<"insert">> \o base \o <<"one">>)} ELSE {})
       \cup (IF T.upd THEN {root("update", <<"update">> \o base), root("update_many", <<"update">> \o base \o <<"many">>)} ELSE {})
       \cup (IF T.upd /\ key THEN {root("update_by_pk", <<"update">> \o base \o <<"by_pk">>)} ELSE {})
       \cup (IF T.del THEN {root("delete", <<"delete">> \o base)} ELSE {})
       \cup (IF T.del /\ key THEN {root("delete_by_pk", <<"delete">> \o base \o <<"by_pk">>)} ELSE {})

(***************************************************************************)
(* Relationships                                                           *)
(***************************************************************************)
RelName(s, link) ==
    LET last(base, by) == SubSeq(base, 1, Len(base) - 1) \o <<by[base[Len(base)]]>>
    IN CASE link.given # <<>> -> link.given
         [] link.given = <<>> /\ link.function # <<>> -> link.function
         [] OTHER -> last(BaseName(s, link.to), IF link.list THEN Plural ELSE Singular)

Rel(name, to, list, args) == [name |-> name, to |-> to, list |-> list, args |-> args]
RelsAlong(s, links) == [i \in 1..Len(links) |-> Rel(RelName(s, links[i]), links[i].to, links[i].list, links[i].args)]

\* One field for each key or function that leads to a table the schema has.
ReflectedFields(s, t) ==
    RelsAlong(s, Where(s.links, {i \in DOMAIN s.links : s.links[i].from = t /\ s.links[i].to \in DOMAIN s.tables}))

\* Where metadata declares them, those; one that names a key follows the first
\* such key and one that names columns a table.  Functions are declared
\* elsewhere and stay, unless their name is taken.
DeclaredFields(s, t, entries) ==
    LET follow(e, keys) ==
            IF e.using = "" THEN Rel(e.name, IF e.columns = {} THEN <<>> ELSE e.to, ~e.toOne, "none")
            ELSE IF keys = <<>> THEN Rel(e.name, <<>>, FALSE, "none")
            ELSE Rel(e.name, keys[1].to, keys[1].list, keys[1].args)
        followed == [i \in 1..Len(entries) |->
                       follow(entries[i], Where(s.links, {j \in DOMAIN s.links : s.links[j].from = t /\ s.links[j].key = entries[i].using}))]
        called(l, names) == l.from = t /\ l.function # <<>> /\ l.to \in DOMAIN s.tables /\ RelName(s, l) \notin names
        beside(given) ==
            given \o RelsAlong(s, Where(s.links, {i \in DOMAIN s.links : called(s.links[i], {given[j].name : j \in DOMAIN given})}))
    IN beside(Where(followed, {i \in DOMAIN followed : followed[i].to \in DOMAIN s.tables}))

\* The enum types there are: those with a value that can name a member.
EnumTables(s) == {t \in DOMAIN s.enums : s.enums[t] # {}}

\* A relationship to a table of enum values is no field.
RelFields(s, t) ==
    LET all == IF t \in DOMAIN s.declared THEN DeclaredFields(s, t, s.declared[t]) ELSE ReflectedFields(s, t)
    IN Where(all, {i \in DOMAIN all : all[i].to \notin EnumTables(s)})

(***************************************************************************)
(* Functions                                                               *)
(***************************************************************************)
\* A function that takes a row of a table the schema has is that table's
\* field; one that changes something has to be granted by name.
IsRootFunction(s, role, f) ==
    /\ f.takes \notin {t[2] : t \in DOMAIN s.tables}
    /\ f.returns \in DOMAIN s.tables /\ Readable(s, role, f.returns)
    /\ f.volatile /\ role # WholeSchema => role \in f.roles

\* Of the overloads of a name, the one with the fewest arguments.
RootFunctions(s, role) ==
    LET all == {f \in s.functions : IsRootFunction(s, role, f)}
    IN {f \in all : \A g \in all : g.name = f.name => f.args <= g.args}

\* A function named like a root that is there already is left out.  Of the
\* query roots only the rows' own names are looked at, not their aggregates'.
AddedFunctions(s, role, volatile) ==
    LET listed(t) == Readable(s, role, t) \/ Aggregates(s, role, t)
        queries(t) == {r.name : r \in {q \in QueryRoots(s, role, t) : q.kind = "select_by_pk"}}
                      \cup {name \in {Root(s, t, "select", BaseName(s, t))} : listed(t)}
        mutations(t) == {r.name : r \in MutationRoots(s, role, t)}
        taken == UNION {IF volatile THEN mutations(t) ELSE queries(t) : t \in DOMAIN s.tables}
    IN {f \in RootFunctions(s, role) : f.volatile = volatile /\ f.name \notin taken}

FunctionRoots(s, role, volatile) ==
    UNION {{[name |-> f.name, kind |-> "function", table |-> f.returns],
            [name |-> f.name \o <<"aggregate">>, kind |-> "function_aggregate", table |-> f.returns]} :
           f \in AddedFunctions(s, role, volatile)}

QueryFields(s, role) == (UNION {QueryRoots(s, role, t) : t \in DOMAIN s.tables}) \cup FunctionRoots(s, role, FALSE)
MutationFields(s, role) == (UNION {MutationRoots(s, role, t) : t \in DOMAIN s.tables}) \cup FunctionRoots(s, role, TRUE)

(***************************************************************************)
(* The registered types                                                    *)
(*                                                                         *)
(* For each table the types that are registered under its name, and for    *)
(* each of those the types it names.  Comparison inputs and scalars are    *)
(* registered from what names them and are left out.                       *)
(***************************************************************************)
Numeric == {"int", "float"}
Ordered == {"int", "float", "text"}

HasRows(s, role, t) == ReadFields(s, role, t) # {}

\* functions_for: an aggregate function with no column to apply to has no type.
FunctionsFor(s, role, t) ==
    {f \in {"sum", "max"} : \E c \in ReadFields(s, role, t) : c.type \in IF f = "sum" THEN Numeric ELSE Ordered}

\* A relationship is left out where its name is taken: by a column or a
\* computed field, by an earlier relationship or by an earlier one's aggregate.
Free(rels, names) ==
    LET taken[i \in 0..Len(rels)] ==
            IF i = 0 THEN names
            ELSE LET claim(before) == before \cup {rels[i].name}
                        \cup (IF rels[i].list /\ rels[i].name \notin before THEN {rels[i].name \o <<"aggregate">>} ELSE {})
                 IN claim(taken[i - 1])
    IN {rels[i] : i \in {j \in 1..Len(rels) : rels[j].name \notin taken[j - 1]}}
FreeRels(s, role, t) == Free(RelFields(s, t), {f.name : f \in ReadFields(s, role, t)})

Rels(s, t) == LET members(rels) == {rels[i] : i \in DOMAIN rels} IN members(RelFields(s, t))
ListTargets(s) == {r.to : r \in {x \in UNION {Rels(s, t) : t \in DOMAIN s.tables} : x.list}}

MutationKinds(s, role, t) == {r.kind : r \in MutationRoots(s, role, t)}
Bulk == {"insert", "update", "update_many", "delete"}

Typed(fields, types) == \E f \in fields : f.type \in types

\* The inputs of an update: which exist is asked of the columns the update
\* permission names.
UpdateInputs(s, role, t) ==
    LET fields == WriteFields(s, role, t, "update")
    IN {"set_input"} \cup {k \in {"inc_input"} : Typed(fields, Numeric)}
                     \cup {k \in {"append_input"} : Typed(fields, {"json"})}

\* The suffixes of the types registered under a table's name; the row type
\* itself has none.
RegisteredFor(s, role, t) ==
    LET T == s.tables[t]
        rows == HasRows(s, role, t)
        functions == FunctionsFor(s, role, t)
    IN {<<"bool_exp">>}
       \cup (IF rows THEN {<<>>, <<"order_by">>, <<"select_column">>, <<"aggregate_order_by">>}
                          \cup {<<f, "order_by">> : f \in functions} ELSE {})
       \cup (IF rows \/ Aggregates(s, role, t)
             THEN {<<"aggregate">>, <<"aggregate_fields">>} \cup {<<f, "fields">> : f \in functions} ELSE {})
       \cup (IF MutationKinds(s, role, t) \cap Bulk # {} THEN {<<"mutation_response">>} ELSE {})
       \cup (IF "update_by_pk" \in MutationKinds(s, role, t) THEN {<<"pk_columns_input">>} ELSE {})
       \cup (IF T.ins /\ Writable(s, t) # {}
             THEN {<<"insert_input">>, <<"obj_rel_insert_input">>, <<"arr_rel_insert_input">>} ELSE {})
       \cup (IF T.upd /\ Writable(s, t) # {} THEN {<<"updates">>} \cup {<<k>> : k \in UpdateInputs(s, role, t)} ELSE {})
       \cup (IF T.unique THEN {<<"constraint">>, <<"update_column">>, <<"on_conflict">>} ELSE {})
       \cup (IF t \in ListTargets(s) THEN {<<"aggregate_bool_exp">>, <<"aggregate_bool_exp_count">>} ELSE {})

\* A function that takes arguments has a type for them.
ArgumentTypes(s, role, t) ==
    {f.name \o <<"args">> : f \in {x \in ReadFields(s, role, t) : x.args}}
    \cup {r.name \o <<"args">> : r \in {x \in Rels(s, t) : x.args # "none"}}

Of(s, t, suffixes) == {BaseName(s, t) \o suffix : suffix \in suffixes}

RowArguments == {<<"bool_exp">>, <<"order_by">>, <<"select_column">>}

\* What a row type's fields name: a relationship its far type and, of a list,
\* the arguments and the aggregate beside it.
ObjectNames(s, role, t) ==
    UNION {Of(s, r.to, {<<>>} \cup IF r.list THEN RowArguments \cup {<<"aggregate">>} ELSE {})
           \cup (IF r.args # "none" THEN Of(s, t, {r.name \o <<"args">>}) ELSE {}) : r \in FreeRels(s, role, t)}
    \cup Of(s, t, {f.name \o <<"args">> : f \in {x \in ReadFields(s, role, t) : x.args}})

AggregateNames(s, role, t) ==
    Of(s, t, {<<"aggregate_fields">>} \cup {<<f, "fields">> : f \in FunctionsFor(s, role, t)}
             \cup IF HasRows(s, role, t) THEN {<<>>, <<"select_column">>} ELSE {})

\* A function that insists on arguments cannot be filtered by.
BoolExpNames(s, t) ==
    UNION {Of(s, r.to, {<<"bool_exp">>} \cup IF r.list THEN {<<"aggregate_bool_exp">>} ELSE {}) :
           r \in {x \in Rels(s, t) : x.args # "required"}}

OrderByNames(s, role, t) ==
    UNION {Of(s, r.to, IF r.list THEN {<<"aggregate_order_by">>} ELSE {<<"order_by">>}) : r \in FreeRels(s, role, t)}

\* A nested row only where the far table can be inserted into.
NestedWrite(s, r) == s.tables[r.to].ins

InsertNames(s, role, t) ==
    UNION {Of(s, r.to, IF r.list THEN {<<"arr_rel_insert_input">>} ELSE {<<"obj_rel_insert_input">>}) :
           r \in {x \in Rels(s, t) : NestedWrite(s, x) /\ x.name \notin {f.name : f \in WriteFields(s, role, t, "insert")}}}
    \cup Of(s, t, {<<"insert_input">>} \cup IF s.tables[t].unique THEN {<<"on_conflict">>} ELSE {})

NamesOf(s, role, t, has) ==
       (IF <<>> \in has THEN ObjectNames(s, role, t) \cup OrderByNames(s, role, t) ELSE {})
       \cup (IF <<"aggregate">> \in has THEN AggregateNames(s, role, t) ELSE {})
       \cup BoolExpNames(s, t)
       \cup (IF <<"mutation_response">> \in has /\ <<>> \in has THEN Of(s, t, {<<>>}) ELSE {})
       \cup (IF <<"insert_input">> \in has THEN InsertNames(s, role, t) ELSE {})
       \cup (IF <<"updates">> \in has THEN Of(s, t, {<<k>> : k \in UpdateInputs(s, role, t)}) ELSE {})
       \cup (IF t \in ListTargets(s) THEN Of(s, t, {<<"select_column">>, <<"bool_exp">>}) ELSE {})
RegisteredNames(s, role, t) == NamesOf(s, role, t, RegisteredFor(s, role, t))

\* What the roots answer with, and the arguments they take.
RootNames(s, role, r) ==
    Of(s, r.table,
       CASE r.kind = "select" -> {<<>>} \cup RowArguments
         [] r.kind = "select_by_pk" -> {<<>>}
         [] r.kind = "select_aggregate" -> {<<"aggregate">>, <<"bool_exp">>}
                                           \cup IF Readable(s, role, r.table) THEN RowArguments ELSE {}
         [] r.kind = "function" -> {<<>>} \cup RowArguments
         [] r.kind = "function_aggregate" -> {<<"aggregate">>} \cup RowArguments
         [] r.kind \in {"insert", "insert_one"} ->
                {<<"insert_input">>, IF r.kind = "insert" THEN <<"mutation_response">> ELSE <<>>}
                \cup IF s.tables[r.table].unique THEN {<<"on_conflict">>} ELSE {}
         [] r.kind = "update" -> {<<"mutation_response">>, <<"bool_exp">>} \cup {<<k>> : k \in UpdateInputs(s, role, r.table)}
         [] r.kind = "update_by_pk" -> {<<>>, <<"pk_columns_input">>} \cup {<<k>> : k \in UpdateInputs(s, role, r.table)}
         [] r.kind = "update_many" -> {<<"mutation_response">>, <<"updates">>}
         [] r.kind = "delete" -> {<<"mutation_response">>, <<"bool_exp">>}
         [] r.kind = "delete_by_pk" -> {<<>>})

Registered(s, role) ==
    UNION {Of(s, t, RegisteredFor(s, role, t) \cup ArgumentTypes(s, role, t)) : t \in DOMAIN s.tables}
Named(s, role) ==
    UNION {RegisteredNames(s, role, t) : t \in DOMAIN s.tables}
    \cup UNION {RootNames(s, role, r) : r \in QueryFields(s, role) \cup MutationFields(s, role)}

\* finish: refused where a name has no type.
Builds(s, role) == Named(s, role) \subseteq Registered(s, role)

\* Object::field panics on the second field of a name.
Doubled(roots) == \E q, r \in roots : q # r /\ q.name = r.name
Panics(s, role) == Doubled(QueryFields(s, role)) \/ Doubled(MutationFields(s, role))

(***************************************************************************)
(* Building and serving                                                    *)
(***************************************************************************)
Roles(s) == {r \in DOMAIN s.doc : s.doc[r] # <<>>} \ {AdminRole}

\* The unrestricted schema, one for each role or two where something is for a
\* backend only, and one for whoever the document does not name.
Schemas(s) ==
    {<<WholeSchema, FALSE>>}
    \cup (IF HasPermissions(s)
          THEN {key \in (Roles(s) \cup {Nobody}) \X BOOLEAN : key[2] => key[1] # Nobody /\ HasBackendOnly(s, key[1])} ELSE {})

View(s, key) == IF key[1] = WholeSchema THEN s ELSE CacheForRole(s, key[1], key[2])

\* The fields of a table have names of their own: a column is renamed if the
\* table has it, no two columns are exposed under one name (two fields of one
\* name abort the build of any schema), and no computed field is called like
\* a column.
FieldsApart(T) ==
    /\ DOMAIN T.renamed \subseteq T.columns
    /\ \A c, d \in T.columns : Exposed(T, c) = Exposed(T, d) => c = d
    /\ \A f \in T.computed, c \in T.columns : f.as # c /\ f.as # Exposed(T, c)

\* No table's row type is called like a type derived from a table's name.
TypesApart(s, role) ==
    \A t, u \in DOMAIN s.tables :
        /\ \A suffix \in RegisteredFor(s, role, t) :
              Of(s, t, {suffix}) = Of(s, u, {<<>>}) => t = u /\ suffix = <<>>
        /\ \A suffix \in ArgumentTypes(s, role, t) : Of(s, t, {suffix}) # Of(s, u, {<<>>})

\* Keys and declared relationships come in an order.
IsSequence(seq) == seq \in Seq({seq[i] : i \in DOMAIN seq})

\* Metadata that is consistent: names are unambiguous, in a table and among
\* the types of a role, and no role has the name of nobody's schema (which
\* begins with a NUL in the code).
ASSUME SitesAssumption ==
    \A s \in Sites :
        /\ IsSequence(s.links) /\ \A t \in DOMAIN s.declared : IsSequence(s.declared[t])
        /\ Nobody \notin DOMAIN s.doc
        /\ \A t \in DOMAIN s.tables : FieldsApart(s.tables[t])
        /\ \A key \in Schemas(s) : key[1] \in Roles(s) => TypesApart(View(s, key), key[1])

SchemaInit ==
    /\ site \in Sites /\ server = "starting"
    /\ toBuild = Schemas(site) /\ built = {}
    /\ asking = <<>> /\ serving = <<>>

\* The unrestricted schema comes first, and there is no server without it; the
\* roles come in the order of a hash map, each failing alone.
Build(key) ==
    /\ server = "starting" /\ key \in toBuild
    /\ <<WholeSchema, FALSE>> \in toBuild => key[1] = WholeSchema
    /\ \E view \in {View(site, key)} : \E ok \in {Builds(view, key[1])} :
         \E fatal \in {Panics(view, key[1]) \/ (key[1] = WholeSchema /\ ~ok)} :
           /\ toBuild' = toBuild \ {key}
           /\ built' = IF ok /\ ~fatal THEN built \cup {key} ELSE built
           /\ server' = CASE fatal -> "down" [] toBuild = {key} -> "up" [] OTHER -> "starting"
    /\ UNCHANGED <<site, asking, serving>>

\* A role with nothing for a backend only has one schema for both.
SchemaFor(role, backend) ==
    IF ~HasPermissions(site) \/ role \in {WholeSchema, AdminRole} THEN <<WholeSchema, FALSE>>
    ELSE IF <<role, backend>> \in built THEN <<role, backend>>
    ELSE IF <<role, FALSE>> \in built THEN <<role, FALSE>>
    ELSE <<Nobody, FALSE>>

Serve(role, backend) ==
    /\ server = "up"
    /\ asking' = [role |-> role, backend |-> backend]
    /\ serving' = SchemaFor(role, backend)
    /\ UNCHANGED <<site, server, toBuild, built>>

Strangers == {WholeSchema, AdminRole, "stranger"}

SchemaNext ==
    \/ \E key \in toBuild : Build(key)
    \/ \E role \in Roles(site) \cup Strangers, backend \in BOOLEAN : Serve(role, backend)

SchemaSpec == SchemaInit /\ [][SchemaNext]_schemaVars

(***************************************************************************)
(* Properties                                                              *)
(***************************************************************************)
Restricted == serving # <<>> /\ HasPermissions(site) /\ asking.role \notin {WholeSchema, AdminRole}

\* The tables met from a set of them by following relationships or, for
\* inserts, by writing rows beside a row: what is in every set that holds
\* those to start from and, with a table, those one step further.
Closure(s, from, step(_)) ==
    LET closed == {met \in SUBSET DOMAIN s.tables : from \subseteq met /\ \A t \in met : step(t) \subseteq met}
    IN {t \in DOMAIN s.tables : \A met \in closed : t \in met}

RowTables(s, role) ==
    LET follow(t) == {r.to : r \in FreeRels(s, role, t)}
        roots == {r.table : r \in QueryFields(s, role) \cup MutationFields(s, role)}
    IN Closure(s, {t \in roots : HasRows(s, role, t)}, follow)

InsertTables(s, role) ==
    LET nested(t) == {r.to : r \in {x \in Rels(s, t) : NestedWrite(s, x)}}
    IN Closure(s, {r.table : r \in {x \in MutationFields(s, role) : x.kind = "insert"}}, nested)

Granted(role, t) == Grant(site, role, t)

(***************************************************************************)
(* cache_for_role and the split of readable from writable fields: whatever *)
(* a query can reach, from a root, a function, a write's `returning` or    *)
(* along any chain of relationships, is a column or a computed field of a  *)
(* table the document lets the asking role select; a role it does not      *)
(* name, or one whose schema could not be built, reaches nothing.          *)
(***************************************************************************)
ReadsOnlyGranted ==
    Restricted =>
        LET within(view) ==
           \A t \in RowTables(view, serving[1]) :
              /\ Granted(asking.role, t) # <<>> /\ Granted(asking.role, t)[1].select # <<>>
              /\ LET select == Granted(asking.role, t)[1].select[1]
                 IN \A f \in ReadFields(view, serving[1], t) :
                       \/ Source(site.tables[t], f.name) \in select.columns
                       \/ f.name \in select.computed /\ Source(site.tables[t], f.name) \notin site.tables[t].columns
        IN within(View(site, serving))

(***************************************************************************)
(* write_fields and insertable_types: whatever an input accepts, at a root *)
(* or nested at any depth, is a column that verb's own permission grants,  *)
(* and an insert that is for a backend only is offered to a backend only.  *)
(***************************************************************************)
WritesOnlyGranted ==
    Restricted =>
        LET role == serving[1]
            columns(view, t, verb) == {Source(site.tables[t], f.name) : f \in WriteFields(view, role, t, verb)}
            within(view) ==
           /\ \A t \in InsertTables(view, role) :
                 /\ Granted(asking.role, t) # <<>> /\ Granted(asking.role, t)[1].insert # <<>>
                 /\ Granted(asking.role, t)[1].insert[1].backendOnly => asking.backend
                 /\ columns(view, t, "insert") \subseteq Granted(asking.role, t)[1].insert[1].columns
           /\ \A r \in {x \in MutationFields(view, role) : x.kind \in {"update", "update_many", "update_by_pk"}} :
                 columns(view, r.table, "update") \subseteq Granted(asking.role, r.table)[1].update[1].columns
           /\ \A r \in {x \in MutationFields(view, role) : x.kind = "delete"} : Granted(asking.role, r.table)[1].delete
        IN within(View(site, serving))

(***************************************************************************)
(* cache_for_role: a grant is never lost with another. A role answered     *)
(* from its own schema finds each column it may select under a root, a     *)
(* root for each verb it was granted, and each relationship between two    *)
(* tables it may read -- on a table it may only write as well. A           *)
(* relationship whose field another field of the table has taken the name  *)
(* of counts as found: it is in the view, and the code warns and does not  *)
(* offer it (handler.rs:1801).                                             *)
(***************************************************************************)
GrantsAreReachable ==
    LET found(view, roots, names) ==
          \A t \in DOMAIN site.doc[asking.role] \cap DOMAIN site.tables :
              LET g == site.doc[asking.role][t]
                  T == site.tables[t]
                  has(kind) == <<t, kind>> \in roots
              IN /\ g.select # <<>> => \A c \in g.select[1].columns \cap T.columns : has("select") /\ <<t, Exposed(T, c)>> \in names
                 /\ g.select # <<>> /\ g.select[1].aggregations => has("select_aggregate")
                 /\ g.insert # <<>> /\ T.ins /\ (g.insert[1].backendOnly => asking.backend) => has("insert")
                 /\ g.update # <<>> /\ T.upd => has("update")
                 /\ g.delete /\ T.del => has("delete")
                 /\ \A i \in 1..Len(site.links) :
                        LET l == site.links[i]
                        IN l.from = t /\ has("select") /\ t \notin DOMAIN site.declared /\ l.to \in DOMAIN view.tables
                           /\ Readable(view, asking.role, l.to) /\ l.to \notin EnumTables(site)
                           => \E r \in Rels(view, t) : r.to = l.to
        within(view) ==
          found(view, {<<r.table, r.kind>> : r \in QueryFields(view, asking.role) \cup MutationFields(view, asking.role)},
                UNION {{<<t, f.name>> : f \in ReadFields(view, asking.role, t)} : t \in DOMAIN view.tables})
    IN Restricted /\ serving[1] = asking.role => within(View(site, serving))

\* What a permission document is expected to look like: a write grants some
\* column the table has, a relationship declared by its columns leads to a
\* table the role may read, a table marked as an enumeration has values, and
\* no computed field is named like a column.
Ordinary(s, role) ==
    /\ \A t \in DOMAIN s.doc[role] \cap DOMAIN s.tables :
          LET g == s.doc[role][t]
          IN /\ g.insert # <<>> => g.insert[1].columns \cap s.tables[t].columns # {}
             /\ g.update # <<>> => g.update[1].columns \cap s.tables[t].columns # {}
             /\ \A f \in s.tables[t].computed : f.as \notin s.tables[t].columns
             /\ t \in DOMAIN s.declared => \A i \in 1..Len(s.declared[t]) :
                    LET far == Grant(s, role, s.declared[t][i].to)
                    IN s.declared[t][i].using = "" /\ far # <<>> => far[1].select # <<>> /\ far[1].select[1].columns # {}
    /\ \A t \in DOMAIN s.enums : s.enums[t] # {}

(***************************************************************************)
(* build_dynamic_schema: no type is named that is not registered, whatever *)
(* combination of reading, writing and counting a role was granted on the  *)
(* tables that relationships lead between, so that no role loses its whole *)
(* schema over one field.                                                  *)
(***************************************************************************)
RoleIsBuilt ==
    server = "up" => \A key \in Schemas(site) : key[1] \in Roles(site) /\ Ordinary(site, key[1]) => key \in built

\* No name is what is derived from another: an aggregate's, a key's, a write's
\* or a numbered one's.
PlainNames(s) ==
    LET names == {Preferred(s, t) : t \in DOMAIN s.tables} \cup {f.name : f \in s.functions} \cup {s.roots[k] : k \in DOMAIN s.roots}
    IN \A n \in names : /\ n[Len(n)] \notin {"aggregate", "by_pk", "one", "many", "2"}
                        /\ n[1] \notin {"insert", "update", "delete"}

(***************************************************************************)
(* add_function_fields and the numbering of names: two schemas' tables of  *)
(* one name, a function named like a table, or overloads of a function     *)
(* never give a root the same field twice, which would keep the server     *)
(* from starting.                                                          *)
(***************************************************************************)
ServerStarts == PlainNames(site) => server # "down"

(***************************************************************************)
(* cache_for_role, build_dynamic_schema and schema_for: the columns a      *)
(* caller can read or write and the verbs it can use, through the schema   *)
(* it is answered from, are within what the document grants the role it    *)
(* asks as. Of aggregates it says nothing: those of a relationship are     *)
(* offered whether or not the far table's grant has allow_aggregations,    *)
(* against docs/configuration.md:608.                                      *)
(***************************************************************************)
NothingBeyondTheGrant == ReadsOnlyGranted /\ WritesOnlyGranted

(***************************************************************************)
(* build_dynamic_schema for each role: nothing of a grant is lost, and the *)
(* schema is there to be answered from.                                    *)
(***************************************************************************)
GrantIsServed == GrantsAreReachable /\ RoleIsBuilt /\ ServerStarts
=============================================================================
