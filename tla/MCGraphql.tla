----------------------------- MODULE MCGraphql ------------------------------
(***************************************************************************)
(* Small instances of the GraphQL reads, the GraphQL writes, the schemas   *)
(* of the roles and who an operation is answered as.  A behaviour is one   *)
(* scene: the variables of the others stand at one of their initial        *)
(* values.                                                                 *)
(***************************************************************************)
EXTENDS GqlWrite, RoleSchema, Identity, TLC

VARIABLE scene

(***************************************************************************)
(* Reads                                                                   *)
(***************************************************************************)
RelOf(name, expr) == [Entry("rel") EXCEPT !.name = name, !.of = <<expr>>]
Conn(key, of) == [Entry(key) EXCEPT !.of = of]
SessionVar(name, op, v) == [Entry("col") EXCEPT !.name = name, !.op = op, !.var = v]
MCKeys == [articles |-> [from |-> "author", far |-> "article", local |-> "id", foreign |-> "owner", list |-> TRUE],
           author |-> [from |-> "article", far |-> "author", local |-> "owner", foreign |-> "id", list |-> FALSE]]
Art(id, owner, shown) == [id |-> id, owner |-> owner, shown |-> shown]
Db(arts) == [author |-> <<[id |-> 2, owner |-> 1, shown |-> 0], [id |-> 1, owner |-> 2, shown |-> 1]>>, article |-> arts]
Dbs == {Db(<<Art(3, 1, 1), Art(1, 1, 0), Art(2, 2, 1)>>), Db(<<Art(1, 1, Null), Art(2, 1, 1), Art(3, 2, 0), Art(4, Null, 1)>>)}
ArticleFilters == {<<>>, <<SessionVar("owner", "", "user")>>, <<RelOf("author", <<SessionVar("id", "_eq", "user")>>)>>,
  <<Conn("$or", <<<<Col("shown", "_eq", <<1>>)>>, <<SessionVar("owner", "_in", "users")>>>>)>>,
  <<[Entry("_exists") EXCEPT !.name = "author", !.of = <<<<SessionVar("id", "_eq", "user"), Col("shown", "", <<1>>)>>>>]>>,
  <<Conn("_not", <<<<Col("shown", "_eq", <<1>>)>>>>)>>,
  <<RelOf("author", <<[Entry("other") EXCEPT !.name = "owner", !.op = "_cne", !.other = "id", !.dollar = TRUE]>>)>>}
AuthorFilters == {<<SessionVar("id", "_neq", "user")>>, <<RelOf("articles", <<Col("shown", "_eq", <<1>>)>>)>>}
Ctx(role, doc, session, max) == [role |-> role, doc |-> doc, session |-> session, maxRows |-> max]
Sel(f, l) == [filter |-> f, limit |-> l]
MCCtxs == {Ctx("admin", [u |-> <<>>], <<>>, m) : m \in {<<>>, <<1>>}}
  \cup {Ctx("u", [u |-> [article |-> Sel(f, l), author |-> Sel(g, <<>>)]], s, <<>>) :
          f \in ArticleFilters, g \in AuthorFilters, <<l, s>> \in {<< <<>>, [user |-> <<1>>, users |-> <<1, 2>>] >>, << <<>>, [user |-> <<2>>, users |-> <<>>] >>, << <<1>>, [user |-> <<1>>, users |-> <<1, 2>>] >>}}
  \cup {Ctx("u", [u |-> [article |-> Sel(f, <<2>>), author |-> Sel(<<>>, <<>>)]], [users |-> <<1>>], <<1>>) : f \in ArticleFilters}
  \cup {Ctx("u", [u |-> [article |-> Sel(f, <<>>)]], [user |-> <<1>>, users |-> <<>>], <<>>) : f \in ArticleFilters}
Term(rel, col, dir) == [rel |-> rel, col |-> col, dir |-> dir]
ById == <<Term("", "id", "asc")>>
Wheres == {<<>>, <<Col("shown", "_eq", <<1>>)>>, <<Conn("_not", <<<<RelOf("author", <<Col("shown", "_eq", <<1>>)>>)>>>>)>>,
   <<RelOf("author", <<RelOf("articles", <<Col("shown", "_neq", <<1>>)>>)>>)>>,
   <<Conn("_or", <<<<RelOf("author", <<>>)>>, <<Col("shown", "_is_null", <<1>>)>>>>), Col("id", "_gt", <<1>>)>>}
AuthorWheres == {<<>>, <<RelOf("articles", <<Col("shown", "_eq", <<1>>)>>)>>, <<Conn("_not", <<<<RelOf("articles", <<>>)>>>>)>>}
Q(kind, t, w, o, d, l, e) == [kind |-> kind, table |-> t, pk |-> 1, where |-> w, order |-> o, distinct |-> d, limit |-> l, offset |-> 0, embeds |-> e]
Emb(rel, agg, w, o, d, l, e) == [rel |-> rel, agg |-> agg, where |-> w, order |-> o, distinct |-> d, limit |-> l, offset |-> 0, embeds |-> e]
Plain1 == Emb("author", FALSE, <<>>, <<>>, <<>>, <<>>, <<>>)
Orders == {ById, <<Term("", "shown", "asc"), Term("", "id", "desc")>>, <<Term("author", "shown", "desc"), Term("", "id", "asc")>>, <<Term("author", "shown", "asc_nulls_first")>>,
           <<Term("", "owner", "desc"), Term("", "shown", "asc_nulls_first")>>}
MCQueries ==
  {Q("list", "article", w, ById, <<>>, l, e) : w \in Wheres, l \in {<<>>, <<2>>}, e \in {<<>>, <<Plain1>>}}
  \cup {Q(k, "article", <<>>, ById, <<>>, <<>>, <<>>) : k \in {"by_pk", "aggregate"}}
  \cup {[Q("aggregate", "article", w, ById, <<>>, l, <<Plain1>>) EXCEPT !.offset = 1] : w \in Wheres, l \in {<<>>, <<1>>}}
  \cup {Q("list", "article", <<>>, o, d, l, <<>>) : o \in Orders \cup {<<>>}, d \in {<<>>, <<"owner">>, <<"shown">>}, l \in {<<>>, <<1>>}}
  \cup {Q("list", "author", w, ById, <<>>, <<>>, <<Emb("articles", a, x, o, d, l, e)>>) : w \in AuthorWheres, a \in BOOLEAN, x \in {<<>>, <<Col("shown", "_eq", <<1>>)>>},
          o \in {<<>>, <<Term("", "shown", "desc"), Term("", "id", "desc")>>}, d \in {<<>>, <<"shown">>}, l \in {<<>>, <<1>>}, e \in {<<>>, <<Plain1>>}}
  \cup {Q("list", "author", <<>>, ById, <<>>, <<>>, <<Emb("articles", a, <<>>, ById, <<>>, <<1>>, <<Plain1>>), Emb("articles", b, <<Col("shown", "_eq", <<1>>)>>, ById, <<>>, <<>>, e)>>) :
          a, b \in BOOLEAN, e \in {<<>>, <<Plain1>>}}
  \cup {Q("list", "author", <<>>, <<Term("articles", "count", "desc"), Term("", "id", "asc")>>, <<>>, <<>>, <<>>),
        Q("list", "author", <<[Entry("agg") EXCEPT !.name = "articles", !.op = "_gt", !.vals = <<1>>, !.of = <<<<>>>>]>>, ById, <<>>, <<>>, <<>>)}
MCReads == {[db |-> d, ctx |-> c, query |-> q, writes |-> IF q.kind = "aggregate" THEN {Db(<<Art(5, 1, 1)>>)} ELSE {}] : d \in Dbs, c \in MCCtxs, q \in MCQueries}

(***************************************************************************)
(* Writes                                                                  *)
(***************************************************************************)
MCReferences == [article |-> {[local |-> "owner", far |-> "author"]}, author |-> {}]
WDbs == {Db(<<Art(3, 1, 1), Art(1, 1, 0), Art(2, 2, 1)>>)}
Set(col, val, var) == [c \in {col} |-> [val |-> val, var |-> var]]
Ins(check, set) == <<[check |-> check, set |-> set]>>
Upd(filter, check, set) == <<[filter |-> filter, check |-> check, set |-> set]>>
Del(filter) == <<[filter |-> filter, set |-> <<>>]>>
Mine == <<SessionVar("owner", "", "user")>>
Visible == <<Col("shown", "_eq", <<1>>)>>
ViaAuthor == <<RelOf("author", <<SessionVar("id", "_eq", "user")>>)>>
ArticleGrants ==
  {[ins |-> Ins(c, s), upd |-> Upd(f, k, u), del |-> d] :
     c \in {<<>>, Mine, ViaAuthor}, s \in {<<>>, Set("owner", 0, "user")}, f \in {Mine, Visible}, k \in {<<>>, Visible}, u \in {<<>>, Set("shown", 1, "")}, d \in {Del(Mine)}}
  \cup {[ins |-> Ins(Mine, Set("owner", 0, "user")), upd |-> <<>>, del |-> <<>>]}
AuthorGrant == [ins |-> Ins(<<>>, <<>>), upd |-> <<>>, del |-> Del(<<>>)]
WCtxs == {[role |-> "admin", doc |-> [u |-> <<>>], session |-> <<>>]}
  \cup {[role |-> "u", doc |-> [u |-> [article |-> g, author |-> AuthorGrant]], session |-> s] : g \in ArticleGrants, s \in {[user |-> <<1>>]}}
  \cup {[role |-> "u", doc |-> [u |-> [article |-> g]], session |-> s] : g \in {CHOOSE x \in ArticleGrants : x.ins[1].set # <<>>}, s \in {[user |-> <<2>>], <<>>}}
Blank == [kind |-> "", table |-> "article", verb |-> "upd", pk |-> 0, where |-> <<>>, objects |-> <<>>, set |-> <<>>, inc |-> <<>>, updates |-> <<>>, embeds |-> FALSE]
O(cols, nested, conflict) == [cols |-> cols, nested |-> nested, conflict |-> conflict]
Cols1(c, v) == [x \in {c} |-> v]
Cols2(c, v, d, w) == [x \in {c, d} |-> IF x = c THEN v ELSE w]
N(rel, data, conflict) == [rel |-> rel, data |-> data, conflict |-> conflict]
Conf(cols, where) == <<[columns |-> cols, where |-> where]>>
ArticleObjects ==
  {O(<<>>, <<>>, <<>>), O(Cols2("owner", 1, "shown", 1), <<>>, <<>>), O(Cols2("owner", 2, "shown", 0), <<>>, <<>>), O(Cols1("owner", 9), <<>>, <<>>),
   O(Cols1("shown", 1), <<N("author", <<O(Cols1("shown", 1), <<>>, <<>>)>>, <<>>)>>, <<>>),
   O(Cols1("owner", 1), <<N("author", <<O(<<>>, <<>>, <<>>)>>, <<>>)>>, <<>>),
   O(Cols2("id", 3, "shown", 0), <<>>, <<>>)}
  \cup {O(Cols2("id", i, "shown", 0), <<>>, Conf(c, w)) : i \in {2, 3}, c \in {{}, {"shown"}, {"shown", "owner"}}, w \in {<<>>, Visible}}
AuthorObjects ==
  {O(<<>>, <<N("articles", <<O(Cols1("shown", s), <<>>, <<>>), O(Cols1("shown", 1), <<>>, <<>>)>>, <<>>)>>, <<>>) : s \in {0, 1}}
  \cup {O(Cols1("id", 5), <<N("articles", <<O(Cols2("id", 3, "shown", 0), <<>>, <<>>)>>, c)>>, <<>>) : c \in {<<>>, Conf({"owner"}, <<>>), Conf({}, <<>>)}}
  \cup {O(<<>>, <<N("articles", <<O(Cols1("owner", 2), <<>>, <<>>)>>, <<>>)>>, <<>>), O(Cols1("id", 1), <<N("articles", <<O(<<>>, <<>>, <<>>)>>, <<>>)>>, Conf({}, <<>>))}
WWheres == {<<>>, <<[Entry("_and") EXCEPT !.of = <<>>]>>, <<[Entry("_not") EXCEPT !.of = <<<<>>>>]>>, Visible, <<RelOf("author", <<Col("shown", "_eq", <<1>>)>>)>>, <<[Entry("_or") EXCEPT !.of = <<>>]>>}
Fields ==
  {[Blank EXCEPT !.kind = "insert", !.verb = "ins", !.objects = <<o>>, !.embeds = e] : o \in ArticleObjects, e \in BOOLEAN}
  \cup {[Blank EXCEPT !.kind = "insert", !.verb = "ins", !.table = "author", !.objects = <<o>>, !.embeds = TRUE] : o \in AuthorObjects}
  \cup {[Blank EXCEPT !.kind = "update", !.where = w, !.pk = p, !.set = s, !.inc = n] : w \in WWheres, p \in {0, 2}, s \in {<<>>, Cols1("shown", 0), Cols1("owner", 2)}, n \in {<<>>, Cols1("shown", 1)}}
  \cup {[Blank EXCEPT !.kind = "delete", !.verb = "del", !.where = w, !.pk = p] : w \in WWheres, p \in {0, 1, 2}}
  \cup {[Blank EXCEPT !.kind = "delete", !.verb = "del", !.table = "author", !.pk = 1]}
  \cup {[Blank EXCEPT !.kind = "update_many", !.updates = <<[set |-> Cols1("shown", 0), inc |-> <<>>, where |-> <<Col("id", "_eq", <<1>>)>>], [set |-> Cols1("owner", 1), inc |-> <<>>, where |-> w]>>] : w \in {<<>>, Visible}}
SecondFields == {[Blank EXCEPT !.kind = "insert", !.verb = "ins", !.objects = <<O(Cols2("owner", 1, "shown", 1), <<>>, <<>>)>>],
           [Blank EXCEPT !.kind = "update", !.set = Cols1("shown", 1), !.where = Visible],
           [Blank EXCEPT !.kind = "delete", !.verb = "del", !.where = Visible]}
MCMutations == {[db |-> d, ctx |-> c, fields |-> fs] : d \in WDbs, c \in WCtxs, fs \in {<<f>> : f \in Fields} \cup {<<f, g>> : f \in SecondFields, g \in {x \in Fields : x.kind = "insert" \/ x.set # <<>>} }}

(***************************************************************************)
(* Sites                                                                   *)
(***************************************************************************)
Id == <<"id">>
AuthorId == <<"author", "id">>
TitleCol == <<"title">>
Author == <<"public", <<"author">>>>
Article == <<"public", <<"article">>>>
Stage == <<"public", <<"stage">>>>
Old == <<"old", <<"article">>>>

Table(columns, types) ==
    [name |-> <<>>, columns |-> columns, types |-> types, pk |-> {Id}, unique |-> TRUE,
     ins |-> TRUE, upd |-> TRUE, del |-> TRUE, computed |-> {}, generated |-> {}, renamed |-> <<>>]

AuthorT == [Table({Id, <<"name">>}, (Id :> "int") @@ (<<"name">> :> "text")) EXCEPT
              !.computed = {[as |-> <<"fame">>, args |-> TRUE]}, !.renamed = (<<"name">> :> <<"called">>)]
ArticleT == [Table({Id, AuthorId, TitleCol}, (Id :> "int") @@ (AuthorId :> "int") @@ (TitleCol :> "json")) EXCEPT !.generated = {Id}]
StageT == Table({Id}, Id :> "text")

Link(from, to, key, list) == [from |-> from, to |-> to, key |-> key, given |-> <<>>, function |-> <<>>, list |-> list, args |-> "none"]
Links == <<Link(Article, Author, "fk", FALSE), Link(Author, Article, "fk", TRUE), Link(Article, Stage, "st", FALSE),
           [Link(Author, Article, "", TRUE) EXCEPT !.function = <<"recent">>, !.args = "required"]>>

Select(columns, agg) == <<[columns |-> columns, computed |-> {<<"fame">>}, aggregations |-> agg]>>
SelectPlain(columns, agg) == <<[columns |-> columns, computed |-> {}, aggregations |-> agg]>>
Writes0(columns, backend) == <<[columns |-> columns, backendOnly |-> backend]>>
Perm(select, insert, update, delete) == [select |-> select, insert |-> insert, update |-> update, delete |-> delete]

AuthorPerms == {Perm(<<>>, Writes0({<<"name">>}, FALSE), <<>>, FALSE),
                Perm(Select({Id}, FALSE), <<>>, <<>>, FALSE),
                Perm(Select({Id, <<"name">>}, TRUE), Writes0({<<"name">>}, TRUE), <<[columns |-> {<<"name">>}]>>, TRUE),
                Perm(SelectPlain({}, TRUE), <<>>, <<>>, FALSE)}
ArticlePerms == {Perm(SelectPlain({Id, AuthorId}, FALSE), Writes0({TitleCol}, FALSE), <<>>, FALSE),
                 Perm(<<>>, <<>>, <<[columns |-> {Id, TitleCol}]>>, FALSE),
                 Perm(<<>>, Writes0({AuthorId}, TRUE), <<>>, TRUE)}

Documents == {<<>>}
   \cup {("user" :> (Author :> a)) : a \in AuthorPerms}
   \cup {("user" :> ((Author :> a) @@ (Article :> b))) : a \in AuthorPerms, b \in ArticlePerms}
   \cup {("user" :> ((Author :> a) @@ (Article :> b))) @@ ("editor" :> (Article :> b)) : a \in {CHOOSE x \in AuthorPerms : x.delete /\ x.insert # <<>>}, b \in ArticlePerms}

Functions0 == {[name |-> <<"article">>, takes |-> <<>>, returns |-> Article, volatile |-> FALSE, roles |-> {}, args |-> 0],
               [name |-> <<"search">>, takes |-> <<>>, returns |-> Author, volatile |-> FALSE, roles |-> {}, args |-> 1],
               [name |-> <<"search">>, takes |-> <<>>, returns |-> Author, volatile |-> FALSE, roles |-> {}, args |-> 2],
               [name |-> <<"recent">>, takes |-> <<"author">>, returns |-> Article, volatile |-> FALSE, roles |-> {}, args |-> 1],
               [name |-> <<"promote">>, takes |-> <<>>, returns |-> Author, volatile |-> TRUE, roles |-> {"user"}, args |-> 0]}

PlainSite == [tables |-> (Author :> AuthorT) @@ (Article :> ArticleT) @@ (Stage :> StageT), links |-> Links, doc |-> <<>>,
          enums |-> (Stage :> {"draft"}), declared |-> <<>>, roots |-> <<>>, functions |-> Functions0,
          default |-> "public", order |-> <<Old, Article, Author, Stage>>]
Variants(d) ==
    {[PlainSite EXCEPT !.doc = d],
     [PlainSite EXCEPT !.doc = d, !.tables = @ @@ (Old :> [ArticleT EXCEPT !.name = <<"article">>])],
     [PlainSite EXCEPT !.doc = d, !.roots = (<<Author, "select">> :> <<"authors">>),
        !.declared = (Article :> <<[name |-> <<"writer">>, using |-> "fk", to |-> Author, columns |-> {}, toOne |-> TRUE],
                                   [name |-> <<"by">>, using |-> "", to |-> Author, columns |-> {AuthorId}, toOne |-> TRUE]>>)]}
MCSites == UNION {Variants(d) : d \in Documents}
     \cup {[PlainSite EXCEPT !.enums = (Stage :> {})],
           [PlainSite EXCEPT !.functions = {[name |-> <<"author", "aggregate">>, takes |-> <<>>, returns |-> Author, volatile |-> FALSE, roles |-> {}, args |-> 0]}]}
MCPlural == ("author" :> "authors") @@ ("article" :> "articles") @@ ("stage" :> "stages") @@ ("2" :> "2")
MCSingular == ("author" :> "author") @@ ("article" :> "article") @@ ("stage" :> "stage") @@ ("2" :> "2")

(***************************************************************************)
(* Who asks                                                                *)
(***************************************************************************)
Str(v) == [str |-> v]
Num(v) == [num |-> v]
List(v) == [list |-> v]
Obj(v) == [obj |-> v]
JsonNull == [null |-> TRUE]

MCVariable == ("x-hasura-user-id" :> "user_id") @@ ("x-hasura-user_id" :> "user_id") @@ ("x-hasura-role" :> "role")
   @@ ("x-hasura-admin-secret" :> "admin_secret") @@ ("x-hasura-access-key" :> "access_key")
   @@ ("x-hasura-default-role" :> "default_role") @@ ("x-hasura-allowed-roles" :> "allowed_roles")
   @@ ("x-hasura-use-backend-only-permissions" :> "use_backend_only_permissions")

MCAuthConfigs ==
  {[admin |-> a, unauthorized |-> u, jwt |-> j, anon |-> n, claimKey |-> k, audience |-> d, hidden |-> {"user"}] :
     a \in {<<>>, <<"s3">>}, u \in {<<>>, <<"public">>}, j \in BOOLEAN, n \in {<<>>, <<"web">>},
     k \in {<<"role">>, <<"app", "role">>}, d \in {<<>>, <<"api">>}}

Token(claims) == <<[bearer |-> TRUE, token |-> [sound |-> "none", claims |-> claims]]>>
Row == <<"role">> :> Str("staff")
Nested == Namespace :> Obj((<<"x-hasura-default-role">> :> Str("user")) @@ (<<"x-hasura-allowed-roles">> :> List(<<Str("editor"), Num(1)>>))
                            @@ (<<"x-hasura-user-id">> :> Num(7)))
MCAuths ==
  {<<>>, <<[bearer |-> FALSE]>>, <<[bearer |-> TRUE, token |-> [sound |-> "InvalidSignature", claims |-> Row]]>>,
   Token(Row @@ (<<"exp">> :> Num(0))),
   Token(Row @@ (<<"exp">> :> Str("soon"))),
   Token(Row @@ (<<"nbf">> :> Num(2)) @@ (<<"iat">> :> Num(0))),
   Token(Row @@ (<<"iat">> :> Num(2)) @@ (<<"aud">> :> JsonNull)),
   Token((<<"app">> :> Obj(<<"role">> :> Str("nested"))) @@ Nested @@ (<<"aud">> :> List(<<Str("api"), Str("x")>>))),
   Token((<<"app", "role">> :> Str("literal")) @@ (<<"app">> :> Obj(<<"role">> :> Str("nested"))) @@ (<<"aud">> :> Str("x"))),
   Token((<<"role">> :> Num(4)) @@ (<<"app">> :> Str("flat")) @@ (<<"aud">> :> List(<<Num(1)>>))),
   Token((<<"role">> :> Num(4)) @@ (<<"x-hasura-role">> :> Str("user")) @@ (<<"x-hasura-allowed-roles">> :> Str("admin")) @@ (<<"aud">> :> List(<<>>))),
   Token(Row @@ Nested @@ (<<"x-hasura-user-id">> :> Str("top")) @@ (<<"aud">> :> Obj(<<>>)) ),
   Token(Row @@ Nested @@ (<<"x-hasura-user-id">> :> Str("top")))}
MCHeaders ==
  {<<>>, <<<<"x-hasura-role", "editor">>>>, <<<<"x-hasura-role", "">>, <<"x-hasura-user-id", "1">>>>,
   <<<<"x-hasura-user_id", "1">>, <<"x-hasura-user-id", "2">>, <<"x-hasura-access-key", "s3">>>>,
   <<<<"x-hasura-admin-secret", "bad">>, <<"x-hasura-access-key", "s3">>>>,
   <<<<"x-hasura-admin-secret", "s3">>, <<"x-hasura-role", "user">>, <<"x-hasura-use-backend-only-permissions", "y">>>>,
   <<<<"x-hasura-use-backend-only-permissions", "true">>, <<"x-hasura-role", "admin">>>>,
   <<<<"x-hasura-use-backend-only-permissions", "1">>>>,
   <<<<"x-hasura-use-backend-only-permissions", "true">>>>}
MCWires == {[auth |-> a, headers |-> h] : a \in MCAuths, h \in MCHeaders}
NoWire == [auth |-> <<>>, headers |-> <<>>]
MCPayloads == {[top |-> NoWire, nested |-> NoWire],
  [top |-> [auth |-> Token(Row @@ Nested @@ (<<"exp">> :> Num(1))), headers |-> <<<<"x-hasura-role", "user">>>>],
   nested |-> [auth |-> <<>>, headers |-> <<<<"x-hasura-role", "editor">>>>]]}
MCOperations == {[persisted |-> FALSE, introspects |-> TRUE], [persisted |-> TRUE, introspects |-> FALSE], [persisted |-> FALSE, introspects |-> FALSE]}

(***************************************************************************)
(* Scenes                                                                  *)
(***************************************************************************)
IdleRead ==
  /\ readCase = [db |-> Db(<<>>), ctx |-> Ctx("admin", [u |-> <<>>], <<>>, <<>>), query |-> Q("list", "article", <<>>, <<>>, <<>>, <<>>, <<>>), writes |-> {}]
  /\ readDb = readCase.db /\ readPhase = "asked" /\ numbers = <<>> /\ answer = <<>>
IdleWrite ==
  /\ job = [db |-> Db(<<>>), ctx |-> [role |-> "admin", doc |-> [u |-> <<>>], session |-> <<>>], fields |-> <<>>]
  /\ committed = job.db /\ working = <<>> /\ aborted = FALSE /\ fieldNo = 1 /\ results = <<>> /\ outcome = "running" /\ log = <<>>
IdleSchemas ==
  /\ site = [PlainSite EXCEPT !.tables = <<>>, !.links = <<>>, !.enums = <<>>, !.functions = {}, !.order = <<>>]
  /\ server = "starting" /\ toBuild = Schemas(site) /\ built = {} /\ asking = <<>> /\ serving = <<>>
IdleIdentity == authConfig = (CHOOSE c \in MCAuthConfigs : c.admin = <<>>) /\ clock = 0 /\ connection = <<>> /\ served = <<>>
GraphqlInit ==
  \/ scene = "read" /\ ReadInit /\ IdleWrite /\ IdleSchemas /\ IdleIdentity
  \/ scene = "write" /\ WriteInit /\ IdleRead /\ IdleSchemas /\ IdleIdentity
  \/ scene = "schema" /\ SchemaInit /\ IdleRead /\ IdleWrite /\ IdleIdentity
  \/ scene = "identity" /\ IdentityInit /\ IdleRead /\ IdleWrite /\ IdleSchemas
GraphqlNext ==
  /\ UNCHANGED scene
  /\ \/ scene = "read" /\ ReadNext /\ UNCHANGED <<writeVars, schemaVars, idVars>>
     \/ scene = "write" /\ WriteNext /\ UNCHANGED <<readVars, schemaVars, idVars>>
     \/ scene = "schema" /\ SchemaNext /\ UNCHANGED <<readVars, writeVars, idVars>>
     \/ scene = "identity" /\ IdentityNext /\ UNCHANGED <<readVars, writeVars, schemaVars>>
Spec == GraphqlInit /\ [][GraphqlNext]_<<scene, readVars, writeVars, schemaVars, idVars>>
=============================================================================
