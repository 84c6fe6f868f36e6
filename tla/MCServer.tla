----------------------------- MODULE MCServer -------------------------------
(***************************************************************************)
(* Small instances of what the server keeps while it serves: the token     *)
(* cache, the schema cache and its reloader, the request targets it        *)
(* accepts, and a transaction of the sqlx driver.  A behaviour is one      *)
(* scene: the variables of the others stand at one of their initial        *)
(* values.                                                                 *)
(***************************************************************************)
EXTENDS TokenCache, SchemaReload, LenientUri, SqlxTx, TLC

VARIABLE scene

(***************************************************************************)
(* Tokens                                                                  *)
(***************************************************************************)
MCExp == [short |-> [kind |-> "in", at |-> 1], long |-> [kind |-> "in", at |-> 3], none |-> [kind |-> "absent", at |-> 0], null |-> [kind |-> "unreadable", at |-> 0]]
MCFrom == [short |-> 0, long |-> 2, none |-> 0, null |-> 0]

(***************************************************************************)
(* Conversations                                                           *)
(***************************************************************************)
Req(b) == <<"P", "SP", b, "SP", "H", "LF">>
Hd(kind, bytes) == [kind |-> kind, bytes |-> bytes]
Length2 == Hd("length", <<"content-length", ":", "SP", "2", "CR", "LF">>)
Bad == Hd("unreadable", <<"content-length", ":", "x", "LF">>)
Up == Hd("upgrade", <<"upgrade", ":", "w", "LF">>)
Chunked == Hd("chunked", <<"transfer-encoding", ":", "c", "LF">>)
Odd == Hd("other", <<"<", "LF">>)
Msg(line, headers, body) == [line |-> line, headers |-> headers, body |-> body]
Talk(m) == [preface |-> FALSE, messages |-> m]
Last == Msg(<<"P", "SP", "#", "<", "SP", "H", "CR", "LF">>, <<>>, <<>>)
MCConversations ==
  {Talk(<<Msg(Req("<"), hs, body), Last>>) : hs \in {<<>>, <<Odd>>}, body \in {<<>>}}
  \cup {Talk(<<Msg(Req("<"), hs, <<"<", "LF">>), Last>>) : hs \in {<<Length2>>, <<Odd, Length2>>}}
  \cup {Talk(<<Msg(Req("a"), <<h, Odd>>, <<"SP", "<", "SP", "LF">>), Last>>) : h \in {Bad, Up, Chunked}}
  \cup {Talk(<<Msg(Req("a"), <<Length2, Up>>, <<"<", "LF">>), Last>>)}
  \cup {Talk(<<Msg(<<"<", "SP", "a", "LF">>, <<>>, <<>>), Last>>)}
  \cup {Talk(<<Msg(<<"PRI", "SP", "<", "SP", "LF">>, <<>>, <<>>), Last>>)}
  \cup {Talk(<<Msg(<<"P", "SP", "<", "<", "<", "<", "<", "<", "<","SP", "H", "LF">>, <<Up>>, <<>>), Last>>)}
  \cup {[preface |-> TRUE, messages |-> <<Last>>]}
MCDigit == "2" :> 2

(***************************************************************************)
(* Scenes                                                                  *)
(***************************************************************************)
IdleUri == talk = Talk(<<Last>>) /\ fetched = 0 /\ adapter = NewAdapter /\ handed = <<>> /\ ended = FALSE
IdleSqlx ==
  /\ fault = (CHOOSE f \in Faults : TRUE) /\ session = NewSession /\ reply = NoReply
  /\ tx = [pc |-> "new", queued |-> <<>>, left |-> <<>>, stmts |-> <<>>]
  /\ due = <<>> /\ queuedDue = 0 /\ done = <<>>
ServerInit ==
  \/ scene = "cache" /\ CacheInit /\ ReloadInit /\ IdleUri /\ IdleSqlx
  \/ scene = "reload" /\ ReloadInit /\ CacheInit /\ IdleUri /\ IdleSqlx
  \/ scene = "uri" /\ UriInit /\ CacheInit /\ ReloadInit /\ IdleSqlx
  \/ scene = "sqlx" /\ Init /\ CacheInit /\ ReloadInit /\ IdleUri
ServerNext ==
  /\ UNCHANGED scene
  /\ \/ scene = "cache" /\ CacheNext /\ UNCHANGED <<reloadVars, uriVars, vars>>
     \/ scene = "reload" /\ ReloadNext /\ UNCHANGED <<cacheVars, uriVars, vars>>
     \/ scene = "uri" /\ UriNext /\ UNCHANGED <<cacheVars, reloadVars, vars>>
     \/ scene = "sqlx" /\ Next /\ UNCHANGED <<cacheVars, reloadVars, uriVars>>
\* Only the reloader's scene has liveness to show, and the fairness is its own:
\* where it stands still, none of its actions is taken.
ServerSpec ==
  /\ ServerInit
  /\ [][ServerNext]_<<scene, cacheVars, reloadVars, uriVars, vars>>
  /\ ReloadFairness
=============================================================================
