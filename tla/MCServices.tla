----------------------------- MODULE MCServices -----------------------------
(* Instances of Services: the stack of tinyhttpd, with routes before it.    *)
EXTENDS Services

Get(path, slash, query) ==
  [method |-> "GET", noGzip |-> TRUE, path |-> path, slash |-> slash,
   query |-> query, key |-> FALSE, keep |-> TRUE]

Chain(svcs) == [kind |-> "chain", svcs |-> svcs]
Route(path, svc) == [kind |-> "route", path |-> path, svc |-> svc]

Redirect == [kind |-> "tls", code |-> 302]
Deny == [kind |-> "tls", code |-> 403]
Kind(k) == [kind |-> k]

MCRoutes ==
  <<Route(<<"hello">>, Kind("page")), Route(<<"chat">>, Kind("websocket")),
    Route(<<"old">>, Deny)>>

MCContents == Chain(<<Kind("files"), Kind("proxy")>>)

MCService == Chain(<<Redirect, Kind("logger")>> \o MCRoutes \o <<MCContents>>)

MCStack ==
  {MCService, MCContents, Redirect, Deny} \cup Range(MCRoutes)
  \cup {Kind(k) : k \in {"logger", "page", "websocket", "files", "proxy"}}

MCTree ==
  << >> :> "dir" @@ <<"dir">> :> "dir" @@ <<"dir", "index">> :> "file"
    @@ <<"page">> :> "file" @@ <<"script">> :> "file" @@ <<"secret">> :> "denied"

MCDefaults == <<"start", "index">>

MCFolders ==
  {Get(<<"dir">>, FALSE, query) : query \in {"none", "x", "/"}}
  \cup {Get(<<"dir">>, TRUE, "none")}

MCPages ==
  {[Get(<<"page">>, FALSE, "none") EXCEPT !.method = m] : m \in Methods}
  \cup {[Get(<<"page">>, FALSE, "none") EXCEPT !.noGzip = FALSE]}

\* Requests for everything in the tree, beside it and before it.
Everything ==
  {Get(<<"hello">>, FALSE, "none"), [Get(<<"chat">>, FALSE, "none") EXCEPT !.key = TRUE],
   Get(<<"old">>, FALSE, "none"), Get(<<>>, TRUE, "none"), Get(<<"away">>, FALSE, "none"),
   Get(<<"secret">>, FALSE, "none"), Get(<<"script", "info">>, FALSE, "none")}
  \cup MCFolders \cup MCPages
  \cup {[r EXCEPT !.keep = FALSE] : r \in MCPages}

\* One client asks for anything, the other for what the backends have.
MCFibers == {"c1", "c2"}
MCRequests ==
  "c1" :> Everything @@
  "c2" :> {[Get(<<"away">>, FALSE, "none") EXCEPT !.keep = FALSE]}
MCMaxRequests == "c1" :> 2 @@ "c2" :> 1

MCBackends == <<"b1", "b2">>
MCSpares == <<"b3">>
=============================================================================
