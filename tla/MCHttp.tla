-------------------------------- MODULE MCHttp --------------------------------
(* An instance of HttpSession: one form under every key and command, and   *)
(* requests of four kinds to a server that redirects and sets cookies.     *)
EXTENDS HttpSession

U(name) == [at |-> name, query |-> <<>>]
Place(https, host, path) == [https |-> https, host |-> host, path |-> path, query |-> <<>>]

MCUrlOf ==
  ("http://a/" :> Place(FALSE, <<"a">>, <<"/">>)) @@
  ("https://s.a/b" :> Place(TRUE, <<"s", "a">>, <<"/", "b">>))

MCPairsOf == ("k=v" :> Row("k", "v", ""))

Request ==
  [method |-> "POST", url |-> U("http://a/"), headers |-> <<>>, body |-> <<"x">>,
   auth |-> "none", token |-> "", user |-> "", pass |-> "", key |-> "X-Api-Key", value |-> "",
   mode |-> "raw", fields |-> <<>>, followRedirects |-> TRUE, maxRedirects |-> 2,
   variables |-> "{}", operation |-> "", script |-> "none", grpc |-> FALSE]

Answer0(status) == [status |-> status, location |-> <<>>, cookies |-> <<>>]
Moved(status, absolute, url) ==
  [Answer0(status) EXCEPT !.location = <<[absolute |-> absolute, url |-> url]>>]
Set(name, value, age) ==
  [name |-> name, value |-> value, secure |-> FALSE, domain |-> <<>>, path |-> <<>>,
   maxAge |-> age]
Sets(cookie) == [Answer0(200) EXCEPT !.cookies = <<cookie>>]

Load(request, inputs, n, answers, env) ==
  [request |-> request, inputs |-> inputs, keys |-> n, answers |-> answers, env |-> env]

TwoRows == [Request EXCEPT !.mode = "urlencoded", !.fields = <<Row("p", "1", ""), Row("q", "2", "f")>>]

Redirects ==
  {Moved(302, TRUE, MCUrlOf["https://s.a/b"]), Moved(307, FALSE, MCUrlOf["https://s.a/b"]),
   Answer0(308), Answer0(200)}

Cookies ==
  {Sets(Set("c", "1", {1})), Sets(Set("c", "", {0})),
   Sets([Set("c", "2", {}) EXCEPT !.secure = TRUE, !.domain = <<"a">>, !.path = <<"/">>])}

Env == <<[name |-> "{{x}}", value |-> "{{base}}"], [name |-> "{{base}}", value |-> "http://a/"]>>

MCLoads ==
  {Load(TwoRows, {"form"}, 7, {}, <<>>),
   Load(TwoRows, {"form", "tabs"}, 5, {}, <<>>),
   Load([Request EXCEPT !.mode = "graphql"], {"form"}, 6, {}, <<>>),
   Load([Request EXCEPT !.mode = "graphql"], {"wire"}, 4, {Answer0(200)}, <<>>),
   Load([Request EXCEPT !.body = <<"k=v">>, !.key = "", !.auth = "header"], {"form"}, 5, {}, <<>>),
   Load([TwoRows EXCEPT !.auth = "query", !.value = "s"], {"form", "wire"}, 4, {Answer0(200)}, <<>>),
   Load([Request EXCEPT !.auth = "query", !.value = "s", !.url = U("{{x}}")], {"wire"}, 5,
        {Answer0(200)}, Env),
   Load([Request EXCEPT !.body = <<"{{x}}">>], {"wire"}, 5, {Answer0(200)}, Reverse(Env)),
   Load([Request EXCEPT !.script = "v1"], {"wire"}, 4, {Answer0(200)}, <<>>),
   Load([Request EXCEPT !.script = "fails"], {"wire"}, 2, {Answer0(200)}, <<>>),
   Load(Request, {"wire", "log"}, 5, {Answer0(200), Answer0(404)}, <<>>),
   Load([Request EXCEPT !.url = U("https://s.a/b")], {"wire", "tabs"}, 5, Cookies, <<>>),
   Load([Request EXCEPT !.auth = "oauth2", !.user = "c", !.key = "authorize", !.value = "token"],
        {"oauth"}, 8, {}, <<>>)}
    \cup {Load([Request EXCEPT !.auth = a, !.token = "t", !.followRedirects = follow], {"wire"}, 2,
               Redirects, <<>>) : a \in {"bearer", "basic"}, follow \in BOOLEAN}

MCTypedIn ==
  [f \in Fields |->
     CASE f = "form" -> {"t"}
       [] f = "method" -> {"PUT"}
       [] f = "url" -> {U("http://a/"), U("https://s.a/b"), U("nowhere")}
       [] f = "headers" -> {<<[name |-> "content-type", value |-> <<"text">>]>>}
       [] f = "body" -> {<<"k=v">>, <<"\\\\">>, <<"00">>}
       [] f = "variables" -> {"{"}
       [] f = "auth" -> {}
       [] OTHER -> {"t"}]
=============================================================================
