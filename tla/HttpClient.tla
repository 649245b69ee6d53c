------------------------------ MODULE HttpClient ------------------------------
(***************************************************************************)
(* What an HTTP session makes of its form and of answers, as functions:    *)
(* authentication, forms and redirects (http/client.rs), the cookie jar    *)
(* (http/cookies.rs), the history (http/history.rs), pre-request scripts   *)
(* (http/scripts.rs) and environments (collections/mod.rs).                *)
(*                                                                         *)
(* A text is a string or, where the code puts texts together, a sequence   *)
(* of strings.  Names of headers are compared without case: here they are  *)
(* in lower case.  A typed URL is a name and the queries appended to it;   *)
(* UrlOf gives the parts of those that parse.  A path is a sequence of     *)
(* characters, a host one of labels.                                       *)
(***************************************************************************)
EXTENDS SequencesExt

CONSTANT
  UrlOf,      \* parts of the URLs that parse: [https, host, path]
  PairsOf     \* texts of the form k=v, as the row of a form they are

Forms == {"urlencoded", "multipart"}

Row(key, value, file) == [key |-> key, value |-> value, file |-> file]
NoRow == Row("", "", "")

(***************************************************************************)
(* Requests.                                                               *)
(***************************************************************************)
HasHeader(hs, name) == \E i \in DOMAIN hs : hs[i].name = name

UpsertHeader(hs, name, value) ==
  IF HasHeader(hs, name)
  THEN LET i == SelectInSeq(hs, LAMBDA h : h.name = name) IN [hs EXCEPT ![i].value = value]
  ELSE Append(hs, [name |-> name, value |-> value])

ApplyAuth(spec) ==
  LET authorize(v) == [spec EXCEPT !.headers = UpsertHeader(@, "authorization", v)]
  IN  CASE spec.auth \in {"bearer", "oauth2"} /\ spec.token # "" -> authorize(<<"Bearer", spec.token>>)
        [] spec.auth = "basic" -> authorize(<<"Basic", spec.user, spec.pass>>)
        [] spec.auth = "header" /\ spec.key # "" ->
             [spec EXCEPT !.headers = UpsertHeader(@, spec.key, <<spec.value>>)]
        [] spec.auth = "query" /\ spec.key # "" ->
             [spec EXCEPT !.url.query = Append(@, <<spec.key, spec.value>>)]
        [] OTHER -> spec

(* A multipart row with a file carries the file instead of its value. *)
BuildFormBody(mode, fields) ==
  <<mode>> \o FlattenSeq([i \in DOMAIN fields |->
    IF mode = "multipart" /\ fields[i].file # ""
    THEN <<fields[i].key, "file", fields[i].file>>
    ELSE <<fields[i].key, fields[i].value>>])

(* Rows of a form are the body, with its own type of content. *)
WithForm(spec) ==
  IF spec.mode \in Forms /\ spec.fields # <<>>
  THEN [spec EXCEPT !.body = BuildFormBody(spec.mode, spec.fields),
                    !.headers = UpsertHeader(@, "content-type", <<spec.mode>>)]
  ELSE spec

(* The request as it is on the wire: of two headers of a name the last.    *)
OnWire(spec) ==
  LET last(n) == spec.headers[SelectLastInSeq(spec.headers, LAMBDA h : h.name = n)].value
  IN  [method |-> spec.method,
       url |-> [UrlOf[spec.url.at] EXCEPT !.query = spec.url.query],
       headers |-> [n \in {spec.headers[i].name : i \in DOMAIN spec.headers} |-> last(n)],
       body |-> spec.body]

(***************************************************************************)
(* Redirects.  A location is an absolute URL or a path; one that does not  *)
(* begin with / is taken for one that does.                                *)
(***************************************************************************)
ResolveLocation(base, loc) ==
  IF loc.absolute THEN loc.url ELSE [base EXCEPT !.path = loc.url.path, !.query = <<>>]

ApplyRedirectMethodToAll(status, request) == [request EXCEPT !.method = "GET", !.body = <<>>]

ApplyRedirectMethod(status, request) ==
  IF status \in 301 .. 303 THEN [request EXCEPT !.method = "GET", !.body = <<>>] ELSE request

IsRedirect(status) == status \in {301, 302, 303, 307, 308}

FollowsOneLess(spec, answer, hops) ==
  spec.followRedirects /\ IsRedirect(answer.status) /\ hops + 1 < spec.maxRedirects
    /\ answer.location # <<>>

(* The loop of send_request goes on, or this answer is the last one. *)
Follows(spec, answer, hops) ==
  spec.followRedirects /\ IsRedirect(answer.status) /\ hops < spec.maxRedirects
    /\ answer.location # <<>>

NextRequest(request, answer) ==
  ApplyRedirectMethod(answer.status,
    [request EXCEPT !.url = ResolveLocation(@, Head(answer.location))])

(***************************************************************************)
(* The cookie jar.  A cookie expires at the one time in its expires, if    *)
(* there is one.                                                           *)
(***************************************************************************)
NewJar == [enabled |-> TRUE, cookies |-> <<>>]

DomainMatches(domain, host) == IsSuffix(domain, host)

Fresh(c, now) == \A t \in c.expires : t > now

CookieHeaderFor(jar, url, now) ==
  IF ~jar.enabled \/ url.at \notin DOMAIN UrlOf THEN <<>>
  ELSE LET to == UrlOf[url.at]
           sent == SelectSeq(jar.cookies, LAMBDA c :
                     /\ Fresh(c, now)
                     /\ c.secure => to.https
                     /\ DomainMatches(c.domain, to.host)
                     /\ IsPrefix(c.path, to.path))
       IN  FlattenSeq([i \in DOMAIN sent |-> <<sent[i].name, sent[i].value>>])

(* Domain and Path default to the host and the whole path of the URL. *)
ParseSetCookie(set, url, now) ==
  LET from == UrlOf[url.at]
  IN  [name |-> set.name, value |-> set.value, secure |-> set.secure,
       domain |-> IF set.domain = <<>> THEN from.host ELSE set.domain,
       path |-> IF set.path = <<>> THEN from.path ELSE set.path,
       expires |-> {IF age <= 0 THEN now - 1 ELSE now + age : age \in set.maxAge}]

StoreCookieBesides(cookies, c, now) == IF Fresh(c, now) THEN Append(cookies, c) ELSE cookies

(* Vec::retain, with the elements that are kept. *)
Retain(cookies, kept) ==
  FoldLeft(LAMBDA list, c : IF c \in kept THEN Append(list, c) ELSE list, <<>>, cookies)

StoreCookie(cookies, c, now) ==
  LET others == Retain(cookies, {x \in ToSet(cookies) : x.name # c.name \/ x.domain # c.domain})
  IN  IF Fresh(c, now) THEN Append(others, c) ELSE others

(* The URL is the one that was typed, whatever redirects led to the answer. *)
StoreFromResponse(jar, url, answer, now) ==
  IF ~jar.enabled THEN jar
  ELSE LET set == FoldLeft(LAMBDA cs, s : StoreCookie(cs, ParseSetCookie(s, url, now), now),
                           jar.cookies, answer.cookies)
       IN  [jar EXCEPT !.cookies = Retain(set, {c \in ToSet(set) : Fresh(c, now)})]

(***************************************************************************)
(* The history: one file for each entry, named for its second and status.  *)
(***************************************************************************)
Id(e) == <<e.at, e.status>>

Older(e, f) == e.at < f.at \/ (e.at = f.at /\ e.status < f.status)

Prune(files, keep) ==
  {e \in files : Cardinality({f \in files : Older(e, f)}) < keep}

AppendHistory(files, entry, keep) ==
  Prune({f \in files : Id(f) # Id(entry)} \cup {entry}, keep)

(* Which entries a pane of that many rows may list: those of one second    *)
(* are in no particular order.                                             *)
Listings(files, limit) ==
  {l \in SUBSET files :
     /\ Cardinality(l) = IF Cardinality(files) < limit THEN Cardinality(files) ELSE limit
     /\ \A e \in l, f \in files \ l : e.at >= f.at}

(***************************************************************************)
(* Environments and scripts.                                               *)
(***************************************************************************)
(* Collection::substitute replaces one variable after the other. *)
Substitute(vars, text) ==
  FoldLeft(LAMBDA t, v : IF t = v.name THEN v.value ELSE t, text, vars)

SubstituteAll(vars, texts) == [i \in DOMAIN texts |-> Substitute(vars, texts[i])]

SubstituteHeader(vars, header) == [header EXCEPT !.value = SubstituteAll(vars, @)]

SubstituteRow(vars, row) ==
  [row EXCEPT !.key = Substitute(vars, @), !.value = Substitute(vars, @)]

SubstituteSpec(vars, spec) ==
  [spec EXCEPT
     !.url.at = Substitute(vars, @),
     !.token = Substitute(vars, @), !.user = Substitute(vars, @),
     !.pass = Substitute(vars, @), !.value = Substitute(vars, @),
     !.headers = [i \in DOMAIN @ |-> SubstituteHeader(vars, @[i])],
     !.body = SubstituteAll(vars, @),
     !.fields = [i \in DOMAIN @ |-> SubstituteRow(vars, @[i])]]

(* A script changes what it likes, here the URL and a header, or fails.    *)
RunPreScript(script, spec) ==
  CASE script = "none" -> {spec}
    [] script = "fails" -> {}
    [] OTHER -> {[spec EXCEPT !.url.query = Append(@, <<script>>),
                              !.headers = UpsertHeader(@, "x-trace", <<script>>)]}

(***************************************************************************)
(* Bodies.  The composer decodes escapes, or hexadecimal digits.           *)
(***************************************************************************)
Decoded(text, hex) ==
  CASE text = "" -> {""}
    [] hex -> IF text = "00" THEN {"NUL"} ELSE {}
    [] text = "\\\\" -> {"\\"}
    [] text = "\\" -> {}                  \* a trailing backslash
    [] OTHER -> {text}

DecodePayload(body, hex) ==
  IF \E i \in DOMAIN body : Decoded(body[i], hex) = {} THEN {}
  ELSE {[i \in DOMAIN body |-> CHOOSE t \in Decoded(body[i], hex) : TRUE]}

(* Variables that are not JSON are refused. *)
BuildGraphqlBody(query, variables, operation) ==
  IF variables = "{" THEN {} ELSE {<<"query">> \o query \o <<variables, operation>>}

(* Rows for an urlencoded request without any. *)
RowsIn(body) == FlattenSeq([i \in DOMAIN body |->
                  IF body[i] \in DOMAIN PairsOf THEN <<PairsOf[body[i]]>> ELSE <<>>])
=============================================================================
