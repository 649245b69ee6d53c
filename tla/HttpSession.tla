----------------------------- MODULE HttpSession -----------------------------
(***************************************************************************)
(* HTTP tabs (session/http_session.rs) under the keys, clicks and commands *)
(* of the operator (app.rs), the servers that answer their requests, and   *)
(* what they share: the cookie jar, the history and the collection on      *)
(* disk.                                                                   *)
(*                                                                         *)
(* The event loop awaits a request, so that nothing else happens until its *)
(* last answer, which takes one step for each hop.  Typing replaces the    *)
(* text of the active field.  The first row of the form has number 1.      *)
(*                                                                         *)
(* The form is always at its key: Tab and Shift+Tab leave the field before *)
(* its own handling of them, which would go to the value and the file.     *)
(***************************************************************************)
EXTENDS HttpClient, FrameLog, OAuth

CONSTANTS
  Loads,      \* bounds: what a behaviour is about, see below
  TypedIn,    \* texts typed into each field
  MaxFrames,  \* capacity of the frame log (--max-frames)
  Keep, Shown \* entries of history kept (200) and listed (40)

(* A load has the request that the first tab was opened with, the inputs   *)
(* made, how many, the answers of servers, and the variables of the        *)
(* environment that is active.                                             *)
ASSUME HttpAssumption ==
  /\ \A l \in Loads : l.inputs \subseteq {"form", "wire", "tabs", "log", "oauth"} /\ l.keys \in Nat
  /\ MaxFrames \in Nat \ {0}
  /\ Keep \in Nat /\ Shown \in Nat

Rows == [key : STRING, value : STRING, file : STRING]
SetCookies == [name : STRING, value : STRING, secure : BOOLEAN,
               domain : Seq(STRING), path : Seq(STRING), maxAge : SUBSET Int]

(* What of a request and an answer is computed with.  The kind of           *)
(* authentication is not typed.                                            *)
ASSUME RequestAssumption ==
  /\ \A l \in Loads : /\ l.request.fields \in Seq(Rows) /\ l.request.maxRedirects \in Nat
                      /\ \A answer \in l.answers : /\ answer.status \in Nat
                                                  /\ answer.cookies \in Seq(SetCookies)
  /\ TypedIn["auth"] = {}

VARIABLES
  load,      \* the bounds of this behaviour
  keys,      \* inputs so far
  now,       \* the clock, in seconds
  tabs,      \* the HTTP tabs, see NewTab
  active,    \* number of the tab shown
  jarFile,   \* cookies.toml: <<>> or <<jar>>
  files,     \* the files of the history
  col,       \* requests of the collection
  cursor,    \* the one that is selected, from 1
  net,       \* the request under way: <<>> or one [spec, request, hops]
  tokens,    \* oauth.toml
  flow,      \* the authorization under way: <<>> or one [phase, cfg]
  borrowed,  \* history: the refresh token kept there may be another client's
  meant,     \* history: rows of the form of each tab as the operator sees them
  slipped,   \* history: that form was left by a way that forgets what was typed
  given,     \* history: what the jar of each tab was given, as [url, at, set]
  kept,      \* history: the same of the jar in the file
  trail      \* history: the requests and answers of the last one sent, hop by hop

ui == <<load, keys, tabs, active>>
disk == <<jarFile, files, col, cursor>>
oauth == <<tokens, flow, borrowed>>
histories == <<meant, slipped, given, kept, trail>>
vars == <<ui, now, disk, net, oauth, histories>>

------------------------------------------------------------------------------
(* What a saved request has; http_version, tests and names are left out. *)
Saved ==
  {"method", "url", "headers", "body", "auth", "token", "user", "pass", "key", "value",
   "mode", "fields", "followRedirects", "maxRedirects", "variables", "operation", "script", "grpc"}

DefaultKey(key) == IF key = "" THEN "X-Api-Key" ELSE key

(* HttpSession::sync_form_editor_from_row *)
Sync(t) == [t EXCEPT !.edit = IF t.row \in DOMAIN t.fields THEN t.fields[t.row] ELSE NoRow]

(* load_saved *)
LoadSaved(t, saved) ==
  Sync([n \in DOMAIN t |-> CASE n = "row" -> 1
                             [] n = "key" -> DefaultKey(saved.key)
                             [] n = "from" -> <<>>
                             [] n \in Saved \ {"key"} -> saved[n]
                             [] OTHER -> t[n]])

(* A tab that is opened with a request; it reads the jar and the history.  *)
NewTab(saved, jar, listing) ==
  LET own == [focus |-> "form", field |-> "url", row |-> 1, edit |-> NoRow, hex |-> FALSE,
              jar |-> IF jar = <<>> THEN NewJar ELSE Head(jar), pane |-> listing,
              log |-> NewLog, status |-> "idle",
              from |-> <<>>]          \* history: the entry that is being replayed
  IN  LoadSaved([n \in Saved \cup DOMAIN own |-> IF n \in Saved THEN saved[n] ELSE own[n]], saved)

(* The editor stands for its row in what is sent and saved. *)
Overlaid(t) ==
  IF t.mode \in Forms /\ t.row \in DOMAIN t.fields THEN [t.fields EXCEPT ![t.row] = t.edit]
  ELSE t.fields

ToSavedWithoutEditor(t) == [n \in Saved |-> t[n]]

(* to_saved; a request of kind graphql or grpc is its mode and flag.       *)
ToSaved(t) == [n \in Saved |-> IF n = "fields" THEN Overlaid(t) ELSE t[n]]

(* build_spec.  What the text of the body stands for: nothing, if the      *)
(* composer or JSON refuses it.                                            *)
Bodies(t) ==
  IF t.mode = "graphql" THEN BuildGraphqlBody(t.body, t.variables, t.operation)
  ELSE DecodePayload(t.body, t.hex)

Draft(t, body) ==
  LET gql == t.mode = "graphql"
  IN  [method |-> IF gql /\ t.method = "GET" THEN "POST" ELSE t.method,
       url |-> t.url,
       headers |-> IF gql /\ ~HasHeader(t.headers, "content-type")
                   THEN UpsertHeader(t.headers, "content-type", <<"json">>) ELSE t.headers,
       body |-> body, mode |-> IF gql THEN "raw" ELSE t.mode, fields |-> Overlaid(t),
       auth |-> t.auth, token |-> t.token, user |-> t.user, pass |-> t.pass,
       key |-> t.key, value |-> t.value,
       followRedirects |-> t.followRedirects, maxRedirects |-> t.maxRedirects]

WithRows(s) ==
  IF s.mode = "urlencoded" /\ s.fields = <<>> THEN [s EXCEPT !.fields = RowsIn(s.body)] ELSE s

WithCookie(jar, s) ==
  LET c == CookieHeaderFor(jar, s.url, now)
  IN  IF c = <<>> THEN s ELSE [s EXCEPT !.headers = UpsertHeader(@, "cookie", c)]

BuildSpec(t) ==
  IF DecodePayload(t.body, t.hex) = {} THEN {}
  ELSE {WithCookie(t.jar, WithRows(SubstituteSpec(load.env, Draft(t, b)))) : b \in Bodies(t)}

------------------------------------------------------------------------------
(* The form.                                                               *)
Commit(t) == IF t.row \in DOMAIN t.fields THEN [t EXCEPT !.fields[t.row] = t.edit] ELSE t

CommitForm(t) == IF t.field = "form" THEN Commit(t) ELSE t

Enter(t, field) ==
  IF field = "form" THEN Sync([t EXCEPT !.field = field]) ELSE [t EXCEPT !.field = field]

NextField(t) ==
  CASE t.field = "method" -> "url"
    [] t.field = "url" -> "auth"
    [] t.field = "auth" -> (CASE t.auth = "none" -> "headers"
                              [] t.auth = "bearer" -> "token"
                              [] t.auth \in {"basic", "oauth2"} -> "user"
                              [] OTHER -> "key")
    [] t.field = "user" -> "pass"
    [] t.field = "pass" -> IF t.auth = "oauth2" THEN "key" ELSE "headers"
    [] t.field = "key" -> "value"
    [] t.field = "value" -> IF t.auth = "oauth2" THEN "token" ELSE "headers"
    [] t.field = "token" -> "headers"
    [] t.field = "headers" -> IF t.mode \in Forms THEN "form" ELSE "body"
    [] t.field = "body" -> IF t.mode = "graphql" THEN "variables" ELSE "method"
    [] t.field = "variables" -> "operation"
    [] OTHER -> "method"

PreviousField(t) ==
  CASE t.field = "method" -> (CASE t.mode = "raw" -> "body"
                                [] t.mode = "graphql" -> "operation"
                                [] OTHER -> "form")
    [] t.field = "url" -> "method"
    [] t.field = "auth" -> "url"
    [] t.field \in {"token", "user", "key"} -> "auth"
    [] t.field = "pass" -> "user"
    [] t.field = "value" -> "key"
    [] t.field = "headers" -> (CASE t.auth = "none" -> "auth"
                                 [] t.auth = "bearer" -> "token"
                                 [] t.auth = "basic" -> "pass"
                                 [] OTHER -> "value")
    [] t.field = "operation" -> "variables"
    [] t.field = "variables" -> "body"
    [] OTHER -> "headers"

CycleFieldUncommitted(t) ==
  IF t.focus = "history" THEN [t EXCEPT !.focus = "form"]
  ELSE [Enter(t, NextField(t)) EXCEPT !.focus = "form"]

(* cycle_focus: Tab commits the row that is left, Shift+Tab does not, nor  *)
(* does it show the row again when it enters the form.                     *)
CycleField(t) ==
  IF t.focus = "history" THEN [t EXCEPT !.focus = "form"]
  ELSE [Enter(CommitForm(t), NextField(t)) EXCEPT !.focus = "form"]

CycleBack(t) ==
  IF t.focus = "history" THEN [t EXCEPT !.focus = "form"]
  ELSE [t EXCEPT !.field = PreviousField(t), !.focus = "form"]

(* A click on a field that is drawn. *)
SetField(t, field) == [Enter(CommitForm(t), field) EXCEPT !.focus = "form"]

DrawnRequest(t) ==
  {"method", "url", "auth", "headers"}
    \cup (IF t.mode \in Forms THEN {"form"}
          ELSE IF t.mode = "graphql" THEN {"body", "variables", "operation"} ELSE {"body"})

DrawnAuth(t) ==
  CASE t.auth = "none" -> {}
    [] t.auth = "bearer" -> {"token"}
    [] t.auth = "basic" -> {"user", "pass"}
    [] t.auth = "oauth2" -> {"user", "pass", "key", "value", "token"}
    [] OTHER -> {"key", "value"}

Drawn(t) == DrawnRequest(t) \cup DrawnAuth(t)

FormAddRow(t) ==
  LET c == Commit(t)
  IN  Sync([c EXCEPT !.fields = Append(@, NoRow), !.row = Len(c.fields) + 1, !.field = "form"])

FormDeleteRowAbove(t) ==
  IF t.fields = <<>> THEN t
  ELSE Sync([t EXCEPT !.fields = RemoveAt(@, t.row)])

FormDeleteRow(t) ==
  IF t.fields = <<>> THEN t
  ELSE LET rest == RemoveAt(t.fields, t.row)
       IN  Sync([t EXCEPT !.fields = rest,
                          !.row = IF @ > 1 /\ @ > Len(rest) THEN @ - 1 ELSE @])

FormRow(t, down) ==
  LET c == Commit(t)
  IN  Sync([c EXCEPT !.row = IF down THEN IF @ < Len(c.fields) THEN @ + 1 ELSE @
                             ELSE IF @ > 1 THEN @ - 1 ELSE @])

CycleAuth(t) ==
  LET order == <<"none", "bearer", "basic", "header", "query", "oauth2", "none">>
  IN  [t EXCEPT !.auth = order[SelectInSeq(order, LAMBDA a : a = t.auth) + 1], !.field = "auth"]

CycleBodyMode(t) ==
  LET order == <<"raw", "urlencoded", "multipart", "graphql", "raw">>
      next == [Commit(t) EXCEPT !.mode = order[SelectInSeq(order, LAMBDA m : m = t.mode) + 1]]
      rows == IF next.mode \in Forms /\ next.fields = <<>> THEN FormAddRow(next) ELSE next
  IN  IF rows.mode \in Forms THEN Enter(rows, "form")
      ELSE [rows EXCEPT !.field = "body",
                        !.method = IF rows.mode = "graphql" /\ @ = "GET" THEN "POST" ELSE @]

ToggleGrpc(t) == [t EXCEPT !.grpc = ~@, !.method = IF t.grpc THEN @ ELSE "POST"]

LoadHistoryInMode(t, e) ==
  [t EXCEPT !.method = e.method, !.url = e.url, !.headers = e.headers, !.body = e.body,
            !.focus = "form", !.field = "url", !.from = <<e>>]

(* load_history; load_http_object fills the same fields from a capture.    *)
LoadHistory(t, e) ==
  [t EXCEPT !.method = e.method, !.url = e.url, !.headers = e.headers, !.body = e.body,
            !.mode = "raw", !.focus = "form", !.field = "url", !.from = <<e>>]

Type(t, text) ==
  CASE t.field = "form" -> [t EXCEPT !.edit.key = text]
    [] t.field \in {"body", "url", "headers", "method", "token", "user", "pass", "key",
                    "value", "variables", "operation"} -> [t EXCEPT ![t.field] = text]

------------------------------------------------------------------------------
Init ==
  /\ load \in Loads
  /\ keys = 0
  /\ now = 1
  /\ tabs = <<NewTab(load.request, <<>>, {})>>
  /\ active = 1
  /\ jarFile = <<>>
  /\ files = {}
  /\ col = <<>>
  /\ cursor = 1
  /\ net = <<>>
  /\ tokens = NoTokens
  /\ flow = <<>>
  /\ borrowed = FALSE
  /\ meant = <<load.request.fields>>
  /\ slipped = <<FALSE>>
  /\ given = << <<>> >>
  /\ kept = <<>>
  /\ trail = <<>>

Tab == tabs[active]
Meant == meant[active]
Typing == Tab.focus = "form"

(* An input, while no request and no authorization is awaited. *)
Input(kind) ==
  /\ kind \in load.inputs
  /\ keys < load.keys
  /\ keys' = keys + 1
  /\ net = <<>> /\ flow = <<>>
  /\ tabs # <<>>
  /\ UNCHANGED load

Becomes(t) == tabs' = [tabs EXCEPT ![active] = t] /\ UNCHANGED active

(* What was typed into the form is forgotten by whoever goes away without  *)
(* committing it and comes back.                                           *)
Slips ==
  slipped' = [slipped EXCEPT ![active] = @ \/ (Tab.field = "form" /\ Commit(Tab) # Tab)]

Means(rows) == meant' = [meant EXCEPT ![active] = rows]

Elsewhere == UNCHANGED <<now, disk, net, oauth, given, kept, trail>>

TypeText ==
  /\ Input("form") \/ Input("wire") \/ Input("oauth")
  /\ Typing
  /\ \E text \in TypedIn[Tab.field] :
       /\ Becomes([Type(Tab, text) EXCEPT !.from = <<>>])
       /\ Means(IF Tab.field = "form" /\ Tab.row \in DOMAIN Meant
                THEN [Meant EXCEPT ![Tab.row].key = text] ELSE Meant)
  /\ UNCHANGED slipped /\ Elsewhere

TabKey ==
  /\ Input("form")
  /\ Becomes(CycleField(Tab))
  /\ UNCHANGED <<meant, slipped>> /\ Elsewhere

BackTabKey ==
  /\ Input("form")
  /\ Becomes(CycleBack(Tab))
  /\ IF Tab.focus = "history" THEN UNCHANGED slipped ELSE Slips
  /\ UNCHANGED meant /\ Elsewhere

ClickField ==
  /\ Input("form") \/ Input("oauth")
  /\ \E f \in Drawn(Tab) : Becomes(SetField(Tab, f))
  /\ UNCHANGED <<meant, slipped>> /\ Elsewhere

EscKey ==
  /\ Input("form") \/ Input("log") \/ Input("oauth")
  /\ Becomes([Tab EXCEPT !.focus = "log"])
  /\ UNCHANGED <<meant, slipped>> /\ Elsewhere

AddRowKey ==
  /\ Input("form")
  /\ Typing /\ Tab.field = "form"
  /\ Becomes(FormAddRow(Tab))
  /\ Means(Append(Meant, NoRow))
  /\ UNCHANGED slipped /\ Elsewhere

DeleteRowKey ==
  /\ Input("form")
  /\ Typing /\ Tab.field = "form"
  /\ Becomes(FormDeleteRow(Tab))
  /\ Means(IF Tab.row \in DOMAIN Meant THEN RemoveAt(Meant, Tab.row) ELSE Meant)
  /\ UNCHANGED slipped /\ Elsewhere

RowKey ==
  /\ Input("form")
  /\ Typing /\ Tab.field = "form"
  /\ \E down \in BOOLEAN : Becomes(FormRow(Tab, down))
  /\ UNCHANGED <<meant, slipped>> /\ Elsewhere

(* Ctrl+M: the text of the body is hexadecimal, or no longer. *)
ToggleComposerMode ==
  /\ Input("wire")
  /\ Becomes([Tab EXCEPT !.hex = ~@])
  /\ UNCHANGED <<meant, slipped>> /\ Elsewhere

(* Commands of the palette, which does not open while the form is typed in; *)
(* Enter on the kind of authentication is one of them, too.                 *)
AuthCommand ==
  /\ Input("form")
  /\ ~Typing \/ Tab.field = "auth"
  /\ Becomes(CycleAuth(Tab))
  /\ Slips
  /\ UNCHANGED meant /\ Elsewhere

BodyModeCommand ==
  /\ Input("form")
  /\ ~Typing
  /\ Becomes([CycleBodyMode(Tab) EXCEPT !.from = <<>>])
  /\ Means(IF Len(CycleBodyMode(Tab).fields) > Len(Meant) THEN <<NoRow>> ELSE Meant)
  /\ UNCHANGED slipped /\ Elsewhere

GrpcCommand ==
  /\ Input("wire")
  /\ Becomes([ToggleGrpc(Tab) EXCEPT !.from = <<>>])
  /\ UNCHANGED <<meant, slipped>> /\ Elsewhere

(* CookieJar::save, of a jar that was given G; that it failed is ignored.  *)
Save(jar, G) ==
  \/ jarFile' = <<jar>> /\ kept' = G
  \/ UNCHANGED <<jarFile, kept>>

CookiesCommand ==
  /\ Input("wire")
  /\ \E on \in BOOLEAN :
       /\ Becomes([Tab EXCEPT !.jar.enabled = on])
       /\ Save([Tab.jar EXCEPT !.enabled = on], given[active])
  /\ UNCHANGED <<now, files, col, cursor, net, oauth, meant, slipped, given, trail>>

HistoryCommand ==
  /\ Input("wire")
  /\ \E l \in Listings(files, Shown) : Becomes([Tab EXCEPT !.pane = l, !.focus = "history"])
  /\ UNCHANGED <<meant, slipped>> /\ Elsewhere

(* A click on a row of the history.  The file may be gone, or another one. *)
ReplayHistory ==
  /\ Input("wire")
  /\ \E p \in Tab.pane :
       Becomes(IF \E e \in files : Id(e) = Id(p)
               THEN LoadHistory(Tab, CHOOSE e \in files : Id(e) = Id(p))
               ELSE [Tab EXCEPT !.focus = "history"])
  /\ UNCHANGED <<meant, slipped>> /\ Elsewhere

------------------------------------------------------------------------------
(* The collection: s and S in its overlay save the request, Enter loads it *)
(* and d deletes it; the file is written each time.  A request that could  *)
(* not be written is not kept, but the cursor is already at its place.     *)
SaveRequest ==
  /\ Input("form")
  /\ \E append, written \in BOOLEAN :
       LET new == append \/ cursor \notin DOMAIN col
           with == IF new THEN Append(col, ToSaved(Tab)) ELSE [col EXCEPT ![cursor] = ToSaved(Tab)]
       IN  /\ col' = IF written THEN with ELSE col
           /\ cursor' = IF new THEN Len(with) ELSE cursor
  /\ UNCHANGED <<tabs, active, now, jarFile, files, net, oauth, histories>>

LoadRequest ==
  /\ Input("form")
  /\ cursor \in DOMAIN col
  /\ Becomes(LoadSaved(Tab, col[cursor]))
  /\ Means(col[cursor].fields)
  /\ slipped' = [slipped EXCEPT ![active] = FALSE]
  /\ Elsewhere

SelectRequest ==
  /\ Input("form")
  /\ \E down \in BOOLEAN :
       cursor' = IF down THEN IF cursor < Len(col) THEN cursor + 1 ELSE cursor
                 ELSE IF cursor > 1 THEN cursor - 1 ELSE cursor
  /\ UNCHANGED <<tabs, active, now, jarFile, files, col, net, oauth, histories>>

DeleteRequest ==
  /\ Input("form")
  /\ cursor \in DOMAIN col
  /\ col' = RemoveAt(col, cursor)
  /\ cursor' = IF cursor > 1 /\ cursor > Len(col') THEN cursor - 1 ELSE cursor
  /\ UNCHANGED <<tabs, active, now, jarFile, files, net, oauth, histories>>

------------------------------------------------------------------------------
(* Sending: Ctrl+Enter, F6, and Enter but where it is a newline or a kind  *)
(* of authentication.  With the focus on the history, too.                 *)
Sends(t) == UNION {RunPreScript(t.script, s) : s \in BuildSpec(t)}

(* Of the history of a request: not answered yet, with so many redirects allowed. *)
Asked(request, limit) == [request |-> request, answer |-> 0, location |-> <<>>, limit |-> limit]

Send ==
  /\ Input("wire")
  /\ LET t == Commit(Tab)
     IN  IF \E s \in Sends(t) : s.url.at \in DOMAIN UrlOf
         THEN \E s \in Sends(t) :
                LET whole == IF t.grpc THEN [ApplyAuth(s) EXCEPT !.method = "POST"]
                             ELSE WithForm(ApplyAuth(s))
                    request == OnWire(whole)
                IN  /\ net' = <<[spec |-> IF t.grpc THEN ApplyAuth(s) ELSE s,
                                 request |-> request, hops |-> 0]>>
                    /\ trail' = <<Asked(request, IF t.grpc \/ ~s.followRedirects THEN 0
                                                 ELSE s.maxRedirects)>>
                    /\ Becomes([t EXCEPT !.status = "connecting"])
         ELSE /\ Becomes(IF Sends(t) = {} THEN t ELSE [t EXCEPT !.status = "error"])
              /\ UNCHANGED <<net, trail>>
  /\ UNCHANGED <<now, disk, oauth, meant, slipped, given, kept>>

(* The connection, or the answer, fails. *)
NoAnswer ==
  /\ net # <<>>
  /\ net' = <<>>
  /\ Becomes([Tab EXCEPT !.status = "error"])
  /\ UNCHANGED <<load, keys, now, disk, oauth, histories>>

Answered(answer) ==
  [trail EXCEPT ![Len(trail)] = [@ EXCEPT !.answer = answer.status, !.location = answer.location]]

Redirected(answer) ==
  LET next == NextRequest(Head(net).request, answer)
  IN  /\ net' = <<[Head(net) EXCEPT !.request = next, !.hops = @ + 1]>>
      /\ trail' = Append(Answered(answer), Asked(next, trail[1].limit))
      /\ UNCHANGED <<tabs, disk, given, kept>>

(* What both kinds of requests leave behind: history, unless its file could *)
(* not be written, which is ignored, and two frames.                        *)
Recorded(answer, jar, follows) ==
  LET spec == Head(net).spec
      entry == [at |-> now, status |-> answer.status, method |-> spec.method, url |-> spec.url,
                headers |-> spec.headers, body |-> spec.body,
                first |-> [request |-> trail[1].request, as |-> ToSaved(Tab)]]  \* history
      log == PushFull(PushFull(Tab.log, MaxFrames, "request"), MaxFrames, "answer")
  IN  /\ files' \in {files, AppendHistory(files, entry, Keep)}
      /\ \E l \in Listings(files', Shown) :
           tabs' = [tabs EXCEPT ![active] =
                     [@ EXCEPT !.status = "connected", !.jar = jar, !.pane = l,
                               !.log = IF follows /\ log.follow
                                       THEN [log EXCEPT !.selected = Len(log.frames) - 1] ELSE log]]
      /\ net' = <<>>
      /\ trail' = Answered(answer)

GrpcAnswer(answer) ==
  Recorded(answer, Tab.jar, FALSE) /\ UNCHANGED <<jarFile, col, cursor, given, kept>>

(* What a jar is given: the cookies of the last answer of a chain.         *)
Gives(cookies, url, time) ==
  [i \in DOMAIN cookies |-> [url |-> url, at |-> time, set |-> cookies[i]]]

LastAnswer(answer) ==
  LET url == Head(net).spec.url
      jar == StoreFromResponse(Tab.jar, url, answer, now)
      G == given[active] \o (IF Tab.jar.enabled THEN Gives(answer.cookies, url, now) ELSE <<>>)
  IN  /\ Recorded(answer, jar, TRUE)
      /\ Save(jar, G)
      /\ given' = [given EXCEPT ![active] = G]
      /\ UNCHANGED <<col, cursor>>

Answer ==
  /\ net # <<>>
  /\ \E answer \in load.answers :
       IF Tab.grpc THEN GrpcAnswer(answer)
       ELSE IF Follows(Head(net).spec, answer, Head(net).hops) THEN Redirected(answer)
       ELSE LastAnswer(answer)
  /\ UNCHANGED <<load, keys, now, active, oauth, meant, slipped>>

------------------------------------------------------------------------------
(* start_oauth_flow: the command of the palette.  The event loop waits for *)
(* all of it: for the answer to a refresh, which falls back to the browser *)
(* if there is no token in it, for the browser, which calls back once or   *)
(* is given up after two minutes, and for the answer to the code.          *)
OAuthCommand ==
  /\ Input("oauth")
  /\ ~Typing
  /\ LET cfg == [client |-> Tab.user, auth |-> Tab.key, token |-> Tab.value]
         phase == IF Refreshable(tokens, cfg) THEN "refresh" ELSE "browser"
     IN  flow' = IF Complete(cfg) THEN <<[phase |-> phase, cfg |-> cfg]>> ELSE <<>>
  /\ Becomes([Tab EXCEPT !.auth = "oauth2"])
  /\ UNCHANGED <<now, disk, net, tokens, borrowed, histories>>

Flows(phase) ==
  /\ flow # <<>> /\ Head(flow).phase = phase
  /\ UNCHANGED <<load, keys, active, now, disk, net, histories>>

Proceed(phase) ==
  /\ flow' = <<[Head(flow) EXCEPT !.phase = phase]>>
  /\ UNCHANGED <<tabs, tokens, borrowed>>

GiveUp ==
  /\ flow' = <<>>
  /\ UNCHANGED <<tabs, tokens, borrowed>>

(* The token is shown; that it could not be written is not.                *)
Store(grant) ==
  \E written \in BOOLEAN :
    /\ tokens' = IF written THEN Granted(tokens, Head(flow).cfg, grant) ELSE tokens
    /\ borrowed' = IF ~written THEN borrowed
                   ELSE /\ grant.refresh = {} /\ tokens.refresh # {}
                        /\ borrowed \/ tokens.client # Head(flow).cfg.client
    /\ flow' = <<>>
    /\ tabs' = [tabs EXCEPT ![active].token = grant.access]

RefreshAnswer ==
  /\ Flows("refresh")
  /\ Proceed("browser") \/ \E grant \in Grants(Head(flow).cfg.client) : Store(grant)

(* wait_for_code: the port is bound once more, and of one connection.      *)
Callback ==
  /\ Flows("browser")
  /\ Proceed("exchange") \/ GiveUp

ExchangeAnswer ==
  /\ Flows("exchange")
  /\ GiveUp \/ \E grant \in Grants(Head(flow).cfg.client) : Store(grant)

------------------------------------------------------------------------------
(* Tabs and time. *)
OpenTab ==
  /\ "tabs" \in load.inputs /\ keys < load.keys /\ net = <<>> /\ flow = <<>>
  /\ keys' = keys + 1
  /\ Len(tabs) < 2
  /\ \E l \in Listings(files, Shown) : tabs' = Append(tabs, NewTab(load.request, jarFile, l))
  /\ active' = Len(tabs')
  /\ meant' = Append(meant, load.request.fields)
  /\ slipped' = Append(slipped, FALSE)
  /\ given' = Append(given, kept)
  /\ UNCHANGED <<load, now, disk, net, oauth, kept, trail>>

CloseTab ==
  /\ Input("tabs")
  /\ tabs' = RemoveAt(tabs, active)
  /\ active' = IF active > 1 /\ active > Len(tabs') THEN active - 1 ELSE active
  /\ meant' = RemoveAt(meant, active)
  /\ slipped' = RemoveAt(slipped, active)
  /\ given' = RemoveAt(given, active)
  /\ UNCHANGED <<now, disk, net, oauth, kept, trail>>

SwitchTab ==
  /\ Input("tabs")
  /\ active' \in DOMAIN tabs
  /\ UNCHANGED <<tabs, now, disk, net, oauth, histories>>

Tick ==
  /\ Input("wire")
  /\ now' = now + 1
  /\ UNCHANGED <<tabs, active, disk, net, oauth, histories>>

(* The frame log, while the form is not typed in. *)
LogKey ==
  /\ Input("log")
  /\ ~Typing
  /\ \E log \in {MoveSelection(Tab.log, d) : d \in {1, -1, 10, -10}}
                  \cup {JumpTop(Tab.log), JumpBottom(Tab.log)}
                  \cup {SelectLogRow(Tab.log, i) : i \in 0 .. MaxFrames} :
       Becomes([Tab EXCEPT !.log = log])
  /\ UNCHANGED <<meant, slipped>> /\ Elsewhere

Next ==
  \/ TypeText \/ TabKey \/ BackTabKey \/ ClickField \/ EscKey
  \/ AddRowKey \/ DeleteRowKey \/ RowKey \/ ToggleComposerMode
  \/ AuthCommand \/ BodyModeCommand \/ GrpcCommand \/ CookiesCommand
  \/ HistoryCommand \/ ReplayHistory
  \/ SaveRequest \/ LoadRequest \/ SelectRequest \/ DeleteRequest
  \/ Send \/ NoAnswer \/ Answer
  \/ OAuthCommand \/ RefreshAnswer \/ Callback \/ ExchangeAnswer
  \/ OpenTab \/ CloseTab \/ SwitchTab \/ Tick \/ LogKey

Spec == Init /\ [][Next]_vars

------------------------------------------------------------------------------
Fields == {"method", "url", "auth", "token", "user", "pass", "key", "value", "headers", "body",
           "form", "variables", "operation"}

TypeOK ==
  /\ load \in Loads /\ keys \in 0 .. load.keys /\ now \in Nat
  /\ Len(tabs) <= 2 /\ (tabs # <<>> => active \in DOMAIN tabs)
  /\ Len(jarFile) <= 1 /\ Len(net) <= 1 /\ Cardinality(files) <= Keep
  /\ cursor \in 1 .. Len(col) + 1
  /\ \A i \in DOMAIN tabs :
       LET t == tabs[i] IN
         /\ t.focus \in {"form", "log", "history"} /\ t.field \in Fields
         /\ t.row = 1 \/ t.row \in DOMAIN t.fields
         /\ t.status = "connecting" => i = active /\ net # <<>>
         /\ Len(t.log.frames) <= MaxFrames
         /\ t.log.selected = 0 \/ t.log.selected < Len(t.log.frames)
         /\ Cardinality(t.pane) <= Shown
  /\ Len(meant) = Len(tabs) /\ Len(slipped) = Len(tabs) /\ Len(given) = Len(tabs)
  /\ \A i \in DOMAIN slipped : slipped[i] \in BOOLEAN
  /\ Len(flow) <= 1 /\ (flow # <<>> => net = <<>> /\ Tab.auth = "oauth2")

(* What is saved is what would be sent: the request that a tab saves,      *)
(* opened in another tab, is sent as the tab would send it, the row being  *)
(* edited included (to_saved, load_saved, build_spec).  Left out: that the *)
(* body is hexadecimal is not saved, and an empty name of a key comes back *)
(* as X-Api-Key.                                                           *)
SavedIsWhatIsSent ==
  \A i \in DOMAIN tabs :
    LET t == tabs[i]
        again == NewTab(ToSaved(t), <<t.jar>>, {})
    IN  ~t.hex /\ t.key # "" => Sends(again) = Sends(t) /\ again.grpc = t.grpc

(* Nothing typed into a form is lost: what a request would carry are the   *)
(* rows as the operator left them, in each tab, whatever field, row, mode, *)
(* pane or tab was visited in between.  Left out: a row that was left with *)
(* Shift+Tab or by changing the kind of authentication; forms without any  *)
(* row, where the editor has no row to put its text into; and environments *)
(* with variables, which replace what was typed.                           *)
SentAsTyped ==
  \A i \in DOMAIN tabs :
    tabs[i].mode \in Forms /\ meant[i] # <<>> /\ load.env = <<>> /\ ~slipped[i]
      => \A s \in BuildSpec(tabs[i]) : s.fields = meant[i]

Auth(t) == <<t.auth, t.token, t.user, t.pass, t.key, t.value>>
WithoutCookie(r) == [r EXCEPT !.headers = [n \in DOMAIN @ \ {"cookie"} |-> @[n]]]

(* Substituting it again leaves what was recorded as it is. *)
Settled(e) ==
  /\ Substitute(load.env, e.url.at) = e.url.at
  /\ SubstituteAll(load.env, e.body) = e.body
  /\ \A i \in DOMAIN e.headers : SubstituteHeader(load.env, e.headers[i]) = e.headers[i]

(* Replaying an entry of the history in a tab of the same authentication   *)
(* sends the request the entry was made of, but for cookies: what is       *)
(* recorded, before authentication and with its body built, is not         *)
(* authenticated or built twice, whatever tab, mode and flags it is loaded *)
(* into (load_history, build_spec).  Left out: entries that substitution   *)
(* would change again, which it does when the value of a variable names an *)
(* earlier one; forms, whose rows are not recorded; gRPC, which is         *)
(* recorded after authentication; scripts, which run again; and bodies     *)
(* that the composer would decode again.                                   *)
ReplayRepeats ==
  net # <<>> /\ Head(net).hops = 0 /\ Tab.from # <<>> =>
    LET e == Head(Tab.from)
        as == e.first.as
    IN  /\ ~Tab.grpc /\ ~as.grpc /\ as.mode \notin Forms
        /\ Tab.script = "none" /\ as.script = "none"
        /\ Auth(Tab) = Auth(as)
        /\ DecodePayload(e.body, Tab.hex) = {e.body}
        /\ Settled(e)
        => WithoutCookie(Head(net).request) = WithoutCookie(e.first.request)

(* A jar is what answers made it.  The cookies of a tab that are fresh are *)
(* those in the file when it was opened and those that the last answers to *)
(* its requests set while cookies were on, but for those that a later one  *)
(* replaced or took back; and the file has those of the jar that was last  *)
(* saved with success, whichever tab's that was, through expiry, failed    *)
(* writes, closed tabs and new ones.  The cookies of the answers that      *)
(* redirect are not among them: send_request drops these headers.          *)
CookiesSurvive ==
  LET cookie(e) == ParseSetCookie(e.set, e.url, e.at)
      same(c, d) == c.name = d.name /\ c.domain = d.domain
      left(G) == {cookie(G[i]) : i \in {i \in DOMAIN G :
                    /\ Fresh(cookie(G[i]), now)
                    /\ \A j \in i + 1 .. Len(G) : ~same(cookie(G[j]), cookie(G[i]))}}
      of(jar) == {jar.cookies[k] : k \in {k \in DOMAIN jar.cookies : Fresh(jar.cookies[k], now)}}
  IN  /\ \A i \in DOMAIN tabs : of(tabs[i].jar) = left(given[i])
      /\ jarFile # <<>> => of(Head(jarFile)) = left(kept)

(* Redirects follow the rules of docs/http.md over a whole chain: headers  *)
(* are kept, method and body until a 301, 302 or 303; every answer but the *)
(* last one redirects, and no more redirects are followed than the limit,  *)
(* none for gRPC or if they are not to be followed.  When the request is   *)
(* over its last answer redirects no more, unless it says not where to, or *)
(* that limit is reached.                                                  *)
RedirectsFollowed ==
  trail # <<>> =>
    LET first == trail[1].request
        last == trail[Len(trail)]
        got == {i \in DOMAIN trail : trail[i].answer \in 301 .. 303}
    IN  /\ \A i \in DOMAIN trail :
             LET r == trail[i].request IN
               /\ r.headers = first.headers
               /\ IF \E j \in got : j < i THEN r.method = "GET" /\ r.body = <<>>
                  ELSE r.method = first.method /\ r.body = first.body
        /\ \A i \in 1 .. Len(trail) - 1 : IsRedirect(trail[i].answer)
        /\ Len(trail) <= trail[1].limit + 1
        /\ net = <<>> /\ IsRedirect(last.answer)
             => last.location = <<>> \/ Len(trail) = trail[1].limit + 1

(* app.rs: "Prefer refresh when we already have a stored refresh token for *)
(* this client."  So the token of a refresh is this client's.              *)
RefreshedForThisClient ==
  flow # <<>> /\ Head(flow).phase = "refresh"
    => tokens.refresh = {Head(flow).cfg.client}

(* A refresh presents the token that was given to its own client, whoever  *)
(* was authorized in between, in whichever tab, and whatever answers,      *)
(* callbacks and writes of oauth.toml failed (start_oauth_flow,            *)
(* save_oauth_store).  Left out, and the subject of RefreshedForThisClient: *)
(* after an answer without a refresh token was written for another client  *)
(* than the one before, until one with a refresh token is written.         *)
RefreshesItsOwn == ~borrowed => RefreshedForThisClient
=============================================================================
