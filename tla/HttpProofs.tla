------------------------------ MODULE HttpProofs ------------------------------
(* Theorems about HttpSession, for any requests, servers, texts and bounds:  *)
(* its types and capacities, what is saved or typed against what is sent,    *)
(* redirects, cookies, and the refresh token.  What an encoding or the       *)
(* substitution of variables computes is left to the runs.                   *)
EXTENDS HttpSession, FiniteSetTheorems, Walks

------------------------------------------------------------------------------
(* The inductive invariant is Typed, below, of which TabOK is the part about *)
(* one tab.  It says more than TypeOK: which fields a tab has, that what is  *)
(* edited and listed are lists, that an answer is awaited for the tab that   *)
(* is shown, and that the history never holds two entries of one time.       *)

TabFields ==
  Saved \cup {"focus", "field", "row", "edit", "hex", "jar", "pane", "log", "status", "from"}

IsList(s) == \E S : s \in Seq(S)

(* Rows of a form are records, of whatever texts. *)
IsRow(x) == x = [n \in DOMAIN x |-> x[n]]
IsForm(s) == \E S : s \in Seq(S) /\ \A x \in S : IsRow(x)

Frames == [id : Nat, of : {"request", "answer"}]

LogOK(log) ==
  /\ log \in [frames : Seq(Frames), nextId : Nat, selected : Nat, follow : BOOLEAN]
  /\ Len(log.frames) <= MaxFrames
  /\ log.selected = 0 \/ log.selected < Len(log.frames)

(* A tab, of which the row that is edited is one there is, or the first.   *)
TabOK(t) ==
  /\ DOMAIN t = TabFields
  /\ t.focus \in {"form", "log", "history"} /\ t.field \in Fields
  /\ IsForm(t.fields) /\ IsRow(t.edit)
  /\ t.row = 1 \/ t.row \in 1 .. Len(t.fields)
  /\ LogOK(t.log)
  /\ Cardinality(t.pane) <= Shown
  /\ t.maxRedirects \in Nat /\ t.hex \in BOOLEAN

(* t is still a tab with its cookies, and waits for an answer if it did. *)
Still(u, t) == TabOK(u) /\ u.status = t.status /\ u.jar = t.jar

LEMMA ListShape ==
  ASSUME NEW s, IsList(s)
  PROVE  /\ Len(s) \in Nat /\ DOMAIN s = 1 .. Len(s) /\ (s # <<>> => 1 \in 1 .. Len(s))
         /\ \A x : IsList(Append(s, x)) /\ Len(Append(s, x)) = Len(s) + 1
         /\ \A x : \A i \in 1 .. Len(s) : /\ IsList([s EXCEPT ![i] = x])
                                           /\ Len([s EXCEPT ![i] = x]) = Len(s)
<1>1. PICK S : s \in Seq(S)
  BY DEF IsList
<1>2. Len(s) \in Nat /\ DOMAIN s = 1 .. Len(s) /\ (s # <<>> => 1 \in 1 .. Len(s))
  BY <1>1
<1>3. ASSUME NEW x
      PROVE  /\ IsList(Append(s, x)) /\ Len(Append(s, x)) = Len(s) + 1
             /\ \A i \in 1 .. Len(s) : IsList([s EXCEPT ![i] = x]) /\ Len([s EXCEPT ![i] = x]) = Len(s)
  <2>1. PICK T : T = S \cup {x}
    OBVIOUS
  <2>2. x \in T /\ S \subseteq T
    BY <2>1
  <2>3. s \in Seq(T)
    <3>1. \A z \in Seq(S) : z \in Seq(T)
      BY <2>2
    <3> QED
      BY <1>1, <3>1
  <2>4. Append(s, x) \in Seq(T) /\ Len(Append(s, x)) = Len(s) + 1
    BY <2>2, <2>3
  <2>5. \A i \in 1 .. Len(s) : [s EXCEPT ![i] = x] \in Seq(T) /\ Len([s EXCEPT ![i] = x]) = Len(s)
    BY <2>2, <2>3
  <2> QED
    BY <2>4, <2>5 DEF IsList
<1> QED
  BY <1>2, <1>3

LEMMA IsRowNoRow == IsRow(NoRow)
BY Zenon DEF IsRow, NoRow, Row

LEMMA FormShape ==
  ASSUME NEW s, IsForm(s)
  PROVE  /\ IsList(s) /\ Len(s) \in Nat /\ DOMAIN s = 1 .. Len(s)
         /\ \A i \in 1 .. Len(s) : IsRow(s[i])
         /\ \A x : IsRow(x) => /\ IsForm(Append(s, x)) /\ Len(Append(s, x)) = Len(s) + 1
                               /\ \A i \in 1 .. Len(s) : /\ IsForm([s EXCEPT ![i] = x])
                                                         /\ Len([s EXCEPT ![i] = x]) = Len(s)
<1>1. PICK S : s \in Seq(S) /\ \A x \in S : IsRow(x)
  BY DEF IsForm
<1>2. IsList(s) /\ Len(s) \in Nat /\ DOMAIN s = 1 .. Len(s) /\ \A i \in 1 .. Len(s) : IsRow(s[i])
  BY <1>1 DEF IsList
<1>3. ASSUME NEW x, IsRow(x)
      PROVE  /\ IsForm(Append(s, x)) /\ Len(Append(s, x)) = Len(s) + 1
             /\ \A i \in 1 .. Len(s) : IsForm([s EXCEPT ![i] = x]) /\ Len([s EXCEPT ![i] = x]) = Len(s)
  <2>1. PICK T : T = S \cup {x}
    OBVIOUS
  <2>2. x \in T /\ S \subseteq T /\ \A y \in T : IsRow(y)
    BY <1>1, <1>3, <2>1
  <2>3. s \in Seq(T)
    <3>1. \A z \in Seq(S) : z \in Seq(T)
      BY <2>2
    <3> QED
      BY <1>1, <3>1
  <2>4. Append(s, x) \in Seq(T) /\ Len(Append(s, x)) = Len(s) + 1
    BY <2>2, <2>3
  <2>5. \A i \in 1 .. Len(s) : [s EXCEPT ![i] = x] \in Seq(T) /\ Len([s EXCEPT ![i] = x]) = Len(s)
    BY <2>2, <2>3
  <2> QED
    BY <2>2, <2>4, <2>5 DEF IsForm
<1> QED
  BY <1>2, <1>3

LEMMA FocusOK ==
  ASSUME NEW t, TabOK(t), NEW focus \in {"form", "log", "history"}
  PROVE  Still([t EXCEPT !.focus = focus], t)
BY DEF TabOK, Still, TabFields, Saved

LEMMA FieldOK ==
  ASSUME NEW t, TabOK(t), NEW field \in Fields
  PROVE  Still([t EXCEPT !.field = field], t)
BY DEF TabOK, Still, TabFields, Saved

LEMMA SyncOK ==
  ASSUME NEW t, TabOK(t)
  PROVE  Still(Sync(t), t)
<1>1. PICK r : r = IF t.row \in DOMAIN t.fields THEN t.fields[t.row] ELSE NoRow
  OBVIOUS
<1>2. IsRow(r)
  BY <1>1, FormShape, IsRowNoRow DEF TabOK
<1>3. Sync(t) = [t EXCEPT !.edit = r]
  BY <1>1 DEF Sync
<1> QED
  BY <1>2, <1>3 DEF TabOK, Still, TabFields, Saved

LEMMA CommitOK ==
  ASSUME NEW t, TabOK(t)
  PROVE  Still(Commit(t), t) /\ Len(Commit(t).fields) = Len(t.fields) /\ Commit(t).row = t.row
<1>1. CASE t.row \in DOMAIN t.fields
  <2>1. PICK s : s = [t.fields EXCEPT ![t.row] = t.edit]
    OBVIOUS
  <2>2. Commit(t) = [t EXCEPT !.fields = s]
    BY <1>1, <2>1 DEF Commit
  <2>3. IsForm(s) /\ Len(s) = Len(t.fields)
    BY <1>1, <2>1, FormShape DEF TabOK
  <2> QED
    BY <2>2, <2>3 DEF TabOK, Still, TabFields, Saved
<1>2. CASE t.row \notin DOMAIN t.fields
  BY <1>2 DEF Commit, Still
<1> QED
  BY <1>1, <1>2

LEMMA EnterOK ==
  ASSUME NEW t, TabOK(t), NEW field \in Fields
  PROVE  Still(Enter(t, field), t)
BY FieldOK, SyncOK DEF Enter, Still

LEMMA CommitFormOK ==
  ASSUME NEW t, TabOK(t)
  PROVE  Still(CommitForm(t), t)
BY CommitOK DEF CommitForm, Still

LEMMA NeighboursAreFields ==
  ASSUME NEW t
  PROVE  NextField(t) \in Fields /\ PreviousField(t) \in Fields
BY DEF NextField, PreviousField, Fields

LEMMA CycleFieldOK ==
  ASSUME NEW t, TabOK(t)
  PROVE  Still(CycleField(t), t) /\ Still(CycleBack(t), t)
<1>1. Still([t EXCEPT !.focus = "form"], t)
  BY FocusOK
<1>2. PICK u : u = Enter(CommitForm(t), NextField(t))
  OBVIOUS
<1>3. Still(u, t) /\ Still([u EXCEPT !.focus = "form"], u)
  BY <1>2, CommitFormOK, NeighboursAreFields, EnterOK, FocusOK DEF Still
<1>4. PICK v : v = [t EXCEPT !.field = PreviousField(t)]
  OBVIOUS
<1>5. Still(v, t) /\ Still([v EXCEPT !.focus = "form"], v)
  BY <1>4, NeighboursAreFields, FieldOK, FocusOK DEF Still
<1> QED
  BY <1>1, <1>2, <1>3, <1>4, <1>5 DEF CycleField, CycleBack, Still

LEMMA SetFieldOK ==
  ASSUME NEW t, TabOK(t), NEW field \in Drawn(t)
  PROVE  Still(SetField(t, field), t)
<1>1. field \in Fields
  BY DEF Drawn, DrawnRequest, DrawnAuth, Fields
<1>2. PICK u : u = Enter(CommitForm(t), field)
  OBVIOUS
<1>3. Still(u, t) /\ Still([u EXCEPT !.focus = "form"], u)
  BY <1>1, <1>2, CommitFormOK, EnterOK, FocusOK DEF Still
<1> QED
  BY <1>2, <1>3 DEF SetField, Still

(* The rows of a form. *)
LEMMA FormOK ==
  ASSUME NEW t, TabOK(t), NEW s, IsForm(s), NEW row, row = 1 \/ row \in 1 .. Len(s)
  PROVE  Still([t EXCEPT !.fields = s, !.row = row], t)
BY DEF TabOK, Still, TabFields, Saved

LEMMA FormAddRowOK ==
  ASSUME NEW t, TabOK(t)
  PROVE  Still(FormAddRow(t), t)
<1>1. PICK c : c = Commit(t)
  OBVIOUS
<1>2. TabOK(c) /\ c.status = t.status /\ c.jar = t.jar
  BY <1>1, CommitOK DEF Still
<1>3. PICK s, row : s = Append(c.fields, NoRow) /\ row = Len(c.fields) + 1
  OBVIOUS
<1>4. IsForm(s) /\ Len(s) = Len(c.fields) + 1 /\ Len(c.fields) \in Nat
  BY <1>2, <1>3, FormShape, IsRowNoRow DEF TabOK
<1>0. row \in 1 .. Len(s)
  BY <1>3, <1>4
<1>5. PICK u : u = [c EXCEPT !.fields = s, !.row = row]
  OBVIOUS
<1>6. TabOK(u) /\ u.status = t.status /\ u.jar = t.jar
  <2>1. Still(u, c)
    BY <1>0, <1>2, <1>4, <1>5, FormOK
  <2> QED
    BY <1>2, <2>1 DEF Still
<1>7. PICK v : v = [u EXCEPT !.field = "form"]
  OBVIOUS
<1>8. TabOK(v) /\ v.status = t.status /\ v.jar = t.jar
  BY <1>6, <1>7, FieldOK DEF Still, Fields
<1>9. FormAddRow(t) = Sync(v)
  BY <1>1, <1>3, <1>5, <1>7 DEF FormAddRow
<1> QED
  BY <1>8, <1>9, SyncOK DEF Still

LEMMA RemoveShape ==
  ASSUME NEW s, IsList(s), NEW i \in 1 .. Len(s)
  PROVE  /\ IsList(RemoveAt(s, i)) /\ Len(RemoveAt(s, i)) = Len(s) - 1 /\ Len(s) \in Nat
<1>0. PICK S : s \in Seq(S)
  BY DEF IsList
<1>1. Len(s) \in Nat /\ i \in Nat /\ 1 <= i /\ i <= Len(s)
  BY <1>0
<1> DEFINE a == SubSeq(s, 1, i - 1)
           b == SubSeq(s, i + 1, Len(s))
<1>2. a \in Seq(S) /\ Len(a) = i - 1
  BY <1>0, <1>1
<1>3. b \in Seq(S) /\ Len(b) = Len(s) - i
  BY <1>0, <1>1
<1> HIDE DEF a, b
<1>4. a \o b \in Seq(S) /\ Len(a \o b) = Len(a) + Len(b)
  BY <1>2, <1>3
<1>5. RemoveAt(s, i) = a \o b
  BY DEF RemoveAt, a, b
<1>6. IsList(a \o b)
  <2>1. \E T : a \o b \in Seq(T)
    BY <1>4
  <2> QED
    BY <2>1 DEF IsList
<1>7. Len(a \o b) = Len(s) - 1
  BY <1>1, <1>2, <1>3, <1>4
<1> QED
  BY <1>1, <1>5, <1>6, <1>7

LEMMA RemoveRow ==
  ASSUME NEW s, IsForm(s), NEW i \in 1 .. Len(s)
  PROVE  IsForm(RemoveAt(s, i)) /\ Len(RemoveAt(s, i)) = Len(s) - 1 /\ Len(s) \in Nat
<1>1. PICK S : s \in Seq(S) /\ \A x \in S : IsRow(x)
  BY DEF IsForm
<1>2. SubSeq(s, 1, i - 1) \in Seq(S) /\ SubSeq(s, i + 1, Len(s)) \in Seq(S)
  BY <1>1
<1>3. RemoveAt(s, i) \in Seq(S)
  BY <1>2 DEF RemoveAt
<1> QED
  BY <1>1, <1>3, FormShape, RemoveShape DEF IsForm

LEMMA FormDeleteRowOK ==
  ASSUME NEW t, TabOK(t)
  PROVE  Still(FormDeleteRow(t), t)
<1>1. CASE t.fields = <<>>
  BY <1>1 DEF FormDeleteRow, Still
<1>2. CASE t.fields # <<>>
  <2>1. PICK s, rest, row : /\ s = t.fields /\ rest = RemoveAt(t.fields, t.row)
                            /\ row = IF t.row > 1 /\ t.row > Len(rest) THEN t.row - 1 ELSE t.row
    OBVIOUS
  <2>2. IsForm(s) /\ s # <<>> /\ (t.row = 1 \/ t.row \in 1 .. Len(s))
    BY <1>2, <2>1 DEF TabOK
  <2>3. t.row \in 1 .. Len(s)
    BY <2>2, FormShape, ListShape
  <2>4. IsForm(rest) /\ Len(rest) = Len(s) - 1 /\ Len(s) \in Nat
    BY <2>1, <2>2, <2>3, RemoveRow
  <2>5. row = 1 \/ row \in 1 .. Len(rest)
    BY <2>1, <2>3, <2>4
  <2>6. PICK u : u = [t EXCEPT !.fields = rest, !.row = row]
    OBVIOUS
  <2>7. TabOK(u) /\ u.status = t.status /\ u.jar = t.jar
    BY <2>4, <2>5, <2>6, FormOK DEF Still
  <2>8. FormDeleteRow(t) = Sync(u)
    BY <1>2, <2>1, <2>6 DEF FormDeleteRow
  <2> QED
    BY <2>7, <2>8, SyncOK DEF Still
<1> QED
  BY <1>1, <1>2

LEMMA FormRowOK ==
  ASSUME NEW t, TabOK(t), NEW down \in BOOLEAN
  PROVE  Still(FormRow(t, down), t)
<1>1. PICK c : c = Commit(t)
  OBVIOUS
<1>2. TabOK(c) /\ c.status = t.status /\ c.jar = t.jar
  BY <1>1, CommitOK DEF Still
<1>3. PICK s, row : /\ s = c.fields
                    /\ row = IF down THEN IF c.row < Len(c.fields) THEN c.row + 1 ELSE c.row
                             ELSE IF c.row > 1 THEN c.row - 1 ELSE c.row
  OBVIOUS
<1>4. row = 1 \/ row \in 1 .. Len(s)
  <2>1. Len(s) \in Nat /\ (c.row = 1 \/ c.row \in 1 .. Len(s))
    BY <1>2, <1>3, FormShape DEF TabOK
  <2> QED
    BY <1>3, <2>1
<1>5. PICK u : u = [c EXCEPT !.row = row]
  OBVIOUS
<1>6. TabOK(u) /\ u.status = t.status /\ u.jar = t.jar
  BY <1>2, <1>3, <1>4, <1>5 DEF TabOK, TabFields, Saved
<1>7. FormRow(t, down) = Sync(u)
  BY <1>1, <1>3, <1>5 DEF FormRow
<1> QED
  BY <1>6, <1>7, SyncOK DEF Still

LEMMA ModeOK ==
  ASSUME NEW t, TabOK(t), NEW mode
  PROVE  Still([t EXCEPT !.mode = mode], t)
BY DEF TabOK, Still, TabFields, Saved

LEMMA FromOK ==
  ASSUME NEW t, TabOK(t), NEW from
  PROVE  Still([t EXCEPT !.from = from], t)
BY DEF TabOK, Still, TabFields, Saved

LEMMA CycleAuthOK ==
  ASSUME NEW t, TabOK(t)
  PROVE  Still(CycleAuth(t), t)
<1>1. PICK auth : CycleAuth(t) = [t EXCEPT !.auth = auth, !.field = "auth"]
  BY DEF CycleAuth
<1> QED
  BY <1>1 DEF TabOK, Still, TabFields, Saved, Fields

LEMMA CycleBodyModeOK ==
  ASSUME NEW t, TabOK(t)
  PROVE  Still([CycleBodyMode(t) EXCEPT !.from = <<>>], t)
<1>1. PICK mode : CycleBodyMode(t) =
                    LET next == [Commit(t) EXCEPT !.mode = mode]
                        rows == IF next.mode \in Forms /\ next.fields = <<>>
                                THEN FormAddRow(next) ELSE next
                    IN  IF rows.mode \in Forms THEN Enter(rows, "form")
                        ELSE [rows EXCEPT !.field = "body",
                                          !.method = IF rows.mode = "graphql" /\ @ = "GET"
                                                     THEN "POST" ELSE @]
  BY DEF CycleBodyMode
<1>2. PICK next : next = [Commit(t) EXCEPT !.mode = mode]
  OBVIOUS
<1>3. TabOK(next) /\ next.status = t.status /\ next.jar = t.jar
  BY <1>2, CommitOK, ModeOK DEF Still
<1>4. PICK rows : rows = IF next.mode \in Forms /\ next.fields = <<>>
                         THEN FormAddRow(next) ELSE next
  OBVIOUS
<1>5. TabOK(rows) /\ rows.status = t.status /\ rows.jar = t.jar
  BY <1>3, <1>4, FormAddRowOK DEF Still
<1>6. CASE rows.mode \in Forms
  <2>1. CycleBodyMode(t) = Enter(rows, "form")
    BY <1>1, <1>2, <1>4, <1>6
  <2>2. "form" \in Fields
    BY DEF Fields
  <2> QED
    BY <1>5, <2>1, <2>2, EnterOK, FromOK DEF Still
<1>7. CASE rows.mode \notin Forms
  <2>1. PICK method : CycleBodyMode(t) = [rows EXCEPT !.field = "body", !.method = method]
    BY <1>1, <1>2, <1>4, <1>7
  <2>2. Still(CycleBodyMode(t), rows)
    BY <1>5, <2>1 DEF TabOK, Still, TabFields, Saved, Fields
  <2> QED
    BY <1>5, <2>2, FromOK DEF Still
<1> QED
  BY <1>6, <1>7

LEMMA ToggleGrpcOK ==
  ASSUME NEW t, TabOK(t)
  PROVE  Still([ToggleGrpc(t) EXCEPT !.from = <<>>], t)
<1>1. PICK grpc, method : ToggleGrpc(t) = [t EXCEPT !.grpc = grpc, !.method = method]
  BY DEF ToggleGrpc
<1> QED
  BY <1>1 DEF TabOK, Still, TabFields, Saved

LEMMA LoadHistoryOK ==
  ASSUME NEW t, TabOK(t), NEW e
  PROVE  Still(LoadHistory(t, e), t)
BY DEF LoadHistory, TabOK, Still, TabFields, Saved, Fields

LEMMA TypeTextOK ==
  ASSUME NEW t, TabOK(t), t.field # "auth", NEW text
  PROVE  Still([Type(t, text) EXCEPT !.from = <<>>], t)
<1>1. CASE t.field = "form"
  <2>1. PICK edit : edit = [t.edit EXCEPT !.key = text]
    OBVIOUS
  <2>2. Type(t, text) = [t EXCEPT !.edit = edit]
    <3>1. Type(t, text) = [t EXCEPT !.edit.key = text]
      BY <1>1 DEF Type
    <3> QED
      BY <2>1, <3>1 DEF TabOK, TabFields
  <2>3. IsRow(edit)
    BY <2>1 DEF IsRow
  <2> QED
    BY <2>2, <2>3 DEF TabOK, Still, TabFields, Saved
<1>2. CASE t.field # "form"
  <2>1. t.field \in {"body", "url", "headers", "method", "token", "user", "pass", "key",
                     "value", "variables", "operation"}
    BY <1>2 DEF TabOK, Fields
  <2>2. Type(t, text) = [t EXCEPT ![t.field] = text]
    BY <1>2, <2>1 DEF Type
  <2>3. Still(Type(t, text), t)
    BY <2>1, <2>2 DEF TabOK, Still, TabFields, Saved
  <2> QED
    BY <2>3, FromOK DEF Still
<1> QED
  BY <1>1, <1>2

(* A request that can be loaded. *)
RequestOK(saved) == IsForm(saved.fields) /\ saved.maxRedirects \in Nat

LEMMA RequestsAreOK ==
  ASSUME NEW l \in Loads
  PROVE  RequestOK(l.request)
<1>1. l.request.fields \in Seq(Rows) /\ l.request.maxRedirects \in Nat
  BY RequestAssumption
<1>2. \A x \in Rows : IsRow(x)
  BY DEF Rows, IsRow
<1> QED
  BY <1>1, <1>2 DEF RequestOK, IsForm

(* A request is loaded: its first row, if it has one, is the one edited.   *)
Loaded(u, saved) == \E t : TabOK(t) /\ t.fields = saved.fields /\ u = Sync(t)

LEMMA LoadedOK ==
  ASSUME NEW t, DOMAIN t = TabFields, t.focus \in {"form", "log", "history"}, t.field \in Fields,
         LogOK(t.log), Cardinality(t.pane) <= Shown, t.hex \in BOOLEAN, IsRow(t.edit),
         NEW saved, RequestOK(saved)
  PROVE  Still(LoadSaved(t, saved), t) /\ Loaded(LoadSaved(t, saved), saved)
<1>9. PICK key : key = DefaultKey(saved.key)
  OBVIOUS
<1>1. PICK u : u = [n \in DOMAIN t |-> CASE n = "row" -> 1
                             [] n = "key" -> key
                             [] n = "from" -> <<>>
                             [] n \in Saved \ {"key"} -> saved[n]
                             [] OTHER -> t[n]]
  OBVIOUS
<1>0. DOMAIN u = TabFields
  BY <1>1
<1>2. u.row = 1
  <2>1. "row" \in DOMAIN t
    BY DEF TabFields
  <2> QED
    BY <1>1, <2>1 DEF Saved
<1>3. u.focus = t.focus /\ u.field = t.field
  BY <1>1 DEF TabFields, Saved
<1>4. u.log = t.log /\ u.pane = t.pane /\ u.status = t.status /\ u.jar = t.jar /\ u.hex = t.hex /\ u.edit = t.edit
  BY <1>1 DEF TabFields, Saved
<1>5. u.fields = saved.fields /\ u.maxRedirects = saved.maxRedirects
  BY <1>1 DEF TabFields, Saved
<1>6. TabOK(u)
  BY <1>0, <1>2, <1>3, <1>4, <1>5 DEF TabOK, RequestOK
<1>7. LoadSaved(t, saved) = Sync(u)
  BY <1>1, <1>9 DEF LoadSaved
<1> QED
  BY <1>4, <1>5, <1>6, <1>7, SyncOK DEF Still, Loaded

LEMMA NewTabOK ==
  ASSUME NEW saved, RequestOK(saved), NEW jar, NEW listing, Cardinality(listing) <= Shown
  PROVE  /\ TabOK(NewTab(saved, jar, listing)) /\ NewTab(saved, jar, listing).status = "idle"
         /\ NewTab(saved, jar, listing).jar = IF jar = <<>> THEN NewJar ELSE Head(jar)
         /\ Loaded(NewTab(saved, jar, listing), saved)
<1>1. PICK b, e, j, l :
        /\ e = NoRow /\ l = NewLog
        /\ j = IF jar = <<>> THEN NewJar ELSE Head(jar)
        /\ b = [focus |-> "form", field |-> "url", row |-> 1, edit |-> e, hex |-> FALSE,
                jar |-> j, pane |-> listing, log |-> l, status |-> "idle", from |-> <<>>]
  OBVIOUS
<1>3. PICK t : t = [n \in Saved \cup DOMAIN b |-> IF n \in Saved THEN saved[n] ELSE b[n]]
  OBVIOUS
<1>2. NewTab(saved, jar, listing) = LoadSaved(t, saved)
  BY <1>1, <1>3 DEF NewTab
<1>4. DOMAIN t = TabFields
  BY <1>1, <1>3 DEF TabFields
<1>5. t.focus = "form" /\ t.field = "url"
  BY <1>1, <1>3 DEF Saved
<1>9. t.hex = FALSE /\ t.edit = e
  BY <1>1, <1>3 DEF Saved
<1>6. t.log = l /\ t.pane = listing /\ t.status = "idle" /\ t.jar = j
  BY <1>1, <1>3 DEF Saved
<1>7. LogOK(l)
  BY <1>1, HttpAssumption DEF NewLog, LogOK, Frames
<1>8. "url" \in Fields
  BY DEF Fields
<1>10. /\ t.focus \in {"form", "log", "history"} /\ t.field \in Fields /\ LogOK(t.log)
       /\ Cardinality(t.pane) <= Shown /\ t.hex \in BOOLEAN /\ IsRow(t.edit)
  BY <1>1, <1>5, <1>6, <1>7, <1>8, <1>9, IsRowNoRow
<1>11. Still(LoadSaved(t, saved), t) /\ Loaded(LoadSaved(t, saved), saved)
  BY <1>4, <1>10, LoadedOK
<1> QED
  BY <1>1, <1>2, <1>6, <1>11 DEF Still

(* The frame log. *)
LEMMA SelectedOK ==
  ASSUME NEW log, LogOK(log), NEW i \in Nat, i = 0 \/ i < Len(log.frames), NEW follow \in BOOLEAN
  PROVE  LogOK([log EXCEPT !.selected = i, !.follow = follow])
BY DEF LogOK

LEMMA LogKeysOK ==
  ASSUME NEW log, LogOK(log)
  PROVE  /\ \A delta \in Int : LogOK(MoveSelection(log, delta))
         /\ LogOK(JumpTop(log)) /\ LogOK(JumpBottom(log))
         /\ \A i \in Nat : LogOK(SelectLogRow(log, i))
<1>1. Len(log.frames) \in Nat /\ (log.frames # <<>> => Len(log.frames) > 0) /\ log.selected \in Nat
  BY DEF LogOK
<1>2. ASSUME NEW delta \in Int PROVE LogOK(MoveSelection(log, delta))
  <2>1. CASE Len(log.frames) = 0
    BY <2>1 DEF MoveSelection, LogOK
  <2>2. CASE Len(log.frames) # 0
    <3>1. PICK row : row = Clamp(Clamp(log.selected, Len(log.frames)) + delta, Len(log.frames))
      OBVIOUS
    <3>2. row \in Nat /\ row < Len(log.frames)
      BY <1>1, <2>2, <3>1 DEF Clamp
    <3>3. CASE row + 1 >= Len(log.frames)
      <4>1. MoveSelection(log, delta) = [log EXCEPT !.selected = row, !.follow = TRUE]
        BY <2>2, <3>1, <3>3 DEF MoveSelection
      <4> QED
        BY <3>2, <4>1, SelectedOK
    <3>4. CASE ~(row + 1 >= Len(log.frames))
      <4>1. (row + 1 >= Len(log.frames)) = FALSE
        BY <3>4
      <4>2. MoveSelection(log, delta)
              = [log EXCEPT !.selected = row, !.follow = row + 1 >= Len(log.frames)]
        BY <2>2, <3>1 DEF MoveSelection
      <4>3. MoveSelection(log, delta) = [log EXCEPT !.selected = row, !.follow = FALSE]
        BY <4>1, <4>2, Zenon
      <4> QED
        BY <3>2, <4>3, SelectedOK
    <3> QED
      BY <3>3, <3>4
  <2> QED
    BY <2>1, <2>2
<1>3. LogOK(JumpTop(log)) /\ LogOK(JumpBottom(log))
  <2>1. LogOK(JumpTop(log))
    BY SelectedOK DEF JumpTop
  <2>2. PICK i : i = IF log.frames = <<>> THEN 0 ELSE Len(log.frames) - 1
    OBVIOUS
  <2>3. i \in Nat /\ (i = 0 \/ i < Len(log.frames))
    BY <1>1, <2>2
  <2>4. JumpBottom(log) = [log EXCEPT !.selected = i, !.follow = TRUE]
    BY <2>2 DEF JumpBottom
  <2> QED
    BY <2>1, <2>3, <2>4, SelectedOK
<1>4. ASSUME NEW i \in Nat PROVE LogOK(SelectLogRow(log, i))
  <2>1. CASE i < Len(log.frames)
    <3>1. SelectLogRow(log, i) = [log EXCEPT !.selected = i, !.follow = i + 1 >= Len(log.frames)]
      BY <2>1 DEF SelectLogRow
    <3>2. (i + 1 >= Len(log.frames)) = TRUE \/ (i + 1 >= Len(log.frames)) = FALSE
      OBVIOUS
    <3>3. \/ SelectLogRow(log, i) = [log EXCEPT !.selected = i, !.follow = TRUE]
          \/ SelectLogRow(log, i) = [log EXCEPT !.selected = i, !.follow = FALSE]
      BY <3>1, <3>2, Zenon
    <3> QED
      BY <2>1, <3>3, SelectedOK
  <2>2. CASE ~(i < Len(log.frames))
    BY <2>2 DEF SelectLogRow
  <2> QED
    BY <2>1, <2>2
<1> QED
  BY <1>2, <1>3, <1>4

LEMMA PushFullOK ==
  ASSUME NEW log, LogOK(log), NEW of \in {"request", "answer"}
  PROVE  /\ LogOK(PushFull(log, MaxFrames, of))
         /\ Len(PushFull(log, MaxFrames, of).frames) \in Nat \ {0}
         /\ PushFull(log, MaxFrames, of).follow \in BOOLEAN
<1>1. /\ log.frames \in Seq(Frames) /\ log.nextId \in Nat /\ log.selected \in Nat
      /\ log = [frames |-> log.frames, nextId |-> log.nextId, selected |-> log.selected,
                follow |-> log.follow]
      /\ log.follow \in BOOLEAN /\ Len(log.frames) \in Nat /\ Len(log.frames) <= MaxFrames
      /\ log.selected = 0 \/ log.selected < Len(log.frames)
  BY DEF LogOK
<1>2. PICK left : left = IF Len(log.frames) >= MaxFrames THEN Tail(log.frames) ELSE log.frames
  OBVIOUS
<1>3. left \in Seq(Frames) /\ Len(left) \in Nat
  BY <1>1, <1>2, HttpAssumption
<1>4. Len(left) + 1 <= MaxFrames /\ Len(left) + 1 >= Len(log.frames)
  BY <1>1, <1>2, HttpAssumption
<1>5. PICK frames : frames = Append(left, [id |-> log.nextId, of |-> of])
  OBVIOUS
<1>6. frames \in Seq(Frames) /\ Len(frames) = Len(left) + 1
  <2>1. [id |-> log.nextId, of |-> of] \in Frames
    BY <1>1 DEF Frames
  <2> QED
    BY <1>3, <1>5, <2>1
<1>7. PushFull(log, MaxFrames, of) = [log EXCEPT !.frames = frames, !.nextId = log.nextId + 1]
  BY <1>2, <1>5 DEF PushFull
<1>8. /\ Len(frames) \in Nat \ {0} /\ Len(frames) <= MaxFrames
      /\ log.selected = 0 \/ log.selected < Len(frames)
  BY <1>1, <1>3, <1>4, <1>6
<1>9. log.nextId + 1 \in Nat
  BY <1>1
<1>10. [log EXCEPT !.frames = frames, !.nextId = log.nextId + 1]
         \in [frames : Seq(Frames), nextId : Nat, selected : Nat, follow : BOOLEAN]
  BY <1>6, <1>9 DEF LogOK
<1>11. PICK u : u = [log EXCEPT !.frames = frames, !.nextId = log.nextId + 1]
  OBVIOUS
<1>12. u.frames = frames /\ u.selected = log.selected /\ u.follow \in BOOLEAN
  BY <1>10, <1>11 DEF LogOK
<1> QED
  BY <1>7, <1>8, <1>10, <1>11, <1>12 DEF LogOK

------------------------------------------------------------------------------
(* The history.  Entries are known by their time and status.               *)
Entries(f) ==
  /\ IsFiniteSet(f)
  /\ \A e \in f : e.at \in Nat /\ e.status \in Nat
  /\ \A e, g \in f : Id(e) = Id(g) => e = g

LEMMA Least == ASSUME NEW S, S \subseteq Nat, S # {} PROVE \E n \in S : \A m \in S : n <= m
<1> DEFINE R == OpToRel(<, Nat)
<1>1. \A m, n \in Nat : <<m, n>> \in R <=> m < n
  BY DEF OpToRel
<1>2. IsWellFoundedOn(R, Nat)
  BY NatLessThanWellFounded
<1> HIDE DEF R
<1>3. PICK n \in S : \A m \in S : ~(<<m, n>> \in R)
  BY <1>2, WFMin
<1>4. n \in Nat /\ \A m \in S : m \in Nat /\ ~(m < n)
  BY <1>1, <1>3
<1>5. \A m \in S : n <= m
  BY <1>4
<1> QED
  BY <1>3, <1>5

LEMMA Oldest ==
  ASSUME NEW f, Entries(f), f # {}
  PROVE  \E e \in f : \A g \in f \ {e} : Older(e, g)
<1> DEFINE Times == {e.at : e \in f}
<1>1. PICK at \in Times : \A n \in Times : at <= n
  <2>1. Times \subseteq Nat /\ Times # {}
    BY DEF Entries
  <2> QED
    BY <2>1, Least
<1> DEFINE Those == {e.status : e \in {e \in f : e.at = at}}
<1>2. PICK status \in Those : \A n \in Those : status <= n
  <2>1. Those \subseteq Nat /\ Those # {}
    BY <1>1 DEF Entries
  <2> QED
    BY <2>1, Least
<1>3. PICK e \in f : e.at = at /\ e.status = status
  BY <1>2
<1>4. ASSUME NEW g \in f \ {e} PROVE Older(e, g)
  <2>1. /\ e.at \in Nat /\ e.status \in Nat /\ g.at \in Nat /\ g.status \in Nat
        /\ e.at # g.at \/ e.status # g.status
    BY <1>3, <1>4 DEF Entries, Id
  <2>2. e.at <= g.at
    BY <1>1, <1>3, <1>4
  <2>3. g.at = e.at => e.status <= g.status
    BY <1>2, <1>3, <1>4
  <2> QED
    BY <2>1, <2>2, <2>3 DEF Older
<1> QED
  BY <1>3, <1>4

(* Of the entries that are kept the oldest one has all others behind it,   *)
(* which are therefore less than keep.                                     *)
LEMMA PruneBound ==
  ASSUME NEW f, Entries(f), NEW keep \in Nat
  PROVE  Entries(Prune(f, keep)) /\ Cardinality(Prune(f, keep)) <= keep
<1> DEFINE P == Prune(f, keep)
<1>1. P \subseteq f /\ \A e \in P : Cardinality({g \in f : Older(e, g)}) < keep
  BY DEF Prune
<1> HIDE DEF P
<1>2. Entries(P) /\ IsFiniteSet(P) /\ IsFiniteSet(f)
  BY <1>1, FS_Subset DEF Entries
<1>3. CASE P = {}
  BY <1>2, <1>3, FS_EmptySet DEF P
<1>4. CASE P # {}
  <2>1. PICK e \in P : \A g \in P \ {e} : Older(e, g)
    BY <1>2, <1>4, Oldest
  <2> DEFINE N == {g \in f : Older(e, g)}
  <2>2. IsFiniteSet(N) /\ P \ {e} \subseteq N
    <3>1. N \subseteq f
      OBVIOUS
    <3> QED
      BY <1>1, <1>2, <2>1, <3>1, FS_Subset
  <2>3. Cardinality(N) < keep
    BY <1>1
  <2> HIDE DEF N
  <2>4. Cardinality(P \ {e}) <= Cardinality(N)
    BY <2>2, FS_Subset
  <2>5. Cardinality(P \ {e}) = Cardinality(P) - 1
    BY <1>2, FS_RemoveElement
  <2>6. Cardinality(P) \in Nat /\ Cardinality(N) \in Nat
    BY <1>2, <2>2, FS_CardinalityType
  <2>7. Cardinality(P) <= keep
    BY <2>3, <2>4, <2>5, <2>6
  <2> QED
    BY <1>2, <2>7 DEF P
<1> QED
  BY <1>3, <1>4

LEMMA AppendHistoryOK ==
  ASSUME NEW f, Entries(f), NEW entry, entry.at \in Nat, entry.status \in Nat
  PROVE  /\ Entries(AppendHistory(f, entry, Keep))
         /\ Cardinality(AppendHistory(f, entry, Keep)) <= Keep
<1> DEFINE rest == {e \in f : Id(e) # Id(entry)}
           with == rest \cup {entry}
<1>1. rest \subseteq f
  OBVIOUS
<1>2. IsFiniteSet(with)
  BY <1>1, FS_Subset, FS_AddElement DEF Entries
<1>3. Entries(with)
  BY <1>1, <1>2 DEF Entries
<1> HIDE DEF with
<1>4. AppendHistory(f, entry, Keep) = Prune(with, Keep)
  BY DEF AppendHistory, with
<1> QED
  BY <1>3, <1>4, PruneBound, HttpAssumption

LEMMA ListingsOK ==
  ASSUME NEW f, IsFiniteSet(f), NEW l \in Listings(f, Shown)
  PROVE  Cardinality(l) <= Shown
<1>1. Cardinality(f) \in Nat
  BY FS_CardinalityType
<1> QED
  BY <1>1, HttpAssumption DEF Listings

------------------------------------------------------------------------------
(* Lists of tabs and requests. *)
LEMMA Without ==
  ASSUME NEW s, IsList(s), NEW i \in 1 .. Len(s)
  PROVE  \A j \in 1 .. Len(s) - 1 : /\ j \in 1 .. Len(s) /\ j + 1 \in 1 .. Len(s)
                                    /\ RemoveAt(s, i)[j] = IF j < i THEN s[j] ELSE s[j + 1]
<1>0. PICK S : s \in Seq(S)
  BY DEF IsList
<1>1. Len(s) \in Nat /\ i \in Nat /\ 1 <= i /\ i <= Len(s)
  BY <1>0
<1> DEFINE a == SubSeq(s, 1, i - 1)
           b == SubSeq(s, i + 1, Len(s))
<1>2. a \in Seq(S) /\ Len(a) = i - 1 /\ \A j \in 1 .. i - 1 : a[j] = s[j]
  BY <1>0, <1>1
<1>3. b \in Seq(S) /\ Len(b) = Len(s) - i /\ \A j \in 1 .. Len(s) - i : b[j] = s[j + i]
  BY <1>0, <1>1
<1>4. RemoveAt(s, i) = a \o b
  BY DEF RemoveAt
<1> HIDE DEF a, b
<1>5. ASSUME NEW j \in 1 .. Len(s) - 1
      PROVE  /\ j \in 1 .. Len(s) /\ j + 1 \in 1 .. Len(s)
             /\ (a \o b)[j] = IF j < i THEN s[j] ELSE s[j + 1]
  <2>1. j \in 1 .. Len(s) /\ j + 1 \in 1 .. Len(s) /\ j \in Nat
    BY <1>1
  <2>2. CASE j < i
    <3>1. j \in 1 .. Len(a)
      BY <1>1, <1>2, <2>1, <2>2
    <3>2. (a \o b)[j] = a[j]
      BY <1>2, <1>3, <3>1
    <3> QED
      BY <1>1, <1>2, <2>1, <2>2, <3>1, <3>2
  <2>3. CASE ~(j < i)
    <3>1. j - (i - 1) \in 1 .. Len(s) - i /\ j \in Len(a) + 1 .. Len(a) + Len(b)
      BY <1>1, <1>2, <1>3, <2>1, <2>3
    <3>2. (a \o b)[j] = b[j - Len(a)]
      <4>1. Len(a) \in Nat /\ Len(b) \in Nat /\ j \in Nat
        BY <1>2, <1>3, <2>1
      <4>2. j \in 1 .. Len(a) + Len(b) /\ ~(j <= Len(a))
        BY <3>1, <4>1
      <4> QED
        BY <1>2, <1>3, <4>1, <4>2
    <3>3. b[j - (i - 1)] = s[(j - (i - 1)) + i]
      BY <1>3, <3>1
    <3>4. (j - (i - 1)) + i = j + 1
      BY <1>1, <2>1
    <3> QED
      BY <1>2, <2>1, <2>3, <3>2, <3>3, <3>4
  <2> QED
    BY <2>1, <2>2, <2>3
<1> QED
  BY <1>4, <1>5

(* The tabs and the one that is shown: only it may wait for an answer.     *)
TabsOK ==
  /\ IsList(tabs) /\ Len(tabs) <= 2
  /\ tabs # <<>> => active \in 1 .. Len(tabs)
  /\ \A i \in 1 .. Len(tabs) : /\ TabOK(tabs[i])
                               /\ tabs[i].status = "connecting" => i = active /\ net # <<>>

FilesOK == Entries(files) /\ Cardinality(files) <= Keep

CollectionOK ==
  /\ IsList(col) /\ \A i \in 1 .. Len(col) : RequestOK(col[i])
  /\ cursor \in 1 .. Len(col) + 1

(* What is awaited is awaited for the tab that is shown, and is one thing. *)
AwaitsOK ==
  /\ IsList(net) /\ Len(net) <= 1 /\ (net # <<>> => tabs # <<>>)
  /\ IsList(flow) /\ Len(flow) <= 1
  /\ flow # <<>> => net = <<>> /\ tabs # <<>> /\ Tab.auth = "oauth2"

BoundsOK ==
  /\ load \in Loads /\ keys \in 0 .. load.keys /\ now \in Nat
  /\ IsList(jarFile) /\ Len(jarFile) <= 1

Typed == TabsOK /\ FilesOK /\ CollectionOK /\ AwaitsOK /\ BoundsOK

LEMMA Elements ==
  ASSUME NEW e
  PROVE  /\ IsList(<<>>) /\ Len(<<>>) = 0
         /\ IsList(<<e>>) /\ Len(<<e>>) = 1 /\ <<e>> # <<>> /\ Head(<<e>>) = e /\ <<e>>[1] = e
<1>1. <<>> \in Seq({e}) /\ <<e>> \in Seq({e})
  OBVIOUS
<1>2. IsList(<<>>) /\ IsList(<<e>>)
  BY <1>1 DEF IsList
<1> QED
  BY <1>2

LEMMA Nothing == IsList(<<>>) /\ Len(<<>>) = 0 /\ Len(<<>>) <= 1
<1>1. <<>> \in Seq({0})
  OBVIOUS
<1> QED
  BY <1>1 DEF IsList

LEMMA AtMostOne ==
  ASSUME NEW s, s = <<>> \/ \E e : s = <<e>>
  PROVE  IsList(s) /\ Len(s) <= 1
<1>1. CASE s = <<>>
  BY <1>1, Nothing
<1>2. ASSUME NEW e, s = <<e>> PROVE IsList(s) /\ Len(s) <= 1
  BY <1>2, Elements
<1> QED
  BY <1>1, <1>2

LEMMA TypedInit == Init => Typed
<1> SUFFICES ASSUME Init PROVE Typed
  OBVIOUS
<1>1. load \in Loads /\ RequestOK(load.request)
  <2>1. load \in Loads
    BY DEF Init
  <2> QED
    BY <2>1, RequestsAreOK
<1>2. Cardinality({}) = 0 /\ IsFiniteSet({}) /\ 0 <= Shown /\ 0 <= Keep
  BY FS_EmptySet, HttpAssumption
<1>3. PICK t : t = NewTab(load.request, <<>>, {})
  OBVIOUS
<1>4. TabOK(t) /\ t.status # "connecting"
  BY <1>1, <1>2, <1>3, NewTabOK
<1>5. TabsOK
  <2>1. tabs = <<t>> /\ active = 1
    BY <1>3 DEF Init
  <2>2. IsList(tabs) /\ Len(tabs) = 1 /\ tabs[1] = t
    BY <2>1, Elements
  <2>3. \A i \in 1 .. Len(tabs) : tabs[i] = t
    BY <2>2
  <2>4. active \in 1 .. Len(tabs) /\ Len(tabs) <= 2
    BY <2>1, <2>2
  <2> QED
    BY <1>4, <2>2, <2>3, <2>4 DEF TabsOK
<1>6. FilesOK
  BY <1>2 DEF Init, FilesOK, Entries
<1>7. CollectionOK /\ AwaitsOK
  <2>1. col = <<>> /\ cursor = 1 /\ net = <<>> /\ flow = <<>>
    BY DEF Init
  <2>2. IsList(col) /\ Len(col) = 0 /\ IsList(net) /\ Len(net) = 0 /\ IsList(flow) /\ Len(flow) = 0
    BY <2>1, Elements
  <2>3. 1 .. Len(col) = {} /\ 1 \in 1 .. Len(col) + 1
    BY <2>2
  <2>4. \A i \in 1 .. Len(col) : RequestOK(col[i])
    BY <2>3
  <2>5. cursor \in 1 .. Len(col) + 1
    BY <2>1, <2>3
  <2>6. CollectionOK
    BY <2>2, <2>4, <2>5 DEF CollectionOK
  <2>7. Len(net) <= 1 /\ Len(flow) <= 1
    BY <2>2
  <2>8. AwaitsOK
    BY <2>1, <2>2, <2>7 DEF AwaitsOK
  <2> QED
    BY <2>6, <2>8
<1>8. BoundsOK
  <2>1. load.keys \in Nat
    BY <1>1, HttpAssumption
  <2>2. keys = 0 /\ now = 1 /\ jarFile = <<>>
    BY DEF Init
  <2>3. keys \in 0 .. load.keys /\ now \in Nat
    <3>1. \A n \in Nat : 0 \in 0 .. n
      OBVIOUS
    <3> QED
      BY <2>1, <2>2, <3>1
  <2>4. IsList(jarFile) /\ Len(jarFile) <= 1
    BY <2>2, Nothing
  <2> QED
    BY <1>1, <2>2, <2>3, <2>4 DEF BoundsOK
<1> QED
  BY <1>5, <1>6, <1>7, <1>8 DEF Typed

------------------------------------------------------------------------------
(* The steps.  t becomes u, and the others are left alone.                 *)
LEMMA BecomesOK ==
  ASSUME TabsOK, NEW t, t = Tab, NEW u, TabOK(u), Becomes(u), tabs # <<>>,
         u.status = "connecting" => net' # <<>>
  PROVE  TabsOK' /\ tabs' # <<>> /\ active' = active /\ Tab' = u
<1>1. IsList(tabs) /\ active \in 1 .. Len(tabs) /\ active' = active
  BY DEF TabsOK, Becomes
<1>2. tabs' = [tabs EXCEPT ![active] = u]
  BY DEF Becomes
<1>3. /\ IsList(tabs') /\ Len(tabs') = Len(tabs)
      /\ Len(tabs) \in Nat /\ DOMAIN tabs = 1 .. Len(tabs)
  BY <1>1, <1>2, ListShape
<1>4. \A i \in 1 .. Len(tabs) : tabs'[i] = IF i = active THEN u ELSE tabs[i]
  BY <1>2, <1>3
<1>5. ASSUME NEW i \in 1 .. Len(tabs)
      PROVE  TabOK(tabs'[i]) /\ (tabs'[i].status = "connecting" => i = active /\ net' # <<>>)
  BY <1>4 DEF TabsOK
<1>6. tabs' # <<>>
  BY <1>1, <1>3, Elements
<1>7. Tab' = u
  BY <1>1, <1>4 DEF Tab
<1> QED
  BY <1>1, <1>3, <1>5, <1>6, <1>7 DEF TabsOK

(* An input. *)
LEMMA InputOK ==
  ASSUME Typed, NEW kind, Input(kind)
  PROVE  /\ net = <<>> /\ flow = <<>> /\ tabs # <<>> /\ load' = load
         /\ load' \in Loads /\ keys' \in 0 .. load'.keys
         /\ TabOK(Tab) /\ Tab.status # "connecting" /\ active \in 1 .. Len(tabs)
<1>1. keys < load.keys /\ keys' = keys + 1 /\ load' = load
  BY DEF Input
<1>2. load.keys \in Nat /\ keys \in 0 .. load.keys
  BY HttpAssumption DEF Typed, BoundsOK
<1>3. keys' \in 0 .. load'.keys
  BY <1>1, <1>2
<1>4. net = <<>> /\ flow = <<>> /\ tabs # <<>>
  BY DEF Input
<1>5. TabOK(Tab) /\ Tab.status # "connecting" /\ active \in 1 .. Len(tabs)
  BY <1>4 DEF Typed, TabsOK, Tab
<1> QED
  BY <1>1, <1>3, <1>4, <1>5 DEF Typed, BoundsOK

(* The tab that is shown becomes another one that is still a tab, and      *)
(* nothing else that is typed changes.                                     *)
Moves ==
  /\ \E kind : Input(kind)
  /\ \E u : Still(u, Tab) /\ Becomes(u)
  /\ Elsewhere

LEMMA LoadHistoryMoves ==
  ASSUME NEW t, TabOK(t), NEW e
  PROVE  Still(LoadHistory(t, e), t) /\ Still([t EXCEPT !.focus = "history"], t)
BY LoadHistoryOK, FocusOK

LEMMA FormMoves ==
  ASSUME Typed, TypeText \/ TabKey \/ BackTabKey \/ ClickField \/ EscKey
                \/ AddRowKey \/ DeleteRowKey \/ RowKey \/ ToggleComposerMode
  PROVE  Moves
<1>1. CASE TypeText
  <2>1. (\E kind : Input(kind)) /\ Elsewhere
    BY <1>1 DEF TypeText
  <2>2. PICK text \in TypedIn[Tab.field] : Becomes([Type(Tab, text) EXCEPT !.from = <<>>])
    BY <1>1 DEF TypeText
  <2>3. Tab.field # "auth"
    BY <2>2, RequestAssumption
  <2>4. Still([Type(Tab, text) EXCEPT !.from = <<>>], Tab)
    BY <2>1, <2>3, InputOK, TypeTextOK
  <2> QED
    BY <2>1, <2>2, <2>4 DEF Moves
<1>2. CASE TabKey \/ BackTabKey
  <2>1. /\ (\E kind : Input(kind)) /\ Elsewhere
        /\ Becomes(CycleField(Tab)) \/ Becomes(CycleBack(Tab))
    BY <1>2 DEF TabKey, BackTabKey
  <2>2. Still(CycleField(Tab), Tab) /\ Still(CycleBack(Tab), Tab)
    BY <2>1, InputOK, CycleFieldOK
  <2> QED
    BY <2>1, <2>2 DEF Moves
<1>3. CASE ClickField
  <2>1. (\E kind : Input(kind)) /\ Elsewhere
    BY <1>3 DEF ClickField
  <2>2. PICK f \in Drawn(Tab) : Becomes(SetField(Tab, f))
    BY <1>3 DEF ClickField
  <2>3. Still(SetField(Tab, f), Tab)
    BY <2>1, InputOK, SetFieldOK
  <2> QED
    BY <2>1, <2>2, <2>3 DEF Moves
<1>4. CASE EscKey
  <2>1. (\E kind : Input(kind)) /\ Elsewhere
        /\ Becomes([Tab EXCEPT !.focus = "log"])
    BY <1>4 DEF EscKey
  <2>2. Still([Tab EXCEPT !.focus = "log"], Tab)
    BY <2>1, InputOK, FocusOK
  <2> QED
    BY <2>1, <2>2 DEF Moves
<1>5. CASE AddRowKey \/ DeleteRowKey
  <2>1. /\ (\E kind : Input(kind)) /\ Elsewhere
        /\ Becomes(FormAddRow(Tab)) \/ Becomes(FormDeleteRow(Tab))
    BY <1>5 DEF AddRowKey, DeleteRowKey
  <2>2. Still(FormAddRow(Tab), Tab) /\ Still(FormDeleteRow(Tab), Tab)
    BY <2>1, InputOK, FormAddRowOK, FormDeleteRowOK
  <2> QED
    BY <2>1, <2>2 DEF Moves
<1>6. CASE RowKey
  <2>1. (\E kind : Input(kind)) /\ Elsewhere
    BY <1>6 DEF RowKey
  <2>2. PICK down \in BOOLEAN : Becomes(FormRow(Tab, down))
    BY <1>6 DEF RowKey
  <2>3. Still(FormRow(Tab, down), Tab)
    BY <2>1, InputOK, FormRowOK
  <2> QED
    BY <2>1, <2>2, <2>3 DEF Moves
<1>7. CASE ToggleComposerMode
  <2>0. (\E kind : Input(kind)) /\ Elsewhere
    BY <1>7 DEF ToggleComposerMode
  <2>3. PICK hex : hex = ~Tab.hex
    BY Zenon
  <2>4. hex \in BOOLEAN
    BY <2>3
  <2>1. Becomes([Tab EXCEPT !.hex = hex])
    BY <1>7, <2>3, Zenon DEF ToggleComposerMode
  <2>2. Still([Tab EXCEPT !.hex = hex], Tab)
    <3>1. TabOK(Tab)
      BY <2>0, InputOK
    <3> QED
      BY <2>4, <3>1 DEF TabOK, Still, TabFields, Saved
  <2> QED
    BY <2>0, <2>1, <2>2 DEF Moves
<1> QED
  BY <1>1, <1>2, <1>3, <1>4, <1>5, <1>6, <1>7

LEMMA CommandMoves ==
  ASSUME Typed, AuthCommand \/ BodyModeCommand \/ GrpcCommand \/ HistoryCommand \/ ReplayHistory
                \/ LoadRequest \/ LogKey
  PROVE  Moves
<1>1. CASE AuthCommand
  <2>1. (\E kind : Input(kind)) /\ Elsewhere /\ Becomes(CycleAuth(Tab))
    BY <1>1 DEF AuthCommand
  <2>2. Still(CycleAuth(Tab), Tab)
    BY <2>1, InputOK, CycleAuthOK
  <2> QED
    BY <2>1, <2>2 DEF Moves
<1>2. CASE BodyModeCommand \/ GrpcCommand
  <2>1. /\ (\E kind : Input(kind)) /\ Elsewhere
        /\ \/ Becomes([CycleBodyMode(Tab) EXCEPT !.from = <<>>])
           \/ Becomes([ToggleGrpc(Tab) EXCEPT !.from = <<>>])
    BY <1>2 DEF BodyModeCommand, GrpcCommand
  <2>2. /\ Still([CycleBodyMode(Tab) EXCEPT !.from = <<>>], Tab)
        /\ Still([ToggleGrpc(Tab) EXCEPT !.from = <<>>], Tab)
    BY <2>1, InputOK, CycleBodyModeOK, ToggleGrpcOK
  <2> QED
    BY <2>1, <2>2 DEF Moves
<1>3. CASE HistoryCommand
  <2>1. (\E kind : Input(kind)) /\ Elsewhere
    BY <1>3 DEF HistoryCommand
  <2>2. PICK l \in Listings(files, Shown) : Becomes([Tab EXCEPT !.pane = l, !.focus = "history"])
    BY <1>3 DEF HistoryCommand
  <2>3. Cardinality(l) <= Shown
    BY ListingsOK DEF Typed, FilesOK, Entries
  <2>4. Still([Tab EXCEPT !.pane = l, !.focus = "history"], Tab)
    <3>1. TabOK(Tab)
      BY <2>1, InputOK
    <3> QED
      BY <2>3, <3>1 DEF TabOK, Still, TabFields, Saved
  <2> QED
    BY <2>1, <2>2, <2>4 DEF Moves
<1>4. CASE ReplayHistory
  <2>1. (\E kind : Input(kind)) /\ Elsewhere
    BY <1>4 DEF ReplayHistory
  <2>2. PICK u, e : Becomes(u) /\ (u = LoadHistory(Tab, e) \/ u = [Tab EXCEPT !.focus = "history"])
    BY <1>4 DEF ReplayHistory
  <2>3. Still(u, Tab)
    BY <2>1, <2>2, InputOK, LoadHistoryMoves
  <2> QED
    BY <2>1, <2>2, <2>3 DEF Moves
<1>5. CASE LoadRequest
  <2>1. /\ (\E kind : Input(kind)) /\ Elsewhere
        /\ cursor \in DOMAIN col /\ Becomes(LoadSaved(Tab, col[cursor]))
    BY <1>5 DEF LoadRequest
  <2>2. RequestOK(col[cursor])
    BY <2>1, ListShape DEF Typed, CollectionOK
  <2>3. TabOK(Tab)
    BY <2>1, InputOK
  <2>4. PICK saved : saved = col[cursor]
    OBVIOUS
  <2>5. Still(LoadSaved(Tab, saved), Tab)
    BY <2>2, <2>3, <2>4, LoadedOK DEF TabOK
  <2> QED
    BY <2>1, <2>4, <2>5 DEF Moves
<1>6. CASE LogKey
  <2>1. (\E kind : Input(kind)) /\ Elsewhere
    BY <1>6 DEF LogKey
  <2>2. PICK log \in {MoveSelection(Tab.log, d) : d \in {1, -1, 10, -10}}
                  \cup {JumpTop(Tab.log), JumpBottom(Tab.log)}
                  \cup {SelectLogRow(Tab.log, i) : i \in 0 .. MaxFrames} :
          Becomes([Tab EXCEPT !.log = log])
    BY <1>6 DEF LogKey
  <2>3. TabOK(Tab) /\ LogOK(Tab.log)
    BY <2>1, InputOK DEF TabOK
  <2>4. LogOK(log)
    <3>1. {1, -1, 10, -10} \subseteq Int /\ 0 .. MaxFrames \subseteq Nat
      OBVIOUS
    <3> QED
      BY <2>2, <2>3, <3>1, LogKeysOK
  <2>5. Still([Tab EXCEPT !.log = log], Tab)
    BY <2>3, <2>4 DEF TabOK, Still, TabFields, Saved
  <2> QED
    BY <2>1, <2>2, <2>5 DEF Moves
<1> QED
  BY <1>1, <1>2, <1>3, <1>4, <1>5, <1>6

LEMMA MovesTyped == ASSUME Typed, Moves PROVE Typed'
<1>1. PICK kind : Input(kind)
  BY DEF Moves
<1>2. PICK u : Still(u, Tab) /\ Becomes(u)
  BY DEF Moves
<1>3. TabOK(u) /\ u.status # "connecting" /\ tabs # <<>> /\ net = <<>> /\ flow = <<>>
  BY <1>1, <1>2, InputOK DEF Still
<1>4. TabsOK'
  BY <1>2, <1>3, BecomesOK DEF Typed
<1>5. UNCHANGED <<now, jarFile, files, col, cursor, net, flow>>
  BY DEF Moves, Elsewhere, disk, oauth
<1>6. FilesOK' /\ CollectionOK'
  BY <1>5 DEF Typed, FilesOK, CollectionOK
<1>7. AwaitsOK'
  <2>1. net' = <<>> /\ flow' = <<>>
    BY <1>3, <1>5
  <2> QED
    BY <2>1, Nothing DEF AwaitsOK
<1>8. BoundsOK'
  <2>1. load' \in Loads /\ keys' \in 0 .. load'.keys
    BY <1>1, InputOK
  <2> QED
    BY <1>5, <2>1 DEF Typed, BoundsOK
<1> QED
  BY <1>4, <1>6, <1>7, <1>8 DEF Typed

LEMMA CollectionTyped ==
  ASSUME Typed, SaveRequest \/ SelectRequest \/ DeleteRequest
  PROVE  Typed'
<1>1. PICK kind : Input(kind)
  BY DEF SaveRequest, SelectRequest, DeleteRequest
<1>2. /\ net = <<>> /\ flow = <<>> /\ tabs # <<>> /\ load' \in Loads /\ keys' \in 0 .. load'.keys
      /\ TabOK(Tab)
  BY <1>1, InputOK
<1>3. UNCHANGED <<tabs, active, now, jarFile, files, net, flow>>
  BY DEF SaveRequest, SelectRequest, DeleteRequest, oauth, histories
<1>4. /\ IsList(col) /\ (\A i \in 1 .. Len(col) : RequestOK(col[i]))
      /\ Len(col) \in Nat /\ DOMAIN col = 1 .. Len(col) /\ cursor \in 1 .. Len(col) + 1
  BY ListShape DEF Typed, CollectionOK
<1>0. ASSUME NEW s, s = col', IsList(s), \A i \in 1 .. Len(s) : RequestOK(s[i]), cursor' \in 1 .. Len(s) + 1
      PROVE  Typed'
  BY <1>0, <1>2, <1>3 DEF Typed, TabsOK, FilesOK, CollectionOK, AwaitsOK, BoundsOK, Tab
<1>5. CASE SaveRequest
  <2>1. PICK append, written \in BOOLEAN :
          LET new == append \/ cursor \notin DOMAIN col
              with == IF new THEN Append(col, ToSaved(Tab)) ELSE [col EXCEPT ![cursor] = ToSaved(Tab)]
          IN  /\ col' = IF written THEN with ELSE col
              /\ cursor' = IF new THEN Len(with) ELSE cursor
    BY <1>5 DEF SaveRequest
  <2>2. PICK saved : saved = ToSaved(Tab)
    OBVIOUS
  <2>3. RequestOK(saved)
    <3>1. IsForm(Overlaid(Tab))
      BY <1>2, FormShape DEF Overlaid, TabOK
    <3>2. saved.fields = Overlaid(Tab) /\ saved.maxRedirects = Tab.maxRedirects
      BY <2>2 DEF ToSaved, Saved
    <3> QED
      BY <1>2, <3>1, <3>2 DEF RequestOK, TabOK
  <2>4. CASE append \/ cursor \notin DOMAIN col
    <3>1. PICK with : with = Append(col, saved)
      OBVIOUS
    <3>2. IsList(with) /\ Len(with) = Len(col) + 1
      BY <1>4, <3>1, ListShape
    <3>3. \A i \in 1 .. Len(with) : RequestOK(with[i])
      <4>1. PICK S : col \in Seq(S)
        BY <1>4 DEF IsList
      <4>2. \A i \in 1 .. Len(col) + 1 : with[i] = IF i = Len(col) + 1 THEN saved ELSE col[i]
        BY <3>1, <4>1
      <4>3. \A i \in 1 .. Len(col) + 1 : i # Len(col) + 1 => i \in 1 .. Len(col)
        BY <1>4
      <4> QED
        BY <1>4, <2>3, <3>2, <4>2, <4>3
    <3>4. (col' = with \/ col' = col) /\ cursor' = Len(col) + 1
      BY <2>1, <2>2, <2>4, <3>1, <3>2
    <3>5. cursor' \in 1 .. Len(col) + 1 /\ cursor' \in 1 .. Len(with) + 1
      BY <1>4, <3>2, <3>4
    <3> QED
      BY <1>4, <3>2, <3>3, <3>4, <3>5, <1>0
  <2>5. CASE ~(append \/ cursor \notin DOMAIN col)
    <3>1. PICK with : with = [col EXCEPT ![cursor] = saved]
      OBVIOUS
    <3>2. cursor \in 1 .. Len(col) /\ IsList(with) /\ Len(with) = Len(col)
      BY <1>4, <2>5, <3>1, ListShape
    <3>3. \A i \in 1 .. Len(with) : RequestOK(with[i])
      BY <1>4, <2>3, <3>1, <3>2
    <3>4. (col' = with \/ col' = col) /\ cursor' = cursor
      BY <2>1, <2>2, <2>5, <3>1
    <3> QED
      BY <1>4, <3>2, <3>3, <3>4, <1>0
  <2> QED
    BY <2>4, <2>5
<1>6. CASE SelectRequest
  <2>1. col' = col
    BY <1>6 DEF SelectRequest
  <2>2. cursor' = cursor \/ (cursor < Len(col) /\ cursor' = cursor + 1) \/ (cursor > 1 /\ cursor' = cursor - 1)
    BY <1>6 DEF SelectRequest
  <2>3. cursor' \in 1 .. Len(col) + 1
    BY <1>4, <2>2
  <2> QED
    BY <1>4, <2>1, <2>3, <1>0
<1>7. CASE DeleteRequest
  <2>1. cursor \in 1 .. Len(col) /\ col' = RemoveAt(col, cursor)
    BY <1>4, <1>7 DEF DeleteRequest
  <2>2. PICK with : with = RemoveAt(col, cursor)
    OBVIOUS
  <2>3. IsList(with) /\ Len(with) = Len(col) - 1
    BY <1>4, <2>1, <2>2, RemoveShape
  <2>4. \A i \in 1 .. Len(with) : RequestOK(with[i])
    BY <1>4, <2>1, <2>2, <2>3, Without
  <2>5. cursor' = IF cursor > 1 /\ cursor > Len(with) THEN cursor - 1 ELSE cursor
    BY <1>7, <2>1, <2>2 DEF DeleteRequest
  <2>6. cursor' \in 1 .. Len(with) + 1
    BY <1>4, <2>1, <2>3, <2>5
  <2> QED
    BY <2>1, <2>2, <2>3, <2>4, <2>6, <1>0
<1> QED
  BY <1>5, <1>6, <1>7

(* What is not typed about: which fields only carry data. *)
LEMMA CarriedOK ==
  ASSUME NEW t, TabOK(t), NEW x
  PROVE  /\ TabOK([t EXCEPT !.jar = x]) /\ [t EXCEPT !.jar = x].status = t.status
         /\ [t EXCEPT !.jar = x].jar = x /\ Still([t EXCEPT !.auth = x], t)
         /\ [t EXCEPT !.auth = x].auth = x /\ Still([t EXCEPT !.token = x], t)
         /\ TabOK([t EXCEPT !.status = x]) /\ [t EXCEPT !.status = x].status = x
BY DEF TabOK, Still, TabFields, Saved

LEMMA FileOK ==
  ASSUME NEW s, IsList(s), Len(s) <= 1, NEW u, u = s \/ \E j : u = <<j>>
  PROVE  IsList(u) /\ Len(u) <= 1
<1>1. CASE u = s
  BY <1>1
<1>2. ASSUME NEW j, u = <<j>> PROVE IsList(u) /\ Len(u) <= 1
  BY <1>2, Elements
<1> QED
  BY <1>1, <1>2

LEMMA CookiesTyped == ASSUME Typed, CookiesCommand PROVE Typed'
<1>1. PICK kind : Input(kind)
  BY DEF CookiesCommand
<1>2. /\ net = <<>> /\ flow = <<>> /\ tabs # <<>> /\ load' \in Loads /\ keys' \in 0 .. load'.keys
      /\ TabOK(Tab) /\ Tab.status # "connecting"
  BY <1>1, InputOK
<1>3. PICK on \in BOOLEAN :
        /\ Becomes([Tab EXCEPT !.jar.enabled = on])
        /\ jarFile' = jarFile \/ \E j : jarFile' = <<j>>
  BY DEF CookiesCommand, Save
<1>4. UNCHANGED <<now, files, col, cursor, net, flow>>
  BY DEF CookiesCommand, oauth
<1>5. PICK jar : jar = [Tab.jar EXCEPT !.enabled = on]
  OBVIOUS
<1>6. PICK u : u = [Tab EXCEPT !.jar = jar]
  OBVIOUS
<1>7. u = [Tab EXCEPT !.jar.enabled = on]
  BY <1>2, <1>5, <1>6 DEF TabOK, TabFields
<1>8. TabOK(u) /\ u.status # "connecting"
  BY <1>2, <1>6, CarriedOK DEF Still
<1>9. TabsOK'
  BY <1>2, <1>3, <1>7, <1>8, BecomesOK DEF Typed
<1>10. FilesOK' /\ CollectionOK'
  BY <1>4 DEF Typed, FilesOK, CollectionOK
<1>11. AwaitsOK'
  <2>1. net' = <<>> /\ flow' = <<>>
    BY <1>2, <1>4
  <2> QED
    BY <2>1, Nothing DEF AwaitsOK
<1>12. BoundsOK'
  <2>1. IsList(jarFile') /\ Len(jarFile') <= 1
    BY <1>3, FileOK DEF Typed, BoundsOK
  <2> QED
    BY <1>2, <1>4, <2>1 DEF Typed, BoundsOK
<1> QED
  BY <1>9, <1>10, <1>11, <1>12 DEF Typed

LEMMA SendTyped == ASSUME Typed, Send PROVE Typed'
<1>1. PICK kind : Input(kind)
  BY DEF Send
<1>2. /\ net = <<>> /\ flow = <<>> /\ tabs # <<>> /\ load' \in Loads /\ keys' \in 0 .. load'.keys
      /\ TabOK(Tab) /\ Tab.status # "connecting"
  BY <1>1, InputOK
<1>3. PICK t : t = Commit(Tab)
  OBVIOUS
<1>4. TabOK(t) /\ t.status = Tab.status
  BY <1>2, <1>3, CommitOK DEF Still
<1>5. UNCHANGED <<now, jarFile, files, col, cursor, flow>>
  BY DEF Send, disk, oauth
<1>6. \/ \E n : net' = <<n>> /\ Becomes([t EXCEPT !.status = "connecting"])
      \/ net' = net /\ Becomes([t EXCEPT !.status = "error"])
      \/ net' = net /\ Becomes(t)
  BY <1>3 DEF Send
<1>7. PICK u : /\ Becomes(u) /\ TabOK(u)
               /\ \/ net' = net /\ u.status # "connecting"
                  \/ \E n : net' = <<n>>
  <2>1. TabOK([t EXCEPT !.status = "connecting"])
    BY <1>4, CarriedOK
  <2>2. TabOK([t EXCEPT !.status = "error"]) /\ [t EXCEPT !.status = "error"].status = "error"
    BY <1>4, CarriedOK
  <2> QED
    BY <1>2, <1>4, <1>6, <2>1, <2>2
<1>8. IsList(net') /\ Len(net') <= 1 /\ (u.status = "connecting" => net' # <<>>)
  <2>1. CASE net' = net /\ u.status # "connecting"
    BY <1>2, <2>1, Nothing
  <2>2. CASE \E n : net' = <<n>>
    BY <2>2, Elements
  <2> QED
    BY <1>7, <2>1, <2>2
<1>9. TabsOK' /\ tabs' # <<>>
  BY <1>2, <1>7, <1>8, BecomesOK DEF Typed
<1>10. FilesOK' /\ CollectionOK' /\ BoundsOK'
  BY <1>2, <1>5 DEF Typed, FilesOK, CollectionOK, BoundsOK
<1>11. AwaitsOK'
  <2>1. flow' = <<>>
    BY <1>2, <1>5
  <2> QED
    BY <1>8, <1>9, <2>1, Nothing DEF AwaitsOK
<1> QED
  BY <1>9, <1>10, <1>11 DEF Typed

(* While an answer is awaited, for the tab that is shown. *)
LEMMA Awaiting ==
  ASSUME Typed, net # <<>>
  PROVE  flow = <<>> /\ tabs # <<>> /\ TabOK(Tab) /\ active \in 1 .. Len(tabs)
<1>1. flow = <<>> /\ tabs # <<>>
  BY DEF Typed, AwaitsOK
<1> QED
  BY <1>1 DEF Typed, TabsOK, Tab

LEMMA NoAnswerTyped == ASSUME Typed, NoAnswer PROVE Typed'
<1>1. flow = <<>> /\ tabs # <<>> /\ TabOK(Tab)
  BY Awaiting DEF NoAnswer
<1>2. net' = <<>> /\ Becomes([Tab EXCEPT !.status = "error"])
  BY DEF NoAnswer
<1>3. UNCHANGED <<load, keys, now, jarFile, files, col, cursor, flow>>
  BY DEF NoAnswer, disk, oauth, histories
<1>4. PICK u : u = [Tab EXCEPT !.status = "error"]
  OBVIOUS
<1>5. TabOK(u) /\ u.status = "error"
  BY <1>1, <1>4, CarriedOK
<1>6. TabsOK'
  BY <1>1, <1>2, <1>4, <1>5, BecomesOK DEF Typed
<1>7. FilesOK' /\ CollectionOK' /\ BoundsOK'
  BY <1>3 DEF Typed, FilesOK, CollectionOK, BoundsOK
<1>8. AwaitsOK'
  BY <1>1, <1>2, <1>3, Nothing DEF AwaitsOK
<1> QED
  BY <1>6, <1>7, <1>8 DEF Typed

LEMMA RecordedOK ==
  ASSUME Typed, net # <<>>, NEW answer, answer.status \in Nat, NEW jar, NEW follows,
         Recorded(answer, jar, follows), active' = active
  PROVE  TabsOK' /\ FilesOK' /\ net' = <<>>
<1>1. TabOK(Tab) /\ tabs # <<>> /\ active \in 1 .. Len(tabs)
  BY Awaiting
<1>2. PICK entry : /\ files' = files \/ files' = AppendHistory(files, entry, Keep)
                   /\ entry.at = now /\ entry.status = answer.status
  BY DEF Recorded
<1>3. FilesOK' /\ IsFiniteSet(files')
  <2>1. now \in Nat /\ Entries(files) /\ FilesOK
    BY DEF Typed, BoundsOK, FilesOK
  <2>2. CASE files' = files
    BY <2>1, <2>2 DEF FilesOK, Entries
  <2>3. CASE files' = AppendHistory(files, entry, Keep)
    BY <1>2, <2>1, <2>3, AppendHistoryOK DEF FilesOK, Entries
  <2> QED
    BY <1>2, <2>2, <2>3
<1>4. PICK log : log = PushFull(PushFull(Tab.log, MaxFrames, "request"), MaxFrames, "answer")
  OBVIOUS
<1>5. LogOK(log) /\ Len(log.frames) \in Nat \ {0}
  BY <1>1, <1>4, PushFullOK DEF TabOK
<1>6. PICK shown : shown = IF follows /\ log.follow
                           THEN [log EXCEPT !.selected = Len(log.frames) - 1] ELSE log
  OBVIOUS
<1>7. LogOK(shown)
  BY <1>5, <1>6 DEF LogOK
<1>8. PICK l \in Listings(files', Shown) :
        tabs' = [tabs EXCEPT ![active] =
                   [@ EXCEPT !.status = "connected", !.jar = jar, !.pane = l, !.log = shown]]
  BY <1>4, <1>6 DEF Recorded
<1>9. Cardinality(l) <= Shown
  BY <1>3, <1>8, ListingsOK
<1>10. PICK u : u = [Tab EXCEPT !.status = "connected", !.jar = jar, !.pane = l, !.log = shown]
  OBVIOUS
<1>11. TabOK(u) /\ u.status = "connected"
  BY <1>1, <1>7, <1>9, <1>10 DEF TabOK, TabFields, Saved
<1>12. Becomes(u)
  BY <1>8, <1>10 DEF Becomes, Tab
<1> QED
  BY <1>1, <1>3, <1>11, <1>12, BecomesOK DEF Typed, Recorded

LEMMA AnswerTyped == ASSUME Typed, Answer PROVE Typed'
<1>1. flow = <<>> /\ tabs # <<>> /\ net # <<>>
  BY Awaiting DEF Answer
<1>2. UNCHANGED <<load, keys, now, active, flow>>
  BY DEF Answer, oauth
<1>3. PICK answer \in load.answers :
        IF Tab.grpc THEN GrpcAnswer(answer)
        ELSE IF Follows(Head(net).spec, answer, Head(net).hops) THEN Redirected(answer)
        ELSE LastAnswer(answer)
  BY DEF Answer
<1>4. answer.status \in Nat
  BY RequestAssumption DEF Typed, BoundsOK
<1>5. CASE Redirected(answer)
  <2>1. UNCHANGED <<tabs, jarFile, files, col, cursor>> /\ \E n : net' = <<n>>
    BY <1>5 DEF Redirected, disk
  <2>2. IsList(net') /\ Len(net') <= 1 /\ net' # <<>>
    BY <2>1, Elements
  <2>3. TabsOK'
    BY <1>1, <1>2, <2>1, <2>2 DEF Typed, TabsOK
  <2>4. FilesOK' /\ CollectionOK' /\ BoundsOK'
    BY <1>2, <2>1 DEF Typed, FilesOK, CollectionOK, BoundsOK
  <2>5. AwaitsOK'
    BY <1>1, <1>2, <2>1, <2>2, Nothing DEF AwaitsOK
  <2> QED
    BY <2>3, <2>4, <2>5 DEF Typed
<1>6. CASE \E jar, follows : Recorded(answer, jar, follows)
  <2>1. TabsOK' /\ FilesOK' /\ net' = <<>>
    BY <1>1, <1>2, <1>4, <1>6, RecordedOK
  <2>2. UNCHANGED <<col, cursor>> /\ (jarFile' = jarFile \/ \E j : jarFile' = <<j>>)
    <3>1. CASE GrpcAnswer(answer)
      BY <3>1 DEF GrpcAnswer
    <3>2. CASE LastAnswer(answer)
      BY <3>2 DEF LastAnswer, Save
    <3>3. CASE Redirected(answer)
      BY <3>3 DEF Redirected, disk
    <3> QED
      BY <1>3, <3>1, <3>2, <3>3
  <2>3. IsList(jarFile') /\ Len(jarFile') <= 1
    BY <2>2, FileOK DEF Typed, BoundsOK
  <2>4. CollectionOK' /\ BoundsOK'
    BY <1>2, <2>2, <2>3 DEF Typed, CollectionOK, BoundsOK
  <2>5. AwaitsOK'
    BY <1>1, <1>2, <2>1, Nothing DEF AwaitsOK
  <2> QED
    BY <2>1, <2>4, <2>5 DEF Typed
<1> QED
  <2>1. CASE GrpcAnswer(answer)
    <3>1. Recorded(answer, Tab.jar, FALSE)
      BY <2>1 DEF GrpcAnswer
    <3> QED
      BY <1>6, <3>1
  <2>2. CASE LastAnswer(answer)
    <3>1. \E jar : Recorded(answer, jar, TRUE)
      BY <2>2 DEF LastAnswer
    <3> QED
      BY <1>6, <3>1
  <2> QED
    BY <1>3, <1>5, <2>1, <2>2

LEMMA OAuthTyped == ASSUME Typed, OAuthCommand PROVE Typed'
<1>1. PICK kind : Input(kind)
  BY DEF OAuthCommand
<1>2. /\ net = <<>> /\ tabs # <<>> /\ load' \in Loads /\ keys' \in 0 .. load'.keys
      /\ TabOK(Tab) /\ Tab.status # "connecting"
  BY <1>1, InputOK
<1>3. (\E f : flow' = <<f>>) \/ flow' = <<>>
  BY DEF OAuthCommand
<1>4. Becomes([Tab EXCEPT !.auth = "oauth2"])
  BY DEF OAuthCommand
<1>5. UNCHANGED <<now, jarFile, files, col, cursor, net>>
  BY DEF OAuthCommand, disk, histories
<1>6. PICK u : u = [Tab EXCEPT !.auth = "oauth2"]
  OBVIOUS
<1>7. TabOK(u) /\ u.status # "connecting" /\ u.auth = "oauth2"
  <2>1. \A t, x : TabOK(t) => /\ TabOK([t EXCEPT !.auth = x]) /\ [t EXCEPT !.auth = x].auth = x
                             /\ [t EXCEPT !.auth = x].status = t.status
    BY CarriedOK DEF Still
  <2>2. TabOK(u) /\ u.auth = "oauth2" /\ u.status = Tab.status
    BY <1>2, <1>6, <2>1, Zenon
  <2> QED
    BY <1>2, <2>2
<1>8. TabsOK' /\ tabs' # <<>> /\ Tab' = u
  BY <1>2, <1>4, <1>6, <1>7, BecomesOK DEF Typed
<1>9. FilesOK' /\ CollectionOK' /\ BoundsOK'
  BY <1>2, <1>5 DEF Typed, FilesOK, CollectionOK, BoundsOK
<1>10. IsList(flow') /\ Len(flow') <= 1
  BY <1>3, AtMostOne
<1>11. AwaitsOK'
  BY <1>2, <1>5, <1>7, <1>8, <1>10, Nothing DEF AwaitsOK
<1> QED
  BY <1>8, <1>9, <1>11 DEF Typed

LEMMA FlowTyped == ASSUME Typed, RefreshAnswer \/ Callback \/ ExchangeAnswer PROVE Typed'
<1>1. flow # <<>> /\ UNCHANGED <<load, keys, active, now, jarFile, files, col, cursor, net>>
  BY DEF RefreshAnswer, Callback, ExchangeAnswer, Flows, disk, histories
<1>2. net = <<>> /\ tabs # <<>> /\ Tab.auth = "oauth2"
  BY <1>1 DEF Typed, AwaitsOK
<1>3. \/ tabs' = tabs /\ (flow' = <<>> \/ \E f : flow' = <<f>>)
      \/ flow' = <<>> /\ \E token : tabs' = [tabs EXCEPT ![active].token = token]
  BY DEF RefreshAnswer, Callback, ExchangeAnswer, Proceed, GiveUp, Store
<1>4. FilesOK' /\ CollectionOK' /\ BoundsOK'
  BY <1>1 DEF Typed, FilesOK, CollectionOK, BoundsOK
<1>5. CASE tabs' = tabs /\ (flow' = <<>> \/ \E f : flow' = <<f>>)
  <2>0. UNCHANGED <<tabs, active, net>>
    BY <1>1, <1>5
  <2>1. Tab' = Tab
    BY <2>0 DEF Tab
  <2>4. TabsOK'
    BY <2>0 DEF Typed, TabsOK
  <2>2. IsList(flow') /\ Len(flow') <= 1
    BY <1>5, AtMostOne
  <2>3. AwaitsOK'
    BY <1>1, <1>2, <1>5, <2>1, <2>2, Nothing DEF AwaitsOK
  <2> QED
    BY <1>4, <2>3, <2>4 DEF Typed
<1>6. ASSUME flow' = <<>>, NEW token, tabs' = [tabs EXCEPT ![active].token = token] PROVE Typed'
  <2>1. TabOK(Tab) /\ (Tab.status # "connecting") /\ active \in 1 .. Len(tabs)
    BY <1>2 DEF Typed, TabsOK, Tab
  <2>2. PICK u : u = [Tab EXCEPT !.token = token]
    OBVIOUS
  <2>3. TabOK(u) /\ u.status # "connecting"
    BY <2>1, <2>2, CarriedOK DEF Still
  <2>4. Becomes(u)
    BY <1>1, <1>6, <2>2 DEF Becomes, Tab
  <2>5. TabsOK'
    BY <1>2, <2>3, <2>4, BecomesOK DEF Typed
  <2>6. AwaitsOK'
    BY <1>1, <1>2, <1>6, Nothing DEF AwaitsOK
  <2> QED
    BY <1>4, <2>5, <2>6 DEF Typed
<1> QED
  BY <1>3, <1>5, <1>6

LEMMA OpenTabTyped == ASSUME Typed, OpenTab PROVE Typed'
<1>1. PICK l \in Listings(files, Shown) : tabs' = Append(tabs, NewTab(load.request, jarFile, l))
  BY DEF OpenTab
<1>2. /\ keys < load.keys /\ keys' = keys + 1 /\ net = <<>> /\ flow = <<>> /\ Len(tabs) < 2
      /\ active' = Len(tabs')
      /\ UNCHANGED <<load, now, jarFile, files, col, cursor, net, flow>>
  BY DEF OpenTab, disk, oauth
<1>3. PICK t : t = NewTab(load.request, jarFile, l)
  OBVIOUS
<1>4. TabOK(t) /\ t.status # "connecting"
  <2>2. RequestOK(load.request)
    BY RequestsAreOK DEF Typed, BoundsOK
  <2>3. Cardinality(l) <= Shown
    BY ListingsOK DEF Typed, FilesOK, Entries
  <2> QED
    BY <1>3, <2>2, <2>3, NewTabOK
<1>5. TabsOK'
  <2>1. PICK S : tabs \in Seq(S)
    BY DEF Typed, TabsOK, IsList
  <2>2. /\ IsList(tabs') /\ Len(tabs') = Len(tabs) + 1 /\ Len(tabs) \in Nat
    BY <1>1, ListShape DEF Typed, TabsOK
  <2>3. \A i \in 1 .. Len(tabs') : tabs'[i] = IF i = Len(tabs) + 1 THEN t ELSE tabs[i]
    BY <1>1, <1>3, <2>1, <2>2
  <2>4. \A i \in 1 .. Len(tabs') : i # Len(tabs) + 1 => i \in 1 .. Len(tabs)
    BY <2>2
  <2>5. \A i \in 1 .. Len(tabs') : TabOK(tabs'[i]) /\ tabs'[i].status # "connecting"
    BY <1>2, <1>4, <2>3, <2>4 DEF Typed, TabsOK
  <2>6. Len(tabs') <= 2 /\ active' \in 1 .. Len(tabs')
    BY <1>2, <2>2
  <2> QED
    BY <2>2, <2>5, <2>6 DEF TabsOK
<1>6. FilesOK' /\ CollectionOK'
  BY <1>2 DEF Typed, FilesOK, CollectionOK
<1>7. AwaitsOK'
  BY <1>2, Nothing DEF AwaitsOK
<1>8. BoundsOK'
  <2>1. load.keys \in Nat /\ keys \in 0 .. load.keys
    BY HttpAssumption DEF Typed, BoundsOK
  <2>2. keys' \in 0 .. load'.keys
    BY <1>2, <2>1
  <2> QED
    BY <1>2, <2>2 DEF Typed, BoundsOK
<1> QED
  BY <1>5, <1>6, <1>7, <1>8 DEF Typed

LEMMA CloseTabTyped == ASSUME Typed, CloseTab \/ SwitchTab \/ Tick PROVE Typed'
<1>1. PICK kind : Input(kind)
  BY DEF CloseTab, SwitchTab, Tick
<1>2. /\ net = <<>> /\ flow = <<>> /\ tabs # <<>> /\ load' \in Loads /\ keys' \in 0 .. load'.keys
      /\ active \in 1 .. Len(tabs)
  BY <1>1, InputOK
<1>3. UNCHANGED <<jarFile, files, col, cursor, net, flow>>
  BY DEF CloseTab, SwitchTab, Tick, disk, oauth, histories
<1>4. now' \in Nat
  BY DEF CloseTab, SwitchTab, Tick, Typed, BoundsOK
<1>5. IsList(tabs) /\ Len(tabs) \in Nat /\ Len(tabs) <= 2 /\ DOMAIN tabs = 1 .. Len(tabs)
  BY ListShape DEF Typed, TabsOK
<1>6. \A i \in 1 .. Len(tabs) : TabOK(tabs[i]) /\ tabs[i].status # "connecting"
  BY <1>2 DEF Typed, TabsOK
<1>7. TabsOK'
  <2>1. CASE CloseTab
    <3>1. PICK rest : rest = RemoveAt(tabs, active)
      OBVIOUS
    <3>2. IsList(rest) /\ Len(rest) = Len(tabs) - 1
      BY <1>2, <1>5, <3>1, RemoveShape
    <3>3. \A i \in 1 .. Len(rest) : TabOK(rest[i]) /\ rest[i].status # "connecting"
      BY <1>2, <1>5, <1>6, <3>1, <3>2, Without
    <3>4. tabs' = rest /\ active' = IF active > 1 /\ active > Len(rest) THEN active - 1 ELSE active
      BY <2>1, <3>1 DEF CloseTab
    <3>5. rest # <<>> => Len(rest) >= 1
      BY <3>2 DEF IsList
    <3>6. Len(rest) <= 2 /\ (rest # <<>> => active' \in 1 .. Len(rest))
      BY <1>2, <1>5, <3>2, <3>4, <3>5
    <3> QED
      BY <3>2, <3>3, <3>4, <3>6 DEF TabsOK
  <2>2. CASE SwitchTab \/ Tick
    <3>1. tabs' = tabs /\ active' \in 1 .. Len(tabs)
      BY <1>2, <1>5, <2>2 DEF SwitchTab, Tick
    <3> QED
      BY <1>5, <1>6, <3>1 DEF TabsOK
  <2> QED
    BY <2>1, <2>2
<1>8. FilesOK' /\ CollectionOK' /\ BoundsOK'
  BY <1>2, <1>3, <1>4 DEF Typed, FilesOK, CollectionOK, BoundsOK
<1>9. AwaitsOK'
  BY <1>2, <1>3, Nothing DEF AwaitsOK
<1> QED
  BY <1>7, <1>8, <1>9 DEF Typed

LEMMA TypedNext == Typed /\ [Next]_vars => Typed'
<1> SUFFICES ASSUME Typed, [Next]_vars PROVE Typed'
  OBVIOUS
<1>1. CASE UNCHANGED vars
  BY <1>1 DEF vars, ui, disk, oauth, histories, Typed, TabsOK, FilesOK, CollectionOK, AwaitsOK,
              BoundsOK, Tab
<1>2. CASE Next
  BY <1>2, FormMoves, CommandMoves, MovesTyped, CollectionTyped, CookiesTyped, SendTyped,
     NoAnswerTyped, AnswerTyped, OAuthTyped, FlowTyped, OpenTabTyped, CloseTabTyped DEF Next
<1> QED
  BY <1>1, <1>2

LEMMA TypedInvariance == Spec => []Typed
<1> QED
  BY TypedInit, TypedNext, PTL DEF Spec

------------------------------------------------------------------------------
(* Saving and sending. *)
LEMMA OverlaidList ==
  ASSUME NEW t, TabOK(t)
  PROVE  IsList(Overlaid(t))
BY FormShape DEF Overlaid, TabOK

(* Each field that is sent is the same in the tab that is saved and the one *)
(* that it is loaded into, where the row that was edited is one of the rows. *)
LEMMA LoadedAgain ==
  ASSUME NEW t, TabOK(t), DefaultKey(t.key) = t.key, NEW again, again = NewTab(ToSaved(t), <<t.jar>>, {})
  PROVE  /\ \A n \in Saved \ {"fields"} : again[n] = t[n]
         /\ again.jar = t.jar /\ again.hex = FALSE
         /\ Overlaid(again) = Overlaid(t)
<1>1. PICK saved : saved = ToSaved(t)
  OBVIOUS
<1>2. saved.fields = Overlaid(t) /\ \A n \in Saved \ {"fields"} : saved[n] = t[n]
  <2>1. saved = [n \in Saved |-> IF n = "fields" THEN Overlaid(t) ELSE t[n]]
    BY <1>1, Zenon DEF ToSaved
  <2>2. "fields" \in Saved
    BY DEF Saved
  <2> QED
    BY <2>1, <2>2, Zenon
<1>3. DefaultKey(saved.key) = t.key
  <2>1. "key" \in Saved \ {"fields"}
    BY DEF Saved
  <2> QED
    BY <1>2, <2>1, Zenon
<1>4. PICK jar, e, l : jar = t.jar /\ e = NoRow /\ l = NewLog
  OBVIOUS
<1>5. PICK own : own = [focus |-> "form", field |-> "url", row |-> 1, edit |-> e, hex |-> FALSE,
                        jar |-> jar, pane |-> {}, log |-> l, status |-> "idle", from |-> <<>>]
  OBVIOUS
<1>6. PICK u : u = [n \in Saved \cup DOMAIN own |-> IF n \in Saved THEN saved[n] ELSE own[n]]
  OBVIOUS
<1>7. again = LoadSaved(u, saved)
  <2>1. <<t.jar>> # <<>> /\ Head(<<t.jar>>) = t.jar
    BY Elements
  <2>2. (IF <<t.jar>> = <<>> THEN NewJar ELSE Head(<<t.jar>>)) = jar
    BY <1>4, <2>1, Zenon
  <2> QED
    BY <1>1, <1>4, <1>5, <1>6, <2>2, Zenon DEF NewTab
<1>8. PICK key : key = DefaultKey(saved.key)
  OBVIOUS
<1>9. PICK v : v = [n \in DOMAIN u |-> CASE n = "row" -> 1
                             [] n = "key" -> key
                             [] n = "from" -> <<>>
                             [] n \in Saved \ {"key"} -> saved[n]
                             [] OTHER -> u[n]]
  OBVIOUS
<1>10. again = Sync(v)
  <2>1. LoadSaved(u, saved) = Sync(v)
    BY <1>8, <1>9 DEF LoadSaved
  <2> QED
    BY <1>7, <2>1, Zenon
<1>11. DOMAIN u = TabFields
  BY <1>5, <1>6 DEF TabFields
<1>12. v.row = 1
  BY <1>9, <1>11 DEF TabFields, Saved
<1>13. v.jar = u.jar /\ v.hex = u.hex
  BY <1>9, <1>11 DEF TabFields, Saved
<1>14. u.jar = jar /\ u.hex = FALSE
  BY <1>5, <1>6 DEF Saved
<1>15. v.fields = saved.fields
  BY <1>9, <1>11 DEF TabFields, Saved
<1>16. \A n \in Saved \ {"fields", "key"} : v[n] = saved[n]
  BY <1>9, <1>11 DEF TabFields, Saved
<1>17. v.key = key
  BY <1>9, <1>11 DEF TabFields, Saved
<1>18. DOMAIN v = TabFields
  BY <1>9, <1>11
<1>19. PICK edit : edit = IF v.row \in DOMAIN v.fields THEN v.fields[v.row] ELSE NoRow
  OBVIOUS
<1>20. again = [v EXCEPT !.edit = edit]
  BY <1>10, <1>19, Zenon DEF Sync
<1>21. /\ \A n \in TabFields \ {"edit"} : again[n] = v[n]
       /\ again.edit = edit
  BY <1>18, <1>20 DEF TabFields
<1>22. \A n \in Saved \ {"fields"} : again[n] = t[n]
  <2>1. again.key = t.key
    BY <1>3, <1>8, <1>17, <1>21 DEF TabFields, Saved
  <2>2. \A n \in Saved \ {"fields", "key"} : again[n] = t[n]
    <3>1. \A n \in Saved : n \in TabFields \ {"edit"}
      BY DEF TabFields, Saved
    <3> QED
      BY <1>2, <1>16, <1>21, <3>1, Zenon
  <2> QED
    BY <2>1, <2>2, Zenon
<1>23. again.jar = t.jar /\ again.hex = FALSE
  BY <1>4, <1>13, <1>14, <1>21 DEF TabFields, Saved
<1>24. again.row = 1 /\ again.fields = Overlaid(t) /\ again.edit = edit
  BY <1>2, <1>12, <1>15, <1>21 DEF TabFields, Saved
<1>25. Overlaid(again) = again.fields
  <2>1. PICK s : s = again.fields
    OBVIOUS
  <2>2. PICK S : s \in Seq(S)
    BY <1>24, <2>1, OverlaidList DEF IsList
  <2>3. 1 \in DOMAIN s => edit = s[1]
    <3>1. v.fields = s /\ v.row = 1
      BY <1>2, <1>12, <1>15, <1>24, <2>1, Zenon
    <3> QED
      BY <1>19, <3>1, Zenon
  <2>4. 1 \in DOMAIN s => [s EXCEPT ![1] = edit] = s
    <3>1. s = [i \in DOMAIN s |-> s[i]]
      BY <2>2
    <3>2. [s EXCEPT ![1] = edit] = [i \in DOMAIN s |-> IF i = 1 THEN edit ELSE s[i]]
      BY Zenon
    <3>3. SUFFICES ASSUME 1 \in DOMAIN s PROVE [s EXCEPT ![1] = edit] = s
      OBVIOUS
    <3>4. \A i \in DOMAIN s : (IF i = 1 THEN edit ELSE s[i]) = s[i]
      BY <2>3, <3>3
    <3>5. [i \in DOMAIN s |-> IF i = 1 THEN edit ELSE s[i]] = [i \in DOMAIN s |-> s[i]]
      BY <3>4
    <3> QED
      BY <3>1, <3>2, <3>5, Zenon
  <2> QED
    BY <1>24, <2>1, <2>4, Zenon DEF Overlaid
<1> QED
  BY <1>22, <1>23, <1>24, <1>25, Zenon

(* A request that is saved and loaded again is sent as it would have been,  *)
(* with the row that is being edited (to_saved, load_saved, build_spec).    *)
THEOREM SavedSendsTheSame == Spec => []SavedIsWhatIsSent
<1>1. ASSUME NEW t, TabOK(t), ~t.hex, DefaultKey(t.key) = t.key,
             NEW again, again = NewTab(ToSaved(t), <<t.jar>>, {})
      PROVE  Sends(again) = Sends(t) /\ again.grpc = t.grpc
  <2>1. /\ \A n \in Saved \ {"fields"} : again[n] = t[n]
        /\ again.jar = t.jar /\ again.hex = FALSE
        /\ Overlaid(again) = Overlaid(t)
    BY <1>1, LoadedAgain, Zenon
  <2>2. /\ again.method = t.method /\ again.url = t.url /\ again.headers = t.headers
        /\ again.body = t.body /\ again.auth = t.auth /\ again.token = t.token
        /\ again.user = t.user /\ again.pass = t.pass /\ again.key = t.key
        /\ again.value = t.value /\ again.mode = t.mode
    BY <2>1 DEF Saved
  <2>3. /\ again.followRedirects = t.followRedirects /\ again.maxRedirects = t.maxRedirects
        /\ again.variables = t.variables /\ again.operation = t.operation
        /\ again.script = t.script /\ again.grpc = t.grpc
    BY <2>1 DEF Saved
  <2>4. DecodePayload(again.body, again.hex) = DecodePayload(t.body, t.hex)
    <3>1. t.hex = FALSE
      BY <1>1 DEF TabOK
    <3> QED
      BY <2>1, <2>2, <3>1, Zenon
  <2>5. Bodies(again) = Bodies(t)
    BY <2>2, <2>3, <2>4, Zenon DEF Bodies
  <2>6. \A b : Draft(again, b) = Draft(t, b)
    BY <2>1, <2>2, <2>3, Zenon DEF Draft
  <2>7. BuildSpec(again) = BuildSpec(t)
    BY <2>1, <2>4, <2>5, <2>6 DEF BuildSpec
  <2> QED
    BY <2>3, <2>7, Zenon DEF Sends
<1>2. Typed => SavedIsWhatIsSent
  <2> SUFFICES ASSUME Typed PROVE SavedIsWhatIsSent
    OBVIOUS
  <2>1. \A i \in DOMAIN tabs : TabOK(tabs[i])
    BY ListShape DEF Typed, TabsOK
  <2>2. \A key : key # "" => DefaultKey(key) = key
    BY Zenon DEF DefaultKey
  <2> QED
    BY <1>1, <2>1, <2>2, Zenon DEF SavedIsWhatIsSent
<1> QED
  BY <1>2, TypedInvariance, PTL

------------------------------------------------------------------------------
(* Redirects. *)
RequestFields == {"method", "url", "headers", "body"}

Hop(x) ==
  DOMAIN x = {"request", "answer", "location", "limit"} /\ DOMAIN x.request = RequestFields

Forgot(T, i) == \E j \in 1 .. Len(T) : T[j].answer \in 301 .. 303 /\ j < i

FollowsRules(T, i) ==
  /\ T[i].request.headers = T[1].request.headers
  /\ IF Forgot(T, i) THEN T[i].request.method = "GET" /\ T[i].request.body = <<>>
     ELSE T[i].request.method = T[1].request.method /\ T[i].request.body = T[1].request.body

(* The requests and answers of one that was sent. *)
Chain(T) ==
  /\ IsList(T)
  /\ \A i \in 1 .. Len(T) : Hop(T[i]) /\ FollowsRules(T, i)
  /\ \A i \in 1 .. Len(T) - 1 : IsRedirect(T[i].answer)

(* No more redirects are followed than are allowed. *)
Allowed(T) == T[1].limit \in Nat /\ Len(T) <= T[1].limit + 1

(* The request under way is the last one, which is not answered.           *)
UnderWay ==
  /\ DOMAIN Head(net) = {"spec", "request", "hops"}
  /\ Head(net).request = trail[Len(trail)].request
  /\ Head(net).hops = Len(trail) - 1
  /\ trail[1].limit = IF Tab.grpc \/ ~Head(net).spec.followRedirects THEN 0
                      ELSE Head(net).spec.maxRedirects
  /\ trail[Len(trail)].answer = 0

(* Why the chain goes no further. *)
Ended(T) ==
  IsRedirect(T[Len(T)].answer) => T[Len(T)].location = <<>> \/ Len(T) = T[1].limit + 1

Redirecting ==
  /\ Chain(trail)
  /\ trail # <<>> => Allowed(trail)
  /\ IF net # <<>> THEN trail # <<>> /\ UnderWay ELSE trail # <<>> => Ended(trail)

LEMMA OneHop ==
  ASSUME NEW request, DOMAIN request = RequestFields, NEW limit, NEW T,
         T = <<Asked(request, limit)>>
  PROVE  /\ Chain(T) /\ T # <<>> /\ Len(T) = 1 /\ T[1].request = request
         /\ T[1].limit = limit /\ T[1].answer = 0
<1>1. PICK x : x = Asked(request, limit)
  OBVIOUS
<1>2. IsList(T) /\ Len(T) = 1 /\ T # <<>> /\ T[1] = x
  BY <1>1, Elements
<1>3. Hop(x) /\ x.request = request /\ x.limit = limit /\ x.answer = 0
  BY <1>1 DEF Hop, Asked
<1>4. \A i \in 1 .. Len(T) : i = 1 /\ ~Forgot(T, i)
  BY <1>2 DEF Forgot
<1>5. \A i \in 1 .. Len(T) : Hop(T[i]) /\ FollowsRules(T, i)
  BY <1>2, <1>3, <1>4 DEF FollowsRules
<1>6. 1 .. Len(T) - 1 = {}
  BY <1>2
<1> QED
  BY <1>2, <1>3, <1>5, <1>6 DEF Chain

(* The last request is answered. *)
Answers(T, status, location) ==
  [T EXCEPT ![Len(T)] = [@ EXCEPT !.answer = status, !.location = location]]

LEMMA LastHop ==
  ASSUME NEW T, Chain(T), T # <<>>, NEW status, NEW location, NEW U,
         U = Answers(T, status, location)
  PROVE  /\ Chain(U) /\ Len(U) = Len(T) /\ U # <<>> /\ Len(T) \in Nat \ {0}
         /\ U[Len(U)].request = T[Len(T)].request /\ U[Len(U)].answer = status
         /\ U[Len(U)].location = location /\ U[1].limit = T[1].limit
<1>1. IsList(T) /\ Len(T) \in Nat /\ DOMAIN T = 1 .. Len(T) /\ 1 \in 1 .. Len(T)
  BY ListShape DEF Chain
<1>2. PICK n : n = Len(T)
  OBVIOUS
<1>3. n \in 1 .. n /\ n \in Nat \ {0} /\ \A i \in 1 .. n - 1 : i \in 1 .. n /\ i # n
  <2>1. n \in Nat /\ 1 \in 1 .. n
    BY <1>1, <1>2
  <2> QED
    BY <2>1
<1>4. PICK x : x = [T[n] EXCEPT !.answer = status, !.location = location]
  OBVIOUS
<1>5. /\ Hop(x) /\ x.request = T[n].request /\ x.answer = status /\ x.location = location
      /\ x.limit = T[n].limit
  BY <1>2, <1>3, <1>4 DEF Hop, Chain
<1>6. U = [T EXCEPT ![n] = x]
  BY <1>2, <1>4 DEF Answers
<1>7. IsList(U) /\ Len(U) = n
  <2>1. \A y : \A i \in 1 .. Len(T) : IsList([T EXCEPT ![i] = y]) /\ Len([T EXCEPT ![i] = y]) = Len(T)
    BY <1>1, ListShape
  <2>2. n \in 1 .. Len(T)
    BY <1>2, <1>3
  <2>3. IsList([T EXCEPT ![n] = x]) /\ Len([T EXCEPT ![n] = x]) = Len(T)
    BY <2>1, <2>2, Zenon
  <2> QED
    BY <1>2, <1>6, <2>3, Zenon
<1>8. \A i \in 1 .. n : U[i] = IF i = n THEN x ELSE T[i]
  BY <1>1, <1>2, <1>6
<1>9. \A i \in 1 .. n : Hop(U[i]) /\ U[i].request = T[i].request /\ U[i].limit = T[i].limit
  BY <1>2, <1>5, <1>8 DEF Chain
<1>10. ASSUME NEW i \in 1 .. n PROVE Forgot(U, i) <=> Forgot(T, i)
  <2>1. \A j \in 1 .. n : j < i => U[j] = T[j]
    BY <1>3, <1>8
  <2> QED
    BY <1>2, <1>7, <2>1 DEF Forgot
<1>11. ASSUME NEW i \in 1 .. n PROVE FollowsRules(U, i)
  <2>1. FollowsRules(T, i) /\ U[1].request = T[1].request /\ U[i].request = T[i].request
    BY <1>1, <1>2, <1>9 DEF Chain
  <2> QED
    BY <1>10, <2>1 DEF FollowsRules
<1>12. \A i \in 1 .. n - 1 : IsRedirect(U[i].answer)
  BY <1>2, <1>3, <1>8 DEF Chain
<1>13. U # <<>>
  BY <1>3, <1>7, Nothing
<1>14. U[1].limit = T[1].limit
  BY <1>1, <1>2, <1>9
<1> QED
  BY <1>2, <1>3, <1>5, <1>7, <1>8, <1>9, <1>11, <1>12, <1>13, <1>14 DEF Chain

(* A redirect: the next request is made of the last one and its answer.    *)
Extended(U, answer) ==
  Append(U, Asked(NextRequest(U[Len(U)].request, answer), U[1].limit))

LEMMA NextHop ==
  ASSUME NEW U, Chain(U), U # <<>>, NEW answer,
         U[Len(U)].answer = answer.status, IsRedirect(answer.status)
  PROVE  /\ Chain(Extended(U, answer)) /\ Extended(U, answer) # <<>>
         /\ Len(Extended(U, answer)) = Len(U) + 1
         /\ Extended(U, answer)[Len(U) + 1].request = NextRequest(U[Len(U)].request, answer)
         /\ Extended(U, answer)[Len(U) + 1].answer = 0
         /\ Extended(U, answer)[1].limit = U[1].limit
<1>a. Len(U) \in Nat \ {0}
  BY ListShape DEF Chain
<1>b. PICK n \in Nat \ {0} : n = Len(U)
  BY <1>a
<1>1. PICK next, x, V : /\ n = Len(U) /\ next = NextRequest(U[n].request, answer)
                        /\ x = Asked(next, U[1].limit) /\ V = Append(U, x)
  BY <1>b
<1>0. /\ DOMAIN x = {"request", "answer", "location", "limit"} /\ x.request = next
      /\ x.answer = 0
  BY <1>1 DEF Asked
<1>2. PICK S : U \in Seq(S)
  BY DEF Chain, IsList
<1>3. /\ IsList(V) /\ Len(V) = n + 1
  BY <1>1, ListShape DEF Chain
<1>4. \A i \in 1 .. n + 1 : V[i] = IF i = n + 1 THEN x ELSE U[i]
  BY <1>0, <1>1, <1>2
<1>5. /\ n + 1 \in 1 .. n + 1 /\ n \in 1 .. n /\ 1 \in 1 .. n
      /\ \A i \in 1 .. n + 1 : i # n + 1 => i \in 1 .. n
      /\ \A i \in 1 .. n : i \in 1 .. n + 1 /\ i # n + 1
  BY <1>0
<1>6. PICK r : r = U[n].request
  OBVIOUS
<1>7. DOMAIN r = RequestFields
  BY <1>1, <1>5, <1>6 DEF Chain, Hop
<1>8. PICK moved : moved = [r EXCEPT !.url = ResolveLocation(r.url, Head(answer.location))]
  OBVIOUS
<1>9. /\ DOMAIN moved = RequestFields /\ moved.headers = r.headers /\ moved.method = r.method
      /\ moved.body = r.body
  BY <1>7, <1>8 DEF RequestFields
<1>10. next = IF answer.status \in 301 .. 303 THEN [moved EXCEPT !.method = "GET", !.body = <<>>]
              ELSE moved
  BY <1>1, <1>6, <1>8 DEF NextRequest, ApplyRedirectMethod
<1>11. /\ DOMAIN next = RequestFields /\ next.headers = r.headers
       /\ answer.status \in 301 .. 303 => next.method = "GET" /\ next.body = <<>>
       /\ answer.status \notin 301 .. 303 => next.method = r.method /\ next.body = r.body
  BY <1>9, <1>10 DEF RequestFields
<1>12. Hop(x) /\ x.request = next
  BY <1>0, <1>11 DEF Hop
<1>13. ASSUME NEW i \in 1 .. n PROVE Forgot(V, i) <=> Forgot(U, i)
  <2>1. \A j \in 1 .. n + 1 : j < i => j \in 1 .. n /\ V[j] = U[j]
    BY <1>4
  <2>2. \A j \in 1 .. n : j \in 1 .. n + 1 /\ V[j] = U[j]
    BY <1>4, <1>5
  <2> QED
    BY <1>1, <1>3, <2>1, <2>2 DEF Forgot
<1>14. Forgot(V, n + 1) <=> Forgot(U, n) \/ answer.status \in 301 .. 303
  <2>1. \A j \in 1 .. n + 1 : j < n + 1 => j \in 1 .. n /\ V[j] = U[j] /\ (j = n \/ j < n)
    BY <1>4
  <2>2. \A j \in 1 .. n : j \in 1 .. n + 1 /\ V[j] = U[j] /\ j < n + 1
    BY <1>4, <1>5
  <2>3. n \in 1 .. n + 1 /\ V[n].answer = answer.status
    BY <1>1, <1>5, <2>2
  <2>4. ASSUME Forgot(V, n + 1) PROVE Forgot(U, n) \/ answer.status \in 301 .. 303
    <3>1. PICK j \in 1 .. n + 1 : V[j].answer \in 301 .. 303 /\ j < n + 1
      BY <1>3, <2>4 DEF Forgot
    <3>2. CASE j = n
      BY <2>3, <3>1, <3>2
    <3>3. CASE j < n
      BY <1>1, <2>1, <3>1, <3>3 DEF Forgot
    <3> QED
      BY <2>1, <3>1, <3>2, <3>3
  <2>5. ASSUME Forgot(U, n) PROVE Forgot(V, n + 1)
    BY <1>1, <1>3, <2>2, <2>5 DEF Forgot
  <2>6. ASSUME answer.status \in 301 .. 303 PROVE Forgot(V, n + 1)
    BY <1>3, <2>2, <2>3, <2>6, <1>5 DEF Forgot
  <2> QED
    BY <2>4, <2>5, <2>6
<1>15. V[1] = U[1] /\ V[n + 1] = x
  BY <1>4, <1>5
<1>16. ASSUME NEW i \in 1 .. n PROVE FollowsRules(V, i) /\ Hop(V[i])
  <2>1. V[i] = U[i]
    BY <1>4, <1>5
  <2> QED
    BY <1>1, <1>13, <1>15, <2>1 DEF FollowsRules, Chain
<1>17. FollowsRules(V, n + 1)
  <2>1. FollowsRules(U, n)
    BY <1>1, <1>5 DEF Chain
  <2> QED
    BY <1>6, <1>11, <1>12, <1>14, <1>15, <2>1 DEF FollowsRules
<1>18. \A i \in 1 .. n + 1 : FollowsRules(V, i) /\ Hop(V[i])
  BY <1>5, <1>12, <1>15, <1>16, <1>17
<1>19. \A i \in 1 .. n : IsRedirect(V[i].answer)
  <2>1. \A i \in 1 .. n : i \in 1 .. n - 1 \/ i = n
    OBVIOUS
  <2>2. \A i \in 1 .. n : V[i] = U[i]
    BY <1>4, <1>5
  <2> QED
    BY <1>1, <2>1, <2>2 DEF Chain
<1>20. V # <<>> /\ Len(V) - 1 = n
  BY <1>0, <1>3, Nothing
<1>21. Chain(V)
  BY <1>3, <1>18, <1>19, <1>20 DEF Chain
<1>22. Extended(U, answer) = V
  BY <1>1 DEF Extended
<1> QED
  BY <1>0, <1>1, <1>3, <1>12, <1>15, <1>20, <1>21, <1>22

LEMMA ChainInit == Init => Redirecting
<1> SUFFICES ASSUME Init PROVE Redirecting
  OBVIOUS
<1>1. trail = <<>> /\ net = <<>>
  BY DEF Init
<1>2. IsList(<<>>) /\ 1 .. Len(<<>>) = {} /\ 1 .. Len(<<>>) - 1 = {}
  BY Nothing
<1>3. Chain(<<>>)
  BY <1>2 DEF Chain
<1> QED
  BY <1>1, <1>3 DEF Redirecting

(* How many redirects are followed is what the tab says.                   *)
Limited(s, t) == "maxRedirects" \in DOMAIN s /\ s.maxRedirects = t.maxRedirects

LEMMA SendsLimited ==
  ASSUME NEW t, NEW s \in Sends(t)
  PROVE  Limited(s, t)
<1>1. ASSUME NEW b PROVE Limited(Draft(t, b), t)
  BY DEF Draft, Limited
<1>2. ASSUME NEW d, Limited(d, t), NEW env PROVE Limited(SubstituteSpec(env, d), t)
  BY <1>2 DEF SubstituteSpec, Limited
<1>3. ASSUME NEW d, Limited(d, t) PROVE Limited(WithRows(d), t)
  BY <1>3 DEF WithRows, Limited
<1>4. ASSUME NEW d, Limited(d, t), NEW jar PROVE Limited(WithCookie(jar, d), t)
  BY <1>4 DEF WithCookie, Limited
<1>5. ASSUME NEW d \in BuildSpec(t) PROVE Limited(d, t)
  <2>1. PICK b : d = WithCookie(t.jar, WithRows(SubstituteSpec(load.env, Draft(t, b))))
    BY <1>5 DEF BuildSpec
  <2> QED
    BY <1>1, <1>2, <1>3, <1>4, <2>1
<1>6. ASSUME NEW d, Limited(d, t), NEW script, NEW e \in RunPreScript(script, d) PROVE Limited(e, t)
  <2>1. e = d \/ \E q, h : e = [d EXCEPT !.url.query = q, !.headers = h]
    BY <1>6 DEF RunPreScript
  <2> QED
    BY <1>6, <2>1 DEF Limited
<1> QED
  BY <1>5, <1>6 DEF Sends

LEMMA SendChain == ASSUME Typed, Send PROVE Redirecting' \/ UNCHANGED <<net, trail>>
<1>1. PICK kind : Input(kind)
  BY DEF Send
<1>2. net = <<>> /\ tabs # <<>> /\ TabOK(Tab)
  BY <1>1, InputOK
<1>3. PICK t : t = Commit(Tab)
  OBVIOUS
<1>4. TabOK(t)
  BY <1>2, <1>3, CommitOK DEF Still
<1>5. CASE \E s \in Sends(t) : s.url.at \in DOMAIN UrlOf
  <2>1. PICK s \in Sends(t) :
          LET whole == IF t.grpc THEN [ApplyAuth(s) EXCEPT !.method = "POST"]
                       ELSE WithForm(ApplyAuth(s))
              request == OnWire(whole)
          IN  /\ net' = <<[spec |-> IF t.grpc THEN ApplyAuth(s) ELSE s,
                           request |-> request, hops |-> 0]>>
              /\ trail' = <<Asked(request, IF t.grpc \/ ~s.followRedirects THEN 0
                                           ELSE s.maxRedirects)>>
              /\ Becomes([t EXCEPT !.status = "connecting"])
    BY <1>3, <1>5 DEF Send
  <2>2. PICK whole : whole = IF t.grpc THEN [ApplyAuth(s) EXCEPT !.method = "POST"]
                             ELSE WithForm(ApplyAuth(s))
    OBVIOUS
  <2>3. PICK request : request = OnWire(whole)
    OBVIOUS
  <2>4. PICK spec : spec = IF t.grpc THEN ApplyAuth(s) ELSE s
    OBVIOUS
  <2>5. PICK h : h = [spec |-> spec, request |-> request, hops |-> 0]
    OBVIOUS
  <2>6. PICK u : u = [t EXCEPT !.status = "connecting"]
    OBVIOUS
  <2>0. PICK limit : limit = IF t.grpc \/ ~s.followRedirects THEN 0 ELSE s.maxRedirects
    OBVIOUS
  <2>7. net' = <<h>> /\ trail' = <<Asked(request, limit)>> /\ Becomes(u)
    BY <2>0, <2>1, <2>2, <2>3, <2>4, <2>5, <2>6
  <2>8. DOMAIN request = RequestFields
    BY <2>3 DEF OnWire, RequestFields
  <2>9. /\ Chain(trail') /\ trail' # <<>> /\ Len(trail') = 1 /\ trail'[1].request = request
        /\ trail'[1].limit = limit /\ trail'[1].answer = 0
    BY <2>7, <2>8, OneHop
  <2>10. Tab' = u /\ u.grpc = t.grpc
    <3>1. active \in DOMAIN tabs /\ active' = active /\ tabs' = [tabs EXCEPT ![active] = u]
      BY <1>2, <2>7, ListShape DEF Typed, TabsOK, Becomes
    <3>2. Tab' = u
      BY <3>1 DEF Tab
    <3> QED
      BY <1>4, <2>6, <3>2 DEF TabOK, TabFields, Saved
  <2>11. Head(net') = h
    BY <2>7, Elements
  <2>12. limit \in Nat
    <3>1. s.maxRedirects \in Nat
      BY <1>4, SendsLimited DEF Limited, TabOK
    <3> QED
      BY <2>0, <3>1
  <2>15. limit = IF t.grpc \/ ~spec.followRedirects THEN 0 ELSE spec.maxRedirects
    BY <2>0, <2>4
  <2>16. Allowed(trail')
    BY <2>9, <2>12 DEF Allowed
  <2>17. net' # <<>>
    BY <2>7, Elements
  <2>13. DOMAIN h = {"spec", "request", "hops"} /\ h.request = request /\ h.hops = 0 /\ h.spec = spec
    BY <2>5
  <2>14. UnderWay'
    BY <2>9, <2>10, <2>11, <2>13, <2>15 DEF UnderWay
  <2> QED
    BY <2>9, <2>14, <2>16, <2>17 DEF Redirecting
<1>6. CASE ~(\E s \in Sends(t) : s.url.at \in DOMAIN UrlOf)
  BY <1>3, <1>6 DEF Send
<1> QED
  BY <1>5, <1>6

LEMMA AnswerChain == ASSUME Typed, Redirecting, Answer PROVE Redirecting'
<1>1. net # <<>> /\ UNCHANGED active
  BY DEF Answer
<1>2. Chain(trail) /\ trail # <<>> /\ UnderWay /\ Allowed(trail)
  BY <1>1 DEF Redirecting
<1>3. PICK answer \in load.answers :
        IF Tab.grpc THEN GrpcAnswer(answer)
        ELSE IF Follows(Head(net).spec, answer, Head(net).hops) THEN Redirected(answer)
        ELSE LastAnswer(answer)
  BY DEF Answer
<1>4. PICK T, status, location : T = trail /\ status = answer.status /\ location = answer.location
  OBVIOUS
<1>5. PICK U : U = Answers(T, status, location)
  OBVIOUS
<1>6. /\ Chain(U) /\ Len(U) = Len(T) /\ U # <<>> /\ Len(T) \in Nat \ {0}
      /\ U[Len(U)].request = T[Len(T)].request /\ U[Len(U)].answer = status
      /\ U[Len(U)].location = location /\ U[1].limit = T[1].limit
  <2>1. Chain(T) /\ T # <<>>
    BY <1>2, <1>4
  <2> QED
    BY <1>5, <2>1, LastHop
<1>7. Answered(answer) = U
  BY <1>4, <1>5 DEF Answered, Answers
<1>10. Allowed(U)
  BY <1>2, <1>4, <1>6 DEF Allowed
<1>8. CASE ~Tab.grpc /\ Follows(Head(net).spec, answer, Head(net).hops)
  <2>1. Redirected(answer)
    BY <1>3, <1>8
  <2>2. PICK h : h = Head(net)
    OBVIOUS
  <2>3. /\ DOMAIN h = {"spec", "request", "hops"} /\ h.request = U[Len(U)].request
        /\ h.hops = Len(T) - 1
    BY <1>2, <1>4, <1>6, <1>8, <2>2 DEF UnderWay
  <2>4. IsRedirect(answer.status) /\ h.hops < h.spec.maxRedirects /\ h.spec.followRedirects
    BY <1>8, <2>2 DEF Follows
  <2>14. U[1].limit = h.spec.maxRedirects /\ h.spec.maxRedirects \in Nat
    BY <1>2, <1>4, <1>6, <1>8, <2>2, <2>4 DEF UnderWay, Allowed
  <2>5. PICK next, V : next = NextRequest(h.request, answer) /\ V = Extended(U, answer)
    OBVIOUS
  <2>6. V = Append(U, Asked(next, trail[1].limit))
    BY <1>4, <1>6, <2>3, <2>5 DEF Extended
  <2>7. /\ Chain(V) /\ V # <<>> /\ Len(V) = Len(U) + 1 /\ V[Len(U) + 1].request = next
        /\ V[Len(U) + 1].answer = 0 /\ V[1].limit = U[1].limit
    BY <1>4, <1>6, <2>3, <2>4, <2>5, NextHop
  <2>8. PICK g : g = [h EXCEPT !.request = next, !.hops = h.hops + 1]
    OBVIOUS
  <2>9. trail' = V /\ net' = <<g>> /\ tabs' = tabs
    BY <1>7, <2>1, <2>2, <2>5, <2>6, <2>8 DEF Redirected
  <2>10. Head(net') = g /\ Tab' = Tab /\ net' # <<>>
    BY <1>1, <2>9, Elements DEF Tab
  <2>11. /\ DOMAIN g = {"spec", "request", "hops"} /\ g.request = next /\ g.hops = h.hops + 1
         /\ g.spec = h.spec
    BY <2>3, <2>8
  <2>12. g.hops = Len(V) - 1 /\ Len(V) <= V[1].limit + 1
    BY <1>6, <2>3, <2>4, <2>7, <2>11, <2>14
  <2>13. UnderWay'
    BY <1>6, <1>8, <2>3, <2>4, <2>7, <2>9, <2>10, <2>11, <2>12, <2>14 DEF UnderWay
  <2>15. Allowed(V)
    BY <2>7, <2>12, <2>14 DEF Allowed
  <2> QED
    BY <2>7, <2>9, <2>10, <2>13, <2>15 DEF Redirecting
<1>9. CASE ~(~Tab.grpc /\ Follows(Head(net).spec, answer, Head(net).hops))
  <2>1. \E jar, follows : Recorded(answer, jar, follows)
    <3>1. CASE GrpcAnswer(answer)
      BY <3>1 DEF GrpcAnswer
    <3>2. CASE LastAnswer(answer)
      BY <3>2 DEF LastAnswer
    <3> QED
      BY <1>3, <1>9, <3>1, <3>2
  <2>2. net' = <<>> /\ trail' = U
    BY <1>7, <2>1 DEF Recorded
  <2>3. PICK h : h = Head(net)
    OBVIOUS
  <2>4. /\ h.hops = Len(T) - 1 /\ Len(T) <= U[1].limit + 1 /\ U[1].limit \in Nat
        /\ U[1].limit = IF Tab.grpc \/ ~h.spec.followRedirects THEN 0 ELSE h.spec.maxRedirects
    BY <1>2, <1>4, <1>6, <2>3 DEF UnderWay, Allowed
  <2>5. ASSUME IsRedirect(status), location # <<>> PROVE Len(T) = U[1].limit + 1
    <3>1. CASE Tab.grpc \/ ~h.spec.followRedirects
      BY <1>6, <2>4, <3>1
    <3>2. CASE ~(Tab.grpc \/ ~h.spec.followRedirects)
      <4>1. ~(h.hops < h.spec.maxRedirects)
        BY <1>4, <1>9, <2>3, <2>5, <3>2 DEF Follows
      <4> QED
        BY <1>6, <2>4, <3>2, <4>1
    <3> QED
      BY <3>1, <3>2
  <2>6. Ended(U)
    BY <1>6, <2>5 DEF Ended
  <2> QED
    BY <1>6, <1>10, <2>2, <2>6 DEF Redirecting
<1> QED
  BY <1>8, <1>9

LEMMA NoAnswerChain == ASSUME Redirecting, NoAnswer PROVE Redirecting'
<1>1. net # <<>> /\ net' = <<>> /\ trail' = trail
  BY DEF NoAnswer, histories
<1>2. trail # <<>> /\ UnderWay
  BY <1>1 DEF Redirecting
<1>3. Ended(trail)
  BY <1>2 DEF Ended, UnderWay, IsRedirect
<1> QED
  BY <1>1, <1>2, <1>3 DEF Redirecting

LEMMA ChainNext == Typed /\ Redirecting /\ [Next]_vars => Redirecting'
<1> SUFFICES ASSUME Typed, Redirecting, [Next]_vars PROVE Redirecting'
  OBVIOUS
<1>1. CASE Send
  <2>1. net = <<>>
    BY <1>1 DEF Send, Input
  <2>2. UNCHANGED <<net, trail>> => Redirecting'
    BY <2>1 DEF Redirecting
  <2> QED
    BY <1>1, <2>2, SendChain
<1>2. CASE Answer
  BY <1>2, AnswerChain
<1>3. CASE NoAnswer
  BY <1>3, NoAnswerChain
<1>4. CASE OpenTab
  BY <1>4 DEF OpenTab, Redirecting
<1>5. CASE RefreshAnswer \/ Callback \/ ExchangeAnswer
  <2>1. net = <<>>
    BY <1>5 DEF RefreshAnswer, Callback, ExchangeAnswer, Flows, Typed, AwaitsOK
  <2> QED
    BY <1>5, <2>1 DEF RefreshAnswer, Callback, ExchangeAnswer, Flows, histories, Redirecting
<1>6. CASE \E kind : Input(kind) /\ UNCHANGED <<net, trail>>
  BY <1>6 DEF Input, Redirecting
<1>7. CASE UNCHANGED vars
  BY <1>7 DEF vars, ui, histories, Redirecting, UnderWay, Tab
<1>8. TypeText \/ TabKey \/ BackTabKey \/ ClickField \/ EscKey \/ AddRowKey \/ DeleteRowKey \/ RowKey
        \/ ToggleComposerMode \/ AuthCommand \/ BodyModeCommand \/ GrpcCommand \/ HistoryCommand
        \/ ReplayHistory \/ LoadRequest \/ LogKey
      => \E kind : Input(kind) /\ UNCHANGED <<net, trail>>
  BY FormMoves, CommandMoves DEF Moves, Elsewhere
<1>9. CookiesCommand \/ SaveRequest \/ SelectRequest \/ DeleteRequest \/ OAuthCommand \/ CloseTab
        \/ SwitchTab \/ Tick
      => \E kind : Input(kind) /\ UNCHANGED <<net, trail>>
  BY DEF CookiesCommand, SaveRequest, SelectRequest, DeleteRequest, OAuthCommand, CloseTab,
         SwitchTab, Tick, histories
<1> QED
  BY <1>1, <1>2, <1>3, <1>4, <1>5, <1>6, <1>7, <1>8, <1>9 DEF Next

(* Over a whole chain of redirects the headers are kept, and the method and *)
(* the body until a 301, 302 or 303; all but its last answer are redirects, *)
(* and there are never more than the limit.  When it is over, its last      *)
(* answer is no redirect, says not where to, or is at the limit             *)
(* (send_request).                                                          *)
THEOREM RedirectsKeepTheRules == Spec => []RedirectsFollowed
<1>1. Redirecting => RedirectsFollowed
  <2> SUFFICES ASSUME Redirecting, trail # <<>> PROVE RedirectsFollowed
    BY DEF RedirectsFollowed
  <2>1. Chain(trail)
    BY DEF Redirecting
  <2>2. DOMAIN trail = 1 .. Len(trail) /\ Len(trail) \in Nat
    BY <2>1, ListShape DEF Chain
  <2>3. ASSUME NEW i \in DOMAIN trail
        PROVE  /\ trail[i].request.headers = trail[1].request.headers
               /\ IF \E j \in {k \in DOMAIN trail : trail[k].answer \in 301 .. 303} : j < i
                  THEN trail[i].request.method = "GET" /\ trail[i].request.body = <<>>
                  ELSE /\ trail[i].request.method = trail[1].request.method
                       /\ trail[i].request.body = trail[1].request.body
    BY <2>1, <2>2 DEF Chain, FollowsRules, Forgot
  <2>4. Len(trail) <= trail[1].limit + 1
    BY DEF Redirecting, Allowed
  <2>5. \A i \in 1 .. Len(trail) - 1 : IsRedirect(trail[i].answer)
    BY <2>1 DEF Chain
  <2>6. net = <<>> /\ IsRedirect(trail[Len(trail)].answer)
          => trail[Len(trail)].location = <<>> \/ Len(trail) = trail[1].limit + 1
    BY DEF Redirecting, Ended
  <2> QED
    BY <2>3, <2>4, <2>5, <2>6 DEF RedirectsFollowed
<1> QED
  BY <1>1, ChainInit, ChainNext, TypedInvariance, PTL DEF Spec

------------------------------------------------------------------------------
(* Authorization.  The refresh token that is stored is the client's in the  *)
(* file, unless it was borrowed, and a refresh is under way with it.        *)
Nobody == ""

Own == tokens.refresh \subseteq {tokens.client}

Refreshing ==
  /\ tokens.client = Nobody => tokens.refresh = {}
  /\ ~borrowed => Own
  /\ flow # <<>> => /\ DOMAIN Head(flow) = {"phase", "cfg"}
                    /\ Head(flow).cfg.client # Nobody
                    /\ Head(flow).phase = "refresh" => Refreshable(tokens, Head(flow).cfg)

LEMMA RefreshingInit == Init => Refreshing
<1>1. NoTokens.refresh = {}
  <2>1. \A client, access : [refresh |-> {}, client |-> client, access |-> access].refresh = {}
    OBVIOUS
  <2> QED
    BY <2>1, Zenon DEF NoTokens
<1> QED
  BY <1>1 DEF Init, Refreshing, Own

LEMMA StoreRefreshing ==
  ASSUME Refreshing, flow # <<>>, NEW grant \in Grants(Head(flow).cfg.client), Store(grant)
  PROVE  Refreshing'
<1>1. PICK c : c = Head(flow).cfg.client
  OBVIOUS
<1>2. c # Nobody /\ flow' = <<>> /\ grant.refresh \in {{}, {c}}
  <2>1. PICK access : \E r \in {{}, {c}} : grant = [access |-> access, refresh |-> r]
    BY <1>1, Zenon DEF Grants
  <2> QED
    BY <1>1, <2>1 DEF Refreshing, Store
<1>3. PICK written \in BOOLEAN :
        /\ tokens' = IF written THEN Granted(tokens, Head(flow).cfg, grant) ELSE tokens
        /\ borrowed' = IF ~written THEN borrowed
                       ELSE /\ grant.refresh = {} /\ tokens.refresh # {}
                            /\ borrowed \/ tokens.client # Head(flow).cfg.client
  BY DEF Store
<1>4. CASE ~written
  BY <1>2, <1>3, <1>4 DEF Refreshing, Own
<1>5. CASE written
  <2>1. /\ tokens'.client = c
        /\ tokens'.refresh = IF grant.refresh # {} THEN grant.refresh ELSE tokens.refresh
    BY <1>1, <1>3, <1>5 DEF Granted
  <2>2. ASSUME ~borrowed' PROVE tokens'.refresh \subseteq {c}
    <3>1. CASE grant.refresh # {}
      BY <1>2, <2>1, <3>1
    <3>2. CASE grant.refresh = {}
      <4>1. tokens.refresh = {} \/ (~borrowed /\ tokens.client = c)
        BY <1>1, <1>3, <1>5, <2>2, <3>2
      <4> QED
        BY <2>1, <3>2, <4>1 DEF Refreshing, Own
    <3> QED
      BY <3>1, <3>2
  <2> QED
    BY <1>2, <2>1, <2>2 DEF Refreshing, Own
<1> QED
  BY <1>4, <1>5

LEMMA RefreshingNext == Refreshing /\ [Next]_vars => Refreshing'
<1> SUFFICES ASSUME Refreshing, [Next]_vars PROVE Refreshing'
  OBVIOUS
<1>1. CASE RefreshAnswer \/ Callback \/ ExchangeAnswer
  <2>1. flow # <<>>
    BY <1>1 DEF RefreshAnswer, Callback, ExchangeAnswer, Flows
  <2>2. \/ \E phase \in {"browser", "exchange"} : Proceed(phase)
        \/ GiveUp
        \/ \E grant \in Grants(Head(flow).cfg.client) : Store(grant)
    BY <1>1 DEF RefreshAnswer, Callback, ExchangeAnswer
  <2>3. ASSUME NEW phase \in {"browser", "exchange"}, Proceed(phase) PROVE Refreshing'
    <3>1. PICK f : f = Head(flow)
      OBVIOUS
    <3>2. PICK g : g = [f EXCEPT !.phase = phase]
      OBVIOUS
    <3>3. flow' = <<g>> /\ UNCHANGED <<tokens, borrowed>>
      BY <2>3, <3>1, <3>2 DEF Proceed
    <3>4. DOMAIN g = {"phase", "cfg"} /\ g.cfg = f.cfg /\ g.phase = phase /\ f.cfg.client # Nobody
      BY <2>1, <3>1, <3>2 DEF Refreshing
    <3>5. Head(flow') = g
      BY <3>3, Elements
    <3> QED
      BY <2>3, <3>3, <3>4, <3>5 DEF Refreshing, Own
  <2>4. CASE GiveUp
    BY <2>4 DEF GiveUp, Refreshing, Own
  <2> QED
    BY <2>1, <2>2, <2>3, <2>4, StoreRefreshing
<1>2. CASE OAuthCommand
  <2>1. PICK cfg : cfg = [client |-> Tab.user, auth |-> Tab.key, token |-> Tab.value]
    OBVIOUS
  <2>2. PICK phase : phase = IF Refreshable(tokens, cfg) THEN "refresh" ELSE "browser"
    OBVIOUS
  <2>3. PICK f : f = [phase |-> phase, cfg |-> cfg]
    OBVIOUS
  <2>4. flow' = (IF Complete(cfg) THEN <<f>> ELSE <<>>) /\ UNCHANGED <<tokens, borrowed>>
    BY <1>2, <2>1, <2>2, <2>3 DEF OAuthCommand
  <2>5. DOMAIN f = {"phase", "cfg"} /\ f.phase = phase /\ f.cfg = cfg
    BY <2>3
  <2>6. Complete(cfg) => cfg.client # Nobody
    BY Zenon DEF Complete, Nobody
  <2>7. Head(<<f>>) = f
    BY Elements
  <2> QED
    BY <2>2, <2>4, <2>5, <2>6, <2>7 DEF Refreshing, Own
<1>3. UNCHANGED <<tokens, borrowed, flow>> => Refreshing'
  BY DEF Refreshing, Own
<1>4. CASE UNCHANGED vars
  BY <1>3, <1>4 DEF vars, oauth
<1>5. TypeText \/ TabKey \/ BackTabKey \/ ClickField \/ EscKey \/ AddRowKey \/ DeleteRowKey \/ RowKey
        \/ ToggleComposerMode \/ AuthCommand \/ BodyModeCommand \/ GrpcCommand \/ HistoryCommand
        \/ ReplayHistory \/ LoadRequest \/ LogKey
      => UNCHANGED <<tokens, borrowed, flow>>
  BY DEF TypeText, TabKey, BackTabKey, ClickField, EscKey, AddRowKey, DeleteRowKey, RowKey,
         ToggleComposerMode, AuthCommand, BodyModeCommand, GrpcCommand, HistoryCommand,
         ReplayHistory, LoadRequest, LogKey, Elsewhere, oauth
<1>6. CookiesCommand \/ SaveRequest \/ SelectRequest \/ DeleteRequest \/ CloseTab
        \/ SwitchTab \/ Tick \/ Send \/ NoAnswer \/ Answer \/ OpenTab
      => UNCHANGED <<tokens, borrowed, flow>>
  BY DEF CookiesCommand, SaveRequest, SelectRequest, DeleteRequest, CloseTab,
         SwitchTab, Tick, Send, NoAnswer, Answer, OpenTab, oauth
<1> QED
  BY <1>1, <1>2, <1>3, <1>4, <1>5, <1>6 DEF Next

(* A refresh presents the token that was given to the client that asks for *)
(* it, whatever refreshes, callbacks, exchanges and writes of oauth.toml    *)
(* failed before and whichever clients were authorized in between, while    *)
(* the token in the file is not one that another client left there          *)
(* (start_oauth_flow, save_oauth_store).                                    *)
THEOREM RefreshesForItsClient == Spec => []RefreshesItsOwn
<1>1. Refreshing => RefreshesItsOwn
  <2> SUFFICES ASSUME Refreshing, ~borrowed, flow # <<>>, Head(flow).phase = "refresh"
               PROVE  tokens.refresh = {Head(flow).cfg.client}
    BY DEF RefreshesItsOwn, RefreshedForThisClient
  <2>0. Refreshable(tokens, Head(flow).cfg)
    BY DEF Refreshing
  <2>1. tokens.refresh # {} /\ tokens.client \in {Nobody, Head(flow).cfg.client}
    BY <2>0, Zenon DEF Refreshable, Nobody
  <2>2. tokens.client = Head(flow).cfg.client
    BY <2>1 DEF Refreshing
  <2> QED
    BY <2>1, <2>2 DEF Refreshing, Own
<1> QED
  BY <1>1, RefreshingInit, RefreshingNext, PTL DEF Spec

------------------------------------------------------------------------------
(* The rows of a form, as the operator sees them: those of the list, with   *)
(* the editor in place of the row that is edited.  Outside of the form the  *)
(* editor agrees with the list, unless there is no form to come back to     *)
(* before the row is put back (LoadHistory leaves mode "raw").              *)
Committed(t) == t.row \in DOMAIN t.fields => t.fields[t.row] = t.edit

Holds(t, rows) == t.fields = rows /\ Committed(t)

Shows(t, rows) ==
  /\ Commit(t).fields = rows
  /\ t.field # "form" /\ t.mode # "raw" => Committed(t)

Alike(u, t) == u.fields = t.fields /\ u.row = t.row /\ u.edit = t.edit

Placed(u, t) == u.field = t.field /\ u.mode = t.mode

LEMMA CommitShape ==
  ASSUME NEW t, TabOK(t)
  PROVE  /\ Commit(t).fields = IF t.row \in DOMAIN t.fields
                               THEN [t.fields EXCEPT ![t.row] = t.edit] ELSE t.fields
         /\ Commit(t).row = t.row /\ Commit(t).edit = t.edit /\ Placed(Commit(t), t)
<1>1. CASE t.row \in DOMAIN t.fields
  <2>1. PICK s : s = [t.fields EXCEPT ![t.row] = t.edit]
    OBVIOUS
  <2>2. Commit(t) = [t EXCEPT !.fields = s]
    BY <1>1, <2>1 DEF Commit
  <2> QED
    BY <1>1, <2>1, <2>2 DEF TabOK, TabFields, Saved, Placed
<1>2. CASE t.row \notin DOMAIN t.fields
  BY <1>2 DEF Commit, Placed
<1> QED
  BY <1>1, <1>2

LEMMA CommittedRows ==
  ASSUME NEW t, TabOK(t), Committed(t)
  PROVE  Commit(t).fields = t.fields
<1>1. PICK s : s = t.fields /\ IsForm(s)
  BY DEF TabOK
<1>2. CASE t.row \in DOMAIN s
  <2>1. PICK S : s \in Seq(S)
    BY <1>1 DEF IsForm
  <2>2. [s EXCEPT ![t.row] = s[t.row]] = s
    BY <2>1
  <2>3. s[t.row] = t.edit
    BY <1>1, <1>2 DEF Committed
  <2>4. Commit(t).fields = [s EXCEPT ![t.row] = t.edit]
    BY <1>1, <1>2, CommitShape
  <2> QED
    BY <1>1, <2>2, <2>3, <2>4, Zenon
<1>3. CASE t.row \notin DOMAIN s
  BY <1>1, <1>3, CommitShape
<1> QED
  BY <1>2, <1>3

LEMMA HoldsShows ==
  ASSUME NEW t, TabOK(t), NEW rows
  PROVE  /\ Holds(t, rows) => Shows(t, rows)
         /\ Shows(t, rows) /\ Committed(t) => Holds(t, rows)
BY CommittedRows DEF Holds, Shows

LEMMA CommitHolds ==
  ASSUME NEW t, TabOK(t), NEW rows, Shows(t, rows)
  PROVE  Holds(Commit(t), rows) /\ TabOK(Commit(t)) /\ Placed(Commit(t), t)
<1>1. PICK c : c = Commit(t)
  OBVIOUS
<1>2. TabOK(c) /\ c.fields = rows /\ c.row = t.row /\ c.edit = t.edit /\ Placed(c, t)
  BY <1>1, CommitOK, CommitShape DEF Shows, Still
<1>3. Committed(c)
  <2>1. PICK s : s = t.fields /\ IsForm(s) /\ DOMAIN s = 1 .. Len(s)
    BY FormShape DEF TabOK
  <2>2. CASE t.row \in DOMAIN s
    <3>1. c.fields = [s EXCEPT ![t.row] = t.edit]
      BY <1>1, <2>1, <2>2, CommitShape
    <3> QED
      BY <1>2, <2>1, <2>2, <3>1 DEF Committed
  <2>3. CASE t.row \notin DOMAIN s
    <3>1. c.fields = s
      BY <1>1, <2>1, <2>3, CommitShape
    <3> QED
      BY <1>2, <2>3, <3>1 DEF Committed
  <2> QED
    BY <2>2, <2>3
<1> QED
  BY <1>1, <1>2, <1>3 DEF Holds

LEMMA SyncHolds ==
  ASSUME NEW t, TabOK(t)
  PROVE  Holds(Sync(t), t.fields) /\ Placed(Sync(t), t) /\ TabOK(Sync(t))
<1>1. PICK r : r = IF t.row \in DOMAIN t.fields THEN t.fields[t.row] ELSE NoRow
  OBVIOUS
<1>2. Sync(t) = [t EXCEPT !.edit = r]
  BY <1>1 DEF Sync
<1>3. PICK u : u = Sync(t)
  OBVIOUS
<1>4. u.fields = t.fields /\ u.row = t.row /\ u.edit = r /\ Placed(u, t)
  BY <1>2, <1>3 DEF TabOK, TabFields, Saved, Placed
<1> QED
  BY <1>1, <1>3, <1>4, SyncOK DEF Holds, Committed, Still

LEMMA AlikeShows ==
  ASSUME NEW t, TabOK(t), NEW u, TabOK(u), Alike(u, t), NEW rows
  PROVE  /\ Holds(t, rows) => Holds(u, rows)
         /\ Shows(t, rows) /\ (u.field # "form" /\ u.mode # "raw" => Committed(t)) => Shows(u, rows)
<1>1. Committed(u) <=> Committed(t)
  BY DEF Alike, Committed
<1>2. PICK f, r, e : f = t.fields /\ r = t.row /\ e = t.edit
  OBVIOUS
<1>3. u.fields = f /\ u.row = r /\ u.edit = e
  BY <1>2 DEF Alike
<1>4. Commit(u).fields = IF r \in DOMAIN f THEN [f EXCEPT ![r] = e] ELSE f
  BY <1>3, CommitShape, Zenon
<1>5. Commit(t).fields = IF r \in DOMAIN f THEN [f EXCEPT ![r] = e] ELSE f
  BY <1>2, CommitShape, Zenon
<1> QED
  BY <1>1, <1>2, <1>3, <1>4, <1>5 DEF Holds, Shows

(* What shows the rows on one field shows them wherever the form is not. *)
LEMMA FieldShows ==
  ASSUME NEW t, TabOK(t), NEW field \in Fields
  PROVE  LET u == [t EXCEPT !.field = field] IN
         Alike(u, t) /\ u.field = field /\ u.mode = t.mode /\ TabOK(u)
BY FieldOK DEF TabOK, TabFields, Saved, Alike, Still

LEMMA FocusShows ==
  ASSUME NEW t, TabOK(t), NEW focus \in {"form", "log", "history"}, NEW rows
  PROVE  LET u == [t EXCEPT !.focus = focus] IN
         /\ Shows(t, rows) => Shows(u, rows)
         /\ Holds(t, rows) => Holds(u, rows)
         /\ TabOK(u)
<1>1. PICK u : u = [t EXCEPT !.focus = focus]
  OBVIOUS
<1>2. TabOK(u) /\ Alike(u, t) /\ Placed(u, t)
  BY <1>1, FocusOK DEF TabOK, TabFields, Saved, Alike, Still, Placed
<1>3. Shows(t, rows) => (u.field # "form" /\ u.mode # "raw" => Committed(t))
  BY <1>2 DEF Shows, Placed
<1> QED
  BY <1>1, <1>2, <1>3, AlikeShows

LEMMA EnterHolds ==
  ASSUME NEW t, TabOK(t), NEW rows, Holds(t, rows), NEW field \in Fields
  PROVE  Holds(Enter(t, field), rows) /\ TabOK(Enter(t, field))
<1>1. PICK u : u = [t EXCEPT !.field = field]
  OBVIOUS
<1>2. TabOK(u) /\ Holds(u, rows)
  BY <1>1, FieldShows, AlikeShows
<1>3. Enter(t, field) = u \/ Enter(t, field) = Sync(u)
  BY <1>1 DEF Enter
<1> QED
  BY <1>2, <1>3, SyncHolds DEF Holds

(* One lemma per operation of the form: it shows what the operator sees.    *)
LEMMA TabShows ==
  ASSUME NEW t, TabOK(t), NEW rows, Shows(t, rows)
  PROVE  Shows(CycleField(t), rows)
<1>1. CASE t.focus = "history"
  BY <1>1, FocusShows DEF CycleField
<1>2. CASE t.focus # "history"
  <2>1. PICK c : c = CommitForm(t)
    OBVIOUS
  <2>2. PICK u : u = Enter(c, NextField(t))
    OBVIOUS
  <2>3. TabOK(u) /\ Shows(u, rows)
    <3>1. CASE t.field = "form"
      <4>1. Holds(c, rows) /\ TabOK(c)
        BY <2>1, <3>1, CommitHolds DEF CommitForm
      <4> QED
        BY <2>2, <4>1, NeighboursAreFields, EnterHolds, HoldsShows
    <3>2. CASE t.field # "form" /\ NextField(t) # "form"
      <4>1. c = t /\ u = [t EXCEPT !.field = NextField(t)]
        BY <2>1, <2>2, <3>2 DEF CommitForm, Enter
      <4>2. TabOK(u) /\ Alike(u, t) /\ u.mode = t.mode
        BY <4>1, NeighboursAreFields, FieldShows
      <4>3. u.mode # "raw" => Committed(t)
        BY <3>2, <4>2 DEF Shows
      <4> QED
        BY <4>2, <4>3, AlikeShows
    <3>3. CASE t.field # "form" /\ NextField(t) = "form"
      <4>1. t.mode # "raw"
        BY <3>3 DEF NextField, Forms
      <4>2. Holds(t, rows) /\ c = t
        BY <2>1, <3>3, <4>1, HoldsShows DEF CommitForm, Shows
      <4> QED
        BY <2>2, <4>2, NeighboursAreFields, EnterHolds, HoldsShows
    <3> QED
      BY <3>1, <3>2, <3>3
  <2>4. CycleField(t) = [u EXCEPT !.focus = "form"]
    BY <1>2, <2>1, <2>2 DEF CycleField
  <2> QED
    BY <2>3, <2>4, FocusShows
<1> QED
  BY <1>1, <1>2

LEMMA ClickShows ==
  ASSUME NEW t, TabOK(t), NEW rows, Shows(t, rows), NEW f \in Drawn(t)
  PROVE  Shows(SetField(t, f), rows)
<1>1. PICK c : c = CommitForm(t)
  OBVIOUS
<1>2. PICK u : u = Enter(c, f)
  OBVIOUS
<1>3. f \in Fields
  BY DEF Drawn, DrawnRequest, DrawnAuth, Fields
<1>4. TabOK(u) /\ Shows(u, rows)
  <2>1. CASE t.field = "form"
    <3>1. Holds(c, rows) /\ TabOK(c)
      BY <1>1, <2>1, CommitHolds DEF CommitForm
    <3> QED
      BY <1>2, <1>3, <3>1, EnterHolds, HoldsShows
  <2>2. CASE t.field # "form" /\ f # "form"
    <3>1. c = t /\ u = [t EXCEPT !.field = f]
      BY <1>1, <1>2, <2>2 DEF CommitForm, Enter
    <3>2. TabOK(u) /\ Alike(u, t) /\ u.mode = t.mode
      BY <1>3, <3>1, FieldShows
    <3>3. u.mode # "raw" => Committed(t)
      BY <2>2, <3>2 DEF Shows
    <3> QED
      BY <3>2, <3>3, AlikeShows
  <2>3. CASE t.field # "form" /\ f = "form"
    <3>1. t.mode # "raw"
      BY <2>3 DEF Drawn, DrawnRequest, DrawnAuth, Forms
    <3>2. Holds(t, rows) /\ c = t
      BY <1>1, <2>3, <3>1, HoldsShows DEF CommitForm, Shows
    <3> QED
      BY <1>2, <1>3, <3>2, EnterHolds, HoldsShows
  <2> QED
    BY <2>1, <2>2, <2>3
<1>5. SetField(t, f) = [u EXCEPT !.focus = "form"]
  BY <1>1, <1>2 DEF SetField
<1> QED
  BY <1>4, <1>5, FocusShows

(* Whoever leaves the form without putting the row back slips, unless there *)
(* is nothing to put back.                                                  *)
LEMMA LeftCommitted ==
  ASSUME NEW t, TabOK(t), NEW rows, Shows(t, rows), t.field = "form" => Commit(t) = t
  PROVE  t.mode # "raw" => Committed(t)
<1>1. CASE t.field = "form"
  <2>1. Holds(t, rows)
    BY <1>1, CommitHolds, Zenon
  <2> QED
    BY <2>1 DEF Holds
<1>2. CASE t.field # "form"
  BY <1>2 DEF Shows
<1> QED
  BY <1>1, <1>2

LEMMA BackTabShows ==
  ASSUME NEW t, TabOK(t), NEW rows, Shows(t, rows),
         t.focus # "history" => (t.field = "form" => Commit(t) = t)
  PROVE  Shows(CycleBack(t), rows)
<1>1. CASE t.focus = "history"
  BY <1>1, FocusShows DEF CycleBack
<1>2. CASE t.focus # "history"
  <2>1. PICK u : u = [t EXCEPT !.field = PreviousField(t)]
    OBVIOUS
  <2>2. TabOK(u) /\ Alike(u, t) /\ u.mode = t.mode
    BY <2>1, NeighboursAreFields, FieldShows
  <2>3. Shows(u, rows)
    BY <1>2, <2>2, LeftCommitted, AlikeShows
  <2>4. CycleBack(t) = [u EXCEPT !.focus = "form"]
    BY <1>2, <2>1 DEF CycleBack
  <2> QED
    BY <2>2, <2>3, <2>4, FocusShows
<1> QED
  BY <1>1, <1>2

LEMMA AuthShows ==
  ASSUME NEW t, TabOK(t), NEW rows, Shows(t, rows), t.field = "form" => Commit(t) = t
  PROVE  Shows(CycleAuth(t), rows)
<1>1. PICK auth : CycleAuth(t) = [t EXCEPT !.auth = auth, !.field = "auth"]
  BY DEF CycleAuth
<1>2. PICK u : u = CycleAuth(t)
  OBVIOUS
<1>3. TabOK(u) /\ Alike(u, t) /\ u.mode = t.mode
  BY <1>1, <1>2, CycleAuthOK DEF TabOK, TabFields, Saved, Alike, Still
<1> QED
  BY <1>2, <1>3, LeftCommitted, AlikeShows

LEMMA AddRowShows ==
  ASSUME NEW t, TabOK(t), NEW rows, Shows(t, rows)
  PROVE  /\ Holds(FormAddRow(t), Append(rows, NoRow)) /\ TabOK(FormAddRow(t))
         /\ FormAddRow(t).mode = t.mode
<1>1. PICK c : c = Commit(t)
  OBVIOUS
<1>2. TabOK(c) /\ c.fields = rows /\ c.mode = t.mode
  BY <1>1, CommitHolds DEF Holds, Placed
<1>3. PICK s, row : s = Append(rows, NoRow) /\ row = Len(rows) + 1
  OBVIOUS
<1>4. IsForm(s) /\ row \in 1 .. Len(s)
  BY <1>2, <1>3, FormShape, IsRowNoRow DEF TabOK
<1>5. PICK v : v = [c EXCEPT !.fields = s, !.row = row, !.field = "form"]
  OBVIOUS
<1>6. TabOK(v) /\ v.fields = s /\ v.mode = t.mode
  BY <1>2, <1>4, <1>5 DEF TabOK, TabFields, Saved, Fields
<1>7. FormAddRow(t) = Sync(v)
  BY <1>1, <1>2, <1>3, <1>5 DEF FormAddRow
<1> QED
  BY <1>3, <1>6, <1>7, SyncHolds DEF Placed

LEMMA RemoveEdited ==
  ASSUME NEW S, NEW s \in Seq(S), NEW i \in 1 .. Len(s), NEW e
  PROVE  RemoveAt([s EXCEPT ![i] = e], i) = RemoveAt(s, i)
<1>1. PICK T : T = S \cup {e}
  OBVIOUS
<1>2. s \in Seq(T) /\ e \in T
  <2>1. \A z \in Seq(S) : z \in Seq(T)
    BY <1>1
  <2> QED
    BY <1>1, <2>1
<1>3. PICK r : r = [s EXCEPT ![i] = e]
  OBVIOUS
<1>4. r \in Seq(T) /\ Len(r) = Len(s) /\ \A j \in 1 .. Len(s) : j # i => r[j] = s[j]
  BY <1>2, <1>3
<1>5. SubSeq(r, 1, i - 1) = SubSeq(s, 1, i - 1)
  BY <1>2, <1>4
<1>6. SubSeq(r, i + 1, Len(r)) = SubSeq(s, i + 1, Len(s))
  BY <1>2, <1>4
<1> QED
  BY <1>3, <1>5, <1>6 DEF RemoveAt

(* What remains of the rows if the one that is edited is deleted. *)
LEMMA DeleteRowShows ==
  ASSUME NEW t, TabOK(t), NEW rows, Shows(t, rows)
  PROVE  Shows(FormDeleteRow(t), IF t.row \in DOMAIN rows THEN RemoveAt(rows, t.row) ELSE rows)
<1>1. PICK s : s = t.fields /\ IsForm(s) /\ IsList(s) /\ Len(s) \in Nat /\ DOMAIN s = 1 .. Len(s)
  BY FormShape DEF TabOK
<1>2. rows = IF t.row \in DOMAIN s THEN [s EXCEPT ![t.row] = t.edit] ELSE s
  BY <1>1, CommitShape DEF Shows
<1>3. DOMAIN rows = DOMAIN s
  BY <1>2
<1>4. CASE s = <<>>
  <2>1. DOMAIN s = {}
    BY <1>4
  <2> QED
    BY <1>1, <1>3, <1>4, <2>1 DEF FormDeleteRow
<1>5. CASE s # <<>>
  <2>1. t.row \in 1 .. Len(s)
    BY <1>1, <1>5, ListShape DEF TabOK
  <2>2. PICK rest, row : /\ rest = RemoveAt(s, t.row)
                         /\ row = IF t.row > 1 /\ t.row > Len(rest) THEN t.row - 1 ELSE t.row
    OBVIOUS
  <2>3. IsForm(rest) /\ Len(rest) = Len(s) - 1
    BY <1>1, <2>1, <2>2, RemoveRow
  <2>4. row = 1 \/ row \in 1 .. Len(rest)
    BY <1>1, <2>1, <2>2, <2>3
  <2>5. PICK u : u = [t EXCEPT !.fields = rest, !.row = row]
    OBVIOUS
  <2>6. TabOK(u) /\ u.fields = rest
    BY <2>3, <2>4, <2>5 DEF TabOK, TabFields, Saved
  <2>7. FormDeleteRow(t) = Sync(u)
    BY <1>1, <1>5, <2>2, <2>5 DEF FormDeleteRow
  <2>8. RemoveAt(rows, t.row) = rest
    <3>1. PICK S : s \in Seq(S)
      BY <1>1 DEF IsList
    <3> QED
      BY <1>1, <1>2, <2>1, <2>2, <3>1, RemoveEdited
  <2> QED
    BY <1>1, <1>3, <2>1, <2>6, <2>7, <2>8, SyncHolds, HoldsShows
<1> QED
  BY <1>4, <1>5

LEMMA RowShows ==
  ASSUME NEW t, TabOK(t), NEW rows, Shows(t, rows), NEW down \in BOOLEAN
  PROVE  Shows(FormRow(t, down), rows)
<1>1. PICK c : c = Commit(t)
  OBVIOUS
<1>2. TabOK(c) /\ c.fields = rows
  BY <1>1, CommitHolds DEF Holds
<1>3. PICK row : row = IF down THEN IF c.row < Len(c.fields) THEN c.row + 1 ELSE c.row
                       ELSE IF c.row > 1 THEN c.row - 1 ELSE c.row
  OBVIOUS
<1>4. row = 1 \/ row \in 1 .. Len(c.fields)
  <2>1. Len(c.fields) \in Nat /\ (c.row = 1 \/ c.row \in 1 .. Len(c.fields))
    BY <1>2, FormShape DEF TabOK
  <2> QED
    BY <1>3, <2>1
<1>5. PICK u : u = [c EXCEPT !.row = row]
  OBVIOUS
<1>6. TabOK(u) /\ u.fields = rows
  BY <1>2, <1>4, <1>5 DEF TabOK, TabFields, Saved
<1>7. FormRow(t, down) = Sync(u)
  BY <1>1, <1>3, <1>5 DEF FormRow
<1> QED
  BY <1>6, <1>7, SyncHolds, HoldsShows

(* Text is typed into the editor, and the operator sees it in the row. *)
LEMMA TypeShows ==
  ASSUME NEW t, TabOK(t), t.field # "auth", NEW rows, Shows(t, rows), NEW text
  PROVE  Shows([Type(t, text) EXCEPT !.from = <<>>],
               IF t.field = "form" /\ t.row \in DOMAIN rows
               THEN [rows EXCEPT ![t.row].key = text] ELSE rows)
<1>0. PICK u : u = [Type(t, text) EXCEPT !.from = <<>>]
  OBVIOUS
<1>1. CASE t.field = "form"
  <2>1. PICK edit : edit = [t.edit EXCEPT !.key = text]
    OBVIOUS
  <2>2. Type(t, text) = [t EXCEPT !.edit = edit]
    <3>1. Type(t, text) = [t EXCEPT !.edit.key = text]
      BY <1>1 DEF Type
    <3> QED
      BY <2>1, <3>1 DEF TabOK, TabFields
  <2>3. TabOK(u) /\ u.fields = t.fields /\ u.row = t.row /\ u.edit = edit /\ u.field = "form"
    <3>1. TabOK(u)
      BY <1>0, TypeTextOK DEF Still
    <3> QED
      BY <1>0, <1>1, <2>2, <3>1 DEF TabOK, TabFields, Saved
  <2>4. PICK s : s = t.fields /\ IsForm(s)
    BY DEF TabOK
  <2>5. PICK S : s \in Seq(S)
    BY <2>4 DEF IsForm
  <2>6. CASE t.row \in DOMAIN s
    <3>1. rows = [s EXCEPT ![t.row] = t.edit]
      BY <2>4, <2>6, CommitShape DEF Shows
    <3>2. DOMAIN rows = DOMAIN s /\ rows[t.row] = t.edit
      BY <2>6, <3>1
    <3>3. [rows EXCEPT ![t.row].key = text] = [rows EXCEPT ![t.row] = edit]
      BY <2>1, <2>6, <3>2
    <3>4. [rows EXCEPT ![t.row] = edit] = [s EXCEPT ![t.row] = edit]
      BY <2>6, <3>1
    <3>5. Commit(u).fields = [s EXCEPT ![t.row] = edit]
      BY <2>3, <2>4, <2>6, CommitShape
    <3> QED
      BY <1>0, <1>1, <2>3, <2>6, <3>2, <3>3, <3>4, <3>5 DEF Shows
  <2>7. CASE t.row \notin DOMAIN s
    <3>1. rows = s /\ Commit(u).fields = s
      BY <2>3, <2>4, <2>7, CommitShape DEF Shows
    <3> QED
      BY <1>0, <2>3, <2>7, <3>1 DEF Shows
  <2> QED
    BY <2>6, <2>7
<1>2. CASE t.field # "form"
  <2>1. t.field \in {"body", "url", "headers", "method", "token", "user", "pass", "key",
                     "value", "variables", "operation"}
    BY <1>2 DEF TabOK, Fields
  <2>2. Type(t, text) = [t EXCEPT ![t.field] = text]
    BY <1>2, <2>1 DEF Type
  <2>3. TabOK(u)
    BY <1>0, TypeTextOK DEF Still
  <2>4. Alike(u, t) /\ Placed(u, t)
    <3>1. PICK f, v : f = t.field /\ v = [t EXCEPT ![f] = text]
      OBVIOUS
    <3>2. f \notin {"fields", "row", "edit", "field", "mode"}
      BY <2>1, <3>1
    <3>3. DOMAIN v = TabFields /\ \A n \in TabFields : n # f => v[n] = t[n]
      BY <3>1 DEF TabOK
    <3>4. /\ v.fields = t.fields /\ v.row = t.row /\ v.edit = t.edit
          /\ v.field = t.field /\ v.mode = t.mode
      BY <3>2, <3>3 DEF TabFields, Saved
    <3>5. u = [v EXCEPT !.from = <<>>]
      BY <1>0, <2>2, <3>1
    <3> QED
      BY <3>3, <3>4, <3>5 DEF TabFields, Saved, Alike, Placed
  <2>5. Shows(u, rows)
    <3>1. u.field # "form" /\ u.mode # "raw" => Committed(t)
      BY <2>4 DEF Placed, Shows
    <3> QED
      BY <2>3, <2>4, <3>1, AlikeShows
  <2> QED
    BY <1>0, <1>2, <2>5
<1> QED
  BY <1>1, <1>2

(* The next mode, which gives a form that has none its first row. *)
LEMMA BodyModeShows ==
  ASSUME NEW t, TabOK(t), NEW rows, Shows(t, rows)
  PROVE  Shows([CycleBodyMode(t) EXCEPT !.from = <<>>],
               IF Len(CycleBodyMode(t).fields) > Len(rows) THEN <<NoRow>> ELSE rows)
<1>1. PICK mode : CycleBodyMode(t) =
                    LET next == [Commit(t) EXCEPT !.mode = mode]
                        added == IF next.mode \in Forms /\ next.fields = <<>>
                                 THEN FormAddRow(next) ELSE next
                    IN  IF added.mode \in Forms THEN Enter(added, "form")
                        ELSE [added EXCEPT !.field = "body",
                                           !.method = IF added.mode = "graphql" /\ @ = "GET"
                                                      THEN "POST" ELSE @]
  BY DEF CycleBodyMode
<1>2. PICK next : next = [Commit(t) EXCEPT !.mode = mode]
  OBVIOUS
<1>3. TabOK(next) /\ Holds(next, rows)
  <2>1. PICK c : c = Commit(t)
    OBVIOUS
  <2>2. TabOK(c) /\ Holds(c, rows) /\ next = [c EXCEPT !.mode = mode]
    BY <1>2, <2>1, CommitHolds
  <2>3. TabOK(next) /\ Alike(next, c)
    BY <2>2 DEF TabOK, TabFields, Saved, Alike
  <2> QED
    BY <2>2, <2>3, AlikeShows
<1>4. PICK added : added = IF next.mode \in Forms /\ next.fields = <<>> THEN FormAddRow(next) ELSE next
  OBVIOUS
<1>5. PICK seen : seen = IF next.mode \in Forms /\ next.fields = <<>> THEN <<NoRow>> ELSE rows
  OBVIOUS
<1>6. TabOK(added) /\ Holds(added, seen)
  <2>1. CASE next.mode \in Forms /\ next.fields = <<>>
    <3>1. rows = <<>> /\ Shows(next, rows)
      BY <1>3, <2>1, HoldsShows DEF Holds
    <3>2. Append(rows, NoRow) = <<NoRow>>
      BY <3>1
    <3> QED
      BY <1>3, <1>4, <1>5, <2>1, <3>1, <3>2, AddRowShows
  <2>2. CASE ~(next.mode \in Forms /\ next.fields = <<>>)
    BY <1>3, <1>4, <1>5, <2>2
  <2> QED
    BY <2>1, <2>2
<1>7. PICK v : v = CycleBodyMode(t)
  OBVIOUS
<1>8. TabOK(v) /\ Holds(v, seen)
  <2>1. CASE added.mode \in Forms
    <3>1. v = Enter(added, "form")
      BY <1>1, <1>2, <1>4, <1>7, <2>1
    <3>2. "form" \in Fields
      BY DEF Fields
    <3> QED
      BY <1>6, <3>1, <3>2, EnterHolds
  <2>2. CASE added.mode \notin Forms
    <3>1. PICK method : v = [added EXCEPT !.field = "body", !.method = method]
      BY <1>1, <1>2, <1>4, <1>7, <2>2
    <3>2. TabOK(v) /\ Alike(v, added)
      BY <1>6, <3>1 DEF TabOK, TabFields, Saved, Fields, Alike
    <3> QED
      BY <1>6, <3>2, AlikeShows
  <2> QED
    BY <2>1, <2>2
<1>9. seen = IF Len(v.fields) > Len(rows) THEN <<NoRow>> ELSE rows
  <2>1. CASE next.mode \in Forms /\ next.fields = <<>>
    <3>1. rows = <<>> /\ v.fields = <<NoRow>> /\ seen = <<NoRow>>
      BY <1>3, <1>5, <1>8, <2>1 DEF Holds
    <3>2. Len(v.fields) = 1 /\ Len(rows) = 0
      BY <3>1, Elements
    <3> QED
      BY <3>1, <3>2
  <2>2. CASE ~(next.mode \in Forms /\ next.fields = <<>>)
    <3>1. v.fields = rows /\ seen = rows
      BY <1>5, <1>8, <2>2 DEF Holds
    <3>2. Len(rows) \in Nat
      BY <1>8, <3>1, FormShape DEF TabOK
    <3> QED
      BY <3>1, <3>2
  <2> QED
    BY <2>1, <2>2
<1>10. PICK u : u = [v EXCEPT !.from = <<>>]
  OBVIOUS
<1>11. TabOK(u) /\ Alike(u, v)
  BY <1>8, <1>10 DEF TabOK, TabFields, Saved, Alike
<1>12. Shows(u, seen)
  BY <1>8, <1>11, AlikeShows, HoldsShows
<1> QED
  BY <1>7, <1>9, <1>10, <1>12

(* Each tab shows what was meant, unless it slipped. *)
Meaning ==
  /\ IsList(meant) /\ Len(meant) = Len(tabs)
  /\ IsList(slipped) /\ Len(slipped) = Len(tabs)
  /\ \A i \in 1 .. Len(tabs) : /\ slipped[i] \in BOOLEAN
                               /\ ~slipped[i] => Shows(tabs[i], meant[i])

LEMMA LoadedShows ==
  ASSUME NEW saved, NEW u, Loaded(u, saved)
  PROVE  Shows(u, saved.fields)
<1>1. PICK t : TabOK(t) /\ t.fields = saved.fields /\ u = Sync(t)
  BY DEF Loaded
<1> QED
  BY <1>1, SyncHolds, HoldsShows

LEMMA MeaningInit == Init => Meaning
<1> SUFFICES ASSUME Init PROVE Meaning
  OBVIOUS
<1>1. PICK t, rows : t = NewTab(load.request, <<>>, {}) /\ rows = load.request.fields
  OBVIOUS
<1>2. Shows(t, rows)
  <2>1. Cardinality({}) <= Shown
    BY FS_EmptySet, HttpAssumption
  <2>2. RequestOK(load.request)
    BY RequestsAreOK DEF Init
  <2> QED
    BY <1>1, <2>1, <2>2, NewTabOK, LoadedShows
<1>3. tabs = <<t>> /\ meant = <<rows>> /\ slipped = <<FALSE>>
  BY <1>1 DEF Init
<1>4. \A e : IsList(<<e>>) /\ Len(<<e>>) = 1 /\ <<e>>[1] = e
  BY Elements
<1>5. /\ IsList(meant) /\ Len(meant) = Len(tabs) /\ IsList(slipped) /\ Len(slipped) = Len(tabs)
      /\ Len(tabs) = 1 /\ tabs[1] = t /\ meant[1] = rows /\ slipped[1] = FALSE
  BY <1>3, <1>4, Zenon
<1>6. slipped[1] \in BOOLEAN /\ Shows(tabs[1], meant[1])
  BY <1>2, <1>5
<1>7. \A i \in 1 .. Len(tabs) : i = 1
  BY <1>5
<1>8. \A i \in 1 .. Len(tabs) : slipped[i] \in BOOLEAN /\ (~slipped[i] => Shows(tabs[i], meant[i]))
  BY <1>6, <1>7, Zenon
<1> QED
  BY <1>5, <1>8, Zenon DEF Meaning

(* The tab that is shown, and what is meant by it. *)
LEMMA Meaningful ==
  ASSUME Typed, Meaning, tabs # <<>>
  PROVE  /\ active \in 1 .. Len(tabs) /\ TabOK(Tab) /\ slipped[active] \in BOOLEAN
         /\ ~slipped[active] => Shows(Tab, Meant)
BY DEF Typed, TabsOK, Meaning, Tab, Meant

(* The tab that is shown becomes u, and shows rows now, unless it slipped. *)
LEMMA BecomesMeant ==
  ASSUME Typed, Meaning, tabs # <<>>, NEW u, Becomes(u),
         NEW rows, (meant' = meant /\ rows = Meant) \/ Means(rows),
         NEW b \in BOOLEAN,
         (slipped' = slipped /\ b = slipped[active]) \/ slipped' = [slipped EXCEPT ![active] = b],
         ~b => Shows(u, rows)
  PROVE  Meaning'
<1>1. /\ IsList(tabs) /\ active \in 1 .. Len(tabs) /\ tabs' = [tabs EXCEPT ![active] = u]
      /\ Len(tabs) \in Nat /\ DOMAIN tabs = 1 .. Len(tabs)
  BY ListShape DEF Typed, TabsOK, Becomes
<1>2. /\ IsList(meant) /\ Len(meant) = Len(tabs) /\ IsList(slipped) /\ Len(slipped) = Len(tabs)
      /\ DOMAIN meant = 1 .. Len(tabs) /\ DOMAIN slipped = 1 .. Len(tabs)
  BY ListShape DEF Meaning
<1>3. Len(tabs') = Len(tabs) /\ \A i \in 1 .. Len(tabs) : tabs'[i] = IF i = active THEN u ELSE tabs[i]
  BY <1>1, ListShape
<1>4. /\ IsList(meant') /\ Len(meant') = Len(tabs)
      /\ \A i \in 1 .. Len(tabs) : meant'[i] = IF i = active THEN rows ELSE meant[i]
  <2>1. CASE meant' = meant /\ rows = Meant
    BY <1>1, <1>2, <2>1 DEF Meant
  <2>2. CASE Means(rows)
    BY <1>1, <1>2, <2>2, ListShape DEF Means
  <2> QED
    BY <2>1, <2>2
<1>5. /\ IsList(slipped') /\ Len(slipped') = Len(tabs)
      /\ \A i \in 1 .. Len(tabs) : slipped'[i] = IF i = active THEN b ELSE slipped[i]
  <2>1. CASE slipped' = slipped /\ b = slipped[active]
    BY <1>1, <1>2, <2>1
  <2>2. CASE slipped' = [slipped EXCEPT ![active] = b]
    BY <1>1, <1>2, <2>2, ListShape
  <2> QED
    BY <2>1, <2>2
<1> QED
  BY <1>3, <1>4, <1>5 DEF Meaning

(* What a tab carries besides its form changes nothing of what is meant.   *)
LEMMA CarriedMeant ==
  ASSUME Typed, Meaning, Typed', tabs # <<>>, NEW u, Becomes(u), Alike(u, Tab), Placed(u, Tab),
         UNCHANGED <<meant, slipped>>
  PROVE  Meaning'
<1>1. /\ active \in 1 .. Len(tabs) /\ TabOK(Tab) /\ slipped[active] \in BOOLEAN
      /\ ~slipped[active] => Shows(Tab, Meant)
  BY Meaningful
<1>2. TabOK(u)
  <2>1. IsList(tabs) /\ tabs' = [tabs EXCEPT ![active] = u]
    BY DEF Typed, TabsOK, Becomes
  <2>2. Len(tabs') = Len(tabs) /\ tabs'[active] = u
    BY <1>1, <2>1, ListShape
  <2> QED
    BY <1>1, <2>2 DEF Typed, TabsOK
<1>3. ~slipped[active] => Shows(u, Meant)
  <2>1. Shows(Tab, Meant) => (u.field # "form" /\ u.mode # "raw" => Committed(Tab))
    BY DEF Placed, Shows
  <2> QED
    BY <1>1, <1>2, <2>1, AlikeShows
<1> QED
  BY <1>1, <1>3, BecomesMeant

LEMMA FormMeant ==
  ASSUME Typed, Meaning,
         TypeText \/ TabKey \/ BackTabKey \/ ClickField \/ AddRowKey \/ DeleteRowKey \/ RowKey
  PROVE  Meaning'
<1>0. /\ tabs # <<>> /\ TabOK(Tab) /\ slipped[active] \in BOOLEAN
      /\ ~slipped[active] => Shows(Tab, Meant)
  <2>1. \E kind : Input(kind)
    BY DEF TypeText, TabKey, BackTabKey, ClickField, AddRowKey, DeleteRowKey, RowKey
  <2> QED
    BY <2>1, InputOK, Meaningful
<1>1. CASE TypeText
  <2>1. PICK text \in TypedIn[Tab.field] :
          /\ Becomes([Type(Tab, text) EXCEPT !.from = <<>>])
          /\ Means(IF Tab.field = "form" /\ Tab.row \in DOMAIN Meant
                   THEN [Meant EXCEPT ![Tab.row].key = text] ELSE Meant)
    BY <1>1 DEF TypeText
  <2>2. Tab.field # "auth" /\ slipped' = slipped
    BY <1>1, <2>1, RequestAssumption DEF TypeText
  <2> QED
    BY <1>0, <2>1, <2>2, TypeShows, BecomesMeant
<1>2. CASE TabKey
  BY <1>0, <1>2, TabShows, BecomesMeant DEF TabKey
<1>3. CASE BackTabKey
  <2>1. Becomes(CycleBack(Tab)) /\ meant' = meant
    BY <1>3 DEF BackTabKey
  <2>2. CASE Tab.focus = "history"
    BY <1>0, <1>3, <2>1, <2>2, BackTabShows, BecomesMeant DEF BackTabKey
  <2>3. CASE Tab.focus # "history"
    <3>1. PICK b \in BOOLEAN : b = (slipped[active] \/ (Tab.field = "form" /\ Commit(Tab) # Tab))
      BY Zenon
    <3>2. slipped' = [slipped EXCEPT ![active] = b]
      BY <1>3, <2>3, <3>1 DEF BackTabKey, Slips
    <3>3. ~b => Shows(CycleBack(Tab), Meant)
      BY <1>0, <3>1, BackTabShows
    <3> QED
      BY <1>0, <2>1, <3>2, <3>3, BecomesMeant
  <2> QED
    BY <2>2, <2>3
<1>4. CASE ClickField
  <2>1. PICK f \in Drawn(Tab) : Becomes(SetField(Tab, f))
    BY <1>4 DEF ClickField
  <2> QED
    BY <1>0, <1>4, <2>1, ClickShows, BecomesMeant DEF ClickField
<1>5. CASE AddRowKey
  <2>1. Shows(Tab, Meant) => Shows(FormAddRow(Tab), Append(Meant, NoRow))
    BY <1>0, AddRowShows, HoldsShows
  <2> QED
    BY <1>0, <1>5, <2>1, BecomesMeant DEF AddRowKey
<1>6. CASE DeleteRowKey
  <2>1. Becomes(FormDeleteRow(Tab)) /\ slipped' = slipped
        /\ Means(IF Tab.row \in DOMAIN Meant THEN RemoveAt(Meant, Tab.row) ELSE Meant)
    BY <1>6 DEF DeleteRowKey
  <2> QED
    BY <1>0, <2>1, DeleteRowShows, BecomesMeant
<1>7. CASE RowKey
  <2>1. PICK down \in BOOLEAN : Becomes(FormRow(Tab, down))
    BY <1>7 DEF RowKey
  <2> QED
    BY <1>0, <1>7, <2>1, RowShows, BecomesMeant DEF RowKey
<1> QED
  BY <1>1, <1>2, <1>3, <1>4, <1>5, <1>6, <1>7

LEMMA CommandMeant ==
  ASSUME Typed, Meaning, Typed', AuthCommand \/ BodyModeCommand \/ ReplayHistory \/ LoadRequest \/ Send
  PROVE  Meaning'
<1>0. /\ tabs # <<>> /\ TabOK(Tab) /\ slipped[active] \in BOOLEAN
      /\ ~slipped[active] => Shows(Tab, Meant)
  <2>1. \E kind : Input(kind)
    BY DEF AuthCommand, BodyModeCommand, ReplayHistory, LoadRequest, Send
  <2> QED
    BY <2>1, InputOK, Meaningful
<1>1. CASE AuthCommand
  <2>1. Becomes(CycleAuth(Tab)) /\ meant' = meant
    BY <1>1 DEF AuthCommand
  <2>2. PICK b \in BOOLEAN : b = (slipped[active] \/ (Tab.field = "form" /\ Commit(Tab) # Tab))
    BY Zenon
  <2>3. slipped' = [slipped EXCEPT ![active] = b]
    BY <1>1, <2>2 DEF AuthCommand, Slips
  <2>4. ~b => Shows(CycleAuth(Tab), Meant)
    BY <1>0, <2>2, AuthShows
  <2> QED
    BY <1>0, <2>1, <2>3, <2>4, BecomesMeant
<1>2. CASE BodyModeCommand
  <2>1. /\ Becomes([CycleBodyMode(Tab) EXCEPT !.from = <<>>]) /\ slipped' = slipped
        /\ Means(IF Len(CycleBodyMode(Tab).fields) > Len(Meant) THEN <<NoRow>> ELSE Meant)
    BY <1>2 DEF BodyModeCommand
  <2> QED
    BY <1>0, <2>1, BodyModeShows, BecomesMeant
<1>3. CASE ReplayHistory
  <2>1. PICK u, e : Becomes(u) /\ (u = LoadHistory(Tab, e) \/ u = [Tab EXCEPT !.focus = "history"])
    BY <1>3 DEF ReplayHistory
  <2>2. Shows(Tab, Meant) => Shows(u, Meant)
    <3>1. CASE u = LoadHistory(Tab, e)
      <4>1. TabOK(u)
        BY <1>0, <3>1, LoadHistoryOK DEF Still
      <4>2. Alike(u, Tab) /\ u.mode = "raw"
        BY <1>0, <3>1 DEF LoadHistory, TabOK, TabFields, Saved, Alike
      <4> QED
        BY <1>0, <4>1, <4>2, AlikeShows
    <3>2. CASE u = [Tab EXCEPT !.focus = "history"]
      BY <1>0, <3>2, FocusShows
    <3> QED
      BY <2>1, <3>1, <3>2
  <2> QED
    BY <1>0, <1>3, <2>1, <2>2, BecomesMeant DEF ReplayHistory
<1>4. CASE LoadRequest
  <2>1. /\ cursor \in DOMAIN col /\ Becomes(LoadSaved(Tab, col[cursor])) /\ Means(col[cursor].fields)
        /\ slipped' = [slipped EXCEPT ![active] = FALSE]
    BY <1>4 DEF LoadRequest
  <2>2. PICK saved : saved = col[cursor]
    OBVIOUS
  <2>3. RequestOK(saved)
    BY <2>1, <2>2, ListShape DEF Typed, CollectionOK
  <2>4. Shows(LoadSaved(Tab, saved), saved.fields)
    BY <1>0, <2>3, LoadedOK, LoadedShows DEF TabOK
  <2> QED
    BY <1>0, <2>1, <2>2, <2>4, BecomesMeant
<1>5. CASE Send
  <2>1. PICK c : c = Commit(Tab)
    OBVIOUS
  <2>2. PICK u : Becomes(u) /\ (u = c \/ u = [c EXCEPT !.status = "connecting"] \/ u = [c EXCEPT !.status = "error"])
    BY <1>5, <2>1 DEF Send
  <2>3. UNCHANGED <<meant, slipped>>
    BY <1>5 DEF Send
  <2>4. Shows(Tab, Meant) => Shows(u, Meant)
    <3>1. SUFFICES ASSUME Shows(Tab, Meant) PROVE Shows(u, Meant)
      OBVIOUS
    <3>2. TabOK(c) /\ Holds(c, Meant)
      BY <1>0, <2>1, <3>1, CommitHolds
    <3>3. TabOK(u) /\ Alike(u, c)
      BY <2>2, <3>2 DEF TabOK, TabFields, Saved, Alike
    <3> QED
      BY <3>2, <3>3, AlikeShows, HoldsShows
  <2> QED
    BY <1>0, <2>2, <2>3, <2>4, BecomesMeant
<1> QED
  BY <1>1, <1>2, <1>3, <1>4, <1>5

(* What a tab carries besides its form. *)
LEMMA CarriedSteps ==
  ASSUME Typed, Meaning, Typed',
         \/ EscKey \/ ToggleComposerMode \/ GrpcCommand \/ CookiesCommand \/ HistoryCommand \/ LogKey
         \/ NoAnswer \/ Answer \/ OAuthCommand \/ RefreshAnswer \/ Callback \/ ExchangeAnswer
  PROVE  Meaning'
<1>0. UNCHANGED <<meant, slipped>>
  BY DEF EscKey, ToggleComposerMode, GrpcCommand, CookiesCommand, HistoryCommand, LogKey, NoAnswer,
         Answer, OAuthCommand, RefreshAnswer, Callback, ExchangeAnswer, Flows, histories
<1>1. tabs # <<>> /\ TabOK(Tab)
  <2>1. CASE \E kind : Input(kind)
    BY <2>1, InputOK
  <2>2. CASE net # <<>>
    BY <2>2, Awaiting
  <2>3. CASE flow # <<>>
    <3>1. tabs # <<>>
      BY <2>3 DEF Typed, AwaitsOK
    <3> QED
      BY <3>1, Meaningful
  <2> QED
    BY <2>1, <2>2, <2>3
    DEF EscKey, ToggleComposerMode, GrpcCommand, CookiesCommand, HistoryCommand, LogKey, NoAnswer,
        Answer, OAuthCommand, RefreshAnswer, Callback, ExchangeAnswer, Flows
<1>2. CASE \E u : Becomes(u) /\ Alike(u, Tab) /\ Placed(u, Tab)
  BY <1>0, <1>1, <1>2, CarriedMeant
<1>3. CASE tabs' = tabs
  BY <1>0, <1>3 DEF Meaning
<1>4. ASSUME NEW u, \E x : \/ u = [Tab EXCEPT !.focus = x] \/ u = [Tab EXCEPT !.hex = x]
                           \/ u = [Tab EXCEPT !.log = x] \/ u = [Tab EXCEPT !.status = x]
                           \/ u = [Tab EXCEPT !.auth = x] \/ u = [Tab EXCEPT !.token = x]
                           \/ u = [Tab EXCEPT !.jar = x] \/ u = [Tab EXCEPT !.pane = x, !.focus = "history"]
      PROVE  Alike(u, Tab) /\ Placed(u, Tab)
  <2>1. PICK t : t = Tab /\ DOMAIN t = TabFields
    BY <1>1 DEF TabOK
  <2>2. PICK x : \/ u = [t EXCEPT !.focus = x] \/ u = [t EXCEPT !.hex = x]
                 \/ u = [t EXCEPT !.log = x] \/ u = [t EXCEPT !.status = x]
                 \/ u = [t EXCEPT !.auth = x] \/ u = [t EXCEPT !.token = x]
                 \/ u = [t EXCEPT !.jar = x] \/ u = [t EXCEPT !.pane = x, !.focus = "history"]
    BY <1>4, <2>1, Zenon
  <2>3. CASE u = [t EXCEPT !.focus = x] \/ u = [t EXCEPT !.hex = x]
             \/ u = [t EXCEPT !.log = x] \/ u = [t EXCEPT !.status = x]
    BY <2>1, <2>3 DEF TabFields, Saved, Alike, Placed
  <2>4. CASE u = [t EXCEPT !.auth = x] \/ u = [t EXCEPT !.token = x]
             \/ u = [t EXCEPT !.jar = x] \/ u = [t EXCEPT !.pane = x, !.focus = "history"]
    BY <2>1, <2>4 DEF TabFields, Saved, Alike, Placed
  <2> QED
    BY <2>1, <2>2, <2>3, <2>4
<1>5. CASE EscKey \/ ToggleComposerMode \/ LogKey \/ NoAnswer \/ OAuthCommand \/ HistoryCommand
  BY <1>2, <1>4, <1>5 DEF EscKey, ToggleComposerMode, LogKey, NoAnswer, OAuthCommand, HistoryCommand
<1>6. CASE CookiesCommand
  <2>1. PICK on : Becomes([Tab EXCEPT !.jar.enabled = on])
    BY <1>6 DEF CookiesCommand
  <2>2. PICK jar : jar = [Tab.jar EXCEPT !.enabled = on]
    OBVIOUS
  <2>3. [Tab EXCEPT !.jar.enabled = on] = [Tab EXCEPT !.jar = jar]
    BY <1>1, <2>2 DEF TabOK, TabFields
  <2> QED
    BY <1>2, <1>4, <2>1, <2>3
<1>7. CASE GrpcCommand
  <2>1. PICK grpc, method : ToggleGrpc(Tab) = [Tab EXCEPT !.grpc = grpc, !.method = method]
    BY DEF ToggleGrpc
  <2>2. PICK u : u = [ToggleGrpc(Tab) EXCEPT !.from = <<>>]
    OBVIOUS
  <2>3. Alike(u, Tab) /\ Placed(u, Tab)
    BY <1>1, <2>1, <2>2 DEF TabOK, TabFields, Saved, Alike, Placed
  <2> QED
    BY <1>2, <1>7, <2>2, <2>3 DEF GrpcCommand
<1>8. CASE Answer
  <2>1. PICK answer : \/ tabs' = tabs
                      \/ \E jar, follows : Recorded(answer, jar, follows) /\ active' = active
    BY <1>8 DEF Answer, GrpcAnswer, LastAnswer, Redirected
  <2>2. ASSUME NEW jar, NEW follows, Recorded(answer, jar, follows), active' = active
        PROVE  \E u : Becomes(u) /\ Alike(u, Tab) /\ Placed(u, Tab)
    <3>1. PICK l, shown :
            tabs' = [tabs EXCEPT ![active] =
                       [@ EXCEPT !.status = "connected", !.jar = jar, !.pane = l, !.log = shown]]
      BY <2>2 DEF Recorded
    <3>2. PICK u : u = [Tab EXCEPT !.status = "connected", !.jar = jar, !.pane = l, !.log = shown]
      OBVIOUS
    <3>3. Alike(u, Tab) /\ Placed(u, Tab)
      BY <1>1, <3>2 DEF TabOK, TabFields, Saved, Alike, Placed
    <3> QED
      BY <2>2, <3>1, <3>2, <3>3 DEF Becomes, Tab
  <2> QED
    BY <1>2, <1>3, <2>1, <2>2
<1>9. CASE RefreshAnswer \/ Callback \/ ExchangeAnswer
  <2>1. \/ tabs' = tabs
        \/ \E token : tabs' = [tabs EXCEPT ![active].token = token] /\ active' = active
    BY <1>9 DEF RefreshAnswer, Callback, ExchangeAnswer, Proceed, GiveUp, Store, Flows
  <2>2. ASSUME NEW token, tabs' = [tabs EXCEPT ![active].token = token], active' = active
        PROVE  \E u : Becomes(u) /\ Alike(u, Tab) /\ Placed(u, Tab)
    <3>1. PICK u : u = [Tab EXCEPT !.token = token]
      OBVIOUS
    <3>2. Becomes(u)
      BY <2>2, <3>1 DEF Becomes, Tab
    <3> QED
      BY <1>4, <3>1, <3>2
  <2> QED
    BY <1>2, <1>3, <2>1, <2>2
<1> QED
  BY <1>5, <1>6, <1>7, <1>8, <1>9

(* A tab more or less. *)
LEMMA TabsMeant ==
  ASSUME Typed, Meaning, OpenTab \/ CloseTab
  PROVE  Meaning'
<1>1. /\ IsList(tabs) /\ IsList(meant) /\ IsList(slipped) /\ Len(tabs) \in Nat
      /\ Len(meant) = Len(tabs) /\ Len(slipped) = Len(tabs)
  BY ListShape DEF Typed, TabsOK, Meaning
<1>2. \A i \in 1 .. Len(tabs) : slipped[i] \in BOOLEAN /\ (~slipped[i] => Shows(tabs[i], meant[i]))
  BY DEF Meaning
<1>3. CASE OpenTab
  <2>1. PICK l \in Listings(files, Shown) : tabs' = Append(tabs, NewTab(load.request, jarFile, l))
    BY <1>3 DEF OpenTab
  <2>2. meant' = Append(meant, load.request.fields) /\ slipped' = Append(slipped, FALSE)
    BY <1>3 DEF OpenTab
  <2>3. PICK t, rows, no : /\ t = NewTab(load.request, jarFile, l) /\ rows = load.request.fields
                           /\ no = FALSE
    OBVIOUS
  <2>4. Shows(t, rows)
    <3>1. Cardinality(l) <= Shown
      BY ListingsOK DEF Typed, FilesOK, Entries
    <3>2. RequestOK(load.request)
      BY RequestsAreOK DEF Typed, BoundsOK
    <3> QED
      BY <2>3, <3>1, <3>2, NewTabOK, LoadedShows
  <2>5. \A s, x : IsList(s) => /\ IsList(Append(s, x)) /\ Len(Append(s, x)) = Len(s) + 1
                              /\ \A i \in 1 .. Len(s) + 1 :
                                   Append(s, x)[i] = IF i = Len(s) + 1 THEN x ELSE s[i]
    <3>1. ASSUME NEW s, NEW x, IsList(s)
          PROVE  \A i \in 1 .. Len(s) + 1 : Append(s, x)[i] = IF i = Len(s) + 1 THEN x ELSE s[i]
      BY <3>1 DEF IsList
    <3> QED
      BY <3>1, ListShape
  <2>6. /\ IsList(tabs') /\ IsList(meant') /\ IsList(slipped')
        /\ Len(tabs') = Len(tabs) + 1 /\ Len(meant') = Len(tabs) + 1 /\ Len(slipped') = Len(tabs) + 1
    BY <1>1, <2>1, <2>2, <2>5
  <2>7. ASSUME NEW i \in 1 .. Len(tabs) + 1
        PROVE  /\ tabs'[i] = IF i = Len(tabs) + 1 THEN t ELSE tabs[i]
               /\ meant'[i] = IF i = Len(tabs) + 1 THEN rows ELSE meant[i]
               /\ slipped'[i] = IF i = Len(tabs) + 1 THEN no ELSE slipped[i]
    <3>1. Append(tabs, t)[i] = IF i = Len(tabs) + 1 THEN t ELSE tabs[i]
      BY <1>1, <2>5
    <3>2. Append(meant, rows)[i] = IF i = Len(tabs) + 1 THEN rows ELSE meant[i]
      BY <1>1, <2>5
    <3>3. Append(slipped, no)[i] = IF i = Len(tabs) + 1 THEN no ELSE slipped[i]
      BY <1>1, <2>5
    <3> QED
      BY <2>1, <2>2, <2>3, <3>1, <3>2, <3>3
  <2>8. \A i \in 1 .. Len(tabs) + 1 : i = Len(tabs) + 1 \/ i \in 1 .. Len(tabs)
    BY <1>1
  <2>9. ASSUME NEW i \in 1 .. Len(tabs) + 1
        PROVE  slipped'[i] \in BOOLEAN /\ (~slipped'[i] => Shows(tabs'[i], meant'[i]))
    <3>1. CASE i = Len(tabs) + 1
      BY <2>3, <2>4, <2>7, <3>1
    <3>2. CASE i # Len(tabs) + 1
      BY <1>2, <2>7, <2>8, <3>2
    <3> QED
      BY <3>1, <3>2
  <2> QED
    BY <2>6, <2>9 DEF Meaning
<1>4. CASE CloseTab
  <2>1. /\ tabs' = RemoveAt(tabs, active) /\ meant' = RemoveAt(meant, active)
        /\ slipped' = RemoveAt(slipped, active)
    BY <1>4 DEF CloseTab
  <2>2. active \in 1 .. Len(tabs)
    BY <1>4, InputOK DEF CloseTab
  <2>3. /\ IsList(tabs') /\ IsList(meant') /\ IsList(slipped')
        /\ Len(tabs') = Len(tabs) - 1 /\ Len(meant') = Len(tabs) - 1 /\ Len(slipped') = Len(tabs) - 1
    BY <1>1, <2>1, <2>2, RemoveShape
  <2>4. ASSUME NEW i \in 1 .. Len(tabs) - 1
        PROVE  \E j \in 1 .. Len(tabs) : tabs'[i] = tabs[j] /\ meant'[i] = meant[j] /\ slipped'[i] = slipped[j]
    <3>1. PICK j : j = IF i < active THEN i ELSE i + 1
      OBVIOUS
    <3>2. j \in 1 .. Len(tabs)
      BY <1>1, <2>2, <3>1
    <3>3. tabs'[i] = tabs[j] /\ meant'[i] = meant[j] /\ slipped'[i] = slipped[j]
      BY <1>1, <2>1, <2>2, <3>1, Without
    <3> QED
      BY <3>2, <3>3
  <2>5. \A i \in 1 .. Len(tabs) - 1 : slipped'[i] \in BOOLEAN /\ (~slipped'[i] => Shows(tabs'[i], meant'[i]))
    BY <1>2, <2>4
  <2> QED
    BY <2>3, <2>5 DEF Meaning
<1> QED
  BY <1>3, <1>4

LEMMA MeaningNext == Typed /\ Meaning /\ [Next]_vars => Meaning'
<1> SUFFICES ASSUME Typed, Meaning, [Next]_vars PROVE Meaning'
  OBVIOUS
<1>1. Typed'
  BY TypedNext
<1>2. CASE UNCHANGED <<tabs, meant, slipped>>
  BY <1>2 DEF Meaning
<1>3. CASE UNCHANGED vars
  BY <1>2, <1>3 DEF vars, ui, histories
<1>4. CASE SaveRequest \/ SelectRequest \/ DeleteRequest \/ SwitchTab \/ Tick
  BY <1>2, <1>4 DEF SaveRequest, SelectRequest, DeleteRequest, SwitchTab, Tick, histories
<1> QED
  BY <1>1, <1>3, <1>4, FormMeant, CommandMeant, CarriedSteps, TabsMeant DEF Next

LEMMA MeaningInvariance == Spec => []Meaning
<1> QED
  BY MeaningInit, MeaningNext, TypedInvariance, PTL DEF Spec

(* Without variables there is nothing to substitute: the fold over none of  *)
(* them is the text it begins with.                                         *)
LEMMA NothingToSubstitute ==
  ASSUME NEW text
  PROVE  Substitute(<<>>, text) = text
<1>1. SUBSET (DOMAIN <<>>) = {{}}
  OBVIOUS
<1>2. \A g : g = [s \in SUBSET (DOMAIN <<>>) |->
                    IF s = {} THEN text
                    ELSE IF g[s \ {Max(s)}] = <<>>[Max(s)].name THEN <<>>[Max(s)].value
                         ELSE g[s \ {Max(s)}]]
             <=> g = [s \in {{}} |-> text]
  BY <1>1
<1>3. Substitute(<<>>, text) =
        (CHOOSE g : g = [s \in SUBSET (DOMAIN <<>>) |->
                           IF s = {} THEN text
                           ELSE IF g[s \ {Max(s)}] = <<>>[Max(s)].name THEN <<>>[Max(s)].value
                                ELSE g[s \ {Max(s)}]])[DOMAIN <<>>]
  BY Zenon DEF Substitute, FoldLeft, MapThenFoldSet
<1>4. \E g : g = [s \in SUBSET (DOMAIN <<>>) |->
                    IF s = {} THEN text
                    ELSE IF g[s \ {Max(s)}] = <<>>[Max(s)].name THEN <<>>[Max(s)].value
                         ELSE g[s \ {Max(s)}]]
  BY <1>2
<1>5. PICK c : /\ c = (CHOOSE g : g = [s \in SUBSET (DOMAIN <<>>) |->
                          IF s = {} THEN text
                          ELSE IF g[s \ {Max(s)}] = <<>>[Max(s)].name THEN <<>>[Max(s)].value
                               ELSE g[s \ {Max(s)}]])
               /\ c = [s \in SUBSET (DOMAIN <<>>) |->
                          IF s = {} THEN text
                          ELSE IF c[s \ {Max(s)}] = <<>>[Max(s)].name THEN <<>>[Max(s)].value
                               ELSE c[s \ {Max(s)}]]
  BY <1>4, Zenon
<1>6. c = [s \in {{}} |-> text]
  BY <1>2, <1>5
<1>7. Substitute(<<>>, text) = c[DOMAIN <<>>]
  BY <1>3, <1>5, Zenon
<1> QED
  BY <1>6, <1>7

LEMMA RowsUnsubstituted ==
  ASSUME NEW s, IsForm(s)
  PROVE  [i \in DOMAIN s |-> SubstituteRow(<<>>, s[i])] = s
<1>1. ASSUME NEW i \in DOMAIN s
      PROVE  SubstituteRow(<<>>, s[i]) = s[i]
  <2>1. PICK x : x = s[i]
    OBVIOUS
  <2>2. x = [n \in DOMAIN x |-> x[n]]
    BY <2>1, FormShape DEF IsRow
  <2>3. [x EXCEPT !.key = x.key, !.value = x.value] = x
    BY <2>2
  <2> QED
    BY <2>1, <2>3, NothingToSubstitute DEF SubstituteRow
<1>2. s = [i \in DOMAIN s |-> s[i]]
  BY DEF IsForm
<1> QED
  BY <1>1, <1>2

(* What is typed into a form is sent: for any sequence of inputs, in any    *)
(* number of tabs, a request carries the rows that the operator sees, the   *)
(* one that is being edited included (build_spec), unless the form was left *)
(* by one of the two ways that forget it.                                   *)
THEOREM RowsSentAsTyped == Spec => []SentAsTyped
<1>1. ASSUME NEW t, TabOK(t), NEW rows, Shows(t, rows), rows # <<>>, t.mode \in Forms, load.env = <<>>,
             NEW s \in BuildSpec(t)
      PROVE  s.fields = rows
  <2>1. PICK b \in Bodies(t) : s = WithCookie(t.jar, WithRows(SubstituteSpec(load.env, Draft(t, b))))
    BY DEF BuildSpec
  <2>2. Overlaid(t) = rows
    BY <1>1, CommitShape DEF Overlaid, Shows
  <2>3. IsForm(rows)
    BY <1>1, CommitHolds DEF Holds, TabOK
  <2>4. PICK d : d = Draft(t, b)
    OBVIOUS
  <2>5. d.fields = rows /\ DOMAIN d = DOMAIN Draft(t, b) /\ "fields" \in DOMAIN d
    BY <2>2, <2>4 DEF Draft
  <2>6. PICK e : e = SubstituteSpec(<<>>, d)
    OBVIOUS
  <2>7. e.fields = rows
    <3>1. PICK list : list = [i \in DOMAIN d.fields |-> SubstituteRow(<<>>, d.fields[i])]
      OBVIOUS
    <3>2. list = rows
      BY <2>3, <2>5, <3>1, RowsUnsubstituted
    <3>3. PICK url, token, user, pass, value, headers, body :
            e = [d EXCEPT !.url.at = url, !.token = token, !.user = user, !.pass = pass,
                          !.value = value, !.headers = headers, !.body = body, !.fields = list]
      BY <2>6, <3>1 DEF SubstituteSpec
    <3> QED
      BY <2>5, <3>2, <3>3
  <2>8. WithRows(e) = e
    BY <1>1, <2>7 DEF WithRows
  <2>9. s = WithCookie(t.jar, e)
    BY <1>1, <2>1, <2>4, <2>6, <2>8
  <2> QED
    BY <2>7, <2>9 DEF WithCookie
<1>2. Typed /\ Meaning => SentAsTyped
  <2> SUFFICES ASSUME Typed, Meaning PROVE SentAsTyped
    OBVIOUS
  <2>1. \A i \in DOMAIN tabs : TabOK(tabs[i]) /\ (~slipped[i] => Shows(tabs[i], meant[i]))
    BY ListShape DEF Typed, TabsOK, Meaning
  <2> QED
    BY <1>1, <2>1 DEF SentAsTyped
<1> QED
  BY <1>2, TypedInvariance, MeaningInvariance, PTL

------------------------------------------------------------------------------
(* Cookies.  What a list holds, without its order.                         *)
Elems(s) == {s[i] : i \in 1 .. Len(s)}

LEMMA ElemsAppend ==
  ASSUME NEW S, NEW s \in Seq(S), NEW e \in S
  PROVE  Append(s, e) \in Seq(S) /\ Elems(Append(s, e)) = Elems(s) \cup {e}
<1>1. PICK t : t = Append(s, e)
  OBVIOUS
<1>2. /\ t \in Seq(S) /\ Len(t) = Len(s) + 1 /\ Len(s) \in Nat
      /\ \A i \in 1 .. Len(s) : t[i] = s[i]
      /\ t[Len(s) + 1] = e
  BY <1>1
<1>3. \A i \in 1 .. Len(s) + 1 : i = Len(s) + 1 \/ i \in 1 .. Len(s)
  BY <1>2
<1>4. \A x \in Elems(t) : x \in Elems(s) \cup {e}
  BY <1>2, <1>3 DEF Elems
<1>5. Len(s) + 1 \in 1 .. Len(t) /\ \A i \in 1 .. Len(s) : i \in 1 .. Len(t)
  BY <1>2
<1>6. \A x \in Elems(s) \cup {e} : x \in Elems(t)
  BY <1>2, <1>5 DEF Elems
<1> QED
  BY <1>1, <1>2, <1>4, <1>6

LEMMA ElemsNone == <<>> \in Seq({}) /\ Elems(<<>>) = {}
  BY DEF Elems

(* Retain adds the elements one by one. *)
Retains(f, s, K) ==
  /\ f[0] = <<>>
  /\ \A i \in 1 .. Len(s) : f[i] = IF s[i] \in K THEN Append(f[i - 1], s[i]) ELSE f[i - 1]

LEMMA RetainWalks ==
  ASSUME NEW S, NEW s \in Seq(S), NEW K
  PROVE  \E f : Retains(f, s, K) /\ Retain(s, K) = f[Len(s)]
<1> DEFINE T == Seq(S)
           n == Len(s)
           h == [i \in 1 .. n |-> [t \in T |-> IF s[i] \in K THEN Append(t, s[i]) ELSE t]]
<1>0. n \in Nat /\ DOMAIN s = 1 .. n /\ \A i \in 1 .. n : s[i] \in S
  OBVIOUS
<1>1. Steps(h, n, T)
  BY <1>0 DEF Steps
<1>2. \A i \in 1 .. n : \A t \in T : h[i][t] = IF s[i] \in K THEN Append(t, s[i]) ELSE t
  OBVIOUS
<1>3. <<>> \in T
  OBVIOUS
<1> HIDE DEF h, T
<1>4. PICK g : Folds(g, <<>>, h, n) /\ g \in [SUBSET (1 .. n) -> T]
  BY <1>0, <1>1, <1>3, FoldExists
<1> HIDE DEF n
<1>5. ASSUME NEW r \in SUBSET (1 .. n), r # {}
      PROVE  h[Max(r)][g[r \ {Max(r)}]] =
               IF s[Max(r)] \in K THEN Append(g[r \ {Max(r)}], s[Max(r)]) ELSE g[r \ {Max(r)}]
  <2>1. Max(r) \in 1 .. n
    BY <1>0, <1>5, GreatestOf
  <2>2. r \ {Max(r)} \in SUBSET (1 .. n)
    OBVIOUS
  <2>3. g[r \ {Max(r)}] \in T
    BY <1>4, <2>2
  <2> QED
    BY <1>2, <2>1, <2>3
<1>6. g = [r \in SUBSET (DOMAIN s) |->
             IF r = {} THEN <<>>
             ELSE IF s[Max(r)] \in K THEN Append(g[r \ {Max(r)}], s[Max(r)]) ELSE g[r \ {Max(r)}]]
  <2>1. \A r \in SUBSET (1 .. n) :
          (IF r = {} THEN <<>> ELSE h[Max(r)][g[r \ {Max(r)}]]) =
          (IF r = {} THEN <<>>
           ELSE IF s[Max(r)] \in K THEN Append(g[r \ {Max(r)}], s[Max(r)]) ELSE g[r \ {Max(r)}])
    BY <1>5
  <2> QED
    BY <1>0, <1>4, <2>1, Zenon DEF Folds
<1>7. PICK c : /\ c = [r \in SUBSET (DOMAIN s) |->
                         IF r = {} THEN <<>>
                         ELSE IF s[Max(r)] \in K THEN Append(c[r \ {Max(r)}], s[Max(r)])
                              ELSE c[r \ {Max(r)}]]
               /\ Retain(s, K) = c[DOMAIN s]
  BY <1>6, Zenon DEF Retain, FoldLeft, MapThenFoldSet
<1>8. PICK f : f = [i \in 0 .. n |-> c[1 .. i]]
  OBVIOUS
<1>9. f[0] = <<>>
  BY <1>0, <1>7, <1>8, FirstPlaces
<1>10. ASSUME NEW i \in 1 .. n
       PROVE  f[i] = IF s[i] \in K THEN Append(f[i - 1], s[i]) ELSE f[i - 1]
  <2>1. PICK r : r = 1 .. i
    OBVIOUS
  <2>2. r \in SUBSET (DOMAIN s) /\ r # {} /\ Max(r) = i /\ r \ {Max(r)} = 1 .. i - 1
    BY <1>0, <2>1, FirstPlaces
  <2>3. c[r] = IF s[i] \in K THEN Append(c[1 .. i - 1], s[i]) ELSE c[1 .. i - 1]
    BY <1>7, <2>2
  <2>4. f[i] = c[r] /\ f[i - 1] = c[1 .. i - 1]
    BY <1>0, <1>8, <2>1
  <2> QED
    BY <2>3, <2>4
<1>11. f[n] = c[DOMAIN s]
  BY <1>0, <1>8
<1> QED
  BY <1>7, <1>9, <1>10, <1>11 DEF Retains, n

LEMMA RetainIs ==
  ASSUME NEW S, NEW s \in Seq(S), NEW K
  PROVE  Retain(s, K) \in Seq(S) /\ Elems(Retain(s, K)) = Elems(s) \cap K
<1>1. PICK f : Retains(f, s, K) /\ Retain(s, K) = f[Len(s)]
  BY RetainWalks
<1> DEFINE First(n) == {s[i] : i \in 1 .. n}
           P == {n \in Nat : f[n] \in Seq(S) /\ Elems(f[n]) = First(n) \cap K}
<1>0. Len(s) \in Nat /\ \A i \in 1 .. Len(s) : s[i] \in S
  OBVIOUS
<1>2. 0 \in P
  <2>1. <<>> \in Seq(S) /\ First(0) = {}
    OBVIOUS
  <2> QED
    BY <1>1, <2>1, ElemsNone DEF Retains
<1>3. ASSUME NEW n \in 1 .. Len(s), n - 1 \in P PROVE n \in P
  <2>1. f[n] = IF s[n] \in K THEN Append(f[n - 1], s[n]) ELSE f[n - 1]
    BY <1>1 DEF Retains
  <2>2. First(n) = First(n - 1) \cup {s[n]}
    <3>1. 1 .. n = (1 .. n - 1) \cup {n}
      BY <1>0
    <3> QED
      BY <3>1, Zenon
  <2>3. f[n - 1] \in Seq(S) /\ Elems(f[n - 1]) = First(n - 1) \cap K
    BY <1>3
  <2> HIDE DEF First
  <2>4. f[n] \in Seq(S) /\ Elems(f[n]) = First(n) \cap K
    <3>1. Append(f[n - 1], s[n]) \in Seq(S) /\ Elems(Append(f[n - 1], s[n])) = Elems(f[n - 1]) \cup {s[n]}
      BY <1>0, <2>3, ElemsAppend
    <3> QED
      BY <2>1, <2>2, <2>3, <3>1
  <2> QED
    BY <2>4, <1>0
<1>4. Len(s) \in P
  <2> HIDE DEF P
  <2>1. 0 .. Len(s) \subseteq P
    BY <1>0, <1>2, <1>3, InductionUpTo
  <2> QED
    BY <1>0, <2>1
<1> QED
  BY <1>1, <1>4 DEF Elems

Same(c, d) == c.name = d.name /\ c.domain = d.domain

FreshOf(cookies, time) == {c \in Elems(cookies) : Fresh(c, time)}

(* What becomes of fresh cookies when c is set. *)
Replaced(cookies, c, time) == {x \in cookies : ~Same(x, c)} \cup {x \in {c} : Fresh(x, time)}

LEMMA StoreCookieIs ==
  ASSUME NEW S, NEW s \in Seq(S), NEW c \in S, NEW time
  PROVE  /\ StoreCookie(s, c, time) \in Seq(S)
         /\ FreshOf(StoreCookie(s, c, time), time) = Replaced(FreshOf(s, time), c, time)
<1>1. PICK K : K = {x \in ToSet(s) : x.name # c.name \/ x.domain # c.domain}
  OBVIOUS
<1>2. PICK others : others = Retain(s, K)
  OBVIOUS
<1>3. others \in Seq(S) /\ Elems(others) = Elems(s) \cap K
  BY <1>2, RetainIs
<1>4. ToSet(s) = Elems(s)
  BY DEF ToSet, Elems
<1>5. Elems(others) = {x \in Elems(s) : ~Same(x, c)}
  BY <1>1, <1>3, <1>4 DEF Same
<1>6. StoreCookie(s, c, time) = IF Fresh(c, time) THEN Append(others, c) ELSE others
  BY <1>1, <1>2 DEF StoreCookie
<1>7. Append(others, c) \in Seq(S) /\ Elems(Append(others, c)) = Elems(others) \cup {c}
  BY <1>3, ElemsAppend
<1>8. CASE Fresh(c, time)
  BY <1>5, <1>6, <1>7, <1>8 DEF FreshOf, Replaced
<1>9. CASE ~Fresh(c, time)
  BY <1>3, <1>5, <1>6, <1>9 DEF FreshOf, Replaced
<1> QED
  BY <1>8, <1>9

(* An answer's cookies are stored one by one. *)
Stores(f, s, d, url, time) ==
  /\ f[0] = s
  /\ \A i \in 1 .. Len(d) : f[i] = StoreCookie(f[i - 1], ParseSetCookie(d[i], url, time), time)

Stored(s, d, url, time) ==
  FoldLeft(LAMBDA cs, x : StoreCookie(cs, ParseSetCookie(x, url, time), time), s, d)

LEMMA StoreWalks ==
  ASSUME NEW S, NEW s \in Seq(S), NEW D, NEW d \in Seq(D), NEW url, NEW time,
         \A i \in 1 .. Len(d) : ParseSetCookie(d[i], url, time) \in S
  PROVE  \E f : Stores(f, s, d, url, time) /\ Stored(s, d, url, time) = f[Len(d)]
<1> DEFINE T == Seq(S)
           n == Len(d)
           next(t, e) == StoreCookie(t, ParseSetCookie(e, url, time), time)
           h == [i \in 1 .. n |-> [t \in T |-> next(t, d[i])]]
<1>0. n \in Nat /\ DOMAIN d = 1 .. n
  OBVIOUS
<1> HIDE DEF next
<1>1. Steps(h, n, T)
  <2>1. ASSUME NEW i \in 1 .. n, NEW t \in T PROVE next(t, d[i]) \in T
    BY StoreCookieIs DEF next
  <2> QED
    BY <2>1 DEF Steps
<1>2. \A i \in 1 .. n : \A t \in T : h[i][t] = next(t, d[i])
  OBVIOUS
<1>3. s \in T
  OBVIOUS
<1> HIDE DEF h, T
<1>4. PICK g : Folds(g, s, h, n) /\ g \in [SUBSET (1 .. n) -> T]
  BY <1>0, <1>1, <1>3, FoldExists
<1> HIDE DEF n
<1>5. ASSUME NEW r \in SUBSET (1 .. n), r # {}
      PROVE  h[Max(r)][g[r \ {Max(r)}]] = next(g[r \ {Max(r)}], d[Max(r)])
  <2>1. Max(r) \in 1 .. n
    BY <1>0, <1>5, GreatestOf
  <2>2. r \ {Max(r)} \in SUBSET (1 .. n)
    OBVIOUS
  <2>3. g[r \ {Max(r)}] \in T
    BY <1>4, <2>2
  <2> QED
    BY <1>2, <2>1, <2>3
<1>6. g = [r \in SUBSET (DOMAIN d) |-> IF r = {} THEN s ELSE next(g[r \ {Max(r)}], d[Max(r)])]
  <2>1. \A r \in SUBSET (1 .. n) :
          (IF r = {} THEN s ELSE h[Max(r)][g[r \ {Max(r)}]]) =
          (IF r = {} THEN s ELSE next(g[r \ {Max(r)}], d[Max(r)]))
    BY <1>5
  <2> QED
    BY <1>0, <1>4, <2>1, Zenon DEF Folds
<1>7. PICK c : /\ c = [r \in SUBSET (DOMAIN d) |->
                         IF r = {} THEN s ELSE next(c[r \ {Max(r)}], d[Max(r)])]
               /\ Stored(s, d, url, time) = c[DOMAIN d]
  BY <1>6, Zenon DEF Stored, FoldLeft, MapThenFoldSet, next
<1>8. PICK f : f = [i \in 0 .. n |-> c[1 .. i]]
  OBVIOUS
<1>9. f[0] = s
  BY <1>0, <1>7, <1>8, FirstPlaces
<1>10. ASSUME NEW i \in 1 .. n
       PROVE  f[i] = next(f[i - 1], d[i])
  <2>1. PICK r : r = 1 .. i
    OBVIOUS
  <2>2. r \in SUBSET (DOMAIN d) /\ r # {} /\ Max(r) = i /\ r \ {Max(r)} = 1 .. i - 1
    BY <1>0, <2>1, FirstPlaces
  <2>3. c[r] = next(c[1 .. i - 1], d[i])
    BY <1>7, <2>2
  <2>4. f[i] = c[r] /\ f[i - 1] = c[1 .. i - 1]
    BY <1>0, <1>8, <2>1
  <2> QED
    BY <2>3, <2>4
<1>11. f[n] = c[DOMAIN d]
  BY <1>0, <1>8
<1> QED
  BY <1>7, <1>9, <1>10, <1>11 DEF Stores, n, next

------------------------------------------------------------------------------
(* Which of the first n cookies that answers set are fresh, none of the     *)
(* later ones being of the same name and domain.                           *)
CookieOf(e) == ParseSetCookie(e.set, e.url, e.at)

Latest(G, n, i) == \A j \in i + 1 .. n : ~Same(CookieOf(G[j]), CookieOf(G[i]))

Kept(G, n, time) == {CookieOf(G[i]) : i \in {i \in 1 .. n : Fresh(CookieOf(G[i]), time) /\ Latest(G, n, i)}}

LEMMA KeptNext ==
  ASSUME NEW G, NEW n \in Nat, NEW time
  PROVE  Kept(G, n + 1, time) = Replaced(Kept(G, n, time), CookieOf(G[n + 1]), time)
<1>c. PICK c : c = CookieOf(G[n + 1])
  OBVIOUS
<1> DEFINE A == Kept(G, n + 1, time)
           B == {x \in Kept(G, n, time) : ~Same(x, c)}
           C == {x \in {c} : Fresh(x, time)}
<1>0. \A x, y : Same(x, y) => Same(y, x)
  BY DEF Same
<1>1. ASSUME NEW x \in A PROVE x \in B \cup C
  <2>1. PICK i \in 1 .. n + 1 : x = CookieOf(G[i]) /\ Fresh(x, time) /\ Latest(G, n + 1, i)
    BY <1>1 DEF Kept
  <2>2. CASE i = n + 1
    BY <1>c, <2>1, <2>2
  <2>3. CASE i # n + 1
    <3>1. i \in 1 .. n /\ n + 1 \in i + 1 .. n + 1
      BY <2>3
    <3>2. ~Same(x, c)
      BY <1>0, <1>c, <2>1, <3>1 DEF Latest
    <3>3. Latest(G, n, i)
      <4>1. \A j \in i + 1 .. n : j \in i + 1 .. n + 1
        BY <3>1
      <4> QED
        BY <2>1, <4>1 DEF Latest
    <3>4. x \in Kept(G, n, time)
      BY <2>1, <3>1, <3>3 DEF Kept
    <3> QED
      BY <3>2, <3>4
  <2> QED
    BY <2>2, <2>3
<1>2. ASSUME NEW x \in B PROVE x \in A
  <2>1. PICK i \in 1 .. n : x = CookieOf(G[i]) /\ Fresh(x, time) /\ Latest(G, n, i)
    BY <1>2 DEF Kept
  <2>2. ~Same(c, x)
    BY <1>0, <1>2
  <2>3. \A j \in i + 1 .. n + 1 : j = n + 1 \/ j \in i + 1 .. n
    OBVIOUS
  <2>4. Latest(G, n + 1, i)
    BY <1>c, <2>1, <2>2, <2>3 DEF Latest
  <2>5. i \in 1 .. n + 1
    OBVIOUS
  <2> QED
    BY <2>1, <2>4, <2>5 DEF Kept
<1>3. ASSUME NEW x \in C PROVE x \in A
  <2>1. (n + 1) + 1 .. n + 1 = {} /\ n + 1 \in 1 .. n + 1
    OBVIOUS
  <2>2. Latest(G, n + 1, n + 1)
    BY <2>1 DEF Latest
  <2>3. x = CookieOf(G[n + 1]) /\ Fresh(CookieOf(G[n + 1]), time)
    BY <1>3, <1>c
  <2> QED
    BY <2>1, <2>2, <2>3 DEF Kept
<1> HIDE DEF A, B, C
<1>4. A = B \cup C
  BY <1>1, <1>2, <1>3
<1> QED
  BY <1>c, <1>4 DEF A, B, C, Replaced

LEMMA KeptNone == \A G, time : Kept(G, 0, time) = {}
  BY DEF Kept

SameFirst(G, H, n) == \A i \in 1 .. n : G[i] = H[i]

LEMMA KeptFirst ==
  ASSUME NEW G, NEW H, NEW n \in Nat, SameFirst(G, H, n), NEW time
  PROVE  Kept(G, n, time) = Kept(H, n, time)
<1> USE DEF SameFirst
<1>1. ASSUME NEW i \in 1 .. n PROVE Latest(G, n, i) <=> Latest(H, n, i)
  <2>1. \A j \in i + 1 .. n : j \in 1 .. n
    OBVIOUS
  <2> QED
    BY <2>1 DEF Latest
<1> QED
  BY <1>1 DEF Kept

LEMMA FreshEarlier ==
  ASSUME NEW c, c.expires \subseteq Int, NEW time \in Int, Fresh(c, time + 1)
  PROVE  Fresh(c, time)
BY DEF Fresh

(* Those of some cookies that are fresh; a list whose cookies end at times. *)
StillFresh(K, time) == {x \in K : Fresh(x, time)}

Dated(G, n) == \A i \in 1 .. n : CookieOf(G[i]).expires \subseteq Int

LEMMA KeptLater ==
  ASSUME NEW G, NEW n \in Nat, NEW time \in Int, Dated(G, n)
  PROVE  Kept(G, n, time + 1) = StillFresh(Kept(G, n, time), time + 1)
BY FreshEarlier DEF Kept, StillFresh, Dated

LEMMA FreshLater ==
  ASSUME NEW s, NEW time \in Int, \A x \in Elems(s) : x.expires \subseteq Int
  PROVE  FreshOf(s, time + 1) = StillFresh(FreshOf(s, time), time + 1)
BY FreshEarlier DEF FreshOf, StillFresh

LEMMA ParsedTimed ==
  ASSUME NEW set, set.maxAge \subseteq Int, NEW url, NEW at \in Nat
  PROVE  ParseSetCookie(set, url, at).expires \subseteq Int
<1>1. \A age \in set.maxAge : (IF age <= 0 THEN at - 1 ELSE at + age) \in Int
  OBVIOUS
<1> QED
  BY <1>1 DEF ParseSetCookie

Timed(S) == \A x \in S : x.expires \subseteq Int

Aged(d) == \A i \in 1 .. Len(d) : d[i].maxAge \subseteq Int

GoesOn(G, g, d, url, time) ==
  \A i \in 1 .. Len(d) : CookieOf(G[g + i]) = ParseSetCookie(d[i], url, time)

(* A list of cookies of which those are fresh that are kept of G's first n. *)
KeptBy(cookies, G, n, time) ==
  /\ \E S : cookies \in Seq(S) /\ Timed(S)
  /\ FreshOf(cookies, time) = Kept(G, n, time)

LEMMA StoredIs ==
  ASSUME NEW s, NEW d \in Seq(SetCookies), Aged(d), NEW url, NEW time \in Nat,
         NEW G, NEW g \in Nat, GoesOn(G, g, d, url, time), KeptBy(s, G, g, time)
  PROVE  KeptBy(Stored(s, d, url, time), G, g + Len(d), time)
<1> USE DEF Timed, Aged
<1>a. PICK S : s \in Seq(S) /\ Timed(S)
  BY DEF KeptBy
<1>b. FreshOf(s, time) = Kept(G, g, time)
  BY DEF KeptBy
<1>d. \A i \in 1 .. Len(d) : CookieOf(G[g + i]) = ParseSetCookie(d[i], url, time)
  BY DEF GoesOn
<1>0. Len(d) \in Nat
  OBVIOUS
<1>1. PICK T : T = S \cup {ParseSetCookie(d[i], url, time) : i \in 1 .. Len(d)}
  OBVIOUS
<1>2. \A x \in T : x.expires \subseteq Int
  BY <1>1, <1>a, ParsedTimed
<1>3. s \in Seq(T)
  <2>1. S \subseteq T
    BY <1>1
  <2>2. \A z \in Seq(S) : z \in Seq(T)
    BY <2>1
  <2> QED
    BY <1>a, <2>2
<1>4. \A i \in 1 .. Len(d) : ParseSetCookie(d[i], url, time) \in T
  BY <1>1
<1>5. PICK f : Stores(f, s, d, url, time) /\ Stored(s, d, url, time) = f[Len(d)]
  BY <1>3, <1>4, StoreWalks
<1> DEFINE P == {n \in Nat : f[n] \in Seq(T) /\ FreshOf(f[n], time) = Kept(G, g + n, time)}
<1>6. 0 \in P
  <2>1. f[0] = s /\ g + 0 = g
    BY <1>5 DEF Stores
  <2> QED
    BY <1>b, <1>3, <2>1
<1>7. ASSUME NEW n \in 1 .. Len(d), n - 1 \in P PROVE n \in P
  <2>1. PICK c, m : c = ParseSetCookie(d[n], url, time) /\ m = g + (n - 1)
    OBVIOUS
  <2>2. m \in Nat /\ m + 1 = g + n
    BY <2>1
  <2>3. c \in T /\ c = CookieOf(G[m + 1])
    BY <1>4, <1>d, <2>1, <2>2
  <2>4. f[n - 1] \in Seq(T) /\ FreshOf(f[n - 1], time) = Kept(G, m, time)
    BY <1>7, <2>1
  <2>5. f[n] = StoreCookie(f[n - 1], c, time)
    BY <1>5, <2>1 DEF Stores
  <2>6. /\ f[n] \in Seq(T)
        /\ FreshOf(f[n], time) = Replaced(FreshOf(f[n - 1], time), c, time)
    BY <2>3, <2>4, <2>5, StoreCookieIs
  <2>7. Kept(G, m + 1, time) = Replaced(Kept(G, m, time), c, time)
    BY <2>2, <2>3, KeptNext
  <2>8. FreshOf(f[n], time) = Kept(G, g + n, time)
    BY <2>2, <2>4, <2>6, <2>7
  <2> QED
    BY <2>6, <2>8
<1>8. Len(d) \in P
  <2> HIDE DEF P
  <2>1. 0 .. Len(d) \subseteq P
    BY <1>0, <1>6, <1>7, InductionUpTo
  <2> QED
    BY <1>0, <2>1
<1> QED
  <2>1. f[Len(d)] \in Seq(T) /\ FreshOf(f[Len(d)], time) = Kept(G, g + Len(d), time)
    BY <1>8
  <2> QED
    BY <1>2, <1>5, <2>1 DEF KeptBy

(* A jar that holds what G gave and is fresh. *)
Agrees(jar, G, time) ==
  /\ DOMAIN jar = {"enabled", "cookies"} /\ jar.enabled \in BOOLEAN
  /\ KeptBy(jar.cookies, G, Len(G), time)

GivenOK(G) ==
  IsList(G) /\ \A i \in 1 .. Len(G) : G[i].at \in Nat /\ G[i].set.maxAge \subseteq Int

LEMMA AgesAre ==
  ASSUME NEW d \in Seq(SetCookies)
  PROVE  Aged(d)
<1>1. ASSUME NEW x \in SetCookies PROVE x.maxAge \subseteq Int
  BY DEF SetCookies
<1>2. \A i \in 1 .. Len(d) : d[i] \in SetCookies
  OBVIOUS
<1> QED
  BY <1>1, <1>2 DEF Aged

More(G, H, d, url, time) ==
  /\ GivenOK(H) /\ Len(H) = Len(G) + Len(d) /\ Len(G) \in Nat
  /\ SameFirst(G, H, Len(G)) /\ GoesOn(H, Len(G), d, url, time)

Joined(T, a, b, c) ==
  /\ c \in Seq(T) /\ Len(c) = Len(a) + Len(b) /\ Len(a) \in Nat
  /\ \A i \in 1 .. Len(a) : c[i] = a[i]
  /\ \A i \in 1 .. Len(b) : c[Len(a) + i] = b[i]

LEMMA Join == \A T : \A a, b \in Seq(T) : Joined(T, a, b, a \o b)
BY DEF Joined

LEMMA GivenMore ==
  ASSUME NEW G, GivenOK(G), NEW d \in Seq(SetCookies), NEW url, NEW time \in Nat
  PROVE  More(G, G \o Gives(d, url, time), d, url, time)
<1>h. PICK H : H = G \o Gives(d, url, time)
  OBVIOUS
<1>0. PICK e : e = Gives(d, url, time)
  OBVIOUS
<1>1. e = [i \in DOMAIN d |-> [url |-> url, at |-> time, set |-> d[i]]]
  BY <1>0 DEF Gives
<1>2. PICK S : G \in Seq(S)
  BY DEF GivenOK, IsList
<1>3. PICK T : T = S \cup {e[i] : i \in 1 .. Len(d)}
  OBVIOUS
<1>4. G \in Seq(T)
  <2>1. S \subseteq T
    BY <1>3
  <2>2. \A z \in Seq(S) : z \in Seq(T)
    BY <2>1
  <2> QED
    BY <1>2, <2>2
<1>5. e \in Seq(T) /\ Len(e) = Len(d) /\ Len(d) \in Nat /\ DOMAIN d = 1 .. Len(d)
  <2>1. Len(d) \in Nat /\ DOMAIN d = 1 .. Len(d)
    OBVIOUS
  <2>2. e = [i \in 1 .. Len(d) |-> e[i]] /\ \A i \in 1 .. Len(d) : e[i] \in T
    BY <1>1, <1>3, <2>1
  <2> QED
    BY <2>1, <2>2
<1>6. /\ H \in Seq(T) /\ Len(H) = Len(G) + Len(d) /\ Len(G) \in Nat
      /\ \A i \in 1 .. Len(G) : H[i] = G[i]
      /\ \A i \in 1 .. Len(d) : H[Len(G) + i] = e[i]
  <2>1. H = G \o e
    BY <1>0, <1>h
  <2>2. Joined(T, G, e, H)
    BY <1>4, <1>5, <2>1, Join, Zenon
  <2> QED
    BY <1>5, <2>2 DEF Joined
<1>7. \A i \in 1 .. Len(d) : /\ e[i].url = url /\ e[i].at = time /\ e[i].set = d[i]
                             /\ d[i].maxAge \subseteq Int
  BY <1>1, <1>5, AgesAre DEF Aged
<1>8. \A i \in 1 .. Len(d) : CookieOf(H[Len(G) + i]) = ParseSetCookie(d[i], url, time)
  BY <1>6, <1>7 DEF CookieOf
<1>9. GivenOK(H)
  <2>1. IsList(H)
    BY <1>6 DEF IsList
  <2>2. ASSUME NEW i \in 1 .. Len(H) PROVE H[i].at \in Nat /\ H[i].set.maxAge \subseteq Int
    <3>1. CASE i \in 1 .. Len(G)
      BY <1>6, <3>1 DEF GivenOK
    <3>2. CASE i \notin 1 .. Len(G)
      <4>1. i - Len(G) \in 1 .. Len(d) /\ i = Len(G) + (i - Len(G))
        BY <1>5, <1>6, <3>2
      <4>2. H[i] = e[i - Len(G)]
        BY <1>6, <4>1
      <4> QED
        BY <1>7, <4>1, <4>2
    <3> QED
      BY <3>1, <3>2
  <2> QED
    BY <2>1, <2>2 DEF GivenOK
<1> QED
  BY <1>h, <1>5, <1>6, <1>8, <1>9 DEF SameFirst, GoesOn, More

LEMMA ResponseStored ==
  ASSUME NEW G, GivenOK(G), NEW time \in Nat, NEW jar, Agrees(jar, G, time), jar.enabled,
         NEW answer, answer.cookies \in Seq(SetCookies), NEW url,
         NEW H, H = G \o Gives(answer.cookies, url, time)
  PROVE  GivenOK(H) /\ Agrees(StoreFromResponse(jar, url, answer, time), H, time)
<1>1. PICK d : d = answer.cookies
  OBVIOUS
<1>2. /\ GivenOK(H) /\ Len(H) = Len(G) + Len(d) /\ Len(G) \in Nat
      /\ SameFirst(G, H, Len(G)) /\ GoesOn(H, Len(G), d, url, time)
  <2>1. d \in Seq(SetCookies) /\ H = G \o Gives(d, url, time)
    BY <1>1
  <2>2. More(G, G \o Gives(d, url, time), d, url, time)
    BY <2>1, GivenMore
  <2> QED
    BY <2>1, <2>2 DEF More
<1>3. KeptBy(jar.cookies, H, Len(G), time)
  <2>1. Kept(G, Len(G), time) = Kept(H, Len(G), time)
    BY <1>2, KeptFirst
  <2> QED
    BY <2>1 DEF Agrees, KeptBy
<1>4. d \in Seq(SetCookies) /\ Aged(d)
  BY <1>1, AgesAre
<1>5. PICK set : set = Stored(jar.cookies, d, url, time)
  OBVIOUS
<1>6. KeptBy(set, H, Len(H), time)
  BY <1>2, <1>3, <1>4, <1>5, StoredIs
<1>7. PICK T : set \in Seq(T) /\ Timed(T)
  BY <1>6 DEF KeptBy
<1>8. PICK K : K = {c \in ToSet(set) : Fresh(c, time)}
  OBVIOUS
<1>9. PICK r : r = Retain(set, K)
  OBVIOUS
<1>10. StoreFromResponse(jar, url, answer, time) = [jar EXCEPT !.cookies = r]
  BY <1>1, <1>5, <1>8, <1>9, Zenon DEF StoreFromResponse, Stored
<1>11. r \in Seq(T) /\ Elems(r) = Elems(set) \cap K
  BY <1>7, <1>9, RetainIs
<1>12. ToSet(set) = Elems(set)
  BY <1>7 DEF ToSet, Elems
<1>13. FreshOf(r, time) = FreshOf(set, time)
  BY <1>8, <1>11, <1>12 DEF FreshOf
<1>14. KeptBy(r, H, Len(H), time)
  BY <1>6, <1>7, <1>11, <1>13 DEF KeptBy
<1>15. PICK new : new = [jar EXCEPT !.cookies = r]
  OBVIOUS
<1>16. DOMAIN new = {"enabled", "cookies"} /\ new.enabled \in BOOLEAN /\ new.cookies = r
  BY <1>15 DEF Agrees
<1> QED
  BY <1>2, <1>10, <1>14, <1>15, <1>16 DEF Agrees

(* While cookies are off nothing is stored. *)
LEMMA ResponseKept ==
  ASSUME NEW G, GivenOK(G), NEW time \in Nat, NEW jar, Agrees(jar, G, time),
         NEW answer, answer.cookies \in Seq(SetCookies), NEW url,
         NEW H, H = G \o (IF jar.enabled THEN Gives(answer.cookies, url, time) ELSE <<>>)
  PROVE  GivenOK(H) /\ Agrees(StoreFromResponse(jar, url, answer, time), H, time)
<1>1. CASE jar.enabled
  <2>1. H = G \o Gives(answer.cookies, url, time)
    BY <1>1
  <2> QED
    BY <1>1, <2>1, ResponseStored
<1>2. CASE ~jar.enabled
  <2>1. PICK S : G \in Seq(S)
    BY DEF GivenOK, IsList
  <2>2. H = G
    BY <1>2, <2>1
  <2>3. StoreFromResponse(jar, url, answer, time) = jar
    BY <1>2, Zenon DEF StoreFromResponse
  <2> QED
    BY <2>2, <2>3
<1> QED
  BY <1>1, <1>2

------------------------------------------------------------------------------
(* The inductive invariant, on top of Typed: the jar of each tab holds what *)
(* it was given, and the file what the jar was given that was saved in it.  *)
TabJars ==
  /\ IsList(given) /\ Len(given) = Len(tabs)
  /\ \A i \in 1 .. Len(tabs) : GivenOK(given[i]) /\ Agrees(tabs[i].jar, given[i], now)

FileJar ==
  /\ GivenOK(kept)
  /\ IF jarFile = <<>> THEN kept = <<>> ELSE Agrees(Head(jarFile), kept, now)

Jars == TabJars /\ FileJar

LEMMA NewJarAgrees == \A time : Agrees(NewJar, <<>>, time)
<1> SUFFICES ASSUME NEW time PROVE Agrees(NewJar, <<>>, time)
  OBVIOUS
<1>1. NewJar.cookies = <<>> /\ NewJar.enabled \in BOOLEAN /\ DOMAIN NewJar = {"enabled", "cookies"}
  BY DEF NewJar
<1>2. <<>> \in Seq({}) /\ Timed({})
  BY ElemsNone DEF Timed
<1>3. FreshOf(<<>>, time) = {}
  BY ElemsNone DEF FreshOf
<1>4. Kept(<<>>, Len(<<>>), time) = {}
  <2>1. Len(<<>>) = 0
    BY Nothing
  <2> QED
    BY <2>1, KeptNone
<1>5. KeptBy(<<>>, <<>>, Len(<<>>), time)
  BY <1>2, <1>3, <1>4 DEF KeptBy
<1> QED
  BY <1>1, <1>5 DEF Agrees

LEMMA JarsInit == Init => Jars
<1> SUFFICES ASSUME Init PROVE Jars
  OBVIOUS
<1>1. /\ given = << <<>> >> /\ kept = <<>> /\ jarFile = <<>>
      /\ tabs = <<NewTab(load.request, <<>>, {})>>
  BY DEF Init
<1>2. GivenOK(<<>>)
  BY Nothing DEF GivenOK
<1>3. PICK t : t = NewTab(load.request, <<>>, {})
  OBVIOUS
<1>4. t.jar = NewJar
  <2>1. RequestOK(load.request)
    BY RequestsAreOK DEF Init
  <2>2. Cardinality({}) <= Shown
    BY HttpAssumption, FS_EmptySet
  <2> QED
    BY <1>3, <2>1, <2>2, NewTabOK
<1>5. Len(tabs) = 1 /\ tabs[1] = t
  BY <1>1, <1>3, Elements
<1>6. IsList(given) /\ Len(given) = 1 /\ given[1] = <<>>
  BY <1>1, Elements
<1>7. \A i \in 1 .. Len(tabs) : i = 1
  BY <1>5
<1>8. TabJars
  BY <1>2, <1>4, <1>5, <1>6, <1>7, NewJarAgrees DEF TabJars
<1> QED
  BY <1>1, <1>2, <1>8 DEF Jars, FileJar

(* The tab that is shown becomes another one: the jars of all tabs.        *)
LEMMA BecomesJars ==
  ASSUME Typed, tabs # <<>>, NEW u, Becomes(u)
  PROVE  /\ Len(tabs') = Len(tabs) /\ active \in 1 .. Len(tabs) /\ tabs[active] = Tab
         /\ \A i \in 1 .. Len(tabs) : tabs'[i] = IF i = active THEN u ELSE tabs[i]
<1>1. IsList(tabs) /\ active \in 1 .. Len(tabs)
  BY DEF Typed, TabsOK
<1>2. tabs' = [tabs EXCEPT ![active] = u]
  BY DEF Becomes
<1>3. Len(tabs') = Len(tabs) /\ DOMAIN tabs = 1 .. Len(tabs)
  BY <1>1, <1>2, ListShape
<1> QED
  BY <1>1, <1>2, <1>3 DEF Tab

(* The jar of that tab, and what it was given.                             *)
LEMMA BecomesKept ==
  ASSUME Typed, Jars, tabs # <<>>, NEW u, Becomes(u), now' = now,
         NEW G, GivenOK(G), Agrees(u.jar, G, now), given' = [given EXCEPT ![active] = G]
  PROVE  TabJars'
<1>1. /\ Len(tabs') = Len(tabs) /\ active \in 1 .. Len(tabs)
      /\ \A i \in 1 .. Len(tabs) : tabs'[i] = IF i = active THEN u ELSE tabs[i]
  BY BecomesJars
<1>2. IsList(given) /\ Len(given) = Len(tabs) /\ DOMAIN given = 1 .. Len(tabs)
  BY ListShape DEF Jars, TabJars
<1>3. IsList(given') /\ Len(given') = Len(tabs)
  BY <1>1, <1>2, ListShape
<1>4. \A i \in 1 .. Len(tabs) : given'[i] = IF i = active THEN G ELSE given[i]
  BY <1>1, <1>2
<1>5. \A i \in 1 .. Len(tabs) : GivenOK(given'[i]) /\ Agrees(tabs'[i].jar, given'[i], now)
  BY <1>1, <1>4 DEF Jars, TabJars
<1> QED
  BY <1>1, <1>3, <1>5 DEF TabJars

(* Saved, or not. *)
LEMMA SaveKept ==
  ASSUME FileJar, NEW jar, NEW G, Save(jar, G), GivenOK(G), Agrees(jar, G, now), now' = now
  PROVE  FileJar'
<1>1. CASE jarFile' = <<jar>> /\ kept' = G
  <2>1. jarFile' # <<>> /\ Head(jarFile') = jar
    BY <1>1, Elements
  <2> QED
    BY <1>1, <2>1 DEF FileJar
<1>2. CASE UNCHANGED <<jarFile, kept>>
  BY <1>2 DEF FileJar
<1> QED
  BY <1>1, <1>2 DEF Save

(* Most steps leave the cookies alone. *)
JarsStay ==
  /\ UNCHANGED <<now, jarFile, given, kept>>
  /\ \/ tabs' = tabs
     \/ tabs # <<>> /\ \E u : Becomes(u) /\ u.jar = Tab.jar

LEMMA JarsLeft == ASSUME Typed, Jars, JarsStay PROVE Jars'
<1>1. UNCHANGED <<now, jarFile, given, kept>>
  BY DEF JarsStay
<1>2. FileJar'
  BY <1>1 DEF Jars, FileJar
<1>3. CASE tabs' = tabs
  BY <1>1, <1>2, <1>3 DEF Jars, TabJars
<1>4. ASSUME tabs # <<>>, NEW u, Becomes(u), u.jar = Tab.jar PROVE Jars'
  <2>1. /\ Len(tabs') = Len(tabs)
        /\ \A i \in 1 .. Len(tabs) : tabs'[i].jar = tabs[i].jar
    BY <1>4, BecomesJars
  <2> QED
    BY <1>1, <1>2, <2>1 DEF Jars, TabJars
<1> QED
  BY <1>3, <1>4 DEF JarsStay

LEMMA MovesLeave == ASSUME Typed, Moves PROVE JarsStay
<1>1. tabs # <<>>
  BY InputOK DEF Moves
<1>2. UNCHANGED <<now, jarFile, given, kept>>
  BY DEF Moves, Elsewhere, disk
<1> QED
  BY <1>1, <1>2 DEF Moves, Still, JarsStay

LEMMA OthersLeave ==
  ASSUME Typed, \/ SaveRequest \/ SelectRequest \/ DeleteRequest \/ SwitchTab
                \/ Send \/ NoAnswer \/ OAuthCommand
                \/ RefreshAnswer \/ Callback \/ ExchangeAnswer
  PROVE  JarsStay
<1>1. CASE SaveRequest \/ SelectRequest \/ DeleteRequest \/ SwitchTab
  BY <1>1 DEF SaveRequest, SelectRequest, DeleteRequest, SwitchTab, disk, histories, JarsStay
<1>2. ASSUME NEW t, TabOK(t), NEW x
      PROVE  /\ [t EXCEPT !.status = x].jar = t.jar /\ [t EXCEPT !.auth = x].jar = t.jar
             /\ [t EXCEPT !.token = x].jar = t.jar
  BY <1>2 DEF TabOK, TabFields
<1>3. CASE Send
  <2>1. tabs # <<>> /\ TabOK(Tab)
    BY <1>3, InputOK DEF Send
  <2>2. UNCHANGED <<now, jarFile, given, kept>>
    BY <1>3 DEF Send, disk
  <2>3. PICK t : t = Commit(Tab)
    OBVIOUS
  <2>4. TabOK(t) /\ t.jar = Tab.jar
    BY <2>1, <2>3, CommitOK DEF Still
  <2>5. \/ Becomes([t EXCEPT !.status = "connecting"])
        \/ Becomes([t EXCEPT !.status = "error"])
        \/ Becomes(t)
    BY <1>3, <2>3 DEF Send
  <2>6. \A x : [t EXCEPT !.status = x].jar = Tab.jar
    BY <1>2, <2>4
  <2>7. \E u : Becomes(u) /\ u.jar = Tab.jar
    BY <2>4, <2>5, <2>6, Zenon
  <2> QED
    BY <2>1, <2>2, <2>7 DEF JarsStay
<1>4. CASE NoAnswer
  <2>1. tabs # <<>> /\ TabOK(Tab)
    BY <1>4, Awaiting DEF NoAnswer
  <2>2. UNCHANGED <<now, jarFile, given, kept>> /\ Becomes([Tab EXCEPT !.status = "error"])
    BY <1>4 DEF NoAnswer, disk, histories
  <2> QED
    BY <1>2, <2>1, <2>2 DEF JarsStay
<1>5. CASE OAuthCommand
  <2>1. tabs # <<>> /\ TabOK(Tab)
    BY <1>5, InputOK DEF OAuthCommand
  <2>2. UNCHANGED <<now, jarFile, given, kept>> /\ Becomes([Tab EXCEPT !.auth = "oauth2"])
    BY <1>5 DEF OAuthCommand, disk, histories
  <2> QED
    BY <1>2, <2>1, <2>2 DEF JarsStay
<1>6. CASE RefreshAnswer \/ Callback \/ ExchangeAnswer
  <2>1. tabs # <<>> /\ TabOK(Tab)
    BY <1>6 DEF RefreshAnswer, Callback, ExchangeAnswer, Flows, Typed, AwaitsOK, TabsOK, Tab
  <2>2. UNCHANGED <<now, jarFile, given, kept, active>>
    BY <1>6 DEF RefreshAnswer, Callback, ExchangeAnswer, Flows, disk, histories
  <2>3. tabs' = tabs \/ \E token : tabs' = [tabs EXCEPT ![active].token = token]
    BY <1>6 DEF RefreshAnswer, Callback, ExchangeAnswer, Proceed, GiveUp, Store
  <2>4. ASSUME NEW token, tabs' = [tabs EXCEPT ![active].token = token] PROVE JarsStay
    <3>1. PICK u : u = [Tab EXCEPT !.token = token]
      OBVIOUS
    <3>2. Becomes(u)
      BY <2>2, <2>4, <3>1 DEF Becomes, Tab
    <3> QED
      BY <1>2, <2>1, <2>2, <3>1, <3>2 DEF JarsStay
  <2> QED
    BY <2>2, <2>3, <2>4 DEF JarsStay
<1> QED
  BY <1>1, <1>3, <1>4, <1>5, <1>6

(* Whether they are on is not about what there is. *)
LEMMA SwitchedAgrees ==
  ASSUME NEW jar, NEW G, NEW time, Agrees(jar, G, time), NEW on \in BOOLEAN
  PROVE  Agrees([jar EXCEPT !.enabled = on], G, time)
BY DEF Agrees

LEMMA CookiesJars == ASSUME Typed, Jars, CookiesCommand PROVE Jars'
<1>1. tabs # <<>> /\ TabOK(Tab) /\ active \in 1 .. Len(tabs) /\ Tab = tabs[active]
  BY InputOK DEF CookiesCommand, Tab
<1>2. PICK on \in BOOLEAN :
        /\ Becomes([Tab EXCEPT !.jar.enabled = on])
        /\ Save([Tab.jar EXCEPT !.enabled = on], given[active])
  BY DEF CookiesCommand
<1>3. UNCHANGED <<now, given>>
  BY DEF CookiesCommand
<1>4. PICK jar : jar = [Tab.jar EXCEPT !.enabled = on]
  OBVIOUS
<1>5. PICK u : u = [Tab EXCEPT !.jar = jar]
  OBVIOUS
<1>6. u = [Tab EXCEPT !.jar.enabled = on] /\ u.jar = jar
  BY <1>1, <1>4, <1>5 DEF TabOK, TabFields
<1>7. PICK G : G = given[active]
  OBVIOUS
<1>8. GivenOK(G) /\ Agrees(jar, G, now)
  BY <1>1, <1>4, <1>7, SwitchedAgrees DEF Jars, TabJars
<1>9. given' = [given EXCEPT ![active] = G]
  <2>1. given = [i \in DOMAIN given |-> given[i]]
    BY DEF Jars, TabJars, IsList
  <2> QED
    BY <1>3, <1>7, <2>1
<1>10. TabJars'
  BY <1>1, <1>2, <1>3, <1>6, <1>8, <1>9, BecomesKept
<1>11. FileJar'
  BY <1>2, <1>3, <1>4, <1>7, <1>8, SaveKept DEF Jars
<1> QED
  BY <1>10, <1>11 DEF Jars

LEMMA AnswerJars == ASSUME Typed, Jars, Answer PROVE Jars'
<1>1. tabs # <<>> /\ TabOK(Tab) /\ net # <<>> /\ now \in Nat
  BY Awaiting DEF Answer, Typed, BoundsOK
<1>2. UNCHANGED <<now, active>>
  BY DEF Answer
<1>3. PICK answer \in load.answers :
        IF Tab.grpc THEN GrpcAnswer(answer)
        ELSE IF Follows(Head(net).spec, answer, Head(net).hops) THEN Redirected(answer)
        ELSE LastAnswer(answer)
  BY DEF Answer
<1>4. answer.cookies \in Seq(SetCookies)
  BY RequestAssumption DEF Typed, BoundsOK
<1>5. ASSUME NEW jar, NEW follows, Recorded(answer, jar, follows)
      PROVE  \E u : Becomes(u) /\ u.jar = jar
  <2>1. PICK l, shown :
          tabs' = [tabs EXCEPT ![active] =
                     [@ EXCEPT !.status = "connected", !.jar = jar, !.pane = l, !.log = shown]]
    BY <1>5 DEF Recorded
  <2>2. PICK u : u = [Tab EXCEPT !.status = "connected", !.jar = jar, !.pane = l, !.log = shown]
    OBVIOUS
  <2>3. u.jar = jar
    BY <1>1, <2>2 DEF TabOK, TabFields
  <2> QED
    BY <1>2, <2>1, <2>2, <2>3 DEF Becomes, Tab
<1>6. CASE Redirected(answer)
  <2>1. JarsStay
    BY <1>2, <1>6 DEF Redirected, JarsStay, disk
  <2> QED
    BY <2>1, JarsLeft
<1>7. CASE GrpcAnswer(answer)
  <2>1. Recorded(answer, Tab.jar, FALSE) /\ UNCHANGED <<jarFile, given, kept>>
    BY <1>7 DEF GrpcAnswer
  <2>2. JarsStay
    BY <1>1, <1>2, <1>5, <2>1 DEF JarsStay
  <2> QED
    BY <2>2, JarsLeft
<1>8. CASE LastAnswer(answer)
  <2>1. PICK url : url = Head(net).spec.url
    OBVIOUS
  <2>2. PICK jar : jar = StoreFromResponse(Tab.jar, url, answer, now)
    OBVIOUS
  <2>3. PICK H : H = given[active] \o (IF Tab.jar.enabled THEN Gives(answer.cookies, url, now)
                                       ELSE <<>>)
    OBVIOUS
  <2>4. Recorded(answer, jar, TRUE) /\ Save(jar, H) /\ given' = [given EXCEPT ![active] = H]
    BY <1>8, <2>1, <2>2, <2>3 DEF LastAnswer
  <2>5. PICK u : Becomes(u) /\ u.jar = jar
    BY <1>5, <2>4
  <2>6. PICK G : G = given[active]
    OBVIOUS
  <2>7. GivenOK(G) /\ Agrees(Tab.jar, G, now)
    <3>1. active \in 1 .. Len(tabs) /\ Tab = tabs[active]
      BY <1>1, Awaiting DEF Tab
    <3> QED
      BY <2>6, <3>1 DEF Jars, TabJars
  <2>8. GivenOK(H) /\ Agrees(jar, H, now)
    <3>1. H = G \o (IF Tab.jar.enabled THEN Gives(answer.cookies, url, now) ELSE <<>>)
      BY <2>3, <2>6
    <3> QED
      BY <1>1, <1>4, <2>2, <2>7, <3>1, ResponseKept
  <2>9. TabJars'
    BY <1>1, <1>2, <2>4, <2>5, <2>8, BecomesKept
  <2>10. FileJar'
    BY <1>2, <2>4, <2>8, SaveKept DEF Jars
  <2> QED
    BY <2>9, <2>10 DEF Jars
<1> QED
  BY <1>3, <1>6, <1>7, <1>8

LEMMA OpenTabJars == ASSUME Typed, Jars, OpenTab PROVE Jars'
<1>1. PICK l \in Listings(files, Shown) : tabs' = Append(tabs, NewTab(load.request, jarFile, l))
  BY DEF OpenTab
<1>2. UNCHANGED <<now, jarFile, kept>> /\ given' = Append(given, kept)
  BY DEF OpenTab, disk
<1>3. PICK t : t = NewTab(load.request, jarFile, l)
  OBVIOUS
<1>4. t.jar = IF jarFile = <<>> THEN NewJar ELSE Head(jarFile)
  <2>1. RequestOK(load.request)
    BY RequestsAreOK DEF Typed, BoundsOK
  <2>2. Cardinality(l) <= Shown
    BY ListingsOK DEF Typed, FilesOK, Entries
  <2> QED
    BY <1>3, <2>1, <2>2, NewTabOK
<1>5. GivenOK(kept) /\ Agrees(t.jar, kept, now)
  BY <1>4, NewJarAgrees DEF Jars, FileJar
<1>6. PICK S : tabs \in Seq(S)
  BY DEF Typed, TabsOK, IsList
<1>7. PICK R : given \in Seq(R)
  BY DEF Jars, TabJars, IsList
<1>8. /\ Len(tabs) \in Nat /\ Len(tabs') = Len(tabs) + 1 /\ Len(given) = Len(tabs)
      /\ IsList(given') /\ Len(given') = Len(tabs) + 1
  BY <1>1, <1>2, ListShape DEF Typed, TabsOK, Jars, TabJars
<1>9. \A i \in 1 .. Len(tabs) + 1 :
        /\ tabs'[i] = IF i = Len(tabs) + 1 THEN t ELSE tabs[i]
        /\ given'[i] = IF i = Len(tabs) + 1 THEN kept ELSE given[i]
        /\ i # Len(tabs) + 1 => i \in 1 .. Len(tabs)
  BY <1>1, <1>2, <1>3, <1>6, <1>7, <1>8
<1>10. \A i \in 1 .. Len(tabs) + 1 : GivenOK(given'[i]) /\ Agrees(tabs'[i].jar, given'[i], now)
  BY <1>5, <1>9 DEF Jars, TabJars
<1>11. TabJars'
  BY <1>2, <1>8, <1>10 DEF TabJars
<1>12. FileJar'
  BY <1>2 DEF Jars, FileJar
<1> QED
  BY <1>11, <1>12 DEF Jars

LEMMA CloseTabJars == ASSUME Typed, Jars, CloseTab PROVE Jars'
<1>1. /\ tabs' = RemoveAt(tabs, active) /\ given' = RemoveAt(given, active)
      /\ UNCHANGED <<now, jarFile, kept>>
  BY DEF CloseTab, disk
<1>2. /\ active \in 1 .. Len(tabs) /\ IsList(tabs)
      /\ IsList(given) /\ Len(given) = Len(tabs)
  BY InputOK DEF CloseTab, Typed, TabsOK, Jars, TabJars
<1>3. Len(tabs') = Len(tabs) - 1 /\ IsList(given') /\ Len(given') = Len(tabs) - 1
  BY <1>1, <1>2, RemoveShape
<1>4. ASSUME NEW i \in 1 .. Len(tabs) - 1
      PROVE  \E j \in 1 .. Len(tabs) : tabs'[i] = tabs[j] /\ given'[i] = given[j]
  <2>1. /\ i \in 1 .. Len(tabs) /\ i + 1 \in 1 .. Len(tabs)
        /\ tabs'[i] = IF i < active THEN tabs[i] ELSE tabs[i + 1]
    BY <1>1, <1>2, Without
  <2>2. given'[i] = IF i < active THEN given[i] ELSE given[i + 1]
    BY <1>1, <1>2, Without
  <2>3. CASE i < active
    BY <2>1, <2>2, <2>3
  <2>4. CASE ~(i < active)
    BY <2>1, <2>2, <2>4
  <2> QED
    BY <2>3, <2>4
<1>5. TabJars'
  BY <1>1, <1>3, <1>4 DEF Jars, TabJars
<1>6. FileJar'
  BY <1>1 DEF Jars, FileJar
<1> QED
  BY <1>5, <1>6 DEF Jars

LEMMA AgreesLater ==
  ASSUME NEW jar, NEW G, GivenOK(G), NEW time \in Nat, Agrees(jar, G, time)
  PROVE  Agrees(jar, G, time + 1)
<1>1. PICK s : s = jar.cookies
  OBVIOUS
<1>2. PICK S : s \in Seq(S) /\ Timed(S)
  BY <1>1 DEF Agrees, KeptBy
<1>3. \A x \in Elems(s) : x.expires \subseteq Int
  BY <1>2 DEF Elems, Timed
<1>4. FreshOf(s, time + 1) = StillFresh(FreshOf(s, time), time + 1)
  BY <1>3, FreshLater
<1>5. Len(G) \in Nat
  BY ListShape DEF GivenOK
<1>6. Dated(G, Len(G))
  BY ParsedTimed DEF GivenOK, CookieOf, Dated
<1>7. Kept(G, Len(G), time + 1) = StillFresh(Kept(G, Len(G), time), time + 1)
  BY <1>5, <1>6, KeptLater
<1>8. FreshOf(s, time) = Kept(G, Len(G), time)
  BY <1>1 DEF Agrees, KeptBy
<1>9. FreshOf(s, time + 1) = Kept(G, Len(G), time + 1)
  BY <1>4, <1>7, <1>8
<1> QED
  BY <1>1, <1>2, <1>9 DEF Agrees, KeptBy

LEMMA TickJars == ASSUME Typed, Jars, Tick PROVE Jars'
<1>1. now' = now + 1 /\ UNCHANGED <<tabs, jarFile, given, kept>> /\ now \in Nat
  BY DEF Tick, disk, histories, Typed, BoundsOK
<1>2. TabJars'
  BY <1>1, AgreesLater DEF Jars, TabJars
<1>3. FileJar'
  BY <1>1, AgreesLater DEF Jars, FileJar
<1> QED
  BY <1>2, <1>3 DEF Jars

LEMMA JarsNext == Typed /\ Jars /\ [Next]_vars => Jars'
<1> SUFFICES ASSUME Typed, Jars, [Next]_vars PROVE Jars'
  OBVIOUS
<1>1. CASE UNCHANGED vars
  <2>1. JarsStay
    BY <1>1 DEF vars, ui, disk, histories, JarsStay
  <2> QED
    BY <2>1, JarsLeft
<1>2. CASE Next
  BY <1>2, FormMoves, CommandMoves, MovesLeave, OthersLeave, JarsLeft, CookiesJars, AnswerJars,
     OpenTabJars, CloseTabJars, TickJars DEF Next
<1> QED
  BY <1>1, <1>2

LEMMA JarsInvariance == Spec => []Jars
<1> QED
  BY JarsInit, JarsNext, TypedInvariance, PTL DEF Spec

(* No cookie is lost and none comes back: whatever the last answers of the  *)
(* requests of a tab set while its cookies are on, the fresh cookies of its  *)
(* jar are these and those of the file it was opened with, but for those     *)
(* that a later one replaced or took back; and those of cookies.toml are     *)
(* the ones of the jar that was last written there.  It holds over expiry,   *)
(* cookies switched off and on, other tabs, and writes that failed           *)
(* (store_from_response, CookieJar::load and save).                          *)
THEOREM CookiesAreKept == Spec => []CookiesSurvive
<1>1. Typed /\ Jars => CookiesSurvive
  <2> SUFFICES ASSUME Typed, Jars PROVE CookiesSurvive
    OBVIOUS
  <2> DEFINE cookie(e) == ParseSetCookie(e.set, e.url, e.at)
             same(c, d) == c.name = d.name /\ c.domain = d.domain
             left(G) == {cookie(G[i]) : i \in {i \in DOMAIN G :
                           /\ Fresh(cookie(G[i]), now)
                           /\ \A j \in i + 1 .. Len(G) : ~same(cookie(G[j]), cookie(G[i]))}}
             of(jar) == {jar.cookies[k] : k \in {k \in DOMAIN jar.cookies : Fresh(jar.cookies[k], now)}}
  <2>1. ASSUME NEW G, GivenOK(G) PROVE left(G) = Kept(G, Len(G), now)
    <3>1. DOMAIN G = 1 .. Len(G)
      BY <2>1, ListShape DEF GivenOK
    <3>2. \A i : cookie(G[i]) = CookieOf(G[i])
      BY DEF CookieOf
    <3>3. \A i : Latest(G, Len(G), i)
                  <=> \A j \in i + 1 .. Len(G) : ~same(cookie(G[j]), cookie(G[i]))
      BY DEF Latest, Same, CookieOf
    <3> QED
      BY <3>1, <3>2, <3>3 DEF Kept
  <2>2. ASSUME NEW jar, NEW G, GivenOK(G), Agrees(jar, G, now) PROVE of(jar) = left(G)
    <3>1. PICK S : jar.cookies \in Seq(S)
      BY <2>2 DEF Agrees, KeptBy
    <3>2. of(jar) = FreshOf(jar.cookies, now)
      BY <3>1 DEF FreshOf, Elems
    <3>3. FreshOf(jar.cookies, now) = Kept(G, Len(G), now)
      BY <2>2 DEF Agrees, KeptBy
    <3> HIDE DEF left, of
    <3> QED
      BY <2>1, <2>2, <3>2, <3>3
  <2> HIDE DEF left, of
  <2>3. DOMAIN tabs = 1 .. Len(tabs)
    BY ListShape DEF Typed, TabsOK
  <2>4. \A i \in DOMAIN tabs : of(tabs[i].jar) = left(given[i])
    BY <2>2, <2>3 DEF Jars, TabJars
  <2>5. jarFile # <<>> => of(Head(jarFile)) = left(kept)
    BY <2>2 DEF Jars, FileJar
  <2> QED
    BY <2>4, <2>5 DEF CookiesSurvive, of, left
<1> QED
  BY <1>1, TypedInvariance, JarsInvariance, PTL

------------------------------------------------------------------------------
LEMMA TypedIsTypeOK == Typed /\ Meaning /\ Jars => TypeOK
<1> SUFFICES ASSUME Typed, Meaning, Jars PROVE TypeOK
  OBVIOUS
<1>1. Len(tabs) \in Nat /\ DOMAIN tabs = 1 .. Len(tabs)
  BY ListShape DEF Typed, TabsOK
<1>2. ASSUME NEW i \in DOMAIN tabs
      PROVE  /\ tabs[i].focus \in {"form", "log", "history"} /\ tabs[i].field \in Fields
             /\ tabs[i].row = 1 \/ tabs[i].row \in DOMAIN tabs[i].fields
             /\ tabs[i].status = "connecting" => i = active /\ net # <<>>
             /\ Len(tabs[i].log.frames) <= MaxFrames
             /\ tabs[i].log.selected = 0 \/ tabs[i].log.selected < Len(tabs[i].log.frames)
             /\ Cardinality(tabs[i].pane) <= Shown
  <2>1. TabOK(tabs[i]) /\ (tabs[i].status = "connecting" => i = active /\ net # <<>>)
    BY <1>1 DEF Typed, TabsOK
  <2>2. DOMAIN tabs[i].fields = 1 .. Len(tabs[i].fields)
    BY <2>1, FormShape DEF TabOK
  <2> QED
    BY <2>1, <2>2 DEF TabOK, LogOK
<1>3. tabs # <<>> => active \in DOMAIN tabs
  BY <1>1 DEF Typed, TabsOK
<1>4. Len(meant) = Len(tabs) /\ Len(slipped) = Len(tabs) /\ \A i \in DOMAIN slipped : slipped[i] \in BOOLEAN
  BY ListShape DEF Meaning
<1>5. Len(given) = Len(tabs)
  BY DEF Jars, TabJars
<1> QED
  BY <1>2, <1>3, <1>4, <1>5 DEF Typed, TabsOK, FilesOK, CollectionOK, AwaitsOK, BoundsOK, TypeOK

(* What the form, the panes, the history, the collection and the requests  *)
(* under way are: at most one tab waits, and it is the one that is shown   *)
(* (http_session.rs, app.rs); the row that is edited is one there is; the  *)
(* frame log, the listing and the files stay within their capacities.      *)
THEOREM TypeCorrect == Spec => []TypeOK
<1> QED
  BY TypedInvariance, MeaningInvariance, JarsInvariance, TypedIsTypeOK, PTL
=============================================================================
