--------------------------- MODULE WorkspaceProofs ---------------------------
(* Theorems about Workspace, for any number of tabs and connections.        *)
EXTENDS Workspace, TLAPS

------------------------------------------------------------------------------
(* Sequences of connections and of tabs.                                   *)
LEMMA Edit ==
  ASSUME NEW Elem, NEW s \in Seq(Elem), NEW t \in 1 .. Len(s), NEW r \in Elem
  PROVE  /\ [s EXCEPT ![t] = r] \in Seq(Elem)
         /\ Len([s EXCEPT ![t] = r]) = Len(s)
         /\ [s EXCEPT ![t] = r][t] = r
         /\ \A u \in 1 .. Len(s) : u # t => [s EXCEPT ![t] = r][u] = s[u]
OBVIOUS

LEMMA Appended ==
  ASSUME NEW Elem, NEW s \in Seq(Elem), NEW r \in Elem
  PROVE  /\ Append(s, r) \in Seq(Elem)
         /\ Len(Append(s, r)) = Len(s) + 1
         /\ Append(s, r)[Len(s) + 1] = r
         /\ \A u \in 1 .. Len(s) : Append(s, r)[u] = s[u]
OBVIOUS

LEMMA Removed ==
  ASSUME NEW Elem, NEW s \in Seq(Elem), NEW i \in 1 .. Len(s)
  PROVE  /\ Without(s, i) \in Seq(Elem)
         /\ Len(Without(s, i)) = Len(s) - 1
         /\ \A j \in 1 .. Len(s) - 1 :
              Without(s, i)[j] = IF j < i THEN s[j] ELSE s[j + 1]
<1>1. Without(s, i) = [j \in 1 .. Len(s) - 1 |-> IF j < i THEN s[j] ELSE s[j + 1]]
  BY DEF Without
<1>2. Len(s) - 1 \in Nat
  OBVIOUS
<1>3. \A j \in 1 .. Len(s) - 1 : (IF j < i THEN s[j] ELSE s[j + 1]) \in Elem
  OBVIOUS
<1>4. [j \in 1 .. Len(s) - 1 |-> IF j < i THEN s[j] ELSE s[j + 1]] \in Seq(Elem)
  BY <1>2, <1>3
<1> QED
  BY <1>1, <1>2, <1>4

LEMMA TailOf ==
  ASSUME NEW Elem, NEW s \in Seq(Elem), s # <<>>
  PROVE  /\ Tail(s) \in Seq(Elem)
         /\ Head(s) \in Elem
         /\ Head(s) = s[1]
         /\ Len(s) \in Nat \ {0}
         /\ Len(Tail(s)) = Len(s) - 1
         /\ \A k \in 1 .. Len(s) - 1 : Tail(s)[k] = s[k + 1]
OBVIOUS

------------------------------------------------------------------------------
(* What the steps of a connection do to the sequence of connections: they  *)
(* edit one, and leave alone to which tab it belongs.                      *)
Edited(t) ==
  /\ tasks' \in Seq(Task)
  /\ Len(tasks') = Len(tasks)
  /\ \A u \in 1 .. Len(tasks) : u # t => tasks'[u] = tasks[u]
  /\ tasks'[t].owner = tasks[t].owner
  /\ tasks'[t].idx = tasks[t].idx
  /\ tasks'[t].cmdOpen = tasks[t].cmdOpen

LEMMA NewTaskType ==
  ASSUME NEW owner \in Nat, NEW idx \in Nat
  PROVE  /\ NewTask(owner, idx) \in Task
         /\ NewTask(owner, idx).owner = owner
         /\ NewTask(owner, idx).idx = idx
         /\ NewTask(owner, idx).state = "connecting"
         /\ NewTask(owner, idx).out = <<>>
<1>1. <<>> \in Seq(Commands) /\ <<>> \in Seq(Events)
  OBVIOUS
<1> QED
  BY <1>1 DEF NewTask, Task

LEMMA Fields ==
  ASSUME NEW r \in Task
  PROVE  /\ r.owner \in Nat /\ r.idx \in Nat /\ r.data \in Nat
         /\ r.state \in {"connecting", "open", "gone"} /\ r.cmdOpen \in BOOLEAN
         /\ r.cmds \in Seq(Commands) /\ r.out \in Seq(Events)
BY DEF Task

Requeued(r, cs, n) == [r EXCEPT !.cmds = cs, !.data = n]
Opened(r, evs) == [r EXCEPT !.state = "open", !.out = evs]
Sent(r, cs, evs) == [r EXCEPT !.cmds = cs, !.out = evs]
Got(r, n, evs) == [r EXCEPT !.data = n, !.out = evs]
Buried(r, evs) == [r EXCEPT !.state = "gone", !.out = evs, !.cmds = <<>>, !.data = 0]

LEMMA RequeuedType ==
  ASSUME NEW r \in Task, NEW cs \in Seq(Commands), NEW n \in Nat
  PROVE  /\ Requeued(r, cs, n) \in Task
         /\ Requeued(r, cs, n).owner = r.owner
         /\ Requeued(r, cs, n).idx = r.idx
         /\ Requeued(r, cs, n).cmdOpen = r.cmdOpen
         /\ Requeued(r, cs, n).state = r.state
         /\ Requeued(r, cs, n).out = r.out
BY DEF Requeued, Task

LEMMA OpenedType ==
  ASSUME NEW r \in Task, NEW evs \in Seq(Events)
  PROVE  /\ Opened(r, evs) \in Task
         /\ Opened(r, evs).owner = r.owner
         /\ Opened(r, evs).idx = r.idx
         /\ Opened(r, evs).cmdOpen = r.cmdOpen
         /\ Opened(r, evs).state = "open"
         /\ Opened(r, evs).out = evs
BY DEF Opened, Task

LEMMA BuriedType ==
  ASSUME NEW r \in Task, NEW evs \in Seq(Events)
  PROVE  /\ Buried(r, evs) \in Task
         /\ Buried(r, evs).owner = r.owner
         /\ Buried(r, evs).idx = r.idx
         /\ Buried(r, evs).cmdOpen = r.cmdOpen
         /\ Buried(r, evs).state = "gone"
         /\ Buried(r, evs).out = evs
<1>1. <<>> \in Seq(Commands)
  OBVIOUS
<1> QED
  BY <1>1 DEF Buried, Task

LEMMA SentType ==
  ASSUME NEW r \in Task, NEW cs \in Seq(Commands), NEW evs \in Seq(Events)
  PROVE  /\ Sent(r, cs, evs) \in Task
         /\ Sent(r, cs, evs).owner = r.owner
         /\ Sent(r, cs, evs).idx = r.idx
         /\ Sent(r, cs, evs).cmdOpen = r.cmdOpen
         /\ Sent(r, cs, evs).state = r.state
         /\ Sent(r, cs, evs).out = evs
BY DEF Sent, Task

LEMMA GotType ==
  ASSUME NEW r \in Task, NEW n \in Nat, NEW evs \in Seq(Events)
  PROVE  /\ Got(r, n, evs) \in Task
         /\ Got(r, n, evs).owner = r.owner
         /\ Got(r, n, evs).idx = r.idx
         /\ Got(r, n, evs).cmdOpen = r.cmdOpen
         /\ Got(r, n, evs).state = r.state
         /\ Got(r, n, evs).out = evs
BY DEF Got, Task

LEMMA ToldShape ==
  ASSUME tasks \in Seq(Task), NEW t \in 1 .. Len(tasks), NEW c \in Commands
  PROVE  /\ Told(t, c) \in Seq(Task)
         /\ Len(Told(t, c)) = Len(tasks)
         /\ \A u \in 1 .. Len(tasks) : u # t => Told(t, c)[u] = tasks[u]
         /\ Told(t, c)[t].owner = tasks[t].owner
         /\ Told(t, c)[t].idx = tasks[t].idx
         /\ Told(t, c)[t].cmdOpen = tasks[t].cmdOpen
         /\ Told(t, c)[t].state = tasks[t].state
         /\ Told(t, c)[t].out = tasks[t].out
<1> DEFINE n == IF c = "Send" THEN tasks[t].data + 1 ELSE tasks[t].data
           cs == Append(tasks[t].cmds, c)
<1>1. CASE tasks[t].state = "gone"
  BY <1>1 DEF Told
<1>2. CASE tasks[t].state # "gone"
  <2>0. tasks[t] \in Task
    OBVIOUS
  <2>1. n \in Nat /\ cs \in Seq(Commands)
    BY <2>0, Fields
  <2>2. Told(t, c) = [tasks EXCEPT ![t] = Requeued(tasks[t], cs, n)]
    BY <1>2 DEF Told, Requeued
  <2> HIDE DEF n, cs
  <2> QED
    BY <2>0, <2>1, <2>2, RequeuedType, Edit
<1> QED
  BY <1>1, <1>2

LEMMA Replaced ==
  ASSUME tasks \in Seq(Task), NEW t \in 1 .. Len(tasks), NEW r \in Task,
         r.owner = tasks[t].owner, r.idx = tasks[t].idx, r.cmdOpen = tasks[t].cmdOpen,
         tasks' = [tasks EXCEPT ![t] = r]
  PROVE  Edited(t) /\ tasks'[t] = r
BY Edit DEF Edited

LEMMA BecomesShape ==
  ASSUME tasks \in Seq(Task), NEW t \in 1 .. Len(tasks),
         NEW state \in {"open", "gone"}, NEW evs \in Seq(Events),
         Becomes(t, state, evs)
  PROVE  /\ Edited(t)
         /\ tasks'[t].state = state
         /\ tasks'[t].out = tasks[t].out \o evs
<1>0. tasks[t] \in Task
  OBVIOUS
<1> DEFINE es == tasks[t].out \o evs
<1>1. es \in Seq(Events)
  BY <1>0, Fields
<1>2. CASE state = "gone"
  <2>1. tasks' = [tasks EXCEPT ![t] = Buried(tasks[t], es)]
    BY <1>2 DEF Becomes, Buried
  <2> HIDE DEF es
  <2> DEFINE r == Buried(tasks[t], es)
  <2>2. /\ r \in Task /\ r.owner = tasks[t].owner /\ r.idx = tasks[t].idx
        /\ r.cmdOpen = tasks[t].cmdOpen /\ r.state = "gone" /\ r.out = es
    BY <1>0, <1>1, BuriedType
  <2> HIDE DEF r
  <2>3. Edited(t) /\ tasks'[t] = r
    BY <2>1, <2>2, Replaced DEF r
  <2> QED
    BY <1>2, <2>2, <2>3 DEF es
<1>3. CASE state = "open"
  <2>0. state # "gone"
    BY <1>3
  <2>1. tasks' = [tasks EXCEPT ![t] = Opened(tasks[t], es)]
    BY <1>3, <2>0 DEF Becomes, Opened
  <2> HIDE DEF es
  <2> DEFINE r == Opened(tasks[t], es)
  <2>2. /\ r \in Task /\ r.owner = tasks[t].owner /\ r.idx = tasks[t].idx
        /\ r.cmdOpen = tasks[t].cmdOpen /\ r.state = "open" /\ r.out = es
    BY <1>0, <1>1, OpenedType
  <2> HIDE DEF r
  <2>3. Edited(t) /\ tasks'[t] = r
    BY <2>1, <2>2, Replaced DEF r
  <2> QED
    BY <1>3, <2>2, <2>3 DEF es
<1> QED
  BY <1>2, <1>3

(* One connection speaks: it queues events behind those it has queued, and *)
(* has ended if the last of them is its end.                               *)
Speaks(t) ==
  \E state \in {"connecting", "open", "gone"}, evs \in Seq(Events) :
    /\ Edited(t)
    /\ tasks'[t].state = state
    /\ tasks'[t].out = tasks[t].out \o evs
    /\ \A k \in 1 .. Len(evs) : evs[k] = "Disconnected" => k = Len(evs) /\ state = "gone"

Rest == <<tabs, active, overlay, asked, removed, fan>>

LEMMA Spoken ==
  ASSUME tasks \in Seq(Task), NEW t \in 1 .. Len(tasks),
         NEW state \in {"open", "gone"}, NEW evs \in Seq(Events),
         Becomes(t, state, evs),
         \A k \in 1 .. Len(evs) : evs[k] = "Disconnected" => k = Len(evs) /\ state = "gone"
  PROVE  UNCHANGED Rest /\ Speaks(t)
<1>1. UNCHANGED Rest
  BY DEF Becomes, Rest
<1>2. /\ Edited(t)
      /\ tasks'[t].state = state
      /\ tasks'[t].out = tasks[t].out \o evs
  BY BecomesShape
<1>3. state \in {"connecting", "open", "gone"}
  OBVIOUS
<1>4. Speaks(t)
  BY <1>2, <1>3 DEF Speaks
<1> QED
  BY <1>1, <1>4

LEMMA Utterances ==
  /\ <<>> \in Seq(Events)
  /\ <<"Connected">> \in Seq(Events)
  /\ <<"Frame">> \in Seq(Events)
  /\ <<"Error">> \in Seq(Events)
  /\ <<"Disconnected">> \in Seq(Events)
  /\ <<"Error", "Disconnected">> \in Seq(Events)
BY DEF Events

LEMMA FrameSpoken ==
  ASSUME tasks \in Seq(Task), NEW t \in 1 .. Len(tasks), NEW r \in Task,
         tasks' = [tasks EXCEPT ![t] = r],
         r.owner = tasks[t].owner, r.idx = tasks[t].idx,
         r.cmdOpen = tasks[t].cmdOpen, r.state = tasks[t].state,
         r.out = Append(tasks[t].out, "Frame")
  PROVE  Speaks(t)
<1>1. tasks[t] \in Task
  OBVIOUS
<1>2. tasks[t].state \in {"connecting", "open", "gone"} /\ tasks[t].out \in Seq(Events)
  BY <1>1, Fields
<1>3. r.out = tasks[t].out \o <<"Frame">>
  BY <1>2
<1>4. Edited(t) /\ tasks'[t] = r
  BY Edit DEF Edited
<1> DEFINE evs == <<"Frame">>
<1>5. evs \in Seq(Events) /\ \A k \in 1 .. Len(evs) : evs[k] # "Disconnected"
  BY DEF Events
<1> HIDE DEF evs
<1>6. tasks'[t].state = tasks[t].state /\ tasks'[t].out = tasks[t].out \o evs
  BY <1>3, <1>4 DEF evs
<1> QED
  BY <1>2, <1>4, <1>5, <1>6 DEF Speaks

LEMMA ConnectionSteps ==
  ASSUME tasks \in Seq(Task), NEW t \in 1 .. Len(tasks),
         ConnectEnds(t) \/ Receive(t) \/ PeerEnds(t) \/ Command(t)
  PROVE  UNCHANGED Rest /\ Speaks(t) /\ tasks[t].state # "gone"
<1>0. tasks[t] \in Task
  OBVIOUS
<1>s. tasks[t].state # "gone"
  BY DEF ConnectEnds, Receive, PeerEnds, Command
<1>b. /\ Becomes(t, "open", <<"Connected">>) => UNCHANGED Rest /\ Speaks(t)
      /\ Becomes(t, "gone", <<"Error">>) => UNCHANGED Rest /\ Speaks(t)
      /\ Becomes(t, "gone", <<"Disconnected">>) => UNCHANGED Rest /\ Speaks(t)
      /\ Becomes(t, "gone", <<"Error", "Disconnected">>) => UNCHANGED Rest /\ Speaks(t)
      /\ Becomes(t, "gone", <<>>) => UNCHANGED Rest /\ Speaks(t)
  <2>1. ASSUME Becomes(t, "open", <<"Connected">>) PROVE UNCHANGED Rest /\ Speaks(t)
    <3> DEFINE evs == <<"Connected">>
    <3>1. evs \in Seq(Events)
      BY Utterances
    <3>2. \A k \in 1 .. Len(evs) : evs[k] = "Disconnected" => k = Len(evs) /\ "open" = "gone"
      OBVIOUS
    <3>3. Becomes(t, "open", evs)
      BY <2>1
    <3> HIDE DEF evs
    <3> QED
      BY <3>1, <3>2, <3>3, Spoken
  <2>2. ASSUME Becomes(t, "gone", <<"Error">>) PROVE UNCHANGED Rest /\ Speaks(t)
    <3> DEFINE evs == <<"Error">>
    <3>1. evs \in Seq(Events)
      BY Utterances
    <3>2. \A k \in 1 .. Len(evs) : evs[k] = "Disconnected" => k = Len(evs) /\ "gone" = "gone"
      OBVIOUS
    <3>3. Becomes(t, "gone", evs)
      BY <2>2
    <3> HIDE DEF evs
    <3> QED
      BY <3>1, <3>2, <3>3, Spoken
  <2>3. ASSUME Becomes(t, "gone", <<"Disconnected">>) PROVE UNCHANGED Rest /\ Speaks(t)
    <3> DEFINE evs == <<"Disconnected">>
    <3>1. evs \in Seq(Events)
      BY Utterances
    <3>2. \A k \in 1 .. Len(evs) : evs[k] = "Disconnected" => k = Len(evs) /\ "gone" = "gone"
      OBVIOUS
    <3>3. Becomes(t, "gone", evs)
      BY <2>3
    <3> HIDE DEF evs
    <3> QED
      BY <3>1, <3>2, <3>3, Spoken
  <2>4. ASSUME Becomes(t, "gone", <<"Error", "Disconnected">>) PROVE UNCHANGED Rest /\ Speaks(t)
    <3> DEFINE evs == <<"Error", "Disconnected">>
    <3>1. evs \in Seq(Events)
      BY Utterances
    <3>2. \A k \in 1 .. Len(evs) : evs[k] = "Disconnected" => k = Len(evs) /\ "gone" = "gone"
      OBVIOUS
    <3>3. Becomes(t, "gone", evs)
      BY <2>4
    <3> HIDE DEF evs
    <3> QED
      BY <3>1, <3>2, <3>3, Spoken
  <2>5. ASSUME Becomes(t, "gone", <<>>) PROVE UNCHANGED Rest /\ Speaks(t)
    <3> DEFINE evs == <<>>
    <3>1. evs \in Seq(Events)
      BY Utterances
    <3>2. \A k \in 1 .. Len(evs) : evs[k] = "Disconnected" => k = Len(evs) /\ "gone" = "gone"
      OBVIOUS
    <3>3. Becomes(t, "gone", evs)
      BY <2>5
    <3> HIDE DEF evs
    <3> QED
      BY <3>1, <3>2, <3>3, Spoken
  <2> QED
    BY <2>1, <2>2, <2>3, <2>4, <2>5
<1>1. CASE ConnectEnds(t)
  BY <1>1, <1>b, <1>s DEF ConnectEnds
<1>2. CASE PeerEnds(t)
  BY <1>2, <1>b, <1>s DEF PeerEnds
<1> DEFINE n == tasks[t].data + 1
           fs == Append(tasks[t].out, "Frame")
           rest == Tail(tasks[t].cmds)
<1>f. n \in Nat /\ fs \in Seq(Events)
  BY <1>0, Fields DEF Events
<1>3. CASE Receive(t)
  <2>1. tasks' = [tasks EXCEPT ![t] = Got(tasks[t], n, fs)]
    BY <1>3 DEF Receive, Got
  <2>2. UNCHANGED Rest
    BY <1>3 DEF Receive, Rest
  <2> HIDE DEF n
  <2>3. /\ Got(tasks[t], n, fs) \in Task
        /\ Got(tasks[t], n, fs).owner = tasks[t].owner
        /\ Got(tasks[t], n, fs).idx = tasks[t].idx
        /\ Got(tasks[t], n, fs).cmdOpen = tasks[t].cmdOpen
        /\ Got(tasks[t], n, fs).state = tasks[t].state
        /\ Got(tasks[t], n, fs).out = fs
    BY <1>0, <1>f, GotType
  <2>4. Speaks(t)
    BY <2>1, <2>3, FrameSpoken
  <2> QED
    BY <2>2, <2>4, <1>s
<1>4. CASE Command(t)
  <2>1. CASE /\ tasks[t].cmds # <<>>
             /\ tasks' = [tasks EXCEPT ![t] = Sent(tasks[t], rest, fs)]
             /\ UNCHANGED Rest
    <3>1. rest \in Seq(Commands)
      BY <1>0, <2>1, Fields, TailOf
    <3> HIDE DEF rest
    <3>2. /\ Sent(tasks[t], rest, fs) \in Task
          /\ Sent(tasks[t], rest, fs).owner = tasks[t].owner
          /\ Sent(tasks[t], rest, fs).idx = tasks[t].idx
          /\ Sent(tasks[t], rest, fs).cmdOpen = tasks[t].cmdOpen
          /\ Sent(tasks[t], rest, fs).state = tasks[t].state
          /\ Sent(tasks[t], rest, fs).out = fs
      BY <1>0, <1>f, <3>1, SentType
    <3>3. Speaks(t)
      BY <2>1, <3>2, FrameSpoken
    <3> QED
      BY <2>1, <3>3, <1>s
  <2>2. CASE Becomes(t, "gone", <<"Error", "Disconnected">>) \/ Becomes(t, "gone", <<>>)
    BY <2>2, <1>b, <1>s
  <2> QED
    BY <1>4, <2>1, <2>2 DEF Command, Sent, Rest
<1> QED
  BY <1>1, <1>2, <1>3, <1>4

------------------------------------------------------------------------------
(* What the other steps do to the sequences they change.                   *)
Released(r) == [r EXCEPT !.cmdOpen = FALSE]
Drained(r) == [r EXCEPT !.out = Tail(@)]
Renewed(r, t) == [r EXCEPT !.status = "Connecting", !.task = t]
Shown(r, s) == [r EXCEPT !.status = s]

LEMMA ReleasedType ==
  ASSUME NEW r \in Task
  PROVE  /\ Released(r) \in Task
         /\ Released(r).owner = r.owner
         /\ Released(r).idx = r.idx
         /\ Released(r).cmdOpen = FALSE
         /\ Released(r).state = r.state
         /\ Released(r).out = r.out
BY DEF Released, Task

LEMMA DrainedType ==
  ASSUME NEW r \in Task, r.out # <<>>
  PROVE  /\ Drained(r) \in Task
         /\ Drained(r).owner = r.owner
         /\ Drained(r).idx = r.idx
         /\ Drained(r).cmdOpen = r.cmdOpen
         /\ Drained(r).state = r.state
         /\ Drained(r).out = Tail(r.out)
<1>1. Tail(r.out) \in Seq(Events)
  BY Fields, TailOf
<1> QED
  BY <1>1 DEF Drained, Task

LEMMA TabFields ==
  ASSUME NEW r \in Tab
  PROVE  r.sid \in Nat /\ r.status \in Statuses /\ r.task \in Nat
BY DEF Tab

LEMMA RenewedType ==
  ASSUME NEW r \in Tab, NEW t \in Nat
  PROVE  /\ Renewed(r, t) \in Tab
         /\ Renewed(r, t).sid = r.sid
         /\ Renewed(r, t).status = "Connecting"
         /\ Renewed(r, t).task = t
BY DEF Renewed, Tab, Statuses

LEMMA ShownType ==
  ASSUME NEW r \in Tab, NEW s \in Statuses
  PROVE  /\ Shown(r, s) \in Tab
         /\ Shown(r, s).sid = r.sid
         /\ Shown(r, s).status = s
         /\ Shown(r, s).task = r.task
BY DEF Shown, Tab

LEMMA CloseShape ==
  ASSUME TypeOK, tabs # <<>>, CloseActive
  PROVE  /\ tabs' \in Seq(Tab)
         /\ Len(tabs') = Len(tabs) - 1
         /\ \A j \in 1 .. Len(tabs') :
              tabs'[j] = IF j < active THEN tabs[j] ELSE tabs[j + 1]
         /\ tasks' \in Seq(Task)
         /\ Len(tasks') = Len(tasks)
         /\ \A u \in 1 .. Len(tasks) : u # tabs[active].task => tasks'[u] = tasks[u]
         /\ ~tasks'[tabs[active].task].cmdOpen
         /\ \A u \in 1 .. Len(tasks) :
              /\ tasks'[u].idx = tasks[u].idx
              /\ tasks'[u].state = tasks[u].state
              /\ tasks'[u].out = tasks[u].out
         /\ active' \in Nat
         /\ active' \in 1 .. Len(tabs') \/ (tabs' = <<>> /\ active' = 1)
<1> DEFINE u == tabs[active].task
<1>1. tabs \in Seq(Tab) /\ tasks \in Seq(Task) /\ active \in 1 .. Len(tabs)
  BY DEF TypeOK
<1>2. u \in 1 .. Len(tasks)
  BY <1>1 DEF TypeOK
<1>3. tabs' \in Seq(Tab) /\ Len(tabs') = Len(tabs) - 1
  BY <1>1, Removed DEF CloseActive
<1>4. \A j \in 1 .. Len(tabs') : tabs'[j] = IF j < active THEN tabs[j] ELSE tabs[j + 1]
  BY <1>1, <1>3, Removed DEF CloseActive
<1>5. tasks' = [tasks EXCEPT ![u] = Released(tasks[u])]
  BY DEF CloseActive, Released
<1>6. tasks[u] \in Task
  BY <1>1, <1>2
<1> HIDE DEF u
<1>7. /\ tasks' \in Seq(Task) /\ Len(tasks') = Len(tasks)
      /\ tasks'[u] = Released(tasks[u])
      /\ \A v \in 1 .. Len(tasks) : v # u => tasks'[v] = tasks[v]
  <2>1. Released(tasks[u]) \in Task
    BY <1>6, ReleasedType
  <2> QED
    BY <1>1, <1>2, <1>5, <2>1, Edit
<1>8. ~tasks'[u].cmdOpen
  BY <1>6, <1>7, ReleasedType
<1>10. /\ tasks'[u].idx = tasks[u].idx /\ tasks'[u].state = tasks[u].state
       /\ tasks'[u].out = tasks[u].out
  BY <1>6, <1>7, ReleasedType
<1>11. \A v \in 1 .. Len(tasks) :
         /\ tasks'[v].idx = tasks[v].idx
         /\ tasks'[v].state = tasks[v].state
         /\ tasks'[v].out = tasks[v].out
  <2> TAKE v \in 1 .. Len(tasks)
  <2>1. CASE v = u
    BY <1>10, <2>1
  <2>2. CASE v # u
    BY <1>7, <2>2
  <2> QED
    BY <2>1, <2>2
<1>9. active' \in Nat /\ (active' \in 1 .. Len(tabs') \/ (tabs' = <<>> /\ active' = 1))
  <2>1. CASE Len(tabs) = 1
    <3>1. active' = 1
      BY <1>1, <2>1 DEF CloseActive
    <3>2. tabs' = <<>>
      BY <1>3, <2>1
    <3> QED
      BY <3>1, <3>2
  <2>2. CASE Len(tabs) # 1
    BY <1>1, <1>3, <2>2 DEF CloseActive
  <2> QED
    BY <2>1, <2>2
<1> QED
  BY <1>3, <1>4, <1>7, <1>8, <1>9, <1>11 DEF u

LEMMA OpenShape ==
  ASSUME TypeOK, OpenTab
  PROVE  LET t == Len(tasks) + 1
             n == Len(tabs) + 1
         IN  /\ tabs' \in Seq(Tab) /\ Len(tabs') = n
             /\ \A i \in 1 .. Len(tabs) : tabs'[i] = tabs[i]
             /\ tabs'[n].sid = t /\ tabs'[n].task = t /\ tabs'[n].status = "Connecting"
             /\ tasks' \in Seq(Task) /\ Len(tasks') = t
             /\ \A u \in 1 .. Len(tasks) : tasks'[u] = tasks[u]
             /\ tasks'[t].owner = t /\ tasks'[t].idx = n
             /\ tasks'[t].state = "connecting" /\ tasks'[t].out = <<>>
             /\ active' = n /\ overlay' = "None"
             /\ UNCHANGED <<asked, removed, fan>>
<1> DEFINE t == Len(tasks) + 1
           n == Len(tabs) + 1
           tab == [sid |-> t, status |-> "Connecting", task |-> t]
<1>1. tabs \in Seq(Tab) /\ tasks \in Seq(Task)
  BY DEF TypeOK
<1>2. t \in Nat /\ n \in Nat
  BY <1>1
<1>3. tab \in Tab /\ tab.sid = t /\ tab.task = t /\ tab.status = "Connecting"
  BY <1>2 DEF Tab, Statuses
<1>4. /\ tabs' = Append(tabs, tab) /\ tasks' = Append(tasks, NewTask(t, n))
      /\ active' = n /\ overlay' = "None" /\ UNCHANGED <<asked, removed, fan>>
  BY DEF OpenTab
<1> HIDE DEF tab
<1>5. /\ tabs' \in Seq(Tab) /\ Len(tabs') = n /\ tabs'[n] = tab
      /\ \A i \in 1 .. Len(tabs) : tabs'[i] = tabs[i]
  BY <1>1, <1>3, <1>4, Appended
<1>6. /\ NewTask(t, n) \in Task /\ NewTask(t, n).owner = t /\ NewTask(t, n).idx = n
      /\ NewTask(t, n).state = "connecting" /\ NewTask(t, n).out = <<>>
  BY <1>2, NewTaskType
<1>7. /\ tasks' \in Seq(Task) /\ Len(tasks') = t /\ tasks'[t] = NewTask(t, n)
      /\ \A u \in 1 .. Len(tasks) : tasks'[u] = tasks[u]
  BY <1>1, <1>4, <1>6, Appended
<1> QED
  BY <1>3, <1>4, <1>5, <1>6, <1>7

LEMMA ReconnectShape ==
  ASSUME TypeOK, Reconnect
  PROVE  LET t == Len(tasks) + 1
             u == tabs[active].task
         IN  /\ active \in 1 .. Len(tabs) /\ u \in 1 .. Len(tasks)
             /\ tabs[active].status = "Disconnected"
             /\ tabs' \in Seq(Tab) /\ Len(tabs') = Len(tabs)
             /\ \A i \in 1 .. Len(tabs) : i # active => tabs'[i] = tabs[i]
             /\ tabs'[active].sid = tabs[active].sid /\ tabs'[active].task = t
             /\ tabs'[active].status = "Connecting"
             /\ tasks' \in Seq(Task) /\ Len(tasks') = t
             /\ \A v \in 1 .. Len(tasks) : v # u => tasks'[v] = tasks[v]
             /\ tasks'[u].owner = tasks[u].owner /\ tasks'[u].idx = tasks[u].idx
             /\ tasks'[u].state = tasks[u].state /\ tasks'[u].out = tasks[u].out
             /\ ~tasks'[u].cmdOpen
             /\ tasks'[t].owner = tabs[active].sid /\ tasks'[t].idx = active
             /\ tasks'[t].state = "connecting" /\ tasks'[t].out = <<>>
             /\ UNCHANGED <<active, overlay, asked, removed, fan>>
<1> DEFINE t == Len(tasks) + 1
           u == tabs[active].task
           q == Told(u, "Close")
           p == [q EXCEPT ![u] = Released(q[u])]
           nt == NewTask(tabs[active].sid, active)
<1>1. /\ tabs \in Seq(Tab) /\ tasks \in Seq(Task) /\ active \in 1 .. Len(tabs)
      /\ tabs[active].status = "Disconnected"
  BY DEF TypeOK, Reconnect
<1>2. u \in 1 .. Len(tasks) /\ t \in Nat
  BY <1>1 DEF TypeOK
<1>3. tabs[active] \in Tab
  BY <1>1
<1>4. /\ tabs' = [tabs EXCEPT ![active] = Renewed(tabs[active], t)]
      /\ tasks' = Append(p, nt)
      /\ UNCHANGED <<active, overlay, asked, removed, fan>>
  BY DEF Reconnect, Renewed, Released
<1>5. /\ tabs' \in Seq(Tab) /\ Len(tabs') = Len(tabs)
      /\ \A i \in 1 .. Len(tabs) : i # active => tabs'[i] = tabs[i]
      /\ tabs'[active] = Renewed(tabs[active], t)
  <2>1. Renewed(tabs[active], t) \in Tab
    BY <1>2, <1>3, RenewedType
  <2> HIDE DEF t
  <2> QED
    BY <1>1, <1>4, <2>1, Edit
<1>6. /\ Renewed(tabs[active], t).sid = tabs[active].sid
      /\ Renewed(tabs[active], t).task = t
      /\ Renewed(tabs[active], t).status = "Connecting"
  BY <1>2, <1>3, RenewedType
<1> HIDE DEF u
<1>7. /\ q \in Seq(Task) /\ Len(q) = Len(tasks)
      /\ \A v \in 1 .. Len(tasks) : v # u => q[v] = tasks[v]
      /\ q[u].owner = tasks[u].owner /\ q[u].idx = tasks[u].idx
      /\ q[u].state = tasks[u].state /\ q[u].out = tasks[u].out
  <2>1. "Close" \in Commands
    BY DEF Commands
  <2> QED
    BY <1>1, <1>2, <2>1, ToldShape
<1> HIDE DEF q
<1>8. q[u] \in Task
  BY <1>2, <1>7
<1>9. /\ Released(q[u]) \in Task
      /\ Released(q[u]).owner = tasks[u].owner /\ Released(q[u]).idx = tasks[u].idx
      /\ Released(q[u]).state = tasks[u].state /\ Released(q[u]).out = tasks[u].out
      /\ ~Released(q[u]).cmdOpen
  BY <1>7, <1>8, ReleasedType
<1>10. /\ p \in Seq(Task) /\ Len(p) = Len(tasks)
       /\ p[u] = Released(q[u])
       /\ \A v \in 1 .. Len(tasks) : v # u => p[v] = tasks[v]
  <2>1. /\ p \in Seq(Task) /\ Len(p) = Len(q) /\ p[u] = Released(q[u])
        /\ \A v \in 1 .. Len(q) : v # u => p[v] = q[v]
    BY <1>2, <1>7, <1>9, Edit
  <2> HIDE DEF p
  <2> QED
    BY <1>7, <2>1
<1> HIDE DEF p
<1>11. /\ nt \in Task /\ nt.owner = tabs[active].sid /\ nt.idx = active
       /\ nt.state = "connecting" /\ nt.out = <<>>
  <2>1. tabs[active].sid \in Nat /\ active \in Nat
    BY <1>1, <1>3, TabFields
  <2> QED
    BY <2>1, NewTaskType
<1> HIDE DEF nt
<1>12. /\ tasks' \in Seq(Task) /\ Len(tasks') = t /\ tasks'[t] = nt
       /\ \A v \in 1 .. Len(tasks) : tasks'[v] = p[v]
  <2>1. /\ Append(p, nt) \in Seq(Task) /\ Len(Append(p, nt)) = Len(p) + 1
        /\ Append(p, nt)[Len(p) + 1] = nt
        /\ \A v \in 1 .. Len(p) : Append(p, nt)[v] = p[v]
    BY <1>10, <1>11, Appended
  <2>2. tasks' = Append(p, nt) /\ Len(p) = Len(tasks)
    BY <1>4, <1>10
  <2> QED
    BY <2>1, <2>2, Zenon
<1> HIDE DEF t
<1>13. /\ \A v \in 1 .. Len(tasks) : v # u => tasks'[v] = tasks[v]
       /\ tasks'[u].owner = tasks[u].owner /\ tasks'[u].idx = tasks[u].idx
       /\ tasks'[u].state = tasks[u].state /\ tasks'[u].out = tasks[u].out
       /\ ~tasks'[u].cmdOpen
  <2>1. tasks'[u] = Released(q[u])
    BY <1>2, <1>10, <1>12
  <2>2. \A v \in 1 .. Len(tasks) : v # u => tasks'[v] = tasks[v]
    BY <1>10, <1>12
  <2> QED
    BY <1>9, <2>1, <2>2, Zenon
<1>14. /\ tasks'[t].owner = tabs[active].sid /\ tasks'[t].idx = active
       /\ tasks'[t].state = "connecting" /\ tasks'[t].out = <<>>
  BY <1>11, <1>12
<1>15. /\ tabs'[active].sid = tabs[active].sid /\ tabs'[active].task = t
       /\ tabs'[active].status = "Connecting"
  BY <1>5, <1>6
<1> QED
  BY <1>1, <1>2, <1>4, <1>5, <1>12, <1>13, <1>14, <1>15, Zenon DEF t, u

LEMMA HandleShape ==
  ASSUME TypeOK, HandleEvent
  PROVE  /\ fan # <<>> /\ fan' = Tail(fan) /\ fan' \in Seq(FanEvent)
         /\ tabs' \in Seq(Tab) /\ Len(tabs') = Len(tabs)
         /\ \A i \in 1 .. Len(tabs) :
              /\ tabs'[i].sid = tabs[i].sid /\ tabs'[i].task = tabs[i].task
              /\ \/ tabs'[i].status = tabs[i].status
                 \/ i = Head(fan).idx /\ tabs'[i].status = Head(fan).ev
         /\ UNCHANGED <<active, overlay, asked, removed, tasks>>
<1>1. /\ tabs \in Seq(Tab) /\ fan \in Seq(FanEvent) /\ fan # <<>> /\ fan' = Tail(fan)
      /\ UNCHANGED <<active, overlay, asked, removed, tasks>>
  BY DEF TypeOK, HandleEvent
<1>2. fan' \in Seq(FanEvent) /\ Head(fan) \in FanEvent
  BY <1>1, TailOf
<1> DEFINE i == Head(fan).idx
           s == StatusAfter(tabs[i].status, Head(fan).ev)
<1>3. CASE i \in 1 .. Len(tabs)
  <2>1. tabs[i] \in Tab
    BY <1>1, <1>3
  <2>2. tabs' = [tabs EXCEPT ![i] = Shown(tabs[i], s)]
    BY <1>3 DEF HandleEvent, Shown
  <2>3. s \in Statuses /\ (s = tabs[i].status \/ s = Head(fan).ev)
    BY <1>2, <2>1 DEF StatusAfter, Tab, FanEvent, Events, Statuses
  <2> HIDE DEF s, i
  <2>4. /\ Shown(tabs[i], s) \in Tab /\ Shown(tabs[i], s).sid = tabs[i].sid
        /\ Shown(tabs[i], s).task = tabs[i].task /\ Shown(tabs[i], s).status = s
    BY <2>1, <2>3, ShownType
  <2>5. /\ tabs' \in Seq(Tab) /\ Len(tabs') = Len(tabs) /\ tabs'[i] = Shown(tabs[i], s)
        /\ \A j \in 1 .. Len(tabs) : j # i => tabs'[j] = tabs[j]
    BY <1>1, <1>3, <2>2, <2>4, Edit
  <2> QED
    BY <1>1, <1>2, <2>3, <2>4, <2>5, Zenon DEF i
<1>4. CASE i \notin 1 .. Len(tabs)
  <2>1. tabs' = tabs
    BY <1>4 DEF HandleEvent
  <2> QED
    BY <1>1, <1>2, <2>1
<1> QED
  BY <1>3, <1>4

LEMMA ForwardShape ==
  ASSUME TypeOK, NEW t \in 1 .. Len(tasks), Forward(t)
  PROVE  LET n == Len(fan) + 1
         IN  /\ Edited(t)
             /\ tasks[t].out \in Seq(Events) /\ tasks[t].out # <<>>
             /\ tasks'[t].state = tasks[t].state
             /\ tasks'[t].out = Tail(tasks[t].out)
             /\ fan' \in Seq(FanEvent) /\ Len(fan') = n
             /\ \A k \in 1 .. Len(fan) : fan'[k] = fan[k]
             /\ fan'[n].idx = tasks[t].idx /\ fan'[n].task = t
             /\ fan'[n].ev = Head(tasks[t].out)
             /\ UNCHANGED <<tabs, active, overlay, asked, removed>>
<1> DEFINE e == [idx |-> tasks[t].idx, task |-> t, ev |-> Head(tasks[t].out)]
           r == Drained(tasks[t])
<1>1. /\ fan \in Seq(FanEvent) /\ tasks \in Seq(Task) /\ tasks[t].out # <<>>
      /\ fan' = Append(fan, e)
      /\ UNCHANGED <<tabs, active, overlay, asked, removed>>
  BY DEF TypeOK, Forward
<1>2. tasks' = [tasks EXCEPT ![t] = r]
  BY DEF Forward, Drained
<1>3. tasks[t] \in Task
  BY <1>1
<1>4. /\ r \in Task /\ r.owner = tasks[t].owner /\ r.idx = tasks[t].idx
      /\ r.cmdOpen = tasks[t].cmdOpen /\ r.state = tasks[t].state
      /\ r.out = Tail(tasks[t].out)
  BY <1>1, <1>3, DrainedType
<1> HIDE DEF r
<1>5. Edited(t) /\ tasks'[t] = r
  BY <1>1, <1>2, <1>4, Replaced
<1>6. tasks[t].out \in Seq(Events) /\ tasks[t].idx \in Nat
  BY <1>3, Fields
<1>7. e \in FanEvent /\ e.idx = tasks[t].idx /\ e.task = t /\ e.ev = Head(tasks[t].out)
  <2>1. Head(tasks[t].out) \in Events /\ t \in Nat
    BY <1>1, <1>6, TailOf
  <2> QED
    BY <1>6, <2>1 DEF FanEvent
<1> HIDE DEF e
<1>8. /\ fan' \in Seq(FanEvent) /\ Len(fan') = Len(fan) + 1 /\ fan'[Len(fan) + 1] = e
      /\ \A k \in 1 .. Len(fan) : fan'[k] = fan[k]
  BY <1>1, <1>7, Appended
<1> QED
  BY <1>1, <1>4, <1>5, <1>6, <1>7, <1>8, Zenon

LEMMA SendShape ==
  ASSUME TypeOK, Send
  PROVE  LET t == tabs[active].task
         IN  /\ t \in 1 .. Len(tasks) /\ Edited(t)
             /\ tasks'[t].state = tasks[t].state
             /\ tasks'[t].out = tasks[t].out
             /\ UNCHANGED Rest
<1> DEFINE t == tabs[active].task
<1>1. /\ tasks \in Seq(Task) /\ tasks' = Told(t, "Send") /\ t \in 1 .. Len(tasks)
      /\ UNCHANGED Rest
  BY DEF TypeOK, Send, Rest
<1>2. "Send" \in Commands
  BY DEF Commands
<1> HIDE DEF t
<1>3. Edited(t) /\ tasks'[t].state = tasks[t].state /\ tasks'[t].out = tasks[t].out
  BY <1>1, <1>2, ToldShape DEF Edited
<1> QED
  BY <1>1, <1>3 DEF t

------------------------------------------------------------------------------
(* The steps of Next, sorted by what they touch.                           *)
Looks ==
  /\ UNCHANGED <<tabs, removed, tasks, fan>>
  /\ overlay' \in {"None", "CloseConfirm", "Other"}
  /\ asked' \in Nat
  /\ active' # active => active' \in 1 .. Len(tabs)
  /\ overlay' = "CloseConfirm" =>
       /\ active' = active
       /\ \/ overlay = "CloseConfirm" /\ asked' = asked
          \/ tabs # <<>> /\ asked' = tabs[active].sid

Closes ==
  /\ tabs # <<>>
  /\ CloseActive
  /\ UNCHANGED <<asked, fan>>
  /\ Live(tabs[active].status) => overlay = "CloseConfirm"

Speech(t) == ConnectEnds(t) \/ Receive(t) \/ PeerEnds(t) \/ Command(t)

LEMMA Steps ==
  ASSUME TypeOK, [Next]_vars
  PROVE  \/ Looks \/ Closes \/ OpenTab \/ Reconnect \/ Send \/ HandleEvent
         \/ \E t \in 1 .. Len(tasks) : Forward(t)
         \/ \E t \in 1 .. Len(tasks) : Speech(t)
<1>0. /\ overlay \in {"None", "CloseConfirm", "Other"} /\ asked \in Nat
      /\ tabs \in Seq(Tab) /\ (tabs # <<>> => active \in 1 .. Len(tabs))
  BY DEF TypeOK
<1>1. CASE UNCHANGED vars
  BY <1>0, <1>1 DEF vars, Looks
<1>2. CASE OpenOverlay \/ CloseOverlay
  BY <1>0, <1>2 DEF OpenOverlay, CloseOverlay, Looks
<1>3. ASSUME NEW i \in 1 .. Len(tabs), SelectTab(i)
      PROVE  Looks
  BY <1>0, <1>3 DEF SelectTab, Looks
<1>4. CASE RequestClose
  <2>1. CASE Live(tabs[active].status)
    <3>1. tabs[active].sid \in Nat
      <4>1. tabs[active] \in Tab
        BY <1>0, <1>4 DEF RequestClose
      <4> QED
        BY <4>1, TabFields
    <3> QED
      BY <1>0, <1>4, <2>1, <3>1 DEF RequestClose, Looks
  <2>2. CASE ~Live(tabs[active].status)
    BY <1>4, <2>2 DEF RequestClose, Closes
  <2> QED
    BY <2>1, <2>2
<1>5. CASE ConfirmClose
  BY <1>5 DEF ConfirmClose, Closes
<1>6. CASE \E t \in 1 .. Len(tasks) : TaskStep(t)
  BY <1>6 DEF TaskStep, Speech
<1> QED
  BY <1>1, <1>2, <1>3, <1>4, <1>5, <1>6 DEF Next, UserStep

LEMMA TypeInitially ==
  ASSUME Init
  PROVE  TypeOK
<1>1. <<>> \in Seq(Tab) /\ <<>> \in Seq(Task) /\ <<>> \in Seq(FanEvent)
  OBVIOUS
<1>2. /\ active = 1 /\ overlay = "None" /\ asked = 0 /\ removed = FALSE /\ fan = <<>>
  BY DEF Init
<1>f. Len(fan) = 0 /\ fan \in Seq(FanEvent)
  BY <1>1, <1>2
<1>t. active \in Nat /\ overlay \in {"None", "CloseConfirm", "Other"} /\ asked \in Nat /\ removed \in BOOLEAN
  BY <1>2
<1>3. CASE tabs = <<>> /\ tasks = <<>>
  <2>1. tabs \in Seq(Tab) /\ tasks \in Seq(Task) /\ Len(tabs) = 0
    BY <1>1, <1>3
  <2> QED
    BY <1>2, <1>3, <1>f, <1>t, <2>1 DEF TypeOK
<1>4. CASE /\ tabs = <<[sid |-> 1, status |-> "Connecting", task |-> 1]>>
           /\ tasks = <<NewTask(1, 1)>>
  <2>1. NewTask(1, 1) \in Task
    BY NewTaskType
  <2>2. [sid |-> 1, status |-> "Connecting", task |-> 1] \in Tab
    BY DEF Tab, Statuses
  <2>3. tasks \in Seq(Task) /\ Len(tasks) = 1
    BY <1>4, <2>1
  <2>4. tabs \in Seq(Tab) /\ Len(tabs) = 1 /\ tabs[1].task = 1
    BY <1>4, <2>2
  <2>5. active \in 1 .. Len(tabs) /\ \A i \in 1 .. Len(tabs) : tabs[i].task \in 1 .. Len(tasks)
    BY <1>2, <2>3, <2>4
  <2> QED
    BY <1>f, <1>t, <2>3, <2>4, <2>5 DEF TypeOK
<1> QED
  BY <1>3, <1>4 DEF Init

LEMMA TypeStep ==
  ASSUME TypeOK, [Next]_vars
  PROVE  TypeOK'
<1>0. /\ tabs \in Seq(Tab) /\ active \in Nat /\ overlay \in {"None", "CloseConfirm", "Other"}
      /\ asked \in Nat /\ removed \in BOOLEAN /\ tasks \in Seq(Task) /\ fan \in Seq(FanEvent)
      /\ active \in 1 .. Len(tabs) \/ (tabs = <<>> /\ active = 1)
      /\ \A i \in 1 .. Len(tabs) : tabs[i].task \in 1 .. Len(tasks)
      /\ \A k \in 1 .. Len(fan) : fan[k].task \in 1 .. Len(tasks)
  BY DEF TypeOK
<1>e. ASSUME NEW t \in 1 .. Len(tasks), Edited(t), UNCHANGED Rest
      PROVE  TypeOK'
  BY <1>0, <1>e DEF Edited, Rest, TypeOK
<1>1. CASE Looks
  <2>1. active' \in Nat /\ (active' \in 1 .. Len(tabs) \/ (tabs = <<>> /\ active' = 1))
    BY <1>0, <1>1 DEF Looks
  <2> QED
    BY <1>0, <1>1, <2>1 DEF Looks, TypeOK
<1>2. CASE Closes
  <2>1. overlay' = "None" /\ removed' = TRUE /\ UNCHANGED <<asked, fan>>
    BY <1>2 DEF Closes, CloseActive
  <2>2. /\ tabs' \in Seq(Tab) /\ Len(tabs') = Len(tabs) - 1
        /\ \A j \in 1 .. Len(tabs') : tabs'[j] = IF j < active THEN tabs[j] ELSE tabs[j + 1]
        /\ tasks' \in Seq(Task) /\ Len(tasks') = Len(tasks) /\ active' \in Nat
        /\ active' \in 1 .. Len(tabs') \/ (tabs' = <<>> /\ active' = 1)
    BY <1>2, CloseShape DEF Closes
  <2>3. ASSUME NEW j \in 1 .. Len(tabs')
        PROVE  tabs'[j].task \in 1 .. Len(tasks')
    <3>1. j \in 1 .. Len(tabs) /\ j + 1 \in 1 .. Len(tabs)
      BY <1>0, <2>2
    <3>2. CASE tabs'[j] = tabs[j]
      BY <1>0, <2>2, <3>1, <3>2
    <3>3. CASE tabs'[j] = tabs[j + 1]
      BY <1>0, <2>2, <3>1, <3>3
    <3> QED
      BY <2>2, <3>2, <3>3
  <2> QED
    BY <1>0, <2>1, <2>2, <2>3 DEF TypeOK
<1>3. CASE OpenTab
  <2> DEFINE t == Len(tasks) + 1
             n == Len(tabs) + 1
  <2>1. /\ tabs' \in Seq(Tab) /\ Len(tabs') = n
        /\ \A i \in 1 .. Len(tabs) : tabs'[i] = tabs[i]
        /\ tabs'[n].task = t
        /\ tasks' \in Seq(Task) /\ Len(tasks') = t
        /\ active' = n /\ overlay' = "None" /\ UNCHANGED <<asked, removed, fan>>
    BY <1>3, OpenShape
  <2>2. ASSUME NEW i \in 1 .. Len(tabs')
        PROVE  tabs'[i].task \in 1 .. Len(tasks')
    <3>1. CASE i = n
      BY <1>0, <2>1, <3>1
    <3>2. CASE i # n
      BY <1>0, <2>1, <3>2
    <3> QED
      BY <3>1, <3>2
  <2> QED
    BY <1>0, <2>1, <2>2 DEF TypeOK
<1>4. CASE Reconnect
  <2> DEFINE t == Len(tasks) + 1
  <2>1. /\ tabs' \in Seq(Tab) /\ Len(tabs') = Len(tabs)
        /\ \A i \in 1 .. Len(tabs) : i # active => tabs'[i] = tabs[i]
        /\ tabs'[active].task = t
        /\ tasks' \in Seq(Task) /\ Len(tasks') = t
        /\ UNCHANGED <<active, overlay, asked, removed, fan>>
    BY <1>4, ReconnectShape
  <2>2. ASSUME NEW i \in 1 .. Len(tabs')
        PROVE  tabs'[i].task \in 1 .. Len(tasks')
    <3>1. CASE i = active
      BY <1>0, <2>1, <3>1
    <3>2. CASE i # active
      BY <1>0, <2>1, <3>2
    <3> QED
      BY <3>1, <3>2
  <2>3. active' \in 1 .. Len(tabs') \/ (tabs' = <<>> /\ active' = 1)
    BY <1>0, <2>1
  <2>4. \A k \in 1 .. Len(fan') : fan'[k].task \in 1 .. Len(tasks')
    BY <1>0, <2>1
  <2> HIDE DEF t
  <2> QED
    BY <1>0, <2>1, <2>2, <2>3, <2>4 DEF TypeOK
<1>5. CASE Send
  BY <1>5, <1>e, SendShape
<1>6. CASE HandleEvent
  <2>1. /\ fan # <<>> /\ fan' = Tail(fan) /\ fan' \in Seq(FanEvent)
        /\ tabs' \in Seq(Tab) /\ Len(tabs') = Len(tabs)
        /\ \A i \in 1 .. Len(tabs) : tabs'[i].task = tabs[i].task
        /\ UNCHANGED <<active, overlay, asked, removed, tasks>>
    BY <1>6, HandleShape
  <2>2. \A k \in 1 .. Len(fan') : fan'[k].task \in 1 .. Len(tasks)
    BY <1>0, <2>1, TailOf
  <2>3. active' \in 1 .. Len(tabs') \/ (tabs' = <<>> /\ active' = 1)
    BY <1>0, <2>1
  <2> QED
    BY <1>0, <2>1, <2>2, <2>3 DEF TypeOK
<1>7. ASSUME NEW t \in 1 .. Len(tasks), Forward(t)
      PROVE  TypeOK'
  <2> DEFINE n == Len(fan) + 1
  <2>1. /\ Edited(t) /\ fan' \in Seq(FanEvent) /\ Len(fan') = n
        /\ \A k \in 1 .. Len(fan) : fan'[k] = fan[k]
        /\ fan'[n].task = t
        /\ UNCHANGED <<tabs, active, overlay, asked, removed>>
    BY <1>7, ForwardShape
  <2>2. ASSUME NEW k \in 1 .. Len(fan')
        PROVE  fan'[k].task \in 1 .. Len(tasks)
    <3>1. CASE k = n
      BY <2>1, <3>1
    <3>2. CASE k # n
      <4>1. k \in 1 .. Len(fan)
        BY <1>0, <2>1, <3>2
      <4> QED
        BY <1>0, <2>1, <4>1
    <3> QED
      BY <3>1, <3>2
  <2> QED
    BY <1>0, <2>1, <2>2 DEF Edited, TypeOK
<1>8. ASSUME NEW t \in 1 .. Len(tasks), Speech(t)
      PROVE  TypeOK'
  <2>1. UNCHANGED Rest /\ Edited(t)
    BY <1>0, <1>8, ConnectionSteps DEF Speech, Speaks
  <2> QED
    BY <1>e, <2>1
<1> QED
  BY <1>1, <1>2, <1>3, <1>4, <1>5, <1>6, <1>7, <1>8, Steps

(* Every variable keeps its shape: the active tab exists, the connection a *)
(* tab shows was started, and so was the one an event is from.             *)
THEOREM Typed == Spec => []TypeOK
<1>1. Init => TypeOK
  BY TypeInitially
<1>2. TypeOK /\ [Next]_vars => TypeOK'
  BY TypeStep
<1> QED
  BY <1>1, <1>2, PTL DEF Spec

------------------------------------------------------------------------------
LEMMA OneStep ==
  ASSUME TypeOK, OneConnectionPerTab, [Next]_vars
  PROVE  OneConnectionPerTab'
<1>0. /\ tabs \in Seq(Tab) /\ tasks \in Seq(Task)
      /\ active \in 1 .. Len(tabs) \/ (tabs = <<>> /\ active = 1)
      /\ \A i \in 1 .. Len(tabs) : tabs[i].task \in 1 .. Len(tasks)
  BY DEF TypeOK
<1>h. ASSUME NEW t \in 1 .. Len(tasks), tasks[t].cmdOpen
      PROVE  \E i \in 1 .. Len(tabs) : tabs[i].task = t /\ tabs[i].sid = tasks[t].owner
  BY <1>h DEF OneConnectionPerTab
<1>e. ASSUME NEW t \in 1 .. Len(tasks), Edited(t), UNCHANGED tabs
      PROVE  OneConnectionPerTab'
  <2>1. \A u \in 1 .. Len(tasks) : tasks'[u].cmdOpen = tasks[u].cmdOpen /\ tasks'[u].owner = tasks[u].owner
    BY <1>e DEF Edited
  <2> QED
    BY <1>e, <1>h, <2>1 DEF Edited, OneConnectionPerTab
<1>1. CASE Looks
  BY <1>1 DEF Looks, OneConnectionPerTab
<1>2. CASE Closes
  <2>1. /\ Len(tabs') = Len(tabs) - 1
        /\ \A j \in 1 .. Len(tabs') : tabs'[j] = IF j < active THEN tabs[j] ELSE tabs[j + 1]
        /\ Len(tasks') = Len(tasks)
        /\ \A u \in 1 .. Len(tasks) : u # tabs[active].task => tasks'[u] = tasks[u]
        /\ ~tasks'[tabs[active].task].cmdOpen
    BY <1>2, CloseShape DEF Closes
  <2>2. active \in 1 .. Len(tabs)
    BY <1>0, <1>2 DEF Closes
  <2>3. ASSUME NEW t \in 1 .. Len(tasks'), tasks'[t].cmdOpen
        PROVE  \E j \in 1 .. Len(tabs') : tabs'[j].task = t /\ tabs'[j].sid = tasks'[t].owner
    <3>1. t \in 1 .. Len(tasks) /\ t # tabs[active].task
      BY <2>1, <2>3
    <3>2. tasks'[t] = tasks[t]
      BY <2>1, <3>1
    <3>3. PICK i \in 1 .. Len(tabs) : tabs[i].task = t /\ tabs[i].sid = tasks[t].owner
      BY <1>h, <2>3, <3>1, <3>2
    <3>4. i # active
      BY <3>1, <3>3
    <3>5. CASE i < active
      <4>1. i \in 1 .. Len(tabs') /\ tabs'[i] = tabs[i]
        BY <1>0, <2>1, <2>2, <3>5
      <4> QED
        BY <3>2, <3>3, <4>1
    <3>6. CASE i > active
      <4>1. i - 1 \in 1 .. Len(tabs') /\ ~(i - 1 < active) /\ (i - 1) + 1 = i
        BY <1>0, <2>1, <2>2, <3>6
      <4>2. tabs'[i - 1] = tabs[i]
        BY <2>1, <4>1
      <4> QED
        BY <3>2, <3>3, <4>1, <4>2
    <3>7. i < active \/ i > active
      BY <2>2, <3>4
    <3> QED
      BY <3>5, <3>6, <3>7
  <2> QED
    BY <2>3 DEF OneConnectionPerTab
<1>3. CASE OpenTab
  <2> DEFINE n == Len(tabs) + 1
             t == Len(tasks) + 1
  <2>1. /\ Len(tabs') = n /\ \A i \in 1 .. Len(tabs) : tabs'[i] = tabs[i]
        /\ tabs'[n].sid = t /\ tabs'[n].task = t
        /\ Len(tasks') = t /\ \A u \in 1 .. Len(tasks) : tasks'[u] = tasks[u]
        /\ tasks'[t].owner = t
    BY <1>3, OpenShape
  <2>2. ASSUME NEW u \in 1 .. Len(tasks'), tasks'[u].cmdOpen
        PROVE  \E j \in 1 .. Len(tabs') : tabs'[j].task = u /\ tabs'[j].sid = tasks'[u].owner
    <3>1. CASE u = t
      <4>1. n \in 1 .. Len(tabs')
        BY <1>0, <2>1
      <4> QED
        BY <2>1, <3>1, <4>1
    <3>2. CASE u # t
      <4>1. u \in 1 .. Len(tasks) /\ tasks'[u] = tasks[u]
        BY <1>0, <2>1, <3>2
      <4>2. PICK i \in 1 .. Len(tabs) : tabs[i].task = u /\ tabs[i].sid = tasks[u].owner
        BY <1>h, <2>2, <4>1
      <4>3. i \in 1 .. Len(tabs') /\ tabs'[i] = tabs[i]
        BY <1>0, <2>1
      <4> QED
        BY <4>1, <4>2, <4>3
    <3> QED
      BY <3>1, <3>2
  <2> QED
    BY <2>2 DEF OneConnectionPerTab
<1>4. CASE Reconnect
  <2> DEFINE t == Len(tasks) + 1
             o == tabs[active].task
  <2>1. /\ active \in 1 .. Len(tabs) /\ o \in 1 .. Len(tasks)
        /\ Len(tabs') = Len(tabs)
        /\ \A i \in 1 .. Len(tabs) : i # active => tabs'[i] = tabs[i]
        /\ tabs'[active].sid = tabs[active].sid /\ tabs'[active].task = t
        /\ Len(tasks') = t
        /\ \A v \in 1 .. Len(tasks) : v # o => tasks'[v] = tasks[v]
        /\ ~tasks'[o].cmdOpen /\ tasks'[t].owner = tabs[active].sid
    BY <1>4, ReconnectShape
  <2>2. ASSUME NEW u \in 1 .. Len(tasks'), tasks'[u].cmdOpen
        PROVE  \E j \in 1 .. Len(tabs') : tabs'[j].task = u /\ tabs'[j].sid = tasks'[u].owner
    <3>1. CASE u = t
      BY <2>1, <3>1
    <3>2. CASE u # t
      <4>1. u \in 1 .. Len(tasks) /\ u # o
        BY <1>0, <2>1, <2>2, <3>2
      <4>2. tasks'[u] = tasks[u]
        BY <2>1, <4>1
      <4>3. PICK i \in 1 .. Len(tabs) : tabs[i].task = u /\ tabs[i].sid = tasks[u].owner
        BY <1>h, <2>2, <4>1, <4>2
      <4>4. i \in 1 .. Len(tabs') /\ tabs'[i] = tabs[i]
        BY <2>1, <4>1, <4>3
      <4> QED
        BY <4>2, <4>3, <4>4
    <3> QED
      BY <3>1, <3>2
  <2> QED
    BY <2>2 DEF OneConnectionPerTab
<1>5. CASE Send
  BY <1>5, <1>e, SendShape DEF Rest
<1>6. CASE HandleEvent
  <2>1. /\ Len(tabs') = Len(tabs)
        /\ \A i \in 1 .. Len(tabs) : tabs'[i].sid = tabs[i].sid /\ tabs'[i].task = tabs[i].task
        /\ tasks' = tasks
    BY <1>6, HandleShape
  <2> QED
    BY <1>h, <2>1 DEF OneConnectionPerTab
<1>7. ASSUME NEW t \in 1 .. Len(tasks), Forward(t)
      PROVE  OneConnectionPerTab'
  BY <1>7, <1>e, ForwardShape
<1>8. ASSUME NEW t \in 1 .. Len(tasks), Speech(t)
      PROVE  OneConnectionPerTab'
  BY <1>0, <1>8, <1>e, ConnectionSteps DEF Speech, Speaks, Rest
<1> QED
  BY <1>1, <1>2, <1>3, <1>4, <1>5, <1>6, <1>7, <1>8, Steps

(* At most one connection of a tab listens to it, the one it shows.        *)
THEOREM OneConnection == Spec => []OneConnectionPerTab
<1>1. Init => OneConnectionPerTab
  <2> SUFFICES ASSUME Init PROVE OneConnectionPerTab
    OBVIOUS
  <2>1. CASE tabs = <<>> /\ tasks = <<>>
    <3>1. Len(tasks) = 0
      BY <2>1
    <3> QED
      BY <3>1 DEF OneConnectionPerTab
  <2>2. CASE /\ tabs = <<[sid |-> 1, status |-> "Connecting", task |-> 1]>>
             /\ tasks = <<NewTask(1, 1)>>
    <3>1. Len(tabs) = 1 /\ tabs[1].sid = 1 /\ tabs[1].task = 1
      BY <2>2
    <3>2. Len(tasks) = 1 /\ tasks[1].owner = 1
      BY <2>2, NewTaskType
    <3>3. \A t \in 1 .. Len(tasks) : t = 1
      BY <3>2
    <3>4. 1 \in 1 .. Len(tabs)
      BY <3>1
    <3> QED
      BY <3>1, <3>2, <3>3, <3>4 DEF OneConnectionPerTab
  <2> QED
    BY <2>1, <2>2 DEF Init
<1>2. TypeOK /\ OneConnectionPerTab /\ [Next]_vars => OneConnectionPerTab'
  BY OneStep
<1> QED
  BY <1>1, <1>2, Typed, PTL DEF Spec

------------------------------------------------------------------------------
(* The question on the screen is about the tab that is shown.              *)
Asked == overlay = "CloseConfirm" => tabs # <<>> /\ asked = tabs[active].sid

LEMMA AskedStep ==
  ASSUME TypeOK, Asked, [Next]_vars
  PROVE  Asked'
<1>0. /\ tabs \in Seq(Tab) /\ tasks \in Seq(Task)
      /\ active \in 1 .. Len(tabs) \/ (tabs = <<>> /\ active = 1)
  BY DEF TypeOK
<1>1. CASE Looks
  BY <1>1 DEF Looks, Asked
<1>2. CASE Closes \/ OpenTab \/ Reconnect
  <2>1. CASE overlay' = "None"
    BY <2>1 DEF Asked
  <2> QED
    BY <1>2, <2>1 DEF Closes, CloseActive, OpenTab, Reconnect
<1>3. CASE Send
  <2>1. UNCHANGED Rest
    BY <1>3, SendShape
  <2> QED
    BY <2>1 DEF Rest, Asked
<1>4. CASE HandleEvent
  <2>1. /\ tabs' \in Seq(Tab) /\ Len(tabs') = Len(tabs) /\ UNCHANGED <<active, overlay, asked>>
        /\ \A i \in 1 .. Len(tabs) : tabs'[i].sid = tabs[i].sid
    BY <1>4, HandleShape
  <2>2. CASE overlay = "CloseConfirm"
    <3>1. tabs # <<>> /\ asked = tabs[active].sid
      BY <2>2 DEF Asked
    <3>2. tabs' # <<>>
      BY <1>0, <2>1, <3>1
    <3> QED
      BY <1>0, <2>1, <3>1, <3>2 DEF Asked
  <2>3. CASE overlay # "CloseConfirm"
    BY <2>1, <2>3 DEF Asked
  <2> QED
    BY <2>2, <2>3
<1>5. ASSUME NEW t \in 1 .. Len(tasks), Forward(t) \/ Speech(t)
      PROVE  Asked'
  <2>1. UNCHANGED <<tabs, active, overlay, asked>>
    BY <1>0, <1>5, ForwardShape, ConnectionSteps DEF Speech, Rest
  <2> QED
    BY <2>1 DEF Asked
<1> QED
  BY <1>1, <1>2, <1>3, <1>4, <1>5, Steps

(* The tabs that a step does not close are still there after it.           *)
Survives(i) == \E j \in 1 .. Len(tabs') : tabs'[j].sid = tabs[i].sid

LEMMA OnlyAskedClose ==
  ASSUME TypeOK, Asked, [Next]_vars, NEW i \in 1 .. Len(tabs), Live(tabs[i].status), ~Survives(i)
  PROVE  overlay = "CloseConfirm" /\ asked = tabs[i].sid
<1>0. /\ tabs \in Seq(Tab) /\ tasks \in Seq(Task)
      /\ active \in 1 .. Len(tabs) \/ (tabs = <<>> /\ active = 1)
  BY DEF TypeOK
<1>1. CASE Closes
  <2>1. /\ Len(tabs') = Len(tabs) - 1
        /\ \A j \in 1 .. Len(tabs') : tabs'[j] = IF j < active THEN tabs[j] ELSE tabs[j + 1]
    BY <1>1, CloseShape DEF Closes
  <2>2. active \in 1 .. Len(tabs)
    BY <1>0, <1>1 DEF Closes
  <2>3. CASE i < active
    <3>1. i \in 1 .. Len(tabs') /\ tabs'[i] = tabs[i]
      BY <1>0, <2>1, <2>2, <2>3
    <3> QED
      BY <3>1 DEF Survives
  <2>4. CASE i > active
    <3>1. i - 1 \in 1 .. Len(tabs') /\ ~(i - 1 < active) /\ (i - 1) + 1 = i
      BY <1>0, <2>1, <2>2, <2>4
    <3>2. tabs'[i - 1] = tabs[i]
      BY <2>1, <3>1
    <3> QED
      BY <3>1, <3>2 DEF Survives
  <2>5. CASE i = active
    BY <1>1, <2>5 DEF Closes, Asked
  <2> QED
    BY <2>2, <2>3, <2>4, <2>5
<1>2. ASSUME \A j \in 1 .. Len(tabs) : j \in 1 .. Len(tabs') /\ tabs'[j].sid = tabs[j].sid
      PROVE  FALSE
  BY <1>2 DEF Survives
<1>3. CASE Looks \/ Send
  <2>1. UNCHANGED tabs
    BY <1>3, SendShape DEF Looks, Rest
  <2> QED
    BY <1>2, <2>1
<1>4. CASE OpenTab
  <2>1. Len(tabs') = Len(tabs) + 1 /\ \A j \in 1 .. Len(tabs) : tabs'[j] = tabs[j]
    BY <1>4, OpenShape
  <2> QED
    BY <1>0, <1>2, <2>1
<1>5. CASE Reconnect
  <2>1. /\ active \in 1 .. Len(tabs) /\ Len(tabs') = Len(tabs)
        /\ \A j \in 1 .. Len(tabs) : j # active => tabs'[j] = tabs[j]
        /\ tabs'[active].sid = tabs[active].sid
    BY <1>5, ReconnectShape
  <2> QED
    BY <1>2, <2>1
<1>6. CASE HandleEvent
  BY <1>2, <1>6, HandleShape
<1>7. ASSUME NEW t \in 1 .. Len(tasks), Forward(t) \/ Speech(t)
      PROVE  FALSE
  <2>1. UNCHANGED tabs
    BY <1>0, <1>7, ForwardShape, ConnectionSteps DEF Speech, Rest
  <2> QED
    BY <1>2, <2>1
<1> QED
  BY <1>1, <1>3, <1>4, <1>5, <1>6, <1>7, Steps

(* A live tab is closed only by an answer to the question about that tab.  *)
THEOREM ClosedWhenAsked == Spec => LiveTabsCloseOnlyWhenAsked
<1>1. Init => Asked
  BY DEF Init, Asked
<1>2. TypeOK /\ Asked /\ [Next]_vars => Asked'
  BY AskedStep
<1>3. TypeOK /\ Asked /\ [Next]_vars =>
        [\A i \in 1 .. Len(tabs) :
           /\ Live(tabs[i].status)
           /\ \A j \in 1 .. Len(tabs') : tabs'[j].sid # tabs[i].sid
           => overlay = "CloseConfirm" /\ asked = tabs[i].sid]_vars
  BY OnlyAskedClose DEF Survives
<1> QED
  BY <1>1, <1>2, <1>3, Typed, PTL DEF Spec, LiveTabsCloseOnlyWhenAsked

------------------------------------------------------------------------------
(* What is known of a connection by the events it left: a Disconnected is  *)
(* the last event of a connection, and then the connection has ended.      *)
Over(u) ==
  /\ tasks[u].state = "gone"
  /\ tasks[u].out = <<>>
  /\ \A k \in 1 .. Len(fan) : fan[k].task # u

Stamped == \A k \in 1 .. Len(fan) : fan[k].idx = tasks[fan[k].task].idx

LastQueued ==
  \A u \in 1 .. Len(tasks) : \A k \in 1 .. Len(tasks[u].out) :
    tasks[u].out[k] = "Disconnected" => k = Len(tasks[u].out) /\ tasks[u].state = "gone"

LastForwarded ==
  \A k \in 1 .. Len(fan) : fan[k].ev = "Disconnected" =>
    /\ tasks[fan[k].task].state = "gone"
    /\ tasks[fan[k].task].out = <<>>
    /\ \A l \in 1 .. Len(fan) : l > k => fan[l].task # fan[k].task

Attached == ~removed => \A i \in 1 .. Len(tabs) : tasks[tabs[i].task].idx = i

(* A connection no tab shows, and one whose end a tab shows, has nothing   *)
(* more to say.                                                            *)
Silent ==
  ~removed => \A u \in 1 .. Len(tasks) :
    (\A i \in 1 .. Len(tabs) : tabs[i].task # u) => Over(u)

Final ==
  ~removed => \A i \in 1 .. Len(tabs) :
    tabs[i].status = "Disconnected" => Over(tabs[i].task)

Heard == Stamped /\ LastQueued /\ LastForwarded /\ Attached /\ Silent /\ Final

LEMMA HeadIsOfTheConnection ==
  ASSUME TypeOK, Stamped, Attached, Silent, ~removed, fan # <<>>
  PROVE  /\ Head(fan).idx \in 1 .. Len(tabs)
         /\ tabs[Head(fan).idx].task = Head(fan).task
<1>1. Head(fan) = fan[1] /\ 1 \in 1 .. Len(fan)
  BY TailOf DEF TypeOK
<1> DEFINE u == Head(fan).task
<1>2. u \in 1 .. Len(tasks) /\ Head(fan).idx = tasks[u].idx
  BY <1>1 DEF TypeOK, Stamped
<1>3. ~Over(u)
  BY <1>1 DEF Over
<1>4. PICK i \in 1 .. Len(tabs) : tabs[i].task = u
  BY <1>2, <1>3 DEF Silent
<1>5. tasks[u].idx = i
  BY <1>4 DEF Attached
<1> QED
  BY <1>2, <1>4, <1>5

LEMMA Empty ==
  ASSUME NEW Elem, NEW s \in Seq(Elem), Len(s) = 0
  PROVE  s = <<>>
OBVIOUS

LEMMA Behind ==
  ASSUME NEW Elem, NEW a \in Seq(Elem), NEW b \in Seq(Elem),
         NEW k \in 1 .. Len(a \o b), k \notin 1 .. Len(a)
  PROVE  /\ k - Len(a) \in 1 .. Len(b)
         /\ (a \o b)[k] = b[k - Len(a)]
         /\ k - Len(a) = Len(b) => k = Len(a \o b)
<1>1. Len(a) \in Nat /\ Len(b) \in Nat /\ Len(a \o b) = Len(a) + Len(b)
  OBVIOUS
<1>2. k \in 1 .. Len(a) + Len(b)
  BY <1>1
<1>3. (a \o b)[k] = b[k - Len(a)]
  OBVIOUS
<1>4. k \in Nat
  BY <1>1, <1>2
<1>5. k - Len(a) = Len(b) => k = Len(a) + Len(b)
  BY <1>1, <1>4
<1> QED
  BY <1>1, <1>2, <1>3, <1>4, <1>5

LEMMA SpeechHeard ==
  ASSUME TypeOK, Heard, NEW t \in 1 .. Len(tasks), Speaks(t), tasks[t].state # "gone",
         UNCHANGED Rest
  PROVE  Heard'
<1>0. /\ tabs \in Seq(Tab) /\ tasks \in Seq(Task) /\ fan \in Seq(FanEvent)
      /\ \A i \in 1 .. Len(tabs) : tabs[i].task \in 1 .. Len(tasks)
      /\ \A k \in 1 .. Len(fan) : fan[k].task \in 1 .. Len(tasks)
  BY DEF TypeOK
<1>1. /\ Edited(t) /\ Len(tasks') = Len(tasks)
      /\ \A u \in 1 .. Len(tasks) : tasks'[u].idx = tasks[u].idx
      /\ \A u \in 1 .. Len(tasks) : u # t => tasks'[u] = tasks[u]
  BY DEF Speaks, Edited
<1>2. UNCHANGED <<tabs, removed, fan>>
  BY DEF Rest
<1>3. ASSUME NEW u \in 1 .. Len(tasks), Over(u)
      PROVE  Over(u)'
  <2>1. u # t
    BY <1>3 DEF Over
  <2> QED
    BY <1>1, <1>2, <1>3, <2>1 DEF Over
<1>4. Stamped'
  BY <1>0, <1>1, <1>2 DEF Heard, Stamped
<1>5. LastQueued'
  <2> SUFFICES ASSUME NEW u \in 1 .. Len(tasks), NEW k \in 1 .. Len(tasks'[u].out),
                      tasks'[u].out[k] = "Disconnected"
               PROVE  k = Len(tasks'[u].out) /\ tasks'[u].state = "gone"
    BY <1>1 DEF LastQueued
  <2>1. CASE u # t
    BY <1>1, <2>1 DEF Heard, LastQueued
  <2>2. CASE u = t
    <3>1. PICK state \in {"connecting", "open", "gone"}, evs \in Seq(Events) :
            /\ tasks'[t].state = state
            /\ tasks'[t].out = tasks[t].out \o evs
            /\ \A j \in 1 .. Len(evs) : evs[j] = "Disconnected" => j = Len(evs) /\ state = "gone"
      BY DEF Speaks
    <3>2. tasks[t].out \in Seq(Events)
      <4>1. tasks[t] \in Task
        BY <1>0
      <4> QED
        BY <4>1, Fields
    <3> DEFINE old == tasks[t].out
    <3>3. \A j \in 1 .. Len(old) : old[j] # "Disconnected"
      BY DEF Heard, LastQueued
    <3>4. k \in 1 .. Len(old \o evs) /\ (old \o evs)[k] = "Disconnected"
      BY <2>2, <3>1
    <3> HIDE DEF old
    <3>5. old \in Seq(Events)
      BY <3>2 DEF old
    <3>6. k \notin 1 .. Len(old)
      <4> SUFFICES ASSUME k \in 1 .. Len(old) PROVE FALSE
        OBVIOUS
      <4>1. (old \o evs)[k] = old[k]
        BY <3>1, <3>5
      <4> QED
        BY <3>3, <3>4, <4>1
    <3>7. k - Len(old) \in 1 .. Len(evs) /\ evs[k - Len(old)] = "Disconnected"
      BY <3>1, <3>4, <3>5, <3>6, Behind
    <3>8. k - Len(old) = Len(evs) /\ state = "gone"
      BY <3>1, <3>7
    <3>9. k = Len(old \o evs)
      BY <3>1, <3>4, <3>5, <3>6, <3>8, Behind
    <3> QED
      BY <2>2, <3>1, <3>8, <3>9 DEF old
  <2> QED
    BY <2>1, <2>2
<1>6. LastForwarded'
  <2> SUFFICES ASSUME NEW k \in 1 .. Len(fan), fan[k].ev = "Disconnected"
               PROVE  /\ tasks'[fan[k].task].state = "gone"
                      /\ tasks'[fan[k].task].out = <<>>
                      /\ \A l \in 1 .. Len(fan) : l > k => fan[l].task # fan[k].task
    BY <1>2 DEF LastForwarded
  <2>1. /\ tasks[fan[k].task].state = "gone" /\ tasks[fan[k].task].out = <<>>
        /\ \A l \in 1 .. Len(fan) : l > k => fan[l].task # fan[k].task
    BY DEF Heard, LastForwarded
  <2>2. fan[k].task \in 1 .. Len(tasks) /\ fan[k].task # t
    BY <1>0, <2>1
  <2> QED
    BY <1>1, <2>1, <2>2
<1>7. Attached'
  BY <1>0, <1>1, <1>2 DEF Heard, Attached
<1>8. Silent'
  BY <1>1, <1>2, <1>3 DEF Heard, Silent
<1>9. Final'
  BY <1>0, <1>1, <1>2, <1>3 DEF Heard, Final
<1> QED
  BY <1>4, <1>5, <1>6, <1>7, <1>8, <1>9 DEF Heard

LEMMA ForwardHeard ==
  ASSUME TypeOK, Heard, NEW t \in 1 .. Len(tasks), Forward(t)
  PROVE  Heard'
<1> DEFINE n == Len(fan) + 1
           out == tasks[t].out
<1>0. /\ tabs \in Seq(Tab) /\ tasks \in Seq(Task) /\ fan \in Seq(FanEvent)
      /\ \A i \in 1 .. Len(tabs) : tabs[i].task \in 1 .. Len(tasks)
      /\ \A k \in 1 .. Len(fan) : fan[k].task \in 1 .. Len(tasks)
  BY DEF TypeOK
<1>1. /\ Edited(t) /\ Len(tasks') = Len(tasks)
      /\ \A u \in 1 .. Len(tasks) : tasks'[u].idx = tasks[u].idx
      /\ \A u \in 1 .. Len(tasks) : u # t => tasks'[u] = tasks[u]
      /\ tasks'[t].state = tasks[t].state /\ tasks'[t].out = Tail(out)
      /\ out \in Seq(Events) /\ out # <<>>
  BY ForwardShape DEF Edited
<1>2. /\ Len(fan') = n /\ \A k \in 1 .. Len(fan) : fan'[k] = fan[k]
      /\ fan'[n].idx = tasks[t].idx /\ fan'[n].task = t /\ fan'[n].ev = Head(out)
      /\ UNCHANGED <<tabs, removed>>
  BY ForwardShape
<1>t. /\ Head(out) = out[1] /\ Len(out) \in Nat \ {0} /\ Len(Tail(out)) = Len(out) - 1
      /\ Tail(out) \in Seq(Events)
      /\ \A k \in 1 .. Len(out) - 1 : Tail(out)[k] = out[k + 1]
  BY <1>1, TailOf
<1>q. \A k \in 1 .. Len(out) : out[k] = "Disconnected" => k = Len(out) /\ tasks[t].state = "gone"
  BY DEF Heard, LastQueued
<1>f. ~\E k \in 1 .. Len(fan) : fan[k].ev = "Disconnected" /\ fan[k].task = t
  BY <1>1 DEF Heard, LastForwarded
<1>n. n \in Nat \ {0} /\ Len(fan) \in Nat
  BY <1>0
<1> HIDE DEF out, n
<1>k. ASSUME NEW k \in 1 .. Len(fan')
      PROVE  k = n \/ k \in 1 .. Len(fan)
  BY <1>2, <1>n, <1>k DEF n
<1>3. ASSUME NEW u \in 1 .. Len(tasks), Over(u)
      PROVE  Over(u)'
  <2>1. u # t
    BY <1>1, <1>3 DEF Over, out
  <2>2. \A k \in 1 .. Len(fan') : fan'[k].task # u
    BY <1>2, <1>3, <1>k, <2>1 DEF Over
  <2> QED
    BY <1>1, <1>3, <2>1, <2>2 DEF Over
<1>4. Stamped'
  <2> SUFFICES ASSUME NEW k \in 1 .. Len(fan')
               PROVE  fan'[k].idx = tasks'[fan'[k].task].idx
    BY DEF Stamped
  <2>1. CASE k = n
    BY <1>1, <1>2, <2>1
  <2>2. CASE k \in 1 .. Len(fan)
    <3>1. fan'[k] = fan[k] /\ fan[k].task \in 1 .. Len(tasks)
      BY <1>0, <1>2, <2>2
    <3>2. fan[k].idx = tasks[fan[k].task].idx
      BY <2>2 DEF Heard, Stamped
    <3> QED
      BY <1>1, <3>1, <3>2
  <2> QED
    BY <1>k, <2>1, <2>2
<1>5. LastQueued'
  <2> SUFFICES ASSUME NEW u \in 1 .. Len(tasks), NEW k \in 1 .. Len(tasks'[u].out),
                      tasks'[u].out[k] = "Disconnected"
               PROVE  k = Len(tasks'[u].out) /\ tasks'[u].state = "gone"
    BY <1>1 DEF LastQueued
  <2>1. CASE u # t
    BY <1>1, <2>1 DEF Heard, LastQueued
  <2>2. CASE u = t
    <3>1. k \in 1 .. Len(out) - 1 /\ out[k + 1] = "Disconnected"
      BY <1>1, <1>t, <2>2
    <3>2. k + 1 \in 1 .. Len(out)
      BY <1>t, <3>1
    <3>3. k + 1 = Len(out) /\ tasks[t].state = "gone"
      BY <1>q, <3>1, <3>2
    <3> QED
      BY <1>1, <1>t, <2>2, <3>1, <3>3
  <2> QED
    BY <2>1, <2>2
<1>6. LastForwarded'
  <2> SUFFICES ASSUME NEW k \in 1 .. Len(fan'), fan'[k].ev = "Disconnected"
               PROVE  /\ tasks'[fan'[k].task].state = "gone"
                      /\ tasks'[fan'[k].task].out = <<>>
                      /\ \A l \in 1 .. Len(fan') : l > k => fan'[l].task # fan'[k].task
    BY DEF LastForwarded
  <2>1. CASE k = n
    <3>1. out[1] = "Disconnected" /\ 1 \in 1 .. Len(out)
      BY <1>2, <1>t, <2>1
    <3>2. Len(out) = 1 /\ tasks[t].state = "gone"
      BY <1>q, <3>1
    <3>3. Tail(out) = <<>>
      <4>1. Tail(out) \in Seq(Events) /\ Len(Tail(out)) = 0
        BY <1>t, <3>2
      <4> QED
        BY <4>1, Empty
    <3>4. \A l \in 1 .. Len(fan') : ~(l > k)
      BY <1>2, <1>n, <2>1
    <3> QED
      BY <1>1, <1>2, <2>1, <3>2, <3>3, <3>4
  <2>2. CASE k \in 1 .. Len(fan)
    <3> DEFINE u == fan[k].task
    <3>1. fan'[k].task = u /\ fan[k].ev = "Disconnected" /\ u \in 1 .. Len(tasks)
      BY <1>0, <1>2, <2>2
    <3>2. /\ tasks[u].state = "gone" /\ tasks[u].out = <<>>
          /\ \A l \in 1 .. Len(fan) : l > k => fan[l].task # u
      BY <2>2, <3>1 DEF Heard, LastForwarded
    <3>3. u # t
      BY <1>1, <3>2 DEF out
    <3> HIDE DEF u
    <3>4. ASSUME NEW l \in 1 .. Len(fan'), l > k
          PROVE  fan'[l].task # u
      BY <1>2, <1>k, <3>2, <3>3, <3>4
    <3> QED
      BY <1>1, <3>1, <3>2, <3>3, <3>4
  <2> QED
    BY <1>k, <2>1, <2>2
<1>7. Attached'
  BY <1>0, <1>1, <1>2 DEF Heard, Attached
<1>8. Silent'
  BY <1>1, <1>2, <1>3 DEF Heard, Silent
<1>9. Final'
  BY <1>0, <1>1, <1>2, <1>3 DEF Heard, Final
<1> QED
  BY <1>4, <1>5, <1>6, <1>7, <1>8, <1>9 DEF Heard

LEMMA HandleHeard ==
  ASSUME TypeOK, Heard, HandleEvent
  PROVE  Heard'
<1>0. /\ tabs \in Seq(Tab) /\ tasks \in Seq(Task) /\ fan \in Seq(FanEvent)
      /\ \A i \in 1 .. Len(tabs) : tabs[i].task \in 1 .. Len(tasks)
      /\ \A k \in 1 .. Len(fan) : fan[k].task \in 1 .. Len(tasks)
  BY DEF TypeOK
<1>1. /\ fan # <<>> /\ fan' = Tail(fan) /\ Len(tabs') = Len(tabs)
      /\ \A i \in 1 .. Len(tabs) :
           /\ tabs'[i].task = tabs[i].task
           /\ \/ tabs'[i].status = tabs[i].status
              \/ i = Head(fan).idx /\ tabs'[i].status = Head(fan).ev
      /\ UNCHANGED <<removed, tasks>>
  BY HandleShape
<1>2. /\ Head(fan) = fan[1] /\ Len(fan) \in Nat \ {0} /\ Len(fan') = Len(fan) - 1
      /\ \A k \in 1 .. Len(fan') : k + 1 \in 1 .. Len(fan) /\ fan'[k] = fan[k + 1]
  BY <1>0, <1>1, TailOf
<1>3. ASSUME NEW u \in 1 .. Len(tasks), Over(u)
      PROVE  Over(u)'
  BY <1>1, <1>2, <1>3 DEF Over
<1>4. Stamped'
  BY <1>1, <1>2 DEF Heard, Stamped
<1>5. LastQueued'
  BY <1>1 DEF Heard, LastQueued
<1>6. LastForwarded'
  <2> SUFFICES ASSUME NEW k \in 1 .. Len(fan'), fan'[k].ev = "Disconnected"
               PROVE  /\ tasks[fan'[k].task].state = "gone"
                      /\ tasks[fan'[k].task].out = <<>>
                      /\ \A l \in 1 .. Len(fan') : l > k => fan'[l].task # fan'[k].task
    BY <1>1 DEF LastForwarded
  <2>1. k + 1 \in 1 .. Len(fan) /\ fan[k + 1] = fan'[k]
    BY <1>2
  <2>2. /\ tasks[fan'[k].task].state = "gone" /\ tasks[fan'[k].task].out = <<>>
        /\ \A l \in 1 .. Len(fan) : l > k + 1 => fan[l].task # fan'[k].task
    BY <2>1 DEF Heard, LastForwarded
  <2>3. ASSUME NEW l \in 1 .. Len(fan'), l > k
        PROVE  fan'[l].task # fan'[k].task
    <3>1. l + 1 \in 1 .. Len(fan) /\ l + 1 > k + 1 /\ fan'[l] = fan[l + 1]
      BY <1>2, <2>3
    <3> QED
      BY <2>2, <3>1
  <2> QED
    BY <2>2, <2>3
<1>7. Attached'
  BY <1>1 DEF Heard, Attached
<1>8. Silent'
  BY <1>1, <1>3 DEF Heard, Silent
<1>9. Final'
  <2> SUFFICES ASSUME ~removed, NEW i \in 1 .. Len(tabs), tabs'[i].status = "Disconnected"
               PROVE  Over(tabs[i].task)'
    BY <1>1 DEF Final
  <2>1. CASE tabs[i].status = "Disconnected"
    <3>1. Over(tabs[i].task)
      BY <2>1 DEF Heard, Final
    <3> DEFINE u == tabs[i].task
    <3>2. u \in 1 .. Len(tasks)
      BY <1>0
    <3>3. Over(u)
      BY <3>1
    <3> HIDE DEF u
    <3>4. /\ tasks'[u].state = "gone" /\ tasks'[u].out = <<>>
          /\ \A k \in 1 .. Len(fan') : fan'[k].task # u
      BY <1>3, <3>2, <3>3 DEF Over
    <3> QED
      BY <1>1, <3>4 DEF Over, u
  <2>2. CASE i = Head(fan).idx /\ Head(fan).ev = "Disconnected"
    <3>1. tabs[i].task = fan[1].task /\ 1 \in 1 .. Len(fan)
      BY <1>1, <1>2, <2>2, HeadIsOfTheConnection DEF Heard
    <3>2. /\ tasks[fan[1].task].state = "gone" /\ tasks[fan[1].task].out = <<>>
          /\ \A l \in 1 .. Len(fan) : l > 1 => fan[l].task # fan[1].task
      BY <1>2, <2>2, <3>1 DEF Heard, LastForwarded
    <3>3. \A k \in 1 .. Len(fan') : fan'[k].task # fan[1].task
      BY <1>2, <3>2
    <3> QED
      BY <1>1, <3>1, <3>2, <3>3 DEF Over
  <2> QED
    BY <1>1, <2>1, <2>2
<1> QED
  BY <1>4, <1>5, <1>6, <1>7, <1>8, <1>9 DEF Heard

LEMMA OpenHeard ==
  ASSUME TypeOK, Heard, OpenTab
  PROVE  Heard'
<1> DEFINE t == Len(tasks) + 1
           n == Len(tabs) + 1
<1>0. /\ tabs \in Seq(Tab) /\ tasks \in Seq(Task) /\ fan \in Seq(FanEvent)
      /\ \A i \in 1 .. Len(tabs) : tabs[i].task \in 1 .. Len(tasks)
      /\ \A k \in 1 .. Len(fan) : fan[k].task \in 1 .. Len(tasks)
  BY DEF TypeOK
<1>1. /\ Len(tabs') = n
      /\ \A i \in 1 .. Len(tabs) : tabs'[i] = tabs[i]
      /\ tabs'[n].task = t /\ tabs'[n].status = "Connecting"
      /\ Len(tasks') = t
      /\ \A u \in 1 .. Len(tasks) : tasks'[u] = tasks[u]
      /\ tasks'[t].idx = n /\ tasks'[t].out = <<>>
      /\ UNCHANGED <<removed, fan>>
  BY OpenShape
<1>2. t \in Nat /\ n \in Nat /\ n \in 1 .. Len(tabs') /\ t \in 1 .. Len(tasks')
  BY <1>0, <1>1
<1>u. ASSUME NEW u \in 1 .. Len(tasks') PROVE u = t \/ u \in 1 .. Len(tasks)
  BY <1>0, <1>1, <1>u
<1>i. ASSUME NEW i \in 1 .. Len(tabs') PROVE i = n \/ i \in 1 .. Len(tabs)
  BY <1>0, <1>1, <1>i
<1>j. \A i \in 1 .. Len(tabs) : i \in 1 .. Len(tabs')
  BY <1>0, <1>1
<1> HIDE DEF t, n
<1>3. ASSUME NEW u \in 1 .. Len(tasks), Over(u)
      PROVE  Over(u)'
  BY <1>1, <1>3 DEF Over
<1>4. Stamped'
  BY <1>0, <1>1 DEF Heard, Stamped
<1>5. LastQueued'
  <2> SUFFICES ASSUME NEW u \in 1 .. Len(tasks'), NEW k \in 1 .. Len(tasks'[u].out),
                      tasks'[u].out[k] = "Disconnected"
               PROVE  k = Len(tasks'[u].out) /\ tasks'[u].state = "gone"
    BY DEF LastQueued
  <2>1. CASE u = t
    <3>1. Len(tasks'[u].out) = 0
      BY <1>1, <2>1
    <3> QED
      BY <3>1
  <2>2. CASE u \in 1 .. Len(tasks)
    BY <1>1, <2>2 DEF Heard, LastQueued
  <2> QED
    BY <1>u, <2>1, <2>2
<1>6. LastForwarded'
  BY <1>0, <1>1 DEF Heard, LastForwarded
<1>7. Attached'
  <2> SUFFICES ASSUME ~removed, NEW i \in 1 .. Len(tabs')
               PROVE  tasks'[tabs'[i].task].idx = i
    BY <1>1 DEF Attached
  <2>1. CASE i = n
    BY <1>1, <2>1
  <2>2. CASE i \in 1 .. Len(tabs)
    <3>1. tabs'[i] = tabs[i] /\ tabs[i].task \in 1 .. Len(tasks)
      BY <1>0, <1>1, <2>2
    <3>2. tasks[tabs[i].task].idx = i
      BY <2>2 DEF Heard, Attached
    <3> QED
      BY <1>1, <3>1, <3>2
  <2> QED
    BY <1>i, <2>1, <2>2
<1>8. Silent'
  <2> SUFFICES ASSUME ~removed, NEW u \in 1 .. Len(tasks'),
                      \A i \in 1 .. Len(tabs') : tabs'[i].task # u
               PROVE  Over(u)'
    BY <1>1 DEF Silent
  <2>1. u # t
    BY <1>1, <1>2
  <2>2. u \in 1 .. Len(tasks)
    BY <1>u, <2>1
  <2>3. \A i \in 1 .. Len(tabs) : tabs[i].task # u
    BY <1>1, <1>j
  <2> QED
    BY <1>3, <2>2, <2>3 DEF Heard, Silent
<1>9. Final'
  <2> SUFFICES ASSUME ~removed, NEW i \in 1 .. Len(tabs'), tabs'[i].status = "Disconnected"
               PROVE  Over(tabs[i].task)'
    BY <1>1 DEF Final
  <2>1. i \in 1 .. Len(tabs)
    BY <1>1, <1>i
  <2>2. tabs'[i] = tabs[i] /\ tabs[i].task \in 1 .. Len(tasks)
    BY <1>0, <1>1, <2>1
  <2> DEFINE u == tabs[i].task
  <2>3. u \in 1 .. Len(tasks) /\ Over(u)
    BY <2>1, <2>2 DEF Heard, Final
  <2> HIDE DEF u
  <2>4. /\ tasks'[u].state = "gone" /\ tasks'[u].out = <<>>
        /\ \A k \in 1 .. Len(fan') : fan'[k].task # u
    BY <1>3, <2>3 DEF Over
  <2>5. tabs'[i].task = u
    BY <2>2 DEF u
  <2> QED
    BY <2>4, <2>5 DEF Over
<1> QED
  BY <1>4, <1>5, <1>6, <1>7, <1>8, <1>9 DEF Heard

LEMMA ReconnectHeard ==
  ASSUME TypeOK, Heard, Reconnect
  PROVE  Heard'
<1> DEFINE t == Len(tasks) + 1
           o == tabs[active].task
<1>0. /\ tabs \in Seq(Tab) /\ tasks \in Seq(Task) /\ fan \in Seq(FanEvent)
      /\ \A i \in 1 .. Len(tabs) : tabs[i].task \in 1 .. Len(tasks)
      /\ \A k \in 1 .. Len(fan) : fan[k].task \in 1 .. Len(tasks)
  BY DEF TypeOK
<1>1. /\ active \in 1 .. Len(tabs) /\ o \in 1 .. Len(tasks)
      /\ tabs[active].status = "Disconnected"
      /\ Len(tabs') = Len(tabs)
      /\ \A i \in 1 .. Len(tabs) : i # active => tabs'[i] = tabs[i]
      /\ tabs'[active].task = t /\ tabs'[active].status = "Connecting"
      /\ Len(tasks') = t
      /\ \A v \in 1 .. Len(tasks) : v # o => tasks'[v] = tasks[v]
      /\ tasks'[o].idx = tasks[o].idx
      /\ tasks'[o].state = tasks[o].state /\ tasks'[o].out = tasks[o].out
      /\ tasks'[t].idx = active /\ tasks'[t].out = <<>>
      /\ UNCHANGED <<removed, fan>>
  BY ReconnectShape
<1>v. \A v \in 1 .. Len(tasks) :
        tasks'[v].idx = tasks[v].idx /\ tasks'[v].state = tasks[v].state
          /\ tasks'[v].out = tasks[v].out
  <2> TAKE v \in 1 .. Len(tasks)
  <2>1. CASE v = o
    BY <1>1, <2>1
  <2>2. CASE v # o
    BY <1>1, <2>2
  <2> QED
    BY <2>1, <2>2
<1>2. t \in Nat /\ t \notin 1 .. Len(tasks)
  BY <1>0
<1>u. ASSUME NEW u \in 1 .. Len(tasks') PROVE u = t \/ u \in 1 .. Len(tasks)
  BY <1>0, <1>1, <1>u
<1>d. ~removed => Over(o)
  BY <1>1 DEF Heard, Final
<1> HIDE DEF t, o
<1>3. ASSUME NEW u \in 1 .. Len(tasks), Over(u)
      PROVE  Over(u)'
  BY <1>1, <1>v, <1>3 DEF Over
<1>4. Stamped'
  <2> SUFFICES ASSUME NEW k \in 1 .. Len(fan)
               PROVE  fan[k].idx = tasks'[fan[k].task].idx
    BY <1>1 DEF Stamped
  <2> QED
    BY <1>0, <1>v DEF Heard, Stamped
<1>5. LastQueued'
  <2> SUFFICES ASSUME NEW u \in 1 .. Len(tasks'), NEW k \in 1 .. Len(tasks'[u].out),
                      tasks'[u].out[k] = "Disconnected"
               PROVE  k = Len(tasks'[u].out) /\ tasks'[u].state = "gone"
    BY DEF LastQueued
  <2>1. CASE u = t
    <3>1. Len(tasks'[u].out) = 0
      BY <1>1, <2>1
    <3> QED
      BY <3>1
  <2>2. CASE u \in 1 .. Len(tasks)
    BY <1>v, <2>2 DEF Heard, LastQueued
  <2> QED
    BY <1>u, <2>1, <2>2
<1>6. LastForwarded'
  <2> SUFFICES ASSUME NEW k \in 1 .. Len(fan), fan[k].ev = "Disconnected"
               PROVE  /\ tasks'[fan[k].task].state = "gone"
                      /\ tasks'[fan[k].task].out = <<>>
                      /\ \A l \in 1 .. Len(fan) : l > k => fan[l].task # fan[k].task
    BY <1>1 DEF LastForwarded
  <2>1. fan[k].task \in 1 .. Len(tasks)
    BY <1>0
  <2> QED
    BY <1>v, <2>1 DEF Heard, LastForwarded
<1>7. Attached'
  <2> SUFFICES ASSUME ~removed, NEW i \in 1 .. Len(tabs)
               PROVE  tasks'[tabs'[i].task].idx = i
    BY <1>1 DEF Attached
  <2>1. CASE i = active
    BY <1>1, <2>1
  <2>2. CASE i # active
    <3>1. tabs'[i] = tabs[i] /\ tabs[i].task \in 1 .. Len(tasks)
      BY <1>0, <1>1, <2>2
    <3>2. tasks[tabs[i].task].idx = i
      BY DEF Heard, Attached
    <3> QED
      BY <1>v, <3>1, <3>2
  <2> QED
    BY <2>1, <2>2
<1>8. Silent'
  <2> SUFFICES ASSUME ~removed, NEW u \in 1 .. Len(tasks'),
                      \A i \in 1 .. Len(tabs') : tabs'[i].task # u
               PROVE  Over(u)'
    BY <1>1 DEF Silent
  <2>1. u \in 1 .. Len(tasks)
    BY <1>1, <1>u
  <2>2. CASE u = o
    BY <1>3, <1>d, <2>1, <2>2
  <2>3. CASE u # o
    <3>1. \A i \in 1 .. Len(tabs) : tabs[i].task # u
      BY <1>1, <2>3 DEF o
    <3> QED
      BY <1>3, <2>1, <3>1 DEF Heard, Silent
  <2> QED
    BY <2>2, <2>3
<1>9. Final'
  <2> SUFFICES ASSUME ~removed, NEW i \in 1 .. Len(tabs), tabs'[i].status = "Disconnected"
               PROVE  Over(tabs[i].task)'
    BY <1>1 DEF Final
  <2>1. i # active
    BY <1>1
  <2>2. tabs'[i] = tabs[i] /\ tabs[i].task \in 1 .. Len(tasks)
    BY <1>0, <1>1, <2>1
  <2> DEFINE u == tabs[i].task
  <2>3. u \in 1 .. Len(tasks) /\ Over(u)
    BY <2>2 DEF Heard, Final
  <2> HIDE DEF u
  <2>4. /\ tasks'[u].state = "gone" /\ tasks'[u].out = <<>>
        /\ \A k \in 1 .. Len(fan') : fan'[k].task # u
    BY <1>3, <2>3 DEF Over
  <2>5. tabs'[i].task = u
    BY <2>2 DEF u
  <2> QED
    BY <2>4, <2>5 DEF Over
<1> QED
  BY <1>4, <1>5, <1>6, <1>7, <1>8, <1>9 DEF Heard

LEMMA HeardInitially ==
  ASSUME Init
  PROVE  Heard
<1>0. /\ fan = <<>> /\ Len(fan) = 0 /\ removed = FALSE
  BY DEF Init
<1>1. CASE tabs = <<>> /\ tasks = <<>>
  <2>1. Len(tabs) = 0 /\ Len(tasks) = 0
    BY <1>1
  <2> QED
    BY <1>0, <2>1 DEF Heard, Stamped, LastQueued, LastForwarded, Attached, Silent, Final
<1>2. CASE /\ tabs = <<[sid |-> 1, status |-> "Connecting", task |-> 1]>>
           /\ tasks = <<NewTask(1, 1)>>
  <2>1. Len(tabs) = 1 /\ tabs[1].status = "Connecting" /\ tabs[1].task = 1
    BY <1>2
  <2>2. Len(tasks) = 1 /\ tasks[1].idx = 1 /\ Len(tasks[1].out) = 0
    BY <1>2, NewTaskType
  <2>3. \A i \in 1 .. 1 : i = 1
    OBVIOUS
  <2> QED
    BY <1>0, <2>1, <2>2, <2>3
    DEF Heard, Stamped, LastQueued, LastForwarded, Attached, Silent, Final
<1> QED
  BY <1>1, <1>2 DEF Init

LEMMA HeardStep ==
  ASSUME TypeOK, Heard, [Next]_vars
  PROVE  Heard'
<1>0. /\ tabs \in Seq(Tab) /\ tasks \in Seq(Task)
      /\ \A i \in 1 .. Len(tabs) : tabs[i].task \in 1 .. Len(tasks)
      /\ \A k \in 1 .. Len(fan) : fan[k].task \in 1 .. Len(tasks)
  BY DEF TypeOK
<1>e. ASSUME Len(tasks') = Len(tasks), UNCHANGED fan,
             \A v \in 1 .. Len(tasks) :
               tasks'[v].idx = tasks[v].idx /\ tasks'[v].state = tasks[v].state
                 /\ tasks'[v].out = tasks[v].out
      PROVE  Stamped' /\ LastQueued' /\ LastForwarded'
  <2>1. Stamped'
    BY <1>0, <1>e DEF Heard, Stamped
  <2>2. LastQueued'
    BY <1>e DEF Heard, LastQueued
  <2>3. LastForwarded'
    <3> SUFFICES ASSUME NEW k \in 1 .. Len(fan), fan[k].ev = "Disconnected"
                 PROVE  /\ tasks'[fan[k].task].state = "gone"
                        /\ tasks'[fan[k].task].out = <<>>
                        /\ \A l \in 1 .. Len(fan) : l > k => fan[l].task # fan[k].task
      BY <1>e DEF LastForwarded
    <3>1. fan[k].task \in 1 .. Len(tasks)
      BY <1>0
    <3> QED
      BY <1>e, <3>1 DEF Heard, LastForwarded
  <2> QED
    BY <2>1, <2>2, <2>3
<1>1. CASE Looks
  BY <1>1 DEF Looks, Heard, Stamped, LastQueued, LastForwarded, Attached, Silent, Final, Over
<1>2. CASE Closes
  <2>1. /\ Len(tasks') = Len(tasks) /\ UNCHANGED fan /\ removed' = TRUE
        /\ \A v \in 1 .. Len(tasks) :
             tasks'[v].idx = tasks[v].idx /\ tasks'[v].state = tasks[v].state
               /\ tasks'[v].out = tasks[v].out
    BY <1>2, CloseShape DEF Closes, CloseActive
  <2>2. Attached' /\ Silent' /\ Final'
    BY <2>1 DEF Attached, Silent, Final
  <2> QED
    BY <1>e, <2>1, <2>2 DEF Heard
<1>3. CASE Send
  <2> DEFINE t == tabs[active].task
  <2>0. /\ t \in 1 .. Len(tasks) /\ Edited(t) /\ UNCHANGED Rest
        /\ tasks'[t].state = tasks[t].state /\ tasks'[t].out = tasks[t].out
    BY <1>3, SendShape
  <2> HIDE DEF t
  <2>1. /\ Len(tasks') = Len(tasks) /\ UNCHANGED <<tabs, fan, removed>>
        /\ \A v \in 1 .. Len(tasks) : v # t => tasks'[v] = tasks[v]
        /\ tasks'[t].idx = tasks[t].idx
    BY <2>0 DEF Edited, Rest
  <2>2. \A v \in 1 .. Len(tasks) :
          tasks'[v].idx = tasks[v].idx /\ tasks'[v].state = tasks[v].state
            /\ tasks'[v].out = tasks[v].out
    <3> TAKE v \in 1 .. Len(tasks)
    <3>1. CASE v = t
      BY <2>0, <2>1, <3>1
    <3>2. CASE v # t
      BY <2>1, <3>2
    <3> QED
      BY <3>1, <3>2
  <2>3. Attached'
    BY <1>0, <2>1, <2>2 DEF Heard, Attached
  <2>4. \A v \in 1 .. Len(tasks) : Over(v) => Over(v)'
    BY <2>1, <2>2 DEF Over
  <2>5. Silent'
    BY <2>1, <2>4 DEF Heard, Silent
  <2>6. Final'
    BY <1>0, <2>1, <2>4 DEF Heard, Final
  <2> QED
    BY <1>e, <2>1, <2>2, <2>3, <2>5, <2>6 DEF Heard
<1>4. ASSUME NEW t \in 1 .. Len(tasks), Speech(t)
      PROVE  Heard'
  <2>1. UNCHANGED Rest /\ Speaks(t) /\ tasks[t].state # "gone"
    BY <1>0, <1>4, ConnectionSteps DEF Speech
  <2> QED
    BY <2>1, SpeechHeard
<1> QED
  BY <1>1, <1>2, <1>3, <1>4, OpenHeard, ReconnectHeard, HandleHeard, ForwardHeard, Steps

(* As long as no tab was closed, the event the loop takes is from the      *)
(* current connection of the tab it is applied to.                         *)
THEOREM EventsReachTheirTab == Spec => StatusIsOfTheConnection
<1>1. Init => Heard
  BY HeardInitially
<1>2. TypeOK /\ Heard /\ [Next]_vars => Heard'
  BY HeardStep
<1>3. TypeOK /\ Heard /\ [Next]_vars =>
        [fan # <<>> /\ fan' = Tail(fan) /\ ~removed =>
           tabs[Head(fan).idx].task = Head(fan).task]_vars
  BY HeadIsOfTheConnection DEF Heard
<1> QED
  BY <1>1, <1>2, <1>3, Typed, PTL DEF Spec, StatusIsOfTheConnection
=============================================================================
