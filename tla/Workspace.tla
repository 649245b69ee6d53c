------------------------------ MODULE Workspace ------------------------------
(***************************************************************************)
(* Tabs, their connections and the fan-in of I/O events (workspace.rs, the *)
(* event loop of app.rs, session/stream.rs, transport/).                   *)
(*                                                                         *)
(* Every tab here is a stream session.  Its connection is a task with a    *)
(* command channel from the tab and an event channel to a forwarder, which *)
(* stamps each event with the index the tab had when it was attached and   *)
(* puts it on the one channel that the event loop reads.                   *)
(***************************************************************************)
EXTENDS Naturals, Sequences

CONSTANTS
  MaxTasks,    \* bound: connections ever started
  MaxData      \* bound: payloads sent on and received from one connection

ASSUME WorkspaceAssumption ==
  /\ MaxTasks \in Nat
  /\ MaxData \in Nat

VARIABLES
  tabs,      \* sessions: [sid, status, task], task being the current connection
  active,    \* the tab shown, from 1; meaningless when there is none
  overlay,   \* "None", "CloseConfirm", or "Other" for the rest of them
  asked,     \* history: the sid the close confirmation was opened for
  removed,   \* history: whether a tab was ever closed
  tasks,     \* the connections started so far, see Task
  fan        \* the fan-in channel: events with the index they are for

vars == <<tabs, active, overlay, asked, removed, tasks, fan>>

Statuses == {"Connecting", "Connected", "Disconnected", "Error"}
Events == {"Connected", "Frame", "Error", "Disconnected"}
Commands == {"Send", "Close"}

Tab == [sid : Nat, status : Statuses, task : Nat]

(* owner is the sid of its tab, idx the index attach_io captured, cmdOpen  *)
(* whether the tab still holds the sender of the command channel, out the  *)
(* events the forwarder has not taken yet; data counts what MaxData    *)
(* bounds.                                                                 *)
Task == [owner : Nat, idx : Nat, state : {"connecting", "open", "gone"},
         cmds : Seq(Commands), cmdOpen : BOOLEAN, out : Seq(Events),
         data : Nat]

Live(s) == s \in {"Connected", "Connecting"}

(* Vec::remove: the tabs behind the closed one move up. *)
Without(s, i) == [j \in 1 .. Len(s) - 1 |-> IF j < i THEN s[j] ELSE s[j + 1]]

------------------------------------------------------------------------------
NewTask(owner, idx) ==
  [owner |-> owner, idx |-> idx, state |-> "connecting", cmds |-> <<>>,
   cmdOpen |-> TRUE, out |-> <<>>, data |-> 0]

(* A command to connection t; one that has ended dropped its receiver.     *)
Told(t, c) ==
  IF tasks[t].state = "gone" THEN tasks
  ELSE LET task == tasks[t]
       IN  [tasks EXCEPT ![t] =
             [task EXCEPT !.cmds = Append(@, c), !.data = IF c = "Send" THEN @ + 1 ELSE @]]

(* Workspace::new and attach_all: no tab, or one for the target given on   *)
(* the command line.                                                       *)
Init ==
  /\ \/ tabs = <<>> /\ tasks = <<>>
     \/ /\ MaxTasks > 0
        /\ tabs = <<[sid |-> 1, status |-> "Connecting", task |-> 1]>>
        /\ tasks = <<NewTask(1, 1)>>
  /\ active = 1
  /\ overlay = "None"
  /\ asked = 0
  /\ removed = FALSE
  /\ fan = <<>>

(* open_stream and attach_io: the URI form and the palette are overlays.   *)
OpenTab ==
  LET t == Len(tasks) + 1
  IN  /\ overlay = "Other"
      /\ t <= MaxTasks
      /\ tabs' = Append(tabs, [sid |-> t, status |-> "Connecting", task |-> t])
      /\ tasks' = Append(tasks, NewTask(t, Len(tabs) + 1))
      /\ active' = Len(tabs) + 1
      /\ overlay' = "None"
      /\ UNCHANGED <<asked, removed, fan>>

SelectTabAlways(i) ==
  /\ active' = i
  /\ UNCHANGED <<tabs, overlay, asked, removed, tasks, fan>>

(* F3, F4, a digit or a click: an overlay takes the keys, and the strips   *)
(* around it the clicks.                                                   *)
SelectTab(i) ==
  /\ overlay = "None"
  /\ active' = i
  /\ UNCHANGED <<tabs, overlay, asked, removed, tasks, fan>>

(* F1, F2, Ctrl-C, Ctrl-T; the last two also over another overlay. *)
OpenOverlay ==
  /\ overlay' = "Other"
  /\ UNCHANGED <<tabs, active, asked, removed, tasks, fan>>

CloseOverlay ==
  /\ overlay # "None"
  /\ overlay' = "None"
  /\ UNCHANGED <<tabs, active, asked, removed, tasks, fan>>

CloseActiveUnclamped ==
  /\ tabs' = Without(tabs, active)
  /\ tasks' = [tasks EXCEPT ![tabs[active].task].cmdOpen = FALSE]
  /\ active' = IF tabs' = <<>> THEN 1 ELSE active
  /\ overlay' = "None"
  /\ removed' = TRUE

(* close_active: the session is dropped and with it the command sender,    *)
(* its forwarder is not.                                                   *)
CloseActive ==
  LET n == Len(tabs) - 1
  IN  /\ tabs' = Without(tabs, active)
      /\ tasks' = [tasks EXCEPT ![tabs[active].task].cmdOpen = FALSE]
      /\ active' = IF n = 0 THEN 1 ELSE IF active > n THEN n ELSE active
      /\ overlay' = "None"
      /\ removed' = TRUE

(* Ctrl-W, over any overlay: request_close_active. *)
RequestClose ==
  /\ tabs # <<>>
  /\ IF Live(tabs[active].status)
     THEN /\ overlay' = "CloseConfirm"
          /\ asked' = tabs[active].sid
          /\ UNCHANGED <<tabs, tasks, active, removed>>
     ELSE /\ CloseActive
          /\ UNCHANGED asked
  /\ UNCHANGED fan

(* "Yes" in the confirmation. *)
ConfirmClose ==
  /\ overlay = "CloseConfirm"
  /\ tabs # <<>>
  /\ CloseActive
  /\ UNCHANGED <<asked, fan>>

ReconnectBesides ==
  LET tab == tabs[active]
      t == Len(tasks) + 1
  IN  /\ overlay = "None"
      /\ tabs # <<>>
      /\ tab.status = "Disconnected"
      /\ t <= MaxTasks
      /\ tasks' = Append(tasks, NewTask(tab.sid, active))
      /\ tabs' = [tabs EXCEPT ![active] = [@ EXCEPT !.status = "Connecting", !.task = t]]
      /\ UNCHANGED <<active, overlay, asked, removed, fan>>

ReconnectUnattached ==
  LET tab == tabs[active]
      t == Len(tasks) + 1
  IN  /\ overlay = "None"
      /\ tabs # <<>>
      /\ tab.status = "Disconnected"
      /\ t <= MaxTasks
      /\ tasks' = Append([Told(tab.task, "Close") EXCEPT ![tab.task].cmdOpen = FALSE],
                         NewTask(tab.sid, 0))
      /\ tabs' = [tabs EXCEPT ![active] = [@ EXCEPT !.status = "Connecting", !.task = t]]
      /\ UNCHANGED <<active, overlay, asked, removed, fan>>

ReconnectOnError ==
  LET tab == tabs[active]
      t == Len(tasks) + 1
  IN  /\ overlay = "None"
      /\ tabs # <<>>
      /\ tab.status \in {"Disconnected", "Error"}
      /\ t <= MaxTasks
      /\ tasks' = Append([Told(tab.task, "Close") EXCEPT ![tab.task].cmdOpen = FALSE],
                         NewTask(tab.sid, active))
      /\ tabs' = [tabs EXCEPT ![active] = [@ EXCEPT !.status = "Connecting", !.task = t]]
      /\ UNCHANGED <<active, overlay, asked, removed, fan>>

(* F6 on a disconnected stream: reconnect and attach_io. *)
Reconnect ==
  LET tab == tabs[active]
      t == Len(tasks) + 1
  IN  /\ overlay = "None"
      /\ tabs # <<>>
      /\ tab.status = "Disconnected"
      /\ t <= MaxTasks
      /\ tasks' = Append([Told(tab.task, "Close") EXCEPT ![tab.task].cmdOpen = FALSE],
                         NewTask(tab.sid, active))
      /\ tabs' = [tabs EXCEPT ![active] = [@ EXCEPT !.status = "Connecting", !.task = t]]
      /\ UNCHANGED <<active, overlay, asked, removed, fan>>

(* F6 on another stream, "r", or Enter in the composer. *)
Send ==
  /\ overlay = "None"
  /\ tabs # <<>>
  /\ LET t == tabs[active].task
     IN  /\ tasks[t].data < MaxData
         /\ tasks' = Told(t, "Send")
  /\ UNCHANGED <<tabs, active, overlay, asked, removed, fan>>

------------------------------------------------------------------------------
(* What on_io of a stream session makes of an event. *)
StatusAfter(s, ev) == IF ev = "Frame" THEN s ELSE ev

(* The event loop takes the next event of the fan-in channel; an index     *)
(* past the last tab is ignored.                                           *)
HandleEvent ==
  /\ fan # <<>>
  /\ fan' = Tail(fan)
  /\ LET i == Head(fan).idx
     IN  tabs' = IF i \in 1 .. Len(tabs)
                 THEN [tabs EXCEPT ![i].status = StatusAfter(@, Head(fan).ev)]
                 ELSE tabs
  /\ UNCHANGED <<active, overlay, asked, removed, tasks>>

(* The forwarder of a connection. *)
Forward(t) ==
  /\ tasks[t].out # <<>>
  /\ fan' = Append(fan, [idx |-> tasks[t].idx, task |-> t, ev |-> Head(tasks[t].out)])
  /\ tasks' = [tasks EXCEPT ![t].out = Tail(@)]
  /\ UNCHANGED <<tabs, active, overlay, asked, removed>>

------------------------------------------------------------------------------
(* One connection: spawn_connect, run_tcp_connect and run_stream_io.       *)
Becomes(t, state, evs) ==
  LET task == tasks[t]
  IN  /\ tasks' = [tasks EXCEPT ![t] =
                    IF state = "gone"
                    THEN [task EXCEPT !.state = "gone", !.out = @ \o evs,
                                      !.cmds = <<>>, !.data = 0]
                    ELSE [task EXCEPT !.state = state, !.out = @ \o evs]]
      /\ UNCHANGED <<tabs, active, overlay, asked, removed, fan>>

(* connect() answers; meanwhile no command is looked at. *)
ConnectEnds(t) ==
  /\ tasks[t].state = "connecting"
  /\ \/ Becomes(t, "open", <<"Connected">>)
     \/ Becomes(t, "gone", <<"Error", "Disconnected">>)

(* Data from the peer, its end, or a read error, which is not followed by  *)
(* a Disconnected.                                                         *)
Receive(t) ==
  /\ tasks[t].state = "open"
  /\ tasks[t].data < MaxData
  /\ LET task == tasks[t]
     IN  tasks' = [tasks EXCEPT ![t] = [task EXCEPT !.data = @ + 1, !.out = Append(@, "Frame")]]
  /\ UNCHANGED <<tabs, active, overlay, asked, removed, fan>>

PeerEnds(t) ==
  /\ tasks[t].state = "open"
  /\ \/ Becomes(t, "gone", <<"Disconnected">>)
     \/ Becomes(t, "gone", <<"Error">>)

CommandUntilClose(t) ==
  /\ tasks[t].state = "open"
  /\ tasks[t].cmds # <<>>
  /\ \/ /\ Head(tasks[t].cmds) = "Send"
        /\ LET task == tasks[t]
           IN  tasks' = [tasks EXCEPT ![t] = [task EXCEPT !.cmds = Tail(@),
                                                          !.out = Append(@, "Frame")]]
        /\ UNCHANGED <<tabs, active, overlay, asked, removed, fan>>
     \/ /\ Head(tasks[t].cmds) = "Send"
        /\ Becomes(t, "gone", <<"Error", "Disconnected">>)
     \/ /\ Head(tasks[t].cmds) = "Close"
        /\ Becomes(t, "gone", <<>>)

(* The next command is written to the peer, or cannot be: then the task    *)
(* returns an error.  Close ends it without an event, and so does the end  *)
(* of the command channel.                                                 *)
Command(t) ==
  /\ tasks[t].state = "open"
  /\ \/ /\ tasks[t].cmds # <<>>
        /\ Head(tasks[t].cmds) = "Send"
        /\ LET task == tasks[t]
           IN  tasks' = [tasks EXCEPT ![t] = [task EXCEPT !.cmds = Tail(@),
                                                          !.out = Append(@, "Frame")]]
        /\ UNCHANGED <<tabs, active, overlay, asked, removed, fan>>
     \/ /\ tasks[t].cmds # <<>>
        /\ Head(tasks[t].cmds) = "Send"
        /\ Becomes(t, "gone", <<"Error", "Disconnected">>)
     \/ /\ tasks[t].cmds # <<>> => Head(tasks[t].cmds) = "Close"
        /\ tasks[t].cmds = <<>> => ~tasks[t].cmdOpen
        /\ Becomes(t, "gone", <<>>)

------------------------------------------------------------------------------
UserStep ==
  \/ OpenTab \/ OpenOverlay \/ CloseOverlay \/ RequestClose \/ ConfirmClose
  \/ Reconnect \/ Send
  \/ \E i \in 1 .. Len(tabs) : SelectTab(i)

TaskStep(t) == Forward(t) \/ ConnectEnds(t) \/ Receive(t) \/ PeerEnds(t) \/ Command(t)

Next == UserStep \/ HandleEvent \/ \E t \in 1 .. Len(tasks) : TaskStep(t)

Spec == Init /\ [][Next]_vars

(* The event loop reads the fan-in channel, forwarders and connections     *)
(* run: connect() answers some time (the operating system times out) and   *)
(* select! does not pass over a waiting command for ever.  The user and    *)
(* the peer owe nothing.                                                   *)
FairSpec ==
  /\ Spec
  /\ WF_vars(HandleEvent)
  /\ \A t \in 1 .. MaxTasks :
       /\ WF_vars(t <= Len(tasks) /\ Forward(t))
       /\ WF_vars(t <= Len(tasks) /\ ConnectEnds(t))
       /\ WF_vars(t <= Len(tasks) /\ Command(t))

------------------------------------------------------------------------------
FanEvent == [idx : Nat, task : Nat, ev : Events]

TypeOK ==
  /\ tabs \in Seq(Tab)
  /\ active \in Nat
  /\ overlay \in {"None", "CloseConfirm", "Other"}
  /\ asked \in Nat
  /\ removed \in BOOLEAN
  /\ tasks \in Seq(Task)
  /\ fan \in Seq(FanEvent)
  /\ active \in 1 .. Len(tabs) \/ (tabs = <<>> /\ active = 1)
  /\ \A i \in 1 .. Len(tabs) : tabs[i].task \in 1 .. Len(tasks)
  /\ \A k \in 1 .. Len(fan) : fan[k].task \in 1 .. Len(tasks)

(* A tab that shows a live session is closed only by the answer to a       *)
(* confirmation that was opened for that very tab (request_close_active    *)
(* asks; nothing may change the active tab, or what it is asked about,     *)
(* while the question is on the screen).                                   *)
LiveTabsCloseOnlyWhenAsked ==
  [][\A i \in 1 .. Len(tabs) :
       /\ Live(tabs[i].status)
       /\ \A j \in 1 .. Len(tabs') : tabs'[j].sid # tabs[i].sid
       => overlay = "CloseConfirm" /\ asked = tabs[i].sid]_vars

(* At most one connection of a tab still listens to it, and that is the    *)
(* one the tab shows: a reconnect leaves no second connection to the peer  *)
(* behind that goes on, and a closed tab leaves none                       *)
(* (StreamSession::reconnect, close_active).                               *)
OneConnectionPerTab ==
  \A t \in 1 .. Len(tasks) :
    tasks[t].cmdOpen =>
      \E i \in 1 .. Len(tabs) : tabs[i].task = t /\ tabs[i].sid = tasks[t].owner

(* A connection that no tab shows ends: the command channel that closes    *)
(* behind it is heard of, whatever else it is busy with.                   *)
OrphansEnd ==
  \A t \in 1 .. MaxTasks :
    (t <= Len(tasks) /\ \A i \in 1 .. Len(tabs) : tabs[i].task # t)
      ~> (t <= Len(tasks) /\ tasks[t].state = "gone")

(* As long as no tab was closed, an event that reaches a tab comes from    *)
(* its current connection: after a reconnect nothing that the previous     *)
(* connection still had to say overwrites the status of the new one.       *)
StatusIsOfTheConnection ==
  [][fan # <<>> /\ fan' = Tail(fan) /\ ~removed =>
       tabs[Head(fan).idx].task = Head(fan).task]_vars

(* As long as no tab was closed, a tab does not go on showing as live a    *)
(* connection that has ended: the end of every connection is heard of.     *)
EndIsShown ==
  \A t \in 1 .. MaxTasks :
    (t <= Len(tasks) /\ tasks[t].state = "gone")
      ~> \/ removed
         \/ \A i \in 1 .. Len(tabs) : tabs[i].task = t => ~Live(tabs[i].status)

(* app.rs, attach_io: after a tab is closed "later events for that stale   *)
(* index are ignored", so a tab only hears from its own connections.       *)
StaleEventsAreIgnored ==
  [][fan # <<>> /\ fan' = Tail(fan) /\ Head(fan).idx \in 1 .. Len(tabs) =>
       tasks[Head(fan).task].owner = tabs[Head(fan).idx].sid]_vars
=============================================================================
