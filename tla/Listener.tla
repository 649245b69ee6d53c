------------------------------ MODULE Listener ------------------------------
(***************************************************************************)
(* A listen session (session/listen.rs) and the task that serves it.  For  *)
(* TCP and UNIX sockets (run_tcp_listen, run_unix_listen) that is an       *)
(* accept loop, one task per client, and the map they share; a WebSocket   *)
(* listener (run_ws_listen) serves one client at a time itself, a UDP      *)
(* listener (run_udp_listen) the peer it heard last.                       *)
(*                                                                         *)
(* events is the way from those tasks to the session: their channel, the   *)
(* forwarder and the fan-in channel of Workspace, all in order.            *)
(***************************************************************************)
EXTENDS Naturals, Sequences, FiniteSets, FiniteSetsExt

CONSTANTS
  Protocols,   \* kinds of listeners: "map", "ws" and "udp"
  MaxClients,  \* bound: clients that connect
  MaxSends,    \* bound: payloads sent from the composer
  MaxData      \* bound: frames read from all clients, for each kind

ASSUME ListenerAssumption ==
  /\ Protocols \subseteq {"map", "ws", "udp"}
  /\ MaxClients \in Nat
  /\ MaxSends \in Nat
  /\ MaxData \in [Protocols -> Nat]

VARIABLES
  protocol,   \* of the target
  list,       \* ListenSession.clients, with the frames counted for each
  selected,   \* selected_client, 0 for none
  status,     \* of the session
  open,       \* whether the tab, and so the command sender, still exists
  sent,       \* history: what was sent, see Message
  events,     \* on their way to the session
  cmds,       \* the command channel, as indexes of sent
  server,     \* the accept loop: "run", "closed" or "failed"
  accepting,  \* the client it has announced and not yet registered, or 0
  peer,       \* whom the loop serves itself: a WebSocket, last_peer, or 0
  next,       \* next_id; of WebSockets, which all have id 1, the next one
  map,        \* clients: the registered ones
  client,     \* the task of each client
  queue,      \* the payloads for each client, as indexes of sent
  read,       \* frames read from each client
  received    \* history: what was written to each client

session == <<list, selected, status, open, sent>>
loop == <<protocol, server, accepting, peer, next>>
tasks == <<map, client, queue, read, received>>
vars == <<session, events, cmds, loop, tasks>>

(* A client stands for its peer address as well. *)
Clients == 1 .. MaxClients

Id(c) == IF protocol = "ws" THEN 1 ELSE c

Ids(l) == {l[i].id : i \in 1 .. Len(l)}

Peers(l) == {l[i].peer : i \in 1 .. Len(l)}

(* Whether for all clients or for one (0: for any), and history: for whom  *)
(* a broadcast was, the clients listed then.                               *)
Message == [all : BOOLEAN, to : 0 .. MaxClients, seen : SUBSET Clients]

Event ==
  [ev : {"ClientJoined", "ClientLeft", "In", "Out", "Error"},
   id : 0 .. MaxClients, peer : 0 .. MaxClients]

(* What is still said to a tab that was closed is not followed here. *)
Tell(ev, id, c) ==
  events' = IF open THEN Append(events, [ev |-> ev, id |-> id, peer |-> c]) ELSE <<>>

TellJoined(c) == Tell("ClientJoined", Id(c), c)

TellLeft(c) == Tell("ClientLeft", Id(c), 0)

TellFrame(direction, c) == Tell(direction, 0, c)

TellError == Tell("Error", 0, 0)

------------------------------------------------------------------------------
(* ListenSession::start, the socket being bound: the Connected event that  *)
(* follows finds the session Listening already.                            *)
Init ==
  /\ protocol \in Protocols
  /\ list = <<>>
  /\ selected = 0
  /\ status = "Listening"
  /\ open = TRUE
  /\ sent = <<>>
  /\ events = <<>>
  /\ cmds = <<>>
  /\ server = "run"
  /\ accepting = 0
  /\ peer = 0
  /\ next = 1
  /\ map = {}
  /\ client = [c \in Clients |-> "none"]
  /\ queue = [c \in Clients |-> <<>>]
  /\ read = [c \in Clients |-> 0]
  /\ received = [c \in Clients |-> <<>>]

------------------------------------------------------------------------------
(* The session. *)

(* send_composer, or a fuzzed payload, which goes to the selected client;  *)
(* nobody reads the channel any more once the loop ended.                  *)
SendComposer(all) ==
  /\ open
  /\ Len(sent) < MaxSends
  /\ sent' = Append(sent, IF all THEN [all |-> TRUE, to |-> 0, seen |-> Peers(list)]
                          ELSE [all |-> FALSE, to |-> selected, seen |-> {}])
  /\ cmds' = IF server = "run" THEN Append(cmds, Len(sent) + 1) ELSE cmds
  /\ UNCHANGED <<list, selected, status, open, events, loop, tasks>>

(* The client before or behind the selected one, in the list.              *)
SelectClient(i) ==
  /\ open
  /\ \A k \in 1 .. Len(list) : list[k].id = selected => i \in {k - 1, k, k + 1}
  /\ selected' = list[i].id
  /\ UNCHANGED <<list, status, open, sent, events, cmds, loop, tasks>>

AddedTo(l, e) == Append(l, [id |-> e.id, peer |-> e.peer, in |-> 0, out |-> 0])

(* The elements of S, a set of positions, in their order. *)
InOrder(S) ==
  CHOOSE f \in [1 .. Cardinality(S) -> S] :
    /\ \A j, k \in 1 .. Cardinality(S) : j < k => f[j] < f[k]
    /\ \A i \in S : \E k \in 1 .. Cardinality(S) : f[k] = i

(* retain: the others stay, in the order they have. *)
Without(l, id) ==
  LET kept == {i \in 1 .. Len(l) : l[i].id # id}
  IN  [k \in 1 .. Cardinality(kept) |-> l[InOrder(kept)[k]]]

Joined(e) ==
  /\ list' = AddedTo(list, e)
  /\ selected' = IF selected = 0 THEN e.id ELSE selected
  /\ UNCHANGED status

LeftToNext(id) ==
  /\ list' = Without(list, id)
  /\ selected' = IF selected # id THEN selected ELSE id + 1
  /\ UNCHANGED status

Left(id) ==
  /\ list' = Without(list, id)
  /\ selected' = IF selected # id THEN selected
                 ELSE IF list' = <<>> THEN 0 ELSE list'[1].id
  /\ UNCHANGED status

(* A frame counts for the client that has its peer's address; two clients  *)
(* that are listed at the same time have two addresses.                    *)
Counted(direction, c) ==
  /\ list' = [i \in 1 .. Len(list) |->
               IF list[i].peer # c THEN list[i]
               ELSE IF direction = "In" THEN [list[i] EXCEPT !.in = @ + 1]
               ELSE [list[i] EXCEPT !.out = @ + 1]]
  /\ UNCHANGED <<selected, status>>

(* on_io *)
HandleEvent ==
  /\ events # <<>>
  /\ events' = Tail(events)
  /\ LET e == Head(events)
     IN  \/ e.ev = "ClientJoined" /\ Joined(e)
         \/ e.ev = "ClientLeft" /\ Left(e.id)
         \/ e.ev \in {"In", "Out"} /\ Counted(e.ev, e.peer)
         \/ e.ev = "Error" /\ status' = "Error" /\ UNCHANGED <<list, selected>>
  /\ UNCHANGED <<open, sent, cmds, loop, tasks>>

(* close_active: the session is dropped, with it the command sender. *)
CloseTab ==
  /\ open
  /\ open' = FALSE
  /\ list' = <<>>
  /\ selected' = 0
  /\ events' = <<>>
  /\ UNCHANGED <<status, sent, cmds, loop, tasks>>

------------------------------------------------------------------------------
(* The accept loop, or the only loop there is. *)
Running == server = "run" /\ accepting = 0

WithMap == Running /\ protocol = "map"

(* accept(): the client is announced and waits for the lock of the map, or *)
(* for the WebSocket handshake.                                            *)
Accept ==
  /\ Running
  /\ protocol = "map" \/ (protocol = "ws" /\ peer = 0)
  /\ next <= MaxClients
  /\ accepting' = next
  /\ next' = next + 1
  /\ TellJoined(next)
  /\ UNCHANGED <<session, cmds, protocol, server, peer, tasks>>

Register ==
  /\ protocol = "map"
  /\ accepting # 0
  /\ map' = map \cup {accepting}
  /\ client' = [client EXCEPT ![accepting] = "serving"]
  /\ accepting' = 0
  /\ UNCHANGED <<session, events, cmds, protocol, server, peer, next, queue, read, received>>

(* The two in the other order: first the task is spawned. *)
RegisterFirst ==
  /\ WithMap
  /\ next <= MaxClients
  /\ accepting' = next
  /\ next' = next + 1
  /\ map' = map \cup {next}
  /\ client' = [client EXCEPT ![next] = "serving"]
  /\ UNCHANGED <<session, events, cmds, protocol, server, peer, queue, read, received>>

AnnounceLater ==
  /\ protocol = "map"
  /\ accepting # 0
  /\ TellJoined(accepting)
  /\ accepting' = 0
  /\ UNCHANGED <<session, cmds, protocol, server, peer, next, tasks>>

(* The loop ends, and with it the WebSocket it serves or shakes hands with. *)
Ends(as) ==
  /\ server' = as
  /\ cmds' = <<>>
  /\ client' = [c \in Clients |->
                 IF protocol = "ws" /\ c \in {peer, accepting} THEN "lost" ELSE client[c]]
  /\ peer' = 0

(* It returns an error, which spawn_listen reports: of accept(), of a      *)
(* write, or of encode_outbound on a payload too long for its prefix.      *)
Fails == Ends("failed") /\ TellError

AcceptFails ==
  /\ Running
  /\ protocol = "map" \/ (protocol = "ws" /\ peer = 0)
  /\ Fails
  /\ UNCHANGED <<session, protocol, accepting, next, map, queue, read, received>>

RecipientsOrAny(m) ==
  IF m.all THEN {map}
  ELSE IF m.to \in map THEN {{m.to}}
  ELSE IF map = {} THEN {{}} ELSE {{c} : c \in map}

(* To whom a message goes: to all registered clients, to the one it is     *)
(* for if that is registered, or to any of them if it is for nobody.       *)
Recipients(m) ==
  IF m.all THEN {map}
  ELSE IF m.to # 0 THEN {{m.to} \cap map}
  ELSE IF map = {} THEN {{}} ELSE {{c} : c \in map}

Command ==
  /\ WithMap
  /\ cmds # <<>>
  /\ \/ /\ \E to \in Recipients(sent[Head(cmds)]) :
             queue' = [c \in Clients |->
                        IF c \in to /\ client[c] = "serving"
                        THEN Append(queue[c], Head(cmds)) ELSE queue[c]]
        /\ cmds' = Tail(cmds)
        /\ UNCHANGED <<events, server, peer, client>>
     \/ /\ Fails
        /\ UNCHANGED queue
  /\ UNCHANGED <<session, protocol, accepting, next, map, read, received>>

EndAtOnce ==
  /\ Running
  /\ ~open
  /\ Ends("closed")
  /\ UNCHANGED <<session, events, protocol, accepting, next, map, queue, read, received>>

(* recv() returns None when the sender is gone and nothing is queued. *)
EndOfCommands ==
  /\ Running
  /\ ~open
  /\ cmds = <<>>
  /\ Ends("closed")
  /\ UNCHANGED <<session, events, protocol, accepting, next, map, queue, read, received>>

ServeBeforeAnnouncing ==
  RegisterFirst \/ AnnounceLater \/ AcceptFails \/ Command \/ EndOfCommands

Serve == Accept \/ Register \/ AcceptFails \/ Command \/ EndOfCommands

------------------------------------------------------------------------------
(* The bound on the frames that are read. *)
MoreData == MapThenSumSet(LAMBDA c : read[c], Clients) < MaxData[protocol]

(* The task of client c, for TCP and UNIX.  It outlives the accept loop,   *)
(* and since it holds the map, with its own sender in it, only its peer    *)
(* ends it.                                                                *)
Serving(c) == protocol = "map" /\ client[c] = "serving"

Read(c) ==
  /\ Serving(c)
  /\ MoreData
  /\ read' = [read EXCEPT ![c] = @ + 1]
  /\ TellFrame("In", c)
  /\ UNCHANGED <<session, cmds, loop, map, client, queue, received>>

WriteToldFirst(c) ==
  /\ Serving(c)
  /\ queue[c] # <<>>
  /\ queue' = [queue EXCEPT ![c] = Tail(@)]
  /\ TellFrame("Out", c)
  /\ \/ received' = [received EXCEPT ![c] = Append(@, Head(queue[c]))]
     \/ UNCHANGED received
  /\ UNCHANGED <<session, cmds, loop, map, client, read>>

(* write_all; it may fail, the peer may close, or reading may fail.  After *)
(* that nobody looks at the queue any more.                                *)
Write(c) ==
  /\ Serving(c)
  /\ queue[c] # <<>>
  /\ queue' = [queue EXCEPT ![c] = Tail(@)]
  /\ received' = [received EXCEPT ![c] = Append(@, Head(queue[c]))]
  /\ TellFrame("Out", c)
  /\ UNCHANGED <<session, cmds, loop, map, client, read>>

ClientEnds(c) ==
  /\ Serving(c)
  /\ client' = [client EXCEPT ![c] = "ending"]
  /\ queue' = [queue EXCEPT ![c] = <<>>]
  /\ UNCHANGED <<session, events, cmds, loop, map, read, received>>

Deregister(c) ==
  /\ client[c] = "ending"
  /\ client' = [client EXCEPT ![c] = "removed"]
  /\ map' = map \ {c}
  /\ UNCHANGED <<session, events, cmds, loop, queue, read, received>>

AnnounceLeft(c) ==
  /\ client[c] = "removed"
  /\ client' = [client EXCEPT ![c] = "left"]
  /\ TellLeft(c)
  /\ UNCHANGED <<session, cmds, loop, map, queue, read, received>>

ClientStep(c) ==
  Read(c) \/ Write(c) \/ ClientEnds(c) \/ Deregister(c) \/ AnnounceLeft(c)

------------------------------------------------------------------------------
(* The WebSocket listener, between accept() and the end of the client.  A  *)
(* peer that does not upgrade ends the listener.                           *)
Handshake ==
  /\ protocol = "ws"
  /\ accepting # 0
  /\ accepting' = 0
  /\ \/ /\ peer' = accepting
        /\ client' = [client EXCEPT ![accepting] = "serving"]
        /\ UNCHANGED <<events, cmds, server>>
     \/ Fails
  /\ UNCHANGED <<session, protocol, next, map, queue, read, received>>

ServingWebSocket == Running /\ protocol = "ws" /\ peer # 0

(* What is sent while no client is there is dropped. *)
DropCommand ==
  /\ Running
  /\ protocol = "ws"
  /\ peer = 0
  /\ cmds # <<>>
  /\ cmds' = Tail(cmds)
  /\ UNCHANGED <<session, events, loop, tasks>>

WebSocketEnds(as) ==
  /\ client' = [client EXCEPT ![peer] = as]
  /\ peer' = 0
  /\ UNCHANGED <<session, cmds, protocol, server, accepting, next, map, queue, read, received>>

WebSocketLeavesUnheard ==
  /\ ServingWebSocket
  /\ WebSocketEnds("left")
  /\ UNCHANGED events

(* A close frame, or the end of the stream. *)
WebSocketLeaves ==
  /\ ServingWebSocket
  /\ WebSocketEnds("left")
  /\ TellLeft(peer)

(* A read error is told as an error of the session, not as a client that   *)
(* left.                                                                   *)
WebSocketLost ==
  /\ ServingWebSocket
  /\ WebSocketEnds("lost")
  /\ TellError

(* A datagram of anybody makes it the peer to reply to. *)
ReadDatagram(c) ==
  /\ Running
  /\ protocol = "udp"
  /\ MoreData
  /\ peer' = c
  /\ read' = [read EXCEPT ![c] = @ + 1]
  /\ TellFrame("In", c)
  /\ UNCHANGED <<session, cmds, protocol, server, accepting, next, map, client, queue, received>>

(* recv_from fails: the loop is left as if it were closed. *)
DatagramFails ==
  /\ Running
  /\ protocol = "udp"
  /\ Ends("closed")
  /\ TellError
  /\ UNCHANGED <<session, protocol, accepting, next, map, queue, read, received>>

(* "no peer yet to reply to"; nobody looks at whom a payload is for. *)
NobodyToReplyTo ==
  /\ Running
  /\ protocol = "udp"
  /\ peer = 0
  /\ cmds # <<>>
  /\ cmds' = Tail(cmds)
  /\ TellError
  /\ UNCHANGED <<session, loop, tasks>>

ReadWebSocket ==
  /\ ServingWebSocket
  /\ MoreData
  /\ read' = [read EXCEPT ![peer] = @ + 1]
  /\ TellFrame("In", peer)
  /\ UNCHANGED <<session, cmds, loop, map, client, queue, received>>

(* Both write a payload, single or broadcast, to the only peer they have.  *)
Reply ==
  /\ Running
  /\ protocol \in {"ws", "udp"}
  /\ peer # 0
  /\ cmds # <<>>
  /\ \/ /\ received' = [received EXCEPT ![peer] = Append(@, Head(cmds))]
        /\ cmds' = Tail(cmds)
        /\ TellFrame("Out", peer)
        /\ UNCHANGED <<server, peer, client>>
     \/ /\ Fails
        /\ UNCHANGED received
  /\ UNCHANGED <<session, protocol, accepting, next, map, queue, read>>

ServeOne ==
  \/ Handshake
  \/ DropCommand
  \/ WebSocketLeaves
  \/ WebSocketLost
  \/ ReadWebSocket
  \/ \E c \in Clients : ReadDatagram(c)
  \/ DatagramFails
  \/ NobodyToReplyTo
  \/ Reply

------------------------------------------------------------------------------
UserStep ==
  \/ \E all \in BOOLEAN : SendComposer(all)
  \/ \E i \in 1 .. Len(list) : SelectClient(i)
  \/ CloseTab

Next ==
  \/ UserStep
  \/ HandleEvent
  \/ Serve
  \/ \E c \in Clients : ClientStep(c)
  \/ ServeOne

Spec == Init /\ [][Next]_vars

------------------------------------------------------------------------------
TypeOK ==
  /\ protocol \in Protocols
  /\ list \in Seq([id : Clients, peer : Clients, in : Nat, out : Nat])
  /\ selected \in 0 .. MaxClients
  /\ status \in {"Listening", "Error"}
  /\ open \in BOOLEAN
  /\ sent \in Seq(Message)
  /\ events \in Seq(Event)
  /\ cmds \in Seq(1 .. Len(sent))
  /\ server \in {"run", "closed", "failed"}
  /\ accepting \in 0 .. MaxClients
  /\ peer \in 0 .. MaxClients
  /\ next \in 1 .. MaxClients + 1
  /\ map \subseteq Clients
  /\ client \in [Clients -> {"none", "serving", "ending", "removed", "left", "lost"}]
  /\ queue \in [Clients -> Seq(1 .. Len(sent))]
  /\ read \in [Clients -> Nat]
  /\ received \in [Clients -> Seq(1 .. Len(sent))]

(* Whether client c will be in the list when the events under way have     *)
(* arrived: it is, or one of them adds it, and none after that removes it. *)
Adds(j, c) ==
  IF j = 0 THEN c \in Peers(list) ELSE events[j].ev = "ClientJoined" /\ events[j].peer = c

Removes(k, c) == events[k].ev = "ClientLeft" /\ events[k].id = Id(c)

Shown(c) ==
  \E j \in 0 .. Len(events) :
    Adds(j, c) /\ \A k \in j + 1 .. Len(events) : ~Removes(k, c)

(* As far as the pending events go, the list shows exactly the clients     *)
(* that were accepted and have not ended, each once; a WebSocket that was  *)
(* lost is not reported, but also after that every client that is served   *)
(* is shown.  Somebody is selected exactly if somebody is there to be      *)
(* selected, and it is one of them, whoever leaves.                        *)
ClientsAreListed ==
  /\ IF list = <<>> THEN selected = 0 ELSE selected \in Ids(list)
  /\ \A i, j \in 1 .. Len(list) : list[i].peer = list[j].peer => i = j
  /\ open =>
       \A c \in Clients :
         /\ Shown(c) => c < next /\ client[c] # "left"
         /\ c < next /\ client[c] \notin {"left", "lost"} => Shown(c)

Pending(direction, c) ==
  {k \in 1 .. Len(events) : events[k].ev = direction /\ events[k].peer = c}

(* Every frame exchanged with a client that is still listed is counted for *)
(* it once its event has arrived: no frame comes before its client, none   *)
(* after it, and what could not be written is not counted.                 *)
TrafficIsCounted ==
  open =>
    \A i \in 1 .. Len(list) :
      LET e == list[i]
      IN  /\ e.in + Cardinality(Pending("In", e.peer)) = read[e.peer]
          /\ e.out + Cardinality(Pending("Out", e.peer)) = Len(received[e.peer])

(* What the operator sees of the clients is true of them. *)
ListIsTrue == ClientsAreListed /\ TrafficIsCounted

Ended == {"ending", "removed", "left", "lost"}

Got(c, n) == \E k \in 1 .. Len(received[c]) : received[c][k] = n

(* A payload for one client reaches no other, also when that one has left  *)
(* meanwhile (all WebSockets are the client 1); one that is not for all    *)
(* reaches at most one peer, and never one that was not heard of; and what *)
(* reaches a client reaches it once, in the order in which it was sent.    *)
DeliveredAsMeant ==
  /\ \A n \in 1 .. Len(sent) : ~sent[n].all =>
       /\ sent[n].to # 0 => \A c \in Clients : Got(c, n) => Id(c) = sent[n].to
       /\ \A c, d \in Clients : Got(c, n) /\ Got(d, n) => c = d
  /\ \A c \in Clients :
       /\ received[c] # <<>> => IF protocol = "udp" THEN read[c] > 0 ELSE c < next
       /\ \A k, l \in 1 .. Len(received[c]) : k < l => received[c][k] < received[c][l]

(* "Broadcast fan-out": a broadcast is on its way to, or has reached, every *)
(* client that was listed when it was sent, unless that client or the      *)
(* listener has failed; closing the tab does not keep it back.             *)
BroadcastReachesAll ==
  \A n \in 1 .. Len(sent) : \A c \in sent[n].seen :
    \/ client[c] \in Ended \/ server = "failed"
    \/ \E k \in 1 .. Len(cmds) : cmds[k] = n
    \/ \E k \in 1 .. Len(queue[c]) : queue[c][k] = n
    \/ Got(c, n)
=============================================================================
