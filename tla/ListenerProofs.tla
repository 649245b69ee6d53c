---------------------------- MODULE ListenerProofs ----------------------------
(* Theorems about Listener, for any number of clients, payloads and frames: *)
(* to whom a payload goes, and that the list of clients is true, both whom  *)
(* it shows and what it counts for them.                                    *)
EXTENDS Listener, FiniteSetTheorems, WellFoundedInduction, TLAPS

------------------------------------------------------------------------------
(* The inductive invariant. *)

(* The ids that the session gets to know: none from UDP.                   *)
KnownIds == IF protocol = "udp" THEN {} ELSE {Id(c) : c \in Clients}

Accepted == 1 .. next - 1

(* Whoever is announced, listed, selected or written to was accepted.      *)
EventsKnown ==
  \A k \in 1 .. Len(events) :
    /\ events[k].ev = "ClientJoined" =>
         events[k].peer \in Accepted /\ events[k].id = Id(events[k].peer)
    /\ events[k].ev = "ClientLeft" => events[k].id \in KnownIds

ListKnown ==
  /\ \A i \in 1 .. Len(list) : list[i].peer \in Accepted /\ list[i].id = Id(list[i].peer)
  /\ selected \in KnownIds \cup {0}

SentKnown ==
  \A n \in 1 .. Len(sent) :
    /\ sent[n].to \in KnownIds \cup {0}
    /\ sent[n].seen \subseteq Accepted /\ (sent[n].seen # {} => sent[n].all)

(* Where the clients are that were accepted: of an accept loop, ...        *)
MapStages ==
  /\ peer = 0
  /\ map \subseteq Accepted
  /\ accepting # 0 => accepting \in Accepted
  /\ \A c \in Clients :
       /\ client[c] = "serving" => c \in map
       /\ c \in Accepted \ {accepting} => client[c] # "none"
       /\ client[c] # "serving" => queue[c] = <<>>
       /\ received[c] # <<>> => c \in Accepted
       /\ client[c] # "none" => c \in Accepted \ {accepting}

(* ... of a WebSocket listener, that serves or shakes hands with the last  *)
(* one, ...                                                                *)
WebSocketStages ==
  /\ map = {}
  /\ peer \in Accepted \cup {0}
  /\ accepting \in Accepted \cup {0}
  /\ accepting # 0 => peer = 0
  /\ \A c \in Clients :
       /\ queue[c] = <<>> /\ client[c] \notin {"ending", "removed"}
       /\ client[c] = "serving" => c = peer
       /\ c \in Accepted => c \in {peer, accepting} \/ client[c] \in {"left", "lost"}
       /\ client[c] # "none" => c \in Accepted \ {accepting}
       /\ received[c] # <<>> => c \in Accepted

(* ... and of UDP, where nobody is accepted.                               *)
DatagramStages ==
  /\ map = {} /\ accepting = 0 /\ next = 1
  /\ peer # 0 => read[peer] > 0
  /\ \A c \in Clients :
       queue[c] = <<>> /\ client[c] = "none" /\ (received[c] # <<>> => read[c] > 0)

Stages ==
  CASE protocol = "map" -> MapStages
    [] protocol = "ws" -> WebSocketStages
    [] protocol = "udp" -> DatagramStages

(* The channels keep the order: what a client received was sent before     *)
(* what is queued for it, and that before what the loop has not seen yet.  *)
Up(s) == \A i, j \in 1 .. Len(s) : i < j => s[i] < s[j]

In(s) == {s[i] : i \in 1 .. Len(s)}

Below(s, t) == \A x \in In(s), y \in In(t) : x < y

InLine(r, q, k) == Up(r) /\ Up(q) /\ Below(r, q) /\ Below(r, k) /\ Below(q, k)

InOrderOfSending ==
  Up(cmds) /\ \A c \in Clients : InLine(received[c], queue[c], cmds)

(* A payload for one client went to that one only. *)
Has(c, n) == n \in In(received[c]) \cup In(queue[c])

ForOne ==
  \A n \in 1 .. Len(sent) : ~sent[n].all =>
    /\ sent[n].to # 0 => \A c \in Clients : Has(c, n) => Id(c) = sent[n].to
    /\ \A c, d \in Clients : Has(c, n) /\ Has(d, n) => c = d

(* Only closing the tab ends the loop without an error, but for UDP.       *)
ServerInv ==
  /\ server = "closed" => ~open \/ protocol = "udp"
  /\ accepting # 0 => server = "run"

Known == EventsKnown /\ ListKnown /\ SentKnown

IInv == TypeOK /\ Known /\ Stages /\ ServerInv /\ InOrderOfSending /\ ForOne /\ BroadcastReachesAll

------------------------------------------------------------------------------
(* What Without returns.  The positions it keeps have an order: by          *)
(* induction over the last of them, as the least for which it would fail.   *)
LEMMA Least == ASSUME NEW S, S \subseteq Nat, S # {} PROVE \E n \in S : \A m \in S : n <= m
<1> DEFINE R == OpToRel(<, Nat)
<1>1. \A m, n \in Nat : <<m, n>> \in R <=> m < n
  BY DEF OpToRel
<1>2. IsWellFoundedOn(R, Nat)
  BY NatLessThanWellFounded
<1> HIDE DEF R
<1>3. PICK n \in S : \A m \in S : ~(<<m, n>> \in R)
  BY <1>2, WFMin
<1>4. n \in Nat /\ \A m \in S : m \in Nat /\ ~(m < n)
  BY <1>1, <1>3
<1>5. \A m \in S : n <= m
  BY <1>4
<1> QED
  BY <1>3, <1>5

LEMMA Positions ==
  ASSUME NEW n \in Nat, NEW S \in SUBSET (1 .. n)
  PROVE  IsFiniteSet(S) /\ Cardinality(S) \in Nat
<1>1. IsFiniteSet(1 .. n)
  BY FS_Interval
<1>2. IsFiniteSet(S)
  BY <1>1, FS_Subset
<1> QED
  BY <1>2, FS_CardinalityType

Enumerates(f, S) ==
  /\ f \in [1 .. Cardinality(S) -> S]
  /\ \A j, k \in 1 .. Cardinality(S) : j < k => f[j] < f[k]
  /\ \A i \in S : \E k \in 1 .. Cardinality(S) : f[k] = i

(* One more position, behind the others. *)
LEMMA EnumerateNext ==
  ASSUME NEW n \in Nat, NEW S \in SUBSET (1 .. n), NEW f, Enumerates(f, S)
  PROVE  \E g : Enumerates(g, S \cup {n + 1})
<1> DEFINE m == Cardinality(S)
           T == S \cup {n + 1}
           g == [k \in 1 .. m + 1 |-> IF k = m + 1 THEN n + 1 ELSE f[k]]
<1>1. n + 1 \notin S /\ \A x \in S : x \in Nat /\ x < n + 1
  OBVIOUS
<1>2. m \in Nat /\ IsFiniteSet(S)
  BY Positions
<1>3. Cardinality(T) = m + 1
  BY <1>1, <1>2, FS_AddElement
<1>4. /\ f \in [1 .. m -> S]
      /\ \A j, k \in 1 .. m : j < k => f[j] < f[k]
      /\ \A x \in S : \E k \in 1 .. m : f[k] = x
  BY DEF Enumerates
<1> HIDE DEF m
<1>5. g \in [1 .. m + 1 -> T] /\ g[m + 1] = n + 1 /\ \A k \in 1 .. m : g[k] = f[k]
  BY <1>2, <1>4
<1> HIDE DEF g
<1>6. \A j, k \in 1 .. m + 1 : j < k => j \in 1 .. m /\ (k \in 1 .. m \/ k = m + 1)
  BY <1>2
<1>7. ASSUME NEW j \in 1 .. m + 1, NEW k \in 1 .. m + 1, j < k PROVE g[j] < g[k]
  <2>1. j \in 1 .. m /\ g[j] = f[j] /\ f[j] \in S
    BY <1>4, <1>5, <1>6, <1>7
  <2>2. CASE k \in 1 .. m
    BY <1>4, <1>5, <1>7, <2>1, <2>2
  <2>3. CASE k = m + 1
    BY <1>1, <1>5, <2>1, <2>3
  <2> QED
    BY <1>6, <1>7, <2>2, <2>3
<1>8. 1 .. m \subseteq 1 .. m + 1 /\ m + 1 \in 1 .. m + 1
  BY <1>2
<1>9. ASSUME NEW x \in T PROVE \E k \in 1 .. m + 1 : g[k] = x
  BY <1>4, <1>5, <1>8
<1>10. Enumerates(g, T)
  BY <1>3, <1>5, <1>7, <1>9 DEF Enumerates
<1> QED
  BY <1>10

LEMMA Enumerable ==
  ASSUME NEW n \in Nat, NEW S \in SUBSET (1 .. n)
  PROVE  \E f : Enumerates(f, S)
<1> DEFINE Good(T) == \E f : Enumerates(f, T)
           Bad == {m \in Nat : \E T \in SUBSET (1 .. m) : ~Good(T)}
<1>1. \A T \in SUBSET (1 .. 0) : Good(T)
  <2>1. ASSUME NEW T \in SUBSET (1 .. 0) PROVE Good(T)
    <3>0. T = {}
      OBVIOUS
    <3>1. T = {} /\ Cardinality(T) = 0
      BY <3>0, FS_EmptySet, Zenon
    <3> DEFINE f == [k \in 1 .. Cardinality(T) |-> 0]
    <3>2. 1 .. Cardinality(T) = {}
      BY <3>1
    <3>3. f \in [1 .. Cardinality(T) -> T]
      BY <3>2
    <3>4. Enumerates(f, T)
      BY <3>1, <3>2, <3>3 DEF Enumerates
    <3> QED
      BY <3>4
  <2> QED
    BY <2>1
<1>2. ASSUME NEW m \in Nat, \A T \in SUBSET (1 .. m) : Good(T),
             NEW T \in SUBSET (1 .. m + 1)
      PROVE  Good(T)
  <2>1. CASE m + 1 \notin T
    <3>1. T \in SUBSET (1 .. m)
      BY <2>1
    <3> QED
      BY <1>2, <3>1
  <2>2. CASE m + 1 \in T
    <3>1. T \ {m + 1} \in SUBSET (1 .. m) /\ T = (T \ {m + 1}) \cup {m + 1}
      BY <2>2
    <3> HIDE DEF Good
    <3>2. Good(T \ {m + 1})
      BY <1>2, <3>1
    <3>3. PICK f : Enumerates(f, T \ {m + 1})
      BY <3>2 DEF Good
    <3>4. Good((T \ {m + 1}) \cup {m + 1})
      BY <3>1, <3>3, EnumerateNext DEF Good
    <3> QED
      BY <3>1, <3>4
  <2> QED
    BY <2>1, <2>2
<1> HIDE DEF Good
<1>3. ASSUME Bad # {} PROVE FALSE
  <2>1. PICK m \in Bad : \A k \in Bad : m <= k
    BY <1>3, Least
  <2>2. m # 0
    BY <1>1, <2>1
  <2>3. m - 1 \in Nat /\ m - 1 \notin Bad /\ (m - 1) + 1 = m
    BY <2>1, <2>2
  <2>4. \A T \in SUBSET (1 .. m - 1) : Good(T)
    BY <2>3
  <2> QED
    BY <1>2, <2>1, <2>3, <2>4
<1> QED
  BY <1>3 DEF Good

LEMMA InOrderShape ==
  ASSUME NEW n \in Nat, NEW S \in SUBSET (1 .. n)
  PROVE  /\ Cardinality(S) \in Nat
         /\ Enumerates(InOrder(S), S)
<1>1. PICK f : Enumerates(f, S)
  BY Enumerable
<1> QED
  BY <1>1, Positions DEF Enumerates, InOrder

LEMMA WithoutShape ==
  ASSUME NEW S, NEW l \in Seq(S), NEW id
  PROVE  /\ Without(l, id) \in Seq(S)
         /\ \E f \in [1 .. Len(Without(l, id)) -> 1 .. Len(l)] :
              /\ \A j, k \in 1 .. Len(Without(l, id)) : j < k => f[j] < f[k]
              /\ \A k \in 1 .. Len(Without(l, id)) :
                   Without(l, id)[k] = l[f[k]] /\ l[f[k]].id # id
              /\ \A i \in 1 .. Len(l) : l[i].id # id =>
                   \E k \in 1 .. Len(Without(l, id)) : f[k] = i
<1> DEFINE kept == {i \in 1 .. Len(l) : l[i].id # id}
           m == Cardinality(kept)
           f == InOrder(kept)
           w == [k \in 1 .. m |-> l[f[k]]]
<1>1. Len(l) \in Nat /\ \A i \in 1 .. Len(l) : l[i] \in S
  OBVIOUS
<1>2. kept \in SUBSET (1 .. Len(l)) /\ \A i : i \in kept <=> i \in 1 .. Len(l) /\ l[i].id # id
  OBVIOUS
<1> HIDE DEF kept
<1>3. m \in Nat /\ Enumerates(f, kept)
  BY <1>1, <1>2, InOrderShape
<1>4. /\ f \in [1 .. m -> kept]
      /\ \A j, k \in 1 .. m : j < k => f[j] < f[k]
      /\ \A i \in kept : \E k \in 1 .. m : f[k] = i
  BY <1>3 DEF Enumerates
<1>5. Without(l, id) = w
  BY DEF Without, kept
<1> HIDE DEF m, f
<1>6. w \in Seq(S) /\ Len(w) = m /\ \A k \in 1 .. m : w[k] = l[f[k]]
  BY <1>1, <1>2, <1>3, <1>4
<1> HIDE DEF w
<1>7. f \in [1 .. m -> 1 .. Len(l)] /\ \A k \in 1 .. m : l[f[k]].id # id
  BY <1>2, <1>4
<1> QED
  BY <1>2, <1>4, <1>5, <1>6, <1>7


------------------------------------------------------------------------------
(* Types. *)
LEMMA Basics ==
  /\ MaxClients \in Nat
  /\ \A c \in Clients : c \in Nat /\ c # 0 /\ c \in 0 .. MaxClients
  /\ \A c \in Clients : Id(c) \in Clients /\ Id(c) \in 0 .. MaxClients
<1>1. MaxClients \in Nat
  BY ListenerAssumption
<1>2. \A c \in Clients : c \in Nat /\ c # 0 /\ c \in 0 .. MaxClients /\ Id(c) \in Clients
  BY <1>1 DEF Clients, Id
<1> QED
  BY <1>1, <1>2

LEMMA AcceptedType ==
  ASSUME TypeOK
  PROVE  /\ next \in Nat /\ next >= 1
         /\ Accepted \subseteq Clients
         /\ \A c \in Clients : c \in Accepted <=> c < next
         /\ KnownIds \subseteq Clients
<1>1. next \in 1 .. MaxClients + 1 /\ MaxClients \in Nat
  BY Basics DEF TypeOK
<1> QED
  BY <1>1, Basics DEF Accepted, Clients, KnownIds

(* Saying something to the session: at most one event more, or none at all *)
(* once its tab is closed.                                                 *)
LEMMA TellShape ==
  ASSUME TypeOK, NEW ev \in {"ClientJoined", "ClientLeft", "In", "Out", "Error"},
         NEW id \in 0 .. MaxClients, NEW c \in 0 .. MaxClients, Tell(ev, id, c)
  PROVE  /\ events' \in Seq(Event)
         /\ events' \in {<<>>, Append(events, [ev |-> ev, id |-> id, peer |-> c])}
<1>1. [ev |-> ev, id |-> id, peer |-> c] \in Event /\ events \in Seq(Event)
  BY DEF Event, TypeOK
<1> QED
  BY <1>1 DEF Tell

LEMMA TypeInit == Init => TypeOK
<1> SUFFICES ASSUME Init PROVE TypeOK
  OBVIOUS
<1>1. /\ protocol \in Protocols /\ status \in {"Listening", "Error"} /\ open \in BOOLEAN
      /\ server \in {"run", "closed", "failed"}
  BY DEF Init
<1>2. /\ list \in Seq([id : Clients, peer : Clients, in : Nat, out : Nat])
      /\ sent \in Seq(Message) /\ events \in Seq(Event) /\ cmds \in Seq(1 .. Len(sent))
  BY DEF Init
<1>3. /\ selected \in 0 .. MaxClients /\ accepting \in 0 .. MaxClients
      /\ peer \in 0 .. MaxClients /\ next \in 1 .. MaxClients + 1 /\ map \subseteq Clients
  BY Basics DEF Init
<1>4. /\ client \in [Clients -> {"none", "serving", "ending", "removed", "left", "lost"}]
      /\ read \in [Clients -> Nat]
  BY DEF Init
<1>5. queue \in [Clients -> Seq(1 .. Len(sent))]
  BY DEF Init
<1>6. received \in [Clients -> Seq(1 .. Len(sent))]
  BY DEF Init
<1> QED
  BY <1>1, <1>2, <1>3, <1>4, <1>5, <1>6 DEF TypeOK

LEMMA EndsType ==
  ASSUME TypeOK, NEW as \in {"closed", "failed"}, Ends(as)
  PROVE  /\ server' = as /\ server' \in {"run", "closed", "failed"} /\ cmds' = <<>> /\ peer' = 0
         /\ client' \in [Clients -> {"none", "serving", "ending", "removed", "left", "lost"}]
         /\ \A c \in Clients :
              client'[c] = IF protocol = "ws" /\ c \in {peer, accepting} THEN "lost" ELSE client[c]
BY DEF Ends, TypeOK

LEMMA FailsType ==
  ASSUME TypeOK, Fails
  PROVE  Ends("failed") /\ events' \in Seq(Event)
<1>1. 0 \in 0 .. MaxClients
  BY Basics
<1> QED
  BY <1>1, TellShape DEF Fails, TellError

LEMMA EndsTyped ==
  ASSUME TypeOK, NEW as \in {"closed", "failed"}, Ends(as),
         events' \in Seq(Event), accepting' \in 0 .. MaxClients,
         UNCHANGED <<session, protocol, next, map, queue, read, received>>
  PROVE  TypeOK'
<1>1. UNCHANGED <<list, selected, status, open, sent>>
  BY DEF session
<1>2. cmds' \in Seq(1 .. Len(sent'))
  <2>1. cmds' = <<>>
    BY EndsType
  <2> QED
    BY <2>1
<1>3. 0 \in 0 .. MaxClients
  BY Basics
<1>4. queue' \in [Clients -> Seq(1 .. Len(sent'))] /\ received' \in [Clients -> Seq(1 .. Len(sent'))]
  <2>1. queue \in [Clients -> Seq(1 .. Len(sent))] /\ received \in [Clients -> Seq(1 .. Len(sent))]
    BY DEF TypeOK
  <2> QED
    BY <1>1, <2>1
<1>5. /\ server' \in {"run", "closed", "failed"} /\ peer' \in 0 .. MaxClients
      /\ client' \in [Clients -> {"none", "serving", "ending", "removed", "left", "lost"}]
  BY <1>3, EndsType
<1>6. /\ protocol' \in Protocols
      /\ list' \in Seq([id : Clients, peer : Clients, in : Nat, out : Nat])
      /\ selected' \in 0 .. MaxClients /\ status' \in {"Listening", "Error"} /\ open' \in BOOLEAN
      /\ sent' \in Seq(Message) /\ next' \in 1 .. MaxClients + 1 /\ map' \subseteq Clients
      /\ read' \in [Clients -> Nat]
  BY <1>1 DEF TypeOK
<1> QED
  BY <1>2, <1>4, <1>5, <1>6 DEF TypeOK

LEMMA Elements ==
  ASSUME TypeOK
  PROVE  /\ \A i \in 1 .. Len(list) :
              list[i] \in [id : Clients, peer : Clients, in : Nat, out : Nat]
         /\ \A i \in 1 .. Len(list) : list[i].id \in Clients /\ list[i].peer \in Clients
         /\ Peers(list) \subseteq Clients
<1> DEFINE Listed == [id : Clients, peer : Clients, in : Nat, out : Nat]
<1>1. list \in Seq(Listed)
  BY DEF TypeOK
<1>2. \A r \in Listed : r.id \in Clients /\ r.peer \in Clients
  OBVIOUS
<1> HIDE DEF Listed
<1>3. \A i \in 1 .. Len(list) : list[i] \in Listed
  BY <1>1
<1> QED
  BY <1>2, <1>3 DEF Peers, Listed

(* What the session does with an event. *)
LEMMA TypeHandled ==
  ASSUME TypeOK, EventsKnown, HandleEvent
  PROVE  TypeOK'
<1> USE DEF loop, tasks
<1> DEFINE Listed == [id : Clients, peer : Clients, in : Nat, out : Nat]
           e == Head(events)
<1>1. /\ list \in Seq(Listed) /\ events # <<>> /\ events \in Seq(Event)
      /\ selected \in 0 .. MaxClients /\ status \in {"Listening", "Error"}
  BY DEF HandleEvent, TypeOK
<1>2. /\ events' \in Seq(Event) /\ e \in Event /\ e = events[1] /\ 1 \in 1 .. Len(events)
      /\ e.id \in 0 .. MaxClients
  <2>1. /\ Tail(events) \in Seq(Event) /\ e \in Event /\ e = events[1] /\ 1 \in 1 .. Len(events)
    BY <1>1
  <2> HIDE DEF e
  <2> QED
    BY <2>1 DEF Event, HandleEvent
<1> SUFFICES list' \in Seq(Listed) /\ selected' \in 0 .. MaxClients /\ status' \in {"Listening", "Error"}
  BY <1>2 DEF HandleEvent, TypeOK
<1>3. CASE e.ev = "ClientJoined" /\ Joined(e)
  <2>1. e.peer \in Clients /\ e.id \in Clients
    BY <1>2, <1>3, Basics, AcceptedType DEF EventsKnown
  <2> HIDE DEF e
  <2> DEFINE r == [id |-> e.id, peer |-> e.peer, in |-> 0, out |-> 0]
  <2>2. r \in Listed
    BY <2>1
  <2>3. list' = Append(list, r)
    BY <1>3 DEF Joined, AddedTo
  <2> HIDE DEF r, Listed
  <2>4. list' \in Seq(Listed)
    BY <1>1, <2>2, <2>3
  <2> QED
    BY <1>1, <1>2, <1>3, <2>4 DEF Joined
<1>4. CASE e.ev = "ClientLeft" /\ Left(e.id)
  <2> HIDE DEF e, Listed
  <2>1. list' = Without(list, e.id) /\ UNCHANGED status
    BY <1>4 DEF Left
  <2>2. list' \in Seq(Listed)
    BY <1>1, <2>1, WithoutShape
  <2>3. list' # <<>> => list'[1] \in Listed
    BY <2>2
  <2>4. list' # <<>> => list'[1].id \in 0 .. MaxClients
    BY <2>3, Basics DEF Listed
  <2>5. 0 \in 0 .. MaxClients
    BY Basics
  <2> QED
    BY <1>1, <1>4, <2>1, <2>2, <2>4, <2>5 DEF Left
<1>5. CASE e.ev \in {"In", "Out"} /\ Counted(e.ev, e.peer)
  <2> HIDE DEF e
  <2>1. \A r \in Listed : [r EXCEPT !.in = @ + 1] \in Listed /\ [r EXCEPT !.out = @ + 1] \in Listed
    OBVIOUS
  <2> HIDE DEF Listed
  <2>2. Len(list) \in Nat /\ \A i \in 1 .. Len(list) : list[i] \in Listed
    BY <1>1
  <2>3. list' \in Seq(Listed)
    BY <1>5, <2>1, <2>2 DEF Counted
  <2> QED
    BY <1>1, <1>5, <2>3 DEF Counted
<1>6. CASE e.ev = "Error" /\ status' = "Error" /\ UNCHANGED <<list, selected>>
  BY <1>1, <1>6
<1> QED
  BY <1>3, <1>4, <1>5, <1>6 DEF HandleEvent

LEMMA TypeNext ==
  ASSUME TypeOK, EventsKnown, [Next]_vars
  PROVE  TypeOK'
<1> USE DEF session, loop, tasks
<1> DEFINE States == {"none", "serving", "ending", "removed", "left", "lost"}
<1>0. /\ cmds \in Seq(1 .. Len(sent)) /\ next \in Nat /\ 0 \in 0 .. MaxClients
      /\ \A c \in Clients : c \in 0 .. MaxClients
  BY Basics, AcceptedType DEF TypeOK
<1>1. ASSUME NEW all \in BOOLEAN, SendComposer(all) PROVE TypeOK'
  <2> DEFINE m == IF all THEN [all |-> TRUE, to |-> 0, seen |-> Peers(list)]
                  ELSE [all |-> FALSE, to |-> selected, seen |-> {}]
             n == Len(sent)
  <2>1. Peers(list) \subseteq Clients
    BY Elements
  <2>2. m \in Message /\ sent \in Seq(Message) /\ n \in Nat
    BY <1>0, <2>1 DEF Message, TypeOK
  <2>3. sent' = Append(sent, m) /\ cmds' \in {cmds, Append(cmds, n + 1)}
    BY <1>1 DEF SendComposer
  <2> HIDE DEF m
  <2>4. sent' \in Seq(Message) /\ Len(sent') = n + 1
    BY <2>2, <2>3
  <2>5. 1 .. n \subseteq 1 .. Len(sent') /\ n + 1 \in 1 .. Len(sent')
    BY <2>2, <2>4
  <2> DEFINE U == 1 .. Len(sent')
             V == 1 .. n
  <2>6. cmds \in Seq(V) /\ queue \in [Clients -> Seq(V)] /\ received \in [Clients -> Seq(V)]
    BY DEF TypeOK
  <2> HIDE DEF n, U, V
  <2>7. V \subseteq U /\ n + 1 \in U
    BY <2>5 DEF U, V, n
  <2>8. \A s \in Seq(V) : s \in Seq(U)
    BY <2>7
  <2>9. cmds' \in Seq(U)
    <3>1. cmds \in Seq(U)
      BY <2>6, <2>8
    <3>2. Append(cmds, n + 1) \in Seq(U)
      BY <2>7, <3>1
    <3> QED
      BY <2>3, <3>1, <3>2
  <2>10. queue' \in [Clients -> Seq(U)] /\ received' \in [Clients -> Seq(U)]
    BY <1>1, <2>6, <2>8 DEF SendComposer
  <2> QED
    BY <1>1, <2>4, <2>9, <2>10 DEF SendComposer, TypeOK, U
<1>2. ASSUME NEW i \in 1 .. Len(list), SelectClient(i) PROVE TypeOK'
  <2>1. list[i].id \in 0 .. MaxClients
    BY <1>0, Elements
  <2> QED
    BY <1>2, <2>1 DEF SelectClient, TypeOK
<1>3. CASE CloseTab
  <2>1. list' = <<>> /\ events' = <<>> /\ selected' \in 0 .. MaxClients /\ open' = FALSE
    BY <1>0, <1>3 DEF CloseTab
  <2>2. list' \in Seq([id : Clients, peer : Clients, in : Nat, out : Nat]) /\ events' \in Seq(Event)
    BY <2>1
  <2> QED
    BY <1>3, <2>1, <2>2 DEF CloseTab, TypeOK
<1>4. CASE HandleEvent
  BY <1>4, TypeHandled
<1>5. CASE Accept
  <2>1. next \in 1 .. MaxClients /\ next \in Clients
    BY <1>0, <1>5, AcceptedType, Basics DEF Accept, Clients
  <2>2. Id(next) \in 0 .. MaxClients /\ next \in 0 .. MaxClients
    BY <2>1, Basics
  <2>3. events' \in Seq(Event)
    BY <1>5, <2>2, TellShape DEF Accept, TellJoined
  <2>4. next' \in 1 .. MaxClients + 1
    BY <1>5, <2>1, Basics DEF Accept
  <2> QED
    BY <1>5, <2>2, <2>3, <2>4 DEF Accept, TypeOK
<1>6. CASE Register
  <2>1. accepting \in Clients
    BY <1>6, Basics DEF Register, TypeOK, Clients
  <2> QED
    BY <1>0, <1>6, <2>1 DEF Register, TypeOK
<1>7. CASE AcceptFails
  BY <1>7, FailsType, EndsTyped DEF AcceptFails, TypeOK
<1>8. CASE Command
  <2>1. CASE Fails /\ UNCHANGED queue
    BY <1>8, <2>1, FailsType, EndsTyped DEF Command, TypeOK
  <2>2. ASSUME NEW to,
               queue' = [c \in Clients |->
                          IF c \in to /\ client[c] = "serving"
                          THEN Append(queue[c], Head(cmds)) ELSE queue[c]],
               cmds' = Tail(cmds), UNCHANGED <<events, server, peer, client>>
        PROVE  TypeOK'
    <3> DEFINE U == 1 .. Len(sent)
    <3>1. cmds \in Seq(U) /\ cmds # <<>> /\ queue \in [Clients -> Seq(U)]
      BY <1>8 DEF Command, TypeOK
    <3> HIDE DEF U
    <3>2. Head(cmds) \in U /\ Tail(cmds) \in Seq(U)
      BY <3>1
    <3>3. queue' \in [Clients -> Seq(U)]
      BY <2>2, <3>1, <3>2
    <3> QED
      BY <1>8, <2>2, <3>2, <3>3 DEF Command, TypeOK, U
  <2> QED
    BY <1>8, <2>1, <2>2 DEF Command
<1>9. CASE EndOfCommands
  BY <1>9, EndsTyped DEF EndOfCommands, TypeOK
<1>10. ASSUME NEW c \in Clients, ClientStep(c) PROVE TypeOK'
  <2>1. CASE Read(c)
    <3>1. events' \in Seq(Event)
      BY <1>0, <2>1, TellShape DEF Read, TellFrame
    <3> QED
      BY <2>1, <3>1 DEF Read, TypeOK
  <2>2. CASE Write(c)
    <3>1. events' \in Seq(Event)
      BY <1>0, <2>2, TellShape DEF Write, TellFrame
    <3> DEFINE U == 1 .. Len(sent)
    <3>2. queue \in [Clients -> Seq(U)] /\ received \in [Clients -> Seq(U)] /\ queue[c] # <<>>
      BY <2>2 DEF Write, TypeOK
    <3> HIDE DEF U
    <3>3. Head(queue[c]) \in U /\ Tail(queue[c]) \in Seq(U)
      BY <3>2
    <3>4. queue' \in [Clients -> Seq(U)] /\ received' \in [Clients -> Seq(U)]
      BY <2>2, <3>2, <3>3 DEF Write
    <3> QED
      BY <2>2, <3>1, <3>4 DEF Write, TypeOK, U
  <2>3. CASE ClientEnds(c)
    BY <2>3 DEF ClientEnds, TypeOK
  <2>4. CASE Deregister(c)
    BY <2>4 DEF Deregister, TypeOK
  <2>5. CASE AnnounceLeft(c)
    <3>1. events' \in Seq(Event)
      BY <1>0, <2>5, TellShape, Basics DEF AnnounceLeft, TellLeft
    <3> QED
      BY <2>5, <3>1 DEF AnnounceLeft, TypeOK
  <2> QED
    BY <1>10, <2>1, <2>2, <2>3, <2>4, <2>5 DEF ClientStep
<1>11. CASE ServeOne
  <2>1. CASE Handshake
    <3>1. CASE Fails
      BY <1>0, <2>1, <3>1, FailsType, EndsTyped DEF Handshake
    <3>2. CASE /\ peer' = accepting
               /\ client' = [client EXCEPT ![accepting] = "serving"]
               /\ UNCHANGED <<events, cmds, server>>
      BY <1>0, <2>1, <3>2 DEF Handshake, TypeOK
    <3> QED
      BY <2>1, <3>1, <3>2 DEF Handshake
  <2>2. CASE DropCommand
    <3>1. cmds' \in Seq(1 .. Len(sent))
      BY <1>0, <2>2 DEF DropCommand
    <3> QED
      BY <2>2, <3>1 DEF DropCommand, TypeOK
  <2>3. CASE WebSocketLeaves \/ WebSocketLost
    <3>1. peer \in Clients
      BY <2>3, Basics DEF WebSocketLeaves, WebSocketLost, ServingWebSocket, TypeOK, Clients
    <3>2. events' \in Seq(Event)
      BY <1>0, <2>3, <3>1, TellShape, Basics
      DEF WebSocketLeaves, WebSocketLost, TellLeft, TellError
    <3>3. \E as \in {"left", "lost"} : WebSocketEnds(as)
      BY <2>3 DEF WebSocketLeaves, WebSocketLost
    <3> QED
      BY <1>0, <3>2, <3>3 DEF WebSocketEnds, TypeOK
  <2>4. CASE ReadWebSocket
    <3>1. events' \in Seq(Event)
      BY <1>0, <2>4, TellShape DEF ReadWebSocket, TellFrame, TypeOK
    <3>2. read' \in [Clients -> Nat]
      <4>1. read' = [read EXCEPT ![peer] = read[peer] + 1]
        BY <2>4 DEF ReadWebSocket
      <4>2. read \in [Clients -> Nat] /\ peer \in 0 .. MaxClients
        BY DEF TypeOK
      <4>3. peer # 0
        BY <2>4 DEF ReadWebSocket, ServingWebSocket
      <4>4. peer \in Clients
        BY <4>2, <4>3, Basics DEF Clients
      <4> QED
        BY <4>1, <4>2, <4>4
    <3>3. UNCHANGED <<protocol, list, selected, status, open, sent, cmds, server, accepting, peer,
                      next, map, client, queue, received>>
      BY <2>4 DEF ReadWebSocket
    <3> QED
      BY <3>1, <3>2, <3>3 DEF TypeOK
  <2>5. ASSUME NEW c \in Clients, ReadDatagram(c) PROVE TypeOK'
    <3>1. events' \in Seq(Event)
      BY <1>0, <2>5, TellShape DEF ReadDatagram, TellFrame
    <3> QED
      BY <1>0, <2>5, <3>1 DEF ReadDatagram, TypeOK
  <2>6. CASE DatagramFails
    <3>1. events' \in Seq(Event)
      BY <1>0, <2>6, TellShape DEF DatagramFails, TellError
    <3> QED
      BY <2>6, <3>1, EndsTyped DEF DatagramFails, TypeOK
  <2>7. CASE NobodyToReplyTo
    <3>1. events' \in Seq(Event)
      BY <1>0, <2>7, TellShape DEF NobodyToReplyTo, TellError
    <3>2. cmds' \in Seq(1 .. Len(sent))
      BY <1>0, <2>7 DEF NobodyToReplyTo
    <3> QED
      BY <2>7, <3>1, <3>2 DEF NobodyToReplyTo, TypeOK
  <2>8. CASE Reply
    <3>1. CASE Fails /\ UNCHANGED received
      BY <2>8, <3>1, FailsType, EndsTyped DEF Reply, TypeOK
    <3>2. CASE /\ received' = [received EXCEPT ![peer] = Append(@, Head(cmds))]
               /\ cmds' = Tail(cmds)
               /\ TellFrame("Out", peer)
               /\ UNCHANGED <<server, peer, client>>
      <4>1. peer \in Clients /\ peer \in 0 .. MaxClients
        BY <2>8, Basics DEF Reply, TypeOK, Clients
      <4>2. events' \in Seq(Event)
        BY <1>0, <3>2, <4>1, TellShape DEF TellFrame
      <4> DEFINE U == 1 .. Len(sent)
      <4>3. cmds \in Seq(U) /\ cmds # <<>> /\ received \in [Clients -> Seq(U)]
        BY <2>8 DEF Reply, TypeOK
      <4> HIDE DEF U
      <4>4. Head(cmds) \in U /\ Tail(cmds) \in Seq(U)
        BY <4>3
      <4>5. received' \in [Clients -> Seq(U)]
        BY <3>2, <4>1, <4>3, <4>4
      <4>6. UNCHANGED <<protocol, list, selected, status, open, sent, server, peer, client,
                        accepting, next, map, queue, read>>
        BY <2>8, <3>2 DEF Reply
      <4>7. cmds' \in Seq(U)
        BY <3>2, <4>4
      <4> QED
        BY <4>2, <4>5, <4>6, <4>7 DEF TypeOK, U
    <3> QED
      BY <2>8, <3>1, <3>2 DEF Reply
  <2> QED
    BY <1>11, <2>1, <2>2, <2>3, <2>4, <2>5, <2>6, <2>7, <2>8 DEF ServeOne
<1>12. CASE UNCHANGED vars
  BY <1>12 DEF vars, TypeOK
<1> QED
  BY <1>1, <1>2, <1>3, <1>4, <1>5, <1>6, <1>7, <1>8, <1>9, <1>10, <1>11, <1>12
  DEF Next, UserStep, Serve

------------------------------------------------------------------------------
(* What is known of events, of the list and of what was sent. *)
LEMMA Kinds == ASSUME TypeOK PROVE protocol \in {"map", "ws", "udp"}
BY ListenerAssumption DEF TypeOK

LEMMA Steady ==
  ASSUME TypeOK, [Next]_vars
  PROVE  /\ protocol' = protocol /\ KnownIds' = KnownIds
         /\ next' \in {next, next + 1}
         /\ Accepted \subseteq Accepted'
         /\ next' = next + 1 => next \in Accepted'
<1>1. protocol' = protocol
  BY DEF Next, UserStep, SendComposer, SelectClient, CloseTab, HandleEvent, Serve, Accept, Register,
         AcceptFails, Command, EndOfCommands, ClientStep, Read, Write, ClientEnds, Deregister,
         AnnounceLeft, ServeOne, Handshake, DropCommand, WebSocketLeaves, WebSocketLost,
         WebSocketEnds, ReadWebSocket, ReadDatagram, DatagramFails, NobodyToReplyTo, Reply,
         vars, session, loop, tasks
<1>2. next' \in {next, next + 1}
  BY DEF Next, UserStep, SendComposer, SelectClient, CloseTab, HandleEvent, Serve, Accept, Register,
         AcceptFails, Command, EndOfCommands, ClientStep, Read, Write, ClientEnds, Deregister,
         AnnounceLeft, ServeOne, Handshake, DropCommand, WebSocketLeaves, WebSocketLost,
         WebSocketEnds, ReadWebSocket, ReadDatagram, DatagramFails, NobodyToReplyTo, Reply,
         vars, session, loop, tasks
<1>3. KnownIds' = KnownIds
  BY <1>1 DEF KnownIds, Id
<1>4. next \in Nat /\ next >= 1
  BY AcceptedType
<1>5. Accepted \subseteq Accepted' /\ (next' = next + 1 => next \in Accepted')
  <2>1. CASE next' = next
    BY <1>4, <2>1 DEF Accepted
  <2>2. CASE next' = next + 1
    BY <1>4, <2>2 DEF Accepted
  <2> QED
    BY <1>2, <2>1, <2>2
<1> QED
  BY <1>1, <1>2, <1>3, <1>5

(* A client that left is known by its id, and one that joins is the next.  *)
EventsMove ==
  \/ events' \in {events, <<>>}
  \/ events # <<>> /\ events' = Tail(events)
  \/ \E ev \in {"ClientJoined", "ClientLeft", "In", "Out", "Error"},
        id \in 0 .. MaxClients, c \in 0 .. MaxClients :
       /\ Tell(ev, id, c)
       /\ ev = "ClientJoined" => c = next /\ next' = next + 1 /\ id = Id(next)
       /\ ev = "ClientLeft" => id \in KnownIds

LEMMA EventsChange ==
  ASSUME TypeOK, Stages, [Next]_vars
  PROVE  EventsMove
<1> USE DEF session, loop, tasks
<1>0. /\ 0 \in 0 .. MaxClients /\ peer \in 0 .. MaxClients /\ protocol \in {"map", "ws", "udp"}
      /\ \A c \in Clients : c \in 0 .. MaxClients /\ Id(c) \in 0 .. MaxClients
      /\ protocol # "udp" => \A c \in Clients : Id(c) \in KnownIds
  BY Kinds, Basics DEF TypeOK, KnownIds
<1>1. ASSUME NEW c \in 0 .. MaxClients, TellFrame("In", c) \/ TellFrame("Out", c) PROVE EventsMove
  BY <1>0, <1>1 DEF TellFrame, EventsMove
<1>2. ASSUME NEW c \in Clients, TellLeft(c), protocol # "udp" PROVE EventsMove
  BY <1>0, <1>2 DEF TellLeft, EventsMove
<1>3. ASSUME TellError PROVE EventsMove
  BY <1>0, <1>3 DEF TellError, EventsMove
<1>4. CASE events' = events
  BY <1>4 DEF EventsMove
<1>5. CASE UserStep
  BY <1>4, <1>5 DEF UserStep, SendComposer, SelectClient, CloseTab, EventsMove
<1>6. CASE HandleEvent
  BY <1>6 DEF HandleEvent, EventsMove
<1>7. CASE Accept
  <2>1. next \in Clients
    BY <1>7, AcceptedType DEF Accept, Clients
  <2>2. Tell("ClientJoined", Id(next), next) /\ next' = next + 1
    BY <1>7 DEF Accept, TellJoined
  <2> QED
    BY <1>0, <2>1, <2>2 DEF EventsMove
<1>8. CASE Register \/ EndOfCommands \/ DropCommand \/ UNCHANGED vars
  BY <1>4, <1>8 DEF Register, EndOfCommands, DropCommand, vars
<1>9. CASE AcceptFails \/ Command \/ Handshake
  BY <1>3, <1>4, <1>9 DEF AcceptFails, Command, Handshake, Fails
<1>10. ASSUME NEW c \in Clients, ClientStep(c) PROVE EventsMove
  <2>1. CASE Read(c) \/ Write(c)
    BY <1>0, <1>1, <2>1 DEF Read, Write
  <2>2. CASE ClientEnds(c) \/ Deregister(c)
    BY <1>4, <2>2 DEF ClientEnds, Deregister
  <2>3. CASE AnnounceLeft(c)
    <3>1. protocol # "udp"
      BY <2>3 DEF AnnounceLeft, Stages, DatagramStages
    <3> QED
      BY <1>2, <2>3, <3>1 DEF AnnounceLeft
  <2> QED
    BY <1>10, <2>1, <2>2, <2>3 DEF ClientStep
<1>11. CASE WebSocketLeaves
  <2>1. peer \in Clients
    BY <1>0, <1>11, Basics DEF WebSocketLeaves, ServingWebSocket, Clients
  <2> QED
    BY <1>2, <1>11, <2>1 DEF WebSocketLeaves, ServingWebSocket
<1>12. CASE WebSocketLost \/ DatagramFails \/ NobodyToReplyTo
  BY <1>3, <1>12 DEF WebSocketLost, DatagramFails, NobodyToReplyTo
<1>13. CASE ReadWebSocket
  BY <1>0, <1>1, <1>13 DEF ReadWebSocket
<1>14. CASE Reply
  BY <1>0, <1>1, <1>3, <1>14 DEF Reply, Fails
<1>15. ASSUME NEW c \in Clients, ReadDatagram(c) PROVE EventsMove
  BY <1>0, <1>1, <1>15 DEF ReadDatagram
<1> QED
  BY <1>5, <1>6, <1>7, <1>8, <1>9, <1>10, <1>11, <1>12, <1>13, <1>14, <1>15 DEF Next, Serve, ServeOne

LEMMA EventsKnownNext ==
  ASSUME TypeOK, EventsKnown, Stages, [Next]_vars
  PROVE  EventsKnown'
<1> DEFINE Good(e) ==
             /\ e.ev = "ClientJoined" => e.peer \in Accepted' /\ e.id = Id(e.peer)
             /\ e.ev = "ClientLeft" => e.id \in KnownIds
<1>1. \A k \in 1 .. Len(events) : Good(events[k])
  BY Steady DEF EventsKnown
<1>2. (\A k \in 1 .. Len(events') : Good(events'[k])) => EventsKnown'
  BY Steady DEF EventsKnown, Id
<1>3. events \in Seq(Event)
  BY DEF TypeOK
<1> HIDE DEF Good
<1>4. CASE events' = <<>>
  BY <1>2, <1>4
<1>5. CASE events' = events
  BY <1>1, <1>2, <1>5
<1>6. CASE events # <<>> /\ events' = Tail(events)
  <2>1. \A k \in 1 .. Len(events') : k + 1 \in 1 .. Len(events) /\ events'[k] = events[k + 1]
    BY <1>3, <1>6
  <2> QED
    BY <1>1, <1>2, <2>1
<1>7. ASSUME NEW ev \in {"ClientJoined", "ClientLeft", "In", "Out", "Error"},
             NEW id \in 0 .. MaxClients, NEW c \in 0 .. MaxClients,
             Tell(ev, id, c),
             ev = "ClientJoined" => c = next /\ next' = next + 1 /\ id = Id(next),
             ev = "ClientLeft" => id \in KnownIds
      PROVE  EventsKnown'
  <2> DEFINE e == [ev |-> ev, id |-> id, peer |-> c]
  <2>1. Good(e)
    BY <1>7, Steady DEF Good
  <2>2. e \in Event
    BY DEF Event
  <2>3. events' \in {<<>>, Append(events, e)}
    BY <1>7 DEF Tell
  <2> HIDE DEF e
  <2>4. \A k \in 1 .. Len(Append(events, e)) :
          IF k \in 1 .. Len(events) THEN Append(events, e)[k] = events[k]
          ELSE Append(events, e)[k] = e
    BY <1>3, <2>2
  <2>5. CASE events' = Append(events, e)
    BY <1>1, <1>2, <2>1, <2>4, <2>5
  <2> QED
    BY <1>4, <2>3, <2>5
<1> QED
  BY <1>4, <1>5, <1>6, <1>7, EventsChange DEF EventsMove

LEMMA ListKnownNext ==
  ASSUME TypeOK, Known, Stages, [Next]_vars
  PROVE  ListKnown'
<1> USE DEF session, loop, tasks
<1> DEFINE Listed == [id : Clients, peer : Clients, in : Nat, out : Nat]
           Good(r) == r.peer \in Accepted /\ r.id = Id(r.peer)
           Chosen == KnownIds \cup {0}
           e == Head(events)
<1>1. (\A i \in 1 .. Len(list) : Good(list[i])) /\ selected \in Chosen
  BY DEF Known, ListKnown
<1>2. (\A i \in 1 .. Len(list') : Good(list'[i])) /\ selected' \in Chosen => ListKnown'
  BY Steady DEF ListKnown, Id
<1>3. list \in Seq(Listed) /\ events \in Seq(Event)
  BY DEF TypeOK
<1>4. \A r : Good(r) => r.id \in Chosen
  <2>1. \A c \in Accepted : Id(c) \in KnownIds
    <3>1. protocol = "udp" => next = 1
      BY DEF Stages, DatagramStages
    <3>2. protocol = "udp" => Accepted = {}
      BY <3>1 DEF Accepted
    <3> QED
      BY <3>2, AcceptedType DEF KnownIds
  <2> QED
    BY <2>1
<1> HIDE DEF Good, Chosen, Listed
<1>5. CASE UNCHANGED <<list, selected>>
  BY <1>1, <1>2, <1>5
<1>6. ASSUME NEW i \in 1 .. Len(list), SelectClient(i) PROVE ListKnown'
  BY <1>1, <1>2, <1>4, <1>6 DEF SelectClient
<1>7. CASE CloseTab
  BY <1>2, <1>7 DEF CloseTab, Chosen
<1>8. CASE HandleEvent
  <2>1. e = events[1] /\ 1 \in 1 .. Len(events)
    BY <1>3, <1>8 DEF HandleEvent
  <2>2. e.ev = "ClientJoined" => e.peer \in Accepted /\ e.id = Id(e.peer)
    BY <2>1 DEF Known, EventsKnown
  <2> HIDE DEF e
  <2>3. CASE e.ev = "ClientJoined" /\ Joined(e)
    <3> DEFINE r == [id |-> e.id, peer |-> e.peer, in |-> 0, out |-> 0]
    <3>1. Good(r) /\ r \in Listed /\ e.id = r.id
      BY <2>2, <2>3, AcceptedType, Basics DEF Good, Listed
    <3>2. list' = Append(list, r) /\ selected' \in {selected, e.id}
      BY <2>3 DEF Joined, AddedTo
    <3> HIDE DEF r
    <3>3. \A i \in 1 .. Len(list') : list'[i] = r \/ (i \in 1 .. Len(list) /\ list'[i] = list[i])
      BY <1>3, <3>1, <3>2
    <3> QED
      BY <1>1, <1>2, <1>4, <3>1, <3>2, <3>3
  <2>4. CASE e.ev = "ClientLeft" /\ Left(e.id)
    <3>1. list' = Without(list, e.id)
      BY <2>4 DEF Left
    <3>2. /\ list' \in Seq(Listed)
          /\ \A k \in 1 .. Len(list') : \E i \in 1 .. Len(list) : list'[k] = list[i]
      BY <1>3, <3>1, WithoutShape
    <3>3. \A k \in 1 .. Len(list') : Good(list'[k])
      BY <1>1, <3>2
    <3>4. list' # <<>> => Good(list'[1])
      BY <3>2, <3>3
    <3> QED
      BY <1>1, <1>2, <1>4, <2>4, <3>3, <3>4 DEF Left, Chosen
  <2>5. CASE e.ev \in {"In", "Out"} /\ Counted(e.ev, e.peer)
    <3>1. Len(list') = Len(list) /\ UNCHANGED selected
      BY <1>3, <2>5 DEF Counted
    <3>2. \A i \in 1 .. Len(list) : list[i] \in Listed
      BY <1>3
    <3>3. \A i \in 1 .. Len(list) : list'[i].peer = list[i].peer /\ list'[i].id = list[i].id
      BY <2>5, <3>2 DEF Counted, Listed
    <3> QED
      BY <1>1, <1>2, <3>1, <3>3 DEF Good
  <2>6. CASE e.ev = "Error" /\ UNCHANGED <<list, selected>>
    BY <1>5, <2>6
  <2> QED
    BY <1>8, <2>3, <2>4, <2>5, <2>6 DEF HandleEvent, e
<1>9. ASSUME NEW c \in Clients, ClientStep(c) PROVE ListKnown'
  BY <1>5, <1>9 DEF ClientStep, Read, Write, ClientEnds, Deregister, AnnounceLeft
<1>10. CASE Serve
  BY <1>5, <1>10 DEF Serve, Accept, Register, AcceptFails, Command, EndOfCommands
<1>11. CASE ServeOne
  BY <1>5, <1>11 DEF ServeOne, Handshake, DropCommand, WebSocketLeaves, WebSocketLost,
     WebSocketEnds, ReadWebSocket, ReadDatagram, DatagramFails, NobodyToReplyTo, Reply
<1>12. ASSUME NEW all \in BOOLEAN, SendComposer(all) PROVE ListKnown'
  BY <1>5, <1>12 DEF SendComposer
<1> QED
  BY <1>5, <1>6, <1>7, <1>8, <1>9, <1>10, <1>11, <1>12 DEF Next, UserStep, vars

(* What the composer adds to the history. *)
Composed(all) ==
  IF all THEN [all |-> TRUE, to |-> 0, seen |-> Peers(list)]
  ELSE [all |-> FALSE, to |-> selected, seen |-> {}]

LEMMA SentChange ==
  ASSUME TypeOK, [Next]_vars
  PROVE  \/ sent' = sent
         \/ \E all \in BOOLEAN :
              /\ SendComposer(all)
              /\ sent' = Append(sent, Composed(all))
              /\ sent' \in Seq(Message) /\ Len(sent') = Len(sent) + 1
              /\ sent'[Len(sent) + 1] = Composed(all)
              /\ \A n \in 1 .. Len(sent) : sent'[n] = sent[n]
<1> USE DEF session, loop, tasks
<1>1. ASSUME NEW all \in BOOLEAN, SendComposer(all)
      PROVE  /\ sent' = Append(sent, Composed(all))
             /\ sent' \in Seq(Message) /\ Len(sent') = Len(sent) + 1
             /\ sent'[Len(sent) + 1] = Composed(all)
             /\ \A n \in 1 .. Len(sent) : sent'[n] = sent[n]
  <2>1. Composed(all) \in Message
    BY Elements, Basics DEF Composed, Message, TypeOK
  <2>2. sent \in Seq(Message)
    BY DEF TypeOK
  <2>3. sent' = Append(sent, Composed(all))
    BY <1>1 DEF SendComposer, Composed
  <2> QED
    BY <2>1, <2>2, <2>3
<1>2. ASSUME NEW c \in Clients, ClientStep(c) PROVE sent' = sent
  BY <1>2 DEF ClientStep, Read, Write, ClientEnds, Deregister, AnnounceLeft
<1>3. CASE Serve
  BY <1>3 DEF Serve, Accept, Register, AcceptFails, Command, EndOfCommands
<1>4. CASE ServeOne
  BY <1>4 DEF ServeOne, Handshake, DropCommand, WebSocketLeaves, WebSocketLost,
     WebSocketEnds, ReadWebSocket, ReadDatagram, DatagramFails, NobodyToReplyTo, Reply
<1>5. ASSUME NEW i \in 1 .. Len(list), SelectClient(i) PROVE sent' = sent
  BY <1>5 DEF SelectClient
<1> QED
  BY <1>1, <1>2, <1>3, <1>4, <1>5 DEF Next, UserStep, CloseTab, HandleEvent, vars

LEMMA KnownNext ==
  ASSUME TypeOK, Known, Stages, [Next]_vars
  PROVE  Known'
<1> DEFINE Good(m) == /\ m.to \in KnownIds \cup {0}
                      /\ m.seen \subseteq Accepted /\ (m.seen # {} => m.all)
<1>1. \A n \in 1 .. Len(sent) : Good(sent[n])
  BY DEF Known, SentKnown
<1>2. (\A n \in 1 .. Len(sent') : Good(sent'[n])) => SentKnown'
  BY Steady DEF SentKnown
<1>3. \A all \in BOOLEAN : Good(Composed(all))
  BY DEF Composed, Known, ListKnown, Peers
<1>4. Len(sent) \in Nat
  BY DEF TypeOK
<1> HIDE DEF Good
<1>5. ASSUME sent' = sent PROVE SentKnown'
  BY <1>1, <1>2, <1>5
<1>6. ASSUME NEW all \in BOOLEAN, Len(sent') = Len(sent) + 1,
             sent'[Len(sent) + 1] = Composed(all),
             \A n \in 1 .. Len(sent) : sent'[n] = sent[n]
      PROVE  SentKnown'
  <2>1. \A n \in 1 .. Len(sent') : n \in 1 .. Len(sent) \/ n = Len(sent) + 1
    BY <1>4, <1>6
  <2> QED
    BY <1>1, <1>2, <1>3, <1>6, <2>1
<1>7. SentKnown'
  BY <1>5, <1>6, SentChange
<1> QED
  BY <1>7, EventsKnownNext, ListKnownNext DEF Known

------------------------------------------------------------------------------
(* Where the clients are. *)
LEMMA AcceptedNext ==
  ASSUME TypeOK
  PROVE  /\ next \notin Accepted /\ 0 \notin Accepted
         /\ next' = next => Accepted' = Accepted
         /\ next' = next + 1 => Accepted' = Accepted \cup {next}
<1>1. next \in Nat /\ next >= 1
  BY AcceptedType
<1>2. next \notin Accepted /\ 0 \notin Accepted
  BY <1>1 DEF Accepted
<1>3. next' = next => Accepted' = Accepted
  BY DEF Accepted
<1>4. ASSUME next' = next + 1 PROVE Accepted' = Accepted \cup {next}
  <2>1. Accepted' = 1 .. next /\ Accepted = 1 .. next - 1
    BY <1>1, <1>4 DEF Accepted
  <2> QED
    BY <1>1, <2>1
<1> QED
  BY <1>2, <1>3, <1>4

(* The steps of the session leave all of that alone. *)
LEMMA StagesStay ==
  ASSUME Stages, UNCHANGED <<loop, tasks>>
  PROVE  Stages'
BY DEF Stages, MapStages, WebSocketStages, DatagramStages, Accepted, loop, tasks

LEMMA SessionSteps ==
  ASSUME UserStep \/ HandleEvent \/ UNCHANGED vars
  PROVE  UNCHANGED <<loop, tasks>>
BY DEF UserStep, SendComposer, SelectClient, CloseTab, HandleEvent, vars

LEMMA MapStagesNext ==
  ASSUME TypeOK, protocol = "map", MapStages,
         Serve \/ (\E c \in Clients : ClientStep(c)) \/ ServeOne
  PROVE  MapStages'
<1> USE DEF loop, tasks
<1>0. /\ client \in [Clients -> {"none", "serving", "ending", "removed", "left", "lost"}]
      /\ queue \in [Clients -> Seq(1 .. Len(sent))] /\ received \in [Clients -> Seq(1 .. Len(sent))]
      /\ map \subseteq Clients /\ 0 \notin Clients
  BY Basics DEF TypeOK
<1>1. /\ peer = 0 /\ map \subseteq Accepted
      /\ accepting # 0 => accepting \in Accepted
      /\ \A c \in Clients :
           /\ client[c] = "serving" => c \in map
           /\ c \in Accepted \ {accepting} => client[c] # "none"
           /\ client[c] # "serving" => queue[c] = <<>>
           /\ received[c] # <<>> => c \in Accepted
           /\ client[c] # "none" => c \in Accepted \ {accepting}
  BY DEF MapStages
<1>2. Accepted \subseteq Clients
  BY AcceptedType
<1>3. ASSUME Ends("closed") \/ Ends("failed"),
             UNCHANGED <<next, map, accepting, queue, received>>
      PROVE  MapStages'
  <2>1. peer' = 0 /\ \A c \in Clients : client'[c] = client[c]
    BY <1>3, EndsType
  <2> QED
    BY <1>1, <1>3, <2>1, AcceptedNext DEF MapStages
<1>4. CASE Accept
  <2>1. Accepted' = Accepted \cup {next} /\ next \notin Accepted
    BY <1>4, AcceptedNext DEF Accept
  <2> QED
    BY <1>0, <1>1, <1>4, <2>1 DEF Accept, Running, MapStages
<1>5. CASE Register
  <2>1. Accepted' = Accepted
    BY <1>5, AcceptedNext DEF Register
  <2>2. accepting \in Accepted /\ accepting \in Clients /\ accepting # 0
    BY <1>1, <1>2, <1>5 DEF Register
  <2> QED
    BY <1>0, <1>1, <1>5, <2>1, <2>2 DEF Register, MapStages
<1>6. CASE AcceptFails
  BY <1>3, <1>6 DEF AcceptFails, Fails
<1>7. CASE Command
  <2>1. CASE Fails /\ UNCHANGED queue
    BY <1>3, <1>7, <2>1 DEF Command, Fails
  <2>2. ASSUME NEW to,
               queue' = [c \in Clients |->
                          IF c \in to /\ client[c] = "serving"
                          THEN Append(queue[c], Head(cmds)) ELSE queue[c]],
               UNCHANGED <<server, peer, client>>
        PROVE  MapStages'
    <3>1. UNCHANGED <<accepting, next, map, received, peer, client>> /\ Accepted' = Accepted
      BY <1>7, <2>2, AcceptedNext DEF Command
    <3>2. \A c \in Clients : client[c] # "serving" => queue'[c] = queue[c]
      BY <2>2
    <3> QED
      BY <1>1, <3>1, <3>2 DEF MapStages
  <2> QED
    BY <1>7, <2>1, <2>2 DEF Command
<1>8. CASE EndOfCommands
  BY <1>3, <1>8 DEF EndOfCommands
<1>9. ASSUME NEW c \in Clients, ClientStep(c) PROVE MapStages'
  <2>0. UNCHANGED <<next, accepting, peer>> /\ Accepted' = Accepted
    BY <1>9, AcceptedNext DEF ClientStep, Read, Write, ClientEnds, Deregister, AnnounceLeft
  <2>1. CASE Read(c)
    BY <1>1, <2>0, <2>1 DEF Read, MapStages
  <2>2. CASE Write(c)
    <3>1. \A d \in Clients : d # c => queue'[d] = queue[d] /\ received'[d] = received[d]
      BY <1>0, <2>2 DEF Write
    <3>2. client[c] = "serving"
      BY <2>2 DEF Write, Serving
    <3>3. c \in Accepted
      BY <1>1, <3>2
    <3>4. UNCHANGED <<map, client>>
      BY <2>2 DEF Write
    <3> QED
      BY <1>1, <2>0, <3>1, <3>2, <3>3, <3>4 DEF MapStages
  <2>3. CASE ClientEnds(c)
    BY <1>0, <1>1, <2>0, <2>3 DEF ClientEnds, Serving, MapStages
  <2>4. CASE Deregister(c)
    BY <1>0, <1>1, <2>0, <2>4 DEF Deregister, MapStages
  <2>5. CASE AnnounceLeft(c)
    BY <1>0, <1>1, <2>0, <2>5 DEF AnnounceLeft, MapStages
  <2> QED
    BY <1>9, <2>1, <2>2, <2>3, <2>4, <2>5 DEF ClientStep
<1>10. ~ServeOne
  BY DEF ServeOne, Handshake, DropCommand, WebSocketLeaves, WebSocketLost, ReadWebSocket,
     ServingWebSocket, ReadDatagram, DatagramFails, NobodyToReplyTo, Reply
<1> QED
  BY <1>4, <1>5, <1>6, <1>7, <1>8, <1>9, <1>10 DEF Serve

LEMMA WebSocketStagesNext ==
  ASSUME TypeOK, protocol = "ws", WebSocketStages,
         Serve \/ (\E c \in Clients : ClientStep(c)) \/ ServeOne
  PROVE  WebSocketStages'
<1> USE DEF loop, tasks
<1>0. /\ client \in [Clients -> {"none", "serving", "ending", "removed", "left", "lost"}]
      /\ received \in [Clients -> Seq(1 .. Len(sent))] /\ 0 \notin Clients
  BY Basics DEF TypeOK
<1>1. /\ map = {} /\ peer \in Accepted \cup {0} /\ accepting \in Accepted \cup {0}
      /\ accepting # 0 => peer = 0
      /\ \A c \in Clients :
           /\ queue[c] = <<>> /\ client[c] \notin {"ending", "removed"}
           /\ client[c] = "serving" => c = peer
           /\ c \in Accepted => c \in {peer, accepting} \/ client[c] \in {"left", "lost"}
           /\ client[c] # "none" => c \in Accepted \ {accepting}
           /\ received[c] # <<>> => c \in Accepted
  BY DEF WebSocketStages
<1>2. Accepted \subseteq Clients
  BY AcceptedType
<1>3. ASSUME Ends("closed") \/ Ends("failed"), accepting' = 0,
             UNCHANGED <<next, map, queue, received>>
      PROVE  WebSocketStages'
  <2>1. /\ peer' = 0
        /\ \A c \in Clients : client'[c] = IF c \in {peer, accepting} THEN "lost" ELSE client[c]
    BY <1>3, EndsType
  <2>2. Accepted' = Accepted
    BY <1>3, AcceptedNext
  <2> QED
    BY <1>0, <1>1, <1>3, <2>1, <2>2 DEF WebSocketStages
<1>4. CASE Accept
  <2>1. Accepted' = Accepted \cup {next} /\ next \notin Accepted
    BY <1>4, AcceptedNext DEF Accept
  <2> QED
    BY <1>0, <1>1, <1>4, <2>1 DEF Accept, Running, WebSocketStages
<1>5. CASE AcceptFails
  BY <1>3, <1>5 DEF AcceptFails, Fails, Running
<1>6. CASE EndOfCommands
  BY <1>3, <1>6 DEF EndOfCommands, Running
<1>7. ~Register /\ ~Command /\ \A c \in Clients : ~ClientStep(c)
  BY <1>1 DEF Register, Command, WithMap, ClientStep, Read, Write, ClientEnds, Deregister,
     AnnounceLeft, Serving
<1>8. CASE Handshake
  <2>1. CASE Fails
    BY <1>3, <1>8, <2>1 DEF Handshake, Fails
  <2>2. CASE peer' = accepting /\ client' = [client EXCEPT ![accepting] = "serving"]
    <3>1. Accepted' = Accepted
      BY <1>8, AcceptedNext DEF Handshake
    <3>2. accepting \in Clients /\ accepting # 0 /\ peer = 0
      BY <1>1, <1>2, <1>8 DEF Handshake
    <3>3. client'[accepting] = "serving" /\ \A d \in Clients : d # accepting => client'[d] = client[d]
      BY <1>0, <2>2, <3>2
    <3>4. UNCHANGED <<map, queue, received>> /\ accepting' = 0
      BY <1>8 DEF Handshake
    <3> QED
      BY <1>0, <1>1, <2>2, <3>1, <3>2, <3>3, <3>4 DEF WebSocketStages
  <2> QED
    BY <1>8, <2>1, <2>2 DEF Handshake
<1>9. CASE DropCommand \/ ReadWebSocket
  <2>1. Accepted' = Accepted
    BY <1>9, AcceptedNext DEF DropCommand, ReadWebSocket
  <2> QED
    BY <1>1, <1>9, <2>1 DEF DropCommand, ReadWebSocket, WebSocketStages
<1>10. ASSUME NEW as \in {"left", "lost"}, peer # 0, accepting = 0, WebSocketEnds(as)
       PROVE  WebSocketStages'
  <2>1. Accepted' = Accepted
    BY <1>10, AcceptedNext DEF WebSocketEnds
  <2>2. peer \in Clients
    BY <1>1, <1>2, <1>10
  <2>3. client'[peer] = as /\ \A d \in Clients : d # peer => client'[d] = client[d]
    BY <1>0, <1>10, <2>2 DEF WebSocketEnds
  <2>4. peer' = 0 /\ UNCHANGED <<map, accepting, queue, received>>
    BY <1>10 DEF WebSocketEnds
  <2> QED
    BY <1>0, <1>1, <1>10, <2>1, <2>2, <2>3, <2>4 DEF WebSocketStages
<1>11. CASE WebSocketLeaves \/ WebSocketLost
  BY <1>10, <1>11 DEF WebSocketLeaves, WebSocketLost, ServingWebSocket, Running
<1>12. CASE Reply
  <2>1. CASE Fails /\ UNCHANGED received
    BY <1>3, <1>12, <2>1 DEF Reply, Fails, Running
  <2>2. CASE received' = [received EXCEPT ![peer] = Append(@, Head(cmds))] /\ UNCHANGED <<peer, client>>
    <3>1. Accepted' = Accepted /\ UNCHANGED <<map, accepting, queue>> /\ peer # 0
      BY <1>12, AcceptedNext DEF Reply
    <3>2. \A d \in Clients : d # peer => received'[d] = received[d]
      BY <1>0, <2>2
    <3> QED
      BY <1>1, <2>2, <3>1, <3>2 DEF WebSocketStages
  <2> QED
    BY <1>12, <2>1, <2>2 DEF Reply
<1>13. ~DatagramFails /\ ~NobodyToReplyTo /\ \A c \in Clients : ~ReadDatagram(c)
  BY DEF DatagramFails, NobodyToReplyTo, ReadDatagram
<1> QED
  BY <1>4, <1>5, <1>6, <1>7, <1>8, <1>9, <1>11, <1>12, <1>13 DEF Serve, ServeOne

LEMMA DatagramStagesNext ==
  ASSUME TypeOK, protocol = "udp", DatagramStages,
         Serve \/ (\E c \in Clients : ClientStep(c)) \/ ServeOne
  PROVE  DatagramStages'
<1> USE DEF loop, tasks
<1>0. /\ read \in [Clients -> Nat] /\ received \in [Clients -> Seq(1 .. Len(sent))]
  BY DEF TypeOK
<1>1. /\ map = {} /\ accepting = 0 /\ next = 1
      /\ peer # 0 => read[peer] > 0
      /\ \A c \in Clients :
           queue[c] = <<>> /\ client[c] = "none" /\ (received[c] # <<>> => read[c] > 0)
  BY DEF DatagramStages
<1>2. ASSUME Ends("closed") \/ Ends("failed"),
             UNCHANGED <<next, map, accepting, queue, read, received>>
      PROVE  DatagramStages'
  <2>1. peer' = 0 /\ \A c \in Clients : client'[c] = client[c]
    BY <1>2, EndsType
  <2> QED
    BY <1>1, <1>2, <2>1 DEF DatagramStages
<1>3. ~Accept /\ ~Register /\ ~AcceptFails /\ ~Command
  BY <1>1 DEF Accept, Register, AcceptFails, Command, WithMap
<1>4. CASE EndOfCommands
  BY <1>2, <1>4 DEF EndOfCommands
<1>5. \A c \in Clients : ~ClientStep(c)
  BY <1>1 DEF ClientStep, Read, Write, ClientEnds, Deregister, AnnounceLeft, Serving
<1>6. ~Handshake /\ ~WebSocketLeaves /\ ~WebSocketLost /\ ~ReadWebSocket /\ ~DropCommand
  BY DEF Handshake, WebSocketLeaves, WebSocketLost, ReadWebSocket, ServingWebSocket, DropCommand
<1>7. ASSUME NEW c \in Clients, ReadDatagram(c) PROVE DatagramStages'
  <2>1. read'[c] > 0 /\ \A d \in Clients : d # c => read'[d] = read[d]
    BY <1>0, <1>7 DEF ReadDatagram
  <2>2. peer' = c /\ UNCHANGED <<map, accepting, next, client, queue, received>>
    BY <1>7 DEF ReadDatagram
  <2> QED
    BY <1>1, <2>1, <2>2 DEF DatagramStages
<1>8. CASE DatagramFails
  BY <1>2, <1>8 DEF DatagramFails
<1>9. CASE NobodyToReplyTo
  BY <1>1, <1>9 DEF NobodyToReplyTo, DatagramStages
<1>10. CASE Reply
  <2>1. CASE Fails /\ UNCHANGED received
    BY <1>2, <1>10, <2>1 DEF Reply, Fails
  <2>2. CASE received' = [received EXCEPT ![peer] = Append(@, Head(cmds))] /\ UNCHANGED <<peer, client>>
    <3>1. peer # 0 /\ UNCHANGED <<map, accepting, next, queue, read>>
      BY <1>10 DEF Reply
    <3>2. \A d \in Clients : d # peer => received'[d] = received[d]
      BY <1>0, <2>2
    <3> QED
      BY <1>1, <2>2, <3>1, <3>2 DEF DatagramStages
  <2> QED
    BY <1>10, <2>1, <2>2 DEF Reply
<1> QED
  BY <1>3, <1>4, <1>5, <1>6, <1>7, <1>8, <1>9, <1>10 DEF Serve, ServeOne

LEMMA StagesNext ==
  ASSUME TypeOK, Stages, [Next]_vars
  PROVE  Stages'
<1>1. CASE UserStep \/ HandleEvent \/ UNCHANGED vars
  BY <1>1, SessionSteps, StagesStay
<1>2. ASSUME Serve \/ (\E c \in Clients : ClientStep(c)) \/ ServeOne PROVE Stages'
  <2>1. protocol' = protocol /\ protocol \in {"map", "ws", "udp"}
    BY Steady, Kinds
  <2>2. CASE protocol = "map"
    BY <1>2, <2>1, <2>2, MapStagesNext DEF Stages
  <2>3. CASE protocol = "ws"
    BY <1>2, <2>1, <2>3, WebSocketStagesNext DEF Stages
  <2>4. CASE protocol = "udp"
    BY <1>2, <2>1, <2>4, DatagramStagesNext DEF Stages
  <2> QED
    BY <2>1, <2>2, <2>3, <2>4
<1> QED
  BY <1>1, <1>2 DEF Next

LEMMA ServerNext ==
  ASSUME TypeOK, ServerInv, [Next]_vars
  PROVE  ServerInv'
<1> USE DEF session, loop, tasks, Running
<1>0. /\ server = "closed" => ~open \/ protocol = "udp"
      /\ accepting # 0 => server = "run"
  BY DEF ServerInv
<1>1. CASE UserStep \/ HandleEvent \/ UNCHANGED vars
  BY <1>0, <1>1 DEF UserStep, SendComposer, SelectClient, CloseTab, HandleEvent, vars, ServerInv
<1>2. CASE Serve
  BY <1>0, <1>2, EndsType
  DEF Serve, Accept, Register, AcceptFails, Command, EndOfCommands, WithMap, Fails, ServerInv
<1>3. ASSUME NEW c \in Clients, ClientStep(c) PROVE ServerInv'
  BY <1>0, <1>3 DEF ClientStep, Read, Write, ClientEnds, Deregister, AnnounceLeft, ServerInv
<1>4. CASE ServeOne
  <2>1. CASE Handshake \/ Reply
    BY <1>0, <2>1, EndsType DEF Handshake, Reply, Fails, ServerInv
  <2>2. CASE DropCommand \/ WebSocketLeaves \/ WebSocketLost \/ ReadWebSocket \/ NobodyToReplyTo
    BY <1>0, <2>2 DEF DropCommand, WebSocketLeaves, WebSocketLost, WebSocketEnds, ReadWebSocket,
       NobodyToReplyTo, ServerInv
  <2>3. CASE DatagramFails
    BY <1>0, <2>3, EndsType DEF DatagramFails, ServerInv
  <2>4. ASSUME NEW c \in Clients, ReadDatagram(c) PROVE ServerInv'
    BY <1>0, <2>4 DEF ReadDatagram, ServerInv
  <2> QED
    BY <1>4, <2>1, <2>2, <2>3, <2>4 DEF ServeOne
<1> QED
  BY <1>1, <1>2, <1>3, <1>4 DEF Next

------------------------------------------------------------------------------
(* The channels. *)
LEMMA InShape ==
  ASSUME NEW T, NEW s \in Seq(T)
  PROVE  /\ In(s) \subseteq T
         /\ In(<<>>) = {}
         /\ \A x \in T : In(Append(s, x)) = In(s) \cup {x}
         /\ s # <<>> => Head(s) \in T /\ Tail(s) \in Seq(T) /\ In(s) = {Head(s)} \cup In(Tail(s))
<1>1. In(s) \subseteq T /\ In(<<>>) = {}
  BY DEF In
<1>2. ASSUME NEW x \in T PROVE In(Append(s, x)) = In(s) \cup {x}
  <2> DEFINE t == Append(s, x)
             n == Len(s)
  <2>1. /\ n \in Nat /\ Len(t) = n + 1 /\ t[n + 1] = x
        /\ \A i \in 1 .. n : t[i] = s[i]
    OBVIOUS
  <2> HIDE DEF t, n
  <2>2. \A i : i \in 1 .. n + 1 <=> i \in 1 .. n \/ i = n + 1
    BY <2>1
  <2>3. In(t) = In(s) \cup {x}
    BY <2>1, <2>2 DEF In, n
  <2> QED
    BY <2>3 DEF t
<1>3. ASSUME s # <<>>
      PROVE  Head(s) \in T /\ Tail(s) \in Seq(T) /\ In(s) = {Head(s)} \cup In(Tail(s))
  <2> DEFINE t == Tail(s)
             n == Len(t)
  <2>1. /\ n \in Nat /\ Len(s) = n + 1 /\ s[1] = Head(s) /\ Head(s) \in T /\ t \in Seq(T)
        /\ \A i \in 1 .. n : t[i] = s[i + 1]
    BY <1>3
  <2> HIDE DEF t, n
  <2>2. \A i \in 1 .. n : i + 1 \in 1 .. n + 1
    BY <2>1
  <2>3. \A i \in 1 .. n + 1 : i = 1 \/ (i - 1 \in 1 .. n /\ (i - 1) + 1 = i)
    BY <2>1
  <2>4. 1 \in 1 .. n + 1
    BY <2>1
  <2>5. In(s) \subseteq {Head(s)} \cup In(t)
    <3>1. ASSUME NEW i \in 1 .. n + 1 PROVE s[i] = Head(s) \/ \E j \in 1 .. n : t[j] = s[i]
      <4>1. CASE i = 1
        BY <2>1, <4>1
      <4>2. CASE i - 1 \in 1 .. n /\ (i - 1) + 1 = i
        <5>1. t[i - 1] = s[(i - 1) + 1]
          BY <2>1, <4>2
        <5> QED
          BY <4>2, <5>1
      <4> QED
        BY <2>3, <4>1, <4>2
    <3> QED
      BY <2>1, <3>1 DEF In, n
  <2>6. {Head(s)} \cup In(t) \subseteq In(s)
    BY <2>1, <2>2, <2>4 DEF In, n
  <2> QED
    BY <2>1, <2>5, <2>6 DEF t
<1> QED
  BY <1>1, <1>2, <1>3

LEMMA UpShape ==
  ASSUME NEW T, T \subseteq Nat, NEW s \in Seq(T), Up(s)
  PROVE  /\ Up(<<>>)
         /\ \A x \in T : (\A y \in In(s) : y < x) => Up(Append(s, x))
         /\ s # <<>> => Up(Tail(s)) /\ \A y \in In(Tail(s)) : Head(s) < y
<1>1. Up(<<>>)
  BY DEF Up
<1>2. ASSUME NEW x \in T, \A y \in In(s) : y < x PROVE Up(Append(s, x))
  <2> DEFINE t == Append(s, x)
             n == Len(s)
  <2>1. /\ n \in Nat /\ Len(t) = n + 1 /\ t[n + 1] = x
        /\ \A i \in 1 .. n : t[i] = s[i]
    OBVIOUS
  <2> HIDE DEF t, n
  <2>2. \A i, j \in 1 .. n + 1 : i < j => i \in 1 .. n /\ (j \in 1 .. n \/ j = n + 1)
    BY <2>1
  <2>3. \A i \in 1 .. n : s[i] < x
    BY <1>2 DEF In, n
  <2>4. \A i, j \in 1 .. n : i < j => s[i] < s[j]
    BY DEF Up, n
  <2>5. \A i, j \in 1 .. n + 1 : i < j => t[i] < t[j]
    BY <2>1, <2>2, <2>3, <2>4
  <2> QED
    BY <2>1, <2>5 DEF t, Up
<1>3. ASSUME s # <<>> PROVE Up(Tail(s)) /\ \A y \in In(Tail(s)) : Head(s) < y
  <2> DEFINE t == Tail(s)
             n == Len(t)
  <2>1. /\ n \in Nat /\ Len(s) = n + 1 /\ s[1] = Head(s)
        /\ \A i \in 1 .. n : t[i] = s[i + 1]
    BY <1>3
  <2> HIDE DEF t, n
  <2>2. \A i, j \in 1 .. n + 1 : i < j => s[i] < s[j]
    BY <2>1 DEF Up
  <2>3. \A i \in 1 .. n : i + 1 \in 1 .. n + 1 /\ 1 < i + 1 /\ 1 \in 1 .. n + 1
    BY <2>1
  <2>4. \A i, j \in 1 .. n : i < j => i + 1 < j + 1
    BY <2>1
  <2>5. \A i \in 1 .. n : s[1] < t[i]
    BY <2>1, <2>2, <2>3
  <2>6. \A i, j \in 1 .. n : i < j => t[i] < t[j]
    BY <2>1, <2>2, <2>3, <2>4
  <2> QED
    BY <2>1, <2>5, <2>6 DEF t, n, Up, In
<1> QED
  BY <1>1, <1>2, <1>3

LEMMA LineShape ==
  ASSUME NEW T, T \subseteq Nat, NEW r \in Seq(T), NEW q \in Seq(T), NEW k \in Seq(T),
         Up(k), InLine(r, q, k)
  PROVE  /\ InLine(r, q, <<>>) /\ InLine(r, <<>>, k)
         /\ \A x \in T : (\A y \in In(r) \cup In(q) \cup In(k) : y < x) =>
              Up(Append(k, x)) /\ InLine(r, q, Append(k, x))
         /\ k # <<>> =>
              /\ Up(Tail(k)) /\ InLine(r, q, Tail(k)) /\ InLine(r, Append(q, Head(k)), Tail(k))
              /\ q = <<>> => InLine(Append(r, Head(k)), q, Tail(k))
         /\ q # <<>> => InLine(Append(r, Head(q)), Tail(q), k)
<1> DEFINE R == In(r)
           Q == In(q)
           K == In(k)
<1>1. /\ Up(r) /\ Up(q)
      /\ \A x \in R, y \in Q : x < y
      /\ \A x \in R, y \in K : x < y
      /\ \A x \in Q, y \in K : x < y
  BY DEF InLine, Below
<1>2. /\ R \subseteq Nat /\ Q \subseteq Nat /\ K \subseteq Nat /\ In(<<>>) = {} /\ Up(<<>>)
      /\ \A x \in T : In(Append(r, x)) = R \cup {x} /\ In(Append(q, x)) = Q \cup {x}
                      /\ In(Append(k, x)) = K \cup {x}
  <2>0. Up(<<>>)
    BY DEF Up
  <2>1. R \subseteq T /\ In(<<>>) = {} /\ \A x \in T : In(Append(r, x)) = R \cup {x}
    BY InShape
  <2>2. Q \subseteq T /\ \A x \in T : In(Append(q, x)) = Q \cup {x}
    BY InShape
  <2>3. K \subseteq T /\ \A x \in T : In(Append(k, x)) = K \cup {x}
    BY InShape
  <2> HIDE DEF R, Q, K
  <2> QED
    BY <2>0, <2>1, <2>2, <2>3
<1>3. \A x \in T :
        /\ (\A y \in R : y < x) => Up(Append(r, x))
        /\ (\A y \in Q : y < x) => Up(Append(q, x))
        /\ (\A y \in K : y < x) => Up(Append(k, x))
  BY <1>1, UpShape
<1>4. ASSUME k # <<>>
      PROVE  /\ Head(k) \in T /\ K = {Head(k)} \cup In(Tail(k)) /\ Up(Tail(k))
             /\ \A y \in In(Tail(k)) : Head(k) < y
  BY <1>4, InShape, UpShape
<1>5. ASSUME q # <<>>
      PROVE  /\ Head(q) \in T /\ Q = {Head(q)} \cup In(Tail(q)) /\ Up(Tail(q))
             /\ \A y \in In(Tail(q)) : Head(q) < y
  BY <1>1, <1>5, InShape, UpShape
<1> HIDE DEF R, Q, K
<1>6. InLine(r, q, <<>>) /\ InLine(r, <<>>, k)
  BY <1>1, <1>2 DEF InLine, Below, R, Q, K
<1>7. ASSUME NEW x \in T, \A y \in R \cup Q \cup K : y < x
      PROVE  Up(Append(k, x)) /\ InLine(r, q, Append(k, x))
  <2>1. Up(Append(k, x))
    <3>1. \A y \in K : y < x
      BY <1>7
    <3>2. (\A y \in K : y < x) => Up(Append(k, x))
      BY <1>3
    <3> QED
      BY <3>1, <3>2
  <2>2. In(Append(k, x)) = K \cup {x} /\ \A z \in R \cup Q : z < x
    BY <1>2, <1>7
  <2>3. \A z \in R \cup Q, y \in In(Append(k, x)) : z < y
    <3>1. \A z \in R \cup Q, y \in K : z < y
      BY <1>1
    <3> QED
      BY <2>2, <3>1
  <2> QED
    BY <1>1, <2>1, <2>3 DEF InLine, Below, R, Q
<1>8. ASSUME k # <<>>
      PROVE  /\ Up(Tail(k)) /\ InLine(r, q, Tail(k)) /\ InLine(r, Append(q, Head(k)), Tail(k))
             /\ q = <<>> => InLine(Append(r, Head(k)), q, Tail(k))
  <2> DEFINE h == Head(k)
             L == In(Tail(k))
  <2>1. h \in T /\ K = {h} \cup L /\ Up(Tail(k)) /\ \A y \in L : h < y
    BY <1>4, <1>8
  <2> HIDE DEF h, L
  <2>2. In(Append(q, h)) = Q \cup {h} /\ In(Append(r, h)) = R \cup {h}
    BY <1>2, <2>1
  <2>3. /\ \A x \in R, y \in L : x < y
        /\ \A x \in Q, y \in L : x < y
        /\ \A x \in Q \cup {h}, y \in L : x < y
        /\ \A x \in R, y \in Q \cup {h} : x < y
        /\ \A x \in R \cup {h}, y \in L : x < y
    BY <1>1, <2>1
  <2>4. Up(Append(q, h)) /\ Up(Append(r, h))
    BY <1>1, <1>3, <2>1
  <2>5. InLine(r, q, Tail(k))
    BY <1>1, <2>3 DEF InLine, Below, R, Q, L
  <2>6. InLine(r, Append(q, h), Tail(k))
    BY <1>1, <2>2, <2>3, <2>4 DEF InLine, Below, R, Q, L
  <2>7. ASSUME q = <<>> PROVE InLine(Append(r, h), q, Tail(k))
    <3>1. Q = {}
      BY <1>2, <2>7 DEF Q
    <3> QED
      BY <1>1, <2>2, <2>3, <2>4, <3>1 DEF InLine, Below, R, Q, L
  <2> QED
    BY <2>1, <2>5, <2>6, <2>7 DEF h
<1>9. ASSUME q # <<>> PROVE InLine(Append(r, Head(q)), Tail(q), k)
  <2> DEFINE h == Head(q)
             L == In(Tail(q))
  <2>1. h \in T /\ Q = {h} \cup L /\ Up(Tail(q)) /\ \A y \in L : h < y
    BY <1>5, <1>9
  <2> HIDE DEF h, L
  <2>2. In(Append(r, h)) = R \cup {h}
    BY <1>2, <2>1
  <2>3. /\ \A x \in R \cup {h}, y \in L : x < y
        /\ \A x \in R \cup {h}, y \in K : x < y
        /\ \A x \in L, y \in K : x < y
    BY <1>1, <2>1
  <2>4. Up(Append(r, h))
    BY <1>1, <1>3, <2>1
  <2>5. InLine(Append(r, h), Tail(q), k)
    BY <2>1, <2>2, <2>3, <2>4 DEF InLine, Below, K, L
  <2> QED
    BY <2>5 DEF h
<1> QED
  BY <1>6, <1>7, <1>8, <1>9 DEF R, Q, K

(* What a step does to the channels. *)
Stay ==
  /\ UNCHANGED <<queue, received>>
  /\ cmds' = cmds \/ (cmds' = <<>> /\ (cmds = <<>> \/ server' = "failed" \/ protocol = "udp"))

Sends ==
  /\ UNCHANGED <<queue, received>> /\ open
  /\ cmds' = IF server = "run" THEN Append(cmds, Len(sent) + 1) ELSE cmds

Taken == cmds # <<>> /\ cmds' = Tail(cmds) /\ accepting = 0

Discards == Taken /\ protocol # "map" /\ peer = 0 /\ UNCHANGED <<queue, received>>

Spreads(to) ==
  /\ Taken /\ protocol = "map" /\ UNCHANGED received
  /\ queue' = [c \in Clients |-> IF c \in to /\ client[c] = "serving"
                                 THEN Append(queue[c], Head(cmds)) ELSE queue[c]]

Replies ==
  /\ Taken /\ protocol \in {"ws", "udp"} /\ peer \in Clients /\ UNCHANGED queue
  /\ received' = [received EXCEPT ![peer] = Append(received[peer], Head(cmds))]

Writes(c) ==
  /\ queue[c] # <<>> /\ UNCHANGED cmds
  /\ queue' = [queue EXCEPT ![c] = Tail(queue[c])]
  /\ received' = [received EXCEPT ![c] = Append(received[c], Head(queue[c]))]

Empties(c) ==
  /\ queue' = [queue EXCEPT ![c] = <<>>] /\ UNCHANGED <<cmds, received>>
  /\ client'[c] \in Ended

ChannelsMove ==
  \/ sent' = sent /\ \/ Stay
                     \/ Discards
                     \/ \E to \in Recipients(sent[Head(cmds)]) : Spreads(to)
                     \/ Replies
                     \/ \E c \in Clients : Writes(c) \/ Empties(c)
  \/ Sends /\ \E all \in BOOLEAN : SendComposer(all)

LEMMA ChannelsChange ==
  ASSUME TypeOK, [Next]_vars
  PROVE  ChannelsMove
<1> USE DEF session, loop, tasks, Taken, Running
<1>0. \A as : Ends(as) => cmds' = <<>> /\ server' = as
  BY DEF Ends
<1>1. ASSUME NEW all \in BOOLEAN, SendComposer(all) PROVE ChannelsMove
  BY <1>1 DEF SendComposer, Sends, ChannelsMove
<1>2. CASE (\E i \in 1 .. Len(list) : SelectClient(i)) \/ CloseTab \/ HandleEvent \/ UNCHANGED vars
  BY <1>2 DEF SelectClient, CloseTab, HandleEvent, vars, Stay, ChannelsMove
<1>3. CASE Accept \/ Register \/ AcceptFails \/ EndOfCommands
  BY <1>0, <1>3 DEF Accept, Register, AcceptFails, EndOfCommands, Fails, Stay, ChannelsMove
<1>4. CASE Command
  BY <1>0, <1>4 DEF Command, WithMap, Fails, Stay, Spreads, ChannelsMove
<1>5. ASSUME NEW c \in Clients, ClientStep(c) PROVE ChannelsMove
  <2>1. CASE Read(c) \/ Deregister(c) \/ AnnounceLeft(c)
    BY <2>1 DEF Read, Deregister, AnnounceLeft, Stay, ChannelsMove
  <2>2. CASE Write(c)
    BY <2>2 DEF Write, Writes, ChannelsMove
  <2>3. CASE ClientEnds(c)
    <3>1. client'[c] = "ending"
      BY <2>3 DEF ClientEnds, TypeOK
    <3> QED
      BY <2>3, <3>1 DEF ClientEnds, Empties, Ended, ChannelsMove
  <2> QED
    BY <1>5, <2>1, <2>2, <2>3 DEF ClientStep
<1>6. CASE Handshake \/ WebSocketLeaves \/ WebSocketLost \/ ReadWebSocket \/ DatagramFails
  BY <1>0, <1>6 DEF Handshake, WebSocketLeaves, WebSocketLost, WebSocketEnds, ReadWebSocket,
     DatagramFails, Fails, Stay, ChannelsMove
<1>7. CASE DropCommand \/ NobodyToReplyTo
  BY <1>7 DEF DropCommand, NobodyToReplyTo, Discards, ChannelsMove
<1>8. ASSUME NEW c \in Clients, ReadDatagram(c) PROVE ChannelsMove
  BY <1>8 DEF ReadDatagram, Stay, ChannelsMove
<1>9. CASE Reply
  <2>1. peer \in Clients
    <3>1. peer \in 0 .. MaxClients /\ peer # 0
      BY <1>9 DEF Reply, TypeOK
    <3> QED
      BY <3>1, Basics DEF Clients
  <2> QED
    BY <1>0, <1>9, <2>1 DEF Reply, Fails, Stay, Replies, ChannelsMove
<1> QED
  BY <1>1, <1>2, <1>3, <1>4, <1>5, <1>6, <1>7, <1>8, <1>9 DEF Next, UserStep, Serve, ServeOne

LEMMA Channels ==
  ASSUME TypeOK
  PROVE  /\ 1 .. Len(sent) \subseteq Nat /\ cmds \in Seq(1 .. Len(sent))
         /\ \A c \in Clients : queue[c] \in Seq(1 .. Len(sent)) /\ received[c] \in Seq(1 .. Len(sent))
         /\ queue \in [Clients -> Seq(1 .. Len(sent))] /\ received \in [Clients -> Seq(1 .. Len(sent))]
BY DEF TypeOK

LEMMA OrderNext ==
  ASSUME TypeOK, Stages, InOrderOfSending, [Next]_vars
  PROVE  InOrderOfSending'
<1> DEFINE T == 1 .. Len(sent)
           h == Head(cmds)
           k == Tail(cmds)
<1>1. /\ T \subseteq Nat /\ cmds \in Seq(T)
      /\ \A c \in Clients : queue[c] \in Seq(T) /\ received[c] \in Seq(T)
      /\ queue \in [Clients -> Seq(T)] /\ received \in [Clients -> Seq(T)]
  BY Channels
<1>2. Up(cmds) /\ \A c \in Clients : InLine(received[c], queue[c], cmds)
  BY DEF InOrderOfSending
<1> HIDE DEF T, h, k
<1>3. /\ \A c \in Clients : InLine(received[c], queue[c], <<>>) /\ InLine(received[c], <<>>, cmds)
      /\ Up(<<>>)
  BY <1>1, <1>2, LineShape, UpShape
<1>4. ASSUME cmds # <<>>
      PROVE  /\ Up(k)
             /\ \A c \in Clients :
                  /\ InLine(received[c], queue[c], k)
                  /\ InLine(received[c], Append(queue[c], h), k)
                  /\ queue[c] = <<>> => InLine(Append(received[c], h), queue[c], k)
  <2>1. Up(k)
    BY <1>1, <1>2, <1>4, UpShape DEF k
  <2>2. ASSUME NEW c \in Clients
        PROVE  /\ InLine(received[c], queue[c], k)
               /\ InLine(received[c], Append(queue[c], h), k)
               /\ queue[c] = <<>> => InLine(Append(received[c], h), queue[c], k)
    BY <1>1, <1>2, <1>4, LineShape DEF h, k
  <2> QED
    BY <2>1, <2>2
<1>5. ASSUME Stay PROVE InOrderOfSending'
  BY <1>2, <1>3, <1>5 DEF Stay, InOrderOfSending
<1>6. ASSUME Discards PROVE InOrderOfSending'
  BY <1>4, <1>6 DEF Discards, Taken, InOrderOfSending, k
<1>7. ASSUME NEW to, Spreads(to) PROVE InOrderOfSending'
  <2>1. cmds # <<>> /\ cmds' = k /\ received' = received
    BY <1>7 DEF Spreads, Taken, k
  <2>2. \A c \in Clients : queue'[c] \in {queue[c], Append(queue[c], h)}
    BY <1>7 DEF Spreads, h
  <2> QED
    BY <1>4, <2>1, <2>2 DEF InOrderOfSending
<1>8. ASSUME Replies PROVE InOrderOfSending'
  <2>1. cmds # <<>> /\ cmds' = k /\ queue' = queue
    BY <1>8 DEF Replies, Taken, k
  <2>2. \A c \in Clients : received'[c] \in {received[c], Append(received[c], h)}
    BY <1>1, <1>8 DEF Replies, h
  <2>3. \A c \in Clients : queue[c] = <<>>
    BY <1>8 DEF Replies, Stages, WebSocketStages, DatagramStages
  <2> QED
    BY <1>4, <2>1, <2>2, <2>3 DEF InOrderOfSending
<1>9. ASSUME NEW c \in Clients, Writes(c) PROVE InOrderOfSending'
  <2>1. InLine(Append(received[c], Head(queue[c])), Tail(queue[c]), cmds)
    BY <1>1, <1>2, <1>9, LineShape DEF Writes
  <2>2. /\ cmds' = cmds
        /\ received'[c] = Append(received[c], Head(queue[c])) /\ queue'[c] = Tail(queue[c])
        /\ \A d \in Clients : d # c => received'[d] = received[d] /\ queue'[d] = queue[d]
    BY <1>1, <1>9 DEF Writes
  <2> QED
    BY <1>2, <2>1, <2>2 DEF InOrderOfSending
<1>10. ASSUME NEW c \in Clients, Empties(c) PROVE InOrderOfSending'
  <2>1. /\ cmds' = cmds /\ received' = received /\ queue'[c] = <<>>
        /\ \A d \in Clients : d # c => queue'[d] = queue[d]
    BY <1>1, <1>10 DEF Empties
  <2> QED
    BY <1>2, <1>3, <2>1 DEF InOrderOfSending
<1>11. ASSUME Sends PROVE InOrderOfSending'
  <2> DEFINE n == Len(sent) + 1
             U == 1 .. n
  <2>1. /\ U \subseteq Nat /\ T \subseteq U /\ n \in U /\ \A y \in T : y < n
    BY DEF T, TypeOK
  <2> HIDE DEF n, U
  <2>2. /\ cmds \in Seq(U) /\ In(cmds) \subseteq T
        /\ \A c \in Clients : /\ queue[c] \in Seq(U) /\ received[c] \in Seq(U)
                              /\ In(queue[c]) \subseteq T /\ In(received[c]) \subseteq T
    <3>1. \A s \in Seq(T) : s \in Seq(U) /\ In(s) \subseteq T
      <4>0. T \subseteq U
        BY <2>1
      <4>1. \A s \in Seq(T) : s \in Seq(U)
        BY <4>0
      <4>2. ASSUME NEW s \in Seq(T) PROVE In(s) \subseteq T
        BY InShape
      <4> QED
        BY <4>1, <4>2
    <3> QED
      BY <1>1, <3>1
  <2>3. Up(Append(cmds, n))
    BY <1>2, <2>1, <2>2, UpShape
  <2>4. ASSUME NEW c \in Clients PROVE InLine(received[c], queue[c], Append(cmds, n))
    <3>1. \A y \in In(received[c]) \cup In(queue[c]) \cup In(cmds) : y < n
      <4>1. In(received[c]) \subseteq T /\ In(queue[c]) \subseteq T /\ In(cmds) \subseteq T
        BY <2>2
      <4> QED
        BY <2>1, <4>1
    <3> QED
      BY <1>2, <2>1, <2>2, <3>1, LineShape
  <2> QED
    BY <1>2, <1>11, <2>3, <2>4 DEF Sends, InOrderOfSending, n
<1> QED
  BY <1>5, <1>6, <1>7, <1>8, <1>9, <1>10, <1>11, ChannelsChange DEF ChannelsMove

(* Who has a payload. *)
LEMMA HasShape ==
  ASSUME TypeOK
  PROVE  /\ \A c \in Clients : \A n : Has(c, n) => n \in 1 .. Len(sent)
         /\ cmds # <<>> =>
              /\ Head(cmds) \in 1 .. Len(sent) /\ In(cmds) = {Head(cmds)} \cup In(Tail(cmds))
              /\ InOrderOfSending => \A c \in Clients : ~Has(c, Head(cmds))
<1> DEFINE T == 1 .. Len(sent)
           h == Head(cmds)
<1>1. /\ T \subseteq Nat /\ cmds \in Seq(T)
      /\ \A c \in Clients : queue[c] \in Seq(T) /\ received[c] \in Seq(T)
  BY Channels
<1> HIDE DEF T
<1>2. ASSUME NEW c \in Clients PROVE In(queue[c]) \subseteq T /\ In(received[c]) \subseteq T
  BY <1>1, InShape
<1>3. cmds # <<>> => h \in T /\ In(cmds) = {h} \cup In(Tail(cmds))
  BY <1>1, InShape
<1> HIDE DEF h
<1>4. ASSUME cmds # <<>>, InOrderOfSending, NEW c \in Clients, Has(c, h) PROVE FALSE
  <2>1. Below(received[c], cmds) /\ Below(queue[c], cmds)
    BY <1>4 DEF InOrderOfSending, InLine
  <2>2. h \in In(cmds) /\ h \in Nat
    BY <1>1, <1>3, <1>4
  <2>3. h < h
    BY <1>4, <2>1, <2>2 DEF Has, Below
  <2> QED
    BY <2>2, <2>3
<1> QED
  BY <1>2, <1>3, <1>4 DEF Has, T, h

(* A step gives payloads to nobody, but perhaps the head of the channel to *)
(* some.                                                                   *)
LEMMA HasNext ==
  ASSUME TypeOK, [Next]_vars, sent' = sent
  PROVE  \/ \A c \in Clients : \A n : Has(c, n)' => Has(c, n)
         \/ \E to \in SUBSET Clients :
              /\ cmds # <<>>
              /\ \/ protocol = "map" /\ to \in Recipients(sent[Head(cmds)])
                 \/ protocol \in {"ws", "udp"} /\ peer \in Clients /\ to = {peer}
              /\ \A c \in Clients : \A n :
                   Has(c, n)' => Has(c, n) \/ (n = Head(cmds) /\ c \in to)
<1> DEFINE T == 1 .. Len(sent)
           h == Head(cmds)
<1>1. /\ T \subseteq Nat /\ cmds \in Seq(T)
      /\ \A c \in Clients : queue[c] \in Seq(T) /\ received[c] \in Seq(T)
      /\ queue \in [Clients -> Seq(T)] /\ received \in [Clients -> Seq(T)]
  BY Channels
<1>2. cmds # <<>> => h \in T
  BY HasShape
<1> HIDE DEF T
<1>3. ASSUME NEW c \in Clients, NEW x \in T
      PROVE  /\ In(Append(queue[c], x)) = In(queue[c]) \cup {x}
             /\ In(Append(received[c], x)) = In(received[c]) \cup {x}
  BY <1>1, InShape
<1> HIDE DEF h
<1>4. CASE Stay \/ Discards
  BY <1>4 DEF Stay, Discards, Has
<1>5. ASSUME NEW to \in Recipients(sent[h]), Spreads(to)
      PROVE  /\ to \in SUBSET Clients /\ cmds # <<>> /\ protocol = "map"
             /\ \A c \in Clients : \A n : Has(c, n)' => Has(c, n) \/ (n = h /\ c \in to)
  <2>1. to \in SUBSET Clients
    BY DEF Recipients, TypeOK
  <2>2. cmds # <<>> /\ protocol = "map" /\ received' = received
    BY <1>5 DEF Spreads, Taken
  <2>3. \A c \in Clients : queue'[c] = queue[c] \/ (c \in to /\ queue'[c] = Append(queue[c], h))
    BY <1>5 DEF Spreads, h
  <2>4. \A c \in Clients : In(queue'[c]) = In(queue[c])
                          \/ (c \in to /\ In(queue'[c]) = In(queue[c]) \cup {h})
    BY <1>2, <1>3, <2>2, <2>3
  <2> QED
    BY <2>1, <2>2, <2>4 DEF Has
<1>6. ASSUME Replies
      PROVE  /\ cmds # <<>> /\ protocol \in {"ws", "udp"} /\ peer \in Clients
             /\ \A c \in Clients : \A n : Has(c, n)' => Has(c, n) \/ (n = h /\ c \in {peer})
  <2>1. cmds # <<>> /\ protocol \in {"ws", "udp"} /\ peer \in Clients /\ queue' = queue
    BY <1>6 DEF Replies, Taken
  <2>2. \A c \in Clients :
          received'[c] = received[c] \/ (c = peer /\ received'[c] = Append(received[c], h))
    BY <1>1, <1>6 DEF Replies, h
  <2>3. \A c \in Clients : In(received'[c]) = In(received[c])
                          \/ (c = peer /\ In(received'[c]) = In(received[c]) \cup {h})
    BY <1>2, <1>3, <2>1, <2>2
  <2> QED
    BY <2>1, <2>3 DEF Has
<1>7. ASSUME NEW c \in Clients, Writes(c)
      PROVE  \A d \in Clients : \A n : Has(d, n)' => Has(d, n)
  <2> DEFINE q == queue[c]
  <2>1. q \in Seq(T) /\ q # <<>>
    BY <1>1, <1>7 DEF Writes
  <2>2. /\ queue'[c] = Tail(q) /\ received'[c] = Append(received[c], Head(q))
        /\ \A d \in Clients : d # c => queue'[d] = queue[d] /\ received'[d] = received[d]
    BY <1>1, <1>7 DEF Writes
  <2> HIDE DEF q
  <2>3. Head(q) \in T /\ In(q) = {Head(q)} \cup In(Tail(q))
    BY <2>1, InShape
  <2>4. In(received'[c]) = In(received[c]) \cup {Head(q)}
    BY <1>3, <2>2, <2>3
  <2> QED
    BY <2>2, <2>3, <2>4 DEF Has, q
<1>8. ASSUME NEW c \in Clients, Empties(c)
      PROVE  \A d \in Clients : \A n : Has(d, n)' => Has(d, n)
  <2>1. /\ received' = received /\ queue'[c] = <<>>
        /\ \A d \in Clients : d # c => queue'[d] = queue[d]
    BY <1>1, <1>8 DEF Empties
  <2>2. In(<<>>) = {}
    BY DEF In
  <2> QED
    BY <2>1, <2>2 DEF Has
<1>9. CASE Sends
  BY <1>9 DEF Sends, Has
<1> QED
  BY <1>4, <1>5, <1>6, <1>7, <1>8, <1>9, ChannelsChange DEF ChannelsMove, h

LEMMA ForOneNext ==
  ASSUME TypeOK, Known, InOrderOfSending, ForOne, [Next]_vars
  PROVE  ForOne'
<1> DEFINE Good(n) ==
             ~sent[n].all =>
               /\ sent[n].to # 0 => \A c \in Clients : Has(c, n)' => Id(c) = sent[n].to
               /\ \A c, d \in Clients : Has(c, n)' /\ Has(d, n)' => c = d
<1>1. \A c : Id(c)' = Id(c)
  BY Steady DEF Id
<1>2. ASSUME sent' = sent, \A n \in 1 .. Len(sent) : Good(n) PROVE ForOne'
  BY <1>1, <1>2 DEF ForOne
<1>3. ASSUME NEW n \in 1 .. Len(sent), \A c \in Clients : Has(c, n)' => Has(c, n) PROVE Good(n)
  BY <1>3 DEF ForOne
<1>4. ASSUME NEW n \in 1 .. Len(sent), NEW to \in SUBSET Clients,
             \A c \in Clients : Has(c, n)' => c \in to,
             ~sent[n].all => /\ sent[n].to # 0 => \A c \in to : Id(c) = sent[n].to
                             /\ \A c, d \in to : c = d
      PROVE  Good(n)
  BY <1>4
<1>5. CASE sent' = sent
  <2>1. CASE \A c \in Clients : \A n : Has(c, n)' => Has(c, n)
    BY <1>2, <1>3, <1>5, <2>1
  <2>2. ASSUME NEW to \in SUBSET Clients, cmds # <<>>,
               \/ protocol = "map" /\ to \in Recipients(sent[Head(cmds)])
               \/ protocol \in {"ws", "udp"} /\ peer \in Clients /\ to = {peer},
               \A c \in Clients : \A n :
                 Has(c, n)' => Has(c, n) \/ (n = Head(cmds) /\ c \in to)
        PROVE  ForOne'
    <3>0. PICK h : h = Head(cmds)
      OBVIOUS
    <3> DEFINE m == sent[h]
    <3>1. h \in 1 .. Len(sent) /\ \A c \in Clients : ~Has(c, h)
      BY <2>2, <3>0, HasShape
    <3>2. m.to \in KnownIds \cup {0}
      BY <3>1 DEF Known, SentKnown
    <3>3. \A n \in 1 .. Len(sent) : n # h => \A c \in Clients : Has(c, n)' => Has(c, n)
      BY <2>2, <3>0, Zenon
    <3>4. \A c \in Clients : Has(c, h)' => c \in to
      BY <2>2, <3>0, <3>1
    <3>5. ASSUME ~m.all
          PROVE  (m.to # 0 => \A c \in to : Id(c) = m.to) /\ \A c, d \in to : c = d
      <4>1. CASE protocol = "map" /\ to \in Recipients(m)
        BY <3>5, <4>1 DEF Recipients, Id
      <4>2. CASE protocol = "ws" /\ to = {peer}
        BY <3>2, <4>2 DEF KnownIds, Id
      <4>3. CASE protocol = "udp" /\ to = {peer}
        BY <3>2, <4>3 DEF KnownIds
      <4> QED
        BY <2>2, <3>0, <4>1, <4>2, <4>3
    <3>6. Good(h)
      BY <1>4, <3>1, <3>4, <3>5
    <3>7. \A n \in 1 .. Len(sent) : n # h => Good(n)
      BY <1>3, <3>3
    <3> HIDE DEF Good
    <3> QED
      BY <1>2, <1>5, <3>6, <3>7
  <2> QED
    BY <1>5, <2>1, <2>2, HasNext
<1>6. ASSUME NEW all \in BOOLEAN, Sends, Len(sent') = Len(sent) + 1,
             \A n \in 1 .. Len(sent) : sent'[n] = sent[n]
      PROVE  ForOne'
  <2>1. \A c \in Clients : \A n : Has(c, n)' <=> Has(c, n)
    BY <1>6 DEF Sends, Has
  <2>2. Len(sent) \in Nat
    BY DEF TypeOK
  <2>3. \A n \in 1 .. Len(sent') : n \in 1 .. Len(sent) \/ n \notin 1 .. Len(sent)
    OBVIOUS
  <2>4. \A n \in 1 .. Len(sent) : ~sent'[n].all =>
          /\ sent'[n].to # 0 => \A c \in Clients : Has(c, n)' => Id(c)' = sent'[n].to
          /\ \A c, d \in Clients : Has(c, n)' /\ Has(d, n)' => c = d
    BY <1>1, <1>6, <2>1 DEF ForOne
  <2>5. \A n : n \notin 1 .. Len(sent) => \A c \in Clients : ~Has(c, n)'
    BY <2>1, HasShape
  <2> QED
    BY <2>3, <2>4, <2>5 DEF ForOne
<1> QED
  BY <1>5, <1>6, SentChange, ChannelsChange DEF ChannelsMove

------------------------------------------------------------------------------
(* Broadcasts. *)

(* A client that has ended stays that, and so does a listener that failed. *)
LEMMA EndedStays ==
  ASSUME TypeOK, Stages, [Next]_vars
  PROVE  /\ \A c \in Clients : client[c] \in Ended => client'[c] \in Ended
         /\ server = "failed" => server' = "failed"
<1> USE DEF session, loop, tasks
<1>0. /\ client \in [Clients -> {"none", "serving", "ending", "removed", "left", "lost"}]
      /\ accepting # 0 /\ accepting \in Clients /\ protocol # "udp" => client[accepting] \notin Ended
  <2>1. protocol = "map" => \A c \in Clients : client[c] # "none" => c \in Accepted \ {accepting}
    BY DEF Stages, MapStages
  <2>2. protocol = "ws" => \A c \in Clients : client[c] # "none" => c \in Accepted \ {accepting}
    BY DEF Stages, WebSocketStages
  <2> QED
    BY <2>1, <2>2, Kinds DEF TypeOK, Ended
<1>1. ASSUME Ends("closed") \/ Ends("failed"), server = "run"
      PROVE  /\ \A c \in Clients : client[c] \in Ended => client'[c] \in Ended
             /\ server = "failed" => server' = "failed"
  BY <1>1, EndsType DEF Ended
<1>2. CASE UNCHANGED <<server, client>>
  BY <1>2
<1>3. CASE UserStep \/ HandleEvent \/ UNCHANGED vars
  BY <1>2, <1>3 DEF UserStep, SendComposer, SelectClient, CloseTab, HandleEvent, vars
<1>4. CASE Accept \/ AcceptFails \/ Command \/ EndOfCommands
  BY <1>1, <1>2, <1>4 DEF Accept, AcceptFails, Command, EndOfCommands, WithMap, Running, Fails
<1>5. CASE Register
  <2>1. client' = [client EXCEPT ![accepting] = "serving"] /\ server' = server
        /\ accepting # 0 /\ protocol # "udp"
    BY <1>5 DEF Register
  <2>2. accepting \in Clients
    <3>1. accepting \in 0 .. MaxClients
      BY DEF TypeOK
    <3> QED
      BY <2>1, <3>1, Basics DEF Clients
  <2> QED
    BY <1>0, <2>1, <2>2
<1>6. ASSUME NEW c \in Clients, ClientStep(c)
      PROVE  /\ \A d \in Clients : client[d] \in Ended => client'[d] \in Ended
             /\ server = "failed" => server' = "failed"
  <2>1. CASE Read(c) \/ Write(c)
    BY <2>1 DEF Read, Write
  <2>2. CASE ClientEnds(c) \/ Deregister(c) \/ AnnounceLeft(c)
    <3>1. \E x \in {"ending", "removed", "left"} : client' = [client EXCEPT ![c] = x]
      BY <2>2 DEF ClientEnds, Deregister, AnnounceLeft
    <3>2. server' = server
      BY <2>2 DEF ClientEnds, Deregister, AnnounceLeft
    <3> QED
      BY <1>0, <3>1, <3>2 DEF Ended
  <2> QED
    BY <1>6, <2>1, <2>2 DEF ClientStep
<1>7. CASE Handshake
  <2>1. CASE Fails
    BY <1>1, <1>7, <2>1, EndsType DEF Handshake, Fails, Ended, Ends
  <2>2. CASE client' = [client EXCEPT ![accepting] = "serving"] /\ UNCHANGED server
    <3>1. accepting # 0 /\ protocol # "udp"
      BY <1>7 DEF Handshake
    <3>2. accepting \in Clients
      <4>1. accepting \in 0 .. MaxClients
        BY DEF TypeOK
      <4> QED
        BY <3>1, <4>1, Basics DEF Clients
    <3> QED
      BY <1>0, <2>2, <3>1, <3>2
  <2> QED
    BY <1>7, <2>1, <2>2 DEF Handshake
<1>8. CASE DropCommand \/ ReadWebSocket \/ NobodyToReplyTo
  BY <1>2, <1>8 DEF DropCommand, ReadWebSocket, NobodyToReplyTo
<1>9. CASE WebSocketLeaves \/ WebSocketLost
  <2>1. \E x \in {"left", "lost"} : client' = [client EXCEPT ![peer] = x]
    BY <1>9 DEF WebSocketLeaves, WebSocketLost, WebSocketEnds
  <2>2. server' = server
    BY <1>9 DEF WebSocketLeaves, WebSocketLost, WebSocketEnds
  <2> QED
    BY <1>0, <2>1, <2>2 DEF Ended
<1>10. CASE DatagramFails \/ Reply
  BY <1>1, <1>2, <1>10 DEF DatagramFails, Reply, Fails, Running
<1>11. ASSUME NEW c \in Clients, ReadDatagram(c) PROVE UNCHANGED <<server, client>>
  BY <1>11 DEF ReadDatagram
<1> QED
  BY <1>2, <1>3, <1>4, <1>5, <1>6, <1>7, <1>8, <1>9, <1>10, <1>11 DEF Next, Serve, ServeOne

(* Where a broadcast is, for a client it was meant for. *)
Reached(n, c) ==
  \/ client[c] \in Ended \/ server = "failed"
  \/ n \in In(cmds)
  \/ n \in In(queue[c]) \cup In(received[c])

LEMMA BroadcastReached ==
  BroadcastReachesAll <=> \A n \in 1 .. Len(sent) : \A c \in sent[n].seen : Reached(n, c)
BY DEF BroadcastReachesAll, Reached, In, Got

LEMMA BroadcastNext ==
  ASSUME TypeOK, Known, Stages, ServerInv, BroadcastReachesAll, [Next]_vars
  PROVE  BroadcastReachesAll'
<1> DEFINE T == 1 .. Len(sent)
           h == Head(cmds)
           Meant(n, c) == n \in T /\ c \in sent[n].seen
<1>1. /\ T \subseteq Nat /\ cmds \in Seq(T)
      /\ \A c \in Clients : queue[c] \in Seq(T) /\ received[c] \in Seq(T)
      /\ queue \in [Clients -> Seq(T)] /\ received \in [Clients -> Seq(T)]
  BY Channels
<1>2. \A n, c : Meant(n, c) => Reached(n, c)
  BY BroadcastReached
<1>3. \A n, c : Meant(n, c) => c \in Accepted /\ c \in Clients /\ sent[n].all
  BY AcceptedType DEF Known, SentKnown
<1>4. cmds # <<>> => h \in T /\ In(cmds) = {h} \cup In(Tail(cmds))
  BY HasShape
<1>5. \A n, c : Meant(n, c) => protocol # "udp"
  <2>1. protocol = "udp" => Accepted = {}
    <3>1. protocol = "udp" => next = 1
      BY DEF Stages, DatagramStages
    <3> QED
      BY <3>1 DEF Accepted
  <2> QED
    BY <1>3, <2>1
<1> HIDE DEF T, h, Meant
<1>6. ASSUME NEW n, NEW c, Meant(n, c),
             n \in In(cmds) => client'[c] \in Ended \/ server' = "failed" \/ n \in In(cmds')
                               \/ n \in In(queue'[c]) \cup In(received'[c]),
             n \in In(queue[c]) \cup In(received[c]) =>
               client'[c] \in Ended \/ n \in In(queue'[c]) \cup In(received'[c])
      PROVE  Reached(n, c)'
  BY <1>2, <1>3, <1>6, EndedStays DEF Reached
<1>7. ASSUME NEW n, NEW c, Meant(n, c), Stay PROVE Reached(n, c)'
  BY <1>5, <1>6, <1>7 DEF Stay
<1>8. ASSUME NEW n, NEW c, Meant(n, c), Discards PROVE Reached(n, c)'
  <2>1. client[c] \in Ended
    BY <1>3, <1>5, <1>8, Kinds, Basics DEF Discards, Taken, Stages, WebSocketStages, Ended
  <2> QED
    BY <1>3, <1>8, <2>1, EndedStays DEF Reached
<1>9. ASSUME NEW n, NEW c, Meant(n, c), NEW to \in Recipients(sent[h]), Spreads(to)
      PROVE  Reached(n, c)'
  <2>1. cmds # <<>> /\ cmds' = Tail(cmds) /\ accepting = 0 /\ received' = received /\ protocol = "map"
    BY <1>9 DEF Spreads, Taken
  <2>2. queue'[c] \in {queue[c], Append(queue[c], h)}
    BY <1>3, <1>9 DEF Spreads, h
  <2>3. h \in T /\ In(Append(queue[c], h)) = In(queue[c]) \cup {h}
    BY <1>1, <1>3, <1>4, <1>9, <2>1, InShape
  <2>4. CASE client[c] \in Ended
    BY <1>3, <1>9, <2>4, EndedStays DEF Reached
  <2>5. CASE client[c] \notin Ended
    <3>1. client[c] = "serving" /\ c \in map
      BY <1>3, <1>9, <2>1, <2>5, Basics DEF TypeOK, Stages, MapStages, Ended
    <3>2. ASSUME n = h PROVE queue'[c] = Append(queue[c], h)
      <4>1. to = map
        BY <1>3, <1>9, <3>2 DEF Recipients
      <4> QED
        BY <1>3, <1>9, <3>1, <4>1 DEF Spreads, h
    <3>3. n \in In(cmds) => n = h \/ n \in In(cmds')
      BY <1>4, <2>1
    <3> QED
      BY <1>6, <1>9, <2>1, <2>2, <2>3, <3>2, <3>3
  <2> QED
    BY <2>4, <2>5
<1>10. ASSUME NEW n, NEW c, Meant(n, c), Replies PROVE Reached(n, c)'
  <2>1. /\ cmds # <<>> /\ cmds' = Tail(cmds) /\ accepting = 0 /\ queue' = queue
        /\ protocol = "ws" /\ peer \in Clients
    BY <1>5, <1>10 DEF Replies, Taken
  <2>2. \A d \in Clients : received'[d] = IF d = peer THEN Append(received[d], h) ELSE received[d]
    BY <1>1, <1>10 DEF Replies, h
  <2>3. h \in T /\ In(Append(received[c], h)) = In(received[c]) \cup {h}
    BY <1>1, <1>3, <1>4, <1>10, <2>1, InShape
  <2>4. c = peer \/ client[c] \in Ended
    BY <1>3, <1>10, <2>1, Basics DEF Stages, WebSocketStages, Ended
  <2>5. CASE client[c] \in Ended
    BY <1>3, <1>10, <2>5, EndedStays DEF Reached
  <2>6. CASE c = peer
    <3>1. In(received'[c]) = In(received[c]) \cup {h}
      BY <2>1, <2>2, <2>3, <2>6
    <3> QED
      BY <1>4, <1>6, <1>10, <2>1, <3>1
  <2> QED
    BY <2>4, <2>5, <2>6
<1>11. ASSUME NEW n, NEW c, Meant(n, c), NEW d \in Clients, Writes(d) PROVE Reached(n, c)'
  <2> DEFINE q == queue[d]
  <2>1. q \in Seq(T) /\ q # <<>> /\ cmds' = cmds
    BY <1>1, <1>11 DEF Writes
  <2>2. /\ queue'[d] = Tail(q) /\ received'[d] = Append(received[d], Head(q))
        /\ \A e \in Clients : e # d => queue'[e] = queue[e] /\ received'[e] = received[e]
    BY <1>1, <1>11 DEF Writes
  <2> HIDE DEF q
  <2>3. Head(q) \in T /\ In(q) = {Head(q)} \cup In(Tail(q))
    BY <2>1, InShape
  <2>4. In(received'[d]) = In(received[d]) \cup {Head(q)}
    BY <1>1, <2>2, <2>3, InShape
  <2>5. In(queue[c]) \cup In(received[c]) = In(queue'[c]) \cup In(received'[c])
    BY <1>3, <1>11, <2>2, <2>3, <2>4 DEF q
  <2> QED
    BY <1>6, <1>11, <2>1, <2>5
<1>12. ASSUME NEW n, NEW c, Meant(n, c), NEW d \in Clients, Empties(d) PROVE Reached(n, c)'
  <2>1. /\ cmds' = cmds /\ received' = received /\ client'[d] \in Ended
        /\ \A e \in Clients : e # d => queue'[e] = queue[e]
    BY <1>1, <1>12 DEF Empties
  <2> QED
    BY <1>3, <1>6, <1>12, <2>1
<1>13. ASSUME sent' = sent PROVE BroadcastReachesAll'
  <2>1. \/ Stay \/ Discards \/ Replies
        \/ \E to \in Recipients(sent[h]) : Spreads(to)
        \/ \E d \in Clients : Writes(d) \/ Empties(d)
        \/ Sends /\ \E all \in BOOLEAN : SendComposer(all)
    BY ChannelsChange DEF ChannelsMove, h
  <2>2. ~(Sends /\ \E all \in BOOLEAN : SendComposer(all))
    <3>1. ASSUME NEW all \in BOOLEAN, SendComposer(all) PROVE FALSE
      <4>1. \E m : sent' = Append(sent, m)
        BY <3>1 DEF SendComposer
      <4>2. sent \in Seq(Message)
        BY DEF TypeOK
      <4> QED
        BY <1>13, <4>1, <4>2
    <3> QED
      BY <3>1
  <2>3. ASSUME NEW n, NEW c, Meant(n, c) PROVE Reached(n, c)'
    BY <1>7, <1>8, <1>9, <1>10, <1>11, <1>12, <2>1, <2>2, <2>3
  <2> QED
    BY <1>13, <2>3 DEF Meant, T, BroadcastReachesAll, Reached, In, Got
<1>14. ASSUME NEW all \in BOOLEAN, SendComposer(all), Sends, Len(sent') = Len(sent) + 1,
              sent'[Len(sent) + 1] = Composed(all), \A n \in 1 .. Len(sent) : sent'[n] = sent[n]
       PROVE  BroadcastReachesAll'
  <2>0. PICK k : k = Len(sent) + 1
    OBVIOUS
  <2>1. /\ k \in Nat /\ k >= 1 /\ \A n \in 1 .. k : n = k \/ n \in T
    BY <2>0 DEF T, TypeOK
  <2>2. cmds' = (IF server = "run" THEN Append(cmds, k) ELSE cmds)
    BY <1>14, <2>0 DEF Sends
  <2>3. T \subseteq 1 .. k /\ k \in 1 .. k /\ cmds \in Seq(1 .. k)
    <3>1. T \subseteq 1 .. k /\ k \in 1 .. k
      BY <2>0, <2>1 DEF T
    <3> DEFINE U == 1 .. k
    <3>2. T \subseteq U
      BY <3>1
    <3> HIDE DEF U
    <3>3. cmds \in Seq(T)
      BY <1>1
    <3>4. cmds \in Seq(U)
      BY <3>2, <3>3
    <3> QED
      BY <3>1, <3>4 DEF U
  <2>4. In(Append(cmds, k)) = In(cmds) \cup {k}
    BY <2>3, InShape
  <2>5. UNCHANGED <<queue, received, client>> /\ server' = server /\ open
    BY <1>14 DEF Sends, SendComposer, loop, tasks
  <2>6. ASSUME NEW n, NEW c, Meant(n, c) PROVE Reached(n, c)'
    BY <1>2, <2>2, <2>4, <2>5, <2>6 DEF Reached
  <2>7. ASSUME NEW c \in Composed(all).seen PROVE Reached(k, c)'
    <3>1. c \in Accepted
      BY <2>7 DEF Composed, Known, ListKnown, Peers
    <3>2. protocol # "udp"
      <4>1. protocol = "udp" => next = 1
        BY DEF Stages, DatagramStages
      <4> QED
        BY <3>1, <4>1 DEF Accepted
    <3>3. server = "run" \/ server = "failed"
      BY <2>5, <3>2 DEF ServerInv, TypeOK
    <3> QED
      BY <2>2, <2>4, <2>5, <3>3 DEF Reached
  <2>8. Len(sent') = k /\ sent'[k] = Composed(all)
    BY <1>14, <2>0
  <2>9. ASSUME NEW n \in 1 .. Len(sent'), NEW c \in sent'[n].seen PROVE Reached(n, c)'
    <3>1. CASE n = k
      BY <2>7, <2>8, <2>9, <3>1
    <3>2. CASE n \in T
      <4>1. Meant(n, c)
        BY <1>14, <2>9, <3>2 DEF Meant, T
      <4> QED
        BY <2>6, <4>1
    <3> QED
      BY <2>1, <2>8, <3>1, <3>2
  <2> QED
    BY <2>9 DEF BroadcastReachesAll, Reached, In, Got
<1> QED
  BY <1>13, <1>14, SentChange, ChannelsChange DEF ChannelsMove

------------------------------------------------------------------------------
(* The theorems. *)
LEMMA IInvInit == Init => IInv
<1> SUFFICES ASSUME Init PROVE IInv
  OBVIOUS
<1>1. TypeOK
  BY TypeInit
<1>2. /\ list = <<>> /\ sent = <<>> /\ events = <<>> /\ cmds = <<>> /\ selected = 0
      /\ server = "run" /\ accepting = 0 /\ peer = 0 /\ next = 1 /\ map = {}
      /\ \A c \in Clients : client[c] = "none" /\ queue[c] = <<>> /\ received[c] = <<>>
  BY DEF Init
<1>3. Known
  BY <1>2 DEF Known, EventsKnown, ListKnown, SentKnown
<1>4. Stages
  <2>1. Accepted = {} /\ protocol \in {"map", "ws", "udp"}
    BY <1>1, <1>2, Kinds DEF Accepted
  <2>2. MapStages /\ WebSocketStages /\ DatagramStages
    BY <1>2, <2>1 DEF MapStages, WebSocketStages, DatagramStages
  <2> QED
    BY <2>1, <2>2 DEF Stages
<1>5. ServerInv
  BY <1>2 DEF ServerInv
<1>6. InOrderOfSending
  BY <1>2 DEF InOrderOfSending, InLine, Up, Below, In
<1>7. ForOne /\ BroadcastReachesAll
  BY <1>2 DEF ForOne, BroadcastReachesAll
<1> QED
  BY <1>1, <1>3, <1>4, <1>5, <1>6, <1>7 DEF IInv

LEMMA IInvNext == IInv /\ [Next]_vars => IInv'
<1> SUFFICES ASSUME IInv, [Next]_vars PROVE IInv'
  OBVIOUS
<1>1. /\ TypeOK /\ Known /\ EventsKnown /\ Stages /\ ServerInv
      /\ InOrderOfSending /\ ForOne /\ BroadcastReachesAll
  BY DEF IInv, Known
<1>2. TypeOK' /\ Known'
  BY <1>1, TypeNext, KnownNext
<1>3. Stages' /\ ServerInv'
  BY <1>1, StagesNext, ServerNext
<1>4. InOrderOfSending' /\ ForOne'
  BY <1>1, OrderNext, ForOneNext
<1>5. BroadcastReachesAll'
  BY <1>1, BroadcastNext
<1> QED
  BY <1>2, <1>3, <1>4, <1>5 DEF IInv

LEMMA Invariance == Spec => []IInv
BY IInvInit, IInvNext, PTL DEF Spec

(* The session and the tasks that serve its clients keep their types.      *)
THEOREM TypeCorrect == Spec => []TypeOK
<1>1. IInv => TypeOK
  BY DEF IInv
<1> QED
  BY <1>1, Invariance, PTL

(* ListenCommand::Send reaches the client it is for and no other, whoever  *)
(* joins or leaves meanwhile, and every client gets what it gets once and  *)
(* in the order of sending.                                                *)
THEOREM ClientsGetWhatIsMeant == Spec => []DeliveredAsMeant
<1>1. ASSUME IInv PROVE DeliveredAsMeant
  <2>1. \A c \in Clients : \A n : Got(c, n) => Has(c, n)
    BY DEF Got, Has, In
  <2>2. \A n \in 1 .. Len(sent) : ~sent[n].all =>
          /\ sent[n].to # 0 => \A c \in Clients : Got(c, n) => Id(c) = sent[n].to
          /\ \A c, d \in Clients : Got(c, n) /\ Got(d, n) => c = d
    BY <1>1, <2>1 DEF IInv, ForOne
  <2>3. \A c \in Clients :
          received[c] # <<>> => IF protocol = "udp" THEN read[c] > 0 ELSE c < next
    BY <1>1, Kinds, AcceptedType
    DEF IInv, Stages, MapStages, WebSocketStages, DatagramStages
  <2>4. \A c \in Clients : \A k, l \in 1 .. Len(received[c]) : k < l => received[c][k] < received[c][l]
    BY <1>1 DEF IInv, InOrderOfSending, InLine, Up
  <2> QED
    BY <2>2, <2>3, <2>4 DEF DeliveredAsMeant
<1> QED
  BY <1>1, Invariance, PTL

(* ListenCommand::Broadcast: nothing is lost on the way from the composer  *)
(* to the clients that were listed.                                        *)
THEOREM BroadcastsReachAll == Spec => []BroadcastReachesAll
<1>1. IInv => BroadcastReachesAll
  BY DEF IInv
<1> QED
  BY <1>1, Invariance, PTL

------------------------------------------------------------------------------
(* The inductive invariant of the list, on top of that of the payloads. *)

Joins(e, c) == e.ev = "ClientJoined" /\ e.peer = c

Leaves(e, id) == e.ev = "ClientLeft" /\ e.id = id

(* A client joins once: it is in the list, or will be, at most once.       *)
JoinsOnce ==
  /\ \A i, j \in 1 .. Len(list) : list[i].peer = list[j].peer => i = j
  /\ \A c \in Clients : \A j, k \in 1 .. Len(events) :
       Joins(events[j], c) => c \notin Peers(list) /\ (Joins(events[k], c) => j = k)

Selection == IF list = <<>> THEN selected = 0 ELSE selected \in Ids(list)

ShowsClients ==
  open => \A c \in Clients : /\ Shown(c) => c < next /\ client[c] # "left"
                             /\ c < next /\ client[c] \notin {"left", "lost"} => Shown(c)

Directions == {"In", "Out"}

Entry(r, d) == IF d = "In" THEN r.in ELSE r.out

Count(d, c) == Cardinality(Pending(d, c))

Done(d, c) == IF d = "In" THEN read[c] ELSE Len(received[c])

(* What was exchanged with a client is counted or on the way, also before  *)
(* it is listed, and nothing comes before the event that lists it.         *)
CountedOrPending ==
  \A c \in Clients : \A d \in Directions : \A i \in 1 .. Len(list) :
    list[i].peer = c => Entry(list[i], d) + Count(d, c) = Done(d, c)

PendingFromTheStart ==
  \A c \in Clients : \A d \in Directions : \A j \in 1 .. Len(events) :
    Joins(events[j], c) => Count(d, c) = Done(d, c) /\ \A k \in Pending(d, c) : j < k

NothingBefore ==
  protocol # "udp" =>
    \A c \in Clients \ Accepted : \A d \in Directions : Done(d, c) = 0 /\ Pending(d, c) = {}

Balanced == open => CountedOrPending /\ PendingFromTheStart /\ NothingBefore

ListInv == JoinsOnce /\ Selection /\ ShowsClients /\ Balanced

------------------------------------------------------------------------------
(* What the pending events say, for one more or one less of them. *)
Source(s, P, c, j) == IF j = 0 THEN c \in P ELSE Joins(s[j], c)

(* Shown, of a list with the peers P and the pending events s.             *)
ShownIn(s, P, c, id) ==
  \E j \in 0 .. Len(s) : Source(s, P, c, j) /\ \A k \in j + 1 .. Len(s) : ~Leaves(s[k], id)

LEMMA ShownAsIn == \A c : Shown(c) <=> ShownIn(events, Peers(list), c, Id(c))
BY DEF Shown, ShownIn, Source, Adds, Removes, Joins, Leaves

LEMMA ShownTold ==
  ASSUME NEW s \in Seq(Event), NEW e \in Event, NEW P, NEW c, NEW id
  PROVE  ShownIn(Append(s, e), P, c, id) <=>
           Joins(e, c) \/ (ShownIn(s, P, c, id) /\ ~Leaves(e, id))
<1> DEFINE t == Append(s, e)
           n == Len(s)
<1>1. /\ n \in Nat /\ Len(t) = n + 1 /\ t[n + 1] = e
      /\ \A i \in 1 .. n : t[i] = s[i]
  OBVIOUS
<1> HIDE DEF t, n
<1>2. \A j \in 0 .. n : Source(t, P, c, j) <=> Source(s, P, c, j)
  BY <1>1 DEF Source
<1>3. Source(t, P, c, n + 1) <=> Joins(e, c)
  BY <1>1 DEF Source
<1>4. ASSUME ShownIn(t, P, c, id), ~Joins(e, c) PROVE ShownIn(s, P, c, id) /\ ~Leaves(e, id)
  <2>1. PICK j \in 0 .. n + 1 : Source(t, P, c, j) /\ \A k \in j + 1 .. n + 1 : ~Leaves(t[k], id)
    BY <1>1, <1>4 DEF ShownIn
  <2>2. j \in 0 .. n
    BY <1>1, <1>3, <1>4, <2>1
  <2>3. n + 1 \in j + 1 .. n + 1 /\ \A k \in j + 1 .. n : k \in j + 1 .. n + 1 /\ k \in 1 .. n
    BY <1>1, <2>2
  <2> QED
    BY <1>1, <1>2, <2>1, <2>2, <2>3 DEF ShownIn, n
<1>5. ASSUME Joins(e, c) PROVE ShownIn(t, P, c, id)
  <2>1. n + 1 \in 0 .. n + 1 /\ \A k : k \notin (n + 1) + 1 .. n + 1
    BY <1>1
  <2> QED
    BY <1>1, <1>3, <1>5, <2>1 DEF ShownIn
<1>6. ASSUME ShownIn(s, P, c, id), ~Leaves(e, id) PROVE ShownIn(t, P, c, id)
  <2>1. PICK j \in 0 .. n : Source(s, P, c, j) /\ \A k \in j + 1 .. n : ~Leaves(s[k], id)
    BY <1>6 DEF ShownIn, n
  <2>2. j \in 0 .. n + 1
    BY <1>1
  <2>3. \A k \in j + 1 .. n + 1 : k = n + 1 \/ (k \in j + 1 .. n /\ k \in 1 .. n)
    BY <1>1
  <2>4. \A k \in j + 1 .. n + 1 : ~Leaves(t[k], id)
    BY <1>1, <1>6, <2>1, <2>3
  <2> QED
    BY <1>1, <1>2, <2>1, <2>2, <2>4 DEF ShownIn
<1> QED
  BY <1>4, <1>5, <1>6 DEF t, Joins, Leaves

LEMMA TailShape ==
  ASSUME NEW S, NEW s \in Seq(S), s # <<>>
  PROVE  /\ Len(Tail(s)) \in Nat /\ Len(s) = Len(Tail(s)) + 1 /\ Tail(s) \in Seq(S)
         /\ s[1] = Head(s) /\ Head(s) \in S
         /\ \A i \in 1 .. Len(Tail(s)) : i + 1 \in 1 .. Len(s) /\ Tail(s)[i] = s[i + 1]
OBVIOUS

LEMMA ShownHandled ==
  ASSUME NEW s \in Seq(Event), s # <<>>, NEW P, NEW Q, NEW c, NEW id,
         c \in Q <=> Joins(Head(s), c) \/ (c \in P /\ ~Leaves(Head(s), id))
  PROVE  ShownIn(Tail(s), Q, c, id) <=> ShownIn(s, P, c, id)
<1> DEFINE t == Tail(s)
           n == Len(t)
           e == Head(s)
<1>1. /\ n \in Nat /\ Len(s) = n + 1 /\ s[1] = e
      /\ \A i \in 1 .. n : t[i] = s[i + 1]
  BY TailShape
<1>2. c \in Q <=> Joins(e, c) \/ (c \in P /\ ~Leaves(e, id))
  OBVIOUS
<1> HIDE DEF t, n, e
<1>3. Source(s, P, c, 1) <=> Joins(e, c)
  BY <1>1 DEF Source
<1>4. \A j \in 1 .. n : Source(t, Q, c, j) <=> Source(s, P, c, j + 1)
  BY <1>1 DEF Source
<1>5. ASSUME ShownIn(t, Q, c, id) PROVE ShownIn(s, P, c, id)
  <2>1. PICK j \in 0 .. n : Source(t, Q, c, j) /\ \A k \in j + 1 .. n : ~Leaves(t[k], id)
    BY <1>5 DEF ShownIn, n
  <2>2. j \in Nat /\ j + 1 \in 0 .. n + 1 /\ \A k \in (j + 1) + 1 .. n + 1 :
          k - 1 \in j + 1 .. n /\ k - 1 \in 1 .. n /\ (k - 1) + 1 = k
    BY <1>1
  <2>3. \A k \in (j + 1) + 1 .. n + 1 : ~Leaves(s[k], id)
    <3>1. ASSUME NEW k \in (j + 1) + 1 .. n + 1 PROVE t[k - 1] = s[k]
      <4>1. t[k - 1] = s[(k - 1) + 1]
        BY <1>1, <2>2
      <4> QED
        BY <2>2, <4>1
    <3> QED
      BY <2>1, <2>2, <3>1
  <2>4. CASE Source(s, P, c, j + 1)
    BY <1>1, <2>2, <2>3, <2>4 DEF ShownIn
  <2>5. CASE j = 0 /\ c \in P /\ ~Leaves(e, id)
    <3>1. Source(s, P, c, 0) /\ 0 \in 0 .. n + 1
      BY <1>1, <2>5 DEF Source
    <3>2. \A k \in 0 + 1 .. n + 1 : k = 1 \/ k \in (j + 1) + 1 .. n + 1
      BY <1>1, <2>5
    <3>3. \A k \in 0 + 1 .. n + 1 : ~Leaves(s[k], id)
      BY <1>1, <2>3, <2>5, <3>2
    <3> QED
      BY <1>1, <3>1, <3>3 DEF ShownIn
  <2>6. j = 0 => Source(s, P, c, 0 + 1) \/ (c \in P /\ ~Leaves(e, id))
    BY <1>2, <1>3, <2>1 DEF Source
  <2>7. j # 0 => Source(s, P, c, j + 1)
    BY <1>4, <2>1
  <2> QED
    BY <2>4, <2>5, <2>6, <2>7
<1>6. ASSUME ShownIn(s, P, c, id) PROVE ShownIn(t, Q, c, id)
  <2>1. PICK j \in 0 .. n + 1 : Source(s, P, c, j) /\ \A k \in j + 1 .. n + 1 : ~Leaves(s[k], id)
    BY <1>1, <1>6 DEF ShownIn
  <2>2. ASSUME NEW i \in 0 .. n, i + 1 = j \/ (j = 0 /\ i = 0), Source(t, Q, c, i)
        PROVE  ShownIn(t, Q, c, id)
    <3>1. \A k \in i + 1 .. n : k \in 1 .. n /\ k + 1 \in j + 1 .. n + 1
      BY <1>1, <2>2
    <3>2. \A k \in i + 1 .. n : ~Leaves(t[k], id)
      BY <1>1, <2>1, <3>1
    <3> QED
      BY <2>2, <3>2 DEF ShownIn, n
  <2>3. CASE j = 0
    <3>1. c \in P
      BY <2>1, <2>3 DEF Source
    <3>2. 1 \in j + 1 .. n + 1
      BY <1>1, <2>3
    <3>3. ~Leaves(e, id)
      BY <1>1, <2>1, <3>2
    <3>4. Source(t, Q, c, 0) /\ 0 \in 0 .. n
      BY <1>1, <1>2, <3>1, <3>3 DEF Source
    <3> QED
      BY <2>2, <2>3, <3>4
  <2>4. CASE j = 1
    <3>1. Source(t, Q, c, 0) /\ 0 \in 0 .. n
      BY <1>1, <1>2, <1>3, <2>1, <2>4 DEF Source
    <3> QED
      BY <2>2, <2>4, <3>1
  <2>5. CASE j # 0 /\ j # 1
    <3>1. j - 1 \in 1 .. n /\ (j - 1) + 1 = j /\ j - 1 \in 0 .. n
      BY <1>1, <2>5
    <3>2. Source(t, Q, c, j - 1) <=> Source(s, P, c, (j - 1) + 1)
      BY <1>4, <3>1
    <3> QED
      BY <2>1, <2>2, <3>1, <3>2
  <2> QED
    BY <2>3, <2>4, <2>5
<1> QED
  BY <1>5, <1>6 DEF t

(* How many events of one kind are pending for one client. *)
At(s, d, c) == {k \in 1 .. Len(s) : s[k].ev = d /\ s[k].peer = c}

Is(e, d, c) == e.ev = d /\ e.peer = c

LEMMA PendingAsAt == \A d, c : Pending(d, c) = At(events, d, c)
BY DEF Pending, At

LEMMA AtFinite ==
  ASSUME NEW s \in Seq(Event), NEW d, NEW c
  PROVE  IsFiniteSet(At(s, d, c)) /\ Cardinality(At(s, d, c)) \in Nat
<1>1. Len(s) \in Nat /\ At(s, d, c) \in SUBSET (1 .. Len(s))
  BY DEF At
<1> QED
  BY <1>1, Positions

LEMMA AtTold ==
  ASSUME NEW s \in Seq(Event), NEW e \in Event, NEW d, NEW c
  PROVE  /\ At(Append(s, e), d, c) = IF Is(e, d, c) THEN At(s, d, c) \cup {Len(s) + 1} ELSE At(s, d, c)
         /\ Cardinality(At(Append(s, e), d, c)) =
              Cardinality(At(s, d, c)) + IF Is(e, d, c) THEN 1 ELSE 0
<1> DEFINE t == Append(s, e)
           n == Len(s)
<1>1. /\ n \in Nat /\ Len(t) = n + 1 /\ t[n + 1] = e
      /\ \A i \in 1 .. n : t[i] = s[i]
  OBVIOUS
<1> HIDE DEF t, n
<1>2. \A k : k \in 1 .. n + 1 <=> k \in 1 .. n \/ k = n + 1
  BY <1>1
<1>3. At(t, d, c) = IF Is(e, d, c) THEN At(s, d, c) \cup {n + 1} ELSE At(s, d, c)
  BY <1>1, <1>2 DEF At, Is, n
<1>4. n + 1 \notin At(s, d, c)
  BY <1>1 DEF At, n
<1>5. IsFiniteSet(At(s, d, c)) /\ Cardinality(At(s, d, c)) \in Nat
  BY AtFinite
<1>6. Cardinality(At(s, d, c) \cup {n + 1}) = Cardinality(At(s, d, c)) + 1
  BY <1>4, <1>5, FS_AddElement
<1> QED
  BY <1>3, <1>5, <1>6 DEF t, n

LEMMA AtHandled ==
  ASSUME NEW s \in Seq(Event), s # <<>>, NEW d, NEW c
  PROVE  /\ \A k \in At(Tail(s), d, c) : k + 1 \in At(s, d, c)
         /\ Cardinality(At(s, d, c)) =
              Cardinality(At(Tail(s), d, c)) + IF Is(Head(s), d, c) THEN 1 ELSE 0
<1> DEFINE t == Tail(s)
           n == Len(t)
           A == At(t, d, c)
           B == At(s, d, c)
           f == [k \in A |-> k + 1]
<1>1. /\ n \in Nat /\ Len(s) = n + 1 /\ s[1] = Head(s) /\ t \in Seq(Event)
      /\ \A i \in 1 .. n : t[i] = s[i + 1]
  BY TailShape
<1> HIDE DEF t, n
<1>2. \A k \in A : k \in Nat /\ k >= 1 /\ k + 1 \in B
  <2>1. \A k \in 1 .. n : k \in Nat /\ k >= 1 /\ k + 1 \in 1 .. n + 1
    BY <1>1
  <2> QED
    BY <1>1, <2>1 DEF At, n
<1>3. \A k \in B : k = 1 \/ (k - 1 \in A /\ k \in Nat)
  <2>1. \A k \in 1 .. n + 1 : k \in Nat /\ (k = 1 \/ (k - 1 \in 1 .. n /\ (k - 1) + 1 = k))
    BY <1>1
  <2>2. ASSUME NEW k \in B, k # 1 PROVE k - 1 \in A /\ k \in Nat
    <3>1. k \in 1 .. n + 1 /\ s[k].ev = d /\ s[k].peer = c
      BY <1>1 DEF At
    <3>2. k - 1 \in 1 .. n /\ (k - 1) + 1 = k
      BY <2>1, <2>2, <3>1
    <3>3. t[k - 1] = s[k]
      BY <1>1, <3>2
    <3> QED
      BY <2>1, <3>1, <3>2, <3>3 DEF At, n
  <2> QED
    BY <2>2
<1>4. 1 \in B <=> Is(Head(s), d, c)
  BY <1>1 DEF At, Is
<1>5. IsFiniteSet(A) /\ Cardinality(A) \in Nat
  BY <1>1, AtFinite
<1> HIDE DEF A, B
<1>6. f \in Bijection(A, B \ {1})
  <2>1. \A k \in A : k + 1 \in B \ {1}
    BY <1>2
  <2>2. f \in [A -> B \ {1}]
    BY <2>1
  <2>3. \A j, k \in A : f[j] = f[k] => j = k
    BY <1>2
  <2>4. \A k \in B \ {1} : k - 1 \in A /\ f[k - 1] = k
    BY <1>2, <1>3
  <2> QED
    BY <2>2, <2>3, <2>4 DEF Bijection, Injection, Surjection, IsInjective
<1>7. IsFiniteSet(B \ {1}) /\ Cardinality(B \ {1}) = Cardinality(A)
  BY <1>5, <1>6, FS_Bijection DEF ExistsBijection
<1>8. 1 \notin B => B \ {1} = B
  OBVIOUS
<1>9. 1 \in B => (B \ {1}) \cup {1} = B
  OBVIOUS
<1>10. Cardinality((B \ {1}) \cup {1}) = Cardinality(A) + 1
  BY <1>7, FS_AddElement
<1>11. Cardinality(B) = Cardinality(A) + IF Is(Head(s), d, c) THEN 1 ELSE 0
  <2>1. CASE 1 \in B
    <3>1. (B \ {1}) \cup {1} = B /\ Is(Head(s), d, c)
      BY <1>4, <1>9, <2>1
    <3>2. Cardinality(B) = Cardinality((B \ {1}) \cup {1})
      BY <3>1, Zenon
    <3> QED
      BY <1>10, <3>1, <3>2
  <2>2. CASE 1 \notin B
    <3>1. B \ {1} = B /\ ~Is(Head(s), d, c)
      BY <1>4, <1>8, <2>2
    <3>2. Cardinality(B) = Cardinality(B \ {1})
      BY <3>1, Zenon
    <3> QED
      BY <1>5, <1>7, <3>1, <3>2
  <2> QED
    BY <2>1, <2>2
<1> QED
  BY <1>2, <1>11 DEF A, B, t

------------------------------------------------------------------------------
(* What a step does, as far as the list is concerned. *)
Unlisted == UNCHANGED <<list, selected, open>>

Untouched == Unlisted /\ UNCHANGED <<next, read, received>>

(* No client leaves, and none that has left or was lost comes back.        *)
ClientsStay ==
  \A c \in Clients : /\ client'[c] = "left" => client[c] = "left"
                     /\ client[c] \in {"left", "lost"} => client'[c] \in {"left", "lost"}

Quiet == Untouched /\ ClientsStay /\ (events' = events \/ TellError)

Chooses == /\ open /\ UNCHANGED <<list, open, events, next, client, read, received>>
           /\ \E i \in 1 .. Len(list) : selected' = list[i].id

Joining ==
  /\ Unlisted /\ UNCHANGED <<client, read, received>>
  /\ next \in Clients /\ next' = next + 1 /\ client[next] = "none" /\ protocol # "udp"
  /\ Tell("ClientJoined", Id(next), next)

(* A WebSocket that leaves was the only one. *)
Leaving(c) ==
  /\ Untouched /\ protocol # "udp"
  /\ client' = [client EXCEPT ![c] = "left"]
  /\ Tell("ClientLeft", Id(c), 0)
  /\ protocol = "ws" => \A b \in Accepted : b = c \/ client[b] \in {"left", "lost"}

Exchanging(d, c) ==
  /\ Unlisted /\ UNCHANGED <<next, client>>
  /\ protocol # "udp" => c \in Accepted
  /\ Tell(d, 0, c)
  /\ \A b \in Clients : Done(d, b)' = IF b = c THEN Done(d, b) + 1 ELSE Done(d, b)
  /\ \A b \in Clients, e \in Directions \ {d} : Done(e, b)' = Done(e, b)

ListMove ==
  \/ HandleEvent
  \/ CloseTab
  \/ Quiet
  \/ Chooses
  \/ Joining
  \/ \E c \in Clients : Leaving(c)
  \/ \E c \in Clients : \E d \in Directions : Exchanging(d, c)

LEMMA NotYetAccepted ==
  ASSUME TypeOK, Stages
  PROVE  /\ \A c \in Clients \ Accepted : (client[c] = "none" /\ received[c] = <<>>) \/ protocol = "udp"
         /\ protocol # "udp" /\ accepting # 0 => accepting \in Clients /\ client[accepting] = "none"
<1>1. protocol = "map" =>
        /\ \A c \in Clients : client[c] # "none" => c \in Accepted \ {accepting}
        /\ \A c \in Clients : received[c] # <<>> => c \in Accepted
        /\ accepting # 0 => accepting \in Accepted
  BY DEF Stages, MapStages
<1>2. protocol = "ws" =>
        /\ \A c \in Clients : client[c] # "none" => c \in Accepted \ {accepting}
        /\ \A c \in Clients : received[c] # <<>> => c \in Accepted
        /\ accepting \in Accepted \cup {0}
  BY DEF Stages, WebSocketStages
<1> QED
  BY <1>1, <1>2, Kinds, AcceptedType

LEMMA FrameRead ==
  ASSUME TypeOK, NEW c \in Clients, read' = [read EXCEPT ![c] = @ + 1],
         UNCHANGED <<list, selected, open, next, client, received>>,
         TellFrame("In", c), protocol # "udp" => c \in Accepted
  PROVE  Exchanging("In", c)
<1>1. \A b \in Clients : read'[b] = IF b = c THEN read[b] + 1 ELSE read[b]
  BY DEF TypeOK
<1> QED
  BY <1>1 DEF Exchanging, Unlisted, TellFrame, Done, Directions

LEMMA FrameWritten ==
  ASSUME TypeOK, NEW c \in Clients, NEW x \in 1 .. Len(sent),
         received' = [received EXCEPT ![c] = Append(received[c], x)],
         UNCHANGED <<list, selected, open, next, client, read>>,
         TellFrame("Out", c), protocol # "udp" => c \in Accepted
  PROVE  Exchanging("Out", c)
<1> DEFINE T == 1 .. Len(sent)
<1>1. received \in [Clients -> Seq(T)]
  BY DEF TypeOK
<1> HIDE DEF T
<1>2. \A b \in Clients :
        Len(received'[b]) = IF b = c THEN Len(received[b]) + 1 ELSE Len(received[b])
  BY <1>1
<1> QED
  BY <1>2 DEF Exchanging, Unlisted, TellFrame, Done, Directions

LEMMA ListChange ==
  ASSUME TypeOK, Stages, [Next]_vars
  PROVE  ListMove
<1> USE DEF session, loop, tasks, Running
<1>0. /\ client \in [Clients -> {"none", "serving", "ending", "removed", "left", "lost"}]
      /\ protocol \in {"map", "ws", "udp"}
  BY Kinds DEF TypeOK
<1>1. ASSUME Ends("closed") \/ Ends("failed") PROVE ClientsStay
  BY <1>1, EndsType DEF ClientsStay
<1>2. CASE HandleEvent \/ CloseTab
  BY <1>2 DEF ListMove
<1>3. ASSUME NEW i \in 1 .. Len(list), SelectClient(i) PROVE ListMove
  BY <1>3 DEF SelectClient, Chooses, ListMove
<1>4. ASSUME Untouched, ClientsStay, events' = events \/ TellError PROVE ListMove
  BY <1>4 DEF Quiet, ListMove
<1>5. ASSUME UNCHANGED client PROVE ClientsStay
  BY <1>5 DEF ClientsStay
<1>6. ASSUME NEW all \in BOOLEAN, SendComposer(all) PROVE ListMove
  BY <1>4, <1>5, <1>6 DEF SendComposer, Untouched, Unlisted
<1>7. CASE UNCHANGED vars
  BY <1>4, <1>5, <1>7 DEF vars, Untouched, Unlisted
<1>8. CASE AcceptFails \/ EndOfCommands \/ Command
  <2>1. Untouched /\ (events' = events \/ TellError)
    BY <1>8 DEF AcceptFails, EndOfCommands, Command, Fails, Untouched, Unlisted
  <2>2. Ends("closed") \/ Ends("failed") \/ UNCHANGED client
    BY <1>8 DEF AcceptFails, EndOfCommands, Command, Fails
  <2> QED
    BY <1>1, <1>4, <1>5, <2>1, <2>2
<1>9. CASE Accept
  <2>1. next \in Clients
    <3>1. next \in Nat /\ next >= 1 /\ next <= MaxClients
      BY <1>9, AcceptedType DEF Accept
    <3> QED
      BY <3>1, Basics DEF Clients
  <2>2. client[next] = "none" /\ protocol # "udp"
    BY <1>9, <2>1, AcceptedNext, NotYetAccepted DEF Accept
  <2> QED
    BY <1>9, <2>1, <2>2 DEF Accept, TellJoined, Joining, Unlisted, ListMove
<1>10. CASE Register
  <2>1. accepting \in Clients /\ client[accepting] = "none"
    BY <1>10, NotYetAccepted DEF Register
  <2>2. client' = [client EXCEPT ![accepting] = "serving"]
    BY <1>10 DEF Register
  <2>3. ClientsStay
    BY <1>0, <2>1, <2>2 DEF ClientsStay
  <2> QED
    BY <1>4, <1>10, <2>3 DEF Register, Untouched, Unlisted
<1>11. ASSUME NEW c \in Clients, ClientStep(c) PROVE ListMove
  <2>1. protocol # "udp" /\ (client[c] # "none" => c \in Accepted)
    BY <1>0, <1>11 DEF Stages, MapStages, WebSocketStages, DatagramStages, ClientStep, Read, Write,
       ClientEnds, Deregister, AnnounceLeft, Serving
  <2>2. CASE Read(c)
    BY <2>1, <2>2, FrameRead DEF Read, Serving, Directions, ListMove
  <2>3. CASE Write(c)
    <3>1. Head(queue[c]) \in 1 .. Len(sent)
      <4>1. queue[c] \in Seq(1 .. Len(sent)) /\ queue[c] # <<>>
        BY <2>3, Channels DEF Write
      <4> QED
        BY <4>1
    <3>2. received' = [received EXCEPT ![c] = Append(received[c], Head(queue[c]))]
      BY <2>3 DEF Write
    <3>3. PICK x : x = Head(queue[c])
      OBVIOUS
    <3>4. UNCHANGED <<list, selected, open, next, client, read>> /\ TellFrame("Out", c)
          /\ client[c] # "none"
      BY <2>3 DEF Write, Serving
    <3>5. Exchanging("Out", c)
      BY <2>1, <3>1, <3>2, <3>3, <3>4, FrameWritten
    <3> QED
      BY <3>5 DEF ListMove, Directions
  <2>4. CASE ClientEnds(c) \/ Deregister(c)
    <3>1. \E x \in {"ending", "removed"} : client' = [client EXCEPT ![c] = x]
      BY <2>4 DEF ClientEnds, Deregister
    <3>2. client[c] \notin {"left", "lost"}
      BY <2>4 DEF ClientEnds, Deregister, Serving
    <3>3. ClientsStay
      BY <1>0, <3>1, <3>2 DEF ClientsStay
    <3> QED
      BY <1>4, <2>4, <3>3 DEF ClientEnds, Deregister, Untouched, Unlisted
  <2>5. CASE AnnounceLeft(c)
    <3>1. protocol # "ws"
      BY <2>5 DEF AnnounceLeft, Stages, WebSocketStages
    <3> QED
      BY <2>1, <2>5, <3>1 DEF AnnounceLeft, TellLeft, Leaving, Untouched, Unlisted, ListMove
  <2> QED
    BY <1>11, <2>2, <2>3, <2>4, <2>5 DEF ClientStep
<1>12. CASE Handshake
  <2>1. Untouched /\ (events' = events \/ TellError)
    BY <1>12 DEF Handshake, Fails, Untouched, Unlisted
  <2>2. ASSUME client' = [client EXCEPT ![accepting] = "serving"] PROVE ClientsStay
    <3>1. accepting \in Clients /\ client[accepting] = "none"
      BY <1>12, NotYetAccepted DEF Handshake
    <3> QED
      BY <1>0, <2>2, <3>1 DEF ClientsStay
  <2> QED
    BY <1>1, <1>4, <1>12, <2>1, <2>2 DEF Handshake, Fails
<1>13. CASE DropCommand \/ NobodyToReplyTo
  BY <1>4, <1>5, <1>13 DEF DropCommand, NobodyToReplyTo, Untouched, Unlisted
<1>14. CASE ServingWebSocket /\ (WebSocketLeaves \/ WebSocketLost \/ ReadWebSocket)
  <2>1. /\ peer \in Clients /\ peer \in Accepted /\ protocol = "ws"
        /\ \A b \in Accepted : b = peer \/ client[b] \in {"left", "lost"}
    <3>1. protocol = "ws" /\ peer # 0 /\ accepting = 0
      BY <1>14 DEF ServingWebSocket
    <3>2. /\ peer \in Accepted \cup {0} /\ Accepted \subseteq Clients
          /\ \A c \in Clients : c \in Accepted => c \in {peer, accepting} \/ client[c] \in {"left", "lost"}
      BY <3>1, AcceptedType DEF Stages, WebSocketStages
    <3>3. 0 \notin Clients
      BY Basics
    <3> QED
      BY <3>1, <3>2, <3>3
  <2>2. CASE WebSocketLeaves
    BY <2>1, <2>2 DEF WebSocketLeaves, WebSocketEnds, TellLeft, Leaving, Untouched, Unlisted, ListMove
  <2>3. CASE WebSocketLost
    <3>1. client' = [client EXCEPT ![peer] = "lost"]
      BY <2>3 DEF WebSocketLost, WebSocketEnds
    <3>2. ClientsStay
      BY <1>0, <2>1, <3>1 DEF ClientsStay
    <3> QED
      BY <1>4, <2>3, <3>2 DEF WebSocketLost, WebSocketEnds, Untouched, Unlisted
  <2>4. CASE ReadWebSocket
    BY <2>1, <2>4, FrameRead DEF ReadWebSocket, Directions, ListMove
  <2> QED
    BY <1>14, <2>2, <2>3, <2>4
<1>15. CASE DatagramFails
  BY <1>1, <1>4, <1>15 DEF DatagramFails, Untouched, Unlisted
<1>16. ASSUME NEW c \in Clients, ReadDatagram(c) PROVE ListMove
  BY <1>16, FrameRead DEF ReadDatagram, Directions, ListMove
<1>17. CASE Reply
  <2>1. CASE Fails /\ UNCHANGED received
    BY <1>1, <1>4, <1>17, <2>1 DEF Reply, Fails, Untouched, Unlisted
  <2>2. CASE /\ received' = [received EXCEPT ![peer] = Append(@, Head(cmds))]
             /\ TellFrame("Out", peer)
             /\ UNCHANGED <<server, peer, client>>
    <3>1. /\ Head(cmds) \in 1 .. Len(sent) /\ peer # 0 /\ peer \in 0 .. MaxClients
          /\ protocol \in {"ws", "udp"}
      BY <1>17, HasShape DEF Reply, TypeOK
    <3>2. peer \in Clients
      BY <3>1, Basics DEF Clients
    <3>3. protocol # "udp" => peer \in Accepted
      BY <3>1 DEF Stages, WebSocketStages
    <3>4. received' = [received EXCEPT ![peer] = Append(received[peer], Head(cmds))]
      BY <2>2
    <3>5. UNCHANGED <<list, selected, open, next, client, read>>
      BY <1>17, <2>2 DEF Reply
    <3>6. PICK x : x = Head(cmds)
      OBVIOUS
    <3>7. Exchanging("Out", peer)
      BY <2>2, <3>1, <3>2, <3>3, <3>4, <3>5, <3>6, FrameWritten
    <3> QED
      BY <3>2, <3>7 DEF ListMove, Directions
  <2> QED
    BY <1>17, <2>1, <2>2 DEF Reply
<1> QED
  BY <1>2, <1>3, <1>6, <1>7, <1>8, <1>9, <1>10, <1>11, <1>12, <1>13, <1>14, <1>15, <1>16, <1>17
  DEF Next, UserStep, Serve, ServeOne, WebSocketLeaves, WebSocketLost, ReadWebSocket

------------------------------------------------------------------------------
(* What an event does to the list. *)
LEMMA EventShape ==
  ASSUME TypeOK, Known, HandleEvent
  PROVE  /\ events \in Seq(Event) /\ events # <<>> /\ events' = Tail(events)
         /\ Head(events) = events[1] /\ Head(events) \in Event /\ 1 \in 1 .. Len(events)
         /\ Head(events).ev = "ClientJoined" =>
              Head(events).peer \in Clients /\ Head(events).id = Id(Head(events).peer)
         /\ UNCHANGED <<open, protocol, next, client, read, received>>
<1>1. events \in Seq(Event) /\ events # <<>> /\ events' = Tail(events)
  BY DEF TypeOK, HandleEvent
<1>2. Head(events) = events[1] /\ Head(events) \in Event /\ 1 \in 1 .. Len(events)
  BY <1>1
<1>3. Head(events).ev = "ClientJoined" =>
        Head(events).peer \in Clients /\ Head(events).id = Id(Head(events).peer)
  BY <1>2, AcceptedType DEF Known, EventsKnown
<1> QED
  BY <1>1, <1>2, <1>3 DEF HandleEvent, loop, tasks

(* The list after a step that handles an event e. *)
Appended(e) ==
  /\ e.ev = "ClientJoined" /\ selected' = (IF selected = 0 THEN e.id ELSE selected)
  /\ Len(list') = Len(list) + 1
  /\ \A i \in 1 .. Len(list) : list'[i] = list[i]
  /\ list'[Len(list) + 1] = [id |-> e.id, peer |-> e.peer, in |-> 0, out |-> 0]

(* w is l without the entries called id. *)
Shortened(w, l, id) ==
  \E f \in [1 .. Len(w) -> 1 .. Len(l)] :
    /\ \A j, k \in 1 .. Len(w) : j < k => f[j] < f[k]
    /\ \A k \in 1 .. Len(w) : w[k] = l[f[k]] /\ l[f[k]].id # id
    /\ \A i \in 1 .. Len(l) : l[i].id # id => \E k \in 1 .. Len(w) : f[k] = i

Filtered(e) ==
  /\ e.ev = "ClientLeft"
  /\ selected' = IF selected # e.id THEN selected ELSE IF list' = <<>> THEN 0 ELSE list'[1].id
  /\ list' \in Seq([id : Clients, peer : Clients, in : Nat, out : Nat])
  /\ Shortened(list', list, e.id)

Updated(e) ==
  /\ e.ev \in Directions \cup {"Error"} /\ selected' = selected
  /\ Len(list') = Len(list)
  /\ \A i \in 1 .. Len(list) :
       /\ list'[i].id = list[i].id /\ list'[i].peer = list[i].peer
       /\ \A d \in Directions :
            Entry(list'[i], d) = Entry(list[i], d) + IF Is(e, d, list[i].peer) THEN 1 ELSE 0

LEMMA WithoutShortens ==
  ASSUME NEW S, NEW l \in Seq(S), NEW id
  PROVE  Without(l, id) \in Seq(S) /\ Shortened(Without(l, id), l, id)
BY WithoutShape DEF Shortened

LEMMA ListHandled ==
  ASSUME TypeOK, Known, HandleEvent, NEW e, e = Head(events)
  PROVE  Appended(e) \/ Filtered(e) \/ Updated(e)
<1> DEFINE R == [id : Clients, peer : Clients, in : Nat, out : Nat]
<1>1. list \in Seq(R) /\ Len(list) \in Nat /\ \A i \in 1 .. Len(list) : list[i] \in R
  <2>1. list \in Seq(R)
    BY DEF TypeOK
  <2> HIDE DEF R
  <2> QED
    BY <2>1
<1>2. CASE e.ev = "ClientJoined" /\ Joined(e)
  <2> DEFINE r == [id |-> e.id, peer |-> e.peer, in |-> 0, out |-> 0]
  <2>1. e.peer \in Clients /\ e.id \in Clients
    BY <1>2, EventShape, Basics
  <2>2. r \in R
    BY <2>1
  <2>3. list' = Append(list, r)
    BY <1>2 DEF Joined, AddedTo
  <2> HIDE DEF r, R
  <2>4. /\ Len(list') = Len(list) + 1 /\ list'[Len(list) + 1] = r
        /\ \A i \in 1 .. Len(list) : list'[i] = list[i]
    BY <1>1, <2>2, <2>3
  <2> QED
    BY <1>2, <2>4 DEF Joined, Appended, r
<1>3. CASE e.ev = "ClientLeft" /\ Left(e.id)
  <2> HIDE DEF R
  <2>1. list' = Without(list, e.id)
    BY <1>3 DEF Left
  <2>2. list' \in Seq(R) /\ Shortened(list', list, e.id)
    BY <1>1, <2>1, WithoutShortens
  <2> QED
    BY <1>3, <2>2 DEF Left, Filtered, R
<1>4. CASE e.ev \in {"In", "Out"} /\ Counted(e.ev, e.peer)
  <2>1. Len(list') = Len(list) /\ selected' = selected
    BY <1>1, <1>4 DEF Counted
  <2>2. ASSUME NEW i \in 1 .. Len(list)
        PROVE  /\ list'[i].id = list[i].id /\ list'[i].peer = list[i].peer
               /\ \A d \in Directions :
                    Entry(list'[i], d) = Entry(list[i], d) + IF Is(e, d, list[i].peer) THEN 1 ELSE 0
    <3>1. list[i] \in R
      BY <1>1
    <3>2. list'[i] = IF list[i].peer # e.peer THEN list[i]
                     ELSE IF e.ev = "In" THEN [list[i] EXCEPT !.in = @ + 1]
                     ELSE [list[i] EXCEPT !.out = @ + 1]
      BY <1>4 DEF Counted
    <3> DEFINE r == list[i]
    <3>3. r \in R /\ r.in \in Nat /\ r.out \in Nat
      BY <3>1
    <3> HIDE DEF r
    <3>4. CASE r.peer # e.peer
      BY <3>2, <3>3, <3>4 DEF r, Entry, Is, Directions
    <3>5. CASE r.peer = e.peer /\ e.ev = "In"
      BY <3>2, <3>3, <3>5 DEF r, Entry, Is, Directions
    <3>6. CASE r.peer = e.peer /\ e.ev = "Out"
      BY <3>2, <3>3, <3>6 DEF r, Entry, Is, Directions
    <3> QED
      BY <1>4, <3>4, <3>5, <3>6
  <2> QED
    BY <1>4, <2>1, <2>2 DEF Updated, Directions
<1>5. CASE e.ev = "Error" /\ UNCHANGED <<list, selected>>
  <2>1. \A i \in 1 .. Len(list) : \A d \in Directions : Entry(list[i], d) \in Nat
    BY <1>1 DEF Entry
  <2>2. \A d \in Directions : \A c : ~Is(e, d, c)
    BY <1>5 DEF Directions, Is
  <2> QED
    BY <1>5, <2>1, <2>2 DEF Updated
<1> QED
  BY <1>2, <1>3, <1>4, <1>5 DEF HandleEvent

LEMMA PeersHandled ==
  ASSUME TypeOK, Known, HandleEvent, NEW c \in Clients, NEW e, e = Head(events)
  PROVE  c \in Peers(list)' <=> Joins(e, c) \/ (c \in Peers(list) /\ ~Leaves(e, Id(c)))
<1>1. Len(list) \in Nat /\ \A i \in 1 .. Len(list) : list[i].id = Id(list[i].peer)
  BY DEF TypeOK, Known, ListKnown
<1>2. CASE Appended(e)
  <2>1. \A i : i \in 1 .. Len(list) + 1 <=> i \in 1 .. Len(list) \/ i = Len(list) + 1
    BY <1>1
  <2> QED
    BY <1>2, <2>1 DEF Appended, Peers, Joins, Leaves
<1>3. CASE Filtered(e)
  <2>1. PICK f \in [1 .. Len(list') -> 1 .. Len(list)] :
          /\ \A k \in 1 .. Len(list') : list'[k] = list[f[k]] /\ list[f[k]].id # e.id
          /\ \A i \in 1 .. Len(list) : list[i].id # e.id => \E k \in 1 .. Len(list') : f[k] = i
    BY <1>3 DEF Filtered, Shortened
  <2>2. c \in Peers(list)' => c \in Peers(list) /\ e.id # Id(c)
    BY <1>1, <2>1 DEF Peers
  <2>3. ASSUME NEW i \in 1 .. Len(list), list[i].peer = c, e.id # Id(c) PROVE c \in Peers(list)'
    <3>1. list[i].id # e.id
      BY <1>1, <2>3
    <3>2. PICK k \in 1 .. Len(list') : f[k] = i
      BY <2>1, <3>1
    <3>3. list'[k].peer = c
      BY <2>1, <2>3, <3>2
    <3> QED
      BY <3>3 DEF Peers
  <2> QED
    BY <1>3, <2>2, <2>3 DEF Filtered, Joins, Leaves, Peers
<1>4. CASE Updated(e)
  BY <1>4 DEF Updated, Peers, Joins, Leaves, Directions
<1> QED
  BY <1>2, <1>3, <1>4, ListHandled

------------------------------------------------------------------------------
(* The invariant is kept. *)

(* An event that is told is the last, or, of a closed tab, there is none.  *)
LEMMA Told ==
  ASSUME TypeOK, NEW ev \in {"ClientJoined", "ClientLeft", "In", "Out", "Error"},
         NEW id \in 0 .. MaxClients, NEW c \in 0 .. MaxClients, Tell(ev, id, c)
  PROVE  \E e \in Event : /\ e.ev = ev /\ e.id = id /\ e.peer = c
                          /\ open => events' = Append(events, e)
                          /\ ~open => events' = <<>>
<1> DEFINE e == [ev |-> ev, id |-> id, peer |-> c]
<1>1. e \in Event /\ e.ev = ev /\ e.id = id /\ e.peer = c
  BY DEF Event
<1>2. (open => events' = Append(events, e)) /\ (~open => events' = <<>>)
  BY DEF Tell
<1> HIDE DEF e
<1> QED
  BY <1>1, <1>2

(* The event that a step tells, if it is not quiet. *)
Tells(e) ==
  /\ Unlisted
  /\ open => events' = Append(events, e)
  /\ ~open => events' = <<>>
  /\ \/ e.ev = "Error" /\ Quiet
     \/ e.ev = "ClientJoined" /\ e.peer = next /\ Joining
     \/ e.ev = "ClientLeft" /\ \E c \in Clients : e.id = Id(c) /\ Leaving(c)
     \/ e.ev \in Directions /\ e.peer \in Clients /\ Exchanging(e.ev, e.peer)

LEMMA ListMoves ==
  ASSUME TypeOK, Stages, [Next]_vars
  PROVE  \/ HandleEvent
         \/ CloseTab
         \/ Quiet /\ events' = events
         \/ Chooses
         \/ \E e \in Event : Tells(e)
<1>0. /\ 0 \in 0 .. MaxClients
      /\ \A c \in Clients : c \in 0 .. MaxClients /\ Id(c) \in 0 .. MaxClients
  BY Basics
<1>1. ASSUME Quiet, TellError PROVE \E e \in Event : Tells(e)
  BY <1>0, <1>1, Told DEF TellError, Quiet, Untouched, Tells
<1>2. ASSUME Joining PROVE \E e \in Event : Tells(e)
  <2>1. /\ next \in 0 .. MaxClients /\ Id(next) \in 0 .. MaxClients
        /\ Tell("ClientJoined", Id(next), next)
    BY <1>0, <1>2 DEF Joining
  <2>2. PICK e \in Event : /\ e.ev = "ClientJoined" /\ e.id = Id(next) /\ e.peer = next
                           /\ open => events' = Append(events, e)
                           /\ ~open => events' = <<>>
    BY <2>1, Told
  <2> QED
    BY <1>2, <2>2 DEF Joining, Tells
<1>3. ASSUME NEW c \in Clients, Leaving(c) PROVE \E e \in Event : Tells(e)
  <2>1. Id(c) \in 0 .. MaxClients /\ Tell("ClientLeft", Id(c), 0)
    BY <1>0, <1>3 DEF Leaving
  <2>2. PICK e \in Event : /\ e.ev = "ClientLeft" /\ e.id = Id(c)
                           /\ open => events' = Append(events, e)
                           /\ ~open => events' = <<>>
    BY <1>0, <2>1, Told
  <2> QED
    BY <1>3, <2>2 DEF Leaving, Untouched, Tells
<1>4. ASSUME NEW c \in Clients, NEW d \in Directions, Exchanging(d, c)
      PROVE  \E e \in Event : Tells(e)
  <2>1. c \in 0 .. MaxClients /\ Tell(d, 0, c) /\ d \in {"In", "Out"}
    BY <1>0, <1>4 DEF Exchanging, Directions
  <2>2. PICK e \in Event : /\ e.ev = d /\ e.peer = c
                           /\ open => events' = Append(events, e)
                           /\ ~open => events' = <<>>
    BY <1>0, <2>1, Told
  <2> QED
    BY <1>4, <2>2 DEF Exchanging, Tells
<1> QED
  BY <1>1, <1>2, <1>3, <1>4, ListChange DEF ListMove, Quiet

LEMMA Appending ==
  ASSUME NEW s \in Seq(Event), NEW e \in Event
  PROVE  /\ Len(Append(s, e)) = Len(s) + 1 /\ Append(s, e)[Len(s) + 1] = e /\ Len(s) \in Nat
         /\ \A j \in 1 .. Len(Append(s, e)) :
              j = Len(s) + 1 \/ (j \in 1 .. Len(s) /\ Append(s, e)[j] = s[j])
<1>1. /\ Len(Append(s, e)) = Len(s) + 1 /\ Append(s, e)[Len(s) + 1] = e /\ Len(s) \in Nat
      /\ \A j \in 1 .. Len(s) : Append(s, e)[j] = s[j]
  OBVIOUS
<1>2. \A j \in 1 .. Len(s) + 1 : j = Len(s) + 1 \/ j \in 1 .. Len(s)
  BY <1>1
<1> QED
  BY <1>1, <1>2

LEMMA JoinsOnceNext ==
  ASSUME TypeOK, Known, Stages, JoinsOnce, [Next]_vars
  PROVE  JoinsOnce'
<1>0. events \in Seq(Event) /\ Len(list) \in Nat
  BY DEF TypeOK
<1>1. /\ \A i, j \in 1 .. Len(list) : list[i].peer = list[j].peer => i = j
      /\ \A c \in Clients : \A j, k \in 1 .. Len(events) :
           Joins(events[j], c) => c \notin Peers(list) /\ (Joins(events[k], c) => j = k)
  BY DEF JoinsOnce
<1>2. CASE list' = list /\ events' = events
  BY <1>1, <1>2 DEF JoinsOnce, Peers
<1>3. CASE list' = <<>> /\ events' = <<>>
  BY <1>3 DEF JoinsOnce
<1>4. CASE HandleEvent
  <2>0. PICK e : e = Head(events)
    OBVIOUS
  <2>1. /\ e = events[1] /\ 1 \in 1 .. Len(events) /\ events' = Tail(events)
        /\ \A k \in 1 .. Len(events') : k + 1 \in 1 .. Len(events) /\ events'[k] = events[k + 1]
    BY <1>4, <2>0, EventShape, TailShape
  <2>2. \A k \in 1 .. Len(events') : k + 1 # 1 /\ k \in Nat
    BY <1>0, <2>1
  <2>3. \A c \in Clients : \A j \in 1 .. Len(events') :
          Joins(events'[j], c) => c \notin Peers(list)'
    <3>1. ASSUME NEW c \in Clients, NEW j \in 1 .. Len(events'), Joins(events'[j], c)
          PROVE  c \notin Peers(list) /\ ~Joins(e, c)
      <4>1. Joins(events[j + 1], c)
        BY <2>1, <3>1
      <4> QED
        BY <1>1, <2>1, <2>2, <4>1
    <3> QED
      BY <1>4, <2>0, <3>1, PeersHandled
  <2>4. \A c \in Clients : \A j, k \in 1 .. Len(events') :
          Joins(events'[j], c) /\ Joins(events'[k], c) => j = k
    <3>1. ASSUME NEW c \in Clients, NEW j \in 1 .. Len(events'), NEW k \in 1 .. Len(events'),
                 Joins(events'[j], c), Joins(events'[k], c)
          PROVE  j = k
      <4>1. j + 1 = k + 1
        BY <1>1, <2>1, <3>1
      <4> QED
        BY <2>2, <4>1
    <3> QED
      BY <3>1
  <2>5. \A i, j \in 1 .. Len(list') : list'[i].peer = list'[j].peer => i = j
    <3>1. CASE Appended(e)
      <4>1. \A i \in 1 .. Len(list) : list[i].peer # e.peer
        <5>1. e.ev = "ClientJoined"
          BY <3>1 DEF Appended
        <5>2. Head(events).ev = "ClientJoined" => Head(events).peer \in Clients
          BY <1>4, EventShape
        <5>3. e.peer \in Clients
          BY <2>0, <5>1, <5>2
        <5>4. Joins(events[1], e.peer)
          BY <2>1, <5>1 DEF Joins
        <5> QED
          BY <1>1, <2>1, <5>3, <5>4 DEF Peers
      <4>2. \A i \in 1 .. Len(list) + 1 : i \in 1 .. Len(list) \/ i = Len(list) + 1
        BY <1>0
      <4> QED
        BY <1>1, <3>1, <4>1, <4>2 DEF Appended
    <3>2. CASE Filtered(e)
      <4>1. PICK f \in [1 .. Len(list') -> 1 .. Len(list)] :
              /\ \A j, k \in 1 .. Len(list') : j < k => f[j] < f[k]
              /\ \A k \in 1 .. Len(list') : list'[k] = list[f[k]]
        BY <3>2 DEF Filtered, Shortened
      <4>2. ASSUME NEW i \in 1 .. Len(list'), NEW j \in 1 .. Len(list'), f[i] = f[j] PROVE i = j
        <5>1. f[i] \in Nat /\ f[j] \in Nat /\ Len(list') \in Nat
          <6>1. Len(list') \in Nat
            BY TypeNext DEF Known, TypeOK
          <6>2. f[i] \in 1 .. Len(list) /\ f[j] \in 1 .. Len(list)
            BY <4>2
          <6> QED
            BY <1>0, <6>1, <6>2
        <5> QED
          BY <4>1, <4>2, <5>1
      <4> QED
        BY <1>1, <4>1, <4>2
    <3>3. CASE Updated(e)
      BY <1>1, <3>3 DEF Updated
    <3> QED
      BY <1>4, <2>0, <3>1, <3>2, <3>3, ListHandled
  <2> QED
    BY <2>3, <2>4, <2>5 DEF JoinsOnce
<1>5. ASSUME NEW e \in Event, Tells(e) PROVE JoinsOnce'
  <2>1. list' = list
    BY <1>5 DEF Tells, Unlisted
  <2>2. CASE events' = <<>>
    BY <1>1, <2>1, <2>2 DEF JoinsOnce
  <2>3. CASE events' = Append(events, e)
    <3>1. e.ev = "ClientJoined" => e.peer \notin Accepted
      BY <1>5, AcceptedNext DEF Tells, Directions
    <3>2. \A c \in Clients : Joins(e, c) => c \notin Accepted
      BY <3>1 DEF Joins
    <3>3. \A c \in Clients : c \in Peers(list) => c \in Accepted
      BY DEF Known, ListKnown, Peers
    <3>4. \A c \in Clients : \A j \in 1 .. Len(events) : Joins(events[j], c) => c \in Accepted
      BY DEF Known, EventsKnown, Joins
    <3>5. \A j \in 1 .. Len(events') :
            (j = Len(events) + 1 /\ events'[j] = e) \/ (j \in 1 .. Len(events) /\ events'[j] = events[j])
      BY <1>0, <2>3, Appending
    <3> QED
      BY <1>1, <2>1, <3>2, <3>3, <3>4, <3>5 DEF JoinsOnce, Peers
  <2> QED
    BY <1>5, <2>2, <2>3 DEF Tells, TypeOK
<1> QED
  BY <1>2, <1>3, <1>4, <1>5, ListMoves DEF CloseTab, Quiet, Untouched, Unlisted, Chooses

LEMMA SelectionNext ==
  ASSUME TypeOK, Known, Stages, Selection, [Next]_vars
  PROVE  Selection'
<1>0. Len(list) \in Nat /\ (list = <<>> <=> Len(list) = 0) /\ \A i \in 1 .. Len(list) : list[i].id # 0
  <2>1. \A i \in 1 .. Len(list) : list[i].id \in Clients
    BY Elements
  <2>2. Len(list) \in Nat /\ (list = <<>> <=> Len(list) = 0)
    BY DEF TypeOK
  <2> QED
    BY <2>1, <2>2, Basics
<1>1. IF list = <<>> THEN selected = 0 ELSE \E i \in 1 .. Len(list) : list[i].id = selected
  BY DEF Selection, Ids
<1>2. CASE UNCHANGED <<list, selected>>
  BY <1>2 DEF Selection, Ids
<1>3. CASE CloseTab
  BY <1>3 DEF CloseTab, Selection
<1>4. CASE Chooses
  BY <1>0, <1>4 DEF Chooses, Selection, Ids
<1>5. CASE HandleEvent
  <2>0. PICK e : e = Head(events)
    OBVIOUS
  <2>1. Len(list') \in Nat /\ (list' = <<>> <=> Len(list') = 0)
    BY TypeNext DEF Known, TypeOK
  <2>2. CASE Appended(e)
    <3>1. Len(list) + 1 \in 1 .. Len(list') /\ \A i \in 1 .. Len(list) : i \in 1 .. Len(list')
      BY <1>0, <2>2 DEF Appended
    <3>2. list' # <<>>
      BY <1>0, <2>1, <2>2 DEF Appended
    <3>3. list'[Len(list) + 1].id = e.id /\ \A i \in 1 .. Len(list) : list'[i].id = list[i].id
      BY <2>2 DEF Appended
    <3>4. \E i \in 1 .. Len(list') : list'[i].id = selected'
      BY <1>0, <1>1, <2>2, <3>1, <3>3 DEF Appended
    <3> QED
      BY <3>2, <3>4 DEF Selection, Ids
  <2>3. CASE Filtered(e)
    <3>1. PICK f \in [1 .. Len(list') -> 1 .. Len(list)] :
            /\ \A k \in 1 .. Len(list') : list'[k] = list[f[k]]
            /\ \A i \in 1 .. Len(list) : list[i].id # e.id => \E k \in 1 .. Len(list') : f[k] = i
      BY <2>3 DEF Filtered, Shortened
    <3>2. CASE selected = e.id
      BY <2>1, <2>3, <3>2 DEF Filtered, Selection, Ids
    <3>3. CASE selected # e.id /\ list = <<>>
      <4>1. list' = <<>>
        BY <1>0, <2>1, <3>1, <3>3
      <4> QED
        BY <1>1, <2>3, <3>3, <4>1 DEF Filtered, Selection
    <3>4. CASE selected # e.id /\ list # <<>>
      <4>1. PICK i \in 1 .. Len(list) : list[i].id = selected
        BY <1>1, <3>4
      <4>2. PICK k \in 1 .. Len(list') : f[k] = i
        BY <3>1, <3>4, <4>1
      <4>3. list'[k].id = selected' /\ list' # <<>>
        BY <2>1, <2>3, <3>1, <3>4, <4>1, <4>2 DEF Filtered
      <4> QED
        BY <4>3 DEF Selection, Ids
    <3> QED
      BY <3>2, <3>3, <3>4
  <2>4. CASE Updated(e)
    BY <1>0, <1>1, <2>1, <2>4 DEF Updated, Selection, Ids
  <2> QED
    BY <1>5, <2>0, <2>2, <2>3, <2>4, ListHandled
<1> QED
  BY <1>2, <1>3, <1>4, <1>5, ListMoves DEF Quiet, Untouched, Unlisted, Tells

LEMMA ShowsNext ==
  ASSUME TypeOK, Known, Stages, ShowsClients, [Next]_vars
  PROVE  ShowsClients'
<1>0. /\ events \in Seq(Event) /\ open \in BOOLEAN
      /\ \A c : Id(c)' = Id(c)
      /\ \A c \in Clients : (Shown(c) <=> ShownIn(events, Peers(list), c, Id(c)))
      /\ \A c : (Shown(c)' <=> ShownIn(events', Peers(list)', c, Id(c)))
  <2>1. events \in Seq(Event) /\ open \in BOOLEAN
    BY DEF TypeOK
  <2>2. \A c : Id(c)' = Id(c)
    BY Steady DEF Id
  <2>3. \A c : (Shown(c)' <=> ShownIn(events', Peers(list)', c, Id(c)'))
    BY DEF Shown, ShownIn, Source, Adds, Removes, Joins, Leaves
  <2> QED
    BY <2>1, <2>2, <2>3, ShownAsIn
<1>1. open => \A c \in Clients : /\ Shown(c) => c < next /\ client[c] # "left"
                                 /\ c < next /\ client[c] \notin {"left", "lost"} => Shown(c)
  BY DEF ShowsClients
<1>2. CASE ~open'
  BY <1>2 DEF ShowsClients
<1>3. ASSUME open' = open, next' = next, ClientsStay, NEW c \in Clients, open,
             Shown(c)' <=> Shown(c)
      PROVE  /\ Shown(c)' => c < next' /\ client'[c] # "left"
             /\ c < next' /\ client'[c] \notin {"left", "lost"} => Shown(c)'
  BY <1>1, <1>3 DEF ClientsStay
<1>4. CASE HandleEvent
  <2>0. PICK e : e = Head(events)
    OBVIOUS
  <2>1. /\ events # <<>> /\ events' = Tail(events) /\ open' = open /\ next' = next /\ ClientsStay
    BY <1>4, EventShape DEF ClientsStay
  <2>2. ASSUME NEW c \in Clients PROVE Shown(c)' <=> Shown(c)
    <3>1. c \in Peers(list)' <=> Joins(e, c) \/ (c \in Peers(list) /\ ~Leaves(e, Id(c)))
      BY <1>4, <2>0, PeersHandled
    <3>2. PICK Q, P, id : Q = Peers(list)' /\ P = Peers(list) /\ id = Id(c)
      OBVIOUS
    <3>3. c \in Q <=> Joins(Head(events), c) \/ (c \in P /\ ~Leaves(Head(events), id))
      BY <2>0, <3>1, <3>2
    <3>4. ShownIn(Tail(events), Q, c, id) <=> ShownIn(events, P, c, id)
      BY <1>0, <2>1, <3>3, ShownHandled
    <3> QED
      BY <1>0, <2>1, <3>2, <3>4
  <2> QED
    BY <1>2, <1>3, <2>1, <2>2 DEF ShowsClients
<1>5. CASE UNCHANGED <<list, open, next>> /\ ClientsStay /\ events' = events
  <2>1. \A c \in Clients : Shown(c)' <=> Shown(c)
    <3>1. Peers(list)' = Peers(list)
      BY <1>5 DEF Peers
    <3> QED
      BY <1>0, <1>5, <3>1
  <2> QED
    BY <1>2, <1>3, <1>5, <2>1 DEF ShowsClients
<1>6. ASSUME NEW e \in Event, Tells(e), open PROVE ShowsClients'
  <2>1. open' = open /\ events' = Append(events, e) /\ Peers(list)' = Peers(list)
    BY <1>6 DEF Tells, Unlisted, Peers
  <2>2. ASSUME NEW c \in Clients
        PROVE  Shown(c)' <=> Joins(e, c) \/ (Shown(c) /\ ~Leaves(e, Id(c)))
    <3>1. PICK P, id : P = Peers(list) /\ id = Id(c)
      OBVIOUS
    <3>2. ShownIn(Append(events, e), P, c, id) <=>
            Joins(e, c) \/ (ShownIn(events, P, c, id) /\ ~Leaves(e, id))
      BY <1>0, ShownTold
    <3> QED
      BY <1>0, <2>1, <3>1, <3>2
  <2>3. CASE e.ev \in Directions \cup {"Error"}
    <3>1. next' = next /\ ClientsStay
      BY <1>6, <2>3 DEF Tells, Directions, Quiet, Untouched, Exchanging, ClientsStay
    <3>2. \A c \in Clients : Shown(c)' <=> Shown(c)
      BY <2>2, <2>3 DEF Joins, Leaves, Directions
    <3> QED
      BY <1>3, <1>6, <2>1, <3>1, <3>2 DEF ShowsClients
  <2>4. CASE e.ev = "ClientJoined"
    <3>1. /\ e.peer = next /\ next \in Clients /\ next' = next + 1 /\ client' = client
          /\ client[next] = "none"
      BY <1>6, <2>4 DEF Tells, Quiet, Joining, Directions
    <3>2. \A c \in Clients : Shown(c)' <=> c = next \/ Shown(c)
      BY <2>2, <2>4, <3>1 DEF Joins, Leaves
    <3>3. \A c \in Clients : c < next' <=> c = next \/ c < next
      <4>1. next \in Nat /\ \A c \in Clients : c \in Nat
        BY AcceptedType, Basics
      <4> QED
        BY <3>1, <4>1
    <3> QED
      BY <1>1, <1>6, <3>1, <3>2, <3>3 DEF ShowsClients
  <2>5. CASE e.ev = "ClientLeft"
    <3>1. PICK b \in Clients : e.id = Id(b) /\ Leaving(b)
      BY <1>6, <2>5 DEF Tells, Directions
    <3>2. /\ next' = next /\ client' = [client EXCEPT ![b] = "left"]
          /\ protocol # "udp"
          /\ protocol = "ws" => \A c \in Accepted : c = b \/ client[c] \in {"left", "lost"}
      BY <3>1 DEF Leaving, Untouched
    <3>3. \A c \in Clients : client'[c] = IF c = b THEN "left" ELSE client[c]
      BY <3>2 DEF TypeOK
    <3>4. \A c \in Clients : Shown(c)' <=> Shown(c) /\ Id(c) # Id(b)
      BY <2>2, <2>5, <3>1 DEF Joins, Leaves
    <3>5. CASE protocol = "ws"
      <4>1. \A c \in Clients : ~Shown(c)'
        BY <3>4, <3>5 DEF Id
      <4>2. \A c \in Clients : c < next => c \in Accepted
        BY AcceptedType
      <4> QED
        BY <3>2, <3>3, <3>5, <4>1, <4>2 DEF ShowsClients
    <3>6. CASE protocol # "ws"
      <4>1. \A c \in Clients : Shown(c)' <=> Shown(c) /\ c # b
        BY <3>4, <3>6 DEF Id
      <4> QED
        BY <1>1, <1>6, <3>2, <3>3, <4>1 DEF ShowsClients
    <3> QED
      BY <3>5, <3>6
  <2> QED
    BY <2>3, <2>4, <2>5 DEF Event, Directions
<1> QED
  <2>1. CASE CloseTab
    BY <1>2, <2>1 DEF CloseTab
  <2>2. CASE Quiet /\ events' = events
    BY <1>5, <2>2 DEF Quiet, Untouched, Unlisted
  <2>3. CASE Chooses
    BY <1>5, <2>3 DEF Chooses, ClientsStay
  <2>4. ASSUME NEW e \in Event, Tells(e) PROVE ShowsClients'
    BY <1>2, <1>6, <2>4 DEF Tells, Unlisted
  <2> QED
    BY <1>4, <2>1, <2>2, <2>3, <2>4, ListMoves

(* The frames that are exchanged, on the way and counted, step by step. *)
LEMMA Amounts ==
  ASSUME TypeOK, NEW c, NEW d
  PROVE  /\ Count(d, c) \in Nat
         /\ c \in Clients => Done(d, c) \in Nat
         /\ \A i \in 1 .. Len(list) : Entry(list[i], d) \in Nat
<1>1. Count(d, c) \in Nat
  <2>1. events \in Seq(Event)
    BY DEF TypeOK
  <2> QED
    BY <2>1, AtFinite, PendingAsAt DEF Count
<1>2. c \in Clients => Done(d, c) \in Nat
  <2> DEFINE T == 1 .. Len(sent)
  <2>1. received \in [Clients -> Seq(T)] /\ read \in [Clients -> Nat]
    BY DEF TypeOK
  <2> HIDE DEF T
  <2>2. c \in Clients => received[c] \in Seq(T)
    BY <2>1
  <2>3. c \in Clients => Len(received[c]) \in Nat
    BY <2>2
  <2> QED
    BY <2>1, <2>3 DEF Done
<1>3. \A i \in 1 .. Len(list) : Entry(list[i], d) \in Nat
  BY Elements DEF Entry
<1> QED
  BY <1>1, <1>2, <1>3

LEMMA AmountsHandled ==
  ASSUME TypeOK, Known, HandleEvent, NEW e, e = Head(events), NEW c, NEW d
  PROVE  /\ Done(d, c)' = Done(d, c)
         /\ Count(d, c)' \in Nat
         /\ Count(d, c) = Count(d, c)' + IF Is(e, d, c) THEN 1 ELSE 0
         /\ \A k \in Pending(d, c)' : k \in Nat /\ k + 1 \in Pending(d, c)
         /\ Is(e, d, c) => 1 \in Pending(d, c)
<1>1. /\ events \in Seq(Event) /\ events # <<>> /\ events' = Tail(events)
      /\ e = events[1] /\ 1 \in 1 .. Len(events)
      /\ UNCHANGED <<read, received>>
  BY EventShape
<1>2. /\ \A k \in At(Tail(events), d, c) : k + 1 \in At(events, d, c)
      /\ Cardinality(At(events, d, c)) =
           Cardinality(At(Tail(events), d, c)) + IF Is(Head(events), d, c) THEN 1 ELSE 0
  BY <1>1, AtHandled
<1>3. Pending(d, c) = At(events, d, c) /\ Pending(d, c)' = At(Tail(events), d, c)
  BY <1>1, PendingAsAt DEF Pending, At
<1>4. Cardinality(At(Tail(events), d, c)) \in Nat
  <2>1. Tail(events) \in Seq(Event)
    BY <1>1, TailShape
  <2> QED
    BY <2>1, AtFinite
<1>5. /\ Count(d, c)' = Cardinality(At(Tail(events), d, c))
      /\ Count(d, c) = Cardinality(At(events, d, c))
  BY <1>3 DEF Count
<1>6. \A k \in Pending(d, c)' : k \in Nat
  BY DEF Pending
<1>7. Is(e, d, c) => 1 \in Pending(d, c)
  BY <1>1 DEF Is, Pending
<1> QED
  BY <1>1, <1>2, <1>3, <1>4, <1>5, <1>6, <1>7 DEF Done

LEMMA AmountsTold ==
  ASSUME TypeOK, NEW e \in Event, Tells(e), open, NEW c \in Clients, NEW d \in Directions
  PROVE  /\ Done(d, c)' = Done(d, c) + IF Is(e, d, c) THEN 1 ELSE 0
         /\ Count(d, c)' = Count(d, c) + IF Is(e, d, c) THEN 1 ELSE 0
         /\ Pending(d, c)' = IF Is(e, d, c) THEN Pending(d, c) \cup {Len(events) + 1} ELSE Pending(d, c)
<1>1. events \in Seq(Event) /\ events' = Append(events, e)
  BY DEF TypeOK, Tells
<1>2. /\ At(Append(events, e), d, c) =
           IF Is(e, d, c) THEN At(events, d, c) \cup {Len(events) + 1} ELSE At(events, d, c)
      /\ Cardinality(At(Append(events, e), d, c)) =
           Cardinality(At(events, d, c)) + IF Is(e, d, c) THEN 1 ELSE 0
  BY <1>1, AtTold
<1>3. Pending(d, c) = At(events, d, c) /\ Pending(d, c)' = At(Append(events, e), d, c)
  BY <1>1, PendingAsAt DEF Pending, At
<1>4. /\ Count(d, c)' = Cardinality(At(Append(events, e), d, c))
      /\ Count(d, c) = Cardinality(At(events, d, c))
  BY <1>3 DEF Count
<1>5. Done(d, c)' = Done(d, c) + IF Is(e, d, c) THEN 1 ELSE 0
  <2>0. Done(d, c) \in Nat
    BY Amounts
  <2>1. CASE UNCHANGED <<read, received>> /\ e.ev \notin Directions
    <3>1. Done(d, c)' = Done(d, c) /\ ~Is(e, d, c)
      BY <2>1 DEF Done, Is
    <3> QED
      BY <2>0, <3>1
  <2>2. CASE Exchanging(e.ev, e.peer)
    <3>1. CASE d = e.ev
      BY <2>0, <2>2, <3>1 DEF Exchanging, Is
    <3>2. CASE d # e.ev
      BY <2>0, <2>2, <3>2 DEF Exchanging, Is
    <3> QED
      BY <3>1, <3>2
  <2> QED
    BY <2>1, <2>2 DEF Tells, Quiet, Joining, Leaving, Untouched, Directions
<1> QED
  BY <1>2, <1>3, <1>4, <1>5

LEMMA BalancedHandled ==
  ASSUME TypeOK, Known, Stages, JoinsOnce, Balanced, HandleEvent, open, [Next]_vars
  PROVE  Balanced'
<1>0. PICK e : e = Head(events)
  OBVIOUS
<1>1. /\ e = events[1] /\ 1 \in 1 .. Len(events)
      /\ e.ev = "ClientJoined" => e.peer \in Clients
      /\ UNCHANGED <<protocol, next>>
      /\ \A k \in 1 .. Len(events') :
           k \in Nat /\ k + 1 \in 1 .. Len(events) /\ events'[k] = events[k + 1]
  BY <1>0, EventShape, TailShape
<1>2. CountedOrPending /\ PendingFromTheStart /\ NothingBefore
  BY DEF Balanced
<1>3. PendingFromTheStart'
  <2>1. ASSUME NEW c \in Clients, NEW d \in Directions, NEW j \in 1 .. Len(events'),
               Joins(events'[j], c)
        PROVE  Count(d, c)' = Done(d, c)' /\ \A k \in Pending(d, c)' : j < k
    <3>1. j \in Nat /\ j + 1 \in 1 .. Len(events) /\ Joins(events[j + 1], c)
      BY <1>1, <2>1
    <3>2. Count(d, c) = Done(d, c) /\ \A k \in Pending(d, c) : j + 1 < k
      BY <1>2, <3>1 DEF PendingFromTheStart
    <3>3. 1 \notin Pending(d, c)
      <4>1. ~(j + 1 < 1)
        BY <3>1
      <4> QED
        BY <3>2, <4>1
    <3>4. /\ Done(d, c)' = Done(d, c) /\ Count(d, c)' \in Nat
          /\ Count(d, c) = Count(d, c)' + 0
          /\ \A k \in Pending(d, c)' : k \in Nat /\ k + 1 \in Pending(d, c)
      BY <1>0, <3>3, AmountsHandled
    <3>5. \A k \in Pending(d, c)' : j < k
      <4>1. ASSUME NEW k \in Pending(d, c)' PROVE j < k
        <5>1. k \in Nat /\ j + 1 < k + 1
          BY <3>2, <3>4
        <5> QED
          BY <3>1, <5>1
      <4> QED
        BY <4>1
    <3> QED
      BY <3>2, <3>4, <3>5
  <2> QED
    BY <2>1 DEF PendingFromTheStart
<1>4. CountedOrPending'
  <2>1. ASSUME NEW c \in Clients, NEW d \in Directions, NEW i \in 1 .. Len(list'),
               list'[i].peer = c
        PROVE  Entry(list'[i], d) + Count(d, c)' = Done(d, c)'
    <3>1. /\ Done(d, c)' = Done(d, c) /\ Count(d, c)' \in Nat
          /\ Count(d, c) = Count(d, c)' + IF Is(e, d, c) THEN 1 ELSE 0
      BY <1>0, AmountsHandled
    <3>2. \A k \in 1 .. Len(list) :
            /\ Entry(list[k], d) \in Nat
            /\ list[k].peer = c => Entry(list[k], d) + Count(d, c) = Done(d, c)
      BY <1>2, Amounts DEF CountedOrPending
    <3>3. CASE Appended(e)
      <4>1. ~Is(e, d, c)
        BY <3>3 DEF Appended, Is, Directions
      <4>2. CASE i \in 1 .. Len(list)
        <5>1. list'[i] = list[i]
          BY <3>3, <4>2 DEF Appended
        <5> QED
          BY <2>1, <3>1, <3>2, <4>1, <4>2, <5>1
      <4>3. CASE i = Len(list) + 1
        <5>1. e.ev = "ClientJoined" /\ e.peer = c /\ Entry(list'[i], d) = 0
          BY <2>1, <3>3, <4>3 DEF Appended, Entry
        <5>2. Joins(events[1], c)
          BY <1>1, <5>1 DEF Joins
        <5>3. Count(d, c) = Done(d, c)
          BY <1>1, <1>2, <5>2 DEF PendingFromTheStart
        <5> QED
          BY <3>1, <4>1, <5>1, <5>3
      <4>4. i \in 1 .. Len(list) \/ i = Len(list) + 1
        <5>1. Len(list) \in Nat /\ Len(list') = Len(list) + 1
          BY <3>3 DEF TypeOK, Appended
        <5> QED
          BY <5>1
      <4> QED
        BY <4>2, <4>3, <4>4
    <3>4. CASE Filtered(e)
      <4>1. PICK k \in 1 .. Len(list) : list'[i] = list[k]
        BY <3>4 DEF Filtered, Shortened
      <4>2. ~Is(e, d, c)
        BY <3>4 DEF Filtered, Is, Directions
      <4> QED
        BY <2>1, <3>1, <3>2, <4>1, <4>2
    <3>5. CASE Updated(e)
      <4>1. /\ i \in 1 .. Len(list) /\ list[i].peer = c
            /\ Entry(list'[i], d) = Entry(list[i], d) + IF Is(e, d, c) THEN 1 ELSE 0
        BY <2>1, <3>5 DEF Updated
      <4>2. Entry(list[i], d) \in Nat /\ Entry(list[i], d) + Count(d, c) = Done(d, c)
        BY <3>2, <4>1
      <4>3. CASE Is(e, d, c)
        BY <3>1, <4>1, <4>2, <4>3
      <4>4. CASE ~Is(e, d, c)
        BY <3>1, <4>1, <4>2, <4>4
      <4> QED
        BY <4>3, <4>4
    <3> QED
      BY <1>0, <3>3, <3>4, <3>5, ListHandled
  <2> QED
    BY <2>1 DEF CountedOrPending
<1>5. NothingBefore'
  <2>1. protocol' = protocol /\ Accepted' = Accepted
    BY <1>1, AcceptedNext
  <2>2. ASSUME NEW c \in Clients \ Accepted, NEW d \in Directions, protocol # "udp"
        PROVE  Done(d, c)' = 0 /\ Pending(d, c)' = {}
    <3>1. Done(d, c) = 0 /\ Pending(d, c) = {}
      BY <1>2, <2>2 DEF NothingBefore
    <3>2. Done(d, c)' = Done(d, c) /\ \A k \in Pending(d, c)' : k + 1 \in Pending(d, c)
      BY <1>0, AmountsHandled
    <3> QED
      BY <3>1, <3>2
  <2> QED
    BY <2>1, <2>2 DEF NothingBefore
<1> QED
  BY <1>3, <1>4, <1>5 DEF Balanced

LEMMA BalancedTold ==
  ASSUME TypeOK, Balanced, [Next]_vars, NEW e \in Event, Tells(e), open
  PROVE  Balanced'
<1>0. /\ events \in Seq(Event) /\ events' = Append(events, e) /\ list' = list
      /\ protocol' = protocol /\ Accepted \subseteq Accepted'
  BY Steady DEF TypeOK, Tells, Unlisted
<1>1. CountedOrPending /\ PendingFromTheStart /\ NothingBefore
  BY DEF Balanced
<1>2. ASSUME NEW c \in Clients, NEW d \in Directions
      PROVE  /\ Done(d, c)' = Done(d, c) + (IF Is(e, d, c) THEN 1 ELSE 0)
             /\ Count(d, c)' = Count(d, c) + (IF Is(e, d, c) THEN 1 ELSE 0)
             /\ Pending(d, c)' = IF Is(e, d, c) THEN Pending(d, c) \cup {Len(events) + 1} ELSE Pending(d, c)
             /\ Done(d, c) \in Nat /\ Count(d, c) \in Nat
  BY AmountsTold, Amounts
<1>3. CountedOrPending'
  <2>1. ASSUME NEW c \in Clients, NEW d \in Directions, NEW i \in 1 .. Len(list),
               list[i].peer = c
        PROVE  Entry(list[i], d) + Count(d, c)' = Done(d, c)'
    <3>1. Entry(list[i], d) \in Nat /\ Entry(list[i], d) + Count(d, c) = Done(d, c)
      BY <1>1, <2>1, Amounts DEF CountedOrPending
    <3> QED
      BY <1>2, <3>1
  <2> QED
    BY <1>0, <2>1 DEF CountedOrPending
<1>4. PendingFromTheStart'
  <2>1. ASSUME NEW c \in Clients, NEW d \in Directions, NEW j \in 1 .. Len(events'),
               Joins(events'[j], c)
        PROVE  Count(d, c)' = Done(d, c)' /\ \A k \in Pending(d, c)' : j < k
    <3>1. Len(events) \in Nat
      BY <1>0
    <3>2. CASE j \in 1 .. Len(events) /\ events'[j] = events[j]
      <4>1. Count(d, c) = Done(d, c) /\ \A k \in Pending(d, c) : j < k
        BY <1>1, <2>1, <3>2 DEF PendingFromTheStart
      <4>2. j < Len(events) + 1
        BY <3>1, <3>2
      <4> QED
        BY <1>2, <4>1, <4>2
    <3>3. CASE j = Len(events) + 1 /\ events'[j] = e
      <4>1. e.ev = "ClientJoined" /\ e.peer = c /\ ~Is(e, d, c)
        BY <2>1, <3>3 DEF Joins, Is, Directions
      <4>2. c = next /\ protocol # "udp"
        BY <4>1 DEF Tells, Joining, Directions
      <4>3. c \in Clients \ Accepted
        BY <4>2, AcceptedNext
      <4>4. Done(d, c) = 0 /\ Pending(d, c) = {}
        BY <1>1, <4>2, <4>3 DEF NothingBefore
      <4>5. Count(d, c) = 0
        BY <4>4, FS_EmptySet, Zenon DEF Count
      <4> QED
        BY <1>2, <4>1, <4>4, <4>5
    <3> QED
      BY <1>0, <2>1, <3>2, <3>3, Appending
  <2> QED
    BY <2>1 DEF PendingFromTheStart
<1>5. NothingBefore'
  <2>1. ASSUME NEW c \in Clients \ Accepted, NEW d \in Directions, protocol # "udp"
        PROVE  Done(d, c)' = 0 /\ Pending(d, c)' = {}
    <3>1. ~Is(e, d, c)
      <4>1. ASSUME Is(e, d, c) PROVE FALSE
        <5>1. Exchanging(e.ev, e.peer) /\ e.peer = c
          BY <4>1 DEF Is, Tells, Directions
        <5> QED
          BY <2>1, <5>1 DEF Exchanging
      <4> QED
        BY <4>1
    <3>2. Done(d, c) = 0 /\ Pending(d, c) = {}
      BY <1>1, <2>1 DEF NothingBefore
    <3> QED
      BY <1>2, <3>1, <3>2
  <2> QED
    BY <1>0, <2>1 DEF NothingBefore
<1> QED
  BY <1>3, <1>4, <1>5 DEF Balanced

LEMMA BalancedNext ==
  ASSUME TypeOK, Known, Stages, JoinsOnce, Balanced, [Next]_vars
  PROVE  Balanced'
<1>1. CASE ~open'
  BY <1>1 DEF Balanced
<1>2. CASE /\ UNCHANGED <<list, open, next, events, read, received>>
  <2>1. protocol' = protocol /\ Accepted' = Accepted
    BY <1>2, Steady, AcceptedNext
  <2>2. \A c, d : /\ Count(d, c)' = Count(d, c) /\ Done(d, c)' = Done(d, c)
                  /\ Pending(d, c)' = Pending(d, c)
    BY <1>2 DEF Count, Done, Pending
  <2> QED
    BY <1>2, <2>1, <2>2 DEF Balanced, CountedOrPending, PendingFromTheStart, NothingBefore
<1>3. CASE CloseTab
  BY <1>1, <1>3 DEF CloseTab
<1>4. CASE Quiet /\ events' = events
  BY <1>2, <1>4 DEF Quiet, Untouched, Unlisted
<1>5. CASE Chooses
  BY <1>2, <1>5 DEF Chooses
<1>6. CASE HandleEvent
  <2>1. open' = open /\ open \in BOOLEAN
    BY <1>6, EventShape DEF TypeOK
  <2> QED
    BY <1>1, <1>6, <2>1, BalancedHandled
<1>7. ASSUME NEW e \in Event, Tells(e) PROVE Balanced'
  <2>1. open' = open /\ open \in BOOLEAN
    BY <1>7 DEF Tells, Unlisted, TypeOK
  <2> QED
    BY <1>1, <1>7, <2>1, BalancedTold
<1> QED
  BY <1>3, <1>4, <1>5, <1>6, <1>7, ListMoves

------------------------------------------------------------------------------
(* The theorem. *)
LEMMA ListInvariance == Spec => [](IInv /\ ListInv)
<1>1. Init => ListInv
  <2> SUFFICES ASSUME Init PROVE ListInv
    OBVIOUS
  <2>1. /\ list = <<>> /\ events = <<>> /\ selected = 0 /\ next = 1
        /\ \A c \in Clients : client[c] = "none" /\ read[c] = 0 /\ received[c] = <<>>
    BY DEF Init
  <2>2. JoinsOnce /\ Selection
    BY <2>1 DEF JoinsOnce, Selection
  <2>3. ShowsClients
    <3>1. \A c : ~Shown(c)
      BY <2>1 DEF Shown, Adds, Peers
    <3>2. \A c \in Clients : ~(c < next)
      BY <2>1, Basics DEF Clients
    <3> QED
      BY <3>1, <3>2 DEF ShowsClients
  <2>4. Balanced
    BY <2>1 DEF Balanced, CountedOrPending, PendingFromTheStart, NothingBefore, Done, Pending
  <2> QED
    BY <2>2, <2>3, <2>4 DEF ListInv
<1>2. IInv /\ ListInv /\ [Next]_vars => ListInv'
  <2> SUFFICES ASSUME IInv, ListInv, [Next]_vars PROVE ListInv'
    OBVIOUS
  <2>1. TypeOK /\ Known /\ Stages /\ JoinsOnce /\ Selection /\ ShowsClients /\ Balanced
    BY DEF IInv, ListInv
  <2>2. JoinsOnce' /\ Selection'
    BY <2>1, JoinsOnceNext, SelectionNext
  <2>3. ShowsClients' /\ Balanced'
    BY <2>1, ShowsNext, BalancedNext
  <2> QED
    BY <2>2, <2>3 DEF ListInv
<1> QED
  BY <1>1, <1>2, IInvInit, IInvNext, PTL DEF Spec

(* ListenSession.clients: whoever was accepted and has not ended is shown,  *)
(* and nobody else, each once; one of those shown is selected; and no       *)
(* frame is missing from what is counted for them, whatever the order in    *)
(* which clients come, talk and leave.                                      *)
THEOREM ListTrue == Spec => []ListIsTrue
<1>1. ASSUME IInv, ListInv PROVE ListIsTrue
  <2>1. TypeOK /\ JoinsOnce /\ Selection /\ ShowsClients /\ Balanced
    BY <1>1 DEF IInv, ListInv
  <2>2. ClientsAreListed
    BY <2>1 DEF ClientsAreListed, JoinsOnce, Selection, ShowsClients
  <2>3. TrafficIsCounted
    <3>1. ASSUME open, NEW i \in 1 .. Len(list)
          PROVE  /\ list[i].in + Count("In", list[i].peer) = read[list[i].peer]
                 /\ list[i].out + Count("Out", list[i].peer) = Len(received[list[i].peer])
      <4>1. list[i].peer \in Clients
        BY <2>1, Elements
      <4>2. \A d \in Directions :
              Entry(list[i], d) + Count(d, list[i].peer) = Done(d, list[i].peer)
        BY <2>1, <3>1, <4>1 DEF Balanced, CountedOrPending
      <4> QED
        BY <4>2 DEF Entry, Done, Directions
    <3> QED
      BY <3>1 DEF TrafficIsCounted, Count
  <2> QED
    BY <2>2, <2>3 DEF ListIsTrue
<1> QED
  BY <1>1, ListInvariance, PTL
=============================================================================
