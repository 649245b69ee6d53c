---------------------------- MODULE CaptureProofs ----------------------------
(***************************************************************************)
(* Proofs about a capture session, for every capacity of the channel and   *)
(* of the store, every set of kinds and filters, and a wire of any length. *)
(* The inductive invariant adds to the properties of Capture what relates  *)
(* the thread, the channel and the filters (InFlight, FilterOfThread).     *)
(* With it the disk ring is shown to keep the newest packets (RingInv) and *)
(* the selected row to stay on its packet (RowsGrow).                      *)
(***************************************************************************)
EXTENDS Capture, DiskRingProofs, FiniteSetTheorems, SequenceTheorems, WellFoundedInduction, TLAPS

(* What is in flight: the thread holds a packet exactly while it sends it, *)
(* and a channel without receiver holds nothing.                           *)
InFlight ==
  /\ Len(held) <= 1
  /\ thr = "send" <=> held # <<>>
  /\ chan # <<>> => rx /\ capturing

(* Every packet was on the wire, or in the file, before it was here.       *)
UpTo(s, w) == \A i \in 1 .. Len(s) : s[i].n <= w
FromWire == UpTo(store, wire) /\ UpTo(chan, wire) /\ UpTo(held, wire)

(* A session being loaded from a file has no thread and no filter.         *)
LoadingIsQuiet ==
  ui = "load" => chan = <<>> /\ ~rx /\ ~capturing /\ capFilter = Kinds

(* Whatever is in flight passed the filter of the thread, and outside of   *)
(* a restart that filter is the one the session shows.                     *)
FilterOfThread ==
  /\ \A i \in 1 .. Len(chan) : chan[i].kind \in thrFilter
  /\ \A i \in 1 .. Len(held) : held[i].kind \in thrFilter
  /\ ui \in {"loop", "drain"} /\ capturing => capFilter = thrFilter

IInv ==
  /\ TypeOK
  /\ StoreIsNewestWindow
  /\ InWireOrder
  /\ RunningThreadIsShown
  /\ InFlight
  /\ FromWire
  /\ LoadingIsQuiet
  /\ FilterOfThread

------------------------------------------------------------------------------
(* Rows of a list are finitely many, so their number is a natural number   *)
(* (filtered_indices().len()).                                             *)
LEMMA RowsAreCounted ==
  ASSUME NEW st, Len(st) \in Nat, NEW f
  PROVE  Cardinality(Rows(st, f)) \in Nat
<1>1. IsFiniteSet(1 .. Len(st))
  BY FS_Interval
<1>2. Rows(st, f) \subseteq 1 .. Len(st)
  BY DEF Rows
<1> QED
  BY <1>1, <1>2, FS_Subset, FS_CardinalityType

(* What appending to a sequence of bounded length gives when the oldest    *)
(* element makes room: the sequence that PacketStore::push leaves.         *)
LEMMA Evicting ==
  ASSUME NEW S, NEW s \in Seq(S), NEW x \in S, NEW m \in Nat \ {0},
         NEW t, t = Append(IF Len(s) >= m THEN Tail(s) ELSE s, x)
  PROVE  /\ t \in Seq(S)
         /\ t[Len(t)] = x
         /\ IF Len(s) >= m
            THEN /\ Len(t) = Len(s)
                 /\ \A i \in 1 .. Len(s) - 1 : t[i] = s[i + 1]
            ELSE /\ Len(t) = Len(s) + 1
                 /\ \A i \in 1 .. Len(s) : t[i] = s[i]
<1>1. CASE Len(s) >= m
  <2>1. s # <<>> /\ Len(s) >= 1
    BY <1>1
  <2>2. /\ Tail(s) \in Seq(S)
        /\ Len(Tail(s)) = Len(s) - 1
        /\ \A i \in 1 .. Len(s) - 1 : Tail(s)[i] = s[i + 1]
    BY <2>1
  <2> QED
    BY <1>1, <2>1, <2>2
<1>2. CASE ~(Len(s) >= m)
  BY <1>2
<1> QED
  BY <1>1, <1>2

(* The packet that the store keeps of the packet p.                        *)
Kept(p) == [n |-> p.n, kind |-> p.kind, kl |-> p.kl, id |-> nextId]

(* PacketStore::push in terms of the window: it loses its oldest packet or *)
(* none, and gains the new one at the end.                                 *)
LEMMA PushShape ==
  ASSUME TypeOK, NEW p \in Packet, Push(p)
  PROVE  /\ store' \in Seq(Stored)
         /\ Len(store') >= 1
         /\ store'[Len(store')] = Kept(p)
         /\ nextId' = nextId + 1
         /\ IF Len(store) >= MaxPackets
            THEN /\ Len(store') = Len(store)
                 /\ dropped' = dropped + 1
                 /\ \A i \in 1 .. Len(store) - 1 : store'[i] = store[i + 1]
            ELSE /\ Len(store') = Len(store) + 1
                 /\ dropped' = dropped
                 /\ \A i \in 1 .. Len(store) : store'[i] = store[i]
<1>1. Kept(p) \in Stored
  BY DEF TypeOK, Packet, Stored, Kept
<1>2. store' = Append(IF Len(store) >= MaxPackets THEN Tail(store) ELSE store, Kept(p))
  BY DEF Push, Kept
<1>3. store \in Seq(Stored) /\ MaxPackets \in Nat \ {0}
  BY CaptureAssumption DEF TypeOK
<1> QED
  BY <1>1, <1>2, <1>3, Evicting DEF Push

------------------------------------------------------------------------------
(* What drain_packets leaves of the other types, for the packet it takes.  *)
LEMMA DrainType ==
  ASSUME IInv, NEW o, DrainPacket(o)
  PROVE  TypeOK'
<1>1. Head(chan) \in Packet /\ chan' \in Seq(Packet)
  <2>1. chan \in Seq(Packet) /\ chan # <<>>
    BY DEF IInv, TypeOK, DrainPacket
  <2> QED
    BY <2>1 DEF DrainPacket
<1>2. Push(Head(chan)) /\ TypeOK
  BY DEF DrainPacket, IInv
<1>3. store' \in Seq(Stored) /\ nextId' \in Nat /\ dropped' \in Nat
  BY <1>1, <1>2, PushShape DEF TypeOK
<1>0. Packets(Packet)
  BY DEF Packets, Packet
<1>4. ring' \in Rings(Packet)
  BY <1>0, <1>1, <1>2, WritePacketType DEF DrainPacket, TypeOK
<1>5. selected' \in Nat
  <2>1. Len(store') \in Nat
    BY <1>3
  <2>2. Cardinality(Rows(store', dispFilter)) \in Nat
    BY <2>1, RowsAreCounted
  <2> QED
    BY <1>2, <2>2 DEF DrainPacket, TypeOK
<1> QED
  BY <1>1, <1>2, <1>3, <1>4, <1>5 DEF DrainPacket, TypeOK, uiVars, thrVars

(* Moving the selection keeps it a row number, also when rows are hidden.  *)
LEMMA NavType ==
  ASSUME TypeOK, NEW down \in BOOLEAN, Nav(down) \/ NavHome \/ NavEnd
  PROVE  TypeOK'
<1> DEFINE n == Cardinality(Rows(store, dispFilter))
<1>1. n \in Nat
  BY RowsAreCounted DEF TypeOK
<1> HIDE DEF n
<1>2. selected' \in Nat /\ follow' \in BOOLEAN
  <2>1. CASE Nav(down)
    <3> DEFINE cur == IF selected < n THEN selected ELSE n - 1
               to == IF down THEN IF cur + 1 < n THEN cur + 1 ELSE n - 1
                     ELSE IF cur > 0 THEN cur - 1 ELSE 0
    <3>1. n # 0 => to \in Nat
      BY <1>1 DEF TypeOK
    <3>2. (to + 1 >= n) \in BOOLEAN
      OBVIOUS
    <3>3. CASE n = 0
      BY <2>1, <3>3 DEF Nav, n, TypeOK
    <3>4. CASE n # 0
      <4>1. selected' = to /\ follow' = (selected' + 1 >= n)
        BY <2>1, <3>4, Zenon DEF Nav, n
      <4> QED
        BY <3>1, <3>2, <3>4, <4>1
    <3> QED
      BY <3>3, <3>4
  <2>2. CASE NavHome
    BY <2>2 DEF NavHome
  <2>3. CASE NavEnd
    BY <1>1, <2>3 DEF NavEnd, n
  <2> QED
    BY <2>1, <2>2, <2>3
<1> QED
  BY <1>2 DEF TypeOK, Nav, NavHome, NavEnd, uiVars, thrVars

(* Every step of the session keeps the types, given what is in flight.     *)
LEMMA Typing == IInv /\ [Next]_vars => TypeOK'
<1> SUFFICES ASSUME IInv, [Next]_vars PROVE TypeOK'
  OBVIOUS
<1> USE DEF IInv, uiVars, storeVars, thrVars
<1>0. <<>> \in Seq(Packet)
  OBVIOUS
<1>1. CASE StartCapture
  <2>1. CASE StartOk
    BY <1>0, <1>1, <2>1 DEF StartCapture, StartOk, TypeOK
  <2>2. CASE StartFails
    BY <1>1, <2>2 DEF StartCapture, StartFails, TypeOK
  <2> QED
    BY <1>1, <2>1, <2>2 DEF StartCapture
<1>2. CASE StopCapture
  BY <1>2 DEF StopCapture, BeginStop, Joining, Alive, TypeOK
<1>3. CASE CloseTab
  BY <1>3 DEF CloseTab, BeginStop, Joining, Alive, TypeOK
<1>4. ASSUME NEW f \in Filters, SetCaptureFilter(f) PROVE TypeOK'
  <2>1. CASE capturing
    BY <1>4, <2>1 DEF SetCaptureFilter, BeginStop, Joining, Alive, TypeOK
  <2>2. CASE ~capturing
    BY <1>4, <2>2 DEF SetCaptureFilter, TypeOK
  <2> QED
    BY <2>1, <2>2
<1>5. ASSUME NEW f \in Filters, SetDisplayFilter(f) PROVE TypeOK'
  BY <1>5 DEF SetDisplayFilter, TypeOK
<1>6. CASE \E down \in BOOLEAN : Nav(down)
  BY <1>6, NavType
<1>7. CASE NavHome \/ NavEnd
  BY <1>7, NavType
<1>8. CASE LoadKeylog
  <2>1. keylog' \in Nat
    BY <1>8 DEF LoadKeylog, TypeOK
  <2>2. \A i \in 1 .. Len(store) : [store[i] EXCEPT !.kl = keylog + 1] \in Stored
    <3>1. \A m \in Nat : \A q \in Stored : [q EXCEPT !.kl = m] \in Stored
      BY DEF Stored
    <3>2. \A i \in 1 .. Len(store) : store[i] \in Stored
      BY DEF TypeOK
    <3>3. keylog + 1 \in Nat
      BY DEF TypeOK
    <3> QED
      BY <3>1, <3>2, <3>3
  <2>3. store' \in Seq(Stored)
    BY <1>8, <2>2 DEF LoadKeylog, TypeOK
  <2> QED
    BY <1>8, <2>1, <2>3 DEF LoadKeylog, TypeOK
<1>9. CASE BeginDrain
  BY <1>9 DEF BeginDrain, TypeOK
<1>10. CASE FinishStop
  <2>1. CASE ui = "restart" /\ StartOk
    BY <1>0, <1>10, <2>1 DEF FinishStop, StartOk, TypeOK
  <2>2. CASE ui = "restart" /\ RestartFails
    BY <1>0, <1>10, <2>2 DEF FinishStop, RestartFails, TypeOK
  <2>3. CASE Stopped
    BY <1>0, <1>10, <2>3 DEF FinishStop, Stopped, TypeOK
  <2> QED
    BY <1>10, <2>1, <2>2, <2>3 DEF FinishStop
<1>11. ASSUME NEW o \in Outcomes, DrainPacket(o) PROVE TypeOK'
  BY <1>11, DrainType
<1>12. CASE EndDrain
  BY <1>12 DEF EndDrain, TypeOK
<1>13. ASSUME NEW k \in Kinds, LoadPacket(k) PROVE TypeOK'
  <2>1. [n |-> wire + 1, kind |-> k, kl |-> keylog] \in Packet
    BY DEF TypeOK, Packet
  <2>2. store' \in Seq(Stored) /\ nextId' \in Nat /\ dropped' \in Nat
    <3>1. Push([n |-> wire + 1, kind |-> k, kl |-> keylog]) /\ TypeOK
      BY <1>13 DEF LoadPacket
    <3>2. store' \in Seq(Stored) /\ nextId' = nextId + 1
          /\ (dropped' = dropped \/ dropped' = dropped + 1)
      BY <2>1, <3>1, PushShape
    <3> QED
      BY <3>2 DEF TypeOK
  <2> QED
    BY <1>13, <2>2 DEF LoadPacket, TypeOK
<1>14. CASE LoadDone
  BY <1>14 DEF LoadDone, TypeOK
<1>15. CASE CheckStop \/ NoPacket \/ ThreadDies
  <2>1. CASE CheckStop
    BY <2>1 DEF CheckStop, TypeOK
  <2>2. CASE NoPacket
    BY <2>2 DEF NoPacket, TypeOK
  <2>3. CASE ThreadDies
    BY <2>3 DEF ThreadDies, TypeOK
  <2> QED
    BY <1>15, <2>1, <2>2, <2>3
<1>16. CASE SendPacket
  <2>1. held \in Seq(Packet) /\ held # <<>> /\ chan \in Seq(Packet)
    BY <1>16 DEF SendPacket, TypeOK, InFlight
  <2>2. Append(chan, Head(held)) \in Seq(Packet)
    BY <2>1
  <2> QED
    BY <1>16, <2>2 DEF SendPacket, TypeOK
<1>17. ASSUME NEW k \in Kinds, NextPacket(k) PROVE TypeOK'
  <2>1. [n |-> wire + 1, kind |-> k, kl |-> thrKeylog] \in Packet
    BY DEF TypeOK, Packet
  <2>2. held' \in Seq(Packet)
    <3>1. <<[n |-> wire + 1, kind |-> k, kl |-> thrKeylog]>> \in Seq(Packet)
      BY <2>1
    <3> QED
      BY <1>17, <3>1 DEF NextPacket, TypeOK
  <2> QED
    BY <1>17, <2>2 DEF NextPacket, TypeOK
<1>18. CASE UNCHANGED vars
  BY <1>18 DEF vars, TypeOK
<1> QED
  BY <1>1, <1>2, <1>3, <1>4, <1>5, <1>6, <1>7, <1>8, <1>9, <1>10, <1>11, <1>12, <1>13,
     <1>14, <1>15, <1>16, <1>17, <1>18
  DEF Next, UserStep, UiStep, ThreadStep

------------------------------------------------------------------------------
(* The three ways a step changes the store, and nothing else does.         *)
LEMMA StoreSteps ==
  ASSUME [Next]_vars
  PROVE  \/ UNCHANGED <<store, nextId, dropped>>
         \/ LoadKeylog
         \/ \E o \in Outcomes : DrainPacket(o)
         \/ \E k \in Kinds : LoadPacket(k)
BY Zenon DEF Next, UserStep, UiStep, ThreadStep, StartCapture, StopCapture, CloseTab,
  SetCaptureFilter, SetDisplayFilter, Nav, NavHome, NavEnd, BeginDrain, FinishStop,
  EndDrain, LoadDone, CheckStop, NoPacket, ThreadDies, SendPacket, NextPacket, vars,
  storeVars

(* Pushing keeps the store the window of the newest packets.               *)
LEMMA PushWindow ==
  ASSUME TypeOK, StoreIsNewestWindow, NEW p \in Packet, Push(p)
  PROVE  StoreIsNewestWindow'
<1>1. /\ Len(store) \in Nat /\ dropped \in Nat /\ nextId \in Nat
      /\ MaxPackets \in Nat \ {0}
  BY CaptureAssumption DEF TypeOK
<1>2. Kept(p).id = nextId
  BY DEF Kept
<1>3. CASE Len(store) >= MaxPackets
  <2>1. /\ Len(store') = Len(store) /\ dropped' = dropped + 1 /\ nextId' = nextId + 1
        /\ store'[Len(store')] = Kept(p)
        /\ \A i \in 1 .. Len(store) - 1 : store'[i] = store[i + 1]
    BY <1>3, PushShape
  <2>2. ASSUME NEW i \in 1 .. Len(store') PROVE store'[i].id = dropped' + i
    <3>1. CASE i = Len(store')
      BY <1>1, <1>2, <2>1, <3>1 DEF StoreIsNewestWindow
    <3>2. CASE i # Len(store')
      <4>1. i \in 1 .. Len(store) - 1 /\ i + 1 \in 1 .. Len(store)
        BY <1>1, <2>1, <3>2
      <4>2. store'[i] = store[i + 1] /\ store[i + 1].id = dropped + (i + 1)
        BY <2>1, <4>1 DEF StoreIsNewestWindow
      <4> QED
        BY <1>1, <2>1, <4>1, <4>2
    <3> QED
      BY <3>1, <3>2
  <2> QED
    BY <1>1, <2>1, <2>2 DEF StoreIsNewestWindow
<1>4. CASE ~(Len(store) >= MaxPackets)
  <2>1. /\ Len(store') = Len(store) + 1 /\ dropped' = dropped /\ nextId' = nextId + 1
        /\ store'[Len(store')] = Kept(p)
        /\ \A i \in 1 .. Len(store) : store'[i] = store[i]
    BY <1>4, PushShape
  <2>2. ASSUME NEW i \in 1 .. Len(store') PROVE store'[i].id = dropped' + i
    <3>1. CASE i = Len(store')
      BY <1>1, <1>2, <2>1, <3>1 DEF StoreIsNewestWindow
    <3>2. CASE i # Len(store')
      <4>1. i \in 1 .. Len(store)
        BY <1>1, <2>1, <3>2
      <4> QED
        BY <2>1, <4>1 DEF StoreIsNewestWindow
    <3> QED
      BY <3>1, <3>2
  <2> QED
    BY <1>1, <1>4, <2>1, <2>2 DEF StoreIsNewestWindow
<1> QED
  BY <1>3, <1>4

(* Every step keeps the window: draining and loading push, a key log       *)
(* changes neither ids nor length, and the rest leaves the store alone.    *)
LEMMA Window == TypeOK /\ StoreIsNewestWindow /\ [Next]_vars => StoreIsNewestWindow'
<1> SUFFICES ASSUME TypeOK, StoreIsNewestWindow, [Next]_vars PROVE StoreIsNewestWindow'
  OBVIOUS
<1>1. CASE UNCHANGED <<store, nextId, dropped>>
  BY <1>1 DEF StoreIsNewestWindow
<1>2. CASE LoadKeylog
  <2>1. Len(store') = Len(store) /\ UNCHANGED <<nextId, dropped>>
    BY <1>2 DEF LoadKeylog, TypeOK
  <2>2. \A i \in 1 .. Len(store) : store'[i].id = store[i].id
    <3>1. \A q \in Stored : \A m : [q EXCEPT !.kl = m].id = q.id
      BY DEF Stored
    <3>2. \A i \in 1 .. Len(store) : store[i] \in Stored
      BY DEF TypeOK
    <3> QED
      BY <1>2, <3>1, <3>2 DEF LoadKeylog
  <2> QED
    BY <2>1, <2>2 DEF StoreIsNewestWindow
<1>3. ASSUME NEW o \in Outcomes, DrainPacket(o) PROVE StoreIsNewestWindow'
  <2>1. chan \in Seq(Packet) /\ chan # <<>> /\ Push(Head(chan))
    BY <1>3 DEF DrainPacket, TypeOK
  <2> QED
    BY <2>1, PushWindow
<1>4. ASSUME NEW k \in Kinds, LoadPacket(k) PROVE StoreIsNewestWindow'
  <2>1. Push([n |-> wire + 1, kind |-> k, kl |-> keylog])
    BY <1>4 DEF LoadPacket
  <2>2. [n |-> wire + 1, kind |-> k, kl |-> keylog] \in Packet
    BY DEF TypeOK, Packet
  <2> QED
    BY <2>1, <2>2, PushWindow
<1> QED
  BY <1>1, <1>2, <1>3, <1>4, StoreSteps

------------------------------------------------------------------------------
(* How a step moves packets along the line wire - thread - channel - store *)
(* (a start or a stop empties the channel).                                *)
LEMMA LineSteps ==
  ASSUME [Next]_vars
  PROVE  \/ UNCHANGED <<store, chan, held, wire>>
         \/ chan' = <<>> /\ UNCHANGED <<store, held, wire>>
         \/ LoadKeylog
         \/ \E o \in Outcomes : DrainPacket(o)
         \/ \E k \in Kinds : LoadPacket(k)
         \/ SendPacket
         \/ \E k \in Kinds : NextPacket(k)
         \/ ThreadDies
<1>1. CASE StartCapture
  BY <1>1, Zenon DEF StartCapture, StartOk, StartFails, storeVars
<1>2. CASE FinishStop
  BY <1>2, Zenon DEF FinishStop, StartOk, RestartFails, Stopped, storeVars
<1>3. CASE StopCapture \/ CloseTab \/ NavHome \/ NavEnd \/ BeginDrain
  BY <1>3, Zenon DEF StopCapture, CloseTab, NavHome, NavEnd, BeginDrain, storeVars, thrVars
<1>4. CASE EndDrain \/ LoadDone \/ CheckStop \/ NoPacket \/ UNCHANGED vars
  BY <1>4, Zenon DEF EndDrain, LoadDone, CheckStop, NoPacket, vars, storeVars, thrVars
<1>5. CASE (\E f \in Filters : SetCaptureFilter(f) \/ SetDisplayFilter(f))
           \/ (\E down \in BOOLEAN : Nav(down))
  BY <1>5, Zenon DEF SetCaptureFilter, SetDisplayFilter, Nav, storeVars, thrVars
<1> QED
  BY <1>1, <1>2, <1>3, <1>4, <1>5, Zenon DEF Next, UserStep, UiStep, ThreadStep

Line(st, ch, he, w) ==
  /\ Ordered(st) /\ Ordered(ch)
  /\ Before(st, ch) /\ Before(st, he) /\ Before(ch, he)
  /\ UpTo(st, w) /\ UpTo(ch, w) /\ UpTo(he, w)

(* Pushing a packet that is behind everything stored, and ahead of what is *)
(* still in the channel and with the thread, keeps the line.               *)
LEMMA PushLine ==
  ASSUME TypeOK, NEW p \in Packet, Push(p),
         NEW ch, Len(ch) \in Nat, NEW w \in Nat,
         Line(store, ch, held, w),
         \A i \in 1 .. Len(ch) : p.n < ch[i].n,
         \A i \in 1 .. Len(held) : p.n < held[i].n,
         \A i \in 1 .. Len(store) : store[i].n < p.n,
         p.n <= w
  PROVE  Line(store', ch, held, w)
<1>1. /\ Len(store) \in Nat
      /\ Kept(p).n = p.n
  BY DEF TypeOK, Kept
<1>2. Len(store') \in Nat /\ store'[Len(store')].n = p.n
  BY <1>1, PushShape
<1>3. \A i \in 1 .. Len(store') :
        \/ i = Len(store')
        \/ i \in 1 .. Len(store) /\ store'[i] = store[i] /\ Len(store') = Len(store) + 1
        \/ i + 1 \in 1 .. Len(store) /\ store'[i] = store[i + 1] /\ Len(store') = Len(store)
  BY <1>1, <1>2, PushShape
<1>4. Ordered(store')
  <2> SUFFICES ASSUME NEW i \in 1 .. Len(store'), NEW j \in 1 .. Len(store'), i < j
               PROVE  store'[i].n < store'[j].n
    BY DEF Ordered
  <2>1. i # Len(store')
    BY <1>2
  <2>2. CASE j = Len(store')
    BY <1>1, <1>2, <1>3, <2>1, <2>2
  <2>3. CASE j # Len(store')
    <3>1. CASE /\ i \in 1 .. Len(store) /\ j \in 1 .. Len(store)
                /\ store'[i] = store[i] /\ store'[j] = store[j]
      BY <3>1 DEF Line, Ordered
    <3>2. CASE /\ i + 1 \in 1 .. Len(store) /\ j + 1 \in 1 .. Len(store)
                /\ store'[i] = store[i + 1] /\ store'[j] = store[j + 1]
      BY <3>2 DEF Line, Ordered
    <3> QED
      BY <1>1, <1>3, <2>1, <2>3, <3>1, <3>2
  <2> QED
    BY <2>2, <2>3
<1>5. Before(store', ch)
  BY <1>2, <1>3 DEF Line, Before
<1>6. Before(store', held)
  BY <1>2, <1>3 DEF Line, Before
<1>7. UpTo(store', w)
  BY <1>2, <1>3 DEF Line, UpTo
<1> QED
  BY <1>4, <1>5, <1>6, <1>7 DEF Line

(* Every step keeps the order of the line and its bound, the wire.         *)
LEMMA Order == IInv /\ [Next]_vars => Line(store', chan', held', wire')
<1> SUFFICES ASSUME IInv, [Next]_vars PROVE Line(store', chan', held', wire')
  OBVIOUS
<1> DEFINE L == Line(store, chan, held, wire)
<1>0. TypeOK /\ L /\ TypeOK'
  BY Typing DEF IInv, InWireOrder, FromWire, Line
<1>t. /\ Len(store) \in Nat /\ Len(chan) \in Nat /\ wire \in Nat
      /\ \A i \in 1 .. Len(store) : store[i].n \in Nat
      /\ \A i \in 1 .. Len(chan) : chan[i].n \in Nat
      /\ \A i \in 1 .. Len(held) : held[i].n \in Nat
  <2>1. /\ \A i \in 1 .. Len(store) : store[i] \in Stored
        /\ \A i \in 1 .. Len(chan) : chan[i] \in Packet
        /\ \A i \in 1 .. Len(held) : held[i] \in Packet
    BY <1>0 DEF TypeOK
  <2>2. (\A q \in Stored : q.n \in Nat) /\ (\A q \in Packet : q.n \in Nat)
    BY DEF Stored, Packet
  <2> QED
    BY <1>0, <2>1, <2>2 DEF TypeOK
<1>1. CASE UNCHANGED <<store, chan, held, wire>>
  BY <1>0, <1>1
<1>2. CASE chan' = <<>> /\ UNCHANGED <<store, held, wire>>
  BY <1>0, <1>2 DEF Line, Ordered, Before, UpTo
<1>3. CASE LoadKeylog
  <2>1. /\ Len(store') = Len(store)
        /\ \A i \in 1 .. Len(store) : store'[i] = [store[i] EXCEPT !.kl = keylog + 1]
        /\ UNCHANGED <<chan, held, wire>>
    BY <1>0, <1>3 DEF LoadKeylog, TypeOK, thrVars
  <2>2. \A q \in Stored : \A m : [q EXCEPT !.kl = m].n = q.n
    BY DEF Stored
  <2>3. \A i \in 1 .. Len(store) : store'[i].n = store[i].n
    <3>1. \A i \in 1 .. Len(store) : store[i] \in Stored
      BY <1>0 DEF TypeOK
    <3>2. \A i \in 1 .. Len(store) : [store[i] EXCEPT !.kl = keylog + 1].n = store[i].n
      BY <2>2, <3>1
    <3> QED
      BY <2>1, <3>2
  <2> QED
    BY <1>0, <2>1, <2>3 DEF Line, Ordered, Before, UpTo
<1>4. ASSUME NEW o \in Outcomes, DrainPacket(o) PROVE Line(store', chan', held', wire')
  <2>1. /\ chan \in Seq(Packet) /\ chan # <<>>
        /\ Push(Head(chan)) /\ chan' = Tail(chan)
        /\ UNCHANGED <<held, wire>>
    BY <1>0, <1>4 DEF DrainPacket, TypeOK, thrVars
  <2>2. /\ Head(chan) \in Packet /\ Head(chan) = chan[1] /\ Len(chan) >= 1
        /\ Len(Tail(chan)) = Len(chan) - 1
        /\ \A i \in 1 .. Len(Tail(chan)) : i + 1 \in 1 .. Len(chan) /\ Tail(chan)[i] = chan[i + 1]
    BY <2>1
  <2>3. Line(store, Tail(chan), held, wire)
    BY <1>0, <1>t, <2>2 DEF Line, Ordered, Before, UpTo
  <2>4. /\ \A i \in 1 .. Len(Tail(chan)) : Head(chan).n < Tail(chan)[i].n
        /\ \A i \in 1 .. Len(held) : Head(chan).n < held[i].n
        /\ \A i \in 1 .. Len(store) : store[i].n < Head(chan).n
        /\ Head(chan).n <= wire
    <3>0. 1 \in 1 .. Len(chan)
      BY <1>t, <2>2
    <3>1. \A i \in 1 .. Len(Tail(chan)) : Head(chan).n < Tail(chan)[i].n
      <4>1. \A j \in 1 .. Len(chan) : 1 < j => chan[1].n < chan[j].n
        BY <1>0, <3>0 DEF Line, Ordered
      <4>2. \A i \in 1 .. Len(Tail(chan)) : 1 < i + 1
        BY <1>t, <2>2
      <4> QED
        BY <2>2, <4>1, <4>2
    <3>2. \A i \in 1 .. Len(held) : Head(chan).n < held[i].n
      BY <1>0, <2>2, <3>0 DEF Line, Before
    <3>3. \A i \in 1 .. Len(store) : store[i].n < Head(chan).n
      BY <1>0, <2>2, <3>0 DEF Line, Before
    <3>4. Head(chan).n <= wire
      BY <1>0, <2>2, <3>0 DEF Line, UpTo
    <3> QED
      BY <3>1, <3>2, <3>3, <3>4
  <2>5. Len(Tail(chan)) \in Nat
    BY <1>t, <2>2
  <2>6. Line(store', Tail(chan), held, wire)
    BY <1>0, <1>t, <2>1, <2>2, <2>3, <2>4, <2>5, PushLine
  <2> QED
    BY <2>1, <2>6
<1>5. ASSUME NEW k \in Kinds, LoadPacket(k) PROVE Line(store', chan', held', wire')
  <2> DEFINE p == [n |-> wire + 1, kind |-> k, kl |-> keylog]
  <2>1. p \in Packet /\ p.n = wire + 1
    BY <1>0 DEF TypeOK, Packet
  <2>2. /\ Push(p) /\ wire' = wire + 1 /\ ui = "load"
        /\ UNCHANGED <<chan, held>>
    BY <1>5 DEF LoadPacket
  <2>3. chan = <<>> /\ held = <<>>
    BY <2>2 DEF IInv, LoadingIsQuiet, RunningThreadIsShown, InFlight, Alive
  <2> HIDE DEF p
  <2>4. Line(store, chan, held, wire + 1)
    BY <1>0, <1>t, <2>3 DEF Line, Ordered, Before, UpTo
  <2>5. \A i \in 1 .. Len(store) : store[i].n < p.n
    BY <1>0, <1>t, <2>1 DEF Line, Ordered, Before, UpTo
  <2>6. Line(store', chan, held, wire + 1)
    BY <1>0, <1>t, <2>1, <2>2, <2>3, <2>4, <2>5, PushLine
  <2> QED
    BY <2>2, <2>6
<1>6. CASE SendPacket
  <2>1. held \in Seq(Packet) /\ Len(held) = 1 /\ Head(held) = held[1]
    <3>1. held \in Seq(Packet) /\ held # <<>> /\ Len(held) <= 1
      <4>1. thr = "send"
        BY <1>6 DEF SendPacket
      <4>2. held # <<>> /\ Len(held) <= 1
        BY <4>1 DEF IInv, InFlight
      <4> QED
        BY <1>0, <4>2 DEF TypeOK
    <3>2. Len(held) = 1
      <4>1. Len(held) \in Nat \ {0}
        BY <3>1, EmptySeq, Zenon
      <4>2. \A m \in Nat \ {0} : m <= 1 => m = 1
        OBVIOUS
      <4> QED
        BY <3>1, <4>1, <4>2, Zenon
    <3>3. Head(held) = held[1]
      BY <3>1
    <3> QED
      BY <3>1, <3>2, <3>3
  <2>2. held' = <<>> /\ UNCHANGED <<store, wire>>
    BY <1>6 DEF SendPacket, storeVars
  <2>3. CASE chan' = chan
    BY <1>0, <2>2, <2>3 DEF Line, Ordered, Before, UpTo
  <2>4. CASE chan' = Append(chan, Head(held))
    <3>1. /\ Len(chan') = Len(chan) + 1
          /\ chan'[Len(chan')] = held[1]
          /\ \A i \in 1 .. Len(chan) : chan'[i] = chan[i]
      BY <1>0, <2>1, <2>4 DEF TypeOK
    <3>2. \A i \in 1 .. Len(chan') : i = Len(chan') \/ i \in 1 .. Len(chan)
      BY <1>t, <3>1
    <3>3. Ordered(chan')
      BY <1>0, <1>t, <2>1, <3>1, <3>2 DEF Line, Ordered, Before
    <3>4. Before(store, chan')
      BY <1>0, <1>t, <2>1, <3>1, <3>2 DEF Line, Before
    <3>5. UpTo(chan', wire)
      BY <1>0, <1>t, <2>1, <3>1, <3>2 DEF Line, UpTo
    <3>6. Before(store, held') /\ Before(chan', held') /\ UpTo(held', wire)
      BY <2>2 DEF Before, UpTo
    <3> QED
      BY <1>0, <2>2, <3>3, <3>4, <3>5, <3>6 DEF Line
  <2> QED
    BY <1>6, <2>3, <2>4 DEF SendPacket
<1>7. ASSUME NEW k \in Kinds, NextPacket(k) PROVE Line(store', chan', held', wire')
  <2>1. held = <<>> /\ wire' = wire + 1 /\ UNCHANGED <<store, chan>>
    BY <1>7 DEF NextPacket, IInv, InFlight, storeVars
  <2>2. CASE held' = held
    BY <1>0, <1>t, <2>1, <2>2 DEF Line, Ordered, Before, UpTo
  <2>3. CASE held' = <<[n |-> wire + 1, kind |-> k, kl |-> thrKeylog]>>
    <3>1. Len(held') = 1 /\ held'[1].n = wire + 1
      BY <2>3
    <3> QED
      BY <1>0, <1>t, <2>1, <3>1 DEF Line, Ordered, Before, UpTo
  <2> QED
    BY <1>7, <2>2, <2>3 DEF NextPacket
<1>8. CASE ThreadDies
  <2>1. wire' = wire + 1 /\ UNCHANGED <<store, chan, held>>
    BY <1>8 DEF ThreadDies, storeVars
  <2> QED
    BY <1>0, <1>t, <2>1 DEF Line, Ordered, Before, UpTo
<1> QED
  BY <1>1, <1>2, <1>3, <1>4, <1>5, <1>6, <1>7, <1>8, LineSteps

------------------------------------------------------------------------------
(* A start sets everything up for the new thread, and the session that     *)
(* stops has none: the thread is shown, and holds what it sends.           *)
LEMMA Control ==
  IInv /\ [Next]_vars => RunningThreadIsShown' /\ InFlight' /\ LoadingIsQuiet'
<1> DEFINE Goal == RunningThreadIsShown' /\ InFlight' /\ LoadingIsQuiet'
<1> SUFFICES ASSUME IInv, [Next]_vars PROVE Goal
  OBVIOUS
<1>0. TypeOK /\ RunningThreadIsShown /\ InFlight /\ LoadingIsQuiet
  BY DEF IInv
<1> USE DEF uiVars, storeVars, thrVars, RunningThreadIsShown, InFlight, LoadingIsQuiet, Alive
<1>1. CASE StartCapture
  <2>1. CASE StartOk
    BY <1>0, <1>1, <2>1 DEF StartCapture, StartOk
  <2>2. CASE StartFails
    BY <1>0, <1>1, <2>2 DEF StartCapture, StartFails
  <2> QED
    BY <1>1, <2>1, <2>2 DEF StartCapture
<1>2. CASE StopCapture \/ CloseTab
  BY <1>0, <1>2 DEF StopCapture, CloseTab, BeginStop
<1>3. ASSUME NEW f \in Filters, SetCaptureFilter(f) PROVE Goal
  BY <1>0, <1>3 DEF SetCaptureFilter, BeginStop
<1>4. ASSUME NEW f \in Filters, SetDisplayFilter(f) PROVE Goal
  BY <1>0, <1>4 DEF SetDisplayFilter
<1>5. CASE (\E down \in BOOLEAN : Nav(down)) \/ NavHome \/ NavEnd
  BY <1>0, <1>5 DEF Nav, NavHome, NavEnd
<1>6. CASE LoadKeylog
  BY <1>0, <1>6 DEF LoadKeylog
<1>7. CASE BeginDrain \/ LoadDone
  BY <1>0, <1>7 DEF BeginDrain, LoadDone
<1>8. CASE FinishStop
  <2>1. CASE ui = "restart" /\ StartOk
    BY <1>0, <1>8, <2>1 DEF FinishStop, StartOk
  <2>2. CASE ui = "restart" /\ RestartFails
    BY <1>0, <1>8, <2>2 DEF FinishStop, RestartFails
  <2>3. CASE Stopped
    BY <1>0, <1>8, <2>3 DEF FinishStop, Stopped
  <2> QED
    BY <1>8, <2>1, <2>2, <2>3 DEF FinishStop
<1>9. ASSUME NEW o \in Outcomes, DrainPacket(o) PROVE Goal
  BY <1>0, <1>9 DEF DrainPacket
<1>10. CASE EndDrain
  BY <1>0, <1>10 DEF EndDrain
<1>11. ASSUME NEW k \in Kinds, LoadPacket(k) PROVE Goal
  BY <1>0, <1>11 DEF LoadPacket
<1>12. CASE CheckStop \/ NoPacket \/ ThreadDies
  BY <1>0, <1>12 DEF CheckStop, NoPacket, ThreadDies
<1>13. CASE SendPacket
  <2>1. rx
    BY <1>0, <1>13 DEF SendPacket
  <2>2. held' = <<>> /\ thr' = "check" /\ UNCHANGED <<rx, capturing, status, ui, capFilter>>
    BY <1>13, <2>1 DEF SendPacket
  <2> QED
    BY <1>0, <1>13, <2>1, <2>2 DEF SendPacket
<1>14. ASSUME NEW k \in Kinds, NextPacket(k) PROVE Goal
  <2>1. held = <<>> /\ thr = "next"
    BY <1>0, <1>14 DEF NextPacket
  <2>2. \A q : Len(<<q>>) <= 1 /\ <<q>> # <<>>
    OBVIOUS
  <2>3. Len(held') <= 1 /\ (thr' = "send" <=> held' # <<>>) /\ thr' \in {"send", "check"}
    <3>1. CASE k \in thrFilter
      BY <1>14, <2>2, <3>1, Zenon DEF NextPacket
    <3>2. CASE k \notin thrFilter
      BY <1>0, <1>14, <2>1, <3>2 DEF NextPacket
    <3> QED
      BY <3>1, <3>2
  <2> QED
    BY <1>0, <1>14, <2>1, <2>3 DEF NextPacket
<1>15. CASE UNCHANGED vars
  BY <1>0, <1>15 DEF vars
<1> QED
  BY <1>1, <1>2, <1>3, <1>4, <1>5, <1>6, <1>7, <1>8, <1>9, <1>10, <1>11, <1>12, <1>13,
     <1>14, <1>15
  DEF Next, UserStep, UiStep, ThreadStep

(* The filter of the thread is the filter of what it sends, and a filter   *)
(* that changes takes its thread and its channel with it.                  *)
LEMMA FilterFollowsThread == IInv /\ [Next]_vars => FilterOfThread'
<1> SUFFICES ASSUME IInv, [Next]_vars PROVE FilterOfThread'
  OBVIOUS
<1>0. TypeOK /\ RunningThreadIsShown /\ InFlight /\ LoadingIsQuiet /\ FilterOfThread
  BY DEF IInv
<1> USE DEF uiVars, storeVars, thrVars, FilterOfThread
<1>1. CASE StartCapture
  <2>1. CASE StartOk
    <3>1. held = <<>>
      BY <1>0, <1>1 DEF StartCapture, RunningThreadIsShown, InFlight, Alive
    <3> QED
      BY <1>1, <2>1, <3>1 DEF StartCapture, StartOk
  <2>2. CASE StartFails
    BY <1>0, <1>1, <2>2 DEF StartCapture, StartFails
  <2> QED
    BY <1>1, <2>1, <2>2 DEF StartCapture
<1>2. CASE StopCapture \/ CloseTab
  BY <1>0, <1>2 DEF StopCapture, CloseTab, BeginStop
<1>3. ASSUME NEW f \in Filters, SetCaptureFilter(f) PROVE FilterOfThread'
  BY <1>0, <1>3 DEF SetCaptureFilter, BeginStop
<1>4. ASSUME NEW f \in Filters, SetDisplayFilter(f) PROVE FilterOfThread'
  BY <1>0, <1>4 DEF SetDisplayFilter
<1>5. CASE (\E down \in BOOLEAN : Nav(down)) \/ NavHome \/ NavEnd
  BY <1>0, <1>5 DEF Nav, NavHome, NavEnd
<1>6. CASE LoadKeylog
  BY <1>0, <1>6 DEF LoadKeylog
<1>7. CASE BeginDrain \/ LoadDone
  BY <1>0, <1>7 DEF BeginDrain, LoadDone, LoadingIsQuiet
<1>8. CASE FinishStop
  <2>0. held = <<>>
    BY <1>0, <1>8 DEF FinishStop, InFlight, Alive
  <2>1. CASE ui = "restart" /\ StartOk
    <3>1. /\ chan' = <<>> /\ held' = <<>> /\ thrFilter' = capFilter
          /\ UNCHANGED capFilter
      BY <1>8, <2>0, <2>1 DEF FinishStop, StartOk
    <3> QED
      BY <3>1
  <2>2. CASE ui = "restart" /\ RestartFails
    BY <1>8, <2>0, <2>2 DEF FinishStop, RestartFails
  <2>3. CASE Stopped
    BY <1>8, <2>0, <2>3 DEF FinishStop, Stopped
  <2> QED
    BY <1>8, <2>1, <2>2, <2>3 DEF FinishStop
<1>9. ASSUME NEW o \in Outcomes, DrainPacket(o) PROVE FilterOfThread'
  <2>1. /\ chan \in Seq(Packet) /\ chan # <<>> /\ chan' = Tail(chan)
        /\ UNCHANGED <<ui, capturing, capFilter, thrFilter, held>>
    BY <1>0, <1>9 DEF DrainPacket, TypeOK
  <2>2. \A i \in 1 .. Len(chan') : i + 1 \in 1 .. Len(chan) /\ chan'[i] = chan[i + 1]
    BY <2>1
  <2> QED
    BY <1>0, <2>1, <2>2
<1>10. CASE EndDrain
  BY <1>0, <1>10 DEF EndDrain
<1>11. ASSUME NEW k \in Kinds, LoadPacket(k) PROVE FilterOfThread'
  BY <1>0, <1>11 DEF LoadPacket
<1>12. CASE CheckStop \/ NoPacket \/ ThreadDies
  BY <1>0, <1>12 DEF CheckStop, NoPacket, ThreadDies
<1>13. CASE SendPacket
  <2>1. held' = <<>> /\ UNCHANGED <<ui, capturing, capFilter, thrFilter>>
    BY <1>13 DEF SendPacket
  <2>2. CASE chan' = chan
    BY <1>0, <2>1, <2>2
  <2>3. CASE chan' = Append(chan, Head(held))
    <3>1. held \in Seq(Packet) /\ chan \in Seq(Packet) /\ held # <<>>
      BY <1>0, <1>13 DEF SendPacket, TypeOK, InFlight
    <3>2. Head(held).kind \in thrFilter
      <4>1. 1 \in 1 .. Len(held) /\ Head(held) = held[1]
        BY <3>1
      <4> QED
        BY <1>0, <4>1
    <3>3. \A i \in 1 .. Len(chan') :
            \/ chan'[i] = Head(held)
            \/ i \in 1 .. Len(chan) /\ chan'[i] = chan[i]
      BY <2>3, <3>1
    <3> QED
      BY <1>0, <2>1, <3>2, <3>3
  <2> QED
    BY <1>13, <2>2, <2>3 DEF SendPacket
<1>14. ASSUME NEW k \in Kinds, NextPacket(k) PROVE FilterOfThread'
  <2> DEFINE p == [n |-> wire + 1, kind |-> k, kl |-> thrKeylog]
  <2>1. UNCHANGED <<ui, capturing, capFilter, thrFilter, chan>>
    BY <1>14 DEF NextPacket
  <2>2. held' = held \/ (k \in thrFilter /\ held' = <<p>>)
    BY <1>14 DEF NextPacket
  <2>3. p.kind = k
    OBVIOUS
  <2> HIDE DEF p
  <2>4. \A i \in 1 .. Len(<<p>>) : <<p>>[i] = p
    OBVIOUS
  <2> QED
    BY <1>0, <2>1, <2>2, <2>3, <2>4
<1>15. CASE UNCHANGED vars
  BY <1>0, <1>15 DEF vars
<1> QED
  BY <1>1, <1>2, <1>3, <1>4, <1>5, <1>6, <1>7, <1>8, <1>9, <1>10, <1>11, <1>12, <1>13,
     <1>14, <1>15
  DEF Next, UserStep, UiStep, ThreadStep

------------------------------------------------------------------------------
(* Every session starts empty, whether live, with or without a ring, or    *)
(* about to load a file (new_live, open_file).                             *)
LEMMA Initially == Init => IInv
<1> SUFFICES ASSUME Init PROVE IInv
  OBVIOUS
<1>1. <<>> \in Seq(Stored) /\ <<>> \in Seq(Packet)
  OBVIOUS
<1>2. ring \in Rings(Packet)
  BY NoRingType DEF Init
<1>3. TypeOK
  BY <1>1, <1>2, CaptureAssumption DEF Init, TypeOK
<1>4. StoreIsNewestWindow
  BY CaptureAssumption DEF Init, StoreIsNewestWindow
<1>5. InWireOrder /\ FromWire
  BY DEF Init, InWireOrder, Ordered, Before, FromWire, UpTo
<1>6. RunningThreadIsShown /\ InFlight /\ LoadingIsQuiet /\ FilterOfThread
  BY DEF Init, RunningThreadIsShown, Alive, InFlight, LoadingIsQuiet, FilterOfThread
<1> QED
  BY <1>3, <1>4, <1>5, <1>6 DEF IInv

(* The inductive invariant, of which every property below is a part.       *)
THEOREM Invariance == Spec => []IInv
<1>1. IInv /\ [Next]_vars => IInv'
  <2> SUFFICES ASSUME IInv, [Next]_vars PROVE IInv'
    OBVIOUS
  <2>1. Line(store', chan', held', wire')
    BY Order
  <2>2. InWireOrder' /\ FromWire'
    BY <2>1 DEF Line, InWireOrder, FromWire
  <2>3. StoreIsNewestWindow'
    BY Window DEF IInv
  <2> QED
    BY <2>2, <2>3, Typing, Control, FilterFollowsThread DEF IInv
<1> QED
  BY <1>1, Initially, PTL DEF Spec

(* Every variable keeps its type, the selection included.                  *)
THEOREM TypeCorrect == Spec => []TypeOK
<1>1. IInv => TypeOK
  BY DEF IInv
<1> QED
  BY <1>1, Invariance, PTL

(* The store is the window of the newest packets, whatever its capacity    *)
(* (PacketStore::push).                                                    *)
THEOREM StoreWindow == Spec => []StoreIsNewestWindow
<1>1. IInv => StoreIsNewestWindow
  BY DEF IInv
<1> QED
  BY <1>1, Invariance, PTL

(* Packets keep the order of the wire and none is there twice, however     *)
(* often a capture is stopped, filtered anew and started again.            *)
THEOREM WireOrder == Spec => []InWireOrder
<1>1. IInv => InWireOrder
  BY DEF IInv
<1> QED
  BY <1>1, Invariance, PTL

(* No capture thread runs behind a session that does not show it.          *)
THEOREM NoHiddenThread == Spec => []RunningThreadIsShown
<1>1. IInv => RunningThreadIsShown
  BY DEF IInv
<1> QED
  BY <1>1, Invariance, PTL

(* Only packets that the filter shown accepts are added to the store,      *)
(* although the thread filters with a copy of its own.                     *)
THEOREM FilterIsEnforced == Spec => FilterEnforced
<1> DEFINE Enforced == nextId' # nextId => store'[Len(store')].kind \in capFilter
<1>1. IInv /\ [Next]_vars => [Enforced]_vars
  <2> SUFFICES ASSUME IInv, [Next]_vars, nextId' # nextId
               PROVE  store'[Len(store')].kind \in capFilter
    OBVIOUS
  <2>0. TypeOK
    BY DEF IInv
  <2>1. ASSUME NEW o \in Outcomes, DrainPacket(o)
        PROVE  store'[Len(store')].kind \in capFilter
    <3>1. /\ chan \in Seq(Packet) /\ chan # <<>> /\ Push(Head(chan)) /\ ui = "drain"
      BY <2>0, <2>1 DEF DrainPacket, TypeOK
    <3>2. Head(chan) \in Packet /\ Head(chan) = chan[1] /\ 1 \in 1 .. Len(chan)
      BY <3>1
    <3>3. store'[Len(store')] = Kept(Head(chan))
      BY <2>0, <3>1, <3>2, PushShape
    <3>4. Head(chan).kind \in thrFilter /\ capFilter = thrFilter
      BY <3>1, <3>2 DEF IInv, FilterOfThread, InFlight
    <3> QED
      BY <3>3, <3>4 DEF Kept
  <2>2. ASSUME NEW k \in Kinds, LoadPacket(k)
        PROVE  store'[Len(store')].kind \in capFilter
    <3> DEFINE p == [n |-> wire + 1, kind |-> k, kl |-> keylog]
    <3>1. Push(p) /\ ui = "load"
      BY <2>2 DEF LoadPacket
    <3>2. p \in Packet /\ p.kind = k
      BY <2>0 DEF TypeOK, Packet
    <3> HIDE DEF p
    <3>3. store'[Len(store')] = Kept(p)
      BY <2>0, <3>1, <3>2, PushShape
    <3>4. capFilter = Kinds
      BY <3>1 DEF IInv, LoadingIsQuiet
    <3> QED
      BY <3>2, <3>3, <3>4 DEF Kept
  <2> QED
    BY <2>1, <2>2, StoreSteps DEF LoadKeylog
<1> QED
  BY <1>1, Invariance, PTL DEF Spec, FilterEnforced

------------------------------------------------------------------------------
(* The disk ring.  Unless a write was refused, its files are laid out in   *)
(* order, no packet on disk is newer than the last one that was stored,    *)
(* which is there, and with a packet all newer ones of the store are.      *)
RingInv ==
  /\ ui = "load" => ~ring.on
  /\ ring.on /\ ~ring.lost =>
       /\ Layout(ring, nextId - 1)
       /\ \A n \in InFiles(ring) : store # <<>> /\ n <= store[Len(store)].n
       /\ store # <<>> => store[Len(store)].n \in InFiles(ring)
       /\ \A i \in 1 .. Len(store), n \in InFiles(ring) :
            n < store[i].n => store[i].n \in InFiles(ring)

LEMMA RingInit == Init => RingInv
<1> SUFFICES ASSUME Init PROVE RingInv
  OBVIOUS
<1>1. NoRing.on = FALSE
  BY DEF NoRing
<1>2. CASE ring = NoRing
  BY <1>1, <1>2 DEF RingInv
<1>3. CASE ring # NoRing
  <2>1. ring = NewRing /\ ui = "loop" /\ nextId - 1 = 0 /\ store = <<>>
    BY <1>3 DEF Init
  <2> QED
    BY <2>1, NewRingLayout DEF RingInv
<1> QED
  BY <1>2, <1>3

(* A packet is drained: it is written to the ring and pushed to the store. *)
LEMMA RingDrain ==
  ASSUME IInv, RingInv, NEW o, DrainPacket(o)
  PROVE  RingInv'
<1>1. chan \in Seq(Packet) /\ chan # <<>> /\ ring \in Rings(Packet) /\ store \in Seq(Stored) /\ nextId \in Nat
  BY DEF IInv, TypeOK, DrainPacket
<1>2. PICK p \in Packet : p = Head(chan)
  BY <1>1
<1>3. /\ ring' = IF ring.on THEN WritePacket(ring, p, o) ELSE ring
      /\ ui' = ui /\ ui = "drain" /\ Push(p)
  BY <1>2 DEF DrainPacket, uiVars
<1>4. /\ Len(store) \in Nat /\ Len(store') \in Nat /\ Len(store') >= 1 /\ store' # <<>>
      /\ store'[Len(store')].n = p.n /\ nextId' = nextId + 1
      /\ \A i \in 1 .. Len(store') :
           i = Len(store') \/ \E j \in 1 .. Len(store) : store'[i].n = store[j].n
  <2>1. TypeOK
    BY DEF IInv
  <2>2. Kept(p).n = p.n
    BY DEF Kept
  <2>3. /\ store' \in Seq(Stored) /\ Len(store') >= 1 /\ store'[Len(store')] = Kept(p)
        /\ nextId' = nextId + 1
        /\ IF Len(store) >= MaxPackets
           THEN /\ Len(store') = Len(store)
                /\ \A i \in 1 .. Len(store) - 1 : store'[i] = store[i + 1]
           ELSE /\ Len(store') = Len(store) + 1
                /\ \A i \in 1 .. Len(store) : store'[i] = store[i]
    BY <1>3, <2>1, PushShape
  <2>4. \A i \in 1 .. Len(store') :
          i = Len(store') \/ \E j \in 1 .. Len(store) : store'[i] = store[j]
    <3>1. Len(store) \in Nat
      BY <1>1
    <3>2. CASE Len(store) >= MaxPackets
      <4>1. \A i \in 1 .. Len(store) : i # Len(store) => i \in 1 .. Len(store) - 1 /\ i + 1 \in 1 .. Len(store)
        BY <3>1
      <4> QED
        BY <2>3, <3>2, <4>1
    <3>3. CASE ~(Len(store) >= MaxPackets)
      <4>1. \A i \in 1 .. Len(store) + 1 : i # Len(store) + 1 => i \in 1 .. Len(store)
        BY <3>1
      <4> QED
        BY <2>3, <3>3, <4>1
    <3> QED
      BY <3>2, <3>3
  <2> QED
    BY <1>1, <2>2, <2>3, <2>4
<1>5. Packets(Packet) /\ \A q \in Packet : q.n \in Nat
  BY DEF Packets, Packet
<1>6. \A i \in 1 .. Len(store) : store[i].n < p.n /\ store[i].n \in Nat
  <2>1. 1 \in 1 .. Len(chan) /\ p = chan[1]
    BY <1>1, <1>2
  <2>2. \A q \in Stored : q.n \in Nat
    BY DEF Stored
  <2> QED
    BY <1>1, <2>1, <2>2 DEF IInv, InWireOrder, Before
<1>7. CASE ring'.on /\ ~ring'.lost
  <2>1. ring.on /\ ~ring.lost
    <3>1. ring.on
      BY <1>3, <1>7
    <3>2. ring' = WritePacket(ring, p, o)
      BY <1>3, <3>1
    <3>3. ring.lost => ring'.lost
      BY <1>1, <1>2, <1>5, <3>2, WriteStaysLost
    <3> QED
      BY <1>7, <3>1, <3>3
  <2>2. ring' = WritePacket(ring, p, o)
    BY <1>3, <2>1
  <2>3. /\ Layout(ring, nextId - 1)
        /\ \A n \in InFiles(ring) : store # <<>> /\ n <= store[Len(store)].n
        /\ \A i \in 1 .. Len(store), n \in InFiles(ring) :
             n < store[i].n => store[i].n \in InFiles(ring)
    BY <2>1 DEF RingInv
  <2>4. \A n \in InFiles(ring) : n \in Nat /\ n < p.n
    <3>1. \A n \in InFiles(ring) : n \in Nat
      BY <1>1, <1>5, InFileNumbers DEF InFiles
    <3>2. store # <<>> => Len(store) \in 1 .. Len(store)
      BY <1>1
    <3>3. p.n \in Nat
      BY <1>5
    <3> QED
      BY <1>6, <2>3, <3>1, <3>2, <3>3
  <2>5. Newer(p, ring)
    BY <2>4 DEF Newer
  <2>6. Layout(ring', nextId - 1 + 1) /\ Gains(ring, ring', p)
    <3>1. PICK count : count = nextId - 1
      OBVIOUS
    <3>2. PICK s : s = WritePacket(ring, p, o) /\ s = ring'
      BY <2>2
    <3>3. Layout(ring, count) /\ ~s.lost
      BY <1>7, <2>3, <3>1, <3>2
    <3>4. Layout(s, count + 1) /\ Gains(ring, s, p)
      BY <1>1, <1>5, <2>5, <3>2, <3>3, WriteKeeps
    <3> QED
      BY <3>1, <3>2, <3>4
  <2>7. PICK D : /\ InFiles(ring') = (InFiles(ring) \ D) \cup {p.n}
                 /\ \A m \in D, n \in InFiles(ring) \ D : m < n
    BY <2>6 DEF Gains
  <2>8. \A n \in InFiles(ring') : n <= p.n
    <3>1. p.n \in Nat
      BY <1>5
    <3> QED
      BY <2>4, <2>7, <3>1
  <2>9. ASSUME NEW i \in 1 .. Len(store'), NEW n \in InFiles(ring'), n < store'[i].n
        PROVE  store'[i].n \in InFiles(ring')
    <3>1. CASE i = Len(store')
      BY <1>4, <2>7, <3>1
    <3>2. CASE i # Len(store')
      <4>1. PICK j \in 1 .. Len(store) : store'[i].n = store[j].n
        BY <1>4, <3>2
      <4>2. store[j].n < p.n /\ n < store[j].n /\ store[j].n \in Nat /\ p.n \in Nat
        BY <1>5, <1>6, <2>9, <4>1
      <4>3. n # p.n
        BY <4>2
      <4>4. n \in InFiles(ring) \ D
        BY <2>7, <4>3
      <4>5. store[j].n \in InFiles(ring)
        BY <2>3, <4>2, <4>4
      <4>6. store[j].n \notin D
        BY <2>4, <2>7, <4>2, <4>4
      <4> QED
        BY <2>7, <4>1, <4>5, <4>6
    <3> QED
      BY <3>1, <3>2
  <2>10. nextId' - 1 = nextId - 1 + 1
    BY <1>1, <1>4
  <2> QED
    BY <1>3, <1>4, <2>6, <2>7, <2>8, <2>9, <2>10 DEF RingInv
<1> QED
  BY <1>3, <1>7 DEF RingInv

(* Every other step leaves the ring alone. *)
LEMMA RingNext == IInv /\ RingInv /\ [Next]_vars => RingInv'
<1> SUFFICES ASSUME IInv, RingInv, [Next]_vars PROVE RingInv'
  OBVIOUS
<1>1. CASE \E o \in Outcomes : DrainPacket(o)
  BY <1>1, RingDrain
<1>2. CASE UNCHANGED <<store, nextId, ring>> /\ (ui' = "load" => ui = "load")
  BY <1>2 DEF RingInv
<1>3. CASE \E k \in Kinds : LoadPacket(k)
  BY <1>3 DEF LoadPacket, uiVars, RingInv
<1>4. CASE LoadKeylog
  <2>1. /\ UNCHANGED <<nextId, ring, ui>> /\ ui = "loop" /\ store \in Seq(Stored)
        /\ store' = [i \in 1 .. Len(store) |-> [store[i] EXCEPT !.kl = keylog + 1]]
    BY <1>4 DEF LoadKeylog, IInv, TypeOK
  <2>2. \A q \in Stored : \A m : [q EXCEPT !.kl = m].n = q.n
    BY DEF Stored
  <2>3. /\ Len(store') = Len(store) /\ Len(store) \in Nat
        /\ \A i \in 1 .. Len(store) : store'[i].n = store[i].n
    <3>1. \A i \in 1 .. Len(store) : store[i] \in Stored
      BY <2>1
    <3>2. /\ Len(store') = Len(store) /\ Len(store) \in Nat
          /\ \A i \in 1 .. Len(store) : store'[i] = [store[i] EXCEPT !.kl = keylog + 1]
      BY <2>1
    <3>3. \A i \in 1 .. Len(store) : [store[i] EXCEPT !.kl = keylog + 1].n = store[i].n
      BY <2>2, <3>1
    <3> QED
      BY <3>2, <3>3
  <2>4. store' = <<>> <=> store = <<>>
    BY <2>1, <2>3
  <2>5. store # <<>> => Len(store) \in 1 .. Len(store)
    BY <2>1
  <2> QED
    BY <2>1, <2>3, <2>4, <2>5 DEF RingInv
<1>5. \/ UNCHANGED <<store, nextId, ring>> /\ (ui' = "load" => ui = "load")
      \/ LoadKeylog
      \/ \E o \in Outcomes : DrainPacket(o)
      \/ \E k \in Kinds : LoadPacket(k)
  <2>1. CASE UNCHANGED vars
    BY <2>1 DEF vars, uiVars, storeVars
  <2>2. CASE StartCapture \/ StopCapture \/ CloseTab \/ LoadKeylog \/ BeginDrain \/ NavHome \/ NavEnd
    BY <2>2 DEF StartCapture, StopCapture, CloseTab, BeginStop, BeginDrain, NavHome, NavEnd, uiVars,
                storeVars
  <2>3. ASSUME NEW f \in Filters, SetCaptureFilter(f) \/ SetDisplayFilter(f)
        PROVE  UNCHANGED <<store, nextId, ring>> /\ (ui' = "load" => ui = "load")
    BY <2>3 DEF SetCaptureFilter, SetDisplayFilter, BeginStop, storeVars
  <2>4. ASSUME NEW down \in BOOLEAN, Nav(down)
        PROVE  UNCHANGED <<store, nextId, ring>> /\ (ui' = "load" => ui = "load")
    BY <2>4, Zenon DEF Nav, uiVars
  <2>5. CASE FinishStop \/ EndDrain \/ LoadDone
    BY <2>5 DEF FinishStop, EndDrain, LoadDone, storeVars
  <2>6. CASE CheckStop \/ NoPacket \/ SendPacket \/ ThreadDies
    BY <2>6 DEF CheckStop, NoPacket, SendPacket, ThreadDies, uiVars, storeVars
  <2>7. ASSUME NEW k \in Kinds, NextPacket(k)
        PROVE  UNCHANGED <<store, nextId, ring>> /\ (ui' = "load" => ui = "load")
    BY <2>7 DEF NextPacket, uiVars, storeVars
  <2> QED
    BY <2>1, <2>2, <2>3, <2>4, <2>5, <2>6, <2>7 DEF Next, UserStep, UiStep, ThreadStep
<1> QED
  BY <1>1, <1>2, <1>3, <1>4, <1>5

(* Unless the file system refused a write, the disk ring is a window of    *)
(* the newest packets, a file exceeds its size by less than the packet     *)
(* that filled it, and packets are given up only when all other files are  *)
(* full, for every number and size of files and every size of packets      *)
(* (capture/ring.rs).                                                      *)
THEOREM NewestOnDisk == Spec => []DiskRingKeepsNewest
<1>1. IInv /\ RingInv => DiskRingKeepsNewest
  <2> SUFFICES ASSUME IInv, RingInv, ring.on, ~ring.lost PROVE DiskRingKeepsNewest
    BY DEF DiskRingKeepsNewest
  <2>1. ring \in Rings(Packet) /\ store \in Seq(Stored)
    BY DEF IInv, TypeOK
  <2>2. PICK kept : kept = {p.n : p \in OnDisk(ring)} /\ kept = InFiles(ring)
    BY <2>1, NumbersOnDisk
  <2>3. Layout(ring, nextId - 1)
    BY DEF RingInv
  <2>4. DOMAIN ring.files = 0 .. MaxFiles - 1
    BY <2>1 DEF Rings
  <2>5. \A f \in DOMAIN ring.files :
          ring.files[f] # <<>> =>
            ring.sizes[f] < FileSize(MaxBytes)
                              + BlockBytes[ring.files[f][Len(ring.files[f])].kind]
    BY <2>3, <2>4 DEF Layout, FileOf
  <2>6. \/ Cardinality(kept) = nextId - 1
        \/ \A f \in DOMAIN ring.files \ {Current(ring)} : ring.sizes[f] >= FileSize(MaxBytes)
    <3>1. MaxFiles \in Nat /\ ring.idx \in Nat
      BY <2>1, DiskRingAssumption DEF Rings
    <3>2. CASE ring.idx <= MaxFiles
      BY <2>2, <2>3, <3>2 DEF Layout
    <3>3. CASE ~(ring.idx <= MaxFiles)
      <4>1. \A f \in 0 .. MaxFiles - 1 : f < ring.idx
        BY <3>1, <3>3
      <4> QED
        BY <2>3, <2>4, <4>1 DEF Layout, FileOf
    <3> QED
      BY <3>2, <3>3
  <2>7. \A i \in DOMAIN store :
          (i = Len(store) \/ \E n \in kept : n < store[i].n) => store[i].n \in kept
    <3>1. DOMAIN store = 1 .. Len(store) /\ (DOMAIN store # {} => store # <<>>)
      BY <2>1
    <3> QED
      BY <2>2, <3>1 DEF RingInv
  <2> QED
    BY <2>2, <2>5, <2>6, <2>7 DEF DiskRingKeepsNewest
<1> QED
  BY <1>1, RingInit, RingNext, Invariance, PTL DEF Spec
------------------------------------------------------------------------------
(* The row that is shown. *)
LEMMA Least == ASSUME NEW S, S \subseteq Nat, S # {} PROVE \E n \in S : \A m \in S : n <= m
<1> DEFINE R == OpToRel(<, Nat)
<1>1. \A m, n \in Nat : <<m, n>> \in R <=> m < n
  BY DEF OpToRel
<1>2. IsWellFoundedOn(R, Nat)
  BY NatLessThanWellFounded
<1> HIDE DEF R
<1>3. PICK n \in S : \A m \in S : ~(<<m, n>> \in R)
  BY <1>2, WFMin
<1>4. n \in Nat /\ \A m \in S : m \in Nat /\ ~(m < n)
  BY <1>1, <1>3
<1>5. \A m \in S : n <= m
  BY <1>4
<1> QED
  BY <1>3, <1>5

(* The elements of S before i, of which a row has as many as its number.   *)
Ahead(S, i) == {j \in S : j < i}

LEMMA RowsDiffer ==
  ASSUME NEW S, S \subseteq Nat, IsFiniteSet(S), NEW i \in S, NEW k \in S,
         Cardinality(Ahead(S, i)) = Cardinality(Ahead(S, k))
  PROVE  i = k
<1>1. ASSUME NEW a \in S, NEW b \in S, a < b
      PROVE  Cardinality(Ahead(S, a)) # Cardinality(Ahead(S, b))
  <2>1. IsFiniteSet(Ahead(S, b)) /\ Ahead(S, a) \subseteq Ahead(S, b)
    <3>1. Ahead(S, b) \subseteq S
      BY DEF Ahead
    <3>2. \A j \in S : j \in Nat
      OBVIOUS
    <3>3. Ahead(S, a) \subseteq Ahead(S, b)
      <4>1. \A j \in S : j < a => j < b
        BY <1>1, <3>2
      <4> QED
        BY <4>1 DEF Ahead
    <3>4. IsFiniteSet(Ahead(S, b))
      BY <3>1, FS_Subset
    <3> QED
      BY <3>3, <3>4
  <2>2. a \in Ahead(S, b) /\ a \notin Ahead(S, a)
    BY <1>1 DEF Ahead
  <2>3. Cardinality(Ahead(S, a)) = Cardinality(Ahead(S, b)) => Ahead(S, a) = Ahead(S, b)
    BY <2>1, FS_Subset
  <2> QED
    BY <2>2, <2>3
<1> QED
  BY <1>1

(* A set with more than k elements has one with k before it.               *)
LEMMA RowIsThere ==
  ASSUME NEW S, S \subseteq Nat, IsFiniteSet(S), NEW k \in Nat, k < Cardinality(S)
  PROVE  \E i \in S : Cardinality(Ahead(S, i)) = k
<1> DEFINE Missing == {n \in Nat : n < Cardinality(S) /\ ~\E i \in S : Cardinality(Ahead(S, i)) = n}
<1> SUFFICES ASSUME k \in Missing PROVE FALSE
  OBVIOUS
<1>1. PICK m \in Missing : \A n \in Missing : m <= n
  <2>1. Missing \subseteq Nat /\ Missing # {}
    OBVIOUS
  <2> QED
    BY <2>1, Least
<1>2. m \in Nat /\ m < Cardinality(S) /\ Cardinality(S) \in Nat
  BY <1>1, FS_CardinalityType
<1>3. \A i \in S : Cardinality(Ahead(S, i)) # m
  BY <1>1
<1>4. \A n \in Nat : n < m => \E i \in S : Cardinality(Ahead(S, i)) = n
  BY <1>1, <1>2
<1> HIDE DEF Missing
<1>5. CASE m = 0
  <2>1. S # {}
    BY <1>2, <1>5, FS_EmptySet
  <2>2. PICK i \in S : \A j \in S : i <= j
    BY <2>1, Least
  <2>3. Ahead(S, i) = {}
    <3>1. \A j \in S : j \in Nat /\ ~(j < i)
      BY <2>2
    <3> QED
      BY <3>1 DEF Ahead
  <2> QED
    BY <1>3, <1>5, <2>3, FS_EmptySet
<1>6. CASE m # 0
  <2>1. m - 1 \in Nat /\ m - 1 < m
    BY <1>2, <1>6
  <2>2. PICK i \in S : Cardinality(Ahead(S, i)) = m - 1
    BY <1>4, <2>1
  <2> DEFINE T == Ahead(S, i) \cup {i}
             U == {j \in S : i < j}
  <2>3. IsFiniteSet(Ahead(S, i)) /\ i \notin Ahead(S, i)
    <3>1. Ahead(S, i) \subseteq S
      BY DEF Ahead
    <3> QED
      BY <3>1, FS_Subset DEF Ahead
  <2>n. \A j \in S : j \in Nat
    OBVIOUS
  <2>4. IsFiniteSet(T) /\ Cardinality(T) = m
    <3>1. IsFiniteSet(T) /\ Cardinality(T) = Cardinality(Ahead(S, i)) + 1
      BY <2>3, FS_AddElement
    <3> QED
      BY <1>2, <2>2, <3>1
  <2>5. S = T \cup U
    <3>1. \A j \in S : j < i \/ j = i \/ i < j
      BY <2>n
    <3> QED
      BY <3>1 DEF Ahead
  <2>6. U # {}
    BY <1>2, <2>4, <2>5
  <2>7. PICK k2 \in U : \A j \in U : k2 <= j
    BY <2>6, Least
  <2>8. Ahead(S, k2) = T
    <3>1. \A j \in S : j < k2 <=> j < i \/ j = i
      BY <2>n, <2>7
    <3> QED
      BY <3>1 DEF Ahead
  <2> QED
    BY <1>3, <2>4, <2>7, <2>8
<1> QED
  BY <1>5, <1>6

(* The position of the row that is shown, when it is not past the end.     *)
Shows(st, f, sel, i) == i \in Rows(st, f) /\ Cardinality(Ahead(Rows(st, f), i)) = sel

LEMMA VisibleIsShown ==
  ASSUME NEW st, Len(st) \in Nat, NEW f, NEW sel \in Nat, sel < Cardinality(Rows(st, f))
  PROVE  /\ \E i : Shows(st, f, sel, i)
         /\ \A i : Shows(st, f, sel, i) => Visible(st, f, sel) = st[i]
<1>1. Rows(st, f) \subseteq Nat /\ IsFiniteSet(Rows(st, f))
  <2>1. IsFiniteSet(1 .. Len(st)) /\ Rows(st, f) \subseteq 1 .. Len(st)
    BY FS_Interval DEF Rows
  <2> QED
    BY <2>1, FS_Subset
<1> DEFINE R == Rows(st, f)
<1> HIDE DEF R
<1>2. \E i \in R : Cardinality(Ahead(R, i)) = sel
  BY <1>1, RowIsThere DEF R
<1>3. PICK c : c = CHOOSE i \in R : Cardinality(Ahead(R, i)) = sel
  OBVIOUS
<1>4. c \in R /\ Cardinality(Ahead(R, c)) = sel
  BY <1>2, <1>3
<1>5. Visible(st, f, sel) = st[c]
  BY <1>3 DEF Visible, Ahead, R
<1>6. \A i \in R : Cardinality(Ahead(R, i)) = sel => i = c
  BY <1>1, <1>4, RowsDiffer DEF R
<1> QED
  BY <1>4, <1>5, <1>6 DEF Shows, R

(* A packet that is added behind the others leaves the rows before it.     *)
LEMMA RowsGrow ==
  ASSUME NEW st, NEW u, Len(st) \in Nat, Len(u) = Len(st) + 1, \A i \in 1 .. Len(st) : u[i] = st[i],
         NEW f, NEW sel \in Nat, sel < Cardinality(Rows(st, f))
  PROVE  Visible(u, f, sel) = Visible(st, f, sel)
<1>1. PICK i : Shows(st, f, sel, i)
  BY VisibleIsShown
<1>2. i \in 1 .. Len(st) /\ i \in Rows(st, f)
  BY <1>1 DEF Shows, Rows
<1>3. Rows(st, f) \subseteq Rows(u, f) /\ \A j \in Rows(u, f) : j \in Rows(st, f) \/ j = Len(st) + 1
  BY DEF Rows
<1>4. Ahead(Rows(u, f), i) = Ahead(Rows(st, f), i)
  <2>1. \A j \in Rows(u, f) : j < i => j \in Rows(st, f)
    BY <1>2, <1>3
  <2> QED
    BY <1>3, <2>1 DEF Ahead
<1>5. Shows(u, f, sel, i)
  BY <1>1, <1>3, <1>4 DEF Shows
<1>6. sel < Cardinality(Rows(u, f))
  <2>1. IsFiniteSet(Rows(u, f))
    <3>1. IsFiniteSet(1 .. Len(u)) /\ Rows(u, f) \subseteq 1 .. Len(u)
      BY FS_Interval DEF Rows
    <3> QED
      BY <3>1, FS_Subset
  <2>2. Cardinality(Rows(st, f)) <= Cardinality(Rows(u, f))
    BY <1>3, <2>1, FS_Subset
  <2>3. Cardinality(Rows(st, f)) \in Nat /\ Cardinality(Rows(u, f)) \in Nat
    BY <2>1, RowsAreCounted, FS_CardinalityType
  <2> QED
    BY <2>2, <2>3
<1>7. Len(u) \in Nat /\ u[i] = st[i]
  BY <1>2
<1> QED
  BY <1>1, <1>5, <1>6, <1>7, VisibleIsShown

(* The packet of a row. *)
AtRow(st, f, row) == st[CHOOSE i \in Rows(st, f) : Cardinality({j \in Rows(st, f) : j < i}) = row]

(* A selection past the last row shows that row, whatever it is.           *)
LEMMA LastRowIsShown ==
  ASSUME NEW st, NEW f, NEW sel \in Nat, NEW last \in Nat,
         Cardinality(Rows(st, f)) = last + 1, sel >= last
  PROVE  Visible(st, f, sel) = Visible(st, f, last)
<1> DEFINE row(x) == IF x < Cardinality(Rows(st, f)) THEN x ELSE Cardinality(Rows(st, f)) - 1
<1>1. row(sel) = last /\ row(last) = last
  OBVIOUS
<1>2. \A x : Visible(st, f, x) = AtRow(st, f, row(x))
  BY Zenon DEF Visible, AtRow
<1> QED
  BY <1>1, <1>2, Zenon

(* A packet that is added behind the others is the last row, or no row.    *)
LEMMA LastRowGrows ==
  ASSUME NEW st, NEW u, Len(st) \in Nat, Len(u) = Len(st) + 1, \A i \in 1 .. Len(st) : u[i] = st[i],
         NEW f, NEW sel \in Nat, Cardinality(Rows(st, f)) > 0, sel >= Cardinality(Rows(st, f))
  PROVE  \/ Visible(u, f, sel) = Visible(st, f, sel)
         \/ Visible(u, f, sel) = u[Len(u)]
<1>1. IsFiniteSet(Rows(st, f)) /\ Cardinality(Rows(st, f)) \in Nat
  <2>1. IsFiniteSet(1 .. Len(st))
    BY FS_Interval
  <2>2. Rows(st, f) \subseteq 1 .. Len(st)
    BY Zenon DEF Rows
  <2>3. IsFiniteSet(Rows(st, f))
    BY <2>1, <2>2, FS_Subset
  <2> QED
    BY <2>3, FS_CardinalityType
<1>2. PICK last \in Nat : Cardinality(Rows(st, f)) = last + 1
  <2>1. Cardinality(Rows(st, f)) - 1 \in Nat
    BY <1>1
  <2> QED
    BY <1>1, <2>1
<1>3. Visible(st, f, sel) = Visible(st, f, last)
  BY <1>2, LastRowIsShown
<1>4. Visible(u, f, last) = Visible(st, f, last)
  BY <1>2, RowsGrow
<1>5. CASE u[Len(u)].kind \in f
  <2>1. Rows(u, f) = Rows(st, f) \cup {Len(u)} /\ Len(u) \notin Rows(st, f)
    BY <1>5 DEF Rows
  <2>2. Cardinality(Rows(u, f)) = (last + 1) + 1
    BY <1>1, <1>2, <2>1, FS_AddElement
  <2>3. Visible(u, f, sel) = Visible(u, f, last + 1)
    BY <1>2, <2>2, LastRowIsShown
  <2>4. Ahead(Rows(u, f), Len(u)) = Rows(st, f)
    BY <2>1 DEF Ahead, Rows
  <2>5. Shows(u, f, last + 1, Len(u))
    BY <1>2, <2>1, <2>4 DEF Shows
  <2>6. Visible(u, f, last + 1) = u[Len(u)]
    BY <1>2, <2>2, <2>5, VisibleIsShown
  <2> QED
    BY <2>3, <2>6
<1>6. CASE u[Len(u)].kind \notin f
  <2>1. Rows(u, f) = Rows(st, f)
    BY <1>6 DEF Rows
  <2>2. Visible(u, f, sel) = Visible(u, f, last)
    BY <1>2, <2>1, LastRowIsShown
  <2> QED
    BY <1>3, <1>4, <2>2
<1> QED
  BY <1>5, <1>6

(* An operator who browses sees the same packet while others arrive and    *)
(* nothing is evicted, with the one exception that SelectionSurvivesTraffic *)
(* states: the selection is past the last row (drain_packets,              *)
(* visible_packet).                                                        *)
THEOREM BrowsingUndisturbed == Spec => SelectionSurvivesTraffic
<1> DEFINE Quiet ==
      LET rows == Cardinality(Rows(store, dispFilter))
          shown == Visible(store, dispFilter, selected).id
          shownThen == Visible(store', dispFilter, selected').id
      IN  nextId' # nextId /\ dropped' = dropped /\ ~follow /\ rows > 0
          => \/ shownThen = shown
             \/ selected >= rows /\ shownThen = nextId
<1>1. IInv /\ [Next]_vars => [Quiet]_vars
  <2> SUFFICES ASSUME IInv, [Next]_vars, nextId' # nextId, dropped' = dropped, ~follow,
                      Cardinality(Rows(store, dispFilter)) > 0
               PROVE  \/ Visible(store', dispFilter, selected').id
                           = Visible(store, dispFilter, selected).id
                      \/ /\ selected >= Cardinality(Rows(store, dispFilter))
                         /\ Visible(store', dispFilter, selected').id = nextId
    OBVIOUS
  <2>1. TypeOK /\ Len(store) \in Nat /\ selected \in Nat /\ dropped \in Nat
    BY DEF IInv, TypeOK
  <2>2. selected' = selected /\ \E p \in Packet : Push(p)
    <3>1. ASSUME NEW o \in Outcomes, DrainPacket(o)
          PROVE  selected' = selected /\ \E p \in Packet : Push(p)
      <4>1. chan \in Seq(Packet) /\ chan # <<>>
        BY <2>1, <3>1 DEF TypeOK, DrainPacket
      <4>2. Head(chan) \in Packet
        BY <4>1
      <4> QED
        BY <3>1, <4>2 DEF DrainPacket
    <3>2. ASSUME NEW k \in Kinds, LoadPacket(k)
          PROVE  selected' = selected /\ \E p \in Packet : Push(p)
      <4>1. [n |-> wire + 1, kind |-> k, kl |-> keylog] \in Packet
        BY <2>1 DEF TypeOK, Packet
      <4> QED
        BY <3>2, <4>1 DEF LoadPacket
    <3> QED
      BY <3>1, <3>2, StoreSteps DEF LoadKeylog
  <2>3. /\ Len(store') = Len(store) + 1 /\ \A i \in 1 .. Len(store) : store'[i] = store[i]
        /\ store'[Len(store')].id = nextId
    <3>1. PICK p \in Packet : Push(p)
      BY <2>2
    <3>2. IF Len(store) >= MaxPackets THEN dropped' = dropped + 1
          ELSE Len(store') = Len(store) + 1 /\ \A i \in 1 .. Len(store) : store'[i] = store[i]
      BY <2>1, <3>1, PushShape
    <3>3. store'[Len(store')] = Kept(p)
      BY <2>1, <3>1, PushShape
    <3>4. Kept(p).id = nextId
      BY DEF Kept
    <3> QED
      BY <2>1, <3>2, <3>3, <3>4
  <2>4. Cardinality(Rows(store, dispFilter)) \in Nat
    BY <2>1, RowsAreCounted
  <2>5. CASE selected < Cardinality(Rows(store, dispFilter))
    <3>1. Visible(store', dispFilter, selected) = Visible(store, dispFilter, selected)
      BY <2>1, <2>3, <2>5, RowsGrow
    <3> QED
      BY <2>2, <3>1
  <2>6. CASE ~(selected < Cardinality(Rows(store, dispFilter)))
    <3>1. selected >= Cardinality(Rows(store, dispFilter))
      BY <2>1, <2>4, <2>6
    <3>2. \/ Visible(store', dispFilter, selected) = Visible(store, dispFilter, selected)
          \/ Visible(store', dispFilter, selected) = store'[Len(store')]
      BY <2>1, <2>3, <3>1, LastRowGrows
    <3> QED
      BY <2>2, <2>3, <3>1, <3>2
  <2> QED
    BY <2>5, <2>6
<1> QED
  BY <1>1, Invariance, PTL DEF Spec, SelectionSurvivesTraffic

------------------------------------------------------------------------------
(* A capture session implements PacketLog, for every capacity: what is     *)
(* under way is what the channel and the thread hold, the log is the       *)
(* store, and every step of either thread is a step of the log or none.    *)

(* The bounded channel never holds more than its capacity. *)
ChannelFits == Len(chan) <= ChanCap

------------------------------------------------------------------------------
(* The numbers of a sequence of packets, one by one.                       *)
LEMMA NumbersAre ==
  ASSUME NEW S, NEW s \in Seq(S), \A x \in S : x.n \in Nat
  PROVE  /\ Numbers(s) \in Seq(Nat)
         /\ Len(Numbers(s)) = Len(s)
         /\ \A i \in 1 .. Len(s) : Numbers(s)[i] = s[i].n
<1>1. Len(s) \in Nat /\ \A i \in 1 .. Len(s) : s[i] \in S
  OBVIOUS
<1>2. Numbers(s) \in [1 .. Len(s) -> Nat]
  BY <1>1 DEF Numbers
<1> QED
  BY <1>1, <1>2 DEF Numbers

(* Two sequences of numbers with the same elements are one sequence.       *)
LEMMA SameNumbers ==
  ASSUME NEW s \in Seq(Nat), NEW t \in Seq(Nat), Len(s) = Len(t),
         \A i \in 1 .. Len(s) : s[i] = t[i]
  PROVE  s = t
BY SeqEqual

(* What is under way, in the order in which it will be stored: the channel *)
(* and then what the thread holds.                                         *)
LEMMA UnderWayIs ==
  ASSUME NEW ch \in Seq(Packet), NEW he \in Seq(Packet)
  PROVE  /\ Numbers(ch \o he) \in Seq(Nat)
         /\ Len(Numbers(ch \o he)) = Len(ch) + Len(he)
         /\ \A i \in 1 .. Len(ch) : Numbers(ch \o he)[i] = ch[i].n
         /\ \A i \in 1 .. Len(he) : Numbers(ch \o he)[Len(ch) + i] = he[i].n
<1> DEFINE u == Numbers(ch \o he)
<1>1. /\ Len(ch) \in Nat /\ Len(he) \in Nat
      /\ ch \o he \in Seq(Packet)
      /\ Len(ch \o he) = Len(ch) + Len(he)
      /\ \A i \in 1 .. Len(ch) : (ch \o he)[i] = ch[i]
      /\ \A i \in 1 .. Len(he) : (ch \o he)[Len(ch) + i] = he[i]
  OBVIOUS
<1>2. \A x \in Packet : x.n \in Nat
  BY DEF Packet
<1>3. /\ u \in Seq(Nat)
      /\ Len(u) = Len(ch \o he)
      /\ \A i \in 1 .. Len(ch \o he) : u[i] = (ch \o he)[i].n
  BY <1>1, <1>2, NumbersAre
<1> HIDE DEF u
<1>4. ASSUME NEW i \in 1 .. Len(ch) PROVE u[i] = ch[i].n
  <2>1. i \in 1 .. Len(ch \o he)
    BY <1>1
  <2> QED
    BY <1>1, <1>3, <2>1
<1>5. ASSUME NEW i \in 1 .. Len(he) PROVE u[Len(ch) + i] = he[i].n
  <2>1. Len(ch) + i \in 1 .. Len(ch \o he)
    BY <1>1
  <2>2. (ch \o he)[Len(ch) + i] = he[i]
    BY <1>1
  <2> QED
    BY <1>3, <2>1, <2>2
<1> QED
  BY <1>1, <1>3, <1>4, <1>5 DEF u

(* Nothing is under way in an empty channel behind an idle thread.         *)
LEMMA NothingUnderWay ==
  ASSUME NEW ch \in Seq(Packet), NEW he \in Seq(Packet), Len(ch) = 0, Len(he) = 0
  PROVE  Numbers(ch \o he) = <<>>
<1> DEFINE u == Numbers(ch \o he)
<1>1. u \in Seq(Nat) /\ Len(u) = Len(ch) + Len(he)
  BY UnderWayIs
<1> HIDE DEF u
<1>2. u \in Seq(Nat) /\ Len(u) = 0
  BY <1>1
<1>3. u = <<>>
  BY <1>2
<1> QED
  BY <1>3 DEF u

(* Taking the oldest packet out of the channel.                            *)
LEMMA TakenOut ==
  ASSUME NEW ch \in Seq(Packet), NEW he \in Seq(Packet), ch # <<>>
  PROVE  /\ Numbers(ch \o he) # <<>>
         /\ Head(Numbers(ch \o he)) = Head(ch).n
         /\ Tail(Numbers(ch \o he)) = Numbers(Tail(ch) \o he)
<1> DEFINE u == Numbers(ch \o he)
           v == Numbers(Tail(ch) \o he)
<1>1. /\ Len(ch) \in Nat /\ Len(ch) >= 1 /\ Len(he) \in Nat
      /\ Tail(ch) \in Seq(Packet) /\ Len(Tail(ch)) = Len(ch) - 1
      /\ \A i \in 1 .. Len(ch) - 1 : Tail(ch)[i] = ch[i + 1]
      /\ Head(ch) = ch[1]
  OBVIOUS
<1>2. /\ u \in Seq(Nat) /\ Len(u) = Len(ch) + Len(he)
      /\ \A i \in 1 .. Len(ch) : u[i] = ch[i].n
      /\ \A i \in 1 .. Len(he) : u[Len(ch) + i] = he[i].n
  BY UnderWayIs
<1>3. /\ v \in Seq(Nat) /\ Len(v) = Len(Tail(ch)) + Len(he)
      /\ \A i \in 1 .. Len(Tail(ch)) : v[i] = Tail(ch)[i].n
      /\ \A i \in 1 .. Len(he) : v[Len(Tail(ch)) + i] = he[i].n
  BY <1>1, UnderWayIs
<1> HIDE DEF u, v
<1>4. /\ u # <<>> /\ Head(u) = u[1] /\ 1 \in 1 .. Len(ch)
      /\ Tail(u) \in Seq(Nat) /\ Len(Tail(u)) = Len(u) - 1
      /\ \A i \in 1 .. Len(u) - 1 : Tail(u)[i] = u[i + 1]
  <2>1. Len(u) >= 1 /\ u \in Seq(Nat) /\ u # <<>>
    BY <1>1, <1>2
  <2>2. 1 \in 1 .. Len(ch) /\ Head(u) = u[1]
    BY <1>1, <2>1
  <2> QED
    BY <2>1, <2>2
<1>5. ASSUME NEW i \in 1 .. Len(v) PROVE Tail(u)[i] = v[i]
  <2>1. i \in 1 .. Len(u) - 1 /\ Tail(u)[i] = u[i + 1]
    BY <1>1, <1>2, <1>3, <1>4
  <2>2. CASE i <= Len(ch) - 1
    <3>1. i \in 1 .. Len(Tail(ch)) /\ i \in 1 .. Len(ch) - 1 /\ i + 1 \in 1 .. Len(ch)
      BY <1>1, <2>1, <2>2
    <3>2. v[i] = Tail(ch)[i].n /\ Tail(ch)[i] = ch[i + 1] /\ u[i + 1] = ch[i + 1].n
      BY <1>1, <1>2, <1>3, <3>1
    <3> QED
      BY <2>1, <3>2
  <2>3. CASE ~(i <= Len(ch) - 1)
    <3> DEFINE k == i - (Len(ch) - 1)
    <3>1. k \in 1 .. Len(he) /\ i = Len(Tail(ch)) + k /\ i + 1 = Len(ch) + k
      BY <1>1, <1>2, <1>3, <2>1, <2>3
    <3> HIDE DEF k
    <3>2. v[i] = he[k].n /\ u[i + 1] = he[k].n
      BY <1>2, <1>3, <3>1
    <3> QED
      BY <2>1, <3>2
  <2> QED
    BY <2>2, <2>3
<1>6. Len(Tail(u)) = Len(v)
  BY <1>1, <1>2, <1>3, <1>4
<1>7. Tail(u) = v
  BY <1>3, <1>4, <1>5, <1>6, SameNumbers
<1>8. Head(u) = Head(ch).n
  BY <1>1, <1>2, <1>4
<1> QED
  BY <1>4, <1>7, <1>8 DEF u, v

(* Sending the packet the thread holds moves it into the channel.          *)
LEMMA MovedOn ==
  ASSUME NEW ch \in Seq(Packet), NEW he \in Seq(Packet), Len(he) = 1
  PROVE  Append(ch, Head(he)) \o <<>> = ch \o he
<1>1. he = <<Head(he)>> /\ Head(he) \in Packet
  OBVIOUS
<1>2. Append(ch, Head(he)) = ch \o <<Head(he)>> /\ Append(ch, Head(he)) \in Seq(Packet)
  BY <1>1
<1>3. Append(ch, Head(he)) \o <<>> = Append(ch, Head(he))
  BY <1>2
<1> QED
  BY <1>1, <1>2, <1>3

(* A packet that the thread takes is the last of those under way.          *)
LEMMA TakenUp ==
  ASSUME NEW ch \in Seq(Packet), NEW he \in Seq(Packet), NEW hf \in Seq(Packet),
         Len(he) = 0, Len(hf) = 1
  PROVE  /\ Numbers(ch \o hf) = Append(Numbers(ch \o he), hf[1].n)
         /\ Len(Numbers(ch \o he)) = Len(ch)
<1> DEFINE u == Numbers(ch \o he)
           v == Numbers(ch \o hf)
           n == hf[1].n
<1>1. Len(ch) \in Nat /\ 1 \in 1 .. Len(hf) /\ hf[1] \in Packet
  <2>1. 1 \in 1 .. Len(hf)
    OBVIOUS
  <2>2. hf[1] \in Packet
    BY <2>1, ElementOfSeq
  <2>3. Len(ch) \in Nat
    OBVIOUS
  <2> QED
    BY <2>1, <2>2, <2>3
<1>2. n \in Nat
  BY <1>1 DEF Packet
<1>3. /\ u \in Seq(Nat) /\ Len(u) = Len(ch)
      /\ \A i \in 1 .. Len(ch) : u[i] = ch[i].n
  <2>1. /\ u \in Seq(Nat) /\ Len(u) = Len(ch) + Len(he)
        /\ \A i \in 1 .. Len(ch) : u[i] = ch[i].n
    BY UnderWayIs
  <2> HIDE DEF u
  <2> QED
    BY <1>1, <2>1
<1>4. /\ v \in Seq(Nat) /\ Len(v) = Len(ch) + 1
      /\ \A i \in 1 .. Len(ch) : v[i] = ch[i].n
      /\ v[Len(ch) + 1] = n
  <2>1. /\ v \in Seq(Nat) /\ Len(v) = Len(ch) + Len(hf)
        /\ \A i \in 1 .. Len(ch) : v[i] = ch[i].n
        /\ \A i \in 1 .. Len(hf) : v[Len(ch) + i] = hf[i].n
    BY UnderWayIs
  <2> HIDE DEF u, v
  <2> QED
    BY <1>1, <2>1
<1> HIDE DEF u, v, n
<1>5. /\ Append(u, n) \in Seq(Nat) /\ Len(Append(u, n)) = Len(ch) + 1
      /\ \A i \in 1 .. Len(ch) : Append(u, n)[i] = u[i]
      /\ Append(u, n)[Len(ch) + 1] = n
  BY <1>1, <1>2, <1>3
<1>6. ASSUME NEW i \in 1 .. Len(v) PROVE v[i] = Append(u, n)[i]
  <2>1. i \in 1 .. Len(ch) \/ i = Len(ch) + 1
    BY <1>1, <1>4
  <2> QED
    BY <1>3, <1>4, <1>5, <2>1
<1>7. v = Append(u, n)
  BY <1>4, <1>5, <1>6, SameNumbers
<1> QED
  BY <1>3, <1>7 DEF u, v, n

(* Pushing a packet onto the store puts its number into the log.           *)
LEMMA PushPuts ==
  ASSUME TypeOK, NEW p \in Packet, Push(p)
  PROVE  /\ Numbers(store') = Append(IF Len(Numbers(store)) >= MaxPackets
                                     THEN Tail(Numbers(store)) ELSE Numbers(store), p.n)
         /\ nextId' - 1 = (nextId - 1) + 1
<1>1. store \in Seq(Stored) /\ store' \in Seq(Stored) /\ MaxPackets \in Nat \ {0}
      /\ p.n \in Nat /\ Kept(p).n = p.n /\ nextId \in Nat
  BY PushShape, CaptureAssumption DEF TypeOK, Packet, Kept
<1>2. \A x \in Stored : x.n \in Nat
  BY DEF Stored
<1> DEFINE s == Numbers(store)
           t == Numbers(store')
           u == Append(IF Len(s) >= MaxPackets THEN Tail(s) ELSE s, p.n)
<1>3. /\ s \in Seq(Nat) /\ Len(s) = Len(store)
      /\ \A i \in 1 .. Len(store) : s[i] = store[i].n
  BY <1>1, <1>2, NumbersAre
<1>4. /\ t \in Seq(Nat) /\ Len(t) = Len(store')
      /\ \A i \in 1 .. Len(store') : t[i] = store'[i].n
  BY <1>1, <1>2, NumbersAre
<1> HIDE DEF s, t
<1>5. /\ u \in Seq(Nat) /\ u[Len(u)] = p.n
      /\ IF Len(s) >= MaxPackets
         THEN /\ Len(u) = Len(s)
              /\ \A i \in 1 .. Len(s) - 1 : u[i] = s[i + 1]
         ELSE /\ Len(u) = Len(s) + 1
              /\ \A i \in 1 .. Len(s) : u[i] = s[i]
  BY <1>1, <1>3, Evicting
<1> HIDE DEF u
<1>6. /\ Len(t) = Len(u)
      /\ \A i \in 1 .. Len(t) : t[i] = u[i]
  <2>1. Len(store) \in Nat /\ store'[Len(store')].n = p.n
    BY <1>1, PushShape
  <2>2. CASE Len(store) >= MaxPackets
    <3>1. /\ Len(store') = Len(store) /\ Len(store) >= 1
          /\ \A i \in 1 .. Len(store) - 1 : store'[i] = store[i + 1]
      BY <1>1, <2>2, PushShape
    <3>2. /\ Len(u) = Len(store) /\ \A i \in 1 .. Len(store) - 1 : u[i] = s[i + 1]
      BY <1>3, <1>5, <2>2
    <3>3. ASSUME NEW i \in 1 .. Len(t), i # Len(t) PROVE t[i] = u[i]
      <4>1. i \in 1 .. Len(store) - 1 /\ i + 1 \in 1 .. Len(store) /\ i \in 1 .. Len(store')
        BY <1>4, <2>1, <3>1, <3>3
      <4>2. t[i] = store'[i].n /\ store'[i] = store[i + 1] /\ u[i] = s[i + 1]
        BY <1>4, <3>1, <3>2, <4>1
      <4> QED
        BY <1>3, <4>1, <4>2
    <3>4. t[Len(t)] = p.n /\ u[Len(t)] = p.n /\ Len(t) = Len(u)
      BY <1>4, <1>5, <2>1, <3>1, <3>2
    <3> QED
      BY <3>3, <3>4
  <2>3. CASE ~(Len(store) >= MaxPackets)
    <3>1. /\ Len(store') = Len(store) + 1
          /\ \A i \in 1 .. Len(store) : store'[i] = store[i]
      BY <1>1, <2>3, PushShape
    <3>2. /\ Len(u) = Len(store) + 1 /\ \A i \in 1 .. Len(store) : u[i] = s[i]
      BY <1>3, <1>5, <2>3
    <3>3. ASSUME NEW i \in 1 .. Len(t), i # Len(t) PROVE t[i] = u[i]
      <4>1. i \in 1 .. Len(store) /\ i \in 1 .. Len(store')
        BY <1>4, <2>1, <3>1, <3>3
      <4>2. t[i] = store'[i].n /\ store'[i] = store[i] /\ u[i] = s[i]
        BY <1>4, <3>1, <3>2, <4>1
      <4> QED
        BY <1>3, <4>1, <4>2
    <3>4. t[Len(t)] = p.n /\ u[Len(t)] = p.n /\ Len(t) = Len(u)
      BY <1>4, <1>5, <2>1, <3>1, <3>2
    <3> QED
      BY <3>3, <3>4
  <2> QED
    BY <2>2, <2>3
<1>7. t = u
  BY <1>4, <1>5, <1>6, SameNumbers
<1> QED
  BY <1>1, <1>7, PushShape DEF s, t, u

------------------------------------------------------------------------------
(* The channel keeps to its capacity: send() waits for room.               *)
LEMMA ChannelStep == TypeOK /\ ChannelFits /\ RunningThreadIsShown /\ [Next]_vars => ChannelFits'
<1> SUFFICES ASSUME TypeOK, ChannelFits, RunningThreadIsShown, [Next]_vars PROVE ChannelFits'
  OBVIOUS
<1>0. ChanCap \in Nat \ {0} /\ chan \in Seq(Packet)
  BY CaptureAssumption DEF TypeOK
<1>1. CASE UNCHANGED chan
  BY <1>1 DEF ChannelFits
<1>2. CASE chan' = <<>>
  BY <1>0, <1>2 DEF ChannelFits
<1>3. ASSUME NEW o \in Outcomes, DrainPacket(o) PROVE ChannelFits'
  BY <1>0, <1>3 DEF DrainPacket, ChannelFits
<1>4. CASE SendPacket
  <2>1. rx /\ Len(chan) < ChanCap /\ chan' = Append(chan, Head(held))
    BY <1>4 DEF SendPacket, RunningThreadIsShown, Alive
  <2> QED
    BY <1>0, <2>1 DEF ChannelFits
<1> QED
  BY <1>1, <1>2, <1>3, <1>4, LineSteps, Zenon
     DEF LoadKeylog, LoadPacket, NextPacket, ThreadDies

(* The capture thread never overfills the channel.                         *)
THEOREM ChannelBound == Spec => []ChannelFits
<1>1. Init => ChannelFits
  BY CaptureAssumption DEF Init, ChannelFits
<1>2. IInv /\ ChannelFits /\ [Next]_vars => ChannelFits'
  BY ChannelStep DEF IInv
<1> QED
  BY <1>1, <1>2, Invariance, PTL DEF Spec

------------------------------------------------------------------------------
(* Steps that touch none of what the log is made of.                       *)
LEMMA OtherSteps ==
  ASSUME [Next]_vars
  PROVE  \/ UNCHANGED <<ui, capturing, wire, chan, held, store, nextId>>
         \/ BeginDrain \/ EndDrain \/ LoadDone \/ FinishStop
         \/ StartCapture \/ StopCapture \/ CloseTab
         \/ \E f \in Filters : SetCaptureFilter(f)
         \/ LoadKeylog
         \/ \E o \in Outcomes : DrainPacket(o)
         \/ \E k \in Kinds : LoadPacket(k)
         \/ SendPacket \/ ThreadDies
         \/ \E k \in Kinds : NextPacket(k)
<1>1. CASE NavHome \/ NavEnd \/ CheckStop \/ NoPacket \/ UNCHANGED vars
  BY <1>1, Zenon DEF NavHome, NavEnd, CheckStop, NoPacket, vars, uiVars, storeVars, thrVars
<1>2. CASE (\E f \in Filters : SetDisplayFilter(f)) \/ (\E down \in BOOLEAN : Nav(down))
  BY <1>2, Zenon DEF SetDisplayFilter, Nav, uiVars, storeVars, thrVars
<1> QED
  BY <1>1, <1>2, Zenon DEF Next, UserStep, UiStep, ThreadStep

(* Every step of a capture session is a step of the log, or leaves the log *)
(* as it is.                                                               *)
LEMMA StepOfLog == IInv /\ ChannelFits /\ [Next]_vars => [Log!Next]_(Log!vars)
<1> SUFFICES ASSUME IInv, ChannelFits, [Next]_vars PROVE [Log!Next]_(Log!vars)
  OBVIOUS
<1>0. /\ TypeOK /\ TypeOK' /\ InFlight /\ RunningThreadIsShown /\ LoadingIsQuiet
      /\ chan \in Seq(Packet) /\ held \in Seq(Packet)
      /\ chan' \in Seq(Packet) /\ held' \in Seq(Packet)
      /\ nextId \in Nat /\ ChanCap \in Nat
  BY Typing, CaptureAssumption DEF IInv, TypeOK
<1>1. ASSUME UNCHANGED <<wire, chan, held, store, nextId>>,
             \/ UNCHANGED <<ui, capturing>>
             \/ ui \notin Joining /\ ui' \notin Joining /\ capturing' = capturing
      PROVE  UNCHANGED Log!vars
  BY <1>1 DEF Log!vars
<1>2. CASE UNCHANGED <<ui, capturing, wire, chan, held, store, nextId>>
  BY <1>1, <1>2
<1>3. CASE BeginDrain \/ LoadDone
  BY <1>1, <1>3 DEF BeginDrain, LoadDone, Joining, storeVars, thrVars
<1>4. CASE StopCapture \/ CloseTab
  <2>1. Log!Ask
    BY <1>4 DEF StopCapture, CloseTab, BeginStop, Joining, storeVars, thrVars, Log!Ask
  <2> QED
    BY <2>1 DEF Log!Next
<1>5. ASSUME NEW f \in Filters, SetCaptureFilter(f) PROVE [Log!Next]_(Log!vars)
  <2>1. CASE capturing
    <3>1. Log!Ask
      BY <1>5, <2>1 DEF SetCaptureFilter, BeginStop, Joining, storeVars, thrVars, Log!Ask
    <3> QED
      BY <3>1 DEF Log!Next
  <2>2. CASE ~capturing
    BY <1>1, <1>5, <2>2 DEF SetCaptureFilter, storeVars, thrVars
  <2> QED
    BY <2>1, <2>2
<1>6. CASE StartCapture
  <2>1. CASE StartOk
    <3>1. chan = <<>> /\ ~capturing /\ ui = "loop"
      BY <1>6 DEF StartCapture, InFlight, IInv
    <3>2. chan' = chan /\ held' = held /\ UNCHANGED <<ui, wire, store, nextId>> /\ capturing'
      BY <1>6, <2>1, <3>1 DEF StartCapture, StartOk, storeVars
    <3>3. Log!Start
      BY <3>1, <3>2 DEF Joining, Log!Start
    <3> QED
      BY <3>3 DEF Log!Next
  <2>2. CASE StartFails
    BY <1>1, <1>6, <2>2 DEF StartCapture, StartFails, storeVars
  <2> QED
    BY <1>6, <2>1, <2>2 DEF StartCapture
<1>7. CASE FinishStop
  <2>1. held = <<>> /\ held' = held /\ chan' = <<>>
    BY <1>0, <1>7, Zenon DEF FinishStop, StartOk, RestartFails, Stopped, InFlight, Alive
  <2>2. UNCHANGED <<wire, store, nextId>> /\ ui' \notin Joining /\ ui \in Joining
    BY <1>7 DEF FinishStop, StartOk, RestartFails, Stopped, storeVars, Joining
  <2>3. Numbers(chan' \o held') = <<>>
    <3>1. Len(chan') = 0 /\ Len(held') = 0
      BY <2>1
    <3> QED
      BY <1>0, <3>1, NothingUnderWay
  <2>4. Log!Stop
    BY <2>2, <2>3 DEF Log!Stop
  <2> QED
    BY <2>4 DEF Log!Next
<1>8. ASSUME NEW o \in Outcomes, DrainPacket(o) PROVE [Log!Next]_(Log!vars)
  <2>1. /\ ui = "drain" /\ ui' = ui /\ capturing' = capturing /\ UNCHANGED <<wire, held>>
        /\ chan # <<>> /\ chan' = Tail(chan) /\ Push(Head(chan))
    BY <1>8 DEF DrainPacket, uiVars, thrVars
  <2>2. capturing
    BY <1>0, <2>1 DEF InFlight
  <2>3. Head(chan) \in Packet
    BY <1>0, <2>1
  <2>4. /\ Numbers(store') = Append(IF Len(Numbers(store)) >= MaxPackets
                                    THEN Tail(Numbers(store)) ELSE Numbers(store), Head(chan).n)
        /\ nextId' - 1 = (nextId - 1) + 1
    BY <1>0, <2>1, <2>3, PushPuts
  <2>5. /\ Numbers(chan \o held) # <<>>
        /\ Head(Numbers(chan \o held)) = Head(chan).n
        /\ Tail(Numbers(chan \o held)) = Numbers(chan' \o held')
    BY <1>0, <2>1, TakenOut
  <2>6. Log!Deliver
    BY <2>1, <2>2, <2>4, <2>5 DEF Log!Deliver, Log!Put, Joining
  <2> QED
    BY <2>6 DEF Log!Next
<1>9. CASE EndDrain
  <2>1. /\ ui = "drain" /\ ui' = "loop" /\ chan = <<>> /\ UNCHANGED <<wire, chan, held, store, nextId>>
    BY <1>9 DEF EndDrain, storeVars, thrVars
  <2>2. CASE capturing' = capturing
    BY <1>1, <2>1, <2>2 DEF Joining
  <2>3. CASE capturing' # capturing
    <3>1. ~Alive /\ capturing' = FALSE /\ capturing
      BY <1>0, <1>9, <2>3 DEF EndDrain, TypeOK
    <3>2. held = <<>>
      BY <1>0, <3>1 DEF InFlight, Alive
    <3>3. Numbers(chan \o held) = <<>>
      <4>1. Len(chan) = 0 /\ Len(held) = 0
        BY <2>1, <3>2
      <4> QED
        BY <1>0, <4>1, NothingUnderWay
    <3>4. Log!End
      BY <2>1, <3>1, <3>3 DEF Joining, Log!End
    <3> QED
      BY <3>4 DEF Log!Next
  <2> QED
    BY <2>2, <2>3
<1>10. CASE LoadKeylog
  <2>1. Numbers(store') = Numbers(store)
    <3>1. /\ store \in Seq(Stored) /\ store' \in Seq(Stored) /\ Len(store') = Len(store)
          /\ \A i \in 1 .. Len(store) : store'[i] = [store[i] EXCEPT !.kl = keylog + 1]
      <4>1. store \in Seq(Stored) /\ keylog \in Nat
        BY <1>0 DEF TypeOK
      <4>2. store' = [i \in 1 .. Len(store) |-> [store[i] EXCEPT !.kl = keylog + 1]]
        BY <1>10 DEF LoadKeylog
      <4>3. \A q \in Stored, k \in Nat : [q EXCEPT !.kl = k] \in Stored
        BY DEF Stored
      <4>4. ASSUME NEW i \in 1 .. Len(store)
            PROVE  [store[i] EXCEPT !.kl = keylog + 1] \in Stored
        <5>1. store[i] \in Stored /\ keylog + 1 \in Nat
          BY <4>1, ElementOfSeq
        <5> QED
          BY <4>3, <5>1
      <4> QED
        BY <4>1, <4>2, <4>4
    <3>2. \A q \in Stored : q.n \in Nat /\ \A m : [q EXCEPT !.kl = m].n = q.n
      BY DEF Stored
    <3>3. ASSUME NEW i \in 1 .. Len(store) PROVE store'[i].n = store[i].n
      <4>1. store[i] \in Stored
        BY <3>1, ElementOfSeq
      <4>2. [store[i] EXCEPT !.kl = keylog + 1].n = store[i].n
        BY <3>2, <4>1
      <4> QED
        BY <3>1, <4>2
    <3>4. /\ Numbers(store) \in Seq(Nat) /\ Len(Numbers(store)) = Len(store)
          /\ \A i \in 1 .. Len(store) : Numbers(store)[i] = store[i].n
      BY <3>1, <3>2, NumbersAre
    <3>5. /\ Numbers(store') \in Seq(Nat) /\ Len(Numbers(store')) = Len(store')
          /\ \A i \in 1 .. Len(store') : Numbers(store')[i] = store'[i].n
      BY <3>1, <3>2, NumbersAre
    <3> QED
      BY <3>1, <3>3, <3>4, <3>5, SameNumbers
  <2>2. UNCHANGED Log!vars
    BY <1>10, <2>1 DEF LoadKeylog, Log!vars, thrVars
  <2> QED
    BY <2>2
<1>11. ASSUME NEW k \in Kinds, LoadPacket(k) PROVE [Log!Next]_(Log!vars)
  <2> DEFINE p == [n |-> wire + 1, kind |-> k, kl |-> keylog]
  <2>1. /\ ui = "load" /\ ui' = ui /\ capturing' = capturing /\ UNCHANGED <<chan, held>>
        /\ wire' = wire + 1 /\ Push(p)
    BY <1>11 DEF LoadPacket, uiVars
  <2>2. ~capturing
    BY <1>0, <2>1 DEF LoadingIsQuiet
  <2>3. p \in Packet /\ p.n = wire + 1
    BY <1>0 DEF TypeOK, Packet
  <2> HIDE DEF p
  <2>4. /\ Numbers(store') = Append(IF Len(Numbers(store)) >= MaxPackets
                                    THEN Tail(Numbers(store)) ELSE Numbers(store), wire + 1)
        /\ nextId' - 1 = (nextId - 1) + 1
    BY <1>0, <2>1, <2>3, PushPuts
  <2>5. Log!Load
    BY <2>1, <2>2, <2>4 DEF Log!Load, Log!Put, Joining
  <2> QED
    BY <2>5 DEF Log!Next
<1>12. CASE SendPacket
  <2>1. /\ rx /\ chan' = Append(chan, Head(held)) /\ held' = <<>> /\ Len(held) = 1
        /\ UNCHANGED <<ui, capturing, wire, store, nextId>>
    <3>1. thr = "send" /\ rx
      BY <1>0, <1>12 DEF SendPacket, RunningThreadIsShown, Alive
    <3>2. Len(held) = 1
      <4>1. held # <<>> /\ Len(held) <= 1 /\ held \in Seq(Packet)
        BY <1>0, <3>1 DEF InFlight
      <4>2. Len(held) # 0 /\ Len(held) \in Nat
        BY <4>1, EmptySeq
      <4> QED
        BY <4>1, <4>2
    <3> QED
      BY <1>12, <3>1, <3>2 DEF SendPacket, uiVars, storeVars
  <2>2. chan' \o held' = chan \o held
    BY <1>0, <2>1, MovedOn
  <2>3. UNCHANGED Log!vars
    BY <2>1, <2>2 DEF Log!vars
  <2> QED
    BY <2>3
<1>13. CASE ThreadDies
  <2>1. Log!Pass
    BY <1>13 DEF ThreadDies, uiVars, storeVars, Log!Pass
  <2> QED
    BY <2>1 DEF Log!Next
<1>14. ASSUME NEW k \in Kinds, NextPacket(k) PROVE [Log!Next]_(Log!vars)
  <2>1. /\ thr = "next" /\ wire' = wire + 1
        /\ UNCHANGED <<ui, capturing, chan, store, nextId>>
    BY <1>14 DEF NextPacket, uiVars, storeVars
  <2>2. CASE k \in thrFilter
    <3>1. capturing /\ Len(held) = 0
      BY <1>0, <2>1 DEF RunningThreadIsShown, Alive, InFlight
    <3>2. Len(held') = 1 /\ held'[1].n = wire + 1
      BY <1>14, <2>2 DEF NextPacket
    <3>3. /\ Numbers(chan' \o held') = Append(Numbers(chan \o held), wire + 1)
          /\ Len(Numbers(chan \o held)) = Len(chan)
      <4>1. chan \in Seq(Packet) /\ held \in Seq(Packet) /\ held' \in Seq(Packet)
        BY <1>0
      <4>2. Len(held) = 0 /\ Len(held') = 1
        BY <3>1, <3>2
      <4>3. /\ Numbers(chan \o held') = Append(Numbers(chan \o held), held'[1].n)
            /\ Len(Numbers(chan \o held)) = Len(chan)
        BY <4>1, <4>2, TakenUp
      <4> QED
        BY <2>1, <3>2, <4>3
    <3>4. Len(chan) < ChanCap + 1
      BY <1>0 DEF ChannelFits
    <3>5. Log!Take
      BY <2>1, <3>1, <3>3, <3>4 DEF Log!Take
    <3> QED
      BY <3>5 DEF Log!Next
  <2>3. CASE k \notin thrFilter
    <3>1. held' = held
      BY <1>14, <2>3 DEF NextPacket
    <3>2. Log!Pass
      BY <2>1, <3>1 DEF Log!Pass
    <3> QED
      BY <3>2 DEF Log!Next
  <2> QED
    BY <2>2, <2>3
<1> QED
  BY <1>2, <1>3, <1>4, <1>5, <1>6, <1>7, <1>8, <1>9, <1>10, <1>11, <1>12, <1>13, <1>14,
     OtherSteps, Zenon

(* A capture session begins as an empty log that is off.                   *)
LEMMA BeginsAsLog == Init => Log!Init
<1> SUFFICES ASSUME Init PROVE Log!Init
  OBVIOUS
<1>1. /\ store = <<>> /\ chan = <<>> /\ held = <<>> /\ nextId = 1 /\ wire = 0
      /\ ~capturing /\ ui \notin Joining
  BY DEF Init, Joining
<1>2. Numbers(<<>>) = <<>> /\ Numbers(chan \o held) = <<>>
  <2>1. Numbers(<<>>) = <<>>
    BY DEF Numbers
  <2> QED
    BY <1>1, <2>1
<1> QED
  BY <1>1, <1>2 DEF Log!Init

(* The capture session implements the log (IsPacketLog): whatever the two  *)
(* threads, the bounded channel and the operator do, packets get into the  *)
(* store in order and once, and only stopping loses any of them.           *)
THEOREM ImplementsPacketLog == Spec => IsPacketLog
<1>1. Init => Log!Init
  BY BeginsAsLog
<1>2. IInv /\ ChannelFits /\ [Next]_vars => [Log!Next]_(Log!vars)
  BY StepOfLog
<1> QED
  BY <1>1, <1>2, Invariance, ChannelBound, PTL DEF Spec, IsPacketLog, Log!Spec
=============================================================================
