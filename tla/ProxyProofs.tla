----------------------------- MODULE ProxyProofs -----------------------------
(* Theorems about Proxy, for any set of clients and any loads.             *)
EXTENDS Proxy, TLAPS

------------------------------------------------------------------------------
(* The inductive invariant. *)

(* What the proxy has read from end e of the connection of c. *)
Taken(c, e) == sent[c][e] - Len(buf[c][e])

(* What waits to be read is the last that was sent, in order.              *)
Waiting ==
  \A c \in Clients : \A e \in Ends :
    /\ Len(buf[c][e]) <= sent[c][e]
    /\ \A i \in 1 .. Len(buf[c][e]) : buf[c][e][i] = [from |-> e, n |-> Taken(c, e) + i]

(* Before a splice is up nothing is read, and there is no upstream.        *)
Before == {"none", "accepted", "slotted", "connecting"}

NotYet ==
  \A c \in Clients :
    /\ phase[c] # "up" => ~open[c]["server"]
    /\ phase[c] \in Before => \A e \in Ends : Taken(c, e) = 0 /\ got[c][e] = <<>>

(* What end e received is s, injected payloads apart the first pieces of   *)
(* the k that were read from the other end; and all of them, as long as e  *)
(* is there.                                                               *)
Flow(s, k, there, e) ==
  /\ Ascending(s, Other(e))
  /\ Complete(s, Other(e))
  /\ \A i \in 1 .. Len(s) : s[i].from = Other(e) \/ (s[i].from = "inject" /\ e = "server")
  /\ \A i \in 1 .. Len(s) : s[i].from = Other(e) => s[i].n <= k
  /\ there => \A n \in 1 .. k : \E i \in 1 .. Len(s) : s[i] = [from |-> Other(e), n |-> n]

Relayed ==
  \A c \in Clients : \A e \in Ends : Flow(got[c][e], Taken(c, Other(e)), open[c][e], e)

(* Payloads are numbered as they are entered; those not forwarded yet are  *)
(* the last ones.                                                          *)
Numbered ==
  /\ \A i, j \in 1 .. Len(cmds) : i < j => cmds[i] < cmds[j]
  /\ \A i \in 1 .. Len(cmds) : cmds[i] <= injected

(* Only payloads of the composer are in an inject channel.                 *)
Composed == \A c \in Clients : \A i \in 1 .. Len(inj[c]) : inj[c][i].from = "inject"

(* Those in the channel of a splice are newer than those that its upstream *)
(* received; and what was entered for one splice was for no other.         *)
Entered(c) == Payloads(inj[c]) \cup Payloads(got[c]["server"])

Queued ==
  \A c \in Clients :
    /\ Ascending(inj[c], "inject")
    /\ Ascending(got[c]["server"], "inject")
    /\ \A m \in Payloads(got[c]["server"]), n \in Payloads(inj[c]) : m < n
    /\ \A d \in Clients : c # d => Entered(c) \cap Entered(d) = {}

(* Whatever was forwarded was entered before what was not. *)
Forwarded ==
  \A c \in Clients : \A n \in Entered(c) :
    n <= injected /\ \A i \in 1 .. Len(cmds) : n < cmds[i]

(* As long as the clients were served one at a time, the slot and          *)
(* splice_live follow the phases of the one that is served.                *)
HoldsSlot == {"slotted", "connecting", "up", "over", "cleared"}
IsLive == {"connecting", "up", "over"}

Alone ==
  /\ \A c, d \in Clients : Served(c) /\ Served(d) => c = d
  /\ \A c \in Clients : phase[c] \in HoldsSlot => slot = c
  /\ \A c \in Clients : phase[c] \in IsLive => live
  /\ live => \E c \in Clients : phase[c] \in IsLive

SlotInv ==
  /\ slot # 0 => phase[slot] \in HoldsSlot
  /\ ~crowded => Alone

DataInv == Waiting /\ NotYet /\ Relayed

InjectInv == Numbered /\ Queued /\ Forwarded

IInv == TypeOK /\ SlotInv /\ Composed /\ DataInv /\ InjectInv

------------------------------------------------------------------------------
(* Types. *)
LEMMA WriteShape ==
  ASSUME TypeOK, NEW c \in Clients, NEW e \in Ends, NEW p \in Chunk, Write(c, e, p)
  PROVE  /\ got' \in [Clients -> [Ends -> Seq(Chunk)]]
         /\ \A d \in Clients, f \in Ends : d # c \/ f # e => got'[d][f] = got[d][f]
         /\ IF open[c][e] THEN got'[c][e] = Append(got[c][e], p) ELSE got' = got
<1>1. got \in [Clients -> [Ends -> Seq(Chunk)]]
  BY DEF TypeOK
<1>2. Append(got[c][e], p) \in Seq(Chunk)
  BY <1>1
<1> QED
  BY <1>1, <1>2 DEF Write

LEMMA PayloadType ==
  ASSUME NEW n \in Nat
  PROVE  /\ [from |-> "inject", n |-> n] \in Chunk
         /\ \A e \in Ends : [from |-> e, n |-> n] \in Chunk
BY DEF Chunk, Ends

LEMMA ElementsType ==
  ASSUME NEW s \in Seq(Chunk)
  PROVE  Len(s) \in Nat /\ \A i \in 1 .. Len(s) : s[i] \in Chunk /\ s[i].n \in Nat
<1>1. Len(s) \in Nat /\ \A i \in 1 .. Len(s) : s[i] \in Chunk
  OBVIOUS
<1>2. \A p \in Chunk : p.n \in Nat
  BY DEF Chunk
<1> QED
  BY <1>1, <1>2

LEMMA HungUp ==
  ASSUME TypeOK, NEW c \in Clients, HangUp(c)
  PROVE  /\ phase' \in [Clients -> Phases]
         /\ open' \in [Clients -> [Ends -> BOOLEAN]]
         /\ buf' \in [Clients -> [Ends -> Seq(Chunk)]]
         /\ inj' \in [Clients -> Seq(Chunk)]
         /\ \A e \in Ends : ~open'[c][e] /\ buf'[c][e] = <<>>
         /\ phase'[c] = "over" /\ inj'[c] = <<>>
         /\ \A d \in Clients \ {c} :
              phase'[d] = phase[d] /\ open'[d] = open[d] /\ buf'[d] = buf[d] /\ inj'[d] = inj[d]
<1>1. /\ phase' \in [Clients -> Phases]
      /\ phase'[c] = "over"
      /\ \A d \in Clients \ {c} : phase'[d] = phase[d]
  BY DEF TypeOK, HangUp, Phases
<1>2. /\ inj' \in [Clients -> Seq(Chunk)]
      /\ inj'[c] = <<>>
      /\ \A d \in Clients \ {c} : inj'[d] = inj[d]
  BY DEF TypeOK, HangUp
<1>3. /\ buf' \in [Clients -> [Ends -> Seq(Chunk)]]
      /\ \A e \in Ends : buf'[c][e] = <<>>
      /\ \A d \in Clients \ {c} : buf'[d] = buf[d]
  BY DEF TypeOK, HangUp
<1> DEFINE shut == [e \in Ends |-> FALSE]
<1>4. shut \in [Ends -> BOOLEAN] /\ \A e \in Ends : ~shut[e]
  OBVIOUS
<1>5. open' = [open EXCEPT ![c] = shut] /\ open \in [Clients -> [Ends -> BOOLEAN]]
  BY DEF TypeOK, HangUp
<1> HIDE DEF shut
<1>6. /\ open' \in [Clients -> [Ends -> BOOLEAN]]
      /\ open'[c] = shut
      /\ \A d \in Clients \ {c} : open'[d] = open[d]
  BY <1>4, <1>5
<1> QED
  BY <1>1, <1>2, <1>3, <1>4, <1>6

LEMMA TypeInit == Init => TypeOK
<1> SUFFICES ASSUME Init PROVE TypeOK
  OBVIOUS
<1>1. load \in Loads /\ crowded \in BOOLEAN /\ live \in BOOLEAN
  BY DEF Init
<1>6. cmds \in Seq(Nat) /\ injected \in Nat /\ slot \in Clients \cup {0}
  BY DEF Init
<1>4. phase \in [Clients -> Phases] /\ active \in [Clients -> BOOLEAN]
  BY DEF Init, Phases
<1>5. c2s \in [Clients -> Steps] /\ s2c \in [Clients -> Steps \ {"stuck"}]
  BY DEF Init, Steps
<1>3. inj \in [Clients -> Seq(Chunk)]
  BY DEF Init
<1>2. /\ sent \in [Clients -> [Ends -> Nat]]
      /\ buf \in [Clients -> [Ends -> Seq(Chunk)]]
      /\ open \in [Clients -> [Ends -> BOOLEAN]]
      /\ got \in [Clients -> [Ends -> Seq(Chunk)]]
  BY DEF Init
<1> QED
  BY <1>1, <1>2, <1>3, <1>4, <1>5, <1>6 DEF TypeOK

LEMMA TypeNext == TypeOK /\ [Next]_vars => TypeOK'
<1> SUFFICES ASSUME TypeOK, [Next]_vars PROVE TypeOK'
  OBVIOUS
<1> USE DEF session, tasks, net
<1>1. CASE SendComposer
  BY <1>1 DEF TypeOK, SendComposer
<1>2. CASE ForwardCommand
  <2>1. Head(cmds) \in Nat /\ Tail(cmds) \in Seq(Nat)
    BY <1>2 DEF TypeOK, ForwardCommand
  <2>2. \A c \in Clients : Append(inj[c], [from |-> "inject", n |-> Head(cmds)]) \in Seq(Chunk)
    BY <2>1, PayloadType DEF TypeOK
  <2>3. inj' \in [Clients -> Seq(Chunk)]
    BY <1>2, <2>2 DEF TypeOK, ForwardCommand
  <2> QED
    BY <1>2, <2>1, <2>3 DEF TypeOK, ForwardCommand
<1>3. ASSUME NEW c \in Clients, Accept(c) PROVE TypeOK'
  BY <1>3 DEF TypeOK, Accept, Phases
<1>4. ASSUME NEW c \in Clients, Connect(c) PROVE TypeOK'
  <2>1. c2s' \in [Clients -> Steps]
    BY <1>4 DEF TypeOK, Connect, Steps
  <2>2. CASE HangUp(c)
    BY <1>4, <2>1, <2>2, HungUp DEF TypeOK, Connect
  <2>3. CASE /\ phase' = [phase EXCEPT ![c] = "up"]
             /\ open' = [open EXCEPT ![c]["server"] = TRUE]
             /\ UNCHANGED <<buf, inj>>
    <3>1. phase' \in [Clients -> Phases]
      BY <2>3 DEF TypeOK, Phases
    <3>2. open' \in [Clients -> [Ends -> BOOLEAN]]
      BY <2>3 DEF TypeOK
    <3> QED
      BY <1>4, <2>1, <2>3, <3>1, <3>2 DEF TypeOK, Connect
  <2> QED
    BY <1>4, <2>2, <2>3 DEF Connect
<1>5. ASSUME NEW c \in Clients, HandlerStep(c) PROVE TypeOK'
  <2>1. CASE TakeSlot(c)
    BY <2>1 DEF TypeOK, TakeSlot, Phases
  <2>2. CASE MarkLive(c)
    BY <2>2 DEF TypeOK, MarkLive, Phases
  <2>3. CASE SpliceOver(c)
    BY <2>3 DEF TypeOK, SpliceOver, HangUp, Phases
  <2>4. CASE ClearLive(c)
    BY <2>4 DEF TypeOK, ClearLive, Phases
  <2>5. CASE ClearSlot(c)
    BY <2>5 DEF TypeOK, ClearSlot, Phases
  <2> QED
    BY <1>5, <2>1, <2>2, <2>3, <2>4, <2>5 DEF HandlerStep
<1>6. ASSUME NEW c \in Clients, C2sStep(c) PROVE TypeOK'
  <2>1. CASE C2sHead(c)
    BY <2>1 DEF TypeOK, C2sHead, Ended, Steps
  <2>2. CASE C2sInject(c)
    <3>1. Head(inj[c]) \in Chunk /\ Tail(inj[c]) \in Seq(Chunk)
      BY <2>2 DEF TypeOK, C2sInject
    <3>2. got' \in [Clients -> [Ends -> Seq(Chunk)]]
      BY <2>2, <3>1, WriteShape DEF C2sInject, Ends
    <3>3. inj' \in [Clients -> Seq(Chunk)]
      BY <2>2, <3>1 DEF TypeOK, C2sInject
    <3>4. c2s' \in [Clients -> Steps] /\ active' \in [Clients -> BOOLEAN]
      BY <2>2 DEF TypeOK, C2sInject, Ended, Steps
    <3> QED
      BY <2>2, <3>2, <3>3, <3>4 DEF TypeOK, C2sInject
  <2>3. CASE C2sInjectClosed(c)
    BY <2>3 DEF TypeOK, C2sInjectClosed, Steps
  <2>4. CASE C2sRead(c)
    <3>1. c2s' \in [Clients -> Steps] /\ active' \in [Clients -> BOOLEAN]
      BY <2>4 DEF TypeOK, C2sRead, Ended, Steps
    <3>2. CASE buf[c]["client"] # <<>> /\ buf' = [buf EXCEPT ![c]["client"] = Tail(@)]
               /\ Write(c, "server", Head(buf[c]["client"]))
      <4>1. /\ Head(buf[c]["client"]) \in Chunk
            /\ Tail(buf[c]["client"]) \in Seq(Chunk)
        BY <3>2 DEF TypeOK, Ends
      <4>2. got' \in [Clients -> [Ends -> Seq(Chunk)]]
        BY <3>2, <4>1, WriteShape DEF Ends
      <4>3. buf' \in [Clients -> [Ends -> Seq(Chunk)]]
        BY <3>2, <4>1 DEF TypeOK
      <4> QED
        BY <2>4, <3>1, <4>2, <4>3 DEF TypeOK, C2sRead
    <3>3. CASE UNCHANGED <<buf, got>>
      BY <2>4, <3>1, <3>3 DEF TypeOK, C2sRead
    <3> QED
      BY <2>4, <3>2, <3>3 DEF C2sRead
  <2> QED
    BY <1>6, <2>1, <2>2, <2>3, <2>4 DEF C2sStep
<1>7. ASSUME NEW c \in Clients, S2cStep(c) PROVE TypeOK'
  <2>1. CASE S2cHead(c)
    BY <2>1 DEF TypeOK, S2cHead, Ended, Steps
  <2>2. CASE S2cRead(c)
    <3>1. s2c' \in [Clients -> Steps \ {"stuck"}] /\ active' \in [Clients -> BOOLEAN]
      BY <2>2 DEF TypeOK, S2cRead, Ended, Steps
    <3>2. CASE buf[c]["server"] # <<>> /\ buf' = [buf EXCEPT ![c]["server"] = Tail(@)]
               /\ Write(c, "client", Head(buf[c]["server"]))
      <4>1. /\ Head(buf[c]["server"]) \in Chunk
            /\ Tail(buf[c]["server"]) \in Seq(Chunk)
        BY <3>2 DEF TypeOK, Ends
      <4>2. got' \in [Clients -> [Ends -> Seq(Chunk)]]
        BY <3>2, <4>1, WriteShape DEF Ends
      <4>3. buf' \in [Clients -> [Ends -> Seq(Chunk)]]
        BY <3>2, <4>1 DEF TypeOK
      <4> QED
        BY <2>2, <3>1, <4>2, <4>3 DEF TypeOK, S2cRead
    <3>3. CASE UNCHANGED <<buf, got>>
      BY <2>2, <3>1, <3>3 DEF TypeOK, S2cRead
    <3> QED
      BY <2>2, <3>2, <3>3 DEF S2cRead
  <2> QED
    BY <1>7, <2>1, <2>2 DEF S2cStep
<1>8. ASSUME NEW c \in Clients, NEW e \in Ends, PeerSends(c, e) PROVE TypeOK'
  <2>1. sent[c][e] + 1 \in Nat
    BY DEF TypeOK
  <2> DEFINE p == [from |-> e, n |-> sent[c][e] + 1]
  <2>0. p \in Chunk /\ buf[c][e] \in Seq(Chunk)
    BY <2>1, PayloadType DEF TypeOK
  <2> HIDE DEF p
  <2>4. Append(buf[c][e], p) \in Seq(Chunk)
    BY <2>0
  <2>2. Append(buf[c][e], [from |-> e, n |-> sent[c][e] + 1]) \in Seq(Chunk)
    BY <2>4 DEF p
  <2>3. buf' \in [Clients -> [Ends -> Seq(Chunk)]] /\ sent' \in [Clients -> [Ends -> Nat]]
    BY <1>8, <2>1, <2>2 DEF TypeOK, PeerSends
  <2> QED
    BY <1>8, <2>3 DEF TypeOK, PeerSends
<1>9. ASSUME NEW c \in Clients, NEW e \in Ends, PeerCloses(c, e) PROVE TypeOK'
  BY <1>9 DEF TypeOK, PeerCloses
<1>10. CASE UNCHANGED vars
  BY <1>10 DEF TypeOK, vars
<1> QED
  BY <1>1, <1>2, <1>3, <1>4, <1>5, <1>6, <1>7, <1>8, <1>9, <1>10 DEF Next

(* Every variable of the proxy keeps its type. *)
THEOREM TypeCorrect == Spec => []TypeOK
BY TypeInit, TypeNext, PTL DEF Spec

------------------------------------------------------------------------------
(* The slot. *)
LEMMA SlotInit == Init => SlotInv
BY DEF Init, SlotInv, Alone, Served, HoldsSlot, IsLive

LEMMA SlotKept ==
  ASSUME TypeOK, SlotInv, [Next]_vars
  PROVE  SlotInv'
<1> USE DEF session, tasks, net
<1>1. CASE UNCHANGED <<slot, live, phase, crowded>>
  BY <1>1 DEF SlotInv, Alone, Served
<1>2. ASSUME NEW c \in Clients, Accept(c) PROVE SlotInv'
  <2>1. /\ phase[c] = "none" /\ phase' = [phase EXCEPT ![c] = "accepted"]
        /\ crowded' = (crowded \/ \E d \in Clients : Served(d))
        /\ UNCHANGED <<slot, live>>
    BY <1>2 DEF Accept
  <2>2. phase'[c] = "accepted" /\ \A d \in Clients \ {c} : phase'[d] = phase[d]
    BY <2>1 DEF TypeOK
  <2>3. slot # 0 => slot \in Clients /\ slot # c
    BY <2>1 DEF TypeOK, SlotInv, HoldsSlot
  <2>4. slot' # 0 => phase'[slot'] \in HoldsSlot
    BY <2>1, <2>2, <2>3 DEF SlotInv
  <2>5. ASSUME ~crowded' PROVE Alone'
    <3>1. ~crowded /\ \A d \in Clients : phase[d] \in {"none", "left"}
      BY <2>1, <2>5 DEF Served
    <3>2. Alone
      BY <3>1 DEF SlotInv
    <3>3. ~live
      BY <3>1, <3>2 DEF Alone, IsLive
    <3>4. \A d \in Clients : d # c => phase'[d] \in {"none", "left"}
      BY <2>2, <3>1
    <3> QED
      BY <2>1, <2>2, <3>3, <3>4 DEF Alone, Served, HoldsSlot, IsLive
  <2> QED
    BY <2>4, <2>5 DEF SlotInv
<1>3. ASSUME NEW c \in Clients, TakeSlot(c) PROVE SlotInv'
  <2>1. /\ phase[c] = "accepted" /\ phase' = [phase EXCEPT ![c] = "slotted"]
        /\ slot' = c /\ UNCHANGED <<live, crowded>>
    BY <1>3 DEF TakeSlot
  <2>2. phase'[c] = "slotted" /\ \A d \in Clients \ {c} : phase'[d] = phase[d]
    BY <2>1 DEF TypeOK
  <2>3. ASSUME Alone PROVE Alone'
    BY <2>1, <2>2, <2>3 DEF Alone, Served, HoldsSlot, IsLive
  <2> QED
    BY <2>1, <2>2, <2>3 DEF SlotInv, HoldsSlot
<1>4. ASSUME NEW c \in Clients, MarkLive(c) PROVE SlotInv'
  <2>1. /\ phase[c] = "slotted" /\ phase' = [phase EXCEPT ![c] = "connecting"]
        /\ live' = TRUE /\ UNCHANGED <<slot, crowded>>
    BY <1>4 DEF MarkLive
  <2>2. phase'[c] = "connecting" /\ \A d \in Clients \ {c} : phase'[d] = phase[d]
    BY <2>1 DEF TypeOK
  <2>3. ASSUME Alone PROVE Alone'
    BY <2>1, <2>2, <2>3 DEF Alone, Served, HoldsSlot, IsLive
  <2>4. slot' # 0 => phase'[slot'] \in HoldsSlot
    BY <2>1, <2>2 DEF SlotInv, HoldsSlot, TypeOK
  <2> QED
    BY <2>1, <2>3, <2>4 DEF SlotInv
<1>5. ASSUME NEW c \in Clients, Connect(c) \/ SpliceOver(c) PROVE SlotInv'
  <2>1. /\ phase[c] \in {"connecting", "up"}
        /\ \E p \in {"up", "over"} : phase' = [phase EXCEPT ![c] = p]
        /\ UNCHANGED <<slot, live, crowded>>
    BY <1>5 DEF Connect, SpliceOver, HangUp
  <2>2. phase'[c] \in {"up", "over"} /\ \A d \in Clients \ {c} : phase'[d] = phase[d]
    BY <2>1 DEF TypeOK
  <2>3. ASSUME Alone PROVE Alone'
    BY <2>1, <2>2, <2>3 DEF Alone, Served, HoldsSlot, IsLive
  <2>4. slot' # 0 => phase'[slot'] \in HoldsSlot
    BY <2>1, <2>2 DEF SlotInv, HoldsSlot, TypeOK
  <2> QED
    BY <2>1, <2>3, <2>4 DEF SlotInv
<1>6. ASSUME NEW c \in Clients, ClearLive(c) PROVE SlotInv'
  <2>1. /\ phase[c] = "over" /\ phase' = [phase EXCEPT ![c] = "cleared"]
        /\ live' = FALSE /\ UNCHANGED <<slot, crowded>>
    BY <1>6 DEF ClearLive
  <2>2. phase'[c] = "cleared" /\ \A d \in Clients \ {c} : phase'[d] = phase[d]
    BY <2>1 DEF TypeOK
  <2>3. ASSUME Alone PROVE Alone'
    BY <2>1, <2>2, <2>3 DEF Alone, Served, HoldsSlot, IsLive
  <2>4. slot' # 0 => phase'[slot'] \in HoldsSlot
    BY <2>1, <2>2 DEF SlotInv, HoldsSlot, TypeOK
  <2> QED
    BY <2>1, <2>3, <2>4 DEF SlotInv
<1>7. ASSUME NEW c \in Clients, ClearSlot(c) PROVE SlotInv'
  <2>1. /\ phase[c] = "cleared" /\ phase' = [phase EXCEPT ![c] = "left"]
        /\ slot' = 0 /\ UNCHANGED <<live, crowded>>
    BY <1>7 DEF ClearSlot
  <2>2. phase'[c] = "left" /\ \A d \in Clients \ {c} : phase'[d] = phase[d]
    BY <2>1 DEF TypeOK
  <2>3. ASSUME Alone PROVE Alone'
    BY <2>1, <2>2, <2>3 DEF Alone, Served, HoldsSlot, IsLive
  <2> QED
    BY <2>1, <2>3 DEF SlotInv
<1>8. ASSUME NEW c \in Clients, C2sStep(c) \/ S2cStep(c) PROVE SlotInv'
  BY <1>1, <1>8 DEF C2sStep, S2cStep, C2sHead, C2sInject, C2sInjectClosed, C2sRead, S2cHead, S2cRead
<1>9. ASSUME NEW c \in Clients, NEW e \in Ends, PeerSends(c, e) \/ PeerCloses(c, e) PROVE SlotInv'
  BY <1>1, <1>9 DEF PeerSends, PeerCloses
<1>10. CASE SendComposer \/ ForwardCommand \/ UNCHANGED vars
  BY <1>1, <1>10 DEF SendComposer, ForwardCommand, vars
<1> QED
  BY <1>2, <1>3, <1>4, <1>5, <1>6, <1>7, <1>8, <1>9, <1>10 DEF Next, HandlerStep

LEMMA SlotInvariance == Spec => [](TypeOK /\ SlotInv)
<1>1. Init => TypeOK /\ SlotInv
  BY TypeInit, SlotInit
<1>2. TypeOK /\ SlotInv /\ [Next]_vars => (TypeOK /\ SlotInv)'
  BY TypeNext, SlotKept
<1> QED
  BY <1>1, <1>2, PTL DEF Spec

(* The shared slot never holds the inject sender of a client that is gone, *)
(* and while clients come one at a time splice_live is true exactly while  *)
(* something can be injected, at least as long as a splice is up.          *)
THEOREM SlotServed == Spec => []SlotIsServed
<1>1. ASSUME TypeOK, SlotInv PROVE SlotIsServed
  <2>1. slot # 0 => Served(slot)
    BY <1>1 DEF SlotInv, Served, HoldsSlot
  <2>2. ASSUME ~crowded PROVE live => slot # 0
    BY <1>1, <2>2, ProxyAssumption DEF SlotInv, Alone, HoldsSlot, IsLive
  <2>3. ASSUME ~crowded PROVE (\E c \in Clients : phase[c] = "up") => live
    BY <1>1, <2>3 DEF SlotInv, Alone, IsLive
  <2> QED
    BY <2>1, <2>2, <2>3 DEF SlotIsServed
<1> QED
  BY <1>1, SlotInvariance, PTL

------------------------------------------------------------------------------
(* The data.  What appending one piece does to a sequence of them. *)
LEMMA AscendingAppend ==
  ASSUME NEW s \in Seq(Chunk), NEW p \in Chunk, NEW from, Ascending(s, from),
         p.from = from => \A i \in 1 .. Len(s) : s[i].from = from => s[i].n < p.n
  PROVE  Ascending(Append(s, p), from)
<1> DEFINE t == Append(s, p)
<1>1. Len(t) = Len(s) + 1 /\ t[Len(s) + 1] = p /\ \A i \in 1 .. Len(s) : t[i] = s[i]
  OBVIOUS
<1>2. Len(s) \in Nat
  OBVIOUS
<1> HIDE DEF t
<1>3. ASSUME NEW i \in 1 .. Len(t), NEW j \in 1 .. Len(t),
             i < j, t[i].from = from, t[j].from = from
      PROVE  t[i].n < t[j].n
  <2>1. i \in 1 .. Len(s)
    BY <1>1, <1>2, <1>3
  <2>2. CASE j \in 1 .. Len(s)
    BY <1>1, <1>3, <2>1, <2>2 DEF Ascending
  <2>3. CASE j = Len(s) + 1
    BY <1>1, <1>3, <2>1, <2>3
  <2> QED
    BY <1>1, <1>2, <2>2, <2>3
<1> QED
  BY <1>3 DEF Ascending, t

LEMMA CompleteAppend ==
  ASSUME NEW s \in Seq(Chunk), NEW p \in Chunk, NEW from, Complete(s, from),
         p.from = from =>
           /\ p.n > 0
           /\ \A n \in 1 .. p.n - 1 : \E i \in 1 .. Len(s) : s[i] = [from |-> from, n |-> n]
  PROVE  Complete(Append(s, p), from)
<1> DEFINE t == Append(s, p)
<1>1. Len(t) = Len(s) + 1 /\ t[Len(s) + 1] = p /\ \A i \in 1 .. Len(s) : t[i] = s[i]
  OBVIOUS
<1>2. Len(s) \in Nat
  OBVIOUS
<1> HIDE DEF t
<1>3. ASSUME NEW i \in 1 .. Len(t), t[i].from = from
      PROVE  /\ t[i].n > 0
             /\ \A n \in 1 .. t[i].n - 1 : \E j \in 1 .. i - 1 : t[j] = [from |-> from, n |-> n]
  <2>1. CASE i \in 1 .. Len(s)
    <3>1. /\ s[i].n > 0
          /\ \A n \in 1 .. s[i].n - 1 : \E j \in 1 .. i - 1 : s[j] = [from |-> from, n |-> n]
      BY <1>1, <1>3, <2>1 DEF Complete
    <3>2. \A j \in 1 .. i - 1 : t[j] = s[j]
      BY <1>1, <1>2, <2>1
    <3> QED
      BY <1>1, <2>1, <3>1, <3>2
  <2>2. CASE i = Len(s) + 1
    <3>1. 1 .. i - 1 = 1 .. Len(s)
      BY <1>2, <2>2
    <3> QED
      BY <1>1, <1>3, <2>2, <3>1
  <2> QED
    BY <1>1, <1>2, <2>1, <2>2
<1> QED
  BY <1>3 DEF Complete, t

LEMMA FlowRead ==
  ASSUME NEW s \in Seq(Chunk), NEW k \in Nat, NEW e \in Ends, Flow(s, k, TRUE, e)
  PROVE  Flow(Append(s, [from |-> Other(e), n |-> k + 1]), k + 1, TRUE, e)
<1> DEFINE p == [from |-> Other(e), n |-> k + 1]
           t == Append(s, p)
<1>1. p \in Chunk /\ p.from = Other(e) /\ p.n = k + 1
  BY DEF Chunk, Other, Ends
<1>2. Len(t) = Len(s) + 1 /\ t[Len(s) + 1] = p /\ \A i \in 1 .. Len(s) : t[i] = s[i]
  OBVIOUS
<1>3. Len(s) \in Nat /\ \A i \in 1 .. Len(s) : s[i] \in Chunk /\ s[i].n \in Nat
  BY ElementsType
<1>4. p = [from |-> Other(e), n |-> k + 1]
  OBVIOUS
<1> HIDE DEF p
<1>5. Ascending(t, Other(e))
  BY <1>1, <1>3, AscendingAppend DEF Flow
<1>6. Complete(t, Other(e))
  <2>1. \A n \in 1 .. p.n - 1 : \E i \in 1 .. Len(s) : s[i] = [from |-> Other(e), n |-> n]
    BY <1>1 DEF Flow
  <2> QED
    BY <1>1, <2>1, CompleteAppend DEF Flow
<1> HIDE DEF t
<1>7. \A i \in 1 .. Len(t) : t[i].from = Other(e) \/ (t[i].from = "inject" /\ e = "server")
  BY <1>1, <1>2, <1>3 DEF Flow
<1>8. \A i \in 1 .. Len(t) : t[i].from = Other(e) => t[i].n <= k + 1
  BY <1>1, <1>2, <1>3 DEF Flow
<1>9. ASSUME NEW n \in 1 .. k + 1
      PROVE  \E i \in 1 .. Len(t) : t[i] = [from |-> Other(e), n |-> n]
  <2>1. CASE n = k + 1
    BY <1>2, <1>3, <1>4, <2>1
  <2>2. CASE n \in 1 .. k
    <3>1. PICK i \in 1 .. Len(s) : s[i] = [from |-> Other(e), n |-> n]
      BY <2>2 DEF Flow
    <3>2. i \in 1 .. Len(t) /\ t[i] = s[i]
      BY <1>2, <1>3
    <3> QED
      BY <3>1, <3>2
  <2> QED
    BY <2>1, <2>2
<1> QED
  BY <1>5, <1>6, <1>7, <1>8, <1>9 DEF Flow, t, p

LEMMA FlowInject ==
  ASSUME NEW s \in Seq(Chunk), NEW k \in Nat, NEW there \in BOOLEAN, Flow(s, k, there, "server"),
         NEW p \in Chunk, p.from = "inject"
  PROVE  Flow(Append(s, p), k, there, "server")
<1> DEFINE t == Append(s, p)
<1>1. Len(t) = Len(s) + 1 /\ t[Len(s) + 1] = p /\ \A i \in 1 .. Len(s) : t[i] = s[i]
  OBVIOUS
<1>2. Len(s) \in Nat
  OBVIOUS
<1>3. p.from # Other("server")
  BY DEF Other
<1>4. Ascending(t, Other("server")) /\ Complete(t, Other("server"))
  BY <1>3, AscendingAppend, CompleteAppend DEF Flow
<1> HIDE DEF t
<1>5. \A i \in 1 .. Len(t) :
        /\ t[i].from = Other("server") \/ t[i].from = "inject"
        /\ t[i].from = Other("server") => t[i].n <= k
  BY <1>1, <1>2, <1>3 DEF Flow
<1>6. ASSUME there, NEW n \in 1 .. k
      PROVE  \E i \in 1 .. Len(t) : t[i] = [from |-> Other("server"), n |-> n]
  <2>1. PICK i \in 1 .. Len(s) : s[i] = [from |-> Other("server"), n |-> n]
    BY <1>6 DEF Flow
  <2> QED
    BY <1>1, <1>2, <2>1
<1> QED
  BY <1>4, <1>5, <1>6 DEF Flow, t

(* An end that is gone receives nothing more, whatever is read for it. *)
LEMMA FlowShut ==
  ASSUME NEW s \in Seq(Chunk), NEW k \in Nat, NEW m \in Nat, k <= m,
         NEW there, NEW e, Flow(s, k, there, e)
  PROVE  Flow(s, m, FALSE, e)
<1>1. \A i \in 1 .. Len(s) : s[i].n \in Nat
  BY ElementsType
<1> QED
  BY <1>1 DEF Flow

LEMMA RelayedIsTransparent == Relayed => Transparent
BY DEF Relayed, Transparent, Flow

LEMMA EndsFacts ==
  /\ Ends = {"client", "server"}
  /\ \A e \in Ends : Other(e) \in Ends /\ Other(e) # e /\ Other(Other(e)) = e
BY DEF Ends, Other

LEMMA TakenType ==
  ASSUME TypeOK, Waiting, NEW c \in Clients, NEW e \in Ends
  PROVE  /\ Taken(c, e) \in Nat
         /\ sent[c][e] \in Nat /\ Len(buf[c][e]) \in Nat
         /\ buf[c][e] \in Seq(Chunk) /\ got[c][e] \in Seq(Chunk)
         /\ open[c][e] \in BOOLEAN
<1>1. /\ sent[c][e] \in Nat /\ buf[c][e] \in Seq(Chunk) /\ got[c][e] \in Seq(Chunk)
      /\ open[c][e] \in BOOLEAN
  BY DEF TypeOK
<1>2. Len(buf[c][e]) \in Nat
  BY <1>1
<1>3. Len(buf[c][e]) <= sent[c][e]
  BY DEF Waiting
<1> QED
  BY <1>1, <1>2, <1>3 DEF Taken

LEMMA DataInit == Init => DataInv
<1> SUFFICES ASSUME Init PROVE DataInv
  OBVIOUS
<1>1. ASSUME NEW c \in Clients, NEW e \in Ends
      PROVE  /\ sent[c][e] = 0 /\ buf[c][e] = <<>> /\ got[c][e] = <<>>
             /\ phase[c] = "none" /\ ~open[c]["server"]
  BY <1>1 DEF Init, Ends
<1>2. Waiting
  BY <1>1 DEF Waiting
<1>3. ASSUME NEW c \in Clients, NEW e \in Ends PROVE Taken(c, e) = 0
  BY <1>1, <1>3 DEF Taken
<1>4. NotYet
  BY <1>1, <1>3, EndsFacts DEF NotYet
<1>5. Relayed
  BY <1>1, <1>3, EndsFacts DEF Relayed, Flow, Ascending, Complete
<1> QED
  BY <1>2, <1>4, <1>5 DEF DataInv

(* A step that touches neither the connections nor their data. *)
LEMMA DataUntouched ==
  ASSUME DataInv, UNCHANGED <<sent, buf, open, got>>,
         \A c \in Clients : phase'[c] = phase[c]
                            \/ (phase[c] # "up" /\ (phase'[c] \in Before => phase[c] \in Before))
  PROVE  DataInv'
<1>1. \A c \in Clients, e \in Ends : Taken(c, e)' = Taken(c, e)
  BY DEF Taken
<1>2. Waiting'
  BY <1>1 DEF DataInv, Waiting
<1>3. Relayed'
  BY <1>1, EndsFacts DEF DataInv, Relayed
<1>4. NotYet'
  BY <1>1 DEF DataInv, NotYet
<1> QED
  BY <1>2, <1>3, <1>4 DEF DataInv

(* A hung up connection: what was not read of it is dropped. *)
LEMMA DataHungUp ==
  ASSUME TypeOK, DataInv, NEW c \in Clients, HangUp(c), UNCHANGED <<sent, got>>
  PROVE  DataInv'
<1>0. /\ \A e \in Ends : ~open'[c][e] /\ buf'[c][e] = <<>>
      /\ phase'[c] = "over" /\ open'[c] \in [Ends -> BOOLEAN]
      /\ \A d \in Clients : d # c =>
           phase'[d] = phase[d] /\ open'[d] = open[d] /\ buf'[d] = buf[d]
  BY HungUp
<1>1. ASSUME NEW d \in Clients, d # c, NEW e \in Ends PROVE Taken(d, e)' = Taken(d, e)
  BY <1>0, <1>1 DEF Taken
<1>2. ASSUME NEW e \in Ends PROVE Taken(c, e)' = sent[c][e]
  <2>1. buf'[c][e] = <<>> /\ sent'[c][e] = sent[c][e] /\ sent[c][e] \in Nat
    BY <1>0, TakenType DEF DataInv
  <2> QED
    BY <2>1 DEF Taken
<1>3. Waiting'
  <2>1. ASSUME NEW d \in Clients, NEW e \in Ends
        PROVE  /\ Len(buf'[d][e]) <= sent'[d][e]
               /\ \A i \in 1 .. Len(buf'[d][e]) :
                    buf'[d][e][i] = [from |-> e, n |-> Taken(d, e)' + i]
    <3>1. CASE d = c
      BY <1>0, <3>1, TakenType DEF DataInv
    <3>2. CASE d # c
      BY <1>0, <1>1, <3>2 DEF DataInv, Waiting
    <3> QED
      BY <3>1, <3>2
  <2> QED
    BY <2>1 DEF Waiting
<1>4. NotYet'
  <2>1. ASSUME NEW d \in Clients, d # c
        PROVE  /\ phase'[d] # "up" => ~open'[d]["server"]
               /\ phase'[d] \in Before => \A e \in Ends : Taken(d, e)' = 0 /\ got'[d][e] = <<>>
    BY <1>0, <1>1, <2>1 DEF DataInv, NotYet
  <2>2. phase'[c] \notin Before /\ ~open'[c]["server"]
    BY <1>0, EndsFacts DEF Before
  <2> QED
    BY <2>1, <2>2 DEF NotYet
<1>5. ASSUME NEW d \in Clients, NEW e \in Ends
      PROVE  Flow(got'[d][e], Taken(d, Other(e))', open'[d][e], e)
  <2>1. Flow(got[d][e], Taken(d, Other(e)), open[d][e], e) /\ Other(e) \in Ends
    BY EndsFacts DEF DataInv, Relayed
  <2>2. CASE d = c
    <3>1. /\ Taken(c, Other(e)) \in Nat /\ sent[c][Other(e)] \in Nat
          /\ Taken(c, Other(e)) <= sent[c][Other(e)]
      BY <2>1, TakenType DEF Taken, DataInv
    <3>2. Flow(got[c][e], sent[c][Other(e)], FALSE, e)
      BY <2>1, <2>2, <3>1, TakenType, FlowShut DEF DataInv
    <3>3. Taken(c, Other(e))' = sent[c][Other(e)] /\ open'[c][e] = FALSE
      BY <1>0, <1>2, <2>1
    <3> QED
      BY <2>2, <3>2, <3>3
  <2>3. CASE d # c
    BY <1>0, <1>1, <2>1, <2>3
  <2> QED
    BY <2>2, <2>3
<1> QED
  BY <1>3, <1>4, <1>5 DEF DataInv, Relayed

LEMMA TailShape ==
  ASSUME NEW s \in Seq(Chunk), s # <<>>
  PROVE  /\ Len(Tail(s)) = Len(s) - 1 /\ Tail(s) \in Seq(Chunk)
         /\ Head(s) = s[1] /\ Head(s) \in Chunk /\ 1 \in 1 .. Len(s)
         /\ \A i \in 1 .. Len(Tail(s)) : i + 1 \in 1 .. Len(s) /\ Tail(s)[i] = s[i + 1]
<1>1. /\ Len(s) \in Nat /\ Len(s) > 0 /\ Head(s) = s[1] /\ Head(s) \in Chunk
      /\ Len(Tail(s)) = Len(s) - 1 /\ Tail(s) \in Seq(Chunk)
  OBVIOUS
<1>2. ASSUME NEW i \in 1 .. Len(Tail(s))
      PROVE  i + 1 \in 1 .. Len(s) /\ Tail(s)[i] = s[i + 1]
  <2>1. i \in 1 .. Len(s) - 1
    BY <1>1
  <2>2. i + 1 \in 1 .. Len(s)
    BY <1>1, <2>1
  <2> QED
    BY <1>1, <2>1, <2>2
<1> QED
  BY <1>1, <1>2

(* The pieces that wait, once the first one is taken. *)
LEMMA NextWaiting ==
  ASSUME NEW b \in Seq(Chunk), b # <<>>, NEW k \in Nat, NEW e \in Ends,
         \A i \in 1 .. Len(b) : b[i] = [from |-> e, n |-> k + i]
  PROVE  /\ Head(b) = [from |-> e, n |-> k + 1]
         /\ Head(b) \in Chunk
         /\ Len(Tail(b)) = Len(b) - 1
         /\ \A i \in 1 .. Len(Tail(b)) : Tail(b)[i] = [from |-> e, n |-> (k + 1) + i]
<1>1. /\ Head(b) = b[1] /\ Len(b) \in Nat /\ Len(b) > 0
      /\ Len(Tail(b)) = Len(b) - 1 /\ \A i \in 1 .. Len(b) - 1 : Tail(b)[i] = b[i + 1]
  OBVIOUS
<1>2. Head(b) = [from |-> e, n |-> k + 1]
  BY <1>1
<1>3. ASSUME NEW i \in 1 .. Len(Tail(b)) PROVE Tail(b)[i] = [from |-> e, n |-> (k + 1) + i]
  <2>1. i \in 1 .. Len(b) - 1
    BY <1>1
  <2>2. i + 1 \in 1 .. Len(b) /\ k + (i + 1) = (k + 1) + i
    BY <1>1, <2>1
  <2> QED
    BY <1>1, <2>1, <2>2
<1> QED
  BY <1>1, <1>2, <1>3, PayloadType

(* What either task does with the next piece of the end it reads from. *)
LEMMA DataRead ==
  ASSUME TypeOK, DataInv, NEW c \in Clients, NEW e \in Ends, phase[c] = "up", buf[c][e] # <<>>,
         buf' = [buf EXCEPT ![c][e] = Tail(@)],
         Write(c, Other(e), Head(buf[c][e])),
         UNCHANGED <<sent, open, phase>>
  PROVE  DataInv'
<1> DEFINE b == buf[c][e]
           k == Taken(c, e)
           o == Other(e)
<1>1. /\ o \in Ends /\ o # e /\ Other(o) = e
      /\ \A f \in Ends : f # o => Other(f) # e
  BY EndsFacts
<1>2. /\ b \in Seq(Chunk) /\ b # <<>> /\ Len(b) \in Nat /\ sent[c][e] \in Nat
      /\ k \in Nat /\ k = sent[c][e] - Len(b)
  BY TakenType DEF DataInv, Taken
<1>3. /\ \A i \in 1 .. Len(b) : b[i] = [from |-> e, n |-> k + i]
      /\ Len(b) <= sent[c][e]
  BY DEF DataInv, Waiting
<1>4. /\ buf'[c][e] = Tail(b)
      /\ \A d \in Clients, f \in Ends : d # c \/ f # e => buf'[d][f] = buf[d][f]
  BY DEF TypeOK
<1> HIDE DEF b, k, o
<1>5. /\ Head(b) = [from |-> e, n |-> k + 1] /\ Head(b) \in Chunk
      /\ Len(Tail(b)) = Len(b) - 1
      /\ \A i \in 1 .. Len(Tail(b)) : Tail(b)[i] = [from |-> e, n |-> (k + 1) + i]
  BY <1>2, <1>3, NextWaiting
<1>6. /\ Taken(c, e)' = k + 1
      /\ \A d \in Clients, f \in Ends : d # c \/ f # e => Taken(d, f)' = Taken(d, f)
  <2>1. Taken(c, e)' = sent[c][e] - Len(Tail(b))
    BY <1>4 DEF Taken
  <2>2. ASSUME NEW d \in Clients, NEW f \in Ends, d # c \/ f # e
        PROVE  Taken(d, f)' = Taken(d, f)
    BY <1>4, <2>2 DEF Taken
  <2> QED
    BY <1>2, <1>5, <2>1, <2>2
<1>7. /\ \A d \in Clients, f \in Ends : d # c \/ f # o => got'[d][f] = got[d][f]
      /\ IF open[c][o] THEN got'[c][o] = Append(got[c][o], Head(b)) ELSE got' = got
  BY <1>1, <1>5, WriteShape DEF b, o
<1>8. Waiting'
  <2>1. ASSUME NEW d \in Clients, NEW f \in Ends
        PROVE  /\ Len(buf'[d][f]) <= sent'[d][f]
               /\ \A i \in 1 .. Len(buf'[d][f]) :
                    buf'[d][f][i] = [from |-> f, n |-> Taken(d, f)' + i]
    <3>1. CASE d = c /\ f = e
      <4>1. Len(buf'[d][f]) <= sent'[d][f]
        BY <1>2, <1>3, <1>4, <1>5, <3>1
      <4>3. buf'[d][f] = Tail(b) /\ Taken(d, f)' = k + 1 /\ f = e
        BY <1>4, <1>6, <3>1
      <4> QED
        BY <1>5, <4>1, <4>3
    <3>2. CASE d # c \/ f # e
      BY <1>4, <1>6, <3>2 DEF DataInv, Waiting
    <3> QED
      BY <3>1, <3>2
  <2> QED
    BY <2>1 DEF Waiting
<1>9. NotYet'
  <2>1. phase[c] \notin Before
    BY DEF Before
  <2> QED
    BY <1>6, <1>7, <2>1 DEF DataInv, NotYet
<1>10. ASSUME NEW d \in Clients, NEW f \in Ends
       PROVE  Flow(got'[d][f], Taken(d, Other(f))', open'[d][f], f)
  <2>1. Flow(got[d][f], Taken(d, Other(f)), open[d][f], f) /\ Other(f) \in Ends
    BY EndsFacts DEF DataInv, Relayed
  <2>2. CASE d # c \/ f # o
    BY <1>1, <1>6, <1>7, <2>1, <2>2
  <2>3. CASE d = c /\ f = o /\ open[c][o]
    <3>1. Flow(got[c][o], k, TRUE, o) /\ got[c][o] \in Seq(Chunk)
      BY <1>1, <2>1, <2>3, TakenType DEF DataInv, k
    <3>2. Flow(Append(got[c][o], [from |-> Other(o), n |-> k + 1]), k + 1, TRUE, o)
      BY <1>1, <1>2, <3>1, FlowRead
    <3> QED
      BY <1>1, <1>5, <1>6, <1>7, <2>3, <3>2
  <2>4. CASE d = c /\ f = o /\ ~open[c][o]
    <3>1. got[c][o] \in Seq(Chunk) /\ open[c][o] = FALSE
      BY <1>1, <2>4, TakenType DEF DataInv
    <3>2. Flow(got[c][o], k, FALSE, o)
      BY <1>1, <2>1, <2>4, <3>1 DEF k
    <3>3. k + 1 \in Nat /\ k <= k + 1
      BY <1>2
    <3>4. Flow(got[c][o], k + 1, FALSE, o)
      BY <1>2, <3>1, <3>2, <3>3, FlowShut
    <3> QED
      BY <1>1, <1>6, <1>7, <2>4, <3>1, <3>4
  <2> QED
    BY <2>2, <2>3, <2>4
<1> QED
  BY <1>8, <1>9, <1>10 DEF DataInv, Relayed

LEMMA DataInject ==
  ASSUME TypeOK, DataInv, NEW c \in Clients, phase[c] = "up",
         NEW p \in Chunk, p.from = "inject", Write(c, "server", p),
         UNCHANGED <<sent, buf, open, phase>>
  PROVE  DataInv'
<1>1. /\ \A d \in Clients, f \in Ends : d # c \/ f # "server" => got'[d][f] = got[d][f]
      /\ \/ got'[c]["server"] = got[c]["server"]
         \/ got'[c]["server"] = Append(got[c]["server"], p)
  BY WriteShape, EndsFacts
<1>2. \A d \in Clients, f \in Ends : Taken(d, f)' = Taken(d, f)
  BY DEF Taken
<1>3. Waiting'
  BY <1>2 DEF DataInv, Waiting
<1>4. NotYet'
  <2>1. phase[c] \notin Before
    BY DEF Before
  <2> QED
    BY <1>1, <1>2, <2>1 DEF DataInv, NotYet
<1>5. ASSUME NEW d \in Clients, NEW f \in Ends
      PROVE  Flow(got'[d][f], Taken(d, Other(f))', open'[d][f], f)
  <2>1. Flow(got[d][f], Taken(d, Other(f)), open[d][f], f) /\ Other(f) \in Ends
    BY EndsFacts DEF DataInv, Relayed
  <2>2. CASE got'[d][f] = got[d][f]
    BY <1>2, <2>1, <2>2
  <2>3. CASE d = c /\ f = "server" /\ got'[d][f] = Append(got[d][f], p)
    <3>1. /\ got[d][f] \in Seq(Chunk) /\ Taken(d, Other(f)) \in Nat
          /\ open[d][f] \in BOOLEAN
      BY <2>1, TakenType DEF DataInv
    <3>2. Flow(Append(got[d][f], p), Taken(d, Other(f)), open[d][f], "server")
      BY <2>1, <2>3, <3>1, FlowInject
    <3> QED
      BY <1>2, <2>1, <2>3, <3>2
  <2> QED
    BY <1>1, <2>2, <2>3
<1> QED
  BY <1>3, <1>4, <1>5 DEF DataInv, Relayed

LEMMA DataConnected ==
  ASSUME TypeOK, DataInv, NEW c \in Clients, phase[c] = "connecting",
         phase' = [phase EXCEPT ![c] = "up"], open' = [open EXCEPT ![c]["server"] = TRUE],
         UNCHANGED <<sent, buf, got>>
  PROVE  DataInv'
<1>1. /\ phase'[c] = "up" /\ \A d \in Clients : d # c => phase'[d] = phase[d]
      /\ \A d \in Clients, e \in Ends : d # c \/ e # "server" => open'[d][e] = open[d][e]
  BY DEF TypeOK
<1>2. \A d \in Clients, e \in Ends : Taken(d, e)' = Taken(d, e)
  BY DEF Taken
<1>3. Waiting'
  BY <1>2 DEF DataInv, Waiting
<1>4. NotYet'
  <2>1. phase'[c] \notin Before /\ phase'[c] = "up"
    BY <1>1 DEF Before
  <2>2. "server" \in Ends
    BY EndsFacts
  <2> QED
    BY <1>1, <1>2, <2>1, <2>2 DEF DataInv, NotYet
<1>5. ASSUME NEW d \in Clients, NEW e \in Ends
      PROVE  Flow(got'[d][e], Taken(d, Other(e))', open'[d][e], e)
  <2>1. Flow(got[d][e], Taken(d, Other(e)), open[d][e], e) /\ Other(e) \in Ends
    BY EndsFacts DEF DataInv, Relayed
  <2>2. CASE d # c \/ e # "server"
    BY <1>1, <1>2, <2>1, <2>2
  <2>3. CASE d = c /\ e = "server"
    <3>1. phase[c] \in Before
      BY DEF Before
    <3>2. got[d][e] = <<>> /\ Taken(d, Other(e)) = 0
      BY <2>1, <2>3, <3>1 DEF DataInv, NotYet
    <3> QED
      BY <1>2, <2>1, <3>2 DEF Flow, Ascending, Complete
  <2> QED
    BY <2>2, <2>3
<1> QED
  BY <1>3, <1>4, <1>5 DEF DataInv, Relayed

LEMMA DataSent ==
  ASSUME TypeOK, DataInv, NEW c \in Clients, NEW e \in Ends, PeerSends(c, e)
  PROVE  DataInv'
<1> DEFINE p == [from |-> e, n |-> sent[c][e] + 1]
           b == buf[c][e]
           q == Append(b, p)
<1>1. /\ sent[c][e] \in Nat /\ p \in Chunk /\ b \in Seq(Chunk) /\ Len(b) \in Nat
      /\ Len(b) <= sent[c][e]
      /\ \A i \in 1 .. Len(b) : b[i] = [from |-> e, n |-> Taken(c, e) + i]
      /\ Taken(c, e) = sent[c][e] - Len(b) /\ Taken(c, e) \in Nat
  <2>1. /\ sent[c][e] \in Nat /\ b \in Seq(Chunk) /\ Len(b) \in Nat /\ Taken(c, e) \in Nat
    BY TakenType DEF DataInv
  <2>2. p \in Chunk
    <3>1. sent[c][e] + 1 \in Nat
      BY <2>1
    <3> QED
      BY <3>1, PayloadType
  <2>3. /\ Len(b) <= sent[c][e]
        /\ \A i \in 1 .. Len(b) : b[i] = [from |-> e, n |-> Taken(c, e) + i]
    BY DEF DataInv, Waiting
  <2>4. Taken(c, e) = sent[c][e] - Len(b)
    BY DEF Taken
  <2> QED
    BY <2>1, <2>2, <2>3, <2>4
<1>2. /\ sent' = [sent EXCEPT ![c][e] = sent[c][e] + 1]
      /\ buf' = [buf EXCEPT ![c][e] = q]
      /\ UNCHANGED <<phase, open, got>>
  BY DEF PeerSends
<1>3. p = [from |-> e, n |-> sent[c][e] + 1]
  OBVIOUS
<1> HIDE DEF p, b
<1>4. /\ Len(q) = Len(b) + 1 /\ q[Len(b) + 1] = p
      /\ \A i \in 1 .. Len(b) : q[i] = b[i]
      /\ q \in Seq(Chunk)
  BY <1>1
<1> HIDE DEF q
<1>5. /\ sent'[c][e] = sent[c][e] + 1 /\ buf'[c][e] = q
      /\ \A d \in Clients, f \in Ends :
           d # c \/ f # e => sent'[d][f] = sent[d][f] /\ buf'[d][f] = buf[d][f]
  <2>1. sent \in [Clients -> [Ends -> Nat]] /\ buf \in [Clients -> [Ends -> Seq(Chunk)]]
    BY DEF TypeOK
  <2>2. /\ sent'[c][e] = sent[c][e] + 1
        /\ \A d \in Clients, f \in Ends : d # c \/ f # e => sent'[d][f] = sent[d][f]
    BY <1>2, <2>1
  <2>3. /\ buf'[c][e] = q
        /\ \A d \in Clients, f \in Ends : d # c \/ f # e => buf'[d][f] = buf[d][f]
    BY <1>2, <2>1
  <2> QED
    BY <2>2, <2>3
<1>6. \A d \in Clients, f \in Ends : Taken(d, f)' = Taken(d, f)
  <2>1. ASSUME NEW d \in Clients, NEW f \in Ends, d # c \/ f # e
        PROVE  Taken(d, f)' = Taken(d, f)
    BY <1>5, <2>1 DEF Taken
  <2>2. Taken(c, e)' = Taken(c, e)
    <3>1. sent'[c][e] = sent[c][e] + 1 /\ Len(buf'[c][e]) = Len(b) + 1
      BY <1>4, <1>5
    <3>2. Taken(c, e)' = sent'[c][e] - Len(buf'[c][e])
      BY DEF Taken
    <3> QED
      BY <1>1, <3>1, <3>2
  <2> QED
    BY <2>1, <2>2
<1>7. Waiting'
  <2>1. ASSUME NEW i \in 1 .. Len(q)
        PROVE  q[i] = [from |-> e, n |-> Taken(c, e) + i]
    <3>1. CASE i \in 1 .. Len(b)
      BY <1>1, <1>4, <3>1
    <3>2. CASE i = Len(b) + 1
      <4>1. Taken(c, e) + i = sent[c][e] + 1
        BY <1>1, <3>2
      <4> QED
        BY <1>3, <1>4, <3>2, <4>1
    <3> QED
      BY <1>1, <1>4, <3>1, <3>2
  <2>2. ASSUME NEW d \in Clients, NEW f \in Ends
        PROVE  /\ Len(buf'[d][f]) <= sent'[d][f]
               /\ \A i \in 1 .. Len(buf'[d][f]) :
                    buf'[d][f][i] = [from |-> f, n |-> Taken(d, f)' + i]
    <3>1. CASE d = c /\ f = e
      <4>1. Len(q) <= sent[c][e] + 1
        BY <1>1, <1>4
      <4>2. buf'[d][f] = q /\ sent'[d][f] = sent[c][e] + 1
            /\ Taken(d, f)' = Taken(c, e) /\ f = e
        BY <1>5, <1>6, <3>1
      <4> QED
        BY <2>1, <4>1, <4>2
    <3>2. CASE d # c \/ f # e
      BY <1>5, <1>6, <3>2 DEF DataInv, Waiting
    <3> QED
      BY <3>1, <3>2
  <2> QED
    BY <2>2 DEF Waiting
<1>8. NotYet'
  BY <1>2, <1>6 DEF DataInv, NotYet
<1>9. Relayed'
  BY <1>2, <1>6, EndsFacts DEF DataInv, Relayed
<1> QED
  BY <1>7, <1>8, <1>9 DEF DataInv

LEMMA DataClosed ==
  ASSUME TypeOK, DataInv, NEW c \in Clients, NEW e \in Ends, PeerCloses(c, e)
  PROVE  DataInv'
<1>1. open' = [open EXCEPT ![c][e] = FALSE] /\ UNCHANGED <<phase, sent, buf, got>>
  BY DEF PeerCloses, net
<1>2. /\ open'[c][e] = FALSE
      /\ \A d \in Clients, f \in Ends : d # c \/ f # e => open'[d][f] = open[d][f]
  BY <1>1 DEF TypeOK
<1>3. \A d \in Clients, f \in Ends : Taken(d, f)' = Taken(d, f)
  BY <1>1 DEF Taken
<1>4. Waiting'
  BY <1>1, <1>3 DEF DataInv, Waiting
<1>5. NotYet'
  BY <1>1, <1>2, <1>3, EndsFacts DEF DataInv, NotYet
<1>6. ASSUME NEW d \in Clients, NEW f \in Ends
      PROVE  Flow(got'[d][f], Taken(d, Other(f))', open'[d][f], f)
  BY <1>1, <1>2, <1>3, EndsFacts DEF DataInv, Relayed, Flow
<1> QED
  BY <1>4, <1>5, <1>6 DEF DataInv, Relayed

LEMMA ComposedKept ==
  ASSUME TypeOK, Composed, [Next]_vars
  PROVE  Composed'
<1> USE DEF session, tasks, net
<1>1. CASE ForwardCommand
  <2> DEFINE p == [from |-> "inject", n |-> Head(cmds)]
  <2>1. p \in Chunk /\ p.from = "inject"
    <3>1. Head(cmds) \in Nat
      BY <1>1 DEF TypeOK, ForwardCommand
    <3> QED
      BY <3>1, PayloadType
  <2>2. \/ inj' = inj
        \/ slot \in Clients /\ inj' = [inj EXCEPT ![slot] = Append(inj[slot], p)]
    BY <1>1 DEF TypeOK, ForwardCommand
  <2> HIDE DEF p
  <2>3. ASSUME NEW c \in Clients, NEW i \in 1 .. Len(inj'[c]) PROVE inj'[c][i].from = "inject"
    <3>1. CASE inj'[c] = inj[c]
      BY <2>3, <3>1 DEF Composed
    <3>2. CASE inj'[c] = Append(inj[c], p)
      BY <2>1, <2>3, <3>2 DEF Composed, TypeOK
    <3> QED
      BY <2>2, <3>1, <3>2 DEF TypeOK
  <2> QED
    BY <2>3 DEF Composed
<1>2. ASSUME NEW c \in Clients, C2sInject(c) PROVE Composed'
  <2>1. inj[c] \in Seq(Chunk) /\ inj[c] # <<>> /\ inj' = [inj EXCEPT ![c] = Tail(inj[c])]
    BY <1>2 DEF TypeOK, C2sInject
  <2>2. inj'[c] = Tail(inj[c]) /\ \A d \in Clients : d # c => inj'[d] = inj[d]
    BY <2>1 DEF TypeOK
  <2> DEFINE s == inj[c]
  <2>3. s \in Seq(Chunk) /\ s # <<>> /\ \A i \in 1 .. Len(s) : s[i].from = "inject"
    BY <2>1 DEF Composed
  <2> HIDE DEF s
  <2>4. \A i \in 1 .. Len(Tail(s)) : Tail(s)[i].from = "inject"
    BY <2>3, TailShape
  <2>5. inj'[c] = Tail(s)
    BY <2>2 DEF s
  <2> QED
    BY <2>2, <2>4, <2>5 DEF Composed
<1>3. ASSUME NEW c \in Clients, HangUp(c) PROVE Composed'
  <2>1. inj'[c] = <<>> /\ \A d \in Clients : d # c => inj'[d] = inj[d]
    BY <1>3, HungUp
  <2> QED
    BY <2>1 DEF Composed
<1>4. CASE UNCHANGED inj
  BY <1>4 DEF Composed
<1>5. ASSUME NEW c \in Clients, Accept(c) \/ Connect(c) PROVE Composed'
  BY <1>3, <1>4, <1>5 DEF Accept, Connect
<1>6. ASSUME NEW c \in Clients, HandlerStep(c) PROVE Composed'
  BY <1>3, <1>4, <1>6 DEF HandlerStep, TakeSlot, MarkLive, SpliceOver, ClearLive, ClearSlot
<1>7. ASSUME NEW c \in Clients, C2sStep(c) \/ S2cStep(c) PROVE Composed'
  BY <1>2, <1>4, <1>7 DEF C2sStep, S2cStep, C2sHead, C2sInjectClosed, C2sRead, S2cHead, S2cRead
<1>8. ASSUME NEW c \in Clients, NEW e \in Ends, PeerSends(c, e) \/ PeerCloses(c, e) PROVE Composed'
  BY <1>4, <1>8 DEF PeerSends, PeerCloses
<1>9. CASE SendComposer \/ UNCHANGED vars
  BY <1>4, <1>9 DEF SendComposer, vars
<1> QED
  BY <1>1, <1>5, <1>6, <1>7, <1>8, <1>9 DEF Next

LEMMA DataKept ==
  ASSUME TypeOK, Composed, DataInv, [Next]_vars
  PROVE  DataInv'
<1> USE DEF session, tasks, net
<1>1. CASE UNCHANGED <<phase, sent, buf, open, got>>
  BY <1>1, DataUntouched
<1>2. ASSUME NEW c \in Clients,
             Accept(c) \/ TakeSlot(c) \/ MarkLive(c) \/ ClearLive(c) \/ ClearSlot(c)
      PROVE  DataInv'
  <2>1. PICK p \in {"accepted", "slotted", "connecting", "cleared", "left"} :
          /\ phase' = [phase EXCEPT ![c] = p]
          /\ phase[c] # "up"
          /\ p \in Before => phase[c] \in Before
    BY <1>2 DEF Accept, TakeSlot, MarkLive, ClearLive, ClearSlot, Before
  <2>2. UNCHANGED <<sent, buf, open, got>>
    BY <1>2 DEF Accept, TakeSlot, MarkLive, ClearLive, ClearSlot
  <2>3. phase'[c] = p /\ \A d \in Clients : d # c => phase'[d] = phase[d]
    BY <2>1 DEF TypeOK
  <2> QED
    BY <2>1, <2>2, <2>3, DataUntouched
<1>3. ASSUME NEW c \in Clients, Connect(c) PROVE DataInv'
  <2>1. CASE HangUp(c)
    BY <1>3, <2>1, DataHungUp DEF Connect
  <2>2. CASE phase' = [phase EXCEPT ![c] = "up"] /\ open' = [open EXCEPT ![c]["server"] = TRUE]
             /\ UNCHANGED buf
    BY <1>3, <2>2, DataConnected DEF Connect
  <2> QED
    BY <1>3, <2>1, <2>2 DEF Connect
<1>4. ASSUME NEW c \in Clients, SpliceOver(c) PROVE DataInv'
  BY <1>4, DataHungUp DEF SpliceOver
<1>5. ASSUME NEW c \in Clients, C2sStep(c) PROVE DataInv'
  <2>1. CASE C2sHead(c) \/ C2sInjectClosed(c)
    BY <1>1, <2>1 DEF C2sHead, C2sInjectClosed
  <2>2. CASE C2sInject(c)
    <3>1. inj[c] \in Seq(Chunk) /\ inj[c] # <<>>
      BY <2>2 DEF TypeOK, C2sInject
    <3>2. Head(inj[c]) \in Chunk /\ Head(inj[c]) = inj[c][1] /\ 1 \in 1 .. Len(inj[c])
      BY <3>1
    <3>3. Head(inj[c]).from = "inject"
      BY <3>2 DEF Composed
    <3> QED
      BY <2>2, <3>2, <3>3, DataInject DEF C2sInject
  <2>3. CASE C2sRead(c)
    <3>1. CASE buf[c]["client"] # <<>> /\ buf' = [buf EXCEPT ![c]["client"] = Tail(@)]
               /\ Write(c, "server", Head(buf[c]["client"]))
      BY <2>3, <3>1, DataRead, EndsFacts DEF C2sRead, Other
    <3>2. CASE UNCHANGED <<buf, got>>
      BY <1>1, <2>3, <3>2 DEF C2sRead
    <3> QED
      BY <2>3, <3>1, <3>2 DEF C2sRead
  <2> QED
    BY <1>5, <2>1, <2>2, <2>3 DEF C2sStep
<1>6. ASSUME NEW c \in Clients, S2cStep(c) PROVE DataInv'
  <2>1. CASE S2cHead(c)
    BY <1>1, <2>1 DEF S2cHead
  <2>2. CASE S2cRead(c)
    <3>1. CASE buf[c]["server"] # <<>> /\ buf' = [buf EXCEPT ![c]["server"] = Tail(@)]
               /\ Write(c, "client", Head(buf[c]["server"]))
      BY <2>2, <3>1, DataRead, EndsFacts DEF S2cRead, Other
    <3>2. CASE UNCHANGED <<buf, got>>
      BY <1>1, <2>2, <3>2 DEF S2cRead
    <3> QED
      BY <2>2, <3>1, <3>2 DEF S2cRead
  <2> QED
    BY <1>6, <2>1, <2>2 DEF S2cStep
<1>7. ASSUME NEW c \in Clients, NEW e \in Ends, PeerSends(c, e) \/ PeerCloses(c, e) PROVE DataInv'
  BY <1>7, DataSent, DataClosed
<1>8. CASE SendComposer \/ ForwardCommand \/ UNCHANGED vars
  BY <1>1, <1>8 DEF SendComposer, ForwardCommand, vars
<1> QED
  BY <1>2, <1>3, <1>4, <1>5, <1>6, <1>7, <1>8 DEF Next, HandlerStep

LEMMA DataInvariance == Spec => [](TypeOK /\ Composed /\ DataInv)
<1>1. Init => TypeOK /\ Composed /\ DataInv
  BY TypeInit, DataInit DEF Init, Composed
<1>2. TypeOK /\ Composed /\ DataInv /\ [Next]_vars => (TypeOK /\ Composed /\ DataInv)'
  BY TypeNext, ComposedKept, DataKept
<1> QED
  BY <1>1, <1>2, PTL DEF Spec

(* Both directions of every splice deliver what they read, all of it and   *)
(* in order, and only the stream to the upstream contains payloads of the  *)
(* composer: for any number of clients, pieces of data and payloads.       *)
THEOREM ProxyIsTransparent == Spec => []Transparent
<1>1. TypeOK /\ Composed /\ DataInv => Transparent
  BY RelayedIsTransparent DEF DataInv
<1> QED
  BY <1>1, DataInvariance, PTL

------------------------------------------------------------------------------
(* The payloads of the composer. *)
LEMMA PayloadsAppend ==
  ASSUME NEW s \in Seq(Chunk), NEW p \in Chunk
  PROVE  Payloads(Append(s, p)) = Payloads(s) \cup (IF p.from = "inject" THEN {p.n} ELSE {})
<1> DEFINE t == Append(s, p)
<1>1. Len(t) = Len(s) + 1 /\ t[Len(s) + 1] = p /\ \A i \in 1 .. Len(s) : t[i] = s[i]
  OBVIOUS
<1>2. Len(s) \in Nat
  OBVIOUS
<1> HIDE DEF t
<1>3. \A i : i \in 1 .. Len(t) <=> i \in 1 .. Len(s) \/ i = Len(s) + 1
  BY <1>1, <1>2
<1>4. ASSUME NEW n PROVE n \in Payloads(t) <=> n \in Payloads(s) \/ (p.from = "inject" /\ n = p.n)
  BY <1>1, <1>3 DEF Payloads
<1> QED
  BY <1>4 DEF t

LEMMA PayloadsTail ==
  ASSUME NEW s \in Seq(Chunk), s # <<>>, Ascending(s, "inject")
  PROVE  /\ Payloads(Tail(s)) \subseteq Payloads(s)
         /\ Ascending(Tail(s), "inject")
         /\ Head(s).from = "inject" =>
              Head(s).n \in Payloads(s) /\ \A n \in Payloads(Tail(s)) : Head(s).n < n
<1>1. /\ Head(s) = s[1] /\ 1 \in 1 .. Len(s)
      /\ \A i \in 1 .. Len(Tail(s)) : i + 1 \in 1 .. Len(s) /\ Tail(s)[i] = s[i + 1]
  BY TailShape
<1> DEFINE t == Tail(s)
<1>2. \A i \in 1 .. Len(t) : i + 1 \in 1 .. Len(s) /\ t[i] = s[i + 1] /\ 1 < i + 1
  BY <1>1
<1> HIDE DEF t
<1>3. Payloads(t) \subseteq Payloads(s)
  BY <1>2 DEF Payloads
<1>4. \A i, j \in 1 .. Len(t) : i < j => i + 1 < j + 1
  OBVIOUS
<1>5. Ascending(t, "inject")
  BY <1>2, <1>4 DEF Ascending
<1>6. ASSUME Head(s).from = "inject"
      PROVE  Head(s).n \in Payloads(s) /\ \A n \in Payloads(t) : Head(s).n < n
  BY <1>1, <1>2, <1>6 DEF Payloads, Ascending
<1> QED
  BY <1>3, <1>5, <1>6 DEF t

LEMMA PayloadsEmpty == Payloads(<<>>) = {} /\ Ascending(<<>>, "inject")
BY DEF Payloads, Ascending

LEMMA PayloadsAscend ==
  ASSUME NEW s \in Seq(Chunk), NEW p \in Chunk, Ascending(s, "inject"),
         p.from = "inject" => \A n \in Payloads(s) : n < p.n
  PROVE  Ascending(Append(s, p), "inject")
<1>1. p.from = "inject" => \A i \in 1 .. Len(s) : s[i].from = "inject" => s[i].n < p.n
  BY DEF Payloads
<1> QED
  BY <1>1, AscendingAppend

LEMMA InjectInit == Init => InjectInv
<1> SUFFICES ASSUME Init PROVE InjectInv
  OBVIOUS
<1>1. cmds = <<>> /\ injected = 0
  BY DEF Init
<1>2. \A c \in Clients : inj[c] = <<>> /\ got[c]["server"] = <<>>
  BY EndsFacts DEF Init
<1>3. Numbered
  BY <1>1 DEF Numbered
<1>4. Queued /\ Forwarded
  BY <1>2, PayloadsEmpty DEF Queued, Forwarded, Entered
<1> QED
  BY <1>3, <1>4 DEF InjectInv


LEMMA EnteredType ==
  ASSUME TypeOK, NEW c \in Clients
  PROVE  /\ inj[c] \in Seq(Chunk) /\ got[c]["server"] \in Seq(Chunk)
         /\ Payloads(inj[c]) \subseteq Nat /\ Payloads(got[c]["server"]) \subseteq Nat
         /\ Entered(c) \subseteq Nat
<1>1. inj[c] \in Seq(Chunk) /\ got[c]["server"] \in Seq(Chunk)
  BY EndsFacts DEF TypeOK
<1>2. ASSUME NEW s \in Seq(Chunk) PROVE Payloads(s) \subseteq Nat
  BY ElementsType DEF Payloads
<1> QED
  BY <1>1, <1>2 DEF Entered

(* A step that enters nothing and forwards nothing: payloads may be taken  *)
(* from a channel, and be received or lost.                                *)
LEMMA InjectAdvances ==
  ASSUME InjectInv, UNCHANGED <<cmds, injected>>,
         \A c \in Clients :
           /\ Ascending(inj'[c], "inject")
           /\ Ascending(got'[c]["server"], "inject")
           /\ \A m \in Payloads(got'[c]["server"]), n \in Payloads(inj'[c]) : m < n
           /\ Entered(c)' \subseteq Entered(c)
  PROVE  InjectInv'
<1>1. Numbered' /\ Forwarded'
  BY DEF InjectInv, Numbered, Forwarded
<1>2. \A c, d \in Clients : c # d => Entered(c)' \cap Entered(d)' = {}
  BY DEF InjectInv, Queued
<1>3. Queued'
  BY <1>2 DEF Queued
<1> QED
  BY <1>1, <1>3 DEF InjectInv

LEMMA InjectUntouched ==
  ASSUME InjectInv, UNCHANGED <<cmds, injected, inj>>,
         \A c \in Clients : got'[c]["server"] = got[c]["server"]
  PROVE  InjectInv'
<1>1. \A c \in Clients : inj'[c] = inj[c] /\ Entered(c)' = Entered(c)
  BY DEF Entered
<1> QED
  BY <1>1, InjectAdvances DEF InjectInv, Queued

LEMMA InjectHungUp ==
  ASSUME TypeOK, InjectInv, NEW c \in Clients, HangUp(c), UNCHANGED <<cmds, injected, got>>
  PROVE  InjectInv'
<1>1. inj'[c] = <<>> /\ \A d \in Clients : d # c => inj'[d] = inj[d]
  BY HungUp
<1>2. \A d \in Clients : Payloads(inj'[d]) \subseteq Payloads(inj[d]) /\ Ascending(inj'[d], "inject")
  BY <1>1, PayloadsEmpty DEF InjectInv, Queued
<1>3. \A d \in Clients : Entered(d)' \subseteq Entered(d)
  BY <1>2 DEF Entered
<1> QED
  BY <1>2, <1>3, InjectAdvances DEF InjectInv, Queued

LEMMA InjectDelivered ==
  ASSUME TypeOK, Composed, InjectInv, NEW c \in Clients, C2sInject(c)
  PROVE  InjectInv'
<1> DEFINE s == inj[c]
           g == got[c]["server"]
<1>1. /\ s \in Seq(Chunk) /\ s # <<>> /\ g \in Seq(Chunk)
      /\ \A i \in 1 .. Len(s) : s[i].from = "inject"
  BY EnteredType DEF C2sInject, Composed
<1>2. /\ Ascending(s, "inject") /\ Ascending(g, "inject")
      /\ \A m \in Payloads(g), n \in Payloads(s) : m < n
  BY DEF InjectInv, Queued
<1>3. /\ inj'[c] = Tail(s) /\ \A d \in Clients : d # c => inj'[d] = inj[d]
      /\ UNCHANGED <<cmds, injected>>
  BY DEF C2sInject, TypeOK, session
<1>4. Head(s) \in Chunk
  BY <1>1
<1>5. /\ \A d \in Clients, f \in Ends : d # c \/ f # "server" => got'[d][f] = got[d][f]
      /\ got'[c]["server"] \in {g, Append(g, Head(s))}
  BY <1>4, WriteShape, EndsFacts DEF C2sInject
<1> HIDE DEF s, g
<1>6. Head(s).from = "inject"
  BY <1>1, TailShape
<1> DEFINE h == Head(s)
           r == Tail(s)
<1>7. /\ Payloads(r) \subseteq Payloads(s) /\ Ascending(r, "inject")
      /\ h.n \in Payloads(s) /\ \A n \in Payloads(r) : h.n < n
  BY <1>1, <1>2, <1>6, PayloadsTail
<1>8. /\ Payloads(Append(g, h)) = Payloads(g) \cup {h.n}
      /\ Ascending(Append(g, h), "inject")
  BY <1>1, <1>2, <1>4, <1>6, <1>7, PayloadsAppend, PayloadsAscend
<1> HIDE DEF h, r
<1>9. /\ inj'[c] = r /\ got'[c]["server"] \in {g, Append(g, h)}
      /\ \A d \in Clients : d # c => inj'[d] = inj[d] /\ got'[d]["server"] = got[d]["server"]
  BY <1>3, <1>5, EndsFacts DEF h, r
<1>10. /\ Ascending(inj'[c], "inject") /\ Ascending(got'[c]["server"], "inject")
       /\ \A m \in Payloads(got'[c]["server"]), n \in Payloads(inj'[c]) : m < n
  BY <1>2, <1>7, <1>8, <1>9
<1>11. Entered(c)' \subseteq Entered(c)
  <2>1. Entered(c)' = Payloads(inj'[c]) \cup Payloads(got'[c]["server"])
    BY DEF Entered
  <2>2. Entered(c) = Payloads(s) \cup Payloads(g)
    BY DEF Entered, s, g
  <2> QED
    BY <1>7, <1>8, <1>9, <2>1, <2>2
<1>12. \A d \in Clients : d # c => Entered(d)' = Entered(d)
  BY <1>9 DEF Entered
<1> QED
  BY <1>3, <1>9, <1>10, <1>11, <1>12, InjectAdvances DEF InjectInv, Queued

LEMMA InjectComposed ==
  ASSUME TypeOK, InjectInv, SendComposer
  PROVE  InjectInv'
<1>1. /\ cmds' = Append(cmds, injected + 1) /\ injected' = injected + 1
      /\ UNCHANGED <<inj, got>>
      /\ cmds \in Seq(Nat) /\ Len(cmds) \in Nat /\ injected \in Nat
  BY DEF SendComposer, net, TypeOK
<1>2. /\ Len(cmds') = Len(cmds) + 1 /\ cmds'[Len(cmds) + 1] = injected + 1
      /\ \A i \in 1 .. Len(cmds) : cmds'[i] = cmds[i] /\ cmds[i] \in Nat
  BY <1>1
<1>3. \A i \in 1 .. Len(cmds') : i \in 1 .. Len(cmds) \/ i = Len(cmds) + 1
  BY <1>1, <1>2
<1>4. \A i \in 1 .. Len(cmds) : cmds[i] <= injected
  BY DEF InjectInv, Numbered
<1>5. Numbered'
  <2>1. ASSUME NEW i \in 1 .. Len(cmds'), NEW j \in 1 .. Len(cmds'), i < j
        PROVE  cmds'[i] < cmds'[j]
    <3>1. i \in 1 .. Len(cmds)
      BY <1>1, <1>3, <2>1
    <3>2. CASE j \in 1 .. Len(cmds)
      BY <1>2, <2>1, <3>1, <3>2 DEF InjectInv, Numbered
    <3>3. CASE j = Len(cmds) + 1
      BY <1>1, <1>2, <1>4, <3>1, <3>3
    <3> QED
      BY <1>3, <3>2, <3>3
  <2>2. \A i \in 1 .. Len(cmds') : cmds'[i] <= injected'
    BY <1>1, <1>2, <1>3, <1>4
  <2> QED
    BY <2>1, <2>2 DEF Numbered
<1>6. \A c \in Clients : Entered(c)' = Entered(c)
  BY <1>1 DEF Entered
<1>7. Queued'
  BY <1>1, <1>6 DEF InjectInv, Queued
<1>8. Forwarded'
  <2>1. ASSUME NEW c \in Clients, NEW n \in Entered(c)
        PROVE  n <= injected' /\ \A i \in 1 .. Len(cmds') : n < cmds'[i]
    <3>1. n \in Nat /\ n <= injected /\ \A i \in 1 .. Len(cmds) : n < cmds[i]
      BY EnteredType DEF InjectInv, Forwarded
    <3> QED
      BY <1>1, <1>2, <1>3, <3>1
  <2> QED
    BY <1>6, <2>1 DEF Forwarded
<1> QED
  BY <1>5, <1>7, <1>8 DEF InjectInv

LEMMA InjectForwarded ==
  ASSUME TypeOK, Composed, InjectInv, ForwardCommand
  PROVE  InjectInv'
<1> DEFINE p == [from |-> "inject", n |-> Head(cmds)]
<1>1. cmds \in Seq(Nat) /\ cmds # <<>> /\ cmds' = Tail(cmds) /\ UNCHANGED <<injected, got>>
  BY DEF TypeOK, ForwardCommand, net
<1>2. /\ Head(cmds) = cmds[1] /\ Len(cmds) \in Nat /\ 1 \in 1 .. Len(cmds) /\ Head(cmds) \in Nat
      /\ Len(cmds') = Len(cmds) - 1 /\ \A i \in 1 .. Len(cmds) - 1 : cmds'[i] = cmds[i + 1]
  BY <1>1
<1>3. \A i \in 1 .. Len(cmds') : i + 1 \in 1 .. Len(cmds) /\ cmds'[i] = cmds[i + 1] /\ 1 < i + 1
  BY <1>2
<1>4. /\ \A i, j \in 1 .. Len(cmds) : i < j => cmds[i] < cmds[j]
      /\ \A i \in 1 .. Len(cmds) : cmds[i] <= injected
  BY DEF InjectInv, Numbered
<1>5. /\ Head(cmds) <= injected
      /\ \A i \in 1 .. Len(cmds') : Head(cmds) < cmds'[i]
  BY <1>2, <1>3, <1>4
<1>6. Numbered'
  <2>1. \A i, j \in 1 .. Len(cmds') : i < j => i + 1 < j + 1
    OBVIOUS
  <2> QED
    BY <1>1, <1>3, <1>4, <2>1 DEF Numbered
<1>7. ASSUME NEW c \in Clients
      PROVE  \A n \in Entered(c) :
               n < Head(cmds) /\ n <= injected /\ \A i \in 1 .. Len(cmds') : n < cmds'[i]
  BY <1>2, <1>3 DEF InjectInv, Forwarded
<1>8. \/ inj' = inj
      \/ slot \in Clients /\ inj' = [inj EXCEPT ![slot] = Append(inj[slot], p)]
  BY DEF ForwardCommand, TypeOK
<1>9. p \in Chunk /\ p.from = "inject" /\ p.n = Head(cmds)
  BY <1>2, PayloadType
<1> HIDE DEF p
<1>10. CASE inj' = inj
  <2>1. \A c \in Clients : Entered(c)' = Entered(c)
    BY <1>1, <1>10 DEF Entered
  <2>2. Forwarded'
    BY <1>1, <1>7, <2>1 DEF Forwarded
  <2>3. Queued'
    BY <1>1, <1>10, <2>1 DEF InjectInv, Queued
  <2> QED
    BY <1>6, <2>2, <2>3 DEF InjectInv
<1>11. ASSUME NEW c \in Clients, inj' = [inj EXCEPT ![c] = Append(inj[c], p)]
       PROVE  InjectInv'
  <2>1. inj'[c] = Append(inj[c], p) /\ \A d \in Clients : d # c => inj'[d] = inj[d]
    BY <1>11 DEF TypeOK
  <2>2. inj[c] \in Seq(Chunk) /\ \A n \in Payloads(inj[c]) \cup Payloads(got[c]["server"]) : n < p.n
    BY <1>7, <1>9, EnteredType DEF Entered
  <2>3. Payloads(inj'[c]) = Payloads(inj[c]) \cup {p.n}
    BY <1>9, <2>1, <2>2, PayloadsAppend
  <2>4. Ascending(inj'[c], "inject")
    BY <1>9, <2>1, <2>2, PayloadsAscend DEF InjectInv, Queued
  <2>5. \A m \in Payloads(got'[c]["server"]), n \in Payloads(inj'[c]) : m < n
    BY <1>1, <2>2, <2>3 DEF InjectInv, Queued
  <2>6. Entered(c)' = Entered(c) \cup {p.n} /\ \A d \in Clients : d # c => Entered(d)' = Entered(d)
    BY <1>1, <2>1, <2>3 DEF Entered
  <2>7. \A d \in Clients : p.n \notin Entered(d)
    BY <1>2, <1>7, <1>9
  <2>8. \A d, e \in Clients : d # e => Entered(d)' \cap Entered(e)' = {}
    BY <2>6, <2>7 DEF InjectInv, Queued
  <2>9. Queued'
    BY <1>1, <2>1, <2>4, <2>5, <2>8 DEF InjectInv, Queued
  <2>10. Forwarded'
    BY <1>1, <1>5, <1>7, <1>9, <2>6 DEF Forwarded
  <2> QED
    BY <1>6, <2>9, <2>10 DEF InjectInv
<1> QED
  BY <1>8, <1>10, <1>11

LEMMA InjectRead ==
  ASSUME TypeOK, Waiting, InjectInv, NEW c \in Clients,
         buf[c]["client"] # <<>>, Write(c, "server", Head(buf[c]["client"])),
         UNCHANGED <<cmds, injected, inj>>
  PROVE  InjectInv'
<1> DEFINE b == buf[c]["client"]
           g == got[c]["server"]
           p == Head(b)
<1>1. b \in Seq(Chunk) /\ g \in Seq(Chunk)
  BY EndsFacts DEF TypeOK
<1>2. b # <<>> /\ \A i \in 1 .. Len(b) : b[i] = [from |-> "client", n |-> Taken(c, "client") + i]
  BY EndsFacts DEF Waiting
<1> HIDE DEF b
<1>3. p \in Chunk /\ p.from # "inject"
  <2>1. p = b[1] /\ 1 \in 1 .. Len(b) /\ p \in Chunk
    BY <1>1, <1>2, TailShape
  <2>2. p = [from |-> "client", n |-> Taken(c, "client") + 1]
    BY <1>2, <2>1
  <2> QED
    BY <2>1, <2>2
<1>4. /\ \A d \in Clients : d # c => got'[d]["server"] = got[d]["server"]
      /\ got'[c]["server"] \in {g, Append(g, p)}
  BY <1>3, WriteShape, EndsFacts DEF b
<1> HIDE DEF g, p
<1>5. \A d \in Clients : d # c => Entered(d)' = Entered(d)
  BY <1>4 DEF Entered
<1>6. Payloads(got'[c]["server"]) = Payloads(g) /\ Ascending(got'[c]["server"], "inject")
  <2>1. Ascending(g, "inject")
    BY DEF InjectInv, Queued, g
  <2>2. Payloads(Append(g, p)) = Payloads(g) /\ Ascending(Append(g, p), "inject")
    BY <1>1, <1>3, <2>1, PayloadsAppend, PayloadsAscend
  <2> QED
    BY <1>4, <1>3, <2>1, <2>2
<1>7. Entered(c)' = Entered(c)
  BY <1>6 DEF Entered, g
<1> QED
  BY <1>4, <1>5, <1>6, <1>7, InjectAdvances DEF InjectInv, Queued, g

LEMMA InjectKept ==
  ASSUME TypeOK, Composed, Waiting, InjectInv, [Next]_vars
  PROVE  InjectInv'
<1> USE DEF session, tasks, net
<1>1. CASE SendComposer
  BY <1>1, InjectComposed
<1>2. CASE ForwardCommand
  BY <1>2, InjectForwarded
<1>3. ASSUME NEW c \in Clients, Accept(c) \/ Connect(c) PROVE InjectInv'
  BY <1>3, InjectUntouched, InjectHungUp DEF Accept, Connect
<1>4. ASSUME NEW c \in Clients, HandlerStep(c) PROVE InjectInv'
  <2>1. CASE SpliceOver(c)
    BY <2>1, InjectHungUp DEF SpliceOver
  <2>2. CASE TakeSlot(c) \/ MarkLive(c) \/ ClearLive(c) \/ ClearSlot(c)
    BY <2>2, InjectUntouched DEF TakeSlot, MarkLive, ClearLive, ClearSlot
  <2> QED
    BY <1>4, <2>1, <2>2 DEF HandlerStep
<1>5. ASSUME NEW c \in Clients, C2sStep(c) PROVE InjectInv'
  <2>1. CASE C2sHead(c) \/ C2sInjectClosed(c)
    BY <2>1, InjectUntouched DEF C2sHead, C2sInjectClosed
  <2>2. CASE C2sInject(c)
    BY <2>2, InjectDelivered
  <2>3. CASE C2sRead(c)
    BY <2>3, InjectUntouched, InjectRead DEF C2sRead
  <2> QED
    BY <1>5, <2>1, <2>2, <2>3 DEF C2sStep
<1>6. ASSUME NEW c \in Clients, S2cStep(c) PROVE InjectInv'
  <2>1. CASE S2cHead(c)
    BY <2>1, InjectUntouched DEF S2cHead
  <2>2. CASE S2cRead(c)
    <3>1. \A d \in Clients : got'[d]["server"] = got[d]["server"]
      <4>1. CASE UNCHANGED got
        BY <4>1
      <4>2. CASE buf[c]["server"] # <<>> /\ Write(c, "client", Head(buf[c]["server"]))
        <5>1. buf[c]["server"] \in Seq(Chunk)
          BY EndsFacts DEF TypeOK
        <5>2. Head(buf[c]["server"]) \in Chunk
          BY <4>2, <5>1
        <5> QED
          BY <4>2, <5>2, WriteShape, EndsFacts
      <4> QED
        BY <2>2, <4>1, <4>2 DEF S2cRead
    <3> QED
      BY <2>2, <3>1, InjectUntouched DEF S2cRead
  <2> QED
    BY <1>6, <2>1, <2>2 DEF S2cStep
<1>7. ASSUME NEW c \in Clients, NEW e \in Ends, PeerSends(c, e) \/ PeerCloses(c, e) PROVE InjectInv'
  BY <1>7, InjectUntouched DEF PeerSends, PeerCloses
<1>8. CASE UNCHANGED vars
  BY <1>8, InjectUntouched DEF vars
<1> QED
  BY <1>1, <1>2, <1>3, <1>4, <1>5, <1>6, <1>7, <1>8 DEF Next

LEMMA Invariance == Spec => []IInv
<1>1. Init => InjectInv
  BY InjectInit
<1>2. TypeOK /\ Composed /\ DataInv /\ InjectInv /\ [Next]_vars => InjectInv'
  BY InjectKept DEF DataInv
<1> QED
  BY <1>1, <1>2, SlotInvariance, DataInvariance, PTL DEF Spec, IInv

(* However the clients take the shared slot from each other, a payload of  *)
(* the composer goes into the stream of one of them at most, once at most, *)
(* and after those that were entered before it.                            *)
THEOREM PayloadsInjectedOnce == Spec => []InjectedOnce
<1>1. IInv => InjectedOnce
  <2>1. \A c \in Clients : Payloads(got[c]["server"]) \subseteq Entered(c)
    BY DEF Entered
  <2> QED
    BY <2>1 DEF IInv, InjectInv, Queued, InjectedOnce
<1> QED
  BY <1>1, Invariance, PTL

=============================================================================
