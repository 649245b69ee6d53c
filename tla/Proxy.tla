-------------------------------- MODULE Proxy --------------------------------
(***************************************************************************)
(* A proxy session (session/proxy.rs): the accept loop spawns a handler    *)
(* for every client, which connects to the upstream and splices the two    *)
(* with one task per direction, c2s and s2c.  The composer can inject a    *)
(* payload into the stream to the upstream; the sender of the inject       *)
(* channel is in one slot that all the handlers share.                     *)
(*                                                                         *)
(* The TLS handshakes of an intercepted connection are part of connecting, *)
(* the rest of it splices in the same way.                                 *)
(***************************************************************************)
EXTENDS Naturals, Sequences, FiniteSets

CONSTANTS
  Clients,      \* bound: clients that ever connect to the proxy
  Loads         \* bounds: what a behaviour is about

(* A load has the clients that connect, how many of them at the same time, *)
(* the pieces of data that one end sends on one connection, and the        *)
(* payloads injected.                                                      *)
ASSUME ProxyAssumption ==
  /\ 0 \notin Clients
  /\ Loads \subseteq [clients : SUBSET Clients, atOnce : Nat, chunks : Nat, injects : Nat]

VARIABLES
  load,        \* the bounds of this behaviour
  crowded,     \* history: two clients were served at the same time
  cmds,        \* the command channel: numbers of injected payloads
  injected,    \* how many payloads were injected
  live,        \* splice_live
  slot,        \* whose inject sender is in the slot "inject", 0 for none
  phase,       \* of the handler of each client, see Phases
  active,      \* the flag that the two tasks of a splice share
  c2s, s2c,    \* where the two tasks are, see Steps
  inj,         \* the inject channel of each splice
  sent,        \* by each end of each connection: how many pieces
  buf,         \* and which of them the proxy has not read yet
  open,        \* whether that end still holds its connection to the proxy
  got          \* what each end received

session == <<load, cmds, injected>>
tasks == <<active, c2s, s2c>>
net == <<sent, buf, open, got, crowded>>
vars == <<session, live, slot, phase, tasks, inj, net>>

Phases == {"none", "accepted", "slotted", "connecting", "up", "over", "cleared", "left"}
Steps == {"head", "wait", "stuck", "done"}
Ends == {"client", "server"}

(* A piece of data: the end that sent it - "inject" for the composer - and *)
(* its number.                                                             *)
Chunk == [from : Ends \cup {"inject"}, n : Nat]

Served(c) == phase[c] \notin {"none", "left"}

Init ==
  /\ load \in Loads
  /\ crowded = FALSE
  /\ cmds = <<>>
  /\ injected = 0
  /\ live = FALSE
  /\ slot = 0
  /\ phase = [c \in Clients |-> "none"]
  /\ active = [c \in Clients |-> TRUE]
  /\ c2s = [c \in Clients |-> "head"]
  /\ s2c = [c \in Clients |-> "head"]
  /\ inj = [c \in Clients |-> <<>>]
  /\ sent = [c \in Clients |-> [e \in Ends |-> 0]]
  /\ buf = [c \in Clients |-> [e \in Ends |-> <<>>]]
  /\ open = [c \in Clients |-> [e \in Ends |-> e = "client"]]
  /\ got = [c \in Clients |-> [e \in Ends |-> <<>>]]

------------------------------------------------------------------------------
(* The operator: send_composer refuses when no splice is live.             *)
SendComposer ==
  /\ live
  /\ injected < load.injects
  /\ injected' = injected + 1
  /\ cmds' = Append(cmds, injected + 1)
  /\ UNCHANGED <<load, live, slot, phase, tasks, inj, net>>

ForwardToAll ==
  /\ cmds # <<>>
  /\ cmds' = Tail(cmds)
  /\ inj' = [c \in Clients |->
              IF phase[c] = "up" THEN Append(inj[c], [from |-> "inject", n |-> Head(cmds)])
              ELSE inj[c]]
  /\ UNCHANGED <<load, injected, live, slot, phase, tasks, net>>

(* The command forwarder: to whichever splice is in the slot, or nowhere.  *)
(* The receiver is gone once the task that reads it is.                    *)
ForwardCommand ==
  /\ cmds # <<>>
  /\ cmds' = Tail(cmds)
  /\ inj' = IF slot # 0 /\ c2s[slot] # "done"
            THEN [inj EXCEPT ![slot] = Append(@, [from |-> "inject", n |-> Head(cmds)])]
            ELSE inj
  /\ UNCHANGED <<load, injected, live, slot, phase, tasks, net>>

------------------------------------------------------------------------------
(* The handler of client c, from the accept to ClientLeft.                 *)
Accept(c) ==
  /\ phase[c] = "none"
  /\ c \in load.clients
  /\ phase' = [phase EXCEPT ![c] = "accepted"]
  /\ Cardinality({d \in Clients : Served(d)}) < load.atOnce
  /\ crowded' = (crowded \/ \E d \in Clients : Served(d))
  /\ UNCHANGED <<session, live, slot, tasks, inj, sent, buf, open, got>>

TakeSlotInVain(c) ==
  /\ phase[c] = "accepted"
  /\ phase' = [phase EXCEPT ![c] = "slotted"]
  /\ UNCHANGED <<session, slot, live, tasks, inj, net>>

TakeSlot(c) ==
  /\ phase[c] = "accepted"
  /\ phase' = [phase EXCEPT ![c] = "slotted"]
  /\ slot' = c
  /\ UNCHANGED <<session, live, tasks, inj, net>>

MarkLive(c) ==
  /\ phase[c] = "slotted"
  /\ phase' = [phase EXCEPT ![c] = "connecting"]
  /\ live' = TRUE
  /\ UNCHANGED <<session, slot, tasks, inj, net>>

(* The connections are dropped, and the receiver of the inject channel.    *)
HangUp(c) ==
  /\ phase' = [phase EXCEPT ![c] = "over"]
  /\ open' = [open EXCEPT ![c] = [e \in Ends |-> FALSE]]
  /\ buf' = [buf EXCEPT ![c] = [e \in Ends |-> <<>>]]
  /\ inj' = [inj EXCEPT ![c] = <<>>]

(* The upstream, or a TLS handshake with either side, may refuse.          *)
Connect(c) ==
  /\ phase[c] = "connecting"
  /\ \/ /\ phase' = [phase EXCEPT ![c] = "up"]
        /\ open' = [open EXCEPT ![c]["server"] = TRUE]
        /\ UNCHANGED <<c2s, buf, inj>>
     \/ /\ HangUp(c)
        /\ c2s' = [c2s EXCEPT ![c] = "done"]
  /\ UNCHANGED <<session, live, slot, active, s2c, sent, got, crowded>>

(* join!: both tasks have ended. *)
SpliceOver(c) ==
  /\ phase[c] = "up"
  /\ c2s[c] = "done"
  /\ s2c[c] = "done"
  /\ HangUp(c)
  /\ UNCHANGED <<session, live, slot, tasks, sent, got, crowded>>

ClearLive(c) ==
  /\ phase[c] = "over"
  /\ phase' = [phase EXCEPT ![c] = "cleared"]
  /\ live' = FALSE
  /\ UNCHANGED <<session, slot, tasks, inj, net>>

ClearSlotNever(c) ==
  /\ phase[c] = "cleared"
  /\ phase' = [phase EXCEPT ![c] = "left"]
  /\ UNCHANGED <<session, live, slot, tasks, inj, net>>

ClearSlot(c) ==
  /\ phase[c] = "cleared"
  /\ phase' = [phase EXCEPT ![c] = "left"]
  /\ slot' = 0
  /\ UNCHANGED <<session, live, tasks, inj, net>>

------------------------------------------------------------------------------
(* What p is written to an end: an end that is gone may accept a last      *)
(* write into the void before the proxy is told.                           *)
Write(c, end, p) ==
  got' = IF open[c][end] THEN [got EXCEPT ![c][end] = Append(@, p)] ELSE got

(* A task of the splice ends and tells the other one. *)
Ended(task, c) ==
  /\ task' = [task EXCEPT ![c] = "done"]
  /\ active' = [active EXCEPT ![c] = FALSE]

(* The head of the loop of c2s. *)
C2sHead(c) ==
  /\ phase[c] = "up"
  /\ c2s[c] = "head"
  /\ IF active[c]
     THEN c2s' = [c2s EXCEPT ![c] = "wait"] /\ UNCHANGED active
     ELSE Ended(c2s, c)
  /\ UNCHANGED <<session, live, slot, phase, s2c, inj, net>>

C2sInjectCancelsRead(c) ==
  /\ phase[c] = "up"
  /\ c2s[c] = "wait"
  /\ inj[c] # <<>>
  /\ inj' = [inj EXCEPT ![c] = Tail(@)]
  /\ buf' = [buf EXCEPT ![c]["client"] = IF @ = <<>> THEN @ ELSE Tail(@)]
  /\ Write(c, "server", Head(inj[c]))
  /\ c2s' = [c2s EXCEPT ![c] = "head"]
  /\ UNCHANGED <<session, live, slot, phase, active, s2c, sent, open, crowded>>

(* select! is biased: an injected payload comes before the client's data,  *)
(* and so does the end of the inject channel, its sender being replaced or *)
(* cleared: the branch then awaits a future that is never ready.           *)
C2sInject(c) ==
  /\ phase[c] = "up"
  /\ c2s[c] = "wait"
  /\ inj[c] # <<>>
  /\ inj' = [inj EXCEPT ![c] = Tail(@)]
  /\ Write(c, "server", Head(inj[c]))
  /\ \/ c2s' = [c2s EXCEPT ![c] = "head"] /\ UNCHANGED active
     \/ ~open[c]["server"] /\ Ended(c2s, c)
  /\ UNCHANGED <<session, live, slot, phase, s2c, sent, buf, open, crowded>>

C2sInjectClosed(c) ==
  /\ phase[c] = "up"
  /\ c2s[c] = "wait"
  /\ inj[c] = <<>>
  /\ slot # c
  /\ c2s' = [c2s EXCEPT ![c] = "stuck"]
  /\ UNCHANGED <<session, live, slot, phase, active, s2c, inj, net>>

C2sRead(c) ==
  /\ phase[c] = "up"
  /\ c2s[c] = "wait"
  /\ inj[c] = <<>>
  /\ slot = c
  /\ \/ /\ buf[c]["client"] # <<>>
        /\ buf' = [buf EXCEPT ![c]["client"] = Tail(@)]
        /\ Write(c, "server", Head(buf[c]["client"]))
        /\ \/ c2s' = [c2s EXCEPT ![c] = "head"] /\ UNCHANGED active
           \/ ~open[c]["server"] /\ Ended(c2s, c)
     \/ /\ ~open[c]["client"]        \* end of the stream, or a reset
        /\ Ended(c2s, c)
        /\ UNCHANGED <<buf, got>>
  /\ UNCHANGED <<session, live, slot, phase, s2c, inj, sent, open, crowded>>

(* The other direction: no inject, otherwise the same. *)
S2cHead(c) ==
  /\ phase[c] = "up"
  /\ s2c[c] = "head"
  /\ IF active[c]
     THEN s2c' = [s2c EXCEPT ![c] = "wait"] /\ UNCHANGED active
     ELSE Ended(s2c, c)
  /\ UNCHANGED <<session, live, slot, phase, c2s, inj, net>>

S2cReadPending(c) ==
  /\ phase[c] = "up"
  /\ s2c[c] = "wait"
  /\ \/ /\ buf[c]["server"] # <<>>
        /\ buf' = [buf EXCEPT ![c]["server"] = Tail(@)]
        /\ Write(c, "client", Head(buf[c]["server"]))
        /\ s2c' = [s2c EXCEPT ![c] = "head"]
     \/ /\ ~open[c]["server"]
        /\ s2c' = [s2c EXCEPT ![c] = "stuck"]
        /\ UNCHANGED <<buf, got>>
  /\ UNCHANGED <<session, live, slot, phase, active, c2s, inj, sent, open, crowded>>

S2cRead(c) ==
  /\ phase[c] = "up"
  /\ s2c[c] = "wait"
  /\ \/ /\ buf[c]["server"] # <<>>
        /\ buf' = [buf EXCEPT ![c]["server"] = Tail(@)]
        /\ Write(c, "client", Head(buf[c]["server"]))
        /\ \/ s2c' = [s2c EXCEPT ![c] = "head"] /\ UNCHANGED active
           \/ ~open[c]["client"] /\ Ended(s2c, c)
     \/ /\ ~open[c]["server"]
        /\ Ended(s2c, c)
        /\ UNCHANGED <<buf, got>>
  /\ UNCHANGED <<session, live, slot, phase, c2s, inj, sent, open, crowded>>

------------------------------------------------------------------------------
(* The two ends of a connection. *)
PeerSends(c, e) ==
  /\ Served(c)
  /\ open[c][e]
  /\ sent[c][e] < load.chunks
  /\ sent' = [sent EXCEPT ![c][e] = @ + 1]
  /\ buf' = [buf EXCEPT ![c][e] = Append(@, [from |-> e, n |-> sent[c][e] + 1])]
  /\ UNCHANGED <<session, live, slot, phase, tasks, inj, open, got, crowded>>

PeerCloses(c, e) ==
  /\ Served(c)
  /\ open[c][e]
  /\ open' = [open EXCEPT ![c][e] = FALSE]
  /\ UNCHANGED <<session, live, slot, phase, tasks, inj, sent, buf, got, crowded>>

------------------------------------------------------------------------------
HandlerStep(c) ==
  \/ TakeSlot(c) \/ MarkLive(c) \/ SpliceOver(c) \/ ClearLive(c) \/ ClearSlot(c)

C2sStep(c) == C2sHead(c) \/ C2sInject(c) \/ C2sInjectClosed(c) \/ C2sRead(c)
S2cStep(c) == S2cHead(c) \/ S2cRead(c)

Next ==
  \/ SendComposer \/ ForwardCommand
  \/ \E c \in Clients :
       \/ Accept(c) \/ Connect(c) \/ HandlerStep(c) \/ C2sStep(c) \/ S2cStep(c)
       \/ \E e \in Ends : PeerSends(c, e) \/ PeerCloses(c, e)

Spec == Init /\ [][Next]_vars

(* The runtime polls every task that can go on.  Operator and peers owe    *)
(* nothing, so connecting, with its handshakes, may take for ever.         *)
FairSpec ==
  /\ Spec
  /\ WF_vars(ForwardCommand)
  /\ \A c \in Clients :
       WF_vars(HandlerStep(c)) /\ WF_vars(C2sStep(c)) /\ WF_vars(S2cStep(c))

------------------------------------------------------------------------------
TypeOK ==
  /\ load \in Loads
  /\ crowded \in BOOLEAN
  /\ cmds \in Seq(Nat)
  /\ injected \in Nat
  /\ live \in BOOLEAN
  /\ slot \in Clients \cup {0}
  /\ phase \in [Clients -> Phases]
  /\ active \in [Clients -> BOOLEAN]
  /\ c2s \in [Clients -> Steps]
  /\ s2c \in [Clients -> Steps \ {"stuck"}]
  /\ inj \in [Clients -> Seq(Chunk)]
  /\ sent \in [Clients -> [Ends -> Nat]]
  /\ buf \in [Clients -> [Ends -> Seq(Chunk)]]
  /\ open \in [Clients -> [Ends -> BOOLEAN]]
  /\ got \in [Clients -> [Ends -> Seq(Chunk)]]

(* What s holds from one source, its numbers, only goes up; and it is the  *)
(* beginning of what that source sent, nothing missing.                    *)
Ascending(s, from) ==
  \A i, j \in 1 .. Len(s) :
    i < j /\ s[i].from = from /\ s[j].from = from => s[i].n < s[j].n

Complete(s, from) ==
  \A i \in 1 .. Len(s) : s[i].from = from =>
    /\ s[i].n > 0
    /\ \A n \in 1 .. s[i].n - 1 : \E j \in 1 .. i - 1 : s[j] = [from |-> from, n |-> n]

Other(e) == IF e = "client" THEN "server" ELSE "client"

(* The proxy is transparent: what an end receives, injected payloads taken *)
(* out, is a beginning of what the other end sent, nothing lost in the     *)
(* middle, repeated or reordered, however injects and clients interleave;  *)
(* and payloads are injected into the stream to the upstream only.         *)
Transparent ==
  \A c \in Clients : \A e \in Ends :
    /\ Ascending(got[c][e], Other(e))
    /\ Complete(got[c][e], Other(e))
    /\ \A i \in 1 .. Len(got[c][e]) :
         \/ got[c][e][i].from = Other(e)
         \/ got[c][e][i].from = "inject" /\ e = "server"

(* The payloads of the composer in s, by their numbers. *)
Payloads(s) == {s[i].n : i \in {j \in 1 .. Len(s) : s[j].from = "inject"}}

(* An injected payload reaches one upstream at most, once at most, and an  *)
(* upstream receives injected payloads in the order they were entered.     *)
InjectedOnce ==
  \A c, d \in Clients :
    /\ Ascending(got[c]["server"], "inject")
    /\ c # d => Payloads(got[c]["server"]) \cap Payloads(got[d]["server"]) = {}

(* The slot never outlives the handler that filled it: an inject sender    *)
(* that is left there belongs to a client that is still served, so that    *)
(* what is "queued" is not lost in the channel of one that left.  And as   *)
(* long as no two clients were served at a time, splice_live says "true    *)
(* while an accepted client splice is active (inject can reach upstream)": *)
(* it is never set without an inject channel to send to, and it is set all *)
(* the time a splice is up.                                                *)
SlotIsServed ==
  /\ slot # 0 => Served(slot)
  /\ ~crowded => /\ live => slot # 0
                 /\ (\E c \in Clients : phase[c] = "up") => live

Uploading(c) == phase[c] = "up" /\ buf[c]["client"] # <<>>
Uploaded(c) == buf[c]["client"] = <<>> \/ c2s[c] = "done"

(* What a client sends is forwarded, unless the connection ends: a closed  *)
(* inject channel is ignored (splice_any).                                 *)
UploadsFlow == \A c \in Clients : Uploading(c) ~> Uploaded(c)

(* The same as long as no second client came while one was served, however *)
(* many come one after the other.                                          *)
UploadsFlowAlone == \A c \in Clients : (Uploading(c) /\ ~crowded) ~> (Uploaded(c) \/ crowded)

(* A splice both ends of which have hung up is cleaned away, and its       *)
(* client reported as gone - as long as no second client took the slot     *)
(* from it, which leaves its upload waiting and the splice there for ever. *)
SplicesEnd ==
  \A c \in Clients :
    (phase[c] = "up" /\ ~open[c]["client"] /\ ~open[c]["server"] /\ ~crowded)
      ~> (phase[c] = "left" \/ crowded)
=============================================================================
