------------------------------- MODULE Capture -------------------------------
(***************************************************************************)
(* A capture session (session/capture.rs): the UI thread, which owns the   *)
(* packet store, and the capture thread, which reads the wire and sends    *)
(* packets over a bounded channel.                                         *)
(*                                                                         *)
(* The UI thread is single: while it drains the channel or waits in join() *)
(* it handles no other input.  A packet carries its serial number on the   *)
(* wire (n), its kind, which is all that filters look at and decides its   *)
(* size, and the key log it was dissected with (kl).                       *)
(***************************************************************************)
EXTENDS DiskRing, FiniteSets

CONSTANTS
  Filters,      \* the capture and display filters a user enters: sets of kinds
  ChanCap,      \* capacity of the packet channel (4096 in the code)
  MaxPackets,   \* capacity of the packet store (--max-frames)
  MaxWire,      \* bound: packets on the wire, or in the opened file, and key logs loaded
  MaxKeylog     \* bound: key logs loaded

ASSUME CaptureAssumption ==
  /\ Filters \subseteq SUBSET Kinds
  /\ Kinds \in Filters              \* the empty filter, which matches everything
  /\ ChanCap \in Nat \ {0}
  /\ MaxPackets \in Nat \ {0}       \* PacketStore::new takes max(1)
  /\ MaxWire \in Nat
  /\ MaxKeylog \in Nat

VARIABLES
  source,      \* "Live" or "File"
  ui,          \* what the UI thread is doing: "load", "loop", "drain", "closed", or
               \* in join() on behalf of "stop", "restart" or "close"
  capturing,   \* CaptureSession.capturing
  status,      \* CaptureSession.status
  capFilter,   \* capture_filter_str
  dispFilter,  \* display_filter
  keylog,      \* which key log is loaded; 0 is none
  store,       \* PacketStore.packets, oldest first
  nextId,      \* PacketStore.next_id
  dropped,     \* PacketStore.dropped
  selected,    \* selected row of the filtered list, from 0
  follow,      \* CaptureSession.follow
  ring,        \* the disk ring
  rx,          \* packet_rx is Some
  chan,        \* the packets in the channel
  stopSent,    \* a message is in the stop channel
  thr,         \* the capture thread: "none", "check", "next", "send", "exited"
  held,        \* the packet it is about to send, if any: a sequence of length 0 or 1
  thrFilter,   \* the filter it was started with
  thrKeylog,   \* the key log it was started with
  wire         \* packets seen on the wire so far

uiVars == <<source, ui, capturing, status, capFilter, dispFilter, keylog>>
storeVars == <<store, nextId, dropped, selected, follow, ring>>
thrVars == <<thr, held, thrFilter, thrKeylog, wire>>
vars == <<uiVars, storeVars, rx, chan, stopSent, thrVars>>

Packet == [n : Nat, kind : Kinds, kl : Nat]
Stored == [n : Nat, kind : Kinds, kl : Nat, id : Nat]

Joining == {"stop", "restart", "close"}
Alive == thr \in {"check", "next", "send"}

(***************************************************************************)
(* The packet store and the rows the display filter leaves visible.        *)
(***************************************************************************)
PushNoEvictCount(p) ==
  /\ store' = Append(IF Len(store) >= MaxPackets THEN Tail(store) ELSE store,
                     [n |-> p.n, kind |-> p.kind, kl |-> p.kl, id |-> nextId])
  /\ nextId' = nextId + 1
  /\ UNCHANGED dropped

(* PacketStore::push evicts the oldest packet of a full store. *)
Push(p) ==
  /\ store' = Append(IF Len(store) >= MaxPackets THEN Tail(store) ELSE store,
                     [n |-> p.n, kind |-> p.kind, kl |-> p.kl, id |-> nextId])
  /\ nextId' = nextId + 1
  /\ dropped' = IF Len(store) >= MaxPackets THEN dropped + 1 ELSE dropped

(* filtered_indices *)
Rows(st, f) == {i \in 1 .. Len(st) : st[i].kind \in f}

(* visible_packet: the selected row, or the last one when the selection is *)
(* past the end.  Only when there is a row.                                *)
Visible(st, f, sel) ==
  LET n == Cardinality(Rows(st, f))
      row == IF sel < n THEN sel ELSE n - 1
  IN  st[CHOOSE i \in Rows(st, f) : Cardinality({j \in Rows(st, f) : j < i}) = row]

------------------------------------------------------------------------------
Init ==
  /\ source \in {"Live", "File"}
  /\ ui = IF source = "Live" THEN "loop" ELSE "load"
  /\ capturing = FALSE
  /\ status = IF source = "Live" THEN "Idle" ELSE "Connected"
  /\ capFilter = Kinds
  /\ dispFilter = Kinds
  /\ keylog = 0
  /\ store = <<>>
  /\ nextId = 1
  /\ dropped = 0
  /\ selected = 0
  /\ follow = TRUE
  /\ ring \in IF source = "Live" THEN {NoRing, NewRing} ELSE {NoRing}
  /\ rx = FALSE
  /\ chan = <<>>
  /\ stopSent = FALSE
  /\ thr = "none"
  /\ held = <<>>
  /\ thrFilter = Kinds
  /\ thrKeylog = 0
  /\ wire = 0

(* The bound of what comes from outside. *)
Bounded == wire + keylog < MaxWire

(***************************************************************************)
(* open_file pushes every packet of the file before the session is shown.  *)
(***************************************************************************)
LoadPacket(k) ==
  /\ ui = "load"
  /\ Bounded
  /\ wire' = wire + 1
  /\ Push([n |-> wire + 1, kind |-> k, kl |-> keylog])
  /\ UNCHANGED <<uiVars, selected, follow, ring, rx, chan, stopSent, thr, held,
                 thrFilter, thrKeylog>>

LoadDone ==
  /\ ui = "load"
  /\ ui' = "loop"
  /\ selected' = IF store = <<>> THEN selected ELSE Len(store) - 1
  /\ UNCHANGED <<source, capturing, status, capFilter, dispFilter, keylog,
                 store, nextId, dropped, follow, ring, rx, chan, stopSent, thrVars>>

(***************************************************************************)
(* Starting: a new channel, stop channel and thread, or an error that      *)
(* leaves the session as it is but for its status.                         *)
(***************************************************************************)
StartOk ==
  /\ rx' = TRUE
  /\ chan' = <<>>
  /\ stopSent' = FALSE
  /\ thr' = "check"
  /\ thrFilter' = capFilter
  /\ thrKeylog' = keylog
  /\ capturing' = TRUE
  /\ status' = "Connected"
  /\ UNCHANGED <<held, wire>>

StartFails ==
  /\ status' = "Error"
  /\ UNCHANGED <<rx, chan, stopSent, thr, held, thrFilter, thrKeylog, wire, capturing>>

(* F6 or sniff on a session that is not capturing. *)
StartCapture ==
  /\ ui = "loop"
  /\ source = "Live"
  /\ ~capturing
  /\ StartOk \/ StartFails
  /\ UNCHANGED <<source, ui, capFilter, dispFilter, keylog, storeVars>>

BeginStopByDropping(why) ==
  /\ ui' = why
  /\ stopSent' = FALSE

(* The first half of stop_capture: tell the thread, then wait in join().   *)
(* The receiver is still there while the UI thread waits.                  *)
BeginStop(why) ==
  /\ ui' = why
  /\ stopSent' = Alive

StopCaptureShownFirst ==
  /\ ui = "loop"
  /\ capturing
  /\ BeginStop("stop")
  /\ capturing' = FALSE
  /\ status' = "Disconnected"
  /\ UNCHANGED <<source, capFilter, dispFilter, keylog, storeVars, rx, chan, thrVars>>

(* F6 while capturing. *)
StopCapture ==
  /\ ui = "loop"
  /\ capturing
  /\ BeginStop("stop")
  /\ UNCHANGED <<source, capturing, status, capFilter, dispFilter, keylog, storeVars,
                 rx, chan, thrVars>>

SetCaptureFilterInPlace(f) ==
  /\ ui = "loop"
  /\ source = "Live"
  /\ capFilter' = f
  /\ UNCHANGED <<source, ui, capturing, status, dispFilter, keylog, storeVars, rx, chan,
                 stopSent, thrVars>>

(* set_capture_filter with a filter that parses: the string is stored      *)
(* before the running capture is stopped and started again.                *)
SetCaptureFilter(f) ==
  /\ ui = "loop"
  /\ source = "Live"
  /\ capFilter' = f
  /\ IF capturing
     THEN BeginStop("restart")
     ELSE UNCHANGED <<ui, stopSent>>
  /\ UNCHANGED <<source, capturing, status, dispFilter, keylog, storeVars, rx, chan,
                 thrVars>>

(* close_active stops the capture whatever its state and drops the session. *)
CloseTab ==
  /\ ui = "loop"
  /\ BeginStop("close")
  /\ UNCHANGED <<source, capturing, status, capFilter, dispFilter, keylog, storeVars,
                 rx, chan, thrVars>>

(* The second half of stop_capture, once join() has returned, and what its *)
(* caller does next in the same call.                                      *)
Stopped ==
  /\ rx' = FALSE
  /\ chan' = <<>>
  /\ stopSent' = FALSE
  /\ thr' = "none"
  /\ capturing' = FALSE
  /\ status' = "Disconnected"
  /\ UNCHANGED <<held, thrFilter, thrKeylog, wire>>

RestartFails ==
  /\ rx' = FALSE
  /\ chan' = <<>>
  /\ stopSent' = FALSE
  /\ thr' = "none"
  /\ capturing' = FALSE
  /\ status' = "Error"
  /\ UNCHANGED <<held, thrFilter, thrKeylog, wire>>

FinishStop ==
  /\ ui \in Joining
  /\ ~Alive
  /\ \/ /\ ui = "restart"
        /\ StartOk \/ RestartFails
     \/ /\ ui # "restart"
        /\ Stopped
  /\ ui' = IF ui = "close" THEN "closed" ELSE "loop"
  /\ UNCHANGED <<source, capFilter, dispFilter, keylog, storeVars>>

(***************************************************************************)
(* drain_packets, run once per turn of the event loop while the tab is     *)
(* shown.  A turn begins with an input event, so nothing forces one.       *)
(***************************************************************************)
BeginDrain ==
  /\ ui = "loop"
  /\ rx
  /\ ui' = "drain"
  /\ UNCHANGED <<source, capturing, status, capFilter, dispFilter, keylog,
                 storeVars, rx, chan, stopSent, thrVars>>

DrainPacketNewestFirst(o) ==
  /\ ui = "drain"
  /\ chan # <<>>
  /\ ring' = IF ring.on THEN WritePacket(ring, chan[Len(chan)], o) ELSE ring
  /\ Push(chan[Len(chan)])
  /\ LET n == Cardinality(Rows(store', dispFilter))
     IN  selected' = IF follow /\ n > 0 THEN n - 1 ELSE selected
  /\ chan' = SubSeq(chan, 1, Len(chan) - 1)
  /\ UNCHANGED <<uiVars, follow, rx, stopSent, thrVars>>

DrainPacketAlwaysFollowing(o) ==
  /\ ui = "drain"
  /\ chan # <<>>
  /\ ring' = IF ring.on THEN WritePacket(ring, Head(chan), o) ELSE ring
  /\ Push(Head(chan))
  /\ LET n == Cardinality(Rows(store', dispFilter))
     IN  selected' = IF n > 0 THEN n - 1 ELSE selected
  /\ chan' = Tail(chan)
  /\ UNCHANGED <<uiVars, follow, rx, stopSent, thrVars>>

DrainPacket(o) ==
  /\ ui = "drain"
  /\ chan # <<>>
  /\ ring' = IF ring.on THEN WritePacket(ring, Head(chan), o) ELSE ring
  /\ Push(Head(chan))
  /\ LET n == Cardinality(Rows(store', dispFilter))
     IN  selected' = IF follow /\ n > 0 THEN n - 1 ELSE selected
  /\ chan' = Tail(chan)
  /\ UNCHANGED <<uiVars, follow, rx, stopSent, thrVars>>

EndDrainOfADeadThread ==
  /\ ui = "drain"
  /\ chan = <<>> \/ ~Alive
  /\ ui' = "loop"
  /\ IF Alive
     THEN UNCHANGED <<capturing, status>>
     ELSE /\ capturing' = FALSE
          /\ status' = "Disconnected"
  /\ UNCHANGED <<source, capFilter, dispFilter, keylog, storeVars, rx, chan,
                 stopSent, thrVars>>

EndDrain ==
  /\ ui = "drain"
  /\ chan = <<>>
  /\ ui' = "loop"
  /\ IF Alive
     THEN UNCHANGED <<capturing, status>>
     ELSE /\ capturing' = FALSE
          /\ status' = "Disconnected"
  /\ UNCHANGED <<source, capFilter, dispFilter, keylog, storeVars, rx, chan,
                 stopSent, thrVars>>

(***************************************************************************)
(* The operator looks around.                                              *)
(***************************************************************************)
SetDisplayFilter(f) ==
  /\ ui = "loop"
  /\ dispFilter' = f
  /\ UNCHANGED <<source, ui, capturing, status, capFilter, keylog, storeVars,
                 rx, chan, stopSent, thrVars>>

NavUnsaturated(down) ==
  /\ ui = "loop"
  /\ LET n == Cardinality(Rows(store, dispFilter))
         cur == IF selected < n THEN selected ELSE n - 1
     IN  /\ selected' = IF down
                        THEN IF cur + 1 < n THEN cur + 1 ELSE n - 1
                        ELSE IF cur > 0 THEN cur - 1 ELSE 0
         /\ follow' = (selected' + 1 >= n)
  /\ UNCHANGED <<uiVars, store, nextId, dropped, ring, rx, chan, stopSent, thrVars>>

(* CaptureSession::nav by one row: nothing to select in an empty list. *)
Nav(down) ==
  /\ ui = "loop"
  /\ LET n == Cardinality(Rows(store, dispFilter))
         cur == IF selected < n THEN selected ELSE n - 1
     IN  IF n = 0
         THEN selected' = 0 /\ UNCHANGED follow
         ELSE /\ selected' = IF down
                             THEN IF cur + 1 < n THEN cur + 1 ELSE n - 1
                             ELSE IF cur > 0 THEN cur - 1 ELSE 0
              /\ follow' = (selected' + 1 >= n)
  /\ UNCHANGED <<uiVars, store, nextId, dropped, ring, rx, chan, stopSent, thrVars>>

NavHome ==
  /\ ui = "loop"
  /\ selected' = 0
  /\ follow' = FALSE
  /\ UNCHANGED <<uiVars, store, nextId, dropped, ring, rx, chan, stopSent, thrVars>>

NavEnd ==
  /\ ui = "loop"
  /\ LET n == Cardinality(Rows(store, dispFilter))
     IN  /\ n > 0
         /\ selected' = n - 1
         /\ follow' = TRUE
  /\ UNCHANGED <<uiVars, store, nextId, dropped, ring, rx, chan, stopSent, thrVars>>

(* load_keylog dissects the whole store again; a running capture thread    *)
(* keeps the key log it was started with.                                  *)
LoadKeylog ==
  /\ ui = "loop"
  /\ keylog < MaxKeylog /\ Bounded
  /\ keylog' = keylog + 1
  /\ store' = [i \in 1 .. Len(store) |-> [store[i] EXCEPT !.kl = keylog + 1]]
  /\ UNCHANGED <<source, ui, capturing, status, capFilter, dispFilter, nextId,
                 dropped, selected, follow, ring, rx, chan, stopSent, thrVars>>

(***************************************************************************)
(* capture_loop                                                            *)
(***************************************************************************)
CheckStop ==
  /\ thr = "check"
  /\ thr' = IF stopSent THEN "exited" ELSE "next"
  /\ stopSent' = FALSE
  /\ UNCHANGED <<uiVars, storeVars, rx, chan, held, thrFilter, thrKeylog, wire>>

(* next_packet has nothing, or fails: sleep and look again. *)
NoPacket ==
  /\ thr = "next"
  /\ thr' = "check"
  /\ UNCHANGED <<uiVars, storeVars, rx, chan, stopSent, held, thrFilter, thrKeylog, wire>>

(* A packet: the user-space filter is applied even when the kernel has one *)
(* attached, since packets queued before the attachment are not filtered.  *)
NextPacket(k) ==
  /\ thr = "next"
  /\ Bounded
  /\ wire' = wire + 1
  /\ IF k \in thrFilter
     THEN /\ thr' = "send"
          /\ held' = <<[n |-> wire + 1, kind |-> k, kl |-> thrKeylog]>>
     ELSE thr' = "check" /\ UNCHANGED held
  /\ UNCHANGED <<uiVars, storeVars, rx, chan, stopSent, thrFilter, thrKeylog>>

(* The thread panics in the dissector: the UI sees the channel close.      *)
ThreadDies ==
  /\ thr = "next"
  /\ Bounded
  /\ wire' = wire + 1
  /\ thr' = "exited"
  /\ UNCHANGED <<uiVars, storeVars, rx, chan, stopSent, held, thrFilter, thrKeylog>>

(* SyncSender::send blocks while the channel is full and fails only when   *)
(* the receiver is gone.                                                   *)
SendPacket ==
  /\ thr = "send"
  /\ rx => Len(chan) < ChanCap
  /\ thr' = IF rx THEN "check" ELSE "exited"
  /\ chan' = IF rx THEN Append(chan, Head(held)) ELSE chan
  /\ held' = <<>>
  /\ UNCHANGED <<uiVars, storeVars, rx, stopSent, thrFilter, thrKeylog, wire>>

------------------------------------------------------------------------------
UserStep ==
  \/ StartCapture \/ StopCapture \/ CloseTab
  \/ \E f \in Filters : SetCaptureFilter(f)
  \/ \E f \in Filters : SetDisplayFilter(f)
  \/ \E down \in BOOLEAN : Nav(down)
  \/ NavHome \/ NavEnd \/ LoadKeylog \/ BeginDrain

UiStep ==
  \/ FinishStop
  \/ \E o \in Outcomes : DrainPacket(o)
  \/ EndDrain
  \/ \E k \in Kinds : LoadPacket(k)
  \/ LoadDone

ThreadStep ==
  \/ CheckStop \/ NoPacket \/ SendPacket \/ ThreadDies
  \/ \E k \in Kinds : NextPacket(k)

Next == UserStep \/ UiStep \/ ThreadStep

Spec == Init /\ [][Next]_vars

(* The UI thread finishes what it began, and the operating system runs the *)
(* capture thread; the user owes nothing.                                  *)
FairSpec == Spec /\ WF_vars(UiStep) /\ WF_vars(ThreadStep)

------------------------------------------------------------------------------
TypeOK ==
  /\ source \in {"Live", "File"}
  /\ ui \in {"load", "loop", "drain", "closed"} \cup Joining
  /\ capturing \in BOOLEAN
  /\ status \in {"Idle", "Connected", "Disconnected", "Error"}
  /\ capFilter \in Filters
  /\ dispFilter \in Filters
  /\ keylog \in Nat
  /\ store \in Seq(Stored)
  /\ nextId \in Nat
  /\ dropped \in Nat
  /\ selected \in Nat
  /\ follow \in BOOLEAN
  /\ ring \in Rings(Packet)
  /\ rx \in BOOLEAN
  /\ chan \in Seq(Packet)
  /\ stopSent \in BOOLEAN
  /\ thr \in {"none", "check", "next", "send", "exited"}
  /\ held \in Seq(Packet)
  /\ thrFilter \in Filters
  /\ thrKeylog \in Nat
  /\ wire \in Nat

(* The store is the window of the newest packets: ids run without a gap up *)
(* to the last one given, the window never exceeds its capacity, and what  *)
(* is missing from it is exactly what "dropped" says (PacketStore::push;   *)
(* the status line "showing kept/total" is computed from the two).         *)
StoreIsNewestWindow ==
  /\ Len(store) <= MaxPackets
  /\ nextId = dropped + Len(store) + 1
  /\ \A i \in 1 .. Len(store) : store[i].id = dropped + i

Ordered(s) == \A i, j \in 1 .. Len(s) : i < j => s[i].n < s[j].n
Before(s, t) == \A i \in 1 .. Len(s), j \in 1 .. Len(t) : s[i].n < t[j].n

(* Packets keep the order of the wire on their way through the capture     *)
(* thread, the channel and the store, across every stop, filter change and *)
(* restart, and none is there twice.                                       *)
InWireOrder ==
  /\ Ordered(store) /\ Ordered(chan)
  /\ Before(store, chan) /\ Before(store, held) /\ Before(chan, held)

(* A capture thread runs only behind a session that says so: closing such  *)
(* a tab asks for confirmation (is_live), F6 stops it and never starts a   *)
(* second one, and the thread never outlives the receiver it sends to.     *)
RunningThreadIsShown == Alive => capturing /\ status = "Connected" /\ rx

(* While packets arrive the filter shown is the filter applied: no packet  *)
(* that the current capture filter rejects is added to the store, although *)
(* a filter can change while packets of the old one are in the channel.    *)
FilterEnforced ==
  [][nextId' # nextId => store'[Len(store')].kind \in capFilter]_vars

(* Browsing is not disturbed by traffic: while nothing is evicted, a       *)
(* packet that is drained does not change which packet is shown to an      *)
(* operator who is not following.  The one exception: nothing that sets    *)
(* the display filter touches the selection, so a filter that leaves fewer *)
(* rows can put the selection past the last one; the last row is shown     *)
(* then, and the new packet when it is a row.                              *)
SelectionSurvivesTraffic ==
  [][LET rows == Cardinality(Rows(store, dispFilter))
         shown == Visible(store, dispFilter, selected).id
         shownThen == Visible(store', dispFilter, selected').id
     IN  nextId' # nextId /\ dropped' = dropped /\ ~follow /\ rows > 0
         => \/ shownThen = shown
            \/ selected >= rows /\ shownThen = nextId]_vars

(* Unless the file system refused a write, the disk ring holds a window of *)
(* the newest packets: every packet of the store that is newer than one on *)
(* disk is on disk, and the newest one is.  The headers of a file left     *)
(* aside, it exceeds its size by less than the packet that filled it, and  *)
(* packets are given up only when all the files but the current one are    *)
(* full (capture/ring.rs).                                                 *)
DiskRingKeepsNewest ==
  ring.on /\ ~ring.lost =>
    LET kept == {p.n : p \in OnDisk(ring)}
    IN  /\ \A i \in DOMAIN store :
             (i = Len(store) \/ \E n \in kept : n < store[i].n) => store[i].n \in kept
        /\ \A f \in DOMAIN ring.files :
             ring.files[f] # <<>> =>
               ring.sizes[f] < FileSize(MaxBytes)
                                 + BlockBytes[ring.files[f][Len(ring.files[f])].kind]
        /\ \/ Cardinality(kept) = nextId - 1
           \/ \A f \in DOMAIN ring.files \ {Current(ring)} : ring.sizes[f] >= FileSize(MaxBytes)

(* stop_capture returns when the channel has room for the one packet the   *)
(* thread may be holding.                                                  *)
StopReturnsWithRoom == (ui \in Joining /\ Len(chan) < ChanCap) ~> (ui \notin Joining)

(* F6 stops a live capture (docs/capture.md, table of keys).               *)
StopReturns == (ui \in Joining) ~> (ui \notin Joining)

Numbers(s) == [i \in 1 .. Len(s) |-> s[i].n]

Log == INSTANCE PacketLog WITH
  Room <- ChanCap + 1,
  Capacity <- MaxPackets,
  mode <- IF ui \in Joining THEN "stopping" ELSE IF capturing THEN "on" ELSE "off",
  underWay <- Numbers(chan \o held),
  log <- Numbers(store),
  given <- nextId - 1

(* The two threads, the bounded channel and the store are a log of the     *)
(* packets taken: each gets there in order and once, those under way when  *)
(* the capture thread ends by itself too, and only what is under way when  *)
(* the operator stops, restarts or closes the capture is lost.             *)
IsPacketLog == Log!Spec
=============================================================================
