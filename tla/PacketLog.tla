------------------------------ MODULE PacketLog ------------------------------
(***************************************************************************)
(* What a capture promises, whatever threads and channels it is made of:   *)
(* packets come off a wire in its order, some of them are taken, at most   *)
(* Room of these are under way, and each of these is put into the log, in  *)
(* that order and once, unless the operator stops the capture while it is  *)
(* under way.  The log holds the newest Capacity of what it was given.     *)
(***************************************************************************)
EXTENDS Naturals, Sequences

CONSTANTS Room, Capacity

VARIABLES
  mode,      \* "off", "on", or "stopping": the operator asked for the end
  wire,      \* packets on the wire so far
  underWay,  \* those taken and not yet in the log
  log,       \* the newest of those put into the log
  given      \* and how many that were

vars == <<mode, wire, underWay, log, given>>

Init ==
  /\ mode = "off"
  /\ wire = 0
  /\ underWay = <<>>
  /\ log = <<>>
  /\ given = 0

Put(n) ==
  /\ log' = Append(IF Len(log) >= Capacity THEN Tail(log) ELSE log, n)
  /\ given' = given + 1

Start ==
  /\ mode = "off"
  /\ mode' = "on"
  /\ UNCHANGED <<wire, underWay, log, given>>

(* A file is read into the log before there is a capture. *)
Load ==
  /\ mode = "off"
  /\ wire' = wire + 1
  /\ Put(wire + 1)
  /\ UNCHANGED <<mode, underWay>>

Take ==
  /\ mode # "off"
  /\ Len(underWay) < Room
  /\ wire' = wire + 1
  /\ underWay' = Append(underWay, wire + 1)
  /\ UNCHANGED <<mode, log, given>>

Pass ==
  /\ wire' = wire + 1
  /\ UNCHANGED <<mode, underWay, log, given>>

Deliver ==
  /\ mode = "on"
  /\ underWay # <<>>
  /\ Put(Head(underWay))
  /\ underWay' = Tail(underWay)
  /\ UNCHANGED <<mode, wire>>

Ask ==
  /\ mode # "stopping"
  /\ mode' = "stopping"
  /\ UNCHANGED <<wire, underWay, log, given>>

(* A capture that was asked to stop, or to start again. *)
Stop ==
  /\ mode = "stopping"
  /\ mode' \in {"on", "off"}
  /\ underWay' = <<>>
  /\ UNCHANGED <<wire, log, given>>

(* One that ends by itself leaves nothing behind. *)
End ==
  /\ mode = "on"
  /\ underWay = <<>>
  /\ mode' = "off"
  /\ UNCHANGED <<wire, underWay, log, given>>

Next == Start \/ Load \/ Take \/ Pass \/ Deliver \/ Ask \/ Stop \/ End

Spec == Init /\ [][Next]_vars
=============================================================================
