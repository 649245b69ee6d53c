------------------------------- MODULE FrameLog -------------------------------
(***************************************************************************)
(* The frame log of a session (frame.rs) and the selection in its pane     *)
(* (session/mod.rs): a bounded buffer that evicts its oldest frame, an     *)
(* index into it from 0, and whether the newest frame is followed.         *)
(***************************************************************************)
EXTENDS Integers, Sequences

NewLog == [frames |-> <<>>, nextId |-> 1, selected |-> 0, follow |-> TRUE]

PushFullUnbounded(log, room, of) ==
  [log EXCEPT !.frames = Append(@, [id |-> log.nextId, of |-> of]), !.nextId = @ + 1]

(* FrameBuffer::push_full; room is --max-frames, at least 1. *)
PushFull(log, room, of) ==
  LET kept == IF Len(log.frames) >= room THEN Tail(log.frames) ELSE log.frames
  IN  [log EXCEPT !.frames = Append(kept, [id |-> log.nextId, of |-> of]), !.nextId = @ + 1]

Clamp(i, n) == IF i < 0 THEN 0 ELSE IF i < n THEN i ELSE n - 1

(* An arrow or page key moves by delta rows, a click selects row i. *)
MoveSelection(log, delta) ==
  LET n == Len(log.frames)
      row == Clamp(Clamp(log.selected, n) + delta, n)
  IN  IF n = 0 THEN [log EXCEPT !.selected = 0]
      ELSE [log EXCEPT !.selected = row, !.follow = row + 1 >= n]

SelectLogRow(log, i) ==
  IF i < Len(log.frames)
  THEN [log EXCEPT !.selected = i, !.follow = i + 1 >= Len(log.frames)]
  ELSE log

JumpTop(log) == [log EXCEPT !.selected = 0, !.follow = FALSE]

JumpBottom(log) ==
  [log EXCEPT !.selected = IF log.frames = <<>> THEN 0 ELSE Len(log.frames) - 1,
              !.follow = TRUE]
=============================================================================
