------------------------------ MODULE DiskRing ------------------------------
(***************************************************************************)
(* The rotating pcapng files behind a live capture (capture/ring.rs).  A   *)
(* ring is a value: the session that owns one keeps it in a variable and   *)
(* replaces it by WritePacket.                                             *)
(***************************************************************************)
EXTENDS Naturals, Sequences

CONSTANTS
  MaxFiles,       \* files of the ring (--ring-files)
  MaxBytes,       \* size at which the next write opens the next file (--ring-size)
  Kinds,          \* kinds of packets: what filters tell apart, and what has a size
  BlockBytes,     \* size of the packet block of each kind
  SectionBytes,   \* size of what every file begins with
  InterfaceBytes  \* size of the block that precedes the first packet of a file

ASSUME DiskRingAssumption ==
  /\ MaxFiles \in Nat \ {0}
  /\ MaxBytes \in Nat \ {0}
  /\ BlockBytes \in [Kinds -> Nat \ {0}]
  /\ SectionBytes \in Nat
  /\ InterfaceBytes \in Nat

(* What the file system answers to one write_packet: everything succeeds,  *)
(* File::create fails, or the section header of the created file, its      *)
(* interface block or the packet block cannot be written.                  *)
Outcomes == {"ok", "create_err", "header_err", "iface_err", "write_err"}

(* current_idx, current_bytes, whether writer is Some, wrote_iface, what   *)
(* every file of the ring holds and its size on disk, and - a history, not *)
(* in the code - whether a packet could not be written so far.             *)
NoRing == [on |-> FALSE, idx |-> 0, bytes |-> 0, open |-> FALSE, iface |-> FALSE,
           lost |-> FALSE,
           files |-> [f \in 0 .. MaxFiles - 1 |-> <<>>],
           sizes |-> [f \in 0 .. MaxFiles - 1 |-> 0]]

Rings(Pkt) ==
  [on : BOOLEAN, idx : Nat, bytes : Nat, open : BOOLEAN, iface : BOOLEAN, lost : BOOLEAN,
   files : [0 .. MaxFiles - 1 -> Seq(Pkt)],
   sizes : [0 .. MaxFiles - 1 -> Nat]]

(* The file that is written. *)
Current(r) == (r.idx - 1) % MaxFiles

(* rotate: the writer is dropped and current_bytes reset before anything   *)
(* that can fail, the file is truncated by File::create.  The header of    *)
(* the file does not count in current_bytes.                               *)
Rotate(r, o) ==
  LET next == r.idx % MaxFiles
  IN  [r EXCEPT !.open  = o \notin {"create_err", "header_err"},
                !.iface = FALSE,
                !.bytes = 0,
                !.files = IF o = "create_err" THEN @ ELSE [@ EXCEPT ![next] = <<>>],
                !.sizes = IF o = "create_err" THEN @
                          ELSE [@ EXCEPT ![next] = IF o = "header_err" THEN 0 ELSE SectionBytes],
                !.idx   = IF o \in {"create_err", "header_err"} THEN @ ELSE @ + 1]

(* DiskRing::new, when it succeeds. *)
NewRing == Rotate([NoRing EXCEPT !.on = TRUE], "ok")

(* The blocks of a packet in the current file: the first one of a file is  *)
(* preceded by the interface block, which does not count in current_bytes. *)
(* Without a writer, or when a block cannot be written, the packet is not  *)
(* on disk.                                                                *)
WriteBlocks(s, p, o) ==
  LET f == Current(s)
      n == BlockBytes[p.kind]
      head == IF s.iface THEN 0 ELSE InterfaceBytes
  IN  IF ~s.open \/ (~s.iface /\ o = "iface_err")
      THEN [s EXCEPT !.lost = TRUE]
      ELSE IF o = "write_err"
      THEN [s EXCEPT !.lost = TRUE, !.iface = TRUE, !.sizes[f] = @ + head]
      ELSE [s EXCEPT !.bytes = @ + n,
                     !.iface = TRUE,
                     !.files[f] = Append(@, p),
                     !.sizes[f] = @ + head + n]

WritePacketLate(r, p, o) ==
  WriteBlocks(IF r.bytes > MaxBytes THEN Rotate(r, o) ELSE r, p, o)

(* write_packet: a file that is full before the packet is rotated first,   *)
(* so the packet that fills a file may go beyond its size.                 *)
WritePacket(r, p, o) ==
  WriteBlocks(IF r.bytes >= MaxBytes THEN Rotate(r, o) ELSE r, p, o)

OnDisk(r) == UNION {{r.files[f][i] : i \in DOMAIN r.files[f]} : f \in 0 .. MaxFiles - 1}

(* Size of a file whose packet blocks take n.                              *)
FileSize(n) == SectionBytes + InterfaceBytes + n
=============================================================================
