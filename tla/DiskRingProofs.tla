--------------------------- MODULE DiskRingProofs ---------------------------
(***************************************************************************)
(* What writing to a disk ring preserves, whatever the file system answers *)
(* and whatever the size and number of its files: the types, and that only *)
(* the oldest packets are given up (Layout, Gains).                        *)
(***************************************************************************)
EXTENDS DiskRing, Integers, FiniteSetTheorems, TLAPS

(* rotate leaves a ring, also when the next file cannot be created.        *)
LEMMA RotateType ==
  ASSUME NEW P, NEW r \in Rings(P), NEW o
  PROVE  Rotate(r, o) \in Rings(P)
<1> DEFINE fails == o \in {"create_err", "header_err"}
           next == r.idx % MaxFiles
           size == IF o = "header_err" THEN 0 ELSE SectionBytes
<1>1. next \in 0 .. MaxFiles - 1
  BY DiskRingAssumption DEF Rings
<1>2. [r.files EXCEPT ![next] = <<>>] \in [0 .. MaxFiles - 1 -> Seq(P)]
  BY <1>1 DEF Rings
<1>3. (~fails) \in BOOLEAN
  OBVIOUS
<1>8. size \in Nat
  BY DiskRingAssumption
<1> HIDE DEF size
<1>9. [r.sizes EXCEPT ![next] = size] \in [0 .. MaxFiles - 1 -> Nat]
  BY <1>1, <1>8 DEF Rings
<1> DEFINE files == IF o = "create_err" THEN r.files ELSE [r.files EXCEPT ![next] = <<>>]
           sizes == IF o = "create_err" THEN r.sizes ELSE [r.sizes EXCEPT ![next] = size]
           idx == IF fails THEN r.idx ELSE r.idx + 1
<1>4. files \in [0 .. MaxFiles - 1 -> Seq(P)] /\ sizes \in [0 .. MaxFiles - 1 -> Nat]
  BY <1>2, <1>9 DEF Rings
<1>5. idx \in Nat
  BY DEF Rings
<1>6. Rotate(r, o) = [r EXCEPT !.open = ~fails, !.iface = FALSE, !.bytes = 0, !.files = files,
                               !.sizes = sizes, !.idx = idx]
  BY Zenon DEF Rotate, Rings, size
<1> HIDE DEF fails, files, sizes, idx
<1>7. [r EXCEPT !.open = ~fails, !.iface = FALSE, !.bytes = 0, !.files = files, !.sizes = sizes,
                !.idx = idx] \in Rings(P)
  BY <1>3, <1>4, <1>5 DEF Rings
<1> QED
  BY <1>6, <1>7

(* The packets that are written have numbers and a size.                   *)
Packets(P) == \A p \in P : p.n \in Nat /\ p.kind \in Kinds

LEMMA CurrentIsAFile ==
  ASSUME NEW r, r.idx \in Nat
  PROVE  Current(r) \in 0 .. MaxFiles - 1
<1>1. r.idx - 1 \in Int
  OBVIOUS
<1> QED
  BY <1>1, DiskRingAssumption DEF Current

(* What is written before the packet block.                                *)
Preceding(r) == IF r.iface THEN 0 ELSE InterfaceBytes

LEMMA BlockSizes ==
  ASSUME NEW P, Packets(P), NEW r \in Rings(P), NEW p \in P
  PROVE  BlockBytes[p.kind] \in Nat \ {0} /\ Preceding(r) \in Nat
BY DiskRingAssumption DEF Packets, Preceding

(* A packet is appended to the current file.                               *)
Appending(r, p) ==
  [r EXCEPT !.bytes = @ + BlockBytes[p.kind], !.iface = TRUE,
            !.files[Current(r)] = Append(@, p),
            !.sizes[Current(r)] = @ + Preceding(r) + BlockBytes[p.kind]]

(* The blocks are written, or the packet is lost.                          *)
LEMMA WriteBlocksType ==
  ASSUME NEW P, Packets(P), NEW s \in Rings(P), NEW p \in P, NEW o
  PROVE  /\ WriteBlocks(s, p, o) \in Rings(P)
         /\ \/ WriteBlocks(s, p, o) = Appending(s, p) /\ s.open
            \/ WriteBlocks(s, p, o).lost
         /\ s.lost => WriteBlocks(s, p, o).lost
         /\ Appending(s, p) \in Rings(P) /\ Appending(s, p).lost = s.lost
<1> DEFINE f == Current(s)
           n == BlockBytes[p.kind]
           head == Preceding(s)
           files == [s.files EXCEPT ![f] = Append(s.files[f], p)]
           sizes == [s.sizes EXCEPT ![f] = s.sizes[f] + head + n]
           opened == [s.sizes EXCEPT ![f] = s.sizes[f] + head]
<1>1. f \in 0 .. MaxFiles - 1 /\ n \in Nat \ {0} /\ head \in Nat
  BY CurrentIsAFile, BlockSizes DEF Rings
<1>2. /\ Appending(s, p) = [s EXCEPT !.bytes = s.bytes + n, !.iface = TRUE, !.files = files,
                                     !.sizes = sizes]
      /\ \/ WriteBlocks(s, p, o) = [s EXCEPT !.lost = TRUE]
         \/ WriteBlocks(s, p, o) = [s EXCEPT !.lost = TRUE, !.iface = TRUE, !.sizes = opened]
         \/ WriteBlocks(s, p, o) = [s EXCEPT !.bytes = s.bytes + n, !.iface = TRUE, !.files = files,
                                             !.sizes = sizes] /\ s.open
  <2>1. Appending(s, p) = [s EXCEPT !.bytes = s.bytes + n, !.iface = TRUE, !.files = files,
                                    !.sizes = sizes]
    BY Zenon DEF Appending, Rings
  <2>2. CASE ~s.open \/ (~s.iface /\ o = "iface_err")
    BY <2>1, <2>2, Zenon DEF WriteBlocks
  <2>3. CASE ~(~s.open \/ (~s.iface /\ o = "iface_err")) /\ o = "write_err"
    BY <2>1, <2>3, Zenon DEF WriteBlocks, Preceding
  <2>4. CASE ~(~s.open \/ (~s.iface /\ o = "iface_err")) /\ o # "write_err"
    <3>1. WriteBlocks(s, p, o) = [s EXCEPT !.bytes = s.bytes + n, !.iface = TRUE, !.files = files,
                                           !.sizes = sizes]
      BY <2>4, Zenon DEF WriteBlocks, Preceding
    <3>2. s.open
      BY <2>4
    <3> QED
      BY <2>1, <3>1, <3>2, Zenon
  <2> QED
    BY <2>2, <2>3, <2>4
<1> HIDE DEF f, n, head
<1>3. s.files \in [0 .. MaxFiles - 1 -> Seq(P)] /\ s.sizes \in [0 .. MaxFiles - 1 -> Nat]
  BY DEF Rings
<1>4. Append(s.files[f], p) \in Seq(P)
  <2>1. s.files[f] \in Seq(P)
    BY <1>1, <1>3
  <2> DEFINE file == s.files[f]
  <2> HIDE DEF file
  <2>2. file \in Seq(P) => Append(file, p) \in Seq(P)
    OBVIOUS
  <2> QED
    BY <2>1, <2>2 DEF file
<1>5. s.sizes[f] + head + n \in Nat /\ s.sizes[f] + head \in Nat
  <2>1. s.sizes[f] \in Nat
    BY <1>1, <1>3
  <2>2. \A a, b, c \in Nat : a + b + c \in Nat /\ a + b \in Nat
    OBVIOUS
  <2> QED
    BY <1>1, <2>1, <2>2
<1>6. /\ files \in [0 .. MaxFiles - 1 -> Seq(P)]
      /\ sizes \in [0 .. MaxFiles - 1 -> Nat] /\ opened \in [0 .. MaxFiles - 1 -> Nat]
  <2>1. files \in [0 .. MaxFiles - 1 -> Seq(P)]
    BY <1>1, <1>3, <1>4
  <2>2. PICK a \in Nat, b \in Nat : a = s.sizes[f] + head + n /\ b = s.sizes[f] + head
    BY <1>5
  <2>3. /\ [s.sizes EXCEPT ![f] = a] \in [0 .. MaxFiles - 1 -> Nat]
        /\ [s.sizes EXCEPT ![f] = b] \in [0 .. MaxFiles - 1 -> Nat]
    BY <1>3, <2>2
  <2> QED
    BY <2>1, <2>2, <2>3, Zenon
<1> HIDE DEF files, sizes, opened
<1>7. s.bytes + n \in Nat
  BY <1>1 DEF Rings
<1>8. /\ [s EXCEPT !.lost = TRUE] \in Rings(P)
      /\ [s EXCEPT !.lost = TRUE, !.iface = TRUE, !.sizes = opened] \in Rings(P)
  BY <1>6 DEF Rings
<1>10. /\ [s EXCEPT !.lost = TRUE].lost = TRUE
       /\ [s EXCEPT !.lost = TRUE, !.iface = TRUE, !.sizes = opened].lost = TRUE
  BY DEF Rings
<1>9. /\ [s EXCEPT !.bytes = s.bytes + n, !.iface = TRUE, !.files = files, !.sizes = sizes] \in Rings(P)
      /\ [s EXCEPT !.bytes = s.bytes + n, !.iface = TRUE, !.files = files, !.sizes = sizes].lost = s.lost
  BY <1>6, <1>7 DEF Rings
<1> QED
  BY <1>2, <1>8, <1>9, <1>10

(* write_packet leaves a ring: the file it appends to is one of its own.   *)
LEMMA WritePacketType ==
  ASSUME NEW P, Packets(P), NEW r \in Rings(P), NEW p \in P, NEW o
  PROVE  WritePacket(r, p, o) \in Rings(P)
<1>1. (IF r.bytes >= MaxBytes THEN Rotate(r, o) ELSE r) \in Rings(P)
  BY RotateType
<1> QED
  BY <1>1, WriteBlocksType DEF WritePacket

(* The ring of a session without one, and the one DiskRing::new returns.   *)
LEMMA NoRingType ==
  ASSUME NEW P
  PROVE  NoRing \in Rings(P) /\ NewRing \in Rings(P)
<1> DEFINE files == [f \in 0 .. MaxFiles - 1 |-> <<>>]
           sizes == [f \in 0 .. MaxFiles - 1 |-> 0]
<1>0. files \in [0 .. MaxFiles - 1 -> Seq(P)] /\ sizes \in [0 .. MaxFiles - 1 -> Nat]
  OBVIOUS
<1> HIDE DEF files, sizes
<1>1. [on |-> FALSE, idx |-> 0, bytes |-> 0, open |-> FALSE, iface |-> FALSE, lost |-> FALSE,
       files |-> files, sizes |-> sizes] \in Rings(P)
  BY <1>0 DEF Rings
<1>2. NoRing \in Rings(P)
  BY <1>1 DEF NoRing, files, sizes
<1>3. [NoRing EXCEPT !.on = TRUE] \in Rings(P)
  BY <1>2 DEF Rings
<1> QED
  BY <1>2, <1>3, RotateType DEF NewRing

------------------------------------------------------------------------------
(* What the files hold: a window of the newest packets. *)

(* A remainder is what a division by m leaves below m.                    *)
LEMMA Remainder ==
  ASSUME NEW a \in Nat, NEW m \in Nat \ {0}, NEW q \in Nat, NEW r \in 0 .. m - 1, a = m * q + r
  PROVE  a % m = r
<1> DEFINE k == a \div m
           s == a % m
<1>1. k \in Nat /\ s \in 0 .. m - 1 /\ a = m * k + s
  OBVIOUS
<1> HIDE DEF k, s
<1>2. \A x, y \in Nat : x < y => m * x + m <= m * y
  <2>1. \A y, d \in Nat : m * (y + d) = m * y + m * d
    OBVIOUS
  <2>2. \A d \in Nat : m * d >= 0
    OBVIOUS
  <2>3. ASSUME NEW x \in Nat, NEW y \in Nat, x < y PROVE m * x + m <= m * y
    <3>1. PICK d \in Nat : y = (x + 1) + d
      <4>1. y - (x + 1) \in Nat /\ y = (x + 1) + (y - (x + 1))
        BY <2>3
      <4> QED
        BY <4>1
    <3>2. m * y = m * (x + 1) + m * d /\ m * (x + 1) = m * x + m
      BY <2>1, <3>1
    <3>3. m * d \in Nat /\ m * x \in Nat
      BY <2>2
    <3> QED
      BY <3>2, <3>3
  <2> QED
    BY <2>3
<1>3. m * q \in Nat /\ m * k \in Nat
  <2>1. \A x, y \in Nat : x * y \in Nat
    OBVIOUS
  <2> QED
    BY <1>1, <2>1
<1>4. ~(q < k) /\ ~(k < q)
  <2>1. q < k => m * q + m <= m * k
    BY <1>1, <1>2
  <2>2. k < q => m * k + m <= m * q
    BY <1>1, <1>2
  <2>3. PICK u \in Nat, v \in Nat : u = m * q /\ v = m * k
    BY <1>3
  <2>4. u + r = v + s /\ (q < k => u + m <= v) /\ (k < q => v + m <= u)
    BY <1>1, <2>1, <2>2, <2>3
  <2> QED
    BY <1>1, <2>4
<1>5. q = k
  BY <1>1, <1>4
<1>6. s = r
  BY <1>1, <1>3, <1>5
<1> QED
  BY <1>6 DEF s

LEMMA NextRemainder ==
  ASSUME NEW x \in Nat, NEW m \in Nat \ {0}
  PROVE  (x + 1) % m = IF (x % m) + 1 = m THEN 0 ELSE (x % m) + 1
<1> DEFINE q == x \div m
           r == x % m
<1>1. q \in Nat /\ r \in 0 .. m - 1 /\ x = m * q + r
  OBVIOUS
<1> HIDE DEF q, r
<1>4. m * q \in Nat
  BY <1>1
<1>2. CASE r + 1 = m
  <2>1. x + 1 = m * (q + 1) + 0 /\ q + 1 \in Nat
    BY <1>1, <1>2
  <2>2. 0 \in 0 .. m - 1
    OBVIOUS
  <2>3. (x + 1) % m = 0
    BY <2>1, <2>2, Remainder
  <2> QED
    BY <1>2, <2>3 DEF r
<1>3. CASE r + 1 # m
  <2>1. x + 1 = m * q + (r + 1) /\ r + 1 \in 0 .. m - 1
    BY <1>1, <1>3, <1>4
  <2>2. (x + 1) % m = r + 1
    BY <1>1, <2>1, Remainder
  <2> QED
    BY <1>3, <2>2 DEF r
<1> QED
  BY <1>2, <1>3

(* The numbers of the packets in file f, and in all files.                 *)
InFile(r, f) == {r.files[f][i].n : i \in 1 .. Len(r.files[f])}
InFiles(r) == UNION {InFile(r, f) : f \in 0 .. MaxFiles - 1}

(* p has a higher number than any packet on disk.                          *)
Newer(p, r) == \A n \in InFiles(r) : n < p.n

(* How many files were opened after file f.                                *)
Age(r, f) == IF f <= Current(r) THEN Current(r) - f ELSE Current(r) + MaxFiles - f

(* The next file is opened.                                                *)
Opening(r) ==
  [r EXCEPT !.open = TRUE, !.iface = FALSE, !.bytes = 0,
            !.files[r.idx % MaxFiles] = <<>>, !.sizes[r.idx % MaxFiles] = SectionBytes,
            !.idx = @ + 1]

(* A file opened earlier holds older packets.                              *)
FilesInOrder(r) ==
  \A f, g \in 0 .. MaxFiles - 1 :
    Age(r, f) < Age(r, g) => \A m \in InFile(r, g), n \in InFile(r, f) : m < n

(* Every file but the current one is full, or was never opened, and none   *)
(* is larger than it was when the packet that filled it came.              *)
FileOf(r, f) ==
  /\ f # Current(r) /\ f < r.idx => r.sizes[f] >= FileSize(MaxBytes)
  /\ f >= r.idx => r.files[f] = <<>>
  /\ r.files[f] # <<>> =>
       r.sizes[f] < FileSize(MaxBytes) + BlockBytes[r.files[f][Len(r.files[f])].kind]

(* The current file: its headers, and what current_bytes counts.           *)
CurrentFile(r) ==
  /\ r.iface => r.sizes[Current(r)] = FileSize(r.bytes)
  /\ ~r.iface => r.sizes[Current(r)] = SectionBytes /\ r.bytes = 0

(* The files of a ring after count packets, none of which was lost.        *)
Layout(r, count) ==
  /\ r.open /\ r.idx \in Nat \ {0}
  /\ CurrentFile(r) /\ FilesInOrder(r)
  /\ \A f \in 0 .. MaxFiles - 1 : FileOf(r, f)
  /\ IsFiniteSet(InFiles(r))
  /\ r.idx <= MaxFiles => Cardinality(InFiles(r)) = count

(* The ages of the files are different, and opening the next one, which is *)
(* the oldest, makes each of the others older by one.                      *)
Opened(r, s, next) ==
  /\ Current(s) = next /\ next \in 0 .. MaxFiles - 1 /\ Current(r) \in 0 .. MaxFiles - 1
  /\ r.idx < MaxFiles => next = r.idx /\ Current(r) = r.idx - 1
  /\ \A f, g \in 0 .. MaxFiles - 1 : f # g => Age(r, f) # Age(r, g)
  /\ \A f \in 0 .. MaxFiles - 1 : Age(r, f) \in 0 .. MaxFiles - 1
  /\ Age(r, next) = MaxFiles - 1
  /\ \A f \in 0 .. MaxFiles - 1 : f # next => Age(s, f) = Age(r, f) + 1

LEMMA Ages ==
  ASSUME NEW r, r.idx \in Nat \ {0}, NEW s, s.idx = r.idx + 1
  PROVE  Opened(r, s, r.idx % MaxFiles)
<1> DEFINE next == r.idx % MaxFiles
<1>1. PICK x \in Nat, m \in Nat \ {0} : r.idx = x + 1 /\ m = MaxFiles
  <2>1. r.idx - 1 \in Nat /\ r.idx = (r.idx - 1) + 1
    OBVIOUS
  <2> QED
    BY <2>1, DiskRingAssumption
<1>2. PICK cur : cur = x % m
  OBVIOUS
<1>3. cur \in 0 .. m - 1 /\ next = IF cur + 1 = m THEN 0 ELSE cur + 1
  <2>1. cur \in 0 .. m - 1
    BY <1>2
  <2>2. next = (x + 1) % m
    BY <1>1
  <2>3. (x + 1) % m = IF (x % m) + 1 = m THEN 0 ELSE (x % m) + 1
    BY NextRemainder
  <2> QED
    BY <1>2, <2>1, <2>2, <2>3
<1>4. x + 1 < m => next = x + 1 /\ cur = x
  BY <1>1, <1>2
<1>5. Current(r) = cur /\ Current(s) = next /\ next = r.idx % MaxFiles
  BY <1>1, <1>2 DEF Current
<1> HIDE DEF next
<1>6. \A f : /\ Age(r, f) = IF f <= cur THEN cur - f ELSE cur + m - f
             /\ Age(s, f) = IF f <= next THEN next - f ELSE next + m - f
  BY <1>1, <1>5 DEF Age
<1> QED
  BY <1>1, <1>3, <1>4, <1>5, <1>6 DEF Opened

LEMMA InFileNumbers ==
  ASSUME NEW P, Packets(P), NEW r \in Rings(P), NEW f \in 0 .. MaxFiles - 1
  PROVE  \A n \in InFile(r, f) : n \in Nat
<1>1. r.files[f] \in Seq(P)
  BY DEF Rings
<1>2. \A i \in 1 .. Len(r.files[f]) : r.files[f][i] \in P
  BY <1>1
<1> QED
  BY <1>2 DEF InFile, Packets

(* The next file is emptied: it held the oldest packets.                   *)
LEMMA RotateKeeps ==
  ASSUME NEW P, Packets(P), NEW r \in Rings(P), NEW count, Layout(r, count), r.bytes >= MaxBytes,
         NEW next, next = r.idx % MaxFiles,
         NEW s, s = Opening(r), s \in Rings(P)
  PROVE  /\ Layout(s, count) /\ s.bytes = 0
         /\ InFiles(s) = InFiles(r) \ InFile(r, next)
         /\ \A m \in InFile(r, next), n \in InFiles(s) : m < n
<1> DEFINE Fs == 0 .. MaxFiles - 1
<1>1. /\ r.idx \in Nat \ {0} /\ MaxBytes \in Nat \ {0} /\ MaxFiles \in Nat \ {0}
      /\ SectionBytes \in Nat /\ InterfaceBytes \in Nat /\ r.bytes \in Nat
  BY DiskRingAssumption DEF Layout, Rings
<1>2. s.open = TRUE /\ s.iface = FALSE /\ s.bytes = 0 /\ s.idx = r.idx + 1
  BY DEF Opening, Rings
<1>3. next \in Fs /\ DOMAIN r.files = Fs /\ DOMAIN r.sizes = Fs
  BY <1>1, <1>2, Ages DEF Rings, Opened
<1>4. /\ s.files = [r.files EXCEPT ![next] = <<>>]
      /\ s.sizes = [r.sizes EXCEPT ![next] = SectionBytes]
  BY DEF Opening, Rings
<1>5. /\ s.files[next] = <<>> /\ s.sizes[next] = SectionBytes
      /\ \A f \in Fs : f # next => s.files[f] = r.files[f] /\ s.sizes[f] = r.sizes[f]
  BY <1>3, <1>4
<1>6. InFile(s, next) = {} /\ \A f \in Fs : f # next => InFile(s, f) = InFile(r, f)
  BY <1>5 DEF InFile
<1>7. /\ Current(s) = next /\ Current(r) \in Fs
      /\ r.idx < MaxFiles => next = r.idx /\ Current(r) = r.idx - 1
      /\ \A f, g \in Fs : f # g => Age(r, f) # Age(r, g)
      /\ \A f \in Fs : Age(r, f) \in 0 .. MaxFiles - 1
      /\ Age(r, next) = MaxFiles - 1
      /\ \A f \in Fs : f # next => Age(s, f) = Age(r, f) + 1
  <2>1. Opened(r, s, next)
    BY <1>1, <1>2, Ages
  <2> QED
    BY <2>1 DEF Opened
<1>8. \A f \in Fs : f # next => \A m \in InFile(r, next), n \in InFile(r, f) : m < n
  <2>1. \A f \in Fs : f # next => Age(r, f) < Age(r, next)
    BY <1>1, <1>3, <1>7
  <2> QED
    BY <1>3, <2>1 DEF Layout, FilesInOrder
<1>9. \A f \in Fs : \A n \in InFile(r, f) : n \in Nat
  BY InFileNumbers
<1>10. InFiles(s) = InFiles(r) \ InFile(r, next)
  <2>1. \A f \in Fs : f # next => InFile(r, f) \cap InFile(r, next) = {}
    BY <1>3, <1>8, <1>9
  <2> QED
    BY <1>3, <1>6, <2>1 DEF InFiles
<1>11. \A m \in InFile(r, next), n \in InFiles(s) : m < n
  BY <1>3, <1>6, <1>8 DEF InFiles
<1>12. r.sizes[Current(r)] >= FileSize(MaxBytes)
  <2>1. r.iface
    BY <1>1 DEF Layout, CurrentFile
  <2> QED
    BY <1>1, <2>1 DEF Layout, CurrentFile, FileSize
<1>13. ASSUME NEW f \in Fs PROVE FileOf(s, f)
  <2>1. CASE f = next
    BY <1>2, <1>5, <1>7, <2>1 DEF FileOf
  <2>2. CASE f # next
    <3>1. FileOf(r, f)
      BY DEF Layout
    <3>2. f >= s.idx => f >= r.idx
      BY <1>1, <1>2
    <3>3. f < s.idx => f < r.idx
      <4>1. f \in Nat /\ (f = r.idx => r.idx < MaxFiles)
        BY <1>1
      <4> QED
        BY <1>1, <1>2, <1>7, <2>2, <4>1
    <3>4. s.files[f] = r.files[f] /\ s.sizes[f] = r.sizes[f]
      BY <1>5, <2>2
    <3>5. f < s.idx => r.sizes[f] >= FileSize(MaxBytes)
      BY <1>12, <3>1, <3>3 DEF FileOf
    <3> QED
      BY <3>1, <3>2, <3>4, <3>5 DEF FileOf
  <2> QED
    BY <2>1, <2>2
<1>14. FilesInOrder(s)
  <2>1. ASSUME NEW f \in Fs, NEW g \in Fs, Age(s, f) < Age(s, g), NEW m \in InFile(s, g),
               NEW n \in InFile(s, f)
        PROVE  m < n
    <3>1. f # next /\ g # next
      BY <1>6, <2>1
    <3>2. Age(r, f) < Age(r, g)
      BY <1>7, <2>1, <3>1
    <3> QED
      BY <1>6, <2>1, <3>1, <3>2 DEF Layout, FilesInOrder
  <2> QED
    BY <2>1 DEF FilesInOrder
<1>15. IsFiniteSet(InFiles(s))
  BY <1>10, FS_Subset DEF Layout
<1>16. s.idx <= MaxFiles => Cardinality(InFiles(s)) = count
  <2> SUFFICES ASSUME s.idx <= MaxFiles PROVE Cardinality(InFiles(s)) = count
    OBVIOUS
  <2>1. r.idx < MaxFiles
    BY <1>1, <1>2
  <2>2. next = r.idx /\ FileOf(r, next)
    BY <1>3, <1>7, <2>1 DEF Layout
  <2>3. r.files[next] = <<>>
    BY <1>1, <2>2 DEF FileOf
  <2>4. InFile(r, next) = {}
    BY <2>3 DEF InFile
  <2>5. InFiles(s) = InFiles(r) /\ r.idx <= MaxFiles
    BY <1>1, <1>10, <2>1, <2>4
  <2> QED
    BY <2>5 DEF Layout
<1>17. CurrentFile(s)
  BY <1>2, <1>5, <1>7 DEF CurrentFile
<1>18. s.idx \in Nat \ {0}
  BY <1>1, <1>2
<1> QED
  BY <1>2, <1>10, <1>11, <1>13, <1>14, <1>15, <1>16, <1>17, <1>18 DEF Layout

(* A packet newer than all that are there is appended to the current file. *)
LEMMA AppendKeeps ==
  ASSUME NEW P, Packets(P), NEW r \in Rings(P), NEW count, Layout(r, count),
         r.bytes < MaxBytes, NEW p \in P, Newer(p, r),
         NEW s, s = Appending(r, p)
  PROVE  /\ Layout(s, count + 1)
         /\ InFiles(s) = InFiles(r) \cup {p.n}
<1> DEFINE Fs == 0 .. MaxFiles - 1
           cur == Current(r)
           n1 == BlockBytes[p.kind]
<1>0. n1 \in Nat \ {0} /\ Preceding(r) \in Nat /\ cur \in Fs
  BY BlockSizes, CurrentIsAFile DEF Layout
<1>1. /\ r.idx \in Nat \ {0} /\ r.bytes \in Nat /\ MaxBytes \in Nat \ {0} /\ MaxFiles \in Nat \ {0}
      /\ SectionBytes \in Nat /\ InterfaceBytes \in Nat
  BY DiskRingAssumption DEF Layout, Rings
<1>3. DOMAIN r.files = Fs /\ DOMAIN r.sizes = Fs /\ r.files[cur] \in Seq(P) /\ r.sizes[cur] \in Nat
  BY <1>0 DEF Rings
<1>2. /\ s.open = r.open /\ s.bytes = r.bytes + n1 /\ s.idx = r.idx /\ s.iface = TRUE
      /\ s.files = [r.files EXCEPT ![cur] = Append(r.files[cur], p)]
      /\ s.sizes = [r.sizes EXCEPT ![cur] = r.sizes[cur] + Preceding(r) + n1]
  BY DEF Appending, Rings
<1> HIDE DEF cur, n1
<1>4. /\ s.files[cur] = Append(r.files[cur], p) /\ s.sizes[cur] = r.sizes[cur] + Preceding(r) + n1
      /\ \A f \in Fs : f # cur => s.files[f] = r.files[f] /\ s.sizes[f] = r.sizes[f]
  BY <1>0, <1>2, <1>3
<1>5. /\ InFile(s, cur) = InFile(r, cur) \cup {p.n}
      /\ s.files[cur][Len(s.files[cur])] = p
  <2>1. PICK q : q = r.files[cur]
    OBVIOUS
  <2>2. /\ Len(Append(q, p)) = Len(q) + 1 /\ Len(q) \in Nat /\ Append(q, p)[Len(q) + 1] = p
        /\ \A i \in 1 .. Len(q) : Append(q, p)[i] = q[i]
    BY <1>3, <2>1
  <2>3. {Append(q, p)[i].n : i \in 1 .. Len(Append(q, p))} = {q[i].n : i \in 1 .. Len(q)} \cup {p.n}
    BY <2>2
  <2> QED
    BY <1>4, <2>1, <2>2, <2>3 DEF InFile
<1>6. \A f \in Fs : f # cur => InFile(s, f) = InFile(r, f)
  BY <1>4 DEF InFile
<1>7. InFiles(s) = InFiles(r) \cup {p.n}
  BY <1>0, <1>5, <1>6 DEF InFiles
<1>8. p.n \notin InFiles(r)
  <2>2. \A n \in InFiles(r) : n < p.n /\ p.n \in Nat
    BY DEF Newer, Packets
  <2> QED
    BY <2>2
<1>9. Current(s) = cur /\ \A f : Age(s, f) = Age(r, f)
  BY <1>2 DEF Current, Age, cur
<1>10. s.sizes[cur] = FileSize(s.bytes)
  <2>1. CASE r.iface
    BY <1>0, <1>1, <1>2, <1>3, <1>4, <2>1 DEF Layout, CurrentFile, FileSize, Preceding, cur
  <2>2. CASE ~r.iface
    BY <1>0, <1>1, <1>2, <1>3, <1>4, <2>2 DEF Layout, CurrentFile, FileSize, Preceding, cur
  <2> QED
    BY <2>1, <2>2
<1>11. ASSUME NEW f \in Fs PROVE FileOf(s, f)
  <2>0. FileOf(r, f)
    BY DEF Layout
  <2>1. CASE f = cur
    <3>1. s.sizes[f] < FileSize(MaxBytes) + n1
      BY <1>0, <1>1, <1>2, <1>10, <2>1 DEF FileSize
    <3>2. cur < r.idx
      <4>1. r.idx - 1 \in Nat /\ (r.idx - 1) % MaxFiles <= r.idx - 1
        <5>1. \A x \in Nat, m \in Nat \ {0} : x % m <= x
          <6>1. ASSUME NEW x \in Nat, NEW m \in Nat \ {0} PROVE x % m <= x
            <7>1. CASE x < m
              BY <7>1
            <7>2. CASE ~(x < m)
              <8>1. x % m \in 0 .. m - 1
                OBVIOUS
              <8> QED
                BY <7>2, <8>1
            <7> QED
              BY <7>1, <7>2
          <6> QED
            BY <6>1
        <5>2. r.idx - 1 \in Nat
          BY <1>1
        <5> QED
          BY <1>1, <5>1, <5>2
      <4> QED
        BY <1>1, <4>1 DEF cur, Current
    <3>3. ~(f >= s.idx)
      BY <1>0, <1>1, <1>2, <2>1, <3>2
    <3> QED
      BY <1>5, <1>9, <2>1, <3>1, <3>3 DEF FileOf, n1
  <2>2. CASE f # cur
    BY <1>2, <1>4, <1>9, <2>0, <2>2 DEF FileOf, cur
  <2> QED
    BY <2>1, <2>2
<1>12. FilesInOrder(s)
  <2>1. ASSUME NEW f \in Fs, NEW g \in Fs, Age(s, f) < Age(s, g), NEW m \in InFile(s, g),
               NEW n \in InFile(s, f)
        PROVE  m < n
    <3>1. Age(r, f) < Age(r, g) /\ Age(r, cur) = 0 /\ Age(r, f) \in Nat
      <4>1. /\ Age(r, cur) = IF cur <= cur THEN cur - cur ELSE cur + MaxFiles - cur
            /\ Age(r, f) = IF f <= cur THEN cur - f ELSE cur + MaxFiles - f
        BY DEF Age, cur
      <4> QED
        BY <1>0, <1>1, <1>9, <2>1, <4>1
    <3>2. g # cur
      BY <3>1
    <3>3. m \in InFile(r, g) /\ m \in InFiles(r)
      BY <1>6, <2>1, <3>2 DEF InFiles
    <3>4. CASE n \in InFile(r, f)
      BY <3>1, <3>3, <3>4 DEF Layout, FilesInOrder
    <3>5. CASE n \notin InFile(r, f)
      <4>1. n = p.n
        BY <1>5, <1>6, <2>1, <3>5
      <4> QED
        BY <3>3, <4>1 DEF Newer
    <3> QED
      BY <3>4, <3>5
  <2> QED
    BY <2>1 DEF FilesInOrder
<1>13. IsFiniteSet(InFiles(s)) /\ Cardinality(InFiles(s)) = Cardinality(InFiles(r)) + 1
  <2>1. IsFiniteSet(InFiles(r))
    BY DEF Layout
  <2> QED
    BY <1>7, <1>8, <2>1, FS_AddElement
<1>14. CurrentFile(s)
  BY <1>2, <1>9, <1>10 DEF CurrentFile
<1> QED
  BY <1>2, <1>7, <1>11, <1>12, <1>13, <1>14 DEF Layout

(* From r to s packets were given up, all older than those kept, and p is  *)
(* new.                                                                    *)
Gains(r, s, p) ==
  \E D : /\ InFiles(s) = (InFiles(r) \ D) \cup {p.n}
         /\ \A m \in D, n \in InFiles(r) \ D : m < n

(* write_packet, when the packet is on disk afterwards: at most the oldest *)
(* file is given up for it.                                                *)
LEMMA WriteKeeps ==
  ASSUME NEW P, Packets(P), NEW r \in Rings(P), NEW count, Layout(r, count),
         NEW p \in P, Newer(p, r),
         NEW o, NEW s, s = WritePacket(r, p, o), ~s.lost
  PROVE  Layout(s, count + 1) /\ Gains(r, s, p)
<1>1. PICK u : u = IF r.bytes >= MaxBytes THEN Rotate(r, o) ELSE r
  OBVIOUS
<1>2. u \in Rings(P)
  BY <1>1, RotateType
<1>4. s = WriteBlocks(u, p, o)
  BY <1>1 DEF WritePacket
<1>5. s = Appending(u, p) /\ u.open
  BY <1>2, <1>4, WriteBlocksType
<1>7. MaxBytes \in Nat \ {0} /\ r.bytes \in Nat
  BY DiskRingAssumption DEF Rings
<1>8. CASE r.bytes >= MaxBytes
  <2>1. PICK next : next = r.idx % MaxFiles
    OBVIOUS
  <2>2. u = Rotate(r, o)
    BY <1>1, <1>8
  <2>3. Rotate(r, o).open = (o \notin {"create_err", "header_err"})
    BY DEF Rotate, Rings
  <2>4. o \notin {"create_err", "header_err"}
    BY <1>5, <2>2, <2>3
  <2>5. u = Opening(r)
    BY <2>2, <2>4, Zenon DEF Rotate, Opening, Rings
  <2>6. /\ Layout(u, count) /\ u.bytes = 0
        /\ InFiles(u) = InFiles(r) \ InFile(r, next)
        /\ \A m \in InFile(r, next), n \in InFiles(u) : m < n
    BY <1>2, <1>8, <2>1, <2>5, RotateKeeps
  <2>7. u.bytes < MaxBytes /\ Newer(p, u)
    BY <1>7, <2>6 DEF Newer
  <2>8. Layout(s, count + 1) /\ InFiles(s) = InFiles(u) \cup {p.n}
    BY <1>2, <1>5, <2>6, <2>7, AppendKeeps
  <2>9. PICK D : D = InFile(r, next)
    OBVIOUS
  <2>10. InFiles(s) = (InFiles(r) \ D) \cup {p.n} /\ \A m \in D, n \in InFiles(r) \ D : m < n
    BY <2>6, <2>8, <2>9
  <2> QED
    BY <2>8, <2>10 DEF Gains
<1>9. CASE ~(r.bytes >= MaxBytes)
  <2>1. u = r /\ u.bytes < MaxBytes
    BY <1>1, <1>7, <1>9
  <2>2. Layout(s, count + 1) /\ InFiles(s) = InFiles(u) \cup {p.n}
    BY <1>2, <1>5, <2>1, AppendKeeps
  <2>3. PICK D : D = {}
    OBVIOUS
  <2>4. InFiles(s) = (InFiles(r) \ D) \cup {p.n} /\ \A m \in D, n \in InFiles(r) \ D : m < n
    BY <2>1, <2>2, <2>3
  <2> QED
    BY <2>2, <2>4 DEF Gains
<1> QED
  BY <1>8, <1>9

(* What could not be written once is missing for good. *)
LEMMA WriteStaysLost ==
  ASSUME NEW P, Packets(P), NEW r \in Rings(P), NEW p \in P, NEW o
  PROVE  r.lost => WritePacket(r, p, o).lost
<1>1. PICK u : u = IF r.bytes >= MaxBytes THEN Rotate(r, o) ELSE r
  OBVIOUS
<1>2. u \in Rings(P) /\ u.lost = r.lost
  <2>1. Rotate(r, o).lost = r.lost
    BY DEF Rotate, Rings
  <2> QED
    BY <1>1, <2>1, RotateType
<1>3. WritePacket(r, p, o) = WriteBlocks(u, p, o)
  BY <1>1 DEF WritePacket
<1>4. u.lost => WriteBlocks(u, p, o).lost
  BY <1>2, WriteBlocksType
<1> QED
  BY <1>2, <1>3, <1>4, Zenon

(* A new ring has written nothing. *)
LEMMA NewRingLayout == Layout(NewRing, 0) /\ InFiles(NewRing) = {}
<1> DEFINE Fs == 0 .. MaxFiles - 1
           empty == [f \in Fs |-> <<>>]
           zeros == [f \in Fs |-> 0]
<1>1. MaxFiles \in Nat \ {0} /\ MaxBytes \in Nat \ {0} /\ 0 \in Fs
  BY DiskRingAssumption
<1>2. /\ NewRing.open = TRUE /\ NewRing.bytes = 0 /\ NewRing.idx = 1 /\ NewRing.iface = FALSE
      /\ NewRing.files = [empty EXCEPT ![0 % MaxFiles] = <<>>]
      /\ NewRing.sizes = [zeros EXCEPT ![0 % MaxFiles] = SectionBytes]
  <2>1. PICK r : r = [NoRing EXCEPT !.on = TRUE]
    OBVIOUS
  <2>2. NoRing \in Rings({})
    BY NoRingType
  <2>3. /\ r \in Rings({}) /\ r.idx = NoRing.idx /\ r.files = NoRing.files
        /\ r.sizes = NoRing.sizes
    BY <2>1, <2>2 DEF Rings
  <2>4. NoRing.idx = 0 /\ NoRing.files = empty /\ NoRing.sizes = zeros
    BY DEF NoRing
  <2>5. NewRing = Opening(r)
    BY <2>1, Zenon DEF NewRing, Rotate, Opening
  <2> HIDE DEF empty, zeros
  <2>6. /\ NewRing.open = TRUE /\ NewRing.bytes = 0 /\ NewRing.idx = r.idx + 1
        /\ NewRing.iface = FALSE
        /\ NewRing.files = [r.files EXCEPT ![r.idx % MaxFiles] = <<>>]
        /\ NewRing.sizes = [r.sizes EXCEPT ![r.idx % MaxFiles] = SectionBytes]
    BY <2>3, <2>5 DEF Opening, Rings
  <2>7. r.idx = 0 /\ r.files = empty /\ r.sizes = zeros
    BY <2>3, <2>4
  <2> QED
    BY <2>6, <2>7
<1>3. 0 % MaxFiles = 0
  BY <1>1
<1>4. (\A f \in Fs : NewRing.files[f] = <<>>) /\ NewRing.sizes[0] = SectionBytes
  BY <1>1, <1>2, <1>3
<1>5. \A f \in Fs : InFile(NewRing, f) = {}
  BY <1>4 DEF InFile
<1>6. InFiles(NewRing) = {}
  BY <1>5 DEF InFiles
<1>7. IsFiniteSet({}) /\ Cardinality({}) = 0
  BY FS_EmptySet
<1>8. Current(NewRing) = 0
  BY <1>2, <1>3 DEF Current
<1>9. \A f \in Fs : FileOf(NewRing, f)
  <2>1. \A f \in Fs : f < 1 => f = 0
    BY <1>1
  <2> QED
    BY <1>2, <1>4, <1>8, <2>1, Zenon DEF FileOf
<1>10. FilesInOrder(NewRing)
  BY <1>5 DEF FilesInOrder
<1>11. CurrentFile(NewRing)
  BY <1>2, <1>4, <1>8 DEF CurrentFile
<1> QED
  BY <1>2, <1>6, <1>7, <1>9, <1>10, <1>11 DEF Layout

(* What is on disk, as the session counts it. *)
LEMMA NumbersOnDisk ==
  ASSUME NEW P, NEW r \in Rings(P)
  PROVE  {p.n : p \in OnDisk(r)} = InFiles(r)
<1>1. \A f \in 0 .. MaxFiles - 1 : DOMAIN r.files[f] = 1 .. Len(r.files[f])
  BY DEF Rings
<1> QED
  BY <1>1 DEF OnDisk, InFiles, InFile

=============================================================================
