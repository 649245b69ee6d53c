------------------------------ MODULE CapFilter ------------------------------
(***************************************************************************)
(* Capture filters (capture/cap_filter.rs, capture/bpf.rs): the parser of  *)
(* the tcpdump subset, its evaluation on a frame in the capture thread,    *)
(* its compilation to classic BPF for the kernel, and what the kernel of   *)
(* Linux makes of such a program.                                          *)
(*                                                                         *)
(* A text is a sequence of tokens, a token a sequence of words: <<"(">>,   *)
(* <<"and">>, <<"port", "443">>.  A frame is a record as in Layers.        *)
(***************************************************************************)
EXTENDS Sequences, Integers, SequencesExt, FiniteSetsExt

Protos == {"tcp", "udp", "icmp", "arp", "ip", "ip6"}
V4Hosts == {"a", "b"}
V6Hosts == {"a6"}
Nets == [n |-> {"a"}]      \* net n holds the host a and not the host b

True == [op |-> "true"]
Error == [op |-> "error"]
Atom(words) == [op |-> "atom", words |-> words]
Not(f) == [op |-> "not", f |-> f]
Binary(op, l, r) == [op |-> op, l |-> l, r |-> r]

(***************************************************************************)
(* The grammar, which both kinds of filters have.  split_top cuts at the   *)
(* separators outside of brackets; the parts are joined from the left, so  *)
(* the last cut is the root.  What is left without a separator is an atom. *)
(***************************************************************************)
Depth(s, i) ==
  Quantify(1 .. i, LAMBDA j : s[j] = <<"(">>) - Quantify(1 .. i, LAMBDA j : s[j] = <<")">>)

Cuts(s, sep) == {i \in DOMAIN s : s[i] = <<sep>> /\ Depth(s, i) = 0}

RECURSIVE ParseNotFirst(_, _)
ParseNotFirst(s, level) ==
  LET next == IF level = "or" THEN "and" ELSE "not"
      cuts == Cuts(s, level)
      i == Max(cuts)
  IN  CASE Len(s) > 1 /\ s[1] = <<"not">> -> Not(ParseNotFirst(Tail(s), level))
        [] level # "not" /\ cuts # {} ->
             Binary(level, ParseNotFirst(SubSeq(s, 1, i - 1), level),
                           ParseNotFirst(SubSeq(s, i + 1, Len(s)), next))
        [] level # "not" -> ParseNotFirst(s, next)
        [] Len(s) > 1 /\ s[1] = <<"(">> -> ParseNotFirst(SubSeq(s, 2, Len(s) - 1), "or")
        [] OTHER -> Atom(FlattenSeq(s))

(* parse_or, parse_and and parse_not *)
RECURSIVE ParseLevel(_, _)
ParseLevel(s, level) ==
  LET next == IF level = "or" THEN "and" ELSE "not"
      cuts == Cuts(s, level)
      i == Max(cuts)
  IN  CASE level # "not" /\ cuts # {} ->
             Binary(level, ParseLevel(SubSeq(s, 1, i - 1), level),
                           ParseLevel(SubSeq(s, i + 1, Len(s)), next))
        [] level # "not" /\ cuts = {} -> ParseLevel(s, next)
        [] level = "not" /\ Len(s) > 1 /\ s[1] = <<"not">> -> Not(ParseLevel(Tail(s), "not"))
        [] level = "not" /\ Len(s) > 1 /\ s[1] = <<"(">> /\ Last(s) = <<")">> ->
             ParseLevel(SubSeq(s, 2, Len(s) - 1), "or")
        [] OTHER -> Atom(FlattenSeq(s))

RECURSIVE Atoms(_)
Atoms(f) ==
  CASE f.op = "atom"          -> {f.words}
    [] f.op = "not"           -> Atoms(f.f)
    [] f.op \in {"and", "or"} -> Atoms(f.l) \cup Atoms(f.r)

(* parse_atom: the atoms there are *)
KnownAtom(w) ==
  LET hosts == V4Hosts \cup V6Hosts
      dirs == {"src", "dst"}
  IN  \/ Len(w) = 1 /\ w[1] \in Protos
      \/ Len(w) = 2 /\ w[1] = "host" /\ w[2] \in hosts
      \/ Len(w) = 2 /\ w[1] = "net" /\ w[2] \in DOMAIN Nets
      \/ Len(w) = 2 /\ w[1] = "port"
      \/ Len(w) = 3 /\ w[1] \in dirs /\ w[2] = "host" /\ w[3] \in hosts
      \/ Len(w) = 3 /\ w[1] \in dirs /\ w[2] = "port"

(* parse_capture_filter *)
ParseCaptureFilter(s) ==
  IF s = <<>> THEN True
  ELSE LET f == ParseLevel(s, "or")
       IN  IF \A w \in Atoms(f) : KnownAtom(w) THEN f ELSE Error

(***************************************************************************)
(* matches_raw: what the filter says of a frame.  It finds its own way to  *)
(* the headers, by the ether type and behind one VLAN tag at most, and     *)
(* takes the byte of the IPv6 header for the protocol, whatever extension  *)
(* headers follow.  has_port finds the ports behind the options of an IPv4 *)
(* header, and only of TCP and UDP.                                        *)
(***************************************************************************)
(* l3_offset and link_ethertype *)
NetAt(w) == IF w.cut = "link" \/ w.tags > 1 \/ w.link = "raw" THEN "none" ELSE w.net

IpAt(w) == NetAt(w) \in {"ip4", "ip6"} /\ w.cut # "net"

ProtoAt(w) == IF w.exts THEN "extension" ELSE w.proto

(* The ports, where a later fragment has bytes of the datagram. *)
SportAt(w) == IF w.off > 0 THEN "junk" ELSE w.sport
DportAt(w) == IF w.off > 0 THEN "junk" ELSE w.dport

Chosen(f, src, dst) ==
  CASE f[1] = "src" -> {src} [] f[1] = "dst" -> {dst} [] OTHER -> {src, dst}

HasHost(f, w) == IpAt(w) /\ Last(f) \in Chosen(f, w.src, w.dst)

HasPortEitherWay(f, w) ==
  /\ IpAt(w) /\ w.cut # "l4"
  /\ ProtoAt(w) \in {"tcp", "udp"}
  /\ Last(f) \in {SportAt(w), DportAt(w)}

HasPort(f, w) ==
  /\ IpAt(w) /\ w.cut # "l4"
  /\ ProtoAt(w) \in {"tcp", "udp"}
  /\ Last(f) \in Chosen(f, SportAt(w), DportAt(w))

HasNet(f, w) == IpAt(w) /\ w.net = "ip4" /\ Nets[Last(f)] \cap {w.src, w.dst} # {}

HasProto(f, w) ==
  CASE f[1] = "arp" -> NetAt(w) = "arp"
    [] f[1] = "ip"  -> NetAt(w) = "ip4"
    [] f[1] = "ip6" -> NetAt(w) = "ip6"
    [] OTHER        -> IpAt(w) /\ ProtoAt(w) = f[1]

RECURSIVE MatchesRaw(_, _)
MatchesRaw(f, w) ==
  CASE f.op = "true" -> TRUE
    [] f.op = "not"  -> ~MatchesRaw(f.f, w)
    [] f.op = "and"  -> MatchesRaw(f.l, w) /\ MatchesRaw(f.r, w)
    [] f.op = "or"   -> MatchesRaw(f.l, w) \/ MatchesRaw(f.r, w)
    [] f.op = "atom" ->
         LET a == f.words
             what == IF Len(a) = 1 THEN "proto" ELSE a[Len(a) - 1]
         IN  CASE what = "proto" -> HasProto(a, w)
               [] what = "host"  -> HasHost(a, w)
               [] what = "port"  -> HasPort(a, w)
               [] what = "net"   -> HasNet(a, w)

(* is_kernel_simple *)
RECURSIVE IsKernelSimple(_)
IsKernelSimple(f) ==
  CASE f.op = "true"         -> TRUE
    [] f.op = "not"          -> IsKernelSimple(f.f)
    [] f.op \in {"and", "or"} -> IsKernelSimple(f.l) /\ IsKernelSimple(f.r)
    [] f.op = "atom"         ->
         IF Len(f.words) = 1 THEN f.words[1] \in Protos \ {"arp", "ip6"}
         ELSE f.words[1] # "net" /\ Last(f.words) \notin V6Hosts

(***************************************************************************)
(* Compilation.  An instruction is [code, jt, jf, k]; k is the name of the *)
(* field that is loaded, the value that is compared, or the verdict.       *)
(***************************************************************************)
(* The size bits of a load as classic BPF has them, which are not those    *)
(* that the program writes.                                                *)
ClassicSizes == [w |-> 0, h |-> 8, b |-> 16]

(* BPF_LD, BPF_LDH and BPF_LDB *)
LoadSizes == [w |-> 0, h |-> 1, b |-> 2]

Insn(code, jt, jf, k) == [code |-> code, jt |-> jt, jf |-> jf, k |-> k]
Ldh(k) == Insn(LoadSizes.h + 32, 0, 0, k)
Ldb(k) == Insn(LoadSizes.b + 32, 0, 0, k)
Ld(k) == Insn(LoadSizes.w + 32, 0, 0, k)
Jeq(v, jt, jf) == Insn(21, jt, jf, v)
Ret(v) == Insn(6, 0, 0, v)
Verdicts == <<Ret("all"), Ret("none")>>

(* layout: of Ethernet, of which the ether type has to be that of IPv4. *)
EthCheck == <<Ldh("ethertype"), Jeq("ip4", 0, 1)>>

(* push_port *)
PushPort(w) ==
  LET p == Last(w)
      proto == <<Ldb("proto"), Jeq("tcp", 0, 0), Jeq("udp", 0, 1)>>
  IN  CASE w[1] = "src" -> proto \o <<Ldh("sport"), Jeq(p, 0, 1)>>
        [] w[1] = "dst" -> proto \o <<Ldh("dport"), Jeq(p, 0, 1)>>
        [] OTHER -> proto \o <<Ldh("sport"), Jeq(p, 2, 0), Ldh("dport"), Jeq(p, 0, 1)>>

(* The checks of an atom, between the ether type and the verdicts. *)
AtomInsns(w) ==
  LET v == Last(w) IN
  CASE w = <<"ip">>                            -> <<>>
    [] Len(w) = 1 /\ w # <<"ip">>              -> <<Ldb("proto"), Jeq(v, 0, 1)>>
    [] Len(w) > 1 /\ w[Len(w) - 1] = "port"    -> PushPort(w)
    [] Len(w) = 3 /\ w[2] = "host"             -> <<Ld(w[1]), Jeq(v, 0, 1)>>
    [] OTHER -> <<Ld("src"), Jeq(v, 2, 0), Ld("dst"), Jeq(v, 0, 1)>>

(* merge_and, merge_or and merge_not: the parts keep their jumps. *)
MergeAnd(a, b) == SubSeq(a, 1, Len(a) - 2) \o b
MergeOr(a, b) == SubSeq(a, 1, Len(a) - 2) \o <<Ret("all")>> \o b
MergeNot(a) == SubSeq(a, 1, Len(a) - 2) \o <<Last(a), a[Len(a) - 1]>>

(* compile_simple_bpf, of a simple filter *)
RECURSIVE CompileSimpleBpf(_)
CompileSimpleBpf(f) ==
  CASE f.op = "true" -> EthCheck \o Verdicts
    [] f.op = "atom" -> EthCheck \o AtomInsns(f.words) \o Verdicts
    [] f.op = "and"  -> MergeAnd(CompileSimpleBpf(f.l), CompileSimpleBpf(f.r))
    [] f.op = "or"   -> MergeOr(CompileSimpleBpf(f.l), CompileSimpleBpf(f.r))
    [] f.op = "not"  -> MergeNot(CompileSimpleBpf(f.f))

(***************************************************************************)
(* The kernel: it refuses a program with an instruction it does not know   *)
(* or a jump out of it, and runs the others on every frame.  A load looks  *)
(* at a fixed place, where a frame of another layout has something else.   *)
(***************************************************************************)
KernelCodes ==
  {ClassicSizes.w + 32, ClassicSizes.h + 32, ClassicSizes.b + 32, 21, 6}

KernelAccepts(prog) ==
  /\ \A i \in DOMAIN prog :
       /\ prog[i].code \in KernelCodes
       /\ prog[i].code = 21 => i + 1 + Max({prog[i].jt, prog[i].jf}) <= Len(prog)
  /\ Last(prog).code = 6

FixedPlace(w, k) ==
  CASE w.tags > 0        -> "other"
    [] k = "ethertype"   -> w.net
    [] w.net # "ip4"     -> "other"
    [] k = "proto"       -> w.proto
    [] k = "src"         -> w.src
    [] k = "dst"         -> w.dst
    [] OTHER             -> IF w.opts THEN "other" ELSE IF k = "sport" THEN SportAt(w) ELSE DportAt(w)

RECURSIVE KernelRun(_, _, _, _)
KernelRun(prog, w, pc, acc) ==
  LET i == prog[pc] IN
  CASE i.code = 6  -> i.k = "all"
    [] i.code = 21 -> KernelRun(prog, w, pc + 1 + (IF acc = i.k THEN i.jt ELSE i.jf), acc)
    [] OTHER       -> KernelRun(prog, w, pc + 1, FixedPlace(w, i.k))

(***************************************************************************)
(* What an operator types for a filter they have in mind: a sequence of    *)
(* tokens with brackets where the grammar needs them.                      *)
(***************************************************************************)
RECURSIVE Show(_)
Show(f) ==
  LET in(g) == IF g.op = "atom" THEN Show(g) ELSE <<<<"(">>>> \o Show(g) \o <<<<")">>>>
      inAnd(g) == IF g.op = "or" THEN in(g) ELSE Show(g)
  IN  CASE f.op = "true" -> <<>>
        [] f.op = "atom" -> <<f.words>>
        [] f.op = "not"  -> <<<<"not">>>> \o in(f.f)
        [] f.op = "and"  -> inAnd(f.l) \o <<<<"and">>>> \o inAnd(f.r)
        [] f.op = "or"   -> Show(f.l) \o <<<<"or">>>> \o Show(f.r)
=============================================================================
