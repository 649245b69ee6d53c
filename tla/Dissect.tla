------------------------------- MODULE Dissect -------------------------------
(***************************************************************************)
(* What is computed from the packets of a capture: the stream a packet     *)
(* belongs to (dissect/follow.rs), the HTTP messages found in a stream     *)
(* (the same file), the datagram a fragment belongs to                     *)
(* (dissect/reassembly.rs) and the tables of conversations, endpoints,     *)
(* protocols and lengths (dissect/analysis.rs).                            *)
(*                                                                         *)
(* A packet is what Dissected of Layers makes of a frame.  Bytes are a     *)
(* sequence of values.                                                     *)
(***************************************************************************)
EXTENDS DispFilter

From(p) == <<p.src, p.sport>>
To(p) == <<p.dst, p.dport>>

(***************************************************************************)
(* follow_tcp: the segments of the two directions, put in a map by their   *)
(* sequence number (the last one of a number stays) and joined in its      *)
(* order, first the direction of the selected packet.  The payload is all  *)
(* that is behind the headers, with what fills the frame up.               *)
(***************************************************************************)
Payload(p) == IF p.wire.off > 0 THEN <<"junk">> ELSE p.wire.data \o p.wire.pad

Segments(trace, from, to) ==
  SelectSeq(trace, LAMBDA p : /\ "tcp" \in p.flags
                              /\ From(p) = from
                              /\ To(p) = to
                              /\ Payload(p) # <<>>)

AsArrived(segments) == FlattenSeq([i \in DOMAIN segments |-> Payload(segments[i])])

InOrder(segments) ==
  LET At(i) == segments[i].wire.seq
      kept == {i \in DOMAIN segments :
                 \A j \in DOMAIN segments : j > i => At(j) # At(i)}
      sorted == SetToSortSeq(kept, LAMBDA i, j : At(i) < At(j))
  IN  FlattenSeq([n \in DOMAIN sorted |-> Payload(segments[sorted[n]])])

FollowTcp(trace, sel) ==
  InOrder(Segments(trace, From(sel), To(sel))) \o InOrder(Segments(trace, To(sel), From(sel)))

(* follow_udp: the payloads of both directions as they arrived. *)
FollowUdp(trace, sel) ==
  LET same(p) == {From(p), To(p)} = {From(sel), To(sel)} /\ "udp" \in p.flags
      datagrams == SelectSeq(trace, same)
  IN  FlattenSeq([i \in DOMAIN datagrams |-> Payload(datagrams[i])])

(***************************************************************************)
(* extract_http_objects.  The bytes of a message are its request line (or  *)
(* nothing), "HTTP/1.", the rest of the head, "end" for the blank line,    *)
(* and a body.  The text is split at "HTTP/1.", which a request has at the *)
(* end of its first line, so its method stays in one part and its headers  *)
(* in the next.                                                            *)
(***************************************************************************)
(* parse_http_message *)
ParseHttpMessage(msg) ==
  LET ends == {i \in DOMAIN msg : msg[i] = "end"}
      body == SubSeq(msg, Min(ends) + 1, Len(msg))
      request == msg[1] # "HTTP/1."
  IN  IF ends = {} \/ (~request /\ body = <<>>) THEN <<>>
      ELSE <<[isRequest |-> request, line |-> msg[1], body |-> body]>>

Parts(raw) ==
  LET starts == {1} \cup {i \in DOMAIN raw : raw[i] = "HTTP/1."}
      last(i) == IF \E j \in starts : j > i THEN Min({j \in starts : j > i}) - 1 ELSE Len(raw)
  IN  [n \in 1 .. Cardinality(starts) |->
         LET i == SetToSortSeq(starts, <)[n] IN SubSeq(raw, i, last(i))]

ExtractHttpObjects(raw) ==
  LET found == FlattenSeq([n \in DOMAIN Parts(raw) |-> ParseHttpMessage(Parts(raw)[n])])
  IN  IF raw = <<>> THEN <<>>
      ELSE IF found = <<>> THEN ParseHttpMessage(raw) ELSE found

(***************************************************************************)
(* Ipv4Defrag: the pieces of the datagrams under way, by key.  ingest adds *)
(* a piece and, once one without "more" is there, tries to put them        *)
(* together; what it returns leaves the table.  Nothing is said of what    *)
(* comes out (lost) once bytes that are no IPv4 header were taken for one, *)
(* or the payload of a frame that was cut, or has no length, was taken     *)
(* beyond its end, which panics.                                           *)
(***************************************************************************)
NoFrags == [frags |-> <<>>, out |-> <<>>, lost |-> FALSE]

FragKey(w) == <<w.id, w.src, w.dst, w.proto>>

(* parse_ipv4.  Only of Ethernet is the ether type looked at; of cooked,   *)
(* raw and null frames the header is sought in one place, which is not     *)
(* where null frames have it.                                              *)
Ipv4Header(p) ==
  LET own == p.label = p.wire.link /\ p.wire.net = "ip4" /\ p.wire.tags = 0
  IN  CASE p.label \notin {"eth", "sll", "raw", "null"} \/ p.wire.cut \in {"link", "net"} -> "none"
        [] p.label = "eth" /\ ~own                           -> "none"
        [] p.label # "null" /\ own /\ p.wire.cut = "no"      -> "found"
        [] OTHER                                             -> "unsound"

Contiguous(sorted) ==
  \A i \in DOMAIN sorted :
    sorted[i].off = FoldLeft(LAMBDA n, w : n + Len(w.data), 0, SubSeq(sorted, 1, i - 1))

Ingest(table, p) ==
  LET key == FragKey(p.wire)
      old == IF key \in DOMAIN table.frags THEN table.frags[key] ELSE <<>>
      pieces == Append(old, p.wire)
      sorted == SortSeq(pieces, LAMBDA a, b : a.off < b.off)
      whole == /\ \E i \in DOMAIN pieces : ~pieces[i].more
               /\ Contiguous(sorted)
               /\ ~Last(sorted).more
      data == FlattenSeq([i \in DOMAIN sorted |-> sorted[i].data])
  IN  CASE Ipv4Header(p) = "unsound" -> [table EXCEPT !.lost = TRUE]
        [] Ipv4Header(p) = "none" \/ (p.wire.off = 0 /\ ~p.wire.more) -> table
        [] OTHER ->
             IF whole
             THEN [table EXCEPT !.frags = [k \in DOMAIN @ \ {key} |-> @[k]],
                                !.out = Append(@, [key |-> key, data |-> data])]
             ELSE [table EXCEPT !.frags = (key :> pieces) @@ @]

(* The datagrams that come out of the fragments of a trace. *)
Defragmented(trace) == FoldLeft(Ingest, NoFrags, trace)

(***************************************************************************)
(* ConversationTable: rows by kind and pair of addresses, the smaller one  *)
(* first, with a count for each direction.                                 *)
(***************************************************************************)
(* The order of the addresses as text: 10.0.0.12:80 comes before 10.0.0.1:80. *)
HostRank == [b |-> 1, a |-> 2, a6 |-> 3, mac |-> 4]
PortRank == "1000" :> 1 @@ "443" :> 2 @@ "5060" :> 3 @@ "53" :> 4 @@ "67" :> 5 @@ "80" :> 6
            @@ "" :> 0 @@ "junk" :> 7

Before(a, b) ==
  \/ HostRank[a[1]] < HostRank[b[1]]
  \/ HostRank[a[1]] = HostRank[b[1]] /\ PortRank[a[2]] <= PortRank[b[2]]

(* normalize_pair *)
PairAsSeen(a, b) == <<a, b, TRUE>>
NormalizePair(a, b) == IF Before(a, b) THEN <<a, b, TRUE>> ELSE <<b, a, FALSE>>

ConversationKinds(flags) ==
  LET kinds == flags \cap {"eth", "tcp", "udp", "ip", "ipv6"}
  IN  IF kinds = {} THEN {"ip"} ELSE kinds

Conversations(trace) ==
  LET told == SelectSeq(trace, LAMBDA p : p.src # "nobody")
      norm(p) == NormalizePair(From(p), To(p))
      keys == UNION {{<<kind>> \o SubSeq(norm(told[i]), 1, 2) : kind \in ConversationKinds(told[i].flags)}
                     : i \in DOMAIN told}
      count(k, ab) == Quantify(DOMAIN told, LAMBDA i : /\ k[1] \in ConversationKinds(told[i].flags)
                                                       /\ norm(told[i]) = <<k[2], k[3], ab>>)
  IN  [k \in keys |-> [ab |-> count(k, TRUE), ba |-> count(k, FALSE)]]

(* filter_expr: the display filter that is to show a conversation.         *)
(* strip_port leaves the port on an address of IPv6.                       *)
FilterExpr(k) ==
  LET text(e) == IF e[1] \in V6Hosts /\ e[2] # "" THEN e[1] \o ":" \o e[2] ELSE e[1]
      addr(e) == Atom(<<"ip.addr", "==", text(e)>>)
      port(e) == Atom(<<k[1] \o ".port", "==", e[2]>>)
  IN  IF k[1] \in {"tcp", "udp"}
      THEN Binary("and", Binary("and", addr(k[2]), addr(k[3])),
                         Binary("or", port(k[2]), port(k[3])))
      ELSE Binary("or", addr(k[2]), addr(k[3]))

(***************************************************************************)
(* EndpointTable, ProtoHierarchy and LengthHistogram.                      *)
(***************************************************************************)
(* endpoint_addrs: the entries a packet counts for, each of them once.     *)
EndpointAddrs(p) ==
  LET net == CASE "ipv6" \in p.flags             -> <<From(p), To(p)>>
               [] p.flags \cap {"ip", "arp"} # {} -> <<<<p.src>>, <<p.dst>>>>
               [] OTHER                          -> <<>>
      kind == IF "tcp" \in p.flags THEN "tcp" ELSE "udp"
      ports == IF p.sport = "" THEN <<>> ELSE <<<<kind, p.sport>>, <<kind, p.dport>>>>
  IN  net \o ports

Endpoints(trace) ==
  LET all == FlattenSeq([i \in DOMAIN trace |-> EndpointAddrs(trace[i])])
  IN  [e \in Range(all) |-> Quantify(DOMAIN all, LAMBDA i : all[i] = e)]

Apps == {"tls", "http2", "websocket", "sip", "dns", "dhcp", "rtp", "quic"}

(* The protocol of the summary: that of the last dissector that was called. *)
Protocol(p) ==
  CASE p.flags \cap {"mdns", "llmnr"} # {} -> CHOOSE f \in p.flags \cap {"mdns", "llmnr"} : TRUE
    [] "http" \in p.flags                 -> "http"
    [] p.flags \cap Apps # {}             -> CHOOSE f \in p.flags \cap Apps : TRUE
    [] p.flags \cap {"tcp", "udp", "icmp", "icmpv6", "arp"} # {} ->
         CHOOSE f \in p.flags \cap {"tcp", "udp", "icmp", "icmpv6", "arp"} : TRUE
    [] OTHER                              -> "data"

Hierarchy(trace) ==
  [n \in {Protocol(trace[i]) : i \in DOMAIN trace} |->
     Quantify(DOMAIN trace, LAMBDA i : Protocol(trace[i]) = n)]

(* The number of bounds that a length is not below is that of its bucket.  *)
Bounds == {64, 128, 256, 512, 1024, 1518}
LengthHistogram(trace) ==
  [n \in 0 .. Cardinality(Bounds) |->
     Quantify(DOMAIN trace, LAMBDA i : Quantify(Bounds, LAMBDA b : trace[i].len >= b) = n)]
=============================================================================
