-------------------------------- MODULE Layers --------------------------------
(***************************************************************************)
(* The dissection of a frame (dissect/mod.rs, l2.rs, l3.rs, l4.rs and the  *)
(* dissectors of the protocols above them): which protocols are found in   *)
(* it, whose frame it is, and the fields and remarks it is given.          *)
(*                                                                         *)
(* A frame as it was on the wire is a record:                              *)
(*   link    how it begins: "eth", "sll", "sll2", "null" or "raw"          *)
(*   tags    the number of its VLAN tags                                   *)
(*   net     "ip4", "ip6", "arp" or "other"                                *)
(*   opts    the IPv4 header has options                                   *)
(*   exts    IPv6 extension headers follow                                 *)
(*   sum     the checksum of the IPv4 header: "good", "bad" or "none"      *)
(*   cut     where the bytes end too early: "no", "link" (in the link      *)
(*           header), "net" (behind it), "l4" (behind the network header), *)
(*           or "zero" if nothing is missing but the length in the IPv4    *)
(*           header is 0, as segmentation in the card leaves it            *)
(*   proto, src, dst, sport, dport, syn, seq                               *)
(*   id, off, more   of an IPv4 fragment                                   *)
(*   body    what kind of message the payload holds                        *)
(*   data    its bytes, and pad, those that fill a short frame up          *)
(*   len     the length of the whole                                       *)
(* A message is one of the kinds below, by what its first bytes look like. *)
(***************************************************************************)
EXTENDS CapFilter, TLC

Messages ==
  {"none", "bytes", "text", "hello", "serverhello", "preface", "request", "answer", "missing",
   "failure", "upgrade", "head", "wsframe", "invite", "sipoptions", "voice", "initial", "handshake",
   "short", "query", "reply", "offer"}

(***************************************************************************)
(* Link and network.                                                       *)
(***************************************************************************)
(* LinkType::from_u32, of the number in a file *)
LinkTypes == 0 :> "null" @@ 1 :> "eth" @@ 12 :> "raw" @@ 113 :> "sll" @@ 276 :> "sll2"
FromU32(dlt) == IF dlt \in DOMAIN LinkTypes THEN LinkTypes[dlt] ELSE "unknown"

(* The dissector a link type has; of an unknown one it is that of Ethernet. *)
ReadAs(label) == IF label = "unknown" THEN "eth" ELSE label

(* What is found behind the link header of a frame that is taken for one   *)
(* of the link type label: one VLAN tag is skipped, and the header of      *)
(* another link type has no ether type in that place.                      *)
NetSeen(w, label) ==
  CASE w.cut = "link"         -> "none"
    [] ReadAs(label) # w.link -> "other"
    [] w.tags > 1             -> "other"
    [] OTHER                  -> w.net

LinkFlags(w, label) ==
  IF w.cut = "link" THEN {}
  ELSE (IF ReadAs(label) \in {"eth", "sll", "sll2"} THEN {"eth"} ELSE {})
       \cup (IF ReadAs(label) = "eth" /\ w.link = "eth" /\ w.tags > 0 THEN {"vlan"} ELSE {})

IpSeen(w, label) == NetSeen(w, label) \in {"ip4", "ip6"} /\ w.cut # "net"

NetFlags(w, label) ==
  CASE NetSeen(w, label) = "arp" -> {"arp"}
    [] IpSeen(w, label)          -> {IF w.net = "ip4" THEN "ip" ELSE "ipv6"}
    [] OTHER                     -> {}

(* The header of TCP or UDP is read behind options and extension headers,  *)
(* of a later fragment too, where the bytes of the datagram stand for it.  *)
PortsSeen(w, label) ==
  /\ IpSeen(w, label)
  /\ w.cut \notin {"l4", "zero"}
  /\ w.proto \in {"tcp", "udp"}

BodySeen(w) == IF w.off > 0 THEN "bytes" ELSE w.body

(***************************************************************************)
(* What a payload looks like.                                              *)
(***************************************************************************)
LooksLikeTls(b) == b \in {"hello", "serverhello"}
LooksLikeHttp2(b) == b = "preface"
LooksLikeHttp1(b) == 
  b \in {"request", "upgrade", "answer", "missing", "failure", "head", "sipoptions"}
(* A query over TCP begins with its length, whose first byte is 0. *)
LooksLikeWsFrame(b) == b \in {"wsframe", "query", "reply"}
LooksLikeSip(b) == b \in {"invite", "sipoptions"}
LooksLikeRtp(b) == b = "voice"
(* A first packet, or any of more than 20 bytes whose first one is below   *)
(* 128, or of port 443 with one that is not.                               *)
LooksLikeQuic(b, ports) ==
  \/ b \in {"initial", "short", "text"} \/ LooksLikeHttp1(b) \/ LooksLikeTls(b)
  \/ "443" \in ports /\ b = "handshake"

(* dissect_tcp *)
TcpApp(b, ports) ==
  CASE b = "none"                               -> {}
    [] "443" \in ports \/ LooksLikeTls(b)       -> {"tls"}
    [] LooksLikeHttp2(b)                        -> {"http2"}
    [] LooksLikeHttp1(b)                        ->
         IF b = "upgrade" THEN {"http", "websocket"} ELSE {"http"}
    [] LooksLikeWsFrame(b)                      -> {"websocket"}
    [] "5060" \in ports \/ LooksLikeSip(b)      -> {"sip"}
    [] OTHER                                    -> {}

(* dissect_udp *)
UdpApp(b, ports) ==
  CASE ports \cap {"53", "5353", "5355"} # {}   ->
         {"dns"} \cup (CASE "5353" \in ports -> {"mdns"}
                         [] "5355" \in ports -> {"llmnr"}
                         [] OTHER            -> {})
    [] ports \cap {"67", "68"} # {}             -> {"dhcp"}
    [] "5060" \in ports \/ LooksLikeSip(b)      -> {"sip"}
    [] LooksLikeRtp(b)                          -> {"rtp"}
    [] LooksLikeQuic(b, ports)                  -> {"quic"}
    [] OTHER                                    -> {}

(***************************************************************************)
(* The info of the summary, in words, as far as fields are taken from it.  *)
(***************************************************************************)
(* dissect_http1: what httparse takes for a whole head *)
HttpInfo(b) ==
  CASE b \in {"request", "upgrade"} -> <<"GET", "/">>
    [] b = "answer"                 -> <<"HTTP", "200">>
    [] b = "missing"                -> <<"HTTP", "404">>
    [] b = "failure"                -> <<"HTTP", "500">>
    [] OTHER                        -> <<"HTTP", "(partial)">>

(* dissect_dns; the name is written with its final dot *)
DnsInfo(b) ==
  CASE b = "query" -> <<"DNS", "query", "name.">>
    [] b = "reply" -> <<"DNS", "response", "name.">>
    [] OTHER       -> <<"DNS", "(malformed)">>

(* dissect_tls *)
TlsInfo(b) ==
  CASE b = "hello"       -> <<"TLS", "ClientHello">>
    [] b = "serverhello" -> <<"TLS", "ServerHello">>
    [] OTHER             -> <<"TLS", "bytes">>

Info(flags, b, syn) ==
  CASE "http" \in flags -> HttpInfo(b)
    [] "dns" \in flags  -> DnsInfo(b)
    [] "tls" \in flags  -> TlsInfo(b)
    [] "tcp" \in flags /\ flags \cap {"http2", "websocket", "sip"} = {} ->
         IF syn THEN <<"[SYN]">> ELSE <<"[ACK]">>
    [] OTHER            -> <<"">>

(* populate_display_fields *)
Fields(flags, info) ==
  LET entry(c, field, v) == IF c THEN {<<field, v>>} ELSE {}
      found == entry("http" \in flags /\ info[1] = "GET", "http.request.method", info[1])
               \cup entry("http" \in flags /\ info[1] = "HTTP", "http.response.code", info[2])
               \cup entry("dns" \in flags /\ info[2] = "query", "dns.qry.name", info[3])
               \cup entry("tls" \in flags /\ info[2] = "ClientHello", "tls.handshake.type", "1")
               \cup entry("tls" \in flags /\ info[2] = "ServerHello", "tls.handshake.type", "2")
               \cup entry("tcp" \in flags /\ info[1] = "[SYN]", "tcp.flags.syn", "1")
               \cup entry("tcp" \in flags /\ info[1] = "[ACK]", "tcp.flags.syn", "0")
  IN  [field \in {f[1] : f \in found} |-> (CHOOSE f \in found : f[1] = field)[2]]

(* collect_expert: find_ipv4_offset knows no cooked frames of version 2. *)
Expert(w, label, flags, info) ==
  (CASE "http" \in flags /\ info[2] = "404" -> {"warn"}
     [] "http" \in flags /\ info[2] = "500" -> {"error"}
     [] OTHER                               -> {})
  \cup (IF IpSeen(w, label) /\ w.net = "ip4" /\ label \notin {"sll2", "unknown"} /\ w.sum = "bad"
        THEN {"error"} ELSE {})

(***************************************************************************)
(* dissect: the packet that a frame becomes if it is taken for one of the  *)
(* link type label.  Without an address of its own it has that of the      *)
(* Ethernet header or none.                                                *)
(***************************************************************************)
Dissected(w, label) ==
  LET addressed == IpSeen(w, label) \/ (NetSeen(w, label) = "arp" /\ w.cut # "net")
      other == IF ReadAs(label) = "eth" /\ w.cut # "link" THEN "mac" ELSE "nobody"
      ports == IF PortsSeen(w, label) THEN <<SportAt(w), DportAt(w)>> ELSE <<"", "">>
      app == IF ~PortsSeen(w, label) THEN {}
             ELSE IF w.proto = "tcp" THEN TcpApp(BodySeen(w), Range(ports))
             ELSE UdpApp(BodySeen(w), Range(ports))
      flags == LinkFlags(w, label) \cup NetFlags(w, label) \cup app
               \cup (IF PortsSeen(w, label) THEN {w.proto} ELSE {})
               \cup (IF IpSeen(w, label) THEN {w.proto} \cap {"icmp", "icmpv6"} ELSE {})
      info == Info(flags, BodySeen(w), w.syn)
  IN  [wire |-> w, label |-> label, flags |-> flags,
       src |-> IF addressed THEN w.src ELSE other, dst |-> IF addressed THEN w.dst ELSE other,
       sport |-> ports[1], dport |-> ports[2], len |-> w.len,
       info |-> info, fields |-> Fields(flags, info), expert |-> Expert(w, label, flags, info)]

(* color_for_packet *)
Color(p) ==
  CASE "error" \in p.expert                       -> "red"
    [] "warn" \in p.expert                        -> "orange"
    [] "dns" \in p.flags                          -> "cyan"
    [] "http2" \in p.flags                        -> "purple"
    [] "http" \in p.flags                         -> "green"
    [] "tls" \in p.flags                          -> "pink"
    [] "tcp" \in p.flags /\ p.info[1] = "[SYN]"   -> "yellow"
    [] OTHER                                      -> "plain"
=============================================================================
