------------------------------ MODULE DispFilter ------------------------------
(***************************************************************************)
(* Display filters (capture/disp_filter.rs): how an expression is read and *)
(* which packets of the store it shows.  The grammar is that of the        *)
(* capture filters; the atoms are the name of a protocol or a comparison   *)
(* <<field, operator, value>>.                                             *)
(*                                                                         *)
(* A packet is what Dissected of Layers makes of a frame.                  *)
(***************************************************************************)
EXTENDS Layers

DispProtos ==
  {"http2", "http", "dns", "mdns", "llmnr", "dhcp", "tcp", "udp", "tls", "websocket", "sip",
   "rtp", "quic", "arp", "icmp", "ipv6", "ip"}

(* What the text of an endpoint contains: the address b is written         *)
(* 10.0.0.12 and contains that of a, 10.0.0.1; that of a host of IPv6 is   *)
(* also asked for together with its port.                                  *)
Within == [a |-> {"a"}, b |-> {"a", "b"}, a6 |-> {"a6"}, mac |-> {}, nobody |-> {},
           GET |-> {"GE", "GET"}]
Holds(text, v) == IF text \in DOMAIN Within THEN v \in Within[text] ELSE v = text
Texts(host, port) == Within[host] \cup (IF host \in V6Hosts THEN {host \o ":" \o port} ELSE {})

Number == "60" :> 60 @@ "100" :> 100

Equal == {"==", "="}
Orders == {"<", ">"}
HoldingEqual == {"!=", "<=", ">="}

(***************************************************************************)
(* parse_atom.  A comparison of another field than the four helpers is     *)
(* split by parse_field_op before frame.len and expert.severity have their *)
(* turn: at "contains" or "matches", or else at the first "==" or "=".  Of *)
(* "!=", "<=" and ">=" the first sign stays with the name of the field,    *)
(* and no packet has a field of such a name.                               *)
(***************************************************************************)
FieldTest(w) ==
  LET field == w[1]
      cmp == w[2]
  IN  CASE field \in {"ip.addr", "ipv6.addr"} ->
             IF cmp \in Equal THEN [is |-> "addr", val |-> w[3]] ELSE [is |-> "never"]
        [] field \in {"tcp.port", "udp.port"} ->
             IF cmp \in Equal
             THEN [is |-> "port", proto |-> IF field = "tcp.port" THEN "tcp" ELSE "udp",
                   val |-> w[3]]
             ELSE [is |-> "error"]
        [] cmp \in Equal         -> [is |-> "field", field |-> field, val |-> w[3]]
        [] cmp = "contains"      -> [is |-> "contains", field |-> field, val |-> w[3]]
        [] cmp \in HoldingEqual  -> [is |-> "never"]
        [] field = "frame.len" /\ cmp \in Orders -> [is |-> "len", cmp |-> cmp, val |-> w[3]]
        [] OTHER                 -> [is |-> "error"]

ParseDispAtom(w) ==
  IF Len(w) = 1 /\ w[1] \in DispProtos THEN [is |-> "proto", val |-> w[1]]
  ELSE IF Len(w) = 3 THEN FieldTest(w) ELSE [is |-> "error"]

(* parse_display_filter *)
ParseDisplayFilter(s) ==
  IF s = <<>> THEN True
  ELSE LET f == ParseLevel(s, "or")
       IN  IF \A w \in Atoms(f) : ParseDispAtom(w).is # "error" THEN f ELSE Error

(***************************************************************************)
(* matches                                                                 *)
(***************************************************************************)
(* PacketRecord::field: what dissection left, field_heuristic and          *)
(* field_computed.  The address of a host of IPv6 loses what follows its   *)
(* last colon if there is no port behind it.                               *)
AddressText(host, port) == IF host \in V6Hosts /\ port = "" THEN "part" ELSE host

Field(p, field) ==
  CASE field \in DOMAIN p.fields                        -> p.fields[field]
    [] field = "http.request.method" /\ "http" \in p.flags -> p.info[1]
    [] field = "ip.src"                                 -> AddressText(p.src, p.sport)
    [] field = "ip.dst"                                 -> AddressText(p.dst, p.dport)
    [] field \in {"tcp.srcport", "udp.srcport"}         -> p.sport
    [] field \in {"tcp.dstport", "udp.dstport"}         -> p.dport
    [] OTHER                                            -> "absent"

FieldContains(p, field, v) == Holds(Field(p, field), v)

AtomMatches(t, p) ==
  CASE t.is = "proto"    -> t.val \in p.flags
    [] t.is = "addr"     -> t.val \in Texts(p.src, p.sport) \cup Texts(p.dst, p.dport)
    [] t.is = "port"     -> t.proto \in p.flags /\ t.val \in {p.sport, p.dport}
    [] t.is = "field"    -> Field(p, t.field) = t.val
    [] t.is = "contains" -> FieldContains(p, t.field, t.val)
    [] t.is = "len"      -> IF t.cmp = "<" THEN p.len < Number[t.val] ELSE p.len > Number[t.val]
    [] t.is = "never"    -> FALSE

RECURSIVE Matches(_, _)
Matches(f, p) ==
  CASE f.op = "true" -> TRUE
    [] f.op = "atom" -> AtomMatches(ParseDispAtom(f.words), p)
    [] f.op = "not"  -> ~Matches(f.f, p)
    [] f.op = "and"  -> Matches(f.l, p) /\ Matches(f.r, p)
    [] f.op = "or"   -> Matches(f.l, p) \/ Matches(f.r, p)
=============================================================================
