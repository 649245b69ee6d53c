------------------------------ MODULE MCPackets ------------------------------
(* An instance of Packets: a frame of each kind for the two filters, one   *)
(* for each message a dissector knows, TCP streams between the same hosts, *)
(* fragments of two datagrams, an exchange of HTTP, and files of each link *)
(* type.                                                                   *)
EXTENDS Packets

Frame == [link |-> "eth", tags |-> 0, net |-> "ip4", opts |-> FALSE, exts |-> FALSE,
          sum |-> "none", cut |-> "no", proto |-> "tcp", src |-> "a", dst |-> "b",
          sport |-> "1000", dport |-> "443", syn |-> FALSE, seq |-> 0, id |-> 0, off |-> 0,
          more |-> FALSE, body |-> "none", data |-> <<>>, pad |-> <<>>, len |-> 60]

Answer(w) == [w EXCEPT !.src = w.dst, !.dst = w.src, !.sport = w.dport, !.dport = w.sport]
To80(b) == [Frame EXCEPT !.dport = "80", !.body = b, !.len = 100]
Udp(port, b) == [Frame EXCEPT !.proto = "udp", !.dport = port, !.body = b]
Segment(w, n, bytes) == [w EXCEPT !.seq = n, !.data = bytes, !.body = "bytes"]
Fragment(id, src, n, m, bytes) ==
  [Frame EXCEPT !.proto = "udp", !.dport = "80", !.id = id, !.src = src, !.off = n, !.more = m,
                !.data = bytes, !.body = "bytes"]

MCTraffics == {"frames", "shown", "apps", "streams", "fragments", "http", "files"}

Frames ==
  {[To80("request") EXCEPT !.tags = 1],
   Answer([Frame EXCEPT !.sum = "bad"]),
   [Udp("443", "none") EXCEPT !.opts = TRUE, !.src = "b", !.sum = "good"],
   [Frame EXCEPT !.net = "ip6", !.src = "a6", !.dst = "a6"],
   [Frame EXCEPT !.net = "arp", !.proto = "arp", !.sport = "", !.dport = ""]}

Icmp == [Frame EXCEPT !.proto = "icmp", !.sport = "", !.dport = ""]

EachMessage ==
  {To80(b) : b \in {"bytes", "text", "preface", "request", "answer", "missing", "failure", "upgrade",
                    "head", "wsframe", "invite", "sipoptions", "query", "hello"}}
  \cup {[Frame EXCEPT !.body = b] : b \in {"hello", "serverhello", "bytes", "request"}}
  \cup {Udp("80", b) : b \in {"voice", "initial", "short", "handshake", "text", "invite", "request"}}
  \cup {Udp("443", "handshake"), Udp("53", "query"), Answer(Udp("53", "reply")), Udp("53", "text"),
        Udp("5353", "query"), Udp("67", "offer"), Udp("5060", "sipoptions"), Icmp,
        [Frame EXCEPT !.syn = TRUE], [Frame EXCEPT !.tags = 2], [Frame EXCEPT !.net = "other"],
        [To80("request") EXCEPT !.cut = "zero", !.sum = "bad"], [Icmp EXCEPT !.cut = "link"],
        [Frame EXCEPT !.cut = "net"], [Frame EXCEPT !.cut = "l4"],
        [To80("request") EXCEPT !.net = "ip6", !.exts = TRUE, !.src = "a6"]}

MCFramesOf ==
  [frames |-> Frames,
   shown |-> Frames,
   apps |-> EachMessage,
   streams |->
     {Segment(Frame, 7, <<"p", "q">>), Segment(Frame, 9, <<"r">>), Segment(Frame, 8, <<"q", "r">>),
      Segment(Answer(Frame), 7, <<"x">>), Segment(Answer(Frame), 8, <<"y">>),
      Segment([Frame EXCEPT !.sport = "80"], 8, <<"z">>)},
   fragments |->
     {Fragment(1, "a", 0, TRUE, <<"p">>), Fragment(1, "a", 1, TRUE, <<"q">>),
      Fragment(1, "a", 2, FALSE, <<"r">>),
      Fragment(1, "b", 0, TRUE, <<"s">>), Fragment(1, "b", 1, FALSE, <<"t">>),
      [Fragment(1, "b", 1, FALSE, <<"t">>) EXCEPT !.cut = "l4"]},
   http |->
     {[Segment(To80("none"), 1, <<"GET /", "HTTP/1.", "head", "end">>) EXCEPT !.body = "request"],
      [Segment(Answer(To80("none")), 1, <<"HTTP/1.", "head", "end", "page">>) EXCEPT !.body = "answer"],
      [Answer(To80("none")) EXCEPT !.pad = <<"zeros">>]},
   files |-> {}]

(* Two frames each, of a file that says how its frames begin. *)
Two(link, dlt) ==
  <<[frame |-> [To80("request") EXCEPT !.link = link], dlt |-> dlt],
    [frame |-> [Udp("53", "query") EXCEPT !.link = link, !.sum = "bad"], dlt |-> dlt]>>

MCFilesFor ==
  [t \in MCTraffics |->
     IF t # "files" THEN {}
     ELSE {Two("eth", 1), Two("sll", 113), Two("sll2", 276), Two("null", 0), Two("raw", 12),
           Two("raw", 101), <<Two("sll", 113)[1], Two("eth", 1)[2]>>}]

MCSavedTraffics == {"http", "files"}
MCInterfacesFor == [t \in MCTraffics |-> IF t = "http" THEN {"eth0", "any"} ELSE {"eth0"}]

A(words) == Atom(words)
Tcp == A(<<"tcp">>)
Port(p) == A(<<"port", p>>)

Arp == A(<<"arp">>)

(* Simple ones, which are compiled, and others. *)
MCCapFiltersFor ==
  [t \in MCTraffics |->
     IF t # "frames" THEN {True}
     ELSE {True, Tcp, Not(Tcp), A(<<"ip6">>), A(<<"net", "n">>), A(<<"host", "a6">>),
           Binary("or", Arp, A(<<"src", "port", "1000">>)),
           Binary("or", Arp, A(<<"dst", "host", "b">>)),
           Binary("or", Arp, Binary("and", Not(A(<<"host", "a">>)), Port("443"))),
           Binary("or", Tcp, Binary("and", A(<<"udp">>), A(<<"ip6">>))),
           Binary("and", Binary("or", Arp, Tcp), Port("1000")),
           A(<<"tcp", "port", "443">>)}]

MCDispFiltersFor ==
  [t \in MCTraffics |->
     CASE t = "shown" ->
            {True, A(<<"frame.len", ">", "60">>), A(<<"frame.len", ">=", "60">>),
             A(<<"tcp.port", "!=", "443">>), A(<<"ip.addr", "contains", "a">>),
             Binary("or", A(<<"http">>), Binary("and", Tcp, A(<<"ip.src", "==", "b">>))),
             Binary("and", Not(Tcp), Binary("or", A(<<"ip.addr", "==", "a">>), A(<<"arp">>))),
             Not(A(<<"http.request.method", "==", "GET">>)), A(<<"http.request.method", "contains", "GE">>)}
       [] t = "apps" ->
            {True} \cup {A(<<proto>>) : proto \in DispProtos}
            \cup {A(<<"http.response.code", "==", "404">>), A(<<"dns.qry.name", "==", "name.">>),
                  A(<<"tls.handshake.type", "==", "1">>), A(<<"udp.port", "==", "53">>)}
       [] t = "files" -> {True, Tcp, A(<<"ip.dst", "==", "b">>)}
       [] OTHER -> {True}]

MCUrlsFor ==
  [t \in MCTraffics |->
     IF t # "frames" THEN {}
     ELSE {[host |-> "a6", port |-> "443", usual |-> FALSE],
           [host |-> "a", port |-> "80", usual |-> TRUE],
           [host |-> "a.example", port |-> "443", usual |-> TRUE]}]

MCMaxArrivals ==
  [frames |-> 2, shown |-> 2, apps |-> 1, streams |-> 4, fragments |-> 4, http |-> 3, files |-> 0]
=============================================================================
