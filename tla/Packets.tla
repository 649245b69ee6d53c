------------------------------- MODULE Packets -------------------------------
(***************************************************************************)
(* What becomes of the frames of a wire on their way to the operator of a  *)
(* capture session on Linux: the kernel's filter, if one is attached, the  *)
(* capture filter in the capture thread, dissection, the store, and then   *)
(* what the display filter shows, what following a stream gives, which     *)
(* datagrams the fragments make, what the tables of the analysis say, and  *)
(* what comes back from a file the packets are saved to                    *)
(* (session/capture.rs, capture/file_io.rs).                               *)
(*                                                                         *)
(* The threads and the channel in between are the subject of Capture; here *)
(* a frame passes them in one step.                                        *)
(***************************************************************************)
EXTENDS Dissect

CONSTANTS
  Traffics,     \* kinds of traffic
  FramesOf,     \* the frames of each kind
  InterfacesFor,  \* the interfaces it is captured on: "eth0" or "any"
  FilesFor,     \* the files there are: sequences of [frame, dlt], dlt a link type's number
  SavedTraffics, \* bound: the kinds of traffic that are saved
  CapFiltersFor,  \* the capture filters an operator has in mind for it
  DispFiltersFor, \* and the display filters
  UrlsFor,      \* the URLs an operator has in an HTTP tab: [host, port, usual]
  MaxArrivals   \* bound: frames on the wire, by kind of traffic

ASSUME PacketsAssumption ==
  \A t \in Traffics : /\ t \in DOMAIN FramesOf /\ MaxArrivals[t] \in Nat
                      /\ True \in CapFiltersFor[t] \cap DispFiltersFor[t]
                      /\ InterfacesFor[t] \subseteq {"eth0", "any"}

VARIABLES
  traffic,    \* the kind of traffic on the wire
  iface,      \* CaptureSession.title_iface
  source,     \* CaptureSession.source: "Live" or "File"
  capFilter,  \* the filter that was typed; capture_filter_str is its text
  status,     \* CaptureSession.status: "idle", "capturing", "stopped", "error" or "connected"
  kernel,     \* the program attached to the socket, or <<>>
  dispFilter, \* the filter that was typed; display_filter_str is its text
  store,      \* the packets in the store
  disk,       \* the capture files on the disk; of those that were saved, the last one
  arrivals,   \* history: the frames that arrived, each with the filter in force, or Error
  saved       \* history: the packets that were saved last, or <<>>

live == <<traffic, iface, source, arrivals>>
files == <<disk, saved>>
vars == <<live, capFilter, status, kernel, dispFilter, store, files>>

Init ==
  /\ traffic \in Traffics
  /\ iface \in InterfacesFor[traffic]
  /\ source = "Live"
  /\ capFilter = True
  /\ status = "idle"
  /\ kernel = <<>>
  /\ dispFilter = True
  /\ store = <<>>
  /\ disk = FilesFor[traffic]
  /\ arrivals = <<>>
  /\ saved = <<>>

(***************************************************************************)
(* start_capture, open_live_filtered and LinuxCapture::set_filter: any     *)
(* filter but the empty one is compiled if it is simple, and a program the *)
(* kernel refuses is an error that leaves the capture stopped.             *)
(***************************************************************************)
StartWith(f) ==
  LET parsed == ParseCaptureFilter(Show(f))
      prog == IF parsed # True /\ IsKernelSimple(parsed) THEN CompileSimpleBpf(parsed) ELSE <<>>
  IN  IF prog = <<>> \/ KernelAccepts(prog)
      THEN status' = "capturing" /\ kernel' = prog
      ELSE status' = "error" /\ kernel' = <<>>

SetCaptureFilterUnread(f) ==
  /\ source = "Live"
  /\ f # capFilter
  /\ capFilter' = f
  /\ IF status = "capturing" THEN StartWith(f) ELSE UNCHANGED <<status, kernel>>
  /\ UNCHANGED <<live, dispFilter, store, files>>

(* set_capture_filter: one that is not understood changes nothing, nor has *)
(* a file one; a capture that runs is stopped and started again.           *)
SetCaptureFilter(f) ==
  /\ source = "Live"
  /\ f # capFilter
  /\ ParseCaptureFilter(Show(f)) # Error
  /\ capFilter' = f
  /\ IF status = "capturing" THEN StartWith(f) ELSE UNCHANGED <<status, kernel>>
  /\ UNCHANGED <<live, dispFilter, store, files>>

StartCapture ==
  /\ source = "Live"
  /\ status # "capturing"
  /\ StartWith(capFilter)
  /\ UNCHANGED <<live, capFilter, dispFilter, store, files>>

(* capture_filter_for_url: the port is left out when it is the usual one.  *)
FilterForUrl(url) ==
  LET host == Atom(<<"host", url.host>>)
  IN  IF url.usual THEN host ELSE Binary("and", host, Atom(<<"port", url.port>>))

(* sniff_from_http, the capture tab being there: set_capture_filter and    *)
(* then, if it was not running, start_capture.  The host may be a name,    *)
(* which is no address, and then nothing happens.                          *)
SniffFromHttp(url) ==
  /\ source = "Live"
  /\ ParseCaptureFilter(Show(FilterForUrl(url))) # Error
  /\ capFilter' = FilterForUrl(url)
  /\ StartWith(FilterForUrl(url))
  /\ UNCHANGED <<live, dispFilter, store, files>>

StopCapture ==
  /\ status = "capturing"
  /\ status' = "stopped"
  /\ kernel' = <<>>
  /\ UNCHANGED <<live, capFilter, dispFilter, store, files>>

(* LinuxCapture::open: every frame of the pseudo device is called cooked,  *)
(* though the socket hands it over as it was on its own device.            *)
LiveLabel == IF iface = "any" THEN "sll" ELSE "eth"

(* capture_loop: what the kernel passes is looked at once more. *)
Passes(w) ==
  /\ kernel = <<>> \/ KernelRun(kernel, w, 1, "none")
  /\ MatchesRaw(ParseCaptureFilter(Show(capFilter)), w)

Arrive(w) ==
  /\ source = "Live"
  /\ Len(arrivals) < MaxArrivals[traffic]
  /\ arrivals' = Append(arrivals, [w |-> w, f |-> IF status = "capturing" THEN capFilter
                                                  ELSE Error])
  /\ store' = IF status = "capturing" /\ Passes(w)
              THEN Append(store, Dissected(w, LiveLabel)) ELSE store
  /\ UNCHANGED <<traffic, iface, source, capFilter, status, kernel, dispFilter, files>>

(* set_display_filter: an expression that is not understood changes nothing. *)
SetDisplayFilter(f) ==
  /\ f # dispFilter
  /\ ParseDisplayFilter(Show(f)) # Error
  /\ dispFilter' = f
  /\ UNCHANGED <<live, capFilter, status, kernel, store, files>>

(* filtered_indices *)
Shown(p) == Matches(ParseDisplayFilter(Show(dispFilter)), p)
Rows == {i \in DOMAIN store : Shown(store[i])}

(***************************************************************************)
(* save_all and save_displayed: a file has one link type, that of its      *)
(* first packet.  Raw frames are given the number 101.                     *)
(***************************************************************************)
EthernetOnly(label) == 1

LinkToDatalink(label) ==
  CASE label = "sll"  -> 113
    [] label = "null" -> 0
    [] label = "raw"  -> 101
    [] OTHER          -> 1

Save(packets) ==
  LET dlt == IF packets = <<>> THEN 1 ELSE LinkToDatalink(packets[1].label)
  IN  /\ traffic \in SavedTraffics
      /\ disk' = {[i \in DOMAIN packets |-> [frame |-> packets[i].wire, dlt |-> dlt]]}
      /\ saved' = packets
      /\ UNCHANGED <<live, capFilter, status, kernel, dispFilter, store>>

SaveAll == Save(store)
SaveDisplayed == Save(SelectSeq(store, Shown))

(* open_capture_file, and push_dissected for each frame *)
Opened(capture) ==
  [i \in DOMAIN capture |-> Dissected(capture[i].frame, FromU32(capture[i].dlt))]

(* CaptureSession::open_file: the new tab is the one to go on with. *)
OpenFile(capture) ==
  /\ source' = "File"
  /\ capFilter' = True
  /\ status' = "connected"
  /\ kernel' = <<>>
  /\ dispFilter' = True
  /\ store' = Opened(capture)
  /\ UNCHANGED <<traffic, iface, arrivals, files>>

Next ==
  \/ \E f \in CapFiltersFor[traffic] : SetCaptureFilter(f)
  \/ \E url \in UrlsFor[traffic] : SniffFromHttp(url)
  \/ StartCapture
  \/ StopCapture
  \/ \E w \in FramesOf[traffic] : Arrive(w)
  \/ \E f \in DispFiltersFor[traffic] : SetDisplayFilter(f)
  \/ SaveAll
  \/ SaveDisplayed
  \/ \E capture \in disk : OpenFile(capture)

Spec == Init /\ [][Next]_vars

------------------------------------------------------------------------------
(***************************************************************************)
(* Properties.                                                             *)
(***************************************************************************)
TypeOK ==
  /\ traffic \in Traffics
  /\ iface \in InterfacesFor[traffic]
  /\ source \in {"Live", "File"}
  /\ capFilter \in CapFiltersFor[traffic] \cup {FilterForUrl(url) : url \in UrlsFor[traffic]}
  /\ ParseCaptureFilter(Show(capFilter)) # Error
  /\ status \in IF source = "File" THEN {"connected"} ELSE {"idle", "capturing", "stopped", "error"}
  /\ kernel # <<>> => status = "capturing"
  /\ dispFilter \in DispFiltersFor[traffic]
  /\ \A i \in DOMAIN store : store[i].wire.body \in Messages
  /\ source = "Live" => Len(store) <= Len(arrivals)

(***************************************************************************)
(* What is in a frame, whatever program looks at it.                       *)
(***************************************************************************)
(* The protocols a message is of, each on the transport it is made for. *)
Application(w) ==
  CASE w.proto = "tcp" /\ w.body \in {"hello", "serverhello"} -> {"tls"}
    [] w.proto = "tcp" /\ w.body = "preface"                  -> {"http2"}
    [] w.proto = "tcp" /\ w.body = "wsframe"                  -> {"websocket"}
    [] w.proto = "tcp" /\ w.body = "upgrade"                  -> {"http", "websocket"}
    [] w.proto = "tcp" /\ w.body \in {"request", "answer", "missing", "failure", "head"} -> {"http"}
    [] w.body \in {"query", "reply"}                          ->
         IF w.dport = "5353" THEN {"dns", "mdns"} ELSE {"dns"}
    [] w.body \in {"invite", "sipoptions"}                    -> {"sip"}
    [] w.proto = "udp" /\ w.body = "offer"                    -> {"dhcp"}
    [] w.proto = "udp" /\ w.body = "voice"                    -> {"rtp"}
    [] w.proto = "udp" /\ w.body \in {"initial", "handshake", "short"} -> {"quic"}
    [] OTHER                                                  -> {}

IsIp(w) == w.net \in {"ip4", "ip6"}

Carries(w) ==
  (IF w.link = "eth" THEN {"eth"} ELSE {}) \cup (IF w.tags > 0 THEN {"vlan"} ELSE {})
  \cup (CASE w.net = "ip4" -> {"ip", w.proto} [] w.net = "ip6" -> {"ipv6", "ip6", w.proto}
          [] OTHER -> {w.net})
  \cup (IF IsIp(w) /\ w.proto \in {"tcp", "udp"} THEN Application(w) ELSE {})

Hosts(w) == IF IsIp(w) THEN {w.src, w.dst} ELSE {}
Addresses(w) == IF IsIp(w) \/ w.net = "arp" THEN {w.src, w.dst} ELSE {}
Ports(w) == {w.sport, w.dport} \ {""}

(* What the words of a capture filter say of a frame. *)
MeansOnWire(words, w) ==
  LET v == Last(words)
  IN  CASE Len(words) = 1                        -> v \in Carries(w)
        [] words = <<"src", "host", v>>          -> IsIp(w) /\ w.src = v
        [] words = <<"dst", "host", v>>          -> IsIp(w) /\ w.dst = v
        [] words = <<"host", v>>                 -> v \in Hosts(w)
        [] words = <<"net", v>>                  -> Nets[v] \cap Hosts(w) # {}
        [] words = <<"src", "port", v>>          -> w.sport = v
        [] words = <<"dst", "port", v>>          -> w.dport = v
        [] OTHER                                 -> v \in Ports(w)

(* What a field may be compared with, by the documentation of the filters. *)
Values(w, field) ==
  CASE field \in {"ip.addr", "ipv6.addr"} -> UNION {Within[h] : h \in Addresses(w)}
    [] field = "tcp.port" -> IF w.proto = "tcp" THEN Ports(w) ELSE {}
    [] field = "udp.port" -> IF w.proto = "udp" THEN Ports(w) ELSE {}
    [] field = "ip.src"   -> {w.src}
    [] field = "ip.dst"   -> {w.dst}
    [] field = "http.request.method" -> IF w.body \in {"request", "upgrade"} THEN {"GET"} ELSE {}
    [] field = "http.response.code"  ->
         CASE w.body = "answer" -> {"200"} [] w.body = "missing" -> {"404"}
           [] w.body = "failure" -> {"500"} [] OTHER -> {}
    [] field = "dns.qry.name" -> IF w.body = "query" THEN {"name."} ELSE {}
    [] field = "tls.handshake.type" ->
         CASE w.body = "hello" -> {"1"} [] w.body = "serverhello" -> {"2"} [] OTHER -> {}

MeansInList(words, w) ==
  CASE Len(words) = 1                              -> words[1] \in Carries(w)
    [] words[1] = "frame.len" /\ words[2] = "<"    -> w.len < Number[words[3]]
    [] words[1] = "frame.len" /\ words[2] = ">"    -> w.len > Number[words[3]]
    [] words[2] = "contains"                       -> \E x \in Values(w, words[1]) : Holds(x, words[3])
    [] OTHER                                       -> words[3] \in Values(w, words[1])

RECURSIVE Means(_, _, _)
Means(f, w, inList) ==
  CASE f.op = "true" -> TRUE
    [] f.op = "not"  -> ~Means(f.f, w, inList)
    [] f.op = "and"  -> Means(f.l, w, inList) /\ Means(f.r, w, inList)
    [] f.op = "or"   -> Means(f.l, w, inList) \/ Means(f.r, w, inList)
    [] f.op = "atom" -> IF inList THEN MeansInList(f.words, w) ELSE MeansOnWire(f.words, w)

(***************************************************************************)
(* A frame a filter is to understand: of Ethernet with one tag at most,    *)
(* all there, and not a later fragment.                                    *)
(***************************************************************************)
Plain(w) == w.link = "eth" /\ w.tags <= 1 /\ ~w.exts /\ w.cut = "no" /\ w.off = 0

(* A plain frame is in the store exactly if it arrived while the capture   *)
(* ran and is one the capture filter means, however the filter was put     *)
(* together and whatever was typed while frames arrived.  This is the work *)
(* of the capture thread alone: a capture does not even start under a      *)
(* filter that is compiled for the kernel, which refuses the program.      *)
FilterExact ==
  LET wanted(a) == a.f # Error /\ Plain(a.w) /\ Means(a.f, a.w, FALSE)
      meant == SelectSeq(arrivals, wanted)
      kept == SelectSeq(store, LAMBDA p : Plain(p.wire))
  IN  source = "Live" =>
        [i \in DOMAIN kept |-> kept[i].wire] = [i \in DOMAIN meant |-> meant[i].w]

(* Messages that ports and first bytes do not give away: what is on the    *)
(* port of another protocol, DNS and the options of SIP over TCP, what     *)
(* begins a connection over TCP and is sent over UDP, text over UDP, and a *)
(* later packet of QUIC away from its port.                                *)
PortOf == [tcp |-> "443" :> "tls" @@ "5060" :> "sip",
           udp |-> "53" :> "dns" @@ "67" :> "dhcp" @@ "5060" :> "sip"]

Misread(w) ==
  /\ w.proto \in {"tcp", "udp"}
  /\ \/ \E n \in Ports(w) \cap DOMAIN PortOf[w.proto] :
          PortOf[w.proto][n] \notin Application(w) /\ w.body # "none"
     \/ w.proto = "tcp" /\ w.body \in {"query", "reply", "sipoptions"}
     \/ w.proto = "udp" /\ Application(w) = {} /\ w.body \notin {"none", "bytes"}
     \/ w.body = "handshake" /\ "443" \notin Ports(w)

(* The comparisons that the parser takes as they are documented; the words *)
(* that have a parser of their own are documented with == alone.           *)
Helpers == {"ip.addr", "ipv6.addr", "tcp.port", "udp.port", "frame.len"}
TakenAsDocumented(words) ==
  \/ Len(words) = 1
  \/ words[1] = "frame.len" /\ words[2] \in Orders
  \/ words[1] # "frame.len" /\ words[2] \in Equal
  \/ words[1] \notin Helpers /\ words[2] = "contains"

(* A packet that was taken for what it is, through tags and extension      *)
(* headers and by its ports and first bytes.                               *)
Understood(p) ==
  /\ p.label = p.wire.link /\ p.wire.tags <= 1 /\ p.wire.cut = "no" /\ p.wire.off = 0
  /\ p.wire.net = "ip6" => p.wire.proto \in {"tcp", "udp"}
  /\ ~Misread(p.wire)

Asked == IF dispFilter = True THEN {} ELSE Atoms(dispFilter)

ShowsWhatIsMeant ==
  \A i \in DOMAIN store :
    Understood(store[i]) => (i \in Rows <=> Means(dispFilter, store[i].wire, TRUE))

(* The list shows the frames that the display filter means: brackets,      *)
(* precedence and negation are understood, and each comparison is of the   *)
(* field it names.  A row is red exactly if the server failed or the       *)
(* checksum of the IPv4 header is wrong.  (Not of != <= >=, which never    *)
(* match although docs/filters.md lists them, of the equality of           *)
(* frame.len, nor of a helper with another operator than ==; of the        *)
(* address of a host of IPv6 without a port and of what is misread the     *)
(* README tells.)                                                          *)
RowsAsMeant ==
  LET wrong(w) == w.net = "ip4" /\ (w.sum = "bad" \/ (w.proto = "tcp" /\ w.body = "failure"))
  IN  /\ (\A words \in Asked : TakenAsDocumented(words)) => ShowsWhatIsMeant
      /\ \A i \in DOMAIN store :
           Understood(store[i]) /\ store[i].label # "sll2"
             => (Color(store[i]) = "red" <=> wrong(store[i].wire))

(* The places in the stream that the segments of one direction fill. *)
Places(segments) ==
  UNION {segments[i].wire.seq .. segments[i].wire.seq + Len(Payload(segments[i])) - 1 : i \in DOMAIN segments}

Overlap(a, b) ==
  /\ a.wire.seq < b.wire.seq + Len(Payload(b))
  /\ b.wire.seq < a.wire.seq + Len(Payload(a))

Apart(segments) ==
  \A i, j \in DOMAIN segments :
    Overlap(segments[i], segments[j])
      => segments[i].wire.seq = segments[j].wire.seq /\ Payload(segments[i]) = Payload(segments[j])

(* Each segment is found at its place among those that arrived, in the     *)
(* part of the bytes that begins behind the first skip ones.               *)
EachInPlace(segments, bytes, skip) ==
  \A i \in DOMAIN segments :
    LET data == Payload(segments[i])
        at == skip + Cardinality({x \in Places(segments) : x < segments[i].wire.seq})
    IN  SubSeq(bytes, at + 1, at + Len(data)) = data

(* Segments that a stream can be made of: none is padded or a fragment,    *)
(* and they overlap only by being the same; numbers do not wrap around.    *)
Whole(segments) ==
  /\ Apart(segments)
  /\ \A i \in DOMAIN segments : segments[i].wire.pad = <<>> /\ segments[i].wire.off = 0

FollowIsStream ==
  \A i \in DOMAIN store :
    LET sel == store[i]
        there == Segments(store, From(sel), To(sel))
        back == Segments(store, To(sel), From(sel))
        bytes == FollowTcp(store, sel)
    IN  "tcp" \in sel.flags /\ Whole(there) /\ Whole(back)
          => /\ Len(bytes) = Cardinality(Places(there)) + Cardinality(Places(back))
             /\ EachInPlace(there, bytes, 0)
             /\ EachInPlace(back, bytes, Cardinality(Places(there)))

(* The datagrams of a pair are the same from whichever of them one starts. *)
FollowIsPair ==
  \A i, j \in DOMAIN store :
    LET p == store[i]
        q == store[j]
    IN  "udp" \in p.flags \cap q.flags /\ {From(p), To(p)} = {From(q), To(q)}
          => FollowUdp(store, p) = FollowUdp(store, q) /\ Range(Payload(q)) \subseteq Range(FollowUdp(store, p))

(* The datagram that a key names is made of these. *)
Pieces(key) == {w \in FramesOf[traffic] : FragKey(w) = key /\ (w.off > 0 \/ w.more)}

DefragExact ==
  LET times(w) == Quantify(DOMAIN store, LAMBDA i : store[i].wire = w)
      table == Defragmented(store)
      out == table.out
  IN  ~table.lost =>
      /\ \A i \in DOMAIN out : \A w \in Pieces(out[i].key) :
           /\ w.off + Len(w.data) <= Len(out[i].data)
           /\ SubSeq(out[i].data, w.off + 1, w.off + Len(w.data)) = w.data
      /\ \A key \in {FragKey(store[i].wire) : i \in DOMAIN store} :
           (Pieces(key) # {} /\ \A w \in Pieces(key) : times(w) = 1)
             => Quantify(DOMAIN out, LAMBDA i : out[i].key = key) = 1

(* The answers to a request that is followed are found with their bodies.  *)
(* (From an answer it is the first line of the request that is added.)     *)
AnswersFound ==
  \A i, j \in DOMAIN store :
    LET request == store[i]
        answer == store[j]
        found == ExtractHttpObjects(FollowTcp(store, request))
    IN  /\ {"http", "tcp"} \subseteq request.flags /\ request.wire.body = "request"
        /\ "http" \in answer.flags /\ answer.wire.body = "answer" /\ Len(answer.wire.data) > 1
        => [isRequest |-> FALSE, line |-> "HTTP/1.", body |-> <<Last(answer.wire.data)>>]
             \in Range(found)

(* What is put together is what was sent.  Following the stream of any     *)
(* packet gives the bytes of its direction and then those of the other     *)
(* one, each in the order of the stream and once, in whatever order, how   *)
(* often and between which other packets the segments arrived, and the     *)
(* answers in it are found.  A datagram comes out of its fragments whole,  *)
(* of its own bytes only, and does come out when each of them arrived      *)
(* once, in whatever order and between whichever others (none of which was *)
(* cut: defrag_ipv4 panics on such a frame, and is not called yet).        *)
Reassembled == FollowIsStream /\ FollowIsPair /\ DefragExact /\ AnswersFound

(* The tables agree with the packets and with each other: a packet of TCP  *)
(* or UDP is counted in the one row of its conversation, on the side it    *)
(* came from; the filter made for the row shows it; the row of an endpoint *)
(* counts what the rows of its conversations do; and the protocols count   *)
(* each packet once.                                                       *)
ConversationsAddUp ==
  LET rows == Conversations(store)
      kinds == {"tcp", "udp"}
      sent(kind, a, b) == Quantify(DOMAIN store, LAMBDA i : /\ kind \in store[i].flags
                                                             /\ From(store[i]) = a
                                                             /\ To(store[i]) = b)
      both(k) == rows[k].ab + rows[k].ba
      of(e) == {k \in DOMAIN rows : k[1] = e[1] /\ e[2] \in {k[2][2], k[3][2]}}
      twice(k) == IF k[2][2] = k[3][2] THEN 2 * both(k) ELSE both(k)
  IN  /\ \A i \in DOMAIN store : \A kind \in kinds \cap store[i].flags :
           LET p == store[i]
               own == {k \in DOMAIN rows : k[1] = kind /\ {k[2], k[3]} = {From(p), To(p)}}
           IN  \E k \in own :
                 /\ own = {k}
                 /\ rows[k].ab = sent(kind, k[2], k[3])
                 /\ rows[k].ba = IF k[2] = k[3] THEN 0 ELSE sent(kind, k[3], k[2])
                 /\ Matches(ParseDisplayFilter(Show(FilterExpr(k))), p)
      /\ \A e \in DOMAIN Endpoints(store) :
           e[1] \in kinds => Endpoints(store)[e] = MapThenSumSet(twice, of(e))
      /\ FoldFunction(+, 0, Hierarchy(store)) = Len(store)
      /\ FoldFunction(+, 0, LengthHistogram(store)) = Len(store)

(* What was saved opens as it was, if its packets are of one link type,    *)
(* and of one that files can say: as many, in their order, and dissected   *)
(* to the same.                                                            *)
SavedOpensAlike ==
  LET labels == {saved[i].label : i \in DOMAIN saved}
  IN  saved # <<>> /\ Cardinality(labels) = 1 /\ labels \subseteq {"eth", "sll", "null"}
        => \A capture \in disk : Opened(capture) = saved
=============================================================================
