# A specification of BitBeak

BitBeak is a terminal workspace for network work: tabs that hold HTTP
requests, raw streams, listeners, a proxy, diagnostics and packet captures.
This directory specifies in TLA+ the part of it that runs concurrently - the
tabs and their connections, the capture session and its thread, listeners and
their clients, the proxy, the framing of streams - and the part that decides
what a packet, a filter, a form or a request means; checks it with TLC and
proves the central facts with TLAPS.  Every definition
is translated from the Rust source; PROJECT.json maps it to its lines.

## The system

One task, the **event loop** (`app.rs`), owns every tab.  Each turn it drains
the capture that is shown, draws, and waits for one key, click or I/O event.
It blocks for everything it awaits: `join()` of a capture thread, an HTTP
request, a diagnostic.  Everything else runs in tasks of a multi-threaded
runtime or in OS threads, and talks to the loop through channels.

| Component | State | Operations | Interacts through | Hard because |
| --- | --- | --- | --- | --- |
| Workspace (`workspace.rs`, `app.rs`) | tabs, active index, overlay | open, select, close, confirm, palette | fan-in channel of (index, event) | indexes captured at attach time; the confirmation outlives what it asks about |
| Stream session (`session/stream.rs`, `transport/`) | status, frame log, composer | connect, reconnect, send, replay | command channel to, event channel from the connection task | old and new connection of one tab at once; many ways for a connection to end |
| Listen session (`session/listen.rs`, `transport/`) | client list, selected client, log | broadcast, send | as above, and the map of clients | client tasks race the map and the announcements; WebSocket clients share one id, and the way one ends decides whether it is announced |
| Proxy (`session/proxy.rs`) | `splice_live`, inject slot, log | accept, splice, inject, intercept | shared atomic and mutex | one slot for all clients; a `select!` that parks |
| Capture (`session/capture.rs`) | packet store, filters, selection, key log | start, stop, drain, filter, navigate | bounded channel, stop channel, `join()` | UI thread and capture thread wait for each other |
| Disk ring (`capture/ring.rs`) | index, size, writer | write, rotate | called by the drain | a rotation can fail half-way |
| Framing (`framing.rs`) | codec | encode, decode | called by the connection task on each chunk | state lost between chunks |
| Frame log (`frame.rs`, `session/mod.rs`) | bounded list of frames, selected row, follow | push, move, click, jump | indexes held by sessions | eviction moves the indexes |
| HTTP session (`session/http_session.rs`, `http/client.rs`) | form, one row editor, response, pane of the history | every key, click and command; build, send, redirect, replay, save, load | the event loop waits for the answer; files | one editor for all rows; what is sent, saved, recorded and replayed are built by four pieces of code |
| Cookies, history, collections (`http/cookies.rs`, `http/history.rs`, `collections/`) | files, and a copy of the jar in each tab | match, expire, prune, list, save, delete | files shared by all tabs | lost updates, writes that fail |
| OAuth (`http/oauth.rs`, `app.rs`) | `oauth.toml`, one access and one refresh token | refresh, authorize, exchange | one file for all clients | answers without a token, failing writes |
| Filters (`capture/cap_filter.rs`, `capture/bpf.rs`, `capture/disp_filter.rs`) | none | parse, evaluate, compile | kernel, capture thread, drawing | one language, three evaluations |
| Dissection (`dissect/`) | reassembly, follow, statistics | dissect, ingest | packet store | ports and first bytes decide; duplicates, overlaps, any order |
| Diagnostics, drawing, command line, code generation, import | none that matters | - | - | sequential |

What makes each correct: a tab only hears from its own connection, is closed
only when it is not live or the user said so, and leaves nothing running;
packets reach the store once, in the order of the wire, only those the filter
shown accepts, and the store says truthfully what it dropped; the ring on disk
keeps the newest packets; the proxy relays everything in order and an injected
payload reaches one upstream; frames are cut at the same places whatever the
chunks; a filter means the same wherever it runs; what was sent in pieces is put
together as it was; a request is what the form says, and is the same when it is
saved, loaded or replayed.  PROJECT.json "hazards"
lists, line by line, where this can go wrong.

## Modules

| Module | Models | Extends |
| --- | --- | --- |
| `DiskRing` | `capture/ring.rs`, as values and operators | |
| `Capture` | the capture session, the packet store and the capture thread | `DiskRing`, instance of `PacketLog` |
| `PacketLog` | what a capture promises: an ordered log with a bounded window | |
| `MCCapture` | `Capture` on a small instance | `Capture` |
| `Workspace` | tabs, confirmation, stream connections, forwarders, event loop | |
| `Proxy` | accept loop, handlers, the two tasks of a splice, the composer | |
| `MCProxy` | `Proxy` on small instances | `Proxy` |
| `Listener` | listen session; accept loop, the task and the queue of each client (TCP, UNIX); the loops that serve one peer (WebSocket, UDP) | |
| `MCListener` | `Listener` on a small instance | `Listener` |
| `Framing` | `framing.rs`, `drain_frames`, and what is sent and replayed | |
| `MCFraming` | `Framing` on a small instance | `Framing` |
| `CapFilter` | the capture filter: parser, evaluation on bytes, kernel program, what the kernel makes of it | |
| `Layers` | what the dissectors make of a frame | `CapFilter` |
| `DispFilter` | the display filter: parser and evaluation on a dissected packet | `Layers` |
| `Dissect` | follow, HTTP objects, IPv4 reassembly, statistics | `DispFilter` |
| `Packets` | a capture as its user sees it: filters, rows, files, in and out | `Dissect` |
| `MCPackets` | `Packets` on small instances | `Packets` |
| `FrameLog` | the frame log and its selection, as values and operators | |
| `HttpClient` | requests, redirects, cookies, history, environments, as values and operators | |
| `OAuth` | the token store, as values and operators | |
| `HttpSession` | HTTP tabs: form, sending, files, OAuth | the three before |
| `MCHttp` | `HttpSession` on small instances | `HttpSession` |
| `DiskRingProofs`, `CaptureProofs`, `WorkspaceProofs`, `ProxyProofs`, `ListenerProofs`, `FramingProofs`, `HttpProofs` | the theorems | the modules they are about, `CaptureProofs` also `DiskRingProofs`, `FramingProofs` and `HttpProofs` also `Walks` |
| `Walks` | lemmas about walks along a sequence: induction, recursive functions, folds | |

Conventions: one action is what one thread of control does without giving
another the chance to step in between.  A definition whose name extends another
one's (`NavUnsaturated` and `Nav`) is a variant of it with a defect; no
specification uses it, and each property is shown to fail when the variant
takes the definition's place.

### Capture

The variable `ui` is the program counter of the UI thread (`loop`, `drain`, in
`join()` for `stop`, `restart` or `close`), `thr` that of the capture thread
(`check` the stop channel, `next` packet, `send`).  `chan` is the bounded
channel, `held` the packet in the thread's hand, `rx` whether the receiver still
exists.  `stop_capture` is split where the UI thread waits: `BeginStop` sends
the stop message, `FinishStop` is everything after `join()` has returned,
including the restart that `set_capture_filter` does in the same call.
A packet is its number on the wire, its kind (all a filter can see) and the key
log it was dissected with.  The display filter, the selection and `follow` are
modelled as they are computed from the filtered rows.  The thread may die (a
panic in a dissector); the drain then finds the channel closed.

The disk ring is a record.  A packet's kind decides the size of its block
(`BlockBytes`); `bytes` is `current_bytes`, which counts these blocks alone, while
`sizes`, what the files take on disk, has the section header and the interface
block too.  The size is compared before the packet is written, so a file exceeds
`MaxBytes`.  Each write may fail in the ways of `Outcomes`, also between the
interface block and the packet's; `lost` is a history of whether one did.

### Workspace

All tabs are stream sessions.  A `Task` is one connection with its command
queue, the events its forwarder has not taken yet, and the index captured by
`attach_io`.  `fan` is the channel the event loop reads.  Commands are looked at
only once connected, as in the code, and are dropped once the task is gone.
`overlay` has one value for all overlays other than the close confirmation.
Ctrl-W, Ctrl-C and Ctrl-T work over any of them, tab switching over none.

### Proxy

`phase` follows a client's handler through the statements of the accept loop,
each a step of its own because handlers run in parallel.  `c2s` and `s2c` are
the two tasks: `head` looks at the shared flag, `wait` is the `select!` (or the
read), `stuck` the pending future.  `slot` is whose inject sender is in the
mutex.  Closing the tab is not an action: it drops the command sender and
touches nothing else; the accept loop and the splices go on.

### Listener

`list`, `selected`, `status` are the session's, `map` is the shared map of
client senders, `queue` what is in each sender's channel, `accepting` the client
between its announcement and its registration, where the loop waits for the
lock.  `events` stands for the channel, the forwarder and the fan-in together,
which keep the order; that a tab's index can be stale is `Workspace`'s subject.
`client` follows a client's task: `serving`, then `ending` (out of its loop),
`removed` (from the map), `left` (announced).  A failed write is `ClientEnds`:
the payload is lost and not shown.  The TCP loop looks at commands first, the
UNIX loop at either; the model allows either.  `sent` records, as history, for
whom each payload was meant.

`protocol` is the kind of listener, chosen at the start.  `peer` belongs to the
two that serve one peer themselves: the WebSocket under way, or the sender of the
last datagram.  For a WebSocket `accepting` is the handshake, during which the
loop does nothing else; `lost` is the end of a client nobody announces, after a
read error, a failed handshake or write, or the end of the loop.  Clients are
listed by `id` and counted by `peer`, their address, which is the same for TCP but
not for WebSockets, whose ids are all 1.  A UDP listener lists nobody, so
nothing is ever sent to anybody in particular.

### Framing

One connection under one framing.  `pipe` is what the other end has written and
nobody has read; a `Read` takes any part of it.  `codec` is the decoder that
`drain_frames` makes for each read: a decoder that holds a length forgets it
when it is dropped (`whole` is a history of whether that happened).  Every turn
of the loop in `drain_frames` is a step: `DecodeLine`, `DecodeLength`,
`DecodeBody`, or `NoFrame` when the codec has nothing or an error, which end the
loop alike.  `LinesCodec` is modelled by what it does: a carriage return before
the newline goes, a line that is not text is an error after it was taken out.
`out` keeps of a sent frame what the log keeps, the bytes written.

### PacketLog

What `Capture` promises to whoever does not care how it is built: packets are
taken off the wire in its order, at most `Room` are under way, each is put into
the log in that order and once, and the log keeps the newest `Capacity`.  Only
`Stop`, after the operator asked for it, throws away what is under way; a
capture that ends by itself (`End`) must have delivered everything.  `Capture`
implements it with `mode` made of the program counter of the UI thread and
`capturing`, `underWay` of the channel and the packet in the thread's hand, and
`log` of the store.  The channel's capacity plus one is `Room`.

### Packets, and what it is made of

A frame is a record of what the dissectors and filters tell apart: link type,
tags, network and transport protocol, addresses, ports, flags, sequence number,
fragment, checksum, what its message is, where it was cut off.  A filter is a
sequence of words, as the user types it, and `Show` of a tree is how one is
written; `CapFilter` and `DispFilter` parse it as the code does, by searching
the text for `or`, then `and`, then `not`, outside brackets.  `MatchesRaw`
evaluates at offsets, `CompileSimpleBpf` makes a list of instructions with jumps
as `bpf.rs` does, and `KernelAccepts` and `KernelRun` are the kernel's part
(external): the kernel refuses a program with an opcode it does not know, and
`StartWith` fails then, as `open_with_filter` does.  `Dissected` is the order in
which the dissectors try ports and first bytes.  `arrivals` is a history of each
frame that passed while the capture ran, with the filter then set.  What a frame
and a filter *mean* (`Carries`, `Means`) is defined apart from the code's
algorithms, from the frame itself.

A capture is modelled here as its user sees it, one action per turn of the event
loop; threads and channels are `Capture`'s subject.

### HttpSession, and what it is made of

A tab is a record with all the fields of the form.  `edit` is the one editor
(`form_key`, `form_value`, `form_file`) that every row of a form shares; `row` is
the row it is about.  `Commit` is `commit_form_editor_to_row`, and which
transition calls it is exactly what the code says: Tab does, Shift+Tab and the
authentication command do not.  `Drawn` is which fields the UI draws for the
body mode and the kind of authentication, since only these can be clicked.
`net` holds the request the event loop waits for; nothing else happens until
`Answer` or `NoAnswer`, which is the code: the loop awaits it.  A request that is
redirected stays in `net` with one more hop.  Text is abstracted to words that
the code tells apart (`{{x}}` for a variable, `\\` for what the composer
decodes); a URL is a record in `UrlOf`.  `meant` is a history of each tab's rows as
the operator left them, `slipped` of whether he left one by a way that loses it,
`given` of what the jar of each tab was given, by the file it read and by the last
answers of its requests, `kept` of the same for the jar in the file, `trail` of the
chain of redirects with the limit it is under, `borrowed` of whether the refresh
token stands beside the name of a client that did not get it.  A `load` limits each instance to
some of the actions: the actions themselves do not depend on it.

## Runs

| Run | Instance | Shows |
| --- | --- | --- |
| `capture` | channel 2, store 3, wire 4 or 3 and one key log, two kinds of packets, two filters, ring of two files of size two, packets of size three and one, headers | all the capture properties below, and that `Capture` implements `PacketLog` |
| `capture_stop` | channel 1 | **violation**: stopping with a full channel never returns |
| `workspace` | two connections, one payload each | all the workspace properties below |
| `workspace_stale` | same | **violation**: a stale event reaches another tab |
| `proxy` | two clients at once with two injected payloads, two after each other with one and one piece of data, or one with two of each | all the proxy properties below |
| `proxy_uploads` | two clients at once, one piece of data | **violation**: the first client's uploads stop |
| `listener` | three kinds of listeners, two clients, two payloads, one frame read by an accept loop's tasks and two by the others | all the listener properties below |
| `framing` | four framings, seven payloads, two of them each way, prefix of two bytes, frames of at most two | the framing property below |
| `framing_cut` | one payload, length prefix | **violation**: a cut between length and body |
| `packets` | seven kinds of traffic, below | all the packet properties below |
| `http` | twelve loads of requests and four more for redirects, below | all the HTTP properties below |
| `http_refresh` | same | **violation**: a client is refreshed with the token of another |

Why the bounds are enough.  *Capture*: a channel of two packets, a store of
three and four packets on the wire reach a full and a partly full channel, packets
of two filters in the channel at once, a restart with packets in flight, a
selection that a narrower filter leaves past the last row before anything is
evicted, eviction, and two rotations of the ring, with a packet that fills a file
alone and two of the other kind that do it together.  *Workspace*: two connections are a
reconnect, or two tabs, or a tab closed and another opened at its index; with
one payload a command, a frame and every kind of end can be pending together.
*Proxy*: two handlers overlap in every order of their steps; two pieces of data
and two payloads show loss and reordering.  *Listener*: with two clients one is
selected while the other leaves, or both leave, or one is accepted while a
broadcast is under way; two payloads show order, and one to a client that left; two frames are
datagrams of two peers, with a reply before, between or after them.  *Framing*: two payloads
from a set with every special case (empty, ending in a newline or a carriage
return, containing one, not text, too long), cut at every byte.
*Packets*: `frames` is two frames of every kind a capture filter tells apart
(versions, tags, options, extension headers, fragments, cut off) under a dozen
filters, and three made from URLs, with every operator, precedence and
negation; a filter may be changed between the two.  `shown` is the same for
display filters, `apps` one message of each kind that a dissector knows under
the name of each protocol.  `streams` is up to four segments of two connections
in every order, with repetition, padding and an empty one; `fragments` four of
two datagrams with one identification; with four, one can be missing, twice or
between others.  `http` is an exchange of which the answer comes in pieces,
saved and opened again; `files` one file of each link type and one of two.
*HTTP*: two rows of a form are the least where an editor can put its text into
the wrong one; seven keys add, type, move, delete and leave, five where tabs are
opened, closed and switched in between.  Two tabs, a clock
of two values of the cookies' age, two kept entries of the history and three
frames reach expiry, lost updates, pruning and eviction.  Chains of redirects
exceed the limit of two.  Two clients with tokens that come and stay away are
what one token file can mix up.

### Properties

Capture - `StoreIsNewestWindow`: ids have no gaps, the store never exceeds its
capacity, `dropped` is exact.  `InWireOrder`: order of the wire, nothing twice,
across thread, channel, store and restarts.  `RunningThreadIsShown`: no capture
thread behind a session that says it is stopped.  `DiskRingKeepsNewest`: unless
a write failed the files hold a window of the newest packets; a packet is given up
only when all files but the current one are full; and a file exceeds its size by
less than its last packet.
`FilterEnforced`: no packet that the filter shown rejects enters the store.
`SelectionSurvivesTraffic`: while nothing is evicted, arriving packets do not change
which packet is shown to someone who does not follow, with one exception: nothing
that sets the display filter (`set_display_filter`, `apply_filter`, Enter in the
conversations) touches the selection, so a narrower filter can put it past the
last row; the last row is shown then, and each new one that the filter lets
through.  (With eviction the packet changes too: the selection is a row number.)  `StopReturnsWithRoom`: stopping terminates if
the channel has room.

Workspace - `LiveTabsCloseOnlyWhenAsked`: a live tab goes away only by the
answer to a confirmation about that very tab.  `OneConnectionPerTab`: at most
one connection per tab still listens to it.  `OrphansEnd`: a connection no tab
shows ends.  `StatusIsOfTheConnection` and `EndIsShown`: as long as no tab was
closed, a tab only hears from its current connection, and hears of its end.

`IsPacketLog`: the two threads, the channel and the store are together a
`PacketLog`.  It implies that a thread that ends by itself loses nothing: the
drain that finds the channel closed has taken everything out of it before.

Proxy - `InjectedOnce`: an injected payload reaches one upstream at most, once,
and in the order entered.  `SlotIsServed`: the slot never names a client that
left; and as long as no two clients were served at a time, `splice_live` is what
its comment says.  `Transparent`: what an end receives is, injected
payloads apart, a beginning of what the other end sent, nothing lost in the middle,
repeated or reordered, and only the upstream receives injected ones; a `select!`
that is cancelled loses no data.  `UploadsFlowAlone`: as long as no two
clients were served at a time, data of a client is forwarded; with two it fails
(`proxy_uploads`).  `SplicesEnd`: under the same condition a splice both ends
left is cleaned away.

Listener - `ListIsTrue`: as far as pending events go, the list is exactly
the clients accepted and not gone, each once; none is heard of after it left or
leaves before it came (a WebSocket that was lost stays listed, see the limits, but
whoever is served is listed); somebody listed is selected, if anybody is; and the
counters of a listed client miss exactly the events still pending.
`DeliveredAsMeant`: a payload for one client reaches
no other, one for nobody in particular at most one, who was heard of, and nothing
twice or out of order.  `BroadcastReachesAll`: a broadcast
(docs/sessions.md:36) is on its way to, or has reached, every client
the user saw, unless that one or the listener failed.

Framing - `FramesAsSent`: without framing nothing is lost or reordered; lines
arrive as they were sent wherever the stream is cut; so do prefixed frames as
long as no read ends between a length and its body.  It is about text and about
frames that are not too long: a line that is not text disappears and holds up
those behind it until the next read, and a length above `max_frame` silences the
connection.  And a replay repeats the bytes of what it replays, but with a
length prefix: the log keeps the prefix, and the replay is prefixed again.

Packets - `FilterExact`: a plain frame is in the store exactly if it arrived
while the capture ran and the filter then set means it, as the capture thread
evaluates it; under a filter that is compiled for the kernel no capture starts
(see the limits).  `RowsAsMeant`: the list shows the frames the display filter
means, for `==`, `=` and `contains` of fields and `<` and `>` of lengths; the other
operators are listed under the limits.  `Reassembled`: what is put together is what
was sent, whatever the order (streams, pairs of datagrams, fragments, the answers in a stream).
`ConversationsAddUp`: the tables agree with the packets and with each other, and
the filter made for a row shows its packets.  `SavedOpensAlike`: what was saved
opens as it was.

HTTP - `SavedIsWhatIsSent`: a request saved and loaded elsewhere is sent as this
tab would send it.  `SentAsTyped`: no row typed into a form is lost or put into
another one, in any tab.  `ReplayRepeats`: a replay in a tab of the same
authentication is not authenticated or built twice.  It speaks of entries that
another substitution leaves as they are: with variables `base` and then `x`, whose
value is `{{base}}`, one pass makes `{{base}}` of `{{x}}`, and the replay makes more
of that.  `CookiesSurvive`: the jar of a tab is what the file was when it was
opened and what the last answers of its requests made of it; the file is the jar
of the last save that succeeded, whichever tab's.  `RedirectsFollowed`: a whole chain
follows the rules of docs/http.md and ends where they say, or at a redirect
without a Location.  `RefreshesItsOwn`: a refresh presents the token that was
given to its own client, whoever was authorized in between, as long as no
exchange without a refresh token put another client's name beside an older
token, which is what `http_refresh` shows.

Several of these have a precondition, and what it leaves out is listed under
"Limits" below.  The documents do not deny most of that.  Five times they do, so
that the program is not what they say:

- the operators `!=`, `<=` and `>=` of display filters (docs/filters.md:70) match
  nothing, not even in the example `frame.len >= 100` (line 67);
- the simple capture filters (docs/filters.md:14, 23-27; docs/capture.md:54) are
  compiled to a program that the kernel refuses, and the capture does not start;
- the capture filter `tcp port 443` (docs/filters.md:18-19) does not parse;
- Enter in the history, which should replay (docs/http.md:85), sends the form;
- `: replay-http` (docs/palette.md:61) finds no request to load.

The models do as the code does; the properties are about what is left.

### What the violations show

- `capture_stop`: `stop_capture` joins the thread before it drops the receiver;
  a thread blocked in `send` never sees the stop message.  A background tab
  that fills its channel (nothing drains it) and is then stopped or closed
  hangs the program.
- `workspace_stale`: the comment at `app.rs:91` says events for a stale index
  are ignored; they are only if no tab has that index by then.
- `framing_cut`: each read has a codec of its own; a length that was taken out
  of the buffer before its body had arrived is gone.
- `proxy_uploads`: the inject slot and `splice_live` are shared
  by all handlers.  A second client's sender replaces the first one's, whose
  receiver then reports the end of the channel; the branch for it awaits a
  future that is never ready, and with it the whole client-to-server direction.
  For the same reason `splice_live` (proxy.rs:43, "True while an accepted client
  splice is active") is not what it says with two clients: a handler that ends
  clears the flag and the slot of the other one.
- `http_refresh`: the comment at `app.rs:1567` says that a refresh token is used
  if there is one "for this client".  The token of an earlier client stays when
  an exchange brings none, and `client_id` is then the new one's.

### Limits that the properties leave out

What the models showed to be outside a property, beside the violations:

*Browsing.*  The selection is a row number: a narrower display filter may leave it
past the last row, and eviction moves the packets under it.

*Capture filters.*  `BPF_LDH` and `BPF_LDB` in `bpf.rs` are 0x01 and 0x02; the
kernel's are 0x08 and 0x10, so it refuses every compiled program and a capture
on Linux does not start under a filter that is simple enough to be compiled
(`is_kernel_simple`).  The jumps of the programs would not be right either.
`--capture-filter` (cli.rs:84) is read by nothing.  `tcp port 443`, as the
documents write it, does not parse; `: sniff` on a URL makes a filter that does
not parse for a name, and one the kernel refuses for an address.  Protocols are
not seen behind extension headers of IPv6 or two tags, and `host` does not match
ARP.

*Display filters.*  Of the operators in docs/filters.md, `!=`, `<=`, `>=`, and
`==` on `frame.len` and `expert.severity`, never match: `parse_field_op` is tried before
`frame.len` and cuts at the first equals sign (disp_filter.rs:204, 224), so that
`frame.len >= 100` asks for a field named `frame.len >`.  `matches` and slices are not modelled; `ip.addr` is matched by
substring, and `contains` on it compares with the text of the operator; `ip.src` of an IPv6 or MAC address without a port is cut at its last
colon; `http.request.method` of an answer is `HTTP`.

*Dissection.*  DNS over TCP shows as WebSocket, SIP's OPTIONS over TCP as HTTP,
text over UDP as QUIC, whatever is on 443 as TLS; bytes of a later fragment are
read as ports; an offloaded IPv4 packet of length zero has no payload.  A key
log decrypts nothing that needs state of an earlier packet, since each packet
has its own `DecryptState` (docs/capture.md:82).  The device `any` labels the
frames of a raw socket as SLL, which they are not.

*Follow and reassembly.*  Sequence numbers are compared without wrapping,
segments that overlap in part appear twice, and padding of a short frame is
taken for payload.  A fragment that arrives twice keeps its datagram from ever
being complete; of one that was cut off, or of a null frame, header or payload are
taken where they are not, which may panic (reassembly.rs:111); `defrag_ipv4` is
called by nobody.  From an answer's side the
first line of the request is added to the answer's body, and `: replay-http`
finds no request (`follow.rs:141` cuts at every `HTTP/1.`; docs/palette.md:61).
The filter of a conversation shows other conversations that share a port.

*Files.*  SLL2 and other links are saved as Ethernet, raw IP as 101, which
`from_u32` does not know; a file of several link types is read as the first's.

*Forms.*  Shift+Tab and `: auth` leave a row without putting its text back, and
so does leaving a form without rows.  `cycle_focus` backwards never leaves the
name of a row.  That the body is hexadecimal is not saved, and an API key
without a name comes back as `X-Api-Key`.

*History.*  Enter on the focused history sends the form's request
(docs/http.md:85 says it replays); only a click replays.  Two answers of one
status within a second are one entry, the later one (`history.rs:30`).  A variable
whose value names an earlier one is substituted further by a replay.  A replayed form has no rows, a gRPC
request in query authentication has its key twice, scripts run again, and
backslashes in a body are decoded again.

*Cookies and redirects.*  Two tabs overwrite each other's jar in the file, and that a
jar or an entry of the history could not be written is ignored; the models take
such a file as it was before, not as one cut short.  The Set-Cookie of a
redirect is lost, and that of the last answer is filed under the host first
asked.  A redirect without a Location ends a chain.  All headers go along a whole chain; a relative Location is resolved
against the root.

*Collections.*  A collection that cannot be written discards the request and
keeps the cursor where it would be.

*OAuth.*  `state` is not compared; one connection is accepted, and a stray one
uses it up; after the timeout the thread keeps the port; a store that cannot be
written is not reported, so a rotated token may be lost; requests for tokens
have no timeout, and the event loop waits for them.

*Key log.*  A running capture keeps the one it was started with.

*Listeners.*  A WebSocket client that ends with a read error stays listed until
the next one leaves, which has the same id, and the session shows an error while
the listener goes on; so it does for UDP when there is nobody to reply to yet.
Nothing sets the status back.  A payload for a WebSocket client reaches the next
one if the first has left meanwhile, and a UDP reply goes to whoever was heard
last, not to whose datagram was on the screen.  A peer that connects to a
WebSocket listener and does not upgrade ends the listener.  A line that is not text disappears and those behind it wait for the next read.

### Fairness

`Capture`: the UI thread finishes what it began (it is one call), and the
operating system runs the capture thread; that is weak fairness of each.  The
drain begins with an input event, so nothing forces one, which is why the stop
can find a full channel.  `Workspace`: weak fairness of the event loop, of each
forwarder, of the end of `connect()` (the operating system times out) and of
taking a waiting command (`select!` chooses at random among the ready branches;
a peer that sends for ever is bounded in the model).  A peer that never reads
would block `write_all` for ever; the model takes a write as finished or failed.
`Proxy`: weak fairness of the command forwarder, each handler and each task,
but not of connecting, where a client may withhold its TLS hello for ever.
`Listener`, `Framing`, `Packets` and `HttpSession` have safety properties only and
assume no fairness.
The user and the peers never owe a step.

## Proofs

`CaptureProofs` proves, for every size of the store, the channel, the ring and
the wire, `TypeOK`, `StoreIsNewestWindow`, `InWireOrder`, `RunningThreadIsShown`
and `FilterEnforced`.  They rest on one inductive invariant, `IInv`, which TLC
checked before it was proved.  Beyond those properties it says: a packet is held
exactly while the thread is about to send it, and ids, wire numbers and the
positions of a packet are in line (`Line`: everything in the store is older than
everything in the channel, that older than what the thread holds, all at most
`wire`); while a file loads no thread runs (`LoadingIsQuiet`); and everything in
flight was accepted by the filter shown unless the UI thread is in the restart
that throws it away (`FilterOfThread`).  Without the last, `FilterEnforced` is
not inductive: the drain sees the filter shown, the packet was tested with the
thread's.  There is one lemma per conjunct and in it one step per action.
The assumptions are those named in the modules (`CaptureAssumption`,
`DiskRingAssumption`): positive capacities, and a filter that accepts all.

On top of `IInv` it proves `DiskRingKeepsNewest` and `SelectionSurvivesTraffic`.
The ring needs to know how packets lie in its files (`RingInv`, also checked
before it was proved): unless writing was given up, every file that was opened
is full but for the current one and exceeds its size by less than its last packet
(`FileOf`), the current one has the headers and what `current_bytes` counts
(`CurrentFile`), a file opened earlier holds older packets (`FilesInOrder`, by the
`Age` of a file, its distance from the current one round the ring), and until the
first file comes round again every packet is on disk (`Layout`).
`DiskRingProofs` shows for each operator of the ring, whatever the file system
answers, its type and what it does to such a layout: `RotateKeeps` gives up the
oldest file only, `AppendKeeps` adds the newest number, and `WriteKeeps` puts
them together; once writing was given up it stays so (`WriteStaysLost`).
`SelectionSurvivesTraffic` is about rows, which are numbered by a cardinality:
a packet behind the others leaves their numbers as they are (`RowsGrow`), of two
packets shown the later has the higher one (`RowsDiffer`), and below the number
of rows every number is that of a packet (`RowIsThere`), so the packet selected
is there and is the same before and after.  A selection past the last row shows
the last one (`LastRowIsShown`), which is the new packet or stays what it was
(`LastRowGrows`).

Its last part proves that a capture session implements `PacketLog`
(`IsPacketLog`), for every capacity: `BeginsAsLog` for the initial states, and
`StepOfLog` for the steps, with one step per action.  Draining is `Deliver`, a
packet the thread keeps is `Take`, one that a filter rejects or that kills the
thread is `Pass`, sending into the channel is a stutter.  It rests on `IInv` and on
`ChannelFits`, that the channel keeps to its capacity, without which a `Take`
could exceed `Room`; `InFlight` is what makes an `End` find nothing under way.
The lemmas before are about sequences of numbers, joined and cut.

`WorkspaceProofs` proves, for any number of tabs, connections and payloads,
`TypeOK`, `OneConnectionPerTab`, `LiveTabsCloseOnlyWhenAsked` and
`StatusIsOfTheConnection`.  One lemma per action says what it does to the
sequences (`OpenShape`, `ReconnectShape`, ...); the preservation proofs use only
these.  `LiveTabsCloseOnlyWhenAsked` needs `Asked`: the confirmation is about the
tab that is shown.  `StatusIsOfTheConnection` needs `Heard`: an event carries the
index its connection was attached at (`Stamped`, `Attached`); a Disconnected is
the last word of a connection, in its queue and in the fan-in channel
(`LastQueued`, `LastForwarded`); so a tab shows it only when nothing more can
come (`Final`), and as only such a tab reconnects, a connection that no tab shows
has nothing more to say (`Silent`).  That is why Reconnect must refuse a tab in
state Error, after which a Disconnected may still follow.

`ProxyProofs` proves, for any set of clients and any number of payloads and
pieces of data, `TypeOK`, `SlotIsServed`, `Transparent` and `InjectedOnce`.
`Transparent` needs to know where every piece is: what waits to be read is the
last that was sent (`Waiting`), nothing is read before a splice is up (`NotYet`),
and an end that is still there has received all that was read from the other
(`Relayed`); only then is what is written next the piece behind the last one.
`InjectedOnce` needs the whole way of a payload: numbers in the command channel
are newer than all that were forwarded (`Numbered`, `Forwarded`), those in the
channel of a splice newer than those its upstream received, and no two splices
were given the same (`Queued`).  `SlotIsServed` needs `Alone`: while clients were
served one at a time, slot and `splice_live` follow the phase of the one served.

`ListenerProofs` proves, for any number of clients, payloads and frames and every
kind of listener, `TypeOK`, `DeliveredAsMeant` and `BroadcastReachesAll`.  The
invariant says what an id can mean (`Known`: whoever is announced, listed,
selected or meant was accepted, and is known by the id that goes with it), in
which stage each client is (`Stages`: one conjunction for each kind of listener;
for an accept loop, that a task that serves is in the map and that only such a
task has a queue), that what a client received, what is queued for it and what
the loop has not seen come in the order of sending (`InOrderOfSending`), that a
payload for one client is with that one only (`ForOne`), and why the loop ended
(`ServerInv`): closing the tab ends it only behind the last command, which is
what `BroadcastReachesAll` needs.  `Without` keeps an order by position; that
there is one (`Enumerable`) is proved by induction.

`ListIsTrue` is proved on top of it.  The list is the past, the
events under way are what it will hear: `ShownIn` says whom it shows once they
have arrived, for any list of peers and any sequence of events, and two lemmas
say what one event more (`ShownTold`) or one handled (`ShownHandled`) does to
that; `AtTold` and `AtHandled` do the same for the number of frames under way.
`ListMoves` reduces every step of the listener to five ways in which it can
concern the list.  The invariant adds that a client joins once (`JoinsOnce`), and
that the balance of frames holds also for a client whose joining is still under
way, with none of its frames before it (`PendingFromTheStart`), and for one that
is still to come (`NothingBefore`); without these two, `TrafficIsCounted` is not
inductive.  A WebSocket that leaves takes the id of all others with it, so its
leaving must be known to be that of the only one left (`Leaving`).

`FramingProofs` proves, for bytes of any number of values, a prefix and a limit of
any size, any payloads and any cuts of the network, `TypeOK` and `FramesAsSent`.
The algorithms first: a length that has room in the prefix is read back as it was
written, in either order of the bytes (`LengthReadBack`), and the bytes of a text
carry its lines, each up to its newline (`LinesCarried`).  Then the invariant,
`Arriving`: bytes *carry* a sequence of pieces if they are an encoding of each,
one after the other (`Carries`); what is in the buffer and in the pipe carries the
pieces that are not frames yet, behind the body of the first if its length was
taken out (`Awaits`); and outside of `drain_frames` nothing whole is left in the
buffer (`NothingWhole`), so that once all was read nothing is missing
(`AllDecoded`).  A decoding step takes the first piece and no other because the
first newline in the buffer is the first line's (`LineArriving`) and the first
bytes are the first prefix (`PrefixArrived`).  What a walk over a sequence
computes is a recursive function: `Recursion` of `Walks` says that there is one, and
`Induction` what follows, for a set of numbers in place of an operator.

`HttpProofs` proves, for any requests, servers, typed texts and bounds, `TypeOK`,
`SavedIsWhatIsSent`, `SentAsTyped`, `RedirectsFollowed`, `CookiesSurvive` and
`RefreshesItsOwn`.
They assume `HttpAssumption` (positive capacities) and `RequestAssumption`: a
request has rows of text and a limit of redirects, a status is a number, an answer
sets cookies whose Max-Age, if any, is a number, and the kind of
authentication is chosen, not typed.  The inductive invariant is `Typed`: a tab has
the fields it is made with and its editor stands on a row there is (`TabOK`, one
lemma per operation of the form); what is awaited is one thing and for the tab
that is shown, which therefore neither closes nor changes before the answer
(`AwaitsOK`); the history has no two entries of one time and status
(`Entries`), so of the entries that are kept the oldest one has all others behind
it, and there are no more than the limit (`PruneBound`).  `SavedIsWhatIsSent`
follows from `Typed` alone: `LoadedAgain` compares, field by field, the tab and
the one its request is loaded into, and every part of `BuildSpec` is a function
of these.  `RedirectsFollowed` speaks of the whole chain, of which a step sees
the last request only; the invariant `Redirecting` adds that the request under
way is the last of the chain and that the count of hops is its length
(`UnderWay`); `NextHop` shows that one more hop keeps the rules, whichever of
the answers before it was the first to drop the body, and once nothing is under
way the last answer says why (`Ended`).  `RefreshesItsOwn` needs `Refreshing`: the
stored token is that of the client in the file unless it was borrowed, and while a
refresh is under way nothing else writes the file.  `SentAsTyped` needs to know,
for every tab, how its list and the editor that all rows share make up the rows
that are meant (`Shows`): the list with the editor in place of the row edited;
outside of the form both agree, or else leaving it would have lost the row, except
in mode `raw`, where a row of the history leaves the form behind.  `Meaning` says
it of all tabs that did not slip; there is one lemma per operation of the form,
about the tab before and after.  What is left is `BuildSpec`: without variables
`Substitute` is a fold over nothing, which gives back the text
(`NothingToSubstitute`).  `CookiesSurvive` compares a jar with all that was ever
set.  One cookie stored drops those of its name and domain and adds itself if
it is fresh (`StoreCookieIs`); the cookies kept of a history one entry longer
change in the same way (`KeptNext`); so, by induction over the cookies of an
answer (`StoredIs`), a jar that agrees with the history before an answer agrees
with it after (`ResponseKept`).  The clock takes cookies away from both alike
(`AgreesLater`), a cookie that was expired never being fresh again.  The
invariant is `Jars`: the jar of each tab agrees with what that tab was given
(`TabJars`), and the file with what the jar was given that was saved in it
(`FileJar`), so that a new tab, which reads the file, begins with that history; a
save that fails leaves both the file and its history (`SaveKept`).  `TypeOK` comes
last, because the histories have one entry per tab.

Only model-checked: liveness (`StopReturnsWithRoom`, `OrphansEnd`,
`EndIsShown`, `UploadsFlowAlone`, `SplicesEnd`), which is beyond the prover;
the packets, whose parsers and
evaluations are recursive operators, which the prover does not take; and of HTTP
`ReplayRepeats`, which is about what building a request twice makes of its headers.
Where a proof needs induction over numbers, it is by the least counterexample
(`Induction` of `Walks`, `Least` of `ListenerProofs`, from the well-foundedness of
the order): the rule of induction itself takes an operator, which the provers
cannot instantiate.

## Not modelled, and the plan

Theorems that would come next: that a replay repeats the
request for a request without headers to merge.

Models that would come next: the proxy's HTTP/1 assembler; several
collections and their import; the I/O graph, whose buckets are used again after
two minutes without being emptied (analysis.rs:331).

Left out for good: drawing but for what can be clicked in the HTTP form, the
trees of fields, decryption, system calls of the capture backends, command line,
code generation: sequential, and without a state a model could say something
about.
