# AirPlay for TitanNit: specifications, model checks and proofs

This directory holds TLA+ specifications of airplay4titan, the daemon that turns a
set-top box with the TitanNit image into an AirPlay video receiver. TLC checks the
specifications on small instances; TLAPS proves the central properties for every value
of the constants. `PROJECT.json` maps every definition to the lines it models, and lists
the runs, the faults each property is tried against, the hazards of the code and the
theorems.

    tlc -config MCAirPlay.cfg MCAirPlay      # a run: <config> <module>, see "Runs"
    tlapm AirPlay_proofs.tla                 # the proofs of a component
    tlapm Requests_proofs.tla                # the longest ones, about 7 minutes


## 1. The system

The daemon is one process with one thread. A client (iOS, iTunes, a NAS) connects over
HTTP; the server plays what it is asked to by sending HTTP requests to the web interface
of the box, which listens on the same machine. Both sides of HTTP are the vendored
`mongoose.c`: the server runs one event loop for ever, and every request to the box
starts a private event loop, runs it to its end and destroys it, *inside* the request of
the client that caused it.

    clients --HTTP--> mongoose loop --callbacks--> AirPlay --calls--> TitanRemote
       ^                   |                          |                    |
       '---- events -------'<---- mg_next, mg_write --'                    v
        (reverse connections)                         private mongoose loop --HTTP--> box
                            all of them --> Log (/tmp/airplay.log, /tmp/airplay.log.1)

### Components

| Component | Source | State | Operations | Modules |
|---|---|---|---|---|
| AirPlay server | `AirPlay.cpp/h` | `mediaSessionId`, `status`, `reverseConnections`, `sessionId`; a `Reverse` object per reverse connection | callbacks `MG_REQUEST`, `MG_RECV`, `MG_CLOSE`; `/reverse`, `/play`, `/rate`, `/stop`, `/playback-info`, `/scrub`, `/server-info` | `AirPlay`, `PlaybackEvents`, `RequestHeader`, `PlaybackData`, `LocationText`, `RequestData`, `Player` |
| Control interface | `Control.h/cpp` | none | the contract between server and remote control | `Control` |
| Titan remote control | `TitanRemote.cpp/h` | `m_lastRequestTime` | `getStatus`, `play`, `pause`, `resume`, `stop` | `TitanRemote`, `RequestPacing`, `LocationText`, `Player` |
| HTTP client of one request | `TitanRemote.cpp`, `mongoose.c` | a `Request` on the stack, one connection | `makeRequest`, `connectHandler`, `setStatusFromData` | `HttpClient` |
| mongoose: event loop | `mongoose.c` | list of connections, flags, buffers, times | `ns_mgr_poll`, `mg_next`, accepting, expiry, closing | `EventLoop` |
| mongoose: HTTP framing | `mongoose.c` | receive and send buffer, `num_bytes_recv`, `request_len` of a connection | `on_recv_data`, `try_parse`, `send_continue_if_expected`, `close_local_endpoint`, `ns_write_to_socket`, `parse_http_message` | `HttpServer`, `HttpMessage`, `RequestHeader` |
| Log | `Log.cpp/h` | a file, one backup, `m_pos` | constructor, `log`, `backup` | `Log`, `KeptLines` |
| Binary property lists | `PropList.cpp/h` | none beyond the value read | `Property::read` | `PropList` |
| Conversions | `Util.cpp/h` | none | URL coding, `parseQuery`, `trim`, `getInt` | `UrlCoding`, `AirPlay` |
| Start of the daemon | `Server.cpp` | none | `startAsDaemon`, `readMac`, `main` | `EventLoop` (`Start`), `Player` |
| Mutex and Guard | `Mutex.cpp/h` | one pthread mutex | lock, unlock | not modelled |
| mongoose: the rest | `mongoose.c` | | files, CGI, WebDAV, digests, web sockets, proxies, SSL | not modelled |
| Box and bonjour | binaries, `README.md` | the stream the box plays | keys of the remote control, status | external |

### How they interact

* **Callbacks.** mongoose calls `AirPlay::eventHandler` for a complete request, for data on
  a connection, and when a connection is closed. The result (`MG_TRUE`, `MG_FALSE`,
  `MG_MORE`) decides whether the connection waits for the next request, is closed, or
  stays pending as a reverse connection.
* **Calls.** Inside a request the server calls the remote control, which calls
  `makeRequest` one to 22 times. During all of that no other connection is served, but the
  clock goes on for all of them.
* **Events.** After a call, `notifyReverseConnection` compares the playback with the one
  recorded and writes an event into the send buffers of the reverse connections of the
  session. It reaches them through `mg_next`, that is, through the same list that the
  event loop is walking at that moment.
* **Shared state.** `status` and `mediaSessionId` are shared by all connections and
  sessions; `reverseConnections` is a counter that three callbacks keep by hand.

### What is hard

* Connections of several sessions interleave with each other and with closing, expiry
  and failing peers; bookkeeping is spread over callbacks.
* What the server knows about the box is always old: the box moves on its own, requests
  to it may be lost, cut, answered late, or not obeyed.
* Time: a budget of polls, expiry of idle connections while a request blocks everything,
  pacing by whole seconds.
* Reads and writes cut messages anywhere, in both directions; clients may send ahead, or hold a
  body back until they are told to continue.
* The daemon can be killed in the middle of the log's roll-up; the disk can be full.
* Texts go through up to four conversions before the box sees them.

### What correct means

* *AirPlay*: the counter is the number of reverse connections and within its limit, slots
  come back, an event reaches each listener of its session and nobody else, what a client
  was told or shown is what the server has recorded, sessions do not learn about each
  other's media.
* *The two together*: what listeners and polling clients of the owner know is what the box
  does, as long as nobody interferes.
* *TitanRemote*: each operation ends after a bounded number of requests with a status of
  its contract, and with the truth when nothing interfered; a stream starts on a stopped
  box; the box is not overrun.
* *HttpClient*: `makeRequest` always returns, in contract, also when a reply comes while its
  event loop is being destroyed, and a complete reply is decoded for what it says.
* *Event loop*: `MG_CLOSE` comes exactly once, an event finds all live connections, an
  answer is not cut off, messages are read in the end, a connection whose peer is gone is
  closed in the end and gives its slot back.
* *Framing*: each request is handed over once, in order, with its own body; answers arrive
  whole and in order, before the server closes the connection, and in the end.
* *Log*: both files are bounded as far as their lines are, lines are lost from the old end only, whatever is killed.
* *Data*: what a client means (path, header, query, URL, property list) is what the server
  works with and the box is asked for.


## 2. The modules

Every module names the code it stands for at its head; actions carry the names of the
functions where the code has one. The step of a module is the unit at which its own
component can be interleaved:

| Module | A step is | Abstracted |
|---|---|---|
| `AirPlay` | one callback of mongoose, the calls to the remote control included | contents of answers; whether the send buffer is empty (so the two flags that close after a request are one value, `soon`) |
| `PlaybackEvents` | the promise to the listeners: subscribe, unsubscribe, notify, take over | connections, counter, remote control |
| `Player` | a step of `AirPlay` without the remote control, one request to the box, the beginning or the end of an operation, or the box moving | as in `AirPlay` and `TitanRemote` |
| `Control` | none: the types and the sets of statuses each operation may return | position and length |
| `TitanRemote` | one `makeRequest`, or the box moving on its own | the inside of a request |
| `RequestPacing` | one wait, or the head of one `makeRequest`; the clock counts ticks, `time()` whole seconds | what the request is |
| `HttpClient` | one statement of `makeRequest` that a poll can come between, one read, the end of a poll | the reply is four units: two of header, two of body |
| `EventLoop` | the start, the treatment of one connection in one of the three passes of `ns_mgr_poll`, or `select` | messages are "arrived" or not; times are ages, and all ages beyond the timeout are alike |
| `HttpServer` | one `recv` with `on_recv_data`, one `send`, closing | units of header, header's end and body; an answer is its headers and its data |
| `HttpMessage` | none: the scan for the end of a request's header and its parser, as operators | bytes are numbers; method and version are one unit each |
| `RequestHeader` | the stages of the header of one request: parser, `requestHandler` | how it is cut into reads (`HttpServer`) |
| `RequestData` | a step of `RequestHeader`, or `/play` with the body | the same |
| `LocationText`, `PlaybackData`, `PropList`, `UrlCoding` | none: the finder of the location in a text and the way of its URL to the box, the other finders, `Property::read`, URL coding | the fixed texts that are looked for are one unit each |
| `Log`, `KeptLines` | one system call of `Log::log` or of the constructor | a line is its number and its size |

How they fit together:

* `AirPlay` takes the result of a call to the remote control from the sets of `Control`.
  `TitanRemote` shows with `ContractKept` that its operations return nothing else; it takes
  the result of a request from `RequestResults` of the same module, and `HttpClient` shows
  with `ResultInContract` that `makeRequest` returns nothing else, and with `Returns` that
  it returns. Here each is checked against the interface it shares with its neighbour.
* `Player` puts instances of `AirPlay` and `TitanRemote` together: the handler of a client's
  request begins, the operation runs request by request while the box moves, and the
  handler ends with what the operation really returned. `ServerFits` shows that the whole
  implements `AirPlay`, and what only the whole can promise is stated there: that clients
  know what the box does.
* `AirPlay` relies on `MG_CLOSE` being called exactly once for each connection, and on
  `mg_next` visiting every live connection. `EventLoop` states both (`ClosedOnce`,
  `EventsReachAll`), and that a connection whose peer is gone is closed in the end, which
  is what frees the slot of a listener (`GoneConnsClosed`).
* `AirPlay` treats a request as complete when it is handled; `HttpServer` shows which bytes
  make it up, `RequestHeader` what the server makes of its header and `RequestData` what it makes
  of the body.
* `AirPlay` implements `PlaybackEvents` and `Log` implements `KeptLines`; both are
  checked by TLC and proved.

### Correspondence worth knowing

**AirPlay.** `param[c]` is `connection_param`, the session in the `Reverse` object.
`endpoint` is `EP_USER` of a pending `/reverse`, with the keep-alive its request asked for,
because `close_local_endpoint` asks for it only when the pending request is completed,
which the *first* data on the reverse connection does (`MG_REQUEST` is offered again and
returns `MG_TRUE`). `Reverse` leaves `closing` alone, as `MG_MORE` does: a connection that an
earlier request flagged is closed though it has become a reverse connection.
`told`, `seen` and `lapsed` are history: the last event a listener got and the last
`/playback-info` its session was shown since the owner took the media over, and whether
the last change of status was a timeout. `IsRateZero("empty")` is a free choice: of
an empty text `Util::getInt` extracts nothing, the stream being at its end before the
extraction begins, and returns an uninitialised integer on which `/rate` pauses or resumes. A
text that is no number is read as 0, as `-std=c++0x` of the Makefile has it.

**TitanRemote.** All operations have one shape (ask, perhaps halt and ask again, perhaps
send, return), so there is one action for each of these and `MustStop`/`MustSend` say which
operation goes on where. `quiet` is history: nothing came between the box and the operation.

**Player.** `req` is the request being handled, `Begin` what its handler does up to the call of
the remote control, `End` the rest of it, which is `PlayEnds`, `CommandEnds` or `PollEnds` of
`AirPlay`. Nobody reads what the handler has assigned in between, the thread being in the
operation, so all of it is assigned in `End`. A poll asks the box twice (`turn`), the second time
for the log. `InitialId` is the empty text `mediaSessionId` starts with: a client whose
session is empty is its owner.

**HttpClient.** A reply may be read in a poll or in the last poll that `ns_mgr_free` makes
(`destroying`); a body that is cut off is handed over with the announced length, which the
unit `beyond` stands for. `CloseConn` closes what is flagged at the end of a poll and
everything in `Destroy`.

**EventLoop.** `todo` is the rest of the list that the pass has saved in `tmp`; `idle` and
`stale` are the present minus `last_io_time` and minus `current_time`, the stale clock of the
poll that `ns_read_from_socket` uses. A connection with `conn = "dead"` is in the list with no
`user_data`, where `mg_next` stops.

An empty `list` is that of a daemon that could not bind its port: it goes on polling nothing,
since nobody looks at the result of `mg_set_option`.

**HttpServer.** `finished` and an empty `out` together are what closes a connection
(`AllSent`). `ahead` is how many requests this client sends without waiting, chosen at the
start and kept; `held` is a body that waits for "100 Continue". `left` tells a client that
went away from a connection the server closed.

**Log.** `SizeT` is the arithmetic of `size_t`, `SizeMax` what `tellp`'s -1 becomes: a failed
stream makes `m_pos + size` wrap around, so it is never rolled up again. The one assumption
about the library is that `tellp` after `open` with `ios::app` returns the size of the file,
which is what libstdc++ does.


## 3. Runs

Twelve runs, one for each question. "Faults" are in section 4. The type invariants of
`TitanRemote`, `Player`, `HttpServer` and `Log` are proved (section 5) and not run.

| Run | Config, module | Instance | Distinct states | Shows |
|---|---|---|---|---|
| `airplay` | `MCAirPlay`, `MCAirPlay` | 3 connections, 2 sessions, 2 slots, symmetry | 117304 | `TypeOK`, `SlotAccounting`, `EventsCurrent`, `AnswersHold`, `OnlyOwnerHearsMedia`, `ListenersServed` (refinement of `PlaybackEvents`) |
| `player` | `MCPlayer`, `MCPlayer` | 2 connections, 2 sessions of which one is the empty one, 1 slot, `MaxStops` = 1, symmetry of connections | 371498 | `ServerFits` (refinement of `AirPlay`), `ListenersKnowTheBox`, `PollersKnowTheBox` |
| `airplay_stays_open` | `MCAirPlayStaysOpen`, `MCAirPlay` | 2 connections, 2 sessions, 1 slot | (violated) | `ReverseStaysOpen` does not hold: finding 1 |
| `http_client` | `HttpClient`, `HttpClient` | all requests and replies, 3 polls | 4878 | `TypeOK`, `ResultInContract`, `WholeReplyDecoded`, `AnswerIsNoTimeout`, `Returns` |
| `titan_remote` | `TitanRemote`, `TitanRemote` | `MaxStops` = 10, as in the code | 661 | `ContractKept`, `RequestsBounded`, `QuietBoxReported`, `PlayFindsBoxStopped`, `OperationsEnd` |
| `request_pacing` | `MCRequestPacing`, `MCRequestPacing` | seconds of 10 ticks, sleeps of 2, about 3 seconds | 1534 | `BurstBounded` |
| `http_server` | `MCHttpServer`, `MCHttpServer` | 3 requests, headers of 1 and 3, bodies of 0 and 2, reads to 3 units, clients that wait and clients that send one ahead | 522950 | `CountersAgree`, `HandledInOrder`, `AnswersArrive`, `Answered` |
| `log` | `MCLog`, `MCLog` | limit 4, lines 1 to 6, 6 lines | 1713820 | `SizeBounded`, `PosIsSize`, `KeepsLatest` (refinement of `KeptLines`), `CurrentFileKept` |
| `event_loop` | `MCEventLoop`, `MCEventLoop` | 2 connections, expiry after 1, requests of 0 or 1 | 275062 | `TypeOK`, `ClosedOnce`, `EventsReachAll`, `AnswerKept`, `MessagesRead`, `GoneConnsClosed` |
| `request_data` | `MCRequestData`, `MCRequestData` | about 20000 requests, see below | 71668 | `PathReadBack`, `HeadersReadBack`, `QueryReadBack`, `ReadsBack`, `UrlArrives`, `NamedIsFound` |
| `request_data_arrays` | `MCRequestDataArrays`, `MCRequestData` | the same | (violated) | `ArraysReadBack` does not hold: finding 2 |
| `request_data_xml` | `MCRequestDataXml`, `MCRequestData` | the same | (violated) | `XmlUrlArrives` does not hold: finding 3 |

### Bounds, and why they are enough

* **AirPlay.** Two sessions are an owner and another; three connections with two slots give
  two listeners of one session, listeners of both, a full table with a connection that is
  refused and ones that poll. Events, takeovers and closings are decided connection by
  connection, and the proofs cover every number of them. Sessions and connections are
  interchangeable (nothing orders them), so this run, which checks no liveness, uses
  symmetry. The model has no other bound: its state space is finite.
* **Player.** The owner of the media and another session, one of them with the empty name; a
  connection that listens and one that commands or polls, taking turns. `MaxStops` = 1 keeps
  a `play` that gives up and one that succeeds apart; the ten STOPs of the code differ
  in number only, and `titan_remote` has them all. All connections ask to be kept
  (`KeepAlive`): the ends of connections are there through peers, expiry and `/reverse`. The
  proofs of section 5 cover all values.
* **HttpClient.** Three polls let a reply come before, in, and after the last poll the
  budget allows. Replies are finite (a box that sends for ever would keep the loop of `recv`,
  `mongoose.c` 1010, busy for ever). A reply of two and two units can be cut inside the header, between header
  and body, inside the body, or nowhere, with and without a Content-Length.
* **TitanRemote** is finite as it is; `MaxStops` has its real value.
* **RequestPacing.** `MaxTime` is three seconds and two ticks after the start, which is in
  the middle of a second and does not go back; `MaxStep` is more than a second, so that waits can cross one.
* **HttpServer.** `MaxSent` = 3 gives a request before, between and after others. A header of
  three units against `MaxRequest` = 1 can be too long or, read with its end, not. `ReadSize` = 3
  reads across the border of header and body. `Ahead` = 1 has clients that wait for answers, as
  AirPlay clients do, and clients with one request more on its way. `MCHttpServer` sends the
  shortest and the longest headers with no body or the longest: what lies in between is cut
  the same ways. "100 Continue" is asked for with good requests of the longest kind, which
  hold the body back or do not. The answer has two units, so it can be sent in part.
* **Log.** Lines of up to six units with a limit of four roll the log up after one to three
  lines, and some are longer than a file may be; six lines roll it up twice or more, kills and
  restarts between all steps. `SizeMax` = 31 is wide enough that the size of a log and a line do
  not wrap in sum and -1 does, as in the code.
* **EventLoop.** Two connections and the listener give all orders of the list that matter to a
  walk that stops at the listener. Expiry after 1 with requests of at most 1 has connections
  that expire while another is served, and two requests in one poll that take more than
  the timeout, so that the exception of `AnswerKept` happens and its border is met. Ages above the
  timeout are equal for the code, too.
  The two liveness properties are checked of `c1`: nothing but the order in which they come
  tells connections apart, and both orders happen.
* **RequestHeader and RequestData.** What a client writes keeps to the rules of the format, which
  `WellFormed` states: a line end ends a header, a blank the target, the name of a parameter has
  no sign of its own, an escape stands for a byte that is not zero. TLC evaluates it on all
  requests of the run. Each request differs from a plain one in one respect: paths to five units
  over slash, dot, question mark and a letter, and to two over bytes that must be escaped;
  methods and versions; up to two headers of every shape and four of one; control characters in
  every place they can stand, escaped or not; one or two
  parameters over bytes that mean something to the coding; bodies of three kinds with URLs
  of up to three bytes under seven content types; property lists with a value of every kind
  alone, in arrays and in dictionaries, with counts around 15 and 256, offsets of 2 and 3
  bytes and references of 1 and 2. There is room for three headers and for values of three
  bytes, so both limits are met and passed. `PathReadBack` leaves out paths with a backslash,
  which the server takes for a slash (`mongoose.c` 2480), as no client does that speaks to it.
  It says that a proper request is never refused with 400: a GET or POST of a path from the root
  that is `Printable`. Escapes keep the bytes of the path and of the values printable; a control
  character in a name, a header or the version makes `get_request_len` refuse the request.
  `UrlArrives` leaves out locations in two-byte characters, of which section 3 says what happens.

### Deadlock

TLC looks for deadlock in every run but these: a closed connection in `http_server` does
nothing more, a request in the `request_data` runs comes to its end, and the clock of
`request_pacing` stops at its bound. `HttpClient` says itself that nothing happens after
`makeRequest` has returned (`Done`), so any other stop is an error there.

### Fairness

* `AirPlay`: weak fairness of `Close(c)`, for the counterexample of finding 1 only. `start()` polls
  for ever and every poll closes what is flagged. Nothing is assumed of clients or the box.
* `HttpClient` and `TitanRemote`: weak fairness of the program's own steps. `select` returns
  after a second at the latest and `recv` does not block, so `makeRequest` goes on whatever the
  box does; `HttpClient` shows that it returns, which is what makes a step of `TitanRemote` fair.
  Nothing is assumed of the box or the network.
* `HttpServer`: weak fairness of reading what has arrived, of writing what the socket takes and
  of closing, all of which the event loop does in every poll (`MessagesRead`); and of a client
  that was told to continue sending the body it holds. A client may leave at any time.
* `EventLoop`: weak fairness of the loop, and strong fairness of `select` coming back with a
  result: it may be interrupted, again and again, but not for ever (the daemon installs no
  handler and starts no timer). Nothing is assumed of peers, which may be slow for ever.
* `Player`, `RequestPacing`, `Log`, `RequestHeader`, `RequestData`: safety only.

### Findings

1. **`airplay_stays_open`** (`AirPlay.cpp` 36, 43, 162). Data that a client sends on its
   reverse connection, an HTTP answer to an event for instance, is to be discarded and the
   connection kept, say two comments. `MG_RECV` does discard it, but `MG_REQUEST` is offered
   afterwards and returns `MG_TRUE`, which completes the pending request, and the connection
   is closed unless the `/reverse` request asked for keep-alive: `should_keep_alive` looks at its
   headers (`mongoose.c` 2778, 4958).
2. **`request_data_arrays`** (`PropList.cpp` 207). The references of an array are read one byte
   apart whatever their width; those of a dictionary are read right. With references of two
   bytes, that is, more than 256 objects, arrays have wrong elements.
3. **`request_data_xml`** (`AirPlay.cpp` 520). The location in an XML property list is taken with
   one character too many, the `<` of the closing tag, and entities stay unresolved.

Behaviour met on the way that no document contradicts, so that it is in the models and not
among the findings:

* A request that a client sends before it has the answer to the one before is dropped with
  the receive buffer (`mongoose.c` 4987); if only its beginning was dropped, the rest is
  refused as malformed. `HandledInOrder` says what such a client can still rely on.
* A session whose name is the empty text owns the media from the start, and can stop what the
  box plays for somebody else (`AirPlay.cpp` 16).
* If the port cannot be bound the daemon goes on without a listener and says nothing
  (`AirPlay.cpp` 362).
* A request that is handled for longer than connections may idle makes its own connection
  look idle, and its answer is lost (`mongoose.c` 5459): `play` can take 22 requests, the last of
  30 polls and the others of 15, and connections may idle for 300 seconds. The requests of
  one poll add up. `AnswerKept` says, for requests of any length, that this is the only way to lose
  an answer: the poll in which it was given has lasted longer than connections may idle.
* A request with a control character in it is answered with 400, also one with a tab in a header
  value, which HTTP allows (`mongoose.c` 1791: "Control characters are not allowed").
* A location written in two-byte characters, as property lists write strings beyond ASCII, is found
  (`NamedIsFound`), but its bytes are taken for its characters (`PropList.cpp` 162, against
  `PropList.h` 37): the box is asked for a URL with both bytes of each.
* A line of the log may be longer than the limit of a file: the URL that `AirPlay.cpp` 284 logs is as
  long as a client makes it. It is written all the same, into a file of its own (`Log.cpp` 95);
  so the two files are bounded by the limit only as far as lines are (`SizeBounded`).
* A cut reply is handed to its decoder with the announced length (`mongoose.c` 5421).
* After one failed write the log is silent until the daemon is restarted (`Log.cpp` 99).
* An empty location is played when it comes in a text body (`AirPlay.cpp` 496) and refused
  when it comes in a property list.
* The answer of `/playback-info` is sent after the event about a newer status that was asked
  for in between (`AirPlay.cpp` 252): `AnswersHold` says what remains true of it.
* A timed-out request records "stopped" without telling anybody (`AirPlay.cpp` 551, 600), which
  is why `EventsCurrent` has an exception.


## 4. Faults

A property that nothing could violate says nothing. For each property of each passing run
`PROJECT.json` ("mutants") names a definition of the model and a faulty form of it, defined
before it in the module and marked "Fault:": a dropped guard, a counter that is not reset, a
limit checked too late, a flag forgotten. With the faulty form in its place TLC finds the
property violated under the same config.


## 5. Proofs

The theorems hold for every value of the constants that their assumptions allow; all of
them are proved to the last leaf with the SMT, Zenon and PTL backends. TLC has checked
each of them before on a small instance.

| Module | Theorem | Says |
|---|---|---|
| `AirPlay_proofs` | `TypeCorrect`, `SlotsAccounted`, `EventsStayCurrent`, `AnswersStayTrue`, `MediaStaysPrivate` | the invariants of `AirPlay` |
| | `ServesListeners` | `Spec => ListenersServed`: every step is one of `PlaybackEvents` or a stutter |
| `Player_proofs` | `ServerImplemented` | `Spec => ServerFits`: the server with its real remote control is an `AirPlay` |
| | `TypeCorrect`, `ListenersKnow`, `PollersKnow` | `TypeOK`, `ListenersKnowTheBox`, `PollersKnowTheBox` |
| | `PlayerServesListeners` | `Spec => ListenersServed`: the two together keep the promise of `PlaybackEvents` |
| `TitanRemote_proofs` | `TypeCorrect`, `ContractHolds`, `RequestsStayBounded`, `QuietBoxIsReported`, `PlayStartsFromStopped` | the invariants of `TitanRemote` |
| `Requests_proofs` | `HeadersReadBackHolds`, `QueryReadBackHolds`, `PathReadBackHolds` | the invariants of `RequestHeader`, for any number of headers and parameters of any length |
| | `HeaderIsReadHolds`, `NoneRefusedHolds` | what they rest on: at each stage the server has what the client wrote there, and answers no proper request with 400 |
| | `TextUrlArrives` | `UrlArrives` for texts: the box reads the last word of the URL, whatever its length and bytes |
| | `RequestsPaced` | `BurstBounded` of `RequestPacing`, for unbounded clocks |
| `Log_proofs` | `TypeCorrect`, `SizesStayBounded`, `PosStaysSize`, `CurrentFileStays` | the invariants and the action property of `Log` |
| | `KeepsLatestLines` | `Spec => KeepsLatest`: refinement of `KeptLines` |
| `EventLoop_proofs` | `TypeCorrect`, `ClosesOnce`, `EventsReachEverybody` | the invariants of `EventLoop` |
| | `AnswersAreKept` | `AnswerKept`, for requests of any length |
| `HttpClient_proofs` | `TypeCorrect`, `ResultsAreExpected`, `AnswersAreNoTimeouts`, `WholeRepliesAreDecoded` | the invariants of `HttpClient` |
| `HttpServer_proofs` | `TypeCorrect`, `CountersStayInStep`, `RequestsAreHandledInOrder`, `AnswersArriveInOrder` | the invariants of `HttpServer`, for clients that send ahead as well |

### Assumptions

`AirPlay`: finitely many connections, a natural limit, and a null `connection_param` is no
session. `TitanRemote`: `MaxStops` is positive. `Player`: what its two parts assume.
`RequestHeader`: `WellFormed` (section 3), and room for at least one header and one byte of a value.
`RequestPacing`: positive lengths of second and
sleep, and the daemon does not start in second 0 of 1970, which `m_lastRequestTime` = 0 would
take for a second with a request. `Log`: the limit and the longest line are positive, and twice a line, or a
line and the limit, fit into a `size_t`: a line is in memory several times before it is
written. It may be longer than the limit. `EventLoop`: the listener is no
client, the timeout and the longest request are natural numbers. `HttpServer`: natural sizes, a
read takes at least one byte. `HttpClient`: a natural number of polls.

One theorem has hypotheses of its own. `TextUrlArrives` is about a URL of bytes that has
something but blanks in it and neither line ends nor tabs, which `trim` would take off.

### The arguments

* **AirPlay.** `IInv == TypeOK /\ ClosedTidy /\ SlotAccounting /\ NewsOK(News, mediaSessionId)`.
  `SlotAccounting` alone is not inductive: that a closed descriptor can be reused needs to know
  that it holds no session (`ClosedTidy`). `NewsOK` collects `EventsCurrent`, `AnswersHold` and
  `OnlyOwnerHearsMedia` and the fact that a connection without a session was told nothing, so
  that one that subscribes starts from silence. It is stated of a *record*, not of the
  variables, because a poll notifies twice: `NotifyKeeps` shows that one notification with any
  credible status (a timeout means STOPPED) preserves it, and is used for the first, for the
  second, and after a takeover. The refinement maps `/play` to `TakeOver` or, for the owner, to
  `Notify`; a poll's two notifications are one `Notify` with the last event.
* **TitanRemote.** `IInv` adds to the contract how many requests lie behind each place
  (`RequestsSoFar`: two for each STOP), why an operation sends (`SendJustified`), and what is known
  while nothing interferes (`QuietKnows`). That `pause` can return only STOPPED, PAUSED or
  LOADING follows from the second: a status PLAYING is never returned unsent.
* **Player.** `PInv` is the invariant of `TitanRemote` with `ReqOK`, which ties the running
  operation to the request it serves and to its session's right to reach it, and `RecordTrue`:
  after an undisturbed request the record is the truth, because the operation's result is
  (`QuietKnows`) and the end of the request records it. The invariants of the parts are not
  proved again: instances of the two proof modules provide them, `StepFits` makes
  those of `AirPlay` hold of the player, and with `NewsOK` what the listeners were told last is
  what is recorded.
* **RequestHeader.** There is one step that matters, `try_parse`, and all the work is in what it
  computes: the message is a sequence of pieces the client has put together, and the parser has
  to cut it at the same places. First comes the scan for the end: the request line and the headers
  are lines, none of them empty (`Whole`), so the first empty line is the last one (`EndFound`), and
  a control character stands before it exactly if the client wrote one where nothing is
  escaped (`MessageLines`). `MessageText` and `MessageParsed` show that for the request line,
  `HeadersParsed` for any number of header lines (a turn of the loop takes one line and leaves the
  rest of the message, `Turn`), `QueryRead` for the parameters (where each begins in the query is
  `Start`, `ParamFound` cuts it out). `DecodedBack` is the other half: codes for bytes, one behind the
  other, are decoded to these bytes, whichever of them are escaped. It serves the values of
  parameters, the escaped path, and the URL that goes to the box. For the path there is the loop
  that takes out empty and dotted segments, while reading from left to right; `Agreed` says
  that from any place on it leaves what stays of the segments from there on. A path from the root
  keeps its first slash through all this, which is why none is refused that is printable.
* **LocationText.** The first unit that announces a location is the client's, the first line end
  behind it the one behind the URL (`LocationFound`). `trim` and the search for the last blank then
  end where the longest blank-free stretch before the last ink begins (`LastWordIsFinal`), and
  what is encoded for the box is decoded there (`DecodedBack`).
* **Induction.** The provers cannot use induction principles over formulas, nor recursive
  operators. Two devices stand in for them. Induction runs over a *set*: `SetInduction` shows
  that a set of naturals with 0 and successors is everything, from the well-foundedness of <, and a
  proof puts the places that satisfy its claim into a set. Recursion is written with recursive
  functions over 1..n; for each of them a lemma (`DecodedSteps`, `AfterSteps`, `SegmentSteps`...)
  shows that it exists and satisfies its equations, from `BackwardRecursion`, which makes one such
  function out of any steps.
* **RequestPacing.** The n-th request of a second is at least n-1 sleeps into it (`Paced`): the
  code compares with the last request only, but every request of the same second has slept
  since the one before. The rest is division (`SecondsOf`).
* **Log.** `SizeBounded` needs to know that a line that is about to be written was found room for,
  in a `size_t` that may have wrapped, or goes into an empty file, and that a log that is about to take a line after a
  roll-up is empty (`PosKnown`). `BackupGone` makes the rename lose no line but those of the old
  backup, which is what the refinement calls `Forget`.
* **EventLoop.** `CloseInv`: `user_data` is set exactly where `MG_CLOSE` is still owed. An expired
  connection gets `NS_CLOSE` twice, and `CloseCallsOnce` shows that the second is without effect.
  `LoopInv` is about the list that a pass of `ns_mgr_poll` walks and `mg_next` walks inside it. The
  list and the rest of the pass have the same `Shape`: the listener last and nothing twice
  (`ListInv`, `TodoInv`); putting a new connection in front and taking one out keep it. What
  makes `EventsReachAll` true is `DeadInv`: a connection without `user_data` gets into the list
  only when the listener, which is behind all others, accepts it with no memory for it, and the
  pass that follows takes it out. So while connections are served there is none, and `mg_next`
  stops nowhere. `AnsweredInv` says that an answered connection was used when `select`
  returned and so is no older than the poll (`stale`), in whatever order the connections of the
  poll were served; so it expires in the next pass only if the poll itself was that long.
* **HttpClient.** `IInv` relates three things. `BufferInv`: the buffer is empty unless a header has
  been parsed, and then holds at most the first half of the body, as `delivered` tells.
  `AnnouncedInv`: a header that came in one read and announces a body has been parsed.
  `KnownInv`: nothing delivered is a timeout; what was handed over is none; and after all of a
  delimited reply the result is the truth. The proof goes through the steps and, for a read,
  through the few ways a reply can be cut, since the result of `HandedOver` depends on all three.
* **HttpServer.** `IInv` adds to types and counters that the units in the buffer and on the wire
  belong to requests that were sent, which makes the lookup of a request's body sound. It does
  not need the client to wait. `Inv` adds that a body that is held back belongs to a request
  (`HeldSent`), without which the client could send a body of nothing, and the types of what
  goes out. `OrderInv` takes the buffer and the wire as one sequence, `Stream`: what the client
  sent and the server has not used. A read leaves it as it is, every step of the parser takes from
  its front, every step of the client adds to its end. `InOrder` says what it looks like: a header
  is followed by its body and then by later requests only, and the body is missing only
  where it is held back; the front may be a torso, since the buffer is dropped with each answer.
  What is handled lies before the stream (`HandledInv`), which gives order and bodies for any
  client; for a client that waits `WaitInv` adds that one request at most is in flight.
  Replies are one sequence, too, what arrived and what is to be sent (`ReplyInv`): sending
  leaves it alone and answering adds to its end. `AnsweredBeforeSending` joins the two halves: a
  waiting client that may send has all its requests handled and nothing in the stream.

### What stays with TLC

* Liveness (`Returns`, `OperationsEnd`, `Answered`, `MessagesRead`, `GoneConnsClosed`): the prover
  does not handle `ENABLED`.
* `ReadsBack`, and with it `UrlArrives` and `NamedIsFound`, where they are about binary property
  lists: a property list is a tree of values, and reading one, writing one and what is understood
  of one are `RECURSIVE` operators over it (`PropList`), which the provers cannot be given. TLC
  checks them over bounded inputs against a writer made from the description of the format. What
  these properties say of texts is `TextUrlArrives`; of XML they say that a location is found.
* That the steps `RequestData` makes before `/play` are those of `RequestHeader`, which is how its `Next`
  is written: it reaches `PropList`, and so nothing can be proved about it.

Every other property of a passing run is proved.


## 6. Not modelled

* **Start of the daemon**: `startAsDaemon` and `readMac` run once, in sequence, and consist of
  calls to the operating system. What `main` does with the parts is `Player` and `Start` of
  `EventLoop`. The limit of the log, the port and the address of the box are constants.
* **Mutex and Guard**: locked only in `Log::log` by the one thread there is.
* **mongoose beyond what the program reaches**: files, directories, CGI, SSI, WebDAV, digests,
  proxies, SSL, Lua, the wake-up socket pair. Every request goes to the handler of the program
  first (`open_local_endpoint`), which answers all of them. A web socket handshake, which mongoose
  would make for a request that asks for it, is not what AirPlay clients do.
* **`seekMedia`, wording of answers and of the log**: nothing calls the first (its operation of
  the remote control has the shape of `stop`), the rest changes no state. `/server-info` is
  one of the requests of `Answer` in `AirPlay`.
* **Functions of `Util` nobody calls.**
* **Hazards without a property**: that a port may be taken (`AirPlay.cpp` 362) and a client
  that shuts its side down before its answer is sent (`mongoose.c` 1017) are in `EventLoop`,
  but no document says what should happen. Property lists whose objects refer to
  each other in a circle (`PropList.cpp` 214) are outside `PropList`, which reads what clients
  write.
* **Box and bonjour**: external. `TitanRemote` and `HttpClient` say what the box may do: obey or
  not, be heard or not, change on its own, send any reply cut anywhere.


## 7. Plan

In the order of importance; the first four parts are done and described above.

1. *Done:* `Control`, `AirPlay` with `PlaybackEvents`, `TitanRemote`, `HttpClient`, `RequestPacing`,
   `Log`, `EventLoop`, `HttpServer`, and the conversions of data.
2. *Done:* the composition of `AirPlay` with `TitanRemote` and the box (`Player`), with its proofs;
   the start of the loop and the release of slots (`EventLoop`); clients that send ahead,
   "100 Continue" and answers that go out in pieces (`HttpServer`).
3. *Done:* the proofs of `HttpClient`, of the list, the events and the answers of `EventLoop`, and of
   the order of requests and answers in `HttpServer`.
4. *Done:* the proofs of what is read of a request: headers, query, path, the URL in a text.
5. *Property lists without recursive operators*: values numbered as in the file, so that reading
   one is a function over its objects, and `ReadsBack` can be proved.
6. *Compose* `AirPlay` with `EventLoop`: an event that is written to a connection in the list is
   sent before that connection is closed.
