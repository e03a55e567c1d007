# NyanSD in TLA+

Specifications of NyanSD, a small service discovery system: responders keep a
registry of services and answer UDP broadcasts; clients broadcast a query on
every network interface and collect the answers. The modules are translated
from the source; file names below are relative to the repository, and
`PROJECT.json` ("map") gives the lines every definition stands for.

    tlc -workers 2 -config listener_replies.cfg MCListener.tla   # any run
    tlapm ListenerProofs.tla                                     # any proof module

## 1. The system

| component | state | operations | interacts with |
|---|---|---|---|
| message formats (`src/nyansd.cpp`, `.h`) | none | compose and parse broadcasts and replies | shared by both sides |
| service registry | `services`, `servicesMutex` | `addService` | read by the handler thread under the mutex |
| listener | atomic `running`, `std::thread handler`, UDP socket, request being answered | `startListener`, `stopListener`, `clientHandler` | application threads (flag, join, mutex), network |
| client query | socket per interface, `buffers`, `responses` | `sendQuery` | network, caller |
| command line client (`client/`) | `uniques` | `main`, `isDuplicate` | calls `sendQuery` |
| daemon (`daemon/nyansd_daemon.cpp`) | condition variable, mutex, service files | load, SIGINT, start, wait, stop | the library; the signal handler |
| daemon as Windows service | `gSvcStatus`, shared by two threads | `SvcMain`, `svcInit`, `SvcCtrlHandler`, `ReportSvcStatus` | service manager, the same condition variable, the library |
| address helpers | none | `ipv4_uintToString`, `ipv4_stringToUint`, `remoteToLocalIP` | listener, daemon |
| ByteBauble | host endianness | `toGlobal`, `toHost`, `readPackedInt`, `writePackedInt` | all message code |
| INIReader (vendored) | parsed values | `Get`, `Sections` | daemon |
| Arduino client library, two copies | list of datagrams with `response`, `last`, `count`, `received` | `sendQuery`, receive callback, `getResponses` | UDP callback, application |
| Arduino example (MQTT) | one timer, `mqtt_url` | Wi-Fi, MQTT and timer callbacks | Arduino client |
| server example, browse tool, sarge, build files | | | |

**What is hard here.** The flag `running` is lowered by the thread that stops
and raised by the thread that starts up. The handler thread matches under a
mutex while services are added, and one reply must show one moment of the
registry. Errors leave its loops by `continue` in the middle of a message. The
client reads datagrams that were lost, delayed, duplicated, reordered or cut
off at 2048 bytes, after all interfaces have been walked, and returns at the
first one it cannot read. Length and count fields are 8 and 16 bits wide. The
daemon is told to stop by a condition variable without a predicate, and its
Windows half reports through one global from two threads. The Arduino client
leaves pointers and counts behind from one callback to the next, and its
example application has one timer for three purposes. The list of
these hazards, each at its line, is in `PROJECT.json`.

**What makes each part correct.**

- Message formats: what one side writes within the limits, the other reads
  back; what is beyond them is refused as a whole.
- Registry and listener: exclusive access; complete records; replies only to
  broadcasts and at most one for each query; every reply exact for one moment
  not before its request; a stop of a running listener returns; the handler
  gets through anything that arrives.
- Client: all replies heard are read, in order, or the verdict says otherwise;
  nothing is missed on a quiet network; the call returns.
- Daemon: the registry is complete before the first answer; the library is used
  in the right order; a clean exit leaves no thread behind. As a Windows service
  it reports nothing that is not so, and a stop in time ends it.
- Arduino client and application: the list of replies is sound until it is read;
  no node is used once it is freed; the application is never left waiting for a
  callback nobody will make.
- Conversions: what arrives is what was sent, on hosts of either byte order; a
  text converts back to itself exactly if it is an address; a file that says
  nothing twice means what it says.

## 2. Modules

| module | what it is |
|---|---|
| `Wire` | message formats, shared by all others |
| `Listener` | `addService`, `startListener`, `stopListener`, `clientHandler` with their threads |
| `Registry` | abstract: what a responder promises |
| `Client` | `sendQuery`, the network around it, the duplicate filter |
| `Discovery` | abstract: what `sendQuery` promises |
| `Daemon` | `main` of the daemon, extending `Listener` |
| `WinService` | the daemon on both platforms, extending `Daemon` |
| `ArduinoClient` | the client library for microcontrollers and the heap it works on |
| `MqttApp` | the example application, extending `ArduinoClient` |
| `ByteOrder` | ByteBauble: byte order and packed integers |
| `LocalAddress` | address texts and `remoteToLocalIP` |
| `ServiceFile` | INIReader |
| `Formats` | everything above that converts something, on inputs that grow |
| `Sums` | sums over sequences, for the sizes of messages |
| `WireProofs` | what `Wire` composes is what it parses; used by the next two, which meet in it |
| `ListenerProofs`, `ClientProofs`, `MqttProofs` | theorems about `Listener`, `Client`, and `MqttApp` with `ArduinoClient` |
| `ServiceProofs` | theorems about `WinService`, and so about the daemon on both platforms; the daemon as an application of `Listener` |
| `FileProofs`, `FormatProofs` | theorems about service files; about all conversions, and so about `Formats` |
| `NaturalFacts` | what takes the place of induction in the proofs: least elements, sets closed under the successor, functions defined along 0..n, sums |
| `MCFormats`, `MCListener`, `MCClient`, `MCDaemon`, `MCMqttApp` | instances for TLC |

Definitions whose comment begins with "Slip:" are not part of a specification.
Each is the definition after it with a plausible mistake, and is there to show
that the properties notice.

### Wire

A message is a record of its size, the signature check, the length, type and
count fields, and a sequence of sections. A string is a name with a length;
sizes are computed from these, so that `uint8_t` and `uint16_t` fields wrap
where the code's do. Three cases break the correspondence of fields and
sections. Two appear as the item `Loose`: the lone `S` left behind by a failed
address lookup, and the end of a filter longer than its length byte. The third
is a registered IPv6 text of more than 255 bytes: the code cuts its length to a
byte and writes all of it (nyansd.cpp:599-601, 652-654), the reader (259-266)
takes as many bytes as the byte says and loses its place within the record.
`TextFits` tells such records apart; they keep all their bytes in `RecordBytes`
and are not `Legible`. Names and hosts have 16-bit lengths; a text that wraps one
of those fits no datagram.

`ParseReply` is the set of outcomes the parse loop can have. Up to the first
section that is none, or is not legible (`CleanPrefix`), it reads what was
written. Then it is `Astray`: it reads neighbouring bytes and memory nobody
wrote, so that made-up records (`Garbage`) can appear and the verdict is open,
but for two things. Where a section should start it stops at anything but an `S`,
so that it may also give up without a made-up record; and the verdict is TRUE
only once as many sections were read as the count announces. Bytes behind the
counted sections are taken for another message; one made-up record stands for
all of that message (a cap). That such a read may also end the process is left
out.

### Listener

`pc[t]` is where application thread t is in the library, `hpc` where the handler
thread is. The atomic steps are the accesses to shared state: the mutex, the
flag, the thread object, the socket, and each element of `services`.

| action | code (`src/nyansd.cpp`) |
|---|---|
| `AddService`, `LockToAdd`, `PushBack`, `UnlockAdded` | `addService` up to the mutex, `lock`, `push_back`, `unlock` |
| `StartListener` | `startListener`; `std::thread` assignment over a joinable thread terminates |
| `StopListener`, `Join` | `running = false`; `handler.join()` |
| `Bind`, `SetRunning` | socket set-up; `running = true` |
| `CheckRunning`, `PollTimeout`, `Receive` | loop condition; 250 ms poll; `receiveFrom` and the header checks |
| `QuerySection` | one turn of the query loop up to the lock, or the `continue` |
| `LockToMatch`, `MatchEntry`, `UnlockMatched` | the match loop under the mutex, one entry at a time |
| `Send`, `RequestDone` | `sendTo`; end of the query loop |

An exception that leaves the thread ends the process (`Terminate`); so may, at
any moment, what the library knows nothing of: `main` returning or a signal
(`End`, in one of the ways `Endings`). `LocalAddrs` stands for
`remoteToLocalIP`: the addresses it can find for each sender. The query loop may
take any query where no section starts and a `Q` happens to be.
`upto`, `floor`, `sent`, `arrived` are history variables: no action reads them
but for the bound on arrivals.

`Registry` knows neither threads nor messages: services are only added, and an
answer is the exact set of matching entries of a prefix of the registry that is
no shorter than what was there when the request was received. `Listener`
implements it (`KeepsPromise`), with the history variables as the mapping.

### Client

`cpc` walks through the phases of `sendQuery` and of the client's `main`. The
network is the set `flight` of replies under way to the open socket: `Arrive`
takes any of them, `Duplicate` copies one, and those still there when the
socket closes are lost (`late`). `silence` counts ticks since select was
entered. Nothing obliges a reply to arrive. A timeout exception of
`receiveBytes` is not modelled: the socket has no timeout set, and select has
just reported data. `Discovery` is the promise: hear, read in order, return all
or up to the first unreadable reply.

### Daemon

`main` is `Owner` of `Listener`, the only application thread; its steps are
conjunctions of its own control with the actions of `Listener`, and everything
else in the library goes on in between. Service files are a set of sections
taken in any order, as directory order is unspecified; a file that cannot be
parsed is an exit that is possible while anything is left to read. SIGINT may
come at any moment: before the handler is installed it kills the process, in the
wait it ends the wait, otherwise nothing remembers it.

### WinService

The code of `main` is `svcInit` on Windows, called from `SvcMain` on a thread of
its own; the main thread stays in the dispatcher and runs `SvcCtrlHandler`.
`platform` is chosen once (`_WIN32`), and every behaviour is one of the two.
`dpc` goes on to be the position of `svcInit` and `SvcMain`, `cpc` is that of
the control handler. `ReportSvcStatus` first fills in `status` and then passes
it on to `scm`, what the service manager knows. It is one step (`Report`) where
no control can be under way, and two steps in `SvcMain`'s last report and in the
control handler, which run side by side. The manager is external: it sends STOP
to a service it takes for running, and lets the dispatcher return when it hears
STOPPED, upon which `main` returns and the process ends, whether or not
`SvcMain` has returned. SIGINT does not reach a service. Check points, the event
log and a failing `RegisterServiceCtrlHandler` are left out. `Dispatching` is
the dispatcher waiting: a step without effect, so that TLC does not take a
service that ended badly for a deadlock; `StoppedServiceEnds` is about it.

### ArduinoClient and MqttApp

Everything runs on one event loop, so every callback is one step. `heap` maps
the addresses of the list nodes that are allocated to their contents; any other
address dangles, and one that was freed may be handed out again. `Link` is
`udp_receive_callback`'s end of the list with the three cases there are: an empty
list, a last node that is there (or that is the new one), and one that has been
freed. Writing to a freed node may go unnoticed or not, and both happen in the
model; reading one always counts. `Walk` is where the loop of `getResponses`
looks in each turn, `ReadMessage` what it makes of one datagram: at most one
record, as the loop over the sections breaks after the first, or an error code
that ends the call with the nodes before it freed. Bytes beyond the datagram
are open, as in `Wire`. `fresh` and `taken` are history: the nodes of the
datagrams taken since the last query.

`MqttApp` has one action for each callback: `GotIP` (`onConnected`),
`NoResponse` and `CheckResponses` (`checkResponses`), `Connected`, `Disconnect`,
`Reconnect` and `PublishMessage`. `timer` is the callback `procTimer` holds. The
MQTT client of the framework is external.

### ByteOrder, LocalAddress, ServiceFile

Pure functions, each with a statement of what it should do for a single input;
`Formats` grows inputs, messages among them, and states it of each. A value of
16 or 32 bits is the sequence of its bytes in memory; an address text is the
sequence of its parts between the dots, a part being the number `std::stoul`
reads; a service file is a sequence of lines, each already taken apart by the
string functions of the parser. What the code does beyond the well-formed input
is part of the statements: the four numbers `writePackedInt` cuts short,
addresses reversed between hosts of different byte order, texts with too few
parts, indented lines, sections that differ in case only, interfaces with
addresses of several networks.

## 3. Runs

| run | shows | bounds |
|---|---|---|
| `formats` | every conversion: messages, numbers, packed integers, address texts, local addresses, service files | up to 256 queries and 257 records of one kind (past every count limit), mixed with two others up to 27; filters of 255, 256 and 300 bytes, IPv6 texts of 255 and 256; sizes past the buffer (2048) and the largest datagram; numbers up to 300 and next to all powers of two up to 2^30; all sequences of four bytes from six; texts of up to five parts; three addresses on up to three interfaces; files of up to five lines of ten kinds |
| `listener_replies` | mutual exclusion, complete records, one reply for a query, replies that clients read back unless an IPv6 text is too long, `Registry` implemented | two threads adding two of three services, with IPv6 texts of 0, 255 and 256 bytes, two messages from two networks, one start, an end of the process at any moment |
| `listener_requests` | types; the flag; the inbox drains; stops return | two starts, one service, two messages: cut, empty, with a long filter, or socket errors |
| `client` | complete on a quiet network; `Discovery` implemented; duplicates; the call returns | four interfaces, one without IPv4, three responders, one on two routes and with an IPv6 text of 255 bytes and one with a reply beyond the buffer, one error, one duplicate |
| `service` | both platforms: complete answers or no listener, right use of the library, clean exit, true reports, stops that end it | two folders of four and six sections, with ports below 0 and beyond 16 bits among them, two signals, two requests, any number of controls the manager would send |
| `mqtt` | the list and the heap; the timer | three nodes, two ports, four kinds of datagrams, two addresses from the station |

The bounds are where the interesting cases begin: two services and two
requests give additions before, within and after a request; a second start and
stop meet every position of the first thread; a duplicate and an error can fall
at any place among the replies; a second query finds the list of the first read,
unread or with late replies, and three nodes give a list with a middle. More of
the same repeats the same positions.

Six runs look for a behaviour that contradicts what the repository says, and
TLC finds it; `PROJECT.json` ("findings") quotes each text:

| run | what happens |
|---|---|
| `listener_lost_stop` | a stop before the new thread raises `running` is overwritten; `stopListener` never returns |
| `listener_off_link` | a failed address lookup leaves an uncounted `S` in the reply |
| `daemon_sigint` | a SIGINT between the message and the wait is lost |
| `service_stopped` | STOP_PENDING, reported a second time, overwrites STOPPED; the dispatcher never returns |
| `mqtt_late_reply` | a reply that comes after `getResponses` is linked to a freed node |
| `mqtt_silent` | an unanswered query stops the timer of the publishing: connected, and no callback left that publishes |

Smaller differences between text and code, visible in the definitions and given
no run of their own:

- a second `startListener` before the first thread has raised `running` assigns
  to a joinable `std::thread`, which terminates the process, though
  `src/nyansd.cpp:348` answers "Client handler thread is already running."
  (`StartListener`, `FlagTracksHandler`);
- the byte before an IPv6 text is not its length if a text of more than 255 bytes
  was registered, though the protocol document (line 94) says so
  (`RepliesAreRead`);
- the protocol of a query is read and ignored, though the protocol document (line
  75) has only services of that protocol answer (`Matches`);
- a reply beyond 2048 bytes is never read and hides what is parsed after it,
  though Readme.md:96 speaks of a large number of records (`CompleteMessage`);
- a filter must equal the whole name, though the comment at `src/nyansd.cpp:569`
  and the protocol document speak of sub-strings (`Matches`);
- a filter of exactly 256 bytes is not written and so matches everything
  (`FilterBytes`);
- a query count of 0 is dropped, though the document makes it a wildcard
  (`AcceptsBroadcast`); a reply may hold no service, though the document wants
  one or more (`Send`);
- "500 milliseconds" of `src/nyansd.cpp:158` start anew with every datagram
  (`Receive`), and a sender that never pauses keeps the call from returning;
  255 queries are allowed, but eight long ones exceed the responder's buffer
  and are dropped as a whole (`LongBroadcastsRefused`);
- the daemon's wait may end without a signal (`WakeUp`), and on Windows a STOP
  between the report of RUNNING and the wait is lost like a SIGINT (`Notify`);
- the IPv4 address of a record is reversed between hosts of different byte order
  (`AddressArrives`); `writePackedInt` is wrong for four numbers (`TooShort`);
- `checkResponses` frees the list of records but for the service of its last
  element (`application.cpp:187-197`), and nothing of it after an error; nodes a
  new query drops are never freed (`Forget`).

`KeepsPromise` of the listener is stated for requesters on a network the host
has an address on (`listener_off_link` shows the other case), and
`CompleteWhenQuiet` of the client for replies that fit the buffer and records
that are read as they were written (`RepliesAreRead` says when they are).

**Fairness.** Only what the operating system gives: each thread that can take a
step takes one (`WF` of the handler thread, of `Join`, of the steps of
`addService`, of `main`, `SvcMain` and the control handler, of the caller of
`sendQuery`), and time passes (`Tick`). On the device a timer that is set fires,
and the MQTT client reports what became of a connection it was told to make.
Calling the library, arrivals, signals, controls, a wait ending on its own, an
address for the station: no fairness. A mutex that is free again and again could
be missed for ever under weak fairness; the runs show the properties do not
depend on it, as additions are bounded.

Deadlock is not checked in `formats`, which ends when its inputs are full, and in
the runs of `MqttApp`: a device without a timer and without an address to come is
at rest, and `IdleForAReason` says when it may be.

## 4. Proofs

Every invariant and every action property of the runs is a theorem, and so are
both refinements: for every value of the constants and without the bounds of the
instances, that is for any threads, messages, interfaces, replies, service
files, numbers, list nodes, and any number of steps.

| theorem | statement |
|---|---|
| `ListenerProofs!TypeCorrect` | `Spec => []TypeOK` |
| `ListenerProofs!MutualExclusion` | `Spec => []RegistryExclusive` |
| `ListenerProofs!FlagIsReliable` | `Spec => []FlagTracksHandler` |
| `ListenerProofs!RecordsAreFilledIn` | `Spec => []RecordsFilledIn` |
| `ListenerProofs!OneReplyPerQuery` | `Spec => []AtMostOneReplyPerQuery` |
| `ListenerProofs!ListenerKeepsPromise` | `Spec => KeepsPromise`, if every sender shares a network with this host |
| `ListenerProofs!RepliesAreReadBack` | `Spec => []RepliesAreRead`, under the same condition: read back exactly if no IPv6 text has more than 255 bytes |
| `ListenerProofs!RespondersAreProper` | `Spec => []RepliesAreProper`, under the same condition and if no service with a longer IPv6 text is offered (`ShortTexts`): what the client's theorems assume of responders |
| `ClientProofs!ClientTyped` | `Spec => []TypeOK` |
| `ClientProofs!NoServiceDropped` | `Spec => []UniquesComplete` |
| `ClientProofs!QueryKeepsPromise` | `Spec => KeepsPromise`, if every reply is composed as the responder does, of records with IPv6 texts of at most 255 bytes |
| `ClientProofs!EveryServiceFound` | `Spec => []CompleteWhenQuiet`, under the same condition |
| `ServiceProofs!ListenerIsUsedRightly` | `ServiceSpec => []LibraryUsedRightly` |
| `ServiceProofs!ExitIsClean` | `ServiceSpec => []CleanExit` |
| `ServiceProofs!FilesCountAsAWhole` | `ServiceSpec => []NoListenerInPart` |
| `ServiceProofs!RepliesAreComplete` | `ServiceSpec => []AnswersAreComplete` |
| `ServiceProofs!ReportsAreTrue` | `ServiceSpec => []StatusIsTrue` |
| `ServiceProofs!DaemonIsApplication` | `ServiceSpec => Spec`, the one of `Listener` |
| `ServiceProofs!DaemonListensSafely` | `ServiceSpec =>` the five invariants of `Listener` that need no condition |
| `ServiceProofs!DaemonKeepsPromise` | `ServiceSpec => KeepsPromise`, and replies that are complete and readable exactly if their IPv6 texts fit, if every sender shares a network with this host |
| `MqttProofs!ListStaysIntact` | `AppSpec => []ListIntact` |
| `MqttProofs!NoFreedReads` | `AppSpec => []NeverReadsFreed` |
| `MqttProofs!RepliesAreFreed` | `AppSpec => FreesItsReplies` |
| `MqttProofs!NeverIdleForNothing` | `AppSpec => []IdleForAReason` |
| `FormatProofs!RepliesReadBackAlways`, `LongRepliesRefusedAlways`, `BroadcastsReadBackAlways`, `LongBroadcastsRefusedAlways` | messages: `Spec => []` of the property of that name |
| `FormatProofs!NumbersArriveAlways`, `AddressesArriveAlways` | byte order, likewise |
| `FormatProofs!PackedIntsReadBackAlways`, `PackedIntsBoundedAlways` | packed integers, likewise |
| `FormatProofs!TextsComeBackAlways`, `AnswersOnNetworkAlways` | addresses, likewise |
| `FormatProofs!FilesLoadAlways`, `AlikeSectionsShareAlways` (`FilesCollect`), `BrokenFilesRefusedAlways`, `IndentedContinuesAlways` | service files, likewise |

Assumptions: those named `...Assumption` in the modules, which TLC evaluates in
the runs. They type the constants; beyond that, `ServiceFileAssumption` says
that cutting a text to 49 characters empties none and that the text of an
indented line `name = ...` is not empty, and `DaemonAssumption` and
`MainEndingsAssumption` that the listener of the daemon is the one of
`Listener`, with what the files hold to offer and the ends of `main` among its
`Endings`. `OnLink`, for the four theorems with that condition, says that every
sender is on a network of this host (`listener_off_link` shows what happens
without it). `ProperReplies`, for two theorems about the client, says that every
reply consists of complete records whose IPv6 texts have at most 255 bytes, has
the header fields the responder gives it and fits a datagram; `MCClient` assumes
it of its instance, so that TLC evaluates it, and `RespondersAreProper` proves
it of every listener on link to which no longer text is offered (`ShortTexts`;
the code does not see to that). It bounds no reply to the receive buffer, so replies that the buffer cuts off are
covered, and it does not bound their number.

**Messages.** A size is a sum over a sequence, and `RunningSums` is a recursive
function: the value of a recursive function is a choice among the solutions of
its equation, so `RunningSumsRule` first shows that there is one
(`RecursionExists`), and what holds of all sums follows by `UpTo`, the
induction over 0..n with a set in place of a predicate. As every record has at
least 13 bytes, a reply that fits the buffer has fewer than 256 of them
(`SumIsLong`), so that neither its count nor its length has wrapped: that makes
it readable if its texts fit (`ReplyReadsBack`), and with one that does not, what
is read breaks off there, so the property is an equivalence. Broadcasts are read
in the sections that `QuerySections` makes of each query, one after the other
(`FlattenedStepwise`, `QueriesAreRead`); all are read as asked exactly if each
is (`BroadcastReadsBack`). A longer one that fits a datagram has not wrapped
its length, which the received size cannot reach (`LongReplyRefused`,
`LongBroadcastRefused`).

**Conversions.** Numbers, packed integers and texts are proved for a single
input each (`EveryNumberReadsBack`, `EveryTextComesBack`, ...), by the digits and
the parts they consist of. `ParsingRule` is for the parser of service files what
`RunningSumsRule` is for sums, and `LineRead`, `SectionOpens`, `PairHandled` and
`ContinuedLine` say what a line adds: to the values, the sections, the error, and
to what the next line may continue.
`FilesLoad` then follows with `UpTo` over the lines, and so does `FilesCollect`,
where a value is shared by the pairs look-ups do not tell apart (`Alike`). All of these are theorems
about inputs of any length; `FormatsTypes` (every input is built from what it is
made of) carries them over to the states of `Formats`.

**Listener.**

- `TypeOK` is inductive by itself: `RequestTyped` ties the request at hand to
  the handler's position, which is what the query loop needs to stay within the
  count.
- `RegistryExclusive` needs `LockInv`: a thread about to push, or to unlock, is
  the holder of the mutex, and so is the handler while it matches.
- `FlagTracksHandler` is inductive with the types.
- `RecordsFilledIn` needs `FilledInv`: entries on their way into the registry,
  those in it, and the sections of the body are complete already.
- `AtMostOneReplyPerQuery` needs `Budget`: for each sender, the replies sent, what
  is left of the request at hand and the queries waiting in the socket are no
  more than the queries that arrived. A request moves from one summand to the
  next, and only shrinks on the way: a broken one, or one with sections that are
  no queries, leaves answers unpaid for. The sums over arrivals are those of
  `NaturalFacts` (`SumOfAppend`, `SumOfTail`).
- `KeepsPromise` needs `AnswerInv` and `PendingInv`. `AnswerInv` says that while
  the handler matches, the body so far is exact for the entries before `si`, the
  registry still is what it was when the mutex was taken, and until the reply is
  sent it is exact for the first `upto` entries, whatever is added behind them.
  `PendingInv` says that an entry in `addService` comes from the application.
  The step that matches an entry extends the exact picture by one; the lemma
  `CountWraps` keeps the count equal to the length modulo 256.
- `RepliesAreRead` and `RepliesAreProper` need `ComposedInv`, which rests on
  `AnswerInv`: on link the body holds complete records only, and what was sent
  of it fits a datagram, as anything longer ends the process at `sendTo`. Then
  `ReplyReadsBack` applies: responder and client agree on every reply whose
  texts fit. With `ShortTexts` all do: `FilledInv` carries it from what is
  offered to the registry and the body.

**Client.**

- `TypeOK` is inductive with `Sent`: every datagram under way, received or kept
  is one some responder sent, so what is parsed is a message. `ParsedAreRecords`
  says that parsing it, well-formed or not, appends records and made-up ones
  only; `CleanPrefixFits` that no section beyond the announced and the present
  ones is read as a record.
- `UniquesComplete` needs `FilterInv`: the records compared so far and those in
  `uniques` are the same, and `uniques` is injective. At the end the cardinality
  follows from the bijection of its positions and its records.
- `KeepsPromise` is a step simulation. `ProperIsReadInFull` reduces parsing to
  the two cases of `Discovery`, all of a reply or nothing of it; `Phases` says
  that nothing is parsed before all is collected; `PromiseMapped` writes the
  mapped actions out.
- `CompleteWhenQuiet` needs `WalkInv` and `ReadInv`. `WalkInv` accounts for the
  network: what the client has, or can still get, was sent by a responder that
  heard a broadcast, and until a reply is late there is one of each. `ReadInv`
  accounts for the buffers: the records returned are those of the replies read.

**Daemon and Windows service.** `ServiceInv` is one invariant for both
platforms: where the threads can be together (`Positions`), who holds the mutex
(`Holders`), which sections have been looked at and found usable (`Reading`),
what may have been reported (`Telling`), and how the process can have ended
(`Ending`). `AnswersAreComplete` adds `RegistryInv`, which counts the sections
taken against the entries of the registry, the one in `addService` included, and
`SentInv`: nothing is added once the listener was started.

`DaemonIsApplication` is a step simulation with the identity as its mapping:
every step of `main`, `svcInit`, `SvcMain` and the control handler is an action
of `Listener`, the end of the process (`End`) or leaves the variables of
`Listener` alone. With it the theorems about `Listener` hold in the daemon
without being proved again, and `DaemonKeepsPromise` connects them with
`RepliesAreComplete`: from the service files to what a client reads.

**Arduino client and application.** `ListInv` is `ListIntact` with the types,
the fact that no address is in the list twice, and that a set check timer means
an unread list. `WalkFollowsTaken` shows that the loop of `getResponses` goes
through the nodes in the order they were taken, and so frees each once;
`AgreeAll` of `NaturalFacts` takes the place of induction over the turns.

**Only model-checked:** liveness (`StopReturns`, `InboxDrains`, `CallReturns`,
`ListenerStops`, `ControlStops`, `BrokerIsRetried`), which is beyond the prover;
and the six counterexamples of the violation runs, which are behaviours and not
theorems.

## 5. Not modelled

- Printing, the vendored command line parser, build files and installers; the
  server example, which makes the daemon's calls with fixed entries; and the
  browse tool, which is one call of `sendQuery`.
- Of INIReader, the string functions that take a line apart and the numeric
  getters: a line is given as its parts, a port as its number. (`partly` in
  `PROJECT.json`.)
- IPv6 in `remoteToLocalIP`: the listener's socket is bound to an IPv4 address,
  so no requester takes that branch.
- A composition of `Client` with several responders. `Client` and `Listener`
  meet in `Wire`: what one sends is what the other parses, `Registry` and
  `Discovery` state both promises over the same messages, and what lies between
  them, a network that loses, delays and reorders, is in `Client` already.
  `RespondersAreProper` proves of every listener what the theorems about the
  client assume of its responders. A joint module would multiply the states of
  both and could break only where one of the two promises is broken.
