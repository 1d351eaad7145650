# wirecat: a TLA+ verification project

wirecat (`wcat`) is a network Swiss-army tool in C: it connects and listens
over TCP, UDP, Unix, VSOCK, SCTP, TLS and QUIC, relays between two streams,
puts a process behind a connection, transfers files, runs a chat broker, an
HTTP CONNECT proxy and a console for many sessions at once. It is one process
with one thread per command; what makes it hard is not locks but everything
that can happen between two system calls: peers that connect, stop reading,
half-close or reset, writes that go through in part, signals, and descriptor
numbers, slots and ids that are used again.

## 1. Inventory

| Component | Source | State | Operations | Modelled in |
|---|---|---|---|---|
| Broker | `broker.c` | client table (fd, id, line_start, output queue with offset), `next_client_id`, poll results | accept, refuse, flush, read and fan out, format for chat, drop, shut down | `Broker`, `BrokerChat`, `Broadcast` |
| Relay engine | `relay.c` | `a_active`, `b_active`, the bytes of one read | wait, read pending TLS bytes, pump, half-close, time out; copy one way | `Relay`, `Transfer` |
| Multi listener | `main.c` 442-1796 | session table, `next_id`, `active_id`, `attached_id`, prompt line, held attached keys | accept, prompt commands, attached keys, session input and departure | `MultiListen` |
| Listen loop | `main.c` 99-129, 330-440, 1798-1856 | the client's descriptor, the process, exit status | accept, spawn, handshake, relay, clean up, next client | `Serve` |
| CONNECT proxy server | `proxy.c` 196-335 | the client's and the target's descriptors, exit status | accept, request, connect, relay, clean up | `Serve` |
| Processes | `process.c` | pid and descriptors of pipes or terminal | spawn, close, wait | `Serve` |
| Endpoint setup, dispatch | `main.c` 131-330, 1858-1947 | two endpoints, one stream | open, run a relay, release | `Launch`, `Transfer` |
| File transfer | `filexfer.c`, `wcat_copy_stream` | file, socket or stream | send, recv | `Launch`, `Transfer` |
| Proxy client | `proxy.c` 35-194 | one connection being negotiated | SOCKS5 and HTTP negotiation | `Transfer` |
| Access lists | `access.c` | none (pure) | validate, match, decide | `Access` |
| TLS streams | `tls.c` | OpenSSL objects, owned descriptor | open, read, write, pending, shutdown, close | opening in `Launch`, the rest in `Relay`, `Serve` |
| QUIC | `quic.c` | listener, connection, OpenSSL objects | open, accept, close | opening in `Launch` |
| Sockets | `socketx.c` | none | the loops over addresses, connect, listen, accept | `Launch`, `Transfer`, `Serve` |
| Command line | `cli.c` | configuration | defaults, refused combinations, parsing | first two in `Launch` |
| Signals | `signalx.c` | `wcat_stop` | handler | every module |
| Utilities | `util.c` | none | full write, close | partly |
| Logging | `log.c` | none | print | not modelled |

How they interact. `main` parses, installs the signal handler and runs one
command. The commands call the relay engine with two `wcat_stream`s, which are
callbacks over a socket, TLS, standard input and output, a process or a file;
`close_on_eof` and `can_close_write`, set by each caller, decide what an end of
file does. The only state shared with anything concurrent is `wcat_stop`,
written by the handler. Everything else is shared with the kernel: descriptor
numbers, socket buffers, the listen backlog.

The hard behaviours, and what would make each component correct, are listed
line by line under `hazards` in `PROJECT.json`. In short:

* Broker: exact relaying through partial writes and queue compaction, bounded
  memory, no descriptor leak or mix-up in a round that both accepts and drops,
  slow receivers harm nobody else, labels that identify, prompt shutdown.
* Relay: exact copying in both directions through TLS read-ahead and partial
  writes, end of file after the data, the answer to a half-closed client gets
  through, filters finish, time-outs and signals end it.
* Multi listener: ids never become ambiguous, there is an active session
  whenever there is a session, keys keep their order and reach the session they
  were typed for, dead sessions go away.
* Serve: whatever fails in a session, its descriptors are closed and its
  process is reaped; the next client is served; a signal ends the command.
* Opening and transferring: whatever call fails, everything acquired so far is
  released once and in the right order; the file arrives whole; the tunnel of a
  proxy begins at the right byte; the access lists mean what they say; nobody
  is left waiting for an end that is gone.

## 2. Modules

`Broker` (`broker.c`). The process is cut at its system calls: `Poll`, one of
the accept actions, then for each slot `Flush` and a read action, with `pc` and
`i` as program counter. `clients`, `next_client_id`, `pfds` and `result` are
the C variables; `fdt`, `backlog`, `st`, `sockout` and `rd` are the kernel.
Descriptor numbers are modelled because the code looks poll results up by
number and the kernel hands out the lowest free one. A byte is a record with
its kind, sender and number. `owed` and `snap` are history variables. Time-outs
and EINTR of `poll()` change nothing and are stuttering steps. A `realloc` that
fails is a choice (`AllocFails`).

`BrokerChat` is `format_chat_message` as a function on byte sequences. The
broker takes it as an operator constant, so that the proofs hold for every
formatter that does with one read what is assumed of it: the result stands for
its sender (`FormatAssumption`), has a label where a line begins and nowhere
else, and ends as the input does (`LabelAssumption`). TLC evaluates both for
the real one, on every chunk of the run's scripts. `LineStartAfter` is the
`line_start` that the code carries to the next read.

`Broadcast` says what the broker promises, without slots, descriptors, rounds,
queues or partial writes: a piece of what one member said is given in one step
to all the others, so everybody agrees on the order; a member hears what it was
given from the front and without gaps; and it is let go for four reasons only:
it has finished and all it said was passed on, its connection broke, the
message does not fit into the room it has left, or memory ran out.
`BrokerRefinement` maps the broker onto it: members are the open connections,
`said` and `told` are the bytes a peer has sent and the broker has read, `given`
is `owed`, and `heard` is what a peer has read followed by what its socket
holds. Polling, refusing and moving queues about become stuttering.

`Relay` (`relay.c`, and the callers in `main.c` and `proxy.c` that build the
streams). A `Setup` is a pair of streams and whether there is a time-out; the
operators `relay_peer_to_stdio`, `relay_peer_to_process`, `serve_proxy_client`
and `run_relay` build the setups the program can run. The loop is cut at its
head, between the test of `wcat_stop` and falling asleep in `poll()` (`enter`),
in `poll()`, and before each read and each write. TLS is modelled as far as the
relay sees it: bytes of an incomplete record (`raw`, EAGAIN), decrypted bytes
that `poll()` does not see (`held`), and a close_notify that is given up when
the socket is full.

`MultiListen` (`run_multi_listen` and what it calls). A round is poll, accept,
the operator's input, the sessions. A token is a key or a whole command line; a
read takes everything typed so far and gives it to the handler of the mode at
that moment, token by token. The detach words are represented by one word of
two keys, so that a prefix can be held back. `owner` and `to` are history: whom
a token was typed for, and what was sent where by which path.

`Serve` (`run_listen`, `wcat_proxy_server_run`, `process.c`). One session at a
time, step by step, each step with its error path; `fds` is the kernel's table
of descriptor numbers, and `cfd`, `in_fd`, `out_fd` and `upstream` are numbers
held in C variables, so that a stale number closed twice would hit whatever has
it. The relay is one state, entered and left; what it does inside is `Relay`.
`accept()` without a free descriptor is `AcceptExhausted`, which has to happen;
any other error of `poll()` or `accept()` is `AcceptFails`, which may, and which
the history variable `oserr` records: either ends the command, as in the code.

`Access` (`access.c`). `match_net`, `list_matches`, the validation of a list
and the decision about a peer, with the loop's treatment of an empty last
token; the width of a byte and of an address are constants. At the end it
states bit by bit what the lists mean (`Permitted`), which is what the code is
compared with. A token of a list is a network, other text, blanks or nothing.

`Launch` (`tls.c`, `quic.c`, `socketx.c`, `filexfer.c`, `main.c`, `cli.c`). What
a command does on its way to its loop is a list of calls, each with the
resource it creates, the field of a C structure that then refers to it, and
what is released, in which order, when it fails. The lists are put together as
the functions call each other: `wcat_send_file` is opening the file, then
`wcat_proxy_connect`, then with `--tls` `wcat_tls_client_open`, then the copy. A
released field stands for whatever it refers to at that moment, so an owner
that is set too early, or two owners of one descriptor, show. It also has the
defaults of the command line and the combinations of options it refuses.

`Transfer` runs two such lists against each other, a client and a server, with
the network and a proxy between them. It says when a call can succeed (a
connect needs a listener, a handshake needs the other side), lets any call
fail, takes the two negotiations and the copy loop apart, and keeps the
account: what is held, what the fields refer to, and what was released twice or
used after its release (`wrong`). The proxy is external code, modelled by the
answers the client knows; they arrive in any pieces, with the server's first
bytes right behind them. It may refuse, answer with a method or an address type
the client does not know, or hang up at any time, but what it says is complete
and a refusal does not read like a grant (`KeepsToSocks5`, `KeepsToHttp`). Files
are sent over TCP only, and two commands that meet both use TLS or both do not
(`IsScenario`).

The handler of a signal only sets `wcat_stop`. It may run between any two steps
of the process (`Signal` of each module); what was begun goes on until the code
next looks at the flag.

Which commands ask a proxy at all is `UsesProxy` of `Launch`: `send` and
`connect` over TCP. `connect_socket` looks at `--udp` before `--proxy`, the
command line refuses `--proxy` with `--quic`, `--sctp`, `--unix` and `--vsock`
only (`cli.c` 264-277), and the endpoints of `relay` never look at it; so with
`connect --udp --proxy URL` and `relay --proxy URL` the option is accepted and
passed by, although `docs/wcat.1.md:117` says "Use an outbound proxy". The
models follow the code.

`MCBroker`, `MCRelay`, `MCMulti`, `MCServe` and `MCTransfer` give the constants
their values. `BrokerProofs` (the refinement included), `RelayProofs`,
`MultiProofs`, `ServeProofs`, `AccessProofs` and `TransferProofs` hold the
theorems about the module they extend, `LaunchProofs` the lemmas about the lists
of `Launch` that `TransferProofs` uses, `NatFacts` what they share about numbers.

Operators whose comment begins with "Fault:" are not part of any
specification. Each is a plausible bug of the operator after it; put in its
place, it makes TLC violate the property that `mutants` in `PROJECT.json`
names, which shows that the property depends on that code.

## 3. Runs

| Run | Bounds | Shows |
|---|---|---|
| `broker_fanout` | `--chat`, 3 connections, 2 slots, 3 descriptors, queue of 4, socket buffer of 3, three and one bytes with a line end and a control byte, one may reset, memory may run out | types, bounded queues, no descriptor leak or mix-up, exact relaying, one label per line, labels identify |
| `broker_live` | raw, 3 connections (one refused), 2 descriptors for 3 slots, queue of 2, socket buffer of 1, fair | the broker implements `Broadcast`; a signal anywhere in a round stops it, dead peers freed, delivery next to a peer that never reads |
| `relay_all` | 8 setups, 3 bytes one way and 1 the other, reads of 2, records of 3, socket buffer of 1, fair | exactness, end of file, answers, liveness |
| `relay_idle` | TLS with a time-out | **violation**: the idle time-out never fires |
| `relay_capture` | socket to file | **violation**: the capture ends at once |
| `multi_console` | 3 connections, 2 slots, 2 tokens of 13 | ids, active session, `:send` |
| `multi_live` | 1 connection, 3 tokens of 8, stall and close, a signal anywhere, fair | order of keys, all handled, `:quit` and signals |
| `multi_keys` | 1 connection, 3 tokens of 6 | **violation**: keys after Ctrl-] go to the session left |
| `serve_all` | 3 clients (one refused), 8 configurations, 7 or 3 descriptors, errors of `accept()`, time-outs, fair | balance, reaping, keep-open, next client, stop |
| `serve_pty` | `-k --pty --exec` | **violation**: a shell left by its client blocks the next |
| `transfer_all` | about 1090 scenarios: 5 of send to recv, 10 of connect directly or through a proxy, 20 other ways to open an endpoint, and access lists; a file of 4 bytes, reads of 2, 3 bytes on the wire, 2 addresses; any call may fail, signals, reset, disk errors; fair | releases, exact transfer, exact tunnel, access decisions, every command ends or gets to its relay |
| `transfer_status` | plain send to recv, reset only | **violation**: recv exits with 0 and part of the file |

The constant `Signals` of `Broker` and `MultiListen` says whether a signal may
come. In `broker_live`, `multi_live` and `multi_keys` one may arrive at any
point of a round, because stopping is what those runs ask about;
`broker_fanout` and `multi_console` leave it out to keep three connections
affordable, and the theorems cover their invariants with signals too.

Why these bounds are enough for the cases that matter. Three connections on
two slots make a slot, a descriptor number and, in the console, an id's slot be
used again while another client lives. A queue of two bytes over a socket
buffer of one, and one of four over three when each line carries a label, give
partial flushes, compaction with bytes pending, and overflow. A record of three bytes with reads of two into a buffer of one gives
partial writes, an incomplete record, and decrypted bytes left behind. Two
typed tokens at the prompt select, then act; three in attached mode hold back, disturb and release. Seven descriptors
are the listener, the client and two pipes with one to spare; three make
`forkpty` fail and two such failures leave none for `accept()`. A file of two
reads over a wire that holds less than it gives a copy that is interrupted,
reset or filled up at each point of both loops. Two addresses make the loops of
`socketx.c` go on once and give up once. With bytes of two bits, an address has
two (or three) of them, and prefixes of every length fall on, before and behind
a byte's boundary. The header buffer of the HTTP negotiation holds four tokens
(`HeadMax`): one response fits, one does not; the reply buffer of the SOCKS5
negotiation has its real size (`RepSize`).

Bounds named by the models: `MaxBytes`, `Script`, `BacklogMax`, `MaxTyped`,
`NumFd`, `MaxAddr`, `ReadMax`, `WireMax`, `HeadMax`, and one connection attempt
per member of `Conn`.

The five violations are disagreements between a document and the code; they
are described with the lines quoted under `findings`. The affected properties
are checked where they do hold: `TimeoutEnds` without TLS, `NextClientServed`
without a terminal, `TransferExact` when nothing was reset.

Some properties name an exception, because the code has one:

* `LedgerSound`, `DescriptorsBalanced`: when the process of `--exec` cannot be
  started, `connect` and `listen` do not close the socket
  (`relay_peer_to_process`).
* `TunnelExact`: a response header that does not fit 1024 bytes ends the
  negotiation as the empty line does. A SOCKS5 reply with an IPv6 address, or a
  name of more than 8 bytes, is read into the 10 bytes of `rep`; what happens
  then is undefined, and modelled as a choice (`ReplyOverrun`).
* `KeepOpenStays`: the command ends on any error of `poll()` or `accept()` on
  the listener (`main.c` 1838-1845, `proxy.c` 313-320), also on one that would
  pass, such as ECONNABORTED, although `--keep-open` is documented as "Keep a
  listener open for sequential clients". What the property says is that no
  session does, and that descriptors are used up only when failed spawns have
  taken all of them but the listener's.
* `NextClientServed`: a client that is silent for ever keeps the next waiting;
  so does a terminal (`serve_pty`).
* `TransferEnds`: `connect` ends or reaches its relay, where it may be idle for
  ever.
* `ListenerStops`: the idle proxy waits in `accept()`, which `wcat_accept`
  repeats after a signal, so it ends when the next client comes.
* `EofForwarded`: a TLS peer may miss the close_notify, which is given up when
  the socket is full.
* `SignalStops` of Relay: a signal between the test of `wcat_stop` and a
  `poll()` without a time limit is missed until something else happens.

Deadlock is checked except in the runs of `Transfer`, whose commands end.

Fairness. The process is scheduled (weak fairness of its steps as one action:
it is a sequential program). Of the outside, only what the property needs and
the document assumes: peers in `Readers` read (Broker); far ends read and a
filter ends after its input (Relay); a stalled peer reads again in the end
(MultiListen, whose writes block); clients finish in the end and a process ends
after its input or terminal is closed (Serve); the proxy answers or hangs up
(Transfer, in which a client's steps are fair up to its relay, and the relay,
which may be idle for ever, need not end). Signals, connections, resets, errors
of system calls and time-outs are never assumed to happen.

## 4. Proofs

Every invariant that a passing run checks is proved for all values of the
constants; so are the refinement and the action property.

| Module | Theorem | States |
|---|---|---|
| `BrokerProofs` | `TypeCorrect` | `Spec => []TypeOK` |
| | `MemoryBounded` | `Spec => []QueueBounded` |
| | `NoDescriptorLeak` | `Spec => []DescriptorsOwned` |
| | `RoundsAreFresh` | `Spec => []EventsAreFresh` |
| | `RelayIsExact` | `Spec => []StreamIntact` |
| | `LinesGetLabels` | `Spec => []LinesLabelled` |
| | `LabelsStandForOne` | `Spec => []LabelsIdentify`, if there are fewer connections than ids |
| | `BrokerBroadcasts` | `Spec => ImplementsBroadcast` |
| `RelayProofs` | `TypeCorrect` | `Spec => []TypeOK` |
| | `CopiesExactly` | `Spec => []RelayExact` |
| | `EofComesLast` | `Spec => []EofFollowsData` |
| | `AnswerHeard` | `Spec => []AnswerDelivered` |
| `MultiProofs` | `TypeCorrect` | `Spec => []TypeOK` |
| | `TableInStep` | `Spec => []SessionsDistinct` |
| | `ActiveIsLive` | `Spec => []ActiveLive` |
| | `KeysKeepOrder` | `Spec => []KeysInOrder` |
| | `SendIsAimed` | `Spec => SendReachesItsSession`, an action property |
| `ServeProofs` | `TypeCorrect` | `Spec => []TypeOK` |
| | `NothingLeaks` | `Spec => []DescriptorsBalanced` |
| | `NoZombies` | `Spec => []ChildrenReaped` |
| | `StaysOpen` | `Spec => []KeepOpenStays` |
| `AccessProofs` | `ListsMeanBits` | `wcat_access_check_fd` decides as `Permitted` |
| `TransferProofs` | `TypesHold` | `Spec => []TypeOK` |
| | `AccessIsDecided` | `Spec => []AccessDecides` |
| | `FilesArrive` | `Spec => []TransferExact` |
| | `NothingIsLeft` | `Spec => []LedgerSound` |
| | `TunnelHolds` | `Spec => []TunnelExact` |

Assumptions. All are stated in the module that declares the constants and
evaluated by TLC in its runs: sizes are positive (`SizesAssumption`,
`RelaySizes`, `MultiAssumption`, `ServeAssumption`, `WidthAssumption`,
`TransferAssumption`), the setups of a relay are those the callers build
(`SetupsAssumption`), a scenario of `Transfer` is two configurations with lists
and addresses of the right shape and, where a proxy is used, one that keeps to
its protocol (`IsScenario`), and the formatter does what section 2 says of it.
`LabelsStandForOne` has a hypothesis of its own:
`Cardinality(Conn) < IdMod`, fewer than 2^32 connections in the build. Without
it the property is false, since `next_client_id` comes round.

The inductive invariants, and why they are needed:

*Broker.* `BrokerInv`. That events are fresh needs `RoundInv`: from `poll()` to
`accept()` nothing is closed, so the one number `accept()` may hand out was not
polled, and from `accept()` to the next `poll()` nothing is opened. That
descriptors are owned needs `TableInv` (a number stands for one open
connection) and `BacklogInv` (a connection waits once, before it is open), or
accepting could put a connection into two slots. Exactness needs that a
connection not yet accepted has been sent nothing, and two lemmas about the
queue: `QueueBytesAppends` (compaction and append together append to the
pending bytes and keep the buffer within its bound) and `FlushTakesFront` (a
partial write takes a prefix).

*Labels and lines.* Both rest on one observation: only `AcceptClient` and
`Relay` give ids or say anything, and every other step is `Silent` (clients may
leave, the others keep slot, id and `line_start`). `NamesInv` counts: the ids
given are at most as many as the connections met, so a new id is new (`IdInv`),
and no label in a stream shows the id of another client that is still there
(`LabelInv`). `LinesInv` says that `line_start` of a client agrees with the last
byte of that client in every stream that is open (`LineInv`); that is what lets
the first byte of the next message be judged (`MessageIsLabelled`), although
messages of others stand in between. A new client has no byte in any stream,
since senders were all accepted before (`SenderInv`), so it agrees with anything.

*Refinement.* Initial states map to initial states, and each action to one step
of `Broadcast` or to stuttering. `BrokerInv` suffices but for one thing: a client
dropped because `poll()` reported an error must have broken its connection, also
when the drop comes steps later. `ErrorsInv` says so of the snapshot, and
`RoundInv` carries it over to the connection behind the descriptor now.

*Relay.* `RelayInv`. `RoundInv` links `active` and `eof`. `RecordInv` says that
the TLS layer takes whole records, so that at the end of a stream nothing is
left undecrypted; without it end of file could overtake bytes. `DoneInv` carries
to the end why the loop ended.

*MultiListen.* `MultiInv`. `SlotsInv` and `IdsInv` bound every id in use by
`next_id`; that makes a stale `active_id` or `attached_id` harmless. `OrderInv`
numbers tokens as they are handled: what is held back as a possible detach word
is in order and later than all that was sent in attached mode.

*Serve.* `ServeInv`. `LedgerInv` accounts for every descriptor number in use by
what holds it; `ProcessInv` says that the numbers the code keeps of a process are
its own ends or free, never a number that was handed out again. The client whose
process could not be spawned is counted as leaked, which is what the code does,
and is the one exception of `NothingLeaks`. `StaysOpen` needs the account, too:
when `accept()` finds no descriptor, `LedgerInv` leaves only such clients to hold
them.

*Access.* `match_net` compares whole bytes and one masked byte; `Covers` compares
bits. The proof goes from the bits of a byte to the byte (`BitOf`) for every
`ByteBits`. `TwoTo` is a recursive function, so that there is one has to be shown
first, from its finite beginnings.

*Transfer.* The lists of `Launch` are first shown to be sequences of well-formed
steps that end in a loop, for every configuration (`IsProgram`). Then four
invariants, each from the one before: `LaunchInv` (what is left of a list while
a command runs is such a list), `AccessInv`, `ConnectedInv` (past accept there is a
connection, and both ends hold what they use), and `ContentInv`: what recv has
written and what is on the wire are a prefix of what send has read (`WireInv`),
and an end of either copy loop has a reason (`SentInv`, `ReceivedInv`). `FilesArrive`
follows when no reason but the end of the file is left.

*The account.* `LedgerSound` is about every list that `Launch` can put together,
and about a failure at each of its steps. `LaunchProofs` follows a list as a
calculus of triples does: `Clean(h, r, undo, g)` says that the releases `undo`,
done in order with resources `h` and references `r`, release nothing twice, no
session after its descriptor, and leave `g`; `Runs(e, h, r, p, g, q)` that from
`h` and `r` every step of `p` either releases all that is held when it fails or
leads to the next, and that the last leads to `g` and `q`. Lists are composed as
the functions call each other (`RunsJoin` and the lemmas named after the
functions), with what a TLS or QUIC stream, a listener or the two endpoints of a
relay own in between (`Stream`, `Listens`, `Tidy`). `ProgramRuns` is the result for
every configuration. `LedgerInv` of `TransferProofs` then only has to say that a
running command is at a place of its list from which `Runs` follows it to the
end (`Follows`), and that an ended one is `Settled`. `e` marks `connect`, whose
socket stays open when its process cannot be started.

*The tunnel.* `Reads(got, rest, S, base)` says that of what the proxy says (`S`)
the first `base` bytes were read before, `got` is what the present read has and
`rest` is on the way; it does not depend on how the bytes are cut up
(`ReadsTaken`). `TunnelInv` has one case for each place of the negotiation
(`MethodInv`, `ReplyInv`, `LengthInv`, `BoundInv`, `HeadInv`), each with how much of
the answer is behind it; at `bound`, what is still to read ends with the answer.
When the tunnel is granted, `rest` is what the server says (`Through`), and the
relay, which comes after the negotiation in the list (`PlaceInv`), moves it to the
output from the front. `TunnelInv` is an invariant of `transfer_all`'s instance
as well; TLC checked it before it was proved.

Induction. The library states it for predicates, which the provers cannot
instantiate. `NatFacts` derives a version for sets of numbers (`SetInduction`)
from well-foundedness, and `LeastMember`, which the kernel's choice of the lowest
free descriptor rests on.

Only model-checked, and why:

* liveness, with fairness and `ENABLED`: out of the prover's reach;
* what `format_chat_message` computes: a recursion over data; the proofs use
  its specification, `ChatMessage`, which TLC evaluates.

## 5. Not modelled

* Logging and hex dumps: output only.
* Reading the options one by one, numbers, URLs and the text of requests and
  prompts: pure parsers, which the repository tests and fuzzes. What the parsed
  values do is modelled.
* The inside of OpenSSL, TLS and QUIC alike, ALPN, and the event handling of
  QUIC after a connection is accepted.
* UDP as a data path (datagrams may be lost and have no end of file): opening
  such a socket for `connect` is modelled; sending and receiving over it is not,
  nor are the `--udp` branches of send and recv (`filexfer.c` 69, 119-128), which
  have no accept and no access check. `IsScenario` leaves them out.
* VSOCK listening, which differs from Unix listening in its address only.
* The kernel's choice of a peer's address family: a peer of an access list has
  the family that `getpeername()` reports.
* Line editing, history, names, counters and echo suppression of the console,
  and the end of its standard input.

Hazards these leave open are listed with a note in `PROJECT.json`. Others are
left out because they need what no fair environment does: an amplifying process
and a client that does not read wait for each other through the relay; a peer
that is refused and reconnects without pause starves the broker's clients; a
child that ignores the end of its input blocks the listener; a session that
never reads again blocks the console; a plain recv waits for a silent peer
whatever `--timeout` and signals say.

## 6. Plan

Done: the models of `Broker`, `Relay`, `MultiListen`, `Serve`, `Broadcast`,
`Access`, `Launch` and `Transfer`; the refinement; all invariants proved. What is
left, in order:

1. Echo suppression and the end of standard input in MultiListen.
2. send and recv over UDP, where datagrams are lost and there is no end of file.
3. The refinement of `Relay`'s one state in `Serve`: that a relay entered there
   ends as `Relay` says.
