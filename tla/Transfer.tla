------------------------------ MODULE Transfer ------------------------------
(***************************************************************************)
(* Two wcat commands at work, a client and a server, and between them the  *)
(* network and, with --proxy, a SOCKS5 or HTTP proxy (filexfer.c, proxy.c, *)
(* socketx.c, tls.c, quic.c, main.c). Each command runs the steps that     *)
(* Launch lists for its configuration; this module says when a step can be *)
(* taken, takes the negotiation with the proxy and the copy loop apart,    *)
(* and keeps the account of what each command holds.                       *)
(***************************************************************************)
EXTENDS Launch, SequencesExt

CONSTANTS
    Scenarios,      \* what is run: see IsScenario
    Faults,         \* what may go wrong: "open", "signal", "reset", "io"
    File,           \* the bytes that send reads
    MaxAddr,        \* addresses of a name
    ReadMax,        \* WCAT_BUFSIZE: bytes of one read
    WireMax,        \* bytes the kernel holds of one connection
    HeadMax,        \* tokens that fit the buffer of http_connect_negotiate
    RepSize         \* bytes of the reply buffer of socks5_negotiate, 10

Proc == {"client", "server"}
Absent == [wcat_config_init EXCEPT !.mode = "none"]

(* A scenario: the configuration of the two commands (Absent where the     *)
(* other end is some other program), the address of the client, what a     *)
(* server that is not wcat says on its own, and the answers of the proxy:  *)
(* to the greeting, to a request it grants, and to one it refuses. The     *)
(* response of an HTTP proxy is a sequence of tokens: the status, headers, *)
(* and HeadEnd for the empty line.                                         *)
HeadEnd == 0
StatusOk == 200

(* The proxy, external, keeps to its protocol: its answers are complete,   *)
(* and a refusal does not read like a grant.                               *)
KeepsToSocks5(s) ==
    /\ Len(s.method) = 2 /\ Len(s.reply) >= 4
    /\ s.reply[2] = 0 => /\ s.reply[4] = 1 => Len(s.reply) = 10
                         /\ s.reply[4] = 3 => Len(s.reply) >= 5 /\ Len(s.reply) = 7 + s.reply[5]
                         /\ s.reply[4] = 4 => Len(s.reply) = 22
    /\ Len(s.refusal) >= 2 /\ s.refusal[2] # 0
KeepsToHttp(s) ==
    /\ s.reply # <<>> /\ \A k \in DOMAIN s.reply : s.reply[k] = HeadEnd <=> k = Len(s.reply)
    /\ StatusOk \notin ToSet(s.refusal)

(* Files are sent over TCP, and both ends of a connection use TLS or none  *)
(* does: datagrams, and a recv that takes a handshake for data, are not    *)
(* modelled.                                                               *)
IsScenario(s) ==
    /\ s["client"].mode \in {"none", "connect", "listen", "send", "relay"}
    /\ s["server"].mode \in {"none", "recv"}
    /\ \A p \in Proc : /\ DOMAIN s[p] = DOMAIN wcat_config_init
                       /\ s[p].proxy \in {"none", "socks5", "http"}
                       /\ IsList(s[p].allow) /\ IsList(s[p].deny)
                       /\ s[p].mode \in {"send", "recv"} => "udp" \notin s[p].flags
    /\ (\A p \in Proc : s[p].mode # "none") => s["client"].tls = s["server"].tls
    /\ UsesProxy(s["client"]) =>
          IF s["client"].proxy = "socks5" THEN KeepsToSocks5(s) ELSE KeepsToHttp(s)
    /\ s.banner \in Seq(Nat) /\ s.method \in Seq(Nat)
    /\ s.reply \in Seq(Nat) /\ s.refusal \in Seq(Nat)
    /\ s.grants \in BOOLEAN /\ s.peer.family \in Family \cup {"none"} /\ IsPeer(s.peer)

ASSUME TransferAssumption ==
    /\ \A s \in Scenarios : IsScenario(s)
    /\ File \in Seq(Nat)
    /\ Faults \subseteq {"open", "signal", "reset", "io"}
    /\ {MaxAddr, ReadMax, HeadMax, RepSize} \subseteq Nat \ {0}
    /\ WireMax \in Nat /\ WireMax >= ReadMax

VARIABLES
    sc,         \* the scenario
    todo,       \* the steps each command has before it
    held,       \* resources each command holds
    ref,        \* what the fields of its structures refer to
    status,     \* its exit status, -1 while it runs, Killed by a signal
    wrong,      \* resources that were released twice, or used after release
    addrs,      \* addresses left to try
    stop,       \* wcat_stop
    head,       \* the copy loop is at its test of wcat_stop
    link,       \* the server's connection: "none", "backlog", "up"
    wire,       \* bytes on the way from the client to the server
    reset,      \* the connection was reset
    down,       \* bytes on the way from the proxy or server to the client
    proxy,      \* the proxy: "idle", "greeted", "answered", "asked", "tunnel", "closed"
    neg,        \* the negotiation: [pc, need (bytes of this read), got]
    fpos,       \* bytes of File that send has read
    out,        \* bytes each command has written to its file or standard output
    ioerr       \* a read or write of a file failed

net == <<link, wire, reset, down, proxy>>
copied == <<fpos, out, ioerr>>
account == <<held, ref, wrong>>
vars == <<sc, todo, status, addrs, stop, head, neg, account, net, copied>>

Killed == 3
Ended(p) == status[p] # -1
Present(p) == sc[p].mode # "none"
ThisStep(p) == Head(todo[p])
Doing(p, call) == Present(p) /\ ~Ended(p) /\ ThisStep(p).call = call
ComesTo(p, call) == \E k \in 2..Len(todo[p]) : todo[p][k].call = call
Proxied == UsesProxy(sc["client"])

Init ==
    /\ sc \in Scenarios
    /\ todo = [p \in Proc |-> Program(sc[p])]
    /\ held = [p \in Proc |-> {}]
    /\ ref = [p \in Proc |-> [f \in Fields |-> ""]]
    /\ status = [p \in Proc |-> -1]
    /\ wrong = {}
    /\ addrs = [p \in Proc |-> MaxAddr]
    /\ stop = [p \in Proc |-> FALSE]
    /\ head = [p \in Proc |-> TRUE]
    /\ link = "none" /\ wire = <<>> /\ reset = FALSE
    /\ down = <<>> /\ proxy = "idle"
    /\ neg = [pc |-> "start", need |-> 0, got |-> <<>>]
    /\ fpos = 0 /\ out = [p \in Proc |-> <<>>] /\ ioerr = FALSE

-----------------------------------------------------------------------------
(* The account of resources.                                               *)

(* What the releases in undo give back, in order: a field stands for what  *)
(* it refers to, "" if to nothing.                                         *)
Named(p, undo) ==
    [k \in DOMAIN undo |-> IF undo[k] \in Fields THEN ref[p][undo[k]] ELSE undo[k]]

(* The descriptor that freeing a session still needs.                      *)
DescriptorOf(p, r) ==
    CASE r \in {"ssl", "conn"} -> {ref[p]["s.fd"]}
      [] r = "listener_ssl" -> {ref[p]["l.fd"]}
      [] OTHER -> {}

(* Of these, what is not held any more, or needs something that is not.    *)
Misused(p, undo) ==
    LET gone == Named(p, undo)
        heldAt(k) == held[p] \ {gone[j] : j \in 1..(k - 1)}
        needs(k) == {gone[k]} \cup DescriptorOf(p, gone[k])
    IN  {gone[k] : k \in {j \in DOMAIN gone : gone[j] # "" /\ ~(needs(j) \subseteq heldAt(j))}}

Release(p, undo) ==
    /\ held' = [held EXCEPT ![p] = @ \ ToSet(Named(p, undo))]
    /\ wrong' = wrong \cup Misused(p, undo)
    /\ UNCHANGED ref

(* The call succeeds and the command goes on.                              *)
Advance(p) ==
    LET s == ThisStep(p)
    IN  /\ todo' = [todo EXCEPT ![p] = Tail(@)]
        /\ addrs' = [addrs EXCEPT ![p] = MaxAddr]
        /\ IF s.call = "free" THEN Release(p, s.undo)
           ELSE /\ held' = [held EXCEPT ![p] = IF s.call = "store" THEN @ ELSE @ \cup ({s.val} \ {""})]
                /\ ref' = IF s.into = "" THEN ref ELSE [ref EXCEPT ![p][s.into] = s.val]
                /\ UNCHANGED wrong
        /\ UNCHANGED <<status, stop, head>>

(* The command ends at this step.                                          *)
End(p, st) ==
    /\ status' = [status EXCEPT ![p] = st]
    /\ Release(p, ThisStep(p).undo)
    /\ UNCHANGED <<todo, addrs, stop, head>>

(* run_quic_listen reports success when it was told to stop.               *)
FailsWith(p) ==
    IF sc[p].mode = "listen" /\ stop[p] /\ ThisStep(p).call \in {"quic_accept", "set_blocking_mode"}
    THEN 0 ELSE FailStatus(sc[p], ThisStep(p).call)
Failed(p) == End(p, FailsWith(p))

-----------------------------------------------------------------------------
(* Opening.                                                                *)

(* Calls whose success needs nothing but the system.                       *)
Waiting == {"parse_args", "connect", "accept", "access", "SSL_connect", "SSL_accept",
            "negotiate", "copy", "relay"}
Plain(p) ==
    /\ Present(p) /\ ~Ended(p) /\ ThisStep(p).call \notin Waiting
    /\ Advance(p)
    /\ UNCHANGED <<sc, neg, net, copied>>

ParseArgs(p) ==
    /\ Doing(p, "parse_args")
    /\ IF wcat_parse_args(sc[p]) THEN Advance(p) ELSE Failed(p)
    /\ UNCHANGED <<sc, neg, net, copied>>

(* Fault: one more attempt after the last address.                         *)
TriesOneMore(p) == addrs[p] = 0

LastAddress(p) == addrs[p] = 1

(* A call fails. The loops over addresses go on with the next one.         *)
CallFails(p) ==
    IF ThisStep(p).call \in {"connect", "bind"} /\ ~LastAddress(p)
    THEN /\ addrs' = [addrs EXCEPT ![p] = @ - 1]
         /\ UNCHANGED <<todo, status, stop, head, account>>
    ELSE Failed(p)

Fail(p) ==
    /\ "open" \in Faults /\ Present(p) /\ ~Ended(p)
    /\ ThisStep(p).call \notin {"store", "free", "parse_args", "access", "copy", "relay"}
    /\ CallFails(p)
    /\ UNCHANGED <<sc, neg, net, copied>>

Listening == "listener" \in held["server"]
DirectToServer == Present("server") /\ ~Proxied

(* connect() reaches the proxy, the other command, or some other server,   *)
(* which may speak at once.                                                *)
Connect(p) ==
    /\ Doing(p, "connect")
    /\ \/ Proxied /\ UNCHANGED <<link, down>>
       \/ DirectToServer /\ Listening /\ link' = "backlog" /\ UNCHANGED down
       \/ ~Present("server") /\ ~Proxied /\ down' = sc.banner /\ UNCHANGED link
    /\ Advance(p)
    /\ UNCHANGED <<sc, neg, wire, reset, proxy, copied>>

Refused(p) ==
    /\ Doing(p, "connect") /\ DirectToServer /\ ~Listening
    /\ CallFails(p)
    /\ UNCHANGED <<sc, neg, net, copied>>

(* accept_when_ready: a signal ends the wait, within 250 ms.               *)
Accept(p) ==
    /\ Doing(p, "accept")
    /\ IF sc[p].mode = "recv" THEN link = "backlog" /\ link' = "up" ELSE UNCHANGED link
    /\ Advance(p)
    /\ UNCHANGED <<sc, neg, wire, reset, down, proxy, copied>>

AcceptStopped(p) ==
    /\ \/ Doing(p, "accept") \/ Doing(p, "quic_accept")
    /\ stop[p] /\ Failed(p)
    /\ UNCHANGED <<sc, neg, net, copied>>

PeerConnects ==
    /\ ~Present("client") /\ link = "none" /\ Listening /\ link' = "backlog"
    /\ UNCHANGED <<sc, todo, status, addrs, stop, head, neg, account, wire, reset, down,
                   proxy, copied>>

(* The address is gone with a connection that was reset.                   *)
NoAddress == [family |-> "none", addr |-> <<>>]
PeerAddr == IF reset THEN {sc.peer, NoAddress} ELSE {sc.peer}

AccessCheck(p) ==
    /\ Doing(p, "access")
    /\ \E peer \in PeerAddr :
           IF wcat_access_check_fd(sc[p].allow, sc[p].deny, peer) THEN Advance(p) ELSE Failed(p)
    /\ UNCHANGED <<sc, neg, net, copied>>

(* The TLS handshake: neither end can finish before the other has begun.   *)
Opposite(p) == CHOOSE q \in Proc : q # p
ShakeCalls == {"SSL_connect", "SSL_accept"}
Shaking(p) == \E call \in ShakeCalls : Doing(p, call)

Handshake(p) ==
    /\ Shaking(p) /\ ~reset
    /\ Present(Opposite(p)) => ~\E call \in ShakeCalls : ComesTo(Opposite(p), call)
    /\ Advance(p)
    /\ UNCHANGED <<sc, neg, net, copied>>

HandshakeBroken(p) ==
    /\ Shaking(p)
    /\ \/ reset
       \/ /\ Present(Opposite(p)) /\ Ended(Opposite(p))
          /\ \E call \in ShakeCalls : ComesTo(Opposite(p), call) \/ ThisStep(Opposite(p)).call = call
    /\ Failed(p)
    /\ UNCHANGED <<sc, neg, net, copied>>

-----------------------------------------------------------------------------
(* The negotiation with a proxy.                                           *)

Reading(pc, need) == [pc |-> pc, need |-> need, got |-> <<>>]
Rejected == Reading("rejected", 0)
Granted == Reading("granted", 0)

(* What follows when a read_exact of socks5_negotiate is complete.         *)
socks5_negotiate(pc, rep) ==
    CASE pc = "method" -> IF rep = <<5, 0>> THEN Reading("reply", 4) ELSE Rejected
      [] pc = "reply" ->
            CASE rep[2] # 0 -> Rejected
              [] rep[2] = 0 /\ rep[4] = 1 -> Reading("bound", 6)
              [] rep[2] = 0 /\ rep[4] = 3 -> Reading("length", 1)
              [] rep[2] = 0 /\ rep[4] = 4 -> Reading("bound", 18)
              [] OTHER -> Rejected
      [] pc = "length" -> Reading("bound", rep[1] + 2)
      [] pc = "bound" -> Granted

(* The response is read until the empty line or until the buffer is full;  *)
(* the status is looked for anywhere in it.                                *)
http_connect_negotiate(buf) ==
    IF HeadEnd \notin ToSet(buf) /\ Len(buf) < HeadMax
    THEN [pc |-> "head", need |-> 0, got |-> buf]
    ELSE IF StatusOk \in ToSet(buf) THEN Granted ELSE Rejected

(* Fault: the response is read in blocks.                                  *)
BlockRead(pc) == IF pc = "head" THEN 1..Len(down) ELSE 1..(neg.need - Len(neg.got))

(* How much one read may return: read_exact takes what it still needs, the *)
(* HTTP response is read byte by byte.                                     *)
ReadSize(pc) == IF pc = "head" THEN {1} ELSE 1..(neg.need - Len(neg.got))

Negotiating == Doing("client", "negotiate")

NegotiateStart ==
    /\ Negotiating /\ neg.pc = "start"
    /\ IF sc["client"].proxy = "socks5"
       THEN proxy' = "greeted" /\ neg' = Reading("method", 2)
       ELSE proxy' = "asked" /\ neg' = Reading("head", 0)
    /\ UNCHANGED <<sc, todo, status, addrs, stop, head, account, link, wire, reset, down, copied>>

(* One read, and what follows when it completes an answer: the request is  *)
(* sent, the tunnel is there, or the socket is closed.                     *)
NegotiateRead ==
    /\ Negotiating /\ neg.pc # "start"
    /\ \E n \in ReadSize(neg.pc) \cap 1..Len(down) :
          LET got == neg.got \o SubSeq(down, 1, n)
              next == CASE neg.pc = "head" -> http_connect_negotiate(got)
                        [] neg.pc # "head" /\ Len(got) < neg.need -> [neg EXCEPT !.got = got]
                        [] OTHER -> socks5_negotiate(neg.pc, got)
          IN  /\ down' = SubSeq(down, n + 1, Len(down))
              /\ neg' = next
              /\ proxy' = IF next.pc = "reply" /\ proxy = "answered" THEN "asked" ELSE proxy
              /\ CASE next = Granted -> Advance("client")
                   [] next = Rejected -> Failed("client")
                   [] OTHER -> UNCHANGED <<todo, status, addrs, stop, head, account>>
    /\ UNCHANGED <<sc, link, wire, reset, copied>>

NegotiateEof ==
    /\ Negotiating /\ neg.pc # "start" /\ down = <<>> /\ proxy = "closed"
    /\ Failed("client")
    /\ UNCHANGED <<sc, neg, net, copied>>

(* A reply longer than its buffer is written past its end: the command may *)
(* be killed, or go on.                                                    *)
ReplyOverrun ==
    /\ Negotiating /\ neg.need > RepSize /\ Len(neg.got) > RepSize
    /\ status' = [status EXCEPT !["client"] = Killed]
    /\ held' = [held EXCEPT !["client"] = {}]
    /\ UNCHANGED <<sc, todo, addrs, stop, head, neg, ref, wrong, net, copied>>

(* The proxy, external: it answers the greeting, and then the request,     *)
(* once it has reached the server or failed to.                            *)
ProxyGreets ==
    /\ proxy = "greeted" /\ proxy' = "answered" /\ down' = down \o sc.method
    /\ UNCHANGED <<sc, todo, status, addrs, stop, head, neg, account, link, wire, reset, copied>>

ProxyConnects ==
    /\ proxy = "asked"
    /\ IF sc.grants /\ (Present("server") => Listening)
       THEN /\ down' = down \o sc.reply \o (IF Present("server") THEN <<>> ELSE sc.banner)
            /\ proxy' = "tunnel"
            /\ link' = IF Present("server") THEN "backlog" ELSE link
       ELSE /\ down' = down \o sc.refusal
            /\ proxy' = "closed" /\ UNCHANGED link
    /\ UNCHANGED <<sc, todo, status, addrs, stop, head, neg, account, wire, reset, copied>>

ProxyCloses ==
    /\ "open" \in Faults /\ proxy \in {"greeted", "answered", "asked"} /\ proxy' = "closed"
    /\ UNCHANGED <<sc, todo, status, addrs, stop, head, neg, account, link, wire, reset, down, copied>>

-----------------------------------------------------------------------------
(* wcat_copy_stream: send copies the file to the network, recv copies the  *)
(* network to the file. The loop tests wcat_stop before each pump_once,    *)
(* and nowhere else: a read that a signal interrupts is repeated.          *)

ServerGone ==
    /\ Present("server")
    /\ \/ link = "backlog" /\ ~Listening
       \/ link = "up" /\ "client" \notin held["server"]
ClientGone == ~Present("client") \/ "sock" \notin held["client"]

CopyTest(p) ==
    /\ Doing(p, "copy") /\ head[p]
    /\ IF stop[p] THEN End(p, 0)
       ELSE /\ head' = [head EXCEPT ![p] = FALSE]
            /\ UNCHANGED <<todo, status, addrs, stop, account>>
    /\ UNCHANGED <<sc, neg, net, copied>>

Pumping(p, mode) == Doing(p, "copy") /\ ~head[p] /\ sc[p].mode = mode
ToTest(p) ==
    /\ head' = [head EXCEPT ![p] = TRUE]
    /\ UNCHANGED <<todo, status, addrs, stop, account>>

(* Fault: the last byte is missed.                                         *)
EofEarly(pos) == pos + 1 >= Len(File)

FileEof(pos) == pos = Len(File)

(* What is written to a connection whose other end is gone is lost.        *)
SendChunk ==
    /\ Pumping("client", "send") /\ ~FileEof(fpos)
    /\ \E n \in 1..ReadMax :
          /\ fpos + n <= Len(File)
          /\ \/ (ServerGone \/ reset) /\ UNCHANGED wire
             \/ /\ ~ServerGone /\ ~reset /\ Len(wire) + n <= WireMax
                /\ wire' = wire \o SubSeq(File, fpos + 1, fpos + n)
          /\ fpos' = fpos + n
    /\ ToTest("client")
    /\ UNCHANGED <<sc, neg, link, reset, down, proxy, out, ioerr>>

SendEnds ==
    /\ Pumping("client", "send")
    /\ \/ FileEof(fpos) /\ End("client", 0) /\ UNCHANGED ioerr
       \/ "io" \in Faults /\ End("client", 0) /\ ioerr' = TRUE
       \/ (ServerGone \/ reset) /\ ~FileEof(fpos) /\ End("client", 1) /\ UNCHANGED ioerr
    /\ UNCHANGED <<sc, neg, net, fpos, out>>

RecvChunk ==
    /\ Pumping("server", "recv")
    /\ \E n \in 1..ReadMax :
          /\ n <= Len(wire)
          /\ wire' = SubSeq(wire, n + 1, Len(wire))
          /\ \/ /\ out' = [out EXCEPT !["server"] = @ \o SubSeq(wire, 1, n)]
                /\ ToTest("server") /\ UNCHANGED ioerr
             \/ /\ "io" \in Faults /\ ioerr' = TRUE
                /\ \E m \in 0..(n - 1) :
                      out' = [out EXCEPT !["server"] = @ \o SubSeq(wire, 1, m)]
                /\ End("server", 1)
    /\ UNCHANGED <<sc, neg, link, reset, down, proxy, fpos>>

(* Fault: the end of the connection is not noticed.                        *)
EofMissed == reset

NetworkEof == ClientGone \/ reset

(* Both the end of the data and a reset end the copy with success.         *)
RecvEnds ==
    /\ Pumping("server", "recv") /\ wire = <<>> /\ NetworkEof
    /\ End("server", 0)
    /\ UNCHANGED <<sc, neg, net, copied>>

(* A TLS stream does not block: without data the loop goes round.          *)
RecvAgain ==
    /\ Pumping("server", "recv") /\ sc["server"].tls /\ wire = <<>> /\ ~NetworkEof
    /\ ToTest("server")
    /\ UNCHANGED <<sc, neg, net, copied>>

-----------------------------------------------------------------------------
(* The relay of connect, listen and relay; Relay has its inside.           *)

RelayCopies(p) ==
    /\ Doing(p, "relay")
    /\ \E n \in 1..ReadMax :
          /\ n <= Len(down)
          /\ out' = [out EXCEPT ![p] = @ \o SubSeq(down, 1, n)]
          /\ down' = SubSeq(down, n + 1, Len(down))
    /\ UNCHANGED <<sc, todo, status, addrs, stop, head, neg, account, link, wire, reset, proxy,
                   fpos, ioerr>>

(* It returns when an end is closed, breaks or is silent for too long, or  *)
(* after a signal; until one of these happens it waits.                    *)
RelayEnds(p) ==
    /\ Doing(p, "relay")
    /\ \E st \in {0, 1} : End(p, st)
    /\ UNCHANGED <<sc, neg, net, copied>>

-----------------------------------------------------------------------------
Signal(p) ==
    /\ "signal" \in Faults /\ Present(p) /\ ~Ended(p) /\ ~stop[p]
    /\ stop' = [stop EXCEPT ![p] = TRUE]
    /\ UNCHANGED <<sc, todo, status, addrs, head, neg, account, net, copied>>

Reset ==
    /\ "reset" \in Faults /\ link # "none" /\ ~reset /\ reset' = TRUE
    /\ \E n \in 0..Len(wire) : wire' = SubSeq(wire, 1, n)
    /\ UNCHANGED <<sc, todo, status, addrs, stop, head, neg, account, link, down, proxy, copied>>

Work(p) ==
    \/ Plain(p) \/ ParseArgs(p) \/ Connect(p) \/ Refused(p) \/ Accept(p) \/ AcceptStopped(p)
    \/ AccessCheck(p) \/ Handshake(p) \/ HandshakeBroken(p)
    \/ CopyTest(p) \/ RelayCopies(p) \/ RelayEnds(p)
ClientWork ==
    Work("client") \/ NegotiateStart \/ NegotiateRead \/ NegotiateEof \/ SendChunk \/ SendEnds
ServerWork == Work("server") \/ RecvChunk \/ RecvEnds \/ RecvAgain
Surroundings == ProxyGreets \/ ProxyConnects \/ PeerConnects

Next ==
    \/ ClientWork \/ ServerWork \/ Surroundings
    \/ ProxyCloses \/ ReplyOverrun \/ Reset
    \/ \E p \in Proc : Fail(p) \/ Signal(p)

(* Each command runs on, and so do the proxy and the network. Nothing has  *)
(* to fail, and a relay need not end: it may be idle for ever.             *)
Fairness ==
    /\ WF_vars(~Doing("client", "relay") /\ ClientWork)
    /\ WF_vars(ServerWork)
    /\ WF_vars(Surroundings)

Spec == Init /\ [][Next]_vars /\ Fairness

-----------------------------------------------------------------------------
(* Properties.                                                             *)

(* The values of the state, the bounds on the wire and on the addresses    *)
(* that the loops of socketx.c have left included.                         *)
TypeOK ==
    /\ \A p \in Proc : Present(p) => todo[p] # <<>>
    /\ held \in [Proc -> SUBSET Resources]
    /\ ref \in [Proc -> [Fields -> Resources \cup {""}]]
    /\ status \in [Proc -> {-1, 0, 1, 2, Killed}]
    /\ wrong \subseteq Resources
    /\ addrs \in [Proc -> 1..MaxAddr]
    /\ stop \in [Proc -> BOOLEAN] /\ head \in [Proc -> BOOLEAN]
    /\ link \in {"none", "backlog", "up"} /\ reset \in BOOLEAN
    /\ wire \in Seq(ToSet(File)) /\ Len(wire) <= WireMax
    /\ down \in Seq(Nat)
    /\ proxy \in {"idle", "greeted", "answered", "asked", "tunnel", "closed"}
    /\ neg \in [pc : {"start", "head", "method", "reply", "length", "bound", "rejected", "granted"},
                need : Nat, got : Seq(Nat)]
    /\ fpos \in 0..Len(File) /\ ioerr \in BOOLEAN
    /\ \A p \in Proc : out[p] \in Seq(Nat)

(* Whatever call fails, and wherever the command is then, every descriptor,*)
(* session, context, address list and process it acquired is released      *)
(* exactly once, a session while its descriptor is still open. The one     *)
(* exception is the socket of connect --exec when the process cannot be    *)
(* started (main.c, relay_peer_to_process).                                *)
LedgerSound ==
    /\ wrong = {}
    /\ \A p \in Proc : Ended(p) =>
          \/ held[p] = {}
          \/ held[p] = {"sock"} /\ sc[p].mode = "connect" /\ ThisStep(p).call = "spawn"

(* recv writes a prefix of what send read, in order and with nothing of a  *)
(* proxy's answer in it; when both report success, nobody was told to stop *)
(* and neither the network nor the disk failed, it is the whole file       *)
(* (wcat_copy_stream, wcat_send_file, wcat_recv_file).                     *)
TransferExact ==
    sc["server"].mode = "recv" /\ sc["client"].mode = "send" =>
        /\ IsPrefix(out["server"], File)
        /\ (\A p \in Proc : status[p] = 0 /\ ~stop[p]) /\ ~reset /\ ~ioerr
              => out["server"] = File

(* A client goes on past the negotiation only when the proxy has granted   *)
(* the tunnel, and then finds exactly the server's bytes in it: nothing of *)
(* the answer is left over and nothing behind it was swallowed, however    *)
(* the bytes were cut up on the way. (A response header that does not fit  *)
(* the buffer of http_connect_negotiate is the exception.)                 *)
PastNegotiation ==
    Proxied /\ ThisStep("client").call # "negotiate" /\ ~ComesTo("client", "negotiate")
HeaderFits ==
    \/ sc["client"].proxy # "http"
    \/ Len(sc.reply) <= HeadMax
TunnelExact ==
    /\ PastNegotiation => proxy = "tunnel"
    /\ PastNegotiation /\ ~Present("server") /\ HeaderFits => out["client"] \o down = sc.banner

(* A peer is served exactly when its address, bit by bit, is in no network *)
(* of --deny and, if there is an --allow list, in one of it; a connection  *)
(* that was reset may have lost its address (access.c, wcat_recv_file).    *)
AccessDecides ==
    sc["server"].mode = "recv" =>
        LET permitted == Permitted(sc["server"].allow, sc["server"].deny, sc.peer)
            checking == ThisStep("server").call = "access"
        IN  /\ ~checking /\ ~ComesTo("server", "access") => permitted
            /\ checking /\ Ended("server") => ~permitted \/ reset

(* send ends, one way or another, and so does recv once it has accepted    *)
(* its client; connect ends or gets as far as its relay. Nobody is left in *)
(* a loop over addresses, a negotiation, a handshake or a copy that waits  *)
(* for a peer, a proxy or a server that is gone. (A peer that is there and *)
(* silent for ever is not covered: all that run here speak in the end.)    *)
TransferEnds ==
    /\ sc["client"].mode = "send" ~> Ended("client")
    /\ sc["client"].mode = "connect" ~> Ended("client") \/ Doing("client", "relay")
    /\ sc["server"].mode = "recv" /\ link = "up" ~> Ended("server")

(* docs/wcat.1.md: exit status 0 is "Success", 1 "Runtime or network       *)
(* failure". A recv that nobody told to stop and that exits with 0 has the *)
(* whole file.                                                             *)
SuccessMeansComplete ==
    sc["client"].mode = "send" /\ status["server"] = 0 /\ ~stop["server"]
        => out["server"] = File
=============================================================================
