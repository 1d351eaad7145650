-------------------------------- MODULE Relay --------------------------------
(***************************************************************************)
(* wcat_relay_bidirectional of src/src/relay.c: one process copies bytes   *)
(* both ways between two streams, a and b, until one ends. Reads wait in   *)
(* poll(), writes block. The streams are the ones its callers build: a     *)
(* socket, TLS over a socket, standard input and output, the pipes or the  *)
(* terminal of a process, a file.                                          *)
(*                                                                         *)
(* The steps of the process are cut where the far ends, or a signal, can   *)
(* act: at the head of the loop, between the head and poll(), in poll(),   *)
(* between a read() and each write() that follows it.                      *)
(***************************************************************************)
EXTENDS Integers, Sequences

CONSTANTS
    Setups,         \* pairs of streams and the timeout the relay may be run with
    MaxBytes,       \* bytes each far end may send
    ReadMax,        \* WCAT_BUFSIZE, the largest read
    RecLen,         \* bytes the TLS layer takes from the socket at a time
    SockBuf         \* bytes the kernel holds between a write() and the far end

End == {"a", "b"}
Other(e) == IF e = "a" THEN "b" ELSE "a"

ASSUME RelaySizes ==
    /\ MaxBytes \in [End -> Nat] /\ ReadMax \in Nat \ {0}
    /\ RecLen \in Nat \ {0} /\ SockBuf \in Nat \ {0}

-----------------------------------------------------------------------------
(* Streams. shuts: shutdown_write tells the far end that no more will      *)
(* come. It does not on standard output and SCTP (can_close_write is 0),   *)
(* and not on a terminal or file (shutdown() says ENOTSOCK).               *)

Stream == [kind : {"fd", "tls", "stdio", "pipe", "pty", "file"},
           close_on_eof : BOOLEAN, shuts : BOOLEAN]

wcat_stream_from_fd == [kind |-> "fd", close_on_eof |-> TRUE, shuts |-> TRUE]
wcat_stream_from_tls == [kind |-> "tls", close_on_eof |-> TRUE, shuts |-> TRUE]
StdioStream == [kind |-> "stdio", close_on_eof |-> FALSE, shuts |-> FALSE]
PipeStream == [kind |-> "pipe", close_on_eof |-> TRUE, shuts |-> TRUE]
PtyStream == [kind |-> "pty", close_on_eof |-> TRUE, shuts |-> FALSE]
SctpStream == [wcat_stream_from_fd EXCEPT !.shuts = FALSE]
FileStream == [wcat_stream_from_fd EXCEPT !.kind = "file", !.shuts = FALSE]

KeepOnEof(s) == [s EXCEPT !.close_on_eof = FALSE]

Setup == [a : Stream, b : Stream, timeout : BOOLEAN]

relay_peer_to_stdio(net) == [a |-> net, b |-> StdioStream, timeout |-> FALSE]
relay_peer_to_process(net, proc) == [a |-> KeepOnEof(net), b |-> proc, timeout |-> FALSE]
serve_proxy_client ==
    [a |-> KeepOnEof(wcat_stream_from_fd), b |-> wcat_stream_from_fd, timeout |-> FALSE]

HasProc(s) == s.kind \in {"pipe", "pty"}
run_relay(left, right) ==
    [a |-> IF HasProc(right) /\ ~HasProc(left) THEN KeepOnEof(left) ELSE left,
     b |-> IF HasProc(left) /\ ~HasProc(right) THEN KeepOnEof(right) ELSE right,
     timeout |-> FALSE]

WithTimeout(s) == [s EXCEPT !.timeout = TRUE]

ASSUME SetupsAssumption == Setups \subseteq Setup

-----------------------------------------------------------------------------
VARIABLES
    setup,          \* the streams and options of this relay
    stop,           \* wcat_stop
    pc,             \* head, enter, poll, pump, write or done
    todo,           \* streams the round has still to read from
    active,         \* a_active, b_active
    buf,            \* read by pump_once, not written yet
    result,         \* return value
    timedout,       \* history: it ended because nothing happened
    eof,            \* history: read() has said end of file
    shut,           \* the far end has been told that no more will come
    made, ended, broke, \* the far end: bytes sent, finished sending, gone
    taken,          \* bytes read() has returned
    raw, held,      \* TLS layer: bytes of a record it has part of, and bytes
                    \* of a record it has decrypted
    out,            \* bytes written towards the far end
    unread          \* how many of them it has still to read

farVars == <<made, ended, broke>>
vars == <<setup, stop, pc, todo, active, buf, result, timedout, eof, shut,
          made, ended, broke, taken, raw, held, out, unread>>

Bytes(m, n) == [k \in 1..(n - m + 1) |-> m + k - 1]
Least(x, y) == IF x < y THEN x ELSE y

Tls(e) == setup[e].kind = "tls"
HasTick == \E e \in End : Tls(e)
InKernel(e) == made[e] - taken[e] - raw[e] - held[e]
Gone(e) == ended[e] \/ broke[e]

(* A file that run_relay has just created is at its end from the start,    *)
(* and what the relay writes moves the offset along with the end.          *)
Init ==
    /\ setup \in Setups
    /\ stop = FALSE /\ pc = "head" /\ todo = {} /\ buf = <<>>
    /\ active = [e \in End |-> TRUE]
    /\ result = 0 /\ timedout = FALSE
    /\ eof = [e \in End |-> FALSE] /\ shut = [e \in End |-> FALSE]
    /\ made = [e \in End |-> 0] /\ broke = [e \in End |-> FALSE]
    /\ ended = [e \in End |-> setup[e].kind = "file"]
    /\ taken = [e \in End |-> 0] /\ raw = [e \in End |-> 0] /\ held = [e \in End |-> 0]
    /\ out = [e \in End |-> <<>>] /\ unread = [e \in End |-> 0]

Return(rc) == pc' = "done" /\ result' = rc

-----------------------------------------------------------------------------
(* The head of the loop.                                                   *)

LoopEnds ==
    /\ pc = "head"
    /\ stop \/ \A e \in End : ~active[e]
    /\ Return(0)
    /\ UNCHANGED <<setup, stop, todo, active, buf, timedout, eof, shut, farVars,
                   taken, raw, held, out, unread>>

Running == pc = "head" /\ ~stop /\ \E e \in End : active[e]

(* Fault: bytes in the TLS layer are left to poll().                       *)
PendingIgnored == {}

(* Streams the TLS layer has decrypted bytes of: poll() knows nothing of   *)
(* them.                                                                   *)
Pending == {e \in End : active[e] /\ held[e] > 0}

(* One stream with decrypted bytes is read, a before b, and the loop       *)
(* starts over.                                                            *)
ReadPending ==
    /\ Running /\ Pending # {}
    /\ todo' = IF "a" \in Pending THEN {"a"} ELSE {"b"}
    /\ pc' = "pump"
    /\ UNCHANGED <<setup, stop, active, buf, result, timedout, eof, shut, farVars,
                   taken, raw, held, out, unread>>

EnterPoll ==
    /\ Running /\ Pending = {}
    /\ pc' = "enter"
    /\ UNCHANGED <<setup, stop, todo, active, buf, result, timedout, eof, shut, farVars,
                   taken, raw, held, out, unread>>

(* The kernel puts the process to sleep. A signal that came since the head *)
(* of the loop has been handled, and wakes nobody any more.                *)
Sleep ==
    /\ pc = "enter" /\ pc' = "poll"
    /\ UNCHANGED <<setup, stop, todo, active, buf, result, timedout, eof, shut, farVars,
                   taken, raw, held, out, unread>>

Ready == {e \in End : active[e] /\ (InKernel(e) > 0 \/ Gone(e))}

PollReady ==
    /\ pc = "poll" /\ Ready # {}
    /\ todo' = Ready
    /\ pc' = "pump"
    /\ UNCHANGED <<setup, stop, active, buf, result, timedout, eof, shut, farVars,
                   taken, raw, held, out, unread>>

(* Fault: poll() is given the user's timeout, or none, with TLS too.       *)
TickWakesNever == FALSE /\ UNCHANGED vars

(* With TLS, poll() is given 50 ms at most, and nothing in 50 ms is not    *)
(* nothing in the user's timeout: the loop goes on.                        *)
TickWakes ==
    /\ pc = "poll" /\ Ready = {} /\ HasTick
    /\ pc' = "head"
    /\ UNCHANGED <<setup, stop, todo, active, buf, result, timedout, eof, shut, farVars,
                   taken, raw, held, out, unread>>

(* Fault: an idle relay is given another round.                            *)
TimesOutNever ==
    /\ pc = "poll" /\ Ready = {} /\ setup.timeout /\ ~HasTick
    /\ pc' = "head"
    /\ UNCHANGED <<setup, stop, todo, active, buf, result, timedout, eof, shut, farVars,
                   taken, raw, held, out, unread>>

TimesOut ==
    /\ pc = "poll" /\ Ready = {} /\ setup.timeout /\ ~HasTick
    /\ timedout' = TRUE
    /\ Return(0)
    /\ UNCHANGED <<setup, stop, todo, active, buf, eof, shut, farVars,
                   taken, raw, held, out, unread>>

-----------------------------------------------------------------------------
(* pump_once: one read, then writes until all of it is written.            *)

Src == IF "a" \in todo THEN "a" ELSE "b"
Dst == Other(Src)

(* Fault: part of a record is taken for a whole one.                       *)
AvailablePartial == IF ~Tls(Src) THEN InKernel(Src)
                    ELSE IF held[Src] > 0 THEN held[Src]
                    ELSE IF raw[Src] + InKernel(Src) > 0 THEN RecLen ELSE 0

(* What one read gives: TLS first hands out what it has decrypted, then    *)
(* takes a whole record, and says EAGAIN while it has only part of one.    *)
Available == IF ~Tls(Src) THEN InKernel(Src)
             ELSE IF held[Src] > 0 THEN held[Src]
             ELSE IF raw[Src] + InKernel(Src) >= RecLen THEN RecLen ELSE 0

NextStream == /\ todo' = todo \ {Src}
              /\ pc' = IF todo' = {} THEN "head" ELSE "pump"

PumpReads ==
    /\ pc = "pump" /\ Available > 0
    /\ LET n == Least(ReadMax, Available)
       IN  /\ buf' = Bytes(taken[Src] + 1, taken[Src] + n)
           /\ taken' = [taken EXCEPT ![Src] = @ + n]
           /\ held' = [held EXCEPT ![Src] = IF Tls(Src) THEN Available - n ELSE 0]
           /\ raw' = [raw EXCEPT ![Src] = IF held[Src] > 0 THEN @ ELSE 0]
    /\ pc' = "write"
    /\ UNCHANGED <<setup, stop, todo, active, result, timedout, eof, shut, farVars, out, unread>>

PumpAgain ==
    /\ pc = "pump" /\ Available = 0 /\ ~Gone(Src)
    /\ raw' = [raw EXCEPT ![Src] = @ + InKernel(Src)]
    /\ NextStream
    /\ UNCHANGED <<setup, stop, active, buf, result, timedout, eof, shut, farVars,
                   taken, held, out, unread>>

(* Fault: closing the write side is skipped.                               *)
NoShutdown(e) == UNCHANGED shut

(* The close_notify of TLS is given up when the socket is full.            *)
shutdown_write(e) ==
    shut' = [shut EXCEPT ![e] = @ \/ (setup[e].shuts /\ (Tls(e) => unread[e] < SockBuf))]

(* Fault: the relay ends at the first end of file.                         *)
EofEnds ==
    /\ eof' = [eof EXCEPT ![Src] = TRUE]
    /\ shutdown_write(Dst)
    /\ Return(0) /\ UNCHANGED <<todo, active>>

(* The end of a stream ends the relay or this direction of it. An error of *)
(* read() is taken for the end.                                            *)
AtEof ==
    /\ eof' = [eof EXCEPT ![Src] = TRUE]
    /\ shutdown_write(Dst)
    /\ IF setup[Src].close_on_eof
       THEN Return(0) /\ UNCHANGED <<todo, active>>
       ELSE NextStream /\ active' = [active EXCEPT ![Src] = FALSE] /\ UNCHANGED result

(* Fault: end of file is taken for EAGAIN.                                 *)
PumpEofIgnored ==
    /\ pc = "pump" /\ Available = 0 /\ Gone(Src)
    /\ NextStream
    /\ UNCHANGED <<setup, stop, active, buf, result, timedout, eof, shut, farVars,
                   taken, raw, held, out, unread>>

(* Fault: EAGAIN is taken for end of file.                                 *)
PumpEofEarly ==
    /\ pc = "pump" /\ Available = 0
    /\ AtEof
    /\ UNCHANGED <<setup, stop, buf, timedout, farVars, taken, raw, held, out, unread>>

PumpEof ==
    /\ pc = "pump" /\ Available = 0 /\ Gone(Src)
    /\ AtEof
    /\ UNCHANGED <<setup, stop, buf, timedout, farVars, taken, raw, held, out, unread>>

(* Fault: what a partial write has left is forgotten.                      *)
WrittenOnce(n) == <<>>

(* wcat_full_write goes on with the rest.                                  *)
Written(n) == SubSeq(buf, n + 1, Len(buf))

(* One write(); it waits while the far end's buffer is full. EINTR only    *)
(* repeats it, so a signal does not end the wait.                          *)
PumpWrites ==
    /\ pc = "write" /\ ~broke[Dst] /\ unread[Dst] < SockBuf
    /\ LET n == Least(Len(buf), SockBuf - unread[Dst])
       IN  /\ out' = [out EXCEPT ![Dst] = @ \o SubSeq(buf, 1, n)]
           /\ unread' = [unread EXCEPT ![Dst] = @ + n]
           /\ buf' = Written(n)
    /\ IF buf' = <<>> THEN NextStream ELSE UNCHANGED <<pc, todo>>
    /\ UNCHANGED <<setup, stop, active, result, timedout, eof, shut, farVars,
                   taken, raw, held>>

PumpFails ==
    /\ pc = "write" /\ broke[Dst]
    /\ Return(-1)
    /\ UNCHANGED <<setup, stop, todo, active, buf, timedout, eof, shut, farVars,
                   taken, raw, held, out, unread>>

RelayStep ==
    \/ LoopEnds \/ ReadPending \/ EnterPoll \/ Sleep
    \/ PollReady \/ TickWakes \/ TimesOut
    \/ PumpReads \/ PumpAgain \/ PumpEof \/ PumpWrites \/ PumpFails

-----------------------------------------------------------------------------
(* The far ends and the signal. A file is its own far end: it takes what   *)
(* is written and adds nothing.                                            *)

relayVars == <<setup, todo, active, buf, result, timedout, eof, shut, taken, raw, held, out>>

FarSend(e) ==
    /\ ~Gone(e) /\ made[e] < MaxBytes[e]
    /\ made' = [made EXCEPT ![e] = @ + 1]
    /\ UNCHANGED <<relayVars, stop, pc, ended, broke, unread>>

(* The far end finishes sending; it may still read. TLS says so with a     *)
(* record, so not in the middle of one.                                    *)
FarEnds(e) ==
    /\ ~Gone(e) /\ (Tls(e) => made[e] % RecLen = 0)
    /\ ended' = [ended EXCEPT ![e] = TRUE]
    /\ UNCHANGED <<relayVars, stop, pc, made, broke, unread>>

(* The far end closes altogether, or the connection breaks.                *)
FarBreaks(e) ==
    /\ ~broke[e] /\ setup[e].kind # "file"
    /\ broke' = [broke EXCEPT ![e] = TRUE]
    /\ UNCHANGED <<relayVars, stop, pc, made, ended, unread>>

FarReads(e) ==
    /\ unread[e] > 0 /\ ~broke[e]
    /\ unread' = [unread EXCEPT ![e] = 0]
    /\ UNCHANGED <<relayVars, stop, pc, farVars>>

(* The handler sets wcat_stop; a poll() it interrupts says EINTR, and the  *)
(* loop starts over.                                                       *)
Signal ==
    /\ ~stop /\ pc # "done"
    /\ stop' = TRUE
    /\ pc' = IF pc = "poll" THEN "head" ELSE pc
    /\ UNCHANGED <<relayVars, farVars, unread>>

Far == \E e \in End : FarSend(e) \/ FarEnds(e) \/ FarBreaks(e) \/ FarReads(e)

Terminated == pc = "done" /\ UNCHANGED vars

Next == RelayStep \/ (pc # "done" /\ Far) \/ Signal \/ Terminated

(* A process whose input has ended, and that has read it, ends in turn, as *)
(* a filter does.                                                          *)
FilterEnds(e) ==
    /\ setup[e].kind = "pipe" /\ shut[e] /\ unread[e] = 0 /\ pc # "done"
    /\ FarEnds(e)

(* The relay is scheduled and the far ends read. Nothing makes a far end   *)
(* send, end or break, but for filters.                                    *)
Fairness ==
    /\ WF_vars(RelayStep)
    /\ \A e \in End : WF_vars(pc # "done" /\ FarReads(e)) /\ WF_vars(FilterEnds(e))

Spec == Init /\ [][Next]_vars
FairSpec == Spec /\ Fairness

-----------------------------------------------------------------------------
(* Properties.                                                             *)

(* Every variable has its type; no counter passes what the far end sent.   *)
TypeOK ==
    /\ setup \in Setups /\ stop \in BOOLEAN /\ timedout \in BOOLEAN
    /\ pc \in {"head", "enter", "poll", "pump", "write", "done"}
    /\ todo \subseteq End /\ (pc \in {"pump", "write"} => todo # {})
    /\ result \in {0, -1}
    /\ active \in [End -> BOOLEAN] /\ eof \in [End -> BOOLEAN] /\ shut \in [End -> BOOLEAN]
    /\ ended \in [End -> BOOLEAN] /\ broke \in [End -> BOOLEAN]
    /\ made \in [End -> Nat] /\ taken \in [End -> Nat] /\ raw \in [End -> Nat]
    /\ held \in [End -> Nat] /\ unread \in [End -> Nat]
    /\ \A e \in End : taken[e] + raw[e] + held[e] <= made[e] /\ unread[e] <= SockBuf
    /\ buf \in Seq(Nat) /\ out \in [End -> Seq(Nat)]
    /\ pc = "write" <=> (buf # <<>> /\ pc # "done")

(* What pump_once has read from an end and not written yet.                *)
Kept(e) == IF buf # <<>> /\ Src = e THEN buf ELSE <<>>

(* Both directions are exact: what has been written to a far end, and then *)
(* what pump_once holds for it, is what was read from the other end, in    *)
(* order, through partial writes and TLS read-ahead.                       *)
RelayExact ==
    \A e \in End : out[Other(e)] \o Kept(e) = Bytes(1, taken[e])

(* End of file is never early: when a direction is closed, its source had  *)
(* finished and the last of its bytes, those in the TLS layer too, have    *)
(* been written; and only then is the far end told.                        *)
EofFollowsData ==
    \A e \in End :
        /\ eof[e] /\ ~broke[e] => ended[e] /\ out[Other(e)] = Bytes(1, made[e])
        /\ shut[Other(e)] => eof[e]

(* What stands behind a stream that may end first (the process behind a    *)
(* half-closed client, the server behind standard input or a proxy client) *)
(* gets its whole answer through before the relay ends successfully.       *)
AnswerDelivered ==
    (pc = "done" /\ result = 0 /\ ~stop /\ ~timedout) =>
        \A e \in End :
            (~setup[e].close_on_eof /\ ~broke[Other(e)]) =>
                ended[Other(e)] /\ out[e] = Bytes(1, made[Other(e)])

(* What TLS can hand out: whole records.                                   *)
Readable(e) == IF Tls(e) THEN made[e] - (made[e] % RecLen) ELSE made[e]

(* No byte is left behind in a running relay, in the kernel or in the TLS  *)
(* layer, as long as the far ends read.                                    *)
Delivered ==
    \A e \in End : []<>(pc = "done" \/ Len(out[Other(e)]) = Readable(e))

(* When an end finishes sending, the relay ends or sees it, and tells a    *)
(* far end that can be told. (A TLS peer is told unless the socket is full *)
(* at that moment.)                                                        *)
EofForwarded ==
    \A e \in End :
        ended[e] ~> \/ pc = "done" \/ shut[Other(e)]
                    \/ eof[e] /\ (Tls(Other(e)) \/ ~setup[Other(e)].shuts)

(* A filter behind a relay whose client has finished ends the relay.       *)
FilterFinishes ==
    (ended["a"] /\ setup["b"].kind = "pipe") ~> pc = "done"

(* A signal ends the relay where poll() has a timeout. (Without one, a     *)
(* signal between the loop's test and poll() can be missed.)               *)
SignalStops == (stop /\ (HasTick \/ setup.timeout)) ~> pc = "done"

(* "--timeout SEC: connection and idle timeout": a relay in which nothing  *)
(* happens any more ends.                                                  *)
TimeoutEnds == setup.timeout ~> pc = "done"

(* "wcat relay tcp:127.0.0.1:9000 file:./capture.bin": a relay from a      *)
(* connection to a file ends successfully only when the connection has     *)
(* ended and all it sent is in the file.                                   *)
CaptureComplete ==
    (/\ pc = "done" /\ result = 0 /\ ~stop /\ ~timedout
     /\ setup["b"].kind = "file" /\ ~broke["a"]) =>
        ended["a"] /\ out["b"] = Bytes(1, made["a"])
=============================================================================
