------------------------------- MODULE MCRelay -------------------------------
(* Instances of Relay for TLC.                                             *)
EXTENDS Relay, TLC

(* One of each way wirecat runs a relay, with a timeout where poll() is    *)
(* given it.                                                               *)
AllSetups ==
    {relay_peer_to_stdio(wcat_stream_from_tls),
     WithTimeout(relay_peer_to_stdio(SctpStream)),
     relay_peer_to_process(wcat_stream_from_tls, PipeStream),
     WithTimeout(relay_peer_to_process(wcat_stream_from_fd, PtyStream)),
     WithTimeout(serve_proxy_client),
     run_relay(StdioStream, PipeStream),
     run_relay(PipeStream, wcat_stream_from_fd),
     WithTimeout(run_relay(wcat_stream_from_fd, wcat_stream_from_fd))}

TlsWithTimeout == {WithTimeout(relay_peer_to_stdio(wcat_stream_from_tls))}

(* What the far ends send. Three bytes are a TLS record.                   *)
LongThenShort == [a |-> 3, b |-> 1]
TwoEach == [a |-> 2, b |-> 2]

FileCapture == {run_relay(wcat_stream_from_fd, FileStream)}
=============================================================================
