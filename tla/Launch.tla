------------------------------- MODULE Launch -------------------------------
(***************************************************************************)
(* What a wcat command acquires on its way to the relay or copy loop, and  *)
(* what each failure on the way releases (tls.c, quic.c, socketx.c and     *)
(* their callers in main.c and filexfer.c). A command is a sequence of     *)
(* steps. A step is a call that may fail, with                             *)
(*   val   the resource it creates ("" if none),                           *)
(*   into  the field of a C structure that then refers to it ("" if only a *)
(*         local variable does),                                           *)
(*   undo  what is released, in this order, when it fails: resources held  *)
(*         by local variables, and fields, whatever they refer to.         *)
(* The undo of the last step is what the command releases at its end.      *)
(***************************************************************************)
EXTENDS Access, FiniteSets

Step(call, val, into, undo) == [call |-> call, val |-> val, into |-> into, undo |-> undo]
Check(call, undo) == Step(call, "", "", undo)
Store(field, val) == Step("store", val, field, <<>>)
Free(undo) == Step("free", "", "", undo)
When(cond, steps) == IF cond THEN steps ELSE <<>>

(* The structures: a stream s (s.owned is s.fd when owns_fd is set), a     *)
(* QUIC listener l, the two endpoints of a relay.                          *)
Left == [fd1 |-> "left.fd1", fd2 |-> "left.fd2", proc |-> "left.proc",
         sock |-> "left socket", client |-> "left client", child |-> "left child"]
Right == [fd1 |-> "right.fd1", fd2 |-> "right.fd2", proc |-> "right.proc",
          sock |-> "right socket", client |-> "right client", child |-> "right child"]
Fields == {"s.fd", "s.owned", "s.ssl", "s.ctx", "l.fd", "l.listener", "l.ctx",
           Left.fd1, Left.fd2, Left.proc, Right.fd1, Right.fd2, Right.proc}
Resources == {"file", "addrinfo", "sock", "listener", "client", "ctx", "ssl", "peer_addr",
              "conn", "listener_ssl", "child", Left.sock, Left.client, Left.child,
              Right.sock, Right.client, Right.child}

wcat_tls_close == <<"s.ssl", "s.ctx", "s.owned">>
wcat_quic_listener_close == <<"l.listener", "l.ctx", "l.fd">>
relay_endpoint_close(ep) == <<ep.proc, ep.fd1, ep.fd2>>

-----------------------------------------------------------------------------
(* The command line: the defaults, and the combinations that are refused.  *)

wcat_config_init ==
    [mode |-> "none", flags |-> {}, tls |-> FALSE, quic |-> FALSE, tls_verify |-> TRUE,
     proxy |-> "none", exec |-> FALSE, pty |-> FALSE, multi |-> FALSE, keep_open |-> FALSE,
     chat |-> FALSE, client_cert |-> FALSE, client_key |-> FALSE,
     tls_require_client_cert |-> FALSE, ca_file |-> FALSE,
     left |-> "stdio", right |-> "stdio", allow |-> NullList, deny |-> NullList]

wcat_parse_args(cfg) ==
    LET special == cfg.flags \cap {"sctp", "unix", "vsock"}
    IN  /\ ~(cfg.tls /\ "udp" \in cfg.flags)
        /\ Cardinality(cfg.flags) <= 1
        /\ cfg.quic => cfg.proxy = "none" /\ cfg.mode \in {"connect", "listen"}
        /\ special # {} => /\ cfg.mode \in {"connect", "listen", "broker", "relay"}
                           /\ cfg.proxy = "none"
        /\ cfg.pty => cfg.exec
        /\ cfg.chat => cfg.mode = "broker"
        /\ cfg.multi => /\ cfg.mode = "listen" /\ "udp" \notin cfg.flags
                        /\ ~(cfg.tls \/ cfg.quic \/ cfg.exec \/ cfg.keep_open)
        /\ cfg.client_cert = cfg.client_key
        /\ cfg.tls_require_client_cert => cfg.ca_file
        /\ wcat_access_validate_list(cfg.allow)
        /\ wcat_access_validate_list(cfg.deny)

-----------------------------------------------------------------------------
(* Sockets. The addresses of a name are tried one after the other: an      *)
(* attempt that fails closes its descriptor, and the list is freed when    *)
(* one succeeds or none is left.                                           *)

AddressLoop(call, fd, into, undo) ==
    << Step("getaddrinfo", "addrinfo", "", undo),
       Step(call, fd, into, <<"addrinfo">> \o undo),
       Free(<<"addrinfo">>) >>

inet_connect(fd, into, undo) == AddressLoop("connect", fd, into, undo)
inet_listen(fd, into, undo) == AddressLoop("bind", fd, into, undo)
wcat_udp_connect(fd, into, undo) == AddressLoop("connect", fd, into, undo)
wcat_udp_bind(fd, into, undo) == AddressLoop("bind", fd, into, undo)

(* Unix and VSOCK addresses need no look-up.                               *)
wcat_unix_connect(fd, into, undo) ==
    << Check("path", undo), Step("connect_once", fd, into, undo) >>
wcat_unix_listen(fd, into, undo) ==
    << Check("path", undo), Step("bind_once", fd, into, undo) >>
wcat_vsock_connect(fd, into, undo) ==
    << Check("cid", undo), Step("connect_once", fd, into, undo) >>

(* A proxy is asked by send and connect over TCP. --udp and the endpoints  *)
(* of a relay pass it by.                                                  *)
UsesProxy(cfg) ==
    /\ cfg.proxy # "none"
    /\ \/ cfg.mode = "send" /\ "udp" \notin cfg.flags
       \/ cfg.mode = "connect" /\ ~cfg.quic /\ {"udp", "unix", "vsock", "sctp"} \cap cfg.flags = {}

(* The negotiation with a proxy is one step here; Transfer takes it apart. *)
wcat_proxy_connect(cfg, undo) ==
    inet_connect("sock", "", undo)
    \o When(cfg.proxy # "none", << Check("negotiate", <<"sock">> \o undo) >>)

connect_socket(cfg) ==
    IF "udp" \in cfg.flags THEN wcat_udp_connect("sock", "", <<>>)
    ELSE IF "unix" \in cfg.flags THEN wcat_unix_connect("sock", "", <<>>)
    ELSE IF "vsock" \in cfg.flags THEN wcat_vsock_connect("sock", "", <<>>)
    ELSE IF "sctp" \in cfg.flags THEN inet_connect("sock", "", <<>>)
    ELSE << Check("proxy_parse", <<>>) >> \o wcat_proxy_connect(cfg, <<>>)

-----------------------------------------------------------------------------
(* TLS: the stream owns the descriptor from the start, and every failure   *)
(* closes the stream.                                                      *)

stream_init(fd) == << Store("s.fd", fd), Store("s.owned", fd) >>

wcat_tls_client_open(cfg, fd, undo) ==
    LET failed == wcat_tls_close \o undo
    IN  stream_init(fd)
        \o << Step("SSL_CTX_new", "ctx", "s.ctx", failed) >>
        \o When(cfg.tls_verify, << Check("load_ca", failed) >>)
        \o When(cfg.client_cert, << Check("use_certificate", failed) >>)
        \o << Step("SSL_new", "ssl", "s.ssl", failed) >>
        \o When(cfg.tls_verify, << Check("set1_host", failed) >>)
        \o << Check("SSL_connect", failed) >>
        \o When(cfg.tls_verify, << Check("verify_result", failed) >>)

(* Fault: the caller's descriptor is closed once more.                     *)
ServerOpenClosesTwice(cfg, fd, undo) ==
    LET failed == wcat_tls_close \o <<fd>> \o undo
    IN  stream_init(fd)
        \o << Step("SSL_CTX_new", "ctx", "s.ctx", failed),
              Step("SSL_new", "ssl", "s.ssl", failed), Check("SSL_accept", failed) >>

wcat_tls_server_open(cfg, fd, undo) ==
    LET failed == wcat_tls_close \o undo
    IN  stream_init(fd)
        \o << Check("cert and key given", failed),
              Step("SSL_CTX_new", "ctx", "s.ctx", failed),
              Check("use_certificate", failed) >>
        \o When(cfg.tls_require_client_cert, << Check("load_ca", failed) >>)
        \o << Step("SSL_new", "ssl", "s.ssl", failed), Check("SSL_accept", failed) >>
        \o When(cfg.tls_require_client_cert, << Check("verify_result", failed) >>)

-----------------------------------------------------------------------------
(* QUIC: until the connection is made it belongs to a local variable, and  *)
(* so does the peer's address.                                             *)

open_udp_peer(undo) ==
    << Step("BIO_lookup_ex", "addrinfo", "", undo),
       Step("connect", "sock", "", <<"addrinfo">> \o undo),
       Step("BIO_ADDR_dup", "peer_addr", "", <<"sock", "addrinfo">> \o undo),
       Free(<<"addrinfo">>) >>

wcat_quic_client_open(cfg) ==
    LET failed(locals) == locals \o wcat_tls_close
    IN  << Step("SSL_CTX_new", "ctx", "s.ctx", failed(<<>>)),
           Check("configure_client_ctx", failed(<<>>)) >>
        \o open_udp_peer(failed(<<>>))
        \o stream_init("sock")
        \o << Step("SSL_new", "conn", "", failed(<<"peer_addr">>)),
              Check("BIO_new", failed(<<"conn", "peer_addr">>)) >>
        \o When(cfg.tls_verify, << Check("set1_host", failed(<<"peer_addr", "conn">>)) >>)
        \o << Check("set_alpn", failed(<<"peer_addr", "conn">>)),
              Free(<<"peer_addr">>),
              Check("handshake", failed(<<"conn">>)) >>
        \o When(cfg.tls_verify, << Check("verify_result", failed(<<"conn">>)) >>)
        \o << Check("set_blocking_mode", failed(<<"conn">>)), Store("s.ssl", "conn") >>

wcat_quic_listener_open(cfg) ==
    << Step("SSL_CTX_new", "ctx", "l.ctx", wcat_quic_listener_close),
       Check("configure_server_ctx", wcat_quic_listener_close) >>
    \o wcat_udp_bind("listener", "l.fd", wcat_quic_listener_close)
    \o << Check("set_nonblock", wcat_quic_listener_close),
          Step("SSL_new_listener", "listener_ssl", "l.listener", wcat_quic_listener_close),
          Check("SSL_listen", wcat_quic_listener_close) >>

(* The accepted stream uses the listener's descriptor and does not own it. *)
wcat_quic_accept ==
    << Store("s.fd", "listener"),
       Step("quic_accept", "conn", "", wcat_quic_listener_close),
       Check("set_blocking_mode", <<"conn">> \o wcat_quic_listener_close),
       Store("s.ssl", "conn") >>

serve_quic_stream(cfg, undo) ==
    When(cfg.exec, << Step("spawn", "child", "", wcat_tls_close \o undo) >>)
    \o << Check("relay", (IF cfg.exec THEN <<"child">> ELSE <<>>) \o wcat_tls_close \o undo) >>

run_quic_connect(cfg) == wcat_quic_client_open(cfg) \o serve_quic_stream(cfg, <<>>)

run_quic_listen(cfg) ==
    wcat_quic_listener_open(cfg) \o wcat_quic_accept
    \o serve_quic_stream(cfg, wcat_quic_listener_close)

-----------------------------------------------------------------------------
(* The commands.                                                           *)

(* The relay with standard input and output, or with a process, which is   *)
(* started first. With TLS the stream closes the socket. When the process  *)
(* cannot be started nothing closes it.                                    *)
relay_peer(cfg) ==
    LET child == IF cfg.exec THEN <<"child">> ELSE <<>>
    IN  When(cfg.exec, << Step("spawn", "child", "", <<>>) >>)
        \o When(cfg.tls, wcat_tls_client_open(cfg, "sock", child))
        \o << Check("relay", child \o (IF cfg.tls THEN wcat_tls_close ELSE <<"sock">>)) >>

run_connect(cfg) == connect_socket(cfg) \o relay_peer(cfg)

(* send and recv over TCP.                                                 *)
wcat_send_file(cfg) ==
    << Step("open", "file", "", <<>>), Check("proxy_parse", <<"file">>) >>
    \o wcat_proxy_connect(cfg, <<"file">>)
    \o When(cfg.tls, wcat_tls_client_open(cfg, "sock", <<"file">>))
    \o << Check("copy", (IF cfg.tls THEN wcat_tls_close ELSE <<"sock">>) \o <<"file">>) >>

wcat_recv_file(cfg) ==
    << Step("open", "file", "", <<>>) >>
    \o inet_listen("listener", "", <<"file">>)
    \o << Step("accept", "client", "", <<"listener", "file">>),
          Check("access", <<"client", "listener", "file">>) >>
    \o When(cfg.tls, wcat_tls_server_open(cfg, "client", <<"listener", "file">>))
    \o << Check("copy", (IF cfg.tls THEN wcat_tls_close ELSE <<"client">>)
                        \o <<"listener", "file">>) >>

(* An endpoint of a relay: a listener is replaced by the one client it     *)
(* accepts.                                                                *)
open_relay_endpoint(kind, ep, undo) ==
    LET served == << Step("accept", ep.client, ep.fd2, undo), Free(<<ep.fd1>>),
                     Store(ep.fd1, ep.client), Store(ep.fd2, "") >>
    IN  CASE kind = "stdio" -> <<>>
          [] kind = "tcp" -> << Check("relay_spec", undo) >> \o inet_connect(ep.sock, ep.fd1, undo)
          [] kind = "unix" -> wcat_unix_connect(ep.sock, ep.fd1, undo)
          [] kind = "listen" -> << Check("relay_spec", undo) >>
                                \o inet_listen(ep.sock, ep.fd1, undo) \o served
          [] kind = "unix-listen" -> wcat_unix_listen(ep.sock, ep.fd1, undo) \o served
          [] kind = "file" -> << Step("open", ep.sock, ep.fd1, undo) >>
          [] kind = "exec" -> << Step("spawn", ep.child, ep.proc, undo) >>
          [] OTHER -> << Check("relay_spec", undo) >>

run_relay(cfg) ==
    LET undo == relay_endpoint_close(Left) \o relay_endpoint_close(Right)
    IN  open_relay_endpoint(cfg.left, Left, undo) \o open_relay_endpoint(cfg.right, Right, undo)
        \o << Check("relay", undo) >>

(* main: parse, then run one command. (listen, broker and proxy have       *)
(* modules of their own.)                                                  *)
Program(cfg) ==
    IF cfg.mode = "none" THEN <<>>
    ELSE << Check("parse_args", <<>>), Check("wcat_signal_setup", <<>>),
            Check("wcat_tls_global_init", <<>>) >>
         \o CASE cfg.mode = "connect" -> IF cfg.quic THEN run_quic_connect(cfg) ELSE run_connect(cfg)
              [] cfg.mode = "listen" -> run_quic_listen(cfg)
              [] cfg.mode = "send" -> wcat_send_file(cfg)
              [] cfg.mode = "recv" -> wcat_recv_file(cfg)
              [] cfg.mode = "relay" -> run_relay(cfg)

(* The exit status of a command whose step fails.                          *)
FailStatus(cfg, call) ==
    IF call = "parse_args" \/ call = "relay_spec" \/ (call = "proxy_parse" /\ cfg.mode = "send")
    THEN 2 ELSE 1
=============================================================================
