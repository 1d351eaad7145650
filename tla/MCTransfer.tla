----------------------------- MODULE MCTransfer -----------------------------
(* The commands, proxies, networks and peers that the runs of Transfer try.*)
EXTENDS Transfer

MCAddrBytes == [f \in Family |-> IF f = "AF_INET" THEN 2 ELSE 3]
MCFile == <<1, 2, 3, 4>>
Banner == <<1001, 1002>>
V4(a, b) == [family |-> "AF_INET", addr |-> <<a, b>>]

Base(client, server) ==
    [client |-> client, server |-> server, peer |-> V4(1, 2), banner |-> Banner, grants |-> TRUE,
     method |-> <<5, 0>>, reply |-> <<>>, refusal |-> <<>>]

Mode(m) == [wcat_config_init EXCEPT !.mode = m]
Tls(cfg) == [cfg EXCEPT !.tls = TRUE]
Unverified(cfg) == [cfg EXCEPT !.tls_verify = FALSE]
Exec(cfg) == [cfg EXCEPT !.exec = TRUE]
Certified(cfg) == [cfg EXCEPT !.tls_require_client_cert = TRUE, !.ca_file = TRUE]
Quic(cfg) == [cfg EXCEPT !.quic = TRUE]
Over(cfg, flag) == [cfg EXCEPT !.flags = {flag}]

(* A proxy of each kind: what it says when it grants and when it refuses.  *)
Socks(s, reply) ==
    [s EXCEPT !.client.proxy = "socks5", !.reply = reply, !.refusal = <<5, 5, 0, 1, 0, 0, 0, 0, 0, 0>>]
Http(s, reply) == [s EXCEPT !.client.proxy = "http", !.reply = reply, !.refusal = <<403, 1, HeadEnd>>]
Refusing(s) == [s EXCEPT !.grants = FALSE]
Inet4Reply == <<5, 0, 0, 1, 127, 0, 0, 1, 31, 144>>
NameReply == <<5, 0, 0, 3, 2, 97, 98, 31, 144>>
Inet6Reply == <<5, 0, 0, 4>> \o [k \in 1..18 |-> k]
HttpReply == <<200, 1, HeadEnd>>
LongReply == <<200, 1, 1, 1, 1, HeadEnd>>

(* send and recv, with and without TLS and a proxy.                        *)
Files == LET plain == Base(Mode("send"), Mode("recv"))
         IN  {plain, Base(Tls(Mode("send")), Tls(Mode("recv"))),
              Base(Unverified(Tls([Mode("send") EXCEPT !.client_cert = TRUE, !.client_key = TRUE])),
                   Certified(Tls(Mode("recv")))),
              Socks(plain, Inet4Reply), Http(plain, HttpReply)}

(* connect through a proxy, to a server that speaks first.                 *)
Tunnels == LET plain == Base(Mode("connect"), Absent)
           IN  {plain, Http(plain, HttpReply), Http(plain, LongReply), Refusing(Http(plain, HttpReply)),
                Refusing(Socks(plain, Inet4Reply)),
                [Socks(plain, Inet4Reply) EXCEPT !.method = <<5, 255>>],
                Socks(plain, <<5, 0, 0, 2>>)}
               \cup {Socks(plain, reply) : reply \in {Inet4Reply, NameReply, Inet6Reply}}

(* Every other way to open an endpoint, and combinations that are refused. *)
Openings ==
    {[Base(cfg, Absent) EXCEPT !.banner = <<>>] : cfg \in
        {Over(Mode("connect"), flag) : flag \in {"udp", "unix", "vsock", "sctp"}}
        \cup {Tls(Mode("connect")), Exec(Mode("connect")), Exec(Tls(Mode("connect"))),
              Quic(Mode("connect")), Exec(Quic(Mode("connect"))), Unverified(Quic(Mode("connect"))),
              Quic(Mode("listen")), Exec(Quic(Mode("listen"))),
              Quic(Mode("send")), Tls(Over(Mode("connect"), "udp")),
              [Over(Mode("connect"), "udp") EXCEPT !.proxy = "socks5"]}
        \cup {[Mode("relay") EXCEPT !.left = pair[1], !.right = pair[2]] :
                 pair \in {<<"listen", "tcp">>, <<"unix-listen", "exec">>, <<"stdio", "unix">>,
                           <<"file", "listen">>, <<"tcp", "other">>}}}

(* Access lists: every network of one-token lists against every address,   *)
(* and lists of two tokens.                                                *)
Nets == {Net("AF_INET", <<a, b>>, bits) : a \in {0, 2}, b \in 0..3, bits \in 0..4}
Lists == {List(<<t>>) : t \in Nets}
Pair == {Net("AF_INET", <<2, 1>>, 3), Net("AF_INET", <<2, 2>>, 4), Net("AF_INET", <<2, 0>>, 5),
         Net("AF_INET6", <<2, 1, 1>>, 3), Other("text"), Other("blank"), Other("empty")}
Peers == {V4(a, b) : a \in {0, 2, 3}, b \in 0..3}
             \cup {[family |-> "AF_INET6", addr |-> <<2, 1, 2>>], [family |-> "none", addr |-> <<>>]}
Guarded(allow, deny, peer) ==
    [Base(Absent, [Mode("recv") EXCEPT !.allow = allow, !.deny = deny]) EXCEPT !.peer = peer]
Guards ==
    {Guarded(list, NullList, peer) : list \in Lists, peer \in Peers}
    \cup {Guarded(List(<<t, u>>), deny, peer) :
             t \in Pair, u \in Pair, deny \in {NullList, List(<<Net("AF_INET", <<2, 2>>, 4)>>)},
             peer \in {V4(2, 1), V4(2, 2), V4(1, 1), [family |-> "AF_INET6", addr |-> <<2, 1, 2>>],
                       [family |-> "none", addr |-> <<>>]}}
    \cup {Guarded(NullList, List(<<>>), V4(1, 1)), Guarded(List(<<>>), NullList, V4(1, 1))}

AllScenarios == Files \cup Tunnels \cup Openings \cup Guards
PlainFile == {Base(Mode("send"), Mode("recv"))}
=============================================================================
