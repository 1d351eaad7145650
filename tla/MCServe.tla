------------------------------- MODULE MCServe -------------------------------
(* Instances of Serve for TLC.                                             *)
EXTENDS Serve, TLC

CONSTANTS a, b, c

Listen(exec, tls, keep, limit) ==
    [cmd |-> "listen", exec |-> exec, tls |-> tls, keep_open |-> keep, limit |-> limit]
Proxy(keep, limit) ==
    [cmd |-> "proxy", exec |-> "none", tls |-> FALSE, keep_open |-> keep, limit |-> limit]

(* Every kind of session, and one with so few descriptors that two failed  *)
(* spawns leave none.                                                      *)
AllConfigs ==
    {Listen("none", FALSE, FALSE, 7), Listen("none", TRUE, TRUE, 7),
     Listen("pipe", FALSE, TRUE, 7), Listen("pipe", TRUE, TRUE, 7),
     Listen("pty", TRUE, TRUE, 7), Listen("pty", FALSE, TRUE, 3),
     Proxy(FALSE, 7), Proxy(TRUE, 7)}

PtyKeepOpen == {Listen("pty", FALSE, TRUE, 7)}
=============================================================================
