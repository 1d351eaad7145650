------------------------------- MODULE MCMulti -------------------------------
(* Instances of MultiListen for TLC.                                       *)
EXTENDS MultiListen, TLC

CONSTANTS a, b, c

Plain(ops) == {[op |-> o, arg |-> 0] : o \in ops}
With(ops, ids) == {[op |-> o, arg |-> n] : o \in ops, n \in ids}

(* The prompt: lines, and commands aimed at the first two sessions.        *)
ConsoleTokens ==
    Plain({"x", "nl", "bs", "all", "next", "prev", "attach", "bracket", "quit"})
    \cup With({"kill", "send", "use"}, {2}) \cup With({"send"}, {1})

(* Attached mode: every kind of key, the detach word as a line, and the    *)
(* commands that end a session or the listener.                            *)
AttachedTokens ==
    Plain({"attach", "x", "b", "bs", "ctl", "detach", "quit"})
    \cup With({"kill"}, {1})

(* Attached mode left by Ctrl-] or by the detach word, and what follows.   *)
DetachTokens == Plain({"attach", "x", "b", "ctl", "bracket", "detach"})
=============================================================================
