----------------------------- MODULE BrokerChat -----------------------------
(***************************************************************************)
(* format_chat_message of src/src/broker.c: the bytes a client sends are   *)
(* given a label at the start of each line, and control bytes are spelled  *)
(* out. Newline and tab pass unchanged.                                    *)
(***************************************************************************)
EXTENDS Integers, Sequences, SequencesExt

CONSTANTS
    LabelLen,       \* length of "<clientN> "
    EscLen          \* length of "\x1b" or "\r" spelled out

Label(id, c) == [k \in 1..LabelLen |-> [kind |-> "label", src |-> c, n |-> id]]

Escaped(b) ==
    IF b.kind = "ctl" THEN [k \in 1..EscLen |-> [b EXCEPT !.kind = "esc"]] ELSE <<b>>

(* line_start before the k-th byte of buf.                                 *)
AtLineStart(start, buf, k) == IF k = 1 THEN start ELSE buf[k - 1].kind = "nl"

format_chat_message(id, start, buf) ==
    FlattenSeq([k \in DOMAIN buf |->
        (IF AtLineStart(start, buf, k) THEN Label(id, buf[k].src) ELSE <<>>)
        \o Escaped(buf[k])])
=============================================================================
