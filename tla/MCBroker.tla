------------------------------ MODULE MCBroker ------------------------------
(* Instances of Broker for TLC.                                            *)
EXTENDS BrokerRefinement, TLC

CONSTANTS p1, p2, p3, p4, LabelLen, EscLen

ChatFormat == INSTANCE BrokerChat
MCFormat(id, start, buf) == ChatFormat!format_chat_message(id, start, buf)

(* Raw relaying: p1 sends two bytes, p2 one.                               *)
RawScript == [x \in Conn |-> CASE x = p1 -> <<"text", "text">>
                               [] x = p2 -> <<"text">>
                               [] OTHER -> <<>>]

(* Chat: p1 ends a line and starts another with a control byte.            *)
TalkScript == [x \in Conn |-> CASE x = p1 -> <<"text", "nl", "ctl">>
                                [] x = p2 -> <<"text">>
                                [] OTHER -> <<>>]
=============================================================================
