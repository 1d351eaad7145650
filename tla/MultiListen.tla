----------------------------- MODULE MultiListen -----------------------------
(***************************************************************************)
(* run_multi_listen of src/src/main.c: one operator at standard input and  *)
(* many sessions. At the prompt a line goes to the active session and a    *)
(* line that begins with ":" is a command; in attached mode keys go to the *)
(* attached session, but for the ones that may yet become a detach word,   *)
(* which are held back.                                                    *)
(*                                                                         *)
(* A round is: poll(), accept(), what the operator has typed, then each    *)
(* session. Descriptors are not modelled: as in Broker, accept() comes     *)
(* before everything that closes, so the look-up of revents by number      *)
(* finds the session poll() was asked about. What the terminal shows       *)
(* (prompts, prefixes, echo suppression, line editing) is left out.        *)
(***************************************************************************)
EXTENDS Integers, Sequences

CONSTANTS
    Conn,           \* connections peers may open
    NoConn,         \* a free slot, or nobody
    Denied,         \* connections the access lists refuse
    Talkers,        \* connections whose peers may send
    Closers,        \* connections whose peers may close or reset them
    Stalls,         \* connections whose peers may stop reading for a while
    MaxSessions,    \* --max-clients
    Tokens,         \* what the operator may type
    MaxTyped,       \* how much of it
    Signals         \* may a signal come?

Slot == 1..MaxSessions

(* A token is a key or a whole command line, arg its session number. The   *)
(* detach words are one word of two keys, "b" and "k"; "x" is any other    *)
(* printable key, "bs" backspace, "bracket" Ctrl-] and "ctl" any other     *)
(* control key.                                                            *)
Key == {"x", "b", "k"}
Command == {"use", "attach", "kill", "send", "all", "next", "prev", "detach", "quit"}
Op == Key \cup Command \cup {"nl", "bs", "bracket", "ctl"}
Token == [op : Op, arg : Nat]
DetachWord == <<"b", "k">>

ASSUME MultiAssumption ==
    /\ MaxSessions \in Nat \ {0} /\ MaxTyped \in Nat
    /\ NoConn \notin Conn /\ Denied \subseteq Conn
    /\ Talkers \subseteq Conn /\ Closers \subseteq Conn /\ Stalls \subseteq Conn
    /\ Tokens \subseteq Token
    /\ Signals \in BOOLEAN

VARIABLES
    stop, pc, i, result,
    sessions,       \* connection and id by slot
    next_id, active_id, attached_id,
    evs, errs,      \* connections poll() reported, and reported POLLERR of
    lready, sready, \* the listener and standard input were ready
    typed,          \* typed, not read yet
    chunk,          \* read, not handled yet
    sidx,           \* the slot the attached handler looked up for this read
    input,          \* the line typed at the prompt
    line, held,     \* attached_line and attached_line_held
    owner,          \* history: each handled token and whom it was typed for
    to,             \* history: what was sent to each connection
    backlog, st,    \* kernel: waiting connections, and the state of each
    pend, rx,       \* what a peer has sent, and whether anything was read
    fin, rst,       \* the peer has closed, has reset
    stalled         \* whether the peer reads nothing and its buffer is full

kernelVars == <<backlog, st, pend, rx, fin, rst, stalled>>
consoleVars == <<typed, chunk, sidx, input, line, held, owner, to>>
idVars == <<next_id, active_id, attached_id>>
pollVars == <<evs, errs, lready, sready>>
vars == <<stop, pc, i, result, sessions, next_id, active_id, attached_id, evs, errs,
          lready, sready, typed, chunk, sidx, input, line, held, owner, to,
          backlog, st, pend, rx, fin, rst, stalled>>

Free == [conn |-> NoConn, id |-> 0]
Open(s) == {k \in Slot : s[k].conn # NoConn}
OpenSlots == Open(sessions)
Lowest(S) == CHOOSE x \in S : \A y \in S : x <= y
Highest(S) == CHOOSE x \in S : \A y \in S : y <= x

Init ==
    /\ stop = FALSE /\ pc = "poll" /\ i = 1 /\ result = 0
    /\ sessions = [k \in Slot |-> Free]
    /\ next_id = 1 /\ active_id = 0 /\ attached_id = 0
    /\ evs = {} /\ errs = {} /\ lready = FALSE /\ sready = FALSE
    /\ typed = <<>> /\ chunk = <<>> /\ sidx = 0 /\ input = <<>>
    /\ line = <<>> /\ held = TRUE
    /\ owner = <<>> /\ to = [c \in Conn |-> <<>>]
    /\ backlog = <<>> /\ st = [c \in Conn |-> "idle"]
    /\ pend = [c \in Conn |-> "none"] /\ rx = [c \in Conn |-> FALSE]
    /\ fin = [c \in Conn |-> FALSE] /\ rst = [c \in Conn |-> FALSE]
    /\ stalled = [c \in Conn |-> "no"]

-----------------------------------------------------------------------------
(* The table of sessions.                                                  *)

(* Fault: sessions are looked up by slot.                                  *)
FindBySlot(id) == {k \in OpenSlots : k = id}

multi_find_by_id(id) == {k \in OpenSlots : sessions[k].id = id}

multi_first_session_id(s) == IF Open(s) = {} THEN 0 ELSE s[Lowest(Open(s))].id

multi_next_session_id ==
    LET later == {k \in OpenSlots : \E m \in multi_find_by_id(active_id) : k > m}
    IN  IF later = {} THEN multi_first_session_id(sessions) ELSE sessions[Lowest(later)].id

multi_prev_session_id ==
    LET found == multi_find_by_id(active_id)
        earlier == {k \in OpenSlots : \E m \in found : k < m}
    IN  IF found = {} THEN multi_first_session_id(sessions)
        ELSE IF earlier = {} THEN sessions[Highest(OpenSlots)].id
        ELSE sessions[Highest(earlier)].id

(* multi_session_close on the slots of S.                                  *)
multi_session_close(S) ==
    /\ sessions' = [k \in Slot |-> IF k \in S THEN Free ELSE sessions[k]]
    /\ st' = [c \in Conn |-> IF \E k \in S : sessions[k].conn = c THEN "closed" ELSE st[c]]

-----------------------------------------------------------------------------
(* The round.                                                              *)

Eventful(c) == pend[c] # "none" \/ fin[c] \/ rst[c]
Connected == {sessions[k].conn : k \in OpenSlots}

(* poll() returns with something ready; a timeout or EINTR is a stutter.   *)
Poll ==
    /\ pc = "poll" /\ ~stop
    /\ evs' = {c \in Connected : Eventful(c)}
    /\ errs' = {c \in Connected : rst[c]}
    /\ lready' = (backlog # <<>>) /\ sready' = (typed # <<>>)
    /\ evs' # {} \/ lready' \/ sready'
    /\ pc' = "accept"
    /\ UNCHANGED <<stop, i, result, sessions, idVars, consoleVars, kernelVars>>

Cleanup ==
    /\ pc' = "done"
    /\ sessions' = [k \in Slot |-> Free]
    /\ st' = [c \in Conn |-> IF st[c] \in {"open", "backlog"} THEN "closed" ELSE st[c]]
    /\ backlog' = <<>>
    /\ UNCHANGED <<stop, i, idVars, pollVars, consoleVars, pend, rx, fin, rst, stalled>>

(* Fault: the loop ends only when no session is left.                      *)
ShutdownWhenEmpty ==
    /\ pc = "poll" /\ stop
    /\ IF OpenSlots = {} THEN Cleanup /\ UNCHANGED result ELSE UNCHANGED vars

Shutdown == pc = "poll" /\ stop /\ Cleanup /\ UNCHANGED result

PollFails == pc = "poll" /\ ~stop /\ Cleanup /\ result' = 1

(* Nobody waits, or accept() fails.                                        *)
NoAccept ==
    /\ pc = "accept"
    /\ pc' = "stdin"
    /\ UNCHANGED <<stop, i, result, sessions, idVars, pollVars, consoleVars, kernelVars>>

(* Refused, or there is no free slot.                                      *)
AcceptCloses ==
    /\ pc = "accept" /\ lready
    /\ Head(backlog) \in Denied \/ OpenSlots = Slot
    /\ st' = [st EXCEPT ![Head(backlog)] = "closed"]
    /\ backlog' = Tail(backlog)
    /\ pc' = "stdin"
    /\ UNCHANGED <<stop, i, result, sessions, idVars, pollVars, consoleVars,
                   pend, rx, fin, rst, stalled>>

(* Fault: the slot after the last one in use, which may be none.           *)
JoinsAtEnd == IF OpenSlots = {} THEN 1 ELSE Lowest({MaxSessions, Highest(OpenSlots) + 1})

JoinsAt == Lowest(Slot \ OpenSlots)

AcceptSession ==
    /\ pc = "accept" /\ lready
    /\ Head(backlog) \notin Denied /\ OpenSlots # Slot
    /\ sessions' = [sessions EXCEPT ![JoinsAt] = [conn |-> Head(backlog), id |-> next_id]]
    /\ next_id' = next_id + 1
    /\ active_id' = IF active_id = 0 THEN next_id ELSE active_id
    /\ st' = [st EXCEPT ![Head(backlog)] = "open"]
    /\ backlog' = Tail(backlog)
    /\ pc' = "stdin"
    /\ UNCHANGED <<stop, i, result, attached_id, pollVars, consoleVars,
                   pend, rx, fin, rst, stalled>>

-----------------------------------------------------------------------------
(* Standard input. One read takes what has been typed; the mode at that    *)
(* moment decides which handler gets all of it.                            *)

NoStdin ==
    /\ pc = "stdin" /\ ~sready
    /\ pc' = "serve"
    /\ UNCHANGED <<stop, i, result, sessions, idVars, pollVars, consoleVars, kernelVars>>

(* Fault: the console stays attached to a session that is gone.            *)
AttachedGoneStays ==
    /\ pc = "stdin" /\ sready /\ attached_id # 0 /\ multi_find_by_id(attached_id) = {}
    /\ active_id' = multi_first_session_id(sessions)
    /\ pc' = "serve"
    /\ UNCHANGED <<stop, i, result, sessions, next_id, attached_id, pollVars, consoleVars,
                   kernelVars>>

(* multi_handle_attached_stdin finds that its session is gone: back to the *)
(* prompt, and nothing is read.                                            *)
AttachedGone ==
    /\ pc = "stdin" /\ sready /\ attached_id # 0 /\ multi_find_by_id(attached_id) = {}
    /\ attached_id' = 0
    /\ active_id' = multi_first_session_id(sessions)
    /\ pc' = "serve"
    /\ UNCHANGED <<stop, i, result, sessions, next_id, pollVars, consoleVars, kernelVars>>

ReadStdin ==
    /\ pc = "stdin" /\ sready
    /\ attached_id # 0 => multi_find_by_id(attached_id) # {}
    /\ chunk' = typed /\ typed' = <<>>
    /\ sidx' = IF attached_id = 0 THEN 0 ELSE Lowest(multi_find_by_id(attached_id))
    /\ pc' = "keys"
    /\ UNCHANGED <<stop, i, result, sessions, idVars, pollVars, input, line, held,
                   owner, to, kernelVars>>

KeysDone ==
    /\ pc = "keys" /\ chunk = <<>>
    /\ pc' = "serve" /\ sidx' = 0
    /\ UNCHANGED <<stop, i, result, sessions, idVars, pollVars, typed, chunk, input,
                   line, held, owner, to, kernelVars>>

(* The token being handled, with its number.                               *)
Now == [op |-> Head(chunk).op, n |-> Len(owner) + 1]
AttachedConn ==
    IF multi_find_by_id(attached_id) = {} THEN NoConn
    ELSE sessions[Lowest(multi_find_by_id(attached_id))].conn

Handle ==
    /\ pc = "keys" /\ chunk # <<>>
    /\ chunk' = Tail(chunk)
    /\ owner' = Append(owner, [op |-> Now.op, conn |-> AttachedConn])
    /\ UNCHANGED <<pc, i, result, pollVars, next_id, typed, sidx,
                   backlog, pend, rx, fin, rst, stalled>>

(* wcat_full_write to the sessions of S: it waits for a stalled one, and   *)
(* fails on one that is gone. A failure closes the session or is ignored.  *)
Reached(S) == {k \in S : ~rst[sessions[k].conn]}
Sends(S, via, items) ==
    /\ \A k \in Reached(S) : stalled[sessions[k].conn] # "yes"
    /\ to' = [c \in Conn |->
                IF \E k \in Reached(S) : sessions[k].conn = c
                THEN to[c] \o [m \in DOMAIN items |-> [n |-> items[m].n, via |-> via]]
                ELSE to[c]]

-----------------------------------------------------------------------------
(* multi_handle_attached_stdin, token by token.                            *)

Attached == sidx # 0
Ops(items) == [m \in DOMAIN items |-> items[m].op]
MayDetach(items) == Len(items) <= 2 /\ Ops(items) = SubSeq(DetachWord, 1, Len(items))

Detach ==
    /\ attached_id' = 0 /\ line' = <<>> /\ held' = TRUE
    /\ UNCHANGED to

(* Ctrl-], or a detach word on a line of its own. The loop over the bytes  *)
(* of this read goes on, with the same session.                            *)
KeyDetaches ==
    /\ Handle /\ Attached
    /\ \/ Now.op = "bracket"
       \/ Now.op = "nl" /\ held /\ Ops(line) = DetachWord
       \/ Now.op = "detach" /\ held /\ line = <<>>
    /\ Detach
    /\ UNCHANGED <<stop, sessions, active_id, input, st>>

(* Fault: the key that settles it is sent before the keys held back.       *)
KeyTypedFirst ==
    /\ Handle /\ Attached /\ Now.op \in Key
    /\ line' = Append(line, Now)
    /\ held' = (held /\ MayDetach(line'))
    /\ IF held' THEN UNCHANGED to
       ELSE Sends({sidx}, "attached", IF held THEN <<Now>> \o line ELSE <<Now>>)
    /\ UNCHANGED <<stop, sessions, active_id, attached_id, input, st>>

(* Fault: what was held back is sent, and still counts as held back.       *)
KeyTypedStaysHeld ==
    /\ Handle /\ Attached /\ Now.op \in Key
    /\ line' = Append(line, Now)
    /\ IF held /\ MayDetach(line') THEN UNCHANGED to
       ELSE Sends({sidx}, "attached", IF held THEN line' ELSE <<Now>>)
    /\ UNCHANGED <<stop, sessions, active_id, attached_id, input, held, st>>

(* A printable key: held back while it may become a detach word.           *)
KeyTyped ==
    /\ Handle /\ Attached /\ Now.op \in Key
    /\ line' = Append(line, Now)
    /\ held' = (held /\ MayDetach(line'))
    /\ IF held' THEN UNCHANGED to
       ELSE Sends({sidx}, "attached", IF held THEN line' ELSE <<Now>>)
    /\ UNCHANGED <<stop, sessions, active_id, attached_id, input, st>>

KeyErases ==
    /\ Handle /\ Attached /\ Now.op = "bs"
    /\ line' = SubSeq(line, 1, Len(line) - 1)
    /\ IF held \/ line = <<>> THEN UNCHANGED to ELSE Sends({sidx}, "attached", <<Now>>)
    /\ UNCHANGED <<stop, sessions, active_id, attached_id, input, held, st>>

(* Other control keys go out at once, past what is held back.              *)
KeyControl ==
    /\ Handle /\ Attached /\ Now.op = "ctl"
    /\ IF attached_id = 0 THEN UNCHANGED to ELSE Sends({sidx}, "control", <<Now>>)
    /\ UNCHANGED <<stop, sessions, active_id, attached_id, input, line, held, st>>

(* The end of a line, and a whole line that is no detach word.             *)
KeyEndsLine ==
    /\ Handle /\ Attached /\ Now.op \in Command \cup {"nl"}
    /\ ~(Now.op = "nl" /\ held /\ Ops(line) = DetachWord)
    /\ ~(Now.op = "detach" /\ held /\ line = <<>>)
    /\ Sends({sidx}, "attached", (IF held THEN line ELSE <<>>) \o <<Now>>)
    /\ line' = <<>> /\ held' = TRUE
    /\ UNCHANGED <<stop, sessions, active_id, attached_id, input, st>>

-----------------------------------------------------------------------------
(* The prompt: multi_handle_stdin and multi_handle_interactive_stdin       *)
(* collect a line, multi_handle_input_line handles it. Control keys are    *)
(* dropped, as the interactive one does.                                   *)

Prompt == sidx = 0
IsCommand == Now.op \in Command /\ input = <<>>
Arg == Head(chunk).arg
Target == multi_find_by_id(Arg)

PromptKey ==
    /\ Handle /\ Prompt /\ Now.op \in Key \cup {"bs", "bracket", "ctl"}
    /\ input' = CASE Now.op \in Key -> Append(input, Now)
                  [] Now.op = "bs" -> SubSeq(input, 1, Len(input) - 1)
                  [] OTHER -> input
    /\ UNCHANGED <<stop, sessions, active_id, attached_id, line, held, to, st>>

(* Commands that only move the ids or stop the loop.                       *)
PromptMoves ==
    /\ Handle /\ Prompt /\ IsCommand /\ Now.op \in {"use", "next", "prev", "attach", "detach", "quit"}
    /\ LET id == CASE Now.op = "next" -> multi_next_session_id
                   [] Now.op = "prev" -> multi_prev_session_id
                   [] Now.op = "attach" /\ Arg = 0 -> active_id
                   [] Now.op = "attach" /\ Arg # 0 -> Arg
                   [] Now.op = "use" -> Arg
                   [] OTHER -> 0
           found == multi_find_by_id(id) # {}
       IN  /\ active_id' = IF found THEN id ELSE active_id
           /\ attached_id' = CASE Now.op = "attach" /\ found -> id
                               [] Now.op = "detach" -> 0
                               [] OTHER -> attached_id
    /\ stop' = (stop \/ Now.op = "quit")
    /\ UNCHANGED <<sessions, input, line, held, to, st>>

(* The active session has been closed: the first one takes its place.      *)
Reselect(id) ==
    active_id' = IF active_id = id THEN multi_first_session_id(sessions') ELSE active_id

(* Fault: :kill leaves the active session alone.                           *)
KillNoReselect ==
    /\ Handle /\ Prompt /\ IsCommand /\ Now.op = "kill"
    /\ multi_session_close(Target)
    /\ UNCHANGED <<stop, active_id, attached_id, input, line, held, to>>

PromptKill ==
    /\ Handle /\ Prompt /\ IsCommand /\ Now.op = "kill"
    /\ multi_session_close(Target)
    /\ IF Target = {} THEN UNCHANGED active_id ELSE Reselect(Arg)
    /\ UNCHANGED <<stop, attached_id, input, line, held, to>>

PromptSend ==
    /\ Handle /\ Prompt /\ IsCommand /\ Now.op = "send"
    /\ Sends(Target, "send", <<Now>>)
    /\ multi_session_close(Target \ Reached(Target))
    /\ IF Reached(Target) = Target THEN UNCHANGED active_id ELSE Reselect(Arg)
    /\ UNCHANGED <<stop, attached_id, input, line, held>>

(* multi_broadcast drops the sessions it cannot reach, and does not look   *)
(* whether the active one is among them.                                   *)
PromptAll ==
    /\ Handle /\ Prompt /\ IsCommand /\ Now.op = "all"
    /\ Sends(OpenSlots, "all", <<Now>>)
    /\ multi_session_close(OpenSlots \ Reached(OpenSlots))
    /\ UNCHANGED <<stop, active_id, attached_id, input, line, held>>

(* A line for the active session.                                          *)
PromptLine ==
    /\ Handle /\ Prompt /\ ~IsCommand /\ Now.op \in Command \cup {"nl"}
    /\ LET target == multi_find_by_id(active_id)
       IN  /\ Sends(target, "line", Append(input, Now))
           /\ multi_session_close(target \ Reached(target))
           /\ active_id' = IF active_id # 0 /\ Reached(target) = {}
                           THEN multi_first_session_id(sessions') ELSE active_id
    /\ input' = <<>>
    /\ UNCHANGED <<stop, attached_id, line, held>>

-----------------------------------------------------------------------------
(* The sessions, slot by slot.                                             *)

NextSlot == IF i = MaxSessions
            THEN pc' = "poll" /\ i' = 1 /\ evs' = {} /\ errs' = {} /\ lready' = FALSE /\ sready' = FALSE
            ELSE pc' = "serve" /\ i' = i + 1 /\ UNCHANGED pollVars

C == sessions[i].conn

SkipSession ==
    /\ pc = "serve" /\ C \notin evs
    /\ NextSlot
    /\ UNCHANGED <<stop, result, sessions, idVars, consoleVars, kernelVars>>

Leave ==
    /\ multi_session_close({i})
    /\ attached_id' = IF attached_id = sessions[i].id THEN 0 ELSE attached_id
    /\ active_id' = IF active_id # 0 /\ \A k \in Slot : sessions'[k].id # active_id
                    THEN multi_first_session_id(sessions') ELSE active_id
    /\ NextSlot
    /\ UNCHANGED <<stop, result, next_id, consoleVars, backlog, rx, fin, rst, stalled>>

(* Fault: end of file on a session is passed over.                         *)
LeavesOnError == pc = "serve" /\ C \in errs /\ Leave /\ UNCHANGED pend

(* POLLERR, or read() finds the end or an error.                           *)
SessionLeaves ==
    /\ pc = "serve" /\ C \in evs
    /\ C \in errs \/ pend[C] = "none"
    /\ Leave
    /\ UNCHANGED pend

(* A session whose first bytes look like HTTP is closed once shown.        *)
SessionHttp ==
    /\ pc = "serve" /\ C \in evs \ errs /\ pend[C] = "http" /\ ~rx[C]
    /\ pend' = [pend EXCEPT ![C] = "none"]
    /\ Leave

SessionReads ==
    /\ pc = "serve" /\ C \in evs \ errs /\ pend[C] # "none"
    /\ pend[C] = "http" => rx[C]
    /\ pend' = [pend EXCEPT ![C] = "none"] /\ rx' = [rx EXCEPT ![C] = TRUE]
    /\ NextSlot
    /\ UNCHANGED <<stop, result, sessions, idVars, consoleVars, backlog, st, fin, rst, stalled>>

(* Writing to standard output fails: the loop ends.                        *)
OutputFails ==
    /\ pc = "serve" /\ C \in evs \ errs /\ pend[C] # "none"
    /\ result' = 1 /\ stop' = TRUE
    /\ pend' = [pend EXCEPT ![C] = "none"] /\ rx' = [rx EXCEPT ![C] = TRUE]
    /\ attached_id' = IF pend[C] = "http" /\ ~rx[C] /\ attached_id = sessions[i].id
                      THEN 0 ELSE attached_id
    /\ pc' = "poll"
    /\ UNCHANGED <<i, sessions, next_id, active_id, pollVars, consoleVars, backlog, st,
                   fin, rst, stalled>>

MultiStep ==
    \/ Poll \/ Shutdown \/ NoAccept \/ AcceptCloses \/ AcceptSession
    \/ NoStdin \/ AttachedGone \/ ReadStdin \/ KeysDone
    \/ KeyDetaches \/ KeyTyped \/ KeyErases \/ KeyControl \/ KeyEndsLine
    \/ PromptKey \/ PromptMoves \/ PromptKill \/ PromptSend \/ PromptAll \/ PromptLine
    \/ SkipSession \/ SessionLeaves \/ SessionHttp \/ SessionReads

-----------------------------------------------------------------------------
(* The operator, the peers and the signal. What is typed, said or opened   *)
(* in the middle of a round cannot be told from what comes just before the *)
(* next poll(); a peer may also close or stall under the handlers' writes, *)
(* and a signal may come anywhere.                                         *)

loopVars == <<pc, i, result, sessions, idVars, pollVars, chunk, sidx, input, line, held, owner, to>>

Type(t) ==
    /\ Len(owner) + Len(chunk) + Len(typed) < MaxTyped /\ pc = "poll"
    /\ typed' = Append(typed, t)
    /\ UNCHANGED <<stop, loopVars, kernelVars>>

Connect(c) ==
    /\ st[c] = "idle" /\ pc = "poll" /\ backlog = <<>>
    /\ st' = [st EXCEPT ![c] = "backlog"] /\ backlog' = Append(backlog, c)
    /\ UNCHANGED <<stop, loopVars, typed, pend, rx, fin, rst, stalled>>

PeerSays(c, what) ==
    /\ c \in Talkers /\ pc = "poll"
    /\ st[c] = "open" /\ pend[c] = "none" /\ ~rx[c] /\ ~fin[c] /\ ~rst[c]
    /\ pend' = [pend EXCEPT ![c] = what]
    /\ UNCHANGED <<stop, loopVars, typed, backlog, st, rx, fin, rst, stalled>>

(* The peer closes, or resets while it is at it.                           *)
PeerCloses(c) ==
    /\ c \in Closers /\ pc \in {"poll", "keys"}
    /\ st[c] = "open" /\ ~fin[c] /\ ~rst[c]
    /\ fin' = [fin EXCEPT ![c] = TRUE]
    /\ rst' \in {rst, [rst EXCEPT ![c] = TRUE]}
    /\ UNCHANGED <<stop, loopVars, typed, backlog, st, pend, rx, stalled>>

(* A peer stalls once: its buffer cannot fill again before a write that    *)
(* waits for it has gone through.                                          *)
PeerStalls(c) ==
    /\ c \in Stalls /\ pc \in {"poll", "keys"}
    /\ st[c] = "open" /\ stalled[c] = "no" /\ ~fin[c] /\ ~rst[c]
    /\ stalled' = [stalled EXCEPT ![c] = "yes"]
    /\ UNCHANGED <<stop, loopVars, typed, backlog, st, pend, rx, fin, rst>>

PeerResumes(c) ==
    /\ stalled[c] = "yes" /\ stalled' = [stalled EXCEPT ![c] = "over"]
    /\ UNCHANGED <<stop, loopVars, typed, backlog, st, pend, rx, fin, rst>>

(* The handler only sets wcat_stop: the round goes on, the rest of what    *)
(* was read is handled, and a write that waits for a stalled peer is       *)
(* repeated after EINTR.                                                   *)
Signal ==
    /\ Signals /\ ~stop /\ pc # "done" /\ stop' = TRUE
    /\ UNCHANGED <<loopVars, typed, kernelVars>>

Peer(c) == Connect(c) \/ PeerSays(c, "text") \/ PeerSays(c, "http") \/ PeerCloses(c)
           \/ PeerStalls(c) \/ PeerResumes(c)

Terminated == pc = "done" /\ UNCHANGED vars

Next ==
    \/ MultiStep \/ PollFails \/ OutputFails
    \/ (\E t \in Tokens : Type(t)) \/ (\E c \in Conn : Peer(c)) \/ Signal \/ Terminated

Spec == Init /\ [][Next]_vars

(* The loop is scheduled, and a peer that stalls reads again in the end:   *)
(* writes to a session block the whole loop.                               *)
FairSpec == Spec /\ WF_vars(MultiStep) /\ \A c \in Conn : WF_vars(PeerResumes(c))

-----------------------------------------------------------------------------
(* Properties.                                                             *)

Item == [op : Op, n : 1..MaxTyped]
Sent == [n : 1..MaxTyped, via : {"attached", "control", "send", "all", "line"}]

(* The loop and its table.                                                 *)
LoopOK ==
    /\ stop \in BOOLEAN /\ pc \in {"poll", "accept", "stdin", "keys", "serve", "done"}
    /\ i \in Slot /\ result \in {0, 1}
    /\ sessions \in [Slot -> [conn : Conn \cup {NoConn}, id : Nat]]
    /\ next_id \in Nat \ {0} /\ active_id \in Nat /\ attached_id \in Nat
    /\ evs \subseteq Conn /\ errs \subseteq evs /\ lready \in BOOLEAN /\ sready \in BOOLEAN

(* What is typed, held back and handed on.                                 *)
ConsoleOK ==
    /\ typed \in Seq(Tokens) /\ chunk \in Seq(Tokens) /\ sidx \in Slot \cup {0}
    /\ input \in Seq(Item) /\ line \in Seq(Item) /\ held \in BOOLEAN
    /\ held => MayDetach(line)
    /\ owner \in Seq([op : Op, conn : Conn \cup {NoConn}]) /\ to \in [Conn -> Seq(Sent)]

(* The connections.                                                        *)
KernelOK ==
    /\ backlog \in Seq(Conn) /\ st \in [Conn -> {"idle", "backlog", "open", "closed"}]
    /\ pend \in [Conn -> {"none", "text", "http"}]
    /\ rx \in [Conn -> BOOLEAN] /\ fin \in [Conn -> BOOLEAN] /\ rst \in [Conn -> BOOLEAN]
    /\ stalled \in [Conn -> {"no", "yes", "over"}]

(* Every variable has its type, and what is held back may still become a   *)
(* detach word.                                                            *)
TypeOK == LoopOK /\ ConsoleOK /\ KernelOK

(* Slots, ids and connections stay in step through accepts, :kill, drops   *)
(* by :all and :send and sessions that leave: a connection is open exactly *)
(* while one slot holds it, and an id is never given twice, so a stale     *)
(* active_id or attached_id cannot come to mean another session.           *)
SessionsDistinct ==
    /\ \A k \in OpenSlots : /\ st[sessions[k].conn] = "open"
                            /\ sessions[k].id \in 1..(next_id - 1)
                            /\ \A m \in OpenSlots \ {k} : /\ sessions[m].conn # sessions[k].conn
                                                          /\ sessions[m].id # sessions[k].id
    /\ \A c \in Conn : st[c] = "open" => c \in Connected
    /\ active_id < next_id /\ attached_id < next_id

(* "Standard input sends lines to the active session": until :all is used, *)
(* there is an active session whenever there is a session, and it is one   *)
(* of them.                                                                *)
ActiveLive ==
    ((\A n \in DOMAIN owner : owner[n].op # "all") /\ pc # "done") =>
        IF OpenSlots = {} THEN active_id = 0 ELSE multi_find_by_id(active_id) # {}

(* Holding keys back does not reorder them: a session gets what is typed   *)
(* in attached mode in the order it was typed, control keys aside.         *)
KeysInOrder ==
    \A c \in Conn : \A m \in DOMAIN to[c], n \in DOMAIN to[c] :
        (m < n /\ to[c][m].via = "attached" /\ to[c][n].via = "attached") =>
            to[c][m].n < to[c][n].n

(* ":send N" reaches the session with id N and no other, also when slots   *)
(* have been used again.                                                   *)
SendReachesItsSession ==
    [][\A k \in OpenSlots :
         (/\ pc = "keys" /\ chunk # <<>> /\ Head(chunk).op = "send"
          /\ sidx = 0 /\ input = <<>>
          /\ to'[sessions[k].conn] # to[sessions[k].conn]) => sessions[k].id = Arg]_vars

(* A peer that has closed loses its slot.                                  *)
DeadSessionFreed ==
    \A c \in Conn : (st[c] = "open" /\ fin[c]) ~> st[c] = "closed"

(* What the operator types is handled, in whatever mode.                   *)
TypedIsHandled == []<>(pc = "done" \/ (typed = <<>> /\ chunk = <<>>))

(* :quit ends the listener, and so does a signal at any point of a round:  *)
(* also one that finds it in a blocking write to a peer that has stalled,  *)
(* with keys of the same read still to be handled and written.             *)
StopEnds == stop ~> pc = "done"

(* "Attach standard input directly to session N" and "Leave attached mode  *)
(* and return to the multi prompt": what a session receives from attached  *)
(* mode was typed in attached mode, for that session.                      *)
KeysReachTheirSession ==
    \A c \in Conn : \A m \in DOMAIN to[c] :
        to[c][m].via = "attached" => owner[to[c][m].n].conn = c
=============================================================================
