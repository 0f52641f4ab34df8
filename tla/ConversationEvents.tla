------------------------ MODULE ConversationEvents -------------------------
(***************************************************************************)
(* How the mobile application shows and reads one conversation.            *)
(* EventStream (api.go) lists the rows and then registers with the         *)
(* dispatcher (notifiee.go); the message handlers                          *)
(* (dispatchVisibleInteraction) and the calls that open and close the      *)
(* conversation change its row and then dispatch it. None of them holds a  *)
(* lock over both: a goroutine may be overtaken between its commit, the    *)
(* reading of the row it sends, and the sending.                           *)
(*                                                                         *)
(* The screen of the conversation opens it after a second on display and   *)
(* closes it when it is left (useReadEffect, messenger.hooks.ts), by calls *)
(* that are not awaited and run side by side. is_open outlives the         *)
(* process: what an earlier run left open is closed when the account has   *)
(* been opened (closeConvos, prepareAccount.effect.ts).                    *)
(*                                                                         *)
(* The row is reduced to the two columns that both kinds of goroutine      *)
(* write. GroupEvents treats SetConversationIsOpenStatus as one step; here *)
(* its reading and its writing are apart.                                  *)
(***************************************************************************)
EXTENDS Naturals, FiniteSets

CONSTANTS
    Workers,       \* goroutines that handle messages of the conversation
    Calls,         \* calls of ConversationOpen and ConversationClose
    MaxMessages,   \* bound on handled messages
    MaxVisits,     \* bound on the times the screen comes on top
    MaxStreams     \* bound on event streams

ASSUME BoundsAssumption ==
    {MaxMessages, MaxVisits, MaxStreams} \subseteq Nat /\ Workers \cap Calls = {}

VARIABLES
    row,        \* the conversation row
    op,         \* what each goroutine does: pc, and the conversation it holds
    stream,     \* the application's event stream
    view,       \* the conversation in its store
    prepared,   \* the account is open and its conversations are closed
    screen,     \* the screen of the conversation: on top, under another one, ...
    timer,      \* the second on display is running
    received,   \* messages of the others handled so far
    messages, visits, streams,  \* for the bounds
    current,    \* history: calls that have read the row as it still is
    overtaken,  \* history: somebody else was at work around the last commit
    crossed     \* history: the last call was made with an opposite one under way

history == <<current, overtaken>>
app == <<prepared, screen, timer, visits, crossed>>
vars == <<row, op, stream, view, received, messages, streams, history, app>>

Ops == Workers \cup Calls
Closed == [open |-> FALSE, unread |-> 0]
Idle == [pc |-> "idle", conv |-> Closed]

Init ==
    /\ row = Closed /\ view = Closed
    /\ op = [o \in Ops |-> Idle]
    /\ stream = "off"
    /\ prepared = FALSE /\ screen = "off" /\ timer = FALSE
    /\ received = 0 /\ messages = 0 /\ visits = 0 /\ streams = 0
    /\ current = {} /\ overtaken = FALSE /\ crossed = FALSE

AllIdle(S) == \A o \in S : op[o].pc = "idle"

\* History: a call commits what it made of a row that others have changed, or
\* the commit comes while another goroutine is at work or no stream is registered.
Commit(o) ==
    /\ overtaken' = ~ /\ stream = "on"
                      /\ AllIdle(Ops \ {o})
                      /\ o \in Calls => o \in current
    /\ current' = {}

---------------------------------------------------------------------------
(* dispatchVisibleInteraction.                                             *)

\* Messages of the others count, while the conversation is not on display.
Counts(mine) == ~mine /\ ~row.open

UpdateReadState(w, mine) ==
    /\ op[w].pc = "idle"
    /\ messages < MaxMessages
    /\ messages' = messages + 1
    /\ received' = IF mine THEN received ELSE received + 1
    /\ row' = IF Counts(mine) THEN [row EXCEPT !.unread = @ + 1] ELSE row
    /\ op' = [op EXCEPT ![w] = [pc |-> "read", conv |-> row]]
    /\ Commit(w)
    /\ UNCHANGED <<stream, view, streams, app>>

\* The row is read again after the transaction. (Mutant: the conversation loaded
\* with the interaction is sent.)
RereadBug(w) == op[w].conv
Reread(w) == row

GetConversation(w) ==
    /\ op[w].pc = "read"
    /\ op' = [op EXCEPT ![w] = [pc |-> "send", conv |-> Reread(w)]]
    /\ UNCHANGED <<row, stream, view, received, messages, streams, history, app>>

---------------------------------------------------------------------------
(* ConversationOpen and ConversationClose.                                 *)

\* (Mutant: the counter stays as it is.)
WithStatusBug(conv, status) == [conv EXCEPT !.open = status]
WithStatus(conv, status) == [open |-> status, unread |-> IF status THEN 0 ELSE conv.unread]

\* SetConversationIsOpenStatus reads the row, returns when there is nothing to do,
CheckStatus(c) ==
    /\ op[c].pc = "asked"
    /\ IF row.open = op[c].conv.open
           THEN op' = [op EXCEPT ![c] = Idle] /\ UNCHANGED current
           ELSE /\ op' = [op EXCEPT ![c] =
                             [pc |-> "write", conv |-> WithStatus(row, op[c].conv.open)]]
                /\ current' = current \cup {c}
    /\ UNCHANGED <<row, stream, view, received, messages, streams, overtaken, app>>

\* and updates is_open, and unread_count when it opens, whatever they are by now.
SetStatus(c) ==
    /\ op[c].pc = "write"
    /\ row' = WithStatus(row, op[c].conv.open)
    /\ op' = [op EXCEPT ![c].pc = "send"]
    /\ Commit(c)
    /\ UNCHANGED <<stream, view, received, messages, streams, app>>

---------------------------------------------------------------------------
(* The dispatcher and the stream.                                          *)

\* An event that finds no registered stream is gone.
Dispatch(o) ==
    /\ op[o].pc = "send"
    /\ view' = IF stream = "on" THEN op[o].conv ELSE view
    /\ op' = [op EXCEPT ![o] = Idle]
    /\ UNCHANGED <<row, stream, received, messages, streams, history, app>>

\* streamShallow, ...
List ==
    /\ stream = "off"
    /\ streams < MaxStreams
    /\ streams' = streams + 1
    /\ stream' = "listed"
    /\ view' = row
    /\ overtaken' = ~AllIdle(Ops)
    /\ UNCHANGED <<row, op, received, messages, current, app>>

\* ... then Register.
Register ==
    /\ stream = "listed"
    /\ stream' = "on"
    /\ UNCHANGED <<row, op, view, received, messages, streams, history, app>>

---------------------------------------------------------------------------
(* The application.                                                        *)

\* A call that nobody awaits.
Ask(c, status) ==
    /\ op[c].pc = "idle"
    /\ op' = [op EXCEPT ![c] = [pc |-> "asked", conv |-> [Closed EXCEPT !.open = status]]]
    /\ crossed' = \E d \in Calls : op[d].pc \in {"asked", "write"} /\ op[d].conv.open # status

\* closeConvos. (Mutant: what is open stays open.)
LeftOpenBug == FALSE
LeftOpen == view.open

Prepare(c) ==
    /\ ~prepared /\ stream # "off"
    /\ prepared' = TRUE
    /\ IF LeftOpen THEN Ask(c, FALSE) ELSE UNCHANGED <<op, crossed>>
    /\ UNCHANGED <<row, stream, view, received, messages, streams, history, screen, timer, visits>>

Show(from) ==
    /\ screen = from
    /\ visits < MaxVisits
    /\ visits' = visits + 1
    /\ screen' = "top"
    /\ UNCHANGED <<row, op, stream, view, received, messages, streams, history, prepared, crossed>>

EnterScreen == prepared /\ Show("off") /\ timer' = TRUE

\* The screen is focused again. (Mutant: only mounting starts the timer.)
OnFocusBug == timer
OnFocus == TRUE

Uncover == Show("under") /\ timer' = OnFocus

\* Another screen comes on top: the route is still in the stack, nothing is closed.
Cover ==
    /\ screen = "top"
    /\ screen' = "under" /\ timer' = FALSE
    /\ UNCHANGED <<row, op, stream, view, received, messages, streams, history,
                   prepared, visits, crossed>>

ReadTimer(c) ==
    /\ timer
    /\ timer' = FALSE
    /\ Ask(c, TRUE)
    /\ UNCHANGED <<row, stream, view, received, messages, streams, history,
                   prepared, screen, visits>>

\* Leaving the screen blurs it, when it is on top, and unmounts it: both close.
Close(c, from, to) ==
    /\ screen \in from
    /\ screen' = to /\ timer' = FALSE
    /\ Ask(c, FALSE)
    /\ UNCHANGED <<row, stream, view, received, messages, streams, history, prepared, visits>>

Blur(c) == Close(c, {"top"}, "leaving")
Unmount(c) == Close(c, {"under", "leaving"}, "off")

\* The process dies, or the account is closed, and all starts anew with the rows as they are.
Restart ==
    /\ stream # "off"
    /\ stream' = "off" /\ view' = Closed
    /\ op' = [o \in Ops |-> Idle]
    /\ prepared' = FALSE /\ screen' = "off" /\ timer' = FALSE /\ crossed' = FALSE
    /\ UNCHANGED <<row, received, messages, streams, visits, history>>

---------------------------------------------------------------------------
Handler(w) == GetConversation(w) \/ \E mine \in BOOLEAN : UpdateReadState(w, mine)
Call(c) == CheckStatus(c) \/ SetStatus(c)
Stream == List \/ Register \/ Restart
Screen == EnterScreen \/ Uncover \/ Cover \/ \E c \in Calls : Prepare(c) \/ Blur(c) \/ Unmount(c)
Timer == \E c \in Calls : ReadTimer(c)

Next == \/ \E w \in Workers : Handler(w)
        \/ \E c \in Calls : Call(c)
        \/ \E o \in Ops : Dispatch(o)
        \/ Stream \/ Screen \/ Timer

\* The timer fires, and what the node was asked it does.
Fairness ==
    /\ WF_vars(Timer)
    /\ \A c \in Calls : WF_vars(Call(c) \/ Dispatch(c))

Spec == Init /\ [][Next]_vars /\ Fairness

---------------------------------------------------------------------------
(* Properties.                                                             *)

Conversation == [open : BOOLEAN, unread : 0 .. received]

\* Types; nothing counts more messages than the others have sent.
TypeOK ==
    /\ row \in Conversation /\ view \in Conversation
    /\ op \in [Ops -> [pc : {"idle", "asked", "read", "write", "send"}, conv : Conversation]]
    /\ stream \in {"off", "listed", "on"}
    /\ screen \in {"off", "top", "under", "leaving"}
    /\ {prepared, timer, overtaken, crossed} \subseteq BOOLEAN
    /\ received \in 0 .. MaxMessages /\ messages \in 0 .. MaxMessages
    /\ visits \in 0 .. MaxVisits /\ streams \in 0 .. MaxStreams
    /\ current \subseteq Calls

\* Neither the row nor what the application shows is ever open with unread messages,
\* although openings, closings and messages read and write the row in separate
\* statements.
OpenIsRead == \A conv \in {row, view} : conv.open => conv.unread = 0

\* What the stream does guarantee: when the last change of the row was made on the
\* row as it was read, with the stream registered and nobody else at work, the
\* application shows the row as it is, whatever was lost or overtaken before.
SeenWhenAlone ==
    stream = "on" /\ AllIdle(Ops) /\ ~overtaken => view = row

\* A conversation whose screen has been left is closed, so that its messages count as
\* unread again (useReadEffect, closeConvos): also when the screen was left under another
\* one or before its second was over, and when the process died with it on display.
\* Excepted is a closing asked while the opening was still under way, as the node may do
\* them in any order.
LeftIsClosed ==
    prepared /\ screen = "off" /\ AllIdle(Calls) /\ ~crossed => ~row.open

\* A conversation that stays on display is opened, however often its screen was covered,
\* left and entered before (useReadEffect); with the same exception.
ShownIsOpened == []<>(screen # "top" \/ crossed \/ row.open)
============================================================================
