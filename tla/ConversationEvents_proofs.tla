--------------------- MODULE ConversationEvents_proofs ---------------------
(***************************************************************************)
(* For any number of goroutines, calls, messages, visits and restarts: an  *)
(* open conversation has no unread messages, a conversation whose screen   *)
(* has been left is closed, and the event stream leaves its client with    *)
(* the row as it is unless goroutines have overtaken one another.          *)
(***************************************************************************)
EXTENDS ConversationEvents, TLAPS

Types == TypeOK /\ received <= messages

\* Whatever a goroutine holds, open means read.
Read == OpenIsRead /\ \A o \in Ops : op[o].conv.open => op[o].conv.unread = 0

\* Before the account is prepared, nobody changes whether the conversation is open.
Fresh ==
    ~prepared =>
        /\ screen = "off" /\ ~timer /\ ~crossed /\ AllIdle(Calls)
        /\ \A w \in Workers : op[w].pc # "idle" => op[w].conv.open = row.open
        /\ stream # "off" => view.open = row.open

Pending(c) == op[c].pc \in {"asked", "write"}

\* The calls that have not changed the row yet all want the same, unless they cross.
Same ==
    ~crossed =>
        \A c, d \in Calls : Pending(c) /\ Pending(d) => op[c].conv.open = op[d].conv.open

\* Off the screen, nothing will open the conversation and, if it is open, a call will close it.
Left ==
    /\ timer => screen = "top"
    /\ prepared /\ screen = "off" /\ ~crossed =>
          /\ \A c \in Calls : Pending(c) => ~op[c].conv.open
          /\ row.open => \E c \in Calls : Pending(c)

IInv == Types /\ Read /\ Fresh /\ Same /\ Left

Held == [pc : {"idle", "asked", "read", "write", "send"}, conv : Conversation]

\* What a call is asked is of its type, and so is whether it crosses.
LEMMA AskTypes ==
    ASSUME Types, NEW c \in Calls, NEW status \in BOOLEAN, Ask(c, status)
    PROVE  op' \in [Ops -> Held] /\ crossed' \in BOOLEAN
<1>1. [pc |-> "asked", conv |-> [Closed EXCEPT !.open = status]] \in Held
  BY DEF Held, Closed, Conversation, Types, TypeOK
<1>2. op \in [Ops -> Held] /\ c \in Ops
  BY DEF Types, TypeOK, Held, Ops
<1>3. op' \in [Ops -> Held]
  BY <1>1, <1>2 DEF Ask
<1>4. crossed' \in BOOLEAN
  BY DEF Ask
<1> QED
  BY <1>3, <1>4

LEMMA InitIInv == Init => IInv
<1> SUFFICES ASSUME Init PROVE IInv
  OBVIOUS
<1>1. Closed \in Conversation /\ ~Closed.open /\ Closed.unread = 0
  BY DEF Init, Closed, Conversation
<1>2. Types
  <2>1. op \in [Ops -> Held]
    BY <1>1 DEF Init, Idle, Held
  <2>2. {prepared, timer, overtaken, crossed} \subseteq BOOLEAN
    BY DEF Init
  <2>3. 0 \in 0 .. MaxMessages /\ 0 \in 0 .. MaxVisits /\ 0 \in 0 .. MaxStreams
    BY BoundsAssumption
  <2>4. current \subseteq Calls /\ received <= messages
    BY DEF Init
  <2> QED
    BY <1>1, <2>1, <2>2, <2>3, <2>4 DEF Init, Types, TypeOK, Held
<1>3. Read
  BY <1>1 DEF Init, Read, OpenIsRead, Idle
<1>4. Fresh /\ Same /\ Left
  BY DEF Init, Fresh, Same, Left, Pending, AllIdle, Idle, Ops
<1> QED
  BY <1>2, <1>3, <1>4 DEF IInv

\* Types: the counters of every conversation stay within what was received.
LEMMA TypesStep ==
    ASSUME IInv, [Next]_vars
    PROVE  Types'
<1> USE BoundsAssumption DEF IInv, Types, TypeOK, Conversation, Ops, Idle, Closed
<1>1. ASSUME NEW w \in Workers, NEW mine \in BOOLEAN, UpdateReadState(w, mine)
      PROVE  Types'
  BY <1>1 DEF UpdateReadState, Counts, Commit, history, app
<1>2. ASSUME NEW w \in Workers, GetConversation(w)
      PROVE  Types'
  BY <1>2 DEF GetConversation, Reread, history, app
<1>3. ASSUME NEW c \in Calls, CheckStatus(c)
      PROVE  Types'
  <2>1. WithStatus(row, op[c].conv.open) \in Conversation
    BY DEF WithStatus
  <2>2. [pc |-> "write", conv |-> WithStatus(row, op[c].conv.open)] \in Held /\ Idle \in Held
    BY <2>1 DEF Held
  <2>3. op \in [Ops -> Held] /\ c \in Ops
    BY DEF Held
  <2>4. op' \in [Ops -> Held]
    <3>1. CASE row.open = op[c].conv.open
      <4>1. op' = [op EXCEPT ![c] = Idle]
        BY <1>3, <3>1 DEF CheckStatus
      <4> QED
        BY <4>1, <2>2, <2>3 DEF Held
    <3>2. CASE row.open # op[c].conv.open
      <4>1. op' = [op EXCEPT ![c] = [pc |-> "write", conv |-> WithStatus(row, op[c].conv.open)]]
        BY <1>3, <3>2 DEF CheckStatus
      <4> QED
        BY <4>1, <2>2, <2>3
    <3> QED
      BY <3>1, <3>2
  <2>5. current' \subseteq Calls
    BY <1>3 DEF CheckStatus
  <2> QED
    BY <1>3, <2>4, <2>5 DEF CheckStatus, app, Held
<1>4. ASSUME NEW c \in Calls, SetStatus(c)
      PROVE  Types'
  BY <1>4 DEF SetStatus, WithStatus, Commit, app
<1>5. ASSUME NEW o \in Ops, Dispatch(o)
      PROVE  Types'
  BY <1>5 DEF Dispatch, history, app
<1>6. CASE List
  BY <1>6 DEF List, app
<1>7. CASE Register
  BY <1>7 DEF Register, history, app
<1>8. CASE Restart
  <2>1. op' \in [Ops -> Held] /\ view' \in Conversation'
    BY <1>8 DEF Restart, Held
  <2>2. {prepared', timer', overtaken', crossed'} \subseteq BOOLEAN
    BY <1>8 DEF Restart, history
  <2> QED
    BY <1>8, <2>1, <2>2 DEF Restart, history, Held
<1>9. CASE EnterScreen
  BY <1>9 DEF EnterScreen, Show, history
<1>10. CASE Uncover
  BY <1>10 DEF Uncover, Show, OnFocus, history
<1>11. CASE Cover
  BY <1>11 DEF Cover, history
<1>12. ASSUME NEW c \in Calls, Prepare(c)
      PROVE  Types'
  <2>1. op' \in [Ops -> Held] /\ crossed' \in BOOLEAN
    BY <1>12, AskTypes DEF Prepare, Held
  <2> QED
    BY <1>12, <2>1 DEF Prepare, history, Held
<1>13. ASSUME NEW c \in Calls, Blur(c)
      PROVE  Types'
  <2>1. op' \in [Ops -> Held] /\ crossed' \in BOOLEAN
    BY <1>13, AskTypes DEF Blur, Close
  <2> QED
    BY <1>13, <2>1 DEF Blur, Close, history, Held
<1>14. ASSUME NEW c \in Calls, Unmount(c)
      PROVE  Types'
  <2>1. op' \in [Ops -> Held] /\ crossed' \in BOOLEAN
    BY <1>14, AskTypes DEF Unmount, Close
  <2> QED
    BY <1>14, <2>1 DEF Unmount, Close, history, Held
<1>15. ASSUME NEW c \in Calls, ReadTimer(c)
      PROVE  Types'
  <2>1. op' \in [Ops -> Held] /\ crossed' \in BOOLEAN
    BY <1>15, AskTypes DEF ReadTimer
  <2> QED
    BY <1>15, <2>1 DEF ReadTimer, history, Held
<1>16. CASE UNCHANGED vars
  BY <1>16 DEF vars, history, app
<1> QED
  BY <1>1, <1>2, <1>3, <1>4, <1>5, <1>6, <1>7, <1>8, <1>9, <1>10, <1>11, <1>12, <1>13, <1>14, <1>15, <1>16 DEF Next, Handler, Call, Stream, Screen, Timer

\* Opening resets the counter, and nothing counts while it is open.
LEMMA ReadStep ==
    ASSUME IInv, [Next]_vars
    PROVE  Read'
<1> USE BoundsAssumption DEF IInv, Read, Types, TypeOK, OpenIsRead, Conversation, Ops, Idle, Closed
<1>1. ASSUME NEW w \in Workers, NEW mine \in BOOLEAN, UpdateReadState(w, mine)
      PROVE  Read'
  BY <1>1 DEF UpdateReadState, Counts, Commit, history, app
<1>2. ASSUME NEW w \in Workers, GetConversation(w)
      PROVE  Read'
  BY <1>2 DEF GetConversation, Reread, history, app
<1>3. ASSUME NEW c \in Calls, CheckStatus(c)
      PROVE  Read'
  BY <1>3 DEF CheckStatus, WithStatus, app
<1>4. ASSUME NEW c \in Calls, SetStatus(c)
      PROVE  Read'
  BY <1>4 DEF SetStatus, WithStatus, Commit, app
<1>5. ASSUME NEW o \in Ops, Dispatch(o)
      PROVE  Read'
  BY <1>5 DEF Dispatch, history, app
<1>6. CASE List
  BY <1>6 DEF List, app
<1>7. CASE Register
  BY <1>7 DEF Register, history, app
<1>8. CASE Restart
  BY <1>8 DEF Restart, history
<1>9. CASE EnterScreen
  BY <1>9 DEF EnterScreen, Show, history
<1>10. CASE Uncover
  BY <1>10 DEF Uncover, Show, OnFocus, history
<1>11. CASE Cover
  BY <1>11 DEF Cover, history
<1>12. ASSUME NEW c \in Calls, Prepare(c)
      PROVE  Read'
  <2>1. CASE LeftOpen
    BY <1>12, <2>1 DEF Prepare, LeftOpen, Ask, history
  <2>2. CASE ~LeftOpen
    BY <1>12, <2>2 DEF Prepare, LeftOpen, history
  <2> QED
    BY <2>1, <2>2
<1>13. ASSUME NEW c \in Calls, Blur(c)
      PROVE  Read'
  BY <1>13 DEF Blur, Close, Ask, history
<1>14. ASSUME NEW c \in Calls, Unmount(c)
      PROVE  Read'
  BY <1>14 DEF Unmount, Close, Ask, history
<1>15. ASSUME NEW c \in Calls, ReadTimer(c)
      PROVE  Read'
  BY <1>15 DEF ReadTimer, Ask, history
<1>16. CASE UNCHANGED vars
  BY <1>16 DEF vars, history, app
<1> QED
  BY <1>1, <1>2, <1>3, <1>4, <1>5, <1>6, <1>7, <1>8, <1>9, <1>10, <1>11, <1>12, <1>13, <1>14, <1>15, <1>16 DEF Next, Handler, Call, Stream, Screen, Timer

\* Before the account is prepared there are no calls.
LEMMA FreshStep ==
    ASSUME IInv, [Next]_vars
    PROVE  Fresh'
<1> USE BoundsAssumption DEF IInv, Fresh, Left, Types, TypeOK, AllIdle, Ops, Idle, Closed, Conversation
<1>1. ASSUME NEW w \in Workers, NEW mine \in BOOLEAN, UpdateReadState(w, mine)
      PROVE  Fresh'
  BY <1>1 DEF UpdateReadState, Counts, Commit, history, app
<1>2. ASSUME NEW w \in Workers, GetConversation(w)
      PROVE  Fresh'
  BY <1>2 DEF GetConversation, Reread, history, app
<1>3. ASSUME NEW c \in Calls, CheckStatus(c)
      PROVE  Fresh'
  BY <1>3 DEF CheckStatus, WithStatus, app
<1>4. ASSUME NEW c \in Calls, SetStatus(c)
      PROVE  Fresh'
  BY <1>4 DEF SetStatus, WithStatus, Commit, app
<1>5. ASSUME NEW o \in Ops, Dispatch(o)
      PROVE  Fresh'
  BY <1>5 DEF Dispatch, history, app
<1>6. CASE List
  BY <1>6 DEF List, app
<1>7. CASE Register
  BY <1>7 DEF Register, history, app
<1>8. CASE Restart
  BY <1>8 DEF Restart, history
<1>9. CASE EnterScreen
  BY <1>9 DEF EnterScreen, Show, history
<1>10. CASE Uncover
  BY <1>10 DEF Uncover, Show, OnFocus, history
<1>11. CASE Cover
  BY <1>11 DEF Cover, history
<1>12. ASSUME NEW c \in Calls, Prepare(c)
      PROVE  Fresh'
  <2>1. CASE LeftOpen
    BY <1>12, <2>1 DEF Prepare, LeftOpen, Ask, history
  <2>2. CASE ~LeftOpen
    BY <1>12, <2>2 DEF Prepare, LeftOpen, history
  <2> QED
    BY <2>1, <2>2
<1>13. ASSUME NEW c \in Calls, Blur(c)
      PROVE  Fresh'
  BY <1>13 DEF Blur, Close, Ask, history
<1>14. ASSUME NEW c \in Calls, Unmount(c)
      PROVE  Fresh'
  BY <1>14 DEF Unmount, Close, Ask, history
<1>15. ASSUME NEW c \in Calls, ReadTimer(c)
      PROVE  Fresh'
  BY <1>15 DEF ReadTimer, Ask, history
<1>16. CASE UNCHANGED vars
  BY <1>16 DEF vars, history, app
<1> QED
  BY <1>1, <1>2, <1>3, <1>4, <1>5, <1>6, <1>7, <1>8, <1>9, <1>10, <1>11, <1>12, <1>13, <1>14, <1>15, <1>16 DEF Next, Handler, Call, Stream, Screen, Timer

\* A call made with an opposite one under way crosses it.
LEMMA SameStep ==
    ASSUME IInv, [Next]_vars
    PROVE  Same'
<1> USE BoundsAssumption DEF IInv, Same, Fresh, Pending, Types, TypeOK, AllIdle, Ops, Idle, Closed, Conversation
<1>1. ASSUME NEW w \in Workers, NEW mine \in BOOLEAN, UpdateReadState(w, mine)
      PROVE  Same'
  BY <1>1 DEF UpdateReadState, Counts, Commit, history, app
<1>2. ASSUME NEW w \in Workers, GetConversation(w)
      PROVE  Same'
  BY <1>2 DEF GetConversation, Reread, history, app
<1>3. ASSUME NEW c \in Calls, CheckStatus(c)
      PROVE  Same'
  BY <1>3 DEF CheckStatus, WithStatus, app
<1>4. ASSUME NEW c \in Calls, SetStatus(c)
      PROVE  Same'
  BY <1>4 DEF SetStatus, WithStatus, Commit, app
<1>5. ASSUME NEW o \in Ops, Dispatch(o)
      PROVE  Same'
  BY <1>5 DEF Dispatch, history, app
<1>6. CASE List
  BY <1>6 DEF List, app
<1>7. CASE Register
  BY <1>7 DEF Register, history, app
<1>8. CASE Restart
  BY <1>8 DEF Restart, history
<1>9. CASE EnterScreen
  BY <1>9 DEF EnterScreen, Show, history
<1>10. CASE Uncover
  BY <1>10 DEF Uncover, Show, OnFocus, history
<1>11. CASE Cover
  BY <1>11 DEF Cover, history
<1>12. ASSUME NEW c \in Calls, Prepare(c)
      PROVE  Same'
  <2>1. CASE LeftOpen
    BY <1>12, <2>1 DEF Prepare, LeftOpen, Ask, history
  <2>2. CASE ~LeftOpen
    BY <1>12, <2>2 DEF Prepare, LeftOpen, history
  <2> QED
    BY <2>1, <2>2
<1>13. ASSUME NEW c \in Calls, Ask(c, FALSE)
      PROVE  Same'
  <2>1. c \in Ops /\ op \in [Ops -> Held]
    BY DEF Held
  <2>2. /\ op'[c].pc = "asked" /\ op'[c].conv.open = FALSE
        /\ \A d \in Calls : d # c => op'[d] = op[d]
    BY <1>13, <2>1 DEF Ask
  <2>3. ASSUME ~crossed', NEW d \in Calls, Pending(d)' PROVE op'[d].conv.open = FALSE
    BY <1>13, <2>2, <2>3 DEF Ask
  <2> QED
    BY <2>3
<1>14. ASSUME NEW c \in Calls, Blur(c) \/ Unmount(c)
      PROVE  Same'
  BY <1>13, <1>14 DEF Blur, Unmount, Close
<1>15. ASSUME NEW c \in Calls, ReadTimer(c)
      PROVE  Same'
  BY <1>15 DEF ReadTimer, Ask, history
<1>16. CASE UNCHANGED vars
  BY <1>16 DEF vars, history, app
<1> QED
  BY <1>1, <1>2, <1>3, <1>4, <1>5, <1>6, <1>7, <1>8, <1>9, <1>10, <1>11, <1>12, <1>13, <1>14, <1>15, <1>16 DEF Next, Handler, Call, Stream, Screen, Timer

\* Leaving asks for the closing, and nothing asks for an opening after.
LEMMA LeftStep ==
    ASSUME IInv, [Next]_vars
    PROVE  Left'
<1> USE BoundsAssumption DEF IInv, Left, Fresh, Same, Pending, Types, TypeOK, AllIdle, Ops, Idle, Closed, Conversation
<1>1. ASSUME NEW w \in Workers, NEW mine \in BOOLEAN, UpdateReadState(w, mine)
      PROVE  Left'
  BY <1>1 DEF UpdateReadState, Counts, Commit, history, app
<1>2. ASSUME NEW w \in Workers, GetConversation(w)
      PROVE  Left'
  BY <1>2 DEF GetConversation, Reread, history, app
<1>3. ASSUME NEW c \in Calls, CheckStatus(c)
      PROVE  Left'
  BY <1>3 DEF CheckStatus, WithStatus, app
<1>4. ASSUME NEW c \in Calls, SetStatus(c)
      PROVE  Left'
  BY <1>4 DEF SetStatus, WithStatus, Commit, app
<1>5. ASSUME NEW o \in Ops, Dispatch(o)
      PROVE  Left'
  BY <1>5 DEF Dispatch, history, app
<1>6. CASE List
  BY <1>6 DEF List, app
<1>7. CASE Register
  BY <1>7 DEF Register, history, app
<1>8. CASE Restart
  BY <1>8 DEF Restart, history
<1>9. CASE EnterScreen
  BY <1>9 DEF EnterScreen, Show, history
<1>10. CASE Uncover
  BY <1>10 DEF Uncover, Show, OnFocus, history
<1>11. CASE Cover
  BY <1>11 DEF Cover, history
<1>12. ASSUME NEW c \in Calls, Prepare(c)
      PROVE  Left'
  <2>1. CASE LeftOpen
    <3>1. Ask(c, FALSE) /\ screen' = screen /\ timer' = timer /\ row' = row
      BY <1>12, <2>1 DEF Prepare, history
    <3>2. AllIdle(Calls) /\ timer = FALSE
      BY <1>12 DEF Prepare
    <3>3. \A d \in Calls : Pending(d)' => d = c
      BY <3>1, <3>2 DEF Ask
    <3>4. Pending(c)' /\ ~op'[c].conv.open
      BY <3>1 DEF Ask
    <3> QED
      BY <3>1, <3>2, <3>3, <3>4
  <2>2. CASE ~LeftOpen
    BY <1>12, <2>2 DEF Prepare, LeftOpen, history
  <2> QED
    BY <2>1, <2>2
<1>13. ASSUME NEW c \in Calls, Blur(c)
      PROVE  Left'
  BY <1>13 DEF Blur, Close, Ask, history
<1>14. ASSUME NEW c \in Calls, Unmount(c)
      PROVE  Left'
  BY <1>14 DEF Unmount, Close, Ask, history
<1>15. ASSUME NEW c \in Calls, ReadTimer(c)
      PROVE  Left'
  BY <1>15 DEF ReadTimer, Ask, history
<1>16. CASE UNCHANGED vars
  BY <1>16 DEF vars, history, app
<1> QED
  BY <1>1, <1>2, <1>3, <1>4, <1>5, <1>6, <1>7, <1>8, <1>9, <1>10, <1>11, <1>12, <1>13, <1>14, <1>15, <1>16 DEF Next, Handler, Call, Stream, Screen, Timer

LEMMA NextIInv == IInv /\ [Next]_vars => IInv'
BY TypesStep, ReadStep, FreshStep, SameStep, LeftStep DEF IInv

LEMMA Invariance == Spec => []IInv
BY InitIInv, NextIInv, PTL DEF Spec

\* Types; nothing counts more messages than the others have sent.
THEOREM Typed == Spec => []TypeOK
<1>1. IInv => TypeOK
  BY DEF IInv, Types
<1> QED
  BY <1>1, Invariance, PTL

\* Neither the row nor what the application shows is ever open with unread messages.
THEOREM OpenMeansRead == Spec => []OpenIsRead
<1>1. IInv => OpenIsRead
  BY DEF IInv, Read
<1> QED
  BY <1>1, Invariance, PTL

\* A conversation whose screen has been left is closed, after any covering, leaving and restart,
\* unless its closing crossed its opening.
THEOREM LeftMeansClosed == Spec => []LeftIsClosed
<1>1. IInv => LeftIsClosed
  BY DEF IInv, Left, LeftIsClosed, AllIdle, Pending
<1> QED
  BY <1>1, Invariance, PTL

---------------------------------------------------------------------------
(* What the application sees. While nobody has been overtaken since the    *)
(* last commit, what is under way to the stream is the row as it is.       *)

InFlight(o) == op[o].pc \in {"read", "send"}

\* A call that has read the row as it is will write what it holds.
ReadAsIs == \A c \in Calls :
    c \in current /\ op[c].pc = "write" => op[c].conv = WithStatus(row, op[c].conv.open)

Seen ==
    ~overtaken =>
        /\ stream = "listed" => view = row /\ \A o \in Ops : ~InFlight(o)
        /\ stream = "on" => /\ \A o \in Ops : op[o].pc = "send" => op[o].conv = row
                            /\ view = row \/ \E o \in Ops : InFlight(o)

SeenInv == ReadAsIs /\ Seen

\* A commit by one that others have overtaken is remembered as such.
LEMMA CommitAlone ==
    ASSUME NEW o \in Ops, Commit(o), ~overtaken'
    PROVE  stream = "on" /\ AllIdle(Ops \ {o}) /\ (o \in Calls => o \in current)
BY DEF Commit

\* Neither a call that is asked nor a step of the screen sends anything.
LEMMA QuietStep ==
    ASSUME SeenInv, UNCHANGED <<row, view, stream, current, overtaken>>,
           \A o \in Ops : op'[o] = op[o] \/ (~InFlight(o) /\ op'[o].pc \in {"idle", "asked"})
    PROVE  SeenInv'
BY DEF SeenInv, ReadAsIs, Seen, InFlight, Ops

LEMMA AskQuiet ==
    ASSUME Types, NEW c \in Calls, NEW status \in BOOLEAN, Ask(c, status)
    PROVE  \A o \in Ops : op'[o] = op[o] \/ (~InFlight(o) /\ op'[o].pc \in {"idle", "asked"})
BY DEF Ask, Types, TypeOK, InFlight

LEMMA SeenStep == Types /\ SeenInv /\ [Next]_vars => SeenInv'
<1> SUFFICES ASSUME Types, SeenInv, [Next]_vars PROVE SeenInv'
  OBVIOUS
<1>a. op \in [Ops -> [pc : {"idle", "asked", "read", "write", "send"}, conv : Conversation]]
      /\ Calls \subseteq Ops /\ Workers \subseteq Ops
  BY DEF Types, TypeOK, Ops
<1>1. ASSUME NEW w \in Workers, NEW mine \in BOOLEAN, UpdateReadState(w, mine)
      PROVE  SeenInv'
  <2>1. /\ op' = [op EXCEPT ![w] = [pc |-> "read", conv |-> row]] /\ Commit(w)
        /\ stream' = stream /\ current' = {}
    BY <1>1 DEF UpdateReadState, Commit
  <2>2. op'[w].pc = "read" /\ \A o \in Ops \ {w} : op'[o] = op[o]
    BY <1>a, <2>1
  <2>3. ReadAsIs'
    BY <2>1 DEF ReadAsIs
  <2>4. ASSUME ~overtaken' PROVE stream = "on" /\ \A o \in Ops \ {w} : op[o].pc = "idle"
    BY <1>a, <2>1, <2>4, CommitAlone DEF AllIdle
  <2>5. Seen'
    BY <1>a, <2>1, <2>2, <2>4 DEF Seen, InFlight
  <2> QED
    BY <2>3, <2>5 DEF SeenInv
<1>2. ASSUME NEW w \in Workers, GetConversation(w)
      PROVE  SeenInv'
  <2>1. /\ op' = [op EXCEPT ![w] = [pc |-> "send", conv |-> row]] /\ op[w].pc = "read"
        /\ UNCHANGED <<row, view, stream, current, overtaken>>
    BY <1>2 DEF GetConversation, Reread, history
  <2>2. op'[w].pc = "send" /\ op'[w].conv = row /\ \A o \in Ops \ {w} : op'[o] = op[o]
    BY <1>a, <2>1
  <2>3. \A o \in Ops : InFlight(o)' = InFlight(o)
    BY <2>1, <2>2 DEF InFlight
  <2>4. ReadAsIs'
    BY <1>a, <2>1, <2>2 DEF SeenInv, ReadAsIs
  <2> QED
    BY <2>1, <2>2, <2>3, <2>4 DEF SeenInv, Seen
<1>3. ASSUME NEW c \in Calls, CheckStatus(c)
      PROVE  SeenInv'
  <2>1. op[c].pc = "asked" /\ UNCHANGED <<row, view, stream, overtaken>>
    BY <1>3 DEF CheckStatus
  <2>2. CASE row.open = op[c].conv.open
    <3>1. op' = [op EXCEPT ![c] = Idle] /\ current' = current
      BY <1>3, <2>2 DEF CheckStatus
    <3> QED
      BY <1>a, <2>1, <3>1, QuietStep DEF Idle, InFlight
  <2>3. CASE row.open # op[c].conv.open
    <3> DEFINE held == WithStatus(row, op[c].conv.open)
    <3>1. op' = [op EXCEPT ![c] = [pc |-> "write", conv |-> held]] /\ current' = current \cup {c}
      BY <1>3, <2>3 DEF CheckStatus
    <3>2. op'[c].pc = "write" /\ op'[c].conv = held /\ \A o \in Ops \ {c} : op'[o] = op[o]
      BY <1>a, <3>1
    <3>3. held.open = op[c].conv.open
      BY DEF WithStatus
    <3>4. ReadAsIs'
      BY <1>a, <2>1, <3>1, <3>2, <3>3 DEF SeenInv, ReadAsIs
    <3>5. \A o \in Ops : InFlight(o)' = InFlight(o) /\ (op'[o].pc = "send" => op'[o] = op[o])
      BY <2>1, <3>2 DEF InFlight
    <3> QED
      BY <2>1, <3>4, <3>5 DEF SeenInv, Seen
  <2> QED
    BY <2>2, <2>3
<1>4. ASSUME NEW c \in Calls, SetStatus(c)
      PROVE  SeenInv'
  <2>1. /\ op[c].pc = "write" /\ op' = [op EXCEPT ![c].pc = "send"] /\ Commit(c)
        /\ row' = WithStatus(row, op[c].conv.open) /\ stream' = stream /\ current' = {}
    BY <1>4 DEF SetStatus, Commit
  <2>2. op'[c].pc = "send" /\ op'[c].conv = op[c].conv /\ \A o \in Ops \ {c} : op'[o] = op[o]
    BY <1>a, <2>1
  <2>3. ReadAsIs'
    BY <2>1 DEF ReadAsIs
  <2>4. ASSUME ~overtaken'
        PROVE  stream = "on" /\ op[c].conv = row' /\ \A o \in Ops \ {c} : op[o].pc = "idle"
    <3>1. stream = "on" /\ AllIdle(Ops \ {c}) /\ c \in current
      BY <1>a, <2>1, <2>4, CommitAlone
    <3> QED
      BY <2>1, <3>1 DEF SeenInv, ReadAsIs, AllIdle
  <2>5. Seen'
    BY <1>a, <2>1, <2>2, <2>4 DEF Seen, InFlight
  <2> QED
    BY <2>3, <2>5 DEF SeenInv
<1>5. ASSUME NEW o \in Ops, Dispatch(o)
      PROVE  SeenInv'
  <2>1. /\ op[o].pc = "send" /\ op' = [op EXCEPT ![o] = Idle]
        /\ view' = IF stream = "on" THEN op[o].conv ELSE view
        /\ UNCHANGED <<row, stream, current, overtaken>>
    BY <1>5 DEF Dispatch, history
  <2>2. op'[o].pc = "idle" /\ \A p \in Ops \ {o} : op'[p] = op[p]
    BY <1>a, <2>1 DEF Idle
  <2>3. ReadAsIs'
    BY <1>a, <2>1, <2>2 DEF SeenInv, ReadAsIs
  <2>4. Seen'
    BY <2>1, <2>2 DEF SeenInv, Seen, InFlight
  <2> QED
    BY <2>3, <2>4 DEF SeenInv
<1>6. CASE List
  <2>1. stream' = "listed" /\ view' = row /\ UNCHANGED <<row, op, current>>
        /\ (~overtaken' => \A o \in Ops : op[o].pc = "idle")
    BY <1>6 DEF List, AllIdle
  <2> QED
    BY <2>1 DEF SeenInv, ReadAsIs, Seen, InFlight
<1>7. CASE Register
  BY <1>7 DEF Register, history, SeenInv, ReadAsIs, Seen, InFlight
<1>8. CASE Restart
  <2>1. stream' = "off" /\ \A o \in Ops : op'[o].pc = "idle"
    BY <1>8 DEF Restart, Idle
  <2> QED
    BY <1>a, <2>1 DEF SeenInv, ReadAsIs, Seen
<1>9. CASE EnterScreen \/ Uncover \/ Cover \/ UNCHANGED vars
  <2>1. UNCHANGED <<row, op, view, stream, current, overtaken>>
    BY <1>9 DEF EnterScreen, Uncover, Show, Cover, history, vars
  <2> QED
    BY <2>1, QuietStep
<1>10. ASSUME NEW c \in Calls, Prepare(c) \/ Blur(c) \/ Unmount(c) \/ ReadTimer(c)
       PROVE  SeenInv'
  <2>1. UNCHANGED <<row, view, stream, current, overtaken>>
    BY <1>10 DEF Prepare, Blur, Unmount, Close, ReadTimer, history
  <2>2. op' = op \/ Ask(c, TRUE) \/ Ask(c, FALSE)
    BY <1>10 DEF Prepare, Blur, Unmount, Close, ReadTimer
  <2> QED
    BY <2>1, <2>2, AskQuiet, QuietStep
<1> QED
  BY <1>1, <1>2, <1>3, <1>4, <1>5, <1>6, <1>7, <1>8, <1>9, <1>10
  DEF Next, Handler, Call, Stream, Screen, Timer

\* When the last change was made on the row as it was read, with the stream registered and
\* nobody else at work, the application shows the row as it is: dispatching the conversation
\* after its commit loses nothing but what was overtaken.
THEOREM SeenIfAlone == Spec => []SeenWhenAlone
<1>1. Init => SeenInv
  BY DEF Init, SeenInv, ReadAsIs, Seen
<1>2. IInv => Types
  BY DEF IInv
<1>3. SeenInv => SeenWhenAlone
  BY DEF SeenInv, Seen, SeenWhenAlone, AllIdle, InFlight
<1> QED
  BY <1>1, <1>2, <1>3, SeenStep, Invariance, PTL DEF Spec
============================================================================
