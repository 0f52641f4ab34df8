--------------------------- MODULE BleQueue_proofs ---------------------------
(***************************************************************************)
(* For any set of operations and any number of disconnections: the queue   *)
(* of a device does not stop, whatever answers come late or never and      *)
(* whatever comes between the steps of startTimer and the timeout; and as  *)
(* long as no operation is given up they run one at a time.                *)
(***************************************************************************)
EXTENDS BleQueue, FiniteSetTheorems, TLAPS

\* Nothing is in the queue, posted, timed or run that was not added.
Types ==
    /\ TypeOK
    /\ \A k \in 1 .. Len(queue) : queue[k] \in added
    /\ \A k \in 1 .. Len(posted) : posted[k] \in added
    /\ added \subseteq Cmds
    /\ timer \in added \cup {None}
    /\ \A c \in Cmds : timeouts[c] > 0 => c \in added
    /\ looper.pc \in {"set", "post"} => looper.head \in added
    /\ looper.pc \in {"set", "post", "task"} => looper.cmd \in added

\* Something will go on by itself once the looper rests.
Awaited == posted # <<>> \/ \E c \in Cmds : timeouts[c] > 0

\* The flag is set only while something is queued, but for a timeout about to reset it; and
\* what is queued is awaited, except where the looper is about to post a timer or a start.
Moving ==
    /\ busy => queue # <<>> \/ looper.pc = "reset"
    /\ queue # <<>> /\ looper.pc \in {"rest", "task"} => Awaited
    /\ looper.pc = "next" /\ busy => Awaited

IInv == Types /\ Moving

---------------------------------------------------------------------------
(* The parts that several steps share.                                     *)

LEMMA InitIInv == Init => IInv
<1> SUFFICES ASSUME Init PROVE IInv
  OBVIOUS
<1>1. TypeOK
  <2>1. timeouts \in [Cmds -> Nat] /\ clears \in 0 .. MaxClears
    BY BoundsAssumption DEF Init
  <2>2. looper \in [pc : {"rest", "set", "post", "task", "reset", "next"},
                    cmd : Cmds \cup {None}, head : Cmds \cup {None}]
    BY DEF Init, AtRest
  <2>3. queue \in Seq(Cmds) /\ posted \in Seq(Cmds)
    BY DEF Init
  <2> QED
    BY <2>1, <2>2, <2>3 DEF Init, TypeOK
<1>2. Types
  BY <1>1 DEF Init, Types, AtRest
<1>3. Moving
  BY DEF Init, Moving
<1> QED
  BY <1>2, <1>3 DEF IInv

LEMMA CancelTypes ==
    ASSUME Types, CancelTimer
    PROVE  /\ timeouts' \in [Cmds -> Nat] /\ timer' = None
           /\ \A c \in Cmds : timeouts'[c] > 0 => timeouts[c] > 0
BY DEF Types, TypeOK, CancelTimer

\* A completed command leaves a start posted, or nothing queued.
LEMMA CompletedTypes ==
    ASSUME Types, CompletedCommand
    PROVE  /\ queue' \in Seq(Cmds) /\ \A k \in 1 .. Len(queue') : queue'[k] \in added
           /\ posted' \in Seq(Cmds) /\ \A k \in 1 .. Len(posted') : posted'[k] \in added
           /\ answered' \subseteq added /\ busy' \in BOOLEAN
           /\ timeouts' \in [Cmds -> Nat] /\ timer' = None
           /\ \A c \in Cmds : timeouts'[c] > 0 => timeouts[c] > 0
           /\ queue' # <<>> => posted' # <<>>
           /\ IF queue = <<>> THEN busy' = busy ELSE busy' => queue' # <<>>
<1>1. /\ timeouts' \in [Cmds -> Nat] /\ timer' = None
      /\ \A c \in Cmds : timeouts'[c] > 0 => timeouts[c] > 0
  BY CancelTypes DEF CompletedCommand
<1>2. CASE queue = <<>>
  BY <1>1, <1>2 DEF CompletedCommand, Types, TypeOK
<1>3. CASE queue # <<>>
  <2>1. /\ queue' = Tail(queue) /\ answered' = answered \cup {Head(queue)}
        /\ busy' = (Tail(queue) # <<>>)
        /\ posted' = IF Tail(queue) = <<>> THEN posted ELSE Append(posted, Head(Tail(queue)))
    BY <1>3 DEF CompletedCommand, NextCommand
  <2>2. queue \in Seq(Cmds) /\ Len(queue) \in Nat /\ Len(queue) # 0
    BY <1>3 DEF Types, TypeOK
  <2>3. /\ Tail(queue) \in Seq(Cmds) /\ Len(Tail(queue)) = Len(queue) - 1
        /\ \A k \in 1 .. Len(queue) - 1 : Tail(queue)[k] = queue[k + 1]
    BY <1>3, <2>2
  <2>4. /\ Head(queue) \in added
        /\ \A k \in 1 .. Len(Tail(queue)) : Tail(queue)[k] \in added
    BY <1>3, <2>2, <2>3 DEF Types
  <2>5. Tail(queue) # <<>> => Head(Tail(queue)) \in added
    BY <2>3, <2>4
  <2>6. posted' \in Seq(Cmds) /\ (\A k \in 1 .. Len(posted') : posted'[k] \in added)
        /\ (Tail(queue) # <<>> => posted' # <<>>)
    <3>1. CASE Tail(queue) = <<>>
      BY <2>1, <3>1 DEF Types, TypeOK
    <3>2. CASE Tail(queue) # <<>>
      <4> DEFINE x == Head(Tail(queue))
      <4>1. x \in added /\ x \in Cmds /\ posted' = Append(posted, x)
        BY <2>1, <2>5, <3>2 DEF Types
      <4>2. posted \in Seq(Cmds) /\ \A k \in 1 .. Len(posted) : posted[k] \in added
        BY DEF Types, TypeOK
      <4> HIDE DEF x
      <4> QED
        BY <4>1, <4>2
    <3> QED
      BY <3>1, <3>2
  <2>7. answered' \subseteq added
    BY <2>1, <2>4 DEF Types, TypeOK
  <2> QED
    BY <1>1, <1>3, <2>1, <2>3, <2>4, <2>6, <2>7
<1> QED
  BY <1>2, <1>3

---------------------------------------------------------------------------
(* The steps.                                                              *)

LEMMA AddStep ==
    ASSUME IInv, NEW c \in Cmds, Add(c)
    PROVE  IInv'
<1> USE DEF IInv
<1>1. /\ queue' = Append(queue, c) /\ added' = added \cup {c}
      /\ busy' = TRUE
      /\ posted' = IF busy THEN posted ELSE Append(posted, Head(queue'))
      /\ UNCHANGED <<timer, timeouts, looper, flight, answered, ended, givenUp, clears>>
  <2>1. queue' = Append(queue, c) /\ queue \in Seq(Cmds)
    BY DEF Add, Types, TypeOK
  <2>2. queue' # <<>>
    BY <2>1
  <2>3. busy \in BOOLEAN
    BY DEF Types, TypeOK
  <2>4. busy' = (busy \/ queue' # <<>>)
        /\ posted' = IF busy \/ queue' = <<>> THEN posted ELSE Append(posted, Head(queue'))
    BY DEF Add, NextCommand
  <2>5. busy' = TRUE
    BY <2>2, <2>4
  <2>6. posted' = IF busy THEN posted ELSE Append(posted, Head(queue'))
    BY <2>2, <2>4
  <2> QED
    BY <2>1, <2>5, <2>6 DEF Add
<1>2. queue \in Seq(Cmds) /\ posted \in Seq(Cmds)
  BY DEF Types, TypeOK
<1>3. /\ queue' \in Seq(Cmds) /\ queue' # <<>> /\ Len(queue') = Len(queue) + 1
      /\ \A k \in 1 .. Len(queue') : queue'[k] \in added'
  BY <1>1, <1>2 DEF Types
<1>4. Head(queue') \in added' /\ Head(queue') \in Cmds
  BY <1>1, <1>3 DEF Types
<1>5. posted' \in Seq(Cmds) /\ \A k \in 1 .. Len(posted') : posted'[k] \in added'
  <2>1. CASE busy
    BY <1>1, <1>2, <2>1 DEF Types
  <2>2. CASE ~busy
    <3> DEFINE x == Head(queue')
    <3>1. posted' = Append(posted, x) /\ x \in added' /\ x \in Cmds
      BY <1>1, <1>4, <2>2
    <3>2. \A k \in 1 .. Len(posted) : posted[k] \in added'
      BY <1>1 DEF Types
    <3> HIDE DEF x
    <3> QED
      BY <1>2, <3>1, <3>2
  <2> QED
    BY <2>1, <2>2
<1>6. ~busy => posted' # <<>>
  BY <1>1, <1>2
<1>7. TypeOK'
  BY <1>1, <1>3, <1>5 DEF Types, TypeOK
<1>8. Types'
  BY <1>1, <1>3, <1>5, <1>7 DEF Types
<1>9. Moving'
  <2>1. CASE ~busy
    BY <1>3, <1>6, <2>1 DEF Moving, Awaited
  <2>2. CASE busy
    BY <1>1, <1>3, <2>2 DEF Moving, Awaited
  <2> QED
    BY <2>1, <2>2
<1> QED
  BY <1>8, <1>9

LEMMA AnswerStep ==
    ASSUME IInv, NEW c \in Cmds, Answer(c)
    PROVE  IInv'
<1> USE DEF IInv
<1>1. CompletedCommand /\ UNCHANGED <<looper, givenUp, added, clears>>
      /\ flight' = flight \ {c} /\ ended' = ended \cup {c} /\ c \in flight
  BY DEF Answer
<1>2. TypeOK'
  BY <1>1, CompletedTypes DEF Types, TypeOK
<1>3. Types'
  BY <1>1, <1>2, CompletedTypes DEF Types
<1>4. Moving'
  BY <1>1, CompletedTypes DEF Moving, Awaited
<1> QED
  BY <1>3, <1>4

LEMMA ClearStep ==
    ASSUME IInv, Clear
    PROVE  IInv'
<1> USE DEF IInv
<1>1. TypeOK'
  <2>1. queue' \in Seq(Cmds) /\ busy' \in BOOLEAN /\ clears' \in 0 .. MaxClears
        /\ givenUp' \subseteq added
    <3>1. clears' \in 0 .. MaxClears
      BY BoundsAssumption DEF Clear, Types, TypeOK
    <3>2. queue' = <<>> /\ busy' = FALSE
      BY DEF Clear
    <3>3. queue' \in Seq(Cmds)
      BY <3>2
    <3>4. busy' \in BOOLEAN
      BY <3>2
    <3>5. givenUp' \subseteq added
      BY DEF Clear
    <3> QED
      BY <3>1, <3>3, <3>4, <3>5
  <2> QED
    BY <2>1 DEF Clear, Types, TypeOK
<1>2. Types'
  BY <1>1 DEF Clear, Types
<1>3. Moving'
  BY DEF Clear, Moving
<1> QED
  BY <1>2, <1>3

Pcs == {"rest", "set", "post", "task", "reset", "next"}
LooperType == [pc : Pcs, cmd : Cmds \cup {None}, head : Cmds \cup {None}]

LEMMA StartStep ==
    ASSUME IInv, Start
    PROVE  IInv'
<1> USE DEF IInv
<1>0. looper \in LooperType /\ queue \in Seq(Cmds) /\ posted \in Seq(Cmds) /\ timeouts \in [Cmds -> Nat]
      /\ None \notin Cmds
  BY BoundsAssumption DEF Types, TypeOK, LooperType, Pcs
<1>1. CASE PeekHead
  <2>1. Head(posted) \in added /\ (queue # <<>> => Head(queue) \in added)
    BY <1>0, <1>1 DEF PeekHead, Types
  <2>2. /\ Tail(posted) \in Seq(Cmds)
        /\ \A k \in 1 .. Len(Tail(posted)) : Tail(posted)[k] \in added
    BY <1>0, <1>1 DEF PeekHead, Types
  <2>3. looper' \in LooperType
    BY <1>1, <2>1 DEF PeekHead, Types, LooperType, Pcs
  <2>4. /\ looper'.pc = IF queue = <<>> THEN "task" ELSE "set"
        /\ looper'.cmd \in added /\ (queue # <<>> => looper'.head \in added)
        /\ posted' = Tail(posted)
        /\ UNCHANGED <<queue, busy, timer, timeouts, flight, answered, ended, givenUp, added, clears>>
    BY <1>1, <2>1 DEF PeekHead
  <2>5. TypeOK'
    BY <2>2, <2>3, <2>4 DEF Types, TypeOK, LooperType, Pcs
  <2>6. Types'
    BY <2>2, <2>4, <2>5 DEF Types
  <2>7. Moving'
    BY <1>1, <2>4 DEF PeekHead, Moving
  <2> QED
    BY <2>6, <2>7
<1>2. CASE SetTimer
  <2>1. /\ timeouts' \in [Cmds -> Nat] /\ \A c \in Cmds : timeouts'[c] > 0 => timeouts[c] > 0
    BY <1>0, <1>2 DEF SetTimer, Types
  <2>2. looper' \in LooperType /\ looper'.pc = "post" /\ looper'.cmd = looper.cmd
        /\ looper'.head = looper.head /\ looper.pc = "set" /\ timer' = looper.head
        /\ UNCHANGED <<queue, busy, posted, flight, answered, ended, givenUp, added, clears>>
    BY <1>0, <1>2 DEF SetTimer, Goto, LooperType, Pcs
  <2>3. TypeOK'
    BY <2>1, <2>2 DEF Types, TypeOK, LooperType, Pcs
  <2>4. Types'
    BY <2>1, <2>2, <2>3 DEF Types
  <2>5. Moving'
    BY <2>2 DEF Moving
  <2> QED
    BY <2>4, <2>5
<1>3. CASE PostTimer
  <2>1. looper' \in LooperType /\ looper'.pc = "task" /\ looper'.cmd = looper.cmd
        /\ looper.pc = "post" /\ looper.head \in added /\ looper.head \in Cmds
        /\ timeouts' = [timeouts EXCEPT ![looper.head] = @ + 1]
        /\ UNCHANGED <<queue, busy, timer, posted, flight, answered, ended, givenUp, added, clears>>
    BY <1>0, <1>3 DEF PostTimer, Goto, LooperType, Pcs, Types
  <2>2. /\ timeouts' \in [Cmds -> Nat] /\ timeouts'[looper.head] > 0
        /\ \A c \in Cmds : c # looper.head => timeouts'[c] = timeouts[c]
    BY <1>0, <2>1
  <2>3. TypeOK'
    BY <2>1, <2>2 DEF Types, TypeOK, LooperType, Pcs
  <2>4. Types'
    BY <2>1, <2>2, <2>3 DEF Types
  <2>5. Moving'
    BY <2>1, <2>2 DEF Moving, Awaited
  <2> QED
    BY <2>4, <2>5
<1>4. CASE RunTask
  <2>1. looper' = AtRest /\ looper.pc = "task" /\ looper.cmd \in added
        /\ UNCHANGED <<givenUp, added, clears>>
    BY <1>4 DEF RunTask, Types
  <2>2. looper' \in LooperType /\ looper'.pc = "rest"
    BY <2>1 DEF AtRest, LooperType, Pcs
  <2>3. CASE /\ flight' = flight \cup {looper.cmd}
             /\ UNCHANGED <<queue, busy, timer, posted, timeouts, answered, ended>>
    <3>1. TypeOK'
      BY <2>1, <2>2, <2>3 DEF Types, TypeOK, LooperType, Pcs
    <3>2. Types'
      BY <2>1, <2>2, <2>3, <3>1 DEF Types
    <3>3. Moving'
      BY <2>1, <2>2, <2>3 DEF Moving, Awaited
    <3> QED
      BY <3>2, <3>3
  <2>4. CASE ended' = ended \cup {looper.cmd} /\ CompletedCommand /\ UNCHANGED flight
    <3>1. TypeOK'
      BY <2>1, <2>2, <2>4, CompletedTypes DEF Types, TypeOK, LooperType, Pcs
    <3>2. Types'
      BY <2>1, <2>2, <2>4, <3>1, CompletedTypes DEF Types
    <3>3. Moving'
      BY <2>1, <2>2, <2>4, CompletedTypes DEF Moving, Awaited
    <3> QED
      BY <3>2, <3>3
  <2> QED
    BY <1>4, <2>3, <2>4 DEF RunTask
<1> QED
  BY <1>1, <1>2, <1>3, <1>4 DEF Start

LEMMA TimeoutStep ==
    ASSUME IInv, Timeout
    PROVE  IInv'
<1> USE DEF IInv
<1>0. looper \in LooperType /\ queue \in Seq(Cmds) /\ posted \in Seq(Cmds) /\ timeouts \in [Cmds -> Nat]
      /\ busy \in BOOLEAN
  BY DEF Types, TypeOK, LooperType, Pcs
<1>1. ASSUME NEW c \in Cmds, TimeoutPolls(c) PROVE IInv'
  <2>1. /\ queue' \in Seq(Cmds) /\ \A k \in 1 .. Len(queue') : queue'[k] \in added
    BY <1>0, <1>1 DEF TimeoutPolls, Types
  <2>2. /\ timeouts' \in [Cmds -> Nat] /\ c \in added
        /\ \A d \in Cmds : timeouts'[d] > 0 => timeouts[d] > 0
    BY <1>0, <1>1 DEF TimeoutPolls, Types
  <2>3. looper' \in LooperType /\ looper'.pc = "reset" /\ givenUp' = givenUp \cup {c}
        /\ UNCHANGED <<busy, timer, posted, flight, answered, ended, added, clears>>
    BY <1>1 DEF TimeoutPolls, LooperType, Pcs
  <2>4. TypeOK'
    BY <2>1, <2>2, <2>3 DEF Types, TypeOK, LooperType, Pcs
  <2>5. Types'
    BY <2>1, <2>2, <2>3, <2>4 DEF Types
  <2>6. Moving'
    BY <2>3 DEF Moving
  <2> QED
    BY <2>5, <2>6
<1>2. CASE TimeoutResets
  <2>1. looper' \in LooperType /\ looper'.pc = "next" /\ busy' = FALSE
        /\ UNCHANGED <<queue, timer, posted, timeouts, flight, answered, ended, givenUp, added, clears>>
    BY <1>0, <1>2 DEF TimeoutResets, BusyAfterTimeout, Goto, LooperType, Pcs
  <2>2. TypeOK'
    BY <2>1 DEF Types, TypeOK, LooperType, Pcs
  <2>3. Types'
    BY <2>1, <2>2 DEF Types
  <2>4. Moving'
    BY <2>1 DEF Moving
  <2> QED
    BY <2>3, <2>4
<1>3. CASE TimeoutNext
  <2>1. looper' = AtRest /\ looper.pc = "next" /\ timer' = None
        /\ busy' = (busy \/ queue # <<>>)
        /\ posted' = (IF busy \/ queue = <<>> THEN posted ELSE Append(posted, Head(queue)))
        /\ UNCHANGED <<queue, timeouts, flight, answered, ended, givenUp, added, clears>>
    BY <1>3 DEF TimeoutNext, NextCommand
  <2>2. looper' \in LooperType /\ looper'.pc = "rest"
    BY <2>1 DEF AtRest, LooperType, Pcs
  <2>3. /\ posted' \in Seq(Cmds) /\ \A k \in 1 .. Len(posted') : posted'[k] \in added
        /\ queue # <<>> /\ ~busy => posted' # <<>>
        /\ posted # <<>> => posted' # <<>>
    <3>1. CASE busy \/ queue = <<>>
      BY <1>0, <2>1, <3>1 DEF Types
    <3>2. CASE ~busy /\ queue # <<>>
      <4> DEFINE x == Head(queue)
      <4>1. x \in added /\ x \in Cmds /\ posted' = Append(posted, x)
        BY <1>0, <2>1, <3>2 DEF Types
      <4>2. \A k \in 1 .. Len(posted) : posted[k] \in added
        BY DEF Types
      <4> HIDE DEF x
      <4> QED
        BY <1>0, <4>1, <4>2
    <3> QED
      BY <3>1, <3>2
  <2>4. busy' \in BOOLEAN
    BY <2>1
  <2>5. TypeOK'
    BY <2>1, <2>2, <2>3, <2>4 DEF Types, TypeOK, LooperType, Pcs
  <2>6. Types'
    BY <2>1, <2>2, <2>3, <2>5 DEF Types
  <2>7. Moving'
    BY <1>0, <2>1, <2>2, <2>3 DEF Moving, Awaited
  <2> QED
    BY <2>6, <2>7
<1> QED
  BY <1>1, <1>2, <1>3 DEF Timeout

LEMMA NextIInv == IInv /\ [Next]_vars => IInv'
<1> SUFFICES ASSUME IInv, [Next]_vars PROVE IInv'
  OBVIOUS
<1>1. CASE UNCHANGED vars
  BY <1>1 DEF vars, code, IInv, Types, TypeOK, Moving, Awaited
<1> QED
  BY <1>1, AddStep, AnswerStep, ClearStep, StartStep, TimeoutStep DEF Next

LEMMA Invariance == Spec => []IInv
BY InitIInv, NextIInv, PTL DEF Spec

---------------------------------------------------------------------------
\* Types; nothing is with the stack, answered or given up that was not added.
THEOREM Typed == Spec => []TypeOK
<1>1. IInv => TypeOK
  BY DEF IInv, Types
<1> QED
  BY <1>1, Invariance, PTL

\* The queue does not stop: what waits has a start posted, a timeout running, or the looper
\* about to go on.
THEOREM NeverStalls == Spec => []NoStall
<1>1. IInv => NoStall
  BY DEF IInv, Moving, Awaited, NoStall
<1> QED
  BY <1>1, Invariance, PTL
---------------------------------------------------------------------------
(* One operation at a time. While nothing has been given up, the head of   *)
(* the queue is the only operation that is posted, started or with the     *)
(* stack, and the only one with a timeout. Once something has, one         *)
(* operation is neither answered nor queued, and never will be: Clear,     *)
(* which sets givenUp anew, finds it again.                                *)

Silent == \A c \in Cmds : timeouts[c] = 0
Timed(h) == timer = h /\ \A c \in Cmds : timeouts[c] = IF c = h THEN 1 ELSE 0

Nothing ==
    posted = <<>> /\ looper.pc = "rest" /\ flight = {} /\ timer = None /\ Silent

Underway(h) ==
    \/ posted = <<h>> /\ looper.pc = "rest" /\ flight = {} /\ timer = None /\ Silent
    \/ /\ posted = <<>> /\ looper.pc = "set" /\ looper.cmd = h /\ looper.head = h
       /\ flight = {} /\ timer = None /\ Silent
    \/ /\ posted = <<>> /\ looper.pc = "post" /\ looper.cmd = h /\ looper.head = h
       /\ flight = {} /\ timer = h /\ Silent
    \/ posted = <<>> /\ looper.pc = "task" /\ looper.cmd = h /\ flight = {} /\ Timed(h)
    \/ posted = <<>> /\ looper.pc = "rest" /\ flight = {h} /\ Timed(h)

Orderly ==
    /\ ended = answered
    /\ \A i, j \in 1 .. Len(queue) : queue[i] = queue[j] => i = j
    /\ \A k \in 1 .. Len(queue) : queue[k] \notin answered
    /\ \A c \in added : c \in answered \/ \E k \in 1 .. Len(queue) : queue[k] = c
    /\ busy = (queue # <<>>)
    /\ IF queue = <<>> THEN Nothing ELSE Underway(Head(queue))

Queued(c) == \E k \in 1 .. Len(queue) : queue[k] = c

OneByOne ==
    /\ givenUp = {} => Orderly
    /\ givenUp # {} => \E c \in added \ answered : ~Queued(c)

\* What is neither answered nor queued stays so.
LEMMA LostStays ==
    ASSUME Types, [Next]_vars, NEW c \in added \ answered, ~Queued(c)
    PROVE  c \in added' \ answered' /\ ~Queued(c)'
<1> DEFINE Stays == c \in added' \ answered' /\ ~Queued(c)'
<1>0. queue \in Seq(Cmds) /\ queue = queue
  BY DEF Types, TypeOK
<1>1. CASE UNCHANGED <<queue, answered, added>>
  BY <1>1 DEF Queued
<1>2. CASE CompletedCommand /\ UNCHANGED added
  <2>1. CASE queue = <<>>
    BY <1>2, <2>1 DEF CompletedCommand, Queued
  <2>2. CASE queue # <<>>
    <3>1. queue' = Tail(queue) /\ answered' = answered \cup {Head(queue)} /\ added' = added
      BY <1>2, <2>2 DEF CompletedCommand
    <3>2. Head(queue) # c
      BY <1>0, <2>2 DEF Queued
    <3>3. \A k \in 1 .. Len(queue') : queue'[k] = queue[k + 1] /\ k + 1 \in 1 .. Len(queue)
      BY <1>0, <2>2, <3>1
    <3> QED
      BY <3>1, <3>2, <3>3 DEF Queued
  <2> QED
    BY <2>1, <2>2
<1>3. ASSUME NEW d \in Cmds, Add(d) PROVE Stays
  <2>1. queue' = Append(queue, d) /\ added' = added \cup {d} /\ answered' = answered /\ d # c
    BY <1>3 DEF Add
  <2>2. \A k \in 1 .. Len(queue') : queue'[k] = d \/ (k \in 1 .. Len(queue) /\ queue'[k] = queue[k])
    BY <1>0, <2>1
  <2> QED
    BY <2>1, <2>2 DEF Queued
<1>4. CASE queue' = <<>> /\ UNCHANGED <<answered, added>>
  BY <1>4 DEF Queued
<1>5. ASSUME NEW d \in Cmds, TimeoutPolls(d) PROVE Stays
  <2>1. CASE queue = <<>>
    BY <1>1, <1>5, <2>1 DEF TimeoutPolls
  <2>2. CASE queue # <<>>
    <3>1. queue' = Tail(queue) /\ answered' = answered /\ added' = added
      BY <1>5, <2>2 DEF TimeoutPolls
    <3>2. \A k \in 1 .. Len(queue') : queue'[k] = queue[k + 1] /\ k + 1 \in 1 .. Len(queue)
      BY <1>0, <2>2, <3>1
    <3> QED
      BY <3>1, <3>2 DEF Queued
  <2> QED
    BY <2>1, <2>2
<1>6. CASE Start
  BY <1>1, <1>2, <1>6 DEF Start, PeekHead, SetTimer, PostTimer, RunTask
<1>7. CASE TimeoutResets \/ TimeoutNext \/ UNCHANGED vars
  BY <1>1, <1>7 DEF TimeoutResets, TimeoutNext, vars, code
<1>8. CASE Clear
  BY <1>4, <1>8 DEF Clear
<1>9. ASSUME NEW d \in Cmds, Answer(d) PROVE Stays
  BY <1>2, <1>9 DEF Answer
<1> QED
  BY <1>3, <1>5, <1>6, <1>7, <1>8, <1>9 DEF Next, Timeout

\* The head of the queue is completed: the next one is posted, or nothing is left.
LEMMA CompletedOrderly ==
    ASSUME Types, Orderly, queue # <<>>, Timed(Head(queue)), posted = <<>>, CompletedCommand,
           ended' = ended \cup {Head(queue)}, looper'.pc = "rest", flight' = {}, added' = added
    PROVE  Orderly'
<1> DEFINE h == Head(queue)
<1>0. queue \in Seq(Cmds) /\ timeouts \in [Cmds -> Nat] /\ None \notin Cmds /\ h \in Cmds
  BY BoundsAssumption DEF Types, TypeOK
<1>1. /\ queue' = Tail(queue) /\ answered' = answered \cup {h}
      /\ busy' = (Tail(queue) # <<>>)
      /\ posted' = IF Tail(queue) = <<>> THEN <<>> ELSE <<Head(Tail(queue))>>
  <2>1. posted' = IF Tail(queue) = <<>> THEN posted ELSE Append(posted, Head(Tail(queue)))
    BY DEF CompletedCommand, NextCommand
  <2>2. Append(<<>>, Head(Tail(queue))) = <<Head(Tail(queue))>>
    OBVIOUS
  <2> QED
    BY <2>1, <2>2 DEF CompletedCommand, NextCommand
<1>2. timer' = None /\ Silent'
  <2>1. timer = h /\ timeouts[h] = 1 /\ h # None
    BY <1>0 DEF Timed
  <2>2. timeouts' = [timeouts EXCEPT ![h] = @ - 1] /\ timer' = None
    BY <2>1 DEF CompletedCommand, CancelTimer
  <2> QED
    BY <1>0, <2>1, <2>2 DEF Timed, Silent
<1>3. /\ Tail(queue) \in Seq(Cmds) /\ Len(Tail(queue)) = Len(queue) - 1
      /\ \A k \in 1 .. Len(Tail(queue)) : Tail(queue)[k] = queue[k + 1] /\ k + 1 \in 1 .. Len(queue)
      /\ h = queue[1] /\ 1 \in 1 .. Len(queue)
  BY <1>0
<1>4. \A i, j \in 1 .. Len(queue') : queue'[i] = queue'[j] => i = j
  <2> SUFFICES ASSUME NEW i \in 1 .. Len(Tail(queue)), NEW j \in 1 .. Len(Tail(queue)),
                      Tail(queue)[i] = Tail(queue)[j]
               PROVE  i = j
    BY <1>1
  <2>1. i + 1 = j + 1
    BY <1>3 DEF Orderly
  <2> QED
    BY <1>3, <2>1
<1>5. \A k \in 1 .. Len(queue') : queue'[k] \notin answered'
  <2> SUFFICES ASSUME NEW k \in 1 .. Len(Tail(queue))
               PROVE  Tail(queue)[k] \notin answered \cup {h}
    BY <1>1
  <2>1. queue[k + 1] \notin answered
    BY <1>3 DEF Orderly
  <2>2. queue[k + 1] = queue[1] => k + 1 = 1
    BY <1>3 DEF Orderly
  <2>3. k + 1 # 1
    BY <1>3
  <2> QED
    BY <1>3, <2>1, <2>2, <2>3
<1>6. \A c \in added' : c \in answered' \/ \E k \in 1 .. Len(queue') : queue'[k] = c
  <2> SUFFICES ASSUME NEW c \in added, c \notin answered, c # h
               PROVE  \E k \in 1 .. Len(Tail(queue)) : Tail(queue)[k] = c
    BY <1>1
  <2>1. PICK k \in 1 .. Len(queue) : queue[k] = c
    BY DEF Orderly
  <2>2. k # 1 /\ k - 1 \in 1 .. Len(Tail(queue)) /\ (k - 1) + 1 = k
    BY <1>3, <2>1
  <2> QED
    BY <1>3, <2>1, <2>2
<1>7. IF queue' = <<>> THEN Nothing' ELSE Underway(Head(queue))'
  BY <1>1, <1>2 DEF Nothing, Underway
<1>8. ended' = answered'
  BY <1>1 DEF Orderly
<1> QED
  BY <1>1, <1>4, <1>5, <1>6, <1>7, <1>8 DEF Orderly

LEMMA AddOrderly ==
    ASSUME Types, Orderly, NEW c \in Cmds, Add(c)
    PROVE  Orderly'
<1>0. queue \in Seq(Cmds) /\ c \notin added /\ c \notin answered
  BY DEF Types, TypeOK, Add
<1>1. /\ queue' = Append(queue, c) /\ added' = added \cup {c} /\ queue' # <<>>
      /\ UNCHANGED <<timer, timeouts, looper, flight, answered, ended, givenUp>>
  BY <1>0 DEF Add
<1>2. /\ Len(queue') = Len(queue) + 1 /\ queue'[Len(queue) + 1] = c
      /\ \A k \in 1 .. Len(queue) : queue'[k] = queue[k] /\ queue[k] # c /\ queue[k] \in added
      /\ Head(queue') = IF queue = <<>> THEN c ELSE Head(queue)
  BY <1>0, <1>1 DEF Types
<1>3. busy' = TRUE /\ posted' = IF queue = <<>> THEN Append(posted, c) ELSE posted
  <2>1. busy' = (busy \/ queue' # <<>>)
        /\ posted' = IF busy \/ queue' = <<>> THEN posted ELSE Append(posted, Head(queue'))
    BY DEF Add, NextCommand
  <2>2. busy = (queue # <<>>)
    BY DEF Orderly
  <2> QED
    BY <1>1, <1>2, <2>1, <2>2
<1>4. \A i, j \in 1 .. Len(queue') : queue'[i] = queue'[j] => i = j
  <2>1. \A i \in 1 .. Len(queue') : i \in 1 .. Len(queue) \/ i = Len(queue) + 1
    BY <1>0, <1>2
  <2> QED
    BY <1>2, <2>1 DEF Orderly
<1>5. \A k \in 1 .. Len(queue') : queue'[k] \notin answered'
  <2>1. \A i \in 1 .. Len(queue') : i \in 1 .. Len(queue) \/ i = Len(queue) + 1
    BY <1>0, <1>2
  <2> QED
    BY <1>0, <1>1, <1>2, <2>1 DEF Orderly
<1>6. \A d \in added' : d \in answered' \/ \E k \in 1 .. Len(queue') : queue'[k] = d
  <2>1. Len(queue) + 1 \in 1 .. Len(queue') /\ 1 .. Len(queue) \subseteq 1 .. Len(queue')
    BY <1>0, <1>2
  <2> QED
    BY <1>1, <1>2, <2>1 DEF Orderly
<1>7. Underway(Head(queue))'
  <2>1. CASE queue = <<>>
    <3>1. posted = <<>> /\ Append(<<>>, c) = <<c>>
      BY <2>1 DEF Orderly, Nothing
    <3> QED
      BY <1>1, <1>2, <1>3, <2>1, <3>1 DEF Orderly, Nothing, Underway, Silent
  <2>2. CASE queue # <<>>
    BY <1>1, <1>2, <1>3, <2>2 DEF Orderly, Underway, Silent, Timed
  <2> QED
    BY <2>1, <2>2
<1> QED
  BY <1>1, <1>3, <1>4, <1>5, <1>6, <1>7 DEF Orderly

LEMMA StartOrderly ==
    ASSUME Types, Orderly, Start
    PROVE  Orderly'
<1> DEFINE h == Head(queue)
<1>0. queue \in Seq(Cmds) /\ timeouts \in [Cmds -> Nat] /\ None \notin Cmds /\ looper \in LooperType
  BY BoundsAssumption DEF Types, TypeOK, LooperType, Pcs
<1>1. queue # <<>> /\ Underway(h) /\ h \in Cmds
  BY <1>0 DEF Start, PeekHead, SetTimer, PostTimer, RunTask, Orderly, Nothing
<1>2. CASE PeekHead
  <2>1. posted = <<h>> /\ flight = {} /\ timer = None /\ Silent
    BY <1>1, <1>2 DEF PeekHead, Underway
  <2>2. posted' = <<>> /\ Head(posted) = h
    BY <1>2, <2>1 DEF PeekHead
  <2>3. looper'.pc = "set" /\ looper'.cmd = h /\ looper'.head = h
    BY <1>1, <1>2, <2>2 DEF PeekHead
  <2> QED
    BY <1>1, <1>2, <2>1, <2>2, <2>3 DEF PeekHead, Orderly, Underway, Silent
<1>3. CASE SetTimer
  <2>1. /\ posted = <<>> /\ looper.cmd = h /\ looper.head = h /\ flight = {}
        /\ timer = None /\ Silent
    BY <1>1, <1>3 DEF SetTimer, Underway
  <2>2. looper'.pc = "post" /\ looper'.cmd = h /\ looper'.head = h
    BY <1>0, <1>3, <2>1 DEF SetTimer, Goto, LooperType
  <2> QED
    BY <1>1, <1>3, <2>1, <2>2 DEF SetTimer, Orderly, Underway, Silent
<1>4. CASE PostTimer
  <2>1. /\ posted = <<>> /\ looper.cmd = h /\ looper.head = h /\ flight = {}
        /\ timer = h /\ Silent
    BY <1>1, <1>4 DEF PostTimer, Underway
  <2>2. looper'.pc = "task" /\ looper'.cmd = h
    BY <1>0, <1>4, <2>1 DEF PostTimer, Goto, LooperType
  <2>3. timeouts' = [timeouts EXCEPT ![h] = @ + 1] /\ timer' = h /\ queue' = queue
    BY <1>4, <2>1 DEF PostTimer
  <2>4. Timed(h)'
    <3>1. \A c \in Cmds : timeouts'[c] = IF c = h THEN 1 ELSE 0
      BY <1>0, <1>1, <2>1, <2>3 DEF Silent
    <3> QED
      BY <2>3, <3>1 DEF Timed
  <2> QED
    BY <1>1, <1>4, <2>1, <2>2, <2>3, <2>4 DEF PostTimer, Orderly, Underway
<1>5. CASE RunTask
  <2>1. posted = <<>> /\ looper.cmd = h /\ flight = {} /\ Timed(h) /\ looper'.pc = "rest"
        /\ added' = added
    BY <1>1, <1>5 DEF RunTask, Underway, AtRest
  <2>2. CASE /\ flight' = flight \cup {looper.cmd}
             /\ UNCHANGED <<queue, busy, timer, posted, timeouts, answered, ended>>
    BY <1>1, <2>1, <2>2 DEF Orderly, Underway, Timed
  <2>3. CASE ended' = ended \cup {looper.cmd} /\ CompletedCommand /\ UNCHANGED flight
    BY <1>1, <2>1, <2>3, CompletedOrderly
  <2> QED
    BY <1>5, <2>2, <2>3 DEF RunTask
<1> QED
  BY <1>2, <1>3, <1>4, <1>5 DEF Start

\* The first operation to be given up is the head of the queue, and it leaves the queue.
LEMMA GiveUp ==
    ASSUME Types, Orderly, NEW c \in Cmds, TimeoutPolls(c)
    PROVE  \E d \in added' \ answered' : ~Queued(d)'
<1> DEFINE h == Head(queue)
<1>0. queue \in Seq(Cmds)
  BY DEF Types, TypeOK
<1>1. queue # <<>>
  BY DEF TimeoutPolls, Orderly, Nothing, Silent
<1>2. queue' = Tail(queue) /\ UNCHANGED <<added, answered>>
  BY <1>1 DEF TimeoutPolls
<1>3. h = queue[1] /\ 1 \in 1 .. Len(queue)
      /\ \A k \in 1 .. Len(Tail(queue)) : /\ Tail(queue)[k] = queue[k + 1] /\ k + 1 # 1
                                          /\ k + 1 \in 1 .. Len(queue)
  BY <1>0, <1>1
<1>4. h \in added \ answered
  BY <1>3 DEF Types, Orderly
<1>5. \A k \in 1 .. Len(queue') : queue'[k] # h
  BY <1>2, <1>3 DEF Orderly
<1> QED
  BY <1>2, <1>4, <1>5 DEF Queued

LEMMA OneByOneStep == Types /\ OneByOne /\ [Next]_vars => OneByOne'
<1> SUFFICES ASSUME Types, OneByOne, [Next]_vars PROVE OneByOne'
  OBVIOUS
<1>1. CASE Clear
  <2>1. queue' = <<>> /\ givenUp' = added \ answered /\ UNCHANGED <<added, answered>>
    BY <1>1 DEF Clear
  <2>2. givenUp' # {} => \E c \in added' \ answered' : ~Queued(c)'
    BY <2>1 DEF Queued
  <2>3. ASSUME givenUp' = {} PROVE Orderly'
    <3>1. givenUp = {} /\ Orderly
      BY <2>1, <2>3 DEF OneByOne
    <3>2. queue = <<>>
      <4> SUFFICES ASSUME queue # <<>> PROVE FALSE
        OBVIOUS
      <4>1. 1 \in 1 .. Len(queue)
        BY DEF Types, TypeOK
      <4> QED
        BY <2>1, <2>3, <3>1, <4>1 DEF Types, Orderly
    <3>3. queue' = <<>> /\ busy' = FALSE
          /\ UNCHANGED <<timer, posted, timeouts, looper, flight, answered, ended, added>>
      BY <1>1 DEF Clear
    <3>4. Nothing'
      <4>1. Nothing
        BY <3>1, <3>2 DEF Orderly
      <4> QED
        BY <3>3, <4>1 DEF Nothing, Silent
    <3>5. ended = answered /\ \A c \in added : c \in answered
      BY <3>1, <3>2 DEF Orderly
    <3>6. \A k \in 1 .. Len(queue') : FALSE
      BY <3>3
    <3>7. /\ ended' = answered' /\ \A c \in added' : c \in answered'
          /\ queue' = <<>> /\ busy' = (queue' # <<>>)
      BY <3>3, <3>5
    <3> QED
      BY <3>4, <3>6, <3>7 DEF Orderly
  <2> QED
    BY <2>2, <2>3 DEF OneByOne
<1>2. ASSUME ~Clear, givenUp # {} PROVE OneByOne'
  <2>1. PICK c \in added \ answered : ~Queued(c)
    BY <1>2 DEF OneByOne
  <2>2. c \in added' \ answered' /\ ~Queued(c)'
    BY <2>1, LostStays
  <2>3. givenUp' # {}
    BY <1>2 DEF Next, Start, Timeout, PeekHead, SetTimer, PostTimer, RunTask, TimeoutPolls,
                TimeoutResets, TimeoutNext, Add, Answer, vars, code
  <2> QED
    BY <2>2, <2>3 DEF OneByOne
<1>3. ASSUME ~Clear, givenUp = {} PROVE OneByOne'
  <2>0. Orderly
    BY <1>3 DEF OneByOne
  <2>1. CASE UNCHANGED vars
    BY <1>3, <2>0, <2>1 DEF vars, code, OneByOne, Orderly, Nothing, Underway, Silent, Timed
  <2>2. ASSUME NEW c \in Cmds, Add(c) PROVE OneByOne'
    BY <1>3, <2>0, <2>2, AddOrderly DEF Add, OneByOne
  <2>3. ASSUME NEW c \in Cmds, Answer(c) PROVE OneByOne'
    <3>1. /\ queue # <<>> /\ Head(queue) = c /\ posted = <<>> /\ flight = {c} /\ Timed(c)
          /\ looper.pc = "rest"
      BY <2>0, <2>3 DEF Answer, Orderly, Nothing, Underway
    <3>2. /\ CompletedCommand /\ ended' = ended \cup {c} /\ flight' = {} /\ looper'.pc = "rest"
          /\ UNCHANGED <<added, givenUp>>
      BY <2>3, <3>1 DEF Answer
    <3> QED
      BY <1>3, <2>0, <3>1, <3>2, CompletedOrderly DEF OneByOne
  <2>4. CASE Start
    <3>1. givenUp' = {}
      BY <1>3, <2>4 DEF Start, PeekHead, SetTimer, PostTimer, RunTask
    <3> QED
      BY <2>0, <2>4, <3>1, StartOrderly DEF OneByOne
  <2>5. ASSUME NEW c \in Cmds, TimeoutPolls(c) PROVE OneByOne'
    <3>1. givenUp' # {}
      BY <2>5 DEF TimeoutPolls
    <3> QED
      BY <2>0, <2>5, <3>1, GiveUp DEF OneByOne
  <2>6. ~TimeoutResets /\ ~TimeoutNext
    BY <2>0 DEF TimeoutResets, TimeoutNext, Orderly, Nothing, Underway
  <2> QED
    BY <1>3, <2>1, <2>2, <2>3, <2>4, <2>5, <2>6 DEF Next, Timeout
<1> QED
  BY <1>1, <1>2, <1>3

\* nextCommand's promise: as long as no operation was given up by a timeout or by clear, one
\* at a time is with the stack, and a callback reports the end of its own operation.
THEOREM OneAtATime == Spec => []Sequential
<1>1. Init => OneByOne
  <2> SUFFICES ASSUME Init PROVE Orderly /\ givenUp = {}
    BY DEF OneByOne
  <2>1. Nothing
    BY DEF Init, Nothing, Silent, AtRest
  <2>2. queue = <<>> /\ added = {} /\ ended = answered /\ busy = FALSE /\ givenUp = {}
    BY DEF Init
  <2>3. 1 .. Len(queue) = {}
    BY <2>2
  <2> QED
    BY <2>1, <2>2, <2>3, Zenon DEF Orderly
<1>2. IInv /\ OneByOne /\ [Next]_vars => OneByOne'
  BY OneByOneStep DEF IInv
<1>3. OneByOne => Sequential
  <2> SUFFICES ASSUME OneByOne, givenUp = {}
               PROVE  Cardinality(flight) <= 1 /\ answered \subseteq ended
    BY DEF Sequential
  <2>1. flight = {} \/ flight = {Head(queue)}
    BY DEF OneByOne, Orderly, Nothing, Underway
  <2>2. Cardinality(flight) = 0 \/ Cardinality(flight) = 1
    BY <2>1, FS_EmptySet, FS_Singleton, Zenon
  <2> QED
    BY <2>2 DEF OneByOne, Orderly
<1> QED
  BY <1>1, <1>2, <1>3, Invariance, PTL DEF Spec
=============================================================================
