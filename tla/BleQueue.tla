----------------------------- MODULE BleQueue ------------------------------
(***************************************************************************)
(* The queue of Bluetooth LE operations of one device on Android           *)
(* (bledriver/BleQueue.java). Operations are started one at a time by a    *)
(* Handler (the looper thread); the Bluetooth stack answers on threads of  *)
(* its own, which call completedCommand without saying for which           *)
(* operation; a timer gives an operation up after five seconds.            *)
(*                                                                         *)
(* The methods of the queue are synchronized, but startTimer and the       *)
(* timeout run on the looper without the lock: they are split into the     *)
(* steps between which another thread can come in. Payloads, statuses and  *)
(* retryCommand, which nothing calls, are left out.                        *)
(***************************************************************************)
EXTENDS Naturals, Sequences, FiniteSets

CONSTANTS
    Cmds,        \* operations asked of the device, each once
    MaxClears,   \* bound on disconnections
    None

ASSUME BoundsAssumption == MaxClears \in Nat /\ None \notin Cmds

VARIABLES
    queue,     \* mCommandQueue
    busy,      \* mCommandQueueBusy
    timer,     \* mTimeoutRunnable: the operation it was made for
    posted,    \* operations whose start is posted on the looper
    timeouts,  \* per operation, the timeouts posted on the looper
    looper,    \* what the looper runs
    flight,    \* operations that the Bluetooth stack has not answered
    answered,  \* operations whose callback has been run
    ended,     \* operations that the stack answered or refused
    givenUp,   \* operations timed out or cleared
    added, clears

code == <<queue, busy, timer, posted, timeouts, looper>>
vars == <<code, flight, answered, ended, givenUp, added, clears>>

AtRest == [pc |-> "rest", cmd |-> None, head |-> None]

Init ==
    /\ queue = <<>> /\ busy = FALSE /\ timer = None
    /\ posted = <<>> /\ timeouts = [c \in Cmds |-> 0] /\ looper = AtRest
    /\ flight = {} /\ answered = {} /\ ended = {} /\ givenUp = {}
    /\ added = {} /\ clears = 0

---------------------------------------------------------------------------
(* The synchronized methods.                                               *)

\* nextCommand on the queue q. (Mutant: a command in progress is not waited for.)
NextCommandBug(q, isBusy) ==
    /\ busy' = (isBusy \/ q # <<>>)
    /\ posted' = IF q = <<>> THEN posted ELSE Append(posted, Head(q))
NextCommand(q, isBusy) ==
    /\ busy' = (isBusy \/ q # <<>>)
    /\ posted' = IF isBusy \/ q = <<>> THEN posted ELSE Append(posted, Head(q))

\* cancelTimer.
CancelTimer ==
    /\ timeouts' = IF timer = None \/ timeouts[timer] = 0 THEN timeouts
                   ELSE [timeouts EXCEPT ![timer] = @ - 1]
    /\ timer' = None

CompletedCommand ==
    /\ CancelTimer
    /\ IF queue = <<>>
         THEN UNCHANGED <<queue, busy, posted, answered>>
         ELSE /\ queue' = Tail(queue)
              /\ answered' = answered \cup {Head(queue)}
              /\ NextCommand(Tail(queue), FALSE)

Add(c) ==
    /\ c \notin added
    /\ added' = added \cup {c}
    /\ queue' = Append(queue, c)
    /\ NextCommand(queue', busy)
    /\ UNCHANGED <<timer, timeouts, looper, flight, answered, ended, givenUp, clears>>

\* The stack answers an operation, on time or not; it may also never answer.
Answer(c) ==
    /\ c \in flight
    /\ flight' = flight \ {c}
    /\ ended' = ended \cup {c}
    /\ CompletedCommand
    /\ UNCHANGED <<looper, givenUp, added, clears>>

\* clear, when the connection is lost. What is posted stays posted: removeCallbacks
\* is given the task, not the Runnable that was posted.
Clear ==
    /\ clears < MaxClears
    /\ clears' = clears + 1
    /\ queue' = <<>>
    /\ busy' = FALSE
    /\ givenUp' = added \ answered
    /\ UNCHANGED <<timer, posted, timeouts, looper, flight, answered, ended, added>>

---------------------------------------------------------------------------
(* The looper starts the next command: startTimer, then the task.          *)

Goto(pc) == looper' = [looper EXCEPT !.pc = pc]

PeekHead ==
    /\ looper.pc = "rest"
    /\ posted # <<>>
    /\ posted' = Tail(posted)
    /\ looper' = [pc |-> IF queue = <<>> THEN "task" ELSE "set", cmd |-> Head(posted),
                  head |-> IF queue = <<>> THEN None ELSE Head(queue)]
    /\ UNCHANGED <<queue, busy, timer, timeouts, flight, answered, ended, givenUp, added, clears>>

SetTimer ==
    /\ looper.pc = "set"
    /\ timeouts' = IF timer = None \/ timeouts[timer] = 0 THEN timeouts
                   ELSE [timeouts EXCEPT ![timer] = @ - 1]
    /\ timer' = looper.head
    /\ Goto("post")
    /\ UNCHANGED <<queue, busy, posted, flight, answered, ended, givenUp, added, clears>>

PostTimer ==
    /\ looper.pc = "post"
    /\ timeouts' = [timeouts EXCEPT ![looper.head] = @ + 1]
    /\ Goto("task")
    /\ UNCHANGED <<queue, busy, timer, posted, flight, answered, ended, givenUp, added, clears>>

\* The operation is handed to the stack, or refused: the task then calls
\* completedCommand itself.
RunTask ==
    /\ looper.pc = "task"
    /\ looper' = AtRest
    /\ \/ /\ flight' = flight \cup {looper.cmd}
          /\ UNCHANGED <<queue, busy, timer, posted, timeouts, answered, ended>>
       \/ /\ ended' = ended \cup {looper.cmd}
          /\ CompletedCommand
          /\ UNCHANGED flight
    /\ UNCHANGED <<givenUp, added, clears>>

---------------------------------------------------------------------------
(* The looper runs a timeout: the head of the queue is dropped, whichever  *)
(* command the timer was made for.                                         *)

TimeoutPolls(c) ==
    /\ looper.pc = "rest"
    /\ timeouts[c] > 0
    /\ timeouts' = [timeouts EXCEPT ![c] = @ - 1]
    /\ queue' = IF queue = <<>> THEN queue ELSE Tail(queue)
    /\ givenUp' = givenUp \cup {c}
    /\ looper' = [pc |-> "reset", cmd |-> c, head |-> None]
    /\ UNCHANGED <<busy, timer, posted, flight, answered, ended, added, clears>>

\* (Mutant: the flag is not reset.)
BusyAfterTimeoutBug == busy
BusyAfterTimeout == FALSE

TimeoutResets ==
    /\ looper.pc = "reset"
    /\ busy' = BusyAfterTimeout
    /\ Goto("next")
    /\ UNCHANGED <<queue, timer, posted, timeouts, flight, answered, ended, givenUp, added, clears>>

\* The cancel task disconnects, which ends in Clear; then the next command.
TimeoutNext ==
    /\ looper.pc = "next"
    /\ looper' = AtRest
    /\ timer' = None
    /\ NextCommand(queue, busy)
    /\ UNCHANGED <<queue, timeouts, flight, answered, ended, givenUp, added, clears>>

---------------------------------------------------------------------------
Start == PeekHead \/ SetTimer \/ PostTimer \/ RunTask
Timeout == TimeoutResets \/ TimeoutNext \/ \E c \in Cmds : TimeoutPolls(c)

Next == Start \/ Timeout \/ Clear \/ \E c \in Cmds : Add(c) \/ Answer(c)

Spec == Init /\ [][Next]_vars

\* The looper runs what is posted.
FairSpec == Spec /\ WF_vars(Start \/ Timeout)

---------------------------------------------------------------------------
(* Properties.                                                             *)

TypeOK ==
    /\ queue \in Seq(Cmds) /\ busy \in BOOLEAN
    /\ timer \in Cmds \cup {None}
    /\ posted \in Seq(Cmds)
    /\ timeouts \in [Cmds -> Nat]
    /\ looper \in [pc : {"rest", "set", "post", "task", "reset", "next"},
                   cmd : Cmds \cup {None}, head : Cmds \cup {None}]
    /\ flight \subseteq added /\ answered \subseteq added /\ ended \subseteq added
    /\ givenUp \subseteq added
    /\ clears \in 0 .. MaxClears

\* Whatever answers come late, to the wrong command or never, and whatever the
\* timeout does without the lock, the queue does not stop: a command that waits has
\* a start posted, a timeout running, or the looper about to go on.
NoStall ==
    queue # <<>> => posted # <<>> \/ looper.pc # "rest" \/ \E c \in Cmds : timeouts[c] > 0

\* Every command leaves the queue.
Drains == \A c \in Cmds : c \in added ~> \A k \in 1 .. Len(queue) : queue[k] # c

\* The comment of nextCommand: "the calls have to be executed sequentially". As long
\* as no operation has been given up, one at a time is with the stack, whatever
\* threads add and answer operations, and a callback reports the end of its own.
Sequential ==
    givenUp = {} => Cardinality(flight) <= 1 /\ answered \subseteq ended
============================================================================
