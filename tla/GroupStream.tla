---------------------------- MODULE GroupStream ----------------------------
(***************************************************************************)
(* How the messenger receives the message log of one group                 *)
(* (subscriptions.go). In every session two goroutines share the work: the *)
(* live stream, which tails the log from now on and reconnects after a     *)
(* failure, and the reconciliation, which replays once what lies between   *)
(* the last stored interaction and the head of the log. Both start from    *)
(* one cursor, read from the database between the two openings.            *)
(*                                                                         *)
(* The protocol node is external: it keeps the log, and it cannot list a   *)
(* log since a message that the log does not hold. The messages here are   *)
(* those that leave a row; what their handlers do is GroupEvents.          *)
(***************************************************************************)
EXTENDS Naturals, Sequences

CONSTANTS
    Msgs,         \* messages of the group
    Pushed,       \* messages that a push notification may bring
    DateOf,       \* [Msgs -> Nat]: the date written by the sender
    MaxSessions,  \* bound on suspensions and crashes
    MaxFaults,    \* bound on failures of streams and handlers
    None          \* no cursor (a nil id)

ASSUME MsgsAssumption ==
    /\ Pushed \subseteq Msgs
    /\ DateOf \in [Msgs -> Nat]
    /\ \A m, n \in Msgs : DateOf[m] = DateOf[n] => m = n   \* the cid breaks ties
    /\ \A S \in SUBSET Msgs :                              \* they are finitely many
          S # {} => \E m \in S : \A n \in S : DateOf[n] <= DateOf[m]
    /\ None \notin Msgs
ASSUME BoundsAssumption == MaxSessions \in Nat /\ MaxFaults \in Nat

VARIABLES
    log,       \* the log held by the protocol node
    rows,      \* messages with an interaction row
    active,    \* the application is in the foreground
    live,      \* the live stream: position reached, where it was opened
    lastID,    \* its reconnect cursor
    seed,      \* the cursor read from the database for this session
    rec,       \* the reconciliation: position reached and head of the log
    skipped,   \* messages whose handler failed: only logged by the program
    sessions, faults

goroutines == <<live, lastID, seed, rec>>
vars == <<log, rows, active, goroutines, skipped, sessions, faults>>

NoLive == [pc |-> "off", at |-> 0, from |-> 0]
NoRec  == [pc |-> "off", at |-> 0, to |-> 0]

Init ==
    /\ log = <<>> /\ rows = {} /\ active = TRUE
    /\ live = NoLive /\ rec = NoRec /\ lastID = None /\ seed = None
    /\ skipped = {} /\ sessions = 0 /\ faults = 0

InLog(m) == \E k \in 1 .. Len(log) : log[k] = m
PosOf(m) == CHOOSE k \in 1 .. Len(log) : log[k] = m

Fault == faults < MaxFaults /\ faults' = faults + 1

---------------------------------------------------------------------------
(* The group and the push notifications.                                   *)

Publish(m) ==
    /\ ~InLog(m)
    /\ log' = Append(log, m)
    /\ UNCHANGED <<rows, active, goroutines, skipped, sessions, faults>>

\* HandleOutOfStoreAppMessage stores a row under the cid the message will have in
\* the log.
Push(m) ==
    /\ m \in Pushed \ rows
    /\ rows' = rows \cup {m}
    /\ UNCHANGED <<log, active, goroutines, skipped, sessions, faults>>

---------------------------------------------------------------------------
(* subscribeToMessages.                                                    *)

\* The live stream is opened first, from now.
OpenLive ==
    /\ active
    /\ live.pc = "off"
    /\ live' = [pc |-> "open", at |-> Len(log), from |-> Len(log)]
    /\ UNCHANGED <<log, rows, active, lastID, seed, rec, skipped, sessions, faults>>

\* lastIndexedMessageCursor: the stored row of the latest date.
LastIndexed ==
    IF rows = {} THEN None
    ELSE CHOOSE m \in rows : \A n \in rows : DateOf[n] <= DateOf[m]

\* Then the cursor is read and the two goroutines are started.
ReadCursor ==
    /\ live.pc = "open"
    /\ live' = [live EXCEPT !.pc = "on"]
    /\ seed' = LastIndexed
    /\ lastID' = LastIndexed
    /\ rec' = [NoRec EXCEPT !.pc = "start"]
    /\ UNCHANGED <<log, rows, active, skipped, sessions, faults>>

\* handleGroupMessageEvent: an error of the handler is logged and the stream
\* goes on.
Handle(m) ==
    \/ rows' = rows \cup {m} /\ UNCHANGED <<skipped, faults>>
    \/ Fault /\ skipped' = skipped \cup {m} /\ UNCHANGED rows

---------------------------------------------------------------------------
(* The live stream: streamGroupMessages and reconnectGroupMessages.        *)

LiveReceive ==
    /\ live.pc = "on"
    /\ live.at < Len(log)
    /\ Handle(log[live.at + 1])
    /\ live' = [live EXCEPT !.at = @ + 1]
    /\ lastID' = log[live.at + 1]
    /\ UNCHANGED <<log, active, seed, rec, sessions>>

LiveFails ==
    /\ live.pc = "on"
    /\ Fault
    /\ live' = [live EXCEPT !.pc = "down"]
    /\ UNCHANGED <<log, rows, active, lastID, seed, rec, skipped, sessions>>

\* The position a stream opened with this cursor starts after: from now without
\* a cursor. (Mutant: it always tails from now.)
ResumeAtBug(cursor) == Len(log)
ResumeAt(cursor) == IF cursor = None THEN Len(log) ELSE PosOf(cursor)

CanList(cursor) == cursor = None \/ InLog(cursor)

\* Attempts that fail change nothing, so only the one that succeeds is a step.
Reconnect ==
    /\ live.pc = "down"
    /\ CanList(lastID)
    /\ live' = [live EXCEPT !.pc = "on", !.at = ResumeAt(lastID)]
    /\ UNCHANGED <<log, rows, active, lastID, seed, rec, skipped, sessions, faults>>

---------------------------------------------------------------------------
(* The reconciliation: reconcileGroupMessages and drainBoundedStream.      *)

\* Without a cursor the log is listed from its start.
ReplayFrom(cursor) == IF cursor = None THEN 0 ELSE PosOf(cursor)

OpenReconcile ==
    /\ rec.pc = "start"
    /\ CanList(seed)
    /\ rec' = [pc |-> "on", at |-> ReplayFrom(seed), to |-> Len(log)]
    /\ UNCHANGED <<log, rows, active, live, lastID, seed, skipped, sessions, faults>>

ReconcileReceive ==
    /\ rec.pc = "on"
    /\ rec.at < rec.to
    /\ Handle(log[rec.at + 1])
    /\ rec' = [rec EXCEPT !.at = @ + 1]
    /\ UNCHANGED <<log, active, live, lastID, seed, sessions>>

ReconcileEnds ==
    /\ rec.pc = "on"
    /\ rec.at = rec.to
    /\ rec' = [rec EXCEPT !.pc = "done"]
    /\ UNCHANGED <<log, rows, active, live, lastID, seed, skipped, sessions, faults>>

\* It gives up when the log cannot be listed or the stream ends early, and is not
\* tried again.
ReconcileFails ==
    /\ rec.pc \in {"start", "on"}
    /\ \/ Fault
       \/ rec.pc = "start" /\ ~CanList(seed) /\ UNCHANGED faults
    /\ rec' = [rec EXCEPT !.pc = "failed"]
    /\ UNCHANGED <<log, rows, active, live, lastID, seed, skipped, sessions>>

---------------------------------------------------------------------------
(* Sessions (manageSubscriptions).                                         *)

\* The subscription context is cancelled, or the process dies.
Leave ==
    /\ active
    /\ sessions < MaxSessions
    /\ sessions' = sessions + 1
    /\ active' = FALSE
    /\ live' = NoLive /\ rec' = NoRec /\ lastID' = None /\ seed' = None
    /\ UNCHANGED <<log, rows, skipped, faults>>

Enter ==
    /\ ~active
    /\ active' = TRUE
    /\ UNCHANGED <<log, rows, goroutines, skipped, sessions, faults>>

---------------------------------------------------------------------------
Subscribe == OpenLive \/ ReadCursor
LiveStream == LiveReceive \/ LiveFails \/ Reconnect
Reconciliation == OpenReconcile \/ ReconcileReceive \/ ReconcileEnds \/ ReconcileFails

Next == \/ \E m \in Msgs : Publish(m) \/ Push(m)
        \/ Subscribe \/ LiveStream \/ Reconciliation
        \/ Leave \/ Enter

Spec == Init /\ [][Next]_vars

\* A goroutine that can receive does, and the retries of the reconnection, 30
\* seconds apart at most, succeed in the end.
Fairness == WF_vars(Subscribe) /\ WF_vars(LiveReceive) /\ WF_vars(Reconnect)
FairSpec == Spec /\ Fairness

---------------------------------------------------------------------------
(* Properties.                                                             *)

Handled == {m \in Msgs : m \in rows \/ m \in skipped}

\* Types; no goroutine is past the head of what it lists.
TypeOK ==
    /\ log \in Seq(Msgs)
    /\ rows \subseteq Msgs /\ skipped \subseteq Msgs
    /\ active \in BOOLEAN
    /\ live \in [pc : {"off", "open", "on", "down"}, at : 0 .. Len(log), from : 0 .. Len(log)]
    /\ rec \in [pc : {"off", "start", "on", "done", "failed"}, at : 0 .. Len(log),
                to : 0 .. Len(log)]
    /\ rec.at <= rec.to
    /\ lastID \in Msgs \cup {None} /\ seed \in Msgs \cup {None}
    /\ ~active => live = NoLive /\ rec = NoRec
    /\ sessions \in 0 .. MaxSessions /\ faults \in 0 .. MaxFaults

\* The two goroutines leave no hole between them: once the reconciliation has
\* ended, everything between the cursor they both started from and the position
\* of the live stream has been handled, wherever the stream failed and resumed
\* and whatever was pushed or published between the opening and the cursor.
SessionIndexed ==
    rec.pc = "done" /\ seed # None =>
        \A k \in PosOf(seed) + 1 .. live.at : log[k] \in Handled

\* The cursor is a message that the log held when the stream was opened, not one
\* that a push has brought ahead of the log.
CursorBehind == \E k \in 1 .. live.from : log[k] = seed

\* What reaches the log while its group is subscribed to is handled, whatever
\* the failures of the live stream, as long as there was such a row to start from.
Backfilled ==
    \A m \in Msgs :
        CursorBehind /\ (\E k \in live.from + 1 .. Len(log) : log[k] = m)
            ~> m \in Handled \/ ~active
============================================================================
