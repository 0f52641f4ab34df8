---------------------------- MODULE GroupEvents ----------------------------
(***************************************************************************)
(* How the messenger turns the logs of one multi-member group into rows of *)
(* its database: the metadata handlers and the application-message         *)
(* handlers of messengerpayloads/handlers.go over the operations of        *)
(* messengerdb/db.go.                                                      *)
(*                                                                         *)
(* Three kinds of goroutine meet at the database:                          *)
(*   - the metadata listing of the group, one event at a time (the         *)
(*     subscription takes handlerMutex around every event), replayed from  *)
(*     the start of the log at every subscription;                         *)
(*   - the message goroutines (the live stream and the start-up replay of  *)
(*     subscriptions.go), which take no mutex: only their transactions     *)
(*     are serialised, by the single SQLite connection;                    *)
(*   - the delivery of push notifications, outside of any transaction.     *)
(* Each action is the longest stretch of one goroutine between two points  *)
(* where another can touch the database.                                   *)
(*                                                                         *)
(* Abstracted: payload bodies, dates of messages other than SetUserInfo,   *)
(* relations that are only loaded for the UI, the full-text index, and     *)
(* notifications (a client that cannot be reached is only logged).         *)
(* Other payload types (reactions, group info, push tokens, invitations)   *)
(* are left out.                                                           *)
(***************************************************************************)
EXTENDS Naturals, Sequences, FiniteSets

CONSTANTS
    Devices, Members,     \* devices and members of the group, own ones included
    MemberOf,             \* [Devices -> Members]: the member a device belongs to
    OwnDevice,            \* the device this messenger runs on
    Creator,              \* the member announced as creator of the group
    UserMsgs,             \* user messages of the group's message log
    AckMsgs,              \* acknowledgements of the group's message log
    InfoMsgs,             \* SetUserInfo payloads of the group's metadata log
    DeviceOf,             \* [Msgs -> Devices]: the sending device
    TargetOf,             \* [AckMsgs -> UserMsgs]: the acknowledged message
    DateOf,               \* [InfoMsgs -> Nat]: the date written in a SetUserInfo
    Workers,              \* goroutines that handle messages of the group
    MaxSessions,          \* bound on crashes and new subscriptions
    None                  \* no member, no message

Msgs  == UserMsgs \cup AckMsgs \cup InfoMsgs
Notes == AckMsgs \cup InfoMsgs   \* rows that may leave the table again
OwnMember == MemberOf[OwnDevice]

ASSUME MemberAssumption ==
    /\ MemberOf \in [Devices -> Members]
    /\ OwnDevice \in Devices
    /\ Creator \in Members
    /\ Creator \notin Devices \cup InfoMsgs
    /\ Devices \cap InfoMsgs = {}
ASSUME LogAssumption ==
    /\ UserMsgs \cap AckMsgs = {}
    /\ UserMsgs \cap InfoMsgs = {}
    /\ AckMsgs \cap InfoMsgs = {}
    /\ IsFiniteSet(Notes)
    /\ DeviceOf \in [Msgs -> Devices]
    /\ TargetOf \in [AckMsgs -> UserMsgs]
    /\ DateOf \in [InfoMsgs -> Nat]
ASSUME NoneAssumption == None \notin Msgs \cup Members \cup Devices
ASSUME SessionAssumption == MaxSessions \in Nat

VARIABLES
    \* tables of the database
    known,      \* devices with a row
    members,    \* members with a row
    creators,   \* members marked as creator of the conversation
    name,       \* per member, the SetUserInfo its display name comes from
    infoDate,   \* per member, the date stored with its name
    stored,     \* messages with an interaction row
    older,      \* rowid order of the stored rows among Notes
    author,     \* per interaction row, the member column (None: the backlog)
    acked,      \* interaction rows marked as acknowledged
    pushed,     \* interaction rows that came with a push notification
    unread,     \* the unread counter of the conversation
    isOpen,     \* the conversation is marked as open
    \* goroutines
    job,        \* per worker, the message it handles and how far it is
    push,       \* the push notification being handled
    meta,       \* the groupMemberDeviceAdded event being handled
    \* the logs and the outside
    metaTodo,   \* metadata events not handled yet in this session
    acksSent,   \* acknowledgements sent for a message
    sessions,   \* crashes and new subscriptions so far
    settled     \* this listing of the metadata started from a complete state

tables == <<known, members, creators, name, infoDate, stored, older, author,
            acked, pushed, unread, isOpen>>
vars == <<tables, job, push, meta, metaTodo, acksSent, sessions, settled>>

IdleJob  == [pc |-> "idle", msg |-> None, mine |-> FALSE]
IdlePush == [pc |-> "idle", msg |-> None, member |-> None]
IdleMeta == [pc |-> "idle", dev |-> None, queue |-> <<>>, info |-> None]

\* The events of the metadata log: devices added, the creator's announcement
\* and the SetUserInfo payloads.
MetaLog == Devices \cup {Creator} \cup InfoMsgs

Init ==
    /\ known = {} /\ members = {} /\ creators = {}
    /\ name = [p \in Members |-> None]
    /\ infoDate = [p \in Members |-> 0]
    /\ stored = {} /\ older = {} /\ acked = {} /\ pushed = {}
    /\ author = [m \in Msgs |-> None]
    /\ unread = 0 /\ isOpen = FALSE
    /\ job = [w \in Workers |-> IdleJob]
    /\ push = IdlePush /\ meta = IdleMeta
    /\ metaTodo = MetaLog
    /\ acksSent = [m \in UserMsgs |-> 0]
    /\ sessions = 0 /\ settled = FALSE

---------------------------------------------------------------------------
(* Helpers on the tables.                                                  *)

\* For the mutants of the runs: the device key stored as member.
MemberForBug(d) == IF d \in known THEN d ELSE None

MemberFor(d) == IF d \in known THEN MemberOf[d] ELSE None

IsMine(d) == IF d \in known THEN MemberOf[d] = OwnMember ELSE d = OwnDevice

Synced == stored \ pushed

\* The rowid order once m is appended, and once the rows S are deleted.
Appended(m) == older \cup ((stored \cap Notes) \X {m})
Without(S) == {p \in older : p[1] \notin S /\ p[2] \notin S}

\* The rows that are added or marked where they are not yet.
MarkInteractionAsAcknowledged(m) == acked' = acked \cup {m}
AddDevice(d) == known' = known \cup {d}
AddMember(p) == members' = members \cup {p}

\* AddInteraction reports a row as new when it has created it or replaced the
\* one of a push. (Mutant: every handled message is reported as new.)
IsNewBug(m) == TRUE
IsNew(m) == m \notin Synced

\* (Mutant: acknowledgements are never consumed.)
WaitingAcksBug(m) == {}
WaitingAcks(m) == {a \in AckMsgs \cap stored : TargetOf[a] = m}

---------------------------------------------------------------------------
(* Application messages, by any worker, in any order and any number of     *)
(* times: the live stream and the replay overlap.                          *)

\* interactionFromAppMessage looks the device up before the transaction.
BuildInteraction(w, m) ==
    /\ job[w].pc = "idle"
    /\ job' = [job EXCEPT ![w] = [pc |-> "tx", msg |-> m, mine |-> IsMine(DeviceOf[m])]]
    /\ UNCHANGED <<tables, push, meta, metaTodo, acksSent, sessions, settled>>

\* The transaction of HandleAppMessage for a user message: the row is created,
\* or takes the place of the one a push left; waiting acknowledgements are
\* deleted. The row itself is not marked: interactionConsumeAck only sets the
\* flag of the object in memory.
StoreUserMessage(w) ==
    LET m       == job[w].msg
        isNew   == IsNew(m)
        waiting == WaitingAcks(m)
    IN  /\ job[w].pc = "tx"
        /\ m \in UserMsgs
        /\ stored' = (stored \cup {m}) \ waiting
        /\ pushed' = pushed \ {m}
        /\ older' = Without(waiting)
        /\ author' = [x \in Msgs |-> IF x = m /\ isNew THEN MemberFor(DeviceOf[m])
                                     ELSE IF x \in waiting THEN None ELSE author[x]]
        /\ acked' = IF isNew THEN acked \ {m} ELSE acked
        /\ job' = [job EXCEPT ![w] =
                      IF ~isNew THEN IdleJob
                      ELSE [@ EXCEPT !.pc = IF job[w].mine THEN "visible" ELSE "ack"]]
        /\ UNCHANGED <<known, members, creators, name, infoDate, unread, isOpen,
                       push, meta, metaTodo, acksSent, sessions, settled>>

\* The transaction for an acknowledgement: its target is marked if it has a
\* row, otherwise the acknowledgement waits as a row of its own.
HandleAcknowledge(w) ==
    LET a == job[w].msg
        t == TargetOf[a]
    IN  /\ job[w].pc = "tx"
        /\ a \in AckMsgs
        /\ IF t \in stored
             THEN /\ MarkInteractionAsAcknowledged(t)
                  /\ UNCHANGED <<stored, older, author>>
             ELSE /\ stored' = stored \cup {a}
                  /\ older' = IF a \in stored THEN older ELSE Appended(a)
                  /\ author' = IF a \in stored THEN author
                               ELSE [author EXCEPT ![a] = MemberFor(DeviceOf[a])]
                  /\ UNCHANGED acked
        /\ job' = [job EXCEPT ![w] = IdleJob]
        /\ UNCHANGED <<known, members, creators, name, infoDate, pushed, unread, isOpen,
                       push, meta, metaTodo, acksSent, sessions, settled>>

\* InteractionReceived, the action registered to run after the commit.
SendAck(w) ==
    /\ job[w].pc = "ack"
    /\ acksSent' = [acksSent EXCEPT ![job[w].msg] = @ + 1]
    /\ job' = [job EXCEPT ![w].pc = "visible"]
    /\ UNCHANGED <<tables, push, meta, metaTodo, sessions, settled>>

\* dispatchVisibleInteraction, a transaction of its own.
DispatchVisible(w) ==
    /\ job[w].pc = "visible"
    /\ unread' = IF job[w].mine \/ isOpen THEN unread ELSE unread + 1
    /\ job' = [job EXCEPT ![w] = IdleJob]
    /\ UNCHANGED <<known, members, creators, name, infoDate, stored, older, author, acked,
                   pushed, isOpen, push, meta, metaTodo, acksSent, sessions, settled>>

---------------------------------------------------------------------------
(* A push notification carries a user message: HandleOutOfStoreAppMessage. *)

PushCheck(m) ==
    /\ push.pc = "idle"
    /\ m \notin stored
    /\ push' = [pc |-> "lookup", msg |-> m, member |-> None]
    /\ UNCHANGED <<tables, job, meta, metaTodo, acksSent, sessions, settled>>

PushLookup ==
    /\ push.pc = "lookup"
    /\ push' = [push EXCEPT !.pc = "add", !.member = MemberFor(DeviceOf[push.msg])]
    /\ UNCHANGED <<tables, job, meta, metaTodo, acksSent, sessions, settled>>

\* AddInteraction keeps the row of a message that was synchronised meanwhile.
PushAdd ==
    /\ push.pc = "add"
    /\ IF push.msg \in stored
         THEN UNCHANGED <<stored, pushed, author>>
         ELSE /\ stored' = stored \cup {push.msg}
              /\ pushed' = pushed \cup {push.msg}
              /\ author' = [author EXCEPT ![push.msg] = push.member]
    /\ push' = IdlePush
    /\ UNCHANGED <<known, members, creators, name, infoDate, older, acked, unread, isOpen,
                   job, meta, metaTodo, acksSent, sessions, settled>>

---------------------------------------------------------------------------
(* Metadata events, one after the other.                                   *)

\* multiMemberGroupInitialMemberAnnounced.
AnnounceInitialMember ==
    /\ meta.pc = "idle"
    /\ Creator \in metaTodo
    /\ AddMember(Creator)
    /\ creators' = creators \cup {Creator}
    /\ metaTodo' = metaTodo \ {Creator}
    /\ UNCHANGED <<known, name, infoDate, stored, older, author, acked, pushed, unread,
                   isOpen, job, push, meta, acksSent, sessions, settled>>

\* handleAppMessageSetUserInfo from a device without a row: to the backlog.
BacklogUserInfo(i) ==
    /\ meta.pc = "idle"
    /\ i \in metaTodo
    /\ MemberFor(DeviceOf[i]) = None
    /\ stored' = stored \cup {i}
    /\ older' = IF i \in stored THEN older ELSE Appended(i)
    /\ metaTodo' = metaTodo \ {i}
    /\ UNCHANGED <<known, members, creators, name, infoDate, author, acked, pushed,
                   unread, isOpen, job, push, meta, acksSent, sessions, settled>>

\* (Mutant: the last payload handled wins.)
OutdatedBug(p, i) == FALSE
Outdated(p, i) == infoDate[p] > DateOf[i]

\* handleAppMessageSetUserInfo for a known device. The newest date wins. Without
\* a member row the upsert creates one that carries no keys, does not find it
\* and rolls back.
SetUserInfo(i) ==
    LET p       == MemberFor(DeviceOf[i])
        applies == p \in members /\ ~Outdated(p, i)
    IN  /\ meta.pc = "idle"
        /\ i \in metaTodo
        /\ p # None
        /\ name' = IF applies THEN [name EXCEPT ![p] = i] ELSE name
        /\ infoDate' = IF applies THEN [infoDate EXCEPT ![p] = DateOf[i]] ELSE infoDate
        /\ metaTodo' = metaTodo \ {i}
        /\ UNCHANGED <<known, members, creators, stored, older, author, acked, pushed,
                       unread, isOpen, job, push, meta, acksSent, sessions, settled>>

\* groupMemberDeviceAdded, first the device row...
RegisterDevice(d) ==
    /\ meta.pc = "idle"
    /\ d \in metaTodo
    /\ AddDevice(d)
    /\ meta' = [IdleMeta EXCEPT !.pc = "attribute", !.dev = d]
    /\ metaTodo' = metaTodo \ {d}
    /\ UNCHANGED <<members, creators, name, infoDate, stored, older, author, acked, pushed,
                   unread, isOpen, job, push, acksSent, sessions, settled>>

\* (Mutant: only the rows of the metadata log are looked for.)
BacklogBug(d) == {m \in stored \cap InfoMsgs : DeviceOf[m] = d /\ author[m] = None}
Backlog(d) == {m \in stored : DeviceOf[m] = d /\ author[m] = None}

\* The rows of S in the order of their rowid.
InRowOrder(S) == {q \in [1 .. Cardinality(S) -> S] :
                    \A i, j \in 1 .. Cardinality(S) : i < j => <<q[i], q[j]>> \in older}

\* ... then AttributeBacklogInteractions, one transaction. User messages of the
\* backlog are only dispatched afterwards, so the queue leaves them out.
AttributeBacklog ==
    LET rows == Backlog(meta.dev)
    IN  /\ meta.pc = "attribute"
        /\ author' = [m \in Msgs |-> IF m \in rows THEN MemberOf[meta.dev] ELSE author[m]]
        /\ \E q \in InRowOrder(rows \cap Notes) :
              meta' = [meta EXCEPT !.pc = "drain", !.queue = q]
        /\ UNCHANGED <<known, members, creators, name, infoDate, stored, older, acked, pushed,
                       unread, isOpen, job, push, metaTodo, acksSent, sessions, settled>>

\* ... then the backlog, row by row: a SetUserInfo is remembered and deleted,
DrainUserInfo ==
    LET i == Head(meta.queue)
    IN  /\ meta.pc = "drain"
        /\ meta.queue # <<>>
        /\ i \in InfoMsgs
        /\ stored' = stored \ {i}
        /\ older' = Without({i})
        /\ author' = [author EXCEPT ![i] = None]
        /\ meta' = [meta EXCEPT !.info = i, !.queue = Tail(@)]
        /\ UNCHANGED <<known, members, creators, name, infoDate, acked, pushed,
                       unread, isOpen, job, push, metaTodo, acksSent, sessions, settled>>

\* another row is dispatched to the UI; when an acknowledgement was consumed
\* since it was attributed, StreamInteraction does not find it and the whole
\* handler returns.
DrainAck ==
    /\ meta.pc = "drain"
    /\ meta.queue # <<>>
    /\ Head(meta.queue) \in AckMsgs
    /\ meta' = IF Head(meta.queue) \in stored
                 THEN [meta EXCEPT !.queue = Tail(@)]
                 ELSE IdleMeta
    /\ UNCHANGED <<tables, job, push, metaTodo, acksSent, sessions, settled>>

\* ... and last the member row, whose date stays as it was.
UpsertMember ==
    LET p == MemberOf[meta.dev]
    IN  /\ meta.pc = "drain"
        /\ meta.queue = <<>>
        /\ members' = members \cup {p}
        /\ name' = IF meta.info = None THEN name ELSE [name EXCEPT ![p] = meta.info]
        /\ meta' = IdleMeta
        /\ UNCHANGED <<known, creators, infoDate, stored, older, author, acked, pushed,
                       unread, isOpen, job, push, metaTodo, acksSent, sessions, settled>>

---------------------------------------------------------------------------
(* The application: ConversationOpen and ConversationClose, a crash that   *)
(* keeps the database only, and a new subscription to the group (the       *)
(* application comes back to the foreground), which lists the metadata     *)
(* again while handlers in flight run to their end.                        *)

\* (Mutant: opening forgets to reset the counter.)
UnreadOnOpenBug(status) == unread
UnreadOnOpen(status) == IF status THEN 0 ELSE unread

SetConversationIsOpenStatus(status) ==
    /\ isOpen # status
    /\ isOpen' = status
    /\ unread' = UnreadOnOpen(status)
    /\ UNCHANGED <<known, members, creators, name, infoDate, stored, older, author, acked,
                   pushed, job, push, meta, metaTodo, acksSent, sessions, settled>>

\* Every device and member has its row and no SetUserInfo waits.
Complete ==
    /\ Devices \subseteq known
    /\ \A d \in Devices : MemberOf[d] \in members
    /\ \A i \in InfoMsgs \cap stored : author[i] # None

Resubscribe ==
    /\ sessions < MaxSessions
    /\ sessions' = sessions + 1
    /\ metaTodo' = MetaLog
    /\ settled' = (Complete /\ meta.pc = "idle")
    /\ UNCHANGED <<tables, job, push, meta, acksSent>>

Crash ==
    /\ sessions < MaxSessions
    /\ sessions' = sessions + 1
    /\ metaTodo' = MetaLog
    /\ settled' = Complete
    /\ job' = [w \in Workers |-> IdleJob]
    /\ push' = IdlePush
    /\ meta' = IdleMeta
    /\ UNCHANGED <<tables, acksSent>>

---------------------------------------------------------------------------
JobStep(w) == StoreUserMessage(w) \/ HandleAcknowledge(w) \/ SendAck(w) \/ DispatchVisible(w)

Messages(w) == JobStep(w) \/ \E m \in UserMsgs \cup AckMsgs : BuildInteraction(w, m)

Push == PushLookup \/ PushAdd \/ \E m \in UserMsgs : PushCheck(m)

DeviceAdded == \/ AttributeBacklog \/ DrainUserInfo \/ DrainAck \/ UpsertMember
               \/ \E d \in Devices : RegisterDevice(d)

Metadata == \/ AnnounceInitialMember
            \/ \E i \in InfoMsgs : BacklogUserInfo(i) \/ SetUserInfo(i)
            \/ DeviceAdded

App == Resubscribe \/ Crash \/ \E status \in BOOLEAN : SetConversationIsOpenStatus(status)

Next == Metadata \/ Push \/ App \/ \E w \in Workers : Messages(w)

Spec == Init /\ [][Next]_vars

\* The metadata goroutine keeps running as long as the listing has events, and a
\* handler that has started comes to its end.
Fairness == WF_vars(Metadata) /\ \A w \in Workers : WF_vars(JobStep(w))
FairSpec == Spec /\ Fairness

---------------------------------------------------------------------------
(* Properties.                                                             *)

JobType == [pc : {"idle", "tx", "ack", "visible"},
            msg : UserMsgs \cup AckMsgs \cup {None}, mine : BOOLEAN]

\* Every variable has its type; what a goroutine holds is a message once it
\* has left its idle state.
TypeOK ==
    /\ known \subseteq Devices
    /\ members \subseteq Members
    /\ creators \subseteq Members
    /\ name \in [Members -> InfoMsgs \cup {None}]
    /\ infoDate \in [Members -> Nat]
    /\ stored \subseteq Msgs
    /\ older \subseteq Notes \X Notes
    /\ author \in [Msgs -> Members \cup {None}]
    /\ acked \subseteq UserMsgs
    /\ pushed \subseteq UserMsgs
    /\ unread \in Nat
    /\ isOpen \in BOOLEAN
    /\ job \in [Workers -> JobType]
    /\ \A w \in Workers : /\ job[w].pc = "tx" => job[w].msg # None
                          /\ job[w].pc \in {"ack", "visible"} => job[w].msg \in UserMsgs
    /\ push \in [pc : {"idle", "lookup", "add"}, msg : UserMsgs \cup {None},
                 member : Members \cup {None}]
    /\ push.pc # "idle" => push.msg # None
    /\ meta \in [pc : {"idle", "attribute", "drain"}, dev : Devices \cup {None},
                 queue : Seq(Notes), info : InfoMsgs \cup {None}]
    /\ meta.pc # "idle" => meta.dev # None
    /\ metaTodo \subseteq MetaLog
    /\ acksSent \in [UserMsgs -> Nat]
    /\ sessions \in 0 .. MaxSessions
    /\ settled \in BOOLEAN

\* A row received from the log is left without author only as long as the device
\* that sent it has not been announced: whatever the order of the transactions of
\* HandleAppMessage and groupMemberDeviceAdded, and across a crash between
\* AddDevice and AttributeBacklogInteractions, the attribution is still to come.
\* And a row is only ever attributed to the member of its device.
BacklogAttributed ==
    \A m \in Synced :
        \/ author[m] = MemberOf[DeviceOf[m]]
        \/ /\ author[m] = None
           /\ \/ DeviceOf[m] \notin known
              \/ DeviceOf[m] \in metaTodo
              \/ meta.pc = "attribute" /\ meta.dev = DeviceOf[m]

\* handleAppMessageAcknowledge and interactionConsumeAck leave no acknowledgement
\* waiting for a message that is already in the table.
NoWaitingAck == \A a \in AckMsgs \cap stored : TargetOf[a] \notin Synced

\* A conversation on display has nothing unread, although the message is stored
\* and the counter incremented in two transactions and the UI opens the
\* conversation at any moment between them.
OpenMeansRead == isOpen => unread = 0

Counting == {w \in Workers : job[w].pc \in {"ack", "visible"} /\ ~job[w].mine}

\* The counter, together with the increments in flight, never exceeds the number
\* of messages received from the others: a message handled by both message
\* goroutines, redelivered after a crash or delivered by push first is counted
\* once, and a message of this device never.
CountedOnce ==
    unread + Cardinality(Counting)
        <= Cardinality({m \in UserMsgs \cap Synced : DeviceOf[m] # OwnDevice})

\* A message is acknowledged to the group at most once, and one's own never.
AckedOnce ==
    \A m \in UserMsgs : acksSent[m] <= IF DeviceOf[m] = OwnDevice THEN 0 ELSE 1

\* A user message received from the log stays: its row is not replaced or
\* deleted by a late push or an acknowledgement, its mark is not undone and its
\* author, once set, does not change.
SyncedRowsAreStable ==
    [][\A m \in UserMsgs \cap Synced :
          /\ m \in Synced'
          /\ m \in acked => m \in acked'
          /\ author[m] # None => author'[m] = author[m]]_vars

InfosOf(p) == {i \in InfoMsgs : MemberOf[DeviceOf[i]] = p}

\* A backlog may give a member an outdated name, because UpsertMember does not
\* compare dates. Listing the metadata once more from a complete state repairs
\* it: at its end every member has the name of its newest SetUserInfo.
NewestNameAfterReplay ==
    settled /\ metaTodo = {} /\ meta.pc = "idle" =>
        \A p \in Members : InfosOf(p) # {} =>
            /\ name[p] \in InfosOf(p)
            /\ \A i \in InfosOf(p) : DateOf[i] <= DateOf[name[p]]

\* Whatever the interleaving, and even when the handler of the device returns
\* half-way, a row from the log ends up attributed: it does not stay in the
\* backlog.
AttributionEventually ==
    \A m \in Msgs : [](m \in Synced => <>(m \notin stored \/ author[m] # None))

\* What TestAck asserts (service_test.go): once the acknowledgement is processed,
\* the message is acknowledged. A waiting acknowledgement is given up only
\* together with the mark on its message.
AckMarksItsMessage ==
    [][\A a \in AckMsgs : a \in stored /\ a \notin stored' => TargetOf[a] \in acked']_vars
============================================================================
