----------------------------- MODULE Contacts ------------------------------
(***************************************************************************)
(* The request between this account and one contact, as the messenger      *)
(* learns of it: from the metadata log of the account group (the request   *)
(* is enqueued, sent, received, accepted) and from the metadata log of the *)
(* contact group (a device of the contact is added, which is how the side  *)
(* that asked learns that it was accepted).                                *)
(*                                                                         *)
(* Both logs are listed from the start at every subscription, each by a    *)
(* goroutine of its own, and every event is handled under handlerMutex.    *)
(* Subscriptions end and start again when the application leaves and       *)
(* enters the foreground (lifecycle), and the process may crash; the       *)
(* database and the logs stay.                                             *)
(*                                                                         *)
(* The protocol node (weshnet) is external: it appends to the logs. One    *)
(* request is in progress per contact: two requests that cross are         *)
(* resolved by the protocol before the messenger hears of them. The other  *)
(* conversations, names and push tokens are left out.                      *)
(***************************************************************************)
EXTENDS Naturals, Sequences

CONSTANTS
    ContactDevices,   \* devices of the contact
    MaxSessions,      \* bound on suspensions and crashes
    MaxFailures       \* bound on failing subscriptions

ASSUME BoundsAssumption == MaxSessions \in Nat /\ MaxFailures \in Nat

VARIABLES
    \* logs, kept by the protocol
    accountLog,    \* events about the contact in the account group
    groupLog,      \* devices of the contact announced in the contact group
    \* database
    contact,       \* state of the contact row, "none" without a row
    conversation,  \* the contact's conversation has a row
    \* the running service
    active,        \* the lifecycle manager is active: subsCtx is set
    groupsToSubTo, \* the contact group is marked
    subscribed,    \* the contact group is subscribed to in this session
    handled,       \* events of accountLog handled in this session
    toHandle,      \* devices still to be delivered by the contact group
    joining,       \* a handler holds the mutex with its post action to run
    \* bounds
    sessions, failures

logs    == <<accountLog, groupLog>>
db      == <<contact, conversation>>
service == <<active, groupsToSubTo, subscribed, handled, toHandle, joining>>
bounds  == <<sessions, failures>>
vars    == <<logs, db, service, bounds>>

Holds(log, e) == \E k \in 1 .. Len(log) : log[k] = e
Logged(e) == Holds(accountLog, e)

Init ==
    /\ accountLog = <<>> /\ groupLog = {}
    /\ contact = "none" /\ conversation = FALSE
    /\ active = TRUE /\ groupsToSubTo = FALSE /\ subscribed = FALSE
    /\ handled = 0 /\ toHandle = {} /\ joining = FALSE
    /\ sessions = 0 /\ failures = 0

---------------------------------------------------------------------------
(* The users and the protocol.                                             *)

AppendEvent(e) == accountLog' = Append(accountLog, e) /\ UNCHANGED <<groupLog, db, service, bounds>>

\* ContactRequest hands the link to the protocol, which enqueues the request,
ContactRequest == accountLog = <<>> /\ AppendEvent("enqueued")

\* and sends it once the contact can be reached.
ProtocolSends == Logged("enqueued") /\ ~Logged("sent") /\ AppendEvent("sent")

ProtocolReceives == accountLog = <<>> /\ AppendEvent("received")

\* ContactAccept checks the contact row before it asks the protocol.
ContactAccept == contact = "incoming" /\ ~Logged("accepted") /\ AppendEvent("accepted")

\* The contact adds one of its devices to the contact group. When this account
\* asked, that is the contact's agreement.
Delivered(d) == IF subscribed THEN toHandle \cup {d} ELSE toHandle

ContactJoins(d) ==
    /\ accountLog # <<>>
    /\ d \notin groupLog
    /\ groupLog' = groupLog \cup {d}
    /\ toHandle' = Delivered(d)
    /\ UNCHANGED <<accountLog, db, active, groupsToSubTo, subscribed, handled, joining, bounds>>

---------------------------------------------------------------------------
(* The account group: one event after the other, in the order of the log.  *)

Take(e) == /\ active
           /\ ~joining
           /\ handled < Len(accountLog)
           /\ accountLog[handled + 1] = e
           /\ handled' = handled + 1
           /\ UNCHANGED <<logs, active, groupsToSubTo, subscribed, toHandle, bounds>>

\* The operations of the database: a contact that has a row is left as it is, and
\* only a request that came in can be accepted by this user.
AddContactRequestOutgoingEnqueued == contact' = IF contact = "none" THEN "enqueued" ELSE contact
AddContactRequestIncomingReceived == contact' = IF contact = "none" THEN "incoming" ELSE contact
AddContactRequestIncomingAccepted == contact' = IF contact = "incoming" THEN "accepted" ELSE contact
AddConversationForContact == conversation' = TRUE

\* The row of the contact and its conversation, in one transaction.
OutgoingEnqueued ==
    /\ Take("enqueued")
    /\ AddContactRequestOutgoingEnqueued
    /\ AddConversationForContact
    /\ UNCHANGED joining

\* AddContactRequestOutgoingSent looks for the row in state enqueued: a replayed
\* event finds nothing and the handler fails. (Mutant: it looks for the contact.)
CanBeSentBug == contact # "none"
CanBeSent == contact = "enqueued"

OutgoingSent ==
    /\ Take("sent")
    /\ contact' = IF CanBeSent THEN "sent" ELSE contact
    /\ joining' = CanBeSent
    /\ UNCHANGED conversation

IncomingReceived ==
    /\ Take("received")
    /\ AddContactRequestIncomingReceived
    /\ AddConversationForContact
    /\ UNCHANGED joining

IncomingAccepted ==
    /\ Take("accepted")
    /\ AddContactRequestIncomingAccepted
    /\ joining' = (contact = "incoming")
    /\ UNCHANGED conversation

---------------------------------------------------------------------------
(* The contact group, and the end of a handler.                            *)

\* (Mutant: the request is looked for in the state before it is sent.)
WaitsForContactBug == contact = "enqueued"
WaitsForContact == contact = "sent"

\* groupMemberDeviceAdded and contactRequestAccepted.
DeviceAdded(d) ==
    /\ active /\ subscribed /\ ~joining
    /\ d \in toHandle
    /\ toHandle' = toHandle \ {d}
    /\ contact' = IF WaitsForContact THEN "accepted" ELSE contact
    /\ joining' = WaitsForContact
    /\ UNCHANGED <<logs, conversation, active, groupsToSubTo, subscribed, handled, bounds>>

Subscribe == subscribed' = TRUE /\ toHandle' = groupLog /\ UNCHANGED failures

SubscribeFails == /\ failures < MaxFailures
                  /\ failures' = failures + 1
                  /\ subscribed' = FALSE /\ toHandle' = {}

\* The post action ContactConversationJoined: ActivateGroup returns at once for
\* a marked group; otherwise the mark is set before, and kept whether or not,
\* the subscription succeeds. An inactive service leaves it to the next session.
ContactConversationJoined ==
    /\ joining
    /\ joining' = FALSE
    /\ groupsToSubTo' = TRUE
    /\ IF groupsToSubTo \/ ~active
         THEN UNCHANGED <<subscribed, toHandle, failures>>
         ELSE Subscribe \/ SubscribeFails
    /\ UNCHANGED <<logs, db, active, handled, sessions>>

---------------------------------------------------------------------------
(* Sessions.                                                               *)

\* manageSubscriptions, on entering the foreground.
Resume ==
    /\ ~active
    /\ active' = TRUE
    /\ handled' = 0
    /\ IF groupsToSubTo
         THEN Subscribe \/ SubscribeFails
         ELSE UNCHANGED <<subscribed, toHandle, failures>>
    /\ UNCHANGED <<logs, db, groupsToSubTo, joining, sessions>>

\* (Mutant: the stream of the contact group outlives its session.)
StopStreamsBug == active' = FALSE /\ handled' = 0 /\ UNCHANGED <<subscribed, toHandle>>
StopStreams == active' = FALSE /\ subscribed' = FALSE /\ handled' = 0 /\ toHandle' = {}

\* manageSubscriptions, on leaving the foreground. A handler in progress keeps
\* the mutex and runs to its end.
Suspend ==
    /\ active
    /\ sessions < MaxSessions
    /\ sessions' = sessions + 1
    /\ StopStreams
    /\ UNCHANGED <<logs, db, groupsToSubTo, joining, failures>>

\* The groups that New marks: those of the conversations in the database.
\* (Mutant: those of the contacts whose request is sent, New's second loop.)
GroupsAtStartBug == contact = "sent"
GroupsAtStart == conversation

Crash ==
    /\ sessions < MaxSessions
    /\ sessions' = sessions + 1
    /\ StopStreams
    /\ joining' = FALSE
    /\ groupsToSubTo' = GroupsAtStart
    /\ UNCHANGED <<logs, db, failures>>

---------------------------------------------------------------------------
Outside == \/ ContactRequest \/ ContactAccept \/ ProtocolSends \/ ProtocolReceives
           \/ \E d \in ContactDevices : ContactJoins(d)

Handlers == \/ OutgoingEnqueued \/ OutgoingSent \/ IncomingReceived \/ IncomingAccepted
            \/ \E d \in ContactDevices : DeviceAdded(d)
            \/ ContactConversationJoined

Next == Outside \/ Handlers \/ Resume \/ Suspend \/ Crash

Spec == Init /\ [][Next]_vars

\* The streams deliver what is listed, a handler comes to its end, and the user
\* comes back to the application.
Fairness == WF_vars(Handlers) /\ WF_vars(Resume)
FairSpec == Spec /\ Fairness

---------------------------------------------------------------------------
(* Properties.                                                             *)

Events == {"enqueued", "sent", "received", "accepted"}

\* Types; a contact has its row and its conversation together, and only a
\* subscribed group has events to deliver.
TypeOK ==
    /\ accountLog \in Seq(Events)
    /\ groupLog \subseteq ContactDevices
    /\ contact \in {"none", "enqueued", "sent", "incoming", "accepted"}
    /\ conversation \in BOOLEAN /\ (conversation <=> contact # "none")
    /\ active \in BOOLEAN /\ groupsToSubTo \in BOOLEAN
    /\ subscribed \in BOOLEAN /\ (subscribed => active /\ groupsToSubTo)
    /\ handled \in 0 .. Len(accountLog)
    /\ toHandle \subseteq groupLog /\ (~subscribed => toHandle = {})
    /\ joining \in BOOLEAN
    /\ sessions \in 0 .. MaxSessions /\ failures \in 0 .. MaxFailures

\* The side the request was sent to has agreed: this user for a request that was
\* received, the contact otherwise.
Agreed == IF Logged("received") THEN Logged("accepted") ELSE groupLog # {}

Lifecycle == INSTANCE ContactLifecycle WITH state <- contact, consent <- Agreed

\* The handlers implement the lifecycle of a request: whatever is listed again at
\* every subscription, the state never moves back, and it is accepted only once
\* the other side (or this user) has agreed.
ImplementsLifecycle == Lifecycle!Spec

\* As long as no subscription has failed, the group of a contact whose request is
\* sent or accepted is subscribed to, even when the crash came between the commit
\* of the state and the post action that subscribes.
JoinedWhenActive ==
    failures = 0 /\ active /\ ~joining /\ contact \in {"sent", "accepted"} => subscribed

\* A request that was missed is not lost: when the contact has joined and the
\* application is in the background, or down, with the request still marked as
\* sent, the next sessions accept it, unless a subscription fails.
RelistingAccepts ==
    contact = "sent" /\ groupLog # {} /\ ~active ~> contact = "accepted" \/ failures > 0
============================================================================
