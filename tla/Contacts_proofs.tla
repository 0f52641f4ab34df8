-------------------------- MODULE Contacts_proofs --------------------------
(***************************************************************************)
(* For any number of devices, sessions, crashes and failing subscriptions: *)
(* the handlers of contact requests implement ContactLifecycle, and the    *)
(* group of a contact that is sent or accepted is subscribed to.           *)
(***************************************************************************)
EXTENDS Contacts, TLAPS

\* The protocol logs one request per contact, in one direction.
Shape(log) ==
    /\ Len(log) <= 2
    /\ Len(log) >= 1 => log[1] \in {"enqueued", "received"}
    /\ Len(log) = 2 => log[2] = IF log[1] = "enqueued" THEN "sent" ELSE "accepted"

LogShape == Shape(accountLog) /\ (accountLog = <<>> => groupLog = {})

\* The contact row tells the direction of the request.
Direction ==
    /\ contact \in {"enqueued", "sent"} => Logged("enqueued")
    /\ contact = "incoming" => Logged("received")

Inv == TypeOK /\ LogShape /\ Direction

\* What a log of this shape holds.
LEMMA ShapedLog ==
    ASSUME NEW log \in Seq(Events), Shape(log)
    PROVE  /\ Holds(log, "enqueued") <=> Len(log) >= 1 /\ log[1] = "enqueued"
           /\ Holds(log, "sent") <=> Len(log) = 2 /\ log[1] = "enqueued"
           /\ Holds(log, "received") <=> Len(log) >= 1 /\ log[1] = "received"
           /\ Holds(log, "accepted") <=> Len(log) = 2 /\ log[1] = "received"
<1>1. Len(log) \in Nat
  OBVIOUS
<1>2. CASE Len(log) = 0
  <2>1. \A e : ~Holds(log, e)
    BY <1>2 DEF Holds
  <2> QED
    BY <1>2, <2>1
<1>3. CASE Len(log) = 1
  <2>1. \A e : Holds(log, e) <=> log[1] = e
    BY <1>3 DEF Holds
  <2> QED
    BY <1>3, <2>1 DEF Shape
<1>4. CASE Len(log) = 2
  <2>1. \A e : Holds(log, e) <=> log[1] = e \/ log[2] = e
    BY <1>4 DEF Holds
  <2> QED
    BY <1>4, <2>1 DEF Shape
<1>5. Len(log) = 0 \/ Len(log) = 1 \/ Len(log) = 2
  <2>1. Len(log) <= 2
    BY DEF Shape
  <2>2. \A n \in Nat : n <= 2 => n = 0 \/ n = 1 \/ n = 2
    OBVIOUS
  <2> QED
    BY <1>1, <2>1, <2>2
<1> QED
  BY <1>2, <1>3, <1>4, <1>5

\* Appending the next event of the request keeps the shape, and all that was held.
LEMMA AppendShape ==
    ASSUME NEW log \in Seq(Events), NEW e \in Events, Shape(log),
           \/ Len(log) = 0 /\ e \in {"enqueued", "received"}
           \/ Len(log) = 1 /\ e = IF log[1] = "enqueued" THEN "sent" ELSE "accepted"
    PROVE  /\ Append(log, e) \in Seq(Events) /\ Shape(Append(log, e))
           /\ Append(log, e) # <<>>
           /\ Len(Append(log, e)) = Len(log) + 1
           /\ \A x : Holds(log, x) => Holds(Append(log, e), x)
           /\ Len(log) = 1 => Append(log, e)[1] = log[1]
<1> DEFINE new == Append(log, e)
<1>1. /\ new \in Seq(Events) /\ Len(new) = Len(log) + 1
      /\ new[Len(log) + 1] = e
      /\ \A k \in 1 .. Len(log) : new[k] = log[k]
  OBVIOUS
<1>2. Shape(new)
  <2>1. CASE Len(log) = 0
    BY <1>1, <2>1 DEF Shape
  <2>2. CASE Len(log) = 1
    <3>1. Len(new) = 2 /\ new[1] = log[1] /\ new[2] = e
      BY <1>1, <2>2
    <3> QED
      BY <2>2, <3>1 DEF Shape
  <2> QED
    BY <2>1, <2>2
<1>3. \A x : Holds(log, x) => Holds(new, x)
  <2> SUFFICES ASSUME NEW x, NEW k \in 1 .. Len(log), log[k] = x
               PROVE  \E j \in 1 .. Len(new) : new[j] = x
    BY DEF Holds
  <2>1. Len(log) \in Nat
    OBVIOUS
  <2>2. k \in 1 .. Len(new) /\ new[k] = x
    BY <1>1, <2>1
  <2> QED
    BY <2>2
<1>4. new # <<>>
  BY <1>1
<1>5. Len(log) = 1 => new[1] = log[1]
  BY <1>1
<1> QED
  BY <1>1, <1>2, <1>3, <1>4, <1>5

\* A handler is run for an event of the log.
LEMMA TakenIsLogged ==
    ASSUME TypeOK, NEW e, Take(e)
    PROVE  Logged(e)
<1>1. handled + 1 \in 1 .. Len(accountLog)
  BY DEF Take, TypeOK
<1> QED
  BY <1>1 DEF Take, Logged, Holds

\* What the logs tell about the state of the contact.
LEMMA WhatIsLogged ==
    ASSUME Inv
    PROVE  /\ contact \in {"enqueued", "sent"} => ~Logged("received")
           /\ contact = "incoming" /\ ~Logged("accepted")
                => Len(accountLog) = 1 /\ accountLog[1] = "received"
           /\ Logged("enqueued") /\ ~Logged("sent")
                => Len(accountLog) = 1 /\ accountLog[1] = "enqueued"
           /\ Logged("accepted") => Logged("received")
<1>1. accountLog \in Seq(Events) /\ Shape(accountLog) /\ Len(accountLog) \in Nat
  BY DEF Inv, TypeOK, LogShape
<1> QED
  <2>1. Inv /\ Direction
    BY DEF Inv
  <2>2. Len(accountLog) = 0 \/ Len(accountLog) = 1 \/ Len(accountLog) = 2
    <3>1. Len(accountLog) <= 2 /\ Len(accountLog) \in Nat
      BY <1>1 DEF Shape
    <3>2. \A n \in Nat : n <= 2 => n = 0 \/ n = 1 \/ n = 2
      OBVIOUS
    <3> QED
      BY <3>1, <3>2
  <2>3. Len(accountLog) >= 1 => accountLog[1] = "enqueued" \/ accountLog[1] = "received"
    BY <1>1 DEF Shape
  <2>4. /\ Logged("enqueued") <=> Len(accountLog) >= 1 /\ accountLog[1] = "enqueued"
        /\ Logged("sent") <=> Len(accountLog) = 2 /\ accountLog[1] = "enqueued"
        /\ Logged("received") <=> Len(accountLog) >= 1 /\ accountLog[1] = "received"
        /\ Logged("accepted") <=> Len(accountLog) = 2 /\ accountLog[1] = "received"
    BY <1>1, ShapedLog DEF Logged
  <2> QED
    BY <2>1, <2>2, <2>3, <2>4 DEF Direction

\* An event or a device more in the logs: the contact's row stays as it is, and
\* an agreement is not withdrawn.
LEMMA OutsideStep ==
    ASSUME Inv, Outside
    PROVE  Inv' /\ UNCHANGED contact /\ (Agreed => Agreed')
<1> USE DEF Inv
<1>1. accountLog \in Seq(Events) /\ Shape(accountLog) /\ Len(accountLog) \in Nat
      /\ (accountLog = <<>> <=> Len(accountLog) = 0)
  BY DEF TypeOK, LogShape
<1>2. ASSUME NEW e \in Events, AppendEvent(e),
             \/ Len(accountLog) = 0 /\ e \in {"enqueued", "received"}
             \/ /\ Len(accountLog) = 1
                /\ e = IF accountLog[1] = "enqueued" THEN "sent" ELSE "accepted"
      PROVE  Inv' /\ UNCHANGED contact /\ (Agreed => Agreed')
  <2>1. /\ accountLog' \in Seq(Events) /\ Shape(accountLog') /\ accountLog' # <<>>
        /\ Len(accountLog') = Len(accountLog) + 1
        /\ \A x : Logged(x) => Logged(x)'
        /\ Len(accountLog) = 1 => accountLog'[1] = accountLog[1]
    BY <1>1, <1>2, AppendShape DEF AppendEvent, Logged
  <2>2. UNCHANGED <<groupLog, contact, conversation, active, groupsToSubTo, subscribed,
                    handled, toHandle, joining, sessions, failures>>
    BY <1>2 DEF AppendEvent, db, service, bounds
  <2>3. LogShape' /\ Direction'
    BY <2>1, <2>2 DEF LogShape, Direction
  <2>4. TypeOK'
    BY <1>1, <2>1, <2>2 DEF TypeOK
  <2>5. Agreed => Agreed'
    <3>1. Logged("received") /\ Logged("accepted") => Logged("received")' /\ Logged("accepted")'
      BY <2>1
    <3>2. CASE Len(accountLog) = 0
      <4>1. groupLog = {} /\ ~Logged("received")
        <5>1. groupLog = {}
          BY <1>1, <3>2 DEF LogShape
        <5>2. Holds(accountLog, "received") => Len(accountLog) >= 1
          BY <1>1, ShapedLog
        <5> QED
          BY <3>2, <5>1, <5>2 DEF Logged
      <4>2. ~Agreed
        BY <4>1 DEF Agreed
      <4> QED
        BY <4>2
    <3>3. CASE Len(accountLog) = 1
      BY <1>1, <2>1, <2>2, <3>1, <3>3, ShapedLog DEF Agreed, Logged
    <3> QED
      BY <1>2, <3>2, <3>3
  <2> QED
    BY <2>2, <2>3, <2>4, <2>5
<1>3. ASSUME NEW d \in ContactDevices, ContactJoins(d)
      PROVE  Inv' /\ UNCHANGED contact /\ (Agreed => Agreed')
  <2>1. UNCHANGED <<accountLog, contact>> /\ groupLog' # {}
    BY <1>3 DEF ContactJoins, db
  <2>2. TypeOK'
    BY <1>3 DEF ContactJoins, TypeOK, Delivered, db, bounds
  <2> QED
    BY <1>3, <2>1, <2>2 DEF LogShape, Direction, Agreed, Logged, ContactJoins
<1>4. ContactRequest \/ ProtocolReceives
      => Inv' /\ UNCHANGED contact /\ (Agreed => Agreed')
  BY <1>1, <1>2 DEF ContactRequest, ProtocolReceives, Events
<1>5. ProtocolSends => Inv' /\ UNCHANGED contact /\ (Agreed => Agreed')
  BY <1>1, <1>2, WhatIsLogged DEF ProtocolSends, Events
<1>6. ContactAccept => Inv' /\ UNCHANGED contact /\ (Agreed => Agreed')
  BY <1>1, <1>2, WhatIsLogged DEF ContactAccept, Events
<1> QED
  BY <1>3, <1>4, <1>5, <1>6 DEF Outside

\* A session or a handler that leaves the logs, the contact and its conversation.
LEMMA TypeKept ==
    ASSUME TypeOK, UNCHANGED <<accountLog, groupLog, contact, conversation>>,
           handled' \in {0, handled},
           <<active', groupsToSubTo', subscribed', joining'>>
                \in BOOLEAN \X BOOLEAN \X BOOLEAN \X BOOLEAN,
           subscribed' => active' /\ groupsToSubTo',
           toHandle' \subseteq groupLog, ~subscribed' => toHandle' = {},
           sessions' = sessions \/ (sessions < MaxSessions /\ sessions' = sessions + 1),
           failures' = failures \/ (failures < MaxFailures /\ failures' = failures + 1)
    PROVE  TypeOK'
<1>1. accountLog' \in Seq(Events) /\ handled' \in 0 .. Len(accountLog')
  BY DEF TypeOK
<1>2. sessions' \in 0 .. MaxSessions /\ failures' \in 0 .. MaxFailures
  BY BoundsAssumption DEF TypeOK
<1> QED
  BY <1>1, <1>2 DEF TypeOK

\* Handlers and sessions leave the logs alone and move the contact along its road.
LEMMA InsideStep ==
    ASSUME Inv, Handlers \/ Resume \/ Suspend \/ Crash
    PROVE  /\ Inv'
           /\ UNCHANGED <<accountLog, groupLog>>
           /\ \/ UNCHANGED contact
              \/ contact = "none" /\ contact' = "enqueued"
              \/ contact = "enqueued" /\ contact' = "sent"
              \/ contact = "none" /\ contact' = "incoming"
              \/ contact = "sent" /\ contact' = "accepted" /\ Agreed
              \/ contact = "incoming" /\ contact' = "accepted" /\ Agreed
<1> USE DEF Inv
<1>1. CASE OutgoingEnqueued
  <2>1. Logged("enqueued")
    BY <1>1, TakenIsLogged DEF OutgoingEnqueued
  <2>2. TypeOK'
    BY <1>1 DEF OutgoingEnqueued, AddContactRequestOutgoingEnqueued,
                AddConversationForContact, Take, TypeOK, logs, bounds
  <2> QED
    BY <1>1, <2>1, <2>2 DEF OutgoingEnqueued, AddContactRequestOutgoingEnqueued, Take,
                            logs, LogShape, Direction, Logged
<1>2. CASE OutgoingSent
  <2>1. TypeOK'
    BY <1>2 DEF OutgoingSent, CanBeSent, Take, TypeOK, logs, bounds
  <2> QED
    BY <1>2, <2>1 DEF OutgoingSent, CanBeSent, Take, logs, LogShape, Direction, Logged
<1>3. CASE IncomingReceived
  <2>1. Logged("received")
    BY <1>3, TakenIsLogged DEF IncomingReceived
  <2>2. TypeOK'
    BY <1>3 DEF IncomingReceived, AddContactRequestIncomingReceived,
                AddConversationForContact, Take, TypeOK, logs, bounds
  <2> QED
    BY <1>3, <2>1, <2>2 DEF IncomingReceived, AddContactRequestIncomingReceived, Take,
                            logs, LogShape, Direction, Logged
<1>4. CASE IncomingAccepted
  <2>1. Logged("accepted") /\ Agreed
    BY <1>4, TakenIsLogged, WhatIsLogged DEF IncomingAccepted, Agreed
  <2>2. TypeOK'
    BY <1>4 DEF IncomingAccepted, AddContactRequestIncomingAccepted, Take, TypeOK, logs, bounds
  <2> QED
    BY <1>4, <2>1, <2>2 DEF IncomingAccepted, AddContactRequestIncomingAccepted, Take,
                            logs, LogShape, Direction, Logged
<1>5. ASSUME NEW d \in ContactDevices, DeviceAdded(d)
      PROVE  /\ Inv'
             /\ UNCHANGED <<accountLog, groupLog>>
             /\ UNCHANGED contact \/ (contact = "sent" /\ contact' = "accepted" /\ Agreed)
  <2>1. contact = "sent" => Agreed
    <3>1. groupLog # {}
      BY <1>5 DEF DeviceAdded, TypeOK
    <3>2. contact = "sent" => ~Logged("received")
      BY WhatIsLogged
    <3> QED
      BY <3>1, <3>2 DEF Agreed
  <2>2. TypeOK'
    BY <1>5 DEF DeviceAdded, WaitsForContact, TypeOK, logs, bounds
  <2> QED
    BY <1>5, <2>1, <2>2
    DEF DeviceAdded, WaitsForContact, logs, LogShape, Direction, Logged
<1>6. CASE ContactConversationJoined
  <2>1. TypeOK'
    BY <1>6, TypeKept
    DEF ContactConversationJoined, Subscribe, SubscribeFails, TypeOK, logs, db
  <2> QED
    BY <1>6, <2>1 DEF ContactConversationJoined, logs, db, LogShape, Direction, Logged
<1>7. CASE Resume
  <2>1. TypeOK'
    BY <1>7, TypeKept DEF Resume, Subscribe, SubscribeFails, TypeOK, logs, db
  <2> QED
    BY <1>7, <2>1 DEF Resume, logs, db, LogShape, Direction, Logged
<1>8. CASE Suspend \/ Crash
  <2>1. TypeOK'
    BY <1>8, TypeKept DEF Suspend, Crash, StopStreams, GroupsAtStart, TypeOK, logs, db
  <2> QED
    BY <1>8, <2>1 DEF Suspend, Crash, logs, db, LogShape, Direction, Logged
<1> QED
  BY <1>1, <1>2, <1>3, <1>4, <1>5, <1>6, <1>7, <1>8 DEF Handlers

LEMMA InitInv == Init => Inv
<1> SUFFICES ASSUME Init PROVE Inv
  OBVIOUS
<1>1. accountLog \in Seq(Events) /\ Len(accountLog) = 0
  BY DEF Init
<1>2. TypeOK
  <2>1. handled \in 0 .. Len(accountLog)
    BY <1>1 DEF Init
  <2>2. sessions \in 0 .. MaxSessions /\ failures \in 0 .. MaxFailures
    BY BoundsAssumption DEF Init
  <2> QED
    BY <1>1, <2>1, <2>2 DEF Init, TypeOK
<1>3. LogShape
  BY <1>1 DEF Init, LogShape, Shape
<1> QED
  BY <1>2, <1>3 DEF Init, Inv, Direction

LEMMA NextInv == Inv /\ [Next]_vars => Inv'
<1>1. Inv /\ UNCHANGED vars => Inv'
  BY DEF vars, logs, db, service, bounds, Inv, TypeOK, LogShape, Direction, Logged
<1> QED
  BY <1>1, OutsideStep, InsideStep DEF Next

\* Every variable keeps its type; a contact row and its conversation go together.
THEOREM TypeCorrect == Spec => []TypeOK
<1>1. Inv => TypeOK
  BY DEF Inv
<1> QED
  BY <1>1, InitInv, NextInv, PTL DEF Spec

\* The handlers of handlers.go, run on logs that are listed again and again,
\* implement the lifecycle of a contact request.
THEOREM Refinement == Spec => ImplementsLifecycle
<1>1. Init => Lifecycle!Init
  BY DEF Init, Lifecycle!Init, Agreed, Logged, Holds
<1>2. Inv /\ [Next]_vars => [Lifecycle!Next]_<<contact, Agreed>>
  <2> SUFFICES ASSUME Inv, [Next]_vars PROVE [Lifecycle!Next]_<<contact, Agreed>>
    OBVIOUS
  <2>1. CASE UNCHANGED vars
    BY <2>1 DEF vars, logs, db, Agreed, Logged
  <2>2. CASE Outside
    <3>1. UNCHANGED contact /\ (Agreed => Agreed')
      BY <2>2, OutsideStep
    <3>2. Agreed \in BOOLEAN /\ Agreed' \in BOOLEAN
      BY DEF Agreed, Logged, Holds
    <3> QED
      BY <3>1, <3>2 DEF Lifecycle!Next, Lifecycle!Agree
  <2>3. CASE Handlers \/ Resume \/ Suspend \/ Crash
    <3>1. Agreed' <=> Agreed
      BY <2>3, InsideStep DEF Agreed, Logged
    <3>2. Agreed' = Agreed
      BY <3>1 DEF Agreed, Logged, Holds
    <3> QED
      BY <2>3, <3>2, InsideStep DEF Lifecycle!Next, Lifecycle!Move
  <2> QED
    BY <2>1, <2>2, <2>3 DEF Next
<1> QED
  BY <1>1, <1>2, InitInv, NextInv, PTL DEF Spec, ImplementsLifecycle, Lifecycle!Spec

\* A mark without a failed subscription is a subscription in every active
\* session, and the mark survives the crash because New takes it from the
\* conversations.
JoinedInv ==
    failures = 0 =>
        /\ active /\ groupsToSubTo => subscribed
        /\ contact \in {"sent", "accepted"} /\ ~joining => groupsToSubTo

\* ActivateGroup, manageSubscriptions and New together: the group of a contact
\* whose request is sent or accepted is subscribed to.
THEOREM Joined == Spec => []JoinedWhenActive
<1>1. Init => JoinedInv
  BY DEF Init, JoinedInv
<1>2. Inv /\ JoinedInv /\ [Next]_vars => JoinedInv'
  <2> SUFFICES ASSUME Inv, JoinedInv, [Next]_vars PROVE JoinedInv'
    OBVIOUS
  <2> USE DEF JoinedInv
  <2>1. CASE UNCHANGED vars \/ Outside
    BY <2>1 DEF vars, db, service, bounds, Outside, ContactRequest, ContactAccept,
                ProtocolSends, ProtocolReceives, AppendEvent, ContactJoins
  <2>2. CASE OutgoingEnqueued \/ OutgoingSent \/ IncomingReceived \/ IncomingAccepted
    BY <2>2 DEF OutgoingEnqueued, OutgoingSent, IncomingReceived, IncomingAccepted, Take,
                AddContactRequestOutgoingEnqueued, AddContactRequestIncomingReceived,
                AddContactRequestIncomingAccepted, AddConversationForContact,
                CanBeSent, bounds, Inv, TypeOK
  <2>3. ASSUME NEW d \in ContactDevices, DeviceAdded(d) PROVE JoinedInv'
    BY <2>3 DEF DeviceAdded, WaitsForContact, bounds, Inv, TypeOK
  <2>4. CASE ContactConversationJoined
    BY <2>4 DEF ContactConversationJoined, Subscribe, SubscribeFails, db, Inv, TypeOK
  <2>5. CASE Resume
    BY <2>5 DEF Resume, Subscribe, SubscribeFails, db, Inv, TypeOK
  <2>6. CASE Suspend
    BY <2>6 DEF Suspend, StopStreams, db
  <2>7. CASE Crash
    BY <2>7 DEF Crash, StopStreams, GroupsAtStart, db, Inv, TypeOK
  <2> QED
    BY <2>1, <2>2, <2>3, <2>4, <2>5, <2>6, <2>7 DEF Next, Handlers
<1>3. JoinedInv => JoinedWhenActive
  BY DEF JoinedInv, JoinedWhenActive
<1> QED
  BY <1>1, <1>2, <1>3, InitInv, NextInv, PTL DEF Spec
============================================================================
