------------------------ MODULE GroupEvents_proofs ------------------------
(***************************************************************************)
(* For every group, every log and any number of workers and sessions: the  *)
(* type invariant of GroupEvents, the safety of the backlog and of the     *)
(* acknowledgements, the unread counter of an open conversation, the       *)
(* stability of synchronised rows, that a message is acknowledged and      *)
(* counted at most once, and that a listing repairs the names of members.  *)
(***************************************************************************)
EXTENDS GroupEvents, FiniteSetTheorems, TLAPS

\* No column outlives its row: what the table does not hold has no author.
RowsOnly == \A m \in Msgs : author[m] # None => m \in stored

\* A rowid order of a subset of Notes is a sequence over Notes.
LEMMA RowOrderIsSequence ==
    ASSUME NEW S \in SUBSET Notes, NEW q \in InRowOrder(S)
    PROVE  q \in Seq(Notes)
<1>1. IsFiniteSet(S)
  BY LogAssumption, FS_Subset
<1>2. Cardinality(S) \in Nat
  BY <1>1, FS_CardinalityType
<1>3. q \in [1 .. Cardinality(S) -> Notes]
  BY DEF InRowOrder
<1> QED
  BY <1>2, <1>3

\* The member column of a row is a member, or empty.
LEMMA MemberForType ==
    ASSUME NEW d \in Devices
    PROVE  MemberFor(d) \in Members \cup {None}
BY MemberAssumption DEF MemberFor

\* What the metadata goroutine holds between two events, and at the start of one.
MetaType == [pc : {"idle", "attribute", "drain"}, dev : Devices \cup {None},
             queue : Seq(Notes), info : InfoMsgs \cup {None}]

LEMMA IdleMetaType ==
    /\ IdleMeta \in MetaType
    /\ \A d \in Devices : [IdleMeta EXCEPT !.pc = "attribute", !.dev = d] \in MetaType
<1>1. <<>> \in Seq(Notes)
  OBVIOUS
<1> QED
  BY <1>1 DEF IdleMeta, MetaType

THEOREM TypeCorrect == Spec => []TypeOK
<1>1. Init => TypeOK
  <2> SUFFICES ASSUME Init PROVE TypeOK
    OBVIOUS
  <2>1. meta \in MetaType /\ meta.pc = "idle"
    BY IdleMetaType DEF Init, IdleMeta
  <2>2. job \in [Workers -> JobType] /\ \A w \in Workers : job[w].pc = "idle"
    BY DEF Init, IdleJob, JobType
  <2>3. name \in [Members -> InfoMsgs \cup {None}] /\ infoDate \in [Members -> Nat]
    BY DEF Init
  <2>4. author \in [Msgs -> Members \cup {None}] /\ acksSent \in [UserMsgs -> Nat]
    BY DEF Init
  <2>5. push \in [pc : {"idle", "lookup", "add"}, msg : UserMsgs \cup {None},
                  member : Members \cup {None}]
        /\ push.pc = "idle"
    BY DEF Init, IdlePush
  <2>6. sessions \in 0 .. MaxSessions /\ unread \in Nat
    BY SessionAssumption DEF Init
  <2>7. \A w \in Workers : /\ job[w].pc = "tx" => job[w].msg # None
                          /\ job[w].pc \in {"ack", "visible"} => job[w].msg \in UserMsgs
    BY <2>2
  <2> QED
    BY <2>1, <2>2, <2>3, <2>4, <2>5, <2>6, <2>7 DEF Init, TypeOK, MetaType
<1>2. TypeOK /\ [Next]_vars => TypeOK'
  <2> SUFFICES ASSUME TypeOK, [Next]_vars PROVE TypeOK'
    OBVIOUS
  <2> USE DEF TypeOK
  <2>1. CASE UNCHANGED vars
    BY <2>1 DEF vars, tables
  <2>2. ASSUME NEW w \in Workers, NEW m \in UserMsgs \cup AckMsgs, BuildInteraction(w, m)
        PROVE  TypeOK'
    <3>1. DeviceOf[m] \in Devices
      BY LogAssumption DEF Msgs
    <3>2. IsMine(DeviceOf[m]) \in BOOLEAN
      BY <3>1 DEF IsMine
    <3>3. m # None
      BY NoneAssumption DEF Msgs
    <3>4. job' \in [Workers -> JobType]
      BY <2>2, <3>2 DEF BuildInteraction, JobType
    <3>5. \A v \in Workers : /\ job'[v].pc = "tx" => job'[v].msg # None
                             /\ job'[v].pc \in {"ack", "visible"} => job'[v].msg \in UserMsgs
      BY <2>2, <3>3 DEF BuildInteraction
    <3> QED
      BY <2>2, <3>4, <3>5 DEF BuildInteraction, tables
  <2>3. ASSUME NEW w \in Workers, StoreUserMessage(w)
        PROVE  TypeOK'
    <3> DEFINE m == job[w].msg
    <3>1. m \in Msgs /\ MemberFor(DeviceOf[m]) \in Members \cup {None}
      BY <2>3, LogAssumption, MemberForType DEF StoreUserMessage, Msgs
    <3>2. author' \in [Msgs -> Members \cup {None}]
      BY <2>3, <3>1 DEF StoreUserMessage
    <3>3. job' \in [Workers -> JobType]
      <4>1. job[w] \in JobType /\ IdleJob \in JobType
        BY DEF JobType, IdleJob
      <4>2. [job[w] EXCEPT !.pc = IF job[w].mine THEN "visible" ELSE "ack"] \in JobType
        BY <4>1 DEF JobType
      <4> QED
        BY <2>3, <4>1, <4>2 DEF StoreUserMessage
    <3>4. \A v \in Workers : /\ job'[v].pc = "tx" => job'[v].msg # None
                             /\ job'[v].pc \in {"ack", "visible"} => job'[v].msg \in UserMsgs
      BY <2>3 DEF StoreUserMessage, JobType, IdleJob
    <3>5. stored' \subseteq Msgs /\ pushed' \subseteq UserMsgs /\ acked' \subseteq UserMsgs
      BY <2>3, <3>1 DEF StoreUserMessage
    <3>6. older' \subseteq Notes \X Notes
      BY <2>3 DEF StoreUserMessage, Without
    <3> QED
      BY <2>3, <3>2, <3>3, <3>4, <3>5, <3>6 DEF StoreUserMessage
  <2>4. ASSUME NEW w \in Workers, HandleAcknowledge(w)
        PROVE  TypeOK'
    <3> DEFINE a == job[w].msg
    <3>1. a \in Msgs /\ a \in Notes /\ TargetOf[a] \in UserMsgs
          /\ MemberFor(DeviceOf[a]) \in Members \cup {None}
      BY <2>4, LogAssumption, MemberForType
         DEF HandleAcknowledge, MarkInteractionAsAcknowledged, Msgs, Notes
    <3>2. author' \in [Msgs -> Members \cup {None}]
      BY <2>4, <3>1 DEF HandleAcknowledge
    <3>3. job' \in [Workers -> JobType]
      BY <2>4 DEF HandleAcknowledge, JobType, IdleJob
    <3>4. \A v \in Workers : /\ job'[v].pc = "tx" => job'[v].msg # None
                             /\ job'[v].pc \in {"ack", "visible"} => job'[v].msg \in UserMsgs
      BY <2>4 DEF HandleAcknowledge, JobType, IdleJob
    <3>5. stored' \subseteq Msgs /\ acked' \subseteq UserMsgs
      BY <2>4, <3>1 DEF HandleAcknowledge, MarkInteractionAsAcknowledged
    <3>6. older' \subseteq Notes \X Notes
      BY <2>4, <3>1 DEF HandleAcknowledge, MarkInteractionAsAcknowledged, Appended
    <3> QED
      BY <2>4, <3>2, <3>3, <3>4, <3>5, <3>6 DEF HandleAcknowledge
  <2>5. ASSUME NEW w \in Workers, SendAck(w)
        PROVE  TypeOK'
    <3>0. job[w] \in JobType /\ job[w].msg \in UserMsgs /\ job' = [job EXCEPT ![w].pc = "visible"]
      BY <2>5 DEF SendAck
    <3>1. job' \in [Workers -> JobType]
      BY <3>0 DEF JobType
    <3>2. \A v \in Workers : /\ job'[v].pc = "tx" => job'[v].msg # None
                             /\ job'[v].pc \in {"ack", "visible"} => job'[v].msg \in UserMsgs
      <4>1. job'[w].pc = "visible" /\ job'[w].msg = job[w].msg
        BY <3>0 DEF JobType
      <4>2. \A v \in Workers : v # w => job'[v] = job[v]
        BY <3>0
      <4> QED
        BY <3>0, <4>1, <4>2
    <3>3. acksSent' \in [UserMsgs -> Nat]
      BY <2>5 DEF SendAck
    <3> QED
      BY <2>5, <3>1, <3>2, <3>3 DEF SendAck, tables
  <2>6. ASSUME NEW w \in Workers, DispatchVisible(w)
        PROVE  TypeOK'
    <3>1. job' \in [Workers -> JobType]
      BY <2>6 DEF DispatchVisible, JobType, IdleJob
    <3>2. \A v \in Workers : /\ job'[v].pc = "tx" => job'[v].msg # None
                             /\ job'[v].pc \in {"ack", "visible"} => job'[v].msg \in UserMsgs
      BY <2>6 DEF DispatchVisible, JobType, IdleJob
    <3> QED
      BY <2>6, <3>1, <3>2 DEF DispatchVisible
  <2>7. ASSUME NEW m \in UserMsgs, PushCheck(m)
        PROVE  TypeOK'
    BY <2>7, NoneAssumption DEF PushCheck, tables, Msgs
  <2>8. CASE PushLookup
    <3>1. MemberFor(DeviceOf[push.msg]) \in Members \cup {None}
      BY <2>8, LogAssumption, MemberForType DEF PushLookup, Msgs
    <3> QED
      BY <2>8, <3>1 DEF PushLookup, tables
  <2>9. CASE PushAdd
    <3>1. push.msg \in UserMsgs /\ push.msg \in Msgs
      BY <2>9 DEF PushAdd, Msgs
    <3>2. author' \in [Msgs -> Members \cup {None}]
      BY <2>9, <3>1 DEF PushAdd
    <3>3. stored' \subseteq Msgs /\ pushed' \subseteq UserMsgs
      BY <2>9, <3>1 DEF PushAdd
    <3> QED
      BY <2>9, <3>2, <3>3 DEF PushAdd, IdlePush
  <2>10. CASE AnnounceInitialMember
    BY <2>10, MemberAssumption DEF AnnounceInitialMember, AddMember
  <2>11. ASSUME NEW i \in InfoMsgs, BacklogUserInfo(i)
         PROVE  TypeOK'
    BY <2>11 DEF BacklogUserInfo, Appended, Msgs, Notes
  <2>12. ASSUME NEW i \in InfoMsgs, SetUserInfo(i)
         PROVE  TypeOK'
    <3>1. DateOf[i] \in Nat
      BY LogAssumption
    <3>2. name' \in [Members -> InfoMsgs \cup {None}] /\ infoDate' \in [Members -> Nat]
      BY <2>12, <3>1 DEF SetUserInfo
    <3> QED
      BY <2>12, <3>2 DEF SetUserInfo
  <2>13. ASSUME NEW d \in Devices, RegisterDevice(d)
         PROVE  TypeOK'
    <3>1. meta' \in MetaType
      BY <2>13, IdleMetaType DEF RegisterDevice, AddDevice
    <3>2. meta'.dev = d
      BY <2>13 DEF RegisterDevice, AddDevice, IdleMeta
    <3> QED
      BY <2>13, <3>1, <3>2, NoneAssumption DEF RegisterDevice, AddDevice, MetaType
  <2>14. CASE AttributeBacklog
    <3>1. MemberOf[meta.dev] \in Members
      BY <2>14, MemberAssumption DEF AttributeBacklog
    <3>2. author' \in [Msgs -> Members \cup {None}]
      BY <2>14, <3>1 DEF AttributeBacklog
    <3>3. PICK q \in InRowOrder(Backlog(meta.dev) \cap Notes) :
                  meta' = [meta EXCEPT !.pc = "drain", !.queue = q]
      BY <2>14 DEF AttributeBacklog
    <3>4. q \in Seq(Notes)
      BY <3>3, RowOrderIsSequence
    <3> QED
      BY <2>14, <3>2, <3>3, <3>4 DEF AttributeBacklog
  <2>15. CASE DrainUserInfo
    <3>1. Tail(meta.queue) \in Seq(Notes) /\ Head(meta.queue) \in InfoMsgs
      BY <2>15 DEF DrainUserInfo
    <3>2. author' \in [Msgs -> Members \cup {None}]
      BY <2>15, <3>1 DEF DrainUserInfo, Msgs
    <3>3. older' \subseteq Notes \X Notes
      BY <2>15 DEF DrainUserInfo, Without
    <3> QED
      BY <2>15, <3>1, <3>2, <3>3 DEF DrainUserInfo
  <2>16. CASE DrainAck
    <3>1. Tail(meta.queue) \in Seq(Notes)
      BY <2>16 DEF DrainAck
    <3>2. meta' = [meta EXCEPT !.queue = Tail(@)] \/ meta' = IdleMeta
      BY <2>16 DEF DrainAck
    <3>3. meta' \in MetaType /\ (meta'.pc # "idle" => meta'.dev # None)
      BY <2>16, <3>1, <3>2, IdleMetaType DEF DrainAck, IdleMeta, MetaType
    <3> QED
      BY <2>16, <3>3 DEF DrainAck, MetaType, tables
  <2>17. CASE UpsertMember
    <3>1. MemberOf[meta.dev] \in Members
      BY <2>17, MemberAssumption DEF UpsertMember
    <3> QED
      BY <2>17, <3>1 DEF UpsertMember, IdleMeta
  <2>18. ASSUME NEW status \in BOOLEAN, SetConversationIsOpenStatus(status)
         PROVE  TypeOK'
    BY <2>18 DEF SetConversationIsOpenStatus, UnreadOnOpen
  <2>19. CASE Resubscribe
    BY <2>19, SessionAssumption DEF Resubscribe, tables, Complete
  <2>20. CASE Crash
    BY <2>20, SessionAssumption DEF Crash, tables, Complete, IdleJob, IdlePush, IdleMeta, JobType
  <2> QED
    BY <2>1, <2>2, <2>3, <2>4, <2>5, <2>6, <2>7, <2>8, <2>9, <2>10, <2>11, <2>12, <2>13,
       <2>14, <2>15, <2>16, <2>17, <2>18, <2>19, <2>20
    DEF Next, Metadata, DeviceAdded, Push, App, Messages, JobStep
<1> QED
  BY <1>1, <1>2, PTL DEF Spec

---------------------------------------------------------------------------
(* The backlog. The invariant is inductive once it is known that a message *)
(* without a row has no author: the row of a SetUserInfo is created with   *)
(* whatever the column holds.                                              *)

BacklogInv == TypeOK /\ RowsOnly /\ BacklogAttributed

\* Where the tables and the metadata goroutine stay, so does the invariant.
LEMMA BacklogFrame ==
    ASSUME RowsOnly, BacklogAttributed,
           UNCHANGED <<known, stored, author, pushed, meta, metaTodo>>
    PROVE  RowsOnly' /\ BacklogAttributed'
BY DEF RowsOnly, BacklogAttributed, Synced

LEMMA BacklogStep == BacklogInv /\ [Next]_vars => RowsOnly' /\ BacklogAttributed'
<1> SUFFICES ASSUME BacklogInv, [Next]_vars PROVE RowsOnly' /\ BacklogAttributed'
  OBVIOUS
<1> USE DEF BacklogInv
<1>a. \A m \in Msgs : /\ DeviceOf[m] \in Devices
                      /\ DeviceOf[m] # Creator
                      /\ DeviceOf[m] \notin InfoMsgs
                      /\ MemberOf[DeviceOf[m]] # None
  BY LogAssumption, MemberAssumption, NoneAssumption
<1>b. stored \subseteq Msgs /\ UserMsgs \subseteq Msgs /\ AckMsgs \subseteq Msgs
      /\ InfoMsgs \subseteq Msgs /\ pushed \subseteq UserMsgs
  BY DEF TypeOK, Msgs
<1>1. CASE UNCHANGED vars
  BY <1>1, BacklogFrame DEF vars, tables
<1>2. ASSUME NEW w \in Workers, NEW m \in UserMsgs \cup AckMsgs, BuildInteraction(w, m)
      PROVE  RowsOnly' /\ BacklogAttributed'
  BY <1>2, BacklogFrame DEF BuildInteraction, tables
<1>3. ASSUME NEW w \in Workers, StoreUserMessage(w)
      PROVE  RowsOnly' /\ BacklogAttributed'
  <2> DEFINE m == job[w].msg
  <2>1. m \in Msgs /\ m \in UserMsgs /\ m \notin WaitingAcks(m)
    BY <1>3, <1>b, LogAssumption DEF StoreUserMessage, WaitingAcks
  <2>2. ASSUME NEW x \in Msgs, author'[x] # None PROVE x \in stored'
    BY <1>3, <2>1, <2>2 DEF StoreUserMessage, RowsOnly, TypeOK
  <2>3. ASSUME NEW x \in Synced'
        PROVE  \/ author'[x] = MemberOf[DeviceOf[x]]
               \/ /\ author'[x] = None
                  /\ \/ DeviceOf[x] \notin known
                     \/ DeviceOf[x] \in metaTodo
                     \/ meta.pc = "attribute" /\ meta.dev = DeviceOf[x]
    <3>1. CASE x = m /\ IsNew(m)
      <4>1. author'[x] = MemberFor(DeviceOf[x])
        BY <1>3, <2>1, <3>1 DEF StoreUserMessage
      <4> QED
        BY <4>1 DEF MemberFor
    <3>2. CASE ~(x = m /\ IsNew(m))
      <4>1. x \in Synced /\ x \in Msgs /\ x \notin WaitingAcks(m)
        BY <1>3, <1>b, <2>1, <3>2 DEF StoreUserMessage, Synced, IsNew
      <4>2. author'[x] = author[x]
        BY <1>3, <3>2, <4>1 DEF StoreUserMessage
      <4> QED
        BY <4>1, <4>2 DEF BacklogAttributed
    <3> QED
      BY <3>1, <3>2
  <2> QED
    BY <1>3, <2>2, <2>3 DEF StoreUserMessage, RowsOnly, BacklogAttributed
<1>4. ASSUME NEW w \in Workers, HandleAcknowledge(w)
      PROVE  RowsOnly' /\ BacklogAttributed'
  <2> DEFINE a == job[w].msg
  <2>1. a \in Msgs /\ a \in AckMsgs
    BY <1>4, <1>b DEF HandleAcknowledge
  <2>2. CASE TargetOf[a] \in stored \/ a \in stored
    BY <1>4, <2>2, BacklogFrame, Zenon DEF HandleAcknowledge, RowsOnly, BacklogAttributed, Synced
  <2>3. CASE ~(TargetOf[a] \in stored \/ a \in stored)
    <3>1. stored' = stored \cup {a} /\ author' = [author EXCEPT ![a] = MemberFor(DeviceOf[a])]
      BY <1>4, <2>3 DEF HandleAcknowledge
    <3>2. author' = [author EXCEPT ![a] = MemberFor(DeviceOf[a])] /\ author \in [Msgs -> Members \cup {None}]
      BY <3>1 DEF TypeOK
    <3> QED
      BY <1>4, <2>1, <3>1, <3>2
      DEF HandleAcknowledge, RowsOnly, BacklogAttributed, Synced, MemberFor
  <2> QED
    BY <2>2, <2>3
<1>5. ASSUME NEW w \in Workers, SendAck(w) \/ DispatchVisible(w)
      PROVE  RowsOnly' /\ BacklogAttributed'
  BY <1>5, BacklogFrame DEF SendAck, DispatchVisible, tables
<1>6. CASE PushLookup \/ \E m \in UserMsgs : PushCheck(m)
  BY <1>6, BacklogFrame DEF PushLookup, PushCheck, tables
<1>7. CASE PushAdd
  <2>1. CASE push.msg \in stored
    BY <1>7, <2>1, BacklogFrame DEF PushAdd
  <2>2. CASE push.msg \notin stored
    <3>1. Synced' = Synced
      BY <1>7, <2>2, <1>b DEF PushAdd, Synced
    <3>2. \A x \in Synced : author'[x] = author[x]
      BY <1>7, <2>2, <1>b DEF PushAdd, Synced, TypeOK
    <3>3. RowsOnly'
      BY <1>7, <2>2 DEF PushAdd, RowsOnly, TypeOK
    <3> QED
      BY <1>7, <3>1, <3>2, <3>3 DEF PushAdd, BacklogAttributed
  <2> QED
    BY <2>1, <2>2
<1>8. CASE AnnounceInitialMember
  BY <1>8, <1>a, <1>b DEF AnnounceInitialMember, RowsOnly, BacklogAttributed, Synced
<1>9. ASSUME NEW i \in InfoMsgs, BacklogUserInfo(i)
      PROVE  RowsOnly' /\ BacklogAttributed'
  <2>1. DeviceOf[i] \notin known
    BY <1>9, <1>a, <1>b DEF BacklogUserInfo, MemberFor
  <2>2. i \notin Synced => author[i] = None
    BY <1>b, LogAssumption DEF RowsOnly, Synced
  <2> QED
    BY <1>9, <1>a, <1>b, <2>1, <2>2 DEF BacklogUserInfo, RowsOnly, BacklogAttributed, Synced
<1>10. ASSUME NEW i \in InfoMsgs, SetUserInfo(i)
       PROVE  RowsOnly' /\ BacklogAttributed'
  BY <1>10, <1>a, <1>b DEF SetUserInfo, RowsOnly, BacklogAttributed, Synced
<1>11. ASSUME NEW d \in Devices, RegisterDevice(d)
       PROVE  RowsOnly' /\ BacklogAttributed'
  <2>1. meta'.pc = "attribute" /\ meta'.dev = d /\ meta.pc = "idle"
    BY <1>11 DEF RegisterDevice, IdleMeta
  <2> QED
    BY <1>11, <2>1, <1>b DEF RegisterDevice, AddDevice, RowsOnly, BacklogAttributed, Synced
<1>12. CASE AttributeBacklog
  <2>1. meta'.pc = "drain"
    <3>1. PICK q \in InRowOrder(Backlog(meta.dev) \cap Notes) :
                  meta' = [meta EXCEPT !.pc = "drain", !.queue = q]
      BY <1>12 DEF AttributeBacklog
    <3> QED
      BY <3>1 DEF TypeOK
  <2>2. \A x \in Msgs : author'[x] = IF x \in Backlog(meta.dev) THEN MemberOf[meta.dev]
                                     ELSE author[x]
    BY <1>12 DEF AttributeBacklog
  <2>3. RowsOnly'
    BY <1>12, <2>2 DEF AttributeBacklog, RowsOnly, Backlog
  <2>4. BacklogAttributed'
    BY <1>12, <1>b, <2>2 DEF AttributeBacklog, BacklogAttributed, Backlog, Synced
  <2> QED
    BY <2>3, <2>4
<1>13. CASE DrainUserInfo
  <2>1. meta'.pc = "drain" /\ meta.pc = "drain"
    BY <1>13 DEF DrainUserInfo, TypeOK
  <2>2. \A x \in Msgs : author'[x] = IF x = Head(meta.queue) THEN None ELSE author[x]
    BY <1>13 DEF DrainUserInfo, TypeOK
  <2> QED
    BY <1>13, <1>b, <2>1, <2>2 DEF DrainUserInfo, RowsOnly, BacklogAttributed, Synced
<1>14. CASE DrainAck \/ UpsertMember
  <2>1. UNCHANGED <<known, stored, author, pushed, metaTodo>> /\ meta.pc = "drain"
    BY <1>14 DEF DrainAck, UpsertMember, tables
  <2> QED
    BY <2>1 DEF RowsOnly, BacklogAttributed, Synced
<1>15. ASSUME NEW status \in BOOLEAN, SetConversationIsOpenStatus(status)
       PROVE  RowsOnly' /\ BacklogAttributed'
  BY <1>15, BacklogFrame DEF SetConversationIsOpenStatus
<1>16. CASE Resubscribe \/ Crash
  BY <1>16, <1>a, <1>b DEF Resubscribe, Crash, tables, MetaLog, RowsOnly, BacklogAttributed, Synced
<1> QED
  BY <1>1, <1>2, <1>3, <1>4, <1>5, <1>6, <1>7, <1>8, <1>9, <1>10, <1>11, <1>12, <1>13,
     <1>14, <1>15, <1>16
  DEF Next, Metadata, DeviceAdded, Push, App, Messages, JobStep

\* Rows from the log are attributed, or their attribution is still to come: the
\* backlog of HandleAppMessage and groupMemberDeviceAdded loses no row, for every
\* interleaving, crash and new subscription.
THEOREM BacklogIsAttributed == Spec => []BacklogAttributed
<1>1. Init => RowsOnly /\ BacklogAttributed
  BY DEF Init, RowsOnly, BacklogAttributed, Synced
<1>2. TypeOK /\ (RowsOnly /\ BacklogAttributed) /\ [Next]_vars
      => (RowsOnly /\ BacklogAttributed)'
  BY BacklogStep DEF BacklogInv
<1> QED
  BY <1>1, <1>2, TypeCorrect, PTL DEF Spec
---------------------------------------------------------------------------
(* Acknowledgements and the unread counter.                                *)

\* An acknowledgement waits only for a message that has no row of its own, or
\* one that a push left; an open conversation has nothing unread. Both are
\* inductive with the types.
LEMMA WaitingAndUnreadStep ==
    TypeOK /\ NoWaitingAck /\ OpenMeansRead /\ [Next]_vars => NoWaitingAck' /\ OpenMeansRead'
<1> SUFFICES ASSUME TypeOK, NoWaitingAck, OpenMeansRead, [Next]_vars
             PROVE  NoWaitingAck' /\ OpenMeansRead'
  OBVIOUS
<1>a. \A a \in AckMsgs : TargetOf[a] \in UserMsgs /\ a \notin UserMsgs /\ a \notin InfoMsgs
  BY LogAssumption
<1>b. pushed \subseteq UserMsgs
  BY DEF TypeOK
<1>1. CASE UNCHANGED <<stored, pushed, unread, isOpen>>
  BY <1>1 DEF NoWaitingAck, OpenMeansRead, Synced
<1>2. ASSUME NEW w \in Workers, StoreUserMessage(w)
      PROVE  NoWaitingAck' /\ OpenMeansRead'
  <2>1. OpenMeansRead'
    BY <1>2 DEF StoreUserMessage, OpenMeansRead
  <2>2. NoWaitingAck'
    BY <1>2, <1>a, <1>b DEF StoreUserMessage, NoWaitingAck, Synced, WaitingAcks
  <2> QED
    BY <2>1, <2>2
<1>3. ASSUME NEW w \in Workers, HandleAcknowledge(w)
      PROVE  NoWaitingAck' /\ OpenMeansRead'
  BY <1>3, <1>a DEF HandleAcknowledge, NoWaitingAck, OpenMeansRead, Synced
<1>4. ASSUME NEW w \in Workers, DispatchVisible(w)
      PROVE  NoWaitingAck' /\ OpenMeansRead'
  BY <1>4 DEF DispatchVisible, NoWaitingAck, OpenMeansRead, Synced
<1>5. CASE PushAdd
  BY <1>5, <1>a DEF PushAdd, NoWaitingAck, OpenMeansRead, Synced, TypeOK
<1>6. ASSUME NEW i \in InfoMsgs, BacklogUserInfo(i)
      PROVE  NoWaitingAck' /\ OpenMeansRead'
  BY <1>6, <1>a, LogAssumption DEF BacklogUserInfo, NoWaitingAck, OpenMeansRead, Synced
<1>7. CASE DrainUserInfo
  BY <1>7, <1>a DEF DrainUserInfo, NoWaitingAck, OpenMeansRead, Synced
<1>8. ASSUME NEW status \in BOOLEAN, SetConversationIsOpenStatus(status)
      PROVE  NoWaitingAck' /\ OpenMeansRead'
  BY <1>8 DEF SetConversationIsOpenStatus, UnreadOnOpen, NoWaitingAck, OpenMeansRead, Synced
<1>9. [Next]_vars => \/ UNCHANGED <<stored, pushed, unread, isOpen>>
                     \/ \E w \in Workers : StoreUserMessage(w) \/ HandleAcknowledge(w)
                                           \/ DispatchVisible(w)
                     \/ PushAdd \/ DrainUserInfo
                     \/ \E i \in InfoMsgs : BacklogUserInfo(i)
                     \/ \E status \in BOOLEAN : SetConversationIsOpenStatus(status)
  <2>1. Push \/ App => \/ UNCHANGED <<stored, pushed, unread, isOpen>> \/ PushAdd
                       \/ \E status \in BOOLEAN : SetConversationIsOpenStatus(status)
    BY DEF Push, App, PushCheck, PushLookup, Resubscribe, Crash, tables
  <2>2. Metadata => \/ UNCHANGED <<stored, pushed, unread, isOpen>> \/ DrainUserInfo
                    \/ \E i \in InfoMsgs : BacklogUserInfo(i)
    BY DEF Metadata, DeviceAdded, AnnounceInitialMember, SetUserInfo, RegisterDevice,
           AttributeBacklog, DrainAck, UpsertMember, tables
  <2>3. ASSUME NEW w \in Workers
        PROVE  Messages(w) => \/ UNCHANGED <<stored, pushed, unread, isOpen>>
                              \/ StoreUserMessage(w) \/ HandleAcknowledge(w)
                              \/ DispatchVisible(w)
    BY DEF Messages, JobStep, BuildInteraction, SendAck, tables
  <2> QED
    BY <2>1, <2>2, <2>3 DEF Next, vars, tables
<1> QED
  BY <1>1, <1>2, <1>3, <1>4, <1>5, <1>6, <1>7, <1>8, <1>9

\* handleAppMessageAcknowledge and interactionConsumeAck, in whatever order they
\* run, leave no acknowledgement waiting for a message received from the log.
THEOREM NoAckWaits == Spec => []NoWaitingAck
<1>1. Init => NoWaitingAck /\ OpenMeansRead
  BY DEF Init, NoWaitingAck, OpenMeansRead
<1>2. TypeOK /\ (NoWaitingAck /\ OpenMeansRead) /\ [Next]_vars
      => (NoWaitingAck /\ OpenMeansRead)'
  BY WaitingAndUnreadStep
<1> QED
  BY <1>1, <1>2, TypeCorrect, PTL DEF Spec

\* dispatchVisibleInteraction and SetConversationIsOpenStatus keep the counter of
\* a conversation on display at zero.
THEOREM OpenIsRead == Spec => []OpenMeansRead
<1>1. Init => NoWaitingAck /\ OpenMeansRead
  BY DEF Init, NoWaitingAck, OpenMeansRead
<1>2. TypeOK /\ (NoWaitingAck /\ OpenMeansRead) /\ [Next]_vars
      => (NoWaitingAck /\ OpenMeansRead)'
  BY WaitingAndUnreadStep
<1> QED
  BY <1>1, <1>2, TypeCorrect, PTL DEF Spec

---------------------------------------------------------------------------
(* Rows received from the log.                                             *)

\* What one step may do to the row of a user message received from the log.
LEMMA SyncedRowStep ==
    ASSUME TypeOK, [Next]_vars, NEW m \in UserMsgs \cap Synced
    PROVE  /\ m \in Synced'
           /\ m \in acked => m \in acked'
           /\ author[m] # None => author'[m] = author[m]
<1> DEFINE Stable == /\ m \in Synced'
                     /\ m \in acked => m \in acked'
                     /\ author[m] # None => author'[m] = author[m]
<1>a. m \in Msgs /\ m \notin AckMsgs /\ m \notin InfoMsgs /\ m \in stored /\ m \notin pushed
  BY LogAssumption DEF Msgs, Synced
<1>b. author \in [Msgs -> Members \cup {None}]
  BY DEF TypeOK
<1>1. CASE UNCHANGED <<stored, pushed, acked, author>>
  BY <1>1 DEF Synced
<1>2. ASSUME NEW w \in Workers, StoreUserMessage(w)
      PROVE  Stable
  <2>1. m \notin WaitingAcks(job[w].msg)
    BY <1>a DEF WaitingAcks
  <2>2. job[w].msg = m => ~IsNew(m)
    BY DEF IsNew
  <2>3. m \in stored' /\ m \notin pushed'
    BY <1>2, <1>a, <2>1 DEF StoreUserMessage
  <2>4. author'[m] = author[m]
    BY <1>2, <1>a, <2>1, <2>2 DEF StoreUserMessage
  <2>5. m \in acked => m \in acked'
    BY <1>2, <2>2 DEF StoreUserMessage
  <2> QED
    BY <2>3, <2>4, <2>5 DEF Synced
<1>3. ASSUME NEW w \in Workers, HandleAcknowledge(w)
      PROVE  Stable
  <2>1. job[w].msg # m
    BY <1>3, <1>a DEF HandleAcknowledge
  <2> QED
    BY <1>3, <1>a, <1>b, <2>1 DEF HandleAcknowledge, MarkInteractionAsAcknowledged, Synced
<1>4. CASE PushAdd
  <2>1. push.msg = m \/ push.msg # m
    OBVIOUS
  <2> QED
    BY <1>4, <1>a, <1>b, <2>1 DEF PushAdd, Synced
<1>5. ASSUME NEW i \in InfoMsgs, BacklogUserInfo(i)
      PROVE  Stable
  BY <1>5, <1>a DEF BacklogUserInfo, Synced
<1>6. CASE AttributeBacklog
  <2>1. author[m] # None => m \notin Backlog(meta.dev)
    BY DEF Backlog
  <2> QED
    BY <1>6, <1>a, <2>1 DEF AttributeBacklog, Synced
<1>7. CASE DrainUserInfo
  BY <1>7, <1>a, <1>b DEF DrainUserInfo, Synced
<1>8. \/ UNCHANGED <<stored, pushed, acked, author>>
      \/ \E w \in Workers : StoreUserMessage(w) \/ HandleAcknowledge(w)
      \/ PushAdd \/ AttributeBacklog \/ DrainUserInfo
      \/ \E i \in InfoMsgs : BacklogUserInfo(i)
  <2>1. Push \/ App => UNCHANGED <<stored, pushed, acked, author>> \/ PushAdd
    BY DEF Push, App, PushCheck, PushLookup, Resubscribe, Crash, SetConversationIsOpenStatus,
           tables
  <2>2. Metadata => \/ UNCHANGED <<stored, pushed, acked, author>>
                    \/ AttributeBacklog \/ DrainUserInfo
                    \/ \E i \in InfoMsgs : BacklogUserInfo(i)
    BY DEF Metadata, DeviceAdded, AnnounceInitialMember, SetUserInfo, RegisterDevice,
           DrainAck, UpsertMember, tables
  <2>3. ASSUME NEW w \in Workers
        PROVE  Messages(w) => \/ UNCHANGED <<stored, pushed, acked, author>>
                              \/ StoreUserMessage(w) \/ HandleAcknowledge(w)
    BY DEF Messages, JobStep, BuildInteraction, SendAck, DispatchVisible, tables
  <2> QED
    BY <2>1, <2>2, <2>3 DEF Next, vars, tables
<1> QED
  BY <1>1, <1>2, <1>3, <1>4, <1>5, <1>6, <1>7, <1>8

\* A user message received from the log keeps its row, its mark and its author:
\* pushes, redeliveries and the backlog never undo them.
THEOREM SyncedRowsStay == Spec => SyncedRowsAreStable
<1>1. TypeOK /\ [Next]_vars
      => [\A m \in UserMsgs \cap Synced :
             /\ m \in Synced'
             /\ m \in acked => m \in acked'
             /\ author[m] # None => author'[m] = author[m]]_vars
  BY SyncedRowStep
<1> QED
  BY <1>1, TypeCorrect, PTL DEF Spec, SyncedRowsAreStable

---------------------------------------------------------------------------
(* Receipts: the acknowledgement and the increment of the counter that     *)
(* follow the commit of HandleAppMessage. Only the transaction that stores *)
(* a message as new is followed by them, so each message has at most one   *)
(* goroutine on its way to them; and no row that was received leaves.      *)

Received == UserMsgs \cap Synced
FromOthers == {m \in UserMsgs \cap Synced : DeviceOf[m] # OwnDevice}
Handling(w) == job[w].pc \in {"ack", "visible"}

\* A goroutine knows the messages of its own device, announced or not.
OwnKnown == \A w \in Workers :
    job[w].pc # "idle" /\ DeviceOf[job[w].msg] = OwnDevice => job[w].mine

Receipts ==
    /\ OwnKnown
    /\ \A w \in Workers : Handling(w) => job[w].msg \in Received
    /\ \A v, w \in Workers : Handling(v) /\ Handling(w) /\ job[v].msg = job[w].msg => v = w
    /\ \A w \in Workers : job[w].pc = "ack" => ~job[w].mine /\ acksSent[job[w].msg] = 0
    /\ \A m \in UserMsgs : acksSent[m] # 0 => m \in Received

\* Only the transaction of HandleAppMessage adds to the received user messages.
LEMMA ReceivedStep ==
    ASSUME TypeOK, [Next]_vars
    PROVE  Received' = Received \/ \E w \in Workers : StoreUserMessage(w)
<1>a. Received \subseteq Received'
  BY SyncedRowStep DEF Received
<1>b. UserMsgs \cap AckMsgs = {} /\ UserMsgs \cap InfoMsgs = {}
  BY LogAssumption
<1>1. CASE UNCHANGED <<stored, pushed>>
  BY <1>1 DEF Received, Synced
<1>2. ASSUME NEW w \in Workers, HandleAcknowledge(w)
      PROVE  Received' \subseteq Received
  BY <1>2, <1>b DEF HandleAcknowledge, Received, Synced
<1>3. ASSUME PushAdd PROVE Received' \subseteq Received
  BY <1>3 DEF PushAdd, Received, Synced
<1>4. ASSUME NEW i \in InfoMsgs, BacklogUserInfo(i)
      PROVE  Received' \subseteq Received
  BY <1>4, <1>b DEF BacklogUserInfo, Received, Synced
<1>5. ASSUME DrainUserInfo PROVE Received' \subseteq Received
  BY <1>5 DEF DrainUserInfo, Received, Synced
<1>6. \/ UNCHANGED <<stored, pushed>> \/ PushAdd \/ DrainUserInfo
      \/ \E w \in Workers : StoreUserMessage(w) \/ HandleAcknowledge(w)
      \/ \E i \in InfoMsgs : BacklogUserInfo(i)
  <2>1. Push \/ App => UNCHANGED <<stored, pushed>> \/ PushAdd
    BY DEF Push, App, PushCheck, PushLookup, Resubscribe, Crash, SetConversationIsOpenStatus,
           tables
  <2>2. Metadata => \/ UNCHANGED <<stored, pushed>> \/ DrainUserInfo
                    \/ \E i \in InfoMsgs : BacklogUserInfo(i)
    BY DEF Metadata, DeviceAdded, AnnounceInitialMember, SetUserInfo, RegisterDevice,
           AttributeBacklog, DrainAck, UpsertMember, tables
  <2>3. ASSUME NEW w \in Workers
        PROVE  Messages(w) => \/ UNCHANGED <<stored, pushed>>
                              \/ StoreUserMessage(w) \/ HandleAcknowledge(w)
    BY DEF Messages, JobStep, BuildInteraction, SendAck, DispatchVisible, tables
  <2> QED
    BY <2>1, <2>2, <2>3 DEF Next, vars, tables
<1> QED
  BY <1>a, <1>1, <1>2, <1>3, <1>4, <1>5, <1>6

\* The transaction receives its message, and no other.
LEMMA StoreReceives ==
    ASSUME TypeOK, NEW w \in Workers, StoreUserMessage(w)
    PROVE  Received' = Received \cup {job[w].msg} /\ job[w].msg \in UserMsgs
<1>1. \A a \in WaitingAcks(job[w].msg) : a \notin UserMsgs
  BY LogAssumption DEF WaitingAcks
<1> QED
  BY <1>1 DEF StoreUserMessage, Received, Synced

LEMMA ReceiptSteps ==
    ASSUME TypeOK, [Next]_vars
    PROVE  \/ UNCHANGED <<job, acksSent, unread, isOpen>>
           \/ \E w \in Workers, m \in UserMsgs \cup AckMsgs : BuildInteraction(w, m)
           \/ \E w \in Workers : StoreUserMessage(w) \/ HandleAcknowledge(w)
                                 \/ SendAck(w) \/ DispatchVisible(w)
           \/ Crash
           \/ \E status \in BOOLEAN : SetConversationIsOpenStatus(status)
<1>1. Push \/ App => \/ UNCHANGED <<job, acksSent, unread, isOpen>> \/ Crash
                     \/ \E status \in BOOLEAN : SetConversationIsOpenStatus(status)
  BY DEF Push, App, PushCheck, PushLookup, PushAdd, Resubscribe, tables
<1>2. Metadata => UNCHANGED <<job, acksSent, unread, isOpen>>
  BY DEF Metadata, DeviceAdded, AnnounceInitialMember, BacklogUserInfo, SetUserInfo,
         RegisterDevice, AttributeBacklog, DrainUserInfo, DrainAck, UpsertMember, tables
<1> QED
  BY <1>1, <1>2 DEF Next, Messages, JobStep, vars, tables

LEMMA ReceiptsStep == TypeOK /\ Receipts /\ [Next]_vars => Receipts'
<1> SUFFICES ASSUME TypeOK, Receipts, [Next]_vars PROVE Receipts'
  OBVIOUS
<1>a. Received \subseteq Received'
  BY SyncedRowStep DEF Received
<1>b. job \in [Workers -> JobType] /\ acksSent \in [UserMsgs -> Nat]
      /\ \A w \in Workers : Handling(w) => job[w].msg \in UserMsgs
  BY DEF TypeOK, Handling
<1>1. CASE UNCHANGED <<job, acksSent>>
  BY <1>a, <1>1 DEF Receipts, OwnKnown, Handling
<1>2. ASSUME NEW w \in Workers, NEW m \in UserMsgs \cup AckMsgs, BuildInteraction(w, m)
      PROVE  Receipts'
  <2>1. DeviceOf[m] = OwnDevice => IsMine(DeviceOf[m])
    BY DEF IsMine, OwnMember
  <2>2. job' = [job EXCEPT ![w] = [pc |-> "tx", msg |-> m, mine |-> IsMine(DeviceOf[m])]]
        /\ acksSent' = acksSent
    BY <1>2 DEF BuildInteraction
  <2>3. job'[w].pc = "tx" /\ job'[w].msg = m /\ job'[w].mine = IsMine(DeviceOf[m])
        /\ \A v \in Workers \ {w} : job'[v] = job[v]
    BY <1>b, <2>2
  <2>4. OwnKnown'
    BY <2>1, <2>3 DEF Receipts, OwnKnown
  <2> QED
    BY <1>a, <2>2, <2>3, <2>4 DEF Receipts, Handling
<1>3. ASSUME NEW w \in Workers, StoreUserMessage(w)
      PROVE  Receipts'
  <2> DEFINE m == job[w].msg
  <2>1. Received' = Received \cup {m} /\ m \in UserMsgs /\ acksSent' = acksSent
    BY <1>3, StoreReceives DEF StoreUserMessage
  <2>2. CASE ~IsNew(m)
    <3>1. job' = [job EXCEPT ![w] = IdleJob]
      BY <1>3, <2>2 DEF StoreUserMessage
    <3>2. job'[w].pc = "idle" /\ \A v \in Workers \ {w} : job'[v] = job[v]
      BY <1>b, <3>1 DEF IdleJob
    <3> QED
      BY <2>1, <3>2 DEF Receipts, OwnKnown, Handling
  <2>3. CASE IsNew(m)
    <3>1. job' = [job EXCEPT ![w] = [@ EXCEPT !.pc = IF job[w].mine THEN "visible" ELSE "ack"]]
      BY <1>3, <2>3 DEF StoreUserMessage
    <3>2. /\ job'[w].pc = (IF job[w].mine THEN "visible" ELSE "ack")
          /\ job'[w].msg = m /\ job'[w].mine = job[w].mine
          /\ \A v \in Workers \ {w} : job'[v] = job[v]
      BY <1>b, <3>1 DEF JobType
    <3>3. m \notin Received /\ acksSent[m] = 0
      BY <2>1, <2>3 DEF IsNew, Received, Receipts
    <3>4. job[w].pc # "idle" /\ ~Handling(w)
      BY <1>3 DEF StoreUserMessage, Handling
    <3>5. OwnKnown'
      BY <3>2, <3>4 DEF Receipts, OwnKnown
    <3>6. \A u, v \in Workers :
             Handling(u)' /\ Handling(v)' /\ job'[u].msg = job'[v].msg => u = v
      BY <3>2, <3>3 DEF Receipts, Handling
    <3>7. \A v \in Workers : Handling(v)' => job'[v].msg \in Received'
      BY <2>1, <3>2 DEF Receipts, Handling
    <3>8. \A v \in Workers : job'[v].pc = "ack" => ~job'[v].mine /\ acksSent'[job'[v].msg] = 0
      BY <2>1, <3>2, <3>3 DEF Receipts
    <3> QED
      BY <2>1, <3>5, <3>6, <3>7, <3>8 DEF Receipts
  <2> QED
    BY <2>2, <2>3
<1>4. ASSUME NEW w \in Workers, HandleAcknowledge(w) \/ DispatchVisible(w)
      PROVE  Receipts'
  <2>1. job' = [job EXCEPT ![w] = IdleJob] /\ acksSent' = acksSent
    BY <1>4 DEF HandleAcknowledge, DispatchVisible
  <2>2. job'[w].pc = "idle" /\ \A v \in Workers \ {w} : job'[v] = job[v]
    BY <1>b, <2>1 DEF IdleJob
  <2> QED
    BY <1>a, <2>1, <2>2 DEF Receipts, OwnKnown, Handling
<1>5. ASSUME NEW w \in Workers, SendAck(w)
      PROVE  Receipts'
  <2>1. /\ job' = [job EXCEPT ![w].pc = "visible"]
        /\ acksSent' = [acksSent EXCEPT ![job[w].msg] = @ + 1]
        /\ job[w].pc = "ack" /\ Handling(w)
    BY <1>5 DEF SendAck, Handling
  <2>2. /\ job'[w].pc = "visible" /\ job'[w].msg = job[w].msg /\ job'[w].mine = job[w].mine
        /\ \A v \in Workers \ {w} : job'[v] = job[v]
    BY <1>b, <2>1 DEF JobType
  <2>3. OwnKnown'
    BY <2>1, <2>2 DEF Receipts, OwnKnown
  <2>4. \A v \in Workers : Handling(v)' = Handling(v) /\ job'[v].msg = job[v].msg
    BY <2>1, <2>2 DEF Handling
  <2>5. \A v \in Workers \ {w} : job[v].pc = "ack" => job[v].msg # job[w].msg
    BY <2>1 DEF Receipts, Handling
  <2>6. \A v \in Workers : job'[v].pc = "ack" => ~job'[v].mine /\ acksSent'[job'[v].msg] = 0
    BY <1>b, <2>1, <2>2, <2>5 DEF Receipts, Handling
  <2>7. \A m \in UserMsgs : acksSent'[m] # 0 => m \in Received
    BY <1>b, <2>1 DEF Receipts
  <2> QED
    BY <1>a, <2>3, <2>4, <2>6, <2>7 DEF Receipts
<1>6. CASE Crash
  <2>1. acksSent' = acksSent /\ \A w \in Workers : job'[w].pc = "idle"
    BY <1>6 DEF Crash, IdleJob
  <2> QED
    BY <1>a, <2>1 DEF Receipts, OwnKnown, Handling
<1>7. ASSUME NEW status \in BOOLEAN, SetConversationIsOpenStatus(status)
      PROVE  Receipts'
  BY <1>1, <1>7 DEF SetConversationIsOpenStatus
<1> QED
  BY <1>1, <1>2, <1>3, <1>4, <1>5, <1>6, <1>7, ReceiptSteps

LEMMA ReceiptsHold == Spec => []Receipts
<1>1. Init => Receipts
  BY DEF Init, Receipts, OwnKnown, Handling, IdleJob
<1> QED
  BY <1>1, ReceiptsStep, TypeCorrect, PTL DEF Spec

\* InteractionReceived runs at most once per message: whatever is replayed, pushed,
\* redelivered or lost in a crash, a message is acknowledged to the group at most
\* once, and one's own never.
THEOREM AckedAtMostOnce == Spec => []AckedOnce
<1>1. Init => AckedOnce
  BY DEF Init, AckedOnce
<1>2. TypeOK /\ Receipts /\ AckedOnce /\ [Next]_vars => AckedOnce'
  <2> SUFFICES ASSUME TypeOK, Receipts, AckedOnce, [Next]_vars PROVE AckedOnce'
    OBVIOUS
  <2>1. CASE UNCHANGED acksSent
    BY <2>1 DEF AckedOnce
  <2>2. ASSUME NEW w \in Workers, SendAck(w) PROVE AckedOnce'
    <3> DEFINE m == job[w].msg
    <3>1. acksSent' = [acksSent EXCEPT ![m] = @ + 1] /\ job[w].pc = "ack" /\ m \in UserMsgs
      BY <2>2 DEF SendAck, TypeOK
    <3>2. acksSent[m] = 0 /\ DeviceOf[m] # OwnDevice
      BY <3>1 DEF Receipts, OwnKnown
    <3> QED
      BY <3>1, <3>2 DEF AckedOnce, TypeOK
  <2> QED
    BY <2>1, <2>2, ReceiptSteps
    DEF BuildInteraction, StoreUserMessage, HandleAcknowledge, DispatchVisible, Crash,
        SetConversationIsOpenStatus
<1> QED
  BY <1>1, <1>2, ReceiptsHold, TypeCorrect, PTL DEF Spec

---------------------------------------------------------------------------
(* The unread counter. Every increment, done or in flight, is that of one  *)
(* received message of another device.                                     *)

Counted ==
    /\ IsFiniteSet(FromOthers)
    /\ IsFiniteSet(Counting)
    /\ unread + Cardinality(Counting) <= Cardinality(FromOthers)

LEMMA CountedStep == TypeOK /\ Receipts /\ Counted /\ [Next]_vars => Counted'
<1> SUFFICES ASSUME TypeOK, Receipts, Counted, [Next]_vars PROVE Counted'
  OBVIOUS
<1>a. job \in [Workers -> JobType] /\ unread \in Nat
      /\ Cardinality(Counting) \in Nat /\ Cardinality(FromOthers) \in Nat
  BY FS_CardinalityType DEF TypeOK, Counted
<1>b. FromOthers = {m \in Received : DeviceOf[m] # OwnDevice}
      /\ FromOthers' = {m \in Received' : DeviceOf[m] # OwnDevice}
  BY DEF FromOthers, Received
\* What is left of the counter's increments is counted as before.
<1>c. ASSUME FromOthers' = FromOthers, IsFiniteSet(Counting'), unread' \in Nat,
             unread' + Cardinality(Counting') <= unread + Cardinality(Counting)
      PROVE  Counted'
  <2>1. Cardinality(Counting') \in Nat
    BY <1>c, FS_CardinalityType
  <2> QED
    BY <1>a, <1>c, <2>1 DEF Counted
<1>1. ASSUME UNCHANGED <<job, unread>>, Received' = Received PROVE Counted'
  <2>1. Counting' = Counting /\ FromOthers' = FromOthers
    BY <1>b, <1>1 DEF Counting
  <2> QED
    BY <1>1, <2>1 DEF Counted
<1>2. ASSUME NEW w \in Workers, NEW m \in UserMsgs \cup AckMsgs, BuildInteraction(w, m),
             Received' = Received
      PROVE  Counted'
  <2>1. /\ job' = [job EXCEPT ![w] = [pc |-> "tx", msg |-> m, mine |-> IsMine(DeviceOf[m])]]
        /\ job[w].pc = "idle" /\ unread' = unread
    BY <1>2 DEF BuildInteraction, tables
  <2>2. job'[w].pc = "tx" /\ \A v \in Workers \ {w} : job'[v] = job[v]
    BY <1>a, <2>1
  <2>3. Counting' = Counting
    BY <2>1, <2>2 DEF Counting
  <2> QED
    BY <1>a, <1>b, <1>c, <1>2, <2>1, <2>3 DEF Counted
<1>3. ASSUME NEW w \in Workers, StoreUserMessage(w)
      PROVE  Counted'
  <2> DEFINE m == job[w].msg
  <2>1. Received' = Received \cup {m} /\ m \in UserMsgs /\ unread' = unread
    BY <1>3, StoreReceives DEF StoreUserMessage
  <2>2. w \notin Counting
    BY <1>3 DEF StoreUserMessage, Counting
  <2>3. CASE ~IsNew(m)
    <3>1. job' = [job EXCEPT ![w] = IdleJob] /\ m \in Received
      BY <1>3, <2>1, <2>3 DEF StoreUserMessage, IsNew, Received
    <3>2. job'[w].pc = "idle" /\ \A v \in Workers \ {w} : job'[v] = job[v]
      BY <1>a, <3>1 DEF IdleJob
    <3>3. Counting' = Counting /\ FromOthers' = FromOthers
      BY <1>b, <2>1, <2>2, <3>1, <3>2 DEF Counting
    <3> QED
      BY <1>a, <1>c, <2>1, <3>3 DEF Counted
  <2>4. CASE IsNew(m)
    <3>1. job' = [job EXCEPT ![w] = [@ EXCEPT !.pc = IF job[w].mine THEN "visible" ELSE "ack"]]
      BY <1>3, <2>4 DEF StoreUserMessage
    <3>2. /\ job'[w].pc = (IF job[w].mine THEN "visible" ELSE "ack")
          /\ job'[w].mine = job[w].mine
          /\ \A v \in Workers \ {w} : job'[v] = job[v]
      BY <1>a, <3>1 DEF JobType
    <3>3. m \notin FromOthers
      BY <1>b, <2>4 DEF IsNew, Received
    <3>4. CASE job[w].mine
      <4>1. Counting' = Counting
        BY <2>2, <3>2, <3>4 DEF Counting
      <4>2. FromOthers' = FromOthers \/ FromOthers' = FromOthers \cup {m}
        BY <1>b, <2>1
      <4>3. IsFiniteSet(FromOthers') /\ Cardinality(FromOthers') >= Cardinality(FromOthers)
            /\ Cardinality(FromOthers') \in Nat
        <5>1. CASE FromOthers' = FromOthers
          BY <1>a, <5>1 DEF Counted
        <5>2. CASE FromOthers' = FromOthers \cup {m}
          <6>1. IsFiniteSet(FromOthers \cup {m})
                /\ Cardinality(FromOthers \cup {m}) = Cardinality(FromOthers) + 1
            BY <3>3, FS_AddElement DEF Counted
          <6> QED
            BY <1>a, <5>2, <6>1
        <5> QED
          BY <4>2, <5>1, <5>2
      <4>4. unread + Cardinality(Counting) <= Cardinality(FromOthers')
        BY <1>a, <4>3 DEF Counted
      <4>5. IsFiniteSet(Counting')
        BY <4>1 DEF Counted
      <4> QED
        BY <2>1, <4>1, <4>3, <4>4, <4>5 DEF Counted
    <3>5. CASE ~job[w].mine
      <4>1. DeviceOf[m] # OwnDevice
        BY <1>3, <3>5 DEF Receipts, OwnKnown, StoreUserMessage
      <4>2. Counting' = Counting \cup {w} /\ FromOthers' = FromOthers \cup {m}
        BY <1>b, <2>1, <3>2, <3>5, <4>1 DEF Counting
      <4>3. /\ IsFiniteSet(Counting \cup {w}) /\ IsFiniteSet(FromOthers \cup {m})
            /\ Cardinality(Counting \cup {w}) = Cardinality(Counting) + 1
            /\ Cardinality(FromOthers \cup {m}) = Cardinality(FromOthers) + 1
        BY <2>2, <3>3, FS_AddElement DEF Counted
      <4>4. unread + (Cardinality(Counting) + 1) <= Cardinality(FromOthers) + 1
        BY <1>a DEF Counted
      <4> QED
        BY <2>1, <4>2, <4>3, <4>4 DEF Counted
    <3> QED
      BY <3>4, <3>5
  <2> QED
    BY <2>3, <2>4
<1>4. ASSUME NEW w \in Workers, HandleAcknowledge(w), Received' = Received
      PROVE  Counted'
  <2>1. job' = [job EXCEPT ![w] = IdleJob] /\ job[w].pc = "tx" /\ unread' = unread
    BY <1>4 DEF HandleAcknowledge
  <2>2. job'[w].pc = "idle" /\ \A v \in Workers \ {w} : job'[v] = job[v]
    BY <1>a, <2>1 DEF IdleJob
  <2>3. Counting' = Counting /\ FromOthers' = FromOthers
    BY <1>b, <1>4, <2>1, <2>2 DEF Counting
  <2> QED
    BY <1>a, <1>c, <2>1, <2>3 DEF Counted
<1>5. ASSUME NEW w \in Workers, SendAck(w), Received' = Received
      PROVE  Counted'
  <2>1. job' = [job EXCEPT ![w].pc = "visible"] /\ job[w].pc = "ack" /\ unread' = unread
    BY <1>5 DEF SendAck, tables
  <2>2. /\ job'[w].pc = "visible" /\ job'[w].mine = job[w].mine
        /\ \A v \in Workers \ {w} : job'[v] = job[v]
    BY <1>a, <2>1 DEF JobType
  <2>3. Counting' = Counting /\ FromOthers' = FromOthers
    BY <1>b, <1>5, <2>1, <2>2 DEF Counting
  <2> QED
    BY <1>a, <1>c, <2>1, <2>3 DEF Counted
<1>6. ASSUME NEW w \in Workers, DispatchVisible(w), Received' = Received
      PROVE  Counted'
  <2>1. /\ job' = [job EXCEPT ![w] = IdleJob] /\ job[w].pc = "visible"
        /\ unread' = IF job[w].mine \/ isOpen THEN unread ELSE unread + 1
    BY <1>6 DEF DispatchVisible
  <2>2. job'[w].pc = "idle" /\ \A v \in Workers \ {w} : job'[v] = job[v]
    BY <1>a, <2>1 DEF IdleJob
  <2>3. Counting' = Counting \ {w} /\ FromOthers' = FromOthers
    BY <1>b, <1>6, <2>2 DEF Counting
  <2>4. IsFiniteSet(Counting \ {w})
        /\ Cardinality(Counting \ {w}) = IF w \in Counting THEN Cardinality(Counting) - 1
                                         ELSE Cardinality(Counting)
    BY FS_RemoveElement DEF Counted
  <2>5. job[w].mine \/ w \in Counting
    BY <2>1 DEF Counting
  <2>6. unread' + Cardinality(Counting') <= unread + Cardinality(Counting) /\ unread' \in Nat
    BY <1>a, <2>1, <2>3, <2>4, <2>5
  <2> QED
    BY <1>c, <2>3, <2>4, <2>6
<1>7. ASSUME Crash, Received' = Received PROVE Counted'
  <2>1. unread' = unread /\ \A w \in Workers : job'[w].pc = "idle"
    BY <1>7 DEF Crash, IdleJob, tables
  <2>2. Counting' = {} /\ FromOthers' = FromOthers
    BY <1>b, <1>7, <2>1 DEF Counting
  <2>3. IsFiniteSet(Counting') /\ Cardinality(Counting') = 0
    BY <2>2, FS_EmptySet
  <2> QED
    BY <1>a, <1>c, <2>1, <2>2, <2>3
<1>8. ASSUME NEW status \in BOOLEAN, SetConversationIsOpenStatus(status), Received' = Received
      PROVE  Counted'
  <2>1. job' = job /\ (unread' = unread \/ unread' = 0)
    BY <1>8 DEF SetConversationIsOpenStatus, UnreadOnOpen
  <2>2. Counting' = Counting /\ FromOthers' = FromOthers
    BY <1>b, <1>8, <2>1 DEF Counting
  <2> QED
    BY <1>a, <1>c, <2>1, <2>2 DEF Counted
<1> QED
  BY <1>1, <1>2, <1>3, <1>4, <1>5, <1>6, <1>7, <1>8, ReceiptSteps, ReceivedStep

\* dispatchVisibleInteraction counts each message of the others at most once, and
\* no message of this device: the counter never runs ahead of the messages
\* received, for any number of goroutines, crashes and pushes.
THEOREM CountedAtMostOnce == Spec => []CountedOnce
<1>1. Init => Counted
  <2> SUFFICES ASSUME Init PROVE Counted
    OBVIOUS
  <2>1. FromOthers = {} /\ Counting = {} /\ unread = 0
    BY DEF Init, FromOthers, Counting, Synced, IdleJob
  <2> QED
    BY <2>1, FS_EmptySet DEF Counted
<1>2. Counted => CountedOnce
  BY DEF Counted, CountedOnce, FromOthers
<1> QED
  BY <1>1, <1>2, CountedStep, ReceiptsHold, TypeCorrect, PTL DEF Spec

---------------------------------------------------------------------------
(* The name of a member. A listing that starts from a complete state finds *)
(* every device known and every member with a row, and leaves it so: no    *)
(* SetUserInfo goes through the backlog, hence none is applied out of the  *)
(* order of dates. What is stored before it came from the same log.        *)

\* The date of a member is that of one of its SetUserInfo, or none was applied.
DateFromLog == \A p \in Members :
    infoDate[p] = 0 \/ \E j \in InfosOf(p) : DateOf[j] = infoDate[p]

\* The handler of a device drains no SetUserInfo.
NothingToDrain ==
    meta.pc # "idle" => /\ meta.info = None
                        /\ \A k \in 1 .. Len(meta.queue) : meta.queue[k] \notin InfoMsgs

\* What was listed so far is no newer than the date of the member.
ListedIsOlder == \A p \in Members :
    \A i \in InfosOf(p) \ metaTodo : DateOf[i] <= infoDate[p]

\* The name goes with the date, or the payload it goes with is still to be listed.
NameOfDate(p) ==
    \/ name[p] \in InfosOf(p) /\ DateOf[name[p]] = infoDate[p]
    \/ \E j \in InfosOf(p) \cap metaTodo : DateOf[j] = infoDate[p]
    \/ infoDate[p] = 0 /\ InfosOf(p) \subseteq metaTodo

Listing ==
    settled => /\ Complete
               /\ NothingToDrain
               /\ ListedIsOlder
               /\ \A p \in Members : NameOfDate(p)

Names == DateFromLog /\ Listing

\* The queue of a handler holds rows of its backlog.
LEMMA RowOrderElements ==
    ASSUME NEW S \in SUBSET Notes, NEW q \in InRowOrder(S)
    PROVE  \A k \in 1 .. Len(q) : q[k] \in S
<1>1. IsFiniteSet(S)
  BY LogAssumption, FS_Subset
<1>2. Cardinality(S) \in Nat
  BY <1>1, FS_CardinalityType
<1>3. q \in [1 .. Cardinality(S) -> S]
  BY DEF InRowOrder
<1> QED
  BY <1>2, <1>3

\* A complete state stays complete, and then no SetUserInfo is drained.
LEMMA CompleteStep ==
    ASSUME TypeOK, Complete, NothingToDrain, [Next]_vars
    PROVE  Complete' /\ NothingToDrain'
<1>a. \A m \in Msgs : DeviceOf[m] \in Devices /\ MemberFor(DeviceOf[m]) = MemberOf[DeviceOf[m]]
                      /\ MemberFor(DeviceOf[m]) # None
  BY LogAssumption, MemberAssumption, NoneAssumption DEF Complete, MemberFor
<1>b. UserMsgs \cap InfoMsgs = {} /\ AckMsgs \cap InfoMsgs = {} /\ InfoMsgs \subseteq Msgs
      /\ UserMsgs \subseteq Msgs
  BY LogAssumption DEF Msgs
<1>c. author \in [Msgs -> Members \cup {None}] /\ meta.queue \in Seq(Notes)
  BY DEF TypeOK
<1>d. None \notin Members
  BY NoneAssumption
<1>1. CASE UNCHANGED <<known, members, stored, author, meta>>
  BY <1>1 DEF Complete, NothingToDrain
<1>2. ASSUME NEW w \in Workers, StoreUserMessage(w)
      PROVE  Complete' /\ NothingToDrain'
  <2> DEFINE m == job[w].msg
  <2>1. UNCHANGED <<known, members, meta>> /\ stored' = (stored \cup {m}) \ WaitingAcks(m)
        /\ m \in UserMsgs
    BY <1>2 DEF StoreUserMessage
  <2>2. \A i \in InfoMsgs : i \notin WaitingAcks(m) /\ i # m
    BY <1>b, <2>1 DEF WaitingAcks
  <2>3. \A i \in InfoMsgs : author'[i] = author[i]
    BY <1>2, <1>b, <2>2 DEF StoreUserMessage
  <2> QED
    BY <2>1, <2>2, <2>3 DEF Complete, NothingToDrain
<1>3. ASSUME NEW w \in Workers, HandleAcknowledge(w)
      PROVE  Complete' /\ NothingToDrain'
  <2> DEFINE a == job[w].msg
  <2>1. UNCHANGED <<known, members, meta>> /\ a \in AckMsgs /\ stored' \subseteq stored \cup {a}
    BY <1>3 DEF HandleAcknowledge
  <2>2. author' = author \/ author' = [author EXCEPT ![a] = MemberFor(DeviceOf[a])]
    BY <1>3 DEF HandleAcknowledge
  <2>3. \A i \in InfoMsgs : author'[i] = author[i]
    BY <1>b, <1>c, <2>1, <2>2
  <2>4. InfoMsgs \cap stored' \subseteq InfoMsgs \cap stored
    BY <1>b, <2>1
  <2> QED
    BY <2>1, <2>3, <2>4 DEF Complete, NothingToDrain
<1>4. CASE PushAdd
  <2> DEFINE m == push.msg
  <2>1. UNCHANGED <<known, members, meta>> /\ stored' \subseteq stored \cup {m}
    BY <1>4 DEF PushAdd
  <2>2. m \in UserMsgs
    BY <1>4 DEF PushAdd, TypeOK
  <2>3. author' = author \/ author' = [author EXCEPT ![m] = push.member]
    BY <1>4 DEF PushAdd
  <2>4. \A i \in InfoMsgs : author'[i] = author[i]
    BY <1>b, <1>c, <2>2, <2>3
  <2>5. InfoMsgs \cap stored' \subseteq InfoMsgs \cap stored
    BY <1>b, <2>1, <2>2
  <2> QED
    BY <2>1, <2>4, <2>5 DEF Complete, NothingToDrain
<1>5. CASE AnnounceInitialMember
  BY <1>5 DEF AnnounceInitialMember, AddMember, Complete, NothingToDrain
<1>6. ASSUME NEW i \in InfoMsgs, BacklogUserInfo(i) PROVE FALSE
  BY <1>6, <1>a, <1>b DEF BacklogUserInfo
<1>7. ASSUME NEW d \in Devices, RegisterDevice(d) PROVE Complete' /\ NothingToDrain'
  <2>1. meta'.info = None /\ meta'.queue = <<>>
    BY <1>7 DEF RegisterDevice, IdleMeta
  <2>2. \A k \in 1 .. Len(meta'.queue) : meta'.queue[k] \notin InfoMsgs
    BY <2>1
  <2>3. known' = known \cup {d} /\ UNCHANGED <<members, stored, author>>
    BY <1>7 DEF RegisterDevice, AddDevice
  <2>4. Complete'
    BY <2>3 DEF Complete
  <2> QED
    BY <2>1, <2>2, <2>4 DEF NothingToDrain
<1>8. CASE AttributeBacklog
  <2> DEFINE rows == Backlog(meta.dev)
  <2>1. PICK q \in InRowOrder(rows \cap Notes) :
                meta' = [meta EXCEPT !.pc = "drain", !.queue = q]
    BY <1>8 DEF AttributeBacklog
  <2>2. \A i \in InfoMsgs : i \notin rows
    BY DEF Backlog, Complete
  <2>3. \A k \in 1 .. Len(q) : q[k] \in rows \cap Notes
    BY <2>1, RowOrderElements
  <2>4. meta'.queue = q /\ meta'.info = meta.info
    BY <2>1 DEF TypeOK
  <2>5. NothingToDrain'
    BY <1>8, <2>2, <2>3, <2>4 DEF AttributeBacklog, NothingToDrain
  <2>6. \A i \in InfoMsgs : author'[i] = author[i]
    BY <1>8, <1>b, <2>2 DEF AttributeBacklog
  <2>7. Complete'
    BY <1>8, <2>6 DEF AttributeBacklog, Complete
  <2> QED
    BY <2>5, <2>7
<1>9. ASSUME DrainUserInfo PROVE FALSE
  <2>1. meta.queue # <<>> /\ Head(meta.queue) \in InfoMsgs /\ meta.pc = "drain"
    BY <1>9 DEF DrainUserInfo
  <2>2. 1 \in 1 .. Len(meta.queue) /\ Head(meta.queue) = meta.queue[1]
    BY <1>c, <2>1
  <2> QED
    BY <2>1, <2>2 DEF NothingToDrain
<1>10. CASE DrainAck
  <2>1. meta.pc = "drain" /\ meta.queue # <<>> /\ UNCHANGED tables
    BY <1>10 DEF DrainAck
  <2>2. Complete'
    BY <2>1 DEF tables, Complete
  <2>3. CASE meta' = IdleMeta
    BY <2>2, <2>3 DEF IdleMeta, NothingToDrain
  <2>4. CASE meta' = [meta EXCEPT !.queue = Tail(@)]
    <3>1. meta'.queue = Tail(meta.queue) /\ meta'.info = meta.info
      BY <2>4 DEF TypeOK
    <3>2. \A k \in 1 .. Len(Tail(meta.queue)) :
             Tail(meta.queue)[k] = meta.queue[k + 1] /\ k + 1 \in 1 .. Len(meta.queue)
      BY <1>c, <2>1
    <3> QED
      BY <2>1, <2>2, <3>1, <3>2 DEF NothingToDrain
  <2> QED
    BY <1>10, <2>3, <2>4 DEF DrainAck
<1>11. CASE UpsertMember
  BY <1>11 DEF UpsertMember, IdleMeta, Complete, NothingToDrain
<1>12. CASE Crash
  BY <1>12 DEF Crash, tables, IdleMeta, Complete, NothingToDrain
<1>13. \/ UNCHANGED <<known, members, stored, author, meta>>
       \/ \E w \in Workers : StoreUserMessage(w) \/ HandleAcknowledge(w)
       \/ PushAdd \/ AnnounceInitialMember \/ AttributeBacklog \/ DrainUserInfo
       \/ DrainAck \/ UpsertMember \/ Crash
       \/ \E i \in InfoMsgs : BacklogUserInfo(i)
       \/ \E d \in Devices : RegisterDevice(d)
  BY DEF Next, Metadata, DeviceAdded, Push, App, Messages, JobStep, BuildInteraction, SendAck,
         DispatchVisible, PushCheck, PushLookup, SetUserInfo, Resubscribe,
         SetConversationIsOpenStatus, vars, tables
<1> QED
  BY <1>1, <1>2, <1>3, <1>4, <1>5, <1>6, <1>7, <1>8, <1>9, <1>10, <1>11, <1>12, <1>13

\* What a step does to the names, their dates and the events to be listed.
LEMMA NameSteps ==
    ASSUME TypeOK, [Next]_vars
    PROVE  \/ UNCHANGED <<infoDate, settled>> /\ metaTodo' \subseteq metaTodo
              /\ InfoMsgs \cap metaTodo' = InfoMsgs \cap metaTodo
              /\ (name' = name \/ (UpsertMember /\ meta.info # None))
           \/ \E i \in InfoMsgs : BacklogUserInfo(i) \/ SetUserInfo(i)
           \/ Resubscribe \/ Crash
<1>a. Creator \notin InfoMsgs /\ Devices \cap InfoMsgs = {}
  BY MemberAssumption
<1>1. CASE UNCHANGED <<infoDate, settled, metaTodo, name>>
  BY <1>1
<1>2. CASE AnnounceInitialMember \/ \E d \in Devices : RegisterDevice(d)
  BY <1>2, <1>a DEF AnnounceInitialMember, RegisterDevice
<1>3. CASE UpsertMember
  BY <1>3 DEF UpsertMember
<1>4. \/ UNCHANGED <<infoDate, settled, metaTodo, name>>
      \/ AnnounceInitialMember \/ \E d \in Devices : RegisterDevice(d)
      \/ UpsertMember \/ Resubscribe \/ Crash
      \/ \E i \in InfoMsgs : BacklogUserInfo(i) \/ SetUserInfo(i)
  BY DEF Next, Metadata, DeviceAdded, Push, App, Messages, JobStep, BuildInteraction, SendAck,
         StoreUserMessage, HandleAcknowledge, AttributeBacklog, DrainUserInfo, DrainAck, PushAdd,
         DispatchVisible, PushCheck, PushLookup, SetConversationIsOpenStatus, vars, tables
<1> QED
  BY <1>1, <1>2, <1>3, <1>4

LEMMA DateStep == TypeOK /\ DateFromLog /\ [Next]_vars => DateFromLog'
<1> SUFFICES ASSUME TypeOK, DateFromLog, [Next]_vars PROVE DateFromLog'
  OBVIOUS
<1>1. CASE infoDate' = infoDate
  BY <1>1 DEF DateFromLog
<1>2. ASSUME NEW i \in InfoMsgs, SetUserInfo(i) PROVE DateFromLog'
  <2>1. infoDate' = infoDate \/ infoDate' = [infoDate EXCEPT ![MemberFor(DeviceOf[i])] = DateOf[i]]
    BY <1>2 DEF SetUserInfo
  <2>2. i \in InfosOf(MemberFor(DeviceOf[i]))
    BY <1>2 DEF SetUserInfo, InfosOf, MemberFor
  <2> QED
    BY <2>1, <2>2 DEF DateFromLog, TypeOK
<1> QED
  BY <1>1, <1>2, NameSteps DEF BacklogUserInfo, Resubscribe, Crash, tables

LEMMA ListingStep == TypeOK /\ Names /\ [Next]_vars => Listing'
<1> SUFFICES ASSUME TypeOK, Names, [Next]_vars, settled' PROVE Listing'
  BY DEF Listing
<1>a. \A i \in InfoMsgs : DateOf[i] \in Nat /\ i \in MetaLog
  BY LogAssumption DEF MetaLog
<1>b. infoDate \in [Members -> Nat] /\ name \in [Members -> InfoMsgs \cup {None}]
  BY DEF TypeOK
<1>c. \A p \in Members : InfosOf(p) \subseteq InfoMsgs
  BY DEF InfosOf
\* A listing begins.
<1>1. ASSUME Resubscribe \/ Crash PROVE Listing'
  <2>1. metaTodo' = MetaLog /\ UNCHANGED tables
    BY <1>1 DEF Resubscribe, Crash
  <2>2. Complete' /\ NothingToDrain'
    <3>1. CASE Resubscribe
      BY <3>1 DEF Resubscribe, tables, Complete, NothingToDrain
    <3>2. CASE Crash
      BY <3>2 DEF Crash, tables, IdleMeta, Complete, NothingToDrain
    <3> QED
      BY <1>1, <3>1, <3>2
  <2>3. ListedIsOlder'
    BY <1>a, <1>c, <2>1 DEF ListedIsOlder
  <2>4. ASSUME NEW p \in Members PROVE NameOfDate(p)'
    <3>1. infoDate'[p] = infoDate[p] /\ InfosOf(p) \subseteq metaTodo'
      BY <1>a, <1>c, <2>1 DEF tables
    <3> QED
      BY <3>1 DEF Names, DateFromLog, NameOfDate
  <2> QED
    BY <2>2, <2>3, <2>4 DEF Listing
<1>2. ASSUME settled, ~(Resubscribe \/ Crash) PROVE Listing'
  <2>0. Complete /\ NothingToDrain /\ ListedIsOlder /\ \A p \in Members : NameOfDate(p)
    BY <1>2 DEF Names, Listing
  <2>1. Complete' /\ NothingToDrain'
    BY <2>0, CompleteStep
  <2>2. \A i \in InfoMsgs : MemberFor(DeviceOf[i]) = MemberOf[DeviceOf[i]]
                            /\ MemberOf[DeviceOf[i]] \in members
                            /\ MemberOf[DeviceOf[i]] # None
                            /\ MemberOf[DeviceOf[i]] \in Members
    BY <2>0, LogAssumption, MemberAssumption, NoneAssumption DEF Complete, MemberFor, Msgs
  <2>3. ASSUME UNCHANGED infoDate, InfoMsgs \cap metaTodo' = InfoMsgs \cap metaTodo, name' = name
        PROVE  ListedIsOlder' /\ \A p \in Members : NameOfDate(p)'
    <3>1. \A p \in Members : /\ InfosOf(p) \ metaTodo' = InfosOf(p) \ metaTodo
                             /\ InfosOf(p) \cap metaTodo' = InfosOf(p) \cap metaTodo
                             /\ InfosOf(p) \subseteq metaTodo => InfosOf(p) \subseteq metaTodo'
      BY <1>c, <2>3
    <3> QED
      BY <2>0, <2>3, <3>1 DEF ListedIsOlder, NameOfDate
  <2>4. ASSUME NEW i \in InfoMsgs, SetUserInfo(i)
        PROVE  ListedIsOlder' /\ \A p \in Members : NameOfDate(p)'
    <3> DEFINE q == MemberOf[DeviceOf[i]]
    <3>1. metaTodo' = metaTodo \ {i} /\ i \in metaTodo /\ i \in InfosOf(q) /\ q \in Members
      BY <2>2, <2>4 DEF SetUserInfo, InfosOf
    <3>2. ASSUME NEW p \in Members, p # q
          PROVE  /\ \A j \in InfosOf(p) \ metaTodo' : DateOf[j] <= infoDate'[p]
                 /\ NameOfDate(p)'
      <4>1. infoDate'[p] = infoDate[p] /\ name'[p] = name[p]
        BY <1>b, <2>2, <2>4, <3>2 DEF SetUserInfo
      <4>2. i \notin InfosOf(p)
        BY <3>2 DEF InfosOf
      <4>3. /\ InfosOf(p) \ metaTodo' = InfosOf(p) \ metaTodo
            /\ InfosOf(p) \cap metaTodo' = InfosOf(p) \cap metaTodo
            /\ InfosOf(p) \subseteq metaTodo => InfosOf(p) \subseteq metaTodo'
        BY <3>1, <4>2
      <4> QED
        BY <2>0, <4>1, <4>3 DEF ListedIsOlder, NameOfDate
    <3>3. CASE infoDate[q] > DateOf[i]
      <4>1. infoDate' = infoDate /\ name' = name
        BY <2>2, <2>4, <3>3 DEF SetUserInfo, Outdated
      <4>2. \A j \in InfosOf(q) \ metaTodo' : DateOf[j] <= infoDate'[q]
        BY <1>a, <1>b, <2>0, <3>1, <3>3, <4>1 DEF ListedIsOlder
      <4>3. NameOfDate(q)'
        BY <1>a, <1>b, <2>0, <3>1, <3>3, <4>1 DEF NameOfDate
      <4> QED
        BY <3>2, <4>2, <4>3 DEF ListedIsOlder
    <3>4. CASE ~(infoDate[q] > DateOf[i])
      <4>1. infoDate'[q] = DateOf[i] /\ name'[q] = i
        BY <1>b, <2>2, <2>4, <3>1, <3>4 DEF SetUserInfo, Outdated
      <4>2. \A j \in InfosOf(q) \ metaTodo' : DateOf[j] <= infoDate'[q]
        BY <1>a, <1>b, <1>c, <2>0, <3>1, <3>4, <4>1 DEF ListedIsOlder
      <4>3. NameOfDate(q)'
        BY <3>1, <4>1 DEF NameOfDate
      <4> QED
        BY <3>2, <4>2, <4>3 DEF ListedIsOlder
    <3> QED
      BY <3>3, <3>4
  <2>5. ASSUME NEW i \in InfoMsgs, BacklogUserInfo(i) PROVE FALSE
    BY <2>2, <2>5 DEF BacklogUserInfo
  <2>6. UpsertMember => meta.info = None
    BY <2>0 DEF UpsertMember, NothingToDrain
  <2> QED
    BY <1>2, <2>1, <2>3, <2>4, <2>5, <2>6, NameSteps DEF Listing
<1> QED
  BY <1>1, <1>2, NameSteps DEF BacklogUserInfo, SetUserInfo

\* A replay of the metadata from a complete state ends with the newest name of
\* every member, whatever names the backlog had given, in whatever order the log
\* is listed and however many devices a member has.
THEOREM ReplayRepairsNames == Spec => []NewestNameAfterReplay
<1>1. Init => Names
  BY DEF Init, Names, DateFromLog, Listing
<1>2. TypeOK /\ Names /\ [Next]_vars => Names'
  BY DateStep, ListingStep DEF Names
<1>3. TypeOK /\ Names => NewestNameAfterReplay
  <2> SUFFICES ASSUME TypeOK, Names, settled, metaTodo = {},
                      NEW p \in Members, InfosOf(p) # {}
               PROVE  /\ name[p] \in InfosOf(p)
                      /\ \A i \in InfosOf(p) : DateOf[i] <= DateOf[name[p]]
    BY DEF NewestNameAfterReplay
  <2>1. name[p] \in InfosOf(p) /\ DateOf[name[p]] = infoDate[p]
    BY DEF Names, Listing, NameOfDate
  <2> QED
    BY <2>1 DEF Names, Listing, ListedIsOlder
<1> QED
  BY <1>1, <1>2, <1>3, TypeCorrect, PTL DEF Spec
============================================================================
