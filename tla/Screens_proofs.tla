--------------------------- MODULE Screens_proofs --------------------------
(***************************************************************************)
(* Three screens of the application.                                       *)
(*                                                                         *)
(* The messages of a conversation (ChatList), for any sets of messages and *)
(* any bounds: the list has no gap but those that an old message or an     *)
(* outdated page tears, and an end of the conversation is one. The list    *)
(* has no gap because everything that will extend it continues it          *)
(* (Continues): a page that is asked for from the oldest message, being    *)
(* read or on its way. This holds as long as no held message is taken out, *)
(* so it is stated of pages asked for since the list was last cut.         *)
(*                                                                         *)
(* The field below them (ChatField): the text typed last is kept or sent.  *)
(*                                                                         *)
(* The settings of the notifications (PushSettings), for any number of     *)
(* conversations, presses and failures: the token is shared with every     *)
(* conversation once sharing is automatic, with none the user did not ask  *)
(* for, and a conversation is unmuted only after it.                       *)
(***************************************************************************)
EXTENDS ChatList, ChatField, PushSettings, FiniteSetTheorems, WellFoundedInduction, TLAPS

---------------------------------------------------------------------------
(* Sets of messages.                                                       *)

LEMMA SmallestOf ==
    ASSUME NEW S \in SUBSET Nat, S # {}
    PROVE  \E m \in S : \A k \in S : m <= k
<1>1. PICK m \in S : \A k \in S : ~(<<k, m>> \in OpToRel(<, Nat))
  BY NatLessThanWellFounded, WFMin
<1>2. \A k \in S : ~(k < m)
  BY <1>1 DEF OpToRel
<1> QED
  BY <1>2

LEMMA OldestIsOf ==
    ASSUME NEW S \in SUBSET Messages, S # {}
    PROVE  Oldest(S) \in S
<1>1. S \in SUBSET Nat
  BY MessagesAssumption
<1> QED
  BY <1>1, SmallestOf DEF Oldest


Above(S, m) == {k \in S : k > m}
Sizes(S) == {Cardinality(Above(S, m)) : m \in S}

LEMMA AboveSize ==
    ASSUME NEW S \in SUBSET Messages, NEW m
    PROVE  IsFiniteSet(Above(S, m)) /\ Cardinality(Above(S, m)) \in Nat
<1>1. Above(S, m) \in SUBSET Messages
  BY DEF Above
<1>2. IsFiniteSet(Above(S, m))
  BY <1>1, FS_Subset, MessagesAssumption
<1> QED
  BY <1>2, FS_CardinalityType

LEMMA NewestAre ==
    ASSUME NEW S, NEW n, NEW m
    PROVE  m \in Newest(S, n) <=> m \in S /\ Cardinality(Above(S, m)) < n
BY DEF Newest, Above

\* The newest of a set are newer than the rest of it, and there are some.
LEMMA NewestAreNewer ==
    ASSUME NEW S \in SUBSET Messages, NEW n \in Nat,
           NEW s \in Newest(S, n), NEW x \in S, s < x
    PROVE  x \in Newest(S, n)
<1>0. s \in S /\ \A k \in S : k \in Nat
  BY MessagesAssumption, NewestAre
<1>1. Above(S, x) \in SUBSET Above(S, s)
  BY <1>0 DEF Above
<1>2. IsFiniteSet(Above(S, s)) /\ Cardinality(Above(S, s)) \in Nat /\ Cardinality(Above(S, x)) \in Nat
  BY AboveSize
<1>3. Cardinality(Above(S, x)) <= Cardinality(Above(S, s))
  BY <1>1, <1>2, FS_Subset
<1>4. Cardinality(Above(S, s)) < n
  BY NewestAre
<1>5. Cardinality(Above(S, x)) < n
  BY <1>2, <1>3, <1>4
<1> QED
  BY <1>5, NewestAre

LEMMA SomeNewest ==
    ASSUME NEW S \in SUBSET Messages, NEW n \in Nat \ {0}, S # {}
    PROVE  Newest(S, n) # {}
<1>1. Sizes(S) \in SUBSET Nat /\ Sizes(S) # {}
  BY AboveSize DEF Sizes
<1>2. PICK c \in Sizes(S) : \A d \in Sizes(S) : c <= d
  BY <1>1, SmallestOf
<1>3. PICK m \in S : c = Cardinality(Above(S, m))
  BY <1>2 DEF Sizes
<1>4. Above(S, m) = {}
  <2> SUFFICES ASSUME NEW x \in Above(S, m) PROVE FALSE
    OBVIOUS
  <2>1. x \in S /\ x > m /\ \A k \in S : k \in Nat
    BY MessagesAssumption DEF Above
  <2>2. Above(S, x) \in SUBSET Above(S, m) /\ x \notin Above(S, x)
    BY <1>3, <2>1 DEF Above
  <2>3. IsFiniteSet(Above(S, m)) /\ Cardinality(Above(S, m)) \in Nat /\ Cardinality(Above(S, x)) \in Nat
    BY AboveSize
  <2>4. Cardinality(Above(S, x)) <= Cardinality(Above(S, m))
        /\ (Cardinality(Above(S, x)) = Cardinality(Above(S, m)) => Above(S, x) = Above(S, m))
    BY <2>2, <2>3, FS_Subset
  <2>5. Cardinality(Above(S, x)) \in Sizes(S)
    BY <2>1 DEF Sizes
  <2> QED
    BY <1>2, <1>3, <2>2, <2>3, <2>4, <2>5
<1>5. Cardinality(Above(S, m)) = 0
  BY <1>4, FS_EmptySet
<1> QED
  BY <1>3, <1>5, NewestAre

---------------------------------------------------------------------------
(* The invariant.                                                          *)

Visible == db \cap Displayed
Held == bucket \cup OnTheWay

\* What is stored is held, or older than the list.
NoHole == \A x \in Visible, s \in bucket : s < x => x \in Held

\* Behind the event of a message that was the newest come those of all that are newer.
InOrder ==
    \A i \in DOMAIN wire : wire[i].type = "updated" /\ ~wire[i].late =>
        \A m \in wire[i].cids, x \in Visible : m < x =>
            \E j \in DOMAIN wire : i < j /\ wire[j].type = "updated" /\ x \in wire[j].cids

\* Only acknowledgements and names leave the backlog.
Deleted == \A i \in DOMAIN wire : wire[i].type = "deleted" => wire[i].cids \cap Displayed = {}

\* The list can be continued by a page: what is newer than some of it is held or part of it.
Continues(page) == \A x \in Visible, s \in page : s < x => x \in page \cup Held
Pages ==
    /\ \A i \in DOMAIN wire : wire[i].type = "page" /\ wire[i].trims = trims => Continues(wire[i].cids)
    /\ \A v \in 1 .. MaxVisits : loads[v].step = "read" /\ loads[v].trims = trims => Continues(loads[v].page)

\* A page is asked for from the oldest message of the list.
OlderOrHeld(ref) == \A x \in Visible : x < ref \/ x \in Held
Asked ==
    \A v \in 1 .. MaxVisits :
        loads[v].step = "asked" /\ loads[v].trims = trims /\ loads[v].ref # NoRef => OlderOrHeld(loads[v].ref)

\* No answer is newer than the list.
Timely ==
    /\ \A i \in DOMAIN wire : wire[i].type = "page" => wire[i].trims <= trims
    /\ \A v \in 1 .. MaxVisits : loads[v].trims <= trims

\* The row of the reference stays in the list; an end is one.
ListEnds ==
    \A v \in 1 .. MaxVisits : loads[v].trims = trims =>
        /\ loads[v].step = "asked" /\ loads[v].ref \in Displayed => loads[v].ref \in Held
        /\ loads[v].step = "end" =>
              \A x \in Visible : x \in Held \/ (loads[v].ref # NoRef /\ loads[v].ref < x)

Order == InOrder /\ Deleted /\ Timely
Whole == ~torn => NoHole /\ Pages /\ Asked

---------------------------------------------------------------------------
(* Types.                                                                  *)

LEMMA EventTypes ==
    /\ \A c \in SUBSET Messages, l \in BOOLEAN : [type |-> "updated", cids |-> c, late |-> l] \in Events
    /\ \A c \in SUBSET Messages : [type |-> "deleted", cids |-> c] \in Events
    /\ \A c \in SUBSET Messages, t \in Nat : [type |-> "page", cids |-> c, trims |-> t] \in Events
    /\ \A o \in BOOLEAN : [type |-> "conversation", open |-> o] \in Events
BY DEF Events

LEMMA EventFields ==
    ASSUME NEW e \in Events
    PROVE  /\ e.type \in {"updated", "deleted", "page", "conversation"}
           /\ e.type # "conversation" => e.cids \in SUBSET Messages
           /\ e.type = "page" => e.trims \in Nat
           /\ e.type = "updated" => e.late \in BOOLEAN
           /\ e.type = "conversation" => e.open \in BOOLEAN
BY DEF Events

LEMMA InitTypes == ListInit => ListTypeOK
<1> SUFFICES ASSUME ListInit PROVE ListTypeOK
  OBVIOUS
<1>1. NoLoad \in [step : {"none", "asked", "read", "ok", "end", "failed"},
                  ref : Messages \cup {NoRef}, page : SUBSET Messages, trims : Nat]
  BY DEF NoLoad
<1>2. bucket \subseteq Messages /\ db \subseteq Messages
  BY DEF ListInit, Newest, Messages
<1>3. wire \in Seq(Events) /\ replies \subseteq Mine
  BY DEF ListInit
<1>4. loads \in [1 .. MaxVisits ->
                    [step : {"none", "asked", "read", "ok", "end", "failed"},
                     ref : Messages \cup {NoRef}, page : SUBSET Messages, trims : Nat]]
  BY <1>1 DEF ListInit
<1>5. \A v \in 1 .. MaxVisits : loads[v].step \in {"read", "ok"} => loads[v].page # {}
  BY DEF ListInit, NoLoad
<1>6. screen \in [mounted : BOOLEAN, visit : 0 .. MaxVisits, loading : BOOLEAN, fetchedFirst : BOOLEAN]
      /\ ~screen.mounted
  BY BoundsAssumption DEF ListInit
<1>7. updates \in 0 .. MaxUpdates /\ loadFaults \in 0 .. MaxLoadFaults /\ trims \in Nat /\ torn \in BOOLEAN
  <2>1. MaxUpdates \in Nat /\ MaxLoadFaults \in Nat
    BY BoundsAssumption
  <2>2. updates = 0 /\ loadFaults = 0 /\ trims = 0 /\ torn \in BOOLEAN
    BY DEF ListInit
  <2>3. updates \in 0 .. MaxUpdates /\ loadFaults \in 0 .. MaxLoadFaults /\ trims \in Nat
    BY <2>1, <2>2
  <2> QED
    BY <2>2, <2>3
<1> QED
  BY <1>2, <1>3, <1>4, <1>5, <1>6, <1>7 DEF ListTypeOK

\* The page that is read: messages of the database before the reference.
LEMMA PageIs ==
    ASSUME db \subseteq Messages, NEW ref
    PROVE  /\ Page(ref) = Newest({m \in db : ref = NoRef \/ m < ref}, Amount)
           /\ Page(ref) \in SUBSET db
BY DEF Page, Newest

LEMMA ReducedTypes ==
    ASSUME NEW S \in SUBSET Messages, NEW e \in Events
    PROVE  Reduced(S, e) \in SUBSET Messages
<1>1. Trimmed(S) \in SUBSET Messages
  BY DEF Trimmed, Newest
<1>2. e.type = "page" => Loaded(e.cids) \in SUBSET Messages
  BY EventFields DEF Loaded
<1> QED
  BY <1>1, <1>2, EventFields DEF Reduced

\* Calls of ConversationLoad.
Loads == [step : {"none", "asked", "read", "ok", "end", "failed"},
          ref : Messages \cup {NoRef}, page : SUBSET Messages, trims : Nat]

LEMMA ReadPageIs ==
    ASSUME ListTypeOK, NEW v \in 1 .. MaxVisits, ReadPage(v)
    PROVE  /\ loads[v].step = "asked"
           /\ loads' \in [1 .. MaxVisits -> Loads]
           /\ \A w \in 1 .. MaxVisits : w # v => loads'[w] = loads[w]
           /\ loads'[v].ref = loads[v].ref /\ loads'[v].trims = loads[v].trims
           /\ loads'[v].step \in {"failed", "end", "read"}
           /\ loads'[v].step = "read" => loads'[v].page = Page(loads[v].ref) /\ loads'[v].page # {}
           /\ loads'[v].step = "end" => Page(loads[v].ref) = {}
<1>1. Page(loads[v].ref) \in SUBSET Messages /\ {} \in SUBSET Messages
  BY PageIs DEF ListTypeOK
<1> DEFINE P == IF loads[v].ref \in db \cup {NoRef} THEN Page(loads[v].ref) ELSE {}
           S == IF loads[v].ref \notin db \cup {NoRef} THEN "failed"
                ELSE IF NoneLeft(Page(loads[v].ref)) THEN "end" ELSE "read"
<1>2. P \in SUBSET Messages /\ S \in {"failed", "end", "read"}
  BY <1>1
<1>3. loads' = [loads EXCEPT ![v].page = P, ![v].step = S] /\ loads[v].step = "asked"
  BY DEF ReadPage
<1>4. (S = "read" => P = Page(loads[v].ref) /\ P # {}) /\ (S = "end" => Page(loads[v].ref) = {})
  BY DEF NoneLeft
<1> HIDE DEF P, S
<1> DEFINE L == [loads[v] EXCEPT !.page = P, !.step = S]
<1>5. loads \in [1 .. MaxVisits -> Loads] /\ loads' = [loads EXCEPT ![v] = L]
  BY <1>3 DEF ListTypeOK, Loads
<1>6. L \in Loads /\ L.ref = loads[v].ref /\ L.trims = loads[v].trims /\ L.step = S /\ L.page = P
  BY <1>2, <1>5 DEF Loads
<1> HIDE DEF L
<1>7. loads' \in [1 .. MaxVisits -> Loads] /\ loads'[v] = L
      /\ \A w \in 1 .. MaxVisits : w # v => loads'[w] = loads[w]
  BY <1>5, <1>6
<1> QED
  BY <1>2, <1>3, <1>4, <1>6, <1>7

LEMMA ListTypesStep ==
    ASSUME ListTypeOK, [ListNext]_listVars
    PROVE  ListTypeOK'
<1>0. ASSUME NEW v \in 1 .. MaxVisits, ReadPage(v)
      PROVE  /\ loads' \in [1 .. MaxVisits -> Loads]
             /\ \A w \in 1 .. MaxVisits : loads'[w].step \in {"read", "ok"} => loads'[w].page # {}
  <2>1. \A w \in 1 .. MaxVisits : loads[w].step \in {"read", "ok"} => loads[w].page # {}
    BY DEF ListTypeOK
  <2> QED
    BY <1>0, <2>1, ReadPageIs
<1> USE DEF ListTypeOK, Loads
<1>1. ASSUME NEW m \in Messages, Store(m) PROVE ListTypeOK'
  <2>1. Updated(m) \in Events
    BY EventTypes DEF Updated
  <2>2. wire' \in Seq(Events)
    BY <1>1, <2>1 DEF Store
  <2> QED
    BY <1>1, <2>2 DEF Store
<1>2. ASSUME NEW m \in Messages, Touch(m) PROVE ListTypeOK'
  <2>1. Updated(m) \in Events
    BY EventTypes DEF Updated
  <2>2. wire' \in Seq(Events)
    BY <1>2, <2>1 DEF Touch
  <2>3. updates' \in 0 .. MaxUpdates
    BY <1>2, BoundsAssumption DEF Touch
  <2> QED
    BY <1>2, <2>2, <2>3 DEF Touch
<1>3. ASSUME NEW m \in Messages, Delete(m) PROVE ListTypeOK'
  <2>1. [type |-> "deleted", cids |-> {m}] \in Events
    BY EventTypes
  <2>2. wire' \in Seq(Events)
    BY <1>3, <2>1 DEF Delete
  <2> QED
    BY <1>3, <2>2 DEF Delete
<1>4. ASSUME NEW open \in BOOLEAN, ConversationUpdated(open) PROVE ListTypeOK'
  <2>1. [type |-> "conversation", open |-> open] \in Events
    BY EventTypes
  <2>2. wire' \in Seq(Events)
    BY <1>4, <2>1 DEF ConversationUpdated
  <2>3. updates' \in 0 .. MaxUpdates
    BY <1>4, BoundsAssumption DEF ConversationUpdated
  <2> QED
    BY <1>4, <2>2, <2>3 DEF ConversationUpdated
<1>5. CASE Receive
  <2>1. wire \in Seq(Events) /\ wire # <<>> /\ bucket \in SUBSET Messages
    BY <1>5 DEF Receive
  <2>2. Head(wire) \in Events /\ Tail(wire) \in Seq(Events)
    BY <2>1
  <2>3. bucket' \subseteq Messages
    BY <1>5, <2>1, <2>2, ReducedTypes DEF Receive
  <2>4. trims' \in Nat /\ torn' \in BOOLEAN
    BY <1>5 DEF Receive, Tears
  <2> QED
    BY <1>5, <2>2, <2>3, <2>4 DEF Receive
<1>6. ASSUME NEW v \in 1 .. MaxVisits, ReadPage(v) PROVE ListTypeOK'
  BY <1>0, <1>6 DEF ReadPage
<1>7. ASSUME NEW v \in 1 .. MaxVisits, DispatchPage(v) PROVE ListTypeOK'
  <2>1. [type |-> "page", cids |-> loads[v].page, trims |-> loads[v].trims] \in Events
    BY EventTypes
  <2>2. wire' \in Seq(Events)
    BY <1>7, <2>1 DEF DispatchPage
  <2>3. loads' = [loads EXCEPT ![v].step = "ok"] /\ loads[v].step = "read"
    BY <1>7 DEF DispatchPage
  <2>4. loads' \in [1 .. MaxVisits -> Loads]
    BY <2>3
  <2>5. \A w \in 1 .. MaxVisits : loads'[w].step \in {"read", "ok"} => loads'[w].page # {}
    BY <2>3
  <2> QED
    BY <1>7, <2>2, <2>4, <2>5 DEF DispatchPage
<1>8. ASSUME NEW v \in 1 .. MaxVisits, LoadFails(v) PROVE ListTypeOK'
  <2>0. loads' = [loads EXCEPT ![v].step = "failed"]
    BY <1>8 DEF LoadFails
  <2>1. \A w \in 1 .. MaxVisits : w # v => loads'[w] = loads[w]
    BY <2>0
  <2>2. loads' \in [1 .. MaxVisits -> Loads]
    <3>1. loads[v] \in Loads
      OBVIOUS
    <3>2. [loads[v] EXCEPT !.step = "failed"] \in Loads
      BY <3>1
    <3>3. loads' = [loads EXCEPT ![v] = [loads[v] EXCEPT !.step = "failed"]]
      BY <2>0
    <3> QED
      BY <3>2, <3>3
  <2>3. \A w \in 1 .. MaxVisits : loads'[w].step \in {"read", "ok"} => loads'[w].page # {}
    <3>1. loads'[v].step = "failed"
      BY <2>0
    <3> QED
      BY <2>1, <3>1
  <2>4. loadFaults' \in 0 .. MaxLoadFaults
    <3>1. loadFaults \in 0 .. MaxLoadFaults
      OBVIOUS
    <3>2. loadFaults < MaxLoadFaults /\ loadFaults' = loadFaults + 1
      BY <1>8 DEF LoadFails
    <3> QED
      BY <3>1, <3>2, BoundsAssumption
  <2> QED
    BY <1>8, <2>2, <2>3, <2>4 DEF LoadFails
<1>9. ASSUME NEW v \in 1 .. MaxVisits, LoadReplies(v) PROVE ListTypeOK'
  <2>1. loads' = [loads EXCEPT ![v] = NoLoad] /\ NoLoad \in Loads /\ NoLoad.step = "none"
    BY <1>9 DEF LoadReplies, NoLoad
  <2>2. loads' \in [1 .. MaxVisits -> Loads]
    BY <2>1
  <2>3. \A w \in 1 .. MaxVisits : loads'[w].step \in {"read", "ok"} => loads'[w].page # {}
    BY <2>1
  <2>4. screen' \in [mounted : BOOLEAN, visit : 0 .. MaxVisits, loading : BOOLEAN, fetchedFirst : BOOLEAN]
        /\ screen'.mounted = screen.mounted /\ screen'.visit = screen.visit
    BY <1>9 DEF LoadReplies
  <2> QED
    BY <1>9, <2>2, <2>3, <2>4 DEF LoadReplies
<1>10. CASE Mount
  <2>1. screen.visit + 1 \in 0 .. MaxVisits /\ screen.visit + 1 # 0
    BY <1>10, BoundsAssumption DEF Mount
  <2> QED
    BY <1>10, <2>1 DEF Mount
<1>11. CASE Unmount
  BY <1>11 DEF Unmount
<1>12. CASE FetchMore
  <2>1. Oldest(bucket) \in Messages \cup {NoRef}
    BY OldestIsOf DEF Oldest
  <2>2. loads' = [loads EXCEPT ![screen.visit] =
                     [step |-> "asked", ref |-> Oldest(bucket), page |-> {}, trims |-> trims]]
    BY <1>12 DEF FetchMore
  <2>3. loads' \in [1 .. MaxVisits -> Loads]
    BY <2>1, <2>2
  <2>4. \A w \in 1 .. MaxVisits : loads'[w].step \in {"read", "ok"} => loads'[w].page # {}
    BY <2>2
  <2>5. screen' \in [mounted : BOOLEAN, visit : 0 .. MaxVisits, loading : BOOLEAN, fetchedFirst : BOOLEAN]
        /\ screen'.mounted = screen.mounted /\ screen'.visit = screen.visit
    BY <1>12 DEF FetchMore
  <2> QED
    BY <1>12, <2>3, <2>4, <2>5 DEF FetchMore
<1>13. ASSUME NEW m \in Mine, Publish(m) PROVE ListTypeOK'
  BY <1>13 DEF Publish
<1>14. ASSUME NEW m \in Mine, PublishReplies(m) PROVE ListTypeOK'
  <2>1. bucket' \subseteq Messages /\ torn' \in BOOLEAN /\ replies' \subseteq Mine
    BY <1>14, MessagesAssumption DEF PublishReplies
  <2> QED
    BY <1>14, <2>1 DEF PublishReplies
<1>15. CASE UNCHANGED listVars
  BY <1>15 DEF listVars
<1> QED
  BY <1>1, <1>2, <1>3, <1>4, <1>5, <1>6, <1>7, <1>8, <1>9, <1>10, <1>11, <1>12, <1>13, <1>14, <1>15
  DEF ListNext, Rows, Load

\* Type correctness of the list of messages, its events and its calls.
THEOREM ListTyped == ListSpec => []ListTypeOK
<1>1. ListInit => ListTypeOK
  BY InitTypes
<1>2. ListTypeOK /\ [ListNext]_listVars => ListTypeOK'
  BY ListTypesStep
<1> QED
  BY <1>1, <1>2, PTL DEF ListSpec

---------------------------------------------------------------------------
(* What a step does to the wire and to what is held.                       *)

LEMMA OnTheWayIs ==
    \A x : x \in OnTheWay <=> \E i \in DOMAIN wire : wire[i].type = "updated" /\ x \in wire[i].cids
BY DEF OnTheWay

LEMMA OnTheWayIsNext ==
    \A x : x \in OnTheWay' <=> \E i \in DOMAIN wire' : wire'[i].type = "updated" /\ x \in wire'[i].cids
BY DEF OnTheWay

LEMMA Appended ==
    ASSUME wire \in Seq(Events), NEW e \in Events, wire' = Append(wire, e)
    PROVE  /\ DOMAIN wire = 1 .. Len(wire) /\ Len(wire) \in Nat
           /\ DOMAIN wire' = 1 .. Len(wire) + 1
           /\ \A i \in DOMAIN wire : wire'[i] = wire[i] /\ i \in DOMAIN wire'
           /\ wire'[Len(wire) + 1] = e
OBVIOUS

LEMMA Taken ==
    ASSUME wire \in Seq(Events), wire # <<>>, wire' = Tail(wire)
    PROVE  /\ DOMAIN wire = 1 .. Len(wire) /\ Len(wire) \in Nat /\ 1 \in DOMAIN wire
           /\ Head(wire) = wire[1] /\ Head(wire) \in Events
           /\ \A i \in DOMAIN wire' : i \in Nat /\ i + 1 \in DOMAIN wire /\ wire'[i] = wire[i + 1]
           /\ \A i \in DOMAIN wire : i # 1 => i - 1 \in DOMAIN wire' /\ wire'[i - 1] = wire[i]
OBVIOUS

\* An event is sent: of a row, of one that is deleted, of the conversation, or a page.
Sends(e) ==
    /\ wire' = Append(wire, e)
    /\ bucket' = bucket /\ trims' = trims /\ torn' = torn
    /\ e.type = "updated" => \E m \in Messages : e = Updated(m) /\ Visible' \subseteq Visible \cup {m}
    /\ e.type # "updated" => Visible' = Visible
    /\ e.type = "deleted" => e.cids \cap Displayed = {}
    /\ e.type = "page" => \E v \in 1 .. MaxVisits :
          loads[v].step = "read" /\ e.cids = loads[v].page /\ e.trims = loads[v].trims

LEMMA SendingSteps ==
    ASSUME ListTypeOK, Rows \/ \E v \in 1 .. MaxVisits : DispatchPage(v)
    PROVE  \E e \in Events : Sends(e)
<1> USE DEF ListTypeOK, Sends, Visible
<1>1. ASSUME NEW m \in Messages, Store(m) PROVE \E e \in Events : Sends(e)
  <2>1. Updated(m) \in Events /\ Updated(m).type = "updated"
    BY EventTypes DEF Updated
  <2>2. Sends(Updated(m))
    BY <1>1, <2>1 DEF Store
  <2> QED
    BY <2>1, <2>2
<1>2. ASSUME NEW m \in Messages, Touch(m) PROVE \E e \in Events : Sends(e)
  <2>1. Updated(m) \in Events /\ Updated(m).type = "updated"
    BY EventTypes DEF Updated
  <2>2. Sends(Updated(m))
    BY <1>2, <2>1 DEF Touch
  <2> QED
    BY <2>1, <2>2
<1>3. ASSUME NEW m \in Messages, Delete(m) PROVE \E e \in Events : Sends(e)
  <2> DEFINE e == [type |-> "deleted", cids |-> {m}]
  <2>1. e \in Events /\ e.type = "deleted" /\ e.cids = {m}
    BY EventTypes
  <2>2. m \notin Displayed /\ db' = db \ {m} /\ wire' = Append(wire, e)
        /\ bucket' = bucket /\ trims' = trims /\ torn' = torn
    BY <1>3 DEF Delete
  <2> HIDE DEF e
  <2>3. Sends(e)
    BY <2>1, <2>2
  <2> QED
    BY <2>1, <2>3
<1>4. ASSUME NEW open \in BOOLEAN, ConversationUpdated(open) PROVE \E e \in Events : Sends(e)
  <2> DEFINE e == [type |-> "conversation", open |-> open]
  <2>1. e \in Events /\ e.type = "conversation"
    BY EventTypes
  <2>2. db' = db /\ wire' = Append(wire, e) /\ bucket' = bucket /\ trims' = trims /\ torn' = torn
    BY <1>4 DEF ConversationUpdated
  <2> HIDE DEF e
  <2>3. Sends(e)
    BY <2>1, <2>2
  <2> QED
    BY <2>1, <2>3
<1>5. ASSUME NEW v \in 1 .. MaxVisits, DispatchPage(v) PROVE \E e \in Events : Sends(e)
  <2> DEFINE e == [type |-> "page", cids |-> loads[v].page, trims |-> loads[v].trims]
  <2>1. e \in Events /\ e.type = "page" /\ e.cids = loads[v].page /\ e.trims = loads[v].trims
    BY EventTypes
  <2>2. db' = db /\ wire' = Append(wire, e) /\ bucket' = bucket /\ trims' = trims /\ torn' = torn
        /\ loads[v].step = "read"
    BY <1>5 DEF DispatchPage
  <2> HIDE DEF e
  <2>3. Sends(e)
    BY <2>1, <2>2
  <2> QED
    BY <2>1, <2>3
<1> QED
  BY <1>1, <1>2, <1>3, <1>4, <1>5 DEF Rows

\* The other steps leave the wire, what is stored and, but for a message of this user, the
\* list as they are.
Rests ==
    /\ wire' = wire /\ db' = db /\ trims' = trims
    /\ \/ bucket' = bucket /\ torn' = torn
       \/ \E m \in Mine : PublishReplies(m)

LEMMA StepKinds ==
    ASSUME ListTypeOK, [ListNext]_listVars
    PROVE  (\E e \in Events : Sends(e)) \/ Receive \/ Rests
<1>1. ASSUME NEW v \in 1 .. MaxVisits, Load(v), ~DispatchPage(v) PROVE Rests
  BY <1>1 DEF Load, ReadPage, LoadFails, LoadReplies, Rests
<1>2. CASE Mount \/ Unmount \/ FetchMore
  BY <1>2 DEF Mount, Unmount, FetchMore, Rests
<1>3. ASSUME NEW m \in Mine, Publish(m) PROVE Rests
  BY <1>3 DEF Publish, Rests
<1>4. ASSUME NEW m \in Mine, PublishReplies(m) PROVE Rests
  BY <1>4 DEF PublishReplies, Rests
<1>5. CASE UNCHANGED listVars
  BY <1>5 DEF listVars, Rests
<1> QED
  BY <1>1, <1>2, <1>3, <1>4, <1>5, SendingSteps DEF ListNext

\* The reducer takes from the list only what is trimmed or was never displayed.
LEMMA ReceiveKeeps ==
    ASSUME ListTypeOK, Deleted, Receive
    PROVE  /\ db' = db
           /\ \/ trims' = trims /\ bucket \cap Displayed \subseteq bucket'
              \/ trims' = trims + 1 /\ bucket' = Trimmed(bucket) /\ Head(wire).type = "conversation"
<1>1. wire \in Seq(Events) /\ wire # <<>> /\ wire' = Tail(wire) /\ db' = db
  BY DEF ListTypeOK, Receive
<1>2. Head(wire) = wire[1] /\ 1 \in DOMAIN wire /\ Head(wire) \in Events
  BY <1>1, Taken
<1>3. trims' = IF bucket \cap Displayed \subseteq bucket' THEN trims ELSE trims + 1
  BY DEF Receive
<1>4. bucket' = Reduced(bucket, Head(wire))
  BY DEF Receive
<1>5. Head(wire).type = "deleted" => bucket \cap Displayed \subseteq bucket'
  BY <1>2, <1>4 DEF Reduced, Deleted
<1>6. Head(wire).type \in {"updated", "page"} => bucket \cap Displayed \subseteq bucket'
  BY <1>4 DEF Reduced
<1>7. Head(wire).type = "conversation" => bucket' \in {bucket, Trimmed(bucket)}
  BY <1>4 DEF Reduced
<1>8. Head(wire).type \in {"updated", "deleted", "page", "conversation"}
  BY <1>2, EventFields
<1> QED
  BY <1>1, <1>3, <1>5, <1>6, <1>7, <1>8

\* What was on its way is there.
LEMMA ReceiveHolds ==
    ASSUME ListTypeOK, Receive
    PROVE  /\ OnTheWay' \subseteq OnTheWay
           /\ OnTheWay \subseteq OnTheWay' \cup bucket'
<1>1. wire \in Seq(Events) /\ wire # <<>> /\ wire' = Tail(wire)
      /\ bucket' = Reduced(bucket, Head(wire))
  BY DEF ListTypeOK, Receive
<1>2. OnTheWay' \subseteq OnTheWay
  BY <1>1, Taken, OnTheWayIs, OnTheWayIsNext
<1>3. ASSUME NEW x \in OnTheWay PROVE x \in OnTheWay' \cup bucket'
  <2>1. PICK i \in DOMAIN wire : wire[i].type = "updated" /\ x \in wire[i].cids
    BY OnTheWayIs
  <2>2. CASE i = 1
    <3>1. Head(wire).type = "updated" /\ x \in Head(wire).cids
      BY <1>1, <2>1, <2>2, Taken
    <3>2. bucket' = bucket \cup Head(wire).cids
      BY <1>1, <3>1 DEF Reduced
    <3> QED
      BY <3>1, <3>2
  <2>3. CASE i # 1
    <3>1. i - 1 \in DOMAIN wire' /\ wire'[i - 1] = wire[i]
      BY <1>1, <2>3, Taken
    <3> QED
      BY <2>1, <3>1, OnTheWayIsNext
  <2> QED
    BY <2>2, <2>3
<1> QED
  BY <1>2, <1>3

\* What is held stays so until the list is cut, and a new message is held.
LEMMA HeldStep ==
    ASSUME ListTypeOK, Deleted, [ListNext]_listVars
    PROVE  /\ trims' \in {trims, trims + 1}
           /\ trims' = trims => Held \cap Displayed \subseteq Held'
           /\ Visible' \subseteq Visible \cup Held'
<1> USE DEF Held
<1>1. ASSUME NEW e \in Events, Sends(e)
      PROVE  trims' = trims /\ Held \subseteq Held' /\ Visible' \subseteq Visible \cup Held'
  <2>1. wire \in Seq(Events) /\ wire' = Append(wire, e) /\ bucket' = bucket /\ trims' = trims
    BY <1>1 DEF ListTypeOK, Sends
  <2>2. OnTheWay \subseteq OnTheWay'
    BY <2>1, Appended, OnTheWayIs, OnTheWayIsNext
  <2>3. e.type = "updated" => e.cids \subseteq OnTheWay'
    <3>1. Len(wire) + 1 \in DOMAIN wire' /\ wire'[Len(wire) + 1] = e
      BY <2>1, Appended
    <3> QED
      BY <3>1, OnTheWayIsNext
  <2>4. Visible' \subseteq Visible \cup OnTheWay'
    <3>1. CASE e.type = "updated"
      BY <1>1, <2>3, <3>1 DEF Sends, Updated
    <3>2. CASE e.type # "updated"
      BY <1>1, <3>2 DEF Sends
    <3> QED
      BY <3>1, <3>2
  <2> QED
    BY <2>1, <2>2, <2>4
<1>2. CASE Receive
  <2>1. Visible' = Visible /\ trims \in Nat
    BY <1>2, ReceiveKeeps DEF Visible, ListTypeOK
  <2>2. trims' \in {trims, trims + 1}
    BY <1>2, ReceiveKeeps
  <2>3. trims' = trims => bucket \cap Displayed \subseteq bucket'
    BY <1>2, <2>1, ReceiveKeeps
  <2>4. OnTheWay \subseteq OnTheWay' \cup bucket'
    BY <1>2, ReceiveHolds
  <2> QED
    BY <2>1, <2>2, <2>3, <2>4
<1>3. CASE Rests
  <2>1. OnTheWay' = OnTheWay /\ Visible' = Visible
    BY <1>3 DEF Rests, OnTheWay, Visible
  <2>2. bucket \subseteq bucket'
    BY <1>3 DEF Rests, PublishReplies
  <2> QED
    BY <1>3, <2>1, <2>2 DEF Rests
<1> QED
  BY <1>1, <1>2, <1>3, StepKinds

---------------------------------------------------------------------------
(* Order: what the wire holds.                                             *)

LEMMA InitOrder == ListInit => Order
<1> SUFFICES ASSUME ListInit PROVE Order
  OBVIOUS
<1>1. DOMAIN wire = {} /\ trims = 0 /\ \A v \in 1 .. MaxVisits : loads[v].trims = 0
  BY DEF ListInit, NoLoad
<1> QED
  BY <1>1 DEF Order, InOrder, Deleted, Timely

LEMMA InOrderStep ==
    ASSUME ListTypeOK, InOrder, Deleted, [ListNext]_listVars
    PROVE  InOrder'
<1>1. wire \in Seq(Events) /\ Visible \subseteq Messages /\ Messages \subseteq Nat
  BY MessagesAssumption DEF ListTypeOK, Visible
<1>2. ASSUME NEW e \in Events, Sends(e) PROVE InOrder'
  <2>1. wire' = Append(wire, e)
    BY <1>2 DEF Sends
  <2> DEFINE n == Len(wire) + 1
  <2>2. SUFFICES ASSUME NEW i \in DOMAIN wire', wire'[i].type = "updated", ~wire'[i].late,
                        NEW m \in wire'[i].cids, NEW x \in Visible', m < x
                 PROVE  \E j \in DOMAIN wire' : i < j /\ wire'[j].type = "updated" /\ x \in wire'[j].cids
    BY DEF InOrder
  <2>3. /\ Len(wire) \in Nat /\ DOMAIN wire = 1 .. Len(wire)
        /\ n \in DOMAIN wire' /\ wire'[n] = e
        /\ i \in DOMAIN wire \/ i = n
        /\ \A k \in DOMAIN wire : k < n /\ wire'[k] = wire[k] /\ k \in DOMAIN wire'
    BY <1>1, <2>1, Appended
  <2> HIDE DEF n
  <2>4. CASE i \in DOMAIN wire /\ x \in Visible
    <3>1. PICK j \in DOMAIN wire : i < j /\ wire[j].type = "updated" /\ x \in wire[j].cids
      BY <2>2, <2>3, <2>4 DEF InOrder
    <3> QED
      BY <2>3, <3>1
  <2>5. CASE i \in DOMAIN wire /\ x \notin Visible
    <3>1. e.type = "updated" /\ x \in e.cids
      BY <1>2, <2>5 DEF Sends, Updated
    <3> QED
      BY <2>3, <2>5, <3>1
  <2>6. CASE i = n
    <3>1. PICK k \in Messages : e = Updated(k) /\ Visible' \subseteq Visible \cup {k}
      BY <1>2, <2>2, <2>3, <2>6 DEF Sends
    <3>2. m = k /\ \A y \in db : ~(y > k)
      BY <2>2, <2>3, <2>6, <3>1 DEF Updated
    <3>3. k \in Nat /\ x # k
      BY <1>1, <2>2, <3>2
    <3>4. x \in db
      BY <3>1, <3>3 DEF Visible
    <3>5. x \in Nat
      BY <1>1, <3>4 DEF ListTypeOK
    <3> QED
      BY <2>2, <3>2, <3>3, <3>4, <3>5
  <2> QED
    BY <2>3, <2>4, <2>5, <2>6
<1>3. CASE Receive
  <2>1. wire' = Tail(wire) /\ wire # <<>> /\ Visible' = Visible
    BY <1>3, ReceiveKeeps DEF Receive, Visible
  <2>2. SUFFICES ASSUME NEW i \in DOMAIN wire', wire'[i].type = "updated", ~wire'[i].late,
                        NEW m \in wire'[i].cids, NEW x \in Visible, m < x
                 PROVE  \E j \in DOMAIN wire' : i < j /\ wire'[j].type = "updated" /\ x \in wire'[j].cids
    BY <2>1 DEF InOrder
  <2>3. i \in Nat /\ i + 1 \in DOMAIN wire /\ wire'[i] = wire[i + 1]
    BY <1>1, <2>1, Taken
  <2>4. PICK j \in DOMAIN wire : i + 1 < j /\ wire[j].type = "updated" /\ x \in wire[j].cids
    BY <2>2, <2>3 DEF InOrder
  <2>5. j \in Nat /\ j # 1
    BY <1>1, <2>1, <2>3, <2>4, Taken
  <2>6. j - 1 \in DOMAIN wire' /\ wire'[j - 1] = wire[j]
    BY <1>1, <2>1, <2>5, Taken
  <2>7. i < j - 1
    BY <2>3, <2>4, <2>5
  <2> QED
    BY <2>4, <2>6, <2>7
<1>4. CASE Rests
  BY <1>4 DEF Rests, InOrder, Visible
<1> QED
  BY <1>2, <1>3, <1>4, StepKinds

\* What a step does to a call: it is made, reads its page, or ends.
LEMMA LoadSteps ==
    ASSUME ListTypeOK, [ListNext]_listVars, NEW w \in 1 .. MaxVisits
    PROVE  \/ loads'[w] = loads[w]
           \/ FetchMore /\ loads'[w] = [step |-> "asked", ref |-> Oldest(bucket), page |-> {}, trims |-> trims]
           \/ ReadPage(w)
           \/ /\ loads'[w].step \in {"ok", "failed", "none"}
              /\ loads'[w].trims \in {loads[w].trims, 0}
<1>1. ASSUME NEW v \in 1 .. MaxVisits, ReadPage(v) PROVE w = v \/ loads'[w] = loads[w]
  BY <1>1, ReadPageIs
<1>2. ASSUME NEW v \in 1 .. MaxVisits, DispatchPage(v) \/ LoadFails(v)
      PROVE  \/ loads'[w] = loads[w]
             \/ /\ loads'[w].step \in {"ok", "failed"}
                /\ loads'[w].trims = loads[w].trims
  <2>1. \E s \in {"ok", "failed"} : loads' = [loads EXCEPT ![v] = [@ EXCEPT !.step = s]]
    BY <1>2 DEF DispatchPage, LoadFails
  <2>2. PICK s \in {"ok", "failed"} : loads' = [loads EXCEPT ![v] = [loads[v] EXCEPT !.step = s]]
    BY <2>1
  <2>3. loads \in [1 .. MaxVisits -> Loads]
    BY DEF ListTypeOK, Loads
  <2> DEFINE L == [loads[v] EXCEPT !.step = s]
  <2>4. L.step = s /\ L.trims = loads[v].trims
    BY <2>3 DEF Loads
  <2>5. loads' = [loads EXCEPT ![v] = L]
    BY <2>2
  <2> HIDE DEF L
  <2>6. w # v => loads'[w] = loads[w]
    BY <2>3, <2>5
  <2>7. loads'[v] = L
    BY <2>3, <2>5
  <2> QED
    BY <2>4, <2>6, <2>7
<1>3. ASSUME NEW v \in 1 .. MaxVisits, LoadReplies(v)
      PROVE  loads'[w] = loads[w] \/ (loads'[w].step = "none" /\ loads'[w].trims = 0)
  <2>1. loads' = [loads EXCEPT ![v] = NoLoad] /\ loads \in [1 .. MaxVisits -> Loads]
    BY <1>3 DEF LoadReplies, ListTypeOK, Loads
  <2>2. NoLoad.step = "none" /\ NoLoad.trims = 0
    BY DEF NoLoad
  <2>3. w # v => loads'[w] = loads[w]
    BY <2>1
  <2>4. loads'[v] = NoLoad
    BY <2>1
  <2>5. w = v => loads'[w] = NoLoad
    BY <2>4
  <2>6. loads'[w] = NoLoad => loads'[w].step = "none" /\ loads'[w].trims = 0
    BY <2>2
  <2> QED
    BY <2>3, <2>5, <2>6
<1>4. CASE FetchMore
  BY <1>4 DEF FetchMore, ListTypeOK
<1>5. Rows \/ Receive \/ Mount \/ Unmount \/ (\E m \in Mine : Publish(m) \/ PublishReplies(m))
      \/ UNCHANGED listVars => loads' = loads
  BY DEF Rows, Store, Touch, Delete, ConversationUpdated, Receive, Mount, Unmount, Publish,
         PublishReplies, listVars
<1> QED
  BY <1>1, <1>2, <1>3, <1>4, <1>5 DEF ListNext, Load

LEMMA OrderStep ==
    ASSUME ListTypeOK, Order, [ListNext]_listVars
    PROVE  Order'
<1> USE DEF Order
<1>1. InOrder'
  BY InOrderStep
<1>2. Deleted'
  <2>1. ASSUME NEW e \in Events, Sends(e) PROVE Deleted'
    <3>1. wire \in Seq(Events) /\ wire' = Append(wire, e)
          /\ (e.type = "deleted" => e.cids \cap Displayed = {})
      BY <2>1 DEF Sends, ListTypeOK
    <3> QED
      BY <3>1, Appended DEF Deleted
  <2>2. CASE Receive
    <3>1. wire \in Seq(Events) /\ wire # <<>> /\ wire' = Tail(wire)
      BY <2>2 DEF Receive, ListTypeOK
    <3> QED
      BY <3>1, Taken DEF Deleted
  <2>3. CASE Rests
    BY <2>3 DEF Rests, Deleted
  <2> QED
    BY <2>1, <2>2, <2>3, StepKinds
<1>3. trims \in Nat /\ trims' \in Nat /\ trims <= trims'
  BY HeldStep DEF ListTypeOK
<1>4. \A i \in DOMAIN wire' : wire'[i].type = "page" => wire'[i].trims <= trims'
  <2>1. ASSUME NEW e \in Events, Sends(e), NEW i \in DOMAIN wire', wire'[i].type = "page"
        PROVE  wire'[i].trims <= trims
    <3>1. wire \in Seq(Events) /\ wire' = Append(wire, e)
          /\ (e.type = "page" => e.trims <= trims)
      BY <2>1 DEF Sends, ListTypeOK, Timely
    <3>2. i \in DOMAIN wire \/ i = Len(wire) + 1
      BY <3>1, Appended
    <3> QED
      BY <2>1, <3>1, <3>2, Appended DEF Timely
  <2>2. ASSUME Receive, NEW i \in DOMAIN wire', wire'[i].type = "page"
        PROVE  wire'[i].trims <= trims
    <3>1. wire \in Seq(Events) /\ wire # <<>> /\ wire' = Tail(wire)
      BY <2>2 DEF Receive, ListTypeOK
    <3> QED
      BY <2>2, <3>1, Taken DEF Timely
  <2>3. ASSUME Rests, NEW i \in DOMAIN wire', wire'[i].type = "page"
        PROVE  wire'[i].trims <= trims
    BY <2>3 DEF Rests, Timely
  <2>4. ASSUME NEW i \in DOMAIN wire', wire'[i].type = "page"
        PROVE  wire'[i].trims \in Nat
    <3>1. wire' \in Seq(Events)
      BY ListTypesStep DEF ListTypeOK
    <3>2. wire'[i] \in Events
      BY <3>1
    <3> QED
      BY <2>4, <3>2, EventFields
  <2> QED
    BY <1>3, <2>1, <2>2, <2>3, <2>4, StepKinds
<1>5. \A v \in 1 .. MaxVisits : loads'[v].trims <= trims'
  <2>1. \A v \in 1 .. MaxVisits : loads'[v].trims \in {loads[v].trims, 0, trims}
    <3>1. \A v \in 1 .. MaxVisits : ReadPage(v) => loads'[v].trims = loads[v].trims
      BY ReadPageIs
    <3> QED
      BY <3>1, LoadSteps
  <2>2. \A v \in 1 .. MaxVisits : loads[v].trims \in Nat /\ loads[v].trims <= trims
    BY DEF Timely, ListTypeOK
  <2> QED
    BY <1>3, <2>1, <2>2
<1> QED
  BY <1>1, <1>2, <1>4, <1>5 DEF Timely

---------------------------------------------------------------------------
(* The list has no gap.                                                    *)

LEMMA ContinuesStep ==
    ASSUME ListTypeOK, Deleted, [ListNext]_listVars, trims' = trims, NEW page, Continues(page)
    PROVE  \A x \in Visible', s \in page : s < x => x \in page \cup Held'
<1>1. Visible \subseteq Displayed /\ Visible' \subseteq Visible \cup Held' /\ Held \cap Displayed \subseteq Held'
  BY HeldStep DEF Visible
<1> QED
  BY <1>1 DEF Continues

LEMMA OlderOrHeldStep ==
    ASSUME ListTypeOK, Deleted, [ListNext]_listVars, trims' = trims, NEW ref, OlderOrHeld(ref)
    PROVE  \A x \in Visible' : x < ref \/ x \in Held'
<1>1. Visible \subseteq Displayed /\ Visible' \subseteq Visible \cup Held' /\ Held \cap Displayed \subseteq Held'
  BY HeldStep DEF Visible
<1> QED
  BY <1>1 DEF OlderOrHeld

\* The page that is read continues the list.
LEMMA PageContinues ==
    ASSUME ListTypeOK, NEW ref \in Messages \cup {NoRef}, ref # NoRef => OlderOrHeld(ref)
    PROVE  Continues(Page(ref))
<1> DEFINE before == {m \in db : ref = NoRef \/ m < ref}
<1>1. before \in SUBSET Messages /\ Page(ref) = Newest(before, Amount) /\ Amount \in Nat
  BY PageIs, BoundsAssumption DEF ListTypeOK
<1>2. SUFFICES ASSUME NEW x \in Visible, NEW s \in Page(ref), s < x, x \notin Held
               PROVE  x \in Page(ref)
  BY DEF Continues
<1>3. x \in before
  BY <1>2 DEF OlderOrHeld, Visible
<1> HIDE DEF before
<1> QED
  BY <1>1, <1>2, <1>3, NewestAreNewer

\* So does the oldest message of a list without a gap.
LEMMA OldestContinues ==
    ASSUME ListTypeOK, NoHole, Oldest(bucket) # NoRef
    PROVE  OlderOrHeld(Oldest(bucket))
<1>1. bucket # {}
  BY DEF Oldest
<1>2. Oldest(bucket) \in bucket /\ Oldest(bucket) \in Messages
  BY <1>1, OldestIsOf DEF ListTypeOK
<1>3. SUFFICES ASSUME NEW x \in Visible, x \notin Held PROVE x < Oldest(bucket)
  BY DEF OlderOrHeld
<1>4. ~(Oldest(bucket) < x)
  BY <1>2, <1>3 DEF NoHole
<1>5. x # Oldest(bucket)
  BY <1>2, <1>3 DEF Held
<1>6. x \in Nat /\ Oldest(bucket) \in Nat
  BY <1>2, MessagesAssumption DEF ListTypeOK, Visible
<1> QED
  BY <1>4, <1>5, <1>6

LEMMA AskedStep ==
    ASSUME ListTypeOK, Order, NoHole, Asked, [ListNext]_listVars
    PROVE  Asked'
<1>1. SUFFICES ASSUME NEW v \in 1 .. MaxVisits, loads'[v].step = "asked", loads'[v].trims = trims',
                      loads'[v].ref # NoRef, NEW x \in Visible'
               PROVE  x < loads'[v].ref \/ x \in Held'
  BY DEF Asked, OlderOrHeld
<1>2. trims \in Nat /\ loads[v].trims \in Nat /\ loads[v].trims <= trims /\ trims' \in {trims, trims + 1}
      /\ Deleted
  BY HeldStep DEF Order, Timely, ListTypeOK
<1>3. CASE loads'[v] = loads[v]
  <2>1. trims' = trims /\ OlderOrHeld(loads[v].ref)
    BY <1>1, <1>2, <1>3 DEF Asked
  <2> QED
    BY <1>2, <1>3, <2>1, OlderOrHeldStep
<1>4. CASE FetchMore /\ loads'[v] = [step |-> "asked", ref |-> Oldest(bucket), page |-> {}, trims |-> trims]
  <2>1. trims' = trims /\ OlderOrHeld(Oldest(bucket))
    BY <1>1, <1>4, OldestContinues DEF FetchMore
  <2> QED
    BY <1>2, <1>4, <2>1, OlderOrHeldStep
<1>5. CASE ReadPage(v)
  BY <1>1, <1>5, ReadPageIs
<1> QED
  BY <1>1, <1>3, <1>4, <1>5, LoadSteps

LEMMA PagesStep ==
    ASSUME ListTypeOK, Order, Asked, Pages, [ListNext]_listVars
    PROVE  Pages'
<1>1. trims \in Nat /\ trims' \in {trims, trims + 1} /\ Deleted
      /\ \A v \in 1 .. MaxVisits : loads[v].trims \in Nat /\ loads[v].trims <= trims
  BY HeldStep DEF Order, Timely, ListTypeOK
<1>2. \A i \in DOMAIN wire : wire[i].type = "page" => wire[i].trims \in Nat /\ wire[i].trims <= trims
  <2>1. wire \in Seq(Events)
    BY DEF ListTypeOK
  <2>2. \A i \in DOMAIN wire : wire[i] \in Events
    BY <2>1
  <2> QED
    BY <2>2, EventFields DEF Order, Timely
<1>3. ASSUME NEW v \in 1 .. MaxVisits, loads'[v].step = "read", loads'[v].trims = trims',
             NEW x \in Visible', NEW s \in loads'[v].page, s < x
      PROVE  x \in loads'[v].page \cup Held'
  <2>1. CASE loads'[v] = loads[v]
    <3>1. trims' = trims /\ Continues(loads[v].page)
      BY <1>1, <1>3, <2>1 DEF Pages
    <3> QED
      BY <1>1, <1>3, <2>1, <3>1, ContinuesStep
  <2>2. CASE ReadPage(v)
    <3>1. trims' = trims /\ loads[v].step = "asked" /\ loads[v].trims = trims
          /\ loads'[v].page = Page(loads[v].ref) /\ loads[v].ref \in Messages \cup {NoRef}
      BY <1>3, <2>2, ReadPageIs DEF ReadPage, ListTypeOK
    <3>2. Continues(Page(loads[v].ref))
      BY <3>1, PageContinues DEF Asked
    <3> QED
      BY <1>1, <1>3, <3>1, <3>2, ContinuesStep
  <2> QED
    BY <1>3, <2>1, <2>2, LoadSteps
<1>4. ASSUME NEW i \in DOMAIN wire', wire'[i].type = "page", wire'[i].trims = trims',
             NEW x \in Visible', NEW s \in wire'[i].cids, s < x
      PROVE  x \in wire'[i].cids \cup Held'
  <2>1. ASSUME NEW j \in DOMAIN wire, wire'[i] = wire[j] PROVE x \in wire'[i].cids \cup Held'
    <3>1. trims' = trims /\ Continues(wire[j].cids)
      BY <1>1, <1>2, <1>4, <2>1 DEF Pages
    <3> QED
      BY <1>1, <1>4, <2>1, <3>1, ContinuesStep
  <2>2. ASSUME NEW e \in Events, Sends(e) PROVE x \in wire'[i].cids \cup Held'
    <3>1. wire \in Seq(Events) /\ wire' = Append(wire, e) /\ trims' = trims
      BY <2>2 DEF Sends, ListTypeOK
    <3>2. CASE i = Len(wire) + 1
      <4>1. wire'[i] = e
        BY <3>1, <3>2, Appended
      <4>2. PICK v \in 1 .. MaxVisits : loads[v].step = "read" /\ e.cids = loads[v].page /\ e.trims = loads[v].trims
        BY <1>4, <2>2, <4>1 DEF Sends
      <4>3. Continues(e.cids)
        BY <1>4, <3>1, <4>1, <4>2 DEF Pages
      <4> QED
        BY <1>1, <1>4, <3>1, <4>1, <4>3, ContinuesStep
    <3>3. CASE i # Len(wire) + 1
      BY <2>1, <3>1, <3>3, Appended
    <3> QED
      BY <3>2, <3>3
  <2>3. CASE Receive
    <3>1. wire \in Seq(Events) /\ wire # <<>> /\ wire' = Tail(wire)
      BY <2>3 DEF Receive, ListTypeOK
    <3> QED
      BY <2>1, <3>1, Taken
  <2>4. CASE Rests
    BY <2>1, <2>4 DEF Rests
  <2> QED
    BY <2>2, <2>3, <2>4, StepKinds
<1> QED
  BY <1>3, <1>4 DEF Pages, Continues

\* What is trimmed away is older than what stays.
LEMMA TrimmedIs ==
    ASSUME ListTypeOK, NEW x \in bucket \cap Displayed, NEW s \in Trimmed(bucket), s < x
    PROVE  x \in Trimmed(bucket)
<1>1. bucket \cap Displayed \in SUBSET Messages /\ Kept \in Nat
  BY BoundsAssumption DEF ListTypeOK
<1> QED
  BY <1>1, NewestAreNewer DEF Trimmed

LEMMA NoHoleStep ==
    ASSUME ListTypeOK, Order, NoHole, Pages, [ListNext]_listVars, ~torn'
    PROVE  NoHole'
<1>1. SUFFICES ASSUME NEW x \in Visible', NEW s \in bucket', s < x, x \notin Held' PROVE FALSE
  BY DEF NoHole
<1>2. x \in Visible /\ x \in Displayed /\ Deleted /\ trims \in Nat
  BY <1>1, HeldStep DEF Visible, Order, ListTypeOK
<1>3. CASE s \in bucket /\ trims' = trims
  <2>1. x \notin Held
    BY <1>1, <1>2, <1>3, HeldStep
  <2> QED
    BY <1>1, <1>2, <1>3, <2>1 DEF NoHole
<1>4. ASSUME NEW e \in Events, Sends(e) PROVE FALSE
  BY <1>1, <1>3, <1>4 DEF Sends
<1>5. CASE Receive
  <2>1. wire \in Seq(Events) /\ wire # <<>> /\ wire' = Tail(wire)
        /\ bucket' = Reduced(bucket, Head(wire)) /\ ~Tears(Head(wire))
    BY <1>1, <1>5 DEF Receive, ListTypeOK
  <2>2. Head(wire) = wire[1] /\ 1 \in DOMAIN wire /\ Head(wire) \in Events
    BY <2>1, Taken
  <2>3. CASE trims' # trims
    <3>1. bucket' = Trimmed(bucket) /\ Trimmed(bucket) \subseteq bucket
      <4>1. Trimmed(bucket) \subseteq bucket
        BY DEF Trimmed, Newest
      <4> QED
        BY <1>2, <1>5, <2>3, <4>1, ReceiveKeeps
    <3>2. x \in Held
      BY <1>1, <1>2, <3>1 DEF NoHole
    <3>3. x \in bucket
      BY <1>1, <1>5, <3>2, ReceiveHolds DEF Held
    <3> QED
      BY <1>1, <1>2, <3>1, <3>3, TrimmedIs DEF Held
  <2>4. CASE trims' = trims /\ s \notin bucket /\ wire[1].type = "updated"
    <3>1. s \in wire[1].cids /\ ~wire[1].late
      BY <1>1, <2>1, <2>2, <2>4 DEF Reduced, Tears
    <3>2. PICK j \in DOMAIN wire : 1 < j /\ wire[j].type = "updated" /\ x \in wire[j].cids
      BY <1>1, <1>2, <2>2, <2>4, <3>1 DEF Order, InOrder
    <3>3. j \in Nat /\ j # 1
      BY <2>1, <3>2, Taken
    <3>4. j - 1 \in DOMAIN wire' /\ wire'[j - 1] = wire[j]
      BY <2>1, <3>3, Taken
    <3>5. x \in OnTheWay'
      BY <3>2, <3>4, OnTheWayIsNext
    <3> QED
      BY <1>1, <3>5 DEF Held
  <2>5. CASE trims' = trims /\ s \notin bucket /\ wire[1].type = "page"
    <3>1. s \in wire[1].cids /\ wire[1].trims = trims /\ bucket' = bucket \cup (wire[1].cids \ Acks)
      BY <1>1, <2>1, <2>2, <2>5 DEF Reduced, Loaded, Tears
    <3>2. x \in wire[1].cids \cup Held
      BY <1>1, <1>2, <2>2, <2>5, <3>1 DEF Pages, Continues
    <3>3. x \notin Held
      BY <1>1, <1>2, <2>5, HeldStep
    <3>4. x \notin Acks
      BY <1>2, MessagesAssumption
    <3> QED
      BY <1>1, <3>1, <3>2, <3>3, <3>4 DEF Held
  <2>6. wire[1].type \in {"deleted", "conversation"} => bucket' \subseteq bucket
    BY <2>1, <2>2 DEF Reduced, Trimmed, Newest
  <2> QED
    BY <1>1, <1>3, <2>2, <2>3, <2>4, <2>5, <2>6, EventFields
<1>6. CASE Rests
  <2>1. CASE bucket' = bucket
    BY <1>1, <1>3, <1>6, <2>1 DEF Rests
  <2>2. ASSUME NEW m \in Mine, PublishReplies(m) PROVE FALSE
    <3>1. bucket' = bucket \cup {m} /\ (m \in bucket \/ \A k \in db : ~(k > m)) /\ trims' = trims
      BY <1>1, <2>2 DEF PublishReplies
    <3>2. x \in db /\ x \in Nat /\ m \in Nat
      BY <1>2, MessagesAssumption DEF Visible, ListTypeOK
    <3> QED
      BY <1>1, <1>3, <3>1, <3>2
  <2> QED
    BY <1>6, <2>1, <2>2 DEF Rests
<1> QED
  BY <1>4, <1>5, <1>6, StepKinds

LEMMA TornStays == ListTypeOK /\ [ListNext]_listVars /\ torn => torn'
<1> SUFFICES ASSUME ListTypeOK, [ListNext]_listVars, torn PROVE torn'
  OBVIOUS
<1>1. ASSUME NEW e \in Events, Sends(e) PROVE torn'
  BY <1>1 DEF Sends
<1>2. CASE Receive
  BY <1>2 DEF Receive
<1>3. CASE Rests
  BY <1>3 DEF Rests, PublishReplies
<1> QED
  BY <1>1, <1>2, <1>3, StepKinds

LEMMA InitWhole == ListInit => Whole
<1> SUFFICES ASSUME ListInit PROVE Whole
  OBVIOUS
<1>1. DOMAIN wire = {} /\ \A v \in 1 .. MaxVisits : loads[v].step = "none"
  BY DEF ListInit, NoLoad
<1>2. ASSUME NEW x \in Visible, NEW s \in bucket, s < x PROVE x \in Held
  <2>1. Stored \in SUBSET Messages /\ Shallow \in Nat /\ db = Stored /\ bucket = Newest(Stored, Shallow)
    BY BoundsAssumption DEF ListInit, Messages
  <2> QED
    BY <1>2, <2>1, NewestAreNewer DEF Held, Visible
<1> QED
  BY <1>1, <1>2 DEF Whole, NoHole, Pages, Asked

LEMMA WholeStep ==
    ASSUME ListTypeOK, Order, Whole, [ListNext]_listVars
    PROVE  Whole'
BY TornStays, NoHoleStep, PagesStep, AskedStep DEF Whole

LEMMA WholeHasNoGap == Whole => NoGap
BY DEF Whole, NoHole, NoGap, Hole, Visible, Held

\* The list has no gap, for any sets of messages, acknowledgements and any sizes of the
\* pages and of what is kept, unless an old message or an outdated page was put into it.
THEOREM GapsAreTorn == ListSpec => []NoGap
<1> DEFINE IInv == ListTypeOK /\ Order /\ Whole
<1>1. ListInit => IInv
  BY InitTypes, InitOrder, InitWhole
<1>2. IInv /\ [ListNext]_listVars => IInv'
  BY ListTypesStep, OrderStep, WholeStep
<1>3. IInv => NoGap
  BY WholeHasNoGap
<1> QED
  BY <1>1, <1>2, <1>3, PTL DEF ListSpec

---------------------------------------------------------------------------
(* The beginning of the conversation.                                      *)

LEMMA InitEnds == ListInit => ListEnds
BY DEF ListInit, NoLoad, ListEnds

LEMMA EndsStep ==
    ASSUME ListTypeOK, Order, ListEnds, [ListNext]_listVars
    PROVE  ListEnds'
<1>1. trims \in Nat /\ trims' \in {trims, trims + 1} /\ Deleted
      /\ \A v \in 1 .. MaxVisits : loads[v].trims \in Nat /\ loads[v].trims <= trims
  BY HeldStep DEF Order, Timely, ListTypeOK
<1>2. (trims' = trims => Held \cap Displayed \subseteq Held') /\ Visible' \subseteq Visible \cup Held'
      /\ Visible \subseteq Displayed
  BY <1>1, HeldStep DEF Visible
<1>3. SUFFICES ASSUME NEW v \in 1 .. MaxVisits, loads'[v].trims = trims'
      PROVE  /\ loads'[v].step = "asked" /\ loads'[v].ref \in Displayed => loads'[v].ref \in Held'
             /\ loads'[v].step = "end" =>
                   \A x \in Visible' : x \in Held' \/ (loads'[v].ref # NoRef /\ loads'[v].ref < x)
  BY DEF ListEnds
<1>4. CASE loads'[v] = loads[v]
  <2>1. trims' = trims
    BY <1>1, <1>3, <1>4
  <2> QED
    BY <1>2, <1>3, <1>4, <2>1 DEF ListEnds
<1>5. CASE FetchMore /\ loads'[v] = [step |-> "asked", ref |-> Oldest(bucket), page |-> {}, trims |-> trims]
  <2>1. bucket' = bucket
    BY <1>5 DEF FetchMore
  <2>2. Oldest(bucket) \in Displayed => Oldest(bucket) \in bucket
    <3>1. CASE bucket = {}
      BY <3>1, MessagesAssumption DEF Oldest, NoRef
    <3>2. CASE bucket # {}
      BY <3>2, OldestIsOf DEF ListTypeOK
    <3> QED
      BY <3>1, <3>2
  <2> QED
    BY <1>5, <2>1, <2>2 DEF Held
<1>6. CASE ReadPage(v)
  <2>1. trims' = trims /\ loads[v].step = "asked" /\ loads[v].trims = trims
        /\ loads'[v].ref = loads[v].ref /\ loads[v].ref \in Messages \cup {NoRef}
        /\ loads'[v].step # "asked"
    BY <1>3, <1>6, ReadPageIs DEF ReadPage, ListTypeOK
  <2>2. ASSUME loads'[v].step = "end", NEW x \in Visible, x \notin Held
        PROVE  loads[v].ref # NoRef /\ loads[v].ref < x
    <3>1. Page(loads[v].ref) = {}
      BY <1>6, <2>2, ReadPageIs
    <3> DEFINE before == {m \in db : loads[v].ref = NoRef \/ m < loads[v].ref}
    <3>2. before \in SUBSET Messages /\ Page(loads[v].ref) = Newest(before, Amount) /\ Amount \in Nat \ {0}
      BY PageIs, BoundsAssumption DEF ListTypeOK
    <3>3. before = {}
      <4> HIDE DEF before
      <4> QED
        BY <3>1, <3>2, SomeNewest
    <3>4. x \in db /\ x \in Nat /\ x \in Displayed
      BY <2>2, MessagesAssumption DEF Visible, ListTypeOK
    <3>5. loads[v].ref # NoRef /\ ~(x < loads[v].ref)
      BY <3>3, <3>4
    <3>6. loads[v].ref # x
      BY <2>1, <2>2, <3>4 DEF ListEnds
    <3>7. loads[v].ref \in Nat
      BY <2>1, <3>5, MessagesAssumption
    <3> QED
      BY <3>4, <3>5, <3>6, <3>7
  <2> QED
    BY <1>2, <2>1, <2>2
<1>7. CASE loads'[v].step \in {"ok", "failed", "none"}
  BY <1>7
<1> QED
  BY <1>4, <1>5, <1>6, <1>7, LoadSteps

\* When ConversationLoad has found nothing, nothing older than the list is stored, for any
\* sizes of the pages, unless the bucket was cut or has lost the row of the reference.
THEOREM BeginningIsReached == ListSpec => BeginningReached
<1> DEFINE IInv == ListTypeOK /\ Order /\ ListEnds
<1>1. ListInit => IInv
  BY InitTypes, InitOrder, InitEnds
<1>2. IInv /\ [ListNext]_listVars => IInv'
  BY ListTypesStep, OrderStep, EndsStep
<1> DEFINE Reached == \A v \in 1 .. MaxVisits :
                        loads[v].step = "end" /\ loads[v].trims = trims
                        /\ loads[v].ref \in bucket \cup {NoRef} /\ LoadReplies(v) =>
                           \A m \in (db \cap Displayed) \ (bucket \cup OnTheWay) : \E s \in bucket : s < m
<1>3. IInv => Reached
  BY DEF ListEnds, Visible, Held
<1>4. [][Reached]_listVars => BeginningReached
  BY DEF BeginningReached
<1>5. ListSpec => []IInv
  BY <1>1, <1>2, PTL DEF ListSpec
<1> QED
  BY <1>3, <1>4, <1>5, PTL

---------------------------------------------------------------------------
(* The text field of the same screen (ChatField): the text typed last is   *)
(* kept or sent, never both and never neither.                             *)

KeptText == IF mounted THEN text ELSE draft
Active(i) == sends[i].step # "none"

\* Unless the user is hasty, what is kept is the text typed last or nothing, and at most one
\* send is under way: of that text, from the field on display, its sending not confirmed.
Calm ==
    ~hasty =>
        /\ KeptText \in {NoText, typed}
        /\ \A i \in 1 .. MaxSends : Active(i) =>
              /\ sends[i].text = typed /\ KeptText = typed
              /\ mounted => sends[i].visit = visit
              /\ \A j \in 1 .. MaxSends : Active(j) => i = j

\* A text is sent, not the lack of one.
FieldTypes == FieldTypeOK /\ \A i \in 1 .. MaxSends : Active(i) => sends[i].text # NoText

FieldInv == FieldTypes /\ Calm /\ SentXorKept

LEMMA InitField ==
    ASSUME FieldInit
    PROVE  FieldInv
<1>1. FieldTypeOK
  <2>1. 0 \in 0 .. MaxMounts /\ 0 \in 0 .. MaxTexts /\ 0 \in 0 .. MaxFailures /\ 0 \in 0 .. 0
    BY FieldAssumption
  <2>2. sends \in [1 .. MaxSends ->
                      [step : {"none", "asked", "done"}, visit : 0 .. MaxMounts, text : 0 .. typed]]
    BY <2>1 DEF FieldInit, NoSend, NoText
  <2>3. sent \subseteq 1 .. typed
    BY DEF FieldInit
  <2>4. mounted \in BOOLEAN /\ hasty \in BOOLEAN
    BY DEF FieldInit
  <2> QED
    BY <2>1, <2>2, <2>3, <2>4 DEF FieldInit, FieldTypeOK, NoText
<1>2. Calm /\ SentXorKept /\ \A i \in 1 .. MaxSends : ~Active(i)
  BY DEF FieldInit, Calm, SentXorKept, KeptText, Active, NoText, NoSend
<1> QED
  BY <1>1, <1>2 DEF FieldInv, FieldTypes

\* Types: every text is one that was typed.
LEMMA FieldTypesStep ==
    ASSUME FieldTypes, [FieldNext]_fieldVars
    PROVE  FieldTypes'
<1> USE FieldAssumption DEF FieldTypes, Active, FieldTypeOK, NoText, NoSend
<1>1. CASE MountField
  <2>1. hasty' \in BOOLEAN
    BY <1>1 DEF MountField
  <2>2. visit' \in 0 .. MaxMounts
    BY <1>1 DEF MountField
  <2> QED
    BY <1>1, <2>1, <2>2 DEF MountField
<1>2. CASE UnmountField
  <2>1. draft' \in 0 .. typed' /\ text' \in 0 .. typed'
    BY <1>2 DEF UnmountField, DraftOnUnmount
  <2>2. mounted' \in BOOLEAN
    BY <1>2 DEF UnmountField
  <2> QED
    BY <1>2, <2>1, <2>2 DEF UnmountField
<1>3. CASE Type
  <2>1. sends' \in [1 .. MaxSends ->
                      [step : {"none", "asked", "done"}, visit : 0 .. MaxMounts, text : 0 .. typed']]
    BY <1>3 DEF Type
  <2> QED
    BY <1>3, <2>1 DEF Type, Sending
<1>4. CASE SaveDraft
  BY <1>4 DEF SaveDraft
<1>5. ASSUME NEW i \in 1 .. MaxSends, PressSend(i)
      PROVE  FieldTypes'
  BY <1>5 DEF PressSend, Sending
<1>6. ASSUME NEW i \in 1 .. MaxSends, Interact(i)
      PROVE  FieldTypes'
  BY <1>6 DEF Interact
<1>7. ASSUME NEW i \in 1 .. MaxSends, InteractFails(i)
      PROVE  FieldTypes'
  BY <1>7 DEF InteractFails
<1>8. ASSUME NEW i \in 1 .. MaxSends, InteractReplies(i)
      PROVE  FieldTypes'
  <2>1. sends' \in [1 .. MaxSends ->
                      [step : {"none", "asked", "done"}, visit : 0 .. MaxMounts, text : 0 .. typed]]
    BY <1>8 DEF InteractReplies
  <2>2. sends[i].text \in 1 .. typed
    <3>1. sends[i].step = "done"
      BY <1>8 DEF InteractReplies
    <3>2. sends[i].text \in 0 .. typed
      OBVIOUS
    <3>3. sends[i].text # 0
      BY <3>1
    <3> QED
      BY <3>2, <3>3
  <2>3. sent' \subseteq 1 .. typed
    BY <1>8, <2>2 DEF InteractReplies
  <2> QED
    BY <1>8, <2>1, <2>3 DEF InteractReplies, FieldAfter
<1>9. CASE UNCHANGED fieldVars
  BY <1>9 DEF fieldVars
<1> QED
  BY <1>1, <1>2, <1>3, <1>4, <1>5, <1>6, <1>7, <1>8, <1>9 DEF FieldNext, Send

\* One step keeps what is kept and what is sent apart.
LEMMA FieldCalmStep ==
    ASSUME FieldInv, [FieldNext]_fieldVars
    PROVE  Calm' /\ SentXorKept'
<1> USE FieldAssumption DEF FieldInv, FieldTypes, FieldTypeOK, Calm, SentXorKept, KeptText, Active, Sending, NoText, NoSend
<1>1. CASE MountField
  BY <1>1 DEF MountField
<1>2. CASE UnmountField
  BY <1>2 DEF UnmountField, DraftOnUnmount
<1>3. CASE Type
  BY <1>3 DEF Type
<1>4. CASE SaveDraft
  BY <1>4 DEF SaveDraft
<1>5. ASSUME NEW i \in 1 .. MaxSends, PressSend(i)
      PROVE  Calm' /\ SentXorKept'
  BY <1>5 DEF PressSend
<1>6. ASSUME NEW i \in 1 .. MaxSends, Interact(i)
      PROVE  Calm' /\ SentXorKept'
  BY <1>6 DEF Interact
<1>7. ASSUME NEW i \in 1 .. MaxSends, InteractFails(i)
      PROVE  Calm' /\ SentXorKept'
  BY <1>7 DEF InteractFails
<1>8. ASSUME NEW i \in 1 .. MaxSends, InteractReplies(i)
      PROVE  Calm' /\ SentXorKept'
  BY <1>8 DEF InteractReplies, FieldAfter
<1>9. CASE UNCHANGED fieldVars
  BY <1>9 DEF fieldVars
<1> QED
  BY <1>1, <1>2, <1>3, <1>4, <1>5, <1>6, <1>7, <1>8, <1>9 DEF FieldNext, Send

LEMMA FieldInvariance == FieldSpec => []FieldInv
<1>1. FieldInit => FieldInv
  BY InitField
<1>2. FieldInv /\ [FieldNext]_fieldVars => FieldInv'
  BY FieldTypesStep, FieldCalmStep DEF FieldInv
<1> QED
  BY <1>1, <1>2, PTL DEF FieldSpec

\* Types; every text in the field, the draft, a send or what was sent is one that was typed.
THEOREM FieldTyped == FieldSpec => []FieldTypeOK
<1>1. FieldInv => FieldTypeOK
  BY DEF FieldInv, FieldTypes
<1> QED
  BY <1>1, FieldInvariance, PTL

\* The text typed last is in the field or in the draft exactly as long as its sending is not
\* confirmed, whatever the order of saving, leaving, failures and answers.
THEOREM SentOrKept == FieldSpec => []SentXorKept
<1>1. FieldInv => SentXorKept
  BY DEF FieldInv
<1> QED
  BY <1>1, FieldInvariance, PTL

---------------------------------------------------------------------------
(* The settings of the notifications.                                      *)

CallType == [at : Steps, toggle : Toggles, status : Statuses, known : BOOLEAN]

\* Toggles are of conversations that there are; only theirs share.
Types ==
    /\ TypeOK
    /\ post \in Conversations => post \in node.convs
    /\ \A k \in Calls :
          /\ IsAccount(k) \/ calls[k].toggle \in node.convs
          /\ At(k, "share") \/ At(k, "ask") => ~IsAccount(k)

\* What only happens when all conversations were asked for, or the one of the toggle.
All(k) ==
    \/ At(k, "flag") \/ At(k, "broadcast")
    \/ IsAccount(k) /\ calls[k].at \notin {"idle", "mute", "done"}

AskedFor ==
    /\ node.autoShare \/ post = "broadcast" => asked = Conversations
    /\ \A k \in Calls :
          /\ All(k) => asked = Conversations
          /\ ~IsAccount(k) /\ calls[k].at \notin {"idle", "mute", "done"}
                => calls[k].toggle \in asked

\* A conversation about to be unmuted has been shared with.
UnmuteAfterShare ==
    \A k \in Calls : At(k, "unmute") /\ ~IsAccount(k) => calls[k].toggle \in node.shared

IInv == Types /\ AutoShared /\ SharedAsked /\ AskedFor /\ UnmuteAfterShare

---------------------------------------------------------------------------
(* How the calls change.                                                   *)

LEMMA GotoCalls ==
    ASSUME Types, NEW k \in Calls, NEW step \in Steps, Goto(k, step)
    PROVE  /\ calls' \in [Calls -> CallType]
           /\ \A j \in Calls : j # k => calls'[j] = calls[j]
           /\ calls'[k].at = step
           /\ step = "done" => calls'[k].toggle = "account"
           /\ step # "done" => calls'[k].toggle = calls[k].toggle
<1>1. calls \in [Calls -> CallType] /\ Idle \in CallType
  BY DEF Types, TypeOK, CallType, Idle, Steps, Toggles, Statuses, None
<1>2. CASE step = "done"
  <2>1. calls' = [calls EXCEPT ![k] = [Idle EXCEPT !.at = "done"]]
    BY <1>2 DEF Goto
  <2>2. [Idle EXCEPT !.at = "done"] \in CallType /\ [Idle EXCEPT !.at = "done"].at = "done"
        /\ [Idle EXCEPT !.at = "done"].toggle = Idle.toggle
    BY <1>1 DEF CallType, Steps
  <2>3. Idle.toggle = "account"
    BY DEF Idle
  <2> QED
    BY <1>1, <1>2, <2>1, <2>2, <2>3
<1>3. CASE step # "done"
  <2>1. calls' = [calls EXCEPT ![k] = [calls[k] EXCEPT !.at = step]]
    BY <1>3 DEF Goto
  <2> QED
    BY <1>1, <1>3, <2>1 DEF CallType
<1> QED
  BY <1>2, <1>3

LEMMA EndsCalls ==
    ASSUME Types, NEW k \in Calls, NEW step \in Steps, NEW status \in Statuses, Ends(k, step, status)
    PROVE  /\ calls' \in [Calls -> CallType]
           /\ \A j \in Calls : j # k => calls'[j] = calls[j]
           /\ calls'[k].at = step /\ calls'[k].toggle = calls[k].toggle
<1>1. calls \in [Calls -> CallType]
  BY DEF Types, TypeOK, CallType
<1> QED
  BY <1>1 DEF Ends, CallType


\* The call k goes on, for the same toggle and short of anything the node is told.
Onwards(k) ==
    /\ calls' \in [Calls -> CallType]
    /\ \A j \in Calls : j # k => calls'[j] = calls[j]
    /\ calls'[k].toggle = calls[k].toggle
    /\ calls[k].at \in {"get", "permission", "screen", "token", "auth"}
    /\ calls'[k].at \in {"permission", "screen", "stuck", "token", "auth", AfterEnabling(k)}

\* The call k is over.
Over(k) ==
    /\ calls' \in [Calls -> CallType]
    /\ \A j \in Calls : j # k => calls'[j] = calls[j]
    /\ calls'[k].at = "done" /\ calls'[k].toggle = "account"

LEMMA AfterTypes ==
    ASSUME NEW k \in Calls
    PROVE  AfterEnabling(k) \in {"unmute", "share"} /\ AfterEnabling(k) \in Steps
BY DEF AfterEnabling, Steps

LEMMA OnwardsSteps ==
    ASSUME Types, NEW k \in Calls,
           \/ AccountGet(k) \/ CheckPermission(k) \/ Allow(k) \/ Skip(k) \/ Leave(k)
           \/ TokenAnswered(k) \/ Timeout(k) \/ AuthAnswered(k)
    PROVE  Onwards(k) \/ UNCHANGED calls
<1> USE DEF At
<1>0. {"permission", "screen", "stuck", "token", "auth"} \subseteq Steps
      /\ {"perm-denied", "fetch-failed", "enabled-before"} \subseteq Statuses
  BY DEF Steps, Statuses
<1>1. CASE AccountGet(k)
  <2>1. calls \in [Calls -> CallType] /\ "permission" \in Steps /\ node.service \in BOOLEAN
    BY <1>0 DEF Types, TypeOK, CallType
  <2>2. calls' = [calls EXCEPT ![k].at = "permission", ![k].known = node.service]
        /\ calls[k].at = "get"
    BY <1>1 DEF AccountGet
  <2>3. calls' = [calls EXCEPT ![k] = [calls[k] EXCEPT !.at = "permission", !.known = node.service]]
    BY <2>1, <2>2
  <2>4. /\ [calls[k] EXCEPT !.at = "permission", !.known = node.service] \in CallType
        /\ [calls[k] EXCEPT !.at = "permission", !.known = node.service].at = "permission"
        /\ [calls[k] EXCEPT !.at = "permission", !.known = node.service].toggle = calls[k].toggle
    BY <2>1 DEF CallType
  <2> QED
    BY <2>1, <2>2, <2>3, <2>4 DEF Onwards
<1>2. CASE CheckPermission(k)
  BY <1>2, <1>0, GotoCalls DEF CheckPermission, Granted, Onwards
<1>3. CASE Allow(k)
  BY <1>3, <1>0, GotoCalls DEF Allow, Granted, Onwards
<1>4. CASE Skip(k)
  BY <1>4, <1>0, AfterTypes, EndsCalls DEF Skip, Onwards
<1>5. CASE Leave(k)
  BY <1>5, <1>0, GotoCalls DEF Leave, Onwards
<1>6. CASE TokenAnswered(k)
  BY <1>6, <1>0, AfterTypes, GotoCalls, EndsCalls DEF TokenAnswered, Onwards
<1>7. CASE Timeout(k)
  BY <1>7, <1>0, AfterTypes, EndsCalls DEF Timeout, Timed, Onwards
<1>8. CASE AuthAnswered(k)
  BY <1>8, <1>0, AfterTypes, EndsCalls DEF AuthAnswered, Onwards
<1> QED
  BY <1>1, <1>2, <1>3, <1>4, <1>5, <1>6, <1>7, <1>8

---------------------------------------------------------------------------
(* Types.                                                                  *)

NodeType ==
    [token : BOOLEAN, service : BOOLEAN, server : BOOLEAN, autoShare : BOOLEAN,
     muted : BOOLEAN, convMuted : SUBSET Conversations,
     convs : SUBSET Conversations, shared : SUBSET Conversations]

LEMMA InitIInv == Init => IInv
<1> SUFFICES ASSUME Init PROVE IInv
  OBVIOUS
<1> USE DEF Init
<1>1. node \in NodeType /\ view \in [service : BOOLEAN, muted : BOOLEAN, convMuted : SUBSET Conversations]
  BY ConstantsAssumption DEF NodeType, View
<1>2. calls \in [Calls -> CallType] /\ \A k \in Calls : calls[k] = Idle
  BY DEF CallType, Idle, Steps, Toggles, Statuses
<1>3. request \in [Calls -> {None, "sent", "done"}]
      /\ auth \in [Calls -> {"init", "fetch", "complete", "register"} \cup Statuses]
  BY DEF Statuses
<1>4. log \in Seq(AccountEvents) /\ 0 \in 0 .. MaxCalls /\ 0 \in 0 .. MaxFaults
  BY ConstantsAssumption
<1>5. node.shared = {} /\ node.convMuted = {} /\ ~node.autoShare
  OBVIOUS
<1>6. TypeOK
  BY <1>1, <1>2, <1>3, <1>4, <1>5 DEF TypeOK, NodeType, CallType
<1>7. \A k \in Calls : IsAccount(k) /\ ~At(k, "share") /\ ~At(k, "ask") /\ ~At(k, "unmute") /\ ~All(k)
  BY <1>2 DEF IsAccount, At, Idle, All
<1>8. post # "broadcast"
  BY DEF None
<1> QED
  BY <1>5, <1>6, <1>7, <1>8, ConstantsAssumption DEF IInv, Types, None, AutoShared, SharedAsked, AskedFor, UnmuteAfterShare, Ready

\* What a sharing leaves.
LEMMA ShareTypes ==
    ASSUME Types, NEW convs \in SUBSET node.convs,
           \E failed \in SUBSET convs : ShareWith(convs, failed)
    PROVE  /\ node' \in NodeType /\ node'.shared \subseteq node.convs
           /\ node'.convs = node.convs /\ node'.convMuted = node.convMuted
           /\ node'.autoShare = node.autoShare
           /\ node'.token = node.token /\ node'.server = node.server
           /\ node.shared \subseteq node'.shared /\ node'.shared \subseteq node.shared \cup convs
           /\ lost \subseteq lost' /\ lost' \subseteq Conversations
           /\ convs \subseteq node'.shared \cup lost'
           /\ faults' \in 0 .. MaxFaults
<1> PICK failed \in SUBSET convs : ShareWith(convs, failed)
  OBVIOUS
<1>1. node \in NodeType /\ node.shared \subseteq node.convs /\ lost \subseteq Conversations
      /\ convs \subseteq Conversations
  BY DEF Types, TypeOK, NodeType
<1>2. node' = [node EXCEPT !.shared = node.shared \cup (convs \ failed)] /\ lost' = lost \cup failed
  BY DEF ShareWith
<1>3. faults' \in 0 .. MaxFaults
  BY ConstantsAssumption DEF ShareWith, Fault, Types, TypeOK
<1> QED
  BY <1>1, <1>2, <1>3 DEF NodeType

LEMMA BroadcastTypes ==
    ASSUME Types, Broadcast
    PROVE  /\ node' \in NodeType /\ node'.shared \subseteq node.convs
           /\ node'.convs = node.convs /\ node'.convMuted = node.convMuted
           /\ node'.autoShare = node.autoShare
           /\ node'.token = node.token /\ node'.server = node.server
           /\ node.shared \subseteq node'.shared
           /\ lost \subseteq lost' /\ lost' \subseteq Conversations
           /\ Ready => node.convs \subseteq node'.shared \cup lost'
           /\ faults' \in 0 .. MaxFaults
<1>1. CASE Ready
  BY <1>1, ShareTypes DEF Broadcast, Receivers
<1>2. CASE ~Ready
  BY <1>2 DEF Broadcast, Types, TypeOK, NodeType
<1> QED
  BY <1>1, <1>2

\* Types: one conjunct for the calls, one for the rest.
CallsTyped ==
    /\ calls \in [Calls -> CallType]
    /\ \A k \in Calls :
          /\ IsAccount(k) \/ calls[k].toggle \in node.convs
          /\ At(k, "share") \/ At(k, "ask") => ~IsAccount(k)

\* Types of what an authorisation changes, and of what it leaves alone.
FlowTyped ==
    /\ log \in Seq(AccountEvents)
    /\ session \in 0 .. MaxCalls
    /\ request \in [Calls -> {None, "sent", "done"}]
    /\ auth \in [Calls -> {"init", "fetch", "complete", "register"} \cup Statuses]
    /\ faults \in 0 .. MaxFaults

LEMMA Logged ==
    ASSUME Types, NEW e \in AccountEvents, log' \in {log, Append(log, e)}
    PROVE  log' \in Seq(AccountEvents)
<1>1. log \in Seq(AccountEvents)
  BY DEF Types, TypeOK
<1> QED
  BY <1>1

LEMMA FaultTypes ==
    ASSUME Types, Fault \/ UNCHANGED faults
    PROVE  faults' \in 0 .. MaxFaults
<1>1. faults \in 0 .. MaxFaults
  BY DEF Types, TypeOK
<1> QED
  BY <1>1, ConstantsAssumption DEF Fault

LEMMA FlowTypes ==
    ASSUME Types, FlowTyped', UNCHANGED <<node, post, perm, view, calls, asked, lost>>
    PROVE  TypeOK'
BY DEF FlowTyped, Types, TypeOK

LEMMA FlowIs == Types => FlowTyped
BY DEF FlowTyped, Types, TypeOK

LEMMA AuthTypes ==
    ASSUME Types, NEW k \in Calls,
           NEW s \in {"init", "fetch", "complete", "register"} \cup Statuses,
           auth' = [auth EXCEPT ![k] = s]
    PROVE  auth' \in [Calls -> {"init", "fetch", "complete", "register"} \cup Statuses]
BY FlowIs DEF FlowTyped

LEMMA TypesStep ==
    ASSUME Types, [Next]_vars
    PROVE  Types'
<1> USE DEF At
<1>0. node \in NodeType /\ CallsTyped /\ node.convs \subseteq Conversations
  BY DEF Types, TypeOK, NodeType, CallsTyped, CallType
<1>1. ASSUME CallsTyped', TypeOK', post' \in Conversations => post' \in node'.convs PROVE Types'
  BY <1>1 DEF CallsTyped, Types
<1>2. ASSUME node.convs \subseteq node'.convs, UNCHANGED calls PROVE CallsTyped'
  BY <1>0, <1>2 DEF CallsTyped, IsAccount
<1>3. ASSUME NEW k \in Calls, Onwards(k), UNCHANGED node PROVE CallsTyped'
  BY <1>0, <1>3 DEF CallsTyped, IsAccount, Onwards, AfterEnabling
<1>4. ASSUME NEW k \in Calls, Over(k), node'.convs = node.convs PROVE CallsTyped'
  BY <1>0, <1>4 DEF CallsTyped, IsAccount, Over
<1>10. CASE HandleEvent
  <2>1. Head(log) \in AccountEvents /\ Tail(log) \in Seq(AccountEvents)
    BY <1>10 DEF HandleEvent, Types, TypeOK
  <2>2. node' \in NodeType /\ node'.shared = node.shared /\ node'.convMuted = node.convMuted
        /\ node'.convs = node.convs \cup ({Head(log)} \cap Conversations)
    BY <1>10, <2>1, <1>0 DEF HandleEvent, NodeType
  <2>3. post' \in {None, "broadcast"} \cup ({Head(log)} \cap Conversations)
    BY <1>10 DEF HandleEvent, PostAction
  <2>4. CallsTyped'
    BY <1>10, <2>2, <1>2 DEF HandleEvent
  <2>5. TypeOK'
    BY <1>10, <2>1, <2>2, <2>3 DEF HandleEvent, Types, TypeOK, NodeType
  <2> QED
    BY <2>2, <2>3, <2>4, <2>5, <1>1, ConstantsAssumption DEF None
<1>11. CASE PostBroadcast
  <2>1. CallsTyped'
    BY <1>11, BroadcastTypes, <1>2 DEF PostBroadcast
  <2>2. TypeOK'
    BY <1>11, BroadcastTypes DEF PostBroadcast, Types, TypeOK, NodeType
  <2> QED
    BY <1>11, <2>1, <2>2, <1>1, ConstantsAssumption DEF PostBroadcast, None
<1>12. CASE PostJoin
  <2>1. {post} \in SUBSET node.convs
    BY <1>12 DEF PostJoin, Types
  <2>2. /\ node' \in NodeType /\ node'.shared \subseteq node.convs
        /\ node'.convs = node.convs /\ node'.convMuted = node.convMuted
        /\ lost' \subseteq Conversations /\ faults' \in 0 .. MaxFaults
    <3>1. CASE node.autoShare /\ Ready
      BY <1>12, <3>1, <2>1, ShareTypes DEF PostJoin
    <3>2. CASE ~(node.autoShare /\ Ready)
      BY <1>12, <3>2 DEF PostJoin, Types, TypeOK, NodeType
    <3> QED
      BY <3>1, <3>2
  <2>3. CallsTyped'
    BY <1>12, <2>2, <1>2 DEF PostJoin
  <2>4. TypeOK'
    BY <1>12, <2>2 DEF PostJoin, Types, TypeOK, NodeType
  <2> QED
    BY <1>12, <2>3, <2>4, <1>1, ConstantsAssumption DEF PostJoin, None
<1>13. CASE Sync
  <2>1. CallsTyped'
    BY <1>13, <1>2 DEF Sync, nodeVars
  <2>2. TypeOK'
    BY <1>13, <1>0, ConstantsAssumption DEF Sync, View, nodeVars, TypeOK, Types, NodeType
  <2> QED
    BY <1>13, <2>1, <2>2, <1>1 DEF Sync, nodeVars, Types
<1>14. ASSUME NEW c \in Conversations, Join(c) PROVE Types'
  <2>1. CallsTyped'
    BY <1>14, <1>2 DEF Join, nodeVars
  <2>2. TypeOK'
    BY <1>14, <1>0, ConstantsAssumption DEF Join, AccountEvents, nodeVars, TypeOK, Types, NodeType
  <2> QED
    BY <1>14, <2>1, <2>2, <1>1 DEF Join, nodeVars, Types
<1>15. ASSUME NEW k \in Calls, PersistToken(k) PROVE Types'
  <2>1. CallsTyped'
    BY <1>15, <1>2 DEF PersistToken, nodeVars
  <2>2. log' \in Seq(AccountEvents)
    <3>1. "token" \in AccountEvents
      BY DEF AccountEvents
    <3>2. log' \in {log, Append(log, "token")}
      BY <1>15 DEF PersistToken
    <3> QED
      BY <3>1, <3>2, Logged
  <2>4. faults' \in 0 .. MaxFaults
    BY <1>15, FaultTypes DEF PersistToken
  <2>5. FlowTyped'
    BY <1>15, <2>2, <2>4, FlowIs DEF PersistToken, FlowTyped, nodeVars
  <2>6. TypeOK'
    <3>1. UNCHANGED <<node, post, perm, view, calls, asked, lost>>
      BY <1>15 DEF PersistToken, nodeVars
    <3> QED
      BY <2>5, <3>1, FlowTypes
  <2> QED
    BY <1>15, <2>1, <2>6, <1>1 DEF PersistToken, nodeVars, Types
<1>16. ASSUME NEW k \in Calls, InitFlow(k) PROVE Types'
  <2>1. CallsTyped'
    BY <1>16, <1>2 DEF InitFlow, nodeVars
  <2>3. auth' \in [Calls -> {"init", "fetch", "complete", "register"} \cup Statuses]
    <3>1. \E s \in {"fetch"} : auth' = [auth EXCEPT ![k] = s]
      BY <1>16 DEF InitFlow
    <3>2. {"fetch"} \subseteq {"init", "fetch", "complete", "register"} \cup Statuses
      BY DEF Statuses
    <3> QED
      BY <3>1, <3>2, AuthTypes
  <2>5. FlowTyped'
    BY <1>16, <2>3, FlowIs, ConstantsAssumption DEF InitFlow, FlowTyped, Calls, nodeVars
  <2>6. TypeOK'
    <3>1. UNCHANGED <<node, post, perm, view, calls, asked, lost>>
      BY <1>16 DEF InitFlow, nodeVars
    <3> QED
      BY <2>5, <3>1, FlowTypes
  <2> QED
    BY <1>16, <2>1, <2>6, <1>1 DEF InitFlow, nodeVars, Types
<1>17. ASSUME NEW k \in Calls, Fetch(k) PROVE Types'
  <2>1. CallsTyped'
    BY <1>17, <1>2 DEF Fetch, nodeVars
  <2>3. auth' \in [Calls -> {"init", "fetch", "complete", "register"} \cup Statuses]
    <3>1. \E s \in {"complete", "fetch-failed"} : auth' = [auth EXCEPT ![k] = s]
      BY <1>17 DEF Fetch
    <3>2. {"complete", "fetch-failed"} \subseteq {"init", "fetch", "complete", "register"} \cup Statuses
      BY DEF Statuses
    <3> QED
      BY <3>1, <3>2, AuthTypes
  <2>4. faults' \in 0 .. MaxFaults
    BY <1>17, FaultTypes DEF Fetch
  <2>5. FlowTyped'
    BY <1>17, <2>3, <2>4, FlowIs DEF Fetch, FlowTyped, nodeVars
  <2>6. TypeOK'
    <3>1. UNCHANGED <<node, post, perm, view, calls, asked, lost>>
      BY <1>17 DEF Fetch, nodeVars
    <3> QED
      BY <2>5, <3>1, FlowTypes
  <2> QED
    BY <1>17, <2>1, <2>6, <1>1 DEF Fetch, nodeVars, Types
<1>18. ASSUME NEW k \in Calls, CompleteFlow(k) PROVE Types'
  <2>1. CallsTyped'
    BY <1>18, <1>2 DEF CompleteFlow, nodeVars
  <2>2. log' \in Seq(AccountEvents)
    <3>1. "service" \in AccountEvents
      BY DEF AccountEvents
    <3>2. log' \in {log, Append(log, "service")}
      BY <1>18 DEF CompleteFlow
    <3> QED
      BY <3>1, <3>2, Logged
  <2>3. auth' \in [Calls -> {"init", "fetch", "complete", "register"} \cup Statuses]
    <3>1. \E s \in {"register", "go-failed"} : auth' = [auth EXCEPT ![k] = s]
      BY <1>18 DEF CompleteFlow
    <3>2. {"register", "go-failed"} \subseteq {"init", "fetch", "complete", "register"} \cup Statuses
      BY DEF Statuses
    <3> QED
      BY <3>1, <3>2, AuthTypes
  <2>4. faults' \in 0 .. MaxFaults
    BY <1>18, FaultTypes DEF CompleteFlow
  <2>5. FlowTyped'
    BY <1>18, <2>2, <2>3, <2>4, FlowIs DEF CompleteFlow, FlowTyped, nodeVars
  <2>6. TypeOK'
    <3>1. UNCHANGED <<node, post, perm, view, calls, asked, lost>>
      BY <1>18 DEF CompleteFlow, nodeVars
    <3> QED
      BY <2>5, <3>1, FlowTypes
  <2> QED
    BY <1>18, <2>1, <2>6, <1>1 DEF CompleteFlow, nodeVars, Types
<1>19. ASSUME NEW k \in Calls, RegisterServer(k) PROVE Types'
  <2>1. CallsTyped'
    BY <1>19, <1>2 DEF RegisterServer, nodeVars
  <2>2. log' \in Seq(AccountEvents)
    <3>1. "server" \in AccountEvents
      BY DEF AccountEvents
    <3>2. log' \in {log, Append(log, "server")}
      BY <1>19 DEF RegisterServer
    <3> QED
      BY <3>1, <3>2, Logged
  <2>3. auth' \in [Calls -> {"init", "fetch", "complete", "register"} \cup Statuses]
    <3>1. \E s \in {"enabled-just-now"} : auth' = [auth EXCEPT ![k] = s]
      BY <1>19 DEF RegisterServer
    <3>2. {"enabled-just-now"} \subseteq {"init", "fetch", "complete", "register"} \cup Statuses
      BY DEF Statuses
    <3> QED
      BY <3>1, <3>2, AuthTypes
  <2>4. faults' \in 0 .. MaxFaults
    BY <1>19, FaultTypes DEF RegisterServer
  <2>5. FlowTyped'
    BY <1>19, <2>2, <2>3, <2>4, FlowIs DEF RegisterServer, FlowTyped, nodeVars
  <2>6. TypeOK'
    <3>1. UNCHANGED <<node, post, perm, view, calls, asked, lost>>
      BY <1>19 DEF RegisterServer, nodeVars
    <3> QED
      BY <2>5, <3>1, FlowTypes
  <2> QED
    BY <1>19, <2>1, <2>6, <1>1 DEF RegisterServer, nodeVars, Types
<1>20. ASSUME NEW k \in Calls, AccountGet(k) PROVE Types'
  <2>1. Onwards(k) \/ UNCHANGED calls
    BY <1>20, OnwardsSteps
  <2>2. CallsTyped'
    BY <1>20, <2>1, <1>2, <1>3 DEF AccountGet, nodeVars
  <2>3. TypeOK'
    BY <1>20, <2>2 DEF AccountGet, nodeVars, TypeOK, Types, CallsTyped, CallType
  <2> QED
    BY <1>20, <2>2, <2>3, <1>1 DEF AccountGet, nodeVars, Types
<1>21. ASSUME NEW k \in Calls, CheckPermission(k) PROVE Types'
  <2>1. Onwards(k) \/ UNCHANGED calls
    BY <1>21, OnwardsSteps
  <2>2. CallsTyped'
    BY <1>21, <2>1, <1>2, <1>3 DEF CheckPermission, nodeVars
  <2>3. TypeOK'
    BY <1>21, <2>2 DEF CheckPermission, Granted, nodeVars, TypeOK, Types, CallsTyped, CallType
  <2> QED
    BY <1>21, <2>2, <2>3, <1>1 DEF CheckPermission, nodeVars, Types
<1>22. ASSUME NEW k \in Calls, Allow(k) PROVE Types'
  <2>1. Onwards(k) \/ UNCHANGED calls
    BY <1>22, OnwardsSteps
  <2>2. CallsTyped'
    BY <1>22, <2>1, <1>2, <1>3 DEF Allow, nodeVars
  <2>3. TypeOK'
    BY <1>22, <2>2 DEF Allow, Granted, nodeVars, TypeOK, Types, CallsTyped, CallType
  <2> QED
    BY <1>22, <2>2, <2>3, <1>1 DEF Allow, nodeVars, Types
<1>23. ASSUME NEW k \in Calls, Skip(k) PROVE Types'
  <2>1. Onwards(k) \/ UNCHANGED calls
    BY <1>23, OnwardsSteps
  <2>2. CallsTyped'
    BY <1>23, <2>1, <1>2, <1>3 DEF Skip, nodeVars
  <2>3. TypeOK'
    BY <1>23, <2>2 DEF Skip, nodeVars, TypeOK, Types, CallsTyped, CallType
  <2> QED
    BY <1>23, <2>2, <2>3, <1>1 DEF Skip, nodeVars, Types
<1>24. ASSUME NEW k \in Calls, Leave(k) PROVE Types'
  <2>1. Onwards(k) \/ UNCHANGED calls
    BY <1>24, OnwardsSteps
  <2>2. CallsTyped'
    BY <1>24, <2>1, <1>2, <1>3 DEF Leave, nodeVars
  <2>3. TypeOK'
    BY <1>24, <2>2 DEF Leave, nodeVars, TypeOK, Types, CallsTyped, CallType
  <2> QED
    BY <1>24, <2>2, <2>3, <1>1 DEF Leave, nodeVars, Types
<1>25. ASSUME NEW k \in Calls, TokenAnswered(k) PROVE Types'
  <2>1. Onwards(k) \/ UNCHANGED calls
    BY <1>25, OnwardsSteps
  <2>2. CallsTyped'
    BY <1>25, <2>1, <1>2, <1>3 DEF TokenAnswered, nodeVars
  <2>3. TypeOK'
    BY <1>25, <2>2 DEF TokenAnswered, nodeVars, TypeOK, Types, CallsTyped, CallType
  <2> QED
    BY <1>25, <2>2, <2>3, <1>1 DEF TokenAnswered, nodeVars, Types
<1>26. ASSUME NEW k \in Calls, Timeout(k) PROVE Types'
  <2>1. Onwards(k) \/ UNCHANGED calls
    BY <1>26, OnwardsSteps
  <2>2. CallsTyped'
    BY <1>26, <2>1, <1>2, <1>3 DEF Timeout, nodeVars
  <2>3. TypeOK'
    BY <1>26, <2>2 DEF Timeout, nodeVars, TypeOK, Types, CallsTyped, CallType
  <2> QED
    BY <1>26, <2>2, <2>3, <1>1 DEF Timeout, nodeVars, Types
<1>27. ASSUME NEW k \in Calls, AuthAnswered(k) PROVE Types'
  <2>1. Onwards(k) \/ UNCHANGED calls
    BY <1>27, OnwardsSteps
  <2>2. CallsTyped'
    BY <1>27, <2>1, <1>2, <1>3 DEF AuthAnswered, nodeVars
  <2>3. TypeOK'
    BY <1>27, <2>2 DEF AuthAnswered, nodeVars, TypeOK, Types, CallsTyped, CallType
  <2> QED
    BY <1>27, <2>2, <2>3, <1>1 DEF AuthAnswered, nodeVars, Types
<1>28. ASSUME NEW k \in Calls, \E toggle \in Toggles : Press(k, toggle) PROVE Types'
  <2> PICK toggle \in Toggles : Press(k, toggle)
    BY <1>28
  <2>1. calls' \in [Calls -> CallType] /\ \A j \in Calls : j # k => calls'[j] = calls[j]
    BY <1>0 DEF Press, CallsTyped, CallType, Steps
  <2>2. calls'[k].toggle = toggle /\ calls'[k].at \in {"get", "mute"}
    BY <1>0 DEF Press, CallsTyped, CallType
  <2>3. CallsTyped'
    BY <1>0, <2>1, <2>2 DEF Press, nodeVars, CallsTyped, IsAccount
  <2>4. TypeOK'
    BY <2>3 DEF Press, nodeVars, TypeOK, Types, CallsTyped, CallType, Toggles
  <2> QED
    BY <2>3, <2>4, <1>1 DEF Press, nodeVars, Types
<1>29. ASSUME NEW k \in Calls, \E c \in Conversations : PressListed(k, c) PROVE Types'
  <2> PICK c \in Conversations : PressListed(k, c)
    BY <1>29
  <2>1. calls' \in [Calls -> CallType] /\ \A j \in Calls : j # k => calls'[j] = calls[j]
    BY <1>0 DEF PressListed, CallsTyped, CallType, Steps, Toggles
  <2>2. calls'[k].toggle = c /\ calls'[k].at = "share"
    BY <1>0 DEF PressListed, CallsTyped, CallType
  <2>3. CallsTyped'
    BY <1>0, <2>1, <2>2, ConstantsAssumption DEF PressListed, nodeVars, CallsTyped, IsAccount
  <2>4. TypeOK'
    BY <2>3 DEF PressListed, nodeVars, TypeOK, Types, CallsTyped, CallType
  <2> QED
    BY <2>3, <2>4, <1>1 DEF PressListed, nodeVars, Types
<1>30. ASSUME NEW k \in Calls, Mute(k) PROVE Types'
  <2>1. Over(k)
    BY <1>30, GotoCalls DEF Mute, Over, Steps
  <2>2. node' \in NodeType /\ node'.convs = node.convs /\ node'.shared = node.shared
        /\ node'.convMuted \subseteq node.convs
    <3>1. node.convMuted \subseteq node.convs
      BY DEF Types, TypeOK
    <3>2. CASE IsAccount(k)
      BY <1>30, <3>1, <3>2, <1>0 DEF Mute, NodeType
    <3>3. CASE ~IsAccount(k)
      <4>1. node' = [node EXCEPT !.convMuted = node.convMuted \cup {calls[k].toggle}]
            /\ calls[k].toggle \in node.convs
        BY <1>30, <3>3, <1>0 DEF Mute, CallsTyped
      <4> QED
        BY <4>1, <3>1, <1>0 DEF NodeType
    <3> QED
      BY <3>2, <3>3
  <2>3. CallsTyped'
    BY <2>1, <2>2, <1>4
  <2>4. TypeOK'
    BY <1>30, <2>2, <2>3 DEF Mute, TypeOK, Types, NodeType, CallsTyped, CallType
  <2> QED
    BY <1>30, <2>2, <2>3, <2>4, <1>1 DEF Mute, Types
<1>31. ASSUME NEW k \in Calls, Share(k) PROVE Types'
  <2>1. CASE node' = [node EXCEPT !.shared = @ \cup {calls[k].toggle}] /\ Goto(k, "unmute") /\ UNCHANGED faults
    <3>1. node' \in NodeType /\ node'.convs = node.convs /\ node'.convMuted = node.convMuted
          /\ node'.shared \subseteq node.convs
      BY <1>31, <2>1, <1>0 DEF Share, NodeType, CallsTyped, Types, TypeOK
    <3>2. CallsTyped'
      BY <2>1, <3>1, <1>0, GotoCalls DEF CallsTyped, IsAccount, Steps
    <3>3. TypeOK'
      BY <1>31, <2>1, <3>1, <3>2 DEF Share, TypeOK, Types, NodeType, CallsTyped, CallType
    <3> QED
      BY <1>31, <3>1, <3>2, <3>3, <1>1 DEF Share, Types
  <2>2. CASE Goto(k, "done") /\ UNCHANGED node
    <3>1. Over(k)
      BY <2>2, GotoCalls DEF Over, Steps
    <3>2. CallsTyped'
      BY <2>2, <3>1, <1>4
    <3>3. faults' \in 0 .. MaxFaults
      BY <1>31, ConstantsAssumption DEF Share, Types, TypeOK
    <3>4. TypeOK'
      BY <1>31, <2>2, <3>2, <3>3 DEF Share, TypeOK, Types, CallsTyped, CallType
    <3> QED
      BY <1>31, <2>2, <3>2, <3>4, <1>1 DEF Share, Types
  <2> QED
    BY <1>31, <2>1, <2>2 DEF Share, AfterError
<1>32. ASSUME NEW k \in Calls, Unmute(k) PROVE Types'
  <2>1. node' \in NodeType /\ node'.convs = node.convs /\ node'.shared = node.shared
        /\ node'.convMuted \subseteq node.convMuted
    BY <1>32, <1>0 DEF Unmute, NodeType
  <2>2. \E step \in {"done", "flag", "ask"} : Goto(k, step) /\ (step = "ask" => ~IsAccount(k))
    BY <1>32 DEF Unmute
  <2>3. CallsTyped'
    BY <2>1, <2>2, <1>0, GotoCalls DEF CallsTyped, IsAccount, Steps
  <2>4. TypeOK'
    BY <1>32, <2>1, <2>3 DEF Unmute, TypeOK, Types, NodeType, CallsTyped, CallType
  <2> QED
    BY <1>32, <2>1, <2>3, <2>4, <1>1 DEF Unmute, Types
<1>33. ASSUME NEW k \in Calls, Ask(k) PROVE Types'
  <2>1. \E step \in {"done", "flag"} : Goto(k, step)
    BY <1>33 DEF Ask, AfterAnswer
  <2>2. CallsTyped'
    BY <1>33, <2>1, <1>0, GotoCalls DEF Ask, nodeVars, CallsTyped, IsAccount, Steps
  <2>3. TypeOK'
    BY <1>33, <2>2 DEF Ask, nodeVars, TypeOK, Types, CallsTyped, CallType
  <2> QED
    BY <1>33, <2>2, <2>3, <1>1 DEF Ask, nodeVars, Types
<1>34. ASSUME NEW k \in Calls, SetAutoShare(k) PROVE Types'
  <2>1. node' \in NodeType /\ node'.convs = node.convs /\ node'.shared = node.shared
        /\ node'.convMuted = node.convMuted
    BY <1>34, <1>0 DEF SetAutoShare, NodeType
  <2>2. CallsTyped'
    BY <1>34, <2>1, <1>0, GotoCalls DEF SetAutoShare, CallsTyped, IsAccount, Steps
  <2>3. TypeOK'
    BY <1>34, <2>1, <2>2 DEF SetAutoShare, TypeOK, Types, NodeType, CallsTyped, CallType
  <2> QED
    BY <1>34, <2>1, <2>2, <2>3, <1>1 DEF SetAutoShare, Types
<1>35. ASSUME NEW k \in Calls, BroadcastToken(k) PROVE Types'
  <2>1. Over(k)
    BY <1>35, GotoCalls DEF BroadcastToken, Over, Steps
  <2>2. CallsTyped'
    BY <1>35, <2>1, BroadcastTypes, <1>4 DEF BroadcastToken
  <2>3. TypeOK'
    BY <1>35, <2>2, BroadcastTypes DEF BroadcastToken, TypeOK, Types, NodeType, CallsTyped, CallType
  <2> QED
    BY <1>35, <2>2, <2>3, BroadcastTypes, <1>1 DEF BroadcastToken, Types
<1>36. CASE UNCHANGED vars
  <2>1. CallsTyped'
    BY <1>36, <1>2 DEF vars, nodeVars
  <2> QED
    BY <1>36, <2>1, <1>1 DEF vars, nodeVars, Types, TypeOK
<1> QED
  BY <1>10, <1>11, <1>12, <1>13, <1>14, <1>15, <1>16, <1>17, <1>18, <1>19, <1>20, <1>21, <1>22, <1>23, <1>24, <1>25, <1>26, <1>27, <1>28, <1>29, <1>30, <1>31, <1>32, <1>33, <1>34, <1>35, <1>36 DEF Next, Messenger, Proceed, Answer, User

---------------------------------------------------------------------------
(* What is shared.                                                         *)

Rest == AutoShared /\ SharedAsked /\ AskedFor /\ UnmuteAfterShare

LEMMA QuietStep ==
    ASSUME IInv, UNCHANGED <<node, post, lost, asked>>,
           UNCHANGED calls \/ \E k \in Calls : Onwards(k)
    PROVE  Rest'
<1> USE DEF IInv, Rest, At, Ready
<1>1. CASE UNCHANGED calls
  BY <1>1 DEF AutoShared, SharedAsked, AskedFor, UnmuteAfterShare, All, IsAccount
<1>2. ASSUME NEW k \in Calls, Onwards(k) PROVE Rest'
  <2>1. AutoShared' /\ SharedAsked'
    BY <1>2 DEF AutoShared, SharedAsked, Onwards
  <2>2. AskedFor'
    BY <1>2 DEF AskedFor, Onwards, All, IsAccount, AfterEnabling
  <2>3. UnmuteAfterShare'
    BY <1>2 DEF UnmuteAfterShare, Onwards, IsAccount, AfterEnabling
  <2> QED
    BY <2>1, <2>2, <2>3
<1> QED
  BY <1>1, <1>2

\* A press counts as asking, before anything is shared.
LEMMA PressedStep ==
    ASSUME IInv, NEW k \in Calls,
           \/ \E toggle \in Toggles : Press(k, toggle)
           \/ \E c \in Conversations : PressListed(k, c)
    PROVE  Rest'
<1> USE DEF IInv, Rest, At, Ready, Types, TypeOK
<1>1. ASSUME NEW toggle \in Toggles, Press(k, toggle) PROVE Rest'
  <2>1. /\ \A j \in Calls : j # k => calls'[j] = calls[j]
        /\ calls'[k].toggle = toggle
        /\ calls'[k].at = IF Off(toggle) THEN "get" ELSE "mute"
        /\ calls[k].at = "idle" /\ UNCHANGED <<node, post, lost>>
    BY <1>1 DEF Press, nodeVars
  <2>2. AutoShared'
    BY <2>1 DEF AutoShared
  <2>3. /\ asked \subseteq asked' /\ asked' \subseteq Conversations
        /\ Off(toggle) /\ toggle = "account" => asked' = Conversations
        /\ Off(toggle) /\ toggle # "account" => toggle \in asked'
    BY <1>1 DEF Press, Toggles
  <2>4. SharedAsked'
    BY <2>1, <2>3 DEF SharedAsked
  <2>5. AskedFor'
    <3>1. node'.autoShare \/ post' = "broadcast" => asked' = Conversations
      BY <2>1, <2>3 DEF AskedFor
    <3>2. ASSUME NEW j \in Calls, j # k
          PROVE  /\ All(j)' => asked' = Conversations
                 /\ ~IsAccount(j)' /\ calls'[j].at \notin {"idle", "mute", "done"}
                       => calls'[j].toggle \in asked'
      BY <2>1, <2>3, <3>2 DEF AskedFor, All, IsAccount
    <3>3. CASE Off(toggle)
      BY <2>1, <2>3, <3>1, <3>2, <3>3 DEF AskedFor, All, IsAccount
    <3>4. CASE ~Off(toggle)
      BY <2>1, <2>3, <3>1, <3>2, <3>4 DEF AskedFor, All, IsAccount
    <3> QED
      BY <3>3, <3>4
  <2>6. UnmuteAfterShare'
    BY <2>1 DEF UnmuteAfterShare, IsAccount
  <2> QED
    BY <2>2, <2>4, <2>5, <2>6
<1>2. ASSUME NEW c \in Conversations, PressListed(k, c) PROVE Rest'
  <2>1. /\ \A j \in Calls : j # k => calls'[j] = calls[j]
        /\ calls'[k].toggle = c /\ calls'[k].at = "share"
        /\ calls[k].at = "idle" /\ UNCHANGED <<node, post, lost>>
        /\ asked' = asked \cup {c} /\ c # "account"
    <3>1. c # "account"
      BY ConstantsAssumption
    <3>2. calls' = [calls EXCEPT ![k].toggle = c, ![k].at = "share"] /\ calls[k].at = "idle"
          /\ UNCHANGED <<node, post, lost>> /\ asked' = asked \cup {c}
      BY <1>2 DEF PressListed, nodeVars
    <3> QED
      BY <3>1, <3>2
  <2>2. AutoShared'
    BY <2>1 DEF AutoShared
  <2>3. SharedAsked' /\ AskedFor'
    BY <2>1 DEF SharedAsked, AskedFor, All, IsAccount
  <2>4. UnmuteAfterShare'
    BY <2>1 DEF UnmuteAfterShare, IsAccount
  <2> QED
    BY <2>2, <2>3, <2>4
<1> QED
  BY <1>1, <1>2

\* The node shares with what it has joined, once all were asked for.
LEMMA NodeStep ==
    ASSUME IInv, HandleEvent \/ PostBroadcast \/ PostJoin
    PROVE  Rest'
<1> USE DEF IInv, Rest, At, Ready
<1>1. CASE HandleEvent
  <2>1. /\ node'.token = (node.token \/ Head(log) = "token")
        /\ node'.server = (node.server \/ Head(log) = "server")
        /\ node'.convs = node.convs \cup ({Head(log)} \cap Conversations)
        /\ node'.autoShare = node.autoShare /\ node'.shared = node.shared
        /\ post = None /\ post' = PostAction(Head(log))
        /\ UNCHANGED <<calls, asked, lost>>
    BY <1>1 DEF HandleEvent, Types, TypeOK
  <2>2. AutoShared'
    <3> SUFFICES ASSUME node'.autoShare, Ready', NEW c \in node'.convs, c \notin node.shared \cup lost,
                        \A k \in Calls : ~At(k, "broadcast")
                 PROVE  post' \in {"broadcast", c}
      BY <2>1 DEF AutoShared
    <3>1. CASE Head(log) \in {"token", "server"}
      BY <2>1, <3>1, ConstantsAssumption DEF PostAction
    <3>2. CASE Head(log) \notin {"token", "server"}
      <4>1. c \notin node.convs
        BY <2>1, <3>2, ConstantsAssumption DEF AutoShared, None, Types, TypeOK
      <4> QED
        BY <2>1, <3>2, <4>1 DEF PostAction
    <3> QED
      BY <3>1, <3>2
  <2>3. post' = "broadcast" => node.autoShare
    BY <2>1, ConstantsAssumption DEF PostAction, None
  <2>4. SharedAsked' /\ AskedFor' /\ UnmuteAfterShare'
    BY <2>1, <2>3 DEF SharedAsked, AskedFor, UnmuteAfterShare, All, IsAccount
  <2> QED
    BY <2>2, <2>4
<1>2. CASE PostBroadcast
  <2>1. AutoShared'
    BY <1>2, BroadcastTypes DEF PostBroadcast, AutoShared
  <2>2. SharedAsked'
    BY <1>2, BroadcastTypes DEF PostBroadcast, SharedAsked, AskedFor, Types, TypeOK, NodeType
  <2>3. AskedFor' /\ UnmuteAfterShare'
    BY <1>2, BroadcastTypes DEF PostBroadcast, AskedFor, UnmuteAfterShare, All, IsAccount, None
  <2> QED
    BY <2>1, <2>2, <2>3
<1>3. CASE PostJoin
  <2>1. post \in node.convs /\ post # "broadcast"
    BY <1>3, ConstantsAssumption DEF PostJoin, Types
  <2>2. CASE node.autoShare /\ Ready
    <3>1. \E failed \in SUBSET {post} : ShareWith({post}, failed)
      BY <1>3, <2>2 DEF PostJoin
    <3>2. AutoShared'
      <4>1. /\ node'.convs = node.convs /\ node.shared \subseteq node'.shared
            /\ lost \subseteq lost' /\ post \in node'.shared \cup lost'
        BY <2>1, <3>1, ShareTypes
      <4>2. UNCHANGED calls
        BY <1>3 DEF PostJoin
      <4>3. ASSUME NEW c \in node.convs, c # post
            PROVE  c \in node.shared \cup lost \/ \E j \in Calls : calls[j].at = "broadcast"
        BY <2>1, <2>2, <4>3 DEF AutoShared
      <4> QED
        BY <4>1, <4>2, <4>3 DEF AutoShared
    <3>3. SharedAsked' /\ AskedFor' /\ UnmuteAfterShare'
      BY <1>3, <2>1, <2>2, <3>1, ShareTypes
      DEF PostJoin, SharedAsked, AskedFor, UnmuteAfterShare, All, IsAccount, Types, TypeOK, None
    <3> QED
      BY <3>2, <3>3
  <2>3. CASE ~(node.autoShare /\ Ready)
    BY <1>3, <2>3 DEF PostJoin, AutoShared, SharedAsked, AskedFor, UnmuteAfterShare, All, IsAccount, None
  <2> QED
    BY <2>2, <2>3
<1> QED
  BY <1>1, <1>2, <1>3

\* The calls that change the node.
LEMMA ToldStep ==
    ASSUME IInv, NEW k \in Calls,
           Mute(k) \/ Share(k) \/ Unmute(k) \/ Ask(k) \/ SetAutoShare(k) \/ BroadcastToken(k)
    PROVE  Rest'
<1> USE DEF IInv, Rest, At, Ready
<1>0. Types /\ node \in NodeType /\ {"done", "unmute", "flag", "ask", "broadcast"} \subseteq Steps
  BY DEF Types, TypeOK, NodeType, Steps
<1>1. CASE Mute(k)
  <2>1. Over(k)
    BY <1>1, <1>0, GotoCalls DEF Mute, Over
  <2>2. /\ node'.shared = node.shared /\ node'.convs = node.convs
        /\ node'.token = node.token /\ node'.server = node.server /\ node'.autoShare = node.autoShare
    BY <1>1, <1>0 DEF Mute, NodeType
  <2>3. AutoShared'
    BY <1>1, <2>1, <2>2 DEF Mute, Over, AutoShared
  <2> QED
    BY <1>1, <2>1, <2>2, <2>3 DEF Mute, Over, SharedAsked, AskedFor, UnmuteAfterShare, All, IsAccount
<1>2. CASE Share(k)
  <2>1. CASE node' = [node EXCEPT !.shared = @ \cup {calls[k].toggle}] /\ Goto(k, "unmute")
    <3>1. /\ node'.shared = node.shared \cup {calls[k].toggle} /\ node'.convs = node.convs
          /\ node'.token = node.token /\ node'.server = node.server /\ node'.autoShare = node.autoShare
      BY <2>1, <1>0 DEF NodeType
    <3>2. /\ \A j \in Calls : j # k => calls'[j] = calls[j]
          /\ calls'[k].at = "unmute" /\ calls'[k].toggle = calls[k].toggle
      BY <2>1, <1>0, GotoCalls
    <3>3. calls[k].at = "share" /\ ~IsAccount(k) /\ UNCHANGED <<post, asked, lost>>
      BY <1>2 DEF Share, Types
    <3>4. AutoShared'
      BY <3>1, <3>2, <3>3 DEF AutoShared
    <3>5. SharedAsked' /\ AskedFor'
      BY <3>1, <3>2, <3>3 DEF SharedAsked, AskedFor, All, IsAccount
    <3>6. UnmuteAfterShare'
      BY <3>1, <3>2 DEF UnmuteAfterShare, IsAccount
    <3> QED
      BY <3>4, <3>5, <3>6
  <2>2. CASE Goto(k, "done") /\ UNCHANGED node
    <3>1. Over(k)
      BY <2>2, <1>0, GotoCalls DEF Over
    <3>2. AutoShared'
      BY <1>2, <2>2, <3>1 DEF Share, Over, AutoShared
    <3> QED
      BY <1>2, <2>2, <3>1, <3>2 DEF Share, Over, SharedAsked, AskedFor, UnmuteAfterShare, All, IsAccount
  <2> QED
    BY <1>2, <2>1, <2>2 DEF Share, AfterError
<1>3. CASE Unmute(k)
  <2>1. /\ node'.shared = node.shared /\ node'.convs = node.convs
        /\ node'.token = node.token /\ node'.server = node.server /\ node'.autoShare = node.autoShare
    BY <1>3, <1>0 DEF Unmute, NodeType
  <2>2. PICK step \in {"done", "flag", "ask"} : Goto(k, step) /\ (step = "flag" => IsAccount(k))
    BY <1>3 DEF Unmute
  <2>3. /\ \A j \in Calls : j # k => calls'[j] = calls[j]
        /\ calls'[k].at = step
        /\ calls'[k].toggle = IF step = "done" THEN "account" ELSE calls[k].toggle
    BY <2>2, <1>0, GotoCalls
  <2>4. calls[k].at = "unmute" /\ UNCHANGED <<post, asked, lost>>
    BY <1>3 DEF Unmute
  <2>5. AutoShared'
    BY <2>1, <2>3, <2>4 DEF AutoShared
  <2>6. SharedAsked' /\ AskedFor'
    BY <2>1, <2>2, <2>3, <2>4 DEF SharedAsked, AskedFor, All, IsAccount
  <2>7. UnmuteAfterShare'
    BY <2>1, <2>3 DEF UnmuteAfterShare, IsAccount
  <2> QED
    BY <2>5, <2>6, <2>7
<1>4. CASE Ask(k)
  <2>1. PICK yes \in BOOLEAN : asked' = (IF yes THEN Conversations ELSE asked) /\ Goto(k, AfterAnswer(yes))
    BY <1>4 DEF Ask
  <2>2. /\ \A j \in Calls : j # k => calls'[j] = calls[j]
        /\ calls'[k].at = AfterAnswer(yes)
        /\ ~yes => calls'[k].toggle = "account"
        /\ yes => calls'[k].toggle = calls[k].toggle
    BY <2>1, <1>0, GotoCalls DEF AfterAnswer
  <2>3. calls[k].at = "ask" /\ ~IsAccount(k) /\ UNCHANGED <<node, post, lost>>
    BY <1>4 DEF Ask, nodeVars, Types
  <2>4. AutoShared'
    BY <2>2, <2>3 DEF AutoShared
  <2>5. asked \subseteq asked' /\ asked' \subseteq Conversations
    BY <2>1 DEF Types, TypeOK
  <2>6. SharedAsked' /\ AskedFor'
    BY <2>1, <2>2, <2>3, <2>5 DEF SharedAsked, AskedFor, All, IsAccount, AfterAnswer
  <2>7. UnmuteAfterShare'
    BY <2>2, <2>3 DEF UnmuteAfterShare, IsAccount, AfterAnswer
  <2> QED
    BY <2>4, <2>6, <2>7
<1>5. CASE SetAutoShare(k)
  <2>1. /\ node'.shared = node.shared /\ node'.convs = node.convs
        /\ node'.token = node.token /\ node'.server = node.server
    BY <1>5, <1>0 DEF SetAutoShare, NodeType
  <2>2. /\ \A j \in Calls : j # k => calls'[j] = calls[j]
        /\ calls'[k].at = "broadcast" /\ calls'[k].toggle = calls[k].toggle
    BY <1>5, <1>0, GotoCalls DEF SetAutoShare
  <2>3. AutoShared'
    BY <2>2 DEF AutoShared
  <2>4. asked = Conversations /\ UNCHANGED asked /\ post' = post
    BY <1>5 DEF SetAutoShare, AskedFor, All
  <2>5. SharedAsked' /\ AskedFor'
    BY <1>5, <2>1, <2>2, <2>4 DEF SetAutoShare, SharedAsked, AskedFor, All, IsAccount
  <2>6. UnmuteAfterShare'
    BY <2>1, <2>2 DEF UnmuteAfterShare, IsAccount
  <2> QED
    BY <2>3, <2>5, <2>6
<1>6. CASE BroadcastToken(k)
  <2>1. Over(k)
    BY <1>6, <1>0, GotoCalls DEF BroadcastToken, Over
  <2>2. asked = Conversations /\ UNCHANGED <<post, asked>>
    BY <1>6 DEF BroadcastToken, AskedFor, All
  <2>3. AutoShared'
    BY <1>6, BroadcastTypes DEF BroadcastToken, AutoShared
  <2>4. SharedAsked'
    BY <1>6, <2>2, BroadcastTypes DEF BroadcastToken, SharedAsked, NodeType
  <2>5. AskedFor'
    BY <2>1, <2>2 DEF Over, AskedFor, All, IsAccount
  <2>6. UnmuteAfterShare'
    BY <1>6, <2>1, BroadcastTypes DEF BroadcastToken, Over, UnmuteAfterShare, IsAccount
  <2> QED
    BY <2>3, <2>4, <2>5, <2>6
<1> QED
  BY <1>1, <1>2, <1>3, <1>4, <1>5, <1>6

LEMMA NextIInv == IInv /\ [Next]_vars => IInv'
<1> SUFFICES ASSUME IInv, [Next]_vars PROVE IInv'
  OBVIOUS
<1>1. Types'
  BY TypesStep DEF IInv
<1>2. ASSUME NEW k \in Calls, Proceed(k) PROVE Rest'
  <2>1. CASE Mute(k) \/ Share(k) \/ Unmute(k) \/ Ask(k) \/ SetAutoShare(k) \/ BroadcastToken(k)
    BY <2>1, ToldStep
  <2>2. CASE AccountGet(k) \/ CheckPermission(k) \/ TokenAnswered(k) \/ Timeout(k) \/ AuthAnswered(k)
    BY <2>2, OnwardsSteps, QuietStep
    DEF IInv, AccountGet, CheckPermission, TokenAnswered, Timeout, AuthAnswered, nodeVars
  <2> QED
    BY <1>2, <2>1, <2>2 DEF Proceed
<1>3. ASSUME NEW k \in Calls, Answer(k) PROVE Rest'
  BY <1>3, QuietStep DEF Answer, PersistToken, InitFlow, Fetch, CompleteFlow, RegisterServer, nodeVars
<1>4. ASSUME NEW k \in Calls, User(k) PROVE Rest'
  <2>1. CASE Allow(k) \/ Skip(k) \/ Leave(k)
    BY <2>1, OnwardsSteps, QuietStep DEF IInv, Allow, Skip, Leave, nodeVars
  <2> QED
    BY <1>4, <2>1, PressedStep DEF User
<1>5. ASSUME Messenger PROVE Rest'
  <2>1. ASSUME Sync PROVE Rest'
    BY <2>1, QuietStep DEF Sync, nodeVars
  <2> QED
    BY <1>5, <2>1, NodeStep DEF Messenger
<1>6. ASSUME NEW c \in Conversations, Join(c) PROVE Rest'
  BY <1>6, QuietStep DEF Join
<1>7. ASSUME UNCHANGED vars PROVE Rest'
  BY <1>7, QuietStep DEF vars, nodeVars
<1>8. Rest'
  BY <1>2, <1>3, <1>4, <1>5, <1>6, <1>7 DEF Next
<1> QED
  BY <1>1, <1>8 DEF IInv, Rest

LEMMA Invariance == Spec => []IInv
BY InitIInv, NextIInv, PTL DEF Spec

---------------------------------------------------------------------------
\* Types; the token is shared, and mutes are, with and of conversations that there are.
THEOREM Typed == Spec => []TypeOK
<1>1. IInv => TypeOK
  BY DEF IInv, Types
<1> QED
  BY <1>1, Invariance, PTL

\* Once sharing is automatic, the token has been shared with every conversation or is about
\* to be, whatever the order of flag, token, server, conversations and late answers.
THEOREM SharedWithAll == Spec => []AutoShared
<1>1. IInv => AutoShared
  BY DEF IInv
<1> QED
  BY <1>1, Invariance, PTL

\* The token is shared with no conversation the user did not ask to be notified of.
THEOREM SharedOnlyAsked == Spec => []SharedAsked
<1>1. IInv => SharedAsked
  BY DEF IInv
<1> QED
  BY <1>1, Invariance, PTL

\* No step unmutes a conversation the token is not shared with.
THEOREM UnmutedOnlyShared == Spec => UnmutedShared
<1>1. IInv /\ [Next]_vars => [node.convMuted \ node'.convMuted \subseteq node.shared]_vars
  <2> SUFFICES ASSUME IInv, Next PROVE node.convMuted \ node'.convMuted \subseteq node.shared
    OBVIOUS
  <2> USE DEF IInv
  <2>0. node \in NodeType
    BY DEF Types, TypeOK, NodeType
  <2>1. ASSUME NEW k \in Calls, Unmute(k) PROVE node.convMuted \ node'.convMuted \subseteq node.shared
    BY <2>0, <2>1 DEF Unmute, UnmuteAfterShare, NodeType
  <2>2. ASSUME NEW k \in Calls, Mute(k) PROVE node.convMuted \subseteq node'.convMuted
    BY <2>0, <2>2 DEF Mute, NodeType
  <2>3. ASSUME NEW k \in Calls, Share(k) \/ SetAutoShare(k) PROVE node'.convMuted = node.convMuted
    BY <2>0, <2>3 DEF Share, SetAutoShare, NodeType
  <2>4. ASSUME Broadcast PROVE node'.convMuted = node.convMuted
    BY <2>4, BroadcastTypes
  <2>5. ASSUME HandleEvent PROVE node'.convMuted = node.convMuted
    BY <2>0, <2>5 DEF HandleEvent, NodeType
  <2>6. ASSUME PostJoin PROVE node'.convMuted = node.convMuted
    <3>1. {post} \in SUBSET node.convs
      BY <2>6 DEF PostJoin, Types
    <3> QED
      BY <2>6, <3>1, ShareTypes DEF PostJoin
  <2>7. ASSUME NEW k \in Calls,
               \/ Answer(k) \/ User(k) \/ AccountGet(k) \/ CheckPermission(k) \/ TokenAnswered(k)
               \/ Timeout(k) \/ AuthAnswered(k) \/ Ask(k)
        PROVE  node' = node
    BY <2>7
    DEF Answer, User, PersistToken, InitFlow, Fetch, CompleteFlow, RegisterServer, Press, PressListed,
        Allow, Skip, Leave, AccountGet, CheckPermission, TokenAnswered, Timeout, AuthAnswered, Ask, nodeVars
  <2> QED
    BY <2>1, <2>2, <2>3, <2>4, <2>5, <2>6, <2>7
    DEF Next, Messenger, PostBroadcast, Sync, Join, Proceed, BroadcastToken, nodeVars
<1> QED
  BY <1>1, Invariance, PTL DEF Spec, UnmutedShared
=============================================================================
