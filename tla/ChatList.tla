------------------------------ MODULE ChatList ------------------------------
(***************************************************************************)
(* The list of messages of one conversation in the mobile application:     *)
(* MessageList.tsx, the bucket of interactions it shows in the redux store *)
(* (messenger.reducer.ts), and what the messenger does for them:           *)
(* ConversationLoad, and the events it streams.                            *)
(*                                                                         *)
(* A message is its place in the order of the list (sent_date, then cid).  *)
(* Answers of calls and events travel apart: an answer may come before or  *)
(* after the event its call has caused. What happens between the commit of *)
(* a message and its event is the subject of ConversationEvents; here both *)
(* are one step, but the reading of a page and its event are not.          *)
(*                                                                         *)
(* fetchingFrom has no effect in the code: an effect resets it at the      *)
(* render that follows its setting. It is left out.                        *)
(***************************************************************************)
EXTENDS Naturals, Sequences, FiniteSets

CONSTANTS
    Stored,      \* messages in the database when the application starts
    Arriving,    \* messages of the others that arrive later
    Mine,        \* messages of this user, sent later
    Displayed,   \* user messages and group invitations
    Acks,        \* acknowledgements that wait for their message
    Shallow,     \* messages per conversation that the event stream lists
    Amount,      \* messages per ConversationLoad
    Kept,        \* messages that stay when the conversation is closed
    MaxVisits, MaxUpdates, MaxLoadFaults, MaxWire   \* bounds

Messages == Stored \cup Arriving \cup Mine

ASSUME MessagesAssumption ==
    /\ Messages \subseteq Nat \ {0} /\ IsFiniteSet(Messages)
    /\ Displayed \subseteq Messages /\ Mine \subseteq Displayed
    /\ Acks \subseteq Stored \ Displayed
    /\ Mine \cap (Stored \cup Arriving) = {} /\ Arriving \cap Stored = {}

ASSUME BoundsAssumption ==
    /\ {Shallow, Amount, Kept} \subseteq Nat \ {0}
    /\ {MaxVisits, MaxUpdates, MaxLoadFaults, MaxWire} \subseteq Nat

VARIABLES
    db,        \* the interactions of the conversation in the database
    wire,      \* events on their way to the store, in order
    loads,     \* per visit of the screen, its call of ConversationLoad
    bucket,    \* interactions of the conversation in the store
    screen,    \* the screen: which visit, and the state of the list
    replies,   \* messages of this user: their call of Publish is not answered yet
    updates, loadFaults,   \* for the bounds
    trims,     \* history: times the bucket was cut down
    torn       \* history: an old message or an outdated page was put into the list

listVars == <<db, wire, loads, bucket, screen, replies, updates, loadFaults, trims, torn>>

NoRef == 0
NoLoad == [step |-> "none", ref |-> NoRef, page |-> {}, trims |-> 0]

\* The n newest messages of S.
Newest(S, n) == {m \in S : Cardinality({k \in S : k > m}) < n}

\* The last message of the list. (Mutant: the first one.)
OldestBug(S) == IF S = {} THEN NoRef ELSE CHOOSE m \in S : \A k \in S : k <= m
Oldest(S) == IF S = {} THEN NoRef ELSE CHOOSE m \in S : \A k \in S : m <= k

ListInit ==
    /\ db = Stored
    /\ wire = <<>> /\ loads = [v \in 1 .. MaxVisits |-> NoLoad]
    /\ bucket = Newest(Stored, Shallow)
    /\ screen = [mounted |-> FALSE, visit |-> 0, loading |-> FALSE, fetchedFirst |-> FALSE]
    /\ replies = {} /\ updates = 0 /\ loadFaults = 0 /\ trims = 0 /\ torn = FALSE

---------------------------------------------------------------------------
(* The messenger: rows and events.                                         *)

CanStream == Len(wire) < MaxWire

\* InteractionUpdated of a stored row. History: late when a newer one is stored.
Updated(m) == [type |-> "updated", cids |-> {m}, late |-> \E k \in db : k > m]

\* A message of the log becomes a row and is streamed.
Store(m) ==
    /\ CanStream
    /\ m \in (Arriving \cup replies \cup (bucket \cap Mine)) \ db
    /\ db' = db \cup {m}
    /\ wire' = Append(wire, Updated(m))
    /\ UNCHANGED <<loads, bucket, screen, replies, updates, loadFaults, trims, torn>>

\* A row changes: it is acknowledged, or has a reaction.
Touch(m) ==
    /\ CanStream /\ m \in db /\ updates < MaxUpdates
    /\ updates' = updates + 1
    /\ wire' = Append(wire, Updated(m))
    /\ UNCHANGED <<db, loads, bucket, screen, replies, loadFaults, trims, torn>>

\* An acknowledgement or a name leaves the backlog.
Delete(m) ==
    /\ CanStream /\ m \in (db \cap Stored) \ Displayed
    /\ db' = db \ {m}
    /\ wire' = Append(wire, [type |-> "deleted", cids |-> {m}])
    /\ UNCHANGED <<loads, bucket, screen, replies, updates, loadFaults, trims, torn>>

\* The conversation is opened or closed (useReadEffect), or its row is streamed for
\* another reason: either value may come at any time, since calls to open and to close
\* overtake one another (ConversationEvents).
ConversationUpdated(open) ==
    /\ CanStream /\ updates < MaxUpdates
    /\ updates' = updates + 1
    /\ wire' = Append(wire, [type |-> "conversation", open |-> open])
    /\ UNCHANGED <<db, loads, bucket, screen, replies, loadFaults, trims, torn>>

---------------------------------------------------------------------------
(* ConversationLoad.                                                       *)

\* The rows before the reference. (Mutant: the oldest ones.)
PageBug(ref) ==
    LET before == {m \in db : ref = NoRef \/ m < ref}
    IN  {m \in before : Cardinality({k \in before : k < m}) < Amount}
Page(ref) == Newest({m \in db : ref = NoRef \/ m < ref}, Amount)

\* (Mutants: a short page; never.)
NoneLeftBug(page) == Cardinality(page) < Amount
NoneLeftNever(page) == FALSE
NoneLeft(page) == page = {}

\* GetPaginatedInteractions: fails without the row of the reference.
ReadPage(v) ==
    /\ loads[v].step = "asked"
    /\ LET ref == loads[v].ref IN
       loads' = [loads EXCEPT ![v].page = IF ref \in db \cup {NoRef} THEN Page(ref) ELSE {},
                              ![v].step = IF ref \notin db \cup {NoRef} THEN "failed"
                                          ELSE IF NoneLeft(Page(ref)) THEN "end" ELSE "read"]
    /\ UNCHANGED <<db, wire, bucket, screen, replies, updates, loadFaults, trims, torn>>

DispatchPage(v) ==
    /\ CanStream /\ loads[v].step = "read"
    /\ wire' = Append(wire, [type |-> "page", cids |-> loads[v].page, trims |-> loads[v].trims])
    /\ loads' = [loads EXCEPT ![v].step = "ok"]
    /\ UNCHANGED <<db, bucket, screen, replies, updates, loadFaults, trims, torn>>

\* The call fails before it has read.
LoadFails(v) ==
    /\ loads[v].step = "asked" /\ loadFaults < MaxLoadFaults
    /\ loadFaults' = loadFaults + 1
    /\ loads' = [loads EXCEPT ![v].step = "failed"]
    /\ UNCHANGED <<db, wire, bucket, screen, replies, updates, trims, torn>>

---------------------------------------------------------------------------
(* The store: messenger.reducer.ts.                                        *)

\* What stays of the bucket of a closed conversation. (Mutant: the oldest.)
TrimmedBug(S) == {m \in S \cap Displayed : Cardinality({k \in S \cap Displayed : k < m}) < Kept}
Trimmed(S) == Newest(S \cap Displayed, Kept)

\* Acknowledgements of a page are dropped. (Mutant: so is all the rest.)
LoadedBug(page) == page \cap Acks
Loaded(page) == page \ Acks

Reduced(S, event) ==
    CASE event.type = "updated" -> S \cup event.cids
      [] event.type = "deleted" -> S \ event.cids
      [] event.type = "page" -> S \cup Loaded(event.cids)
      [] event.type = "conversation" -> IF event.open THEN S ELSE Trimmed(S)

Tears(event) ==
    \/ event.type = "updated" /\ event.late /\ ~(event.cids \subseteq bucket)
    \/ event.type = "page" /\ event.trims # trims

Receive ==
    /\ wire # <<>>
    /\ wire' = Tail(wire)
    /\ bucket' = Reduced(bucket, Head(wire))
    /\ trims' = IF bucket \cap Displayed \subseteq bucket' THEN trims ELSE trims + 1
    /\ torn' = (torn \/ Tears(Head(wire)))
    /\ UNCHANGED <<db, loads, screen, replies, updates, loadFaults>>

---------------------------------------------------------------------------
(* MessageList.tsx and the life of the screen.                             *)

Mount ==
    /\ ~screen.mounted /\ screen.visit < MaxVisits
    /\ screen' = [mounted |-> TRUE, visit |-> screen.visit + 1, loading |-> FALSE,
                  fetchedFirst |-> bucket = {}]
    /\ UNCHANGED <<db, wire, loads, bucket, replies, updates, loadFaults, trims, torn>>

Unmount ==
    /\ screen.mounted
    /\ screen' = [screen EXCEPT !.mounted = FALSE]
    /\ UNCHANGED <<db, wire, loads, bucket, replies, updates, loadFaults, trims, torn>>

\* onEndReached.
FetchMore ==
    /\ screen.mounted /\ ~screen.loading /\ ~screen.fetchedFirst
    /\ screen' = [screen EXCEPT !.loading = TRUE]
    /\ loads' = [loads EXCEPT ![screen.visit] =
                    [step |-> "asked", ref |-> Oldest(bucket), page |-> {}, trims |-> trims]]
    /\ UNCHANGED <<db, wire, bucket, replies, updates, loadFaults, trims, torn>>

\* The answer of the call: any error is taken for the beginning of the conversation.
\* A list that is gone gets none.
LoadReplies(v) ==
    /\ loads[v].step \in {"ok", "end", "failed"}
    /\ loads' = [loads EXCEPT ![v] = NoLoad]
    /\ screen' = IF screen.mounted /\ screen.visit = v
                   THEN [screen EXCEPT !.loading = FALSE,
                                       !.fetchedFirst = @ \/ loads[v].step # "ok"]
                   ELSE screen
    /\ UNCHANGED <<db, wire, bucket, replies, updates, loadFaults, trims, torn>>

---------------------------------------------------------------------------
(* Publish: sending a message from the text field (ChatFooter).           *)

\* The messenger has published the message; its row is stored when the log brings it.
Publish(m) ==
    /\ m \in Mine \ (db \cup bucket \cup replies)
    /\ replies' = replies \cup {m}
    /\ UNCHANGED <<db, wire, loads, bucket, screen, updates, loadFaults, trims, torn>>

\* The message is shown as soon as the call is answered, stored or not. It is old where
\* the clock of another device runs ahead.
PublishReplies(m) ==
    /\ m \in replies
    /\ replies' = replies \ {m}
    /\ bucket' = bucket \cup {m}
    /\ torn' = (torn \/ (m \notin bucket /\ \E k \in db : k > m))
    /\ UNCHANGED <<db, wire, loads, screen, updates, loadFaults, trims>>

---------------------------------------------------------------------------
Rows == \/ \E m \in Messages : Store(m) \/ Touch(m) \/ Delete(m)
        \/ \E open \in BOOLEAN : ConversationUpdated(open)

Load(v) == ReadPage(v) \/ DispatchPage(v) \/ LoadFails(v) \/ LoadReplies(v)

ListNext == \/ Rows \/ Receive
        \/ \E v \in 1 .. MaxVisits : Load(v)
        \/ Mount \/ Unmount \/ FetchMore
        \/ \E m \in Mine : Publish(m) \/ PublishReplies(m)

\* Events and answers arrive, and the reader keeps scrolling.
Fairness ==
    /\ WF_listVars(Receive) /\ WF_listVars(FetchMore)
    /\ \A v \in 1 .. MaxVisits :
          WF_listVars(ReadPage(v)) /\ WF_listVars(DispatchPage(v)) /\ WF_listVars(LoadReplies(v))

ListSpec == ListInit /\ [][ListNext]_listVars /\ Fairness

---------------------------------------------------------------------------
(* Properties.                                                             *)

Events ==
    [type : {"updated"}, cids : SUBSET Messages, late : BOOLEAN]
    \cup [type : {"deleted"}, cids : SUBSET Messages]
    \cup [type : {"page"}, cids : SUBSET Messages, trims : Nat]
    \cup [type : {"conversation"}, open : BOOLEAN]

\* Types; a page that is being sent is not empty.
ListTypeOK ==
    /\ db \subseteq Messages
    /\ wire \in Seq(Events)
    /\ loads \in [1 .. MaxVisits ->
                    [step : {"none", "asked", "read", "ok", "end", "failed"},
                     ref : Messages \cup {NoRef}, page : SUBSET Messages, trims : Nat]]
    /\ \A v \in 1 .. MaxVisits : loads[v].step \in {"read", "ok"} => loads[v].page # {}
    /\ bucket \subseteq Messages
    /\ screen \in [mounted : BOOLEAN, visit : 0 .. MaxVisits, loading : BOOLEAN,
                   fetchedFirst : BOOLEAN]
    /\ screen.mounted => screen.visit # 0
    /\ replies \subseteq Mine
    /\ updates \in 0 .. MaxUpdates /\ loadFaults \in 0 .. MaxLoadFaults /\ trims \in Nat /\ torn \in BOOLEAN

OnTheWay == UNION {wire[i].cids : i \in {j \in DOMAIN wire : wire[j].type = "updated"}}

\* A stored message is missing above one of the list.
Hole == \E m \in (db \cap Displayed) \ (bucket \cup OnTheWay), s \in bucket : s < m

\* The list has no gap, although pages, new messages and the cut of a closed
\* conversation (messenger.reducer.ts) come in any order: a gap is torn only by an event
\* about an old message the list does not hold, by a message sent with an older date than
\* one that is stored, or by a page that was asked for before the list was cut.
NoGap == Hole => torn

\* When ConversationLoad has found nothing and the list shows the beginning of the
\* conversation (fetchedFirst), nothing older is stored, unless in the meantime the bucket
\* was cut or lost the row that the page was asked for.
BeginningReached ==
    [][\A v \in 1 .. MaxVisits :
          loads[v].step = "end" /\ loads[v].trims = trims
          /\ loads[v].ref \in bucket \cup {NoRef} /\ LoadReplies(v) =>
             \A m \in (db \cap Displayed) \ (bucket \cup OnTheWay) : \E s \in bucket : s < m]_listVars

\* Whoever keeps scrolling comes to the beginning of the conversation or sees all of it,
\* or leaves.
ScrollingEnds ==
    screen.mounted ~> \/ ~screen.mounted \/ screen.fetchedFirst
                      \/ db \cap Displayed \subseteq bucket
============================================================================
