----------------------------- MODULE AppSession -----------------------------
(***************************************************************************)
(* The sessions of the mobile application: the screens that create, open,  *)
(* close, import and delete accounts (utils/accounts, screens/account),    *)
(* the redux store whose settings redux-persist keeps in the application   *)
(* storage of the opened account (redux/store.ts, persistStorage.ts), and  *)
(* the account service they call (bertyaccount).                           *)
(*                                                                         *)
(* Calls that take muService are served in the order they were made, and   *)
(* their answers come at any time. The slices of the whitelist are one     *)
(* value, the settings: who set it, and the number of the change. The      *)
(* other slices are the set of the accounts whose rows the store shows.    *)
(* How an account is laid out on the disk is the subject of                *)
(* AccountService, how events are streamed that of ConversationEvents.     *)
(***************************************************************************)
EXTENDS Naturals, Sequences

CONSTANTS
    Accounts,                        \* account ids
    None,                            \* no account
    MaxChanges, MaxFaults, MaxStops  \* bounds: changes of settings, faults, restarts

ASSUME SessionAssumption ==
    /\ None \notin Accounts
    /\ {MaxChanges, MaxFaults, MaxStops} \subseteq Nat

VARIABLES
    opened,    \* openedAccountID of the account service
    data,      \* account whose node runs (accountData, initManager)
    made,      \* accounts on the disk
    stored,    \* per account, the settings in its application storage
    calls,     \* calls that wait for muService
    answer,    \* answer to the call the screen waits for
    reads,     \* getStoredState: reads of settings whose REHYDRATE is due
    store,     \* the store: settings and the state of redux-persist
    rows,      \* accounts of which the store holds conversations, contacts, ...
    leftover,  \* accounts whose ended event stream has undelivered events
    selected,  \* ui.selectedAccount
    screen,    \* the screen, the account it is about, how far it is
    changes, faults, stops,   \* for the bounds
    history    \* what happened to the session, for the properties

service == <<opened, data, made, stored>>
bounds == <<changes, faults, stops>>
vars == <<service, calls, answer, reads, store, rows, leftover, selected, screen, bounds, history>>

Settings == [by : Accounts \cup {None}, n : 0 .. MaxChanges]
Default == [by |-> None, n |-> 0]
Unset == [by |-> None, n |-> MaxChanges + 1]   \* nothing is stored
Free == [step |-> "free", value |-> Unset]
Slots == 1 .. 2

NewStore == [settings |-> Default, status |-> "off", paused |-> TRUE, last |-> Unset,
             pending |-> FALSE]
NewHistory == [unread |-> FALSE, unsaved |-> FALSE, hurried |-> FALSE, deleted |-> {}]
Screen(at, account) == [at |-> at, account |-> account, step |-> "begin", next |-> "none",
                        then |-> None, fresh |-> FALSE]

Init ==
    /\ opened = None /\ data = None
    /\ made \in SUBSET Accounts
    /\ stored \in [Accounts -> {Unset} \cup {[by |-> a, n |-> 0] : a \in made}]
    /\ \A a \in Accounts : stored[a] # Unset => stored[a].by = a
    /\ calls = <<>> /\ answer = "none" /\ reads = [i \in Slots |-> Free]
    /\ store = NewStore /\ rows = {} /\ leftover = {} /\ selected = None
    /\ screen = Screen("start", None)
    /\ changes = 0 /\ faults = 0 /\ stops = 0 /\ history = NewHistory

---------------------------------------------------------------------------
(* redux-persist.                                                          *)

\* conditionalUpdate: what differs from the state seen last is to be written.
Updated(s) ==
    IF s.status = "on" /\ ~s.paused
      THEN [s EXCEPT !.last = s.settings, !.pending = @ \/ s.last # s.settings] ELSE s

\* PERSIST: has no effect but to resume, when the state is or was being loaded.
Persisted(s) == [s EXCEPT !.paused = FALSE, !.status = IF @ = "off" THEN "loading" ELSE @]

\* REHYDRATE: without a value, the settings stay as they are. (Mutants: and count
\* as not loaded; they stay in any case.)
RehydratedBug(s, value) ==
    IF value = Unset THEN s ELSE Updated([s EXCEPT !.settings = value, !.status = "on"])
RehydratedNot(s, value) == Updated([s EXCEPT !.status = "on"])
Rehydrated(s, value) ==
    Updated([s EXCEPT !.settings = IF value = Unset THEN @ ELSE value, !.status = "on"])

\* RESET: redux-persist keeps its copy of the state and remains paused. (Mutant: the
\* settings stay.)
ResetBug(s) == [s EXCEPT !.status = "off"]
Reset(s) == [s EXCEPT !.settings = Default, !.status = "off"]

Call(op, account) == [op |-> op, account |-> account, slot |-> 0, value |-> Unset,
                      awaited |-> FALSE]
Put(value) == [Call("put", None) EXCEPT !.value = value]

\* persistor.persist(), and the call of getStoredState.
Persist ==
    /\ store' = Persisted(store)
    /\ IF store.status = "off"
         THEN \E i \in Slots :
                /\ reads[i] = Free
                /\ reads' = [reads EXCEPT ![i].step = "asked"]
                /\ calls' = Append(calls, [Call("get", None) EXCEPT !.slot = i])
         ELSE UNCHANGED <<reads, calls>>

\* The read is answered, or takes longer than five seconds: then its call is still served.
Rehydrate(i) ==
    /\ reads[i].step # "free"
    /\ store' = Rehydrated(store, reads[i].value)
    /\ reads' = [reads EXCEPT ![i] = Free]
    /\ calls' = [k \in DOMAIN calls |-> IF calls[k].slot = i THEN [calls[k] EXCEPT !.slot = 0]
                                        ELSE calls[k]]
    /\ IF reads[i].step = "read"
         THEN UNCHANGED <<history, faults>>
         ELSE /\ faults < MaxFaults /\ faults' = faults + 1
              /\ history' = [history EXCEPT !.unread = TRUE]
    /\ UNCHANGED <<service, answer, rows, leftover, selected, screen, changes, stops>>

\* The interval that writes what is pending; it is not stopped by a pause.
Write ==
    /\ store.pending
    /\ store' = [store EXCEPT !.pending = FALSE]
    /\ calls' = Append(calls, Put(store.last))
    /\ UNCHANGED <<service, answer, reads, rows, leftover, selected, screen, bounds, history>>

\* The user, or a reply to an earlier call, changes the settings.
Change ==
    /\ screen.at \in {"home", "onboarding", "closing"} /\ changes < MaxChanges
    /\ changes' = changes + 1
    /\ store' = Updated([store EXCEPT !.settings = [by |-> screen.account, n |-> changes + 1]])
    /\ history' = [history EXCEPT !.unsaved = @ \/ (screen.at = "closing" /\ screen.step # "begin")]
    /\ UNCHANGED <<service, calls, answer, reads, rows, leftover, selected, screen, faults, stops>>

---------------------------------------------------------------------------
(* The account service: calls under muService, in order.                   *)

Serve(op) == calls # <<>> /\ Head(calls).op = op /\ calls' = Tail(calls)

Fault == faults < MaxFaults /\ faults' = faults + 1

\* The answer to a read that is still waited for.
Answers(value) ==
    [i \in Slots |-> IF i = Head(calls).slot THEN [step |-> "read", value |-> value] ELSE reads[i]]

ServeGet ==
    /\ Serve("get")
    /\ \/ data # None /\ reads' = Answers(stored[data]) /\ UNCHANGED <<faults, history>>
       \/ data = None /\ reads' = Answers(Unset) /\ UNCHANGED <<faults, history>>
       \/ Fault /\ reads' = Answers(Unset) /\ history' = [history EXCEPT !.unread = TRUE]
    /\ UNCHANGED <<service, answer, store, rows, leftover, selected, screen, changes, stops>>

ServePut ==
    /\ Serve("put")
    /\ \/ /\ data # None /\ UNCHANGED <<faults, history>>
          /\ stored' = [stored EXCEPT ![data] = Head(calls).value]
       \/ /\ data = None /\ UNCHANGED <<stored, faults, history>>
       \/ /\ Fault /\ history' = [history EXCEPT !.unsaved = TRUE]
          /\ UNCHANGED stored
    /\ UNCHANGED <<opened, data, made, answer, reads, store, rows, leftover, selected, screen,
                   changes, stops>>

\* CreateAccount does not open the account it makes.
ServeCreate ==
    /\ Serve("create")
    /\ \/ answer' = "ok" /\ made' = made \cup {Head(calls).account} /\ UNCHANGED faults
       \/ answer' = "failed" /\ Fault /\ UNCHANGED made
    /\ UNCHANGED <<opened, data, stored, reads, store, rows, leftover, selected, screen,
                   changes, stops, history>>

\* A failing openAccount may leave openedAccountID behind.
ServeOpen ==
    /\ Serve("open")
    /\ LET a == Head(calls).account IN
       \/ /\ data = None /\ a \in made /\ answer' = "ok"
          /\ opened' = a /\ data' = a /\ UNCHANGED faults
       \/ /\ answer' = "failed" /\ opened' \in {opened, a} /\ UNCHANGED data
          /\ IF data = None /\ a \in made THEN Fault ELSE UNCHANGED faults
    /\ UNCHANGED <<made, stored, reads, store, rows, leftover, selected, screen, changes, stops,
                   history>>

ServeImport ==
    /\ Serve("import")
    /\ LET a == Head(calls).account IN
       \/ /\ data = None /\ answer' = "ok" /\ UNCHANGED faults
          /\ made' = made \cup {a} /\ opened' = a /\ data' = a
       \/ answer' = "failed" /\ Fault /\ UNCHANGED <<opened, data, made>>
    /\ UNCHANGED <<stored, reads, store, rows, leftover, selected, screen, changes, stops, history>>

\* Without a manager nothing is reset. The stream of events ends; some may be on their way.
ServeClose ==
    /\ Serve("close")
    /\ \/ /\ data # None /\ answer' = "ok" /\ UNCHANGED faults
          /\ opened' = None /\ data' = None
          /\ leftover' \in {leftover, leftover \cup ({data} \cap rows)}
       \/ /\ data = None /\ answer' = "ok" /\ UNCHANGED <<opened, data, leftover, faults>>
       \/ /\ answer' = "failed" /\ Fault /\ UNCHANGED <<opened, data, leftover>>
    /\ UNCHANGED <<made, stored, reads, store, rows, selected, screen, changes, stops, history>>

ServeDelete ==
    /\ Serve("delete")
    /\ LET a == Head(calls).account IN
       \/ /\ data = None /\ answer' = "ok" /\ UNCHANGED faults
          /\ made' = made \ {a} /\ stored' = [stored EXCEPT ![a] = Unset]
          /\ history' = [history EXCEPT !.deleted = @ \cup {a}]
       \/ /\ answer' = "failed" /\ UNCHANGED <<made, stored, history>>
          /\ IF data # None THEN UNCHANGED faults ELSE Fault
    /\ UNCHANGED <<opened, data, reads, store, rows, leftover, selected, screen, changes, stops>>

---------------------------------------------------------------------------
(* The screens. A screen that fails without a way out is stuck.            *)

Go(next) == screen' = next
At(at, step) == screen.at = at /\ screen.step = step
Step(step) == screen' = [screen EXCEPT !.step = step]
Ask(op, account) == calls' = Append(calls, Call(op, account))

\* The interval of redux-persist (0 ms) has run by the time a slow call is answered.
Answered == answer # "none" /\ ~store.pending /\ answer' = "none"

\* GoBridge.closeBridge: what is under way ends with the service, and so do the streams.
\* (Mutant: they do not.)
CloseBridgeBug ==
    /\ calls' = <<>> /\ UNCHANGED leftover
    /\ opened' = None /\ data' = None
    /\ reads' = [i \in Slots |-> Free]

CloseBridge ==
    /\ calls' = <<>> /\ leftover' = {}
    /\ opened' = None /\ data' = None
    /\ reads' = [i \in Slots |-> IF reads[i].step = "asked" THEN [reads[i] EXCEPT !.step = "read"]
                                ELSE reads[i]]

\* GoToLogInOrCreate: the account asked for, or the one opened last.
Start ==
    /\ screen.at = "start"
    /\ \/ /\ made = {} \/ screen.next = "create"
          /\ Go(Screen("onboarding", None))
       \/ \E a \in made : /\ screen.next # "create" /\ screen.account \in {None, a}
                          /\ Go(Screen("opening", a))
    /\ UNCHANGED <<service, calls, answer, reads, store, rows, leftover, selected, bounds, history>>

Create(a) ==
    /\ screen.at = "onboarding" /\ a \notin made \cup history.deleted
    /\ Go(Screen("creating", a)) /\ Ask("create", a)
    /\ UNCHANGED <<service, answer, reads, store, rows, leftover, selected, bounds, history>>

Created ==
    /\ screen.at = "creating" /\ Answered
    /\ IF answer = "ok"
         THEN Persist /\ Go([Screen("opening", screen.account) EXCEPT !.fresh = TRUE])
         ELSE Go(Screen("onboarding", None)) /\ UNCHANGED <<calls, reads, store>>
    /\ UNCHANGED <<service, rows, leftover, selected, bounds, history>>

\* openAccount: an account that is opened already is left as it is, and so are its settings.
Open ==
    /\ At("opening", "begin")
    /\ IF opened = screen.account THEN Step("list") /\ UNCHANGED calls
       ELSE IF opened = None THEN Step("open") /\ Ask("open", screen.account)
       ELSE Step("close") /\ Ask("close", None)
    /\ UNCHANGED <<service, answer, reads, store, rows, leftover, selected, bounds, history>>

OpenAfterClose ==
    /\ At("opening", "close") /\ Answered
    /\ IF answer = "ok" THEN Step("open") /\ Ask("open", screen.account)
       ELSE Step("stuck") /\ UNCHANGED calls
    /\ UNCHANGED <<service, reads, store, rows, leftover, selected, bounds, history>>

\* The settings are loaded when the account is open.
Opened ==
    /\ At("opening", "open") /\ Answered
    /\ IF answer = "ok" THEN Persist /\ Step("list")
       ELSE Step("stuck") /\ UNCHANGED <<calls, reads, store>>
    /\ UNCHANGED <<service, rows, leftover, selected, bounds, history>>

\* openClients: the event stream lists the account that runs; there is none of an account
\* that failed to open. Then prepareAccount: of a new account the theme is reset, which
\* writes the settings.
List ==
    /\ At("opening", "list")
    /\ IF data = None
         THEN Step("stuck") /\ UNCHANGED <<store, rows, selected>>
         ELSE /\ rows' = rows \cup {data}
              /\ selected' = screen.account
              /\ store' = IF screen.fresh /\ store.status = "on" /\ ~store.paused
                            THEN [Updated(store) EXCEPT !.pending = TRUE] ELSE store
              /\ Go(Screen("home", screen.account))
    /\ UNCHANGED <<service, calls, answer, reads, leftover, bounds, history>>

\* An event of a stream that has ended reaches the store.
Deliver(a) ==
    /\ a \in leftover
    /\ leftover' = leftover \ {a} /\ rows' = rows \cup {a}
    /\ UNCHANGED <<service, calls, answer, reads, store, selected, screen, bounds, history>>

\* The user leaves the account for another one (or the same), a new one, or a backup, or
\* deletes it.
Leave(next, a) ==
    /\ screen.at = "home"
    /\ CASE next = "open" -> a \in made
         [] next = "import" -> a \in Accounts \ (made \cup history.deleted)
         [] OTHER -> a = None
    /\ Go([Screen("closing", screen.account) EXCEPT !.next = next, !.then = a])
    /\ UNCHANGED <<service, calls, answer, reads, store, rows, leftover, selected, bounds, history>>

\* (Mutant: nothing is written.)
FlushedBug == calls
Flushed == IF store.pending THEN Append(calls, Put(store.last)) ELSE calls

\* closeAccount: persistor.flush() ...
Flush ==
    /\ At("closing", "begin")
    /\ calls' = [i \in DOMAIN Flushed |-> [Flushed[i] EXCEPT !.awaited = (Flushed[i].op = "put")]]
    /\ store' = [store EXCEPT !.pending = FALSE]
    /\ Step("flush")
    /\ history' = [history EXCEPT !.hurried = @ \/ (\E i \in Slots : reads[i] # Free)]
    /\ UNCHANGED <<service, answer, reads, rows, leftover, selected, bounds>>

\* ... is waited for, then persistor.pause() and the call.
Written == \A i \in DOMAIN calls : ~calls[i].awaited

Pause ==
    /\ At("closing", "flush") /\ Written
    /\ store' = [store EXCEPT !.paused = TRUE]
    /\ Ask("close", None) /\ Step("close")
    /\ UNCHANGED <<service, answer, reads, rows, leftover, selected, bounds, history>>

\* resetAccountStore.
ResetStore ==
    /\ store' = Reset(store) /\ rows' = {} /\ selected' = None
    /\ history' = [history EXCEPT !.unread = FALSE, !.unsaved = FALSE]

\* The stream of the call cannot be created: the store is reset, the account still runs.
CloseFails ==
    /\ At("closing", "flush") /\ Written /\ Fault
    /\ ResetStore /\ store'.paused
    /\ Go(Screen("error", None))
    /\ UNCHANGED <<service, calls, answer, reads, leftover, changes, stops>>

Closed ==
    /\ At("closing", "close") /\ Answered /\ answer = "ok"
    /\ ResetStore
    /\ IF screen.next = "delete"
         THEN /\ Go(Screen("deleting", screen.account))
              /\ UNCHANGED <<opened, data, calls, reads, leftover>>
         ELSE /\ CloseBridge
              /\ Go(IF screen.next = "import" THEN Screen("importing", screen.then)
                    ELSE [Screen("start", screen.then) EXCEPT !.next = screen.next])
    /\ UNCHANGED <<made, stored, bounds>>

CloseRejected ==
    /\ At("closing", "close") /\ Answered /\ answer = "failed"
    /\ Step("stuck")
    /\ UNCHANGED <<service, calls, reads, store, rows, leftover, selected, bounds, history>>

\* deleteAccount: the next account is opened with the bridge as it is.
Delete ==
    /\ At("deleting", "begin")
    /\ Ask("delete", screen.account) /\ Step("delete")
    /\ UNCHANGED <<service, answer, reads, store, rows, leftover, selected, bounds, history>>

Deleted ==
    /\ At("deleting", "delete") /\ Answered
    /\ IF answer = "failed" THEN Step("stuck") /\ UNCHANGED <<opened, data, calls, reads, leftover>>
       ELSE IF made = {} THEN CloseBridge /\ Go(Screen("start", None))
       ELSE /\ \E a \in made : Go(Screen("opening", a))
            /\ UNCHANGED <<opened, data, calls, reads, leftover>>
    /\ UNCHANGED <<made, stored, store, rows, selected, bounds, history>>

Import ==
    /\ At("importing", "begin")
    /\ Ask("import", screen.account) /\ Step("import")
    /\ UNCHANGED <<service, answer, reads, store, rows, leftover, selected, bounds, history>>

Imported ==
    /\ At("importing", "import") /\ Answered
    /\ Go(IF answer = "ok" THEN Screen("opening", screen.account) ELSE Screen("error", None))
    /\ UNCHANGED <<service, calls, reads, store, rows, leftover, selected, bounds, history>>

\* The buttons of StreamProgressError: restart; or delete, which deletes nothing, as no
\* account is selected once the store was reset.
Restart ==
    /\ screen.at = "error"
    /\ Go([Screen("closing", None) EXCEPT !.next = "open"])
    /\ UNCHANGED <<service, calls, answer, reads, store, rows, leftover, selected, bounds, history>>

DeleteNothing ==
    /\ screen.at = "error"
    /\ CloseBridge /\ Go(Screen("start", None))
    /\ UNCHANGED <<made, stored, answer, store, rows, selected, bounds, history>>

---------------------------------------------------------------------------
\* The application starts anew: with its account service, or without it when the node
\* is an external one (SelectNode) or the JavaScript context alone is reloaded.
Stop(service_too) ==
    /\ stops < MaxStops /\ stops' = stops + 1
    /\ IF service_too THEN opened' = None /\ data' = None ELSE UNCHANGED <<opened, data>>
    /\ calls' = <<>> /\ answer' = "none" /\ reads' = [i \in Slots |-> Free]
    /\ store' = NewStore /\ rows' = {} /\ leftover' = {} /\ selected' = None
    /\ Go(Screen("start", None))
    /\ history' = [history EXCEPT !.unread = FALSE, !.unsaved = FALSE]
    /\ UNCHANGED <<made, stored, changes, faults>>

Served == \/ ServeGet \/ ServePut \/ ServeCreate \/ ServeOpen \/ ServeImport
          \/ ServeClose \/ ServeDelete

Shown == \/ Start \/ Created \/ Open \/ OpenAfterClose \/ Opened \/ List
         \/ Flush \/ Pause \/ Closed \/ CloseRejected \/ Delete \/ Deleted \/ Import \/ Imported

Next ==
    \/ Served \/ Shown
    \/ Write \/ Change \/ CloseFails \/ Restart \/ DeleteNothing
    \/ \E i \in Slots : Rehydrate(i)
    \/ \E a \in Accounts : Create(a) \/ Deliver(a)
    \/ \E next \in {"open", "import", "create", "delete"}, a \in Accounts \cup {None} : Leave(next, a)
    \/ \E both \in BOOLEAN : Stop(both)

Spec == Init /\ [][Next]_vars

---------------------------------------------------------------------------
(* Properties.                                                             *)

Calls == [op : {"get", "put", "create", "open", "close", "delete", "import"},
          account : Accounts \cup {None}, slot : {0} \cup Slots, value : Settings \cup {Unset},
          awaited : BOOLEAN]

\* Types; settings that are being loaded have a read that is due.
TypeOK ==
    /\ {opened, data, selected} \subseteq Accounts \cup {None}
    /\ made \subseteq Accounts /\ rows \subseteq Accounts /\ leftover \subseteq Accounts
    /\ stored \in [Accounts -> Settings \cup {Unset}]
    /\ calls \in Seq(Calls) /\ answer \in {"none", "ok", "failed"}
    /\ reads \in [Slots -> [step : {"free", "asked", "read"}, value : Settings \cup {Unset}]]
    /\ store \in [settings : Settings, status : {"off", "loading", "on"}, paused : BOOLEAN,
                  last : Settings \cup {Unset}, pending : BOOLEAN]
    /\ store.status = "loading" => \E i \in Slots : reads[i] # Free
    /\ screen.account \in Accounts \cup {None}
    /\ screen.at \in {"opening", "creating", "home", "deleting", "importing"} => screen.account # None
    /\ changes \in 0 .. MaxChanges /\ faults \in 0 .. MaxFaults /\ stops \in 0 .. MaxStops

Own(value, a) == value.by \in {a, None}

\* Settings never pass from one account to another: what is stored for an account was set
\* under it or is the default, and so is what is shown while it is open, although one store
\* and one copy in redux-persist serve all accounts (closeAccount.ts, openAccount.ts).
\* Excepted is a session that was closed while its settings were still being loaded.
OwnSettings ==
    ~history.hurried =>
        /\ \A a \in Accounts : Own(stored[a], a)
        /\ screen.at = "home" => Own(store.settings, screen.account)

Loads(value) == IF value = Unset THEN Default ELSE value

\* Closing loses no setting: when the account is closed, what was shown is stored, unless
\* the settings were never loaded (an account that was open already), the read or a write
\* failed, or they were changed after the flush.
ClosedSaved ==
    [][/\ screen.at = "closing" /\ screen.account # None /\ Closed
       /\ store.status = "on" /\ ~history.unread /\ ~history.unsaved /\ ~history.hurried
       => Loads(stored[screen.account]) = store.settings]_vars

\* Stored settings are replaced by newer ones only, unless they could not be read.
NewerOnly ==
    [][\A a \in Accounts :
          stored'[a] # stored[a] /\ stored[a] # Unset /\ ~history.unread /\ ~history.hurried =>
              a \in history'.deleted \/ stored'[a].n > stored[a].n]_vars

\* Home shows the account that is open and the rows of no other, or of one that was
\* deleted and whose last events came late (deleteAccount.ts keeps the bridge).
OwnRows ==
    screen.at = "home" =>
        selected = screen.account /\ rows \subseteq {screen.account} \cup history.deleted
============================================================================
