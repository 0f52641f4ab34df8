-------------------------- MODULE AppSession_proofs -------------------------
(***************************************************************************)
(* For any number of accounts, changes, faults and restarts: types, the    *)
(* rows that Home shows, whose settings are shown and stored, and that the *)
(* settings are stored when the account is closed.                         *)
(*                                                                         *)
(* A screen has one call under way (OneCall), which ties the account that  *)
(* runs to the account the screen is about (Runs). Rows are those of the   *)
(* account on display until it is closed, later ones those of a deleted    *)
(* account (RowsApart).                                                    *)
(*                                                                         *)
(* One store serves all accounts. Its settings stay with their account for *)
(* two reasons. After the flush nothing is read any more, unless the close *)
(* was hurried (Waits), and nothing is written once redux-persist is       *)
(* paused (Paused). What was asked for before is served before, the calls  *)
(* being a queue (Ordered): a write before its account is deleted, a read  *)
(* before the next account is opened. So whatever is held anywhere, in the *)
(* store, its copy, a read or a write, is of the account that runs or of   *)
(* none (Clean).                                                           *)
(*                                                                         *)
(* Nor is a setting lost. redux-persist is on for the account on display   *)
(* alone (Switched), and its copy is then what is shown (Copied). What is  *)
(* stored, the writes that wait, in their order, and the copy get newer    *)
(* (Ascending), the first read being of what is stored (Faithful). So what *)
(* is shown is stored, waits to be written or is pending (Coming), and it  *)
(* is stored once a flush has been waited for (Saved).                     *)
(***************************************************************************)
EXTENDS AppSession, TLAPS

---------------------------------------------------------------------------
(* The invariant.                                                          *)

Places == {"start", "onboarding", "creating", "opening", "home", "closing", "deleting", "importing",
           "error"}
Stages == {"begin", "flush", "close", "open", "list", "delete", "import", "stuck"}
Nexts == {"none", "open", "import", "create", "delete"}

Screens == [at : Places, account : Accounts \cup {None}, step : Stages, next : Nexts,
            then : Accounts \cup {None}, fresh : BOOLEAN]

\* The stages a screen goes through, and the accounts it has.
Fits(s) ==
    /\ s.step # "begin" => s.at \in {"opening", "closing", "deleting", "importing"}
    /\ s.step \in {"open", "list"} => s.at = "opening"
    /\ s.step = "flush" => s.at = "closing"
    /\ s.step = "close" => s.at \in {"opening", "closing"}
    /\ s.step = "delete" => s.at = "deleting"
    /\ s.step = "import" => s.at = "importing"
    /\ s.at \in {"onboarding", "error"} => s.account = None
    /\ s.at \in {"opening", "creating", "home", "deleting", "importing"} => s.account # None
    /\ s.at = "closing" /\ s.next = "delete" => s.account # None
    /\ s.at = "closing" /\ s.next = "import" => s.then # None

ScreenOK == screen \in Screens /\ Fits(screen)

\* What the screen waits for.
Operation == IF screen.at = "creating" THEN "create" ELSE screen.step
Ours == {"create", "open", "close", "delete", "import"}

\* The screen has one call under way, or its answer.
OneCall ==
    /\ \A i \in DOMAIN calls : calls[i].op \in Ours =>
          /\ calls[i].op = Operation /\ answer = "none"
          /\ calls[i].op # "close" => calls[i].account = screen.account
    /\ \A i, j \in DOMAIN calls : calls[i].op \in Ours /\ calls[j].op \in Ours => i = j
    /\ answer # "none" => Operation \in Ours

Types == TypeOK /\ ScreenOK /\ OneCall

\* The node that runs is that of an account, and of the one the screen is about.
Runs ==
    /\ data # None => data = opened /\ data \in made
    /\ Operation \in {"open", "import"} /\ answer # "ok" => data = None
    /\ Operation = "close" /\ answer = "ok" => data = None
    /\ screen.at \in {"onboarding", "creating", "deleting"} => data = None
    /\ screen.at = "start" /\ screen.next = "create" => data = None
    /\ screen.at = "importing" /\ screen.step = "begin" => data = None
    /\ screen.at = "opening" /\ (screen.step = "list" \/ (screen.step = "open" /\ answer = "ok")) =>
          opened = screen.account
    /\ screen.at \in {"home", "closing"} /\ screen.account # None => data \in {None, screen.account}

\* Rows of accounts that are neither deleted nor on display are gone.
Now == IF screen.at \in {"home", "closing", "deleting"} THEN {screen.account} ELSE {}
Late == IF screen.at = "deleting" \/ (screen.at = "closing" /\ screen.step \in {"close", "stuck"})
          THEN {screen.account} ELSE {}

RowsApart ==
    /\ rows \subseteq history.deleted \cup Now
    /\ leftover \subseteq history.deleted \cup Late
    /\ screen.at = "home" => selected = screen.account
    /\ screen.at = "deleting" /\ answer = "ok" => screen.account \in history.deleted

\* A read that is asked for waits for one call.
Gets ==
    /\ \A k \in DOMAIN calls : calls[k].op = "get" /\ calls[k].slot # 0 => reads[calls[k].slot].step = "asked"
    /\ \A k, l \in DOMAIN calls :
          calls[k].op = "get" /\ calls[l].op = "get" /\ calls[k].slot = calls[l].slot /\ calls[k].slot # 0
          => k = l
    /\ \A k \in DOMAIN calls : calls[k].op # "get" => calls[k].slot = 0
    /\ \A i \in Slots : reads[i].step # "read" => reads[i].value = Unset

Idle == \A i \in Slots : reads[i] = Free
Of == IF screen.at \in {"home", "closing"} \/ (screen.at = "opening" /\ screen.step = "list" /\ data # None)
        THEN screen.account ELSE None

\* Nothing is left to be written once the account is closed, nor before its settings are loaded.
Paused ==
    /\ screen.at = "closing" /\ screen.step \in {"close", "stuck"} => store.paused
    /\ screen.at = "deleting" => store.paused /\ ~store.pending
    /\ store.paused =>
          \/ (~store.pending /\ \A k \in DOMAIN calls : calls[k].op # "put")
          \/ (screen.at = "closing" /\ screen.step \in {"close", "stuck"})
          \/ screen.at = "deleting"

\* Calls are served before those that were made later.
First(op) == \A k \in DOMAIN calls : calls[k].op = op /\ (op = "get" => calls[k].slot # 0) =>
                \E j \in DOMAIN calls : k < j /\ calls[j].op \in Ours

Ordered ==
    /\ screen.at = "deleting" /\ screen.step \in {"delete"} => First("put")
    /\ Operation = "open" => First("get")

\* No settings of another account are read, shown or about to be written.
Waits ==
    /\ screen.at \in {"start", "onboarding", "creating", "deleting", "importing", "error"} => Idle
    /\ screen.at = "closing" /\ (screen.step # "begin" \/ screen.account = None) => Idle
    /\ screen.at = "opening" /\ screen.step \in {"begin", "close", "stuck"} => data = None \/ Idle
Clean ==
    /\ \A a \in Accounts : Own(stored[a], a)
    /\ Own(store.settings, Of)
    /\ store.pending => Own(store.last, Of)
    /\ \A i \in Slots : Own(reads[i].value, Of)
    /\ screen.at # "deleting" => \A k \in DOMAIN calls : calls[k].op = "put" => Own(calls[k].value, Of)

Separate == ~history.hurried => Waits /\ Clean

---------------------------------------------------------------------------
(* Sequences of calls.                                                     *)

LEMMA CallAsked ==
    ASSUME calls \in Seq(Calls), NEW c \in Calls, calls' = Append(calls, c)
    PROVE  /\ calls' \in Seq(Calls)
           /\ DOMAIN calls = 1 .. Len(calls) /\ Len(calls) \in Nat
           /\ DOMAIN calls' = 1 .. Len(calls) + 1
           /\ \A k \in DOMAIN calls : calls'[k] = calls[k] /\ k \in DOMAIN calls' /\ k < Len(calls) + 1
           /\ \A k \in DOMAIN calls' : k \in DOMAIN calls \/ k = Len(calls) + 1
           /\ calls'[Len(calls) + 1] = c /\ Len(calls) + 1 \in DOMAIN calls'
OBVIOUS

LEMMA CallServed ==
    ASSUME calls \in Seq(Calls), calls # <<>>, calls' = Tail(calls)
    PROVE  /\ calls' \in Seq(Calls)
           /\ DOMAIN calls = 1 .. Len(calls) /\ Len(calls) \in Nat /\ 1 \in DOMAIN calls
           /\ Head(calls) = calls[1] /\ Head(calls) \in Calls
           /\ \A k \in DOMAIN calls' : k \in Nat /\ k + 1 \in DOMAIN calls /\ calls'[k] = calls[k + 1]
           /\ \A k \in DOMAIN calls : k # 1 => k - 1 \in DOMAIN calls' /\ calls'[k - 1] = calls[k]
OBVIOUS

LEMMA CallTypes ==
    /\ \A op \in {"get", "create", "open", "close", "delete", "import"}, a \in Accounts \cup {None} :
          /\ Call(op, a) \in Calls /\ Call(op, a).op = op /\ Call(op, a).account = a
          /\ Call(op, a).slot = 0
    /\ \A value \in Settings \cup {Unset} :
          /\ Put(value) \in Calls /\ Put(value).op = "put" /\ Put(value).value = value
          /\ Put(value).slot = 0
    /\ \A i \in Slots : LET c == [Call("get", None) EXCEPT !.slot = i]
                        IN  c \in Calls /\ c.op = "get" /\ c.slot = i
BY DEF Calls, Call, Put, Slots

---------------------------------------------------------------------------
(* Types.                                                                  *)

Stores == [settings : Settings, status : {"off", "loading", "on"}, paused : BOOLEAN,
           last : Settings \cup {Unset}, pending : BOOLEAN]
Reads == [step : {"free", "asked", "read"}, value : Settings \cup {Unset}]

LEMMA Values ==
    /\ Default \in Settings /\ NewStore \in Stores /\ Free \in Reads
    /\ \A a \in Accounts \cup {None}, n \in 0 .. MaxChanges : [by |-> a, n |-> n] \in Settings
BY SessionAssumption DEF Default, Settings, NewStore, Stores, Free, Reads

LEMMA UpdatedIs ==
    ASSUME NEW s \in Stores
    PROVE  /\ Updated(s) \in Stores
           /\ Updated(s).settings = s.settings /\ Updated(s).status = s.status
           /\ Updated(s).paused = s.paused
           /\ s.pending => Updated(s).pending
           /\ s.paused => Updated(s) = s
           /\ Updated(s).pending =>
                 (s.pending /\ Updated(s).last = s.last) \/ Updated(s).last = s.settings
BY DEF Updated, Stores

LEMMA StoreTypes ==
    ASSUME NEW s \in Stores, NEW value \in Settings \cup {Unset}
    PROVE  /\ Persisted(s) \in Stores /\ Reset(s) \in Stores
           /\ Rehydrated(s, value) \in Stores
           /\ Rehydrated(s, value).status = "on" /\ Reset(s).status = "off"
<1>1. Persisted(s) \in Stores /\ Reset(s) \in Stores /\ Reset(s).status = "off"
  BY Values DEF Persisted, Reset, Stores
<1> DEFINE t == [s EXCEPT !.settings = IF value = Unset THEN @ ELSE value, !.status = "on"]
<1>2. t \in Stores /\ t.status = "on"
  BY DEF Stores
<1>3. Rehydrated(s, value) = Updated(t)
  BY DEF Rehydrated
<1> HIDE DEF t
<1>4. Updated(t) \in Stores /\ Updated(t).status = t.status
  BY <1>2, UpdatedIs
<1> QED
  BY <1>1, <1>2, <1>3, <1>4

\* The screen that is shown, and a further stage of the same.
Begun(at, a, n, t) ==
    /\ screen' \in Screens /\ screen'.at = at /\ screen'.account = a /\ screen'.step = "begin"
    /\ screen'.next = n /\ screen'.then = t
Stepped(step) ==
    /\ screen' \in Screens /\ screen'.step = step
    /\ screen'.at = screen.at /\ screen'.account = screen.account
    /\ screen'.next = screen.next /\ screen'.then = screen.then

LEMMA ScreenBegun ==
    ASSUME NEW at \in Places, NEW a \in Accounts \cup {None}, NEW n \in Nexts,
           NEW t \in Accounts \cup {None}
    PROVE  /\ screen' = Screen(at, a) => Begun(at, a, "none", None)
           /\ screen' = [Screen(at, a) EXCEPT !.fresh = TRUE] => Begun(at, a, "none", None)
           /\ screen' = [Screen(at, a) EXCEPT !.next = n] => Begun(at, a, n, None)
           /\ screen' = [Screen(at, a) EXCEPT !.next = n, !.then = t] => Begun(at, a, n, t)
<1>0. "none" \in Nexts /\ None \in Accounts \cup {None} /\ "begin" \in Stages
  BY DEF Nexts, Stages
<1>1. screen' = Screen(at, a) => Begun(at, a, "none", None)
  BY <1>0 DEF Begun, Screens, Screen
<1>2. screen' = [Screen(at, a) EXCEPT !.fresh = TRUE] => Begun(at, a, "none", None)
  BY <1>0 DEF Begun, Screens, Screen
<1>3. screen' = [Screen(at, a) EXCEPT !.next = n] => Begun(at, a, n, None)
  BY <1>0 DEF Begun, Screens, Screen
<1>4. screen' = [Screen(at, a) EXCEPT !.next = n, !.then = t] => Begun(at, a, n, t)
  BY <1>0 DEF Begun, Screens, Screen
<1> QED
  BY <1>1, <1>2, <1>3, <1>4

LEMMA ScreenStepped ==
    ASSUME screen \in Screens, NEW step \in Stages
    PROVE  screen' = [screen EXCEPT !.step = step] => Stepped(step)
BY DEF Stepped, Screens

ScreenStays == Served \/ (\E i \in Slots : Rehydrate(i)) \/ Write \/ Change
               \/ (\E a \in Accounts : Deliver(a)) \/ UNCHANGED vars

\* What every action shows.
LEMMA Moves ==
    ASSUME TypeOK, ScreenOK
    PROVE  /\ ScreenStays => screen' = screen
           /\ Start => /\ screen.at = "start"
                       /\ \/ Begun("onboarding", None, "none", None) /\ (made = {} \/ screen.next = "create")
                          \/ \E a \in made : Begun("opening", a, "none", None)
           /\ \A a \in Accounts : Create(a) => Begun("creating", a, "none", None)
           /\ Created => IF answer = "ok" THEN Begun("opening", screen.account, "none", None)
                                          ELSE Begun("onboarding", None, "none", None)
           /\ Open => IF opened = screen.account THEN Stepped("list")
                      ELSE IF opened = None THEN Stepped("open") ELSE Stepped("close")
           /\ OpenAfterClose => Stepped(IF answer = "ok" THEN "open" ELSE "stuck")
           /\ Opened => Stepped(IF answer = "ok" THEN "list" ELSE "stuck")
           /\ List => IF data = None THEN Stepped("stuck") ELSE Begun("home", screen.account, "none", None)
           /\ \A next \in {"open", "import", "create", "delete"}, a \in Accounts \cup {None} :
                 Leave(next, a) => Begun("closing", screen.account, next, a)
           /\ Flush => Stepped("flush")
           /\ Pause => Stepped("close")
           /\ CloseFails => Begun("error", None, "none", None)
           /\ Closed => \/ screen.next = "delete" /\ Begun("deleting", screen.account, "none", None)
                        \/ screen.next = "import" /\ Begun("importing", screen.then, "none", None)
                        \/ screen.next \notin {"delete", "import"} /\ Begun("start", screen.then, screen.next, None)
           /\ CloseRejected => Stepped("stuck")
           /\ Delete => Stepped("delete")
           /\ Deleted => IF answer = "failed" THEN Stepped("stuck")
                         ELSE IF made = {} THEN Begun("start", None, "none", None)
                         ELSE \E a \in made : Begun("opening", a, "none", None)
           /\ Import => Stepped("import")
           /\ Imported => IF answer = "ok" THEN Begun("opening", screen.account, "none", None)
                                           ELSE Begun("error", None, "none", None)
           /\ Restart => Begun("closing", None, "open", None)
           /\ DeleteNothing => Begun("start", None, "none", None)
           /\ \A both \in BOOLEAN : Stop(both) => Begun("start", None, "none", None)
<1>0. /\ screen \in Screens /\ made \subseteq Accounts /\ None \in Accounts \cup {None}
      /\ screen.account \in Accounts \cup {None} /\ screen.then \in Accounts \cup {None}
      /\ screen.next \in Nexts /\ "none" \in Nexts
  BY DEF ScreenOK, TypeOK, Screens, Nexts
<1> USE <1>0 DEF Go, Step, At
<1>1. ScreenStays => screen' = screen
  BY DEF ScreenStays, Served, ServeGet, ServePut, ServeCreate, ServeOpen, ServeImport, ServeClose,
         ServeDelete, Rehydrate, Write, Change, Deliver, vars
<1>2. Start => /\ screen.at = "start"
               /\ \/ Begun("onboarding", None, "none", None) /\ (made = {} \/ screen.next = "create")
                  \/ \E a \in made : Begun("opening", a, "none", None)
  <2>1. Start => /\ screen.at = "start"
                 /\ \/ screen' = Screen("onboarding", None) /\ (made = {} \/ screen.next = "create")
                    \/ \E a \in made : screen' = Screen("opening", a)
    BY DEF Start
  <2> QED
    BY <2>1, ScreenBegun DEF Places
<1>3. \A a \in Accounts : Create(a) => Begun("creating", a, "none", None)
  BY ScreenBegun DEF Create, Places
<1>4. Created => IF answer = "ok" THEN Begun("opening", screen.account, "none", None)
                                  ELSE Begun("onboarding", None, "none", None)
  <2>1. Created => IF answer = "ok" THEN screen' = [Screen("opening", screen.account) EXCEPT !.fresh = TRUE]
                                    ELSE screen' = Screen("onboarding", None)
    BY DEF Created
  <2> QED
    BY <2>1, ScreenBegun DEF Places
<1>5. Open => IF opened = screen.account THEN Stepped("list")
              ELSE IF opened = None THEN Stepped("open") ELSE Stepped("close")
  BY ScreenStepped DEF Open, Stages
<1>6. OpenAfterClose => Stepped(IF answer = "ok" THEN "open" ELSE "stuck")
  BY ScreenStepped DEF OpenAfterClose, Stages
<1>7. Opened => Stepped(IF answer = "ok" THEN "list" ELSE "stuck")
  BY ScreenStepped DEF Opened, Stages
<1>8. List => IF data = None THEN Stepped("stuck") ELSE Begun("home", screen.account, "none", None)
  BY ScreenStepped, ScreenBegun DEF List, Stages, Places
<1>9. \A next \in {"open", "import", "create", "delete"}, a \in Accounts \cup {None} :
         Leave(next, a) => Begun("closing", screen.account, next, a)
  <2> TAKE next \in {"open", "import", "create", "delete"}, a \in Accounts \cup {None}
  <2>1. Leave(next, a) => screen' = [Screen("closing", screen.account) EXCEPT !.next = next, !.then = a]
    BY DEF Leave
  <2>2. next \in Nexts /\ "closing" \in Places
    BY DEF Nexts, Places
  <2> QED
    BY <2>1, <2>2, ScreenBegun
<1>10. Flush => Stepped("flush")
  BY ScreenStepped DEF Flush, Stages
<1>11. Pause => Stepped("close")
  BY ScreenStepped DEF Pause, Stages
<1>12. CloseFails => Begun("error", None, "none", None)
  BY ScreenBegun DEF CloseFails, Places
<1>13. Closed => \/ screen.next = "delete" /\ Begun("deleting", screen.account, "none", None)
                 \/ screen.next = "import" /\ Begun("importing", screen.then, "none", None)
                 \/ screen.next \notin {"delete", "import"} /\ Begun("start", screen.then, screen.next, None)
  <2>1. Closed =>
          \/ screen.next = "delete" /\ screen' = Screen("deleting", screen.account)
          \/ screen.next = "import" /\ screen' = Screen("importing", screen.then)
          \/ screen.next \notin {"delete", "import"} /\ screen' = [Screen("start", screen.then) EXCEPT !.next = screen.next]
    BY DEF Closed
  <2>2. {"deleting", "importing", "start"} \subseteq Places
    BY DEF Places
  <2> QED
    BY <2>1, <2>2, ScreenBegun
<1>14. CloseRejected => Stepped("stuck")
  BY ScreenStepped DEF CloseRejected, Stages
<1>15. Delete => Stepped("delete")
  BY ScreenStepped DEF Delete, Stages
<1>16. Deleted => IF answer = "failed" THEN Stepped("stuck")
                  ELSE IF made = {} THEN Begun("start", None, "none", None)
                  ELSE \E a \in made : Begun("opening", a, "none", None)
  <2>1. Deleted => IF answer = "failed" THEN screen' = [screen EXCEPT !.step = "stuck"]
                   ELSE IF made = {} THEN screen' = Screen("start", None)
                   ELSE \E a \in made : screen' = Screen("opening", a)
    BY DEF Deleted
  <2> QED
    BY <2>1, ScreenStepped, ScreenBegun DEF Places, Stages
<1>17. Import => Stepped("import")
  BY ScreenStepped DEF Import, Stages
<1>18. Imported => IF answer = "ok" THEN Begun("opening", screen.account, "none", None)
                                    ELSE Begun("error", None, "none", None)
  BY ScreenBegun DEF Imported, Places
<1>19. Restart => Begun("closing", None, "open", None)
  BY ScreenBegun DEF Restart, Places, Nexts
<1>20. DeleteNothing => Begun("start", None, "none", None)
  BY ScreenBegun DEF DeleteNothing, Places
<1>21. \A both \in BOOLEAN : Stop(both) => Begun("start", None, "none", None)
  BY ScreenBegun DEF Stop, Places
<1> QED
  BY <1>1, <1>2, <1>3, <1>4, <1>5, <1>6, <1>7, <1>8, <1>9, <1>10, <1>11, <1>12, <1>13, <1>14, <1>15, <1>16,
     <1>17, <1>18, <1>19, <1>20, <1>21

LEMMA ScreenStep ==
    ASSUME TypeOK, ScreenOK, [Next]_vars
    PROVE  ScreenOK'
<1>0. /\ screen \in Screens /\ Fits(screen) /\ made \subseteq Accounts /\ None \notin Accounts
      /\ \A a \in Accounts : a # None
  BY SessionAssumption DEF ScreenOK, TypeOK
<1> USE <1>0 DEF ScreenOK
<1>1. CASE ScreenStays
  BY <1>1, Moves
<1>2. CASE Start
  BY <1>2, Moves DEF Begun, Fits
<1>3. ASSUME NEW a \in Accounts, Create(a) PROVE ScreenOK'
  BY <1>3, Moves DEF Begun, Fits
<1>4. CASE Created
  <2>1. screen.account # None
    BY <1>4 DEF Created, Fits
  <2> QED
    BY <1>4, <2>1, Moves DEF Begun, Fits
<1>5. CASE Open \/ OpenAfterClose \/ Opened \/ Delete \/ Import \/ Flush \/ Pause \/ CloseRejected
  <2>1. \/ screen.at = "opening"
           /\ (Stepped("open") \/ Stepped("close") \/ Stepped("list") \/ Stepped("stuck"))
        \/ screen.at = "closing" /\ (Stepped("flush") \/ Stepped("close") \/ Stepped("stuck"))
        \/ screen.at = "deleting" /\ Stepped("delete")
        \/ screen.at = "importing" /\ Stepped("import")
    BY <1>5, Moves DEF Open, OpenAfterClose, Opened, Delete, Import, Flush, Pause, CloseRejected, At
  <2> QED
    BY <2>1 DEF Stepped, Fits
<1>6. CASE List
  <2>1. screen.at = "opening" /\ screen.account # None
    BY <1>6 DEF List, Fits, At
  <2> QED
    BY <1>6, <2>1, Moves DEF Begun, Stepped, Fits
<1>7. ASSUME NEW next \in {"open", "import", "create", "delete"}, NEW a \in Accounts \cup {None}, Leave(next, a)
      PROVE  ScreenOK'
  <2>1. screen.account # None /\ (next = "import" => a # None)
    BY <1>7 DEF Leave, Fits
  <2> QED
    BY <1>7, <2>1, Moves DEF Begun, Fits
<1>8. CASE CloseFails \/ Restart \/ DeleteNothing \/ \E both \in BOOLEAN : Stop(both)
  <2>1. Begun("error", None, "none", None) \/ Begun("closing", None, "open", None)
        \/ Begun("start", None, "none", None)
    BY <1>8, Moves
  <2> QED
    BY <2>1 DEF Begun, Fits
<1>9. CASE Closed
  <2>1. (screen.next = "delete" => screen.account # None) /\ (screen.next = "import" => screen.then # None)
    BY <1>9 DEF Closed, Fits, At
  <2> QED
    BY <1>9, <2>1, Moves DEF Begun, Fits
<1>10. CASE Deleted
  <2>1. screen.at = "deleting"
    BY <1>10 DEF Deleted, At
  <2> QED
    BY <1>10, <2>1, Moves DEF Begun, Stepped, Fits
<1>11. CASE Imported
  <2>1. screen.account # None
    BY <1>11 DEF Imported, Fits, At
  <2> QED
    BY <1>11, <2>1, Moves DEF Begun, Fits
<1> QED
  BY <1>1, <1>2, <1>3, <1>4, <1>5, <1>6, <1>7, <1>8, <1>9, <1>10, <1>11 DEF Next, Shown, ScreenStays

\* The conjuncts of TypeOK.
ServiceTypes ==
    /\ {opened, data, selected} \subseteq Accounts \cup {None}
    /\ made \subseteq Accounts /\ rows \subseteq Accounts /\ leftover \subseteq Accounts
    /\ stored \in [Accounts -> Settings \cup {Unset}]
Loading == store.status = "loading" => \E i \in Slots : reads[i] # Free
ReadTypes == reads \in [Slots -> Reads] /\ store \in Stores /\ Loading
CallSeqTypes == calls \in Seq(Calls) /\ answer \in {"none", "ok", "failed"}
BoundTypes == changes \in 0 .. MaxChanges /\ faults \in 0 .. MaxFaults /\ stops \in 0 .. MaxStops
ScreenTypes ==
    /\ screen.account \in Accounts \cup {None}
    /\ screen.at \in {"opening", "creating", "home", "deleting", "importing"} => screen.account # None

LEMMA TypeParts == TypeOK <=> ServiceTypes /\ ReadTypes /\ CallSeqTypes /\ BoundTypes /\ ScreenTypes
BY DEF TypeOK, ServiceTypes, Loading, ReadTypes, CallSeqTypes, BoundTypes, ScreenTypes, Stores, Reads

LEMMA TypePartsNext ==
    ServiceTypes' /\ ReadTypes' /\ CallSeqTypes' /\ BoundTypes' /\ ScreenTypes' => TypeOK'
BY DEF TypeOK, ServiceTypes, Loading, ReadTypes, CallSeqTypes, BoundTypes, ScreenTypes, Stores, Reads

LEMMA AskedTypes ==
    ASSUME calls \in Seq(Calls), NEW op \in {"create", "open", "close", "delete", "import"},
           NEW a \in Accounts \cup {None}, Ask(op, a)
    PROVE  /\ calls' \in Seq(Calls)
           /\ DOMAIN calls = 1 .. Len(calls) /\ Len(calls) \in Nat
           /\ DOMAIN calls' = 1 .. Len(calls) + 1
           /\ \A k \in DOMAIN calls : calls'[k] = calls[k] /\ k \in DOMAIN calls' /\ k < Len(calls) + 1
           /\ \A k \in DOMAIN calls' : k \in DOMAIN calls \/ k = Len(calls) + 1
           /\ Len(calls) + 1 \in DOMAIN calls'
           /\ calls'[Len(calls) + 1].op = op /\ calls'[Len(calls) + 1].account = a
           /\ calls'[Len(calls) + 1].slot = 0
<1>1. Call(op, a) \in Calls /\ Call(op, a).op = op /\ Call(op, a).account = a /\ Call(op, a).slot = 0
  BY CallTypes
<1> QED
  BY <1>1, CallAsked DEF Ask

LEMMA SlotRead ==
    ASSUME reads \in [Slots -> Reads], NEW i \in Slots
    PROVE  LET r == [reads EXCEPT ![i].step = "asked"]
           IN  /\ r \in [Slots -> Reads] /\ r[i].step = "asked" /\ r[i] # Free
               /\ r[i].value = reads[i].value
               /\ \A j \in Slots : j # i => r[j] = reads[j]
BY DEF Reads, Free

LEMMA PersistTypes ==
    ASSUME calls \in Seq(Calls), reads \in [Slots -> Reads], store \in Stores, Loading, Persist
    PROVE  /\ calls' \in Seq(Calls) /\ reads' \in [Slots -> Reads] /\ store' \in Stores /\ Loading'
<1>1. store' \in Stores
  BY StoreTypes DEF Persist
<1>2. CASE store.status = "off"
  <2>1. PICK i \in Slots : /\ reads' = [reads EXCEPT ![i].step = "asked"]
                          /\ calls' = Append(calls, [Call("get", None) EXCEPT !.slot = i])
    BY <1>2 DEF Persist
  <2>2. calls' \in Seq(Calls)
    BY <2>1, CallTypes, CallAsked
  <2>3. reads' \in [Slots -> Reads] /\ reads'[i] # Free
    BY <2>1, SlotRead
  <2> QED
    BY <1>1, <2>2, <2>3 DEF Loading
<1>3. CASE store.status # "off"
  <2>1. UNCHANGED <<calls, reads>> /\ store' = Persisted(store)
    BY <1>3 DEF Persist
  <2>2. Persisted(store).status = store.status
    BY <1>3 DEF Persisted, Stores
  <2> QED
    BY <1>1, <2>1, <2>2 DEF Loading
<1> QED
  BY <1>2, <1>3

LEMMA BridgeTypes ==
    ASSUME ServiceTypes, reads \in [Slots -> Reads], Loading, CloseBridge
    PROVE  /\ opened' = None /\ data' = None /\ leftover' = {} /\ calls' = <<>>
           /\ calls' \in Seq(Calls) /\ reads' \in [Slots -> Reads]
           /\ \A i \in Slots : (reads'[i] = Free <=> reads[i] = Free) /\ reads'[i].value = reads[i].value
BY DEF CloseBridge, Reads, Free

---------------------------------------------------------------------------
LEMMA ServedTypes ==
    ASSUME calls \in Seq(Calls), NEW op, Serve(op)
    PROVE  /\ calls' \in Seq(Calls) /\ Head(calls) \in Calls /\ Head(calls).op = op
           /\ Head(calls).account \in Accounts \cup {None} /\ Head(calls).slot \in {0} \cup Slots
           /\ Head(calls).value \in Settings \cup {Unset}
<1>1. calls' \in Seq(Calls) /\ Head(calls) \in Calls /\ Head(calls).op = op
  BY CallServed DEF Serve
<1> QED
  BY <1>1 DEF Calls

LEMMA ServedOurs ==
    ASSUME Types, NEW op \in Ours, Serve(op)
    PROVE  /\ op = Operation /\ answer = "none"
           /\ op # "close" => Head(calls).account = screen.account
           /\ \A k \in DOMAIN calls' : calls'[k].op \notin Ours
<1>1. /\ calls' \in Seq(Calls) /\ 1 \in DOMAIN calls /\ Head(calls) = calls[1] /\ Head(calls).op = op
      /\ \A k \in DOMAIN calls' : k \in Nat /\ k \in 1 .. Len(calls') /\ k + 1 \in DOMAIN calls /\ calls'[k] = calls[k + 1]
  BY CallServed DEF Types, TypeOK, Serve
<1>2. op = Operation /\ answer = "none" /\ (op # "close" => Head(calls).account = screen.account)
  BY <1>1 DEF Types, OneCall
<1>3. ASSUME NEW k \in DOMAIN calls', calls'[k].op \in Ours PROVE FALSE
  <2>1. k + 1 # 1
    BY <1>1, <1>3
  <2> QED
    BY <1>1, <1>3, <2>1 DEF Types, OneCall
<1> QED
  BY <1>2, <1>3

LEMMA ServiceTypeStep ==
    ASSUME Types, [Next]_vars
    PROVE  ServiceTypes'
<1>0. /\ ServiceTypes /\ calls \in Seq(Calls) /\ screen.account \in Accounts \cup {None}
      /\ screen.at \in {"opening", "creating", "home", "deleting", "importing"} => screen.account # None
      /\ Unset \in Settings \cup {Unset} /\ Default \in Settings /\ Fits(screen)
  BY TypeParts, Values DEF Types, ScreenOK, CallSeqTypes, ScreenTypes
<1> USE <1>0 DEF ServiceTypes, service
<1>1. CASE ServePut
  BY <1>1, ServedTypes DEF ServePut
<1>2. CASE ServeCreate
  <2>1. /\ Serve("create") /\ "create" \in Ours /\ "create" # "close"
    BY <1>2 DEF ServeCreate, Ours
  <2>2. "create" = Operation /\ Head(calls).account = screen.account
    BY <2>1, ServedOurs
  <2>3. screen.at = "creating"
    BY <2>2 DEF Operation, Fits, Types, ScreenOK, Screens, Stages
  <2>4. Head(calls).account \in Accounts
    BY <2>2, <2>3
  <2> QED
    BY <1>2, <2>4 DEF ServeCreate
<1>3. CASE ServeOpen
  BY <1>3, ServedTypes DEF ServeOpen
<1>4. CASE ServeImport
  <2>1. Head(calls).account \in Accounts
    BY <1>4, ServedOurs, ServedTypes DEF ServeImport, Ours, Operation, Fits
  <2> QED
    BY <1>4, <2>1 DEF ServeImport
<1>5. CASE ServeClose
  BY <1>5 DEF ServeClose
<1>6. CASE ServeDelete
  BY <1>6 DEF ServeDelete
<1>7. CASE ServeGet \/ Write \/ Change \/ \E i \in Slots : Rehydrate(i)
  BY <1>7 DEF ServeGet, Write, Change, Rehydrate
<1>8. CASE \E a \in Accounts : Deliver(a)
  BY <1>8 DEF Deliver
<1>9. CASE Start \/ Created \/ Open \/ OpenAfterClose \/ Opened \/ \E a \in Accounts : Create(a)
  BY <1>9 DEF Start, Create, Created, Open, OpenAfterClose, Opened
<1>10. CASE List
  BY <1>10 DEF List
<1>11. CASE Flush \/ Pause \/ CloseRejected \/ Delete \/ Import \/ Imported \/ Restart
  BY <1>11 DEF Flush, Pause, CloseRejected, Delete, Import, Imported, Restart
<1>12. CASE Closed \/ Deleted \/ CloseFails \/ DeleteNothing
  BY <1>12 DEF Closed, Deleted, CloseFails, DeleteNothing, ResetStore, CloseBridge
<1>13. CASE \E both \in BOOLEAN : Stop(both)
  BY <1>13 DEF Stop
<1>14. CASE \E next \in {"open", "import", "create", "delete"}, a \in Accounts \cup {None} : Leave(next, a)
  BY <1>14 DEF Leave
<1>15. CASE UNCHANGED vars
  BY <1>15 DEF vars
<1> QED
  BY <1>1, <1>2, <1>3, <1>4, <1>5, <1>6, <1>7, <1>8, <1>9, <1>10, <1>11, <1>12, <1>13, <1>14, <1>15
  DEF Next, Served, Shown

LEMMA CallTypeStep ==
    ASSUME Types, [Next]_vars
    PROVE  CallSeqTypes'
<1>0. /\ calls \in Seq(Calls) /\ answer \in {"none", "ok", "failed"} /\ ReadTypes
      /\ screen.account \in Accounts \cup {None} /\ None \in Accounts \cup {None}
  BY TypeParts DEF Types, CallSeqTypes, ScreenTypes
<1> USE <1>0 DEF CallSeqTypes
<1>1. CASE Served
  <2>1. \E op : Serve(op)
    BY <1>1 DEF Served, ServeGet, ServePut, ServeCreate, ServeOpen, ServeImport, ServeClose, ServeDelete
  <2>2. answer' \in {"none", "ok", "failed"}
    BY <1>1 DEF Served, ServeGet, ServePut, ServeCreate, ServeOpen, ServeImport, ServeClose, ServeDelete
  <2> QED
    BY <2>1, <2>2, ServedTypes
<1>2. CASE Write
  <2>1. Put(store.last) \in Calls
    BY CallTypes DEF ReadTypes, Stores
  <2> QED
    BY <1>2, <2>1, CallAsked DEF Write
<1>3. ASSUME NEW i \in Slots, Rehydrate(i) PROVE CallSeqTypes'
  <2>1. \A c \in Calls : [c EXCEPT !.slot = 0] \in Calls
    BY DEF Calls
  <2> QED
    BY <1>3, <2>1 DEF Rehydrate
<1>4. CASE Flush
  <2>1. Put(store.last) \in Calls
    BY CallTypes DEF ReadTypes, Stores
  <2>2. Flushed \in Seq(Calls)
    BY <2>1 DEF Flushed
  <2>3. \A c \in Calls, b \in BOOLEAN : [c EXCEPT !.awaited = b] \in Calls
    BY DEF Calls
  <2>4. \A i \in DOMAIN Flushed : [Flushed[i] EXCEPT !.awaited = (Flushed[i].op = "put")] \in Calls
    <3> TAKE i \in DOMAIN Flushed
    <3> DEFINE b == Flushed[i].op = "put"
    <3>1. Flushed[i] \in Calls /\ b \in BOOLEAN
      BY <2>2
    <3> HIDE DEF b
    <3>2. [Flushed[i] EXCEPT !.awaited = b] \in Calls
      BY <2>3, <3>1
    <3> QED
      BY <3>2 DEF b
  <2> QED
    BY <1>4, <2>2, <2>4 DEF Flush
<1>5. CASE (\E a \in Accounts : Create(a)) \/ Open \/ OpenAfterClose \/ Pause \/ Delete \/ Import
  <2>1. calls' = calls \/ \E op \in {"create", "open", "close", "delete", "import"}, a \in Accounts \cup {None} : Ask(op, a)
    BY <1>5 DEF Create, Open, OpenAfterClose, Pause, Delete, Import
  <2>2. answer' \in {"none", "ok", "failed"}
    BY <1>5 DEF Create, Open, OpenAfterClose, Pause, Delete, Import, Answered
  <2> QED
    BY <2>1, <2>2, AskedTypes
<1>6. CASE Created \/ Opened
  <2>1. calls' = calls \/ Persist
    BY <1>6 DEF Created, Opened
  <2>2. answer' = "none"
    BY <1>6 DEF Created, Opened, Answered
  <2> QED
    BY <2>1, <2>2, PersistTypes DEF ReadTypes
<1>7. CASE Closed \/ Deleted \/ DeleteNothing \/ \E both \in BOOLEAN : Stop(both)
  <2>1. calls' = calls \/ calls' = <<>>
    BY <1>7 DEF Closed, Deleted, DeleteNothing, Stop, CloseBridge
  <2>2. answer' = "none" \/ answer' = answer
    BY <1>7 DEF Closed, Deleted, DeleteNothing, Stop, Answered
  <2>3. <<>> \in Seq(Calls)
    OBVIOUS
  <2>4. calls' \in Seq(Calls)
    BY <2>1, <2>3
  <2> QED
    BY <2>2, <2>4
<1>8. CASE Change \/ CloseFails \/ Restart \/ Start \/ List \/ (\E a \in Accounts : Deliver(a)) \/ UNCHANGED vars
  BY <1>8 DEF Change, CloseFails, Restart, Start, List, Deliver, vars
<1>9. CASE CloseRejected \/ Imported
  BY <1>9 DEF CloseRejected, Imported, Answered
<1>10. CASE \E next \in {"open", "import", "create", "delete"}, a \in Accounts \cup {None} : Leave(next, a)
  BY <1>10 DEF Leave
<1> QED
  BY <1>1, <1>2, <1>3, <1>4, <1>5, <1>6, <1>7, <1>8, <1>9, <1>10 DEF Next, Shown

LEMMA ReadTypeStep ==
    ASSUME Types, [Next]_vars
    PROVE  ReadTypes'
<1>0. /\ calls \in Seq(Calls) /\ reads \in [Slots -> Reads] /\ store \in Stores /\ Loading
      /\ ServiceTypes /\ changes \in 0 .. MaxChanges
      /\ store.last \in Settings \cup {Unset}
      /\ screen.account \in Accounts \cup {None} /\ MaxChanges \in Nat
  BY TypeParts, SessionAssumption DEF Types, CallSeqTypes, ReadTypes, BoundTypes, ScreenTypes, Stores
<1> USE <1>0 DEF ReadTypes
<1>1. CASE ServeGet
  <2>1. PICK value \in Settings \cup {Unset} : reads' = Answers(value) /\ store' = store
    BY <1>1 DEF ServeGet, ServiceTypes
  <2>2. reads' \in [Slots -> Reads]
    BY <2>1 DEF Answers, Reads
  <2>3. \A i \in Slots : reads[i] # Free => reads'[i] # Free
    BY <2>1 DEF Answers, Free
  <2> QED
    BY <2>1, <2>2, <2>3 DEF Loading
<1>2. CASE Served /\ ~ServeGet
  BY <1>2 DEF Served, ServePut, ServeCreate, ServeOpen, ServeImport, ServeClose, ServeDelete, Loading
<1>3. ASSUME NEW i \in Slots, Rehydrate(i) PROVE ReadTypes'
  <2>1. reads[i].value \in Settings \cup {Unset} /\ Free \in Reads
    BY Values DEF Reads
  <2>2. store' \in Stores /\ store'.status = "on"
    BY <1>3, <2>1, StoreTypes DEF Rehydrate
  <2> QED
    BY <1>3, <2>1, <2>2 DEF Rehydrate, Loading
<1>4. CASE Write \/ Flush
  <2>1. store' = [store EXCEPT !.pending = FALSE] /\ reads' = reads
    BY <1>4 DEF Write, Flush
  <2> QED
    BY <2>1 DEF Stores, Loading
<1>5. CASE Change
  <2>1. [by |-> screen.account, n |-> changes + 1] \in Settings
    BY <1>5, Values DEF Change
  <2>2. [store EXCEPT !.settings = [by |-> screen.account, n |-> changes + 1]] \in Stores
    BY <2>1 DEF Stores
  <2>3. [store EXCEPT !.settings = [by |-> screen.account, n |-> changes + 1]].status = store.status
    BY DEF Stores
  <2> QED
    BY <1>5, <2>2, <2>3, UpdatedIs DEF Change, Loading
<1>6. CASE Created \/ Opened
  <2>1. UNCHANGED <<reads, store>> \/ Persist
    BY <1>6 DEF Created, Opened
  <2> QED
    BY <2>1, PersistTypes DEF Loading
<1>7. CASE List
  <2>1. [Updated(store) EXCEPT !.pending = TRUE] \in Stores
        /\ [Updated(store) EXCEPT !.pending = TRUE].status = store.status
    BY UpdatedIs DEF Stores
  <2> QED
    BY <1>7, <2>1 DEF List, Loading
<1>8. CASE Pause
  <2>1. store' = [store EXCEPT !.paused = TRUE] /\ reads' = reads
    BY <1>8 DEF Pause
  <2> QED
    BY <2>1 DEF Stores, Loading
<1>9. CASE Closed \/ CloseFails
  <2>1. store' = Reset(store)
    BY <1>9 DEF Closed, CloseFails, ResetStore
  <2>2. reads' = reads \/ CloseBridge
    BY <1>9 DEF Closed, CloseFails
  <2>3. store' \in Stores /\ store'.status = "off"
    BY <2>1, StoreTypes
  <2> QED
    BY <2>2, <2>3, BridgeTypes DEF Loading
<1>10. CASE Deleted \/ DeleteNothing
  <2>1. store' = store /\ (reads' = reads \/ CloseBridge)
    BY <1>10 DEF Deleted, DeleteNothing
  <2> QED
    BY <2>1, BridgeTypes DEF Loading
<1>11. CASE \E both \in BOOLEAN : Stop(both)
  <2>1. store' = NewStore /\ reads' = [i \in Slots |-> Free]
    BY <1>11 DEF Stop
  <2>2. NewStore.status = "off"
    BY DEF NewStore
  <2> QED
    BY <2>1, <2>2, Values DEF Loading
<1>12. CASE UNCHANGED <<reads, store>>
  BY <1>12 DEF Loading
<1>13. CASE \/ Start \/ Open \/ OpenAfterClose \/ CloseRejected \/ Delete \/ Import \/ Imported \/ Restart
            \/ (\E a \in Accounts : Create(a) \/ Deliver(a)) \/ UNCHANGED vars
  BY <1>12, <1>13 DEF Start, Open, OpenAfterClose, CloseRejected, Delete, Import, Imported, Restart, Create,
       Deliver, vars
<1>14. CASE \E next \in {"open", "import", "create", "delete"}, a \in Accounts \cup {None} : Leave(next, a)
  BY <1>12, <1>14 DEF Leave
<1> QED
  BY <1>1, <1>2, <1>3, <1>4, <1>5, <1>6, <1>7, <1>8, <1>9, <1>10, <1>11, <1>13, <1>14 DEF Next, Shown

LEMMA BoundTypeStep ==
    ASSUME Types, [Next]_vars
    PROVE  BoundTypes'
<1>0. BoundTypes /\ {MaxChanges, MaxFaults, MaxStops} \subseteq Nat
  BY TypeParts, SessionAssumption DEF Types
<1> USE <1>0 DEF BoundTypes
<1>1. CASE Change
  BY <1>1 DEF Change
<1>2. CASE \E both \in BOOLEAN : Stop(both)
  BY <1>2 DEF Stop
<1>3. ASSUME changes' = changes, stops' = stops, faults' = faults \/ Fault PROVE BoundTypes'
  BY <1>3 DEF Fault
<1>4. CASE Served
  BY <1>3, <1>4 DEF Served, ServeGet, ServePut, ServeCreate, ServeOpen, ServeImport, ServeClose, ServeDelete, bounds
<1>5. CASE \E i \in Slots : Rehydrate(i)
  BY <1>3, <1>5 DEF Rehydrate, Fault
<1>6. CASE CloseFails
  BY <1>3, <1>6 DEF CloseFails
<1>7. CASE \/ Shown \/ Write \/ Restart \/ DeleteNothing \/ (\E a \in Accounts : Create(a) \/ Deliver(a)) \/ UNCHANGED vars
  BY <1>7 DEF Shown, Start, Created, Open, OpenAfterClose, Opened, List, Flush, Pause, Closed, CloseRejected, Delete,
     Deleted, Import, Imported, Write, Restart, DeleteNothing, Create, Deliver, vars, bounds
<1>8. CASE \E next \in {"open", "import", "create", "delete"}, a \in Accounts \cup {None} : Leave(next, a)
  BY <1>8 DEF Leave, bounds
<1> QED
  BY <1>1, <1>2, <1>4, <1>5, <1>6, <1>7, <1>8 DEF Next

LEMMA TypeStep ==
    ASSUME Types, [Next]_vars
    PROVE  TypeOK' /\ ScreenOK'
<1>1. ScreenOK'
  BY ScreenStep DEF Types
<1>2. ScreenTypes'
  BY <1>1 DEF ScreenOK, Screens, Fits, ScreenTypes
<1> QED
  BY <1>1, <1>2, TypePartsNext, ServiceTypeStep, CallTypeStep, ReadTypeStep, BoundTypeStep

---------------------------------------------------------------------------
(* The call of the screen.                                                 *)

NoneOurs == \A k \in DOMAIN calls : calls[k].op \notin Ours

LEMMA Quiet ==
    ASSUME OneCall
    PROVE  /\ Operation \notin Ours => answer = "none" /\ NoneOurs
           /\ answer # "none" => NoneOurs
BY DEF OneCall, NoneOurs

LEMMA NoCall == NoneOurs' /\ answer' = "none" => OneCall'
BY DEF NoneOurs, OneCall

LEMMA OperationIs ==
    ASSUME ScreenOK'
    PROVE  /\ \A at, a, n, t : Begun(at, a, n, t) => Operation' = IF at = "creating" THEN "create" ELSE "begin"
           /\ \A step : Stepped(step) /\ step # "begin" => Operation' = step
<1>1. \A at, a, n, t : Begun(at, a, n, t) => Operation' = IF at = "creating" THEN "create" ELSE "begin"
  BY DEF Begun, Operation
<1>2. \A step : Stepped(step) /\ step # "begin" => Operation' = step
  BY DEF Stepped, Operation, ScreenOK, Fits
<1> QED
  BY <1>1, <1>2

LEMMA AskedCall ==
    ASSUME calls \in Seq(Calls), NoneOurs, answer' = "none",
           NEW op \in Ours, NEW a \in Accounts \cup {None}, Ask(op, a),
           Operation' = op, op = "close" \/ a = screen'.account
    PROVE  OneCall'
<1>1. op \in {"create", "open", "close", "delete", "import"}
  BY DEF Ours
<1>2. \A k \in DOMAIN calls' : calls'[k].op \in Ours =>
         k = Len(calls) + 1 /\ calls'[k].op = op /\ calls'[k].account = a
  BY <1>1, AskedTypes DEF NoneOurs
<1> QED
  BY <1>2 DEF OneCall

\* Calls of redux-persist come and go.
LEMMA OthersCalls ==
    ASSUME calls \in Seq(Calls), OneCall, UNCHANGED <<answer, Operation, screen>>,
           \A k \in DOMAIN calls' : calls'[k].op \in Ours =>
              /\ k \in DOMAIN calls /\ calls'[k].op = calls[k].op
              /\ calls'[k].account = calls[k].account
    PROVE  OneCall'
BY DEF OneCall

LEMMA PersistCalls ==
    ASSUME calls \in Seq(Calls), NoneOurs, Persist
    PROVE  NoneOurs'
<1>1. CASE store.status = "off"
  <2>1. PICK i \in Slots : calls' = Append(calls, [Call("get", None) EXCEPT !.slot = i])
    BY <1>1 DEF Persist
  <2>2. [Call("get", None) EXCEPT !.slot = i] \in Calls /\ [Call("get", None) EXCEPT !.slot = i].op \notin Ours
    BY CallTypes DEF Ours
  <2> QED
    BY <2>1, <2>2, CallAsked DEF NoneOurs
<1>2. CASE store.status # "off"
  BY <1>2 DEF Persist, NoneOurs
<1> QED
  BY <1>1, <1>2

LEMMA FlushedCalls ==
    ASSUME calls \in Seq(Calls), store \in Stores
    PROVE  /\ Flushed \in Seq(Calls)
           /\ \A k \in DOMAIN calls : k \in DOMAIN Flushed /\ Flushed[k] = calls[k]
           /\ \A k \in DOMAIN Flushed : k \in DOMAIN calls \/
                 (store.pending /\ Flushed[k].op = "put" /\ Flushed[k].value = store.last /\ Flushed[k].slot = 0)
<1>1. /\ Put(store.last) \in Calls /\ Put(store.last).op = "put" /\ Put(store.last).value = store.last
      /\ Put(store.last).slot = 0
  BY CallTypes DEF Stores
<1> QED
  BY <1>1 DEF Flushed

LEMMA FlushCalls ==
    ASSUME calls \in Seq(Calls), store \in Stores, Flush
    PROVE  /\ DOMAIN calls' = DOMAIN Flushed
           /\ \A k \in DOMAIN calls' : /\ calls'[k].op = Flushed[k].op /\ calls'[k].account = Flushed[k].account
                                      /\ calls'[k].slot = Flushed[k].slot /\ calls'[k].value = Flushed[k].value
<1>1. /\ DOMAIN calls' = DOMAIN Flushed
      /\ \A k \in DOMAIN calls' : \E b : calls'[k] = [Flushed[k] EXCEPT !.awaited = b]
  BY DEF Flush
<1>2. \A k \in DOMAIN Flushed : Flushed[k] \in Calls
  BY FlushedCalls
<1>3. \A b : \A c \in Calls : LET d == [c EXCEPT !.awaited = b]
                          IN  d.op = c.op /\ d.account = c.account /\ d.slot = c.slot /\ d.value = c.value
  BY DEF Calls
<1>4. ASSUME NEW k \in DOMAIN calls'
      PROVE  /\ calls'[k].op = Flushed[k].op /\ calls'[k].account = Flushed[k].account
             /\ calls'[k].slot = Flushed[k].slot /\ calls'[k].value = Flushed[k].value
  <2>1. PICK b : calls'[k] = [Flushed[k] EXCEPT !.awaited = b]
    BY <1>1
  <2>2. Flushed[k] \in Calls
    BY <1>1, <1>2
  <2> QED
    BY <1>3, <2>1, <2>2
<1> QED
  BY <1>1, <1>4

LEMMA RehydrateCalls ==
    ASSUME calls \in Seq(Calls), NEW i \in Slots, Rehydrate(i)
    PROVE  /\ DOMAIN calls' = DOMAIN calls
           /\ \A k \in DOMAIN calls :
                 /\ calls'[k].op = calls[k].op /\ calls'[k].account = calls[k].account
                 /\ calls'[k].value = calls[k].value
                 /\ calls'[k].slot = IF calls[k].slot = i THEN 0 ELSE calls[k].slot
<1>1. \A c \in Calls : LET d == [c EXCEPT !.slot = 0]
                       IN  d.op = c.op /\ d.account = c.account /\ d.value = c.value /\ d.slot = 0
  BY DEF Calls
<1> QED
  BY <1>1 DEF Rehydrate

LEMMA ServedOthers ==
    ASSUME calls \in Seq(Calls), OneCall, UNCHANGED <<answer, screen>>, NEW op, Serve(op)
    PROVE  OneCall'
<1>1. \A k \in DOMAIN calls' : k \in Nat /\ k + 1 \in DOMAIN calls /\ calls'[k] = calls[k + 1]
  BY CallServed DEF Serve
<1> QED
  BY <1>1 DEF OneCall, Operation

LEMMA OneCallStep ==
    ASSUME Types, [Next]_vars
    PROVE  OneCall'
<1>0. /\ calls \in Seq(Calls) /\ store \in Stores /\ OneCall /\ TypeOK /\ ScreenOK /\ ScreenOK'
      /\ Fits(screen) /\ screen.account \in Accounts \cup {None} /\ None \in Accounts \cup {None}
  BY TypeParts, TypeStep DEF Types, CallSeqTypes, ReadTypes, ScreenTypes, ScreenOK
<1> USE <1>0
<1>1. CASE ServeGet \/ ServePut
  BY <1>1, ServedOthers DEF ServeGet, ServePut
<1>2. CASE ServeCreate \/ ServeOpen \/ ServeImport \/ ServeClose \/ ServeDelete
  <2>1. \E op \in Ours : Serve(op) /\ screen' = screen
    BY <1>2 DEF ServeCreate, ServeOpen, ServeImport, ServeClose, ServeDelete, Ours
  <2>2. NoneOurs' /\ Operation' = Operation /\ Operation \in Ours
    BY <2>1, ServedOurs DEF NoneOurs, Operation
  <2> QED
    BY <2>2 DEF NoneOurs, OneCall
<1>3. CASE Write
  <2>1. /\ Put(store.last) \in Calls /\ Put(store.last).op = "put" /\ calls' = Append(calls, Put(store.last))
        /\ UNCHANGED <<answer, screen, Operation>>
    BY <1>3, CallTypes DEF Stores, Write, Operation
  <2>2. \A k \in DOMAIN calls' : calls'[k].op \in Ours => k \in DOMAIN calls /\ calls'[k] = calls[k]
    BY <2>1, CallAsked DEF Ours
  <2> QED
    BY <2>1, <2>2, OthersCalls
<1>4. ASSUME NEW i \in Slots, Rehydrate(i) PROVE OneCall'
  <2>1. UNCHANGED <<answer, screen, Operation>>
    BY <1>4 DEF Rehydrate, Operation
  <2> QED
    BY <1>4, <2>1, RehydrateCalls, OthersCalls
<1>5. CASE Flush
  <2>1. answer = "none" /\ NoneOurs /\ answer' = answer
    BY <1>5, Quiet DEF Flush, At, Operation, Ours
  <2>2. NoneOurs'
    BY <1>5, <2>1, FlushCalls, FlushedCalls DEF NoneOurs, Ours
  <2> QED
    BY <2>1, <2>2, NoCall
<1>6. CASE Change \/ (\E a \in Accounts : Deliver(a)) \/ UNCHANGED vars
  <2>1. UNCHANGED <<calls, answer, screen>>
    BY <1>6 DEF Change, Deliver, vars
  <2> QED
    BY <2>1 DEF OneCall, Operation
<1>7. ASSUME NEW a \in Accounts, Create(a) PROVE OneCall'
  <2>1. answer = "none" /\ NoneOurs /\ answer' = answer /\ Ask("create", a)
    BY <1>7, Quiet DEF Create, Operation, Ours, Fits
  <2>2. Operation' = "create" /\ screen'.account = a
    BY <1>7, Moves, OperationIs DEF Begun
  <2> QED
    BY <2>1, <2>2, AskedCall DEF Ours
<1>8. CASE Created \/ Opened
  <2>1. NoneOurs /\ answer' = "none" /\ (calls' = calls \/ Persist)
    BY <1>8, Quiet DEF Created, Opened, Answered
  <2> QED
    BY <2>1, PersistCalls, NoCall DEF NoneOurs
<1>9. CASE Open
  <2>1. screen.at = "opening" /\ answer = "none" /\ NoneOurs /\ answer' = answer
    BY <1>9, Quiet DEF Open, At, Operation, Ours
  <2>2. CASE opened = screen.account
    <3>1. NoneOurs' /\ answer' = "none"
      BY <1>9, <2>1, <2>2 DEF Open, NoneOurs
    <3> QED
      BY <3>1, NoCall
  <2>3. CASE opened # screen.account /\ opened = None
    <3>1. Ask("open", screen.account) /\ Operation' = "open" /\ screen'.account = screen.account
      BY <1>9, <2>3, Moves, OperationIs DEF Open, Stepped
    <3> QED
      BY <2>1, <3>1, AskedCall DEF Ours
  <2>4. CASE opened # screen.account /\ opened # None
    <3>1. Ask("close", None) /\ Operation' = "close"
      BY <1>9, <2>4, Moves, OperationIs DEF Open
    <3> QED
      BY <2>1, <3>1, AskedCall DEF Ours
  <2> QED
    BY <2>2, <2>3, <2>4
<1>10. CASE OpenAfterClose
  <2>1. NoneOurs /\ answer' = "none"
    BY <1>10, Quiet DEF OpenAfterClose, Answered
  <2>2. CASE answer = "ok"
    <3>1. Ask("open", screen.account) /\ Operation' = "open" /\ screen'.account = screen.account
      BY <1>10, <2>2, Moves, OperationIs DEF OpenAfterClose, Stepped
    <3> QED
      BY <2>1, <3>1, AskedCall DEF Ours
  <2>3. CASE answer # "ok"
    <3>1. NoneOurs'
      BY <1>10, <2>1, <2>3 DEF OpenAfterClose, NoneOurs
    <3> QED
      BY <2>1, <3>1, NoCall
  <2> QED
    BY <2>2, <2>3
<1>11. CASE Pause
  <2>1. answer = "none" /\ NoneOurs /\ answer' = answer /\ Ask("close", None)
    BY <1>11, Quiet DEF Pause, At, Operation, Ours
  <2>2. Operation' = "close"
    BY <1>11, Moves, OperationIs
  <2> QED
    BY <2>1, <2>2, AskedCall DEF Ours
<1>12. CASE Delete
  <2>1. answer = "none" /\ NoneOurs /\ answer' = answer /\ Ask("delete", screen.account)
    BY <1>12, Quiet DEF Delete, At, Operation, Ours
  <2>2. Operation' = "delete" /\ screen'.account = screen.account
    BY <1>12, Moves, OperationIs DEF Stepped
  <2> QED
    BY <2>1, <2>2, AskedCall DEF Ours
<1>13. CASE Import
  <2>1. answer = "none" /\ NoneOurs /\ answer' = answer /\ Ask("import", screen.account)
    BY <1>13, Quiet DEF Import, At, Operation, Ours
  <2>2. Operation' = "import" /\ screen'.account = screen.account
    BY <1>13, Moves, OperationIs DEF Stepped
  <2> QED
    BY <2>1, <2>2, AskedCall DEF Ours
<1>14. CASE Closed \/ CloseRejected \/ Deleted \/ Imported
  <2>1. NoneOurs /\ answer' = "none"
    BY <1>14, Quiet DEF Closed, CloseRejected, Deleted, Imported, Answered
  <2>2. calls' = calls \/ calls' = <<>>
    BY <1>14 DEF Closed, CloseRejected, Deleted, Imported, CloseBridge
  <2>3. NoneOurs'
    BY <2>1, <2>2 DEF NoneOurs
  <2> QED
    BY <2>1, <2>3, NoCall
<1>15. CASE Start \/ List \/ CloseFails \/ Restart \/ DeleteNothing
  <2>1. Operation \notin Ours
    BY <1>15 DEF Start, List, CloseFails, Restart, DeleteNothing, At, Operation, Ours, Fits
  <2>2. NoneOurs /\ answer = "none" /\ answer' = answer /\ (calls' = calls \/ calls' = <<>>)
    BY <1>15, <2>1, Quiet DEF Start, List, CloseFails, Restart, DeleteNothing, CloseBridge
  <2>3. NoneOurs'
    BY <2>2 DEF NoneOurs
  <2> QED
    BY <2>2, <2>3, NoCall
<1>16. CASE \E next \in {"open", "import", "create", "delete"}, a \in Accounts \cup {None} : Leave(next, a)
  <2>1. Operation \notin Ours
    BY <1>16 DEF Leave, Operation, Ours, Fits
  <2>2. NoneOurs /\ answer = "none" /\ answer' = answer /\ calls' = calls
    BY <1>16, <2>1, Quiet DEF Leave
  <2> QED
    BY <2>2, NoCall DEF NoneOurs
<1>17. CASE \E both \in BOOLEAN : Stop(both)
  <2>1. calls' = <<>> /\ answer' = "none"
    BY <1>17 DEF Stop
  <2> QED
    BY <2>1, NoCall DEF NoneOurs
<1> QED
  BY <1>1, <1>2, <1>3, <1>4, <1>5, <1>6, <1>7, <1>8, <1>9, <1>10, <1>11, <1>12, <1>13, <1>14, <1>15, <1>16, <1>17
  DEF Next, Served, Shown

LEMMA TypesInit == Init => Types
<1> SUFFICES ASSUME Init PROVE Types
  OBVIOUS
<1>1. /\ screen' = screen' /\ Screen("start", None) \in Screens /\ Fits(Screen("start", None))
      /\ Screen("start", None).at = "start" /\ Screen("start", None).account = None
      /\ Screen("start", None).step = "begin"
  BY DEF Screen, Screens, Fits, Places, Stages, Nexts
<1>2. ScreenOK /\ OneCall
  BY <1>1 DEF Init, ScreenOK, OneCall
<1>3. ServiceTypes
  <2>1. \A a \in made : [by |-> a, n |-> 0] \in Settings
    <3>1. 0 \in 0 .. MaxChanges
      BY SessionAssumption
    <3>2. made \subseteq Accounts
      BY DEF Init
    <3> QED
      BY <3>1, <3>2, Values
  <2>2. stored \in [Accounts -> Settings \cup {Unset}]
    BY <2>1 DEF Init
  <2> QED
    BY <2>2 DEF Init, ServiceTypes
<1>4. ReadTypes
  BY Values DEF Init, ReadTypes, Loading, NewStore
<1>5. CallSeqTypes /\ BoundTypes /\ ScreenTypes
  BY <1>1, SessionAssumption DEF Init, CallSeqTypes, BoundTypes, ScreenTypes
<1> QED
  BY <1>2, <1>3, <1>4, <1>5, TypeParts DEF Types

\* The state is as typed, and settings that are being loaded have a read that is due.
THEOREM Typed == Spec => []TypeOK
<1>1. Types /\ [Next]_vars => Types'
  BY TypeStep, OneCallStep DEF Types
<1>2. Types => TypeOK
  BY DEF Types
<1> QED
  BY <1>1, <1>2, TypesInit, PTL DEF Spec

---------------------------------------------------------------------------
(* The account that runs.                                                  *)

LEMMA RunsStep ==
    ASSUME Types, Runs, [Next]_vars
    PROVE  Runs'
<1>0. /\ TypeOK /\ OneCall /\ ScreenOK /\ ScreenOK' /\ Fits(screen) /\ ServiceTypes
      /\ answer \in {"none", "ok", "failed"} /\ None \notin Accounts
      /\ screen.account \in Accounts \cup {None}
  BY TypeStep, TypeParts, SessionAssumption DEF Types, ScreenOK, CallSeqTypes, ScreenTypes
<1> USE <1>0 DEF Runs
<1>1. CASE UNCHANGED <<opened, data, made, screen, answer>>
  BY <1>1 DEF Operation
<1>2. CASE ServeGet \/ ServePut \/ Write \/ Change \/ (\E i \in Slots : Rehydrate(i)) \/ (\E a \in Accounts : Deliver(a))
           \/ UNCHANGED vars
  BY <1>1, <1>2 DEF ServeGet, ServePut, Write, Change, Rehydrate, Deliver, vars, service
<1>3. CASE ServeCreate
  <2>1. Operation = "create" /\ screen' = screen /\ Operation' = Operation
    BY <1>3, ServedOurs DEF ServeCreate, Ours, Operation
  <2> QED
    BY <1>3, <2>1 DEF ServeCreate, Operation, Fits
<1>4. CASE ServeOpen
  <2>1. /\ Operation = "open" /\ screen' = screen /\ Operation' = Operation /\ answer = "none"
        /\ Head(calls).account = screen.account
    BY <1>4, ServedOurs DEF ServeOpen, Ours, Operation
  <2>2. screen.at = "opening" /\ screen.step = "open"
    BY <2>1 DEF Operation, Fits
  <2> QED
    BY <1>4, <2>1, <2>2 DEF ServeOpen
<1>5. CASE ServeImport
  <2>1. /\ Operation = "import" /\ screen' = screen /\ Operation' = Operation /\ answer = "none"
        /\ Head(calls).account = screen.account
    BY <1>5, ServedOurs DEF ServeImport, Ours, Operation
  <2>2. screen.at = "importing" /\ screen.step = "import"
    BY <2>1 DEF Operation, Fits
  <2> QED
    BY <1>5, <2>1, <2>2 DEF ServeImport
<1>6. CASE ServeClose
  <2>1. Operation = "close" /\ screen' = screen /\ Operation' = Operation /\ answer = "none"
    BY <1>6, ServedOurs DEF ServeClose, Ours, Operation
  <2>2. screen.at \in {"opening", "closing"} /\ screen.step = "close"
    BY <2>1 DEF Operation, Fits
  <2> QED
    BY <1>6, <2>1, <2>2 DEF ServeClose
<1>7. CASE ServeDelete
  <2>1. Operation = "delete" /\ screen' = screen /\ Operation' = Operation /\ answer = "none"
    BY <1>7, ServedOurs DEF ServeDelete, Ours, Operation
  <2>2. screen.at = "deleting" /\ screen.step = "delete" /\ data = None
    BY <2>1 DEF Operation, Fits
  <2> QED
    BY <1>7, <2>1, <2>2 DEF ServeDelete
<1>8. CASE Start
  <2>1. UNCHANGED <<opened, data, made, answer>>
    BY <1>8 DEF Start, service
  <2> QED
    BY <1>8, <2>1, Moves, OperationIs DEF Begun
<1>9. CASE (\E a \in Accounts : Create(a)) \/ Created
  <2>1. UNCHANGED <<opened, data, made>> /\ data = None
    BY <1>9 DEF Create, Created, service
  <2> QED
    BY <1>9, <2>1, Moves, OperationIs DEF Begun
<1>10. CASE Open
  <2>1. UNCHANGED <<opened, data, made, answer>> /\ screen.at = "opening"
    BY <1>10 DEF Open, service, At
  <2>2. answer = "none"
    BY <1>10, Quiet DEF Open, At, Operation, Ours
  <2> QED
    BY <1>10, <2>1, <2>2, Moves, OperationIs DEF Stepped
<1>11. CASE OpenAfterClose
  <2>1. UNCHANGED <<opened, data, made>> /\ screen.at = "opening" /\ answer' = "none" /\ Operation = "close"
    BY <1>11 DEF OpenAfterClose, service, At, Answered, Operation
  <2> QED
    BY <1>11, <2>1, Moves, OperationIs DEF Stepped
<1>12. CASE Opened
  <2>1. UNCHANGED <<opened, data, made>> /\ screen.at = "opening" /\ screen.step = "open" /\ answer' = "none"
    BY <1>12 DEF Opened, service, At, Answered
  <2> QED
    BY <1>12, <2>1, Moves, OperationIs DEF Stepped
<1>13. CASE List
  <2>1. UNCHANGED <<opened, data, made, answer>> /\ screen.at = "opening" /\ screen.step = "list"
    BY <1>13 DEF List, service, At
  <2> QED
    BY <1>13, <2>1, Moves, OperationIs DEF Stepped, Begun
<1>14. ASSUME NEW next \in {"open", "import", "create", "delete"}, NEW a \in Accounts \cup {None}, Leave(next, a)
       PROVE  Runs'
  <2>1. UNCHANGED <<opened, data, made, answer>> /\ screen.at = "home"
    BY <1>14 DEF Leave, service
  <2> QED
    BY <1>14, <2>1, Moves, OperationIs DEF Begun
<1>15. CASE Flush \/ Pause
  <2>1. UNCHANGED <<opened, data, made, answer>> /\ screen.at = "closing" /\ answer = "none"
    BY <1>15, Quiet DEF Flush, Pause, service, At, Operation, Ours
  <2> QED
    BY <1>15, <2>1, Moves, OperationIs DEF Stepped
<1>16. CASE CloseRejected
  <2>1. UNCHANGED <<opened, data, made>> /\ screen.at = "closing"
    BY <1>16 DEF CloseRejected, service, At
  <2> QED
    BY <1>16, <2>1, Moves, OperationIs DEF Stepped
<1>17. CASE CloseFails \/ Restart
  <2>1. UNCHANGED <<opened, data, made>>
    BY <1>17 DEF CloseFails, Restart, service
  <2>2. Begun("error", None, "none", None) \/ Begun("closing", None, "open", None)
    BY <1>17, Moves
  <2> QED
    BY <2>1, <2>2, OperationIs DEF Begun
<1>18. CASE Closed
  <2>1. data = None /\ made' = made /\ answer' = "none" /\ data' = None
    BY <1>18 DEF Closed, At, Operation, Answered, CloseBridge
  <2>2. screen' \in Screens /\ screen'.step = "begin" /\ screen'.at \in {"deleting", "importing", "start"}
    BY <1>18, Moves DEF Begun
  <2>3. Operation' = "begin"
    BY <2>2 DEF Operation
  <2> QED
    BY <2>1, <2>2, <2>3
<1>19. CASE DeleteNothing \/ \E both \in BOOLEAN : Stop(both)
  <2>1. Begun("start", None, "none", None)
    BY <1>19, Moves
  <2>2. made' = made /\ (UNCHANGED <<opened, data>> \/ data' = None)
    BY <1>19 DEF DeleteNothing, Stop, CloseBridge
  <2> QED
    BY <2>1, <2>2, OperationIs DEF Begun
<1>20. CASE Delete
  <2>1. UNCHANGED <<opened, data, made, answer>> /\ screen.at = "deleting" /\ answer = "none"
    BY <1>20, Quiet DEF Delete, service, At, Operation, Ours
  <2> QED
    BY <1>20, <2>1, Moves, OperationIs DEF Stepped
<1>21. CASE Deleted
  <2>1. data = None /\ data' = None /\ made' = made /\ screen.at = "deleting" /\ answer' = "none"
    BY <1>21 DEF Deleted, At, Answered, CloseBridge
  <2>2. \/ Stepped("stuck") \/ Begun("start", None, "none", None)
        \/ \E a \in made : Begun("opening", a, "none", None)
    BY <1>21, Moves
  <2> QED
    BY <2>1, <2>2, OperationIs DEF Stepped, Begun
<1>22. CASE Import
  <2>1. UNCHANGED <<opened, data, made, answer>> /\ screen.at = "importing" /\ screen.step = "begin"
    BY <1>22 DEF Import, service, At
  <2> QED
    BY <1>22, <2>1, Moves, OperationIs DEF Stepped
<1>23. CASE Imported
  <2>1. UNCHANGED <<opened, data, made>> /\ answer' = "none"
    BY <1>23 DEF Imported, service, At, Answered
  <2>2. Begun("opening", screen.account, "none", None) \/ Begun("error", None, "none", None)
    BY <1>23, Moves
  <2> QED
    BY <2>1, <2>2, OperationIs DEF Begun
<1> QED
  BY <1>2, <1>3, <1>4, <1>5, <1>6, <1>7, <1>8, <1>9, <1>10, <1>11, <1>12, <1>13, <1>14, <1>15, <1>16, <1>17,
     <1>18, <1>19, <1>20, <1>21, <1>22, <1>23 DEF Next, Served, Shown

---------------------------------------------------------------------------
(* The rows.                                                               *)

HistoryOK == history \in [unread : BOOLEAN, unsaved : BOOLEAN, hurried : BOOLEAN, deleted : SUBSET Accounts]

LEMMA HistoryFields ==
    ASSUME HistoryOK, NEW b \in BOOLEAN, NEW s \in SUBSET Accounts
    PROVE  /\ history' = [history EXCEPT !.unread = b] => HistoryOK' /\ UNCHANGED <<history.deleted, history.hurried>>
           /\ history' = [history EXCEPT !.unsaved = b] => HistoryOK' /\ UNCHANGED <<history.deleted, history.hurried>>
           /\ history' = [history EXCEPT !.unread = b, !.unsaved = b] =>
                 HistoryOK' /\ UNCHANGED <<history.deleted, history.hurried>>
           /\ history' = [history EXCEPT !.hurried = b] =>
                 HistoryOK' /\ history'.hurried = b /\ UNCHANGED history.deleted
           /\ history' = [history EXCEPT !.deleted = s] =>
                 HistoryOK' /\ history'.deleted = s /\ UNCHANGED history.hurried
<1>1. history' = [history EXCEPT !.unread = b] => HistoryOK' /\ UNCHANGED <<history.deleted, history.hurried>>
  BY DEF HistoryOK
<1>2. history' = [history EXCEPT !.unsaved = b] => HistoryOK' /\ UNCHANGED <<history.deleted, history.hurried>>
  BY DEF HistoryOK
<1>3. history' = [history EXCEPT !.unread = b, !.unsaved = b] =>
         HistoryOK' /\ UNCHANGED <<history.deleted, history.hurried>>
  BY DEF HistoryOK
<1>4. history' = [history EXCEPT !.hurried = b] =>
         HistoryOK' /\ history'.hurried = b /\ UNCHANGED history.deleted
  BY DEF HistoryOK
<1>5. history' = [history EXCEPT !.deleted = s] =>
         HistoryOK' /\ history'.deleted = s /\ UNCHANGED history.hurried
  BY DEF HistoryOK
<1> QED
  BY <1>1, <1>2, <1>3, <1>4, <1>5

\* Only the service deletes accounts, and only the flush can be too early.
LEMMA HistoryStep ==
    ASSUME HistoryOK, Types, [Next]_vars
    PROVE  /\ HistoryOK'
           /\ \/ UNCHANGED <<history.deleted, history.hurried>>
              \/ /\ Flush /\ UNCHANGED history.deleted
                 /\ history'.hurried = (history.hurried \/ \E i \in Slots : reads[i] # Free)
              \/ /\ ServeDelete /\ data = None /\ answer' = "ok" /\ UNCHANGED history.hurried
                 /\ history'.deleted = history.deleted \cup {Head(calls).account}
<1> DEFINE Same == UNCHANGED <<history.deleted, history.hurried>>
<1>0. history.hurried \in BOOLEAN /\ history.unsaved \in BOOLEAN /\ history.deleted \in SUBSET Accounts
  BY DEF HistoryOK
<1>1. CASE Change
  <2> DEFINE b == history.unsaved \/ (screen.at = "closing" /\ screen.step # "begin")
  <2>1. b \in BOOLEAN /\ history' = [history EXCEPT !.unsaved = b]
    BY <1>0, <1>1 DEF Change
  <2> HIDE DEF b
  <2> QED
    BY <2>1, HistoryFields
<1>2. CASE Flush
  <2> DEFINE b == history.hurried \/ (\E i \in Slots : reads[i] # Free)
  <2>1. b \in BOOLEAN /\ history' = [history EXCEPT !.hurried = b]
    BY <1>0, <1>2 DEF Flush
  <2>2. b = (history.hurried \/ \E i \in Slots : reads[i] # Free)
    OBVIOUS
  <2> HIDE DEF b
  <2>3. HistoryOK' /\ history'.hurried = b /\ UNCHANGED history.deleted
    BY <2>1, HistoryFields
  <2> QED
    BY <1>2, <2>2, <2>3
<1>3. ASSUME history' = history \/ (\E b \in BOOLEAN : history' = [history EXCEPT !.unread = b])
             \/ (\E b \in BOOLEAN : history' = [history EXCEPT !.unsaved = b])
             \/ (\E b \in BOOLEAN : history' = [history EXCEPT !.unread = b, !.unsaved = b])
      PROVE  HistoryOK' /\ Same
  BY <1>3, HistoryFields DEF HistoryOK
<1>4. CASE ServeDelete
  <2>1. CASE history' = history
    BY <1>3, <2>1
  <2>2. CASE history' # history
    <3>1. /\ data = None /\ answer' = "ok"
          /\ history' = [history EXCEPT !.deleted = history.deleted \cup {Head(calls).account}]
      BY <1>4, <2>2 DEF ServeDelete
    <3>2. /\ Operation = "delete" /\ Head(calls).account = screen.account
      BY <1>4, ServedOurs DEF ServeDelete, Ours
    <3>3. screen.account \in Accounts
      BY <3>2 DEF Operation, Types, TypeOK, ScreenOK, Fits
    <3>4. history.deleted \cup {Head(calls).account} \in SUBSET Accounts
      BY <1>0, <3>2, <3>3
    <3> QED
      BY <1>4, <3>1, <3>4, HistoryFields
  <2> QED
    BY <2>1, <2>2
<1>5. CASE ServeGet \/ \E i \in Slots : Rehydrate(i)
  BY <1>3, <1>5 DEF ServeGet, Rehydrate
<1>6. CASE ServePut
  BY <1>3, <1>6 DEF ServePut
<1>7. CASE Closed \/ CloseFails \/ \E both \in BOOLEAN : Stop(both)
  BY <1>3, <1>7 DEF Closed, CloseFails, Stop, ResetStore
<1>8. CASE \/ ServeCreate \/ ServeOpen \/ ServeImport \/ ServeClose \/ Write \/ Restart \/ DeleteNothing
           \/ (\E a \in Accounts : Create(a) \/ Deliver(a)) \/ UNCHANGED vars
  BY <1>3, <1>8 DEF ServeCreate, ServeOpen, ServeImport, ServeClose, Write, Restart, DeleteNothing, Create, Deliver, vars
<1>9. CASE \/ Start \/ Created \/ Open \/ OpenAfterClose \/ Opened \/ List \/ Pause \/ CloseRejected \/ Delete
           \/ Deleted \/ Import \/ Imported
  BY <1>3, <1>9 DEF Start, Created, Open, OpenAfterClose, Opened, List, Pause, CloseRejected, Delete, Deleted, Import, Imported
<1>10. CASE \E next \in {"open", "import", "create", "delete"}, a \in Accounts \cup {None} : Leave(next, a)
  BY <1>3, <1>10 DEF Leave
<1> QED
  BY <1>1, <1>2, <1>4, <1>5, <1>6, <1>7, <1>8, <1>9, <1>10 DEF Next, Served, Shown

---------------------------------------------------------------------------
(* The rows.                                                               *)

LEMMA RowsApartStep ==
    ASSUME Types, Runs, HistoryOK, RowsApart, [Next]_vars
    PROVE  RowsApart'
<1>0. /\ TypeOK /\ OneCall /\ ScreenOK /\ ScreenOK' /\ Fits(screen) /\ ServiceTypes
      /\ answer \in {"none", "ok", "failed"} /\ None \notin Accounts
      /\ screen.account \in Accounts \cup {None}
      /\ history.deleted \subseteq history'.deleted
  BY TypeStep, TypeParts, SessionAssumption, HistoryStep DEF Types, ScreenOK, CallSeqTypes, ScreenTypes
<1> USE <1>0 DEF RowsApart
<1>1. CASE UNCHANGED <<rows, leftover, selected, screen, answer>>
  BY <1>1 DEF Now, Late
<1>2. CASE ServeGet \/ ServePut \/ Write \/ Change \/ (\E i \in Slots : Rehydrate(i)) \/ UNCHANGED vars
  BY <1>1, <1>2 DEF ServeGet, ServePut, Write, Change, Rehydrate, vars, service
<1>3. CASE ServeCreate \/ ServeOpen \/ ServeImport
  <2>0. PICK op \in {"create", "open", "import"} : Serve(op)
    BY <1>3 DEF ServeCreate, ServeOpen, ServeImport
  <2>1. Operation \in {"create", "open", "import"}
    BY <2>0, ServedOurs DEF Ours
  <2>3. UNCHANGED <<rows, leftover, selected, screen>>
    BY <1>3 DEF ServeCreate, ServeOpen, ServeImport
  <2>2. screen.at # "deleting"
    BY <2>1 DEF Operation, ScreenOK, Screens, Stages, Fits
  <2> QED
    BY <2>2, <2>3 DEF Now, Late
<1>4. CASE ServeClose
  <2>1. Operation = "close" /\ UNCHANGED <<rows, selected, screen>> /\ (leftover' = leftover \/ leftover' = leftover \cup ({data} \cap rows))
    BY <1>4, ServedOurs DEF ServeClose, Ours
  <2>2. screen.at \in {"opening", "closing"} /\ screen.step = "close"
    BY <2>1 DEF Operation, Fits
  <2>3. rows \subseteq history.deleted \cup Late
    BY <2>2 DEF Now, Late
  <2> QED
    BY <2>1, <2>2, <2>3 DEF Now, Late
<1>5. CASE ServeDelete
  <2>1. /\ Operation = "delete" /\ UNCHANGED <<rows, leftover, selected, screen>>
        /\ Head(calls).account = screen.account
    BY <1>5, ServedOurs DEF ServeDelete, Ours
  <2>2. history' = history \/ history' = [history EXCEPT !.deleted = history.deleted \cup {screen.account}]
    BY <1>5, <2>1 DEF ServeDelete
  <2>3. answer' = "ok" => screen.account \in history'.deleted
    BY <1>5, <2>1 DEF ServeDelete, HistoryOK
  <2> QED
    BY <2>1, <2>3 DEF Now, Late
<1>6. CASE \E a \in Accounts : Deliver(a)
  <2>1. PICK a \in leftover : rows' = rows \cup {a} /\ leftover' = leftover \ {a} /\ UNCHANGED <<selected, screen, answer>>
    BY <1>6 DEF Deliver
  <2>2. Late \subseteq Now
    BY DEF Late, Now
  <2> QED
    BY <2>1, <2>2 DEF Now, Late
<1>7. CASE Start \/ (\E a \in Accounts : Create(a)) \/ Created \/ Open \/ OpenAfterClose \/ Opened \/ Import \/ Imported
           \/ Restart
  <2>1. Now = {} /\ Late = {}
    BY <1>7 DEF Start, Create, Created, Open, OpenAfterClose, Opened, Import, Imported, Restart, At, Now, Late
  <2>2. UNCHANGED <<rows, leftover, selected>>
    BY <1>7 DEF Start, Create, Created, Open, OpenAfterClose, Opened, Import, Imported, Restart
  <2>3. screen'.at \notin {"home", "deleting"}
    <3>1. CASE Open \/ OpenAfterClose \/ Opened \/ Import
      BY <3>1, Moves DEF Open, OpenAfterClose, Opened, Import, At, Stepped
    <3>2. CASE Start \/ (\E a \in Accounts : Create(a)) \/ Created \/ Imported \/ Restart
      BY <3>2, Moves DEF Begun
    <3> QED
      BY <1>7, <3>1, <3>2
  <2> QED
    BY <2>1, <2>2, <2>3
<1>8. CASE List
  <2>1. screen.at = "opening" /\ screen.step = "list" /\ Now = {} /\ Late = {} /\ leftover' = leftover
    BY <1>8 DEF List, At, Now, Late
  <2>2. CASE data = None
    <3>1. UNCHANGED <<rows, selected>> /\ screen'.at = "opening"
      BY <1>8, <2>1, <2>2, Moves DEF List, Stepped
    <3> QED
      BY <2>1, <3>1
  <2>3. CASE data # None
    <3>1. data = screen.account
      BY <2>1, <2>3 DEF Runs
    <3>2. rows' = rows \cup {screen.account} /\ selected' = screen.account
      BY <1>8, <2>3, <3>1 DEF List
    <3>3. screen'.at = "home" /\ screen'.account = screen.account
      BY <1>8, <2>3, Moves DEF Begun
    <3> QED
      BY <2>1, <3>2, <3>3 DEF Now, Late
  <2> QED
    BY <2>2, <2>3
<1>9. ASSUME NEW next \in {"open", "import", "create", "delete"}, NEW a \in Accounts \cup {None}, Leave(next, a)
      PROVE  RowsApart'
  <2>1. UNCHANGED <<rows, leftover, selected>> /\ screen.at = "home"
    BY <1>9 DEF Leave
  <2> QED
    BY <1>9, <2>1, Moves DEF Begun, Now, Late
<1>10. CASE Flush \/ Pause \/ CloseRejected
  <2>1. /\ UNCHANGED <<rows, leftover, selected>> /\ screen.at = "closing"
        /\ screen.step \in {"close", "stuck"} => screen'.step \in {"close", "stuck"}
        /\ screen'.at = "closing" /\ screen'.account = screen.account
    BY <1>10, Moves DEF Flush, Pause, CloseRejected, At, Stepped
  <2> QED
    BY <2>1 DEF Now, Late
<1>11. CASE CloseFails
  <2>1. screen.at = "closing" /\ screen.step = "flush" /\ rows' = {} /\ leftover' = leftover /\ screen'.at = "error"
    BY <1>11, Moves DEF CloseFails, ResetStore, At, Begun
  <2> QED
    BY <2>1 DEF Now, Late
<1>12. CASE Closed
  <2>1. rows' = {} /\ answer' = "none" /\ screen.at = "closing" /\ screen.step = "close"
    BY <1>12 DEF Closed, ResetStore, At, Answered
  <2>2. CASE screen.next = "delete"
    <3>1. leftover' = leftover /\ screen'.at = "deleting" /\ screen'.account = screen.account
      BY <1>12, <2>2, Moves DEF Closed, Begun
    <3> QED
      BY <2>1, <3>1 DEF Late, Now
  <2>3. CASE screen.next # "delete"
    <3>1. leftover' = {} /\ screen'.at \in {"importing", "start"}
      BY <1>12, <2>3, Moves DEF Closed, Begun, CloseBridge
    <3> QED
      BY <2>1, <3>1
  <2> QED
    BY <2>2, <2>3
<1>13. CASE Delete
  <2>1. UNCHANGED <<rows, leftover, selected>> /\ screen.at = "deleting" /\ answer' = "none"
    BY <1>13, Quiet DEF Delete, At, Operation, Ours
  <2>2. screen'.at = "deleting" /\ screen'.account = screen.account
    BY <1>13, <2>1, Moves DEF Stepped
  <2> QED
    BY <2>1, <2>2 DEF Now, Late
<1>14. CASE Deleted
  <2>1. screen.at = "deleting" /\ answer \in {"ok", "failed"} /\ answer' = "none" /\ UNCHANGED <<rows, selected>>
    BY <1>14 DEF Deleted, At, Answered
  <2>2. CASE answer = "failed"
    <3>1. leftover' = leftover /\ screen'.at = "deleting" /\ screen'.account = screen.account
      BY <1>14, <2>1, <2>2, Moves DEF Deleted, Stepped
    <3> QED
      BY <2>1, <3>1 DEF Now, Late
  <2>3. CASE answer = "ok"
    <3>1. leftover' \subseteq leftover /\ screen'.at \in {"start", "opening"}
      BY <1>14, <2>3, Moves DEF Deleted, CloseBridge, Begun
    <3> QED
      BY <2>1, <2>3, <3>1 DEF Now, Late
  <2> QED
    BY <2>1, <2>2, <2>3
<1>15. CASE DeleteNothing \/ \E both \in BOOLEAN : Stop(both)
  <2>1. leftover' = {} /\ (rows' = {} \/ (rows' = rows /\ Now = {}))
    BY <1>15 DEF DeleteNothing, Stop, CloseBridge, Now
  <2>2. screen'.at = "start"
    BY <1>15, Moves DEF Begun
  <2> QED
    BY <2>1, <2>2
<1> QED
  BY <1>2, <1>3, <1>4, <1>5, <1>6, <1>7, <1>8, <1>9, <1>10, <1>11, <1>12, <1>13, <1>14, <1>15 DEF Next, Served, Shown

LEMMA RunsInit == Init => Runs /\ RowsApart /\ HistoryOK
BY DEF Init, Runs, RowsApart, HistoryOK, NewHistory, Screen, Operation, Now, Late

RowsInv == Types /\ Runs /\ HistoryOK /\ RowsApart

\* Home shows the rows of its account and of deleted ones only: an event of a stream that
\* has ended comes before its account is left for good, or of an account that is deleted
\* (closeAccount.ts ends the streams with the bridge, deleteAccount.ts does not).
THEOREM RowsAreOwn == Spec => []OwnRows
<1>1. Init => RowsInv
  BY TypesInit, RunsInit DEF RowsInv
<1>2. RowsInv /\ [Next]_vars => RowsInv'
  BY TypeStep, OneCallStep, RunsStep, HistoryStep, RowsApartStep DEF RowsInv, Types
<1>3. RowsInv => OwnRows
  BY DEF RowsInv, RowsApart, OwnRows, Now
<1> QED
  BY <1>1, <1>2, <1>3, PTL DEF Spec

---------------------------------------------------------------------------
(* The reads.                                                              *)

LEMMA CallFields ==
    ASSUME calls \in Seq(Calls), NEW k \in DOMAIN calls
    PROVE  /\ calls[k] \in Calls /\ calls[k].slot \in {0} \cup Slots
           /\ calls[k].value \in Settings \cup {Unset}
<1>1. calls[k] \in Calls
  OBVIOUS
<1> QED
  BY <1>1 DEF Calls

\* Calls that do not read come and go.
Kept(k) == k \in DOMAIN calls /\ calls'[k].op = calls[k].op /\ calls'[k].slot = calls[k].slot
Other(k) == calls'[k].op # "get" /\ calls'[k].slot = 0

LEMMA GetsSame ==
    ASSUME Gets, reads' = reads, \A k \in DOMAIN calls' : Kept(k) \/ Other(k)
    PROVE  Gets'
BY DEF Gets, Kept, Other

LEMMA GetsAsked ==
    ASSUME calls \in Seq(Calls), Gets, reads' = reads, NEW a \in Accounts \cup {None},
           NEW op \in {"create", "open", "close", "delete", "import"}, Ask(op, a)
    PROVE  Gets'
<1>1. ASSUME NEW k \in DOMAIN calls' PROVE Kept(k) \/ Other(k)
  <2>1. CASE k \in DOMAIN calls
    BY <2>1, AskedTypes DEF Kept
  <2>2. CASE k = Len(calls) + 1
    BY <2>2, AskedTypes DEF Other
  <2> QED
    BY <2>1, <2>2, AskedTypes
<1> QED
  BY <1>1, GetsSame

LEMMA GetsPersist ==
    ASSUME calls \in Seq(Calls), reads \in [Slots -> Reads], Gets, Persist
    PROVE  Gets'
<1>1. CASE store.status # "off"
  BY <1>1 DEF Persist, Gets
<1>2. CASE store.status = "off"
  <2>1. PICK i \in Slots : /\ reads[i] = Free /\ reads' = [reads EXCEPT ![i].step = "asked"]
                          /\ calls' = Append(calls, [Call("get", None) EXCEPT !.slot = i])
    BY <1>2 DEF Persist
  <2> DEFINE c == [Call("get", None) EXCEPT !.slot = i]
  <2>2. c \in Calls /\ c.op = "get" /\ c.slot = i /\ i # 0
    BY CallTypes DEF Slots
  <2>3. /\ reads'[i].step = "asked" /\ reads'[i].value = Unset
        /\ \A j \in Slots : j # i => reads'[j] = reads[j]
    BY <2>1, SlotRead DEF Free
  <2>4. calls' = Append(calls, c)
    BY <2>1
  <2> HIDE DEF c
  <2>5. /\ \A k \in DOMAIN calls : calls'[k] = calls[k]
        /\ \A k \in DOMAIN calls' : k \in DOMAIN calls \/ (k = Len(calls) + 1 /\ calls'[k] = c)
    BY <2>2, <2>4, CallAsked
  <2>7. \A k \in DOMAIN calls : calls[k].slot \in {0} \cup Slots
    BY CallFields
  <2>6. \A k \in DOMAIN calls : calls[k].op = "get" => calls[k].slot # i
    BY <2>1, <2>2 DEF Gets, Free
  <2> QED
    BY <2>2, <2>3, <2>5, <2>6, <2>7 DEF Gets
<1> QED
  BY <1>1, <1>2

LEMMA GetsStep ==
    ASSUME Types, Gets, [Next]_vars
    PROVE  Gets'
<1>0. /\ calls \in Seq(Calls) /\ store \in Stores /\ reads \in [Slots -> Reads]
      /\ screen.account \in Accounts \cup {None} /\ None \in Accounts \cup {None}
      /\ \A k \in DOMAIN calls : calls[k].slot \in {0} \cup Slots
  BY TypeParts, CallFields DEF Types, CallSeqTypes, ReadTypes, ScreenTypes
<1> USE <1>0
<1>1. ASSUME NEW op, Serve(op), reads' = reads PROVE Gets'
  <2>1. \A k \in DOMAIN calls' : k \in Nat /\ k + 1 \in DOMAIN calls /\ calls'[k] = calls[k + 1]
    BY <1>1, CallServed DEF Serve
  <2>2. ASSUME NEW k \in DOMAIN calls', NEW l \in DOMAIN calls',
               calls'[k].op = "get", calls'[l].op = "get", calls'[k].slot = calls'[l].slot,
               calls'[k].slot # 0
        PROVE  k = l
    <3>1. k + 1 = l + 1
      BY <2>1, <2>2 DEF Gets
    <3> QED
      BY <2>1, <3>1
  <2>3. \A k \in DOMAIN calls' :
           /\ calls'[k].op = "get" /\ calls'[k].slot # 0 => reads[calls'[k].slot].step = "asked"
           /\ calls'[k].op # "get" => calls'[k].slot = 0
    BY <2>1 DEF Gets
  <2> QED
    BY <1>1, <2>2, <2>3 DEF Gets
<1>2. CASE ServePut \/ ServeCreate \/ ServeOpen \/ ServeImport \/ ServeClose \/ ServeDelete
  BY <1>1, <1>2 DEF ServePut, ServeCreate, ServeOpen, ServeImport, ServeClose, ServeDelete
<1>3. CASE ServeGet
  <2>1. /\ Head(calls) = calls[1] /\ 1 \in DOMAIN calls /\ calls[1].op = "get"
        /\ \A k \in DOMAIN calls' : k \in Nat /\ k \in 1 .. Len(calls') /\ k + 1 \in DOMAIN calls /\ calls'[k] = calls[k + 1]
    BY <1>3, CallServed DEF ServeGet, Serve
  <2>2. \E value : reads' = Answers(value)
    BY <1>3 DEF ServeGet
  <2>3. \A k \in DOMAIN calls' : k + 1 # 1
    BY <2>1
  <2>4. \A k \in DOMAIN calls' : calls'[k].op = "get" /\ calls'[k].slot # 0 => calls'[k].slot # calls[1].slot
    BY <2>1, <2>3 DEF Gets
  <2>5. \A i \in Slots : reads'[i].step = "read" \/ reads'[i] = reads[i]
    BY <2>2 DEF Answers
  <2>6. \A i \in Slots : i # calls[1].slot => reads'[i] = reads[i]
    BY <2>1, <2>2 DEF Answers
  <2>7. \A k \in DOMAIN calls' : calls'[k].slot \in {0} \cup Slots
    BY <2>1
  <2>8. ASSUME NEW k \in DOMAIN calls', calls'[k].op = "get", calls'[k].slot # 0
        PROVE  reads'[calls'[k].slot].step = "asked"
    <3>1. reads[calls'[k].slot].step = "asked"
      BY <2>1, <2>8 DEF Gets
    <3>2. calls'[k].slot \in Slots /\ calls'[k].slot # calls[1].slot
      BY <2>4, <2>7, <2>8
    <3> QED
      BY <2>6, <3>1, <3>2
  <2>9. ASSUME NEW k \in DOMAIN calls', NEW l \in DOMAIN calls',
               calls'[k].op = "get", calls'[l].op = "get", calls'[k].slot = calls'[l].slot,
               calls'[k].slot # 0
        PROVE  k = l
    <3>1. k + 1 = l + 1
      BY <2>1, <2>9 DEF Gets
    <3> QED
      BY <2>1, <3>1
  <2>10. \A k \in DOMAIN calls' : calls'[k].op # "get" => calls'[k].slot = 0
    BY <2>1 DEF Gets
  <2>11. \A j \in Slots : reads'[j].step # "read" => reads'[j].value = Unset
    BY <2>5 DEF Gets
  <2> QED
    BY <2>8, <2>9, <2>10, <2>11 DEF Gets
<1>4. ASSUME NEW i \in Slots, Rehydrate(i) PROVE Gets'
  <2>1. reads' = [reads EXCEPT ![i] = Free]
    BY <1>4 DEF Rehydrate
  <2>2. i # 0
    BY DEF Slots
  <2>3. Free.value = Unset
    BY DEF Free
  <2> QED
    BY <1>4, <2>1, <2>2, <2>3, RehydrateCalls DEF Gets
<1>5. CASE Write
  <2>1. /\ Put(store.last) \in Calls /\ Put(store.last).op = "put" /\ calls' = Append(calls, Put(store.last))
        /\ reads' = reads /\ Put(store.last).slot = 0
    BY <1>5, CallTypes DEF Stores, Write
  <2>2. \A k \in DOMAIN calls' : (k \in DOMAIN calls /\ calls'[k] = calls[k]) \/ calls'[k] = Put(store.last)
    BY <2>1, CallAsked
  <2>3. \A k \in DOMAIN calls' : Kept(k) \/ Other(k)
    BY <2>1, <2>2 DEF Kept, Other
  <2> QED
    BY <2>1, <2>3, GetsSame
<1>6. CASE Flush
  <2>1. reads' = reads
    BY <1>6 DEF Flush
  <2> QED
    <3>1. \A k \in DOMAIN calls' : Kept(k) \/ Other(k)
      BY <1>6, FlushCalls, FlushedCalls DEF Kept, Other
    <3> QED
      BY <2>1, <3>1, GetsSame
<1>7. ASSUME UNCHANGED <<calls, reads>> PROVE Gets'
  BY <1>7 DEF Gets
<1>8. CASE Start \/ List \/ CloseRejected \/ Imported \/ Change \/ Restart \/ CloseFails \/ (\E a \in Accounts : Deliver(a))
           \/ UNCHANGED vars
  BY <1>7, <1>8 DEF Start, List, CloseRejected, Imported, Change, Restart, CloseFails, Deliver, vars
<1>9. CASE (\E a \in Accounts : Create(a)) \/ Open \/ OpenAfterClose \/ Pause \/ Delete \/ Import
  <2>1. \/ calls' = calls
        \/ \E op \in {"create", "open", "close", "delete", "import"}, a \in Accounts \cup {None} : Ask(op, a)
    BY <1>9 DEF Create, Open, OpenAfterClose, Pause, Delete, Import
  <2>2. reads' = reads
    BY <1>9 DEF Create, Open, OpenAfterClose, Pause, Delete, Import
  <2> QED
    BY <1>7, <2>1, <2>2, GetsAsked
<1>10. CASE Created \/ Opened
  <2>1. Persist \/ UNCHANGED <<calls, reads>>
    BY <1>10 DEF Created, Opened
  <2> QED
    BY <1>7, <2>1, GetsPersist
<1>11. ASSUME CloseBridge PROVE Gets'
  <2>1. calls' = <<>> /\ \A i \in Slots : reads'[i].step # "read" => reads'[i] = reads[i]
    BY <1>11 DEF CloseBridge, Reads
  <2>2. DOMAIN calls' = {}
    BY <2>1
  <2> QED
    BY <2>1, <2>2 DEF Gets
<1>12. CASE Closed \/ Deleted \/ DeleteNothing
  <2>1. CloseBridge \/ UNCHANGED <<calls, reads>>
    BY <1>12 DEF Closed, Deleted, DeleteNothing
  <2> QED
    BY <1>7, <1>11, <2>1
<1>13. CASE \E both \in BOOLEAN : Stop(both)
  <2>1. calls' = <<>> /\ \A i \in Slots : reads'[i].value = Unset
    BY <1>13 DEF Stop, Free
  <2>2. DOMAIN calls' = {}
    BY <2>1
  <2> QED
    BY <2>1, <2>2 DEF Gets
<1>14. CASE \E next \in {"open", "import", "create", "delete"}, a \in Accounts \cup {None} : Leave(next, a)
  BY <1>7, <1>14 DEF Leave
<1> QED
  BY <1>2, <1>3, <1>4, <1>5, <1>6, <1>8, <1>9, <1>10, <1>12, <1>13, <1>14 DEF Next, Served, Shown

---------------------------------------------------------------------------
(* The writes.                                                             *)

LEMMA StoreFields ==
    ASSUME NEW s \in Stores, NEW v \in Settings \cup {Unset}
    PROVE  /\ LET t == [s EXCEPT !.pending = FALSE]
              IN  t.settings = s.settings /\ t.last = s.last /\ t.paused = s.paused /\ ~t.pending
           /\ LET t == [s EXCEPT !.paused = TRUE]
              IN  t.settings = s.settings /\ t.last = s.last /\ t.paused /\ t.pending = s.pending
           /\ LET t == Persisted(s)
              IN  t.settings = s.settings /\ t.last = s.last /\ ~t.paused /\ t.pending = s.pending
           /\ LET t == Reset(s)
              IN  t.settings = Default /\ t.last = s.last /\ t.paused = s.paused /\ t.pending = s.pending
           /\ LET t == [s EXCEPT !.settings = v] IN v \in Settings =>
                 t \in Stores /\ t.settings = v /\ t.last = s.last /\ t.paused = s.paused /\ t.pending = s.pending
<1>1. LET t == [s EXCEPT !.pending = FALSE]
      IN  t.settings = s.settings /\ t.last = s.last /\ t.paused = s.paused /\ ~t.pending
  BY DEF Stores
<1>2. LET t == [s EXCEPT !.paused = TRUE]
      IN  t.settings = s.settings /\ t.last = s.last /\ t.paused /\ t.pending = s.pending
  BY DEF Stores
<1>3. LET t == Persisted(s)
      IN  t.settings = s.settings /\ t.last = s.last /\ ~t.paused /\ t.pending = s.pending
  BY DEF Stores, Persisted
<1>4. LET t == Reset(s)
      IN  t.settings = Default /\ t.last = s.last /\ t.paused = s.paused /\ t.pending = s.pending
  BY DEF Stores, Reset
<1>5. LET t == [s EXCEPT !.settings = v] IN v \in Settings =>
         t \in Stores /\ t.settings = v /\ t.last = s.last /\ t.paused = s.paused /\ t.pending = s.pending
  BY DEF Stores
<1> QED
  BY <1>1, <1>2, <1>3, <1>4, <1>5

\* What redux-persist has seen last is to be written, or was to be before.
LEMMA RehydratedFields ==
    ASSUME NEW s \in Stores, NEW v \in Settings \cup {Unset}
    PROVE  /\ Rehydrated(s, v).paused = s.paused
           /\ s.paused => Rehydrated(s, v).pending = s.pending /\ Rehydrated(s, v).last = s.last
           /\ Rehydrated(s, v).settings = (IF v = Unset THEN s.settings ELSE v)
           /\ Rehydrated(s, v).pending =>
                 \/ s.pending /\ Rehydrated(s, v).last = s.last
                 \/ Rehydrated(s, v).last = Rehydrated(s, v).settings
<1> DEFINE t == [s EXCEPT !.settings = IF v = Unset THEN @ ELSE v, !.status = "on"]
<1>1. /\ t \in Stores /\ t.settings = (IF v = Unset THEN s.settings ELSE v)
      /\ t.last = s.last /\ t.paused = s.paused /\ t.pending = s.pending
  BY DEF Stores
<1>2. Rehydrated(s, v) = Updated(t)
  BY DEF Rehydrated
<1> HIDE DEF t
<1>3. t.paused => Updated(t) = t
  BY <1>1, UpdatedIs
<1>4. /\ Updated(t).paused = s.paused /\ Updated(t).settings = t.settings
      /\ Updated(t).pending => (t.pending /\ Updated(t).last = t.last) \/ Updated(t).last = t.settings
  BY <1>1, UpdatedIs
<1> QED
  BY <1>1, <1>2, <1>3, <1>4

NoPut == \A k \in DOMAIN calls : calls[k].op # "put"
Earlier(value) == \E j \in DOMAIN calls : calls[j].op = "put" /\ calls[j].value = value

LEMMA PutsStep ==
    ASSUME Types, [Next]_vars
    PROVE  \A k \in DOMAIN calls' : calls'[k].op = "put" =>
              \/ Earlier(calls'[k].value)
              \/ store.pending /\ calls'[k].value = store.last /\ UNCHANGED <<screen.at, screen.account>>
<1>0. /\ calls \in Seq(Calls) /\ store \in Stores /\ reads \in [Slots -> Reads]
      /\ screen.account \in Accounts \cup {None} /\ None \in Accounts \cup {None}
      /\ TypeOK /\ ScreenOK
  BY TypeParts DEF Types, CallSeqTypes, ReadTypes, ScreenTypes
<1> SUFFICES ASSUME NEW k \in DOMAIN calls', calls'[k].op = "put"
             PROVE  \/ Earlier(calls'[k].value)
                    \/ store.pending /\ calls'[k].value = store.last /\ UNCHANGED <<screen.at, screen.account>>
  OBVIOUS
<1> USE <1>0
<1>1. ASSUME NEW op, Serve(op) PROVE Earlier(calls'[k].value)
  <2>1. k + 1 \in DOMAIN calls /\ calls'[k] = calls[k + 1]
    BY <1>1, CallServed DEF Serve
  <2> QED
    BY <2>1 DEF Earlier
<1>2. CASE Served
  BY <1>1, <1>2 DEF Served, ServeGet, ServePut, ServeCreate, ServeOpen, ServeImport, ServeClose, ServeDelete
<1>3. ASSUME NEW i \in Slots, Rehydrate(i) PROVE Earlier(calls'[k].value)
  BY <1>3, RehydrateCalls DEF Earlier
<1>4. CASE Write
  <2>1. /\ Put(store.last) \in Calls /\ Put(store.last).value = store.last /\ calls' = Append(calls, Put(store.last))
        /\ store.pending /\ screen' = screen
    BY <1>4, CallTypes DEF Stores, Write
  <2>2. (k \in DOMAIN calls /\ calls'[k] = calls[k]) \/ calls'[k] = Put(store.last)
    BY <2>1, CallAsked
  <2> QED
    BY <2>1, <2>2 DEF Earlier
<1>5. CASE Flush
  <2>1. k \in DOMAIN Flushed /\ Flushed[k].op = "put" /\ Flushed[k].value = calls'[k].value
    BY <1>5, FlushCalls
  <2>2. UNCHANGED <<screen.at, screen.account>>
    BY <1>5, Moves DEF Stepped
  <2>3. CASE k \in DOMAIN calls
    BY <2>1, <2>3, FlushedCalls DEF Earlier
  <2>4. CASE k \notin DOMAIN calls
    BY <2>1, <2>2, <2>4, FlushedCalls
  <2> QED
    BY <2>3, <2>4
<1>6. ASSUME UNCHANGED calls PROVE Earlier(calls'[k].value)
  BY <1>6 DEF Earlier
<1>7. CASE Start \/ List \/ CloseRejected \/ Imported \/ Change \/ Restart \/ CloseFails \/ (\E a \in Accounts : Deliver(a))
           \/ UNCHANGED vars
  BY <1>6, <1>7 DEF Start, List, CloseRejected, Imported, Change, Restart, CloseFails, Deliver, vars
<1>8. CASE (\E a \in Accounts : Create(a)) \/ Open \/ OpenAfterClose \/ Pause \/ Delete \/ Import
  <2>1. \/ calls' = calls
        \/ \E op \in {"create", "open", "close", "delete", "import"}, a \in Accounts \cup {None} : Ask(op, a)
    BY <1>8 DEF Create, Open, OpenAfterClose, Pause, Delete, Import
  <2>2. ASSUME NEW op \in {"create", "open", "close", "delete", "import"}, NEW a \in Accounts \cup {None}, Ask(op, a)
        PROVE  Earlier(calls'[k].value)
    BY <2>2, AskedTypes DEF Earlier
  <2> QED
    BY <1>6, <2>1, <2>2
<1>9. ASSUME Persist PROVE Earlier(calls'[k].value)
  <2>1. CASE calls' # calls
    <3>1. PICK i \in Slots : calls' = Append(calls, [Call("get", None) EXCEPT !.slot = i])
      BY <1>9, <2>1 DEF Persist
    <3>2. [Call("get", None) EXCEPT !.slot = i] \in Calls /\ [Call("get", None) EXCEPT !.slot = i].op = "get"
      BY CallTypes
    <3>3. k \in DOMAIN calls /\ calls'[k] = calls[k]
      BY <3>1, <3>2, CallAsked
    <3> QED
      BY <3>3 DEF Earlier
  <2> QED
    BY <1>6, <2>1
<1>10. CASE Created \/ Opened
  BY <1>6, <1>9, <1>10 DEF Created, Opened
<1>11. CASE Closed \/ Deleted \/ DeleteNothing \/ \E both \in BOOLEAN : Stop(both)
  <2>1. calls' = calls \/ calls' = <<>>
    BY <1>11 DEF Closed, Deleted, DeleteNothing, Stop, CloseBridge
  <2>2. calls' # <<>>
    OBVIOUS
  <2> QED
    BY <1>6, <2>1, <2>2
<1>12. CASE \E next \in {"open", "import", "create", "delete"}, a \in Accounts \cup {None} : Leave(next, a)
  BY <1>6, <1>12 DEF Leave
<1> QED
  BY <1>2, <1>3, <1>4, <1>5, <1>7, <1>8, <1>10, <1>11, <1>12 DEF Next, Shown

\* A call that is waited for is the last one that matters.
LEMMA FirstServed ==
    ASSUME calls \in Seq(Calls), NEW op, NEW other, Serve(other), First(op)
    PROVE  First(op)'
<1>1. /\ \A k \in DOMAIN calls' : k \in Nat /\ k + 1 \in DOMAIN calls /\ calls'[k] = calls[k + 1]
      /\ \A k \in DOMAIN calls : k # 1 => k - 1 \in DOMAIN calls' /\ calls'[k - 1] = calls[k]
      /\ DOMAIN calls = 1 .. Len(calls) /\ Len(calls) \in Nat
  BY CallServed DEF Serve
<1> SUFFICES ASSUME NEW k \in DOMAIN calls', calls'[k].op = op /\ (op = "get" => calls'[k].slot # 0)
             PROVE  \E j \in DOMAIN calls' : k < j /\ calls'[j].op \in Ours
  BY DEF First
<1>2. PICK j \in DOMAIN calls : k + 1 < j /\ calls[j].op \in Ours
  BY <1>1 DEF First
<1>3. j # 1 /\ j - 1 > k
  BY <1>1, <1>2
<1> QED
  BY <1>1, <1>2, <1>3

LEMMA FirstAsked ==
    ASSUME calls \in Seq(Calls), NEW op \in {"put", "get"}, NEW a \in Accounts \cup {None},
           NEW other \in {"create", "open", "close", "delete", "import"}, Ask(other, a)
    PROVE  First(op)'
<1>1. Len(calls) + 1 \in DOMAIN calls' /\ calls'[Len(calls) + 1].op \in Ours
  BY AskedTypes DEF Ours
<1>2. \A k \in DOMAIN calls' : calls'[k].op = op => k < Len(calls) + 1
  <2> TAKE k \in DOMAIN calls'
  <2>1. k \in DOMAIN calls \/ k = Len(calls) + 1
    BY AskedTypes
  <2>2. k = Len(calls) + 1 => calls'[k].op # op
    BY AskedTypes
  <2> QED
    BY <2>1, <2>2, AskedTypes
<1> QED
  BY <1>1, <1>2 DEF First

LEMMA FirstNone ==
    ASSUME OneCall, answer # "none", NEW op, First(op)
    PROVE  \A k \in DOMAIN calls : ~(calls[k].op = op /\ (op = "get" => calls[k].slot # 0))
BY Quiet DEF First, NoneOurs

LEMMA PausedStep ==
    ASSUME Types, Paused, Ordered, [Next]_vars
    PROVE  Paused'
<1>0. /\ calls \in Seq(Calls) /\ store \in Stores /\ reads \in [Slots -> Reads] /\ OneCall
      /\ screen.account \in Accounts \cup {None} /\ None \in Accounts \cup {None}
      /\ TypeOK /\ ScreenOK /\ Fits(screen) /\ answer \in {"none", "ok", "failed"}
      /\ store.last \in Settings \cup {Unset} /\ changes \in 0 .. MaxChanges
      /\ Default \in Settings
  BY TypeParts, Values DEF Types, CallSeqTypes, ReadTypes, ScreenTypes, ScreenOK, Stores, BoundTypes
<1>0a. NoPut /\ ~store.pending => NoPut'
  BY PutsStep DEF NoPut, Earlier
<1> USE <1>0 DEF Paused
<1>1. ASSUME store'.paused = store.paused, store'.pending => store.pending, UNCHANGED screen
      PROVE  Paused'
  BY <1>0a, <1>1 DEF NoPut
<1>2. CASE Served \/ (\E a \in Accounts : Deliver(a)) \/ UNCHANGED vars
  <2>1. UNCHANGED <<store, screen>>
    BY <1>2 DEF Served, ServeGet, ServePut, ServeCreate, ServeOpen, ServeImport, ServeClose, ServeDelete, Deliver, vars
  <2> QED
    BY <1>1, <2>1
<1>3. ASSUME NEW i \in Slots, Rehydrate(i) PROVE Paused'
  <2>1. reads[i].value \in Settings \cup {Unset}
    BY DEF Reads
  <2>2. /\ store'.paused = store.paused /\ UNCHANGED screen
        /\ store.paused => store'.pending = store.pending
    BY <1>3, <2>1, RehydratedFields DEF Rehydrate
  <2> QED
    BY <1>0a, <2>2 DEF NoPut
<1>4. CASE Write
  <2>1. store'.paused = store.paused /\ ~store'.pending /\ UNCHANGED screen
    BY <1>4, StoreFields DEF Write
  <2> QED
    BY <1>1, <2>1
<1>5. CASE Change
  <2>1. [by |-> screen.account, n |-> changes + 1] \in Settings
    BY <1>5, Values, SessionAssumption DEF Change
  <2> DEFINE t == [store EXCEPT !.settings = [by |-> screen.account, n |-> changes + 1]]
  <2>2. t \in Stores /\ t.paused = store.paused /\ t.pending = store.pending
    BY <2>1, StoreFields
  <2>3. store' = Updated(t) /\ UNCHANGED screen
    BY <1>5 DEF Change
  <2> HIDE DEF t
  <2>4. store'.paused = store.paused /\ (store.paused => store'.pending = store.pending)
    BY <2>2, <2>3, UpdatedIs
  <2> QED
    BY <1>0a, <2>3, <2>4 DEF NoPut
\* The store stays, and the screen comes from a place and goes to a place where nothing is excepted.
<1>6. ASSUME store' = store,
             ~(screen.at = "closing" /\ screen.step \in {"close", "stuck"}), screen.at # "deleting",
             ~(screen'.at = "closing" /\ screen'.step \in {"close", "stuck"}), screen'.at # "deleting"
      PROVE  Paused'
  BY <1>0a, <1>6 DEF NoPut
<1>7. CASE Start \/ (\E a \in Accounts : Create(a)) \/ Imported \/ Restart \/ DeleteNothing
  <2>1. store' = store /\ screen.at \notin {"closing", "deleting"}
    BY <1>7 DEF Start, Create, Imported, Restart, DeleteNothing, At
  <2>2. screen'.at # "deleting" /\ screen'.step = "begin"
    BY <1>7, Moves DEF Begun
  <2> QED
    BY <1>6, <2>1, <2>2
<1>8. CASE Open \/ OpenAfterClose \/ Import
  <2>1. store' = store /\ screen.at \notin {"closing", "deleting"}
    BY <1>8 DEF Open, OpenAfterClose, Import, At
  <2>2. screen'.at = screen.at
    BY <1>8, Moves DEF Stepped
  <2> QED
    BY <1>6, <2>1, <2>2
<1>9. CASE Created \/ Opened
  <2>1. screen'.at \notin {"closing", "deleting"} /\ screen.at \notin {"closing", "deleting"}
    BY <1>9, Moves DEF Created, Opened, At, Begun, Stepped
  <2>2. store' = store \/ ~store'.paused
    <3>1. ~Persisted(store).paused
      BY StoreFields
    <3>2. store' = store \/ store' = Persisted(store)
      BY <1>9 DEF Created, Opened, Persist
    <3> QED
      BY <3>1, <3>2
  <2> QED
    BY <1>6, <2>1, <2>2
<1>10. CASE List
  <2>1. screen'.at \notin {"closing", "deleting"} /\ screen.at \notin {"closing", "deleting"}
    BY <1>10, Moves DEF List, At, Begun, Stepped
  <2>2. CASE store' = store
    BY <1>6, <2>1, <2>2
  <2>3. CASE store' # store
    <3>1. ~store.paused /\ store' = [Updated(store) EXCEPT !.pending = TRUE]
      BY <1>10, <2>3 DEF List
    <3>2. ~store'.paused
      BY <3>1, UpdatedIs DEF Stores
    <3> QED
      BY <2>1, <3>2
  <2> QED
    BY <2>2, <2>3
<1>11. ASSUME NEW next \in {"open", "import", "create", "delete"}, NEW a \in Accounts \cup {None}, Leave(next, a)
       PROVE  Paused'
  <2>1. store' = store /\ screen.at = "home"
    BY <1>11 DEF Leave
  <2>2. screen'.at = "closing" /\ screen'.step = "begin"
    BY <1>11, Moves DEF Begun
  <2> QED
    BY <1>6, <2>1, <2>2
<1>12. CASE Flush
  <2>1. screen.at = "closing" /\ screen.step = "begin" /\ store'.paused = store.paused /\ ~store'.pending
    BY <1>12, StoreFields DEF Flush, At
  <2>2. screen'.at = "closing" /\ screen'.step = "flush"
    BY <1>12, <2>1, Moves DEF Stepped
  <2> QED
    BY <1>0a, <2>1, <2>2 DEF NoPut
<1>13. CASE Pause
  <2>1. screen.at = "closing" /\ store'.paused
    BY <1>13, StoreFields DEF Pause, At
  <2>2. screen'.at = "closing" /\ screen'.step = "close"
    BY <1>13, <2>1, Moves DEF Stepped
  <2> QED
    BY <2>1, <2>2
<1>14. CASE CloseRejected
  <2>1. screen.at = "closing" /\ screen.step = "close" /\ store' = store
    BY <1>14 DEF CloseRejected, At
  <2>2. screen'.at = "closing" /\ screen'.step = "stuck"
    BY <1>14, <2>1, Moves DEF Stepped
  <2> QED
    BY <2>1, <2>2
<1>15. CASE CloseFails
  <2>1. /\ screen.at = "closing" /\ screen.step = "flush" /\ store'.paused
        /\ store'.paused = store.paused /\ store'.pending = store.pending
    BY <1>15, StoreFields DEF CloseFails, At, ResetStore
  <2>2. screen'.at = "error"
    BY <1>15, Moves DEF Begun
  <2> QED
    BY <1>0a, <2>1, <2>2 DEF NoPut
<1>16. CASE Closed
  <2>1. /\ screen.at = "closing" /\ screen.step = "close" /\ ~store.pending
        /\ store'.paused = store.paused /\ store'.pending = store.pending
    BY <1>16, StoreFields DEF Closed, At, ResetStore, Answered
  <2>2. CASE screen.next = "delete"
    <3>1. screen'.at = "deleting"
      BY <1>16, <2>2, Moves DEF Begun
    <3> QED
      BY <2>1, <3>1
  <2>3. CASE screen.next # "delete"
    <3>1. screen'.at \in {"importing", "start"} /\ calls' = <<>>
      BY <1>16, <2>3, Moves DEF Begun, Closed, CloseBridge
    <3> QED
      BY <2>1, <3>1
  <2> QED
    BY <2>2, <2>3
<1>17. CASE Delete
  <2>1. screen.at = "deleting" /\ store' = store
    BY <1>17 DEF Delete, At
  <2>2. screen'.at = "deleting"
    BY <1>17, <2>1, Moves DEF Stepped
  <2> QED
    BY <2>1, <2>2
<1>18. CASE Deleted
  <2>1. screen.at = "deleting" /\ screen.step = "delete" /\ store' = store /\ answer # "none"
    BY <1>18 DEF Deleted, At, Answered
  <2>2. NoPut
    BY <2>1, FirstNone DEF Ordered, NoPut
  <2>3. NoPut'
    BY <1>0a, <2>1, <2>2
  <2>4. screen'.at # "closing"
    BY <1>18, <2>1, Moves DEF Stepped, Begun
  <2> QED
    BY <2>1, <2>3, <2>4 DEF NoPut
<1>19. CASE \E both \in BOOLEAN : Stop(both)
  <2>1. store' = NewStore /\ calls' = <<>> /\ screen'.at = "start"
    BY <1>19, Moves DEF Stop, Begun
  <2>2. ~NewStore.pending
    BY DEF NewStore
  <2> QED
    BY <2>1, <2>2
<1> QED
  BY <1>2, <1>3, <1>4, <1>5, <1>7, <1>8, <1>9, <1>10, <1>11, <1>12, <1>13, <1>14, <1>15, <1>16, <1>17, <1>18, <1>19
  DEF Next, Shown

LEMMA OrderedStep ==
    ASSUME Types, Paused, Ordered, [Next]_vars
    PROVE  Ordered'
<1>0. /\ calls \in Seq(Calls) /\ store \in Stores /\ OneCall
      /\ screen.account \in Accounts \cup {None} /\ None \in Accounts \cup {None}
      /\ TypeOK /\ ScreenOK /\ ScreenOK' /\ Fits(screen)
  BY TypeParts, TypeStep DEF Types, CallSeqTypes, ReadTypes, ScreenTypes, ScreenOK
<1> USE <1>0 DEF Ordered
<1>1. ASSUME UNCHANGED screen, First("put") => First("put")' \/ screen.at # "deleting", First("get") => First("get")'
      PROVE  Ordered'
  BY <1>1 DEF Operation
<1>2. CASE Served
  <2>1. UNCHANGED screen /\ \E other : Serve(other)
    BY <1>2 DEF Served, ServeGet, ServePut, ServeCreate, ServeOpen, ServeImport, ServeClose, ServeDelete
  <2> QED
    BY <1>1, <2>1, FirstServed
<1>3. ASSUME NEW i \in Slots, Rehydrate(i) PROVE Ordered'
  <2>1. UNCHANGED screen
    BY <1>3 DEF Rehydrate
  <2>2. First("put") => First("put")'
    BY <1>3, RehydrateCalls DEF First
  <2>3. First("get") => First("get")'
    BY <1>3, RehydrateCalls DEF First
  <2> QED
    BY <1>1, <2>1, <2>2, <2>3
<1>4. CASE Write
  <2>1. /\ Put(store.last) \in Calls /\ Put(store.last).op = "put" /\ calls' = Append(calls, Put(store.last))
        /\ store.pending /\ UNCHANGED screen
    BY <1>4, CallTypes DEF Stores, Write
  <2>2. /\ \A k \in DOMAIN calls : k \in DOMAIN calls' /\ calls'[k] = calls[k]
        /\ \A k \in DOMAIN calls' : (k \in DOMAIN calls /\ calls'[k] = calls[k]) \/ calls'[k] = Put(store.last)
    BY <2>1, CallAsked
  <2>3. First("get") => First("get")'
    BY <2>1, <2>2 DEF First
  <2>4. screen.at # "deleting"
    BY <2>1 DEF Paused
  <2> QED
    BY <1>1, <2>1, <2>3, <2>4
<1>5. CASE Change \/ (\E a \in Accounts : Deliver(a)) \/ UNCHANGED vars
  <2>1. UNCHANGED <<calls, screen>>
    BY <1>5 DEF Change, Deliver, vars
  <2> QED
    BY <1>1, <2>1 DEF First
<1>6. ASSUME Operation' # "open", ~(screen'.at = "deleting" /\ screen'.step = "delete")
      PROVE  Ordered'
  BY <1>6
<1>7. CASE Open \/ OpenAfterClose
  <2>1. screen'.at # "deleting"
    BY <1>7, Moves DEF Open, OpenAfterClose, At, Stepped
  <2>2. CASE Ask("open", screen.account)
    BY <2>1, <2>2, FirstAsked
  <2>3. CASE ~Ask("open", screen.account)
    <3>1. Operation' # "open"
      BY <1>7, <2>3, Moves, OperationIs DEF Open, OpenAfterClose
    <3> QED
      BY <1>6, <2>1, <3>1
  <2> QED
    BY <2>2, <2>3
<1>8. CASE Delete
  <2>1. Operation' # "open" /\ Ask("delete", screen.account)
    BY <1>8, Moves, OperationIs DEF Delete
  <2> QED
    BY <2>1, FirstAsked
<1>9. CASE Opened \/ Flush \/ Pause \/ CloseRejected \/ Import
  <2>1. Operation' # "open" /\ screen'.at # "deleting"
    BY <1>9, Moves, OperationIs DEF Opened, Flush, Pause, CloseRejected, Import, At, Stepped
  <2> QED
    BY <1>6, <2>1
<1>10. CASE Start \/ (\E a \in Accounts : Create(a)) \/ Created \/ CloseFails \/ Closed \/ Imported \/ Restart
            \/ DeleteNothing \/ \E both \in BOOLEAN : Stop(both)
  <2>1. \E at, a, n, t : Begun(at, a, n, t)
    BY <1>10, Moves
  <2>2. screen'.step # "delete" /\ Operation' # "open"
    BY <2>1, OperationIs DEF Begun
  <2> QED
    BY <1>6, <2>2
<1>11. ASSUME NEW next \in {"open", "import", "create", "delete"}, NEW a \in Accounts \cup {None}, Leave(next, a)
       PROVE  Ordered'
  <2>1. screen'.step # "delete" /\ Operation' # "open"
    BY <1>11, Moves, OperationIs DEF Begun
  <2> QED
    BY <1>6, <2>1
<1>12. CASE List \/ Deleted
  <2>1. Stepped("stuck") \/ \E at, a, n, t : Begun(at, a, n, t)
    BY <1>12, Moves
  <2>2. screen'.step # "delete" /\ Operation' # "open"
    BY <2>1, OperationIs DEF Begun, Stepped
  <2> QED
    BY <1>6, <2>2
<1> QED
  BY <1>2, <1>3, <1>4, <1>5, <1>7, <1>8, <1>9, <1>10, <1>11, <1>12 DEF Next, Shown

---------------------------------------------------------------------------
(* Reads that are waited for.                                              *)

LEMMA IdleStep ==
    ASSUME Types, Gets, [Next]_vars, Idle
    PROVE  Idle' \/ (Created /\ answer = "ok") \/ (Opened /\ answer = "ok")
<1>0. calls \in Seq(Calls) /\ reads \in [Slots -> Reads]
  BY TypeParts DEF Types, CallSeqTypes, ReadTypes
<1> USE <1>0
<1>1. CASE reads' = reads
  BY <1>1 DEF Idle
<1>2. CASE ServeGet
  <2>1. /\ Head(calls) = calls[1] /\ 1 \in DOMAIN calls /\ calls[1].op = "get"
    BY <1>2, CallServed DEF ServeGet, Serve
  <2>2. calls[1].slot \notin Slots
    BY <2>1 DEF Gets, Idle, Free, Slots
  <2>3. \E value : reads' = Answers(value)
    BY <1>2 DEF ServeGet
  <2> QED
    BY <2>1, <2>2, <2>3 DEF Answers, Idle
<1>3. CASE \E i \in Slots : Rehydrate(i)
  BY <1>3 DEF Rehydrate, Idle
<1>4. CASE Created \/ Opened
  BY <1>1, <1>4 DEF Created, Opened
<1>5. CASE Closed \/ Deleted \/ DeleteNothing
  <2>1. reads' = reads \/ CloseBridge
    BY <1>5 DEF Closed, Deleted, DeleteNothing
  <2>2. CloseBridge => Idle'
    BY DEF CloseBridge, Idle, Free
  <2> QED
    BY <1>1, <2>1, <2>2
<1>6. CASE \E both \in BOOLEAN : Stop(both)
  BY <1>6 DEF Stop, Idle
<1>7. CASE ServePut \/ ServeCreate \/ ServeOpen \/ ServeImport \/ ServeClose \/ ServeDelete \/ UNCHANGED vars
  BY <1>1, <1>7 DEF ServePut, ServeCreate, ServeOpen, ServeImport, ServeClose, ServeDelete, vars
<1>8. CASE \/ Start \/ Open \/ OpenAfterClose \/ List \/ Flush \/ Pause \/ CloseRejected \/ Delete \/ Import \/ Imported
           \/ Write \/ Change \/ CloseFails \/ Restart
  BY <1>1, <1>8 DEF Start, Open, OpenAfterClose, List, Flush, Pause, CloseRejected, Delete, Import, Imported, Write, Change,
     CloseFails, Restart
<1>9. CASE \E a \in Accounts : Create(a) \/ Deliver(a)
  BY <1>1, <1>9 DEF Create, Deliver
<1>10. CASE \E next \in {"open", "import", "create", "delete"}, a \in Accounts \cup {None} : Leave(next, a)
  BY <1>1, <1>10 DEF Leave
<1> QED
  BY <1>2, <1>3, <1>4, <1>5, <1>6, <1>7, <1>8, <1>9, <1>10 DEF Next, Served, Shown

LEMMA WaitsStep ==
    ASSUME Types, Runs, Gets, Waits, [Next]_vars, Flush => Idle
    PROVE  Waits'
<1>0. /\ OneCall /\ TypeOK /\ ScreenOK /\ ScreenOK' /\ Fits(screen) /\ Fits(screen)'
      /\ answer \in {"none", "ok", "failed"}
  BY TypeParts, TypeStep DEF Types, CallSeqTypes, ScreenOK
<1> USE <1>0 DEF Waits
<1>1. ASSUME UNCHANGED screen, data' = data \/ data' = None PROVE Waits'
  <2>1. ~Created /\ ~Opened
    BY <1>1, Moves DEF Created, Opened, Begun, Stepped, At
  <2> QED
    BY <1>1, <2>1, IdleStep
<1>2. CASE ServeGet \/ ServePut \/ ServeCreate \/ ServeClose \/ ServeDelete \/ (\E i \in Slots : Rehydrate(i))
           \/ Write \/ Change \/ (\E a \in Accounts : Deliver(a)) \/ UNCHANGED vars
  <2>1. UNCHANGED screen /\ (data' = data \/ data' = None)
    BY <1>2 DEF ServeGet, ServePut, ServeCreate, ServeClose, ServeDelete, Rehydrate, Write, Change, Deliver, vars, service
  <2> QED
    BY <1>1, <2>1
<1>3. CASE ServeOpen
  <2>1. Operation = "open" /\ UNCHANGED screen
    BY <1>3, ServedOurs DEF ServeOpen, Ours
  <2>2. screen.at = "opening" /\ screen.step = "open"
    BY <2>1 DEF Operation, Fits
  <2> QED
    BY <2>1, <2>2
<1>4. CASE ServeImport
  <2>1. Operation = "import" /\ UNCHANGED screen /\ reads' = reads
    BY <1>4, ServedOurs DEF ServeImport, Ours
  <2>2. screen.at = "importing"
    BY <2>1 DEF Operation, Fits
  <2> QED
    BY <2>1, <2>2 DEF Idle
<1>5. CASE Start \/ (\E a \in Accounts : Create(a)) \/ Delete \/ Import \/ Imported \/ Restart \/ Pause \/ CloseRejected
           \/ CloseFails
  <2>1. Idle
    BY <1>5 DEF Start, Create, Delete, Import, Imported, Restart, Pause, CloseRejected, CloseFails, At
  <2>2. reads' = reads
    BY <1>5 DEF Start, Create, Delete, Import, Imported, Restart, Pause, CloseRejected, CloseFails
  <2> QED
    BY <2>1, <2>2 DEF Idle
<1>6. CASE Flush
  BY <1>6 DEF Flush, Idle
<1>7. CASE Created
  <2>1. data = None /\ data' = data
    BY <1>7 DEF Created, Runs, service
  <2>2. CASE answer = "ok"
    BY <1>7, <2>1, <2>2, Moves DEF Begun
  <2>3. CASE answer # "ok"
    BY <1>7, <2>3 DEF Created, Idle
  <2> QED
    BY <2>2, <2>3
<1>8. CASE Open
  <2>1. screen.at = "opening" /\ screen.step = "begin" /\ data' = data /\ reads' = reads
    BY <1>8 DEF Open, At, service
  <2> QED
    BY <1>8, <2>1, Moves DEF Stepped, Idle
<1>9. CASE OpenAfterClose
  <2>1. screen.at = "opening" /\ screen.step = "close" /\ data' = data /\ reads' = reads
    BY <1>9 DEF OpenAfterClose, At, service
  <2> QED
    BY <1>9, <2>1, Moves DEF Stepped, Idle
<1>10. CASE Opened
  <2>1. screen.at = "opening" /\ Operation = "open" /\ data' = data
    BY <1>10 DEF Opened, At, service, Operation
  <2>2. answer # "ok" => data = None
    BY <2>1 DEF Runs
  <2> QED
    BY <1>10, <2>1, <2>2, Moves DEF Stepped
<1>11. CASE List
  <2>1. screen.at = "opening" /\ data' = data
    BY <1>11 DEF List, At, service
  <2> QED
    BY <1>11, <2>1, Moves DEF Stepped, Begun
<1>12. ASSUME NEW next \in {"open", "import", "create", "delete"}, NEW a \in Accounts \cup {None}, Leave(next, a)
       PROVE  Waits'
  <2>1. screen.account # None
    BY <1>12 DEF Leave, Fits
  <2> QED
    BY <1>12, <2>1, Moves DEF Begun
<1>13. CASE Closed \/ Deleted \/ DeleteNothing
  <2>1. Idle
    BY <1>13 DEF Closed, Deleted, DeleteNothing, At
  <2>2. ~Created /\ ~Opened
    BY <1>13 DEF Closed, Deleted, DeleteNothing, Created, Opened, At
  <2>3. Idle'
    BY <2>1, <2>2, IdleStep
  <2> QED
    BY <2>3
<1>14. CASE \E both \in BOOLEAN : Stop(both)
  BY <1>14 DEF Stop, Idle
<1> QED
  BY <1>2, <1>3, <1>4, <1>5, <1>6, <1>7, <1>8, <1>9, <1>10, <1>11, <1>12, <1>13, <1>14 DEF Next, Served, Shown

---------------------------------------------------------------------------
(* The settings.                                                           *)

LEMMA OwnFacts ==
    /\ \A a : Own(Unset, a) /\ Own(Default, a)
    /\ \A v, a : Own(v, None) => Own(v, a)
BY DEF Own, Unset, Default

\* What was of no account may be of any.
Widens == Of' = Of \/ Of = None

LEMMA OwnWidens == Widens => \A v : Own(v, Of) => Own(v, Of')
BY OwnFacts DEF Widens

LEMMA OfStep ==
    ASSUME Types, Runs, [Next]_vars
    PROVE  Widens \/ Closed \/ CloseFails \/ \E both \in BOOLEAN : Stop(both)
<1>0. /\ OneCall /\ TypeOK /\ ScreenOK /\ ScreenOK' /\ Fits(screen) /\ Fits(screen)'
      /\ screen.account \in Accounts \cup {None} /\ None \notin Accounts
  BY TypeParts, TypeStep, SessionAssumption DEF Types, ScreenOK, ScreenTypes
<1> USE <1>0 DEF Widens
<1>1. CASE ServeGet \/ ServePut \/ ServeCreate \/ ServeDelete \/ (\E i \in Slots : Rehydrate(i)) \/ Write \/ Change
           \/ (\E a \in Accounts : Deliver(a)) \/ UNCHANGED vars
  <2>1. UNCHANGED <<screen, data>>
    BY <1>1 DEF ServeGet, ServePut, ServeCreate, ServeDelete, Rehydrate, Write, Change, Deliver, vars, service
  <2> QED
    BY <2>1 DEF Of
<1>2. CASE ServeOpen \/ ServeImport \/ ServeClose
  <2>1. UNCHANGED screen /\ \E op \in {"open", "import", "close"} : Serve(op)
    BY <1>2 DEF ServeOpen, ServeImport, ServeClose
  <2>2. Operation \in {"open", "import", "close"}
    BY <2>1, ServedOurs DEF Ours
  <2>3. ~(screen.at = "opening" /\ screen.step = "list")
    BY <2>2 DEF Operation
  <2> QED
    BY <2>1, <2>3 DEF Of
<1>3. CASE Start \/ (\E a \in Accounts : Create(a)) \/ Created \/ Restart \/ DeleteNothing \/ Delete \/ Deleted \/ Import
           \/ Imported \/ Open \/ OpenAfterClose \/ Opened
  <2>1. screen.at \notin {"home", "closing"} /\ ~(screen.at = "opening" /\ screen.step = "list")
    BY <1>3 DEF Start, Create, Created, Restart, DeleteNothing, Delete, Deleted, Import, Imported, Open, OpenAfterClose,
       Opened, At
  <2> QED
    BY <2>1 DEF Of
<1>4. CASE List
  <2>1. screen.at = "opening" /\ screen.step = "list"
    BY <1>4 DEF List, At
  <2>2. data # None => screen'.at = "home" /\ screen'.account = screen.account
    BY <1>4, Moves DEF Begun
  <2> QED
    BY <2>1, <2>2 DEF Of
<1>5. ASSUME NEW next \in {"open", "import", "create", "delete"}, NEW a \in Accounts \cup {None}, Leave(next, a)
      PROVE  Widens
  <2>1. screen.at = "home"
    BY <1>5 DEF Leave
  <2> QED
    BY <1>5, <2>1, Moves DEF Begun, Of
<1>6. CASE Flush \/ Pause \/ CloseRejected
  <2>1. screen.at = "closing"
    BY <1>6 DEF Flush, Pause, CloseRejected, At
  <2> QED
    BY <1>6, <2>1, Moves DEF Stepped, Of
<1> QED
  BY <1>1, <1>2, <1>3, <1>4, <1>5, <1>6 DEF Next, Served, Shown

LEMMA StoredStep ==
    ASSUME Types, Runs, Clean, [Next]_vars
    PROVE  \A a \in Accounts : Own(stored'[a], a)
<1>0. /\ OneCall /\ TypeOK /\ ScreenOK /\ Fits(screen) /\ calls \in Seq(Calls)
      /\ stored \in [Accounts -> Settings \cup {Unset}]
      /\ screen.account \in Accounts \cup {None} /\ None \notin Accounts
  BY TypeParts, SessionAssumption DEF Types, ScreenOK, ScreenTypes, CallSeqTypes, ServiceTypes
<1> USE <1>0
<1>1. CASE stored' = stored
  BY <1>1 DEF Clean
<1>2. CASE ServePut
  <2>1. Head(calls) = calls[1] /\ 1 \in DOMAIN calls /\ calls[1].op = "put"
    BY <1>2, CallServed DEF ServePut, Serve
  <2>2. data # None => Own(calls[1].value, data)
    <3>1. data # None => screen.at # "deleting" /\ (Of = None \/ Of = data)
      BY DEF Runs, Of
    <3> QED
      BY <2>1, <3>1, OwnFacts DEF Clean
  <2>3. stored' = stored \/ (data # None /\ stored' = [stored EXCEPT ![data] = calls[1].value])
    BY <1>2, <2>1 DEF ServePut
  <2> QED
    BY <2>2, <2>3 DEF Clean
<1>3. CASE ServeDelete
  <2>1. stored' = stored \/ stored' = [stored EXCEPT ![Head(calls).account] = Unset]
    BY <1>3 DEF ServeDelete
  <2> QED
    BY <2>1, OwnFacts DEF Clean
<1>4. CASE ServeGet \/ ServeCreate \/ ServeOpen \/ ServeImport \/ ServeClose \/ (\E i \in Slots : Rehydrate(i))
           \/ Write \/ Change \/ (\E a \in Accounts : Create(a) \/ Deliver(a)) \/ UNCHANGED vars
  BY <1>1, <1>4 DEF ServeGet, ServeCreate, ServeOpen, ServeImport, ServeClose, Rehydrate, Write, Change, Create, Deliver,
     vars, service
<1>5. CASE \/ Start \/ Created \/ Open \/ OpenAfterClose \/ Opened \/ List \/ Flush \/ Pause \/ Closed \/ CloseRejected
           \/ Delete \/ Deleted \/ Import \/ Imported \/ CloseFails \/ Restart \/ DeleteNothing
           \/ \E both \in BOOLEAN : Stop(both)
  BY <1>1, <1>5 DEF Start, Created, Open, OpenAfterClose, Opened, List, Flush, Pause, Closed, CloseRejected, Delete, Deleted,
     Import, Imported, CloseFails, Restart, DeleteNothing, Stop, service
<1>6. CASE \E next \in {"open", "import", "create", "delete"}, a \in Accounts \cup {None} : Leave(next, a)
  BY <1>1, <1>6 DEF Leave, service
<1> QED
  BY <1>2, <1>3, <1>4, <1>5, <1>6 DEF Next, Served, Shown

\* A read is answered with the settings of the account it is for.
LEMMA ReadIsOwn ==
    ASSUME Types, Runs, Gets, Ordered, Waits, ServeGet, Head(calls).slot \in Slots, data # None
    PROVE  Of = data
<1>0. /\ OneCall /\ TypeOK /\ ScreenOK /\ Fits(screen) /\ calls \in Seq(Calls)
      /\ screen.at \in Places /\ screen.step \in Stages
      /\ answer \in {"none", "ok", "failed"}
  BY TypeParts DEF Types, ScreenOK, CallSeqTypes, Screens
<1>1. Head(calls) = calls[1] /\ 1 \in DOMAIN calls /\ calls[1].op = "get" /\ calls[1].slot # 0
  BY <1>0, CallServed DEF ServeGet, Serve, Slots
<1>2. ~Idle
  BY <1>1 DEF Gets, Idle, Free
<1>3. Operation # "open"
  <2>1. ASSUME Operation = "open" PROVE FALSE
    <3>1. answer # "none"
      BY <1>0, <2>1 DEF Runs
    <3>2. First("get")
      BY <2>1 DEF Ordered
    <3> QED
      BY <1>0, <1>1, <3>1, <3>2, FirstNone
  <2> QED
    BY <2>1
<1>4. screen.at \in {"home", "closing", "opening"}
  BY <1>0, <1>2 DEF Waits, Places
<1>5. CASE screen.at = "opening"
  <2>1. screen.step \in {"begin", "close", "open", "list", "stuck"}
    BY <1>0, <1>5 DEF Fits, Stages
  <2>2. screen.step = "list"
    BY <1>2, <1>3, <1>5, <2>1 DEF Waits, Operation
  <2> QED
    BY <1>5, <2>2 DEF Runs, Of
<1>6. CASE screen.at \in {"home", "closing"}
  <2>1. screen.account # None
    BY <1>0, <1>2, <1>6 DEF Waits, Fits
  <2> QED
    BY <1>6, <2>1 DEF Runs, Of
<1> QED
  BY <1>4, <1>5, <1>6

LEMMA ReadsStep ==
    ASSUME Types, Runs, Gets, Ordered, Waits, Clean, [Next]_vars
    PROVE  \A i \in Slots : Own(reads'[i].value, Of')
<1>0. /\ calls \in Seq(Calls) /\ reads \in [Slots -> Reads] /\ ServiceTypes /\ Loading
      /\ stored \in [Accounts -> Settings \cup {Unset}] /\ TypeOK /\ ScreenOK
      /\ data \in Accounts \cup {None}
  BY TypeParts DEF Types, CallSeqTypes, ReadTypes, ServiceTypes
<1> USE <1>0
<1>1. ASSUME Widens, \A i \in Slots : reads'[i].value \in {reads[i].value, Unset} PROVE \A i \in Slots : Own(reads'[i].value, Of')
  BY <1>1, OwnFacts, OwnWidens DEF Clean
<1>2. ASSUME Idle, \A i \in Slots : reads'[i].value \in {reads[i].value, Unset} PROVE \A i \in Slots : Own(reads'[i].value, Of')
  BY <1>2, OwnFacts DEF Idle, Free
<1>3. CASE ServeGet
  <2>1. Of' = Of /\ \E value : reads' = Answers(value) /\ (value = Unset \/ (data # None /\ value = stored[data]))
    BY <1>3 DEF ServeGet, Of, service
  <2>2. PICK value : reads' = Answers(value) /\ (value = Unset \/ (data # None /\ value = stored[data]))
    BY <2>1
  <2>3. ASSUME NEW i \in Slots, i = Head(calls).slot PROVE Own(value, Of)
    <3>1. CASE value = Unset
      BY <3>1, OwnFacts
    <3>2. CASE value # Unset
      <4>1. Of = data /\ data \in Accounts
        BY <1>3, <2>2, <2>3, <3>2, ReadIsOwn
      <4> QED
        BY <2>2, <3>2, <4>1 DEF Clean
    <3> QED
      BY <3>1, <3>2
  <2>4. \A i \in Slots : reads'[i].value = IF i = Head(calls).slot THEN value ELSE reads[i].value
    BY <2>2 DEF Answers
  <2> QED
    BY <2>1, <2>3, <2>4 DEF Clean
<1>4. ASSUME NEW i \in Slots, Rehydrate(i) PROVE \A j \in Slots : Own(reads'[j].value, Of')
  <2>1. Of' = Of /\ reads' = [reads EXCEPT ![i] = Free]
    BY <1>4 DEF Rehydrate, Of, service
  <2> QED
    BY <1>1, <2>1 DEF Free, Widens
<1>5. CASE Created \/ Opened
  <2>1. Of = None
    BY <1>5 DEF Created, Opened, At, Of
  <2>2. reads' = reads \/ \E i \in Slots : reads' = [reads EXCEPT ![i].step = "asked"]
    BY <1>5 DEF Created, Opened, Persist
  <2>3. \A i \in Slots : reads'[i].value = reads[i].value
    BY <2>2, SlotRead
  <2> QED
    BY <1>1, <2>1, <2>3 DEF Widens
<1>6. CASE Closed \/ CloseFails
  <2>1. Idle
    BY <1>6 DEF Closed, CloseFails, At, Waits
  <2>2. reads' = reads \/ CloseBridge
    BY <1>6 DEF Closed, CloseFails
  <2> QED
    BY <1>2, <2>1, <2>2, BridgeTypes
<1>7. CASE \E both \in BOOLEAN : Stop(both)
  <2>1. \A i \in Slots : reads'[i].value = Unset
    BY <1>7 DEF Stop, Free
  <2> QED
    BY <2>1, OwnFacts
<1>8. CASE Deleted \/ DeleteNothing
  <2>1. Of = None
    BY <1>8 DEF Deleted, DeleteNothing, At, Of
  <2>2. reads' = reads \/ CloseBridge
    BY <1>8 DEF Deleted, DeleteNothing
  <2> QED
    BY <1>1, <2>1, <2>2, BridgeTypes DEF Widens
<1>9. CASE reads' = reads
  <2>1. Widens => \A i \in Slots : Own(reads'[i].value, Of')
    BY <1>1, <1>9
  <2> QED
    BY <1>6, <1>7, <2>1, OfStep
<1>10. CASE ServePut \/ ServeCreate \/ ServeOpen \/ ServeImport \/ ServeClose \/ ServeDelete
           \/ Write \/ Change \/ (\E a \in Accounts : Create(a) \/ Deliver(a)) \/ UNCHANGED vars
  BY <1>9, <1>10 DEF ServePut, ServeCreate, ServeOpen, ServeImport, ServeClose, ServeDelete, Write, Change, Create, Deliver, vars
<1>11. CASE \/ Start \/ Open \/ OpenAfterClose \/ List \/ Flush \/ Pause \/ CloseRejected \/ Delete \/ Import \/ Imported
            \/ Restart
  BY <1>9, <1>11 DEF Start, Open, OpenAfterClose, List, Flush, Pause, CloseRejected, Delete, Import, Imported, Restart
<1>12. CASE \E next \in {"open", "import", "create", "delete"}, a \in Accounts \cup {None} : Leave(next, a)
  BY <1>9, <1>12 DEF Leave
<1> QED
  BY <1>3, <1>4, <1>5, <1>6, <1>7, <1>8, <1>10, <1>11, <1>12 DEF Next, Served, Shown

LEMMA ShownStep ==
    ASSUME Types, Runs, Paused, Clean, [Next]_vars
    PROVE  Own(store'.settings, Of') /\ (store'.pending => Own(store'.last, Of'))
<1>0. /\ reads \in [Slots -> Reads] /\ store \in Stores /\ TypeOK /\ ScreenOK /\ Fits(screen)
      /\ store.last \in Settings \cup {Unset} /\ store.settings \in Settings
      /\ changes \in 0 .. MaxChanges /\ screen.account \in Accounts \cup {None} /\ Default \in Settings
      /\ \A i \in Slots : reads[i].value \in Settings \cup {Unset}
  BY TypeParts, Values DEF Types, ScreenOK, ScreenTypes, ReadTypes, BoundTypes, Stores, Reads
<1> USE <1>0
<1>1. ASSUME Widens, store'.settings = store.settings,
             store'.pending => store.pending /\ store'.last = store.last
      PROVE  Own(store'.settings, Of') /\ (store'.pending => Own(store'.last, Of'))
  BY <1>1, OwnWidens DEF Clean
<1>2. ASSUME NEW i \in Slots, Rehydrate(i) PROVE Own(store'.settings, Of') /\ (store'.pending => Own(store'.last, Of'))
  <2>1. Of' = Of /\ store' = Rehydrated(store, reads[i].value)
    BY <1>2 DEF Rehydrate, Of, service
  <2>2. store'.settings \in {store.settings, reads[i].value}
    BY <2>1, RehydratedFields
  <2>3. store'.pending => (store.pending /\ store'.last = store.last) \/ store'.last = store'.settings
    BY <2>1, RehydratedFields
  <2> QED
    BY <2>1, <2>2, <2>3 DEF Clean
<1>3. CASE Change
  <2> DEFINE v == [by |-> screen.account, n |-> changes + 1]
             t == [store EXCEPT !.settings = v]
  <2>1. v \in Settings
    BY <1>3, Values, SessionAssumption DEF Change
  <2>2. t \in Stores /\ t.settings = v /\ t.last = store.last /\ t.pending = store.pending
    BY <2>1, StoreFields
  <2>3. Of' = Of /\ store' = Updated(t)
    BY <1>3 DEF Change, Of, service
  <2>4. Own(v, Of)
    BY <1>3 DEF Change, Of, Own, Fits
  <2> HIDE DEF t, v
  <2>5. /\ store'.settings = v
        /\ store'.pending => (store.pending /\ store'.last = store.last) \/ store'.last = v
    BY <2>2, <2>3, UpdatedIs
  <2> QED
    BY <2>3, <2>4, <2>5 DEF Clean
<1>4. CASE Created \/ Opened
  <2>1. Widens
    BY <1>4 DEF Created, Opened, At, Of, Widens
  <2>2. Persisted(store).settings = store.settings /\ Persisted(store).last = store.last /\ Persisted(store).pending = store.pending
    BY StoreFields
  <2>3. store' = store \/ store' = Persisted(store)
    BY <1>4 DEF Created, Opened, Persist
  <2> QED
    BY <1>1, <2>1, <2>2, <2>3
<1>5. CASE Write \/ Flush \/ Pause
  <2>1. Widens
    <3>1. CASE Write
      BY <3>1 DEF Write, Of, Widens, service
    <3>2. CASE Flush \/ Pause
      <4>1. screen.at = "closing"
        BY <3>2 DEF Flush, Pause, At
      <4> QED
        BY <3>2, <4>1, Moves DEF Stepped, Of, Widens
    <3> QED
      BY <1>5, <3>1, <3>2
  <2>2. store' = [store EXCEPT !.pending = FALSE] \/ store' = [store EXCEPT !.paused = TRUE]
    BY <1>5 DEF Write, Flush, Pause
  <2>3. store'.settings = store.settings /\ (store'.pending => store.pending /\ store'.last = store.last)
    <3>1. CASE store' = [store EXCEPT !.pending = FALSE]
      BY <3>1, StoreFields
    <3>2. CASE store' = [store EXCEPT !.paused = TRUE]
      BY <3>2, StoreFields
    <3> QED
      BY <2>2, <3>1, <3>2
  <2> QED
    BY <1>1, <2>1, <2>3
<1>6. CASE List
  <2>1. screen.at = "opening" /\ screen.step = "list" /\ data' = data
    BY <1>6 DEF List, At, service
  <2>2. Widens
    BY <1>6, <2>1, Moves DEF Widens, Of, Begun, Stepped
  <2>3. CASE store' = store
    BY <1>1, <2>2, <2>3
  <2>4. CASE store' # store
    <3>1. store' = [Updated(store) EXCEPT !.pending = TRUE] /\ store.status = "on" /\ ~store.paused
      BY <1>6, <2>4 DEF List
    <3>2. Updated(store).last = store.settings
      BY <3>1 DEF Updated, Stores
    <3>3. store'.settings = store.settings /\ store'.last = store.settings
      BY <3>1, <3>2, UpdatedIs DEF Stores
    <3> QED
      BY <2>2, <3>3, OwnWidens DEF Clean
  <2> QED
    BY <2>3, <2>4
<1>7. CASE Closed
  <2>1. ~store.pending /\ store' = Reset(store)
    BY <1>7 DEF Closed, Answered, ResetStore
  <2>2. store'.settings = Default /\ ~store'.pending
    BY <2>1, StoreFields
  <2> QED
    BY <2>2, OwnFacts
<1>8. CASE CloseFails
  <2>1. store' = Reset(store) /\ store'.paused /\ screen.at = "closing" /\ screen.step = "flush"
    BY <1>8 DEF CloseFails, ResetStore, At
  <2>2. store'.settings = Default /\ store.paused /\ store'.pending = store.pending
    BY <2>1, StoreFields
  <2>3. ~store.pending
    BY <2>1, <2>2 DEF Paused
  <2> QED
    BY <2>2, <2>3, OwnFacts
<1>9. CASE \E both \in BOOLEAN : Stop(both)
  <2>1. store' = NewStore
    BY <1>9 DEF Stop
  <2>2. NewStore.settings = Default /\ ~NewStore.pending
    BY DEF NewStore
  <2> QED
    BY <2>1, <2>2, OwnFacts
<1>10. CASE store' = store
  <2>1. Widens => Own(store'.settings, Of') /\ (store'.pending => Own(store'.last, Of'))
    BY <1>1, <1>10
  <2> QED
    BY <1>7, <1>8, <1>9, <2>1, OfStep
<1>11. CASE ServeGet \/ ServePut \/ ServeCreate \/ ServeOpen \/ ServeImport \/ ServeClose \/ ServeDelete
           \/ (\E a \in Accounts : Create(a) \/ Deliver(a)) \/ UNCHANGED vars
  BY <1>10, <1>11 DEF ServeGet, ServePut, ServeCreate, ServeOpen, ServeImport, ServeClose, ServeDelete, Create, Deliver, vars
<1>12. CASE \/ Start \/ Open \/ OpenAfterClose \/ CloseRejected \/ Delete \/ Deleted \/ Import \/ Imported
            \/ Restart \/ DeleteNothing
  BY <1>10, <1>12 DEF Start, Open, OpenAfterClose, CloseRejected, Delete, Deleted, Import, Imported, Restart, DeleteNothing
<1>13. CASE \E next \in {"open", "import", "create", "delete"}, a \in Accounts \cup {None} : Leave(next, a)
  BY <1>10, <1>13 DEF Leave
<1> QED
  BY <1>2, <1>3, <1>4, <1>5, <1>6, <1>7, <1>8, <1>9, <1>11, <1>12, <1>13 DEF Next, Served, Shown

LEMMA WritesStep ==
    ASSUME Types, Runs, Paused, Ordered, Clean, [Next]_vars
    PROVE  screen'.at # "deleting" => \A k \in DOMAIN calls' : calls'[k].op = "put" => Own(calls'[k].value, Of')
<1>0. OneCall /\ TypeOK /\ ScreenOK /\ Fits(screen) /\ store \in Stores /\ Default \in Settings
  BY TypeParts, Values DEF Types, ScreenOK, ReadTypes
<1> USE <1>0
<1> SUFFICES ASSUME screen'.at # "deleting", NEW k \in DOMAIN calls', calls'[k].op = "put"
             PROVE  Own(calls'[k].value, Of')
  OBVIOUS
<1>1. \/ Earlier(calls'[k].value)
      \/ store.pending /\ calls'[k].value = store.last /\ UNCHANGED <<screen.at, screen.account>>
  BY PutsStep
<1>2. CASE Closed
  <2>1. screen.next # "delete"
    BY <1>2, Moves DEF Begun
  <2>2. calls' = <<>>
    BY <1>2, <2>1 DEF Closed, CloseBridge
  <2> QED
    BY <2>2
<1>3. CASE CloseFails
  <2>1. store' = Reset(store) /\ store'.paused /\ screen.at = "closing" /\ screen.step = "flush"
    BY <1>3 DEF CloseFails, ResetStore, At
  <2>2. store.paused
    BY <2>1, StoreFields
  <2>3. ~store.pending /\ \A j \in DOMAIN calls : calls[j].op # "put"
    BY <2>1, <2>2 DEF Paused
  <2> QED
    BY <1>1, <2>3 DEF Earlier
<1>4. CASE \E both \in BOOLEAN : Stop(both)
  <2>1. calls' = <<>>
    BY <1>4 DEF Stop
  <2> QED
    BY <2>1
<1>5. CASE Deleted
  <2>1. screen.at = "deleting" /\ screen.step = "delete" /\ answer # "none"
    BY <1>5 DEF Deleted, At, Answered
  <2>2. \A j \in DOMAIN calls : calls[j].op # "put"
    BY <2>1, FirstNone DEF Ordered
  <2> QED
    BY <1>1, <2>1, <2>2 DEF Earlier
<1>6. CASE Widens /\ screen.at # "deleting"
  BY <1>1, <1>6, OwnWidens DEF Earlier, Clean
<1>7. ASSUME screen.at = "deleting" PROVE (\E both \in BOOLEAN : Stop(both)) \/ Deleted
  <2>1. ~ScreenStays
    BY <1>7, Moves
  <2>2. ~Delete
    BY <1>7, Moves DEF Stepped
  <2>3. ~(\/ Start \/ Created \/ Open \/ OpenAfterClose \/ Opened \/ List \/ Flush \/ Pause \/ Closed \/ CloseRejected
          \/ Import \/ Imported \/ CloseFails \/ Restart \/ DeleteNothing \/ \E a \in Accounts : Create(a))
    BY <1>7 DEF Start, Created, Open, OpenAfterClose, Opened, List, Flush, Pause, Closed, CloseRejected, Import, Imported,
       CloseFails, Restart, DeleteNothing, Create, At
  <2>4. ~\E next \in {"open", "import", "create", "delete"}, a \in Accounts \cup {None} : Leave(next, a)
    BY <1>7 DEF Leave
  <2> QED
    BY <2>1, <2>2, <2>3, <2>4 DEF Next, Shown, ScreenStays
<1> QED
  BY <1>2, <1>3, <1>4, <1>5, <1>6, <1>7, OfStep

LEMMA SettingsInit == Init => Gets /\ Paused /\ Ordered /\ Waits /\ Clean
<1> SUFFICES ASSUME Init PROVE Gets /\ Paused /\ Ordered /\ Waits /\ Clean
  OBVIOUS
<1>1. /\ screen.at = "start" /\ screen.account = None /\ screen.step = "begin" /\ calls = <<>>
      /\ store.settings = Default /\ ~store.pending /\ store.paused /\ \A i \in Slots : reads[i] = Free
  BY DEF Init, Screen, NewStore
<1>2. Gets /\ Paused /\ Ordered /\ Waits
  BY <1>1 DEF Gets, Paused, Ordered, Waits, Idle, Free, Operation
<1>3. \A a \in Accounts : Own(stored[a], a)
  BY OwnFacts DEF Init, Own
<1>4. Clean
  BY <1>1, <1>3, OwnFacts DEF Clean, Of, Free
<1> QED
  BY <1>2, <1>4

SettingsInv == RowsInv /\ Gets /\ Paused /\ Ordered /\ Separate

LEMMA SettingsInvInit == Init => SettingsInv
BY TypesInit, RunsInit, SettingsInit DEF SettingsInv, RowsInv, Separate

\* A session that is not hurried was not before, and is flushed with nothing to read.
LEMMA Unhurried ==
    ASSUME SettingsInv, [Next]_vars, ~history'.hurried
    PROVE  ~history.hurried /\ Waits /\ Clean /\ (Flush => Idle)
<1>0. Types /\ HistoryOK
  BY DEF SettingsInv, RowsInv
<1>1. CASE Flush
  <2>1. history' = [history EXCEPT !.hurried = @ \/ (\E i \in Slots : reads[i] # Free)]
    BY <1>1 DEF Flush
  <2>2. history'.hurried = (history.hurried \/ (\E i \in Slots : reads[i] # Free))
    BY <1>0, <2>1 DEF HistoryOK
  <2> QED
    BY <2>2 DEF SettingsInv, Separate, Idle
<1>2. CASE ~Flush
  BY <1>0, <1>2, HistoryStep DEF SettingsInv, Separate
<1> QED
  BY <1>1, <1>2

LEMMA SettingsInvStep ==
    ASSUME SettingsInv, [Next]_vars
    PROVE  SettingsInv'
<1>1. Types /\ Runs /\ HistoryOK /\ RowsApart /\ Gets /\ Paused /\ Ordered
  BY DEF SettingsInv, RowsInv
<1>2. RowsInv' /\ Gets' /\ Paused' /\ Ordered'
  BY <1>1, TypeStep, OneCallStep, RunsStep, HistoryStep, RowsApartStep, GetsStep, PausedStep, OrderedStep DEF RowsInv, Types
<1>3. ASSUME ~history'.hurried PROVE Waits' /\ Clean'
  <2>1. Waits /\ Clean /\ (Flush => Idle)
    BY <1>3, Unhurried
  <2>2. Waits'
    BY <1>1, <2>1, WaitsStep
  <2>3. Clean'
    BY <1>1, <2>1, StoredStep, ShownStep, ReadsStep, WritesStep DEF Clean
  <2> QED
    BY <2>2, <2>3
<1> QED
  BY <1>2, <1>3 DEF SettingsInv, Separate

\* Unless an account was closed while its settings were being loaded, what is stored for an
\* account and what is shown of it was set under it or is the default: persist, flush, pause
\* and RESET of openAccount.ts and closeAccount.ts keep the one store apart.
THEOREM SettingsAreOwn == Spec => []OwnSettings
<1>1. SettingsInv => OwnSettings
  BY DEF SettingsInv, Separate, Clean, OwnSettings, Of
<1> QED
  BY <1>1, SettingsInvInit, SettingsInvStep, PTL DEF Spec

---------------------------------------------------------------------------
(* What is shown and what is written, in order.                            *)

\* redux-persist is off but for the account on display, and then it has nothing to write.
Switched ==
    /\ store.status = "off" => store.paused
    /\ store.status # "on" => ~store.pending /\ (NoPut \/ screen.at = "deleting")
    /\ store.status # "off" => screen.at \in {"opening", "home", "closing"} /\ screen.account # None
    /\ store.status # "off" /\ screen.at = "opening" /\ screen.step \in {"begin", "close", "open"} => screen.fresh
    /\ store.status # "off" /\ store.paused => screen.at = "closing" /\ screen.step \in {"close", "stuck"}
    /\ \A i \in Slots : reads[i] # Free => store.status = "loading"
    /\ \A i, j \in Slots : reads[i] # Free /\ reads[j] # Free => i = j

\* What the steps of redux-persist do to the store.
Unwritten ==
    /\ UNCHANGED <<store.settings, store.last, store.status, store.paused>>
    /\ ~store'.pending
Shows(value, status) ==
    /\ store'.settings = value /\ store'.status = status /\ UNCHANGED store.paused
    /\ IF status = "on" /\ ~store.paused
         THEN store'.last = value /\ store'.pending = (store.pending \/ store.last # value)
         ELSE UNCHANGED <<store.last, store.pending>>
Resumes ==
    /\ UNCHANGED <<store.settings, store.last, store.pending>> /\ ~store'.paused
    /\ store'.status = IF store.status = "off" THEN "loading" ELSE store.status
Themed ==
    /\ store.status = "on" /\ ~store.paused /\ UNCHANGED <<store.settings, store.status, store.paused>>
    /\ store'.last = store.settings /\ store'.pending
Pauses == UNCHANGED <<store.settings, store.last, store.status, store.pending>> /\ store'.paused
Clears ==
    /\ UNCHANGED <<store.last, store.paused, store.pending>>
    /\ store'.settings = Default /\ store'.status = "off"
Restored(i) == IF reads[i].value = Unset THEN store.settings ELSE reads[i].value

LEMMA UpdatedFields ==
    ASSUME NEW s \in Stores
    PROVE  /\ s.status = "on" /\ ~s.paused =>
                 Updated(s).last = s.settings /\ Updated(s).pending = (s.pending \/ s.last # s.settings)
           /\ ~(s.status = "on" /\ ~s.paused) => Updated(s) = s
BY DEF Updated, Stores

LEMMA ShownStore ==
    ASSUME store \in Stores, NEW value \in Settings, NEW status \in {"off", "loading", "on"},
           store' = Updated([store EXCEPT !.settings = value, !.status = status])
    PROVE  Shows(value, status)
<1> DEFINE t == [store EXCEPT !.settings = value, !.status = status]
<1>1. /\ t \in Stores /\ t.settings = value /\ t.status = status
      /\ t.last = store.last /\ t.pending = store.pending /\ t.paused = store.paused
  BY DEF Stores
<1>2. store' = Updated(t)
  OBVIOUS
<1> HIDE DEF t
<1>3. store'.settings = value /\ store'.status = status /\ store'.paused = store.paused
  BY <1>1, <1>2, UpdatedIs
<1>4. CASE status = "on" /\ ~store.paused
  BY <1>1, <1>2, <1>3, <1>4, UpdatedFields DEF Shows
<1>5. CASE ~(status = "on" /\ ~store.paused)
  <2>1. store' = t
    BY <1>1, <1>2, <1>5, UpdatedFields
  <2> QED
    BY <1>1, <1>3, <1>5, <2>1 DEF Shows
<1> QED
  BY <1>4, <1>5

LEMMA StoreMoves ==
    ASSUME TypeOK
    PROVE  /\ Write \/ Flush => Unwritten
           /\ Change => /\ [by |-> screen.account, n |-> changes + 1] \in Settings
                        /\ Shows([by |-> screen.account, n |-> changes + 1], store.status)
           /\ \A i \in Slots : Rehydrate(i) => Restored(i) \in Settings /\ Shows(Restored(i), "on")
           /\ Persist => Resumes
           /\ List => UNCHANGED store \/ (Themed /\ screen.fresh)
           /\ List /\ data # None /\ screen.fresh /\ store.status = "on" /\ ~store.paused => Themed
           /\ Pause => Pauses
           /\ ResetStore => Clears
<1>0. /\ store \in Stores /\ store.settings \in Settings /\ store.status \in {"off", "loading", "on"}
      /\ reads \in [Slots -> Reads] /\ screen.account \in Accounts \cup {None} /\ changes \in 0 .. MaxChanges
  BY TypeParts DEF ReadTypes, Stores, ScreenTypes, BoundTypes
<1> USE <1>0
<1>1. Write \/ Flush => Unwritten
  BY DEF Write, Flush, Unwritten, Stores
<1>2. ASSUME Change
      PROVE  /\ [by |-> screen.account, n |-> changes + 1] \in Settings
             /\ Shows([by |-> screen.account, n |-> changes + 1], store.status)
  <2>1. [by |-> screen.account, n |-> changes + 1] \in Settings
    BY <1>2, Values, SessionAssumption DEF Change
  <2>2. \A v : [store EXCEPT !.settings = v] = [store EXCEPT !.settings = v, !.status = store.status]
    BY DEF Stores
  <2>3. store' = Updated([store EXCEPT !.settings = [by |-> screen.account, n |-> changes + 1]])
    BY <1>2 DEF Change
  <2> QED
    BY <2>1, <2>2, <2>3, ShownStore
<1>3. ASSUME NEW i \in Slots, Rehydrate(i) PROVE Restored(i) \in Settings /\ Shows(Restored(i), "on")
  <2>1. reads[i].value \in Settings \cup {Unset}
    BY DEF Reads
  <2>2. Restored(i) \in Settings
    BY <2>1 DEF Restored
  <2>3. store' = Updated([store EXCEPT !.settings = Restored(i), !.status = "on"])
    BY <1>3 DEF Rehydrate, Rehydrated, Restored
  <2> QED
    BY <2>2, <2>3, ShownStore
<1>4. Persist => Resumes
  BY DEF Persist, Persisted, Resumes, Stores
<1>5. ASSUME List, store' # store PROVE Themed /\ screen.fresh
  <2>1. /\ store.status = "on" /\ ~store.paused /\ screen.fresh
        /\ store' = [Updated(store) EXCEPT !.pending = TRUE]
    BY <1>5 DEF List
  <2>2. Updated(store) \in Stores
    BY UpdatedIs
  <2> QED
    BY <2>1, <2>2, UpdatedIs, UpdatedFields DEF Themed, Stores
<1>6. ASSUME List, data # None, screen.fresh, store.status = "on", ~store.paused PROVE Themed
  <2>1. store' = [Updated(store) EXCEPT !.pending = TRUE]
    BY <1>6 DEF List
  <2>2. Updated(store) \in Stores
    BY UpdatedIs
  <2> QED
    BY <1>6, <2>1, <2>2, UpdatedIs, UpdatedFields DEF Themed, Stores
<1>7. Pause => Pauses
  BY DEF Pause, Pauses, Stores
<1>8. ResetStore => Clears
  BY DEF ResetStore, Reset, Clears, Stores
<1> QED
  BY <1>1, <1>2, <1>3, <1>4, <1>5, <1>6, <1>7, <1>8

\* Only an account that was created on this screen is fresh.
LEMMA FreshIs ==
    ASSUME TypeOK, ScreenOK
    PROVE  /\ \A step : Step(step) => UNCHANGED screen.fresh
           /\ \A at, a : Go(Screen(at, a)) => ~screen'.fresh
           /\ Created => (screen'.fresh <=> answer = "ok")
BY DEF Step, Go, Created, ScreenOK, Screens, Screen

LEMMA SwitchedStep ==
    ASSUME Types, Gets, Paused, Ordered, Waits, Flush => Idle, Switched, [Next]_vars
    PROVE  Switched'
<1>0. /\ calls \in Seq(Calls) /\ store \in Stores /\ reads \in [Slots -> Reads] /\ OneCall
      /\ screen.account \in Accounts \cup {None} /\ None \notin Accounts
      /\ TypeOK /\ ScreenOK /\ Fits(screen) /\ answer \in {"none", "ok", "failed"}
      /\ made \subseteq Accounts
  BY TypeParts, SessionAssumption DEF Types, CallSeqTypes, ReadTypes, ScreenTypes, ScreenOK, ServiceTypes
<1>0a. NoPut /\ ~store.pending => NoPut'
  BY PutsStep DEF NoPut, Earlier
<1> USE <1>0
\* The store and the screen stay, and no read is new.
<1>1. ASSUME UNCHANGED <<store.status, store.paused, screen>>,
             store.status # "on" => store'.pending = store.pending,
             \A i \in Slots : reads'[i] # Free => reads[i] # Free
      PROVE  Switched'
  BY <1>0a, <1>1 DEF Switched, NoPut
<1>2. CASE ServeGet
  <2>1. /\ Head(calls) = calls[1] /\ 1 \in DOMAIN calls /\ calls[1].op = "get"
    BY <1>2, CallServed DEF ServeGet, Serve
  <2>2. \A i \in Slots : i = Head(calls).slot => reads[i] # Free
    BY <2>1 DEF Gets, Free, Slots
  <2>3. \E value : reads' = Answers(value) /\ UNCHANGED <<store, screen>>
    BY <1>2 DEF ServeGet
  <2>4. \A i \in Slots : reads'[i] # Free => reads[i] # Free
    BY <2>2, <2>3 DEF Answers
  <2> QED
    BY <1>1, <2>3, <2>4
<1>3. CASE ServePut \/ ServeCreate \/ ServeOpen \/ ServeImport \/ ServeClose \/ ServeDelete
           \/ (\E a \in Accounts : Deliver(a)) \/ UNCHANGED vars
  BY <1>1, <1>3 DEF ServePut, ServeCreate, ServeOpen, ServeImport, ServeClose, ServeDelete, Deliver, vars
<1>4. ASSUME NEW i \in Slots, Rehydrate(i) PROVE Switched'
  <2>1. Shows(Restored(i), "on") /\ UNCHANGED screen /\ reads' = [reads EXCEPT ![i] = Free]
    BY <1>4, StoreMoves DEF Rehydrate
  <2>2. reads[i] # Free /\ store.status = "loading"
    BY <1>4 DEF Rehydrate, Free, Switched
  <2>3. \A j \in Slots : reads'[j] = Free
    BY <2>1, <2>2 DEF Switched
  <2> QED
    BY <2>1, <2>2, <2>3 DEF Switched, Shows
<1>5. CASE Write
  <2>1. UNCHANGED <<store.status, store.paused, screen, reads>> /\ store.pending
    BY <1>5, StoreMoves DEF Write, Unwritten
  <2> QED
    BY <1>1, <2>1 DEF Switched
<1>6. CASE Change
  <2>1. UNCHANGED <<store.status, store.paused, screen, reads>>
        /\ (store.status # "on" => store'.pending = store.pending)
    BY <1>6, StoreMoves DEF Change, Shows
  <2> QED
    BY <1>1, <2>1
\* The settings are off and stay off.
<1>7. ASSUME UNCHANGED <<store, reads>>, store.status = "off", screen.at # "deleting" \/ screen'.at = "deleting"
      PROVE  Switched'
  BY <1>0a, <1>7 DEF Switched, NoPut
<1>8. CASE Start \/ (\E a \in Accounts : Create(a)) \/ Import \/ Imported \/ Restart
  <2>1. UNCHANGED <<store, reads>> /\ screen.at \notin {"opening", "home", "closing", "deleting"}
    BY <1>8 DEF Start, Create, Import, Imported, Restart, At
  <2> QED
    BY <1>7, <2>1 DEF Switched
<1>9. CASE Delete \/ (Deleted /\ answer = "failed")
  <2>1. UNCHANGED <<store, reads>> /\ screen.at = "deleting"
    BY <1>9 DEF Delete, Deleted, At
  <2>2. screen'.at = "deleting"
    BY <1>9, <2>1, Moves DEF Stepped
  <2> QED
    BY <1>7, <2>1, <2>2 DEF Switched
<1>10. CASE Deleted /\ answer # "failed"
  <2>1. screen.at = "deleting" /\ screen.step = "delete" /\ store' = store /\ answer # "none" /\ store.status = "off"
    BY <1>10 DEF Deleted, At, Answered, Switched
  <2>2. NoPut
    BY <2>1, FirstNone DEF Ordered, NoPut
  <2>3. Idle
    BY <2>1 DEF Switched, Idle
  <2>4. reads' = reads \/ CloseBridge
    BY <1>10 DEF Deleted
  <2>5. \A i \in Slots : reads'[i] = Free
    BY <2>3, <2>4 DEF Idle, CloseBridge, Free
  <2> QED
    BY <1>0a, <2>1, <2>2, <2>5 DEF Switched, NoPut
<1>11. CASE DeleteNothing
  <2>1. store' = store /\ screen.at = "error" /\ CloseBridge /\ store.status = "off"
    BY <1>11 DEF DeleteNothing, Switched
  <2>2. \A i \in Slots : reads'[i] = Free
    BY <2>1 DEF Switched, CloseBridge, Free
  <2> QED
    BY <1>0a, <2>1, <2>2 DEF Switched, NoPut
<1>12. CASE Created \/ Opened
  <2>1. /\ screen.at \in {"creating", "opening"} /\ screen.account # None
        /\ screen.at = "opening" => screen.step = "open"
    BY <1>12 DEF Created, Opened, At, Fits
  <2>2. CASE answer # "ok"
    <3>1. UNCHANGED <<store, reads>>
      BY <1>12, <2>2 DEF Created, Opened
    <3>2. CASE Created
      BY <1>7, <3>1, <3>2 DEF Switched, Created
    <3>3. CASE Opened
      <4>1. screen'.at = "opening" /\ screen'.account = screen.account /\ screen'.step = "stuck" /\ screen.at = "opening"
        BY <2>2, <3>3, Moves DEF Stepped, Opened, At
      <4> QED
        BY <1>0a, <2>1, <3>1, <4>1 DEF Switched, NoPut
    <3> QED
      BY <1>12, <3>2, <3>3
  <2>3. CASE answer = "ok"
    <3>1. Persist /\ Resumes
      BY <1>12, <2>3, StoreMoves DEF Created, Opened
    <3>2. screen'.at = "opening" /\ screen'.account = screen.account
      BY <1>12, <2>1, <2>3, Moves DEF Begun, Stepped, Opened, At
    <3>3. screen'.step \in {"begin", "close", "open"} => screen'.fresh
      BY <1>12, <2>3, Moves, FreshIs DEF Stepped
    <3>4. store.status # "on" => NoPut'
      BY <1>0a, <2>1 DEF Switched
    <3>5. CASE store.status = "off"
      <4>1. PICK i \in Slots : reads' = [reads EXCEPT ![i].step = "asked"]
        BY <3>1, <3>5 DEF Persist
      <4>2. \A j \in Slots : reads'[j] # Free => j = i
        BY <3>5, <4>1, SlotRead DEF Switched
      <4>3. /\ store'.status = "loading" /\ ~store'.paused /\ ~store'.pending /\ NoPut'
        BY <3>1, <3>4, <3>5 DEF Switched, Resumes
      <4> QED
        BY <2>1, <3>2, <3>3, <4>2, <4>3 DEF Switched, NoPut
    <3>6. CASE store.status # "off"
      <4>1. reads' = reads
        BY <3>1, <3>6 DEF Persist
      <4> QED
        BY <2>1, <3>1, <3>2, <3>3, <3>4, <3>6, <4>1 DEF Switched, Resumes, NoPut
    <3> QED
      BY <3>5, <3>6
  <2> QED
    BY <2>2, <2>3
<1>13. CASE Open \/ OpenAfterClose
  <2>1. UNCHANGED <<store, reads>> /\ screen.at = "opening" /\ screen.step \in {"begin", "close"}
    BY <1>13 DEF Open, OpenAfterClose, At
  <2>2. screen'.at = "opening" /\ screen'.account = screen.account
    BY <1>13, <2>1, Moves DEF Stepped
  <2>3. screen'.fresh = screen.fresh
    BY <1>13, FreshIs DEF Open, OpenAfterClose
  <2> QED
    BY <1>0a, <2>1, <2>2, <2>3 DEF Switched, NoPut
<1>14. CASE List
  <2>1. reads' = reads /\ screen.at = "opening" /\ screen.step = "list" /\ screen.account # None
    BY <1>14 DEF List, At, Fits
  <2>2. /\ screen'.account = screen.account
        /\ \/ screen'.at = "opening" /\ screen'.step = "stuck"
           \/ screen'.at = "home"
    BY <1>14, <2>1, Moves DEF Stepped, Begun
  <2>3. UNCHANGED store \/ Themed
    BY <1>14, StoreMoves
  <2> QED
    BY <1>0a, <2>1, <2>2, <2>3 DEF Switched, NoPut, Themed
<1>15. ASSUME NEW next \in {"open", "import", "create", "delete"}, NEW a \in Accounts \cup {None}, Leave(next, a)
       PROVE  Switched'
  <2>1. UNCHANGED <<store, reads>> /\ screen.at = "home" /\ screen.account # None
    BY <1>15 DEF Leave, Fits
  <2>2. screen'.at = "closing" /\ screen'.account = screen.account
    BY <1>15, Moves DEF Begun
  <2> QED
    BY <1>0a, <2>1, <2>2 DEF Switched, NoPut
<1>16. CASE Flush
  <2>1. UNCHANGED reads /\ screen.at = "closing" /\ screen.step = "begin" /\ Unwritten
    BY <1>16, StoreMoves DEF Flush, At
  <2>2. screen'.at = "closing" /\ screen'.account = screen.account
    BY <1>16, <2>1, Moves DEF Stepped
  <2> QED
    BY <1>0a, <2>1, <2>2 DEF Switched, NoPut, Unwritten
<1>17. CASE Pause
  <2>1. UNCHANGED reads /\ screen.at = "closing" /\ screen.step = "flush" /\ Pauses
    BY <1>17, StoreMoves DEF Pause, At
  <2>2. screen'.at = "closing" /\ screen'.account = screen.account /\ screen'.step = "close"
    BY <1>17, <2>1, Moves DEF Stepped
  <2> QED
    BY <1>0a, <2>1, <2>2 DEF Switched, NoPut, Pauses
<1>18. CASE CloseRejected
  <2>1. UNCHANGED <<store, reads>> /\ screen.at = "closing"
    BY <1>18 DEF CloseRejected, At
  <2>2. screen'.at = "closing" /\ screen'.account = screen.account /\ screen'.step = "stuck"
    BY <1>18, <2>1, Moves DEF Stepped
  <2> QED
    BY <1>0a, <2>1, <2>2 DEF Switched, NoPut
<1>19. CASE CloseFails
  <2>1. /\ screen.at = "closing" /\ screen.step = "flush" /\ Clears /\ store'.paused /\ reads' = reads
    BY <1>19, StoreMoves DEF CloseFails, At
  <2>2. ~store.pending /\ NoPut
    BY <2>1 DEF Paused, NoPut, Clears
  <2>3. Idle
    BY <2>1 DEF Waits
  <2> QED
    BY <1>0a, <2>1, <2>2, <2>3 DEF Switched, NoPut, Clears, Idle
<1>20. CASE Closed
  <2>1. /\ screen.at = "closing" /\ screen.step = "close" /\ Clears /\ ~store.pending /\ store.paused
    BY <1>20, StoreMoves DEF Closed, At, Answered, Paused
  <2>2. Idle
    BY <2>1 DEF Waits
  <2>3. reads' = reads \/ CloseBridge
    BY <1>20 DEF Closed
  <2>4. \A i \in Slots : reads'[i] = Free
    BY <2>2, <2>3 DEF Idle, CloseBridge, Free
  <2>5. NoPut' \/ screen'.at = "deleting"
    <3>1. CASE screen.next = "delete"
      BY <1>20, <3>1, Moves DEF Begun
    <3>2. CASE screen.next # "delete"
      <4>1. calls' = <<>>
        BY <1>20, <3>2 DEF Closed, CloseBridge
      <4> QED
        BY <4>1 DEF NoPut
    <3> QED
      BY <3>1, <3>2
  <2> QED
    BY <2>1, <2>4, <2>5 DEF Switched, Clears
<1>21. CASE \E both \in BOOLEAN : Stop(both)
  <2>1. store' = NewStore /\ calls' = <<>> /\ \A i \in Slots : reads'[i] = Free
    BY <1>21 DEF Stop
  <2>2. NoPut'
    BY <2>1 DEF NoPut
  <2> QED
    BY <2>1, <2>2 DEF Switched, NewStore
<1> QED
  BY <1>2, <1>3, <1>4, <1>5, <1>6, <1>8, <1>9, <1>10, <1>11, <1>12, <1>13, <1>14, <1>15, <1>16, <1>17, <1>18, <1>19,
     <1>20, <1>21
  DEF Next, Served, Shown

\* The steps that change the store, the storage and the reads.
LEMMA StoreSteps ==
    ASSUME TypeOK, [Next]_vars
    PROVE  \/ UNCHANGED store
           \/ Write \/ Flush \/ Change \/ (\E i \in Slots : Rehydrate(i)) \/ Pause \/ Closed \/ CloseFails
           \/ (Created /\ answer = "ok" /\ Persist) \/ (Opened /\ answer = "ok" /\ Persist)
           \/ (List /\ Themed /\ screen.fresh)
           \/ \E both \in BOOLEAN : Stop(both)
<1>1. CASE Served \/ Start \/ (\E a \in Accounts : Create(a) \/ Deliver(a)) \/ Open \/ OpenAfterClose \/ CloseRejected
           \/ Delete \/ Deleted \/ Import \/ Imported \/ Restart \/ DeleteNothing \/ UNCHANGED vars
           \/ \E next \in {"open", "import", "create", "delete"}, a \in Accounts \cup {None} : Leave(next, a)
  BY <1>1 DEF Served, ServeGet, ServePut, ServeCreate, ServeOpen, ServeImport, ServeClose, ServeDelete, Start, Create,
     Deliver, Open, OpenAfterClose, CloseRejected, Delete, Deleted, Import, Imported, Restart, DeleteNothing, Leave, vars
<1>2. CASE Created \/ Opened
  BY <1>2 DEF Created, Opened
<1>3. CASE List
  BY <1>3, StoreMoves
<1> QED
  BY <1>1, <1>2, <1>3 DEF Next, Shown

LEMMA StoredSteps ==
    ASSUME Types, [Next]_vars
    PROVE  \/ stored' = stored
           \/ /\ ServePut /\ data # None /\ 1 \in DOMAIN calls /\ calls[1].op = "put"
              /\ stored' = [stored EXCEPT ![data] = calls[1].value]
           \/ /\ ServeDelete /\ data = None /\ screen.at = "deleting"
              /\ made' = made \ {screen.account} /\ stored' = [stored EXCEPT ![screen.account] = Unset]
              /\ history' = [history EXCEPT !.deleted = @ \cup {screen.account}]
<1>0. calls \in Seq(Calls) /\ TypeOK /\ ScreenOK /\ Fits(screen)
  BY TypeParts DEF Types, CallSeqTypes, ScreenOK
<1> USE <1>0
<1>1. CASE ServePut
  <2>1. Head(calls) = calls[1] /\ 1 \in DOMAIN calls /\ calls[1].op = "put"
    BY <1>1, CallServed DEF ServePut, Serve
  <2> QED
    BY <1>1, <2>1 DEF ServePut
<1>2. CASE ServeDelete
  <2>1. Operation = "delete" /\ Head(calls).account = screen.account
    BY <1>2, ServedOurs DEF ServeDelete, Ours
  <2>2. screen.at = "deleting"
    BY <2>1 DEF Operation, Fits
  <2> QED
    BY <1>2, <2>1, <2>2 DEF ServeDelete
<1>3. CASE ServeGet \/ ServeCreate \/ ServeOpen \/ ServeImport \/ ServeClose \/ (\E i \in Slots : Rehydrate(i))
           \/ Write \/ Change \/ (\E a \in Accounts : Create(a) \/ Deliver(a)) \/ UNCHANGED vars
  BY <1>3 DEF ServeGet, ServeCreate, ServeOpen, ServeImport, ServeClose, Rehydrate, Write, Change, Create, Deliver,
     vars, service
<1>4. CASE \/ Start \/ Created \/ Open \/ OpenAfterClose \/ Opened \/ List \/ Flush \/ Pause \/ Closed \/ CloseRejected
           \/ Delete \/ Deleted \/ Import \/ Imported \/ CloseFails \/ Restart \/ DeleteNothing
           \/ \E both \in BOOLEAN : Stop(both)
  BY <1>4 DEF Start, Created, Open, OpenAfterClose, Opened, List, Flush, Pause, Closed, CloseRejected, Delete, Deleted,
     Import, Imported, CloseFails, Restart, DeleteNothing, Stop, service
<1>5. CASE \E next \in {"open", "import", "create", "delete"}, a \in Accounts \cup {None} : Leave(next, a)
  BY <1>5 DEF Leave, service
<1> QED
  BY <1>1, <1>2, <1>3, <1>4, <1>5 DEF Next, Served, Shown

LEMMA ReadSteps ==
    ASSUME TypeOK, [Next]_vars
    PROVE  \A i \in Slots : \/ reads'[i].value \in {reads[i].value, Unset}
                            \/ ServeGet /\ data # None /\ i = Head(calls).slot /\ reads'[i].value = stored[data]
<1>0. reads \in [Slots -> Reads]
  BY TypeParts DEF ReadTypes
<1> USE <1>0
<1>1. CASE reads' = reads
  BY <1>1
<1>2. CASE ServeGet
  <2>1. \E value : reads' = Answers(value) /\ (value = Unset \/ (data # None /\ value = stored[data]))
    BY <1>2 DEF ServeGet
  <2> QED
    BY <1>2, <2>1 DEF Answers
<1>3. CASE \E i \in Slots : Rehydrate(i)
  BY <1>3 DEF Rehydrate, Free
<1>4. CASE Created \/ Opened
  <2>1. reads' = reads \/ \E i \in Slots : reads' = [reads EXCEPT ![i].step = "asked"]
    BY <1>4 DEF Created, Opened, Persist
  <2> QED
    BY <2>1, SlotRead
<1>5. CASE Closed \/ Deleted \/ DeleteNothing
  <2>1. CloseBridge => \A i \in Slots : reads'[i].value = reads[i].value
    BY DEF CloseBridge, Reads
  <2> QED
    BY <1>1, <1>5, <2>1 DEF Closed, Deleted, DeleteNothing
<1>6. CASE \E both \in BOOLEAN : Stop(both)
  BY <1>6 DEF Stop, Free
<1>7. CASE ServePut \/ ServeCreate \/ ServeOpen \/ ServeImport \/ ServeClose \/ ServeDelete
           \/ Write \/ Change \/ (\E a \in Accounts : Create(a) \/ Deliver(a)) \/ UNCHANGED vars
  BY <1>1, <1>7 DEF ServePut, ServeCreate, ServeOpen, ServeImport, ServeClose, ServeDelete, Write, Change, Create, Deliver, vars
<1>8. CASE \/ Start \/ Open \/ OpenAfterClose \/ List \/ Flush \/ Pause \/ CloseRejected \/ Delete \/ Import \/ Imported
           \/ Restart \/ CloseFails
  BY <1>1, <1>8 DEF Start, Open, OpenAfterClose, List, Flush, Pause, CloseRejected, Delete, Import, Imported, Restart, CloseFails
<1>9. CASE \E next \in {"open", "import", "create", "delete"}, a \in Accounts \cup {None} : Leave(next, a)
  BY <1>1, <1>9 DEF Leave
<1> QED
  BY <1>2, <1>3, <1>4, <1>5, <1>6, <1>7, <1>8, <1>9 DEF Next, Served, Shown

\* What is shown, and what redux-persist has seen last.
LEMMA ShownSteps ==
    ASSUME TypeOK, [Next]_vars
    PROVE  /\ store'.last \in {store.last, store'.settings, Unset}
           /\ \/ store'.settings \in {store.settings, Default}
              \/ \E i \in Slots : store'.settings = reads[i].value
              \/ Change /\ store'.settings = [by |-> screen.account, n |-> changes + 1]
<1>1. CASE UNCHANGED store
  BY <1>1
<1>2. CASE Write \/ Flush \/ Pause
  BY <1>2, StoreMoves DEF Unwritten, Pauses
<1>3. CASE Change
  BY <1>3, StoreMoves DEF Shows
<1>4. ASSUME NEW i \in Slots, Rehydrate(i)
      PROVE  /\ store'.last \in {store.last, store'.settings, Unset}
             /\ store'.settings \in {store.settings, reads[i].value}
  BY <1>4, StoreMoves DEF Shows, Restored
<1>5. CASE Closed \/ CloseFails
  <2>1. Clears
    BY <1>5, StoreMoves DEF Closed, CloseFails
  <2> QED
    BY <2>1 DEF Clears
<1>6. CASE Persist
  BY <1>6, StoreMoves DEF Resumes
<1>7. CASE Themed
  BY <1>7 DEF Themed
<1>8. CASE \E both \in BOOLEAN : Stop(both)
  BY <1>8 DEF Stop, NewStore
<1> QED
  BY <1>1, <1>2, <1>3, <1>4, <1>5, <1>6, <1>7, <1>8, StoreSteps

LEMMA ChangesStep ==
    ASSUME TypeOK, [Next]_vars
    PROVE  changes' = IF Change THEN changes + 1 ELSE changes
<1>0. changes \in 0 .. MaxChanges /\ MaxChanges \in Nat
  BY SessionAssumption DEF TypeOK
<1>1. CASE Change
  BY <1>1 DEF Change
<1>2. CASE changes' = changes /\ ~Change
  BY <1>2
<1>3. ~Change => changes' = changes
  <2> SUFFICES ASSUME ~Change PROVE changes' = changes
    OBVIOUS
  <2>1. CASE ServeGet \/ ServePut \/ ServeCreate \/ ServeOpen \/ ServeImport \/ ServeClose \/ ServeDelete
             \/ (\E i \in Slots : Rehydrate(i)) \/ Write \/ (\E a \in Accounts : Create(a) \/ Deliver(a)) \/ UNCHANGED vars
    BY <2>1 DEF ServeGet, ServePut, ServeCreate, ServeOpen, ServeImport, ServeClose, ServeDelete, Rehydrate, Write, Create,
       Deliver, vars, bounds, Fault
  <2>2. CASE \/ Start \/ Created \/ Open \/ OpenAfterClose \/ Opened \/ List \/ Flush \/ Pause \/ Closed \/ CloseRejected
             \/ Delete \/ Deleted \/ Import \/ Imported \/ CloseFails \/ Restart \/ DeleteNothing
             \/ \E both \in BOOLEAN : Stop(both)
    BY <2>2 DEF Start, Created, Open, OpenAfterClose, Opened, List, Flush, Pause, Closed, CloseRejected, Delete, Deleted,
       Import, Imported, CloseFails, Restart, DeleteNothing, Stop, bounds
  <2>3. CASE \E next \in {"open", "import", "create", "delete"}, a \in Accounts \cup {None} : Leave(next, a)
    BY <2>3 DEF Leave, bounds
  <2> QED
    BY <2>1, <2>2, <2>3 DEF Next, Served, Shown
<1> QED
  BY <1>1, <1>3

\* No settings are newer than the last change.
Within(value, n) == value # Unset => value.n <= n
Numbers ==
    /\ \A a \in Accounts : Within(stored[a], changes)
    /\ Within(store.settings, changes) /\ Within(store.last, changes)
    /\ \A i \in Slots : Within(reads[i].value, changes)
    /\ \A k \in DOMAIN calls : calls[k].op = "put" => Within(calls[k].value, changes)

LEMMA NumbersStep ==
    ASSUME Types, Numbers, [Next]_vars
    PROVE  Numbers'
<1>0. /\ TypeOK /\ TypeOK' /\ calls \in Seq(Calls) /\ reads \in [Slots -> Reads] /\ store \in Stores
      /\ stored \in [Accounts -> Settings \cup {Unset}] /\ data \in Accounts \cup {None}
      /\ screen.account \in Accounts \cup {None}
      /\ changes \in Nat /\ changes' \in Nat /\ changes <= changes'
  <2>1. TypeOK /\ TypeOK'
    BY TypeStep DEF Types
  <2>2. changes \in Nat /\ MaxChanges \in Nat
    BY <2>1, SessionAssumption DEF TypeOK
  <2> QED
    BY <2>1, <2>2, TypeParts, ChangesStep DEF CallSeqTypes, ReadTypes, ServiceTypes, ScreenTypes
<1> USE <1>0
<1>1. \A v \in Settings \cup {Unset} : Within(v, changes) => Within(v, changes')
  BY SessionAssumption DEF Within, Settings
<1>2. Within(Default, changes') /\ Within(Unset, changes')
  BY DEF Within, Default
<1>3. \A a \in Accounts : Within(stored'[a], changes')
  <2>1. \A k \in DOMAIN calls : calls[k].value \in Settings \cup {Unset}
    BY CallFields
  <2>2. \A a \in Accounts : stored[a] \in Settings \cup {Unset}
    OBVIOUS
  <2> QED
    BY <1>1, <1>2, <2>1, <2>2, StoredSteps DEF Numbers
<1>4. Within(store'.settings, changes')
  <2>1. CASE store'.settings \in {store.settings, Default}
    <3>1. store.settings \in Settings
      BY DEF Stores
    <3> QED
      BY <1>1, <1>2, <2>1, <3>1 DEF Numbers
  <2>2. CASE \E i \in Slots : store'.settings = reads[i].value
    <3>1. \A i \in Slots : reads[i].value \in Settings \cup {Unset}
      BY DEF Reads
    <3> QED
      BY <1>1, <2>2, <3>1 DEF Numbers
  <2>3. CASE Change /\ store'.settings = [by |-> screen.account, n |-> changes + 1]
    BY <2>3, ChangesStep DEF Within
  <2> QED
    BY <2>1, <2>2, <2>3, ShownSteps
<1>5. Within(store'.last, changes')
  <2>1. store.last \in Settings \cup {Unset}
    BY DEF Stores
  <2> QED
    BY <1>1, <1>2, <1>4, <2>1, ShownSteps DEF Numbers
<1>6. ASSUME NEW i \in Slots PROVE Within(reads'[i].value, changes')
  <2>1. reads[i].value \in Settings \cup {Unset}
    BY DEF Reads
  <2>2. data # None => stored[data] \in Settings \cup {Unset}
    OBVIOUS
  <2> QED
    BY <1>1, <1>2, <2>1, <2>2, ReadSteps DEF Numbers
<1>7. ASSUME NEW k \in DOMAIN calls', calls'[k].op = "put" PROVE Within(calls'[k].value, changes')
  <2>1. CASE Earlier(calls'[k].value)
    <3>1. PICK j \in DOMAIN calls : calls[j].op = "put" /\ calls[j].value = calls'[k].value
      BY <2>1 DEF Earlier
    <3>2. calls[j].value \in Settings \cup {Unset}
      BY CallFields
    <3> QED
      BY <1>1, <3>1, <3>2 DEF Numbers
  <2>2. CASE calls'[k].value = store.last
    <3>1. store.last \in Settings \cup {Unset}
      BY DEF Stores
    <3> QED
      BY <1>1, <2>2, <3>1 DEF Numbers
  <2> QED
    BY <1>7, <2>1, <2>2, PutsStep
<1> QED
  BY <1>3, <1>4, <1>5, <1>6, <1>7 DEF Numbers

\* The steps after which another account runs.
LEMMA DataSteps ==
    ASSUME Types, [Next]_vars
    PROVE  \/ UNCHANGED data
           \/ /\ ServeOpen /\ Operation = "open" /\ data = None /\ data' = screen.account /\ answer' = "ok" /\ screen' = screen
           \/ ServeImport /\ Operation = "import" /\ screen' = screen
           \/ ServeClose /\ Operation = "close" /\ data' = None /\ answer' = "ok" /\ screen' = screen
           \/ (Closed \/ Deleted \/ DeleteNothing \/ \E both \in BOOLEAN : Stop(both)) /\ data' = None
<1>1. CASE ServeGet \/ ServePut \/ ServeCreate \/ ServeDelete \/ (\E i \in Slots : Rehydrate(i))
           \/ Write \/ Change \/ (\E a \in Accounts : Create(a) \/ Deliver(a)) \/ UNCHANGED vars
  BY <1>1 DEF ServeGet, ServePut, ServeCreate, ServeDelete, Rehydrate, Write, Change, Create, Deliver, vars, service
<1>2. CASE \/ Start \/ Created \/ Open \/ OpenAfterClose \/ Opened \/ List \/ Flush \/ Pause \/ CloseRejected
           \/ Delete \/ Import \/ Imported \/ CloseFails \/ Restart
           \/ \E next \in {"open", "import", "create", "delete"}, a \in Accounts \cup {None} : Leave(next, a)
  BY <1>2 DEF Start, Created, Open, OpenAfterClose, Opened, List, Flush, Pause, CloseRejected, Delete, Import, Imported,
     CloseFails, Restart, Leave, service
<1>3. CASE Closed \/ Deleted \/ DeleteNothing \/ \E both \in BOOLEAN : Stop(both)
  BY <1>3 DEF Closed, Deleted, DeleteNothing, Stop, CloseBridge
<1>4. CASE ServeOpen
  <2>1. Operation = "open" /\ Head(calls).account = screen.account
    BY <1>4, ServedOurs DEF ServeOpen, Ours
  <2> QED
    BY <1>4, <2>1 DEF ServeOpen
<1>5. CASE ServeImport
  <2>1. Operation = "import"
    BY <1>5, ServedOurs DEF ServeImport, Ours
  <2> QED
    BY <1>5, <2>1 DEF ServeImport
<1>6. CASE ServeClose
  <2>1. Operation = "close"
    BY <1>6, ServedOurs DEF ServeClose, Ours
  <2> QED
    BY <1>6, <2>1 DEF ServeClose
<1> QED
  BY <1>1, <1>2, <1>3, <1>4, <1>5, <1>6 DEF Next, Served, Shown

\* The account on display runs until it is told to close.
Running ==
    /\ screen.account # None /\ (screen.at = "home" \/ (screen.at = "closing" /\ screen.step \in {"begin", "flush"}))
          => data = screen.account
    /\ Operation = "open" /\ answer = "ok" => data = screen.account

LEMMA RunningStep ==
    ASSUME Types, Runs, Running, [Next]_vars
    PROVE  Running'
<1>0. /\ TypeOK /\ OneCall /\ ScreenOK /\ ScreenOK' /\ Fits(screen) /\ ServiceTypes
      /\ answer \in {"none", "ok", "failed"} /\ None \notin Accounts
      /\ screen.account \in Accounts \cup {None}
  BY TypeStep, TypeParts, SessionAssumption DEF Types, ScreenOK, CallSeqTypes, ScreenTypes
<1> USE <1>0 DEF Running
<1>1. CASE ServeGet \/ ServePut \/ (\E i \in Slots : Rehydrate(i)) \/ Write \/ Change
           \/ (\E a \in Accounts : Deliver(a)) \/ UNCHANGED vars
  <2>1. UNCHANGED <<data, screen, answer>>
    BY <1>1 DEF ServeGet, ServePut, Rehydrate, Write, Change, Deliver, vars, service
  <2> QED
    BY <2>1 DEF Operation
<1>2. CASE ServeCreate \/ ServeImport \/ ServeClose \/ ServeDelete
  <2>1. screen' = screen /\ \E op \in {"create", "import", "close", "delete"} : Serve(op)
    BY <1>2 DEF ServeCreate, ServeImport, ServeClose, ServeDelete
  <2>2. Operation \in {"create", "import", "close", "delete"} /\ Operation' = Operation
    BY <2>1, ServedOurs DEF Ours, Operation
  <2>3. screen.at # "home" /\ ~(screen.at = "closing" /\ screen.step \in {"begin", "flush"})
    BY <2>2 DEF Operation, Fits
  <2> QED
    BY <2>1, <2>2, <2>3
<1>3. CASE ServeOpen
  <2>1. screen' = screen /\ Operation = "open" /\ Operation' = Operation /\ Head(calls).account = screen.account
    BY <1>3, ServedOurs DEF ServeOpen, Ours, Operation
  <2>2. screen.at # "home" /\ screen.at # "closing"
    BY <2>1 DEF Operation, Fits
  <2>3. answer' = "ok" => data' = screen.account
    BY <1>3, <2>1 DEF ServeOpen
  <2> QED
    BY <2>1, <2>2, <2>3
\* The screen is another, and no call has been answered.
<1>4. ASSUME answer' = "none", ~(screen'.account # None /\ screen'.at \in {"home", "closing"}) PROVE Running'
  BY <1>4
<1>5. CASE Start \/ (\E a \in Accounts : Create(a)) \/ Restart \/ DeleteNothing \/ (\E both \in BOOLEAN : Stop(both))
           \/ Open \/ Delete \/ Import \/ CloseFails
  <2>1. answer' = answer \/ answer' = "none"
    BY <1>5 DEF Start, Create, Restart, DeleteNothing, Stop, Open, Delete, Import, CloseFails
  <2>2. Operation \notin Ours \/ answer' = "none"
    BY <1>5 DEF Start, Create, Restart, DeleteNothing, Stop, Open, Delete, Import, CloseFails, At, Operation, Ours, Fits
  <2>3. answer' = "none"
    BY <2>1, <2>2 DEF OneCall
  <2>4. screen'.at \notin {"home", "closing"} \/ screen'.account = None
    <3>1. CASE Start \/ (\E a \in Accounts : Create(a)) \/ Restart \/ DeleteNothing \/ CloseFails
               \/ (\E both \in BOOLEAN : Stop(both))
      BY <3>1, Moves DEF Begun
    <3>2. CASE Open \/ Delete \/ Import
      BY <3>2, Moves DEF Stepped, Open, Delete, Import, At
    <3> QED
      BY <1>5, <3>1, <3>2
  <2> QED
    BY <1>4, <2>3, <2>4
<1>6. CASE Created \/ OpenAfterClose \/ Opened \/ Deleted \/ Imported \/ Closed
  <2>1. answer' = "none"
    BY <1>6 DEF Created, OpenAfterClose, Opened, Deleted, Imported, Closed, Answered
  <2>2. screen'.at \notin {"home", "closing"}
    <3>1. CASE Created \/ Imported \/ Closed
      BY <3>1, Moves DEF Begun
    <3>2. CASE OpenAfterClose \/ Opened \/ Deleted
      BY <3>2, Moves DEF Begun, Stepped, OpenAfterClose, Opened, Deleted, At
    <3> QED
      BY <1>6, <3>1, <3>2
  <2> QED
    BY <1>4, <2>1, <2>2
<1>7. CASE List
  <2>1. screen.at = "opening" /\ screen.step = "list" /\ answer' = answer /\ answer = "none" /\ data' = data
    BY <1>7 DEF List, At, OneCall, Operation, Ours, service
  <2>2. CASE data = None
    BY <1>7, <2>1, <2>2, <1>4, Moves DEF Stepped
  <2>3. CASE data # None
    <3>1. data = screen.account
      BY <2>1, <2>3 DEF Runs
    <3>2. screen'.account = screen.account
      BY <1>7, <2>3, Moves DEF Begun
    <3> QED
      BY <2>1, <3>1, <3>2
  <2> QED
    BY <2>2, <2>3
<1>8. ASSUME NEW next \in {"open", "import", "create", "delete"}, NEW a \in Accounts \cup {None}, Leave(next, a)
      PROVE  Running'
  <2>1. screen.at = "home" /\ UNCHANGED <<data, answer>> /\ answer = "none"
    BY <1>8 DEF Leave, OneCall, Operation, Ours, Fits, service
  <2>2. screen'.account = screen.account
    BY <1>8, Moves DEF Begun
  <2> QED
    BY <2>1, <2>2
<1>9. CASE Flush
  <2>1. screen.at = "closing" /\ screen.step = "begin" /\ UNCHANGED <<data, answer>> /\ answer = "none"
    BY <1>9 DEF Flush, At, OneCall, Operation, Ours, service
  <2>2. screen'.account = screen.account
    BY <1>9, Moves DEF Stepped
  <2> QED
    BY <2>1, <2>2
<1>10. CASE Pause \/ CloseRejected
  <2>1. screen.at = "closing"
    BY <1>10 DEF Pause, CloseRejected, At
  <2>2. screen'.at = "closing" /\ screen'.step \in {"close", "stuck"} /\ Operation' \in {"close", "stuck"}
    BY <1>10, <2>1, Moves, OperationIs DEF Stepped
  <2> QED
    BY <2>2
<1> QED
  BY <1>1, <1>2, <1>3, <1>5, <1>6, <1>7, <1>8, <1>9, <1>10 DEF Next, Served, Shown

\* Nothing is stored for an account that is new.
Unused ==
    /\ \A a \in Accounts \ made : stored[a] = Unset
    /\ screen.at = "creating" => stored[screen.account] = Unset
    /\ screen.at = "opening" /\ screen.fresh /\ screen.step \in {"begin", "close"} => data = None
NewIsUnused == screen.at = "opening" /\ data = None /\ store.status # "off" => stored[screen.account] = Unset

LEMMA UnusedStep ==
    ASSUME Types, Runs, Unused, [Next]_vars
    PROVE  Unused'
<1>0. /\ TypeOK /\ OneCall /\ ScreenOK /\ Fits(screen) /\ ServiceTypes /\ None \notin Accounts
      /\ stored \in [Accounts -> Settings \cup {Unset}]
      /\ screen.account \in Accounts \cup {None} /\ screen.at = "creating" => screen.account \in Accounts
  BY TypeParts, SessionAssumption DEF Types, ScreenOK, ScreenTypes, ServiceTypes, Fits
<1> USE <1>0
<1>1. ASSUME NEW a \in Accounts \ made' PROVE stored'[a] = Unset
  <2>1. made \subseteq made' \/ (ServeDelete /\ answer' = "ok")
    <3>1. CASE Served
      BY <3>1 DEF Served, ServeGet, ServePut, ServeCreate, ServeOpen, ServeImport, ServeClose, ServeDelete, service
    <3>2. CASE Shown
      BY <3>2 DEF Shown, Start, Created, Open, OpenAfterClose, Opened, List, Flush, Pause, Closed, CloseRejected, Delete,
         Deleted, Import, Imported, service
    <3>3. CASE ~Served /\ ~Shown
      BY <3>3 DEF Next, Write, Change, CloseFails, Restart, DeleteNothing, Rehydrate, Create, Deliver, Leave, Stop, vars, service
    <3> QED
      BY <3>1, <3>2, <3>3
  <2>2. CASE ServeDelete /\ answer' = "ok"
    <3>1. made' = made \ {Head(calls).account} /\ stored' = [stored EXCEPT ![Head(calls).account] = Unset]
      BY <2>2 DEF ServeDelete
    <3> QED
      BY <3>1 DEF Unused
  <2>3. CASE made \subseteq made'
    <3>1. stored[a] = Unset
      BY <2>3 DEF Unused
    <3>2. data # a
      BY <2>3 DEF Runs
    <3> QED
      BY <3>1, <3>2, StoredSteps
  <2> QED
    BY <2>1, <2>2, <2>3
<1>2. screen'.at = "creating" => stored'[screen'.account] = Unset
  <2>1. ASSUME NEW a \in Accounts, Create(a) PROVE stored'[screen'.account] = Unset
    BY <2>1, Moves DEF Begun, Create, Unused, service
  <2>2. CASE \A a \in Accounts : ~Create(a)
    <3>1. screen'.at = "creating" => screen' = screen
      <4>1. CASE ScreenStays \/ Start \/ Created \/ Closed \/ Imported \/ Restart \/ DeleteNothing \/ CloseFails
                 \/ (\E both \in BOOLEAN : Stop(both))
        BY <4>1, Moves DEF Begun
      <4>2. CASE \E next \in {"open", "import", "create", "delete"}, a \in Accounts \cup {None} : Leave(next, a)
        BY <4>2, Moves DEF Begun
      <4>3. CASE Open \/ OpenAfterClose \/ Opened \/ List \/ Flush \/ Pause \/ CloseRejected \/ Delete \/ Deleted \/ Import
        <5>1. screen.at # "creating"
          BY <4>3 DEF Open, OpenAfterClose, Opened, List, Flush, Pause, CloseRejected, Delete, Deleted, Import, At
        <5> QED
          BY <4>3, <5>1, Moves DEF Begun, Stepped
      <4> QED
        BY <2>2, <4>1, <4>2, <4>3 DEF Next, Shown, ScreenStays
    <3>2. screen.at = "creating" => stored' = stored
      BY StoredSteps DEF Runs
    <3> QED
      BY <3>1, <3>2 DEF Unused
  <2> QED
    BY <2>1, <2>2
<1>3. screen'.at = "opening" /\ screen'.fresh /\ screen'.step \in {"begin", "close"} => data' = None
  <2> SUFFICES ASSUME screen'.at = "opening", screen'.fresh, screen'.step \in {"begin", "close"} PROVE data' = None
    OBVIOUS
  <2>1. CASE ScreenStays
    <3>1. screen' = screen /\ data = None
      BY <2>1, Moves DEF Unused
    <3>2. Operation \notin {"open", "import"}
      BY <3>1 DEF Operation
    <3> QED
      BY <3>1, <3>2, DataSteps
  <2>2. CASE Created
    BY <2>2 DEF Created, Runs, service
  <2>3. CASE Open
    BY <2>3, FreshIs DEF Open, At, Unused, service
  <2>4. CASE Start \/ Imported \/ Closed \/ Deleted
    <3>1. CASE Start \/ Imported \/ Closed
      <4>1. CASE Start
        BY <4>1, FreshIs, Moves DEF Start, Begun
      <4>2. CASE Imported
        BY <4>2, FreshIs, Moves DEF Imported, Begun
      <4>3. CASE Closed
        BY <4>3, Moves DEF Begun
      <4> QED
        BY <3>1, <4>1, <4>2, <4>3
    <3>2. CASE Deleted
      BY <3>2, Moves, FreshIs DEF Deleted, Begun, Stepped, At
    <3> QED
      BY <2>4, <3>1, <3>2
  <2>5. CASE OpenAfterClose \/ Opened \/ List
    BY <2>5, Moves DEF Begun, Stepped
  <2>6. CASE Flush \/ Pause \/ CloseRejected \/ Delete \/ Import
    BY <2>6, Moves DEF Stepped, Flush, Pause, CloseRejected, Delete, Import, At
  <2>7. CASE (\E a \in Accounts : Create(a)) \/ CloseFails \/ Restart \/ DeleteNothing \/ (\E both \in BOOLEAN : Stop(both))
    BY <2>7, Moves DEF Begun
  <2>8. CASE \E next \in {"open", "import", "create", "delete"}, a \in Accounts \cup {None} : Leave(next, a)
    BY <2>8, Moves DEF Begun
  <2> QED
    BY <2>1, <2>2, <2>3, <2>4, <2>5, <2>6, <2>7, <2>8 DEF Next, Shown, ScreenStays
<1> QED
  BY <1>1, <1>2, <1>3 DEF Unused

LEMMA NewIsUnusedStep ==
    ASSUME Types, Runs, Switched, Running, Unused, NewIsUnused, [Next]_vars
    PROVE  NewIsUnused'
<1>0. /\ TypeOK /\ OneCall /\ ScreenOK /\ Fits(screen) /\ ServiceTypes /\ store \in Stores /\ None \notin Accounts
      /\ screen.account \in Accounts \cup {None}
  BY TypeParts, SessionAssumption DEF Types, ScreenOK, ScreenTypes, ServiceTypes, ReadTypes
<1> USE <1>0
<1> SUFFICES ASSUME screen'.at = "opening", data' = None, store'.status # "off" PROVE stored'[screen'.account] = Unset
  BY DEF NewIsUnused
<1>1. CASE ScreenStays
  <2>1. screen' = screen
    BY <1>1, Moves
  <2>2. store.status # "off"
    <3>1. CASE Served \/ (\E a \in Accounts : Deliver(a)) \/ UNCHANGED vars
      BY <3>1 DEF Served, ServeGet, ServePut, ServeCreate, ServeOpen, ServeImport, ServeClose, ServeDelete, Deliver, vars
    <3>2. ASSUME NEW i \in Slots, Rehydrate(i) PROVE store.status # "off"
      <4>1. reads[i] # Free
        BY <3>2 DEF Rehydrate, Free
      <4> QED
        BY <4>1 DEF Switched
    <3>3. CASE Write \/ Change
      BY <3>3, StoreMoves DEF Unwritten, Shows
    <3> QED
      BY <1>1, <3>1, <3>2, <3>3 DEF ScreenStays
  <2>3. data = None
    <3>1. CASE ServeClose /\ Operation = "close"
      <4>1. screen.step = "close"
        BY <2>1, <3>1 DEF Operation
      <4> QED
        BY <2>1, <2>2, <4>1 DEF Switched, Unused
    <3>2. CASE Closed \/ Deleted \/ DeleteNothing \/ \E both \in BOOLEAN : Stop(both)
      <4>1. screen.at # "opening" \/ \E both \in BOOLEAN : Stop(both)
        BY <3>2 DEF Closed, Deleted, DeleteNothing, At
      <4> QED
        BY <2>1, <4>1, Moves DEF Begun
    <3>3. CASE UNCHANGED data
      BY <3>3
    <3>4. CASE ServeOpen /\ data = None
      BY <3>4
    <3>5. CASE ServeImport /\ Operation = "import"
      BY <2>1, <3>5 DEF Operation, Fits
    <3> QED
      BY <3>1, <3>2, <3>3, <3>4, <3>5, DataSteps
  <2>4. stored' = stored
    BY <2>1, <2>3, StoredSteps
  <2> QED
    BY <2>1, <2>2, <2>3, <2>4 DEF NewIsUnused
<1>2. CASE Created
  <2>1. screen'.account = screen.account /\ screen.at = "creating" /\ stored' = stored
    BY <1>2, Moves DEF Begun, Created, service
  <2> QED
    BY <2>1 DEF Unused
<1>3. CASE Opened
  <2>1. screen.at = "opening" /\ screen.step = "open" /\ UNCHANGED <<stored, data>> /\ screen.account # None
    BY <1>3 DEF Opened, At, service, Fits
  <2>2. screen'.account = screen.account
    BY <1>3, Moves DEF Stepped
  <2>3. CASE answer = "ok"
    BY <2>1, <2>3 DEF Running, Operation
  <2>4. CASE answer # "ok"
    <3>1. store' = store
      BY <1>3, <2>4 DEF Opened
    <3> QED
      BY <2>1, <2>2, <3>1 DEF NewIsUnused
  <2> QED
    BY <2>3, <2>4
<1>4. CASE Open \/ OpenAfterClose \/ List
  <2>1. screen.at = "opening" /\ UNCHANGED <<stored, data>>
    BY <1>4 DEF Open, OpenAfterClose, List, At, service
  <2>2. screen'.account = screen.account
    BY <1>4, Moves DEF Stepped, Begun
  <2>3. store' = store
    BY <1>4, <2>1 DEF Open, OpenAfterClose, List
  <2> QED
    BY <2>1, <2>2, <2>3 DEF NewIsUnused
<1>5. CASE Start \/ Imported \/ Deleted
  <2>1. store' = store /\ screen.at \in {"start", "importing", "deleting"}
    BY <1>5 DEF Start, Imported, Deleted, At
  <2> QED
    BY <2>1 DEF Switched
<1>6. CASE Flush \/ Pause \/ CloseRejected \/ Delete \/ Import
  BY <1>6, Moves DEF Stepped, Flush, Pause, CloseRejected, Delete, Import, At
<1>7. CASE (\E a \in Accounts : Create(a)) \/ CloseFails \/ Restart \/ DeleteNothing \/ Closed \/ (\E both \in BOOLEAN : Stop(both))
  BY <1>7, Moves DEF Begun
<1>8. CASE \E next \in {"open", "import", "create", "delete"}, a \in Accounts \cup {None} : Leave(next, a)
  BY <1>8, Moves DEF Begun
<1> QED
  BY <1>1, <1>2, <1>3, <1>4, <1>5, <1>6, <1>7, <1>8 DEF Next, Shown, ScreenStays

\* What failed is forgotten with the session.
LEMMA FailureSteps ==
    ASSUME HistoryOK, [Next]_vars
    PROVE  /\ \/ (history.unread => history'.unread) /\ (history.unsaved => history'.unsaved)
              \/ Closed \/ CloseFails \/ \E both \in BOOLEAN : Stop(both)
           /\ Change => history'.unsaved = (history.unsaved \/ (screen.at = "closing" /\ screen.step # "begin"))
<1>1. Change => history'.unsaved = (history.unsaved \/ (screen.at = "closing" /\ screen.step # "begin"))
                /\ history'.unread = history.unread
  BY DEF Change, HistoryOK
<1>2. CASE ServeGet \/ ServePut \/ \E i \in Slots : Rehydrate(i)
  <2>1. history' = history \/ history' = [history EXCEPT !.unread = TRUE] \/ history' = [history EXCEPT !.unsaved = TRUE]
    BY <1>2 DEF ServeGet, ServePut, Rehydrate
  <2> QED
    BY <1>1, <2>1 DEF HistoryOK
<1>3. CASE Flush \/ ServeDelete
  <2>1. \/ history' = history \/ (\E b : history' = [history EXCEPT !.hurried = b])
        \/ \E d : history' = [history EXCEPT !.deleted = d]
    BY <1>3 DEF Flush, ServeDelete
  <2> QED
    BY <1>1, <2>1 DEF HistoryOK
<1>4. CASE \/ ServeCreate \/ ServeOpen \/ ServeImport \/ ServeClose \/ Write \/ Restart \/ DeleteNothing
           \/ (\E a \in Accounts : Create(a) \/ Deliver(a)) \/ UNCHANGED vars
  BY <1>1, <1>4 DEF ServeCreate, ServeOpen, ServeImport, ServeClose, Write, Restart, DeleteNothing, Create, Deliver, vars
<1>5. CASE \/ Start \/ Created \/ Open \/ OpenAfterClose \/ Opened \/ List \/ Pause \/ CloseRejected \/ Delete
           \/ Deleted \/ Import \/ Imported
  BY <1>1, <1>5 DEF Start, Created, Open, OpenAfterClose, Opened, List, Pause, CloseRejected, Delete, Deleted, Import, Imported
<1>6. CASE \E next \in {"open", "import", "create", "delete"}, a \in Accounts \cup {None} : Leave(next, a)
  BY <1>1, <1>6 DEF Leave
<1> QED
  BY <1>1, <1>2, <1>3, <1>4, <1>5, <1>6 DEF Next, Served, Shown

\* The copy of redux-persist is what is shown, and a copy from before is no change made since.
Copied ==
    /\ store.status = "on" /\ (~store.paused \/ ~history.unsaved) => store.last = store.settings
    /\ store.status # "on" => store.settings = Default \/ store.settings # store.last

LEMMA CopiedStep ==
    ASSUME Types, HistoryOK, Waits, Numbers, Switched, Copied, [Next]_vars
    PROVE  Copied'
<1>0. TypeOK /\ store \in Stores /\ store.last \in Settings \cup {Unset} /\ MaxChanges \in Nat /\ changes \in 0 .. MaxChanges
  BY TypeParts, SessionAssumption DEF Types, ReadTypes, Stores, BoundTypes
<1> USE <1>0
<1>1. CASE Closed \/ CloseFails
  <2>1. Clears
    BY <1>1, StoreMoves DEF Closed, CloseFails
  <2> QED
    BY <2>1 DEF Clears, Copied
<1>2. CASE \E both \in BOOLEAN : Stop(both)
  BY <1>2 DEF Stop, Copied, NewStore
<1>3. CASE ~Closed /\ ~CloseFails /\ ~\E both \in BOOLEAN : Stop(both)
  <2>0. history.unsaved => history'.unsaved
    BY <1>3, FailureSteps
  <2>1. CASE UNCHANGED store
    BY <2>0, <2>1 DEF Copied
  <2>2. CASE Write \/ Flush
    BY <2>0, <2>2, StoreMoves DEF Unwritten, Copied
  <2>3. CASE Change
    <3> DEFINE new == [by |-> screen.account, n |-> changes + 1]
    <3>1. new \in Settings /\ Shows(new, store.status) /\ new.n = changes + 1
      BY <2>3, StoreMoves
    <3>2. new # store.last
      BY <3>1 DEF Numbers, Within, Settings, Unset
    <3>3. store.status = "on" /\ store.paused => history'.unsaved
      BY <2>3, FailureSteps DEF Switched
    <3> HIDE DEF new
    <3> QED
      BY <3>1, <3>2, <3>3 DEF Copied, Shows
  <2>4. ASSUME NEW i \in Slots, Rehydrate(i) PROVE Copied'
    <3>1. reads[i] # Free
      BY <2>4 DEF Rehydrate, Free
    <3>2. ~store.paused
      BY <3>1 DEF Switched, Waits, Idle
    <3>3. Shows(Restored(i), "on")
      BY <2>4, StoreMoves
    <3>4. store'.status = "on" /\ store'.last = store'.settings
      BY <3>2, <3>3 DEF Shows
    <3> QED
      BY <3>4 DEF Copied
  <2>5. CASE Pause
    <3>1. Pauses /\ (store.status # "off" => ~store.paused)
      BY <2>5, StoreMoves DEF Pause, At, Switched
    <3> QED
      BY <3>1 DEF Copied, Pauses
  <2>6. CASE (Created \/ Opened) /\ Persist
    <3>1. Resumes /\ (store.status # "off" => ~store.paused)
      BY <2>6, StoreMoves DEF Created, Opened, At, Switched
    <3> QED
      BY <3>1 DEF Copied, Resumes
  <2>7. CASE Themed
    BY <2>7 DEF Themed, Copied
  <2> QED
    BY <1>3, <2>1, <2>2, <2>3, <2>4, <2>5, <2>6, <2>7, StoreSteps
<1> QED
  BY <1>1, <1>2, <1>3

\* The writes that wait are those that waited, in their order, and at most one more.
From(k, j) == /\ j \in DOMAIN calls /\ calls[j].op = "put" /\ calls[j].value = calls'[k].value
              /\ calls[j].awaited = calls'[k].awaited

LEMMA CallMoves ==
    ASSUME Types, [Next]_vars
    PROVE  \/ \E d \in {0, 1} : \A k \in DOMAIN calls' : calls'[k].op = "put" => From(k, k + d)
           \/ /\ Write \/ Flush
              /\ \A k \in DOMAIN calls' : calls'[k].op = "put" =>
                    \/ k \in DOMAIN calls /\ calls[k].op = "put" /\ calls[k].value = calls'[k].value
                    \/ store.pending /\ k = Len(calls) + 1 /\ calls'[k].value = store.last
<1>0. /\ calls \in Seq(Calls) /\ store \in Stores /\ reads \in [Slots -> Reads]
      /\ screen.account \in Accounts \cup {None} /\ None \in Accounts \cup {None}
      /\ TypeOK /\ ScreenOK
  BY TypeParts DEF Types, CallSeqTypes, ReadTypes, ScreenTypes
<1> USE <1>0
<1> DEFINE Shift(d) == \A k \in DOMAIN calls' : calls'[k].op = "put" => From(k, k + d)
<1>1. ASSUME NEW op, Serve(op) PROVE Shift(1)
  BY <1>1, CallServed DEF Serve, From
<1>2. CASE Served
  BY <1>1, <1>2 DEF Served, ServeGet, ServePut, ServeCreate, ServeOpen, ServeImport, ServeClose, ServeDelete
<1>3. ASSUME \A k \in DOMAIN calls' : calls'[k].op = "put" => From(k, k) PROVE Shift(0)
  <2>1. \A k \in DOMAIN calls : k + 0 = k
    OBVIOUS
  <2> QED
    BY <1>3, <2>1 DEF From
<1>4. ASSUME NEW i \in Slots, Rehydrate(i) PROVE Shift(0)
  <2>1. calls' = [k \in DOMAIN calls |-> IF calls[k].slot = i THEN [calls[k] EXCEPT !.slot = 0] ELSE calls[k]]
    BY <1>4 DEF Rehydrate
  <2>2. \A k \in DOMAIN calls : calls[k] \in Calls
    OBVIOUS
  <2>3. \A k \in DOMAIN calls' : calls'[k].op = "put" => From(k, k)
    BY <2>1, <2>2 DEF Calls, From
  <2> QED
    BY <1>3, <2>3
<1>5. CASE Write
  <2>1. /\ Put(store.last) \in Calls /\ Put(store.last).value = store.last /\ calls' = Append(calls, Put(store.last))
        /\ store.pending
    BY <1>5, CallTypes DEF Stores, Write
  <2>2. \A k \in DOMAIN calls' : (k \in DOMAIN calls /\ calls'[k] = calls[k]) \/ (k = Len(calls) + 1 /\ calls'[k] = Put(store.last))
    BY <2>1, CallAsked
  <2> QED
    BY <1>5, <2>1, <2>2
<1>6. CASE Flush
  <2>1. ASSUME NEW k \in DOMAIN calls', calls'[k].op = "put"
        PROVE  \/ k \in DOMAIN calls /\ calls[k].op = "put" /\ calls[k].value = calls'[k].value
               \/ store.pending /\ k = Len(calls) + 1 /\ calls'[k].value = store.last
    <3>1. k \in DOMAIN Flushed /\ Flushed[k].op = "put" /\ Flushed[k].value = calls'[k].value
      BY <1>6, <2>1, FlushCalls
    <3>2. CASE store.pending
      <4>1. Put(store.last) \in Calls /\ Put(store.last).value = store.last
        BY CallTypes DEF Stores
      <4>2. Flushed = Append(calls, Put(store.last))
        BY <3>2 DEF Flushed
      <4> QED
        BY <3>1, <3>2, <4>1, <4>2
    <3>3. CASE ~store.pending
      BY <3>1, <3>3 DEF Flushed
    <3> QED
      BY <3>2, <3>3
  <2> QED
    BY <1>6, <2>1
<1>7. ASSUME UNCHANGED calls PROVE Shift(0)
  BY <1>3, <1>7 DEF From
<1>8. CASE Start \/ List \/ CloseRejected \/ Imported \/ Change \/ Restart \/ CloseFails \/ (\E a \in Accounts : Deliver(a))
           \/ UNCHANGED vars
  BY <1>7, <1>8 DEF Start, List, CloseRejected, Imported, Change, Restart, CloseFails, Deliver, vars
<1>9. CASE (\E a \in Accounts : Create(a)) \/ Open \/ OpenAfterClose \/ Pause \/ Delete \/ Import
  <2>1. \/ calls' = calls
        \/ \E op \in {"create", "open", "close", "delete", "import"}, a \in Accounts \cup {None} : Ask(op, a)
    BY <1>9 DEF Create, Open, OpenAfterClose, Pause, Delete, Import
  <2>2. ASSUME NEW op \in {"create", "open", "close", "delete", "import"}, NEW a \in Accounts \cup {None}, Ask(op, a)
        PROVE  Shift(0)
    BY <1>3, <2>2, AskedTypes DEF From
  <2> QED
    BY <1>7, <2>1, <2>2
<1>10. ASSUME Persist PROVE Shift(0)
  <2>1. CASE calls' # calls
    <3>1. PICK i \in Slots : calls' = Append(calls, [Call("get", None) EXCEPT !.slot = i])
      BY <1>10, <2>1 DEF Persist
    <3>2. [Call("get", None) EXCEPT !.slot = i] \in Calls /\ [Call("get", None) EXCEPT !.slot = i].op = "get"
      BY CallTypes
    <3>3. \A k \in DOMAIN calls' : calls'[k].op = "put" => k \in DOMAIN calls /\ calls'[k] = calls[k]
      BY <3>1, <3>2, CallAsked
    <3> QED
      BY <1>3, <3>3 DEF From
  <2> QED
    BY <1>7, <2>1
<1>11. CASE Created \/ Opened
  BY <1>7, <1>10, <1>11 DEF Created, Opened
<1>12. CASE Closed \/ Deleted \/ DeleteNothing \/ \E both \in BOOLEAN : Stop(both)
  <2>1. calls' = calls \/ calls' = <<>>
    BY <1>12 DEF Closed, Deleted, DeleteNothing, Stop, CloseBridge
  <2>2. calls' = <<>> => Shift(0)
    OBVIOUS
  <2> QED
    BY <1>7, <2>1, <2>2
<1>13. CASE \E next \in {"open", "import", "create", "delete"}, a \in Accounts \cup {None} : Leave(next, a)
  BY <1>7, <1>13 DEF Leave
<1>14. CASE \E i \in Slots : Rehydrate(i)
  BY <1>4, <1>14
<1> QED
  BY <1>2, <1>5, <1>6, <1>8, <1>9, <1>11, <1>12, <1>13, <1>14 DEF Next, Shown

\* A read is answered by its call, or as the bridge is closed.
LEMMA ReadStages ==
    ASSUME TypeOK, [Next]_vars, NEW i \in Slots, reads'[i].step = "read"
    PROVE  reads'[i] = reads[i] \/ ServeGet \/ ((Closed \/ Deleted \/ DeleteNothing) /\ CloseBridge)
<1>0. reads \in [Slots -> Reads]
  BY TypeParts DEF ReadTypes
<1> USE <1>0
<1>1. CASE reads' = reads
  BY <1>1
<1>2. CASE ServeGet
  BY <1>2
<1>3. CASE \E j \in Slots : Rehydrate(j)
  BY <1>3 DEF Rehydrate, Free
<1>4. CASE Created \/ Opened
  <2>1. reads' = reads \/ \E j \in Slots : reads' = [reads EXCEPT ![j].step = "asked"]
    BY <1>4 DEF Created, Opened, Persist
  <2> QED
    BY <2>1, SlotRead
<1>5. CASE Closed \/ Deleted \/ DeleteNothing
  BY <1>1, <1>5 DEF Closed, Deleted, DeleteNothing
<1>6. CASE \E both \in BOOLEAN : Stop(both)
  BY <1>6 DEF Stop, Free
<1>7. CASE ServePut \/ ServeCreate \/ ServeOpen \/ ServeImport \/ ServeClose \/ ServeDelete
           \/ Write \/ Change \/ (\E a \in Accounts : Create(a) \/ Deliver(a)) \/ UNCHANGED vars
  BY <1>1, <1>7 DEF ServePut, ServeCreate, ServeOpen, ServeImport, ServeClose, ServeDelete, Write, Change, Create, Deliver, vars
<1>8. CASE \/ Start \/ Open \/ OpenAfterClose \/ List \/ Flush \/ Pause \/ CloseRejected \/ Delete \/ Import \/ Imported
           \/ Restart \/ CloseFails
  BY <1>1, <1>8 DEF Start, Open, OpenAfterClose, List, Flush, Pause, CloseRejected, Delete, Import, Imported, Restart, CloseFails
<1>9. CASE \E next \in {"open", "import", "create", "delete"}, a \in Accounts \cup {None} : Leave(next, a)
  BY <1>1, <1>9 DEF Leave
<1> QED
  BY <1>2, <1>3, <1>4, <1>5, <1>6, <1>7, <1>8, <1>9 DEF Next, Served, Shown

\* How the screens come on which settings are shown or saved.
LEMMA ShowingSteps ==
    ASSUME TypeOK, ScreenOK, [Next]_vars
    PROVE  /\ screen'.at = "closing" /\ screen'.step = "flush" => ScreenStays \/ Flush
           /\ screen'.at = "closing" /\ screen'.step = "close" => ScreenStays \/ Pause
           /\ screen'.at = "closing" /\ screen'.step = "begin" =>
                 \/ ScreenStays \/ Restart
                 \/ \E next \in {"open", "import", "create", "delete"}, a \in Accounts \cup {None} : Leave(next, a)
           /\ screen'.at = "home" => ScreenStays \/ List
           /\ screen'.at = "opening" /\ screen'.step = "list" => ScreenStays \/ Open \/ Opened
<1>1. CASE ScreenStays
  BY <1>1
<1>2. CASE Start \/ (\E a \in Accounts : Create(a)) \/ Created \/ Closed \/ Imported \/ Restart \/ DeleteNothing
           \/ CloseFails \/ \E both \in BOOLEAN : Stop(both)
  BY <1>2, Moves DEF Begun
<1>3. CASE \E next \in {"open", "import", "create", "delete"}, a \in Accounts \cup {None} : Leave(next, a)
  BY <1>3, Moves DEF Begun
<1>4. CASE Open \/ OpenAfterClose \/ Opened
  <2>1. screen'.at = "opening"
    BY <1>4, Moves DEF Stepped, Open, OpenAfterClose, Opened, At
  <2>2. OpenAfterClose => screen'.step # "list"
    BY Moves DEF Stepped
  <2> QED
    BY <1>4, <2>1, <2>2
<1>5. CASE List \/ Deleted
  <2>1. \/ List
        \/ Stepped("stuck") /\ screen.at = "deleting"
        \/ \E at, a, n, t : at \in {"start", "opening"} /\ Begun(at, a, n, t)
    BY <1>5, Moves DEF Deleted, At
  <2>2. List => screen'.step = "stuck" \/ screen'.at = "home"
    BY Moves DEF Stepped, Begun
  <2> QED
    BY <2>1, <2>2 DEF Stepped, Begun
<1>6. CASE Flush \/ Pause \/ CloseRejected
  BY <1>6, Moves DEF Stepped, Flush, Pause, CloseRejected, At
<1>7. CASE Delete \/ Import
  BY <1>7, Moves DEF Stepped, Delete, Import, At
<1> QED
  BY <1>1, <1>2, <1>3, <1>4, <1>5, <1>6, <1>7 DEF Next, Shown, ScreenStays

\* What is stored, what waits to be written and what was seen last get newer in this order.
Upto(v, w) == v = Unset \/ v = w \/ v.n < w.n
Base == IF data # None THEN stored[data] ELSE Unset

Line(base, puts, last) ==
    /\ last # Unset /\ Upto(base, last)
    /\ \A k \in DOMAIN puts : puts[k].op = "put" =>
          /\ puts[k].value # Unset /\ Upto(base, puts[k].value) /\ Upto(puts[k].value, last)
          /\ \A l \in DOMAIN puts : puts[l].op = "put" /\ k < l => Upto(puts[k].value, puts[l].value)

Ascending == store.status = "on" => Line(Base, calls, store.last)
Faithful == \A i \in Slots : reads[i].step = "read" => reads[i].value = Base

LEMMA UptoFacts ==
    /\ \A v \in Settings \cup {Unset} : Upto(v, v) /\ Upto(Unset, v)
    /\ \A v, w, x \in Settings \cup {Unset} : Upto(v, w) /\ Upto(w, x) /\ w # Unset => Upto(v, x)
    /\ \A v, w \in Settings \cup {Unset} : Upto(v, w) /\ Upto(w, v) /\ v # Unset /\ w # Unset => v = w
BY SessionAssumption DEF Upto, Settings, Unset

\* The account that runs stays while its settings are loaded or shown.
LEMMA BaseStep ==
    ASSUME Types, Runs, Waits, Switched, Unused, NewIsUnused, store.status # "off", [Next]_vars
    PROVE  \/ Base' = Base
           \/ Base' = Unset /\ (store.status = "on" \/ \E both \in BOOLEAN : Stop(both))
           \/ ServePut /\ data # None /\ 1 \in DOMAIN calls /\ calls[1].op = "put" /\ Base' = calls[1].value
<1>0. /\ TypeOK /\ OneCall /\ ScreenOK /\ Fits(screen) /\ ServiceTypes /\ None \notin Accounts /\ Loading
      /\ stored \in [Accounts -> Settings \cup {Unset}] /\ data \in Accounts \cup {None}
  BY TypeParts, SessionAssumption DEF Types, ScreenOK, ServiceTypes, ReadTypes
<1> USE <1>0
<1>1. CASE UNCHANGED data
  <2>1. CASE stored' = stored
    BY <1>1, <2>1 DEF Base
  <2>2. CASE ServePut /\ data # None /\ 1 \in DOMAIN calls /\ calls[1].op = "put" /\ stored' = [stored EXCEPT ![data] = calls[1].value]
    BY <1>1, <2>2 DEF Base
  <2>3. CASE data = None
    BY <1>1, <2>3 DEF Base
  <2> QED
    BY <2>1, <2>2, <2>3, StoredSteps
<1>2. CASE ServeOpen /\ Operation = "open" /\ data = None /\ data' = screen.account
  <2>1. screen.at = "opening"
    BY <1>2 DEF Operation, Fits
  <2>2. stored' = stored /\ stored[screen.account] = Unset
    BY <1>2, <2>1 DEF ServeOpen, NewIsUnused
  <2> QED
    BY <1>2, <2>2 DEF Base
<1>3. CASE ServeImport /\ Operation = "import"
  BY <1>3 DEF Operation, Fits, Switched
<1>4. CASE ServeClose /\ Operation = "close" /\ data' = None
  <2>1. CASE store.status = "on"
    BY <1>4, <2>1 DEF Base
  <2>2. CASE store.status = "loading"
    <3>1. ~Idle
      BY <2>2 DEF Loading, Idle
    <3>2. screen.at \in {"opening", "closing"} /\ screen.step = "close"
      BY <1>4 DEF Operation, Fits
    <3>3. screen.at = "opening" /\ data = None
      BY <3>1, <3>2 DEF Waits
    <3> QED
      BY <1>4, <3>3 DEF Base
  <2>3. store.status \in {"on", "loading"}
    BY TypeParts DEF ReadTypes, Stores
  <2> QED
    BY <2>1, <2>2, <2>3
<1>5. CASE (Closed \/ Deleted \/ DeleteNothing) /\ data' = None
  <2>1. screen.at # "deleting" /\ screen.at # "error"
    BY DEF Switched
  <2>2. Closed /\ screen.at = "closing" /\ screen.step = "close"
    BY <1>5, <2>1 DEF Closed, Deleted, DeleteNothing, At
  <2>3. store.status = "on"
    <3>1. Idle
      BY <2>2 DEF Waits
    <3>2. store.status \in {"off", "loading", "on"}
      BY TypeParts DEF ReadTypes, Stores
    <3> QED
      BY <3>1, <3>2 DEF Idle, Loading
  <2> QED
    BY <1>5, <2>3 DEF Base
<1>6. CASE (\E both \in BOOLEAN : Stop(both)) /\ data' = None
  BY <1>6 DEF Base
<1> QED
  BY <1>1, <1>2, <1>3, <1>4, <1>5, <1>6, DataSteps

LEMMA AscendingStep ==
    ASSUME Types, HistoryOK, Runs, Paused, Waits, Numbers, Switched, Unused, NewIsUnused, Copied, Ascending, Faithful,
           ~history'.unread, [Next]_vars, store'.status = "on"
    PROVE  Line(Base', calls', store'.last)
<1>0. /\ TypeOK /\ ScreenOK /\ calls \in Seq(Calls) /\ store \in Stores /\ ServiceTypes
      /\ store.last \in Settings \cup {Unset} /\ store.settings \in Settings /\ reads \in [Slots -> Reads]
      /\ changes \in 0 .. MaxChanges /\ MaxChanges \in Nat
      /\ Base \in Settings \cup {Unset}
      /\ \A k \in DOMAIN calls : k \in Nat /\ calls[k].value \in Settings \cup {Unset}
  BY TypeParts, CallFields, SessionAssumption DEF Types, CallSeqTypes, ReadTypes, BoundTypes, Stores, ServiceTypes, Base
<1> USE <1>0
<1>1. ASSUME NEW i \in Slots, Rehydrate(i) PROVE Line(Base', calls', store'.last)
  <2>1. /\ Restored(i) \in Settings /\ Shows(Restored(i), "on") /\ reads[i] # Free
    <3>1. Restored(i) \in Settings /\ Shows(Restored(i), "on")
      BY <1>1, StoreMoves
    <3>2. reads[i] # Free
      BY <1>1 DEF Rehydrate, Free
    <3> QED
      BY <3>1, <3>2
  <2>2. store.status = "loading" /\ ~store.paused /\ ~store.pending /\ NoPut
    BY <2>1 DEF Switched, Waits, Idle
  <2>3. store'.last = Restored(i) /\ Base' = Base
    BY <1>1, <2>1, <2>2 DEF Shows, Rehydrate, service, Base
  <2>4. reads[i].step = "read"
    BY <1>1 DEF Rehydrate, HistoryOK
  <2>5. Base = Unset \/ Base = Restored(i)
    BY <2>4 DEF Faithful, Restored
  <2>6. NoPut'
    BY <2>2, PutsStep DEF NoPut, Earlier
  <2>7. Restored(i) # Unset
    BY <2>1, SessionAssumption DEF Settings, Unset
  <2> QED
    BY <2>3, <2>5, <2>6, <2>7 DEF Line, NoPut, Upto
<1>2. CASE \A i \in Slots : ~Rehydrate(i)
  <2>1. /\ store.status = "on" /\ Line(Base, calls, store.last)
        /\ store'.last = store.last \/ (Change /\ store'.last = [by |-> screen.account, n |-> changes + 1])
    <3>1. CASE UNCHANGED store
      BY <3>1 DEF Ascending
    <3>2. CASE Write \/ Flush
      BY <3>2, StoreMoves DEF Unwritten, Ascending
    <3>3. CASE Change
      BY <3>3, StoreMoves DEF Shows, Ascending
    <3>4. CASE Pause
      BY <3>4, StoreMoves DEF Pauses, Ascending
    <3>5. CASE Closed \/ CloseFails
      BY <3>5, StoreMoves DEF Closed, CloseFails, Clears
    <3>6. CASE Persist
      BY <3>6, StoreMoves DEF Resumes, Ascending
    <3>7. CASE Themed
      BY <3>7 DEF Themed, Copied, Ascending
    <3>8. CASE \E both \in BOOLEAN : Stop(both)
      BY <3>8 DEF Stop, NewStore
    <3> QED
      BY <1>2, <3>1, <3>2, <3>3, <3>4, <3>5, <3>6, <3>7, <3>8, StoreSteps
  <2>2. CASE Change
    <3> DEFINE new == [by |-> screen.account, n |-> changes + 1]
    <3>1. Base' = Base /\ calls' = calls /\ new \in Settings
      BY <2>2, StoreMoves DEF Change, service, Base
    <3>2. Within(Base, changes) /\ \A k \in DOMAIN calls : calls[k].op = "put" => Within(calls[k].value, changes)
      BY DEF Numbers, Base, Within, ServiceTypes
    <3>3. new # Unset /\ new.n = changes + 1
      BY <3>1, SessionAssumption DEF Settings, Unset
    <3>4. \A v \in Settings \cup {Unset} : Within(v, changes) => Upto(v, new)
      BY <3>3 DEF Within, Upto, Settings
    <3> HIDE DEF new
    <3>5. Line(Base, calls, new)
      BY <2>1, <3>2, <3>3, <3>4 DEF Line
    <3> QED
      BY <2>1, <3>1, <3>5 DEF new
  <2>3. ASSUME ~Change, NEW d \in {0, 1}, \A k \in DOMAIN calls' : calls'[k].op = "put" => From(k, k + d)
        PROVE  Line(Base', calls', store'.last)
    <3>1. \A k \in DOMAIN calls' : k \in Nat
      BY TypeStep, TypeParts DEF CallSeqTypes, Types
    <3>2. store'.last = store.last
      BY <2>1, <2>3
    <3>3. /\ \A k \in DOMAIN calls' : calls'[k].op = "put" =>
                 /\ k + d \in DOMAIN calls /\ calls[k + d].op = "put" /\ calls'[k].value = calls[k + d].value
          /\ \A k, l \in DOMAIN calls' : k < l => k + d < l + d
      BY <2>3, <3>1 DEF From
    <3>4. Line(Base, calls', store.last)
      BY <2>1, <3>3 DEF Line
    <3>5. CASE Base' \in {Base, Unset}
      <4>1. \A v : Upto(Unset, v)
        BY DEF Upto
      <4>2. Line(Unset, calls', store.last)
        BY <3>4, <4>1 DEF Line
      <4> QED
        BY <3>2, <3>4, <3>5, <4>2
    <3>6. CASE 1 \in DOMAIN calls /\ calls[1].op = "put" /\ Base' = calls[1].value
      <4>1. ASSUME NEW j \in DOMAIN calls, calls[j].op = "put" PROVE Upto(calls[1].value, calls[j].value)
        <5>1. j = 1 \/ 1 < j
          OBVIOUS
        <5> QED
          BY <2>1, <3>6, <4>1, <5>1, UptoFacts DEF Line
      <4>2. Upto(calls[1].value, store.last)
        BY <2>1, <3>6 DEF Line
      <4>3. \A k \in DOMAIN calls' : calls'[k].op = "put" => Upto(Base', calls'[k].value)
        BY <3>3, <3>6, <4>1
      <4> QED
        BY <3>2, <3>4, <3>6, <4>2, <4>3 DEF Line
    <3> QED
      BY <2>1, <3>5, <3>6, BaseStep
  <2>4. ASSUME Write \/ Flush,
               \A k \in DOMAIN calls' : calls'[k].op = "put" =>
                    \/ k \in DOMAIN calls /\ calls[k].op = "put" /\ calls[k].value = calls'[k].value
                    \/ store.pending /\ k = Len(calls) + 1 /\ calls'[k].value = store.last
        PROVE  Line(Base', calls', store'.last)
    <3>1. Base' = Base /\ store'.last = store.last
      BY <2>4, StoreMoves DEF Write, Flush, service, Base, Unwritten
    <3>2. \A k \in DOMAIN calls : k \in Nat /\ Len(calls) \in Nat /\ k < Len(calls) + 1
      OBVIOUS
    <3>3. ASSUME NEW k \in DOMAIN calls', calls'[k].op = "put"
          PROVE  calls'[k].value # Unset /\ Upto(Base, calls'[k].value) /\ Upto(calls'[k].value, store.last)
      BY <2>1, <2>4, <3>3, UptoFacts DEF Line
    <3>4. ASSUME NEW k \in DOMAIN calls', calls'[k].op = "put", NEW l \in DOMAIN calls', calls'[l].op = "put", k < l
          PROVE  Upto(calls'[k].value, calls'[l].value)
      <4>1. CASE l \in DOMAIN calls /\ calls[l].op = "put" /\ calls[l].value = calls'[l].value
        <5>1. k \in DOMAIN calls /\ calls[k].op = "put" /\ calls[k].value = calls'[k].value
          <6>1. k # Len(calls) + 1
            BY <3>2, <3>4, <4>1
          <6> QED
            BY <2>4, <3>4, <6>1
        <5> QED
          BY <2>1, <3>4, <4>1, <5>1 DEF Line
      <4>2. CASE calls'[l].value = store.last
        BY <3>3, <3>4, <4>2
      <4> QED
        BY <2>4, <3>4, <4>1, <4>2
    <3>5. store.last # Unset /\ Upto(Base, store.last)
      BY <2>1 DEF Line
    <3> QED
      BY <3>1, <3>3, <3>4, <3>5 DEF Line
  <2> QED
    BY <2>2, <2>3, <2>4, CallMoves
<1> QED
  BY <1>1, <1>2

LEMMA FaithfulStep ==
    ASSUME Types, HistoryOK, Runs, Gets, Waits, Switched, Switched', Unused, NewIsUnused, Faithful,
           ~history'.unread, [Next]_vars
    PROVE  Faithful'
<1>0. /\ TypeOK /\ ScreenOK /\ calls \in Seq(Calls) /\ reads \in [Slots -> Reads] /\ Loading
  BY TypeParts DEF Types, CallSeqTypes, ReadTypes
<1> USE <1>0
<1> SUFFICES ASSUME NEW i \in Slots, reads'[i].step = "read" PROVE reads'[i].value = Base'
  BY DEF Faithful
<1>1. ~\E both \in BOOLEAN : Stop(both)
  BY DEF Stop, Free
<1>2. ~CloseBridge \/ ~(Closed \/ Deleted \/ DeleteNothing)
  <2> SUFFICES ASSUME CloseBridge, Closed \/ Deleted \/ DeleteNothing PROVE FALSE
    OBVIOUS
  <2>1. Idle
    BY DEF Closed, Deleted, DeleteNothing, At, Waits
  <2> QED
    BY <2>1 DEF CloseBridge, Idle, Free
<1>3. reads'[i] = reads[i] \/ ServeGet
  BY <1>2, ReadStages
<1>4. store.status = "loading"
  <2>1. store'.status = "loading"
    BY DEF Switched, Free
  <2>2. CASE ServeGet
    BY <2>1, <2>2 DEF ServeGet
  <2>3. CASE reads'[i] = reads[i]
    BY <2>3 DEF Switched, Free
  <2> QED
    BY <1>3, <2>2, <2>3
<1>5. Base' = Base
  <2>1. ~ServePut
    <3>1. NoPut
      BY <1>4 DEF Switched
    <3> QED
      BY <3>1, CallServed DEF ServePut, Serve, NoPut
  <2> QED
    BY <1>1, <1>4, <2>1, BaseStep
<1>6. CASE reads'[i] = reads[i]
  BY <1>5, <1>6 DEF Faithful
<1>7. CASE ServeGet /\ reads'[i] # reads[i]
  <2>1. ~(history' = [history EXCEPT !.unread = TRUE])
    BY DEF HistoryOK
  <2>2. \E value : reads' = Answers(value) /\ value = Base
    BY <1>7, <2>1 DEF ServeGet, Base
  <2> QED
    BY <1>5, <1>7, <2>2 DEF Answers
<1> QED
  BY <1>3, <1>6, <1>7

---------------------------------------------------------------------------
(* What is shown is stored, or will be.                                    *)

Showing ==
    /\ screen.account # None
    /\ \/ screen.at = "home" \/ (screen.at = "closing" /\ screen.step \in {"begin", "flush"})
       \/ screen.at = "opening" /\ screen.step = "list" /\ ~screen.fresh /\ data # None
Stays == Loads(stored[screen.account]) = store.settings
Coming == store.pending \/ Stays \/ Earlier(store.settings)
Saved ==
    store.status = "on" =>
        /\ Showing => Coming
        /\ screen.at = "closing" /\ screen.step = "flush" =>
              ~store.pending /\ \A k \in DOMAIN calls : calls[k].op = "put" => calls[k].awaited
        /\ screen.at = "closing" /\ screen.step = "close" => ~store.pending /\ NoPut /\ Stays

LEMMA ShowingRuns == Runs /\ Running /\ Showing => data = screen.account
BY DEF Runs, Running, Showing

\* A write waits until it is served or the bridge is closed.
Waiting(value) == \E k \in DOMAIN calls' : calls'[k].op = "put" /\ calls'[k].value = value
Ends == Closed \/ Deleted \/ DeleteNothing \/ \E both \in BOOLEAN : Stop(both)

LEMMA PutsStay ==
    ASSUME Types, [Next]_vars, NEW j \in DOMAIN calls, calls[j].op = "put"
    PROVE  Waiting(calls[j].value) \/ (ServePut /\ j = 1) \/ Ends
<1>0. /\ calls \in Seq(Calls) /\ store \in Stores /\ reads \in [Slots -> Reads]
      /\ screen.account \in Accounts \cup {None} /\ None \in Accounts \cup {None}
      /\ TypeOK /\ ScreenOK
  BY TypeParts DEF Types, CallSeqTypes, ReadTypes, ScreenTypes
<1> USE <1>0
<1>1. ASSUME NEW op, Serve(op), op # "put" \/ j # 1 PROVE Waiting(calls[j].value)
  <2>1. j # 1
    BY <1>1, CallServed DEF Serve
  <2>2. j - 1 \in DOMAIN calls' /\ calls'[j - 1] = calls[j]
    BY <1>1, <2>1, CallServed DEF Serve
  <2> QED
    BY <2>2 DEF Waiting
<1>2. CASE Served
  BY <1>1, <1>2 DEF Served, ServeGet, ServePut, ServeCreate, ServeOpen, ServeImport, ServeClose, ServeDelete
<1>3. ASSUME j \in DOMAIN calls', calls'[j].op = "put", calls'[j].value = calls[j].value PROVE Waiting(calls[j].value)
  BY <1>3 DEF Waiting
<1>4. CASE \E i \in Slots : Rehydrate(i)
  <2>1. PICK i \in Slots : calls' = [k \in DOMAIN calls |-> IF calls[k].slot = i THEN [calls[k] EXCEPT !.slot = 0] ELSE calls[k]]
    BY <1>4 DEF Rehydrate
  <2>2. calls[j] \in Calls
    OBVIOUS
  <2>3. j \in DOMAIN calls' /\ calls'[j].op = "put" /\ calls'[j].value = calls[j].value
    BY <2>1, <2>2 DEF Calls
  <2> QED
    BY <1>3, <2>3
<1>5. CASE Write
  <2>1. Put(store.last) \in Calls /\ calls' = Append(calls, Put(store.last))
    BY <1>5, CallTypes DEF Stores, Write
  <2>2. j \in DOMAIN calls' /\ calls'[j] = calls[j]
    BY <2>1, CallAsked
  <2> QED
    BY <1>3, <2>2
<1>6. CASE Flush
  <2>1. j \in DOMAIN Flushed /\ Flushed[j] = calls[j]
    BY FlushedCalls
  <2>2. j \in DOMAIN calls' /\ calls'[j].op = Flushed[j].op /\ calls'[j].value = Flushed[j].value
    BY <1>6, <2>1, FlushCalls
  <2> QED
    BY <1>3, <2>1, <2>2
<1>7. CASE UNCHANGED calls
  BY <1>3, <1>7
<1>8. CASE Start \/ List \/ CloseRejected \/ Imported \/ Change \/ Restart \/ CloseFails \/ (\E a \in Accounts : Deliver(a))
           \/ UNCHANGED vars
  BY <1>7, <1>8 DEF Start, List, CloseRejected, Imported, Change, Restart, CloseFails, Deliver, vars
<1>9. CASE (\E a \in Accounts : Create(a)) \/ Open \/ OpenAfterClose \/ Pause \/ Delete \/ Import
  <2>1. \/ calls' = calls
        \/ \E op \in {"create", "open", "close", "delete", "import"}, a \in Accounts \cup {None} : Ask(op, a)
    BY <1>9 DEF Create, Open, OpenAfterClose, Pause, Delete, Import
  <2>2. ASSUME NEW op \in {"create", "open", "close", "delete", "import"}, NEW a \in Accounts \cup {None}, Ask(op, a)
        PROVE  j \in DOMAIN calls' /\ calls'[j] = calls[j]
    BY <2>2, AskedTypes
  <2> QED
    BY <1>3, <1>7, <2>1, <2>2
<1>10. CASE Persist
  <2>1. CASE calls' # calls
    <3>1. PICK i \in Slots : calls' = Append(calls, [Call("get", None) EXCEPT !.slot = i])
      BY <1>10, <2>1 DEF Persist
    <3>2. [Call("get", None) EXCEPT !.slot = i] \in Calls
      BY CallTypes
    <3>3. j \in DOMAIN calls' /\ calls'[j] = calls[j]
      BY <3>1, <3>2, CallAsked
    <3> QED
      BY <1>3, <3>3
  <2> QED
    BY <1>7, <2>1
<1>11. CASE Created \/ Opened
  BY <1>7, <1>10, <1>11 DEF Created, Opened
<1>12. CASE Ends
  BY <1>12
<1>13. CASE \E next \in {"open", "import", "create", "delete"}, a \in Accounts \cup {None} : Leave(next, a)
  BY <1>7, <1>13 DEF Leave
<1>14. CASE Shown
  BY <1>8, <1>9, <1>6, <1>11, <1>12, <1>14 DEF Shown, Ends
<1> QED
  BY <1>2, <1>4, <1>5, <1>8, <1>9, <1>12, <1>13, <1>14 DEF Next, Ends

LEMMA PendingIsPut ==
    ASSUME Types, Write \/ Flush, store.pending
    PROVE  Waiting(store.last)
<1>0. calls \in Seq(Calls) /\ store \in Stores /\ Len(calls) \in Nat
  BY TypeParts DEF Types, CallSeqTypes, ReadTypes
<1> USE <1>0
<1>1. /\ Put(store.last) \in Calls /\ Put(store.last).op = "put" /\ Put(store.last).value = store.last
  BY CallTypes DEF Stores
<1> DEFINE longer == Append(calls, Put(store.last))
<1>2. Len(calls) + 1 \in DOMAIN longer /\ longer[Len(calls) + 1] = Put(store.last)
  BY <1>1
<1>3. CASE Write
  BY <1>1, <1>2, <1>3 DEF Write, Waiting
<1>4. CASE Flush
  <2>1. Flushed = longer
    BY DEF Flushed
  <2>2. \A k \in DOMAIN Flushed : k \in DOMAIN calls' /\ calls'[k].op = Flushed[k].op /\ calls'[k].value = Flushed[k].value
    BY <1>4, FlushCalls
  <2> QED
    BY <1>1, <1>2, <2>1, <2>2 DEF Waiting
<1> QED
  BY <1>3, <1>4

\* While settings are shown and loaded, they are stored or will be.
LEMMA ComingStep ==
    ASSUME Types, HistoryOK, Runs, Numbers, Switched, Running, Copied, Ascending, Coming, Showing,
           ~history.unsaved, ~history'.unsaved, store.status = "on", store'.status = "on",
           screen'.account = screen.account, [Next]_vars
    PROVE  Coming'
<1>0. /\ TypeOK /\ ScreenOK /\ Fits(screen) /\ calls \in Seq(Calls) /\ store \in Stores /\ None \notin Accounts
      /\ stored \in [Accounts -> Settings \cup {Unset}]
      /\ store.last \in Settings \cup {Unset} /\ store.settings \in Settings
      /\ screen.account \in Accounts
      /\ \A k \in DOMAIN calls : calls[k].value \in Settings \cup {Unset}
      /\ store.last = store.settings /\ data = screen.account
  BY TypeParts, CallFields, SessionAssumption, ShowingRuns
     DEF Types, ScreenOK, CallSeqTypes, ReadTypes, Stores, ServiceTypes, ScreenTypes, Showing, Copied
<1> USE <1>0
<1>1. ~Ends
  <2>1. ~Closed /\ ~\E both \in BOOLEAN : Stop(both)
    BY StoreMoves DEF Closed, Clears, Stop, NewStore
  <2>2. ~Deleted /\ ~DeleteNothing
    BY DEF Deleted, DeleteNothing, At, Showing
  <2> QED
    BY <2>1, <2>2 DEF Ends
<1>2. CASE Change
  <2> DEFINE new == [by |-> screen.account, n |-> changes + 1]
  <2>1. new \in Settings /\ Shows(new, store.status) /\ new.n = changes + 1
    BY <1>2, StoreMoves
  <2>2. changes \in 0 .. MaxChanges /\ MaxChanges \in Nat
    BY TypeParts, SessionAssumption DEF BoundTypes
  <2>3. new # store.last
    BY <2>1, <2>2 DEF Numbers, Within, Settings, Unset
  <2>4. ~store.paused
    BY DEF Switched, Showing
  <2> HIDE DEF new
  <2> QED
    BY <2>1, <2>3, <2>4 DEF Shows, Coming
<1>3. CASE ~Change
  <2>1. /\ store'.settings = store.settings
        /\ store.pending => store'.pending \/ ((Write \/ Flush) /\ store.pending)
    <3>1. CASE UNCHANGED store
      BY <3>1
    <3>2. CASE Write \/ Flush
      BY <3>2, StoreMoves DEF Unwritten
    <3>3. ASSUME NEW i \in Slots, Rehydrate(i) PROVE FALSE
      BY <3>3 DEF Rehydrate, Free, Switched
    <3>4. CASE Pause
      BY <3>4, StoreMoves DEF Pauses
    <3>5. CASE Persist
      BY <3>5, StoreMoves DEF Resumes
    <3>6. CASE Themed
      BY <3>6 DEF Themed
    <3>7. ~CloseFails
      BY StoreMoves DEF CloseFails, Clears
    <3> QED
      BY <1>1, <1>3, <3>1, <3>2, <3>3, <3>4, <3>5, <3>6, <3>7, StoreSteps DEF Ends
  <2>2. Waiting(store.settings) => Coming'
    BY <2>1 DEF Waiting, Coming, Earlier
  <2>3. CASE store.pending
    <3>1. CASE store'.pending
      BY <3>1 DEF Coming
    <3>2. CASE Write \/ Flush
      BY <2>2, <2>3, <3>2, PendingIsPut
    <3> QED
      BY <2>1, <2>3, <3>1, <3>2
  <2>4. ServePut => 1 \in DOMAIN calls /\ calls[1].op = "put" /\ stored'[screen.account] = calls[1].value
    <3> SUFFICES ASSUME ServePut PROVE 1 \in DOMAIN calls /\ calls[1].op = "put" /\ stored'[screen.account] = calls[1].value
      OBVIOUS
    <3>1. 1 \in DOMAIN calls /\ Head(calls) = calls[1] /\ calls[1].op = "put"
      BY CallServed DEF ServePut, Serve
    <3>2. ~(history' = [history EXCEPT !.unsaved = TRUE])
      BY DEF HistoryOK
    <3>3. stored' = [stored EXCEPT ![data] = Head(calls).value]
      BY <3>2 DEF ServePut
    <3> QED
      BY <3>1, <3>3
  <2>5. stored'[screen.account] = store.settings => Coming'
    <3>1. store.settings # Unset
      BY SessionAssumption DEF Settings, Unset
    <3> QED
      BY <2>1, <3>1 DEF Coming, Stays, Loads
  <2>6. CASE Earlier(store.settings)
    <3>1. PICK j \in DOMAIN calls : calls[j].op = "put" /\ calls[j].value = store.settings
      BY <2>6 DEF Earlier
    <3>2. CASE Waiting(calls[j].value)
      BY <2>2, <3>1, <3>2
    <3>3. CASE ServePut /\ j = 1
      BY <2>4, <2>5, <3>1, <3>3
    <3> QED
      BY <1>1, <3>1, <3>2, <3>3, PutsStay
  <2>7. CASE Stays
    <3>1. CASE ServePut
      <4>1. /\ calls[1].value # Unset /\ Upto(stored[screen.account], calls[1].value)
            /\ Upto(calls[1].value, store.settings)
        BY <2>4, <3>1 DEF Ascending, Line, Base
      <4>2. calls[1].value = store.settings
        <5>1. CASE stored[screen.account] = Unset
          <6>1. store.settings = Default
            BY <2>7, <5>1 DEF Stays, Loads
          <6>2. calls[1].value \in Settings
            BY <2>4, <3>1, <4>1
          <6> QED
            BY <4>1, <6>1, <6>2 DEF Upto, Settings, Default
        <5>2. CASE stored[screen.account] # Unset
          <6>1. stored[screen.account] = store.settings
            BY <2>7, <5>2 DEF Stays, Loads
          <6>2. calls[1].value \in Settings
            BY <2>4, <3>1, <4>1
          <6> QED
            BY <4>1, <5>2, <6>1, <6>2, UptoFacts
        <5> QED
          BY <5>1, <5>2
      <4> QED
        BY <2>4, <2>5, <3>1, <4>2
    <3>2. CASE stored' = stored
      BY <2>1, <2>7, <3>2 DEF Stays, Coming
    <3> QED
      BY <3>1, <3>2, StoredSteps
  <2> QED
    BY <2>3, <2>6, <2>7 DEF Coming
<1> QED
  BY <1>2, <1>3

\* So are settings as they are loaded.
LEMMA LoadedStep ==
    ASSUME Types, HistoryOK, Runs, Waits, Switched, Running, Copied, Faithful, Showing, ~history'.unread,
           NEW i \in Slots, Rehydrate(i)
    PROVE  Coming'
<1>0. /\ TypeOK /\ screen' = screen /\ stored' = stored /\ data = screen.account /\ data # None
      /\ store.settings \in Settings /\ screen.account \in Accounts
  BY TypeParts, ShowingRuns DEF Types, Rehydrate, service, Showing, ReadTypes, Stores, ScreenTypes
<1> USE <1>0
<1>1. /\ reads[i] # Free /\ reads[i].step = "read" /\ reads[i].value = stored[screen.account]
  BY DEF Rehydrate, HistoryOK, Faithful, Base, Free
<1>2. store.status = "loading" /\ ~store.paused
  BY <1>1 DEF Switched, Waits, Idle
<1>3. Shows(Restored(i), "on")
  BY StoreMoves
<1>4. store'.settings = Restored(i) /\ store'.pending = (store.pending \/ store.last # Restored(i))
  BY <1>2, <1>3 DEF Shows
<1>5. CASE stored[screen.account] # Unset
  BY <1>1, <1>4, <1>5 DEF Restored, Coming, Stays, Loads
<1>6. CASE stored[screen.account] = Unset
  <2>1. store'.settings = store.settings
    BY <1>1, <1>4, <1>6 DEF Restored
  <2>2. CASE store.settings = Default
    BY <1>6, <2>1, <2>2 DEF Coming, Stays, Loads
  <2>3. CASE store.settings # store.last
    BY <1>4, <2>1, <2>3 DEF Coming
  <2> QED
    BY <1>2, <2>2, <2>3 DEF Copied
<1> QED
  BY <1>5, <1>6

LEMMA StaysOn ==
    ASSUME Types, Switched, [Next]_vars, ScreenStays, store'.status = "on"
    PROVE  screen' = screen /\ (store.status = "on" \/ \E i \in Slots : Rehydrate(i))
<1>0. TypeOK /\ ScreenOK
  BY DEF Types
<1>1. CASE Served \/ (\E a \in Accounts : Deliver(a)) \/ UNCHANGED vars
  BY <1>0, <1>1, Moves DEF ScreenStays, Served, ServeGet, ServePut, ServeCreate, ServeOpen, ServeImport, ServeClose, ServeDelete,
     Deliver, vars
<1>2. CASE Write \/ Change
  BY <1>0, <1>2, StoreMoves, Moves DEF ScreenStays, Unwritten, Shows
<1>3. CASE \E i \in Slots : Rehydrate(i)
  BY <1>0, <1>3, Moves DEF ScreenStays
<1> QED
  BY <1>1, <1>2, <1>3 DEF ScreenStays

LEMMA SavedStep ==
    ASSUME Types, HistoryOK, Runs, Waits, Numbers, Switched, Running, Copied, Ascending, Faithful, Saved,
           ~history.unsaved, ~history'.unsaved, ~history'.unread, store'.status = "on", [Next]_vars
    PROVE  Saved'
<1>0. /\ TypeOK /\ ScreenOK /\ Fits(screen) /\ calls \in Seq(Calls) /\ store \in Stores /\ None \notin Accounts
      /\ answer \in {"none", "ok", "failed"}
  BY TypeParts, SessionAssumption DEF Types, ScreenOK, CallSeqTypes, ReadTypes
<1> USE <1>0
<1>1. ASSUME Showing' PROVE Coming'
  <2>1. CASE ScreenStays
    <3>1. screen' = screen
      BY <2>1, StaysOn
    <3>2. Showing
      <4>1. Operation = screen.step
        BY <1>1, <3>1 DEF Showing, Operation
      <4>2. screen.at = "opening" /\ screen.step = "list" /\ data' # None => data # None
        BY <4>1, DataSteps
      <4> QED
        BY <1>1, <3>1, <4>2 DEF Showing
    <3>3. CASE store.status = "on"
      BY <3>1, <3>2, <3>3, ComingStep DEF Saved
    <3>4. CASE \E i \in Slots : Rehydrate(i)
      BY <3>2, <3>4, LoadedStep
    <3> QED
      BY <2>1, <3>3, <3>4, StaysOn
  <2>2. CASE List
    <3>1. screen.at = "opening" /\ screen.step = "list" /\ screen.account # None
      BY <2>2 DEF List, At, Fits
    <3>2. data # None /\ screen'.account = screen.account
      BY <1>1, <2>2, <3>1, Moves DEF Begun, Stepped, Showing, List, service
    <3>3. CASE Themed
      BY <3>3 DEF Themed, Coming
    <3>4. CASE UNCHANGED store /\ ~Themed
      <4>1. store.status = "on" /\ ~store.paused
        BY <3>1, <3>4 DEF Switched
      <4>2. ~screen.fresh
        BY <2>2, <3>2, <3>4, <4>1, StoreMoves
      <4> QED
        BY <3>1, <3>2, <4>1, <4>2, ComingStep DEF Showing, Saved
    <3> QED
      BY <2>2, <3>3, <3>4, StoreMoves
  <2>3. CASE Open \/ Opened
    <3>1. screen.at = "opening" /\ screen.step \in {"begin", "open"}
      BY <2>3 DEF Open, Opened, At
    <3>2. store.status = "on"
      <4>1. UNCHANGED store \/ Resumes
        BY <2>3, StoreMoves DEF Open, Opened
      <4> QED
        BY <4>1 DEF Resumes
    <3>3. screen'.at = "opening" /\ screen'.fresh
      <4>1. screen.fresh
        BY <3>1, <3>2 DEF Switched
      <4>2. screen'.fresh = screen.fresh
        BY <2>3, FreshIs DEF Open, Opened
      <4>3. screen'.at = "opening"
        BY <2>3, <3>1, Moves DEF Stepped
      <4> QED
        BY <4>1, <4>2, <4>3
    <3> QED
      BY <1>1, <3>3 DEF Showing
  <2>4. ASSUME NEW next \in {"open", "import", "create", "delete"}, NEW a \in Accounts \cup {None}, Leave(next, a)
        PROVE  Coming'
    <3>1. screen.at = "home" /\ store' = store /\ screen.account # None
      BY <2>4 DEF Leave, Fits
    <3>2. screen'.account = screen.account
      BY <2>4, Moves DEF Begun
    <3> QED
      BY <3>1, <3>2, ComingStep DEF Showing, Saved
  <2>5. CASE Restart
    BY <2>5 DEF Restart, Switched
  <2>6. CASE Flush
    <3>1. screen.at = "closing" /\ screen.step = "begin" /\ store.status = "on"
      BY <2>6, StoreMoves DEF Flush, At, Unwritten
    <3>2. screen'.account = screen.account /\ screen.account # None
      BY <2>6, <3>1, Moves DEF Stepped, Switched
    <3> QED
      BY <3>1, <3>2, ComingStep DEF Showing, Saved
  <2> QED
    BY <1>1, <2>1, <2>2, <2>3, <2>4, <2>5, <2>6, ShowingSteps DEF Showing
\* On a screen that is being closed nothing is loaded or changed.
<1>2. ASSUME ScreenStays, screen.at = "closing", screen.step \in {"flush", "close"}, ~store.pending
      PROVE  /\ screen' = screen /\ store.status = "on" /\ store' = store /\ ~Write /\ ~Flush
  <2>1. ~\E i \in Slots : Rehydrate(i)
    BY <1>2 DEF Rehydrate, Free, Waits, Idle
  <2>2. screen' = screen /\ store.status = "on"
    BY <1>2, <2>1, StaysOn
  <2>3. ~Change
    BY <1>2, FailureSteps
  <2>4. ~Write
    BY <1>2 DEF Write
  <2>5. ~Flush
    <3>1. Flush => screen.step = "begin" /\ screen'.step = "flush"
      BY Moves DEF Flush, At, Stepped
    <3> QED
      BY <2>2, <3>1
  <2>6. store' = store
    <3>1. CASE Served \/ (\E a \in Accounts : Deliver(a)) \/ UNCHANGED vars
      BY <3>1 DEF Served, ServeGet, ServePut, ServeCreate, ServeOpen, ServeImport, ServeClose, ServeDelete, Deliver, vars
    <3> QED
      BY <1>2, <2>1, <2>3, <2>4, <3>1 DEF ScreenStays
  <2> QED
    BY <2>2, <2>4, <2>5, <2>6
<1>3. ASSUME screen'.at = "closing", screen'.step = "flush"
      PROVE  ~store'.pending /\ \A k \in DOMAIN calls' : calls'[k].op = "put" => calls'[k].awaited
  <2>1. CASE Flush
    <3>1. ~store'.pending
      BY <2>1, StoreMoves DEF Unwritten
    <3>2. /\ DOMAIN calls' = DOMAIN Flushed
          /\ \A k \in DOMAIN calls' : calls'[k] = [Flushed[k] EXCEPT !.awaited = (Flushed[k].op = "put")]
      BY <2>1 DEF Flush
    <3>3. \A c \in Calls : LET d == [c EXCEPT !.awaited = (c.op = "put")] IN d.op = c.op /\ d.awaited = (c.op = "put")
      BY DEF Calls
    <3>4. \A k \in DOMAIN Flushed : Flushed[k] \in Calls
      BY FlushedCalls
    <3>5. ASSUME NEW k \in DOMAIN calls', calls'[k].op = "put" PROVE calls'[k].awaited
      <4>1. Flushed[k] \in Calls /\ calls'[k] = [Flushed[k] EXCEPT !.awaited = (Flushed[k].op = "put")]
        BY <3>2, <3>4
      <4>2. calls'[k].op = Flushed[k].op /\ calls'[k].awaited = (Flushed[k].op = "put")
        BY <3>3, <4>1
      <4> QED
        BY <3>5, <4>2
    <3> QED
      BY <3>1, <3>5
  <2>2. CASE ScreenStays /\ ~Flush
    <3>1. screen' = screen
      BY <2>2, StaysOn
    <3>2. ~\E i \in Slots : Rehydrate(i)
      BY <1>3, <3>1 DEF Rehydrate, Free, Waits, Idle
    <3>3. store.status = "on"
      BY <2>2, <3>2, StaysOn
    <3>4. ~store.pending /\ \A k \in DOMAIN calls : calls[k].op = "put" => calls[k].awaited
      BY <1>3, <3>1, <3>3 DEF Saved
    <3>5. store' = store /\ ~Write /\ ~Flush
      BY <1>2, <1>3, <2>2, <3>1, <3>4
    <3>6. PICK d \in {0, 1} : \A k \in DOMAIN calls' : calls'[k].op = "put" => From(k, k + d)
      BY <3>5, CallMoves
    <3> QED
      BY <3>4, <3>5, <3>6 DEF From
  <2> QED
    BY <1>3, <2>1, <2>2, ShowingSteps
<1>4. ASSUME screen'.at = "closing", screen'.step = "close"
      PROVE  ~store'.pending /\ NoPut' /\ Stays'
  <2>1. CASE Pause
    <3>1. screen.at = "closing" /\ screen.step = "flush" /\ Written /\ stored' = stored
      BY <2>1 DEF Pause, At, service
    <3>2. Pauses /\ store.status = "on" /\ screen'.account = screen.account /\ screen.account # None
      BY <2>1, <3>1, StoreMoves, Moves DEF Pauses, Stepped, Switched
    <3>3. ~store.pending /\ NoPut
      BY <3>1, <3>2 DEF Saved, Written, NoPut
    <3>4. Stays
      BY <3>1, <3>2, <3>3 DEF Saved, Showing, Coming, NoPut, Earlier
    <3>5. NoPut'
      BY <3>3, PutsStep DEF NoPut, Earlier
    <3>6. Stays' /\ ~store'.pending
      BY <3>1, <3>2, <3>3, <3>4 DEF Stays, Pauses
    <3> QED
      BY <3>5, <3>6
  <2>2. CASE ScreenStays
    <3>1. screen' = screen
      BY <2>2, StaysOn
    <3>2. ~\E i \in Slots : Rehydrate(i)
      BY <1>4, <3>1 DEF Rehydrate, Free, Waits, Idle
    <3>3. store.status = "on"
      BY <2>2, <3>2, StaysOn
    <3>4. ~store.pending /\ NoPut /\ Stays
      BY <1>4, <3>1, <3>3 DEF Saved
    <3>5. store' = store
      BY <1>2, <1>4, <2>2, <3>1, <3>4
    <3>6. NoPut'
      BY <3>4, PutsStep DEF NoPut, Earlier
    <3>7. stored' = stored
      BY <1>4, <3>1, <3>4, StoredSteps DEF NoPut
    <3> QED
      BY <3>1, <3>4, <3>5, <3>6, <3>7 DEF Stays
  <2> QED
    BY <1>4, <2>1, <2>2, ShowingSteps
<1> QED
  BY <1>1, <1>3, <1>4 DEF Saved

---------------------------------------------------------------------------
(* No setting is lost.                                                     *)

KeptInv ==
    /\ SettingsInv /\ Numbers /\ Running /\ Unused
    /\ ~history.hurried => Switched /\ NewIsUnused /\ Copied
    /\ ~history.hurried /\ ~history.unread => Ascending /\ Faithful
    /\ ~history.hurried /\ ~history.unread /\ ~history.unsaved => Saved

LEMMA KeptInit == Init => KeptInv
<1> SUFFICES ASSUME Init PROVE KeptInv
  OBVIOUS
<1>1. /\ screen.at = "start" /\ screen.account = None /\ screen.step = "begin" /\ calls = <<>> /\ answer = "none"
      /\ store = NewStore /\ \A i \in Slots : reads[i] = Free
      /\ \A a \in Accounts : stored[a] = Unset \/ stored[a].n = 0
  BY DEF Init, Screen
<1>2. SettingsInv
  BY SettingsInvInit
<1>3. Numbers
  BY <1>1 DEF Numbers, Within, NewStore, Free, Default, Init
<1>4. Running
  BY <1>1 DEF Running
<1>5. Unused
  <2>1. ASSUME NEW a \in Accounts \ made PROVE stored[a] = Unset
    <3>1. stored[a] = Unset \/ \E b \in made : stored[a] = [by |-> b, n |-> 0]
      BY DEF Init
    <3>2. stored[a] # Unset => stored[a].by = a
      BY DEF Init
    <3>3. ASSUME NEW b \in made, stored[a] = [by |-> b, n |-> 0], stored[a] # Unset PROVE FALSE
      <4>1. stored[a].by = b
        BY <3>3
      <4> QED
        BY <3>2, <3>3, <4>1
    <3> QED
      BY <3>1, <3>3
  <2> QED
    BY <1>1, <2>1 DEF Unused
<1>6. Switched /\ NewIsUnused /\ Copied
  BY <1>1 DEF Switched, NewIsUnused, Copied, NewStore, NoPut
<1>7. Ascending /\ Faithful /\ Saved
  BY <1>1 DEF Ascending, Faithful, Saved, NewStore, Free
<1> QED
  BY <1>2, <1>3, <1>4, <1>5, <1>6, <1>7 DEF KeptInv

LEMMA KeptStep ==
    ASSUME KeptInv, [Next]_vars
    PROVE  KeptInv'
<1>1. Types /\ Runs /\ HistoryOK /\ Gets /\ Paused /\ Ordered /\ Numbers /\ Running /\ Unused /\ SettingsInv
  BY DEF KeptInv, SettingsInv, RowsInv
<1>2. SettingsInv' /\ Numbers' /\ Running' /\ Unused'
  BY <1>1, SettingsInvStep, NumbersStep, RunningStep, UnusedStep
<1>3. ASSUME ~history'.hurried
      PROVE  ~history.hurried /\ Waits /\ Switched /\ NewIsUnused /\ Copied /\ Switched' /\ NewIsUnused' /\ Copied'
  <2>1. ~history.hurried /\ Waits /\ (Flush => Idle) /\ Switched /\ NewIsUnused /\ Copied
    BY <1>1, <1>3, Unhurried DEF KeptInv
  <2> QED
    BY <1>1, <2>1, SwitchedStep, NewIsUnusedStep, CopiedStep
\* While settings are shown or loaded, what failed is not forgotten.
<1>4. store'.status # "off" =>
         (history.unread => history'.unread) /\ (history.unsaved => history'.unsaved)
  <2>1. Closed \/ CloseFails \/ (\E both \in BOOLEAN : Stop(both)) => store'.status = "off"
    BY <1>1, StoreMoves DEF Types, Closed, CloseFails, Clears, Stop, NewStore
  <2> QED
    BY <1>1, <2>1, FailureSteps
<1>5. ASSUME ~history'.hurried, ~history'.unread PROVE Ascending' /\ Faithful'
  <2>1. CASE store'.status = "off"
    BY <1>3, <1>5, <2>1 DEF Ascending, Faithful, Switched, Free
  <2>2. CASE store'.status # "off"
    <3>1. Ascending /\ Faithful
      BY <1>3, <1>4, <1>5, <2>2 DEF KeptInv
    <3>2. Ascending'
      BY <1>1, <1>3, <1>5, <3>1, AscendingStep DEF Ascending
    <3>3. Faithful'
      BY <1>1, <1>3, <1>5, <3>1, FaithfulStep
    <3> QED
      BY <3>2, <3>3
  <2> QED
    BY <2>1, <2>2
<1>6. ASSUME ~history'.hurried, ~history'.unread, ~history'.unsaved PROVE Saved'
  <2>1. CASE store'.status = "on"
    <3>1. ~history.unsaved /\ Ascending /\ Faithful /\ Saved
      BY <1>3, <1>4, <1>6, <2>1 DEF KeptInv
    <3> QED
      BY <1>1, <1>3, <1>6, <2>1, <3>1, SavedStep
  <2>2. CASE store'.status # "on"
    BY <2>2 DEF Saved
  <2> QED
    BY <2>1, <2>2
<1> QED
  BY <1>2, <1>3, <1>5, <1>6 DEF KeptInv

LEMMA KeptAlways == Spec => []KeptInv
BY KeptInit, KeptStep, PTL DEF Spec

\* What is stored for an account is replaced by settings that were changed later only, unless
\* the account was deleted, a read of its settings failed, or a session was closed while they
\* were being loaded: redux-persist writes what it has seen last, in the order it was seen, and
\* loads what is stored before it writes (persistStorage.ts, openAccount.ts).
THEOREM NewerIsStored == Spec => NewerOnly
<1>1. KeptInv /\ [Next]_vars =>
         [\A a \in Accounts :
             stored'[a] # stored[a] /\ stored[a] # Unset /\ ~history.unread /\ ~history.hurried =>
                a \in history'.deleted \/ stored'[a].n > stored[a].n]_vars
  <2> SUFFICES ASSUME KeptInv, Next, NEW a \in Accounts, stored'[a] # stored[a], stored[a] # Unset,
                      ~history.unread, ~history.hurried
               PROVE  a \in history'.deleted \/ stored'[a].n > stored[a].n
    OBVIOUS
  <2>1. /\ Types /\ Runs /\ HistoryOK /\ Switched /\ Ascending /\ calls \in Seq(Calls)
        /\ stored \in [Accounts -> Settings \cup {Unset}]
    BY TypeParts DEF KeptInv, SettingsInv, RowsInv, Types, CallSeqTypes, ServiceTypes
  <2>2. CASE data # None /\ 1 \in DOMAIN calls /\ calls[1].op = "put" /\ stored' = [stored EXCEPT ![data] = calls[1].value]
    <3>1. a = data
      BY <2>1, <2>2
    <3>2. store.status = "on"
      BY <2>1, <2>2 DEF Switched, Runs, NoPut
    <3>3. calls[1].value # Unset /\ Upto(stored[a], calls[1].value)
      BY <2>1, <2>2, <3>1, <3>2 DEF Ascending, Line, Base
    <3>4. stored'[a] = calls[1].value
      BY <2>1, <2>2, <3>1
    <3>5. calls[1].value \in Settings /\ stored[a] \in Settings
      BY <2>1, <2>2, <3>3, CallFields
    <3>6. stored[a].n < calls[1].value.n
      BY <3>3, <3>4 DEF Upto
    <3> QED
      BY <3>4, <3>5, <3>6, SessionAssumption DEF Settings
  <2>3. CASE /\ stored' = [stored EXCEPT ![screen.account] = Unset]
             /\ history' = [history EXCEPT !.deleted = @ \cup {screen.account}]
    BY <2>1, <2>3 DEF HistoryOK
  <2> QED
    BY <2>1, <2>2, <2>3, StoredSteps
<1> QED
  BY <1>1, KeptAlways, PTL DEF NewerOnly, Spec

\* When an account is closed, what was shown of it is stored, unless its settings were never
\* loaded or were being loaded still, a read or a write failed, or they were changed after the
\* flush: closeAccount.ts waits for persistor.flush() before it pauses the persistor and asks
\* for the account to be closed, and the calls of the service are served in order.
THEOREM ClosedIsSaved == Spec => ClosedSaved
<1>1. KeptInv /\ [Next]_vars =>
         [/\ screen.at = "closing" /\ screen.account # None /\ Closed
          /\ store.status = "on" /\ ~history.unread /\ ~history.unsaved /\ ~history.hurried
          => Loads(stored[screen.account]) = store.settings]_vars
  BY DEF KeptInv, Saved, Stays, Closed, At
<1> QED
  BY <1>1, KeptAlways, PTL DEF ClosedSaved, Spec

=============================================================================
