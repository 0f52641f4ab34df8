---------------------------- MODULE PushSettings ----------------------------
(***************************************************************************)
(* Turning notifications on and off in the mobile application              *)
(* (notif-push.ts, remote-services.ts, checkPermissions.ts and the         *)
(* permission screen) together with the node it configures (api_push.go,   *)
(* api_services_auth.go, push_utils.go, service_post_actions.go and the    *)
(* handlers of the account group).                                         *)
(*                                                                         *)
(* A press of a toggle starts a call, a chain of awaits that nothing       *)
(* guards against a second one. Two links of the chain, the request of the *)
(* device token and the authorisation at the push service, may never       *)
(* answer: each is raced against seven seconds, and goes on by itself when *)
(* it loses. What the node is told about the account it appends to the     *)
(* account group, and stores when the event comes back.                    *)
(*                                                                         *)
(* Platforms where notifications can be filtered (Android); mutes are for  *)
(* ever. conversationPushToggleState tests the function pushTokenShared,   *)
(* never its value, so whether the token is shared plays no role.          *)
(***************************************************************************)
EXTENDS Naturals, Sequences, FiniteSets

CONSTANTS
    Conversations,
    Joined,         \* conversations there are at the start
    MaxCalls,       \* bound on presses of a toggle
    MaxFaults       \* bound on failures

ASSUME ConstantsAssumption ==
    /\ Joined \subseteq Conversations /\ {MaxCalls, MaxFaults} \subseteq Nat
    /\ Conversations \cap {"none", "account", "token", "service", "server", "broadcast"} = {}

VARIABLES
    node,       \* the messenger's database
    log,        \* events of the account group that are not handled yet
    post,       \* post action of the event handled last
    session,    \* the call that began the authorisation last (authSession)
    perm,       \* the system's permission to notify
    view,       \* what the application's store knows of the node
    calls,
    request,    \* requestAndPersistPushToken, by call
    auth,       \* servicesAuthViaURL, by call
    asked,      \* history: conversations the user asked to be notified of
    lost,       \* history: conversations whose sharing failed
    faults      \* for the bound

nodeVars == <<node, log, post, session>>
vars == <<nodeVars, perm, view, calls, request, auth, asked, lost, faults>>

None == "none"
Calls == 1 .. MaxCalls   \* in the order of the presses
Toggles == {"account"} \cup Conversations
AccountEvents == {"token", "service", "server"} \cup Conversations   \* a conversation is joined
Statuses == {None, "enabled-just-now", "enabled-before", "perm-denied", "go-failed", "fetch-failed"}
Steps == {"idle", "get", "permission", "screen", "stuck", "token", "auth", "share", "unmute",
          "ask", "flag", "broadcast", "mute", "done"}

Idle == [at |-> "idle", toggle |-> "account", status |-> None, known |-> FALSE]

View == [service |-> node.service, muted |-> node.muted, convMuted |-> node.convMuted]

Init ==
    /\ node = [token |-> FALSE, service |-> FALSE, server |-> FALSE, autoShare |-> FALSE,
               muted |-> FALSE, convMuted |-> {}, convs |-> Joined, shared |-> {}]
    /\ log = <<>> /\ post = None /\ session = 0
    /\ perm \in {"granted", "denied", "blocked", "limited"}
    /\ view = View
    /\ calls = [k \in Calls |-> Idle]
    /\ request = [k \in Calls |-> None] /\ auth = [k \in Calls |-> None]
    /\ asked = {} /\ lost = {} /\ faults = 0

At(k, step) == calls[k].at = step
Goto(k, step) ==
    calls' = [calls EXCEPT ![k] = [IF step = "done" THEN Idle ELSE @ EXCEPT !.at = step]]
Ends(k, step, status) == calls' = [calls EXCEPT ![k].at = step, ![k].status = status]

Fault == faults < MaxFaults /\ faults' = faults + 1

---------------------------------------------------------------------------
(* The node.                                                               *)

\* The member token of this device, appended to the groups it is told to share it with; a
\* failure is logged and forgotten.
ShareWith(convs, failed) ==
    /\ failed \subseteq convs
    /\ IF failed = {} THEN UNCHANGED faults ELSE Fault
    /\ lost' = lost \cup failed
    /\ node' = [node EXCEPT !.shared = @ \cup (convs \ failed)]

Ready == node.token /\ node.server

\* Nothing to share yet is an error to the caller.
Receivers == node.convs

Broadcast ==
    IF Ready
        THEN \E failed \in SUBSET Receivers : ShareWith(Receivers, failed)
        ELSE UNCHANGED <<node, lost, faults>>

\* The post action of an event, decided in the transaction that handles it. (Mutant: the
\* event of the token decides nothing.)
PostActionBug(event) ==
    CASE event = "server" /\ node.autoShare -> "broadcast"
      [] event \in Conversations             -> event
      [] OTHER                               -> None
PostAction(event) ==
    CASE event \in {"token", "server"} /\ node.autoShare -> "broadcast"
      [] event \in Conversations                         -> event
      [] OTHER                                           -> None

HandleEvent ==
    /\ log # <<>> /\ post = None
    /\ log' = Tail(log)
    /\ LET event == Head(log)
       IN /\ node' = [node EXCEPT !.token   = @ \/ event = "token",
                                  !.service = @ \/ event = "service",
                                  !.server  = @ \/ event = "server",
                                  !.convs   = @ \cup ({event} \cap Conversations)]
          /\ post' = PostAction(event)
    /\ UNCHANGED <<session, perm, view, calls, request, auth, asked, lost, faults>>

PostBroadcast ==
    /\ post = "broadcast"
    /\ post' = None
    /\ Broadcast
    /\ UNCHANGED <<log, session, perm, view, calls, request, auth, asked>>

\* The flag is read again here.
PostJoin ==
    /\ post \in Conversations
    /\ post' = None
    /\ IF node.autoShare /\ Ready
           THEN \E failed \in SUBSET {post} : ShareWith({post}, failed)
           ELSE UNCHANGED <<node, lost, faults>>
    /\ UNCHANGED <<log, session, perm, view, calls, request, auth, asked>>

Join(c) ==
    /\ c \notin node.convs /\ \A i \in DOMAIN log : log[i] # c
    /\ log' = Append(log, c)
    /\ UNCHANGED <<node, post, session, perm, view, calls, request, auth, asked, lost, faults>>

\* The events of the account and its conversations reach the store.
Sync ==
    /\ view # View
    /\ view' = View
    /\ UNCHANGED <<nodeVars, perm, calls, request, auth, asked, lost, faults>>

---------------------------------------------------------------------------
(* The toggles.                                                            *)

Permitted == perm \in {"granted", "limited"}

IsAccount(k) == calls[k].toggle = "account"

\* accountPushToggleState and conversationPushToggleState decide by what the store knew.
Off(toggle) ==
    \/ ~Permitted
    \/ IF toggle = "account"
           THEN ~view.service \/ view.muted
           ELSE toggle \in view.convMuted

Press(k, toggle) ==
    /\ At(k, "idle") /\ \A j \in 1 .. k - 1 : ~At(j, "idle")
    /\ toggle # "account" => toggle \in node.convs
    /\ calls' = [calls EXCEPT ![k].toggle = toggle,
                              ![k].at = IF Off(toggle) THEN "get" ELSE "mute"]
    /\ asked' = IF ~Off(toggle) THEN asked
                ELSE IF toggle = "account" THEN Conversations
                ELSE asked \cup {toggle}
    /\ UNCHANGED <<nodeVars, perm, view, request, auth, lost, faults>>

\* The list of silent conversations in the settings, shown while the account's toggle is on:
\* enableNotificationsForConversation at once, when the user confirms.
PressListed(k, c) ==
    /\ At(k, "idle") /\ \A j \in 1 .. k - 1 : ~At(j, "idle")
    /\ c \in node.convs /\ ~Off("account")
    /\ calls' = [calls EXCEPT ![k].toggle = c, ![k].at = "share"]
    /\ asked' = asked \cup {c}
    /\ UNCHANGED <<nodeVars, perm, view, request, auth, lost, faults>>

\* AccountPushConfigure and ConversationMute.
Mute(k) ==
    /\ At(k, "mute")
    /\ node' = IF IsAccount(k) THEN [node EXCEPT !.muted = TRUE]
                               ELSE [node EXCEPT !.convMuted = @ \cup {calls[k].toggle}]
    /\ Goto(k, "done")
    /\ UNCHANGED <<log, post, session, perm, view, request, auth, asked, lost, faults>>

---------------------------------------------------------------------------
(* enablePushPermission.                                                   *)

AccountGet(k) ==
    /\ At(k, "get")
    /\ calls' = [calls EXCEPT ![k].at = "permission", ![k].known = node.service]
    /\ UNCHANGED <<nodeVars, perm, view, request, auth, asked, lost, faults>>

\* What comes after enablePushPermission, whatever its status.
AfterEnabling(k) == IF IsAccount(k) THEN "unmute" ELSE "share"

Granted(k) == Goto(k, "token") /\ request' = [request EXCEPT ![k] = "sent"]

\* With a limited permission neither accept nor deny is ever called.
CheckPermission(k) ==
    /\ At(k, "permission")
    /\ \/ perm = "granted" /\ Granted(k)
       \/ perm = "limited" /\ Goto(k, "stuck") /\ UNCHANGED request
       \/ ~Permitted /\ Goto(k, "screen") /\ UNCHANGED request
    /\ UNCHANGED <<nodeVars, perm, view, auth, asked, lost, faults>>

\* The permission screen: asking the system, which may refuse from now on; skipping; and
\* leaving the screen by the system's own means, which calls neither accept nor deny.
Allow(k) ==
    /\ At(k, "screen") /\ perm # "blocked"
    /\ \/ perm' = "granted" /\ Granted(k)
       \/ perm # "granted" /\ perm' = "blocked" /\ UNCHANGED <<calls, request>>
    /\ UNCHANGED <<nodeVars, view, auth, asked, lost, faults>>

Skip(k) ==
    /\ At(k, "screen")
    /\ Ends(k, AfterEnabling(k), "perm-denied")
    /\ UNCHANGED <<nodeVars, perm, view, request, auth, asked, lost, faults>>

Leave(k) ==
    /\ At(k, "screen")
    /\ Goto(k, "stuck")
    /\ UNCHANGED <<nodeVars, perm, view, request, auth, asked, lost, faults>>

\* The platform may never answer. Its answer is stored through PushSetDeviceToken, unless
\* there is a token; a failure is caught and counts as an answer.
PersistToken(k) ==
    /\ request[k] = "sent"
    /\ request' = [request EXCEPT ![k] = "done"]
    /\ \/ log' = (IF node.token THEN log ELSE Append(log, "token")) /\ UNCHANGED faults
       \/ Fault /\ UNCHANGED log
    /\ UNCHANGED <<node, post, session, perm, view, calls, auth, asked, lost>>

TokenAnswered(k) ==
    /\ At(k, "token") /\ request[k] = "done"
    /\ IF calls[k].known
           THEN Ends(k, AfterEnabling(k), "enabled-before") /\ UNCHANGED auth
           ELSE Goto(k, "auth") /\ auth' = [auth EXCEPT ![k] = "init"]
    /\ UNCHANGED <<nodeVars, perm, view, request, asked, lost, faults>>

\* Seven seconds without an answer, of either. (Mutant: only of the authorisation.)
TimedBug(k) == At(k, "auth")
Timed(k) == At(k, "token") \/ At(k, "auth")

Timeout(k) ==
    /\ Timed(k)
    /\ Ends(k, AfterEnabling(k), "fetch-failed")
    /\ UNCHANGED <<nodeVars, perm, view, request, auth, asked, lost, faults>>

---------------------------------------------------------------------------
(* servicesAuthViaURL: the flow at the push service.                       *)

\* The node knows one flow at a time.
InitFlow(k) ==
    /\ auth[k] = "init"
    /\ session' = k
    /\ auth' = [auth EXCEPT ![k] = "fetch"]
    /\ UNCHANGED <<node, log, post, perm, view, calls, request, asked, lost, faults>>

Fetch(k) ==
    /\ auth[k] = "fetch"
    /\ \/ auth' = [auth EXCEPT ![k] = "complete"] /\ UNCHANGED faults
       \/ auth' = [auth EXCEPT ![k] = "fetch-failed"] /\ Fault
    /\ UNCHANGED <<nodeVars, perm, view, calls, request, asked, lost>>

CompleteFlow(k) ==
    /\ auth[k] = "complete"
    /\ \/ /\ session = k
          /\ log' = Append(log, "service")
          /\ auth' = [auth EXCEPT ![k] = "register"]
          /\ UNCHANGED faults
       \/ /\ session # k
          /\ auth' = [auth EXCEPT ![k] = "go-failed"]
          /\ UNCHANGED <<log, faults>>
       \/ /\ Fault
          /\ auth' = [auth EXCEPT ![k] = "go-failed"]
          /\ UNCHANGED log
    /\ UNCHANGED <<node, post, session, perm, view, calls, request, asked, lost>>

\* A push server that does not answer is a warning in the log of the node.
RegisterServer(k) ==
    /\ auth[k] = "register"
    /\ auth' = [auth EXCEPT ![k] = "enabled-just-now"]
    /\ \/ log' = (IF node.server THEN log ELSE Append(log, "server")) /\ UNCHANGED faults
       \/ Fault /\ UNCHANGED log
    /\ UNCHANGED <<node, post, session, perm, view, calls, request, asked, lost>>

AuthAnswered(k) ==
    /\ At(k, "auth") /\ auth[k] \in Statuses \ {None}
    /\ Ends(k, AfterEnabling(k), auth[k])
    /\ UNCHANGED <<nodeVars, perm, view, request, auth, asked, lost, faults>>

---------------------------------------------------------------------------
(* What the toggle is for.                                                 *)

\* PushShareTokenForConversation. (Mutant: its error is not thrown.)
AfterErrorBug == "unmute"
AfterError == "done"

Share(k) ==
    /\ At(k, "share")
    /\ \/ /\ Ready
          /\ node' = [node EXCEPT !.shared = @ \cup {calls[k].toggle}]
          /\ Goto(k, "unmute")
          /\ UNCHANGED faults
       \/ /\ Ready => faults < MaxFaults
          /\ faults' = IF Ready THEN faults + 1 ELSE faults
          /\ Goto(k, AfterError)
          /\ UNCHANGED node
    /\ UNCHANGED <<log, post, session, perm, view, request, auth, asked, lost>>

JustNow(k) == calls[k].status = "enabled-just-now"

Unmute(k) ==
    /\ At(k, "unmute")
    /\ node' = IF IsAccount(k) THEN [node EXCEPT !.muted = FALSE]
                               ELSE [node EXCEPT !.convMuted = @ \ {calls[k].toggle}]
    /\ Goto(k, IF ~JustNow(k) THEN "done" ELSE IF IsAccount(k) THEN "flag" ELSE "ask")
    /\ UNCHANGED <<log, post, session, perm, view, request, auth, asked, lost, faults>>

\* "Enable for all conversations?" (Mutant: the answer is not looked at.)
AfterAnswerBug(yes) == "flag"
AfterAnswer(yes) == IF yes THEN "flag" ELSE "done"

Ask(k) ==
    /\ At(k, "ask")
    /\ \E yes \in BOOLEAN :
           /\ asked' = IF yes THEN Conversations ELSE asked
           /\ Goto(k, AfterAnswer(yes))
    /\ UNCHANGED <<nodeVars, perm, view, request, auth, lost, faults>>

\* PushSetAutoShare: the flag first, then what can be shared now.
SetAutoShare(k) ==
    /\ At(k, "flag")
    /\ node' = [node EXCEPT !.autoShare = TRUE]
    /\ Goto(k, "broadcast")
    /\ UNCHANGED <<log, post, session, perm, view, request, auth, asked, lost, faults>>

BroadcastToken(k) ==
    /\ At(k, "broadcast")
    /\ Broadcast
    /\ Goto(k, "done")
    /\ UNCHANGED <<log, post, session, perm, view, request, auth, asked>>

---------------------------------------------------------------------------
Messenger == HandleEvent \/ PostBroadcast \/ PostJoin \/ Sync

\* What the application and the node do by themselves, once a toggle is pressed.
Proceed(k) ==
    \/ Mute(k) \/ AccountGet(k) \/ CheckPermission(k)
    \/ TokenAnswered(k) \/ Timeout(k) \/ AuthAnswered(k)
    \/ Share(k) \/ Unmute(k) \/ Ask(k) \/ SetAutoShare(k) \/ BroadcastToken(k)

\* What the platform and the services do, or not.
Answer(k) ==
    PersistToken(k) \/ InitFlow(k) \/ Fetch(k) \/ CompleteFlow(k) \/ RegisterServer(k)

User(k) ==
    \/ \E toggle \in Toggles : Press(k, toggle)
    \/ \E c \in Conversations : PressListed(k, c)
    \/ Allow(k) \/ Skip(k) \/ Leave(k)

Next ==
    \/ Messenger
    \/ \E c \in Conversations : Join(c)
    \/ \E k \in Calls : Proceed(k) \/ Answer(k) \/ User(k)

\* The application goes on, its timers fire and the alerts are answered; nothing is assumed of
\* the platform, the services or the permission screen.
Spec == Init /\ [][Next]_vars /\ \A k \in Calls : WF_vars(Proceed(k))

---------------------------------------------------------------------------
(* Properties.                                                             *)

TypeOK ==
    /\ node \in [token : BOOLEAN, service : BOOLEAN, server : BOOLEAN, autoShare : BOOLEAN,
                 muted : BOOLEAN, convMuted : SUBSET Conversations,
                 convs : SUBSET Conversations, shared : SUBSET Conversations]
    /\ log \in Seq(AccountEvents)
    /\ post \in {None, "broadcast"} \cup Conversations
    /\ session \in 0 .. MaxCalls
    /\ perm \in {"granted", "denied", "blocked", "limited"}
    /\ view \in [service : BOOLEAN, muted : BOOLEAN, convMuted : SUBSET Conversations]
    /\ calls \in [Calls -> [at : Steps, toggle : Toggles, status : Statuses, known : BOOLEAN]]
    /\ request \in [Calls -> {None, "sent", "done"}]
    /\ auth \in [Calls -> {"init", "fetch", "complete", "register"} \cup Statuses]
    /\ asked \subseteq Conversations /\ lost \subseteq Conversations
    /\ faults \in 0 .. MaxFaults
    /\ node.shared \subseteq node.convs /\ node.convMuted \subseteq node.convs

\* Once sharing is automatic and there is a token and a server, the token has been shared with
\* every conversation, or is about to be (PushSetAutoShare, PushServerOrTokenRegistered,
\* GroupJoined): whatever the order in which the flag, the token, the server and the
\* conversations come, from however many presses, and however late an answer is. Excepted are
\* conversations the node failed to send to.
AutoShared ==
    node.autoShare /\ Ready =>
        \A c \in node.convs :
            \/ c \in node.shared \cup lost
            \/ post \in {"broadcast", c}
            \/ \E k \in Calls : At(k, "broadcast")

\* The token of the device is shared only with conversations the user asked to be notified of,
\* one by one or all of them (askAndSharePushTokenOnAllConversations): not by a late answer of
\* a call given up, the post action of an event, or a second call.
SharedAsked == node.shared \subseteq asked

\* A conversation is unmuted only once the token is shared with it
\* (enableNotificationsForConversation): a step that fails or times out before leaves the
\* toggle off, as the user sees it.
UnmutedShared == [][node.convMuted \ node'.convMuted \subseteq node.shared]_vars

\* A press comes to its end, or waits at the permission screen, although the platform and the
\* push service may never answer (the races of enablePushPermission).
PressEnds ==
    \A k \in Calls :
        At(k, "get") \/ At(k, "token") ~> \E step \in {"done", "screen", "stuck"} : At(k, step)
=============================================================================
