----------------------------- MODULE ChatField ------------------------------
(***************************************************************************)
(* The text field of one conversation in the mobile application            *)
(* (ChatFooter.tsx) and its draft in the redux store                       *)
(* (chatInputs.reducer.ts).                                                *)
(*                                                                         *)
(* The text belongs to the mounted field and is copied to the draft at     *)
(* intervals and when the screen is left; a field that is mounted starts   *)
(* from the draft. Sending is asynchronous, and nothing holds the user     *)
(* back meanwhile: isSending of chatInputsVolatile is never set to true,   *)
(* so its guards are left out. Texts are numbered in the order typed.      *)
(***************************************************************************)
EXTENDS Naturals

CONSTANTS MaxMounts, MaxTexts, MaxSends, MaxFailures   \* bounds

ASSUME FieldAssumption == {MaxMounts, MaxTexts, MaxSends, MaxFailures} \subseteq Nat

VARIABLES
    mounted, visit,   \* the screen: on display, and for which time
    text,             \* text of the field
    draft,            \* text of the conversation in chatInputs
    sends,            \* calls of Interact
    typed,            \* texts typed so far
    sent,             \* texts whose sending has been confirmed
    hasty,            \* history: the user typed, pressed or came back while sending
    failures            \* for the bound

fieldVars == <<mounted, visit, text, draft, sends, typed, sent, hasty, failures>>

NoText == 0
NoSend == [step |-> "none", visit |-> 0, text |-> NoText]

FieldInit ==
    /\ mounted = FALSE /\ visit = 0
    /\ text = NoText /\ draft = NoText
    /\ sends = [i \in 1 .. MaxSends |-> NoSend]
    /\ typed = 0 /\ sent = {} /\ hasty = FALSE /\ failures = 0

Sending == \E i \in DOMAIN sends : sends[i].step # "none"

---------------------------------------------------------------------------
(* The field.                                                              *)

MountField ==
    /\ ~mounted /\ visit < MaxMounts
    /\ mounted' = TRUE /\ visit' = visit + 1
    /\ text' = draft
    /\ hasty' = (hasty \/ Sending)
    /\ UNCHANGED <<draft, sends, typed, sent, failures>>

\* What the field leaves in the store. (Mutant: the draft of the last interval.)
DraftOnUnmountBug == draft
DraftOnUnmount == text

UnmountField ==
    /\ mounted
    /\ mounted' = FALSE
    /\ draft' = DraftOnUnmount
    /\ text' = NoText
    /\ UNCHANGED <<visit, sends, typed, sent, hasty, failures>>

Type ==
    /\ mounted /\ typed < MaxTexts
    /\ typed' = typed + 1
    /\ text' = typed + 1
    /\ hasty' = Sending
    /\ UNCHANGED <<mounted, visit, draft, sends, sent, failures>>

\* Every five seconds.
SaveDraft ==
    /\ mounted
    /\ draft' = text
    /\ UNCHANGED <<mounted, visit, text, sends, typed, sent, hasty, failures>>

---------------------------------------------------------------------------
(* Sending.                                                                *)

PressSend(i) ==
    /\ mounted /\ text # NoText
    /\ sends[i].step = "none"
    /\ sends' = [sends EXCEPT ![i] = [step |-> "asked", visit |-> visit, text |-> text]]
    /\ hasty' = (hasty \/ Sending)
    /\ UNCHANGED <<mounted, visit, text, draft, typed, sent, failures>>

\* The messenger publishes the message.
Interact(i) ==
    /\ sends[i].step = "asked"
    /\ sends' = [sends EXCEPT ![i].step = "done"]
    /\ UNCHANGED <<mounted, visit, text, draft, typed, sent, hasty, failures>>

\* The call fails: nothing is published, and the text stays where it is.
InteractFails(i) ==
    /\ sends[i].step = "asked" /\ failures < MaxFailures
    /\ failures' = failures + 1
    /\ sends' = [sends EXCEPT ![i] = NoSend]
    /\ UNCHANGED <<mounted, visit, text, draft, typed, sent, hasty>>

\* The field is emptied by the answer of a call of its own.
FieldAfter(i) == IF mounted /\ visit = sends[i].visit THEN NoText ELSE text

InteractReplies(i) ==
    /\ sends[i].step = "done"
    /\ draft' = NoText
    /\ text' = FieldAfter(i)
    /\ sent' = sent \cup {sends[i].text}
    /\ sends' = [sends EXCEPT ![i] = NoSend]
    /\ UNCHANGED <<mounted, visit, typed, hasty, failures>>

---------------------------------------------------------------------------
Send(i) == PressSend(i) \/ Interact(i) \/ InteractFails(i) \/ InteractReplies(i)

FieldNext == MountField \/ UnmountField \/ Type \/ SaveDraft \/ \E i \in 1 .. MaxSends : Send(i)

FieldSpec == FieldInit /\ [][FieldNext]_fieldVars

---------------------------------------------------------------------------
(* Properties.                                                             *)

FieldTypeOK ==
    /\ mounted \in BOOLEAN /\ visit \in 0 .. MaxMounts
    /\ typed \in 0 .. MaxTexts /\ text \in 0 .. typed /\ draft \in 0 .. typed
    /\ ~mounted => text = NoText
    /\ sends \in [1 .. MaxSends ->
                    [step : {"none", "asked", "done"}, visit : 0 .. MaxMounts, text : 0 .. typed]]
    /\ sent \subseteq 1 .. typed /\ hasty \in BOOLEAN /\ failures \in 0 .. MaxFailures

\* The text typed last is kept or sent, never both and never neither (ChatFooter.tsx):
\* it is in the field, or in the draft when the screen is left, as long as its sending is
\* not confirmed, and only then; whatever the order of intervals, failures, answers and
\* leaving. Excepted is a user who typed, pressed or came back while a text was being sent,
\* until a text is typed with nothing under way.
SentXorKept ==
    ~hasty /\ typed # 0 =>
        (typed \in sent <=> typed # IF mounted THEN text ELSE draft)
============================================================================
