----------------------------- MODULE MCDurableRun -----------------------------
(* The plans that the model checker runs: those of a few real sentences.   *)
EXTENDS DurableRun, TLC

P == INSTANCE RunPlanner

Silence ==
    [says |-> {}, names |-> {}, nouns |-> {}, channels |-> {}, mutates |-> {},
     recipients |-> 0, chatRecipients |-> 0, timezone |-> TRUE,
     verbs |-> [s \in P!Services |-> <<>>], nearest |-> [s \in P!Services |-> "none"],
     last |-> P!NoTurn, completed |-> P!NoTurn]

Named(services, verbs) ==
    [Silence EXCEPT !.names = services, !.nouns = services,
                    !.verbs = verbs @@ @,
                    !.nearest = [s \in P!Services |->
                        IF s \in DOMAIN verbs THEN verbs[s][Len(verbs[s])] ELSE "none"]]

MailVerbs == {"action", "external_verb", "send", "write_verb", "delivery_verb",
              "high_risk", "email_delivery", "then", "live"}

\* "find the last email sent to A and send the same mail to B without asking"
CopyMail ==
    [Named({"gmail"}, "gmail" :> <<"search", "send">>) EXCEPT
        !.says = MailVerbs \cup {"copy_source", "copy_transfer", "same_resource", "opt_out"},
        !.channels = {"gmail"}, !.recipients = 2]

\* "find contact B and send an email to B"
FindAndMail ==
    [Named({"contacts", "gmail"}, "contacts" :> <<"search">> @@ "gmail" :> <<"search", "send">>)
        EXCEPT !.says = MailVerbs, !.channels = {"gmail"}, !.recipients = 1]

\* "find contact B, send email to B and share the drive file"
FindMailAndShare ==
    [Named({"contacts", "gmail", "drive"},
           "contacts" :> <<"search">> @@ "gmail" :> <<"search", "send">>
           @@ "drive" :> <<"search", "share">>)
        EXCEPT !.says = MailVerbs, !.channels = {"gmail"}, !.mutates = {"drive"},
               !.recipients = 1]

\* "make a google sheet with the totals"
MakeSheet ==
    [Named({"sheets"}, "sheets" :> <<"create_and_write">>)
        EXCEPT !.says = {"action", "write_verb", "google_resource"}]

\* "list my chat spaces"
ListSpaces ==
    [Named({"chat"}, "chat" :> <<"list_spaces", "send">>)
        EXCEPT !.says = {"action", "space", "live"}, !.channels = {"chat"}]

Sentences == {CopyMail, FindAndMail, FindMailAndShare, MakeSheet, ListSpaces}

\* every one of them becomes a valid plan with nothing left to ask
ASSUME \A r \in Sentences : P!Valid(r) /\ P!PlanQuestions(r, {}) = {}

ReadThenWrite  == <<{}, {1}>>
Independent    == <<{}, {}>>
MailAndShare   == <<{}, {}, {1}>>
Alone          == <<{}>>
SendAfterRead  == <<<<>>, <<"send_gmail">>>>
SendAndShare   == <<<<>>, <<"send_gmail">>, <<"share_drive_file">>>>
CreateAndWrite == <<<<"create_google_sheet", "write_google_sheet">>>>
ResolveAndSend == <<<<"resolve_chat_destination", "send_chat_message">>>>

\* the runs the planner makes of the sentences, and who must be asked:
\* nobody who said so, and nobody for a lookup in Chat
Plan(r) == [deps |-> P!RunDeps(r), contract |-> P!RunContract(r),
            gated |-> P!RunGated(r), approval |-> P!RequiresApproval(r)]
PlanIs(deps, contract, gated, needed) ==
    [deps |-> deps, contract |-> contract, gated |-> gated, approval |-> needed]
ASSUME /\ Plan(CopyMail)         = PlanIs(ReadThenWrite, SendAfterRead, {}, FALSE)
       /\ Plan(FindAndMail)      = PlanIs(Independent, SendAfterRead, {2}, TRUE)
       /\ Plan(FindMailAndShare) = PlanIs(MailAndShare, SendAndShare, {2, 3}, TRUE)
       /\ Plan(MakeSheet)        = PlanIs(Alone, CreateAndWrite, {}, FALSE)
       /\ Plan(ListSpaces)       = PlanIs(Alone, ResolveAndSend, {}, FALSE)

-------------------------------------------------------------------------------
(* What is proved of every request, checked on requests with few signals.  *)

Bases == {CopyMail, FindMailAndShare, ListSpaces}
Turns == {P!NoTurn,
          [intent |-> "workspace_action", says |-> {}, nouns |-> {"gmail"},
           output |-> "text", service |-> "gmail"],
          [intent |-> "ambiguous", says |-> {"action"}, nouns |-> {"sheets"},
           output |-> "none", service |-> "none"]}
Varied ==
    {[r EXCEPT !.says = (@ \cup extra) \ {"same_resource", "copy_source"},
               !.names = names, !.timezone = FALSE, !.last = turn, !.completed = turn] :
        r \in Bases, turn \in Turns, names \in {{}, {"sheets"}, {"gmail", "calendar"}},
        extra \in {{"reference", "contextual_action"}, {"composition"}, {"semantic"},
                   {"service_only"}, {"interactive", "then_deliver"}}}
Answers == {{}, {"timezone", "outcome", "content", "conversation"}}

\* dependencies come earlier, and the numbers of the steps are 1, 2, ...
ASSUME \A r \in Varied \cup Sentences :
          /\ {P!Number(r, t) : t \in P!PlanSteps(r)} = 1..P!Length(r)
          /\ \A n \in 1..P!Length(r) : P!RunDeps(r)[n] \subseteq 1..(n - 1)

\* a write that is planned has the word of the current statement
ASSUME \A r \in Varied \cup Sentences : P!Valid(r) =>
          \A t \in P!PlanSteps(r) : ~P!ReadOnly(t) =>
              \/ t.service \in P!Authority(r) \cup P!Explicit(r)
              \/ P!Contextual(r) /\ P!ExternalWrite(r) /\ t.service = P!Context(r).service

\* a question without a typed answer is asked again whatever is answered
ASSUME \A r \in Varied, a \in Answers, b \in Answers : ~P!HasContext(r) =>
          (P!PlanQuestions(r, a) \ (P!TypedQuestions \cup {"timezone_of_today"}))
              \subseteq P!PlanQuestions(P!Clarified(r, a), b)

\* whoever answers every typed question in order is asked twice at most
AllAnswered(open) == [q \in open |-> "answer"]
Settled(r) ==
    LET first  == P!Combined({}, AllAnswered(P!PlanQuestions(r, {})))
        open   == P!PlanQuestions(P!Clarified(r, first), first)
        second == P!Combined(first, AllAnswered(open))
    IN  /\ P!Taken(open, first, AllAnswered(open))
        /\ P!PlanQuestions(P!Clarified(r, second), second) = {}

\* "schedule a recurring meeting", with and without a timezone of the client
RecurringMeeting ==
    [Named({"calendar"}, "calendar" :> <<"create">>) EXCEPT
        !.says = {"action", "write_verb", "calendar_verb", "event_words",
                  "delivery_verb", "recurrence"}]
Meetings == {RecurringMeeting, [RecurringMeeting EXCEPT !.timezone = FALSE]}

ASSUME \A r \in Meetings : P!Valid(r) /\ P!PlanQuestions(r, {}) # {}
ASSUME \A r \in Varied \cup Sentences \cup Meetings :
          /\ ~P!HasContext(r)
          /\ P!PlanQuestions(r, {}) \subseteq P!TypedQuestions \cup {"timezone_of_today"}
          => Settled(r)

\* the timezone the client sent is asked for once the user has answered
ASSUME LET answered == P!Combined({}, AllAnswered(P!PlanQuestions(RecurringMeeting, {})))
       IN  /\ "timezone" \notin P!PlanQuestions(RecurringMeeting, {})
           /\ P!PlanQuestions(P!Clarified(RecurringMeeting, answered), answered)
                  = {"timezone", "start_date", "end_date"}

Symmetry == Permutations(Workers) \cup Permutations(Resumers)
===============================================================================
