------------------------------ MODULE RunPlanner ------------------------------
(***************************************************************************)
(* The plan of a run (build_plan and validate_plan in app/runs/planner.py, *)
(* WRITE_CONTRACTS in app/tools/contracts.py) and the plan that replaces   *)
(* it when the user answers its questions (clarify_run in                  *)
(* app/runs/repository.py).                                                *)
(***************************************************************************)
EXTENDS RequestAnalysis

\* what is found comes first, what is delivered last
ServiceOrder ==
    [contacts |-> 10, composition |-> 15, gmail |-> 20, drive |-> 30,
     docs |-> 40, sheets |-> 50, tasks |-> 60, chat |-> 70, calendar |-> 80,
     meet |-> 90, general |-> 100]
PlanServices == DOMAIN ServiceOrder

\* the reads that OPERATION_TOOLS knows, of each service
KnownReads ==
    [composition |-> {"compose"},
     gmail    |-> {"message_count", "sender_count", "recent_senders", "search"},
     calendar |-> {"availability", "list"}, drive |-> {"search", "get"},
     docs     |-> {"read"}, sheets |-> {"read"}, tasks |-> {"list"},
     chat     |-> {"list_spaces"}, contacts |-> {"search", "get"},
     meet     |-> {"participants", "conferences", "get"}, general |-> {"read"}]
ReadOperations == UNION {KnownReads[s] : s \in PlanServices}

DefaultRead ==
    [gmail |-> "search", calendar |-> "list", drive |-> "search",
     docs |-> "read", sheets |-> "read", tasks |-> "list",
     chat |-> "list_spaces", contacts |-> "search", meet |-> "conferences",
     general |-> "read"]

\* the required tools of each write; two contracts are ordered
NoContracts == [operation \in {} |-> <<>>]
WriteContracts ==
    [composition |-> NoContracts, contacts |-> NoContracts, general |-> NoContracts,
     gmail    |-> [send |-> <<"send_gmail">>, reply |-> <<"reply_gmail">>,
                   label |-> <<"label_gmail">>, trash |-> <<"trash_gmail">>],
     calendar |-> [create |-> <<"create_calendar_event">>,
                   update |-> <<"update_calendar_event">>,
                   delete |-> <<"delete_calendar_event">>],
     drive    |-> [upload |-> <<"upload_drive_file">>, share |-> <<"share_drive_file">>,
                   move |-> <<"move_drive_file">>, trash |-> <<"trash_drive_file">>],
     docs     |-> [create |-> <<"create_google_doc">>,
                   append |-> <<"append_to_google_doc">>],
     sheets   |-> [create |-> <<"create_google_sheet">>,
                   write |-> <<"write_google_sheet">>,
                   append |-> <<"append_to_google_sheet">>,
                   create_and_write |-> <<"create_google_sheet", "write_google_sheet">>],
     tasks    |-> [create |-> <<"create_task">>, complete |-> <<"complete_task">>],
     chat     |-> [send |-> <<"resolve_chat_destination", "send_chat_message">>],
     meet     |-> [create |-> <<"create_meet_space">>]]

\* OPERATION_TOOLS has no way of only creating a sheet
KnownWrites(s) == DOMAIN WriteContracts[s] \ (IF s = "sheets" THEN {"create"} ELSE {})
-------------------------------------------------------------------------------
(* The operations of a service (infer_operation, infer_operation_sequence). *)

CommandNouns(r) == IF Says(r, "service_only") THEN TextNouns(r) ELSE r.names

\* the word "chat" is itself a verb of Chat, and nothing is nearer to the noun
Nearest(r, s) ==
    IF s = "chat" /\ "chat" \in CommandNouns(r) THEN "send" ELSE r.nearest[s]

Operation(r, s, write) ==
    IF s = "composition" THEN "compose"
    ELSE IF s = "general" THEN IF write THEN "execute_and_verify" ELSE "read"
    ELSE IF s = "gmail" /\ CommandSays(r, "count_senders")  THEN "sender_count"
    ELSE IF s = "gmail" /\ CommandSays(r, "count_messages") THEN "message_count"
    ELSE IF s = "gmail" /\ CommandSays(r, "senders")        THEN "recent_senders"
    ELSE IF r.verbs[s] # <<>> THEN Nearest(r, s)
    ELSE IF write THEN "execute_and_verify" ELSE DefaultRead[s]

\* a read and a later write that are chained on the only service of the plan
Chained(r, s) ==
    {rw \in (DOMAIN r.verbs[s]) \X (DOMAIN r.verbs[s]) :
        /\ rw[1] < rw[2]
        /\ r.verbs[s][rw[1]] \in ReadOperations
        /\ r.verbs[s][rw[2]] \notin ReadOperations}
FirstReadLastWrite(r, s) ==
    CHOOSE rw \in Chained(r, s) :
        \A other \in Chained(r, s) : rw[1] <= other[1] /\ rw[2] >= other[2]

Operations(r, s, write, alone) ==
    IF s = "gmail" /\ GmailCopy(r) THEN <<"search", "send">>
    ELSE IF /\ s \in Services /\ alone /\ write /\ CommandSays(r, "then")
            /\ Chained(r, s) # {}
        THEN LET rw == FirstReadLastWrite(r, s)
             IN  <<r.verbs[s][rw[1]], r.verbs[s][rw[2]]>>
    ELSE <<Operation(r, s, write)>>
-------------------------------------------------------------------------------
(* The policy, once the content the statement refers to is resolved.       *)

Output(r) == Context(r).output

\* the content is delivered: its nouns are no longer services
DeliversContent(r) ==
    Contextual(r) /\ r.channels # {} /\ Output(r) # "none"

NamedServices(r) ==
    IF DeliversContent(r)
    THEN ClassifiedServices(r) \cap (r.channels \cup r.mutates)
    ELSE ClassifiedServices(r)

\* "the same again": the service that delivered it is used again
Repeats(r) ==
    /\ Contextual(r) /\ Explicit(r) = {} /\ ExternalWrite(r)
    /\ Context(r).service \in Channels

PolicyServices(r) == IF Repeats(r) THEN {Context(r).service} ELSE NamedServices(r)
PolicyWrite(r)    == Write(r) \/ Repeats(r)
RequiresApproval(r)  == (HighRisk(r) \/ Repeats(r)) /\ ~Bypassed(r)

PlanQuestions(r, answers) ==
    (ClassifiedQuestions(r, answers)
        \ (IF DeliversContent(r) /\ "calendar" \notin NamedServices(r)
           THEN TypedQuestions \ {"destination"} ELSE {}))
    \cup { q \in {"content", "link"} :
            /\ Contextual(r)
            /\ q = "content" => ExternalWrite(r) /\ Output(r) = "none" /\ ~SheetLink(r)
            /\ q = "link" => Says(r, "link") /\ Output(r) = "text" }

\* there is nothing to transform
Sourceless(r) ==
    /\ Composition(r) /\ ~ContentRequested(r)
    /\ ~HasContext(r) /\ Explicit(r) = {}

PlansAction(r) == Intent(r) = "workspace_action" /\ ~Sourceless(r)
-------------------------------------------------------------------------------
(* The steps.                                                              *)

FromIndex(r) == Semantic(r) /\ ~PolicyWrite(r)

StepServices(r) ==
    IF ~PlansAction(r) THEN {"general"}
    ELSE IF FromIndex(r) THEN {"composition"}
    ELSE IF PolicyServices(r) = {} THEN {"general"} ELSE PolicyServices(r)

StepOperations(r, s) ==
    IF ~PlansAction(r) THEN <<"answer">>
    ELSE Operations(r, s, PolicyWrite(r), StepServices(r) = {s})

PlanSteps(r) ==
    UNION {{[service |-> s, index |-> i, operation |-> StepOperations(r, s)[i]]
            : i \in DOMAIN StepOperations(r, s)} : s \in StepServices(r)}

ReadOnly(t) == t.operation \in ReadOperations \cup {"answer"}

Before(t, u) ==
    \/ ServiceOrder[t.service] < ServiceOrder[u.service]
    \/ t.service = u.service /\ t.index < u.index

\* the steps whose output a later one can build on
Produced(r, u) ==
    {t \in PlanSteps(r) :
        Before(t, u) /\ (ReadOnly(t) \/ t.service \in {"drive", "docs", "sheets"})}
ProducedBy(r, u, s) == {t \in Produced(r, u) : t.service = s}

Dependencies(r, u) ==
    IF u.index > 1
        THEN {t \in PlanSteps(r) : t.service = u.service /\ t.index < u.index}
    ELSE IF u.service = "composition" THEN {}
    ELSE IF ProducedBy(r, u, "composition") # {} THEN ProducedBy(r, u, "composition")
    ELSE IF u.service = "sheets" THEN Produced(r, u)
    ELSE IF u.service \in {"chat", "calendar"} /\ ProducedBy(r, u, "sheets") # {}
        THEN ProducedBy(r, u, "sheets")
    ELSE IF PolicyWrite(r) /\ u.service # "gmail"
        THEN {t \in Produced(r, u) : \A v \in Produced(r, u) : v = t \/ Before(v, t)}
    ELSE {}

RequiredTools(t) ==
    IF ~ReadOnly(t) /\ t.operation \in DOMAIN WriteContracts[t.service]
    THEN WriteContracts[t.service][t.operation] ELSE <<>>

\* whose word is it that the step may act?
Authorized(r, t) ==
    \/ FromIndex(r)
    \/ Contextual(r) /\ ExternalWrite(r) /\ t.service = Context(r).service
    \/ t.service = "composition" /\ Composition(r)
    \/ t.service = "general"
    \/ t.service \in Explicit(r)
    \/ t.service = "gmail" /\ AddressedMail(r)

\* the steps that need the user's approval
GatedSteps(r) == {t \in PlanSteps(r) : RequiresApproval(r) /\ ~ReadOnly(t)}

\* validate_plan: what is left to go wrong in a plan that was built this way
Valid(r) ==
    \A t \in PlanSteps(r) :
        /\ t.service = "general" \/ t.operation \in KnownReads[t.service] \cup KnownWrites(t.service)
        /\ ~ReadOnly(t) => Authorized(r, t) /\ RequiredTools(t) # <<>>
        /\ \A d \in Dependencies(r, t) : Before(d, t)
-------------------------------------------------------------------------------
(* The run that is made of it (create_run, clarify_run).                   *)

Number(r, t) == Cardinality({u \in PlanSteps(r) : u = t \/ Before(u, t)})

Length(r) == Cardinality(PlanSteps(r))
StepOf(r, n) == CHOOSE t \in PlanSteps(r) : Number(r, t) = n

RunDeps(r) ==
    [n \in 1..Length(r) |-> {Number(r, d) : d \in Dependencies(r, StepOf(r, n))}]
RunContract(r) == [n \in 1..Length(r) |-> RequiredTools(StepOf(r, n))]
RunGated(r) == {Number(r, t) : t \in GatedSteps(r)}

Accepted(r, answers) ==
    IF PlanQuestions(r, answers) # {} THEN "awaiting_clarification"
    ELSE IF RequiresApproval(r) THEN "awaiting_approval" ELSE "queued"
CreatedStatus(r) == IF Valid(r) THEN Accepted(r, {}) ELSE "failed"

(* The exact content a plan keeps in the arguments of its steps: a text to *)
(* compose from, the body of a mail, the text of a chat message.           *)
KeptBy(r, answers) ==
    {s \in {"composition", "gmail", "chat"} :
        /\ PlansAction(r) /\ Contextual(r) /\ Output(r) # "none"
        /\ \E t \in PlanSteps(r) : t.service = s /\ t.operation \in {"compose", "send"}
        /\ s = "chat" => \/ r.chatRecipients > 0 \/ r.recipients > 0
                         \/ "destination" \in answers}
KeptTurn(r, answers) ==
    IF KeptBy(r, answers) = {} THEN NoTurn
    ELSE [NoTurn EXCEPT
            !.output = Output(r),
            !.service = CHOOSE s \in KeptBy(r, answers) :
                \A other \in KeptBy(r, answers) : ServiceOrder[s] <= ServiceOrder[other]]

(* clarify_run plans from the stored request alone: the session's turns    *)
(* are gone but for the content the plan kept, and so is the timezone the  *)
(* client sent.  It does not validate the plan again.                      *)
Clarified(r, answers) ==
    [r EXCEPT !.timezone = FALSE, !.last = NoTurn, !.completed = KeptTurn(r, answers)]
ClarifiedStatus(r, answers) == Accepted(Clarified(r, answers), answers)
-------------------------------------------------------------------------------
(* What a user submits (clarify_run, _normalize_clarification_answers), a  *)
(* function on some of the open questions: nothing, a text that cannot be  *)
(* read as an answer, an address within two letters of one in the request, *)
(* an answer, or for a start an answer that is over.                       *)
Submission == {"blank", "unreadable", "mistyped", "answer", "over"}

\* a date is read only in a timezone: as long as that is open, any text is taken
Refused(answers, submitted, q) ==
    \/ submitted[q] = "blank"
    \/ /\ submitted[q] = "unreadable"
       /\ q \in TypedQuestions \cup {"timezone_of_today"}
       /\ q \in {"start_date", "end_date"} =>
             "timezone" \in answers \cup DOMAIN submitted
    \/ submitted[q] = "mistyped" /\ q = "destination"

Taken(open, answers, submitted) ==
    /\ DOMAIN submitted \subseteq open
    /\ \A q \in DOMAIN submitted : ~Refused(answers, submitted, q)

\* what is known after it: a later start replaces the one that was over
Combined(answers, submitted) ==
    LET given(kinds) == {q \in DOMAIN submitted : submitted[q] \in kinds}
        replaced == IF "start_date" \in DOMAIN submitted THEN {"past_start"} ELSE {}
        over == IF "start_date" \in given({"over"}) THEN {"past_start"} ELSE {}
    IN  (answers \ replaced) \cup given({"answer", "over"}) \cup over
===============================================================================
