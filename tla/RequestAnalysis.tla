--------------------------- MODULE RequestAnalysis ---------------------------
(***************************************************************************)
(* What a request is taken to ask for (app/runs/request_analysis.py,       *)
(* content_policy.py, context.py, informational.py and classify_request in *)
(* planner.py): the services it may use, whether it writes, whether it     *)
(* must be approved, and the questions it leaves open.                     *)
(*                                                                         *)
(* The code reads text through regular expressions.  A request is here     *)
(* what those expressions find in it: a set of signals, one per pattern,   *)
(* and a set of service nouns.  Everything below is the code's own         *)
(* combination of them.                                                    *)
(***************************************************************************)
EXTENDS Integers, FiniteSets, Sequences

Services ==
    {"gmail", "calendar", "drive", "docs", "sheets", "tasks", "chat",
     "contacts", "meet"}

Channels == {"gmail", "chat"}

IntentKinds ==
    {"workspace_action", "workspace_guidance", "product_information",
     "scope_chat", "ambiguous", "out_of_scope", "policy_refusal"}

\* the questions of a plan; the first seven have a typed answer
TypedQuestions ==
    {"start_time", "duration", "timezone", "recurrence", "start_date",
     "end_date", "destination"}
Questions == TypedQuestions \cup
    {"timezone_of_today", "outcome", "content", "link", "conversation",
     "passages", "gloss"}

(* A request: the patterns its text matches, the nouns of its text without *)
(* and with its addresses, the channels and addresses it names, whether    *)
(* the client sent a timezone, the operations it names for each service    *)
(* (in the order of the text, and the one nearest to the service's noun)   *)
(* and what comes before it in the session.                                *)
Signals ==
    {"project_file", "google_resource",                 \* what it is about
     "reference", "contextual_action", "do_the_same",   \* what it refers to
     "local_antecedent", "same_resource", "then_send_it", "link",
     "hold_delivery", "copy_source", "copy_transfer",
     "composition", "creation", "interactive", "then_deliver",
     "word_by_word", "many_languages",
     "external_verb", "email_verb", "modify_verb", "write_verb", "send",
     "delivery_verb", "calendar_verb", "email_delivery", "high_risk",
     "opt_out", "semantic", "live", "then",
     "disallowed", "product", "small_talk", "guidance", "action", "note",
     "service_only", "workspace",                       \* its intent
     "people_mail", "sheet_link", "event_words",        \* its nouns
     "count_senders", "count_messages", "senders",
     "start_time", "duration", "timezone", "recurrence", "frequency",
     "start_date", "end_date", "space", "counts", "today"}

(* An earlier turn of the session: what it was taken to be, what it brings *)
(* into the planning message, the exact content it left to reuse (a text   *)
(* with a URL in it is a "link") and the service that delivered it.        *)
NoTurn ==
    [intent |-> "none", says |-> {}, nouns |-> {}, output |-> "none", service |-> "none"]
Turn ==
    [intent : IntentKinds, says : SUBSET Signals, nouns : SUBSET Services,
     output : {"none", "text", "link"},
     service : Channels \cup {"calendar", "composition", "none"}]

Request ==
    [says : SUBSET Signals, names : SUBSET Services, nouns : SUBSET Services,
     channels : SUBSET Channels, mutates : SUBSET Services,
     recipients : Nat, chatRecipients : Nat, timezone : BOOLEAN,
     verbs : [Services -> Seq(STRING)], nearest : [Services -> STRING],
     last : Turn \cup {NoTurn}, completed : Turn \cup {NoTurn}]

Says(r, signal) == signal \in r.says
-------------------------------------------------------------------------------
(* Content work (content_policy.py).                                       *)

ContentRequested(r) == Says(r, "creation") \/ Says(r, "interactive")

\* a conversation that is still to be held, then sent: there is nothing to send
Prospective(r) == Says(r, "interactive") /\ Says(r, "then_deliver")

\* an answer no longer becomes part of the text that is analysed again
ContentQuestions(r) ==
    {q \in {"conversation", "passages", "gloss"} :
        \/ q = "conversation" /\ Prospective(r)
        \/ q # "conversation" /\ ContentRequested(r)
              /\ Says(r, "word_by_word") /\ Says(r, "many_languages")}
-------------------------------------------------------------------------------
(* The current statement alone (request_analysis.py).                      *)

LocalProject(r) == Says(r, "project_file") /\ ~Says(r, "google_resource")

Explicit(r) == IF LocalProject(r) THEN {} ELSE r.names

Deferred(r) == Says(r, "hold_delivery")

GmailCopy(r) ==
    /\ "gmail" \in Explicit(r)
    /\ r.recipients >= 2
    /\ Says(r, "copy_source") /\ Says(r, "copy_transfer")

Composition(r) == Says(r, "composition") \/ ContentRequested(r)

\* does the statement point outside itself?
Contextual(r) ==
    /\ \/ Says(r, "reference") /\ Says(r, "contextual_action")
       \/ Says(r, "do_the_same")
    /\ ~Says(r, "local_antecedent") /\ ~Says(r, "same_resource")
    /\ ~GmailCopy(r) /\ ~Deferred(r) /\ ~Prospective(r)
    /\ ~(Composition(r) /\ Says(r, "then_send_it"))

ExternalWrite(r) ==
    /\ ~Deferred(r)
    /\ \/ Says(r, "external_verb")
       \/ Says(r, "email_verb")
       \/ "chat" \in r.channels /\ r.recipients > 0
       \/ /\ Says(r, "modify_verb")
          /\ Explicit(r) \cap {"calendar", "drive", "docs", "sheets", "tasks", "meet"} # {}
-------------------------------------------------------------------------------
(* The turn of the session a statement is read with (context.py): the one  *)
(* just before it when it only names a service, the last completed one     *)
(* when it refers to something, and none otherwise.                        *)

Context(r) ==
    CASE Says(r, "service_only") ->
            IF r.last.intent \in {"ambiguous", "out_of_scope"} THEN r.last ELSE NoTurn
      [] ~Says(r, "service_only") /\ Contextual(r) -> r.completed
      [] OTHER -> NoTurn

HasContext(r) == Context(r) # NoTurn
-------------------------------------------------------------------------------
(* The services (classify_request).                                        *)

\* what the planning message says: the statement and the turn it is read with
TextSays(r, signal) == signal \in r.says \cup Context(r).says
TextNouns(r) == r.nouns \cup Context(r).nouns

\* an address and "send", with no chat in sight, is mail
AddressedMail(r) ==
    Says(r, "send") /\ r.recipients > 0 /\ "chat" \notin r.channels

\* one named channel excludes the other
OtherChannel(r) ==
    CASE r.channels = {"chat"}  -> {"gmail"}
      [] r.channels = {"gmail"} -> {"chat"}
      [] OTHER -> {}

WithChannel(r, found) ==
    (found \cup IF AddressedMail(r) THEN {"gmail"} ELSE {}) \ OtherChannel(r)

\* what the current statement may make the run use
Authority(r) == WithChannel(r, Explicit(r))

Mentioned(r) ==
    WithChannel(r, IF LocalProject(r) THEN {} ELSE TextNouns(r) \cup r.names)

SheetLink(r) == {"sheets", "drive"} \subseteq Mentioned(r) /\ TextSays(r, "sheet_link")
MeetInEvent(r) == {"calendar", "meet"} \subseteq Mentioned(r) /\ TextSays(r, "event_words")

\* a noun that only describes another service's work is not a service
Described(r) ==
    {s \in Mentioned(r) :
        \/ s = "chat" /\ "meet" \in Mentioned(r) /\ "chat" \notin TextNouns(r)
        \/ s = "contacts" /\ "gmail" \in Mentioned(r) /\ TextSays(r, "people_mail")
        \/ s = "drive" /\ SheetLink(r)
        \/ s = "meet" /\ MeetInEvent(r)}

Detected(r) == Mentioned(r) \ Described(r)
-------------------------------------------------------------------------------
(* The intent (classify_workspace_intent and its two overrides).           *)

\* the command is the statement, but for one that only names a service
CommandSays(r, signal) ==
    IF Says(r, "service_only") THEN TextSays(r, signal) ELSE Says(r, signal)

RoutedIntent(r) ==
    LET workspace == Detected(r) # {} \/ CommandSays(r, "workspace")
    IN  IF CommandSays(r, "disallowed")      THEN "policy_refusal"
        ELSE IF CommandSays(r, "product")    THEN "product_information"
        ELSE IF CommandSays(r, "small_talk") THEN "scope_chat"
        ELSE IF ~workspace
            THEN IF CommandSays(r, "note") THEN "ambiguous" ELSE "out_of_scope"
        ELSE IF CommandSays(r, "guidance")   THEN "workspace_guidance"
        ELSE IF CommandSays(r, "action")     THEN "workspace_action"
        ELSE "ambiguous"

\* bounded composition, and a write the statement authorises, are actions
Intent(r) ==
    IF /\ RoutedIntent(r) \in {"ambiguous", "out_of_scope"}
       /\ \/ Composition(r) /\ (Deferred(r) \/ Explicit(r) = {})
          \/ ExternalWrite(r) /\ Authority(r) # {}
    THEN "workspace_action" ELSE RoutedIntent(r)
-------------------------------------------------------------------------------
(* The policy (classify_request).                                          *)

\* words of a draft may name a service without asking for it
OnlyInTheDraft(r) ==
    {s \in Services :
        \/ s = "calendar" /\ ~Says(r, "calendar_verb")
        \/ s = "gmail" /\ ~Says(r, "email_delivery")
        \/ s = "chat" /\ "chat" \notin r.channels}

ActionServices(r) ==
    LET named == IF Contextual(r) THEN Detected(r) \cap Authority(r) ELSE Detected(r)
    IN  IF Composition(r) /\ Intent(r) = "workspace_action"
        THEN {"composition"} \cup ((named \cap Authority(r)) \ OnlyInTheDraft(r))
        ELSE named

Acts(r) == Intent(r) \in {"workspace_action", "ambiguous"}

ClassifiedServices(r) == IF Acts(r) THEN ActionServices(r) ELSE {"general"}

Write(r) ==
    /\ Acts(r)
    /\ Says(r, "write_verb") \/ ExternalWrite(r)
    /\ ActionServices(r) \ {"composition"} # {}

HighRisk(r) ==
    /\ Write(r)
    /\ \/ Says(r, "high_risk")
       \/ /\ ActionServices(r) \cap {"gmail", "chat", "calendar"} # {}
          /\ \/ Says(r, "delivery_verb")
             \/ "chat" \in ActionServices(r) \cap r.channels

Bypassed(r) == Says(r, "opt_out")

\* evidence the tenant already indexed, for a question that is not about now
Semantic(r) == Acts(r) /\ Says(r, "semantic") /\ ~Says(r, "live")
-------------------------------------------------------------------------------
(* The questions a request leaves open, given the answers so far: a set of *)
(* questions, with "past_start" for a start that is already past.          *)

Timezone(r, answers) ==
    \/ r.timezone \/ TextSays(r, "timezone")
    \/ answers \cap {"timezone", "timezone_of_today"} # {}

\* said in the text, or answered; a date can only be read in a timezone
Known(r, answers, item) ==
    \/ TextSays(r, item)
    \/ /\ item \in answers
       /\ item \in {"start_date", "end_date"} => Timezone(r, answers)

\* how often it recurs
Frequency(r, answers) == TextSays(r, "frequency") \/ "recurrence" \in answers

\* a start that was answered, and is over
PastStart(r, answers) ==
    {"start_date", "start_time", "past_start"} \subseteq answers /\ Timezone(r, answers)

RecurrenceQuestions(r, answers) ==
    {q \in {"recurrence", "start_date", "end_date"} :
        \/ q = "recurrence" /\ ~Frequency(r, answers)
        \/ q # "recurrence" /\ ~Known(r, answers, q)
        \/ q = "start_date" /\ PastStart(r, answers)}

CalendarQuestions(r, answers) ==
    {q \in {"start_time", "duration"} : ~Known(r, answers, q)}
    \cup {q \in {"timezone"} : ~Timezone(r, answers)}
    \cup (IF TextSays(r, "recurrence") THEN RecurrenceQuestions(r, answers) ELSE {})

ClassifiedQuestions(r, answers) ==
    IF ~Acts(r) THEN {}
    ELSE ContentQuestions(r)
         \cup (IF "calendar" \in ActionServices(r)
               THEN CalendarQuestions(r, answers) ELSE {})
         \cup (IF /\ "chat" \in ActionServices(r) /\ Write(r)
                  /\ ~TextSays(r, "space") /\ r.chatRecipients = 0
                  /\ "destination" \notin answers
               THEN {"destination"} ELSE {})
         \cup (IF /\ "gmail" \in ActionServices(r)
                  /\ TextSays(r, "counts") /\ TextSays(r, "today")
                  /\ ~Timezone(r, answers)
               THEN {"timezone_of_today"} ELSE {})
         \cup (IF Intent(r) = "ambiguous" THEN {"outcome"} ELSE {})
===============================================================================
