-------------------------- MODULE RunPlannerProofs --------------------------
(***************************************************************************)
(* What the planner promises of every request: the run it makes of a       *)
(* request is one that DurableRun assumes, its writes have the word of the *)
(* current statement, and a question without a typed answer is asked again *)
(* whatever is answered.                                                   *)
(***************************************************************************)
EXTENDS RunPlanner, FiniteSetTheorems, TLAPS

(* A step's place in the plan as a number: that of its service, and which  *)
(* of the service's two operations it is.                                  *)
Rank(t) == ServiceOrder[t.service] + t.index

-----------------------------------------------------------------------------
(* The steps are numbered by a strict total order.                         *)

(* A turn of the session is well formed (resolve_request_context).         *)
LEMMA ContextType ==
    ASSUME NEW r \in Request
    PROVE  /\ Context(r) \in Turn \cup {NoTurn}
           /\ Context(r).nouns \in SUBSET Services
  BY DEF Context, Request, Turn, NoTurn

(* Every service of a plan has a place in SERVICE_ORDER (build_plan).      *)
LEMMA ServicesHaveOrder ==
    ASSUME NEW r \in Request
    PROVE  StepServices(r) \subseteq PlanServices
<1>1. Services \cup {"composition", "general"} \subseteq PlanServices
  BY DEF Services, PlanServices, ServiceOrder
<1>2. Detected(r) \subseteq Services
  <2>1. TextNouns(r) \subseteq Services
    BY ContextType DEF TextNouns, Request
  <2>2. Mentioned(r) \subseteq Services
    BY <2>1 DEF Mentioned, WithChannel, Request, Services
  <2> QED BY <2>2 DEF Detected
<1>3. ClassifiedServices(r) \subseteq Services \cup {"composition", "general"}
  BY <1>2 DEF ClassifiedServices, ActionServices
<1>4. PolicyServices(r) \subseteq Services \cup {"composition", "general"}
  BY <1>3 DEF PolicyServices, Repeats, NamedServices, Channels, Services
<1> QED BY <1>1, <1>4 DEF StepServices

(* A service gets one operation, or a read and a write (infer_operation_   *)
(* sequence).                                                              *)
LEMMA OneOrTwoOperations ==
    ASSUME NEW r, NEW s
    PROVE  DOMAIN StepOperations(r, s) \in {{1}, {1, 2}}
<1>1. \A a : DOMAIN <<a>> = {1}
  OBVIOUS
<1>2. \A a, b : DOMAIN <<a, b>> = {1, 2}
  OBVIOUS
<1> QED BY <1>1, <1>2 DEF StepOperations, Operations

(* A step of a plan, and that its operation is the one of its place.       *)
LEMMA StepShape ==
    ASSUME NEW r \in Request, NEW t \in PlanSteps(r)
    PROVE  /\ t.service \in PlanServices
           /\ t.index \in {1, 2}
           /\ t = [service |-> t.service, index |-> t.index,
                   operation |-> StepOperations(r, t.service)[t.index]]
<1>1. PICK s \in StepServices(r) :
          \E i \in DOMAIN StepOperations(r, s) :
              t = [service |-> s, index |-> i, operation |-> StepOperations(r, s)[i]]
  BY DEF PlanSteps
<1>2. PICK i \in DOMAIN StepOperations(r, s) :
          t = [service |-> s, index |-> i, operation |-> StepOperations(r, s)[i]]
  BY <1>1
<1>3. i \in {1, 2}
  BY OneOrTwoOperations
<1> QED BY <1>2, <1>3, ServicesHaveOrder

(* Before orders the steps of a plan by their ranks, which differ.         *)
LEMMA BeforeIsRank ==
    ASSUME NEW r \in Request, NEW t \in PlanSteps(r), NEW u \in PlanSteps(r)
    PROVE  /\ Rank(t) \in 1..102
           /\ Before(t, u) <=> Rank(t) < Rank(u)
           /\ Rank(t) = Rank(u) => t = u
<1>1. /\ t.service \in PlanServices /\ t.index \in {1, 2}
      /\ u.service \in PlanServices /\ u.index \in {1, 2}
  BY StepShape
<1>2. /\ Rank(t) \in 1..102
      /\ Before(t, u) <=> Rank(t) < Rank(u)
      /\ Rank(t) = Rank(u) => t.service = u.service /\ t.index = u.index
  BY <1>1 DEF Before, Rank, PlanServices, ServiceOrder
<1> QED BY <1>2, StepShape

(* A plan has finitely many steps: their ranks tell them apart.            *)
LEMMA PlanIsFinite ==
    ASSUME NEW r \in Request
    PROVE  IsFiniteSet(PlanSteps(r))
<1> DEFINE rank == [t \in PlanSteps(r) |-> Rank(t)]
<1>1. rank \in Injection(PlanSteps(r), 1..102)
  BY BeforeIsRank DEF Injection, IsInjective
<1>2. ASSUME NEW n \in Nat
      PROVE  IsFiniteSet(1..n)
  BY FS_Interval
<1>3. IsFiniteSet(1..102)
  BY <1>2
<1> QED BY <1>1, <1>3, FS_Injection

(* A step's number lies between 1 and their count and grows with its rank. *)
LEMMA NumberGrows ==
    ASSUME NEW r \in Request
    PROVE  /\ Length(r) \in Nat
           /\ \A t \in PlanSteps(r) : Number(r, t) \in 1..Length(r)
           /\ \A t, u \in PlanSteps(r) : Before(t, u) <=> Number(r, t) < Number(r, u)
<1> DEFINE upTo(t) == {u \in PlanSteps(r) : u = t \/ Before(u, t)}
<1>1. IsFiniteSet(PlanSteps(r)) /\ Length(r) \in Nat
  BY PlanIsFinite, FS_CardinalityType DEF Length
<1>2. ASSUME NEW t \in PlanSteps(r)
      PROVE  IsFiniteSet(upTo(t)) /\ Number(r, t) \in 1..Length(r)
  <2>1. IsFiniteSet(upTo(t)) /\ Cardinality(upTo(t)) <= Length(r)
    BY <1>1, FS_Subset DEF Length
  <2>2. Cardinality(upTo(t)) # 0
    BY <2>1, FS_EmptySet
  <2>3. Cardinality(upTo(t)) \in Nat
    BY <2>1, FS_CardinalityType
  <2> QED BY <1>1, <2>1, <2>2, <2>3 DEF Number
<1>3. ASSUME NEW t \in PlanSteps(r), NEW u \in PlanSteps(r), Before(t, u)
      PROVE  Number(r, t) < Number(r, u)
  <2>1. upTo(t) \subseteq upTo(u) \ {u} /\ u \in upTo(u)
    BY <1>3, BeforeIsRank
  <2>2. /\ IsFiniteSet(upTo(u) \ {u})
        /\ Cardinality(upTo(u) \ {u}) = Cardinality(upTo(u)) - 1
    BY <1>2, <2>1, FS_RemoveElement
  <2>3. Cardinality(upTo(t)) <= Cardinality(upTo(u)) - 1
    BY <2>1, <2>2, FS_Subset
  <2> QED BY <1>2, <2>3 DEF Number
<1>4. ASSUME NEW t \in PlanSteps(r), NEW u \in PlanSteps(r),
             Number(r, t) < Number(r, u)
      PROVE  Before(t, u)
  <2>1. Number(r, t) \in 1..Length(r) /\ Number(r, u) \in 1..Length(r)
    BY <1>2
  <2>2. t # u /\ ~ Number(r, u) < Number(r, t)
    BY <1>1, <1>4, <2>1
  <2>3. ~ Before(u, t)
    BY <1>3, <2>2
  <2> QED BY <2>2, <2>3, BeforeIsRank
<1> QED BY <1>1, <1>2, <1>3, <1>4

(* Every number up to the count is that of exactly one step.               *)
LEMMA StepOfNumber ==
    ASSUME NEW r \in Request, NEW n \in 1..Length(r)
    PROVE  StepOf(r, n) \in PlanSteps(r) /\ Number(r, StepOf(r, n)) = n
<1> SUFFICES \E t \in PlanSteps(r) : Number(r, t) = n
  BY DEF StepOf
<1> SUFFICES ASSUME \A t \in PlanSteps(r) : Number(r, t) # n
             PROVE  FALSE
  OBVIOUS
<1> DEFINE others == (1..Length(r)) \ {n}
           number == [t \in PlanSteps(r) |-> Number(r, t)]
<1>1. number \in [PlanSteps(r) -> others]
  BY NumberGrows
<1>2. IsFiniteSet(1..Length(r)) /\ Cardinality(1..Length(r)) = Length(r)
  BY NumberGrows, FS_Interval
<1>3. IsFiniteSet(others) /\ Cardinality(others) = Length(r) - 1
  BY <1>2, FS_RemoveElement
<1>4. Cardinality(others) < Cardinality(PlanSteps(r))
  BY <1>3, NumberGrows DEF Length
<1>5. \E t, u \in PlanSteps(r) : t # u /\ number[t] = number[u]
  <2> HIDE DEF others, number
  <2> QED BY <1>1, <1>3, <1>4, PlanIsFinite, FS_PigeonHole
<1>6. PICK t \in PlanSteps(r), u \in PlanSteps(r) : t # u /\ Number(r, t) = Number(r, u)
  BY <1>5
<1>7. ~ Number(r, t) < Number(r, u) /\ ~ Number(r, u) < Number(r, t)
  BY <1>6, NumberGrows
<1> QED BY <1>6, <1>7, NumberGrows, BeforeIsRank

-----------------------------------------------------------------------------
(* The run of a request.                                                   *)

(* Whatever is asked, every step of the run depends on steps of the plan   *)
(* that come before it (_add_explicit_dependencies, validate_plan): what   *)
(* DurableRun assumes of Deps, so that no run waits for itself.            *)
THEOREM DependenciesComeFirst ==
    ASSUME NEW r \in Request
    PROVE  /\ RunDeps(r) \in [1..Length(r) -> SUBSET (1..Length(r))]
           /\ \A n \in 1..Length(r) : \A d \in RunDeps(r)[n] : d < n
<1>1. ASSUME NEW u \in PlanSteps(r), NEW d \in Dependencies(r, u)
      PROVE  d \in PlanSteps(r) /\ Before(d, u)
  <2>1. \A s : ProducedBy(r, u, s) \subseteq Produced(r, u)
    BY DEF ProducedBy
  <2>2. Produced(r, u) \subseteq {t \in PlanSteps(r) : Before(t, u)}
    BY DEF Produced
  <2>3. CASE u.index > 1
    BY <1>1, <2>3 DEF Dependencies, Before
  <2>4. CASE ~ u.index > 1
    <3>1. d \in Produced(r, u)
      BY <1>1, <2>1, <2>4 DEF Dependencies
    <3> QED BY <2>2, <3>1
  <2> QED BY <2>3, <2>4
<1>2. ASSUME NEW n \in 1..Length(r), NEW d \in Dependencies(r, StepOf(r, n))
      PROVE  Number(r, d) \in 1..Length(r) /\ Number(r, d) < n
  BY <1>1, StepOfNumber, NumberGrows
<1> QED BY <1>2 DEF RunDeps

(* In a plan that passes validate_plan, every step that waits for an       *)
(* approval is a write with tools it must call, and the run then waits for *)
(* the approval: what DurableRun assumes of Gated and NeedsApproval.       *)
THEOREM GatedStepsAreWrites ==
    ASSUME NEW r \in Request, Valid(r)
    PROVE  /\ \A n \in RunGated(r) : n \in 1..Length(r) /\ RunContract(r)[n] # <<>>
           /\ RunGated(r) # {} => RequiresApproval(r)
<1>1. ASSUME NEW t \in GatedSteps(r)
      PROVE  /\ t \in PlanSteps(r)
             /\ RequiresApproval(r)
             /\ RequiredTools(t) # <<>>
  BY <1>1 DEF GatedSteps, Valid
<1>2. ASSUME NEW t \in PlanSteps(r)
      PROVE  StepOf(r, Number(r, t)) = t
  <2>1. Number(r, t) \in 1..Length(r)
    BY NumberGrows
  <2> DEFINE u == StepOf(r, Number(r, t))
  <2>2. u \in PlanSteps(r) /\ Number(r, u) = Number(r, t)
    BY <2>1, StepOfNumber
  <2>3. ~ Number(r, t) < Number(r, u) /\ ~ Number(r, u) < Number(r, t)
    BY <2>1, <2>2
  <2> HIDE DEF u
  <2>4. u = t
    BY <2>2, <2>3, NumberGrows, BeforeIsRank
  <2> QED BY <2>4 DEF u
<1>3. ASSUME NEW t \in GatedSteps(r)
      PROVE  /\ Number(r, t) \in 1..Length(r)
             /\ RunContract(r)[Number(r, t)] # <<>>
  BY <1>1, <1>2, NumberGrows DEF RunContract
<1> QED BY <1>1, <1>3 DEF RunGated

(* A write that is planned has the word of the current statement: its      *)
(* service is named there, or is the mail that is sent to an address, or   *)
(* it repeats what the session did before and the statement asks for a     *)
(* write.  No other authority covers a write (validate_plan).              *)
THEOREM WritesAreAuthorized ==
    ASSUME NEW r \in Request, Valid(r),
           NEW t \in PlanSteps(r), ~ReadOnly(t)
    PROVE  \/ t.service \in Explicit(r)
           \/ t.service = "gmail" /\ AddressedMail(r)
           \/ /\ Contextual(r) /\ ExternalWrite(r)
              /\ t.service = Context(r).service
<1>1. PICK s \in StepServices(r) :
          \E i \in DOMAIN StepOperations(r, s) :
              t = [service |-> s, index |-> i, operation |-> StepOperations(r, s)[i]]
  BY DEF PlanSteps
<1>2. PICK i \in DOMAIN StepOperations(r, s) :
          t = [service |-> s, index |-> i, operation |-> StepOperations(r, s)[i]]
  BY <1>1
<1>3. Authorized(r, t) /\ RequiredTools(t) # <<>>
  BY DEF Valid
<1>4. t.service \notin {"composition", "general"}
  BY <1>3 DEF RequiredTools, WriteContracts, NoContracts
<1>5. ~FromIndex(r)
  BY <1>2, <1>4, ServicesHaveOrder DEF StepServices
<1> QED BY <1>3, <1>4, <1>5 DEF Authorized

-----------------------------------------------------------------------------
(* Questions without a typed answer.                                       *)

Untyped == Questions \ (TypedQuestions \cup {"timezone_of_today"})

(* What clarify_run plans from, for a request that the session adds        *)
(* nothing to: the same statement, without a timezone and without turns.   *)
LEMMA ClarifiedForgets ==
    ASSUME NEW r \in Request, NEW a, ~HasContext(r)
    PROVE  /\ Clarified(r, a) = [r EXCEPT !.timezone = FALSE, !.last = NoTurn,
                                         !.completed = NoTurn]
           /\ Context(Clarified(r, a)) = NoTurn
<1>1. Context(r) = NoTurn /\ Output(r) = "none"
  BY DEF HasContext, Output, NoTurn
<1>2. KeptBy(r, a) = {}
  BY <1>1 DEF KeptBy
<1>3. Clarified(r, a) = [r EXCEPT !.timezone = FALSE, !.last = NoTurn,
                                  !.completed = NoTurn]
  BY <1>2 DEF Clarified, KeptTurn
<1>4. /\ Clarified(r, a).last = NoTurn
      /\ Clarified(r, a).completed = NoTurn
  BY <1>3 DEF Request
<1>5. NoTurn.intent \notin {"ambiguous", "out_of_scope"}
  BY DEF NoTurn
<1> QED BY <1>3, <1>4, <1>5 DEF Context

(* What the untyped questions depend on: what the statement says, its      *)
(* intent, and whether it points outside itself to something that is there.*)
SameReading(r, s) ==
    /\ Intent(r) = Intent(s)
    /\ Contextual(r) = Contextual(s)
    /\ ExternalWrite(r) = ExternalWrite(s)
    /\ ContentQuestions(r) = ContentQuestions(s)
    /\ Output(r) = "none" /\ Output(s) = "none"
    /\ SheetLink(r) = SheetLink(s)
    /\ \A signal : Says(r, signal) = Says(s, signal)

(* The statement is read as before.                                        *)
LEMMA ClarifiedReadsTheSame ==
    ASSUME NEW r \in Request, NEW a, ~HasContext(r)
    PROVE  SameReading(r, Clarified(r, a)) /\ SameReading(Clarified(r, a), r)
<1> DEFINE c == Clarified(r, a)
<1>1. /\ c.says = r.says /\ c.names = r.names /\ c.nouns = r.nouns
      /\ c.channels = r.channels /\ c.recipients = r.recipients
  <2>1. c = [r EXCEPT !.timezone = FALSE, !.last = NoTurn, !.completed = NoTurn]
    BY ClarifiedForgets
  <2> HIDE DEF c
  <2> QED BY <2>1 DEF Request
<1>2. Context(c) = NoTurn /\ Context(r) = NoTurn
  BY ClarifiedForgets DEF HasContext
<1> HIDE DEF c
<1>3. /\ \A signal : Says(c, signal) = Says(r, signal)
      /\ \A signal : TextSays(c, signal) = TextSays(r, signal)
      /\ TextNouns(c) = TextNouns(r)
  BY <1>1, <1>2 DEF Says, TextSays, TextNouns
<1>4. Explicit(c) = Explicit(r)
  BY <1>1, <1>3 DEF Explicit, LocalProject
<1>5. /\ Prospective(c) = Prospective(r)
      /\ ContentRequested(c) = ContentRequested(r)
      /\ Composition(c) = Composition(r)
      /\ Deferred(c) = Deferred(r)
  BY <1>3 DEF Prospective, ContentRequested, Composition, Deferred
<1>6. ContentQuestions(c) = ContentQuestions(r)
  BY <1>3, <1>5 DEF ContentQuestions
<1>7. GmailCopy(c) = GmailCopy(r)
  BY <1>1, <1>3, <1>4 DEF GmailCopy
<1>8. Contextual(c) = Contextual(r)
  BY <1>3, <1>5, <1>7 DEF Contextual
<1>9. ExternalWrite(c) = ExternalWrite(r)
  BY <1>1, <1>3, <1>4, <1>5 DEF ExternalWrite
<1>10. \A found : WithChannel(c, found) = WithChannel(r, found)
  BY <1>1, <1>3 DEF WithChannel, AddressedMail, OtherChannel
<1>11. Mentioned(c) = Mentioned(r) /\ Authority(c) = Authority(r)
  BY <1>1, <1>3, <1>4, <1>10 DEF Mentioned, Authority, LocalProject
<1>12. SheetLink(c) = SheetLink(r) /\ MeetInEvent(c) = MeetInEvent(r)
  BY <1>3, <1>11 DEF SheetLink, MeetInEvent
<1>13. Detected(c) = Detected(r)
  BY <1>3, <1>11, <1>12 DEF Detected, Described
<1>14. \A signal : CommandSays(c, signal) = CommandSays(r, signal)
  BY <1>3 DEF CommandSays
<1>15. RoutedIntent(c) = RoutedIntent(r)
  BY <1>13, <1>14 DEF RoutedIntent
<1>16. Intent(c) = Intent(r)
  BY <1>4, <1>5, <1>9, <1>11, <1>15 DEF Intent
<1>17. Output(c) = "none" /\ Output(r) = "none"
  BY <1>2 DEF Output, NoTurn
<1> QED BY <1>3, <1>6, <1>8, <1>9, <1>12, <1>16, <1>17 DEF SameReading, c

(* A plan asks nothing but the questions there are (build_plan).           *)
LEMMA QuestionsAreKnown ==
    ASSUME NEW r, NEW a
    PROVE  /\ PlanQuestions(r, a) \subseteq Questions
           /\ ClassifiedQuestions(r, a) \cap Untyped
                 \subseteq ContentQuestions(r) \cup {"outcome"}
<1>1. /\ ContentQuestions(r) \subseteq {"conversation", "passages", "gloss"}
      /\ CalendarQuestions(r, a) \subseteq TypedQuestions \ {"destination"}
  BY DEF ContentQuestions, CalendarQuestions, RecurrenceQuestions, TypedQuestions
<1>2. ClassifiedQuestions(r, a) \subseteq
          ContentQuestions(r) \cup CalendarQuestions(r, a)
          \cup {"destination", "timezone_of_today", "outcome"}
  BY DEF ClassifiedQuestions
<1>3. PlanQuestions(r, a) \subseteq ClassifiedQuestions(r, a) \cup {"content", "link"}
  BY DEF PlanQuestions
<1> QED BY <1>1, <1>2, <1>3 DEF Questions, TypedQuestions, Untyped

(* Two requests that are read the same leave the same untyped questions.   *)
LEMMA UntypedQuestionsAgree ==
    ASSUME NEW r, NEW s, SameReading(r, s), NEW a, NEW b,
           NEW q \in PlanQuestions(r, a) \cap Untyped
    PROVE  q \in PlanQuestions(s, b)
<1>1. Acts(r) = Acts(s) /\ ~DeliversContent(r) /\ ~DeliversContent(s)
  BY DEF SameReading, Acts, DeliversContent
<1>2. CASE q \in ClassifiedQuestions(r, a)
  <2>1. q \in ContentQuestions(s) \/ (q = "outcome" /\ Intent(s) = "ambiguous")
    <3>1. q = "outcome" => Intent(r) = "ambiguous"
      BY <1>2 DEF ClassifiedQuestions, ContentQuestions, CalendarQuestions,
                  RecurrenceQuestions
    <3> QED BY <1>2, <3>1, QuestionsAreKnown DEF SameReading
  <2>2. Acts(s)
    BY <1>1, <1>2 DEF ClassifiedQuestions
  <2>3. q \in ClassifiedQuestions(s, b)
    BY <2>1, <2>2 DEF ClassifiedQuestions
  <2> QED BY <1>1, <2>3 DEF PlanQuestions
<1>3. CASE q \notin ClassifiedQuestions(r, a)
  <2>1. /\ q \in {"content", "link"}
        /\ Contextual(r)
        /\ q = "content" => ExternalWrite(r) /\ Output(r) = "none" /\ ~SheetLink(r)
        /\ q = "link" => Says(r, "link") /\ Output(r) = "text"
    BY <1>3 DEF PlanQuestions
  <2> QED BY <2>1 DEF PlanQuestions, SameReading
<1> QED BY <1>2, <1>3

(* A question without a typed answer is asked for ever: when the session   *)
(* adds nothing to the request, whatever its user answers, and however     *)
(* often, the run waits for a clarification again (clarify_run).           *)
THEOREM UntypedQuestionsStay ==
    ASSUME NEW r \in Request, ~HasContext(r), NEW a, NEW answers,
           NEW q \in PlanQuestions(r, a) \cap Untyped
    PROVE  /\ q \in PlanQuestions(Clarified(r, answers), answers)
           /\ ClarifiedStatus(r, answers) = "awaiting_clarification"
<1>1. q \in PlanQuestions(Clarified(r, answers), answers)
  BY ClarifiedReadsTheSame, UntypedQuestionsAgree
<1> QED BY <1>1 DEF ClarifiedStatus, Accepted

(* Typed questions come to an end: when the session adds nothing to the    *)
(* request and all its questions have typed answers, a user who answers    *)
(* all that is asked is asked once more at most (clarify_run), for what    *)
(* depends on the timezone that the client sent with the request.          *)
THEOREM TypedQuestionsSettle ==
    ASSUME NEW r \in Request, ~HasContext(r),
           PlanQuestions(r, {}) \cap Untyped = {}
    PROVE  LET first  == PlanQuestions(r, {})
               second == first \cup PlanQuestions(Clarified(r, first), first)
           IN  PlanQuestions(Clarified(r, second), second) = {}
<1> DEFINE first  == PlanQuestions(r, {})
           c      == Clarified(r, first)
           second == first \cup PlanQuestions(c, first)
<1>1. c = Clarified(r, second)
  BY ClarifiedForgets
<1>2. \A a : PlanQuestions(c, a) \cap Untyped = {}
  BY ClarifiedReadsTheSame, UntypedQuestionsAgree
<1>3. ~DeliversContent(c) /\ \A a : ClassifiedQuestions(c, a) \subseteq PlanQuestions(c, a)
  BY ClarifiedReadsTheSame DEF SameReading, DeliversContent, PlanQuestions
<1>4. "past_start" \notin second /\ first \subseteq second
  BY QuestionsAreKnown DEF Questions, TypedQuestions
<1> HIDE DEF first, c
<1>5. ClassifiedQuestions(c, first) \subseteq second
  BY <1>3
<1> HIDE DEF second
<1>6. Timezone(c, first) => Timezone(c, second)
  BY <1>4 DEF Timezone
<1>7. CalendarQuestions(c, second) \subseteq CalendarQuestions(c, first)
  <2>1. ~PastStart(c, second)
    BY <1>4 DEF PastStart
  <2>2. Frequency(c, first) => Frequency(c, second)
    BY <1>4 DEF Frequency
  <2>3. \A q : Known(c, first, q) => Known(c, second, q)
    BY <1>4, <1>6 DEF Known
  <2>4. RecurrenceQuestions(c, second) \subseteq RecurrenceQuestions(c, first)
    BY <2>1, <2>2, <2>3 DEF RecurrenceQuestions
  <2> QED BY <1>6, <2>3, <2>4 DEF CalendarQuestions
<1>8. ASSUME Acts(c), "calendar" \in ActionServices(c)
      PROVE  CalendarQuestions(c, second) = {}
  <2>1. CalendarQuestions(c, first) \subseteq second
    BY <1>5, <1>8 DEF ClassifiedQuestions
  <2>2. Timezone(c, second)
    <3>1. CASE Timezone(c, first)
      BY <1>6, <3>1
    <3>2. CASE ~Timezone(c, first)
      BY <2>1, <3>2 DEF CalendarQuestions, Timezone
    <3> QED BY <3>1, <3>2
  <2>3. \A q \in second : Known(c, second, q)
    BY <2>2 DEF Known
  <2>4. RecurrenceQuestions(c, second) \cap second = {}
    BY <1>4, <2>3 DEF RecurrenceQuestions, Frequency, PastStart
  <2>5. CalendarQuestions(c, second) \cap second = {}
    BY <2>2, <2>3, <2>4 DEF CalendarQuestions
  <2> QED BY <1>7, <2>1, <2>5
<1>9. ClassifiedQuestions(c, second) \subseteq Untyped
  <2>1. "destination" \in ClassifiedQuestions(c, second) => "destination" \in second
    BY <1>4, <1>5, <1>8 DEF ClassifiedQuestions, ContentQuestions
  <2>2. "destination" \notin ClassifiedQuestions(c, second)
    BY <1>8, <2>1 DEF ClassifiedQuestions, ContentQuestions
  <2>3. "timezone_of_today" \notin ClassifiedQuestions(c, second)
    BY <1>5, <1>6, <1>8 DEF ClassifiedQuestions, ContentQuestions, Timezone
  <2> QED
    BY <1>8, <2>2, <2>3 DEF ClassifiedQuestions, ContentQuestions, Untyped,
                           Questions, TypedQuestions
<1>10. PlanQuestions(c, second) \subseteq ClassifiedQuestions(c, second) \cup {"content", "link"}
  BY DEF PlanQuestions
<1>11. PlanQuestions(c, second) = {}
  BY <1>2, <1>9, <1>10 DEF Untyped, Questions, TypedQuestions
<1> QED BY <1>1, <1>11 DEF first, second, c
=============================================================================
