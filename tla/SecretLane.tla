----------------------------- MODULE SecretLane -----------------------------
(***************************************************************************)
(* Which model gets to see a text: the classification and the routing of a *)
(* new task (server/task.go, secretlane/classifier.go, router/table.go,    *)
(* router/intent.go), the local answer, the backstop of the forward proxy  *)
(* and the widening of a task's lane (secretlane/router.go), and the       *)
(* reader with the actor it seeds (reader/reader.go, actor_seed.go).       *)
(*                                                                         *)
(* A text is a class: "rule" holds an IBAN, a card number, a listed word   *)
(* or the like, "model" is secret in words only, "plain" is neither.       *)
(***************************************************************************)
EXTENDS Integers

CONSTANTS
    LaneTasks,
    Escalations,  \* calls of Escalate in flight
    Reads,        \* calls of Runner.Run
    DefaultModel  \* cfg.DefaultModel

ASSUME LaneAssumption ==
    DefaultModel \in {"opus", "sonnet"} /\ LaneTasks \cap Reads = {}

VARIABLES
    prompt,   \* the class of a task's prompt, or of the content to read
    lanePc,   \* where handleTask is
    laneRow,  \* tasks.lane and tasks.secret_category
    reached,  \* history: the models that were given the text
    esc,      \* where an Escalate is, and what it has read
    reads,    \* where a Run is
    seeds     \* the two rows of the actor a read has seeded

laneVars == <<prompt, lanePc, laneRow, reached, esc, reads, seeds>>

Texts == {"rule", "model", "plain"}
NoRow == [lane |-> "none", category |-> "none"]

LaneInit ==
    /\ prompt \in [LaneTasks \cup Reads -> Texts]
    /\ lanePc = [t \in LaneTasks |-> "new"]
    /\ laneRow = [t \in LaneTasks |-> NoRow]
    /\ reached = [x \in LaneTasks \cup Reads |-> {}]
    /\ esc = [e \in Escalations |-> [pc |-> "idle"]]
    /\ reads = [r \in Reads |-> [pc |-> "new"]]
    /\ seeds = [r \in Reads |-> {}]

----------------------------------------------------------------------------
(* Classification.                                                         *)

\* classifyDeterministic.
RuleMatches(text) == text = "rule"

\* What asking the local model may come to.
ModelAnswers == {"secret", "secret_uncategorised", "clean", "error", "invalid_category"}

\* Defect: an error of the local model leaves the text unclassified.
BugClassify(text, answer) ==
    [secret |-> RuleMatches(text) \/ answer \in {"secret", "secret_uncategorised"},
     category |-> "known"]

\* Classifier.Classify: a match of the rules is final, no answer is a yes.
ClassifyText(text, answer) ==
    [secret   |-> RuleMatches(text) \/ answer # "clean",
     category |-> CASE RuleMatches(text) \/ answer = "secret" -> "known"
                    [] ~ RuleMatches(text) /\ answer \in {"clean", "secret_uncategorised"} -> "none"
                    [] OTHER -> "unknown"]

----------------------------------------------------------------------------
(* Routing.                                                                *)

\* baseRowFor; "" stands for the local model.
BaseRow(intent) ==
    CASE intent \in {"plan", "code_multi_file", "hard_exec"} -> "opus"
      [] intent \in {"subagent_exec", "fanout"} -> "sonnet"
      [] intent \in {"extract", "writeback", "reader"} -> "haiku"
      [] intent \in {"route", "classify"} -> "local"
      [] OTHER -> DefaultModel

Downgraded(model) ==
    CASE model = "opus" -> "sonnet" [] model = "sonnet" -> "local" [] OTHER -> model

\* SelectModel: the pin, then the user's opt-in, then the table.
SelectModel(lane, intent, deep, downgraded) ==
    CASE lane = "secret" -> "local"
      [] lane # "secret" /\ deep -> "fable"
      [] OTHER -> IF downgraded THEN Downgraded(BaseRow(intent)) ELSE BaseRow(intent)

\* ClassifyIntent, with the intent the caller states.
ClassifyIntent == "chat"

\* handleTask's two branches to the local answer.
GoesLocal(lane, deep, downgraded) ==
    \/ lane = "secret"
    \/ SelectModel(lane, ClassifyIntent, deep, downgraded) = "local"

\* Defect: every task is given a category.
BugNewRow(lane) == [lane |-> lane, category |-> "known"]

NewRow(lane) == [lane |-> lane, category |-> IF lane = "secret" THEN "known" ELSE "none"]

\* handleTask up to the inserted row; the prompt of a user is judged by the
\* rules alone.
HandleTask(t) ==
    /\ lanePc[t] = "new"
    /\ \E deep, downgraded, stored \in BOOLEAN :
         LET lane == IF RuleMatches(prompt[t]) THEN "secret" ELSE "normal"
         IN IF stored
            THEN /\ laneRow' = [laneRow EXCEPT ![t] = NewRow(lane)]
                 /\ lanePc' = [lanePc EXCEPT ![t] =
                      IF GoesLocal(lane, deep, downgraded) THEN "local" ELSE "cloud"]
            ELSE lanePc' = [lanePc EXCEPT ![t] = "over"] /\ UNCHANGED laneRow
    /\ UNCHANGED <<prompt, reached, esc, reads, seeds>>

\* Defect: a local model that does not answer is replaced by the cloud's.
BugAfterLocal(answered) == IF answered THEN "over" ELSE "cloud"

\* An error is told to the user.
AfterLocal(answered) == "over"

\* handleSecretLaneTask and finishSecretLaneTask; no answerer, no call.
AnswerLocally(t) ==
    /\ lanePc[t] = "local"
    /\ \E called, answered \in BOOLEAN :
         /\ answered => called
         /\ reached' = [reached EXCEPT ![t] = IF called THEN @ \cup {"local"} ELSE @]
         /\ lanePc' = [lanePc EXCEPT ![t] = AfterLocal(answered)]
    /\ UNCHANGED <<prompt, laneRow, esc, reads, seeds>>

\* Defect: a row that cannot be read does not stop the call.
BugBackstopBlocks(t, found) == found /\ laneRow[t].lane = "secret"

\* NewProxyBackstopHook, asked for every call.
BackstopBlocks(t, found) == ~ found \/ laneRow[t].lane = "secret"

\* A model call of the task's worker, or the last one.
ModelCall(t) ==
    /\ lanePc[t] = "cloud"
    /\ \E found, last \in BOOLEAN :
         /\ reached' = [reached EXCEPT ![t] =
              IF BackstopBlocks(t, found) THEN @ ELSE @ \cup {"cloud"}]
         /\ lanePc' = [lanePc EXCEPT ![t] = IF last THEN "over" ELSE @]
    /\ UNCHANGED <<prompt, laneRow, esc, reads, seeds>>

----------------------------------------------------------------------------
(* Escalate: content that a task meets later.  Two statements, and other   *)
(* calls between them.                                                     *)

\* A row that cannot be read is taken for one without a lane.
EscalateReads(e) ==
    /\ esc[e].pc = "idle"
    /\ \E t \in LaneTasks, text \in Texts, answer \in ModelAnswers, found \in BOOLEAN :
         /\ laneRow[t] # NoRow
         /\ esc' = [esc EXCEPT ![e] =
              [pc |-> "read", task |-> t, verdict |-> ClassifyText(text, answer),
               saw |-> IF found THEN laneRow[t] ELSE NoRow]]
    /\ UNCHANGED <<prompt, lanePc, laneRow, reached, reads, seeds>>

\* Defect: the lane is this text's alone.
BugWidened(saw, verdict) ==
    [lane |-> IF verdict.secret THEN "secret" ELSE "normal", category |-> verdict.category]

\* Secret as soon as either is; a known category is not lost to "none".
Widened(saw, verdict) ==
    LET mine == IF verdict.secret THEN verdict.category ELSE "none"
    IN [lane     |-> IF verdict.secret \/ saw.lane = "secret" THEN "secret" ELSE "normal",
        category |-> IF saw.lane = "secret" /\ mine = "none" THEN saw.category ELSE mine]

EscalateWrites(e) ==
    /\ esc[e].pc = "read"
    /\ laneRow' = [laneRow EXCEPT ![esc[e].task] = Widened(esc[e].saw, esc[e].verdict)]
    /\ esc' = [esc EXCEPT ![e] = [pc |-> "done"]]
    /\ UNCHANGED <<prompt, lanePc, reached, reads, seeds>>

----------------------------------------------------------------------------
(* The reader and the actor.                                               *)

\* Run's verdict on the raw content.
ReaderClassify(r) ==
    /\ reads[r].pc = "new"
    /\ \E answer \in ModelAnswers :
         reads' = [reads EXCEPT ![r] =
           [pc |-> IF ClassifyText(prompt[r], answer).secret THEN "local" ELSE "cloud",
            cleared |-> answer = "clean"]]
    /\ UNCHANGED <<prompt, lanePc, laneRow, reached, esc, seeds>>

\* runLocal and runCloud: the model's output, or an error and no other try.
ReaderRun(r) ==
    /\ reads[r].pc \in {"local", "cloud"}
    /\ reached' = [reached EXCEPT ![r] = @ \cup {reads[r].pc}]
    /\ \E out \in {"wellformed", "malformed", "failed"} :
         reads' = [reads EXCEPT ![r].pc = out]
    /\ UNCHANGED <<prompt, lanePc, laneRow, esc, seeds>>

\* The schema's validator; the raw output is dropped if it is refused.
Validated(r) == reads[r].pc = "wellformed"

\* Defect: the statements are not in one transaction.
BugCommitted(done, ok) == done

\* A transaction's rows are there when all of it succeeds.
Committed(done, ok) == IF ok THEN done ELSE {}

\* Spawn: the actor's task and its clean session, some of the statements done.
SpawnActor(r) ==
    /\ Validated(r)
    /\ \E done \in {{}, {"task"}, {"task", "clean"}}, commits \in BOOLEAN :
         /\ seeds' = [seeds EXCEPT ![r] =
              Committed(done, done = {"task", "clean"} /\ commits)]
         /\ reads' = [reads EXCEPT ![r].pc = "over"]
    /\ UNCHANGED <<prompt, lanePc, laneRow, reached, esc>>

LaneNext ==
    \/ \E t \in LaneTasks : HandleTask(t) \/ AnswerLocally(t) \/ ModelCall(t)
    \/ \E e \in Escalations : EscalateReads(e) \/ EscalateWrites(e)

ReaderNext == \E r \in Reads : ReaderClassify(r) \/ ReaderRun(r) \/ SpawnActor(r)

----------------------------------------------------------------------------

LaneTypeOK ==
    /\ lanePc \in [LaneTasks -> {"new", "local", "cloud", "over"}]
    /\ \A t \in LaneTasks :
         /\ laneRow[t].lane \in {"none", "normal", "secret"}
         /\ laneRow[t].lane # "secret" => laneRow[t].category = "none"

(* A text the rules recognise is given to no cloud model, as a prompt or   *)
(* to be read, whatever the user's opt-in and the budget say; content from *)
(* outside goes there only if the local model has answered that it may.    *)
SecretsStayLocal ==
    /\ \A x \in LaneTasks \cup Reads : "cloud" \in reached[x] => prompt[x] # "rule"
    /\ \A r \in Reads : "cloud" \in reached[r] => reads[r].cleared

(* A text given to the local model is not sent out afterwards: a model     *)
(* that is down or fails is reported, never replaced.                      *)
NoCloudFallback == \A x \in LaneTasks \cup Reads : reached[x] # {"local", "cloud"}

(* Of the rows of an actor, its task and its clean session, there are both *)
(* or none, wherever the seeding fails.                                    *)
SeedsAreWhole == \A r \in Reads : seeds[r] \in {{}, {"task", "clean"}}

(* The lane of a task only widens, but for an Escalate whose own read came *)
(* before another's write or failed.                                       *)
LaneOnlyWidens ==
    [][\A t \in LaneTasks :
         laneRow[t].lane = "secret" /\ laneRow'[t].lane # "secret" =>
           \E e \in Escalations :
             esc[e].pc = "read" /\ esc[e].task = t /\ esc[e].saw.lane # "secret"]_laneVars

(* From the moment a running task's lane is secret none of its calls goes  *)
(* out, also when the row cannot be read.                                  *)
BlockedOnceSecret ==
    [][\A t \in LaneTasks :
         laneRow[t].lane = "secret" /\ "cloud" \in reached'[t] => "cloud" \in reached[t]]_laneVars

\* The lane's promise, with local models that fail, rows half made and two
\* widenings at once: a secret text is seen by no cloud model, a lane never
\* narrows, and once it is secret the proxy lets nothing more through.
SecretsKeepTheirLane ==
    /\ [](LaneTypeOK /\ SecretsStayLocal /\ NoCloudFallback /\ SeedsAreWhole)
    /\ LaneOnlyWidens /\ BlockedOnceSecret
=============================================================================
