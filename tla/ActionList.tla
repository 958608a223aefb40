----------------------------- MODULE ActionList -----------------------------
(***************************************************************************)
(* The action editor of the workflow builder page: the list of action       *)
(* drafts, the one form that adds to it and edits it by index, the setup    *)
(* panel computed from it, and the translation to and from the actions the  *)
(* API stores, which the server validates on activation.  A setting is      *)
(* "set" (a string with something in it) or "blank".  A branch of a         *)
(* condition is the list of all actions in it, those in the branches of its *)
(* conditions included: the editor adds to a branch and never looks inside. *)
(***************************************************************************)
EXTENDS Naturals, Sequences, SequencesExt, FiniteSets

CONSTANTS
  Type,        \* the action types in play
  Stored,      \* the action lists of stored workflows
  MaxActions   \* bound: actions added to a list and its branches

\* What the constants have to be: the stored lists are lists of actions in play.
ActionListAssumption ==
  /\ MaxActions \in Nat
  /\ \A actions \in Stored : actions \in Seq(Range(actions))
  /\ \A actions \in Stored : \A a \in Range(actions) : a.type \in Type

VARIABLES
  drafts,      \* the action drafts
  form,        \* the action form: a type and the value of every field
  editing,     \* editingActionIndex + 1, 0 when no action is being edited
  crashed,     \* an exception in a state updater took the page down
  moved,       \* history: an action was moved since the edit was opened
  touched      \* history: the form was changed since the edit was opened

vars == <<drafts, form, editing, crashed, moved, touched>>
history == <<moved, touched>>

HasValue(config, k) == k \in DOMAIN config /\ config[k] = "set"
----------------------------------------------------------------------------
(* Two lists of what an action needs, one in the page and one in the server. *)

\* The page: the types it has a requirement for, and when that is complete.
Asked == {"SLACK_SEND_MESSAGE", "GOOGLE_SHEETS_APPEND", "SEND_EMAIL",
          "SEND_WEBHOOK", "OPENAI_TEXT_GENERATE"}

\* Mutant of complete: either of Slack's settings completes it.
completeEither(d) ==
  LET has(k) == HasValue(d.config, k) IN
  d.type = "SLACK_SEND_MESSAGE" =>
    has("channel") \/ has("channel_id") \/ has("message") \/ has("text")

complete(d) ==
  LET has(k) == HasValue(d.config, k) IN
  /\ d.type = "SLACK_SEND_MESSAGE" =>
       /\ has("channel") \/ has("channel_id")
       /\ has("message") \/ has("text")
  /\ d.type = "GOOGLE_SHEETS_APPEND" => has("spreadsheet_id") /\ has("sheet_name")
  /\ d.type = "SEND_EMAIL" => has("to") /\ has("subject") /\ has("body")
  /\ d.type = "SEND_WEBHOOK" => has("url")
  /\ d.type = "OPENAI_TEXT_GENERATE" => has("prompt") /\ has("model")

\* The panel: for each action that needs settings, whether it has them.
setupRequirements ==
  [i \in {j \in DOMAIN drafts : drafts[j].type \in Asked} |-> complete(drafts[i])]

missingSetup == {i \in DOMAIN setupRequirements : ~setupRequirements[i]}

\* The server: each setting a type requires, as the names it may be stored under.
Required(type) ==
  CASE type = "SLACK_SEND_MESSAGE" -> {{"channel", "channel_id"}, {"message", "text"}}
    [] type = "SEND_EMAIL" -> {{"to"}, {"subject"}, {"body"}}
    [] type \in {"SEND_WEBHOOK", "HTTP_REQUEST"} -> {{"url"}}
    [] type = "GOOGLE_SHEETS_APPEND" -> {{"spreadsheet_id"}, {"sheet_name"}}
    [] type = "OPENAI_TEXT_GENERATE" -> {{"prompt"}, {"model"}}
    [] OTHER -> {}

OwnIssues(a) ==
  {names \in Required(a.type) : \A k \in names : ~HasValue(a.config, k)}

\* What activation finds wrong with an action: its own settings and, whatever
\* the depth, those of the actions in the branches of a condition.
collect_action_configuration_issues(a) ==
  UNION {OwnIssues(b) :
    b \in {a} \cup (IF a.type = "CONDITION"
                    THEN Range(a.on_true) \cup Range(a.on_false) ELSE {})}

----------------------------------------------------------------------------
(* Between drafts and stored actions. *)

Draft(type, config) ==
  [type |-> type, config |-> config, trueBranch |-> <<>>, falseBranch |-> <<>>,
   opened |-> FALSE]

\* Only a condition keeps its branches.
serializeActionDraft(d) ==
  LET branch(actions) == IF d.type = "CONDITION" THEN actions ELSE <<>>
  IN [type |-> d.type, config |-> d.config,
      on_true |-> branch(d.trueBranch), on_false |-> branch(d.falseBranch)]

deserializeActionDraft(a) ==
  [type |-> a.type, config |-> a.config, opened |-> FALSE,
   trueBranch |-> a.on_true, falseBranch |-> a.on_false]

Serialized(ds) == [i \in DOMAIN ds |-> serializeActionDraft(ds[i])]
Deserialized(as) == [i \in DOMAIN as |-> deserializeActionDraft(as[i])]

----------------------------------------------------------------------------
(* The form. *)

\* The settings actionConfig writes for a type.
Written(type) ==
  CASE type = "SLACK_SEND_MESSAGE" -> {"channel", "message"}
    [] type = "GOOGLE_SHEETS_APPEND" -> {"spreadsheet_id", "sheet_name"}
    [] type = "SEND_EMAIL" -> {"to", "subject", "body"}
    [] type = "SEND_WEBHOOK" -> {"url"}
    [] type = "OPENAI_TEXT_GENERATE" -> {"prompt", "model"}
    [] type = "WAIT" -> {"seconds"}
    [] type \in {"CONDITION", "CREATE_LEAD"} -> {}
    [] OTHER -> {"action"}

\* The fields shown for a type: three types have none for what they write.
Shown(type) ==
  IF type \in {"TAG_LEAD", "UPDATE_LEAD", "HTTP_REQUEST"} THEN {} ELSE Written(type)

Field == UNION {Written(type) : type \in Type \cup {"ADD_AUDIT_LOG"}}

blankForm ==
  [type |-> "ADD_AUDIT_LOG",
   value |-> [k \in Field |-> IF k \in {"url", "spreadsheet_id", "channel"}
                              THEN "blank" ELSE "set"]]

\* An empty sheet name or model is replaced by a default.
actionConfig ==
  [k \in Written(form.type) |-> IF k \in {"sheet_name", "model"} THEN "set"
                              ELSE form.value[k]]

\* Number(waitSeconds) is not an integer between 1 and 30.
BadWait == form.type = "WAIT" /\ form.value["seconds"] = "blank"

\* Native validation: the model and Slack's fields may be empty.
FormValid ==
  \A k \in Shown(form.type) \ {"channel", "message", "model"} : form.value[k] = "set"

\* Opening an action fills the form; a field the action does not have keeps
\* what the form held before, except the Slack channel.
FormOf(d, other) ==
  LET first(k, l, v) == IF k \in DOMAIN d.config THEN d.config[k]
                        ELSE IF l \in DOMAIN d.config THEN d.config[l] ELSE v
  IN [type |-> d.type,
      value |-> [k \in Field |->
        CASE k = "channel" -> first("channel", "channel_id", "blank")
          [] k = "message" -> first("message", "text", other.value[k])
          [] OTHER -> first(k, k, other.value[k])]]

ChooseType(type) ==
  /\ form.type # type
  /\ form' = [form EXCEPT !.type = type]
  /\ touched' = TRUE
  /\ UNCHANGED <<drafts, editing, crashed, moved>>

TypeField(k, v) ==
  /\ k \in Shown(form.type)
  /\ form.value[k] # v
  /\ form' = [form EXCEPT !.value[k] = v]
  /\ touched' = TRUE
  /\ UNCHANGED <<drafts, editing, crashed, moved>>

----------------------------------------------------------------------------
(* The list. *)

Size == FoldSeq(LAMBDA d, n : n + 1 + Len(d.trueBranch) + Len(d.falseBranch),
                0, drafts)

addCurrentActionDraft ==
  /\ Size < MaxActions
  /\ form.type = "GOOGLE_SHEETS_APPEND" => form.value["spreadsheet_id"] = "set"
  /\ crashed' = BadWait
  /\ drafts' = IF BadWait THEN drafts
               ELSE Append(drafts, Draft(form.type, actionConfig))
  /\ UNCHANGED <<form, editing, history>>

addBranchAction(i, branch) ==
  /\ drafts[i].type = "CONDITION"
  /\ Size < MaxActions
  /\ crashed' = BadWait
  /\ drafts' = IF BadWait THEN drafts
               ELSE [drafts EXCEPT ![i][branch] =
                       Append(@, [type |-> form.type, config |-> actionConfig])]
  /\ UNCHANGED <<form, editing, history>>

\* The arrows swap two actions and leave editingActionIndex alone.
Swap(i, j) ==
  /\ {i, j} \subseteq DOMAIN drafts
  /\ drafts' = [drafts EXCEPT ![i] = drafts[j], ![j] = drafts[i]]
  /\ moved' = TRUE
  /\ UNCHANGED <<form, editing, crashed, touched>>

moveActionUp(i) == Swap(i, i - 1)
moveActionDown(i) == Swap(i, i + 1)

\* Mutant of editActionDraft: a channel ID is not taken for the channel.
editIgnoresChannelId(i) ==
  /\ editing' = i
  /\ form' = [FormOf(drafts[i], form) EXCEPT
                !.value = [k \in Field |->
                  IF k \in DOMAIN drafts[i].config THEN drafts[i].config[k]
                  ELSE form.value[k]]]
  /\ drafts' = [j \in DOMAIN drafts |-> [drafts[j] EXCEPT !.opened = j = i]]
  /\ moved' = FALSE
  /\ touched' = FALSE
  /\ UNCHANGED crashed

editActionDraft(i) ==
  /\ editing' = i
  /\ form' = FormOf(drafts[i], form)
  /\ drafts' = [j \in DOMAIN drafts |-> [drafts[j] EXCEPT !.opened = j = i]]
  /\ moved' = FALSE
  /\ touched' = FALSE
  /\ UNCHANGED crashed

\* Mutant of removeActionDraft: the index of the edit is not shifted.
removeKeepsIndex(i) ==
  /\ drafts' = RemoveAt(drafts, i)
  /\ editing' = IF editing = i THEN 0 ELSE editing
  /\ UNCHANGED <<form, crashed, history>>

removeActionDraft(i) ==
  /\ drafts' = RemoveAt(drafts, i)
  /\ editing' = IF editing = i THEN 0
                ELSE IF editing > i THEN editing - 1 ELSE editing
  /\ UNCHANGED <<form, crashed, history>>

clearActionDrafts ==
  /\ drafts # <<>>
  /\ drafts' = <<>>
  /\ editing' = 0
  /\ UNCHANGED <<form, crashed, history>>

updateCurrentActionDraft ==
  /\ editing # 0
  /\ form.type = "GOOGLE_SHEETS_APPEND" => form.value["spreadsheet_id"] = "set"
  /\ form.type = "SLACK_SEND_MESSAGE" => form.value["channel"] = "set"
  /\ form.type = "SEND_WEBHOOK" => form.value["url"] = "set"
  /\ crashed' = BadWait
  /\ drafts' = IF BadWait THEN drafts
               ELSE [drafts EXCEPT ![editing].type = form.type,
                                   ![editing].config = actionConfig]
  /\ editing' = 0
  /\ UNCHANGED <<form, history>>

cancelActionEdit ==
  /\ editing' = 0
  /\ UNCHANGED <<drafts, form, crashed, history>>

----------------------------------------------------------------------------
(* Loading and saving the list. *)

\* What is sent: with no drafts the form itself is the workflow's one action.
payload == IF drafts # <<>> THEN Serialized(drafts)
           ELSE <<serializeActionDraft(Draft(form.type, actionConfig))>>

handleSubmit ==
  /\ FormValid
  /\ drafts' = <<>>
  /\ editing' = 0
  /\ form' = blankForm
  /\ UNCHANGED <<crashed, history>>

\* A stored workflow is loaded; the form takes what its first action has, if any.
startEdit(actions) ==
  /\ drafts' = Deserialized(actions)
  /\ editing' = 0
  /\ form' = IF actions = <<>> THEN blankForm ELSE FormOf(Head(drafts'), blankForm)
  /\ UNCHANGED <<crashed, history>>

\* The presets of the empty page, of the types in play, as their lists are stored.
quickStartPresets ==
  LET action(type, config) ==
        [type |-> type, config |-> config, on_true |-> <<>>, on_false |-> <<>>]
      slack == action("SLACK_SEND_MESSAGE", [channel |-> "blank", message |-> "set"])
      all == {<<slack>>,
              <<action("GOOGLE_SHEETS_APPEND",
                       [spreadsheet_id |-> "blank", sheet_name |-> "set"])>>,
              <<action("OPENAI_TEXT_GENERATE", [prompt |-> "set", model |-> "set"]), slack>>,
              <<action("CREATE_LEAD", <<>>), action("ADD_AUDIT_LOG", [action |-> "set"])>>}
  IN {p \in all : \A i \in DOMAIN p : p[i].type \in Type}

\* A preset fills list and form the way a stored workflow does.
applyQuickStartPreset(preset) == startEdit(preset)

----------------------------------------------------------------------------
(* The buttons. *)

\* Those of an action in the list.
ActionRow(i) ==
  \/ \E branch \in {"trueBranch", "falseBranch"} : addBranchAction(i, branch)
  \/ moveActionUp(i)
  \/ moveActionDown(i)
  \/ editActionDraft(i)
  \/ removeActionDraft(i)

\* Those under the list: an action is added, or the one being edited is updated.
EditorButtons ==
  \/ editing = 0 /\ addCurrentActionDraft
  \/ editing # 0 /\ (updateCurrentActionDraft \/ cancelActionEdit)

----------------------------------------------------------------------------
Init ==
  /\ drafts = <<>>
  /\ form = blankForm
  /\ editing = 0
  /\ crashed = FALSE
  /\ moved = FALSE
  /\ touched = FALSE

Next ==
  /\ ~crashed
  /\ \/ \E type \in Type : ChooseType(type)
     \/ \E k \in Field, v \in {"set", "blank"} : TypeField(k, v)
     \/ EditorButtons
     \/ clearActionDrafts
     \/ \E i \in DOMAIN drafts : ActionRow(i)
     \/ handleSubmit
     \/ \E preset \in quickStartPresets : applyQuickStartPreset(preset)
     \/ \E actions \in Stored : startEdit(actions)

Spec == Init /\ [][Next]_vars

----------------------------------------------------------------------------
(* Properties. *)

\* Update Action rewrites the action whose pencil was clicked, whatever was
\* added or removed since; only the arrows leave the index on another one.
EditTargetsOpened ==
  editing # 0 /\ ~moved => editing \in DOMAIN drafts /\ drafts[editing].opened

\* Reviewing a configured action and clicking Update Action without a change
\* leaves it configured, in whichever spelling the template had its settings; but
\* not one stored with a message and a text, of which the editor takes the first
\* and the panel accepts either.
ReviewKeepsSetup ==
  [][updateCurrentActionDraft /\ ~moved /\ ~touched /\ ~crashed'
       /\ ~{"message", "text"} \subseteq DOMAIN drafts[editing].config
       /\ editing \in DOMAIN setupRequirements /\ setupRequirements[editing]
     => setupRequirements'[editing]]_vars

\* Of the actions as they would be saved, activation refuses each one that the
\* panel lists as incomplete; the others that it refuses are HTTP requests and
\* conditions (for what is in their branches), about which the panel says nothing.
Refused ==
  {i \in DOMAIN payload : collect_action_configuration_issues(payload[i]) # {}}

SetupAgrees ==
  drafts # <<>> =>
    /\ missingSetup \subseteq Refused
    /\ \A i \in Refused \ missingSetup :
         drafts[i].type \in {"HTTP_REQUEST", "CONDITION"}
=============================================================================
