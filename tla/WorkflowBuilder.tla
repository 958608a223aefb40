-------------------------- MODULE WorkflowBuilder --------------------------
(***************************************************************************)
(* The workflow builder page around its form: which workflow the form is    *)
(* editing, the drafts it keeps in the browser's storage, saving, the row   *)
(* buttons, the reloads of the list they cause, and the page opened from a  *)
(* template link.  What the form holds is one number, new for every edit;   *)
(* 0 is the blank form.                                                     *)
(***************************************************************************)
EXTENDS Naturals, FiniteSets

CONSTANTS
  Workflow,      \* workflows, stored or still to be created
  Existing,      \* those stored at the beginning
  MaxEdits,      \* bound: edits made in the form
  MaxLoads,      \* bound: times the page is opened
  MaxClicks,     \* bound: requests sent by the form and the row buttons
  MaxLate,       \* bound: requests given up that the server still works on
  NewWorkflow,   \* the form is not editing a stored workflow
  NoDraft

\* What the constants have to be.
WorkflowBuilderAssumption ==
  /\ Existing \subseteq Workflow
  /\ NewWorkflow \notin Workflow
  /\ MaxEdits \in Nat /\ MaxLoads \in Nat
  /\ MaxClicks \in Nat /\ MaxLate \in Nat

VARIABLES
  stored,        \* server: the workflows that exist, with what was saved last
  active,        \* server: those that are active
  deleted,       \* server: those there were
  late,          \* server: requests it works on though the page gave them up
  listed,        \* the list the page shows: a past value of stored
  template,      \* the workflowId of the page's address, or NewWorkflow
  editingId,     \* the workflow being edited, or NewWorkflow
  content,       \* what the form and the action drafts hold
  storage,       \* localStorage: the draft under each key, or NoDraft
  available,     \* the draft offered for recovery, with its key, or NoDraft
  call,          \* the requests of the mount, the form and the row buttons
  origin,        \* history: the workflow the content came from
  reviewed,      \* history: what a workflow held when its last activation read it
  crossed,       \* history: those saved and activated at the same time
  detached,      \* history: edits were made under a template link that was not loaded
  edits, loads, clicks

history == <<origin, reviewed, crossed, detached>>
counters == <<edits, loads, clicks>>
server == <<stored, active, deleted, late>>
judged == <<reviewed, crossed>>
form == <<editingId, content, available, origin, detached>>
vars == <<server, listed, template, editingId, content, storage, available,
          call, history, counters>>

Key == Workflow \cup {NewWorkflow}
Caller == {"mount", "form", "row"}
Sender == {"form", "row"}
Idle == [pc |-> "idle"]
Listing == [pc |-> "listing"]

\* The key of the draft: the workflow edited, else the one of the address.
draftStorageKey(id) == IF id # NewWorkflow THEN id ELSE template

loading == call["mount"].pc # "idle"
saving == call["form"].pc # "idle"

\* The section of presets, and that of a recovered draft, are shown.
presetsOffered == ~loading /\ DOMAIN listed = {} /\ editingId = NewWorkflow
draftOffered == available # NoDraft

\* The hydration effect, which runs when another workflow is edited: the draft
\* of that workflow or, with none to look for, the newest there is; which
\* one that is, is left open.
Recovered(store, id) ==
  LET k == draftStorageKey(id)
      others == {l \in Key : store[l] # NoDraft}
  IN IF store[k] # NoDraft THEN {[key |-> k, draft |-> store[k]]}
     ELSE IF id = NewWorkflow /\ template = NewWorkflow /\ others # {}
     THEN {[key |-> l, draft |-> store[l]] : l \in others}
     ELSE {NoDraft}

\* The form is given other contents, of workflow from, to edit workflow id.
SetForm(id, value, from, offer) ==
  /\ editingId' = id
  /\ content' = value
  /\ origin' = from
  /\ IF id = editingId THEN available' = offer
     ELSE available' \in Recovered(storage', id)

\* startEdit: the stored workflow replaces whatever the form held.
LoadWorkflow(w, list) ==
  SetForm(w, list[w], w, available)

----------------------------------------------------------------------------
(* Requests that change workflows, at the server. *)

\* Of workflow id, or of a new one; `was` and `held` are what the server reads.
Request(op, id, value, key) ==
  [pc |-> "sent", op |-> op, id |-> id, value |-> value, key |-> key,
   was |-> FALSE, held |-> 0]

\* get_workflow: whether it is active and what is in it, read without a lock.
HasRead(r) ==
  [r EXCEPT !.pc = "read", !.was = r.id \in active, !.held = stored[r.id]]

MayRead(r) == r.pc = "sent" /\ r.id \in DOMAIN stored

\* The workflows that a request which has read what it needs may write to.
Targets(r) ==
  IF r.pc = "read" THEN {r.id} \cap DOMAIN stored
  ELSE IF r.pc = "sent" /\ r.id = NewWorkflow
       THEN Workflow \ (DOMAIN stored \cup deleted) ELSE {}

\* Mutant of ActiveAfter: a saved workflow stays active.
ActiveThoughSaved(r, w) ==
  IF r.op = "activate" THEN active \cup {w}
  ELSE IF r.op \in {"run", "save"} THEN active ELSE active \ {w}

\* Every save sends is_active: false, but a commit writes the column only when
\* the request read another value: one that read FALSE leaves it alone.
ActiveAfter(r, w) ==
  IF r.op = "delete" THEN active \ {w}
  ELSE IF r.op = "activate" /\ ~r.was THEN active \cup {w}
  ELSE IF r.op \in {"save", "deactivate"} /\ r.was THEN active \ {w} ELSE active

\* What is saved replaces what the request read; what another save put there
\* in between stays as well, and nobody made what results.
Mixed == MaxEdits + 1
Saved(r, w) == IF w \in DOMAIN stored /\ stored[w] # r.held THEN Mixed ELSE r.value

StoredAfter(r, w) ==
  IF r.op = "save"
  THEN [x \in DOMAIN stored \cup {w} |-> IF x = w THEN Saved(r, w) ELSE stored[x]]
  ELSE [x \in DOMAIN stored \ (IF r.op = "delete" THEN {w} ELSE {}) |-> stored[x]]

Requests == {call[c] : c \in Sender} \cup late

\* A save and an activation of w: one commits while the other has read.
Crosses(r, w) ==
  \E q \in Requests :
    q.pc = "read" /\ q.id = w /\ {q.op, r.op} = {"save", "activate"}

Commit(r, w) ==
  /\ stored' = StoredAfter(r, w)
  /\ active' = ActiveAfter(r, w)
  /\ deleted' = IF r.op = "delete" THEN deleted \cup {w} ELSE deleted
  /\ reviewed' = IF r.op = "activate" THEN [reviewed EXCEPT ![w] = r.held]
                 ELSE reviewed
  /\ crossed' = IF Crosses(r, w) THEN crossed \cup {w} ELSE crossed

\* update_workflow and the requests of the row buttons.
ServeRead(c) ==
  /\ MayRead(call[c])
  /\ call' = [call EXCEPT ![c] = HasRead(@)]
  /\ UNCHANGED <<server, listed, template, storage, form, judged, counters>>

ServeSave ==
  /\ \E w \in Targets(call["form"]) : Commit(call["form"], w)
  /\ call' = [call EXCEPT !["form"].pc = "served"]
  /\ UNCHANGED <<late, listed, template, storage, form, counters>>

ServeRow ==
  /\ \E w \in Targets(call["row"]) : Commit(call["row"], w)
  /\ call' = [call EXCEPT !["row"] = Listing]
  /\ UNCHANGED <<late, listed, template, storage, form, counters>>

\* The page waits no longer for the requests of these callers: the server may
\* work on, or never have had them.
GivenUp(callers) ==
  \E some \in SUBSET {call[c] : c \in callers \cap Sender} :
    /\ \A r \in some : r.pc \in {"sent", "read"}
    /\ Cardinality(late \cup some) <= MaxLate
    /\ late' = late \cup some

\* What the server does with a request that nobody waits for.
LateRead(r) ==
  /\ MayRead(r)
  /\ late' = (late \ {r}) \cup {HasRead(r)}
  /\ UNCHANGED <<stored, active, deleted, listed, template, storage, form, call,
                 judged, counters>>

LateCommit(r) ==
  /\ \E w \in Targets(r) : Commit(r, w)
  /\ late' = late \ {r}
  /\ UNCHANGED <<listed, template, storage, form, call, counters>>

LateFails(r) ==
  /\ late' = late \ {r}
  /\ UNCHANGED <<stored, active, deleted, listed, template, storage, form, call,
                 judged, counters>>

----------------------------------------------------------------------------
(* The user. *)

\* A key typed, a choice made, an action added, moved or changed.
EditForm ==
  /\ edits < MaxEdits
  /\ edits' = edits + 1
  /\ content' = edits'
  /\ detached' = (detached \/ (editingId = NewWorkflow /\ template # NewWorkflow))
  /\ UNCHANGED <<server, listed, template, editingId, storage, available, call,
                 origin, judged, loads, clicks>>

\* A preset of the empty page.
applyQuickStartPreset ==
  /\ edits < MaxEdits
  /\ presetsOffered
  /\ edits' = edits + 1
  /\ content' = edits'
  /\ origin' = NewWorkflow
  /\ available' = NoDraft
  /\ detached' = (detached \/ template # NewWorkflow)
  /\ UNCHANGED <<server, listed, template, editingId, storage, call, judged,
                 loads, clicks>>

\* The timer of the last change: the form's draft is stored, unless the page
\* is loading or saving or still offers another draft.
Autosave ==
  LET key == draftStorageKey(editingId)
      draft == [workflow |-> key, value |-> content, origin |-> origin]
  IN /\ ~loading /\ ~saving
     /\ available = NoDraft
     /\ content # 0 \/ editingId # NewWorkflow
     /\ storage[key] # draft
     /\ storage' = [storage EXCEPT ![key] = draft]
     /\ UNCHANGED <<server, listed, template, form, call, judged, counters>>

\* Mutant of restoreAvailableDraft: the workflow of the draft is not restored.
restoreContentOnly ==
  /\ draftOffered
  /\ storage' = [storage EXCEPT ![available.key] = NoDraft]
  /\ SetForm(editingId, available.draft.value, available.draft.origin, NoDraft)
  /\ UNCHANGED <<server, listed, template, call, judged, detached, counters>>

restoreAvailableDraft ==
  /\ draftOffered
  /\ storage' = [storage EXCEPT ![available.key] = NoDraft]
  /\ SetForm(IF available.draft.workflow # NewWorkflow THEN available.draft.workflow
             ELSE editingId,
             available.draft.value, available.draft.origin, NoDraft)
  /\ UNCHANGED <<server, listed, template, call, judged, detached, counters>>

discardAvailableDraft ==
  /\ draftOffered
  /\ storage' = [storage EXCEPT ![available.key] = NoDraft]
  /\ available' = NoDraft
  /\ UNCHANGED <<server, listed, template, editingId, content, call, history,
                 counters>>

\* The Edit button of a row.
EditRow(w) ==
  /\ w \in DOMAIN listed
  /\ UNCHANGED <<server, listed, template, storage, call, judged, detached,
                 counters>>
  /\ LoadWorkflow(w, listed)

\* The New workflow button: the draft goes, the address stays.
StartNew ==
  /\ editingId # NewWorkflow
  /\ storage' = [storage EXCEPT ![draftStorageKey(editingId)] = NoDraft]
  /\ SetForm(NewWorkflow, 0, NewWorkflow, NoDraft)
  /\ UNCHANGED <<server, listed, template, call, judged, detached, counters>>

\* The Create Workflow button of an empty list: what the form holds stays.
CreateWorkflow ==
  /\ ~loading /\ DOMAIN listed = {}
  /\ editingId # NewWorkflow
  /\ detached' = (detached \/ template # NewWorkflow)
  /\ UNCHANGED <<server, listed, template, storage, call, judged, counters>>
  /\ SetForm(NewWorkflow, content, NewWorkflow, available)

\* The page is opened again, from the same address; requests in flight are
\* given up.
Reload ==
  /\ loads < MaxLoads
  /\ loads' = loads + 1
  /\ editingId' = NewWorkflow /\ content' = 0 /\ origin' = NewWorkflow
  /\ available' \in Recovered(storage, NewWorkflow)
  /\ listed' = <<>>
  /\ call' = [c \in Caller |-> IF c = "mount" THEN Listing ELSE Idle]
  /\ GivenUp(Caller)
  /\ UNCHANGED <<stored, active, deleted, template, storage, judged, detached,
                 edits, clicks>>

----------------------------------------------------------------------------
(* Saving. *)

\* The form is submitted: created when nothing is being edited.
handleSubmit ==
  /\ ~saving
  /\ clicks < MaxClicks
  /\ clicks' = clicks + 1
  /\ content # 0
  /\ call' = [call EXCEPT !["form"] =
       Request("save", editingId, content, draftStorageKey(editingId))]
  /\ UNCHANGED <<server, listed, template, storage, form, judged, edits, loads>>

\* The answer: the draft of the submitted form goes, and the form is emptied
\* whatever it holds by now.
SaveDone ==
  /\ call["form"].pc = "served"
  /\ storage' = [storage EXCEPT ![call["form"].key] = NoDraft]
  /\ SetForm(NewWorkflow, 0, NewWorkflow, NoDraft)
  /\ call' = [call EXCEPT !["form"] = Listing]
  /\ UNCHANGED <<server, listed, template, judged, detached, counters>>

----------------------------------------------------------------------------
(* Row buttons and the list. *)

\* runWorkflowAction; bound: one of its calls at a time.
ClickRow(w, op) ==
  /\ clicks < MaxClicks
  /\ call["row"].pc = "idle"
  /\ w \in DOMAIN listed
  /\ call' = [call EXCEPT !["row"] = Request(op, w, 0, w)]
  /\ clicks' = clicks + 1
  /\ UNCHANGED <<server, listed, template, storage, form, judged, edits, loads>>

\* getWorkflows is answered.
ServeList(c) ==
  /\ call[c].pc = "listing"
  /\ call' = [call EXCEPT ![c] = [pc |-> "listed", list |-> stored]]
  /\ UNCHANGED <<server, listed, template, storage, form, judged, counters>>

\* The list is shown.  Each time that happens the template effect loads the
\* workflow of the address into the form once more.
loadWorkflows(c) ==
  /\ call[c].pc = "listed"
  /\ listed' = call[c].list
  /\ call' = [call EXCEPT ![c] = Idle]
  /\ UNCHANGED <<server, template, storage, judged, detached, counters>>
  /\ IF template \in DOMAIN listed' THEN LoadWorkflow(template, listed')
     ELSE UNCHANGED <<editingId, content, available, origin>>

\* The server refuses the call, or there is no answer in time: an error is shown.
CallFails(c) ==
  /\ call[c].pc # "idle"
  /\ call' = [call EXCEPT ![c] = Idle]
  /\ GivenUp({c})
  /\ UNCHANGED <<stored, active, deleted, listed, template, storage, form, judged,
                 counters>>

----------------------------------------------------------------------------
Init ==
  /\ stored = [w \in Existing |-> 0]
  /\ active = {}
  /\ deleted = {}
  /\ late = {}
  /\ listed = <<>>
  /\ template \in Existing \cup {NewWorkflow}
  /\ editingId = NewWorkflow
  /\ content = 0
  /\ storage = [k \in Key |-> NoDraft]
  /\ available = NoDraft
  /\ call = [c \in Caller |-> IF c = "mount" THEN Listing ELSE Idle]
  /\ origin = NewWorkflow
  /\ reviewed = [w \in Workflow |-> 0]
  /\ crossed = {}
  /\ detached = FALSE
  /\ edits = 0 /\ loads = 1 /\ clicks = 0

Next ==
  \/ EditForm
  \/ applyQuickStartPreset
  \/ Autosave
  \/ restoreAvailableDraft
  \/ discardAvailableDraft
  \/ StartNew
  \/ CreateWorkflow
  \/ Reload
  \/ handleSubmit
  \/ \E c \in Sender : ServeRead(c)
  \/ ServeSave
  \/ SaveDone
  \/ \E w \in Workflow :
       \/ EditRow(w)
       \/ \E op \in {"activate", "deactivate", "run", "delete"} : ClickRow(w, op)
  \/ ServeRow
  \/ \E c \in Caller : ServeList(c) \/ loadWorkflows(c) \/ CallFails(c)
  \/ \E r \in late : LateRead(r) \/ LateCommit(r) \/ LateFails(r)

Spec == Init /\ [][Next]_vars

----------------------------------------------------------------------------
(* Properties. *)

\* An update goes to the workflow its contents came from, what was begun blank
\* creates one, and a draft is kept under the workflow it is a draft of, through
\* recovery, reloads, saves and template links; only what is typed under a
\* template link whose workflow is not loaded, or no longer, is kept under that
\* workflow's key.
UpdatesGoHome ==
  ~detached =>
    /\ origin = editingId
    /\ \A k \in Key : storage[k] # NoDraft => storage[k].origin = k

\* "No automation runs until you review, save, test, and activate it": what is
\* active is what the workflow held when it was activated, whatever was saved,
\* switched off, deleted or given up meanwhile; but not when a save and an
\* activation of the workflow were at the server at the same time.
ActiveIsReviewed ==
  \A w \in active \ crossed : w \in DOMAIN stored /\ stored[w] = reviewed[w]
=============================================================================
