-------------------------- MODULE PageForms_proofs --------------------------
(***************************************************************************)
(* Proofs about the pages of the frontend that have a form: the billing     *)
(* page, campaigns, leads, accounts with their mailed links, and the         *)
(* workflow builder.                                                         *)
(***************************************************************************)
EXTENDS Pages_proofs

----------------------------------------------------------------------------
(* The billing page. *)

Begun == [mount : Nat \ {0}, plan : Plan, pc : {"sent", "created", "refused"}]

CheckoutTypes ==
  /\ mount \in Nat \ {0} /\ listener \in Nat
  /\ begun \subseteq Begun
  /\ overlay \in [pc : {"closed", "open", "paid"}, plan : Plan \cup {NoPlan}]

\* Whoever opened the overlay will be called when it is closed.
SomeoneListens == overlay.pc # "closed" => listener # 0

CheckoutInv ==
  which = "checkout" => CheckoutTypes /\ SomeoneListens /\ CO!BusyForCause

LEMMA InitCheckout == Init => CheckoutInv
BY PageInit DEF CheckoutInv, CO!Init, CO!Closed, CheckoutTypes, SomeoneListens, CO!BusyForCause

\* Steps that leave the checkout alone: those of the loads and of the webhook.
LEMMA NoCheckout ==
  ASSUME CheckoutTypes, SomeoneListens, CO!BusyForCause,
         UNCHANGED <<checkoutPlan, mount, begun, overlay, listener>>
  PROVE  CheckoutTypes' /\ SomeoneListens' /\ CO!BusyForCause'
BY DEF CheckoutTypes, SomeoneListens, CO!BusyForCause

\* The checkouts being created.
LEMMA CheckoutGoes ==
  ASSUME CheckoutTypes, SomeoneListens, CO!BusyForCause, NEW b \in begun,
         CO!create_transaction(b) \/ CO!OpenOverlay(b) \/ CO!CheckoutFails(b)
  PROVE  CheckoutTypes' /\ SomeoneListens' /\ CO!BusyForCause'
<1>1. b \in Begun
  BY DEF CheckoutTypes
<1>2. CASE CO!create_transaction(b)
  <2>1. PICK pc \in {"created", "refused"} :
          /\ begun' = (begun \ {b}) \cup {[b EXCEPT !.pc = pc]}
          /\ UNCHANGED <<checkoutPlan, mount, overlay, listener>>
    BY <1>2 DEF CO!create_transaction, CO!page, CO!paddle
  <2>2. [b EXCEPT !.pc = pc] \in Begun /\ [b EXCEPT !.pc = pc].mount = b.mount
        /\ [b EXCEPT !.pc = pc].plan = b.plan
    BY <1>1 DEF Begun
  <2>. QED BY <2>1, <2>2 DEF CheckoutTypes, SomeoneListens, CO!BusyForCause
<1>3. CASE CO!OpenOverlay(b)
  <2>1. /\ overlay' = [pc |-> "open", plan |-> b.plan] /\ begun' = begun \ {b}
        /\ listener' = IF listener = 0 THEN b.mount ELSE listener
        /\ UNCHANGED <<checkoutPlan, mount>>
    BY <1>3 DEF CO!OpenOverlay, CO!page
  <2>. QED BY <1>1, <2>1 DEF Begun, CheckoutTypes, SomeoneListens, CO!BusyForCause
<1>4. CASE CO!CheckoutFails(b)
  BY <1>1, <1>4 DEF CO!CheckoutFails, CO!paddle, CheckoutTypes, SomeoneListens, CO!BusyForCause
<1>. QED BY <1>2, <1>3, <1>4

LEMMA NextCheckout == CheckoutInv /\ [Next]_vars => CheckoutInv'
<1>. SUFFICES ASSUME CheckoutTypes, SomeoneListens, CO!BusyForCause, [Next]_vars,
                     which = "checkout"
              PROVE  CheckoutTypes' /\ SomeoneListens' /\ CO!BusyForCause'
  BY PageStep DEF CheckoutInv
<1>. USE DEF CO!page, CO!paddle
<1>1. CASE UNCHANGED co
  BY <1>1, NoCheckout DEF co
<1>2. CASE \/ CO!Refresh \/ CO!Webhook \/ \E m \in timers : CO!ReloadAfterPayment(m)
           \/ \E l \in checkoutLoads : CO!ServeLoad(l) \/ CO!LoadDone(l)
  <2>1. UNCHANGED <<checkoutPlan, mount, begun, overlay, listener>>
    BY <1>2 DEF CO!Refresh, CO!Webhook, CO!ReloadAfterPayment, CO!loadSubscription,
                CO!ServeLoad, CO!LoadDone
  <2>. QED BY <2>1, NoCheckout
<1>3. ASSUME NEW plan \in Plan, CO!handleCheckout(plan)
      PROVE  CheckoutTypes' /\ SomeoneListens' /\ CO!BusyForCause'
  <2>. DEFINE b == [mount |-> mount, plan |-> plan, pc |-> "sent"]
  <2>1. /\ checkoutPlan' = plan /\ begun' = begun \cup {b}
        /\ UNCHANGED <<mount, overlay, listener>>
    BY <1>3 DEF CO!handleCheckout
  <2>2. b \in Begun /\ b.mount = mount' /\ b.plan = checkoutPlan' /\ b \in begun'
    BY <2>1 DEF CheckoutTypes, Begun
  <2>. HIDE DEF b
  <2>. QED BY <2>1, <2>2 DEF CheckoutTypes, SomeoneListens, CO!BusyForCause
<1>4. CASE CO!Pay
  BY <1>4 DEF CO!Pay, CheckoutTypes, SomeoneListens, CO!BusyForCause
<1>5. CASE CO!CloseOverlay
  BY <1>5 DEF CO!CloseOverlay, CO!Closed, CheckoutTypes, SomeoneListens, CO!BusyForCause
<1>6. ASSUME NEW again \in BOOLEAN, CO!Enter(again)
      PROVE  CheckoutTypes' /\ SomeoneListens' /\ CO!BusyForCause'
  BY <1>6 DEF CO!Enter, CheckoutTypes, SomeoneListens, CO!BusyForCause
<1>. QED BY <1>1, <1>2, <1>3, <1>4, <1>5, <1>6, CheckoutGoes, PageStep DEF CO!Next

\* The plans are disabled only while a checkout is on its way, for every number
\* of plans, mounts and loads: the overlay tells the mount it belongs to when it
\* is closed, and whatever cannot be opened tells the mount that asked.
THEOREM BusyEnds == Spec => []BusyForCause
<1>1. CheckoutInv => BusyForCause
  BY DEF CheckoutInv, BusyForCause
<1>. QED BY <1>1, InitCheckout, NextCheckout, PTL DEF Spec
----------------------------------------------------------------------------
(* The workflow builder. *)

BuilderTypes ==
  /\ editingId \in WB!Key /\ template \in WB!Key
  /\ storage = [k \in WB!Key |-> storage[k]]
  /\ detached \in BOOLEAN

\* A draft kept under a key says so, and that its contents are the key's unless
\* something was typed under a template link that was not loaded.
DraftOf(d, k) == d.workflow = k /\ (~detached => d.origin = k)

DraftsHome ==
  \A k \in WB!Key : storage[k] # NoDraft =>
    DraftOf(storage[k], k) /\ (k = NewWorkflow => template = NewWorkflow)

\* What is offered for recovery is a draft of its key, and the draft of a new
\* workflow is offered only to a form of a new one.
OfferHome ==
  available # NoDraft =>
    /\ available.key \in WB!Key
    /\ DraftOf(available.draft, available.key)
    /\ available.key = NewWorkflow => editingId = NewWorkflow /\ template = NewWorkflow

\* The form holds what came from the workflow it edits, and under a template
\* link that was not loaded nothing.
FormHome ==
  ~detached =>
    /\ origin = editingId
    /\ editingId = NewWorkflow /\ template # NewWorkflow => content = 0

BuilderHome == BuilderTypes /\ DraftsHome /\ OfferHome /\ FormHome

\* A request the server has yet to answer is one of the form or of a row button.
Asks(q) ==
  /\ q = [pc |-> q.pc, op |-> q.op, id |-> q.id, value |-> q.value, key |-> q.key,
          was |-> q.was, held |-> q.held]
  /\ q.op \in {"save", "activate", "deactivate", "run", "delete"}
  /\ q.id = NewWorkflow => q.op = "save"

\* What a request has read is still so, as far as it matters: an activation knows
\* the contents, and a save of an active workflow knows that it is active.
StillSo(q) ==
  /\ q.id \in DOMAIN stored \cup deleted
  /\ q.id \in DOMAIN stored \ crossed =>
       /\ q.op = "activate" => q.held = stored[q.id]
       /\ q.op = "save" /\ q.id \in builderActive => q.was

BuilderReviewed ==
  /\ call = [c \in WB!Caller |-> call[c]]
  /\ DOMAIN stored \subseteq Workflow
  /\ reviewed = [w \in Workflow |-> reviewed[w]]
  /\ builderActive \subseteq DOMAIN stored
  /\ DOMAIN stored \cap deleted = {}
  /\ \A q \in WB!Requests : /\ q.pc \in {"sent", "read"} => Asks(q)
                            /\ q.pc = "read" => StillSo(q)
  /\ \A w \in builderActive \ crossed : stored[w] = reviewed[w]

BuilderInv == which = "builder" => BuilderHome /\ BuilderReviewed

\* What the constants are.
LEMMA Keys == Existing \subseteq Workflow /\ NewWorkflow \notin Workflow
BY PagesAssumption DEF WB!WorkflowBuilderAssumption

LEMMA InitBuilder == Init => BuilderInv
BY PageInit, Keys DEF BuilderInv, BuilderHome, BuilderTypes, DraftsHome, OfferHome, FormHome,
  WB!Init, WB!Key, BuilderReviewed, WB!Requests, WB!Caller, WB!Sender, WB!Idle, WB!Listing

\* A draft dropped leaves the others where they are.
LEMMA Dropping ==
  ASSUME BuilderTypes, DraftsHome, NEW k, storage' = [storage EXCEPT ![k] = NoDraft],
         UNCHANGED <<template, detached>>
  PROVE  DraftsHome' /\ storage' = [l \in WB!Key |-> storage'[l]]
BY DEF BuilderTypes, DraftsHome, DraftOf, WB!Key

\* A draft kept is its key's.
LEMMA Keeping ==
  ASSUME BuilderTypes, DraftsHome, NEW k \in WB!Key, NEW d, DraftOf(d, k),
         k = NewWorkflow => template = NewWorkflow,
         storage' = [storage EXCEPT ![k] = d], UNCHANGED <<template, detached>>
  PROVE  DraftsHome' /\ storage' = [l \in WB!Key |-> storage'[l]]
BY DEF BuilderTypes, DraftsHome, DraftOf

\* What is offered to a form that turns to workflow id.
LEMMA Offering ==
  ASSUME NEW id \in WB!Key, template' = template, template \in WB!Key, DraftsHome',
         editingId' = id, available' \in WB!Recovered(storage', id)
  PROVE  OfferHome'
<1>. DEFINE k == WB!draftStorageKey(id)
<1>1. k \in WB!Key /\ (k = NewWorkflow => id = NewWorkflow /\ template = NewWorkflow)
  BY DEF WB!draftStorageKey
<1>2. SUFFICES ASSUME available' # NoDraft
               PROVE  /\ available'.key \in WB!Key
                      /\ DraftOf(available.draft, available.key)'
                      /\ available'.key = NewWorkflow =>
                           id = NewWorkflow /\ template = NewWorkflow
  BY DEF OfferHome
<1>3. PICK l \in WB!Key : /\ available' = [key |-> l, draft |-> storage'[l]]
                          /\ storage'[l] # NoDraft
                          /\ l = NewWorkflow => id = NewWorkflow /\ template = NewWorkflow
  <2>1. CASE storage'[k] # NoDraft
    BY <1>1, <1>2, <2>1 DEF WB!Recovered
  <2>2. CASE storage'[k] = NoDraft
    BY <1>1, <1>2, <2>2 DEF WB!Recovered
  <2>. QED BY <2>1, <2>2
<1>. QED BY <1>3 DEF DraftsHome, DraftOf

\* The form given contents of the workflow it turns to.
LEMMA Turning ==
  ASSUME BuilderHome, NEW id \in WB!Key, NEW value, NEW from, NEW offer,
         WB!SetForm(id, value, from, offer), ~detached' => from = id, DraftsHome',
         storage' = [l \in WB!Key |-> storage'[l]],
         template' = template, detached' \in BOOLEAN, detached => detached',
         offer = available \/ offer = NoDraft,
         ~detached' /\ id = NewWorkflow /\ template # NewWorkflow => value = 0
  PROVE  BuilderHome'
<1>1. OfferHome'
  <2>1. CASE id = editingId
    BY <2>1 DEF WB!SetForm, OfferHome, BuilderHome, DraftOf
  <2>2. CASE id # editingId
    BY <2>2, Offering DEF WB!SetForm, BuilderHome, BuilderTypes
  <2>. QED BY <2>1, <2>2
<1>. QED BY <1>1 DEF BuilderHome, BuilderTypes, FormHome, WB!SetForm

\* The steps of the user: nothing at the server changes.
LEMMA UserKeeps ==
  ASSUME BuilderHome,
         \/ WB!EditForm \/ WB!applyQuickStartPreset \/ WB!Autosave
         \/ WB!restoreAvailableDraft \/ WB!discardAvailableDraft
         \/ WB!StartNew \/ WB!CreateWorkflow \/ WB!Reload
         \/ \E w \in Workflow : WB!EditRow(w)
  PROVE  BuilderHome'
<1>. USE DEF WB!server, WB!history, WB!counters
<1>1. CASE WB!EditForm
  BY <1>1 DEF WB!EditForm, BuilderHome, BuilderTypes, DraftsHome, OfferHome, FormHome, DraftOf
<1>2. CASE WB!applyQuickStartPreset
  BY <1>2 DEF WB!applyQuickStartPreset, WB!presetsOffered, BuilderHome, BuilderTypes,
              DraftsHome, OfferHome, FormHome, DraftOf
<1>3. CASE WB!Autosave
  <2>. DEFINE key == WB!draftStorageKey(editingId)
              draft == [workflow |-> key, value |-> content, origin |-> origin]
  <2>1. /\ available = NoDraft /\ (content # 0 \/ editingId # NewWorkflow)
        /\ storage' = [storage EXCEPT ![key] = draft]
        /\ UNCHANGED <<template, editingId, content, available, origin,
                       detached>>
    BY <1>3 DEF WB!Autosave, WB!form
  <2>2. key \in WB!Key /\ (key = NewWorkflow => template = NewWorkflow)
    BY DEF WB!draftStorageKey, BuilderHome, BuilderTypes
  <2>3. ~detached => origin = key
    BY <2>1 DEF WB!draftStorageKey, BuilderHome, FormHome
  <2>4. DraftOf(draft, key)
    BY <2>3 DEF DraftOf
  <2>. HIDE DEF key, draft
  <2>5. DraftsHome' /\ storage' = [l \in WB!Key |-> storage'[l]]
    BY <2>1, <2>2, <2>4, Keeping DEF BuilderHome
  <2>. QED BY <2>1, <2>5 DEF BuilderHome, BuilderTypes, OfferHome, FormHome, DraftOf
<1>4. CASE WB!restoreAvailableDraft
  <2>1. PICK id \in WB!Key :
          /\ id = IF available.draft.workflow # NewWorkflow THEN available.draft.workflow
                  ELSE editingId
          /\ ~detached => available.draft.origin = id
          /\ id = NewWorkflow => template = NewWorkflow
    BY <1>4 DEF WB!restoreAvailableDraft, WB!draftOffered, BuilderHome, BuilderTypes, OfferHome,
                DraftOf
  <2>2. /\ storage' = [storage EXCEPT ![available.key] = NoDraft]
        /\ WB!SetForm(id, available.draft.value, available.draft.origin, NoDraft)
        /\ UNCHANGED <<template, detached>>
    BY <1>4, <2>1 DEF WB!restoreAvailableDraft
  <2>. QED BY <2>1, <2>2, Dropping, Turning DEF BuilderHome, BuilderTypes
<1>5. CASE WB!discardAvailableDraft
  <2>1. /\ storage' = [storage EXCEPT ![available.key] = NoDraft] /\ available' = NoDraft
        /\ UNCHANGED <<template, editingId, content, origin, detached>>
    BY <1>5 DEF WB!discardAvailableDraft
  <2>. QED BY <2>1, Dropping DEF BuilderHome, BuilderTypes, OfferHome, FormHome
<1>6. CASE WB!StartNew
  <2>1. PICK k : /\ storage' = [storage EXCEPT ![k] = NoDraft]
                 /\ WB!SetForm(NewWorkflow, 0, NewWorkflow, NoDraft)
                 /\ UNCHANGED <<template, detached>>
    BY <1>6 DEF WB!StartNew
  <2>2. NewWorkflow \in WB!Key
    BY DEF WB!Key
  <2>. QED BY <2>1, <2>2, Dropping, Turning DEF BuilderHome, BuilderTypes
<1>7. CASE WB!CreateWorkflow
  <2>1. /\ detached' = (detached \/ template # NewWorkflow)
        /\ WB!SetForm(NewWorkflow, content, NewWorkflow, available)
        /\ UNCHANGED <<template, storage>>
    BY <1>7 DEF WB!CreateWorkflow
  <2>2. NewWorkflow \in WB!Key
    BY DEF WB!Key
  <2>3. DraftsHome' /\ detached' \in BOOLEAN /\ (detached => detached')
    BY <2>1 DEF BuilderHome, BuilderTypes, DraftsHome, DraftOf
  <2>4. storage' = [l \in WB!Key |-> storage'[l]]
    BY <2>1 DEF BuilderHome, BuilderTypes
  <2>. QED BY <2>1, <2>2, <2>3, <2>4, Turning DEF BuilderHome, BuilderTypes
<1>8. CASE WB!Reload
  <2>1. /\ editingId' = NewWorkflow /\ content' = 0 /\ origin' = NewWorkflow
        /\ available' \in WB!Recovered(storage', NewWorkflow)
        /\ UNCHANGED <<template, storage, detached>>
    BY <1>8 DEF WB!Reload
  <2>2. NewWorkflow \in WB!Key
    BY DEF WB!Key
  <2>3. DraftsHome'
    BY <2>1 DEF BuilderHome, DraftsHome, DraftOf
  <2>4. OfferHome'
    BY <2>1, <2>2, <2>3, Offering DEF BuilderHome, BuilderTypes
  <2>. QED BY <2>1, <2>2, <2>3, <2>4 DEF BuilderHome, BuilderTypes, FormHome
<1>9. ASSUME NEW w \in Workflow, WB!EditRow(w)
      PROVE  BuilderHome'
  <2>1. /\ WB!SetForm(w, listed[w], w, available)
        /\ UNCHANGED <<template, storage, detached>>
    BY <1>9 DEF WB!EditRow, WB!LoadWorkflow
  <2>2. w \in WB!Key /\ w # NewWorkflow
    BY Keys DEF WB!Key
  <2>3. DraftsHome' /\ storage' = [l \in WB!Key |-> storage'[l]]
    BY <2>1 DEF BuilderHome, BuilderTypes, DraftsHome, DraftOf
  <2>. QED BY <2>1, <2>2, <2>3, Turning DEF BuilderHome, BuilderTypes
<1>. QED BY <1>1, <1>2, <1>3, <1>4, <1>5, <1>6, <1>7, <1>8, <1>9

\* The answers that change the form.
LEMMA AnswersKeep ==
  ASSUME BuilderHome, WB!SaveDone \/ \E c \in WB!Caller : WB!loadWorkflows(c)
  PROVE  BuilderHome'
<1>1. CASE WB!SaveDone
  <2>1. PICK k : /\ storage' = [storage EXCEPT ![k] = NoDraft]
                 /\ WB!SetForm(NewWorkflow, 0, NewWorkflow, NoDraft)
                 /\ UNCHANGED <<template, detached>>
    BY <1>1 DEF WB!SaveDone
  <2>2. NewWorkflow \in WB!Key
    BY DEF WB!Key
  <2>. QED BY <2>1, <2>2, Dropping, Turning DEF BuilderHome, BuilderTypes
<1>2. ASSUME NEW c \in WB!Caller, WB!loadWorkflows(c)
      PROVE  BuilderHome'
  <2>1. UNCHANGED <<template, storage, detached>>
    BY <1>2 DEF WB!loadWorkflows
  <2>2. DraftsHome' /\ storage' = [l \in WB!Key |-> storage'[l]]
    BY <2>1 DEF BuilderHome, BuilderTypes, DraftsHome, DraftOf
  <2>3. CASE WB!SetForm(template, listed'[template], template, available)
    BY <2>1, <2>2, <2>3, Turning DEF BuilderHome, BuilderTypes
  <2>4. CASE UNCHANGED <<editingId, content, available, origin>>
    BY <2>1, <2>2, <2>4 DEF BuilderHome, BuilderTypes, OfferHome, FormHome, DraftOf
  <2>. QED BY <1>2, <2>3, <2>4 DEF WB!loadWorkflows, WB!LoadWorkflow
<1>. QED BY <1>1, <1>2

\* Sending, reading, giving up and refusing change no workflow.
LEMMA AskingKeeps ==
  ASSUME BuilderReviewed, UNCHANGED <<stored, builderActive, deleted, reviewed, crossed>>,
         call' = [c \in WB!Caller |-> call'[c]],
         \A q \in WB!Requests' : q.pc \in {"sent", "read"} =>
           \/ q \in WB!Requests
           \/ q.pc = "sent" /\ Asks(q)
           \/ \E p \in WB!Requests : WB!MayRead(p) /\ q = WB!HasRead(p)
  PROVE  BuilderReviewed'
<1>1. ASSUME NEW q \in WB!Requests', q.pc \in {"sent", "read"}
      PROVE  Asks(q) /\ (q.pc = "read" => StillSo(q)')
  <2>1. CASE q \in WB!Requests
    BY <1>1, <2>1 DEF BuilderReviewed, StillSo
  <2>2. CASE q.pc = "sent" /\ Asks(q)
    BY <2>2
  <2>3. ASSUME NEW p \in WB!Requests, WB!MayRead(p), q = WB!HasRead(p)
        PROVE  Asks(q) /\ StillSo(q)'
    <3>1. Asks(p) /\ p.id \in DOMAIN stored
      BY <2>3 DEF WB!MayRead, BuilderReviewed
    <3>2. q = [pc |-> "read", op |-> p.op, id |-> p.id, value |-> p.value, key |-> p.key,
               was |-> p.id \in builderActive, held |-> stored[p.id]]
      BY <2>3, <3>1 DEF WB!HasRead, Asks
    <3>. QED BY <3>1, <3>2 DEF Asks, StillSo
  <2>. QED BY <1>1, <2>1, <2>2, <2>3
<1>. QED BY <1>1 DEF BuilderReviewed

\* A commit writes what the request wants, unless it read that already.
LEMMA WritingKeepsReview ==
  ASSUME BuilderReviewed, NEW r \in WB!Requests, NEW w \in WB!Targets(r), WB!Commit(r, w),
         call' = [c \in WB!Caller |-> call'[c]],
         \A q \in WB!Requests' : q.pc \in {"sent", "read"} => q \in WB!Requests
  PROVE  BuilderReviewed'
<1>1. /\ r.pc \in {"sent", "read"} /\ Asks(r)
      /\ w \in Workflow
      /\ \/ r.pc = "read" /\ w = r.id /\ w \in DOMAIN stored /\ StillSo(r)
         \/ r.op = "save" /\ w \notin DOMAIN stored \cup deleted
  BY DEF WB!Targets, BuilderReviewed, Asks
<1>2. /\ stored' = WB!StoredAfter(r, w)
      /\ builderActive' = WB!ActiveAfter(r, w)
      /\ deleted' = IF r.op = "delete" THEN deleted \cup {w} ELSE deleted
      /\ reviewed' = IF r.op = "activate" THEN [reviewed EXCEPT ![w] = r.held] ELSE reviewed
      /\ crossed \subseteq crossed' /\ crossed' \subseteq crossed \cup {w}
      /\ WB!Crosses(r, w) => w \in crossed'
  BY DEF WB!Commit
<1>3. ASSUME NEW q \in WB!Requests, q.pc = "read", q.id = w, w \notin crossed'
      PROVE  {q.op, r.op} # {"save", "activate"}
  BY <1>2, <1>3 DEF WB!Crosses
<1>4. SUFFICES /\ DOMAIN stored' \subseteq Workflow
               /\ reviewed' = [x \in Workflow |-> reviewed'[x]]
               /\ builderActive' \subseteq DOMAIN stored'
               /\ DOMAIN stored' \cap deleted' = {}
               /\ \A q \in WB!Requests : q.pc = "read" => StillSo(q)'
               /\ \A x \in builderActive' \ crossed' : stored'[x] = reviewed'[x]
  BY DEF BuilderReviewed
<1>5. reviewed' = [x \in Workflow |-> reviewed'[x]]
  BY <1>2 DEF BuilderReviewed
<1>6. \A x \in DOMAIN stored \ {w} : /\ x \in DOMAIN stored' /\ stored'[x] = stored[x]
                                     /\ x \in builderActive' <=> x \in builderActive
                                     /\ x \in crossed' <=> x \in crossed
                                     /\ reviewed'[x] = reviewed[x]
                                     /\ x \in deleted' <=> x \in deleted
  BY <1>1, <1>2 DEF WB!StoredAfter, WB!ActiveAfter, BuilderReviewed
<1>7. /\ DOMAIN stored' \subseteq DOMAIN stored \cup {w}
      /\ builderActive' \subseteq builderActive \cup {w}
      /\ DOMAIN stored \cup deleted \subseteq DOMAIN stored' \cup deleted'
  BY <1>1, <1>2 DEF WB!StoredAfter, WB!ActiveAfter
<1>8. DOMAIN stored' \cap deleted' = {}
  BY <1>1, <1>2 DEF WB!StoredAfter, BuilderReviewed
<1>9. w \in builderActive' => w \in DOMAIN stored'
  BY <1>1, <1>2 DEF WB!StoredAfter, WB!ActiveAfter, BuilderReviewed
<1>10. ASSUME w \in DOMAIN stored' \ crossed'
       PROVE  /\ w \in builderActive' => stored'[w] = reviewed'[w]
              /\ \A q \in WB!Requests : q.pc = "read" /\ q.id = w =>
                   /\ q.op = "activate" => q.held = stored'[w]
                   /\ q.op = "save" /\ w \in builderActive' => q.was
  <2>1. w \notin crossed
    BY <1>2, <1>10
  <2>2. \A q \in WB!Requests : q.pc = "read" /\ q.id = w => StillSo(q)
    BY DEF BuilderReviewed
  <2>3. CASE r.op = "save"
    <3>1. w \notin builderActive'
      BY <1>1, <1>2, <2>1, <2>3 DEF WB!ActiveAfter, StillSo, BuilderReviewed
    <3>. QED BY <1>3, <1>10, <2>3, <3>1
  <2>4. CASE r.op = "activate"
    <3>1. stored' = [x \in DOMAIN stored |-> stored[x]]
      BY <1>2, <2>4 DEF WB!StoredAfter
    <3>2. stored'[w] = r.held /\ stored'[w] = stored[w]
      BY <1>1, <2>1, <2>4, <3>1 DEF StillSo
    <3>3. reviewed'[w] = r.held
      BY <1>1, <1>2, <2>4 DEF BuilderReviewed
    <3>. QED BY <1>1, <1>3, <1>10, <2>1, <2>2, <2>4, <3>2, <3>3 DEF StillSo
  <2>5. CASE r.op \in {"deactivate", "run"}
    <3>1. stored' = [x \in DOMAIN stored |-> stored[x]] /\ builderActive' \subseteq builderActive
      BY <1>2, <2>5 DEF WB!StoredAfter, WB!ActiveAfter
    <3>. QED BY <1>1, <1>2, <1>10, <2>1, <2>2, <2>5, <3>1 DEF StillSo, BuilderReviewed
  <2>6. CASE r.op = "delete"
    BY <1>2, <1>10, <2>6 DEF WB!StoredAfter
  <2>. QED BY <1>1, <2>3, <2>4, <2>5, <2>6 DEF Asks
<1>11. ASSUME NEW q \in WB!Requests, q.pc = "read" PROVE StillSo(q)'
  <2>1. StillSo(q)
    BY <1>11 DEF BuilderReviewed
  <2>2. q.id \in DOMAIN stored' \cup deleted'
    BY <1>7, <2>1 DEF StillSo
  <2>3. CASE q.id = w
    BY <1>10, <1>11, <2>2, <2>3 DEF StillSo
  <2>4. CASE q.id # w
    BY <1>6, <1>7, <2>1, <2>2, <2>4 DEF StillSo
  <2>. QED BY <2>3, <2>4
<1>12. builderActive' \subseteq DOMAIN stored' /\ DOMAIN stored' \subseteq Workflow
  BY <1>1, <1>6, <1>7, <1>9 DEF BuilderReviewed
<1>13. \A x \in builderActive' \ crossed' : stored'[x] = reviewed'[x]
  BY <1>6, <1>7, <1>10, <1>12 DEF BuilderReviewed
<1>. QED BY <1>5, <1>8, <1>11, <1>12, <1>13

LEMMA NextBuilder == BuilderInv /\ [Next]_vars => BuilderInv'
<1>. SUFFICES ASSUME BuilderHome, BuilderReviewed, [Next]_vars, which = "builder"
              PROVE  BuilderHome' /\ BuilderReviewed'
  BY PageStep DEF BuilderInv
<1>. USE DEF WB!server, WB!form, WB!judged, WB!history, WB!counters
<1>a. WB!Sender \subseteq WB!Caller /\ call = [c \in WB!Caller |-> call[c]]
  BY DEF WB!Sender, WB!Caller, BuilderReviewed
<1>0. ASSUME UNCHANGED <<stored, builderActive, deleted, reviewed, crossed>>,
             call' = [c \in WB!Caller |-> call'[c]],
             WB!Requests' \subseteq WB!Requests \cup {q \in WB!Requests' : q.pc \notin {"sent", "read"}}
      PROVE  BuilderReviewed'
  BY <1>0, AskingKeeps
<1>b. ASSUME UNCHANGED <<template, editingId, content, storage, available, origin, detached>>
      PROVE  BuilderHome'
  BY <1>b DEF BuilderHome, BuilderTypes, DraftsHome, OfferHome, FormHome, DraftOf
<1>c. ASSUME NEW callers \in SUBSET WB!Caller, WB!GivenUp(callers),
             call' = [c \in WB!Caller |-> call'[c]],
             \A c \in WB!Caller : call'[c] = call[c] \/ call'[c].pc \notin {"sent", "read"}
      PROVE  WB!Requests' \subseteq
               WB!Requests \cup {q \in WB!Requests' : q.pc \notin {"sent", "read"}}
  BY <1>a, <1>c DEF WB!GivenUp, WB!Requests
<1>1. CASE UNCHANGED wb
  BY <1>1, <1>a, <1>0, <1>b DEF wb, WB!Requests
<1>2. CASE \/ WB!EditForm \/ WB!applyQuickStartPreset \/ WB!Autosave
           \/ WB!restoreAvailableDraft \/ WB!discardAvailableDraft
           \/ WB!StartNew \/ WB!CreateWorkflow
           \/ \E w \in Workflow : WB!EditRow(w)
  <2>1. UNCHANGED <<stored, builderActive, deleted, late, reviewed, crossed, call>>
    BY <1>2 DEF WB!EditForm, WB!applyQuickStartPreset, WB!Autosave, WB!restoreAvailableDraft,
       WB!discardAvailableDraft, WB!StartNew, WB!CreateWorkflow, WB!EditRow
  <2>2. BuilderReviewed'
    BY <1>a, <1>0, <2>1 DEF WB!Requests
  <2>. QED BY <1>2, <2>2, UserKeeps
<1>3. CASE WB!Reload
  <2>1. /\ UNCHANGED <<stored, builderActive, deleted, reviewed, crossed>>
        /\ WB!GivenUp(WB!Caller)
        /\ call' = [c \in WB!Caller |-> call'[c]]
        /\ \A c \in WB!Caller : call'[c].pc \notin {"sent", "read"}
    BY <1>3 DEF WB!Reload, WB!Listing, WB!Idle
  <2>2. BuilderReviewed'
    BY <1>0, <1>c, <2>1
  <2>. QED BY <1>3, <2>2, UserKeeps
<1>4. CASE WB!SaveDone \/ \E c \in WB!Caller : WB!loadWorkflows(c)
  <2>1. /\ UNCHANGED <<stored, builderActive, deleted, late, reviewed, crossed>>
        /\ \E c \in WB!Caller : call' = [call EXCEPT ![c] = WB!Listing]
                             \/ call' = [call EXCEPT ![c] = WB!Idle]
    BY <1>4 DEF WB!SaveDone, WB!loadWorkflows, WB!Caller
  <2>2. BuilderReviewed'
    BY <1>a, <1>0, <2>1 DEF WB!Requests, WB!Listing, WB!Idle
  <2>. QED BY <1>4, <2>2, AnswersKeep
<1>5. ASSUME NEW q, Asks(q), q.pc = "sent", NEW c \in WB!Caller,
             call' = [call EXCEPT ![c] = q],
             UNCHANGED <<stored, builderActive, deleted, late, reviewed, crossed>>
      PROVE  BuilderReviewed'
  <2>1. WB!Requests' \subseteq WB!Requests \cup {q}
    BY <1>a, <1>5 DEF WB!Requests
  <2>2. call' = [d \in WB!Caller |-> call'[d]]
    BY <1>a, <1>5
  <2>. QED BY <1>5, <2>1, <2>2, AskingKeeps
<1>6. CASE WB!handleSubmit
  <2>1. PICK q : q = WB!Request("save", editingId, content, WB!draftStorageKey(editingId))
    OBVIOUS
  <2>2. Asks(q) /\ q.pc = "sent"
    BY <2>1 DEF Asks, WB!Request
  <2>. QED BY <1>6, <1>5, <1>b, <2>1, <2>2 DEF WB!handleSubmit, WB!Caller
<1>7. ASSUME NEW w \in Workflow, NEW op \in {"activate", "deactivate", "run", "delete"},
             WB!ClickRow(w, op)
      PROVE  BuilderHome' /\ BuilderReviewed'
  <2>1. PICK q : q = WB!Request(op, w, 0, w)
    OBVIOUS
  <2>2. Asks(q) /\ q.pc = "sent"
    BY <2>1, Keys DEF Asks, WB!Request
  <2>. QED BY <1>7, <1>5, <1>b, <2>1, <2>2 DEF WB!ClickRow, WB!Caller
<1>8. ASSUME NEW c \in WB!Sender, WB!ServeRead(c) PROVE BuilderHome' /\ BuilderReviewed'
  <2>1. /\ UNCHANGED <<stored, builderActive, deleted, late, reviewed, crossed>>
        /\ WB!MayRead(call[c])
        /\ call' = [call EXCEPT ![c] = WB!HasRead(call[c])]
    BY <1>8 DEF WB!ServeRead
  <2>2. PICK q : q = WB!HasRead(call[c])
    OBVIOUS
  <2>3. WB!Requests' \subseteq WB!Requests \cup {q} /\ call[c] \in WB!Requests
    BY <1>a, <2>1, <2>2 DEF WB!Requests
  <2>4. call' = [d \in WB!Caller |-> call'[d]]
    BY <1>a, <2>1
  <2>5. BuilderReviewed'
    BY <2>1, <2>2, <2>3, <2>4, AskingKeeps
  <2>. QED BY <1>8, <1>b, <2>5 DEF WB!ServeRead
<1>9. CASE WB!ServeSave
  <2>1. PICK w \in WB!Targets(call["form"]) : WB!Commit(call["form"], w)
    BY <1>9 DEF WB!ServeSave
  <2>2. /\ call' = [call EXCEPT !["form"].pc = "served"]
        /\ UNCHANGED late
        /\ UNCHANGED <<template, editingId, content, storage, available, origin, detached>>
    BY <1>9 DEF WB!ServeSave
  <2>3. call["form"] \in WB!Requests /\ "form" \in WB!Caller
    BY DEF WB!Requests, WB!Sender, WB!Caller
  <2>4. Asks(call["form"])
    BY <2>1, <2>3 DEF WB!Targets, BuilderReviewed
  <2>5. call'["form"].pc = "served"
    BY <1>a, <2>2, <2>3, <2>4 DEF Asks
  <2>6. \A q \in WB!Requests' : q.pc \in {"sent", "read"} => q \in WB!Requests
    BY <1>a, <2>2, <2>5 DEF WB!Requests
  <2>7. call' = [d \in WB!Caller |-> call'[d]]
    BY <1>a, <2>2
  <2>. QED BY <1>b, <2>1, <2>2, <2>3, <2>6, <2>7, WritingKeepsReview
<1>10. CASE WB!ServeRow
  <2>1. PICK w \in WB!Targets(call["row"]) : WB!Commit(call["row"], w)
    BY <1>10 DEF WB!ServeRow
  <2>2. /\ call' = [call EXCEPT !["row"] = WB!Listing]
        /\ UNCHANGED late
        /\ UNCHANGED <<template, editingId, content, storage, available, origin, detached>>
    BY <1>10 DEF WB!ServeRow
  <2>3. call["row"] \in WB!Requests
    BY DEF WB!Requests, WB!Sender
  <2>4. \A q \in WB!Requests' : q.pc \in {"sent", "read"} => q \in WB!Requests
    BY <1>a, <2>2 DEF WB!Requests, WB!Listing
  <2>5. call' = [d \in WB!Caller |-> call'[d]]
    BY <1>a, <2>2
  <2>. QED BY <1>b, <2>1, <2>2, <2>3, <2>4, <2>5, WritingKeepsReview
<1>11. ASSUME NEW c \in WB!Caller, WB!ServeList(c) PROVE BuilderHome' /\ BuilderReviewed'
  <2>1. /\ UNCHANGED <<stored, builderActive, deleted, late, reviewed, crossed>>
        /\ call' = [call EXCEPT ![c] = [pc |-> "listed", list |-> stored]]
    BY <1>11 DEF WB!ServeList
  <2>2. BuilderReviewed'
    BY <1>a, <1>0, <2>1 DEF WB!Requests
  <2>. QED BY <1>11, <1>b, <2>2 DEF WB!ServeList
<1>12. ASSUME NEW c \in WB!Caller, WB!CallFails(c) PROVE BuilderHome' /\ BuilderReviewed'
  <2>1. /\ UNCHANGED <<stored, builderActive, deleted, reviewed, crossed>>
        /\ call' = [call EXCEPT ![c] = WB!Idle]
        /\ WB!GivenUp({c})
    BY <1>12 DEF WB!CallFails
  <2>2. /\ call' = [d \in WB!Caller |-> call'[d]]
        /\ \A d \in WB!Caller : call'[d] = call[d] \/ call'[d].pc \notin {"sent", "read"}
    BY <1>a, <2>1 DEF WB!Idle
  <2>3. BuilderReviewed'
    BY <1>0, <1>c, <2>1, <2>2
  <2>. QED BY <1>12, <1>b, <2>3 DEF WB!CallFails
<1>13. ASSUME NEW r \in late, WB!LateRead(r) \/ WB!LateCommit(r) \/ WB!LateFails(r)
       PROVE  BuilderHome' /\ BuilderReviewed'
  <2>1. /\ UNCHANGED <<template, editingId, content, storage, available, origin, detached>>
        /\ UNCHANGED call /\ r \in WB!Requests
    BY <1>13 DEF WB!LateRead, WB!LateCommit, WB!LateFails, WB!Requests
  <2>2. BuilderHome'
    BY <1>b, <2>1
  <2>3. CASE WB!LateRead(r)
    <3>1. WB!Requests' \subseteq WB!Requests \cup {WB!HasRead(r)}
      BY <2>1, <2>3 DEF WB!LateRead, WB!Requests
    <3>. QED BY <1>a, <2>1, <2>2, <2>3, <3>1, AskingKeeps DEF WB!LateRead
  <2>4. CASE WB!LateCommit(r)
    <3>1. WB!Requests' \subseteq WB!Requests
      BY <2>1, <2>4 DEF WB!LateCommit, WB!Requests
    <3>2. PICK w \in WB!Targets(r) : WB!Commit(r, w)
      BY <2>4 DEF WB!LateCommit
    <3>. QED BY <1>a, <2>1, <2>2, <3>1, <3>2, WritingKeepsReview
  <2>5. CASE WB!LateFails(r)
    <3>1. WB!Requests' \subseteq WB!Requests
      BY <2>1, <2>5 DEF WB!LateFails, WB!Requests
    <3>. QED BY <1>a, <1>0, <2>1, <2>2, <2>5, <3>1 DEF WB!LateFails
  <2>. QED BY <1>13, <2>3, <2>4, <2>5
<1>. QED BY <1>1, <1>2, <1>3, <1>4, <1>6, <1>7, <1>8, <1>9, <1>10, <1>11, <1>12, <1>13, PageStep
         DEF WB!Next

\* For every number of workflows, edits, requests and requests given up: what is
\* active is what its activation read, although every request reads before it
\* writes, without a lock, and a save writes is_active only if it read another
\* value; but for workflows that were saved and activated at the same time.
THEOREM ReviewedRuns == Spec => []ActiveIsReviewed
<1>1. BuilderInv => ActiveIsReviewed
  BY DEF BuilderInv, BuilderReviewed, ActiveIsReviewed, WB!ActiveIsReviewed
<1>. QED BY <1>1, InitBuilder, NextBuilder, PTL DEF Spec
----------------------------------------------------------------------------
(* Campaigns. *)

\* A text that campaign i may hold, among the texts typed and the campaigns
\* created so far.
Home(i, text) ==
  i \in 0 .. newestCampaign /\ text \in 0 .. Len(campaignAuthor) /\ CA!Own(i, text)

ListHome(list) == \A i \in DOMAIN list : i # 0 /\ Home(i, list[i])

CallShape(c) ==
  c = [op |-> c.op, pc |-> c.pc, id |-> c.id, text |-> c.text, saves |-> c.saves,
       list |-> c.list]

CallHome(c) ==
  /\ CallShape(c)
  /\ ListHome(c.list)
  /\ c.op = "save" => Home(c.id, c.text)

CampaignTypes ==
  /\ newestCampaign \in 0 .. MaxCampaigns
  /\ campaignAuthor \in Seq(Nat)
  /\ born = [i \in CA!Campaign |-> born[i]]

CampaignHome ==
  /\ CampaignTypes
  /\ Home(campaignEditing, campaignForm)
  /\ ListHome(campaigns)
  /\ ListHome(campaignItems)
  /\ \A c \in campaignCalls : CallHome(c)

CampaignInv == which = "campaigns" => CampaignHome

\* Texts are typed, and campaigns created, one after the other.
Grows ==
  /\ UNCHANGED campaignAuthor \/ campaignAuthor' = Append(campaignAuthor, campaignEditing)
  /\ \/ UNCHANGED <<newestCampaign, born>>
     \/ /\ newestCampaign < MaxCampaigns /\ newestCampaign' = newestCampaign + 1
        /\ \E text : born' = [born EXCEPT ![newestCampaign'] = text]

LEMMA InitCampaigns == Init => CampaignInv
<1>. SUFFICES ASSUME CA!Init PROVE CampaignHome
  BY PageInit DEF CampaignInv
<1>1. MaxCampaigns \in Nat
  BY PagesAssumption DEF CA!CampaignsAssumption
<1>2. CampaignTypes /\ Home(campaignEditing, campaignForm)
  BY <1>1 DEF CA!Init, CampaignTypes, Home, CA!Own
<1>3. ListHome(<<>>)
  BY DEF ListHome
<1>. DEFINE c == [op |-> "load", pc |-> "sent", id |-> 0, text |-> 0, saves |-> FALSE,
                  list |-> <<>>]
<1>4. campaignCalls = {c} /\ CallShape(c) /\ c.list = <<>> /\ c.op = "load"
  BY DEF CA!Init, CallShape
<1>. HIDE DEF c
<1>. QED BY <1>2, <1>3, <1>4 DEF CA!Init, CampaignHome, CallHome

LEMMA HomeStays ==
  ASSUME CampaignTypes, Grows, Home(campaignEditing, campaignForm), NEW i, NEW text, Home(i, text)
  PROVE  Home(i, text)'
<1>1. newestCampaign \in Nat /\ campaignAuthor \in Seq(Nat) /\ campaignEditing \in Nat
      /\ MaxCampaigns \in Nat
  BY PagesAssumption DEF CA!CampaignsAssumption, CampaignTypes, Home
<1>2. /\ Len(campaignAuthor') >= Len(campaignAuthor)
      /\ campaignAuthor' \in Seq(Nat)
      /\ \A t \in 1 .. Len(campaignAuthor) : campaignAuthor'[t] = campaignAuthor[t]
  <2>1. CASE UNCHANGED campaignAuthor
    BY <1>1, <2>1
  <2>2. CASE campaignAuthor' = Append(campaignAuthor, campaignEditing)
    BY <1>1, <2>2
  <2>. QED BY <2>1, <2>2 DEF Grows
<1>3. newestCampaign' >= newestCampaign /\ newestCampaign' \in Nat
  BY <1>1 DEF Grows
<1>4. i # 0 => born'[i] = born[i]
  <2>1. i \in 0 .. newestCampaign /\ i \in Nat
    BY <1>1 DEF Home
  <2>2. CASE UNCHANGED born
    BY <2>2
  <2>3. ASSUME NEW t, born' = [born EXCEPT ![newestCampaign + 1] = t]
        PROVE  i # 0 => born'[i] = born[i]
    <3>1. i # newestCampaign + 1
      BY <1>1, <2>1
    <3>2. i # 0 => i \in CA!Campaign
      BY <1>1, <2>1 DEF CA!Campaign, CampaignTypes
    <3>. QED BY <2>3, <3>1, <3>2 DEF CampaignTypes
  <2>. QED BY <2>2, <2>3 DEF Grows
<1>. QED BY <1>1, <1>2, <1>3, <1>4 DEF Home, CA!Own

LEMMA CallStays ==
  ASSUME CampaignTypes, Grows, Home(campaignEditing, campaignForm), NEW c, CallHome(c)
  PROVE  CallHome(c)'
BY HomeStays DEF CallHome, ListHome, CallShape

\* What grows keeps its kind.
LEMMA TypesStay ==
  ASSUME CampaignTypes, Grows, Home(campaignEditing, campaignForm)
  PROVE  CampaignTypes'
<1>1. newestCampaign \in Nat /\ campaignAuthor \in Seq(Nat) /\ campaignEditing \in Nat
      /\ MaxCampaigns \in Nat
  BY PagesAssumption DEF CA!CampaignsAssumption, CampaignTypes, Home
<1>2. campaignAuthor' \in Seq(Nat)
  BY <1>1 DEF Grows
<1>3. newestCampaign' \in 0 .. MaxCampaigns
  BY <1>1 DEF Grows, CampaignTypes
<1>4. born' = [i \in CA!Campaign |-> born'[i]]
  BY DEF Grows, CampaignTypes
<1>. QED BY <1>2, <1>3, <1>4 DEF CampaignTypes

\* A step that gives the form, the campaigns and the list what is theirs, and
\* puts nothing else in flight.
LEMMA StaysHome ==
  ASSUME CampaignHome, Grows,
         Home(campaignEditing, campaignForm)',
         ListHome(campaigns)' \/ UNCHANGED campaigns,
         ListHome(campaignItems)' \/ UNCHANGED campaignItems,
         \A c \in campaignCalls' \ campaignCalls : CallHome(c)'
  PROVE  CampaignHome'
<1>1. CampaignTypes'
  BY TypesStay DEF CampaignHome
<1>2. ASSUME NEW list, ListHome(list)
      PROVE  ListHome(list)'
  BY <1>2, HomeStays DEF CampaignHome, ListHome
<1>3. ListHome(campaigns)' /\ ListHome(campaignItems)'
  BY <1>2 DEF CampaignHome
<1>4. \A c \in campaignCalls' : CallHome(c)'
  BY CallStays DEF CampaignHome
<1>. QED BY <1>1, <1>3, <1>4 DEF CampaignHome

\* The steps of the user.
LEMMA TypingKeeps ==
  ASSUME CampaignHome,
         \/ CA!TypeForm \/ CA!Cancel \/ CA!handleSubmit
         \/ \E c \in DOMAIN campaignItems :
              CA!startEdit(c) \/ \E op \in {"status", "delete"} : CA!runAction(c, op)
  PROVE  CampaignHome'
<1>. USE DEF CA!server, CA!page
<1>0. newestCampaign \in Nat /\ campaignAuthor \in Seq(Nat) /\ campaignEditing \in Nat
      /\ Home(campaignEditing, campaignForm)
  BY PagesAssumption DEF CA!CampaignsAssumption, CampaignTypes, Home, CampaignHome
<1>1. CASE CA!TypeForm
  <2>1. /\ campaignAuthor' = Append(campaignAuthor, campaignEditing)
        /\ campaignForm' = Len(campaignAuthor')
        /\ UNCHANGED <<campaigns, newestCampaign, born, campaignItems, campaignEditing,
                       campaignCalls>>
    BY <1>1 DEF CA!TypeForm
  <2>2. Home(campaignEditing, campaignForm)'
    BY <1>0, <2>1 DEF Home, CA!Own
  <2>. QED BY <2>1, <2>2, StaysHome DEF Grows
<1>2. CASE CA!Cancel
  <2>1. /\ campaignEditing' = 0 /\ campaignForm' = 0
        /\ UNCHANGED <<campaigns, newestCampaign, born, campaignItems, campaignAuthor,
                       campaignCalls>>
    BY <1>2 DEF CA!Cancel
  <2>2. Home(campaignEditing, campaignForm)'
    BY <1>0, <2>1 DEF Home, CA!Own
  <2>. QED BY <2>1, <2>2, StaysHome DEF Grows
<1>3. CASE CA!handleSubmit
  <2>0. PICK c : c = [op |-> "save", pc |-> "sent", id |-> campaignEditing,
                      text |-> campaignForm, saves |-> TRUE, list |-> <<>>]
    OBVIOUS
  <2>1. /\ campaignCalls' = campaignCalls \cup {c}
        /\ UNCHANGED <<campaigns, newestCampaign, born, campaignItems, campaignAuthor,
                       campaignEditing, campaignForm>>
    BY <1>3, <2>0 DEF CA!handleSubmit, CA!Start
  <2>2. Home(campaignEditing, campaignForm)'
    BY <1>0, <2>1 DEF Home, CA!Own
  <2>3. CallHome(c)'
    BY <2>0, <2>1, <2>2 DEF CallHome, CallShape, ListHome
  <2>4. \A d \in campaignCalls' \ campaignCalls : CallHome(d)'
    BY <2>1, <2>3
  <2>5. Grows
    BY <2>1 DEF Grows
  <2>. QED BY <2>1, <2>2, <2>4, <2>5, StaysHome
<1>4. ASSUME NEW i \in DOMAIN campaignItems, CA!startEdit(i)
      PROVE  CampaignHome'
  <2>1. /\ campaignEditing' = i /\ campaignForm' = campaignItems[i]
        /\ UNCHANGED <<campaigns, newestCampaign, born, campaignItems, campaignAuthor,
                       campaignCalls>>
    BY <1>4 DEF CA!startEdit
  <2>2. Home(campaignEditing, campaignForm)'
    BY <2>1 DEF Home, CA!Own, CampaignHome, ListHome
  <2>. QED BY <2>1, <2>2, StaysHome DEF Grows
<1>5. ASSUME NEW i \in DOMAIN campaignItems, NEW op \in {"status", "delete"},
             CA!runAction(i, op)
      PROVE  CampaignHome'
  <2>0. PICK c : c = [op |-> op, pc |-> "sent", id |-> i, text |-> 0, saves |-> op = "save",
                      list |-> <<>>]
    OBVIOUS
  <2>1. /\ campaignCalls' = campaignCalls \cup {c}
        /\ UNCHANGED <<campaigns, newestCampaign, born, campaignItems, campaignAuthor,
                       campaignEditing, campaignForm>>
    BY <1>5, <2>0 DEF CA!runAction, CA!Start
  <2>2. Home(campaignEditing, campaignForm)'
    BY <1>0, <2>1 DEF Home, CA!Own
  <2>3. CallHome(c)'
    BY <2>0, <2>1, <2>2 DEF CallHome, CallShape, ListHome
  <2>4. \A d \in campaignCalls' \ campaignCalls : CallHome(d)'
    BY <2>1, <2>3
  <2>5. Grows
    BY <2>1 DEF Grows
  <2>. QED BY <2>1, <2>2, <2>4, <2>5, StaysHome
<1>. QED BY <1>1, <1>2, <1>3, <1>4, <1>5

\* The steps of a call: what it becomes is home as well.
LEMMA Answered ==
  ASSUME NEW c, CallHome(c), CallHome(c)'
  PROVE  CallHome([c EXCEPT !.pc = "served"])'
<1>. DEFINE d == [c EXCEPT !.pc = "served"]
<1>1. CallShape(d) /\ d.list = c.list /\ d.op = c.op /\ d.id = c.id /\ d.text = c.text
  BY DEF CallHome, CallShape
<1>. HIDE DEF d
<1>2. CallHome(d)'
  BY <1>1 DEF CallHome, CallShape
<1>. QED BY <1>2 DEF d

LEMMA ReloadHome ==
  ASSUME NEW saves
  PROVE  CallHome([op |-> "load", pc |-> "sent", id |-> 0, text |-> 0, saves |-> saves,
                   list |-> <<>>])'
BY DEF CallHome, CallShape, ListHome

LEMMA ListAnswered ==
  ASSUME NEW c, CallHome(c), c.op = "load", NEW list, ListHome(list)'
  PROVE  CallHome([c EXCEPT !.pc = "served", !.list = list])'
<1>. DEFINE d == [c EXCEPT !.pc = "served"]
            e == [d EXCEPT !.list = list]
<1>1. [c EXCEPT !.pc = "served", !.list = list] = e
  OBVIOUS
<1>2. CallShape(d) /\ d.op = c.op
  BY DEF CallHome, CallShape
<1>. HIDE DEF d
<1>3. CallShape(e) /\ e.list = list /\ e.op = d.op
  BY <1>2 DEF CallShape
<1>. HIDE DEF e
<1>4. CallHome(e)'
  BY <1>2, <1>3 DEF CallHome, CallShape
<1>. QED BY <1>1, <1>4

\* A save given up keeps what it is to store.
LEMMA GivenUpHome ==
  ASSUME NEW c, CallHome(c), CallHome(c)'
  PROVE  CallHome([c EXCEPT !.pc = "late", !.saves = FALSE])'
<1>0. PICK no : no = FALSE
  OBVIOUS
<1>. DEFINE d == [c EXCEPT !.pc = "late"]
            e == [d EXCEPT !.saves = no]
<1>1. [c EXCEPT !.pc = "late", !.saves = FALSE] = e
  BY <1>0
<1>2. CallShape(d) /\ d.list = c.list /\ d.op = c.op /\ d.id = c.id /\ d.text = c.text
  BY DEF CallHome, CallShape
<1>. HIDE DEF d
<1>3. CallShape(e) /\ e.list = d.list /\ e.op = d.op /\ e.id = d.id /\ e.text = d.text
  BY <1>2 DEF CallShape
<1>. HIDE DEF e
<1>4. CallHome(e)'
  BY <1>2, <1>3 DEF CallHome, CallShape
<1>. QED BY <1>1, <1>4

LEMMA CallKeeps ==
  ASSUME CampaignHome, NEW c \in campaignCalls,
         \/ CA!create_campaign(c) \/ CA!update_campaign(c) \/ CA!activate_campaign(c)
         \/ CA!delete_campaign(c) \/ CA!list_campaigns(c)
         \/ CA!SubmitDone(c) \/ CA!ActionDone(c) \/ CA!LoadDone(c) \/ CA!CallFails(c)
  PROVE  CampaignHome'
<1>. USE DEF CA!server, CA!page
<1>0. /\ newestCampaign \in Nat /\ campaignAuthor \in Seq(Nat) /\ campaignEditing \in Nat
      /\ Home(campaignEditing, campaignForm) /\ MaxCampaigns \in Nat
      /\ CallHome(c) /\ CampaignTypes /\ ListHome(campaigns) /\ ListHome(campaignItems)
  BY PagesAssumption DEF CA!CampaignsAssumption, CampaignTypes, Home, CampaignHome
<1>1. ASSUME Grows PROVE CallHome(c)'
  BY <1>0, <1>1, CallStays
<1>2. ASSUME Grows, CA!Served(c)
      PROVE  \A d \in campaignCalls' \ campaignCalls : CallHome(d)'
  BY <1>0, <1>1, <1>2, Answered DEF CA!Served
<1>3. ASSUME Grows, CA!Loading(c)
      PROVE  \A d \in campaignCalls' \ campaignCalls : CallHome(d)'
  BY <1>3, ReloadHome DEF CA!Loading
<1>4. ASSUME Grows, UNCHANGED <<campaignEditing, campaignForm>>
      PROVE  Home(campaignEditing, campaignForm)'
  BY <1>0, <1>4, HomeStays
<1>5. CASE CA!create_campaign(c)
  <2>1. /\ newestCampaign < MaxCampaigns /\ newestCampaign' = newestCampaign + 1
        /\ born' = [born EXCEPT ![newestCampaign'] = c.text]
        /\ campaigns' = [i \in DOMAIN campaigns \cup {newestCampaign'} |->
                           IF i = newestCampaign' THEN c.text ELSE campaigns[i]]
        /\ CA!Served(c)
        /\ UNCHANGED <<campaignItems, campaignForm, campaignEditing, campaignAuthor>>
    BY <1>5 DEF CA!create_campaign
  <2>2. Grows
    BY <2>1 DEF Grows
  <2>3. Home(0, c.text)
    BY <1>0, <1>5 DEF CallHome, CA!create_campaign
  <2>4. PICK k : k = newestCampaign + 1
    OBVIOUS
  <2>5. k # 0 /\ Home(k, c.text)'
    <3>1. k \in CA!Campaign /\ k \in Nat /\ k # 0
      BY <1>0, <2>1, <2>4 DEF CA!Campaign
    <3>2. born'[k] = c.text
      BY <1>0, <2>1, <2>4, <3>1 DEF CampaignTypes
    <3>. QED BY <1>0, <2>1, <2>3, <2>4, <3>1, <3>2 DEF Home, CA!Own
  <2>6. ASSUME NEW i \in DOMAIN campaigns' PROVE i # 0 /\ Home(i, campaigns[i])'
    <3>1. CASE i = k
      <4>1. campaigns'[i] = c.text
        BY <2>1, <2>4, <2>6, <3>1
      <4>. QED BY <2>5, <3>1, <4>1 DEF Home, CA!Own
    <3>2. CASE i # k
      <4>1. i \in DOMAIN campaigns /\ campaigns'[i] = campaigns[i]
        BY <2>1, <2>4, <2>6, <3>2
      <4>2. PICK text : text = campaigns[i]
        OBVIOUS
      <4>3. i # 0 /\ Home(i, text)
        BY <1>0, <4>1, <4>2 DEF ListHome
      <4>4. Home(i, text)'
        BY <1>0, <2>2, <4>3, HomeStays
      <4>. QED BY <4>1, <4>2, <4>3, <4>4 DEF Home, CA!Own
    <3>. QED BY <3>1, <3>2
  <2>7. ListHome(campaigns)'
    BY <2>6 DEF ListHome
  <2>. QED BY <1>2, <1>4, <2>1, <2>2, <2>7, StaysHome
<1>6. CASE CA!update_campaign(c)
  <2>1. /\ campaigns' = [campaigns EXCEPT ![c.id] = c.text]
        /\ CA!Served(c)
        /\ UNCHANGED <<newestCampaign, born, campaignItems, campaignForm, campaignEditing,
                       campaignAuthor>>
    BY <1>6 DEF CA!update_campaign
  <2>2. Grows
    BY <2>1 DEF Grows
  <2>3. Home(c.id, c.text)
    BY <1>0, <1>6 DEF CallHome, CA!update_campaign
  <2>4. ListHome(campaigns')
    BY <1>0, <2>1, <2>3 DEF ListHome
  <2>5. ListHome(campaigns)'
    BY <2>1, <2>4 DEF ListHome, Home, CA!Own
  <2>. QED BY <1>2, <1>4, <2>1, <2>2, <2>5, StaysHome
<1>7. CASE CA!activate_campaign(c)
  <2>1. /\ CA!Served(c)
        /\ UNCHANGED <<campaigns, newestCampaign, born, campaignItems, campaignForm,
                       campaignEditing, campaignAuthor>>
    BY <1>7 DEF CA!activate_campaign
  <2>2. Grows
    BY <2>1 DEF Grows
  <2>. QED BY <1>2, <1>4, <2>1, <2>2, StaysHome
<1>8. CASE CA!delete_campaign(c)
  <2>1. /\ campaigns' = [i \in DOMAIN campaigns \ {c.id} |-> campaigns[i]]
        /\ CA!Served(c)
        /\ UNCHANGED <<newestCampaign, born, campaignItems, campaignForm, campaignEditing,
                       campaignAuthor>>
    BY <1>8 DEF CA!delete_campaign
  <2>2. Grows
    BY <2>1 DEF Grows
  <2>3. ListHome(campaigns)'
    BY <1>0, <2>1 DEF ListHome, Home, CA!Own
  <2>. QED BY <1>2, <1>4, <2>1, <2>2, <2>3, StaysHome
<1>9. CASE CA!list_campaigns(c)
  <2>1. PICK list : /\ list = campaigns
                    /\ campaignCalls' = (campaignCalls \ {c})
                                          \cup {[c EXCEPT !.pc = "served", !.list = list]}
    BY <1>9 DEF CA!list_campaigns
  <2>2. UNCHANGED <<campaigns, newestCampaign, born, campaignItems, campaignForm,
                    campaignEditing, campaignAuthor>>
    BY <1>9 DEF CA!list_campaigns
  <2>3. Grows
    BY <2>2 DEF Grows
  <2>4. ListHome(list)'
    BY <1>0, <2>1, <2>2 DEF ListHome, Home, CA!Own
  <2>5. \A d \in campaignCalls' \ campaignCalls : CallHome(d)'
    <3>1. c.op = "load"
      BY <1>9 DEF CA!list_campaigns
    <3>2. CallHome([c EXCEPT !.pc = "served", !.list = list])'
      BY <1>0, <2>4, <3>1, ListAnswered
    <3>. QED BY <2>1, <3>2
  <2>. QED BY <1>4, <2>2, <2>3, <2>5, StaysHome
<1>10. CASE CA!SubmitDone(c)
  <2>1. /\ campaignForm' = 0 /\ campaignEditing' = 0 /\ CA!Loading(c)
        /\ UNCHANGED <<campaigns, newestCampaign, born, campaignItems, campaignAuthor>>
    BY <1>10 DEF CA!SubmitDone
  <2>2. Grows
    BY <2>1 DEF Grows
  <2>3. Home(campaignEditing, campaignForm)'
    BY <1>0, <2>1 DEF Home, CA!Own
  <2>. QED BY <1>3, <2>1, <2>2, <2>3, StaysHome
<1>11. CASE CA!ActionDone(c)
  <2>1. /\ CA!Loading(c)
        /\ UNCHANGED <<campaigns, newestCampaign, born, campaignItems, campaignForm,
                       campaignEditing, campaignAuthor>>
    BY <1>11 DEF CA!ActionDone
  <2>2. Grows
    BY <2>1 DEF Grows
  <2>. QED BY <1>3, <1>4, <2>1, <2>2, StaysHome
<1>12. CASE CA!LoadDone(c)
  <2>1. /\ campaignCalls' = campaignCalls \ {c} /\ campaignItems' = c.list
        /\ UNCHANGED <<campaigns, newestCampaign, born, campaignForm, campaignEditing,
                       campaignAuthor>>
    BY <1>12 DEF CA!LoadDone
  <2>2. Grows
    BY <2>1 DEF Grows
  <2>3. ListHome(campaignItems)'
    BY <1>0, <2>1 DEF CallHome, ListHome, Home, CA!Own
  <2>. QED BY <1>4, <2>1, <2>2, <2>3, StaysHome
<1>13. CASE CA!CallFails(c)
  <2>1. /\ \/ campaignCalls' = campaignCalls \ {c}
           \/ campaignCalls' = (campaignCalls \ {c})
                                 \cup {[c EXCEPT !.pc = "late", !.saves = FALSE]}
        /\ UNCHANGED <<campaigns, newestCampaign, born, campaignItems, campaignForm,
                       campaignEditing, campaignAuthor>>
    BY <1>13 DEF CA!CallFails
  <2>2. Grows
    BY <2>1 DEF Grows
  <2>3. \A d \in campaignCalls' \ campaignCalls : CallHome(d)'
    BY <1>0, <1>1, <2>1, <2>2, GivenUpHome
  <2>. QED BY <1>4, <2>1, <2>2, <2>3, StaysHome
<1>. QED BY <1>5, <1>6, <1>7, <1>8, <1>9, <1>10, <1>11, <1>12, <1>13

LEMMA NextCampaigns == CampaignInv /\ [Next]_vars => CampaignInv'
<1>. SUFFICES ASSUME CampaignHome, [Next]_vars, which = "campaigns"
              PROVE  CampaignHome'
  BY PageStep DEF CampaignInv
<1>1. CASE UNCHANGED ca
  BY <1>1 DEF ca, CampaignHome, CampaignTypes, ListHome, CallHome, CallShape, Home, CA!Own
<1>. QED BY <1>1, TypingKeeps, CallKeeps, PageStep DEF CA!Next
----------------------------------------------------------------------------
(* Leads. *)

\* Notes that lead l may hold: none, or some that were typed for it.
Good(l, n) == n = 0 \/ (n \in DOMAIN author /\ author[n] = l)

GoodList(list) == \A l \in DOMAIN list : Good(l, list[l])

LeadCall(c) ==
  c = [op |-> c.op, pc |-> c.pc, lead |-> c.lead, value |-> c.value, chosen |-> c.chosen,
       list |-> c.list]

\* What a call carries, or is answered with, is notes of the leads it names.
CallGood(c) ==
  /\ LeadCall(c)
  /\ c.op \in {"load", "create", "delete"} => GoodList(c.list)
  /\ c.op = "save" \/ (c.op = "move" /\ c.pc = "served") => Good(c.lead, c.list[1])

Numbered == \E k \in Nat : DOMAIN author = 1 .. k

LeadsGood ==
  /\ Numbered
  /\ GoodList(notes)
  /\ GoodList(leads)
  /\ Good(LB!selectedLead, notesDraft)
  /\ \A c \in leadCalls : CallGood(c)

LeadsInv == which = "leads" => LeadsGood

LEMMA InitLeads == Init => LeadsInv
<1>. SUFFICES ASSUME LB!Init PROVE LeadsGood
  BY PageInit DEF LeadsInv
<1>1. GoodList(<<>>)
  BY DEF GoodList
<1>2. PICK c : c = [op |-> "load", pc |-> "sent", lead |-> 0, value |-> LB!Lead,
                    chosen |-> 0, list |-> <<>>]
  OBVIOUS
<1>3. leadCalls = {c}
  BY <1>2 DEF LB!Init
<1>4. CallGood(c)
  BY <1>1, <1>2 DEF CallGood, LeadCall
<1>5. Numbered /\ GoodList(notes) /\ GoodList(leads) /\ notesDraft = 0
  BY <1>1 DEF LB!Init, Numbered, GoodList, Good
<1>. QED BY <1>3, <1>4, <1>5 DEF LeadsGood, Good

\* Texts are only added.
LEMMA GoodStays ==
  ASSUME NEW f, f = author', \A n \in DOMAIN author : n \in DOMAIN f /\ f[n] = author[n]
  PROVE  /\ \A l, n : Good(l, n) => Good(l, n)'
         /\ \A list : GoodList(list) => GoodList(list)'
         /\ \A c : CallGood(c) => CallGood(c)'
<1>1. ASSUME NEW l, NEW n, Good(l, n) PROVE Good(l, n)'
  BY <1>1 DEF Good
<1>2. ASSUME NEW list, GoodList(list) PROVE GoodList(list)'
  BY <1>1, <1>2 DEF GoodList
<1>3. ASSUME NEW c, CallGood(c) PROVE CallGood(c)'
  BY <1>1, <1>2, <1>3 DEF CallGood, LeadCall
<1>. QED BY <1>1, <1>2, <1>3

LEMMA SameAuthor ==
  ASSUME UNCHANGED author
  PROVE  /\ \A l, n : Good(l, n) <=> Good(l, n)'
         /\ \A list : GoodList(list) <=> GoodList(list)'
         /\ \A c : CallGood(c) <=> CallGood(c)'
         /\ Numbered <=> Numbered'
<1>1. ASSUME NEW l, NEW n PROVE Good(l, n) <=> Good(l, n)'
  BY DEF Good
<1>2. ASSUME NEW list PROVE GoodList(list) <=> GoodList(list)'
  BY <1>1 DEF GoodList
<1>3. ASSUME NEW c PROVE CallGood(c) <=> CallGood(c)'
  BY <1>1, <1>2 DEF CallGood, LeadCall
<1>. QED BY <1>1, <1>2, <1>3 DEF Numbered

\* What is shown of a list whose notes are their leads'.
LEMMA TextGood == ASSUME NEW list, GoodList(list), NEW l PROVE Good(l, LB!Text(list, l))
BY DEF GoodList, Good, LB!Text

\* A change of the list or of the choice shows the notes of the lead shown.
LEMMA Rendering ==
  ASSUME NEW list, GoodList(list), NEW id, NEW draft, LB!Render(list, id, draft),
         LB!Selected(list, id) = LB!selectedLead => Good(LB!selectedLead, draft),
         UNCHANGED author
  PROVE  GoodList(leads)' /\ Good(LB!selectedLead, notesDraft)'
<1>. DEFINE l == LB!Selected(list, id)
<1>1. leads' = list /\ LB!selectedLead' = l
      /\ notesDraft' = IF l # LB!selectedLead THEN LB!Text(list, l) ELSE draft
  BY DEF LB!Render, LB!selectedLead
<1>2. PICK n : n = notesDraft' /\ Good(l, n)
  BY <1>1, TextGood
<1>3. GoodList(leads)'
  BY <1>1, SameAuthor DEF GoodList, Good
<1>4. Good(LB!selectedLead, notesDraft)'
  BY <1>1, <1>2 DEF Good
<1>. QED BY <1>3, <1>4

\* A step that types nothing, and leaves everything with the notes that are its.
LEMMA StaysGood ==
  ASSUME LeadsGood, UNCHANGED author,
         GoodList(notes)' \/ UNCHANGED notes,
         \/ GoodList(leads)' /\ Good(LB!selectedLead, notesDraft)'
         \/ UNCHANGED <<leads, selectedLeadId, notesDraft>>,
         \A c \in leadCalls' \ leadCalls : CallGood(c)
  PROVE  LeadsGood'
<1>1. GoodList(notes)'
  BY SameAuthor DEF LeadsGood, GoodList, Good
<1>2. GoodList(leads)' /\ Good(LB!selectedLead, notesDraft)'
  BY DEF LeadsGood, GoodList, Good, LB!selectedLead
<1>3. \A c \in leadCalls' : CallGood(c)'
  BY SameAuthor DEF LeadsGood
<1>. QED BY <1>1, <1>2, <1>3, SameAuthor DEF LeadsGood

\* The steps of the user.
LEMMA WritingKeeps ==
  ASSUME LeadsGood,
         \/ LB!handleSearch \/ LB!handleCreate \/ LB!saveNotes \/ LB!TypeNotes
         \/ \E l \in DOMAIN leads : LB!handleDelete(l) \/ LB!moveLead(l) \/ LB!SelectLead(l)
  PROVE  LeadsGood'
<1>1. ASSUME NEW op \in {"load", "create", "delete", "move"}, NEW l, NEW value,
             LB!Start(LB!Call(op, l, value))
      PROVE  LeadsGood'
  <2>1. PICK c : c = LB!Call(op, l, value)
    OBVIOUS
  <2>2. CallGood(c)
    BY <2>1 DEF CallGood, LeadCall, LB!Call, GoodList
  <2>. QED BY <1>1, <2>1, <2>2, StaysGood DEF LB!Start
<1>2. CASE LB!saveNotes
  <2>1. PICK c : c = [op |-> "save", pc |-> "sent", lead |-> LB!selectedLead,
                      value |-> LB!Lead, chosen |-> selectedLeadId, list |-> <<notesDraft>>]
    OBVIOUS
  <2>2. LB!Start(c)
    BY <1>2, <2>1 DEF LB!saveNotes, LB!Call
  <2>3. CallGood(c)
    BY <2>1 DEF CallGood, LeadCall, LeadsGood
  <2>. QED BY <2>2, <2>3, StaysGood DEF LB!Start
<1>3. CASE LB!TypeNotes
  <2>1. PICK k \in Nat : DOMAIN author = 1 .. k
    BY DEF LeadsGood, Numbered
  <2>2. LB!Cardinality(DOMAIN author) = k
    <3>1. Cardinality(1 .. k) = k
      BY FS_Interval
    <3>2. LB!Cardinality(1 .. k) = Cardinality(1 .. k)
      BY DEF LB!Cardinality, Cardinality
    <3>. QED BY <2>1, <3>1, <3>2
  <2>3. PICK f : f = [m \in 1 .. (k + 1) |-> IF m = k + 1 THEN LB!selectedLead ELSE author[m]]
    OBVIOUS
  <2>4. /\ notesDraft' = k + 1 /\ author' = f
        /\ UNCHANGED <<notes, newest, leads, selectedLeadId, leadCalls>>
    BY <1>3, <2>2, <2>3 DEF LB!TypeNotes
  <2>5. \A n \in DOMAIN author : n \in DOMAIN f /\ f[n] = author[n]
    BY <2>1, <2>3
  <2>6. Numbered'
    BY <2>3, <2>4 DEF Numbered
  <2>7. Good(LB!selectedLead, notesDraft)'
    BY <2>3, <2>4 DEF Good, LB!selectedLead
  <2>8. /\ \A list : GoodList(list) => GoodList(list)'
        /\ \A c : CallGood(c) => CallGood(c)'
    BY <2>4, <2>5, GoodStays
  <2>9. GoodList(notes)' /\ GoodList(leads)'
    BY <2>4, <2>8 DEF LeadsGood
  <2>. QED BY <2>4, <2>6, <2>7, <2>8, <2>9 DEF LeadsGood
<1>4. ASSUME NEW l \in DOMAIN leads, LB!SelectLead(l)
      PROVE  LeadsGood'
  BY <1>4, Rendering, StaysGood DEF LB!SelectLead, LeadsGood
<1>. QED BY <1>1, <1>2, <1>3, <1>4 DEF LB!handleSearch, LB!handleCreate, LB!handleDelete, LB!moveLead

\* The notes of an answer that replaces those of a call.
LEMMA ServedGood ==
  ASSUME NEW c, CallGood(c), NEW list, GoodList(list), c.op \in {"load", "create", "delete"}
  PROVE  CallGood([c EXCEPT !.pc = "served", !.list = list])
<1>. DEFINE d == [c EXCEPT !.pc = "served"]
            e == [d EXCEPT !.list = list]
<1>1. LeadCall(d) /\ d.op = c.op
  BY DEF CallGood, LeadCall
<1>. HIDE DEF d
<1>2. LeadCall(e) /\ e.list = list /\ e.op = d.op
  BY <1>1 DEF LeadCall
<1>. HIDE DEF e
<1>3. CallGood(e)
  BY <1>1, <1>2 DEF CallGood
<1>. QED BY <1>3 DEF d, e

LEMMA RowServedGood ==
  ASSUME NEW c, CallGood(c), NEW list, Good(c.lead, list[1]), c.op \in {"move", "save"}
  PROVE  CallGood([c EXCEPT !.pc = "served", !.list = list])
<1>. DEFINE d == [c EXCEPT !.pc = "served"]
            e == [d EXCEPT !.list = list]
<1>1. LeadCall(d) /\ d.op = c.op /\ d.lead = c.lead
  BY DEF CallGood, LeadCall
<1>. HIDE DEF d
<1>2. LeadCall(e) /\ e.list = list /\ e.op = d.op /\ e.lead = d.lead
  BY <1>1 DEF LeadCall
<1>. HIDE DEF e
<1>3. CallGood(e)
  BY <1>1, <1>2 DEF CallGood
<1>. QED BY <1>3 DEF d, e

LEMMA CreatedGood ==
  ASSUME NEW c, CallGood(c), NEW l, c.op = "create"
  PROVE  CallGood([c EXCEPT !.pc = "served", !.lead = l])
<1>. DEFINE d == [c EXCEPT !.pc = "served"]
            e == [d EXCEPT !.lead = l]
<1>1. LeadCall(d) /\ d.op = c.op /\ d.list = c.list
  BY DEF CallGood, LeadCall
<1>. HIDE DEF d
<1>2. LeadCall(e) /\ e.list = d.list /\ e.op = d.op
  BY <1>1 DEF LeadCall
<1>. HIDE DEF e
<1>3. CallGood(e)
  BY <1>1, <1>2 DEF CallGood
<1>. QED BY <1>3 DEF d, e

\* The steps of the server.
LEMMA ServingKeeps ==
  ASSUME LeadsGood, NEW c \in leadCalls, LB!Serve(c)
  PROVE  LeadsGood'
<1>0. CallGood(c) /\ GoodList(notes)
  BY DEF LeadsGood
<1>1. UNCHANGED <<leads, selectedLeadId, notesDraft, author>>
  BY DEF LB!Serve
<1>2. CASE c.op = "load"
  <2>1. PICK list : list = [l \in DOMAIN notes \cap c.value |-> notes[l]]
    OBVIOUS
  <2>2. /\ leadCalls' = (leadCalls \ {c}) \cup {[c EXCEPT !.pc = "served", !.list = list]}
        /\ UNCHANGED notes
    BY <1>2, <2>1 DEF LB!Serve
  <2>3. GoodList(list)
    BY <1>0, <2>1 DEF GoodList
  <2>5. \A d \in leadCalls' \ leadCalls : CallGood(d)
    <3>1. CallGood([c EXCEPT !.pc = "served", !.list = list])
      BY <1>0, <1>2, <2>3, ServedGood
    <3>. QED BY <2>2, <3>1
  <2>. QED BY <1>1, <2>2, <2>5, StaysGood
<1>3. CASE c.op = "create"
  <2>1. PICK k : k = newest'
    OBVIOUS
  <2>2. /\ notes' = [l \in DOMAIN notes \cup {k} |-> IF l = k THEN 0 ELSE notes[l]]
        /\ leadCalls' = (leadCalls \ {c}) \cup
             IF c.pc = "late" THEN {} ELSE {[c EXCEPT !.pc = "served", !.lead = k]}
    BY <1>3, <2>1 DEF LB!Serve
  <2>3. GoodList(notes)'
    BY <1>0, <1>1, <2>2 DEF GoodList, Good
  <2>5. \A d \in leadCalls' \ leadCalls : CallGood(d)
    <3>1. CallGood([c EXCEPT !.pc = "served", !.lead = k])
      BY <1>0, <1>3, CreatedGood
    <3>. QED BY <2>2, <3>1
  <2>. QED BY <1>1, <2>2, <2>3, <2>5, StaysGood
<1>4. CASE c.op = "delete"
  <2>1. PICK list : list = <<>>
    OBVIOUS
  <2>2. /\ notes' = [l \in DOMAIN notes \ {c.lead} |-> notes[l]]
        /\ leadCalls' = (leadCalls \ {c}) \cup {[c EXCEPT !.pc = "served", !.list = list]}
    BY <1>4, <2>1 DEF LB!Serve
  <2>3. GoodList(notes)'
    BY <1>0, <1>1, <2>2 DEF GoodList, Good
  <2>4. GoodList(list)
    BY <2>1 DEF GoodList
  <2>5. \A d \in leadCalls' \ leadCalls : CallGood(d)
    <3>1. CallGood([c EXCEPT !.pc = "served", !.list = list])
      BY <1>0, <1>4, <2>4, ServedGood
    <3>. QED BY <2>2, <3>1
  <2>. QED BY <1>1, <2>2, <2>3, <2>4, <2>5, StaysGood
<1>5. CASE c.op = "move"
  <2>1. PICK list : list = <<notes[c.lead]>>
    OBVIOUS
  <2>2. /\ leadCalls' = (leadCalls \ {c}) \cup {[c EXCEPT !.pc = "served", !.list = list]}
        /\ c.lead \in DOMAIN notes /\ UNCHANGED notes
    BY <1>5, <2>1 DEF LB!Serve
  <2>3. Good(c.lead, list[1])
    BY <1>0, <2>1, <2>2 DEF GoodList
  <2>5. \A d \in leadCalls' \ leadCalls : CallGood(d)
    <3>1. CallGood([c EXCEPT !.pc = "served", !.list = list])
      BY <1>0, <1>5, <2>3, RowServedGood
    <3>. QED BY <2>2, <3>1
  <2>. QED BY <1>1, <2>2, <2>5, StaysGood
<1>6. CASE c.op = "save"
  <2>1. PICK list : list = c.list
    OBVIOUS
  <2>2. /\ leadCalls' = (leadCalls \ {c}) \cup {[c EXCEPT !.pc = "served", !.list = list]}
        /\ notes' = [notes EXCEPT ![c.lead] = list[1]]
    BY <1>6, <2>1 DEF LB!Serve
  <2>3. Good(c.lead, list[1])
    BY <1>0, <1>6, <2>1 DEF CallGood
  <2>4. GoodList(notes)'
    BY <1>0, <1>1, <2>2, <2>3 DEF GoodList, Good
  <2>5. \A d \in leadCalls' \ leadCalls : CallGood(d)
    <3>1. CallGood([c EXCEPT !.pc = "served", !.list = list])
      BY <1>0, <1>6, <2>3, RowServedGood
    <3>. QED BY <2>2, <3>1
  <2>. QED BY <1>1, <2>2, <2>3, <2>4, <2>5, StaysGood
<1>. QED BY <1>2, <1>3, <1>4, <1>5, <1>6 DEF LB!Serve

\* The answers.
LEMMA AnsweringKeeps ==
  ASSUME LeadsGood, NEW c \in leadCalls,
         LB!LoadDone(c) \/ LB!ReloadAfter(c) \/ LB!RowDone(c) \/ LB!CallFails(c)
  PROVE  LeadsGood'
<1>0. CallGood(c) /\ GoodList(leads) /\ Good(LB!selectedLead, notesDraft)
  BY DEF LeadsGood
<1>1. CASE LB!LoadDone(c)
  <2>1. /\ leadCalls' = leadCalls \ {c} /\ GoodList(c.list)
        /\ UNCHANGED <<notes, author>>
    BY <1>0, <1>1 DEF LB!LoadDone, CallGood
  <2>2. CASE LB!Render(c.list, selectedLeadId, notesDraft)
    BY <1>0, <2>1, <2>2, Rendering, StaysGood
  <2>3. CASE LB!Render(c.list, LB!First(c.list), LB!Text(c.list, LB!First(c.list)))
    <3>1. LB!Selected(c.list, LB!First(c.list)) = LB!First(c.list)
      BY DEF LB!Selected
    <3>. QED BY <1>0, <2>1, <2>3, <3>1, TextGood, Rendering, StaysGood
  <2>. QED BY <1>1, <2>2, <2>3 DEF LB!LoadDone
<1>2. CASE LB!ReloadAfter(c)
  <2>1. PICK l, d : /\ d = [c EXCEPT !.op = "load", !.pc = "sent", !.lead = l]
                    /\ leadCalls' = (leadCalls \ {c}) \cup {d}
    BY <1>2 DEF LB!ReloadAfter
  <2>2. c.op \in {"create", "delete"} /\ UNCHANGED <<notes, author>>
        /\ (LB!Render(leads, c.lead, notesDraft)
             \/ UNCHANGED <<leads, selectedLeadId, notesDraft>>)
    BY <1>2 DEF LB!ReloadAfter
  <2>3. CallGood(d)
    <3>. DEFINE d1 == [c EXCEPT !.op = "load"]
                d2 == [d1 EXCEPT !.pc = "sent"]
                d3 == [d2 EXCEPT !.lead = l]
    <3>1. d = d3
      BY <2>1
    <3>2. LeadCall(d1) /\ d1.op = "load" /\ d1.list = c.list
      BY <1>0 DEF CallGood, LeadCall
    <3>. HIDE DEF d1
    <3>3. LeadCall(d2) /\ d2.list = d1.list /\ d2.op = d1.op
      BY <3>2 DEF LeadCall
    <3>. HIDE DEF d2
    <3>4. LeadCall(d3) /\ d3.list = d2.list /\ d3.op = d2.op
      BY <3>3 DEF LeadCall
    <3>. HIDE DEF d3
    <3>. QED BY <1>0, <2>2, <3>1, <3>2, <3>3, <3>4 DEF CallGood
  <2>4. \A e \in leadCalls' \ leadCalls : CallGood(e)
    BY <2>1, <2>3
  <2>. QED BY <1>0, <2>2, <2>4, Rendering, StaysGood
<1>3. CASE LB!RowDone(c)
  <2>1. PICK list, id : /\ list = [l \in DOMAIN leads |-> IF l = c.lead THEN c.list[1]
                                                            ELSE leads[l]]
                        /\ LB!Render(list, id, notesDraft)
    BY <1>3 DEF LB!RowDone
  <2>2. leadCalls' = leadCalls \ {c} /\ UNCHANGED <<notes, author>>
    BY <1>3 DEF LB!RowDone
  <2>3. Good(c.lead, c.list[1])
    BY <1>0, <1>3 DEF LB!RowDone, CallGood
  <2>4. GoodList(list)
    BY <1>0, <2>1, <2>3 DEF GoodList
  <2>. QED BY <1>0, <2>1, <2>2, <2>4, Rendering, StaysGood
<1>4. CASE LB!CallFails(c)
  <2>1. /\ \/ leadCalls' = leadCalls \ {c}
           \/ /\ c.op = "create"
              /\ leadCalls' = (leadCalls \ {c}) \cup {[c EXCEPT !.pc = "late"]}
        /\ UNCHANGED <<notes, leads, selectedLeadId, notesDraft, author>>
    BY <1>4 DEF LB!CallFails
  <2>2. PICK d : d = [c EXCEPT !.pc = "late"]
    OBVIOUS
  <2>3. LeadCall(d) /\ d.op = c.op /\ d.list = c.list
    BY <1>0, <2>2 DEF CallGood, LeadCall
  <2>4. \A e \in leadCalls' \ leadCalls : CallGood(e)
    BY <1>0, <2>1, <2>2, <2>3 DEF CallGood
  <2>. QED BY <2>1, <2>4, StaysGood
<1>. QED BY <1>1, <1>2, <1>3, <1>4

LEMMA NextLeads == LeadsInv /\ [Next]_vars => LeadsInv'
<1>. SUFFICES ASSUME LeadsGood, [Next]_vars, which = "leads"
              PROVE  LeadsGood'
  BY PageStep DEF LeadsInv
<1>1. CASE UNCHANGED lb
  <2>1. UNCHANGED <<notes, leads, selectedLeadId, notesDraft, leadCalls, author>>
    BY <1>1 DEF lb
  <2>. QED BY <2>1, StaysGood
<1>. QED BY <1>1, WritingKeeps, ServingKeeps, AnsweringKeeps, PageStep DEF LB!Next

\* What is edited is saved where it came from, for every number of workflows,
\* campaigns, leads, edits and calls in flight.
THEOREM EditsGoHome == Spec => []UpdatesGoHome
<1>1. BuilderInv /\ CampaignInv /\ LeadsInv => UpdatesGoHome
  BY DEF BuilderInv, BuilderHome, FormHome, DraftsHome, DraftOf, WB!UpdatesGoHome,
         CampaignInv, CampaignHome, ListHome, Home, CA!UpdatesGoHome,
         LeadsInv, LeadsGood, GoodList, Good, LB!NotesOnOwnLead, UpdatesGoHome
<1>. QED BY <1>1, InitBuilder, NextBuilder, InitCampaigns, NextCampaigns, InitLeads, NextLeads,
            PTL DEF Spec
----------------------------------------------------------------------------
(* Accounts and their mailed links. *)

Kind == {"verify", "reset"}

Link == [kind : Kind, used : Nat, revoked : BOOLEAN, mailed : BOOLEAN]

CallState == {"sent", "created", "read", "committed", "checked", "answered", "refused"}

AccountCall ==
  [kind : {"signup", "verify", "reset", "use"}, link : Nat, pc : CallState, seen : SUBSET Nat]

\* The kind of link a call asks for, and the kind of those it will revoke.
AskedBy(c) == IF c.kind = "reset" THEN "reset" ELSE "verify"
RevokedBy(c) == IF c.kind = "use" THEN links[c.link].kind ELSE AskedBy(c)

\* How far a call can be, and what it knows then.
Fits(c) ==
  /\ c.kind = "use" => c.link \in DOMAIN links
  /\ c.pc = "checked" => c.kind = "use"
  /\ c.pc = "committed" =>
       c.kind # "use" /\ c.link \in DOMAIN links /\ ~links[c.link].mailed
  /\ c.pc = "read" =>
       \A l \in c.seen : l \in DOMAIN links /\ links[l].kind = RevokedBy(c)

AccountTypes ==
  /\ links \in Seq(Link)
  /\ accountCalls \in Seq(AccountCall)
  /\ opened \in [Tab -> Nat]
  /\ \A t \in Tab : opened[t] # 0 => opened[t] \in DOMAIN links
  /\ \A j \in DOMAIN accountCalls : Fits(accountCalls[j])

Using(c, l) == c.kind = "use" /\ c.link = l /\ c.pc \in {"checked", "read"}
Pending(c, k) == c.kind # "use" /\ AskedBy(c) = k /\ c.pc = "read"
Committed(c) == c.pc = "committed"

\* A link that no two calls used together is used by one call at most, which is
\* the first.
Once ==
  \A l \in DOMAIN links : l \notin doubled =>
    /\ links[l].used <= 1
    /\ \A j \in DOMAIN accountCalls :
         Using(accountCalls[j], l) => links[l].used = 0
    /\ \A i, j \in DOMAIN accountCalls :
         Using(accountCalls[i], l) /\ Using(accountCalls[j], l) => i = j

\* Of a kind that no two calls asked for together at most one link works, and
\* the call that will replace it has seen it.
OneWorks ==
  \A k \in Kind : k \notin raced =>
    /\ \A i, j \in AC!Unused(k) : i = j
    /\ \A j \in DOMAIN accountCalls :
         Pending(accountCalls[j], k) => AC!Unused(k) \subseteq accountCalls[j].seen
    /\ \A i, j \in DOMAIN accountCalls :
         Pending(accountCalls[i], k) /\ Pending(accountCalls[j], k) => i = j

\* What takes a link's place.
Cause(l) ==
  \E m \in DOMAIN links : links[m].kind = links[l].kind /\ (m > l \/ links[m].used > 0)

\* A link was revoked for a cause, or was never mailed and never will be.
WithCause ==
  /\ \A l \in DOMAIN links : links[l].revoked =>
       \/ Cause(l)
       \/ /\ ~links[l].mailed
          /\ \A j \in DOMAIN accountCalls :
               Committed(accountCalls[j]) => accountCalls[j].link # l
  /\ \A i, j \in DOMAIN accountCalls :
       Committed(accountCalls[i]) /\ Committed(accountCalls[j])
         /\ accountCalls[i].link = accountCalls[j].link => i = j

AccountSound == AccountTypes /\ Once /\ OneWorks /\ WithCause

AccountInv == which = "account" => AccountSound

LEMMA InitAccount == Init => AccountInv
BY PageInit, EmptySeq DEF AccountInv, AccountSound, AccountTypes, Once, OneWorks, WithCause,
  AC!Init, AC!Unused

\* Links revoked among those there are.
LEMMA RevokedLinks ==
  ASSUME NEW ls \in Seq(Link), NEW is
  PROVE  LET rs == AC!Revoked(ls, is)
         IN /\ rs \in Seq(Link) /\ DOMAIN rs = DOMAIN ls /\ Len(rs) = Len(ls)
            /\ \A l \in DOMAIN ls :
                 /\ rs[l].kind = ls[l].kind /\ rs[l].used = ls[l].used
                 /\ rs[l].mailed = ls[l].mailed
                 /\ rs[l].revoked = (ls[l].revoked \/ l \in is)
<1>. DEFINE rs == AC!Revoked(ls, is)
<1>1. DOMAIN ls = 1 .. Len(ls) /\ Len(ls) \in Nat /\ DOMAIN rs = DOMAIN ls
  BY DEF AC!Revoked
<1>2. ASSUME NEW l \in DOMAIN ls
      PROVE  /\ rs[l] \in Link
             /\ rs[l].kind = ls[l].kind /\ rs[l].used = ls[l].used
             /\ rs[l].mailed = ls[l].mailed
             /\ rs[l].revoked = (ls[l].revoked \/ l \in is)
  <2>1. ls[l] \in Link
    OBVIOUS
  <2>2. rs[l] = [ls[l] EXCEPT !.revoked = @ \/ l \in is]
    BY DEF AC!Revoked
  <2>. QED BY <2>1, <2>2 DEF Link
<1>3. rs = [l \in 1 .. Len(ls) |-> rs[l]]
  BY <1>1 DEF AC!Revoked
<1>4. rs \in Seq(Link) /\ Len(rs) = Len(ls)
  <2>. HIDE DEF rs
  <2>. QED BY <1>1, <1>2, <1>3
<1>. QED BY <1>1, <1>2, <1>4

\* How a call goes on: what was read, committed, or answered.
PcOf(cs, i, pc) == [cs EXCEPT ![i].pc = pc]
ReadBy(cs, i, seen) == [cs EXCEPT ![i].pc = "read", ![i].seen = seen]
CommittedBy(cs, i, link) ==
  [cs EXCEPT ![i].pc = "committed", ![i].seen = {}, ![i].link = link]
UsedBy(cs, i) == [cs EXCEPT ![i].pc = "answered", ![i].seen = {}]

\* A call replaced by another where it stands.
LEMMA CallSet ==
  ASSUME NEW cs \in Seq(AccountCall), NEW i \in DOMAIN cs, NEW c \in AccountCall,
         NEW ds, ds = [cs EXCEPT ![i] = c]
  PROVE  /\ ds \in Seq(AccountCall) /\ DOMAIN ds = DOMAIN cs /\ ds[i] = c
         /\ \A j \in DOMAIN cs : j # i => ds[j] = cs[j]
OBVIOUS

LEMMA PcSet ==
  ASSUME NEW cs \in Seq(AccountCall), NEW i \in DOMAIN cs, NEW pc \in CallState,
         NEW ds, ds = PcOf(cs, i, pc)
  PROVE  /\ ds \in Seq(AccountCall) /\ DOMAIN ds = DOMAIN cs
         /\ ds[i].kind = cs[i].kind /\ ds[i].link = cs[i].link /\ ds[i].seen = cs[i].seen
         /\ ds[i].pc = pc
         /\ \A j \in DOMAIN cs : j # i => ds[j] = cs[j]
<1>1. PICK c : c = [cs[i] EXCEPT !.pc = pc]
  OBVIOUS
<1>2. cs[i] \in AccountCall
  OBVIOUS
<1>3. c \in AccountCall /\ c.kind = cs[i].kind /\ c.link = cs[i].link /\ c.seen = cs[i].seen
      /\ c.pc = pc
  BY <1>1, <1>2 DEF AccountCall
<1>4. ds = [cs EXCEPT ![i] = c]
  BY <1>1 DEF PcOf
<1>. QED BY <1>3, <1>4

LEMMA ReadSet ==
  ASSUME NEW cs \in Seq(AccountCall), NEW i \in DOMAIN cs, NEW seen \in SUBSET Nat,
         NEW ds, ds = ReadBy(cs, i, seen)
  PROVE  /\ ds \in Seq(AccountCall) /\ DOMAIN ds = DOMAIN cs
         /\ ds[i].kind = cs[i].kind /\ ds[i].link = cs[i].link
         /\ ds[i].pc = "read" /\ ds[i].seen = seen
         /\ \A j \in DOMAIN cs : j # i => ds[j] = cs[j]
<1>1. PICK b, c : b = [cs[i] EXCEPT !.pc = "read"] /\ c = [b EXCEPT !.seen = seen]
  OBVIOUS
<1>2. cs[i] \in AccountCall
  OBVIOUS
<1>3. b \in AccountCall /\ b.kind = cs[i].kind /\ b.link = cs[i].link /\ b.pc = "read"
  BY <1>1, <1>2 DEF AccountCall, CallState
<1>4. c \in AccountCall /\ c.kind = b.kind /\ c.link = b.link /\ c.pc = b.pc /\ c.seen = seen
  BY <1>1, <1>3 DEF AccountCall
<1>5. ds = [cs EXCEPT ![i] = c]
  BY <1>1 DEF ReadBy
<1>. QED BY <1>3, <1>4, <1>5

LEMMA CommittedSet ==
  ASSUME NEW cs \in Seq(AccountCall), NEW i \in DOMAIN cs, NEW link \in Nat,
         NEW ds, ds = CommittedBy(cs, i, link)
  PROVE  /\ ds \in Seq(AccountCall) /\ DOMAIN ds = DOMAIN cs
         /\ ds[i].kind = cs[i].kind /\ ds[i].link = link /\ ds[i].pc = "committed"
         /\ \A j \in DOMAIN cs : j # i => ds[j] = cs[j]
<1>1. PICK a, b, c : /\ a = [cs[i] EXCEPT !.pc = "committed"]
                     /\ b = [a EXCEPT !.seen = {}]
                     /\ c = [b EXCEPT !.link = link]
  OBVIOUS
<1>2. cs[i] \in AccountCall
  OBVIOUS
<1>3. a \in AccountCall /\ a.kind = cs[i].kind /\ a.pc = "committed"
  BY <1>1, <1>2 DEF AccountCall, CallState
<1>4. b \in AccountCall /\ b.kind = a.kind /\ b.pc = a.pc
  BY <1>1, <1>3 DEF AccountCall
<1>5. c \in AccountCall /\ c.kind = b.kind /\ c.pc = b.pc /\ c.link = link
  BY <1>1, <1>4 DEF AccountCall
<1>6. ds = [cs EXCEPT ![i] = c]
  BY <1>1 DEF CommittedBy
<1>. QED BY <1>3, <1>4, <1>5, <1>6

LEMMA UsedSet ==
  ASSUME NEW cs \in Seq(AccountCall), NEW i \in DOMAIN cs, NEW ds, ds = UsedBy(cs, i)
  PROVE  /\ ds \in Seq(AccountCall) /\ DOMAIN ds = DOMAIN cs
         /\ ds[i].kind = cs[i].kind /\ ds[i].link = cs[i].link /\ ds[i].pc = "answered"
         /\ \A j \in DOMAIN cs : j # i => ds[j] = cs[j]
<1>1. PICK b, c : b = [cs[i] EXCEPT !.pc = "answered"] /\ c = [b EXCEPT !.seen = {}]
  OBVIOUS
<1>2. cs[i] \in AccountCall
  OBVIOUS
<1>3. b \in AccountCall /\ b.kind = cs[i].kind /\ b.link = cs[i].link /\ b.pc = "answered"
  BY <1>1, <1>2 DEF AccountCall, CallState
<1>4. c \in AccountCall /\ c.kind = b.kind /\ c.link = b.link /\ c.pc = b.pc
  BY <1>1, <1>3 DEF AccountCall
<1>5. ds = [cs EXCEPT ![i] = c]
  BY <1>1 DEF UsedBy
<1>. QED BY <1>3, <1>4, <1>5

\* What the account's links and calls keep when a step only adds to them.
LEMMA FitsStays ==
  ASSUME NEW ls, ls = links',
         \A l \in DOMAIN links : l \in DOMAIN ls /\ ls[l].kind = links[l].kind,
         NEW c, Fits(c), Committed(c) => ls[c.link].mailed = links[c.link].mailed
  PROVE  Fits(c)'
BY DEF Fits, RevokedBy, AskedBy, Committed

LEMMA OnceStays ==
  ASSUME Once, NEW ls, ls = links', NEW cs, cs = accountCalls',
         DOMAIN ls = DOMAIN links,
         \A l \in DOMAIN links : ls[l].used = links[l].used,
         doubled \subseteq doubled',
         \A j \in DOMAIN cs, l \in DOMAIN links :
           Using(cs[j], l) => j \in DOMAIN accountCalls /\ Using(accountCalls[j], l)
  PROVE  Once'
<1>. SUFFICES ASSUME NEW l \in DOMAIN ls, l \notin doubled'
              PROVE  /\ ls[l].used <= 1
                     /\ \A j \in DOMAIN cs : Using(cs[j], l) => ls[l].used = 0
                     /\ \A i, j \in DOMAIN cs : Using(cs[i], l) /\ Using(cs[j], l) => i = j
  BY DEF Once, Using
<1>1. l \in DOMAIN links /\ l \notin doubled /\ ls[l].used = links[l].used
  OBVIOUS
<1>. QED BY <1>1 DEF Once

LEMMA OneWorksStays ==
  ASSUME OneWorks, AccountTypes, NEW ls, ls = links', NEW cs, cs = accountCalls',
         DOMAIN ls = DOMAIN links,
         \A l \in DOMAIN links :
           /\ ls[l].kind = links[l].kind
           /\ ls[l].used = 0 => links[l].used = 0
           /\ links[l].revoked => ls[l].revoked,
         raced \subseteq raced',
         \A j \in DOMAIN cs, k \in Kind :
           Pending(cs[j], k) => /\ j \in DOMAIN accountCalls /\ Pending(accountCalls[j], k)
                                /\ cs[j].seen = accountCalls[j].seen
  PROVE  OneWorks'
<1>. DEFINE unused(k) == {l \in DOMAIN ls : ls[l].kind = k /\ ls[l].used = 0 /\ ~ls[l].revoked}
<1>1. \A k : unused(k) \subseteq AC!Unused(k)
  BY DEF AC!Unused
<1>2. SUFFICES ASSUME NEW k \in Kind, k \notin raced
               PROVE  /\ \A i, j \in unused(k) : i = j
                      /\ \A j \in DOMAIN cs : Pending(cs[j], k) => unused(k) \subseteq cs[j].seen
                      /\ \A i, j \in DOMAIN cs : Pending(cs[i], k) /\ Pending(cs[j], k) => i = j
  BY DEF OneWorks, AC!Unused, Pending, AskedBy
<1>. HIDE DEF unused
<1>. QED BY <1>1, <1>2 DEF OneWorks

LEMMA CauseStays ==
  ASSUME NEW ls, ls = links', links \in Seq(Link), ls \in Seq(Link),
         \A l \in DOMAIN links :
           /\ l \in DOMAIN ls
           /\ ls[l].kind = links[l].kind
           /\ links[l].used > 0 => ls[l].used > 0
  PROVE  \A l \in DOMAIN links : Cause(l) => Cause(l)'
BY DEF Cause

LEMMA WithCauseStays ==
  ASSUME WithCause, NEW ls, ls = links', NEW cs, cs = accountCalls',
         links \in Seq(Link), ls \in Seq(Link),
         DOMAIN ls = DOMAIN links,
         \A l \in DOMAIN links :
           /\ ls[l].kind = links[l].kind
           /\ links[l].used > 0 => ls[l].used > 0
           /\ ls[l].mailed = links[l].mailed
           /\ ls[l].revoked => links[l].revoked \/ Cause(l)',
         \A j \in DOMAIN cs :
           Committed(cs[j]) => /\ j \in DOMAIN accountCalls /\ Committed(accountCalls[j])
                               /\ cs[j].link = accountCalls[j].link
  PROVE  WithCause'
<1>1. \A l \in DOMAIN links : Cause(l) => Cause(l)'
  BY CauseStays
<1>2. ASSUME NEW l \in DOMAIN ls, ls[l].revoked
      PROVE  \/ Cause(l)'
             \/ ~ls[l].mailed /\ \A j \in DOMAIN cs : Committed(cs[j]) => cs[j].link # l
  BY <1>1, <1>2 DEF WithCause
<1>3. \A i, j \in DOMAIN cs :
        Committed(cs[i]) /\ Committed(cs[j]) /\ cs[i].link = cs[j].link => i = j
  BY DEF WithCause
<1>. QED BY <1>2, <1>3 DEF WithCause, Committed

Resting == {"sent", "created", "answered", "refused"}

\* Steps after which no call but those it had holds anything.
LEMMA Quiet ==
  ASSUME AccountSound, UNCHANGED <<links, doubled, raced>>, NEW cs, cs = accountCalls',
         cs \in Seq(AccountCall),
         \A j \in DOMAIN cs :
           \/ j \in DOMAIN accountCalls /\ cs[j] = accountCalls[j]
           \/ Fits(cs[j]) /\ cs[j].pc \in Resting,
         opened' \in [Tab -> Nat],
         \A t \in Tab : opened'[t] # 0 => opened'[t] \in DOMAIN links
  PROVE  AccountSound'
<1>1. PICK ls : ls = links' /\ ls = links
  OBVIOUS
<1>2. AccountTypes /\ Once /\ OneWorks /\ WithCause
  BY DEF AccountSound
<1>3. AccountTypes'
  <2>1. \A j \in DOMAIN cs : Fits(cs[j])'
    BY <1>1, <1>2, FitsStays DEF AccountTypes
  <2>. QED BY <1>2, <2>1 DEF AccountTypes
<1>4. Once'
  <2>1. \A j \in DOMAIN cs, l \in DOMAIN links :
          Using(cs[j], l) => j \in DOMAIN accountCalls /\ Using(accountCalls[j], l)
    BY DEF Using, Resting
  <2>. QED BY <1>1, <1>2, <2>1, OnceStays
<1>5. OneWorks'
  <2>1. \A j \in DOMAIN cs, k \in Kind :
          Pending(cs[j], k) => /\ j \in DOMAIN accountCalls /\ Pending(accountCalls[j], k)
                               /\ cs[j].seen = accountCalls[j].seen
    BY DEF Pending, Resting
  <2>. QED BY <1>1, <1>2, <2>1, OneWorksStays
<1>6. WithCause'
  <2>1. \A j \in DOMAIN cs :
          Committed(cs[j]) => /\ j \in DOMAIN accountCalls /\ Committed(accountCalls[j])
                              /\ cs[j].link = accountCalls[j].link
    BY DEF Committed, Resting
  <2>. QED BY <1>1, <1>2, <2>1, WithCauseStays DEF AccountTypes
<1>. QED BY <1>3, <1>4, <1>5, <1>6 DEF AccountSound

\* A call sent by a page.
LEMMA SendKeeps ==
  ASSUME AccountSound, NEW p, NEW kind \in {"signup", "verify", "reset", "use"}, NEW link \in Nat,
         kind = "use" => link \in DOMAIN links,
         AC!Send(p, kind, link),
         opened' \in [Tab -> Nat],
         \A t \in Tab : opened'[t] # 0 => opened'[t] \in DOMAIN links
  PROVE  AccountSound'
<1>1. PICK c : c = [kind |-> kind, link |-> link, pc |-> "sent", seen |-> {}]
  OBVIOUS
<1>2. accountCalls' = Append(accountCalls, c) /\ UNCHANGED <<links, doubled, raced>>
  BY <1>1 DEF AC!Send, AC!server, AC!history
<1>3. c \in AccountCall
  BY <1>1 DEF AccountCall, CallState
<1>4. Fits(c) /\ c.pc \in Resting
  BY <1>1 DEF Fits, Resting
<1>5. PICK cs : cs = accountCalls'
  OBVIOUS
<1>6. cs \in Seq(AccountCall)
  BY <1>2, <1>3, <1>5 DEF AccountSound, AccountTypes
<1>7. \A j \in DOMAIN cs : (j \in DOMAIN accountCalls /\ cs[j] = accountCalls[j]) \/ cs[j] = c
  BY <1>2, <1>3, <1>5 DEF AccountSound, AccountTypes
<1>. QED BY <1>2, <1>4, <1>5, <1>6, <1>7, Quiet

LEMMA PagesKeep ==
  ASSUME AccountSound,
         \/ AC!signup \/ AC!handleResendVerification \/ AC!resendVerificationEmail
         \/ AC!forgotPassword
         \/ \E t \in Tab, i \in DOMAIN links : AC!OpenVerifyLink(t, i) \/ AC!OpenResetLink(t, i)
         \/ \E t \in Tab : AC!resetPassword(t)
         \/ \E p \in AC!Page : AC!Answered(p) \/ AC!GiveUp(p)
         \/ UNCHANGED ac
  PROVE  AccountSound'
<1>0. /\ opened \in [Tab -> Nat] /\ links \in Seq(Link) /\ accountCalls \in Seq(AccountCall)
      /\ \A t \in Tab : opened[t] # 0 => opened[t] \in DOMAIN links
  BY DEF AccountSound, AccountTypes
<1>1. CASE \/ AC!signup \/ AC!handleResendVerification \/ AC!resendVerificationEmail
           \/ AC!forgotPassword
  <2>1. UNCHANGED opened
    BY <1>1 DEF AC!signup, AC!handleResendVerification, AC!resendVerificationEmail,
                AC!forgotPassword
  <2>2. \E p : \E kind \in {"signup", "verify", "reset"} : AC!Send(p, kind, 0)
    BY <1>1 DEF AC!signup, AC!handleResendVerification, AC!resendVerificationEmail,
                AC!forgotPassword
  <2>. QED BY <1>0, <2>1, <2>2, SendKeeps
<1>2. ASSUME NEW t \in Tab, NEW i \in DOMAIN links, AC!OpenVerifyLink(t, i)
      PROVE  AccountSound'
  <2>1. AC!Send(t, "use", i) /\ opened' = [opened EXCEPT ![t] = i] /\ i \in Nat
    BY <1>0, <1>2 DEF AC!OpenVerifyLink
  <2>. QED BY <1>0, <2>1, SendKeeps
<1>3. ASSUME NEW t \in Tab, AC!resetPassword(t)
      PROVE  AccountSound'
  <2>1. AC!Send(t, "use", opened[t]) /\ opened[t] # 0 /\ UNCHANGED opened
    BY <1>3 DEF AC!resetPassword
  <2>. QED BY <1>0, <2>1, SendKeeps
<1>4. ASSUME NEW t \in Tab, NEW i \in DOMAIN links, AC!OpenResetLink(t, i)
      PROVE  AccountSound'
  <2>1. /\ opened' = [opened EXCEPT ![t] = i] /\ i \in Nat
        /\ UNCHANGED <<links, accountCalls, doubled, raced>>
    BY <1>0, <1>4 DEF AC!OpenResetLink, AC!server, AC!history
  <2>2. PICK cs : cs = accountCalls'
    OBVIOUS
  <2>. QED BY <1>0, <2>1, <2>2, Quiet
<1>5. CASE (\E p \in AC!Page : AC!Answered(p) \/ AC!GiveUp(p)) \/ UNCHANGED ac
  <2>1. UNCHANGED <<links, accountCalls, doubled, raced, opened>>
    BY <1>5 DEF AC!Answered, AC!GiveUp, AC!server, AC!history, ac
  <2>2. PICK cs : cs = accountCalls'
    OBVIOUS
  <2>. QED BY <1>0, <2>1, <2>2, Quiet
<1>. QED BY <1>1, <1>2, <1>3, <1>4, <1>5

\* An answer that has nothing to do with a link.
LEMMA RefusedKeeps ==
  ASSUME AccountSound, NEW i \in DOMAIN accountCalls, NEW pc \in Resting, AC!At(i, pc),
         UNCHANGED <<links, doubled, raced, opened>>
  PROVE  AccountSound'
<1>1. PICK cs : cs = accountCalls' /\ cs = PcOf(accountCalls, i, pc)
  BY DEF AC!At, PcOf
<1>2. accountCalls \in Seq(AccountCall) /\ pc \in CallState
  BY DEF AccountSound, AccountTypes, Resting, CallState
<1>3. /\ cs \in Seq(AccountCall) /\ DOMAIN cs = DOMAIN accountCalls
      /\ cs[i].kind = accountCalls[i].kind /\ cs[i].link = accountCalls[i].link
      /\ cs[i].pc = pc
      /\ \A j \in DOMAIN accountCalls : j # i => cs[j] = accountCalls[j]
  BY <1>1, <1>2, PcSet
<1>4. Fits(cs[i])
  BY <1>3 DEF AccountSound, AccountTypes, Fits, Resting
<1>. QED BY <1>1, <1>3, <1>4, Quiet DEF AccountSound, AccountTypes

\* The links unused are read by a call that asks for another.
LEMMA ReadKeeps ==
  ASSUME AccountSound, NEW i \in DOMAIN accountCalls, AC!ReadLinks(i)
  PROVE  AccountSound'
<1>. DEFINE c == accountCalls[i]
            k == AC!Asks(i)
<1>1. /\ UNCHANGED <<links, doubled, opened>> /\ c.kind # "use" /\ k \in Kind
      /\ k = AskedBy(c) /\ c.pc # "read"
  BY DEF AC!ReadLinks, AC!server, AC!browser, AC!Asks, Kind, AskedBy
<1>2. CASE AC!At(i, "answered") /\ UNCHANGED raced
  BY <1>1, <1>2, RefusedKeeps DEF Resting
<1>3. CASE /\ accountCalls' = [accountCalls EXCEPT ![i].pc = "read", ![i].seen = AC!Unused(k)]
           /\ raced' = raced \cup
                {x \in {k} : \E j \in DOMAIN accountCalls :
                   accountCalls[j].kind # "use" /\ AC!Asks(j) = x /\ accountCalls[j].pc = "read"}
  <2>1. PICK seen, cs : seen = AC!Unused(k) /\ cs = ReadBy(accountCalls, i, seen)
    OBVIOUS
  <2>2. cs = accountCalls'
    BY <1>3, <2>1 DEF ReadBy
  <2>3. /\ AccountTypes /\ Once /\ OneWorks /\ WithCause
        /\ links \in Seq(Link) /\ accountCalls \in Seq(AccountCall)
    BY DEF AccountSound, AccountTypes
  <2>4. seen \subseteq DOMAIN links /\ seen \in SUBSET Nat
        /\ \A l \in seen : links[l].kind = k
    <3>1. DOMAIN links \subseteq Nat
      BY <2>3
    <3>. QED BY <2>1, <3>1 DEF AC!Unused
  <2>. HIDE DEF c
  <2>5. /\ cs \in Seq(AccountCall) /\ DOMAIN cs = DOMAIN accountCalls
        /\ cs[i].kind = c.kind /\ cs[i].link = c.link /\ cs[i].pc = "read" /\ cs[i].seen = seen
        /\ \A j \in DOMAIN accountCalls : j # i => cs[j] = accountCalls[j]
    BY <2>1, <2>3, <2>4, ReadSet DEF c
  <2>6. AccountTypes'
    <3>1. Fits(cs[i])
      BY <1>1, <2>4, <2>5 DEF Fits, RevokedBy, AskedBy
    <3>2. \A j \in DOMAIN cs : Fits(cs[j])
      BY <2>3, <2>5, <3>1 DEF AccountTypes
    <3>3. PICK ls : ls = links' /\ ls = links
      BY <1>1
    <3>4. \A j \in DOMAIN cs : Fits(cs[j])'
      BY <3>2, <3>3, FitsStays
    <3>. QED BY <1>1, <2>2, <2>3, <2>5, <3>4 DEF AccountTypes
  <2>7. Once'
    <3>1. \A j \in DOMAIN cs, l \in DOMAIN links :
            Using(cs[j], l) => j \in DOMAIN accountCalls /\ Using(accountCalls[j], l)
      BY <1>1, <2>5 DEF Using
    <3>2. PICK ls : ls = links' /\ ls = links
      BY <1>1
    <3>. QED BY <1>1, <2>2, <2>3, <3>1, <3>2, OnceStays
  <2>8. OneWorks'
    <3>1. SUFFICES ASSUME NEW x \in Kind, x \notin raced'
                   PROVE  /\ \A l, m \in AC!Unused(x) : l = m
                          /\ \A j \in DOMAIN cs :
                               Pending(cs[j], x) => AC!Unused(x) \subseteq cs[j].seen
                          /\ \A j, m \in DOMAIN cs :
                               Pending(cs[j], x) /\ Pending(cs[m], x) => j = m
      BY <1>1, <2>2 DEF OneWorks, AC!Unused, Pending, AskedBy
    <3>2. x \notin raced
      BY <1>3, <3>1
    <3>3. CASE x = k
      <4>1. \A j \in DOMAIN accountCalls : ~Pending(accountCalls[j], x)
        BY <1>3, <3>1, <3>3 DEF Pending, AskedBy, AC!Asks
      <4>2. \A j \in DOMAIN cs : Pending(cs[j], x) => j = i
        BY <2>5, <4>1
      <4>. QED BY <2>1, <2>3, <2>5, <3>2, <3>3, <4>2 DEF OneWorks
    <3>4. CASE x # k
      <4>1. \A j \in DOMAIN cs : Pending(cs[j], x) => j # i
        BY <1>1, <2>5, <3>4 DEF Pending, AskedBy
      <4>. QED BY <2>3, <2>5, <3>2, <4>1 DEF OneWorks
    <3>. QED BY <3>3, <3>4
  <2>9. WithCause'
    <3>1. \A j \in DOMAIN cs :
            Committed(cs[j]) => /\ j \in DOMAIN accountCalls /\ Committed(accountCalls[j])
                                /\ cs[j].link = accountCalls[j].link
      BY <2>5 DEF Committed
    <3>2. PICK ls : ls = links' /\ ls = links
      BY <1>1
    <3>. QED BY <2>2, <2>3, <3>1, <3>2, WithCauseStays
  <2>. QED BY <2>6, <2>7, <2>8, <2>9 DEF AccountSound
<1>. QED BY <1>2, <1>3 DEF AC!ReadLinks

\* A link mailed, and one used.
MailedOf(ls, l) == [ls EXCEPT ![l].mailed = TRUE]
UsedOf(ls, l) == [ls EXCEPT ![l].used = @ + 1]

LEMMA MailedLinks ==
  ASSUME NEW ls \in Seq(Link), NEW l \in DOMAIN ls, NEW ms, ms = MailedOf(ls, l)
  PROVE  /\ ms \in Seq(Link) /\ DOMAIN ms = DOMAIN ls
         /\ \A m \in DOMAIN ls :
              /\ ms[m].kind = ls[m].kind /\ ms[m].used = ls[m].used
              /\ ms[m].revoked = ls[m].revoked
         /\ \A m \in DOMAIN ls : m # l => ms[m] = ls[m]
<1>1. PICK r : r = [ls[l] EXCEPT !.mailed = TRUE]
  OBVIOUS
<1>2. ls[l] \in Link
  OBVIOUS
<1>3. r \in Link /\ r.kind = ls[l].kind /\ r.used = ls[l].used /\ r.revoked = ls[l].revoked
  BY <1>1, <1>2 DEF Link
<1>4. ms = [ls EXCEPT ![l] = r]
  BY <1>1 DEF MailedOf
<1>. QED BY <1>3, <1>4

LEMMA UsedLinks ==
  ASSUME NEW ls \in Seq(Link), NEW l \in DOMAIN ls, NEW us, us = UsedOf(ls, l)
  PROVE  /\ us \in Seq(Link) /\ DOMAIN us = DOMAIN ls
         /\ us[l].used = ls[l].used + 1
         /\ \A m \in DOMAIN ls :
              /\ us[m].kind = ls[m].kind /\ us[m].mailed = ls[m].mailed
              /\ us[m].revoked = ls[m].revoked
         /\ \A m \in DOMAIN ls : m # l => us[m] = ls[m]
<1>1. PICK r : r = [ls[l] EXCEPT !.used = ls[l].used + 1]
  OBVIOUS
<1>2. ls[l] \in Link
  OBVIOUS
<1>3. r \in Link /\ r.kind = ls[l].kind /\ r.mailed = ls[l].mailed /\ r.revoked = ls[l].revoked
      /\ r.used = ls[l].used + 1
  BY <1>1, <1>2 DEF Link
<1>4. us = [ls EXCEPT ![l] = r]
  BY <1>1 DEF UsedOf
<1>. QED BY <1>3, <1>4

\* A link is checked: from now on it is being used.
LEMMA CheckKeeps ==
  ASSUME AccountSound, NEW i \in DOMAIN accountCalls, AC!CheckLink(i)
  PROVE  AccountSound'
<1>. DEFINE c == accountCalls[i]
            l == c.link
            theirs == {j \in DOMAIN accountCalls :
                         /\ accountCalls[j].kind = "use" /\ accountCalls[j].link = l
                         /\ accountCalls[j].pc \in {"checked", "read"}}
<1>1. /\ AccountTypes /\ Once /\ OneWorks /\ WithCause
      /\ links \in Seq(Link) /\ accountCalls \in Seq(AccountCall)
  BY DEF AccountSound, AccountTypes
<1>2. /\ c.kind = "use" /\ c.pc = "sent" /\ l \in DOMAIN links
      /\ UNCHANGED <<links, raced, opened>>
  BY <1>1 DEF AC!CheckLink, AC!server, AC!browser, AccountTypes, Fits
<1>3. PICK refused \in AC!Refuses(l) :
        /\ AC!At(i, IF refused THEN "refused" ELSE "checked")
        /\ doubled' = doubled \cup {m \in {l} : ~refused /\ theirs # {}}
  BY DEF AC!CheckLink
<1>. HIDE DEF c
<1>4. CASE refused
  <2>1. AC!At(i, "refused") /\ UNCHANGED doubled
    BY <1>3, <1>4
  <2>. QED BY <1>2, <2>1, RefusedKeeps DEF Resting
<1>5. CASE ~refused
  <2>1. links[l].used = 0
    BY <1>3, <1>5 DEF AC!Refuses, AC!Works, AC!Unused
  <2>2. PICK cs : cs = PcOf(accountCalls, i, "checked")
    OBVIOUS
  <2>3. cs = accountCalls' /\ doubled' = doubled \cup {m \in {l} : theirs # {}}
    BY <1>3, <1>5, <2>2 DEF AC!At, PcOf
  <2>4. /\ cs \in Seq(AccountCall) /\ DOMAIN cs = DOMAIN accountCalls
        /\ cs[i].kind = c.kind /\ cs[i].link = l /\ cs[i].pc = "checked"
        /\ \A j \in DOMAIN accountCalls : j # i => cs[j] = accountCalls[j]
    <3>1. "checked" \in CallState /\ accountCalls \in Seq(AccountCall)
      BY <1>1 DEF CallState
    <3>. QED BY <2>2, <3>1, PcSet DEF c
  <2>5. PICK ls : ls = links' /\ ls = links
    BY <1>2
  <2>6. AccountTypes'
    <3>1. \A j \in DOMAIN cs : Fits(cs[j])
      BY <1>1, <1>2, <2>4 DEF AccountTypes, Fits
    <3>2. \A j \in DOMAIN cs : Fits(cs[j])'
      BY <2>5, <3>1, FitsStays
    <3>. QED BY <1>1, <1>2, <2>3, <2>4, <3>2 DEF AccountTypes
  <2>7. Once'
    <3>1. SUFFICES ASSUME NEW m \in DOMAIN links, m \notin doubled'
                   PROVE  /\ links[m].used <= 1
                          /\ \A j \in DOMAIN cs : Using(cs[j], m) => links[m].used = 0
                          /\ \A j, k \in DOMAIN cs : Using(cs[j], m) /\ Using(cs[k], m) => j = k
      BY <2>3, <2>5 DEF Once, Using
    <3>2. m \notin doubled /\ (m = l => theirs = {})
      BY <2>3, <3>1
    <3>3. CASE m = l
      <4>1. \A j \in DOMAIN accountCalls : ~Using(accountCalls[j], m)
        BY <3>2, <3>3 DEF Using
      <4>2. \A j \in DOMAIN cs : Using(cs[j], m) => j = i
        BY <2>4, <4>1
      <4>. QED BY <2>1, <3>3, <4>2
    <3>4. CASE m # l
      <4>1. \A j \in DOMAIN cs : Using(cs[j], m) => j # i
        BY <2>4, <3>4 DEF Using
      <4>. QED BY <1>1, <2>4, <3>2, <4>1 DEF Once
    <3>. QED BY <3>3, <3>4
  <2>8. OneWorks'
    <3>1. \A j \in DOMAIN cs, k \in Kind :
            Pending(cs[j], k) => /\ j \in DOMAIN accountCalls /\ Pending(accountCalls[j], k)
                                 /\ cs[j].seen = accountCalls[j].seen
      BY <2>4 DEF Pending
    <3>. QED BY <1>1, <1>2, <2>3, <2>5, <3>1, OneWorksStays
  <2>9. WithCause'
    <3>1. \A j \in DOMAIN cs :
            Committed(cs[j]) => /\ j \in DOMAIN accountCalls /\ Committed(accountCalls[j])
                                /\ cs[j].link = accountCalls[j].link
      BY <2>4 DEF Committed
    <3>. QED BY <1>1, <2>3, <2>5, <3>1, WithCauseStays
  <2>. QED BY <2>6, <2>7, <2>8, <2>9 DEF AccountSound
<1>. QED BY <1>4, <1>5

\* The account's other links are read.
LEMMA OthersRead ==
  ASSUME AccountSound, NEW i \in DOMAIN accountCalls, AC!ReadOthers(i)
  PROVE  AccountSound'
<1>. DEFINE c == accountCalls[i]
            l == c.link
<1>1. /\ AccountTypes /\ Once /\ OneWorks /\ WithCause
      /\ links \in Seq(Link) /\ accountCalls \in Seq(AccountCall)
  BY DEF AccountSound, AccountTypes
<1>2. /\ c.kind = "use" /\ c.pc = "checked" /\ l \in DOMAIN links
      /\ UNCHANGED <<links, raced, doubled, opened>>
  BY <1>1 DEF AC!ReadOthers, AC!server, AC!browser, AC!history, AccountTypes, Fits
<1>3. PICK seen, cs : seen = AC!Unused(links[l].kind) /\ cs = ReadBy(accountCalls, i, seen)
  OBVIOUS
<1>4. cs = accountCalls'
  BY <1>3 DEF AC!ReadOthers, ReadBy
<1>5. seen \subseteq DOMAIN links /\ seen \in SUBSET Nat
      /\ \A m \in seen : links[m].kind = links[l].kind
  <2>1. DOMAIN links \subseteq Nat
    BY <1>1
  <2>. QED BY <1>3, <2>1 DEF AC!Unused
<1>6. /\ cs \in Seq(AccountCall) /\ DOMAIN cs = DOMAIN accountCalls
      /\ cs[i].kind = c.kind /\ cs[i].link = l /\ cs[i].pc = "read" /\ cs[i].seen = seen
      /\ \A j \in DOMAIN accountCalls : j # i => cs[j] = accountCalls[j]
  BY <1>1, <1>3, <1>5, ReadSet
<1>. HIDE DEF c
<1>7. PICK ls : ls = links' /\ ls = links
  BY <1>2
<1>8. AccountTypes'
  <2>1. \A j \in DOMAIN cs : Fits(cs[j])
    BY <1>1, <1>2, <1>5, <1>6 DEF AccountTypes, Fits, RevokedBy
  <2>2. \A j \in DOMAIN cs : Fits(cs[j])'
    BY <1>7, <2>1, FitsStays
  <2>. QED BY <1>1, <1>2, <1>4, <1>6, <2>2 DEF AccountTypes
<1>9. Once'
  <2>1. \A j \in DOMAIN cs, m \in DOMAIN links :
          Using(cs[j], m) => j \in DOMAIN accountCalls /\ Using(accountCalls[j], m)
    BY <1>2, <1>6 DEF Using, c
  <2>. QED BY <1>1, <1>2, <1>4, <1>7, <2>1, OnceStays
<1>10. OneWorks'
  <2>1. \A j \in DOMAIN cs, k \in Kind :
          Pending(cs[j], k) => /\ j \in DOMAIN accountCalls /\ Pending(accountCalls[j], k)
                               /\ cs[j].seen = accountCalls[j].seen
    BY <1>2, <1>6 DEF Pending
  <2>. QED BY <1>1, <1>2, <1>4, <1>7, <2>1, OneWorksStays
<1>11. WithCause'
  <2>1. \A j \in DOMAIN cs :
          Committed(cs[j]) => /\ j \in DOMAIN accountCalls /\ Committed(accountCalls[j])
                              /\ cs[j].link = accountCalls[j].link
    BY <1>6 DEF Committed
  <2>. QED BY <1>1, <1>4, <1>7, <2>1, WithCauseStays
<1>. QED BY <1>8, <1>9, <1>10, <1>11 DEF AccountSound

\* A new link is committed: those its call saw are revoked.
LEMMA CommitKeeps ==
  ASSUME AccountSound, NEW i \in DOMAIN accountCalls, AC!CommitLink(i)
  PROVE  AccountSound'
<1>. DEFINE c == accountCalls[i]
            k == AC!Asks(i)
            new == [kind |-> k, used |-> 0, revoked |-> FALSE, mailed |-> FALSE]
<1>1. /\ AccountTypes /\ Once /\ OneWorks /\ WithCause
      /\ links \in Seq(Link) /\ accountCalls \in Seq(AccountCall)
  BY DEF AccountSound, AccountTypes
<1>2. /\ c.kind # "use" /\ c.pc = "read" /\ k \in Kind /\ k = AskedBy(c)
      /\ \A l \in c.seen : l \in DOMAIN links /\ links[l].kind = k
      /\ UNCHANGED <<raced, doubled, opened>>
  BY <1>1 DEF AC!CommitLink, AC!browser, AC!history, AC!Asks, Kind, AskedBy,
              AccountTypes, Fits, RevokedBy
<1>3. PICK n, rs, ls, cs, link : /\ n = Len(links) + 1
                                 /\ rs = AC!Revoked(links, c.seen)
                                 /\ link = new
                                 /\ ls = Append(rs, link)
                                 /\ cs = CommittedBy(accountCalls, i, n)
  OBVIOUS
<1>4. /\ rs \in Seq(Link) /\ DOMAIN rs = DOMAIN links /\ Len(rs) = Len(links)
      /\ \A l \in DOMAIN links :
           /\ rs[l].kind = links[l].kind /\ rs[l].used = links[l].used
           /\ rs[l].mailed = links[l].mailed
           /\ rs[l].revoked = (links[l].revoked \/ l \in c.seen)
  BY <1>1, <1>3, RevokedLinks
<1>5. link \in Link /\ link.kind = k /\ link.used = 0 /\ ~link.revoked /\ ~link.mailed
  BY <1>2, <1>3 DEF Link
<1>6. /\ ls \in Seq(Link) /\ DOMAIN ls = DOMAIN links \cup {n} /\ ls[n] = link
      /\ \A l \in DOMAIN links : ls[l] = rs[l]
      /\ n \in Nat /\ n \notin DOMAIN links /\ \A l \in DOMAIN links : n > l
      /\ Len(ls) = n
  BY <1>1, <1>3, <1>4, <1>5
<1>7. ls = links'
  BY <1>3 DEF AC!CommitLink
<1>8. cs = accountCalls'
  BY <1>3, <1>6, <1>7 DEF AC!CommitLink, CommittedBy
<1>9. /\ cs \in Seq(AccountCall) /\ DOMAIN cs = DOMAIN accountCalls
      /\ cs[i].kind = c.kind /\ cs[i].link = n /\ cs[i].pc = "committed"
      /\ \A j \in DOMAIN accountCalls : j # i => cs[j] = accountCalls[j]
  <2>1. n \in Nat /\ cs = CommittedBy(accountCalls, i, n) /\ accountCalls \in Seq(AccountCall)
    BY <1>1, <1>3, <1>6
  <2>. QED BY <2>1, CommittedSet
<1>10. \A l \in DOMAIN links :
         /\ l \in DOMAIN ls
         /\ ls[l].kind = links[l].kind /\ ls[l].used = links[l].used
         /\ ls[l].mailed = links[l].mailed
         /\ ls[l].revoked = (links[l].revoked \/ l \in c.seen)
  BY <1>4, <1>6
<1>. HIDE DEF c, k, new
<1>11. AccountTypes'
  <2>1. Fits(cs[i])'
    BY <1>2, <1>5, <1>6, <1>7, <1>9 DEF Fits
  <2>2. ASSUME NEW j \in DOMAIN cs, j # i PROVE Fits(cs[j])'
    <3>1. Fits(cs[j]) /\ (Committed(cs[j]) => cs[j].link \in DOMAIN links)
      BY <1>1, <1>9, <2>2 DEF AccountTypes, Fits, Committed
    <3>. QED BY <1>7, <1>10, <3>1, FitsStays
  <2>3. \A j \in DOMAIN cs : Fits(cs[j])'
    BY <2>1, <2>2
  <2>. QED BY <1>1, <1>2, <1>6, <1>7, <1>8, <1>9, <2>3 DEF AccountTypes
<1>12. Once'
  <2>1. SUFFICES ASSUME NEW l \in DOMAIN ls, l \notin doubled
                 PROVE  /\ ls[l].used <= 1
                        /\ \A j \in DOMAIN cs : Using(cs[j], l) => ls[l].used = 0
                        /\ \A j, m \in DOMAIN cs : Using(cs[j], l) /\ Using(cs[m], l) => j = m
    BY <1>2, <1>7, <1>8 DEF Once, Using
  <2>2. \A j \in DOMAIN cs :
          Using(cs[j], l) => l \in DOMAIN links /\ Using(accountCalls[j], l)
    BY <1>1, <1>2, <1>9 DEF Using, AccountTypes, Fits
  <2>3. CASE l = n
    BY <1>5, <1>6, <2>2, <2>3
  <2>4. CASE l # n
    <3>1. l \in DOMAIN links /\ ls[l].used = links[l].used
      BY <1>6, <1>10, <2>4
    <3>. QED BY <1>1, <1>9, <2>1, <2>2, <3>1 DEF Once
  <2>. QED BY <2>3, <2>4
<1>13. OneWorks'
  <2>. DEFINE unused(x) == {l \in DOMAIN ls : ls[l].kind = x /\ ls[l].used = 0 /\ ~ls[l].revoked}
  <2>1. SUFFICES ASSUME NEW x \in Kind, x \notin raced
                 PROVE  /\ \A l, m \in unused(x) : l = m
                        /\ \A j \in DOMAIN cs : Pending(cs[j], x) => unused(x) \subseteq cs[j].seen
                        /\ \A j, m \in DOMAIN cs : Pending(cs[j], x) /\ Pending(cs[m], x) => j = m
    BY <1>2, <1>7, <1>8 DEF OneWorks, AC!Unused, Pending, AskedBy
  <2>2. ~Pending(cs[i], x)
    BY <1>9 DEF Pending
  <2>3. CASE x = k
    <3>1. Pending(c, x)
      BY <1>2, <2>3 DEF Pending
    <3>2. \A j \in DOMAIN cs : ~Pending(cs[j], x)
      BY <1>1, <1>9, <2>1, <2>2, <3>1 DEF OneWorks, c
    <3>3. AC!Unused(x) \subseteq c.seen
      BY <1>1, <2>1, <3>1 DEF OneWorks, c
    <3>4. unused(x) \subseteq {n}
      BY <1>6, <1>10, <3>3 DEF AC!Unused
    <3>. QED BY <3>2, <3>4
  <2>4. CASE x # k
    <3>1. unused(x) \subseteq AC!Unused(x)
      BY <1>5, <1>6, <1>10, <2>4 DEF AC!Unused
    <3>. HIDE DEF unused
    <3>2. \A j \in DOMAIN cs : Pending(cs[j], x) => j # i /\ Pending(accountCalls[j], x)
                                                  /\ cs[j].seen = accountCalls[j].seen
      BY <1>9, <2>2
    <3>. QED BY <1>1, <1>9, <2>1, <3>1, <3>2 DEF OneWorks
  <2>. QED BY <2>3, <2>4
<1>14. WithCause'
  <2>1. \A l \in DOMAIN links : Cause(l) => Cause(l)'
    BY <1>1, <1>6, <1>7, <1>10, CauseStays
  <2>2. ASSUME NEW l \in DOMAIN ls, ls[l].revoked
        PROVE  \/ Cause(l)'
               \/ ~ls[l].mailed /\ \A j \in DOMAIN cs : Committed(cs[j]) => cs[j].link # l
    <3>1. l \in DOMAIN links
      BY <1>5, <1>6, <2>2
    <3>2. CASE l \in c.seen
      <4>1. ls[l].kind = ls[n].kind /\ n > l /\ n \in DOMAIN ls
        BY <1>2, <1>5, <1>6, <1>10, <3>1, <3>2
      <4>. QED BY <1>7, <4>1 DEF Cause
    <3>3. CASE l \notin c.seen
      <4>1. \/ Cause(l)
            \/ /\ ~links[l].mailed
               /\ \A j \in DOMAIN accountCalls :
                    Committed(accountCalls[j]) => accountCalls[j].link # l
        BY <1>1, <1>10, <2>2, <3>1, <3>3 DEF WithCause
      <4>. QED BY <1>6, <1>9, <1>10, <2>1, <3>1, <4>1
    <3>. QED BY <3>2, <3>3
  <2>3. ASSUME NEW j \in DOMAIN cs, NEW m \in DOMAIN cs,
               Committed(cs[j]), Committed(cs[m]), cs[j].link = cs[m].link
        PROVE  j = m
    <3>1. \A q \in DOMAIN accountCalls :
            Committed(accountCalls[q]) => accountCalls[q].link \in DOMAIN links
      BY <1>1 DEF AccountTypes, Fits, Committed
    <3>. QED BY <1>1, <1>6, <1>9, <2>3, <3>1 DEF WithCause
  <2>. QED BY <1>7, <1>8, <2>2, <2>3 DEF WithCause, Committed
<1>. QED BY <1>11, <1>12, <1>13, <1>14 DEF AccountSound

\* The mail of a link that was committed is sent, or the link revoked.
LEMMA MailKeeps ==
  ASSUME AccountSound, NEW i \in DOMAIN accountCalls, AC!SendMail(i)
  PROVE  AccountSound'
<1>. DEFINE c == accountCalls[i]
            l == c.link
<1>1. /\ AccountTypes /\ Once /\ OneWorks /\ WithCause
      /\ links \in Seq(Link) /\ accountCalls \in Seq(AccountCall)
  BY DEF AccountSound, AccountTypes
<1>2. /\ c.kind # "use" /\ Committed(c) /\ l \in DOMAIN links /\ ~links[l].mailed
      /\ UNCHANGED <<raced, doubled, opened>>
  BY <1>1 DEF AC!SendMail, AC!browser, AC!history, AccountTypes, Fits, Committed
<1>3. PICK cs, ls : /\ cs = PcOf(accountCalls, i, "answered") /\ cs = accountCalls'
                    /\ ls = links'
                    /\ ls = MailedOf(links, l) \/ ls = AC!Revoked(links, {l})
  BY DEF AC!SendMail, AC!At, PcOf, MailedOf
<1>4. /\ cs \in Seq(AccountCall) /\ DOMAIN cs = DOMAIN accountCalls
      /\ cs[i].kind = c.kind /\ cs[i].pc = "answered"
      /\ \A j \in DOMAIN accountCalls : j # i => cs[j] = accountCalls[j]
  <2>1. "answered" \in CallState
    BY DEF CallState
  <2>. QED BY <1>1, <1>3, <2>1, PcSet
<1>5. /\ ls \in Seq(Link) /\ DOMAIN ls = DOMAIN links
      /\ \A m \in DOMAIN links :
           /\ ls[m].kind = links[m].kind /\ ls[m].used = links[m].used
           /\ m # l => ls[m].mailed = links[m].mailed /\ ls[m].revoked = links[m].revoked
           /\ links[m].revoked => ls[m].revoked
      /\ ls[l].revoked => links[l].revoked \/ ~ls[l].mailed
  <2>1. CASE ls = MailedOf(links, l)
    <3>1. /\ ls \in Seq(Link) /\ DOMAIN ls = DOMAIN links
          /\ \A m \in DOMAIN links :
               /\ ls[m].kind = links[m].kind /\ ls[m].used = links[m].used
               /\ ls[m].revoked = links[m].revoked
          /\ \A m \in DOMAIN links : m # l => ls[m] = links[m]
      BY <1>1, <1>2, <2>1, MailedLinks
    <3>. QED BY <1>2, <3>1
  <2>2. CASE ls = AC!Revoked(links, {l})
    <3>1. PICK is : is = {l}
      OBVIOUS
    <3>2. links \in Seq(Link) /\ ls = AC!Revoked(links, is)
      BY <1>1, <2>2, <3>1
    <3>3. /\ ls \in Seq(Link) /\ DOMAIN ls = DOMAIN links
          /\ \A m \in DOMAIN links :
               /\ ls[m].kind = links[m].kind /\ ls[m].used = links[m].used
               /\ ls[m].mailed = links[m].mailed
               /\ ls[m].revoked = (links[m].revoked \/ m \in is)
      BY <3>2, RevokedLinks
    <3>4. \A m \in DOMAIN links : links[m].revoked \in BOOLEAN
      <4>1. \A m \in DOMAIN links : links[m] \in Link
        BY <3>2
      <4>. QED BY <4>1 DEF Link
    <3>5. \A m \in DOMAIN links : m \in is <=> m = l
      BY <3>1
    <3>6. \A m \in DOMAIN links : m # l => ls[m].revoked = links[m].revoked
      BY <3>3, <3>4, <3>5
    <3>7. \A m \in DOMAIN links : links[m].revoked => ls[m].revoked
      BY <3>3
    <3>8. ~ls[l].mailed
      BY <1>2, <3>3
    <3>. QED BY <3>3, <3>6, <3>7, <3>8
  <2>. QED BY <1>3, <2>1, <2>2
<1>. HIDE DEF c
<1>6. \A j \in DOMAIN cs :
        Committed(cs[j]) => /\ j \in DOMAIN accountCalls /\ Committed(accountCalls[j])
                            /\ cs[j].link = accountCalls[j].link /\ cs[j].link # l
  BY <1>1, <1>2, <1>4 DEF WithCause, Committed, c
<1>7. AccountTypes'
  <2>1. ASSUME NEW j \in DOMAIN cs PROVE Fits(cs[j])'
    <3>1. Fits(cs[j]) /\ (Committed(cs[j]) => cs[j].link \in DOMAIN links)
      BY <1>1, <1>2, <1>4 DEF AccountTypes, Fits, Committed
    <3>. QED BY <1>3, <1>5, <1>6, <3>1, FitsStays
  <2>. QED BY <1>1, <1>2, <1>3, <1>4, <1>5, <2>1 DEF AccountTypes
<1>8. Once'
  <2>1. \A j \in DOMAIN cs, m \in DOMAIN links :
          Using(cs[j], m) => j \in DOMAIN accountCalls /\ Using(accountCalls[j], m)
    BY <1>2, <1>4 DEF Using
  <2>. QED BY <1>1, <1>2, <1>3, <1>5, <2>1, OnceStays
<1>9. OneWorks'
  <2>1. \A j \in DOMAIN cs, k \in Kind :
          Pending(cs[j], k) => /\ j \in DOMAIN accountCalls /\ Pending(accountCalls[j], k)
                               /\ cs[j].seen = accountCalls[j].seen
    BY <1>4 DEF Pending
  <2>. QED BY <1>1, <1>2, <1>3, <1>5, <2>1, OneWorksStays
<1>10. WithCause'
  <2>1. \A m \in DOMAIN links : Cause(m) => Cause(m)'
    BY <1>1, <1>3, <1>5, CauseStays
  <2>2. ASSUME NEW m \in DOMAIN ls, ls[m].revoked
        PROVE  \/ Cause(m)'
               \/ ~ls[m].mailed /\ \A j \in DOMAIN cs : Committed(cs[j]) => cs[j].link # m
    <3>1. CASE m = l
      <4>1. links[l].revoked => Cause(l)
        BY <1>1, <1>2 DEF WithCause, c
      <4>. QED BY <1>5, <1>6, <2>1, <2>2, <3>1, <4>1
    <3>2. CASE m # l
      BY <1>1, <1>5, <1>6, <2>1, <2>2, <3>2 DEF WithCause
    <3>. QED BY <3>1, <3>2
  <2>3. \A j, m \in DOMAIN cs :
          Committed(cs[j]) /\ Committed(cs[m]) /\ cs[j].link = cs[m].link => j = m
    BY <1>1, <1>6 DEF WithCause
  <2>. QED BY <1>3, <2>2, <2>3 DEF WithCause, Committed
<1>. QED BY <1>7, <1>8, <1>9, <1>10 DEF AccountSound

\* A link is used, and the links of its kind that were unused are revoked.
LEMMA UseKeeps ==
  ASSUME AccountSound, NEW i \in DOMAIN accountCalls, AC!CommitUse(i)
  PROVE  AccountSound'
<1>. DEFINE c == accountCalls[i]
            l == c.link
<1>1. /\ AccountTypes /\ Once /\ OneWorks /\ WithCause
      /\ links \in Seq(Link) /\ accountCalls \in Seq(AccountCall)
  BY DEF AccountSound, AccountTypes
<1>2. /\ Using(c, l) /\ c.kind = "use" /\ l \in DOMAIN links
      /\ \A m \in c.seen : m \in DOMAIN links /\ links[m].kind = links[l].kind
      /\ UNCHANGED <<raced, doubled, opened>>
  BY <1>1 DEF AC!CommitUse, AC!browser, AC!history, AccountTypes, Fits, RevokedBy, Using
<1>3. PICK is, rs, ls, cs : /\ is = c.seen \cup {l} /\ rs = AC!Revoked(links, is)
                            /\ ls = UsedOf(rs, l) /\ cs = UsedBy(accountCalls, i)
  OBVIOUS
<1>4. ls = links' /\ cs = accountCalls'
  BY <1>3 DEF AC!CommitUse, UsedOf, UsedBy
<1>5. /\ cs \in Seq(AccountCall) /\ DOMAIN cs = DOMAIN accountCalls
      /\ cs[i].kind = c.kind /\ cs[i].link = l /\ cs[i].pc = "answered"
      /\ \A j \in DOMAIN accountCalls : j # i => cs[j] = accountCalls[j]
  BY <1>1, <1>3, UsedSet
<1>6. /\ rs \in Seq(Link) /\ DOMAIN rs = DOMAIN links
      /\ \A m \in DOMAIN links :
           /\ rs[m].kind = links[m].kind /\ rs[m].used = links[m].used
           /\ rs[m].mailed = links[m].mailed
           /\ rs[m].revoked = (links[m].revoked \/ m \in is)
  BY <1>1, <1>3, RevokedLinks
<1>7. /\ ls \in Seq(Link) /\ DOMAIN ls = DOMAIN links
      /\ ls[l].used = links[l].used + 1
      /\ \A m \in DOMAIN links :
           /\ ls[m].kind = links[m].kind /\ ls[m].mailed = links[m].mailed
           /\ ls[m].revoked = (links[m].revoked \/ m \in is)
           /\ m # l => ls[m].used = links[m].used
  <2>1. rs \in Seq(Link) /\ l \in DOMAIN rs /\ ls = UsedOf(rs, l)
    BY <1>2, <1>3, <1>6
  <2>2. /\ ls \in Seq(Link) /\ DOMAIN ls = DOMAIN rs
        /\ ls[l].used = rs[l].used + 1
        /\ \A m \in DOMAIN rs :
             /\ ls[m].kind = rs[m].kind /\ ls[m].mailed = rs[m].mailed
             /\ ls[m].revoked = rs[m].revoked
        /\ \A m \in DOMAIN rs : m # l => ls[m] = rs[m]
    BY <2>1, UsedLinks
  <2>. QED BY <1>2, <1>6, <2>2
<1>8. \A m \in DOMAIN links : links[m].used \in Nat
  <2>1. \A m \in DOMAIN links : links[m] \in Link
    BY <1>1
  <2>. QED BY <2>1 DEF Link
<1>. HIDE DEF c
<1>9. AccountTypes'
  <2>1. ASSUME NEW j \in DOMAIN cs PROVE Fits(cs[j])'
    <3>1. Fits(cs[j]) /\ (Committed(cs[j]) => cs[j].link \in DOMAIN links)
      BY <1>1, <1>2, <1>5 DEF AccountTypes, Fits, Committed
    <3>. QED BY <1>4, <1>7, <3>1, FitsStays
  <2>. QED BY <1>1, <1>2, <1>4, <1>5, <1>7, <2>1 DEF AccountTypes
<1>10. Once'
  <2>1. SUFFICES ASSUME NEW m \in DOMAIN links, m \notin doubled
                 PROVE  /\ ls[m].used <= 1
                        /\ \A j \in DOMAIN cs : Using(cs[j], m) => ls[m].used = 0
                        /\ \A j, q \in DOMAIN cs : Using(cs[j], m) /\ Using(cs[q], m) => j = q
    BY <1>2, <1>4, <1>7 DEF Once, Using
  <2>2. \A j \in DOMAIN cs : Using(cs[j], m) => j # i /\ Using(accountCalls[j], m)
    BY <1>5 DEF Using
  <2>3. CASE m = l
    <3>1. links[l].used = 0 /\ \A j \in DOMAIN accountCalls : Using(accountCalls[j], l) => j = i
      BY <1>1, <1>2, <2>1, <2>3 DEF Once, c
    <3>. QED BY <1>5, <1>7, <2>2, <2>3, <3>1
  <2>4. CASE m # l
    BY <1>1, <1>5, <1>7, <2>1, <2>2, <2>4 DEF Once
  <2>. QED BY <2>3, <2>4
<1>11. OneWorks'
  <2>1. \A j \in DOMAIN cs, k \in Kind :
          Pending(cs[j], k) => /\ j \in DOMAIN accountCalls /\ Pending(accountCalls[j], k)
                               /\ cs[j].seen = accountCalls[j].seen
    BY <1>5 DEF Pending
  <2>2. \A m \in DOMAIN links : ls[m].used = 0 => links[m].used = 0
    BY <1>2, <1>7, <1>8
  <2>3. \A m \in DOMAIN links :
          /\ ls[m].kind = links[m].kind
          /\ ls[m].used = 0 => links[m].used = 0
          /\ links[m].revoked => ls[m].revoked
    BY <1>7, <2>2
  <2>. QED BY <1>1, <1>2, <1>4, <1>7, <2>1, <2>3, OneWorksStays
<1>12. WithCause'
  <2>1. ls[l].used > 0 /\ \A m \in DOMAIN links : links[m].used > 0 => ls[m].used > 0
    BY <1>2, <1>7, <1>8
  <2>2. ASSUME NEW m \in DOMAIN links, ls[m].revoked
        PROVE  links[m].revoked \/ Cause(m)'
    <3>1. SUFFICES ASSUME m \in is PROVE Cause(m)'
      BY <1>7, <2>2
    <3>2. m \in DOMAIN links /\ links[m].kind = links[l].kind
      <4>1. is = c.seen \cup {l}
        BY <1>3
      <4>. QED BY <1>2, <2>2, <3>1, <4>1
    <3>3. ls[m].kind = ls[l].kind /\ l \in DOMAIN ls
      BY <1>2, <1>7, <3>2
    <3>. QED BY <1>4, <2>1, <3>3 DEF Cause
  <2>3. \A j \in DOMAIN cs :
          Committed(cs[j]) => /\ j \in DOMAIN accountCalls /\ Committed(accountCalls[j])
                              /\ cs[j].link = accountCalls[j].link
    BY <1>5 DEF Committed
  <2>. QED BY <1>1, <1>4, <1>7, <2>1, <2>2, <2>3, WithCauseStays
<1>. QED BY <1>9, <1>10, <1>11, <1>12 DEF AccountSound

LEMMA NextAccount == AccountInv /\ [Next]_vars => AccountInv'
<1>. SUFFICES ASSUME AccountSound, [Next]_vars, which = "account"
              PROVE  AccountSound'
  BY PageStep DEF AccountInv
<1>1. ASSUME NEW i \in DOMAIN accountCalls, AC!CreateAccount(i)
      PROVE  AccountSound'
  BY <1>1, RefusedKeeps DEF AC!CreateAccount, Resting, AC!browser, AC!history
<1>. QED BY <1>1, PagesKeep, ReadKeeps, CommitKeeps, MailKeeps, CheckKeeps, OthersRead, UseKeeps,
            PageStep DEF AC!Next

\* A mailed link takes effect once, unless two uses of it were on their way
\* together; of each kind one works, unless two were asked for together; and a
\* mailed link stops working only because of another of its kind or its own use.
\* This holds for every number of tabs, calls and lost answers.
THEOREM LinksHold == Spec => []LinksSound
<1>1. AccountInv => LinksSound
  <2>. SUFFICES ASSUME AccountSound, which = "account"
                PROVE  AC!UsedOnce /\ AC!OneLinkWorks /\ AC!LostForCause
    BY DEF AccountInv, LinksSound
  <2>0. links \in Seq(Link) /\ \A l \in DOMAIN links : links[l] \in Link
    BY DEF AccountSound, AccountTypes
  <2>1. AC!UsedOnce
    BY <2>0 DEF AccountSound, Once, AC!UsedOnce, Link
  <2>2. AC!OneLinkWorks
    BY <2>0 DEF AccountSound, OneWorks, AC!OneLinkWorks, AC!Works, Link
  <2>3. AC!LostForCause
    BY DEF AccountSound, WithCause, AC!LostForCause, Cause
  <2>. QED BY <2>1, <2>2, <2>3
<1>. QED BY <1>1, InitAccount, NextAccount, PTL DEF Spec

=============================================================================
