----------------------------- MODULE Templates -----------------------------
(***************************************************************************)
(* The template gallery of the dashboard and the one of the administration: *)
(* which templates are offered, installing one, and the server, which looks  *)
(* for a copy and then makes one.  An install that ends shows the workflow   *)
(* builder, wherever the user is by then.  The counts of installs, which     *)
(* only order and label the templates, are left out.                         *)
(***************************************************************************)
EXTENDS Naturals, FiniteSets

CONSTANTS
  Template,
  Category,
  category,    \* the category of each template
  is_featured, \* the featured ones
  MaxCalls,    \* bound: installs asked for
  NoTemplate

\* What the constants have to be.
TemplatesAssumption ==
  /\ category \in [Template -> Category]
  /\ is_featured \subseteq Template
  /\ {"All", "Featured"} \cap Category = {}
  /\ NoTemplate \notin Template
  /\ MaxCalls \in Nat

VARIABLES
  copies,         \* server: the copies of each template the tenant has
  page,           \* "dashboard", "admin", or "builder"
  templates,      \* the templates loaded, or none yet
  chosen, search, \* the category chosen, and the templates the search text finds
  installing,     \* installingTemplateId, or cloningId on the admin page
  calls,          \* installs in flight
  asked,          \* the number of installs asked for
  mixed           \* history: installs no longer guarded by their button

filters == <<chosen, search>>
vars == <<copies, page, templates, filters, installing, calls, asked, mixed>>

Categories == {"All", "Featured"} \cup {category[t] : t \in templates}

\* The templates listed, whatever their order.
visibleTemplates ==
  {t \in templates \cap search :
     chosen = "All" \/ (chosen = "Featured" /\ t \in is_featured) \/ category[t] = chosen}

\* The featured templates stay offered, one at a time, above any filter.
Offered ==
  IF page = "admin" THEN templates ELSE visibleTemplates \cup (templates \cap is_featured)

Ask(t) ==
  /\ asked < MaxCalls
  /\ asked' = asked + 1
  /\ calls' = calls \cup {[n |-> asked', by |-> page, template |-> t, pc |-> "sent"]}

\* The templates whose copy is still to be made.
Pending == {c.template : c \in {d \in calls : d.pc # "done"}}

\* The templates installed at once from this page, if t is not the only one.
Overlap(t) ==
  LET others == {c.template : c \in {d \in calls : d.by = page}} \ {t}
  IN IF others = {} THEN {} ELSE others \cup {t}

\* A page shown afresh; the calls of the one left are still answered.
Enter(p) ==
  /\ page' = p
  /\ templates' = {} /\ chosen' = "All" /\ search' = Template
  /\ installing' = NoTemplate
  /\ mixed' = mixed \cup Pending

Left(cs) == {IF c.by = "gone" THEN c ELSE [c EXCEPT !.by = "left"] : c \in cs}

----------------------------------------------------------------------------
(* The pages. *)

Open(p) ==
  /\ p # page
  /\ Enter(p)
  /\ calls' = Left(calls)
  /\ UNCHANGED <<copies, asked>>

Load ==
  /\ page # "builder" /\ templates = {}
  /\ templates' = Template
  /\ UNCHANGED <<copies, page, filters, installing, calls, asked, mixed>>

\* The category buttons and the search field; a text may find nothing.
Filter ==
  /\ page = "dashboard"
  /\ \/ chosen' \in Categories /\ UNCHANGED search
     \/ search' \in {Template, Template \ is_featured, {}} /\ UNCHANGED chosen
  /\ UNCHANGED <<copies, page, templates, installing, calls, asked, mixed>>

\* "Clear filters" and "Browse featured", when no template is found.
ClearFilters ==
  /\ page = "dashboard" /\ templates # {} /\ visibleTemplates = {}
  /\ search' = Template
  /\ chosen' \in {"All", "Featured"}
  /\ UNCHANGED <<copies, page, templates, installing, calls, asked, mixed>>

\* Mutant of handleInstallTemplate: the button stays enabled.
installAgain(t) ==
  /\ page = "dashboard" /\ t \in Offered
  /\ Ask(t)
  /\ installing' = t
  /\ mixed' = mixed \cup Overlap(t)
  /\ UNCHANGED <<copies, page, templates, filters>>

\* Only the button of the template being installed is disabled; another one
\* takes the place of the first.
handleInstallTemplate(t) ==
  /\ page = "dashboard" /\ t \in Offered
  /\ installing # t
  /\ Ask(t)
  /\ installing' = t
  /\ mixed' = mixed \cup Overlap(t)
  /\ UNCHANGED <<copies, page, templates, filters>>

\* The admin page has every button disabled.
cloneTemplate(t) ==
  /\ page = "admin" /\ t \in Offered
  /\ installing = NoTemplate
  /\ Ask(t)
  /\ installing' = t
  /\ UNCHANGED <<copies, page, templates, filters, mixed>>

----------------------------------------------------------------------------
(* The server: clone_workflow_template. *)

Step(c, pc) == calls' = (calls \ {c}) \cup {[c EXCEPT !.pc = pc]}

\* A copy is looked for by its name; the workflow limit may refuse before that.
FindCopy(c) ==
  /\ c.pc = "sent"
  /\ Step(c, IF copies[c.template] > 0 THEN "done" ELSE "absent")
  /\ UNCHANGED <<copies, page, templates, filters, installing, asked, mixed>>

CreateCopy(c) ==
  /\ c.pc = "absent"
  /\ Step(c, "done")
  /\ copies' = [copies EXCEPT ![c.template] = @ + 1]
  /\ UNCHANGED <<page, templates, filters, installing, asked, mixed>>

----------------------------------------------------------------------------
(* The answers. *)

\* The workflow is opened in the builder, and the page is left.
Installed(c) ==
  /\ c.pc = "done" /\ c.by # "gone"
  /\ Enter("builder")
  /\ calls' = Left(calls \ {c})
  /\ UNCHANGED <<copies, asked>>

\* Refused, or not answered although the server may carry it out.  The buttons
\* of the page that asked are enabled again, whichever install it shows.
InstallFails(c) ==
  /\ c.by # "gone"
  /\ \/ calls' = calls \ {c} /\ UNCHANGED mixed
     \/ /\ calls' = (calls \ {c}) \cup {[c EXCEPT !.by = "gone"]}
        /\ mixed' = mixed \cup {c.template}
  /\ installing' = IF c.by = "left" THEN installing ELSE NoTemplate
  /\ UNCHANGED <<copies, page, templates, filters, asked>>

----------------------------------------------------------------------------
Init ==
  /\ copies = [t \in Template |-> 0]
  /\ page = "dashboard" /\ templates = {}
  /\ chosen = "All" /\ search = Template
  /\ installing = NoTemplate
  /\ calls = {} /\ asked = 0
  /\ mixed = {}

Next ==
  \/ \E p \in {"dashboard", "admin"} : Open(p)
  \/ Load
  \/ Filter
  \/ ClearFilters
  \/ \E t \in Template : handleInstallTemplate(t) \/ cloneTemplate(t)
  \/ \E c \in calls :
       FindCopy(c) \/ CreateCopy(c) \/ Installed(c) \/ InstallFails(c)

Spec == Init /\ [][Next]_vars

----------------------------------------------------------------------------
(* Properties. *)

\* The tenant has one copy of a template, however often it is installed, but
\* for three causes: while the server was at it another template was installed,
\* which enables the button again; the page was left; or the answer got lost.
OneCopyEach == \A t \in Template : copies[t] > 1 => t \in mixed
=============================================================================
