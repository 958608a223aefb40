----------------------------- MODULE LeadsBoard -----------------------------
(***************************************************************************)
(* The leads page: the list, the lead selected in it, the notes being       *)
(* written for that lead, and the calls whose answers change all three in   *)
(* any order.  Leads are numbered in the order of their creation and listed *)
(* newest first; notes are numbered as they are typed, 0 being no notes.    *)
(***************************************************************************)
EXTENDS Naturals, FiniteSets, FiniteSetsExt

CONSTANTS
  MaxLeads,   \* bound: leads ever created
  Found,      \* the leads the search text finds
  MaxTyped,   \* bound: times the notes are changed
  MaxFlight   \* bound: calls in flight at once

Lead == 1 .. MaxLeads

\* What the constants have to be.
LeadsBoardAssumption ==
  /\ MaxLeads \in Nat /\ MaxTyped \in Nat /\ MaxFlight \in Nat
  /\ Found \subseteq Lead

VARIABLES
  notes,           \* server: the leads that exist, with their notes
  newest,          \* server: the number of the last lead created
  leads,           \* the list shown: some leads with the notes they had
  selectedLeadId,  \* the lead chosen, or 0
  notesDraft,      \* the text of the notes field
  calls,           \* calls in flight
  author           \* history: author[n] is the lead that was shown when n was typed

vars == <<notes, newest, leads, selectedLeadId, notesDraft, calls, author>>

First(list) == IF DOMAIN list = {} THEN 0 ELSE Max(DOMAIN list)
Text(list, l) == IF l \in DOMAIN list THEN list[l] ELSE 0

\* The lead whose details are shown: the one chosen, else the first there is.
Selected(list, id) == IF id \in DOMAIN list THEN id ELSE First(list)
selectedLead == Selected(leads, selectedLeadId)

\* Mutant of Render: the notes stay when another lead is shown.
RenderKeepsDraft(list, id, draft) ==
  /\ leads' = list
  /\ selectedLeadId' = id
  /\ notesDraft' = draft

\* A change of the page's state, and the effect that loads the notes of the
\* lead shown whenever that is another.
Render(list, id, draft) ==
  /\ leads' = list
  /\ selectedLeadId' = id
  /\ notesDraft' = IF Selected(list, id) # selectedLead
                   THEN Text(list, Selected(list, id)) ELSE draft

Call(op, lead, value) ==
  [op |-> op, pc |-> "sent", lead |-> lead, value |-> value,
   chosen |-> selectedLeadId, list |-> <<>>]

Start(c) ==
  /\ Cardinality(calls) < MaxFlight
  /\ calls' = calls \cup {c}
  /\ UNCHANGED <<notes, newest, leads, selectedLeadId, notesDraft, author>>

----------------------------------------------------------------------------
(* The user. *)

\* What is searched for is nothing or the text that finds Found.
handleSearch == \E found \in {Lead, Found} : Start(Call("load", 0, found))

\* A lead being created, or the list loaded after it: the button is disabled.
saving ==
  \E c \in calls : (c.op = "create" /\ c.pc # "late") \/ (c.op = "load" /\ c.lead # 0)

handleCreate ==
  /\ ~saving
  /\ \E found \in {Lead, Found} : Start(Call("create", 0, found))

handleDelete(l) == \E found \in {Lead, Found} : Start(Call("delete", l, found))
moveLead(l) == Start(Call("move", l, Lead))

saveNotes ==
  /\ selectedLead # 0
  /\ Start([Call("save", selectedLead, Lead) EXCEPT !.list = <<notesDraft>>])

SelectLead(l) ==
  /\ Render(leads, l, notesDraft)
  /\ UNCHANGED <<notes, newest, calls, author>>

TypeNotes ==
  /\ selectedLead # 0
  /\ Cardinality(DOMAIN author) < MaxTyped
  /\ LET n == Cardinality(DOMAIN author) + 1
     IN notesDraft' = n /\ author' = [m \in 1 .. n |-> IF m = n THEN selectedLead ELSE author[m]]
  /\ UNCHANGED <<notes, newest, leads, selectedLeadId, calls>>

----------------------------------------------------------------------------
(* The server. *)

Serve(c) ==
  /\ c.pc \in {"sent", "late"}
  /\ UNCHANGED <<leads, selectedLeadId, notesDraft, author>>
  /\ LET answer(list) == calls' = (calls \ {c}) \cup {[c EXCEPT !.pc = "served", !.list = list]}
     IN \/ /\ c.op = "load"
           /\ answer([l \in DOMAIN notes \cap c.value |-> notes[l]])
           /\ UNCHANGED <<notes, newest>>
        \/ /\ c.op = "create" /\ newest < MaxLeads
           /\ newest' = newest + 1
           /\ notes' = [l \in DOMAIN notes \cup {newest'} |-> IF l = newest' THEN 0 ELSE notes[l]]
           /\ calls' = (calls \ {c}) \cup
                IF c.pc = "late" THEN {} ELSE {[c EXCEPT !.pc = "served", !.lead = newest']}
        \/ /\ c.op = "delete" /\ c.lead \in DOMAIN notes
           /\ notes' = [l \in DOMAIN notes \ {c.lead} |-> notes[l]]
           /\ answer(<<>>)
           /\ UNCHANGED newest
        \/ /\ c.op = "move" /\ c.lead \in DOMAIN notes
           /\ answer(<<notes[c.lead]>>)
           /\ UNCHANGED <<notes, newest>>
        \/ /\ c.op = "save" /\ c.lead \in DOMAIN notes
           /\ notes' = [notes EXCEPT ![c.lead] = c.list[1]]
           /\ answer(c.list)
           /\ UNCHANGED newest

----------------------------------------------------------------------------
(* The answers. *)

\* loadLeads, with the choice there was when its handler began: a choice not in
\* the answer, or none, is replaced by the first of the answer.
LoadDone(c) ==
  /\ c.op = "load" /\ c.pc = "served"
  /\ calls' = calls \ {c}
  /\ IF c.chosen \in DOMAIN c.list
     THEN Render(c.list, selectedLeadId, notesDraft)
     ELSE Render(c.list, First(c.list), Text(c.list, First(c.list)))
  /\ UNCHANGED <<notes, newest, author>>

\* A created or deleted lead: the handler goes on to load the list, still with
\* the search text and the choice it began with.
ReloadAfter(c) ==
  /\ c.op \in {"create", "delete"} /\ c.pc = "served"
  /\ calls' = (calls \ {c}) \cup {[c EXCEPT !.op = "load", !.pc = "sent",
                                       !.lead = IF c.op = "create" THEN c.lead ELSE 0]}
  /\ IF c.op = "create" THEN Render(leads, c.lead, notesDraft)
     ELSE UNCHANGED <<leads, selectedLeadId, notesDraft>>
  /\ UNCHANGED <<notes, newest, author>>

\* The row of the answer replaces the one shown; a moved lead is chosen.
RowDone(c) ==
  /\ c.op \in {"move", "save"} /\ c.pc = "served"
  /\ calls' = calls \ {c}
  /\ Render([l \in DOMAIN leads |-> IF l = c.lead THEN c.list[1] ELSE leads[l]],
            IF c.op = "move" THEN c.lead ELSE selectedLeadId, notesDraft)
  /\ UNCHANGED <<notes, newest, author>>

\* Refused or not answered.  The lead may still be created, while the form is
\* enabled again; any other call is as if its answer came late.
CallFails(c) ==
  /\ \/ calls' = calls \ {c}
     \/ /\ c.op = "create" /\ c.pc = "sent"
        /\ calls' = (calls \ {c}) \cup {[c EXCEPT !.pc = "late"]}
  /\ UNCHANGED <<notes, newest, leads, selectedLeadId, notesDraft, author>>

----------------------------------------------------------------------------
Init ==
  /\ notes = [l \in {1} |-> 0]
  /\ newest = 1
  /\ leads = <<>>
  /\ selectedLeadId = 0
  /\ notesDraft = 0
  /\ calls = {[op |-> "load", pc |-> "sent", lead |-> 0, value |-> Lead,
               chosen |-> 0, list |-> <<>>]}
  /\ author = <<>>

Next ==
  \/ handleSearch
  \/ handleCreate
  \/ saveNotes
  \/ TypeNotes
  \/ \E l \in DOMAIN leads : handleDelete(l) \/ moveLead(l) \/ SelectLead(l)
  \/ \E c \in calls :
       Serve(c) \/ LoadDone(c) \/ ReloadAfter(c) \/ RowDone(c) \/ CallFails(c)

Spec == Init /\ [][Next]_vars

----------------------------------------------------------------------------
(* Properties. *)

\* Notes are saved on the lead they were written for: whatever answers change
\* the list or the choice between typing and saving, the field never shows one
\* lead's text under another's name.
NotesOnOwnLead ==
  \A l \in DOMAIN notes : notes[l] # 0 => author[notes[l]] = l
=============================================================================
