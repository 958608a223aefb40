----------------------------- MODULE Campaigns -----------------------------
(***************************************************************************)
(* The campaigns page: one form that creates a campaign or updates the one   *)
(* being edited, and rows whose buttons work on a campaign and then load the *)
(* list again, in any order and while a save is on its way.  A campaign's    *)
(* texts are one number, counted as they are typed; 0 is the blank form.     *)
(* A campaign's status, which no form and no button depends on, the          *)
(* statistics, and the workflows that an activation triggers are left out.   *)
(***************************************************************************)
EXTENDS Naturals, FiniteSets, Sequences

CONSTANTS
  MaxCampaigns,  \* bound: campaigns ever created
  MaxTyped,      \* bound: times the form is changed
  MaxFlight      \* bound: calls in flight at once

Campaign == 1 .. MaxCampaigns

\* What the constants have to be.
CampaignsAssumption ==
  MaxCampaigns \in Nat /\ MaxTyped \in Nat /\ MaxFlight \in Nat

VARIABLES
  campaigns,   \* server: the campaigns, with their texts
  newest,      \* server: the number of the last one created
  items,       \* the list shown
  form,        \* the text in the form
  editingId,   \* the campaign being edited, or 0
  calls,       \* calls in flight
  author,      \* history: the campaign that was being edited when a text was typed
  born         \* history: the text a campaign was created with

server == <<campaigns, newest, born>>
page == <<items, form, editingId, author>>
vars == <<server, page, calls>>

\* The Save button: a save, or the list loaded after it, is in flight.
saving == \E c \in calls : c.saves

Start(op, id, text) ==
  LET c == [op |-> op, pc |-> "sent", id |-> id, text |-> text, saves |-> op = "save",
            list |-> <<>>]
  IN /\ Cardinality(calls) < MaxFlight /\ c \notin calls
     /\ calls' = calls \cup {c}

----------------------------------------------------------------------------
(* The user. *)

\* A field changed, under "Edit campaign" or "Create campaign".
TypeForm ==
  /\ Len(author) < MaxTyped
  /\ author' = Append(author, editingId)
  /\ form' = Len(author')
  /\ UNCHANGED <<server, items, editingId, calls>>

startEdit(c) ==
  /\ editingId' = c
  /\ form' = items[c]
  /\ UNCHANGED <<server, items, author, calls>>

Cancel ==
  /\ editingId # 0
  /\ editingId' = 0 /\ form' = 0
  /\ UNCHANGED <<server, items, author, calls>>

handleSubmit ==
  /\ ~saving /\ form # 0
  /\ Start("save", editingId, form)
  /\ UNCHANGED <<server, page>>

runAction(c, op) == Start(op, c, 0) /\ UNCHANGED <<server, page>>

----------------------------------------------------------------------------
(* The server: CampaignService. *)

Served(c) ==
  calls' = (calls \ {c}) \cup IF c.pc = "late" THEN {} ELSE {[c EXCEPT !.pc = "served"]}

create_campaign(c) ==
  /\ c.op = "save" /\ c.pc \in {"sent", "late"} /\ c.id = 0
  /\ newest < MaxCampaigns
  /\ newest' = newest + 1
  /\ campaigns' = [i \in DOMAIN campaigns \cup {newest'} |->
       IF i = newest' THEN c.text ELSE campaigns[i]]
  /\ born' = [born EXCEPT ![newest'] = c.text]
  /\ Served(c)
  /\ UNCHANGED page

update_campaign(c) ==
  /\ c.op = "save" /\ c.pc \in {"sent", "late"} /\ c.id \in DOMAIN campaigns
  /\ campaigns' = [campaigns EXCEPT ![c.id] = c.text]
  /\ Served(c)
  /\ UNCHANGED <<newest, born, page>>

\* activate_campaign and pause_campaign change the status only.
activate_campaign(c) ==
  /\ c.op = "status" /\ c.pc = "sent" /\ c.id \in DOMAIN campaigns
  /\ Served(c)
  /\ UNCHANGED <<server, page>>

delete_campaign(c) ==
  /\ c.op = "delete" /\ c.pc = "sent" /\ c.id \in DOMAIN campaigns
  /\ campaigns' = [i \in DOMAIN campaigns \ {c.id} |-> campaigns[i]]
  /\ Served(c)
  /\ UNCHANGED <<newest, born, page>>

list_campaigns(c) ==
  /\ c.op = "load" /\ c.pc = "sent"
  /\ calls' = (calls \ {c}) \cup {[c EXCEPT !.pc = "served", !.list = campaigns]}
  /\ UNCHANGED <<server, page>>

----------------------------------------------------------------------------
(* The answers. *)

\* A change was made: the list is loaded again.
Loading(c) == calls' = (calls \ {c}) \cup
  {[op |-> "load", pc |-> "sent", id |-> 0, text |-> 0, saves |-> c.saves, list |-> <<>>]}

\* Mutant of SubmitDone: the form keeps its text.
SubmitKeepsForm(c) ==
  /\ c.op = "save" /\ c.pc = "served"
  /\ editingId' = 0
  /\ Loading(c)
  /\ UNCHANGED <<server, items, form, author>>

\* The form is emptied, whichever campaign it is of by now.
SubmitDone(c) ==
  /\ c.op = "save" /\ c.pc = "served"
  /\ form' = 0 /\ editingId' = 0
  /\ Loading(c)
  /\ UNCHANGED <<server, items, author>>

ActionDone(c) ==
  /\ c.op \in {"status", "delete"} /\ c.pc = "served"
  /\ Loading(c)
  /\ UNCHANGED <<server, page>>

LoadDone(c) ==
  /\ c.op = "load" /\ c.pc = "served"
  /\ calls' = calls \ {c}
  /\ items' = c.list
  /\ UNCHANGED <<server, form, editingId, author>>

\* Refused or not answered: the form stays as it is, and can be saved while the
\* server may still carry out the save given up.
CallFails(c) ==
  /\ \/ calls' = calls \ {c}
     \/ /\ c.op = "save" /\ c.pc = "sent"
        /\ calls' = (calls \ {c}) \cup {[c EXCEPT !.pc = "late", !.saves = FALSE]}
  /\ UNCHANGED <<server, page>>

----------------------------------------------------------------------------
Init ==
  /\ campaigns = <<>> /\ newest = 0 /\ born = [c \in Campaign |-> 0]
  /\ items = <<>> /\ form = 0 /\ editingId = 0 /\ author = <<>>
  /\ calls = {[op |-> "load", pc |-> "sent", id |-> 0, text |-> 0, saves |-> FALSE,
               list |-> <<>>]}

Next ==
  \/ TypeForm \/ Cancel \/ handleSubmit
  \/ \E c \in DOMAIN items :
       startEdit(c) \/ \E op \in {"status", "delete"} : runAction(c, op)
  \/ \E c \in calls :
       \/ create_campaign(c) \/ update_campaign(c) \/ activate_campaign(c)
       \/ delete_campaign(c) \/ list_campaigns(c)
       \/ SubmitDone(c) \/ ActionDone(c) \/ LoadDone(c) \/ CallFails(c)

Spec == Init /\ [][Next]_vars

----------------------------------------------------------------------------
(* Properties. *)

\* A text typed while c was being edited, or the one c was created with.
Own(c, text) ==
  \/ text = 0
  \/ author[text] = c
  \/ c # 0 /\ text = born[c] /\ author[text] = 0

\* What a campaign, or the form under its heading, holds was typed while that
\* campaign was being edited or is what it was created with; a text typed for
\* one campaign never creates or replaces another, whatever answer empties the
\* form in between.
UpdatesGoHome ==
  /\ Own(editingId, form)
  /\ \A c \in DOMAIN campaigns : Own(c, campaigns[c])
=============================================================================
