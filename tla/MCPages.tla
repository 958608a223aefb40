------------------------------ MODULE MCPages ------------------------------
(***************************************************************************)
(* The pages of the web frontend, checked in one run.                        *)
(***************************************************************************)
EXTENDS Pages

\* Stored actions: a template's settings in another spelling than the page's,
\* in both, and not filled in; and a condition with a condition in a branch.
Action(type, config) ==
  [type |-> type, config |-> config, on_true |-> <<>>, on_false |-> <<>>]

SlackById == Action("SLACK_SEND_MESSAGE", [channel_id |-> "set", text |-> "set"])
SlackInBoth ==
  Action("SLACK_SEND_MESSAGE", [channel |-> "set", message |-> "blank", text |-> "set"])
SlackUnset == Action("SLACK_SEND_MESSAGE", [channel |-> "blank", message |-> "set"])
Nested ==
  [Action("CONDITION", <<>>) EXCEPT
     !.on_false = <<[type |-> "CONDITION", config |-> <<>>],
                    [type |-> SlackUnset.type, config |-> SlackUnset.config]>>]

StoredLists == {<<SlackById, SlackUnset>>, <<SlackById, Nested>>, <<SlackInBoth>>, <<>>}

CategoryOf == [t \in Template |-> IF t \in is_featured THEN "Sales" ELSE "Support"]
=============================================================================
