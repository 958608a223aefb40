--------------------------- MODULE MCGmailPoller ---------------------------
EXTENDS GmailPoller, TLC

CONSTANTS w1

\* One workflow for every message, the others for all but the second.
MCMatches == [w \in Workflow |-> IF w = w1 THEN Message ELSE Message \ {2}]

Pollers == Permutations(Poller)
=============================================================================
