------------------------------ MODULE Checkout ------------------------------
(***************************************************************************)
(* The billing page: loading the subscription, starting a Paddle checkout,  *)
(* what the overlay reports, and the server, which refuses a checkout once   *)
(* a subscription is recorded.  The page may be left and entered again: each *)
(* mount has state of its own, while the Paddle instance stays, with the     *)
(* callback of the mount that initialised it.  Paddle and its webhook are    *)
(* external.                                                                 *)
(***************************************************************************)
EXTENDS Naturals, FiniteSets

CONSTANTS
  Plan,       \* the plans offered
  MaxMounts,  \* bound: times the page is entered
  MaxLoads,   \* bound: subscription loads sent
  NoPlan      \* no plan is active, being bought or on offer in the overlay

\* What the constants have to be.
CheckoutAssumption ==
  NoPlan \notin Plan /\ MaxMounts \in Nat /\ MaxLoads \in Nat

VARIABLES
  recorded,   \* server: the plan of the active subscription
  charged,    \* Paddle: plans paid, the webhook of which is still to come
  subscription, loading, refreshing, checkoutPlan, failed,  \* the page's state
  mount,      \* which mount of the page is shown
  loads,      \* subscription loads in flight
  begun,      \* checkouts being created
  timers,     \* mounts that have a reload to come after a payment
  overlay,    \* the checkout the overlay shows
  listener,   \* the mount whose callback the Paddle instance has, or 0
  loadCount

page == <<subscription, loading, refreshing, checkoutPlan, failed>>
paddle == <<overlay, listener>>
vars == <<recorded, charged, page, mount, loads, begun, timers, paddle, loadCount>>

Closed == [pc |-> "closed", plan |-> NoPlan]
hasActiveSubscription == subscription # NoPlan

----------------------------------------------------------------------------
(* Loading the subscription. *)

Load(m) == loads \cup {[n |-> loadCount + 1, mount |-> m, pc |-> "sent", plan |-> NoPlan]}

\* A refresh hides the button, a first load everything.
loadSubscription(m) ==
  /\ loadCount < MaxLoads
  /\ loads' = Load(m)
  /\ loadCount' = loadCount + 1
  /\ IF m = mount THEN refreshing' = TRUE /\ failed' = FALSE
     ELSE UNCHANGED <<refreshing, failed>>
  /\ UNCHANGED <<recorded, charged, subscription, loading, checkoutPlan, mount, begun, paddle>>

Refresh ==
  /\ overlay.pc = "closed"
  /\ ~loading /\ ~refreshing
  /\ checkoutPlan = NoPlan \/ failed    \* "Try again" asks for no checkoutPlan
  /\ loadSubscription(mount)
  /\ UNCHANGED timers

ReloadAfterPayment(m) ==
  /\ loadSubscription(m)
  /\ timers' = timers \ {m}

ServeLoad(l) ==
  /\ l.pc = "sent"
  /\ loads' = (loads \ {l}) \cup {[l EXCEPT !.pc = "served", !.plan = recorded]}
  /\ UNCHANGED <<recorded, charged, page, mount, begun, timers, paddle, loadCount>>

\* The answer, or none, ends both kinds of loading, whichever load it is of.
LoadDone(l) ==
  /\ loads' = loads \ {l}
  /\ IF l.mount # mount THEN UNCHANGED page
     ELSE /\ loading' = FALSE /\ refreshing' = FALSE
          /\ \/ l.pc = "served" /\ subscription' = l.plan /\ UNCHANGED failed
             \/ failed' = TRUE /\ UNCHANGED subscription
          /\ UNCHANGED checkoutPlan
  /\ UNCHANGED <<recorded, charged, mount, begun, timers, paddle, loadCount>>

----------------------------------------------------------------------------
(* The checkout. *)

\* A plan's button is enabled only while nothing is active or being bought.
handleCheckout(plan) ==
  /\ overlay.pc = "closed"
  /\ ~loading /\ checkoutPlan = NoPlan /\ ~hasActiveSubscription
  /\ checkoutPlan' = plan
  /\ failed' = FALSE
  /\ begun' = begun \cup {[mount |-> mount, plan |-> plan, pc |-> "sent"]}
  /\ UNCHANGED <<recorded, charged, subscription, loading, refreshing, mount, loads,
                 timers, paddle, loadCount>>

\* POST /api/paddle/checkout
create_transaction(b) ==
  /\ b.pc = "sent"
  /\ begun' = (begun \ {b}) \cup
       {[b EXCEPT !.pc = IF recorded = NoPlan THEN "created" ELSE "refused"]}
  /\ UNCHANGED <<recorded, charged, page, mount, loads, timers, paddle, loadCount>>

\* The overlay opens over whatever page there is by now.
OpenOverlay(b) ==
  /\ b.pc = "created" /\ overlay.pc = "closed"
  /\ begun' = begun \ {b}
  /\ overlay' = [pc |-> "open", plan |-> b.plan]
  /\ listener' = IF listener = 0 THEN b.mount ELSE listener
  /\ UNCHANGED <<recorded, charged, page, mount, loads, timers, loadCount>>

\* Mutant of CheckoutFails: the plan stays being bought.
CheckoutFailsBusy(b) ==
  /\ begun' = begun \ {b}
  /\ IF b.mount = mount THEN failed' = TRUE ELSE UNCHANGED failed
  /\ UNCHANGED <<recorded, charged, subscription, loading, refreshing, checkoutPlan,
                 mount, loads, timers, paddle, loadCount>>

\* Refused, not answered, or Paddle cannot be initialised or opened.
CheckoutFails(b) ==
  /\ begun' = begun \ {b}
  /\ IF b.mount = mount THEN checkoutPlan' = NoPlan /\ failed' = TRUE
     ELSE UNCHANGED <<checkoutPlan, failed>>
  /\ UNCHANGED <<recorded, charged, subscription, loading, refreshing, mount, loads,
                 timers, paddle, loadCount>>

\* eventCallback: checkout.completed
Pay ==
  /\ overlay.pc = "open"
  /\ overlay' = [overlay EXCEPT !.pc = "paid"]
  /\ charged' = charged \cup {overlay.plan}
  /\ checkoutPlan' = IF listener = mount THEN NoPlan ELSE checkoutPlan
  /\ timers' = timers \cup {listener}
  /\ UNCHANGED <<recorded, subscription, loading, refreshing, failed, mount, loads,
                 begun, listener, loadCount>>

\* eventCallback: checkout.closed
CloseOverlay ==
  /\ overlay.pc # "closed"
  /\ overlay' = Closed
  /\ checkoutPlan' = IF listener = mount THEN NoPlan ELSE checkoutPlan
  /\ UNCHANGED <<recorded, charged, subscription, loading, refreshing, failed, mount,
                 loads, begun, timers, listener, loadCount>>

\* The webhook of a payment; the subscription may end as well.
Webhook ==
  /\ \/ \E plan \in charged : recorded' = plan /\ charged' = charged \ {plan}
     \/ recorded # NoPlan /\ recorded' = NoPlan /\ UNCHANGED charged
  /\ UNCHANGED <<page, mount, loads, begun, timers, paddle, loadCount>>

----------------------------------------------------------------------------
\* Another page and back again, or (when again) the whole tab reloaded, which
\* forgets the Paddle instance and every request.
Enter(again) ==
  /\ mount < MaxMounts /\ loadCount < MaxLoads
  /\ overlay.pc = "closed"
  /\ mount' = mount + 1
  /\ loads' = (IF again THEN {} ELSE loads) \cup
              {[n |-> loadCount + 1, mount |-> mount', pc |-> "sent", plan |-> NoPlan]}
  /\ loadCount' = loadCount + 1
  /\ begun' = IF again THEN {} ELSE begun
  /\ timers' = IF again THEN {} ELSE timers
  /\ listener' = IF again THEN 0 ELSE listener
  /\ subscription' = NoPlan /\ checkoutPlan' = NoPlan
  /\ loading' = TRUE /\ refreshing' = FALSE /\ failed' = FALSE
  /\ UNCHANGED <<recorded, charged, overlay>>

Init ==
  /\ recorded = NoPlan
  /\ charged = {}
  /\ subscription = NoPlan /\ checkoutPlan = NoPlan
  /\ loading = TRUE /\ refreshing = FALSE /\ failed = FALSE
  /\ mount = 1
  /\ loads = {[n |-> 1, mount |-> 1, pc |-> "sent", plan |-> NoPlan]}
  /\ begun = {}
  /\ timers = {}
  /\ overlay = Closed
  /\ listener = 0
  /\ loadCount = 1

Next ==
  \/ Refresh
  \/ \E m \in timers : ReloadAfterPayment(m)
  \/ \E l \in loads : ServeLoad(l) \/ LoadDone(l)
  \/ \E plan \in Plan : handleCheckout(plan)
  \/ \E b \in begun : create_transaction(b) \/ OpenOverlay(b) \/ CheckoutFails(b)
  \/ Pay
  \/ CloseOverlay
  \/ Webhook
  \/ \E again \in BOOLEAN : Enter(again)

Spec == Init /\ [][Next]_vars

----------------------------------------------------------------------------
(* Properties. *)

\* "Opening secure checkout..." disables every plan: it ends when the overlay
\* is closed or the checkout cannot be opened, in whatever order loads, events
\* and failures arrive.  The one exception is a page entered again: the Paddle
\* instance still calls back to the mount that initialised it, which is gone.
BusyForCause ==
  checkoutPlan # NoPlan /\ overlay.pc = "closed" /\ listener \in {0, mount}
    => \E b \in begun : b.mount = mount /\ b.plan = checkoutPlan
=============================================================================
