------------------------------ MODULE Billing ------------------------------
(***************************************************************************)
(* A tenant's row in the subscriptions table (billing.py), written by      *)
(* three requests that know nothing of one another: the checkout form, the *)
(* page Stripe sends the landlord back to, and Stripe's webhook.  Each     *)
(* goes through set_subscription, which reads the row, merges its own      *)
(* fields and writes the whole row back.                                   *)
(*                                                                         *)
(* Stripe itself is external: its subscriptions live on their own, and     *)
(* what happens to them is told in events that are sent until they are     *)
(* answered with 200.                                                      *)
(***************************************************************************)
EXTENDS Naturals, Sequences

CONSTANTS
    Plans,             \* the plans with a price
    InOrder,           \* events arrive in the order they were sent
    MaxSessions,       \* bound: checkouts
    MaxChanges,        \* bound: payments that fail or recover
    MaxPages,          \* bound: loads of the success page
    MaxRedeliveries    \* bound: events that come although they were answered

VARIABLES
    live,              \* STRIPE_SECRET_KEY is set
    row,               \* the tenant's row
    stripe,            \* the checkout sessions and the subscription each became
    events,            \* events not answered yet, oldest first
    recorded,          \* sessions whose cancellation the webhook has written
    request,           \* what the running requests are about to write
    left               \* what is left of the bounds

vars == <<live, row, stripe, events, recorded, request, left>>

NoPlan   == "no plan"
Nothing  == [fields |-> "nothing"]
Requests == {"form", "page", "hook"}

\* get_subscription: without a row the status is `none`.
NoRow == [plan |-> NoPlan, status |-> "none", customer |-> 0,
          subscription |-> 0, demo |-> FALSE]

\* Stripe's ids: a session's subscription bears the session's number, a new
\* customer that of the first session opened for him.
Sessions == 1..Len(stripe)

Spend(what) == left[what] > 0 /\ left' = [left EXCEPT ![what] = @ - 1]

-----------------------------------------------------------------------------
(* set_subscription: the fields of a request over the row as it is read.   *)

Merged(fields) ==
    [c \in DOMAIN row |-> IF c \in DOMAIN fields THEN fields[c] ELSE row[c]]

\* session is what the written cancellation is about, 0 for any other write.
Reads(r, fields, session) ==
    /\ request[r] = Nothing
    /\ request' = [request EXCEPT ![r] = [row |-> Merged(fields), ends |-> session]]

Writes(r) ==
    /\ request[r] # Nothing
    /\ row' = request[r].row
    /\ recorded' = recorded \cup ({request[r].ends} \ {0})
    /\ request' = [request EXCEPT ![r] = Nothing]
    /\ UNCHANGED <<live, stripe, events, left>>

\* The fields of a retrieved session, completed or not, as the page and the
\* event write them.  Before it is paid it has no subscription, and no customer
\* but one that was named when it was opened.
Activation(s) ==
    LET open == stripe[s].status = "open"
    IN  [plan |-> stripe[s].plan, status |-> "active", demo |-> FALSE,
         customer     |-> IF open /\ stripe[s].customer = s THEN 0 ELSE stripe[s].customer,
         subscription |-> IF open THEN 0 ELSE s]

-----------------------------------------------------------------------------
(* The landlord.                                                           *)

\* checkout without keys: the plan is noted, nobody is charged.
DemoCheckout(plan) ==
    /\ ~ live
    /\ Spend("sessions")
    /\ Reads("form", [plan |-> plan, status |-> "active", demo |-> TRUE], 0)
    /\ UNCHANGED <<live, row, stripe, events, recorded>>

\* checkout with keys: a session for the customer the row knows, or for a new one.
Checkout(plan) ==
    /\ live
    /\ Spend("sessions")
    /\ stripe' = Append(stripe,
          [plan |-> plan, status |-> "open",
           customer |-> IF row.customer # 0 THEN row.customer ELSE Len(stripe) + 1])
    /\ UNCHANGED <<live, row, events, recorded, request>>

\* success: any session id, on a first or a later load, paid or not.
Returns(s) ==
    /\ live
    /\ Spend("pages")
    /\ Reads("page", Activation(s), 0)
    /\ UNCHANGED <<live, row, stripe, events, recorded>>

\* The keys are set and the server starts again.
GoesLive ==
    /\ ~ live
    /\ live' = TRUE
    /\ request' = [r \in Requests |-> Nothing]
    /\ UNCHANGED <<row, stripe, events, recorded, left>>

-----------------------------------------------------------------------------
(* Stripe (external).                                                      *)

Becomes(s, status, type) ==
    /\ stripe' = [stripe EXCEPT ![s].status = status]
    /\ events' = Append(events, [type |-> type, session |-> s, status |-> status])
    /\ UNCHANGED <<live, row, recorded, request>>

Paid(s)     == stripe[s].status = "open" /\ UNCHANGED left /\ Becomes(s, "active", "completed")
Lapses(s)   == stripe[s].status = "active" /\ Spend("changes") /\ Becomes(s, "past_due", "updated")
Recovers(s) == stripe[s].status = "past_due" /\ Spend("changes") /\ Becomes(s, "active", "updated")
Ended(s)    == stripe[s].status \in {"active", "past_due"} /\ UNCHANGED left
               /\ Becomes(s, "canceled", "deleted")

-----------------------------------------------------------------------------
(* The webhook.                                                            *)

Without(i) == SubSeq(events, 1, i - 1) \o SubSeq(events, i + 1, Len(events))

\* An event is sent again when an answer was not 200, or was lost.
Answered(i) ==
    \/ events' = Without(i) /\ UNCHANGED left
    \/ events' = events /\ Spend("redeliveries")

\* A change is for the row that knows the customer; with no such row it is
\* answered with 200 and forgotten.
Receives(i) ==
    LET e == events[i]
        known == row.customer = stripe[e.session].customer
    IN  /\ live /\ (InOrder => i = 1)
        /\ request["hook"] = Nothing
        /\ Answered(i)
        /\ CASE e.type = "completed" -> Reads("hook", Activation(e.session), 0)
             [] e.type # "completed" /\ known ->
                    Reads("hook", [status |-> e.status, demo |-> FALSE],
                          IF e.type = "deleted" THEN e.session ELSE 0)
             [] e.type # "completed" /\ ~ known -> UNCHANGED request
        /\ UNCHANGED <<live, row, stripe, recorded>>

-----------------------------------------------------------------------------
Init ==
    /\ live \in BOOLEAN
    /\ row = NoRow
    /\ stripe = <<>> /\ events = <<>> /\ recorded = {}
    /\ request = [r \in Requests |-> Nothing]
    /\ left = [sessions |-> MaxSessions, changes |-> MaxChanges,
               pages |-> MaxPages, redeliveries |-> MaxRedeliveries]

Next ==
    \/ \E plan \in Plans : DemoCheckout(plan) \/ Checkout(plan)
    \/ \E s \in Sessions : Returns(s) \/ Paid(s) \/ Lapses(s) \/ Recovers(s) \/ Ended(s)
    \/ \E i \in DOMAIN events : Receives(i)
    \/ \E r \in Requests : Writes(r)
    \/ GoesLive

Spec == Init /\ [][Next]_vars

-----------------------------------------------------------------------------
(* A statement of the code's comments that the code does not keep.         *)

\* success (billing.py:281): the webhook is the source of truth.  Once it has
\* written that a subscription is canceled, the row does not show it active.
WebhookDecides ==
    row.status = "active" => row.subscription \notin recorded
=============================================================================
