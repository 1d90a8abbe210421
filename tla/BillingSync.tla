----------------------------- MODULE BillingSync -----------------------------
(***************************************************************************)
(* How the local subscription row of one user follows the subscriptions    *)
(* the user has at Stripe (dashboard/src/services/system/                  *)
(* webhookHandlers.service.ts, app/api/webhooks/stripe/route.ts).          *)
(*                                                                         *)
(* Stripe changes and sends events, at least once and in any order.  Each  *)
(* delivery is a handler of its own that awaits the database and Stripe    *)
(* between its steps; so do the syncs a user's own request starts.  Stripe *)
(* redelivers what was not answered with 200: a run that threw, but not    *)
(* one whose database error a repository function turned into null.        *)
(***************************************************************************)
EXTENDS Naturals, FiniteSets, FiniteSetsExt

CONSTANTS
  Handlers,    \* handler runs at the same time
  MaxSubs,     \* bound: subscriptions created at Stripe
  MaxTwists    \* bound: other changes at Stripe, failed runs and cancels,
               \* swallowed errors, redeliveries and runs of the user's own, together

ASSUME BillingAssumption ==
  /\ IsFiniteSet(Handlers)
  /\ MaxSubs \in Nat \ {0}
  /\ MaxTwists \in Nat

VARIABLES
  stripe,      \* stripe[s]: status and tier of subscription s; ids in order of creation
  events,      \* events to be delivered: <<kind, s>>
  row,         \* the Subscription row: paymentSubscriptionId (0 none), tier, status
  retention,   \* the tier whose ceiling the retention settings were last synced to
  job,         \* job[h]: the handler run h, see NoJob
  refunded,    \* subscriptions whose payment was refunded
  twists,      \* how many of them have happened
  faults,      \* history: "run" a run failed half way, "cancel" a cancel was not
               \* made, "dead" a checkout provisioned a canceled subscription
  unread,      \* history: subscriptions with a change that was answered as handled
               \* but never read, and that were not brought up to date since
  overlap      \* history: "none", only "syncs" of one subscription or any "runs" overlapped

vars == <<stripe, events, row, retention, job, refunded, twists, faults, unread, overlap>>

Sub == 1 .. MaxSubs
Tier == {"growth", "professional"}
Live == {"active", "past_due", "unpaid"}              \* LIVE_SUBSCRIPTION_STATUSES
TierRetaining == {"active", "past_due"}               \* TIER_RETAINING_STATUSES
Absent == [status |-> "none", tier |-> "growth"]
Starter == [sub |-> 0, tier |-> "growth", status |-> "active"]

\* tier and fresh are what the run read of the row and of Stripe; duplicates
\* what it has still to cancel and refund.
NoJob == [kind |-> "none", sub |-> 0, step |-> "none", own |-> FALSE,
          tier |-> "growth", fresh |-> Absent, duplicates |-> {}, won |-> TRUE]

Init ==
  /\ stripe = [s \in Sub |-> Absent]
  /\ events = {}
  /\ row = Starter
  /\ retention = "growth"
  /\ job = [h \in Handlers |-> NoJob]
  /\ refunded = {}
  /\ twists = 0
  /\ faults = {}
  /\ unread = {}
  /\ overlap = "none"

-----------------------------------------------------------------------------
(* Stripe.                                                                 *)

Twist == twists < MaxTwists /\ twists' = twists + 1

StripeSends(s, status, tier, kinds) ==
  /\ stripe' = [stripe EXCEPT ![s] = [status |-> status, tier |-> tier]]
  /\ events' = events \cup (kinds \X {s})
  /\ UNCHANGED <<row, retention, job, refunded, faults, unread, overlap>>

\* A checkout session completes; several may have been open.
CheckoutCompletes(s, tier) ==
  /\ stripe[s].status = "none" /\ \A t \in 1 .. s - 1 : stripe[t].status # "none"
  /\ StripeSends(s, "active", tier, {"checkout"})
  /\ UNCHANGED twists

PlanChanges(s) ==
  /\ stripe[s].status = "active"
  /\ StripeSends(s, "active", CHOOSE t \in Tier : t # stripe[s].tier, {"updated"})

PaymentFails(s) ==
  /\ stripe[s].status = "active"
  /\ StripeSends(s, "past_due", stripe[s].tier, {"updated", "payment_failed"})

RetriesExhausted(s) ==
  /\ stripe[s].status = "past_due"
  /\ StripeSends(s, "unpaid", stripe[s].tier, {"updated"})

PaymentRecovers(s) ==
  /\ stripe[s].status \in {"past_due", "unpaid"}
  /\ StripeSends(s, "active", stripe[s].tier, {"updated"})

SubscriptionEnds(s) ==
  /\ stripe[s].status \in Live
  /\ StripeSends(s, "canceled", stripe[s].tier, {"deleted"})

StripeChanges ==
  \/ \E s \in Sub, tier \in Tier : CheckoutCompletes(s, tier)
  \/ /\ Twist
     /\ \E s \in Sub : \/ PlanChanges(s) \/ PaymentFails(s) \/ RetriesExhausted(s)
                       \/ PaymentRecovers(s) \/ SubscriptionEnds(s)

-----------------------------------------------------------------------------
(* The route, and the user's own runs.                                     *)

Running == {h \in Handlers : job[h].kind # "none"}

FirstStep(kind) == IF kind = "checkout" THEN "retrieve" ELSE "read"

Start(h, kind, s, own) ==
  /\ job[h].kind = "none"
  /\ job' = [job EXCEPT ![h] = [NoJob EXCEPT !.kind = kind, !.sub = s, !.own = own,
                                             !.step = FirstStep(kind)]]
  /\ overlap' = IF Running = {} THEN overlap
                ELSE IF overlap # "runs" /\ \A g \in Running \cup {h} : job'[g].kind = "updated"
                THEN "syncs" ELSE "runs"
  /\ UNCHANGED <<stripe, row, retention, refunded, faults, unread>>

\* POST dispatches on the type of the event.
Deliver(h, e) ==
  /\ e \in events
  /\ events' = events \ {e}
  /\ Start(h, e[1], e[2], FALSE)
  /\ UNCHANGED twists

\* syncCheckoutSession and persistPaidSubscription run the same functions.
UserSyncs(h, s, kind) ==
  /\ stripe[s].status # "none" /\ Twist
  /\ kind = "updated" => stripe[s].status = "active" /\ row.sub = s
  /\ Start(h, kind, s, TRUE)
  /\ UNCHANGED events

Goto(h, step) == job' = [job EXCEPT ![h].step = step]
Done(h) == job' = [job EXCEPT ![h] = NoJob]

\* The run throws or the process ends: Stripe sends its event again, the
\* user's own run is lost.
RunFails(h) ==
  /\ h \in Running /\ Twist
  /\ faults' = faults \cup {"run"}
  /\ events' = IF job[h].own THEN events ELSE events \cup {<<job[h].kind, job[h].sub>>}
  /\ Done(h)
  /\ UNCHANGED <<stripe, row, retention, refunded, unread, overlap>>

\* An event that was handled is delivered once more.
Redelivered(s, kind) ==
  /\ stripe[s].status # "none" /\ Twist
  /\ kind = "deleted" => stripe[s].status = "canceled"
  /\ <<kind, s>> \notin events
  /\ events' = events \cup {<<kind, s>>}
  /\ UNCHANGED <<stripe, row, retention, job, refunded, faults, unread, overlap>>

-----------------------------------------------------------------------------
(* The steps of a run, one per await.                                      *)

OnlyJob == UNCHANGED <<stripe, events, row, retention, refunded, twists, faults, unread, overlap>>

\* findSubscriptionByPaymentId.  Only a sync goes on without a row, to find
\* after the retrieve that there is nothing to do or that Stripe may drop it.
ReadLocal(h) ==
  /\ job[h].step = "read"
  /\ LET found == row.sub = job[h].sub
         next  == IF job[h].kind = "deleted" THEN "revoke" ELSE "retrieve"
     IN IF \/ ~found
           \/ job[h].kind = "payment_failed" /\ row.status \in {"past_due", "unpaid"}
        THEN Done(h)
        ELSE job' = [job EXCEPT ![h].step = next, ![h].tier = row.tier]
  /\ OnlyJob

\* getSubscriptionByPaymentId catches a database error and returns null: the
\* run ends as without a row, and the event is answered as handled.  Of a
\* failed payment an `updated` event of its own tells as well.
ReadSwallowed(h) ==
  /\ job[h].step = "read" /\ Twist
  /\ unread' = IF job[h].own \/ job[h].kind = "payment_failed" THEN unread ELSE unread \cup {job[h].sub}
  /\ Done(h)
  /\ UNCHANGED <<stripe, events, row, retention, refunded, faults, overlap>>

\* stripe.subscriptions.retrieve.
Retrieve(h) ==
  /\ job[h].step = "retrieve"
  /\ LET s == stripe[job[h].sub]
         next == CASE job[h].kind = "checkout" -> "list"
                   [] job[h].kind = "payment_failed" -> "setStatus"
                   [] OTHER -> IF s.status \in TierRetaining THEN "upsert" ELSE "revoke"
     IN IF job[h].kind = "payment_failed" /\ s.status \notin {"past_due", "unpaid"}
        THEN Done(h)
        ELSE job' = [job EXCEPT ![h].step = next, ![h].fresh = s]
  /\ OnlyJob

\* Fault: only an active subscription counts as live.
ListDuplicatesActiveOnly(h) ==
  /\ job[h].step = "list"
  /\ LET live == {s \in Sub : stripe[s].status = "active"}
         duplicates == live \ {s \in live : \A t \in live : s <= t}
     IN job' = [job EXCEPT ![h].step = "cancel",
                           ![h].duplicates = duplicates,
                           ![h].won = duplicates = {} \/ job[h].sub \in live \ duplicates]
  /\ OnlyJob

\* resolveDuplicateSubscriptions: the oldest live subscription wins.
ListDuplicates(h) ==
  /\ job[h].step = "list"
  /\ LET live == {s \in Sub : stripe[s].status \in Live}
         duplicates == live \ {s \in live : \A t \in live : s <= t}
     IN job' = [job EXCEPT ![h].step = "cancel",
                           ![h].duplicates = duplicates,
                           ![h].won = duplicates = {} \/ job[h].sub \in live \ duplicates]
  /\ OnlyJob

\* cancelAndRefundDuplicate, one after the other: first the cancel.  Whatever
\* it throws is ignored.
CancelDuplicate(h) ==
  /\ job[h].step = "cancel" /\ job[h].duplicates # {}
  /\ LET s == Min(job[h].duplicates)
     IN \/ /\ stripe[s].status = "canceled"
           /\ UNCHANGED <<stripe, events, twists, faults>>
        \/ /\ stripe[s].status # "canceled"
           /\ stripe' = [stripe EXCEPT ![s].status = "canceled"]
           /\ events' = events \cup {<<"deleted", s>>}
           /\ UNCHANGED <<twists, faults>>
        \/ /\ stripe[s].status # "canceled" /\ Twist
           /\ faults' = faults \cup {"cancel"}
           /\ UNCHANGED <<stripe, events>>
  /\ Goto(h, "refund")
  /\ UNCHANGED <<row, retention, refunded, unread, overlap>>

\* Then the invoice lookup and the refund, of which either may throw.  Nothing is
\* refunded when no payment of the invoice succeeded; a second refund of a
\* subscription is the same refund.
RefundDuplicate(h) ==
  /\ job[h].step = "refund"
  /\ LET s == Min(job[h].duplicates)
     IN /\ refunded' \in {refunded, refunded \cup {s}}
        /\ job' = [job EXCEPT ![h].step = "cancel", ![h].duplicates = @ \ {s}]
  /\ UNCHANGED <<stripe, events, row, retention, twists, faults, unread, overlap>>

\* The verdict: a duplicate is not provisioned.
Verdict(h) ==
  /\ job[h].step = "cancel" /\ job[h].duplicates = {}
  /\ IF job[h].won THEN Goto(h, "upsert") ELSE Done(h)
  /\ OnlyJob

\* Fault: retention is synced for every sync but not for a checkout.
RetentionDueOnChange(h) == job[h].kind # "checkout" /\ job[h].tier # job[h].fresh.tier

\* A checkout always syncs the retention, a sync when it saw the tier change.
RetentionDue(h) == job[h].kind = "checkout" \/ job[h].tier # job[h].fresh.tier

\* Fault: the row is provisioned as active whatever Stripe says.
UpsertAsActive(h) ==
  /\ job[h].step = "upsert"
  /\ row' = [sub |-> job[h].sub, tier |-> job[h].fresh.tier, status |-> "active"]
  /\ unread' = unread \ {job[h].sub}
  /\ IF RetentionDue(h) THEN Goto(h, "retention") ELSE Done(h)
  /\ UNCHANGED <<stripe, events, retention, refunded, twists, faults, overlap>>

\* upsertUserSubscription with what was retrieved.
Upsert(h) ==
  /\ job[h].step = "upsert"
  /\ row' = [sub |-> job[h].sub, tier |-> job[h].fresh.tier, status |-> job[h].fresh.status]
  /\ faults' = IF job[h].kind = "checkout" /\ stripe[job[h].sub].status = "canceled"
               THEN faults \cup {"dead"} ELSE faults
  /\ unread' = unread \ {job[h].sub}
  /\ IF RetentionDue(h) THEN Goto(h, "retention") ELSE Done(h)
  /\ UNCHANGED <<stripe, events, retention, refunded, twists, overlap>>

\* setSubscriptionStatus.
SetStatus(h) ==
  /\ job[h].step = "setStatus"
  /\ row' = [row EXCEPT !.status = job[h].fresh.status]
  /\ Done(h)
  /\ UNCHANGED <<stripe, events, retention, refunded, twists, faults, unread, overlap>>

\* updateSubscriptionStatus catches a database error and returns null: the event
\* is answered as handled.
StatusSwallowed(h) ==
  /\ job[h].step = "setStatus" /\ Twist
  /\ Done(h)
  /\ UNCHANGED <<stripe, events, row, retention, refunded, faults, unread, overlap>>

\* The Stripe link a revocation leaves: a subscription a payment may revive
\* keeps it.
LinkKept(h) ==
  IF job[h].kind = "updated" /\ job[h].fresh.status # "canceled" THEN job[h].sub ELSE 0

\* Fault: the revocation keeps the paid tier in the row.
RevokeKeepsTier(h) ==
  /\ job[h].step = "revoke"
  /\ row' = [row EXCEPT !.sub = LinkKept(h)]
  /\ unread' = unread \ {job[h].sub}
  /\ Done(h)
  /\ UNCHANGED <<stripe, events, retention, refunded, twists, faults, overlap>>

\* revokePaidEntitlement: back to the free plan.
Revoke(h) ==
  /\ job[h].step = "revoke"
  /\ row' = [Starter EXCEPT !.sub = LinkKept(h)]
  /\ unread' = unread \ {job[h].sub}
  /\ IF job[h].tier # "growth"
     THEN job' = [job EXCEPT ![h].step = "retention", ![h].fresh.tier = "growth"]
     ELSE Done(h)
  /\ UNCHANGED <<stripe, events, retention, refunded, twists, faults, overlap>>

\* syncRetentionToTier; the mail it enqueues is left out.
SyncRetention(h) ==
  /\ job[h].step = "retention"
  /\ retention' = job[h].fresh.tier
  /\ Done(h)
  /\ UNCHANGED <<stripe, events, row, refunded, twists, faults, unread, overlap>>

-----------------------------------------------------------------------------
Step(h) ==
  \/ ReadLocal(h) \/ Retrieve(h) \/ ListDuplicates(h) \/ CancelDuplicate(h) \/ RefundDuplicate(h)
  \/ Verdict(h) \/ Upsert(h) \/ SetStatus(h) \/ Revoke(h) \/ SyncRetention(h)

Swallowed(h) == ReadSwallowed(h) \/ StatusSwallowed(h)

Next ==
  \/ StripeChanges
  \/ \E h \in Handlers : (\E e \in events : Deliver(h, e)) \/ Step(h) \/ RunFails(h) \/ Swallowed(h)
  \/ \E h \in Handlers, s \in Sub, kind \in {"checkout", "updated"} : UserSyncs(h, s, kind)
  \/ \E s \in Sub, kind \in {"checkout", "updated", "deleted"} : Redelivered(s, kind)

Spec == Init /\ [][Next]_vars

-----------------------------------------------------------------------------
Kinds == {"checkout", "updated", "deleted", "payment_failed"}
Statuses == Live \cup {"none", "canceled"}
Row == [sub : 0 .. MaxSubs, tier : Tier, status : Statuses]

\* Every variable has its type, and a row without a subscription is on the free
\* tier.
TypeOK ==
  /\ stripe \in [Sub -> [status : Statuses, tier : Tier]]
  /\ events \subseteq Kinds \X Sub
  /\ row \in Row /\ (row.sub = 0 => row.tier = "growth")
  /\ retention \in Tier
  /\ \A h \in Handlers :
       /\ job[h].kind \in Kinds \cup {"none"}
       /\ job[h].sub \in 0 .. MaxSubs
       /\ job[h].tier \in Tier
       /\ job[h].duplicates \subseteq Sub
  /\ refunded \subseteq Sub /\ unread \subseteq Sub
  /\ twists \in 0 .. MaxTwists

Quiet == events = {} /\ Running = {}

\* resolveEntitledTier of the row, and what subscription s entitles to.
EntitledTier == IF row.status = "active" THEN row.tier ELSE "growth"
PaidTier(s) == IF stripe[s].status = "active" THEN stripe[s].tier ELSE "growth"
LiveSubs == {s \in Sub : stripe[s].status \in Live}

\* The tier a user is entitled to is the one the linked subscription pays for,
\* once every event is handled one at a time: in any order, more than once and
\* after runs that failed half way or could not write a payment's failure.  A
\* change whose read failed is lost, and made up for by the next run that writes.
EntitlementFollowsStripe ==
  Quiet /\ overlap = "none" /\ row.sub # 0 /\ row.sub \notin unread => EntitledTier = PaidTier(row.sub)

\* With every event handled one at a time the retention settings are those of
\* the row's tier, unless a run failed between the row and the retention.
RetentionFollowsTier == Quiet /\ overlap = "none" /\ "run" \notin faults => retention = row.tier

\* However the handlers of two checkouts overlap, fail and are repeated, the
\* customer is left with one live subscription, if no cancel was lost.
OneLiveSubscription == Quiet /\ "cancel" \notin faults => Cardinality(LiveSubs) <= 1

-----------------------------------------------------------------------------
(* What the code says and does not do.                                     *)

\* handleCheckoutCompleted: "created duplicate subscription ...; refunded,
\* skipping provisioning".
RefundedIsNotProvisioned == row.sub \notin refunded

\* NonRetryableWebhookError: a "failure that no Stripe retry can fix (missing
\* metadata, config drift, orphaned subscription)".
NoRetryWouldFix ==
  Quiet /\ overlap = "none" /\ row.sub # 0 => EntitledTier = PaidTier(row.sub)

\* syncSubscriptionFromStripe: "Idempotent so concurrent calls are safe."
ConcurrentSyncsAreSafe ==
  Quiet /\ faults = {} /\ unread = {} /\ overlap # "runs" /\ row.sub # 0
    => EntitledTier = PaidTier(row.sub)
=============================================================================
